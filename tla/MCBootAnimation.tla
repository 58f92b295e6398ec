-------------------------- MODULE MCBootAnimation --------------------------
(* BootAnimation with six buffer objects for four slots, so that two may be    *)
(* forgotten or in the making while the slots are full.                        *)
EXTENDS BootAnimation, TLC
CONSTANTS b1, b2, b3, b4, b5, b6
MCBos == {b1, b2, b3, b4, b5, b6}
Symmetry == Permutations(MCBos)
=============================================================================
