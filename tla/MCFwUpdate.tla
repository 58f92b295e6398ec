----------------------------- MODULE MCFwUpdate -----------------------------
(* FwUpdate with images of a few bytes: tagged and untagged ones, with the      *)
(* recovery item first, second, absent, longer than the file or than the        *)
(* partition, and with an offset marked as beyond 4 GiB.                        *)
EXTENDS FwUpdate

MCWord == 16

Other == [recovery |-> FALSE, offset |-> 2, size |-> 1, far |-> FALSE]
Recovery(o, n) == [recovery |-> TRUE, offset |-> o, size |-> n, far |-> FALSE]
File(t, o, n, s) == [tag |-> t, dwFWOffset |-> o, fileSize |-> n, item |-> s]

MCImages == {
    File(TRUE, 1, 9, <<Other, Recovery(3, 3)>>),
    File(TRUE, 0, 8, <<Recovery(4, 4)>>),
    File(TRUE, 1, 6, <<Recovery(3, 3), Other>>),
    File(TRUE, 1, 12, <<Recovery(2, 5)>>),
    File(TRUE, 1, 9, <<[Recovery(3, 3) EXCEPT !.far = TRUE]>>),
    File(TRUE, 2, 8, <<Other>>),
    File(TRUE, 0, 0, <<>>),
    File(FALSE, 1, 9, <<Recovery(3, 3)>>) }
=============================================================================
