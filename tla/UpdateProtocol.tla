--------------------------- MODULE UpdateProtocol ---------------------------
(***************************************************************************)
(* What the update tool promises to the user and to recovery, without      *)
(* images, chunks and the page cache:                                      *)
(*                                                                         *)
(*   - recovery is started only with a command that the run of the tool    *)
(*     that left it was asked for: never with one of another run, and      *)
(*     never by a run that gave up;                                        *)
(*   - whether the recovery partition on the medium is the image's changes *)
(*     only at the end of a session in which an update with a path was run,*)
(*     and then power may fail at any time;                                *)
(*   - but when such an update ends its session itself, the partition is   *)
(*     that of its image.                                                  *)
(*                                                                         *)
(* A session is the time between two boots.                                *)
(***************************************************************************)
VARIABLES
    mode,     \* "system", "tool" or "recovery"
    asked,    \* the commands that the run of the tool may leave
    command,  \* the one the bootloader will find, or "clear"
    whole,    \* the recovery partition on the medium is the image's
    pending,  \* what was written of it in this session is not all on the medium
    rebooted  \* the tool ended the last session itself, and has not been run since

vars == <<mode, asked, command, whole, pending, rebooted>>

\* A factory reset asks for nothing else; an update for one image, an update with
\* a path also for the one that is there in case its own cannot be asked for.
Requests == {{"wipe"}, {"data"}, {"sd"}}
              \cup {{"given"}, {"given", "data"}, {"given", "sd"}}
Flashes == "given" \in asked

Init ==
    /\ mode = "system"
    /\ asked = {} /\ command = "clear"
    /\ whole \in BOOLEAN /\ pending = FALSE /\ rebooted = FALSE

Begin ==
    /\ mode = "system"
    /\ mode' = "tool"
    /\ asked' \in Requests
    /\ rebooted' = FALSE
    /\ UNCHANGED <<command, whole, pending>>

\* There is no image to ask for.
Refuse ==
    /\ mode = "system"
    /\ rebooted' = FALSE
    /\ UNCHANGED <<mode, asked, command, whole, pending>>

\* A write: then the page cache differs from the medium or, by chance, does not.
Flash ==
    /\ mode = "tool" /\ Flashes
    /\ pending' \in BOOLEAN
    /\ UNCHANGED <<mode, asked, command, whole, rebooted>>

\* Also because a write failed, and then a part of it may have been done.
GiveUp ==
    /\ mode = "tool"
    /\ mode' = "system"
    /\ asked' = {}
    /\ IF Flashes THEN pending' \in BOOLEAN ELSE UNCHANGED pending
    /\ UNCHANGED <<command, whole, rebooted>>

\* The session ends.  Without a command the system is booted again.
Boot(c) ==
    /\ command' = c
    /\ mode' = IF c = "clear" THEN "system" ELSE "recovery"
    /\ asked' = {} /\ pending' = FALSE

Reboot(c) ==
    /\ mode = "tool" /\ c \in asked \cup {"clear"}
    /\ Boot(c) /\ rebooted' = TRUE
    /\ whole' \in BOOLEAN
    /\ IF Flashes THEN whole' = TRUE ELSE ~pending => whole' = whole

PowerCut(c) ==
    /\ mode \in {"system", "tool"} /\ c \in asked \cup {"clear"}
    /\ Boot(c) /\ rebooted' = FALSE
    /\ whole' \in BOOLEAN
    /\ ~pending => whole' = whole

Recover ==
    /\ mode = "recovery"
    /\ mode' = "system"
    /\ command' = "clear" /\ rebooted' = FALSE
    /\ UNCHANGED <<asked, whole, pending>>

Next == \/ Begin \/ Refuse \/ Flash \/ GiveUp \/ Recover
        \/ \E c \in asked \cup {"clear"} : Reboot(c) \/ PowerCut(c)

Spec == Init /\ [][Next]_vars
=============================================================================
