-------------------------- MODULE SuspendProtocol --------------------------
(***************************************************************************)
(* What pm-suspend-api promises to an application and to pm-suspend,       *)
(* without the bus, its names and its queues:                              *)
(*                                                                         *)
(*   - the system sleeps only when no client of the round is still waited  *)
(*     for: each one has answered, has been given up, or is gone;          *)
(*   - a client that answered has been suspended by its answer and stays   *)
(*     so until the round is over;                                         *)
(*   - a round is given up only if a call of it failed.                    *)
(*                                                                         *)
(* A client is waited for no longer than dbus-send waits: one that was     *)
(* given up may finish its callback at any time, except in a sleeping      *)
(* system, and so may the callbacks of an earlier round.                   *)
(***************************************************************************)
CONSTANT Client

VARIABLES
    round,      \* "idle", "suspend", "asleep" or "resume"
    waiting,    \* the clients whose answer the round still owes
    ready,      \* the clients that answered
    suspended,  \* the clients whose last callback was the one for suspend
    missed      \* a call of this round failed

vars == <<round, waiting, ready, suspended, missed>>

Init ==
    /\ round = "idle"
    /\ waiting = {} /\ ready = {} /\ suspended = {}
    /\ missed = FALSE

\* pm-suspend starts with the clients that listen.
Begin ==
    /\ round = "idle"
    /\ round' = "suspend"
    /\ waiting' \in SUBSET Client
    /\ UNCHANGED <<ready, suspended, missed>>

\* A client has finished its callback and the round knows.
Answer(c) ==
    /\ round = "suspend"
    /\ waiting' = waiting \ {c}
    /\ ready' = ready \cup {c}
    /\ suspended' = suspended \cup {c}
    /\ UNCHANGED <<round, missed>>

\* A callback ends that the round does not wait for.
Unheard(c) ==
    /\ round # "asleep" /\ c \notin ready
    /\ suspended' \in {suspended \cup {c}, suspended \ {c}}
    /\ UNCHANGED <<round, waiting, ready, missed>>

\* A call ends in an error; at most the client it was for is given up.
Miss ==
    /\ round = "suspend"
    /\ \/ UNCHANGED waiting
       \/ \E c \in waiting : waiting' = waiting \ {c}
    /\ missed' = TRUE
    /\ UNCHANGED <<round, ready, suspended>>

\* A client is gone, perhaps with a call to it.
Leave(c) ==
    /\ round # "asleep"
    /\ waiting' = waiting \ {c}
    /\ ready' = ready \ {c}
    /\ suspended' = suspended \ {c}
    /\ missed' \in {missed, round = "suspend"}
    /\ UNCHANGED round

Sleep ==
    /\ round = "suspend" /\ waiting = {}
    /\ round' = "asleep"
    /\ missed' = FALSE
    /\ UNCHANGED <<waiting, ready, suspended>>

\* The round ends, from sleep or because a call failed, and the clients are told.
Resume ==
    /\ round = "asleep" \/ (round = "suspend" /\ missed)
    /\ round' = "resume"
    /\ waiting' = {} /\ ready' = {}
    /\ missed' = FALSE
    /\ UNCHANGED suspended

End ==
    /\ round = "resume"
    /\ round' = "idle"
    /\ UNCHANGED <<waiting, ready, suspended, missed>>

Next ==
    \/ \E c \in Client : Answer(c) \/ Unheard(c) \/ Leave(c)
    \/ Begin \/ Miss \/ Sleep \/ Resume \/ End

Spec == Init /\ [][Next]_vars
=============================================================================
