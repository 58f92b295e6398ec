--------------------------- MODULE MCSimpleConfig ---------------------------
(***************************************************************************)
(* Two access points: one on a channel of the plan, one on a channel main  *)
(* never listens to.                                                       *)
(***************************************************************************)
EXTENDS SimpleConfig

CONSTANTS near, far

MCAPs == {near, far}
MCChannelOf == [a \in MCAPs |-> IF a = near THEN 6 ELSE 11]
MCSecurityOf == [a \in MCAPs |-> IF a = near THEN "WPA" ELSE "OPEN"]
MCPlan == <<1, 6>>
=============================================================================
