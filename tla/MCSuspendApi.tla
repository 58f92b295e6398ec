--------------------------- MODULE MCSuspendApi ---------------------------
(* SuspendApi with two bus names, one of which two processes ask for. *)
EXTENDS SuspendApi

MCApp == {"test1", "test1b", "test2"}
MCName == {"app_test1", "app_test2"}
MCNameOf == [test1 |-> "app_test1", test1b |-> "app_test1", test2 |-> "app_test2"]
=============================================================================
