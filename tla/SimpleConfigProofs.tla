------------------------- MODULE SimpleConfigProofs -------------------------
(***************************************************************************)
(* Proofs about rtw_simple_config for any access points, plan, presses of  *)
(* the button and queue of captured frames.  RecvInv says that main comes  *)
(* back to pthread_create only with g_reinit set; JoinInv that nobody can  *)
(* touch the profile from SC_STATUS_DONE on, because the only thread that  *)
(* could looks at the status before each frame.                            *)
(***************************************************************************)
EXTENDS SimpleConfig, TLAPS

USE SimpleConfigAssumption DEF air, files, rcvr, lib, pbc, ctrl

-----------------------------------------------------------------------------
(* Type correctness.                                                       *)

SocketOK ==
  /\ pkts \in Seq(APs \union {NoAP})
  /\ Len(pkts) <= MaxPkts
  /\ frame \in APs \union {NoAP}

RestOK ==
  /\ pc \in MainPcs
  /\ chidx \in 1 .. Len(Plan)
  /\ mode \in {"managed", "monitor"}
  /\ seen \in SUBSET APs
  /\ tries \in 0 .. MaxScans /\ (pc = "collect" => tries < MaxScans)
  /\ conf \in Confs /\ wpa \in Confs
  /\ threads \in Nat
  /\ rcv \in {"none", "setup", "recv", "parse", "exited"}
  /\ status \in {"STOP", "SYNC", "DECODE", "DONE"}
  /\ profile \in APs \union {NoAP}
  /\ presses \in 0 .. Presses
  /\ ctrlCmd \in Requests \union {"SCAN"}

FlagsOK ==
  /\ removing \in BOOLEAN /\ fixSa \in BOOLEAN /\ timer \in BOOLEAN /\ reinit \in BOOLEAN
  /\ acceptControl \in BOOLEAN /\ configSuccess \in BOOLEAN

LEMMA TypeParts == SocketOK /\ RestOK /\ FlagsOK => TypeOK
BY DEF TypeOK, SocketOK, RestOK, FlagsOK

LEMMA InitParts == Init => SocketOK /\ RestOK /\ FlagsOK
<1> SUFFICES ASSUME Init PROVE SocketOK /\ RestOK /\ FlagsOK
    OBVIOUS
<1>1. SocketOK
    BY DEF Init, SocketOK
<1>2. RestOK
    BY DEF Init, RestOK, MainPcs, Confs, Requests
<1>3. FlagsOK
    BY DEF Init, FlagsOK
<1> QED
    BY <1>1, <1>2, <1>3

LEMMA SocketStep ==
    ASSUME SocketOK, [Next]_vars
    PROVE  SocketOK'
<1> USE DEF SocketOK
<1>1. CASE Reinitialise
    BY <1>1 DEF Reinitialise, Scan, Confs
<1>2. CASE MonitorOn
    BY <1>2 DEF MonitorOn
<1>3. CASE CreateReceiver
    BY <1>3 DEF CreateReceiver
<1>4. CASE ClearReinit
    BY <1>4 DEF ClearReinit
<1>5. CASE StartLibrary
    BY <1>5 DEF StartLibrary, Restart
<1>6. CASE Hop
    BY <1>6 DEF Hop
<1>7. CASE TestDecode
    BY <1>7 DEF TestDecode
<1>8. CASE Found
    BY <1>8 DEF Found, Planned
<1>9. CASE NotFound
    BY <1>9 DEF NotFound
<1>10. CASE Rescan
    BY <1>10 DEF Rescan, Scan
<1>11. CASE Stay
    BY <1>11 DEF Stay
<1>12. CASE Check
    BY <1>12 DEF Check
<1>13. CASE Again
    BY <1>13 DEF Again, Restart
<1>14. CASE Leave
    BY <1>14 DEF Leave
<1>15. CASE Collect
    BY <1>15 DEF Collect, Scan, Stored, Confs
<1>16. CASE Connect
    BY <1>16 DEF Connect, Confs
<1>17. CASE CheckIp
    BY <1>17 DEF CheckIp
<1>18. CASE ControlReinit
    BY <1>18 DEF ControlReinit
<1>19. CASE \E s \in ScanMsgs : NoControl(s)
    BY <1>19 DEF NoControl, AfterScan, Execute, Save, Delete, Scan, Stored, Confs
<1>20. CASE \E s \in ScanMsgs, m \in CtrlMsgs : ReadControl(s, m)
    BY <1>20 DEF ReadControl, AfterScan
<1>21. CASE \E a \in APs \union {NoAP} : Capture(a)
    BY <1>21 DEF Capture, Running
<1>22. CASE Open
    BY <1>22 DEF Open, Running
<1>23. CASE OpenFails
    BY <1>23 DEF OpenFails, Running
<1>24. CASE Receive
    BY <1>24 DEF Receive, Running
<1>25. CASE ReceiveFails
    BY <1>25 DEF ReceiveFails, Running
<1>26. CASE Ignored
    BY <1>26 DEF Ignored, Parsed, Running
<1>27. CASE Synced
    BY <1>27 DEF Synced, Parsed, Running
<1>28. CASE Decoded
    BY <1>28 DEF Decoded, Parsed, Running
<1>29. CASE Rejected
    BY <1>29 DEF Rejected, Parsed, Restart, Running
<1>30. CASE TimerStops
    BY <1>30 DEF TimerStops, Running
<1>31. CASE Press
    BY <1>31 DEF Press, Running
<1>32. CASE Interrupt
    BY <1>32 DEF Interrupt, Running
<1>33. CASE RemoveConf
    BY <1>33 DEF RemoveConf
<1>34. CASE UNCHANGED vars
    BY <1>34 DEF vars
<1> QED
    BY <1>1, <1>2, <1>3, <1>4, <1>5, <1>6, <1>7, <1>8, <1>9, <1>10, <1>11, <1>12, <1>13, <1>14, <1>15, <1>16, <1>17, <1>18, <1>19, <1>20, <1>21, <1>22, <1>23, <1>24, <1>25, <1>26, <1>27, <1>28, <1>29, <1>30, <1>31, <1>32, <1>33, <1>34 DEF Next, Main, Receiver

LEMMA RestStep ==
    ASSUME SocketOK, RestOK, [Next]_vars
    PROVE  RestOK'
<1> USE DEF RestOK, MainPcs, Requests
<1>0. frame \in APs \union {NoAP}
    BY DEF SocketOK
<1>1. CASE Reinitialise
    BY <1>0, <1>1 DEF Reinitialise, Scan, Confs
<1>2. CASE MonitorOn
    BY <1>0, <1>2 DEF MonitorOn
<1>3. CASE CreateReceiver
    BY <1>0, <1>3 DEF CreateReceiver
<1>4. CASE ClearReinit
    BY <1>0, <1>4 DEF ClearReinit
<1>5. CASE StartLibrary
    BY <1>0, <1>5 DEF StartLibrary, Restart
<1>6. CASE Hop
    BY <1>0, <1>6 DEF Hop
<1>7. CASE TestDecode
    BY <1>0, <1>7 DEF TestDecode
<1>8. CASE Found
    BY <1>0, <1>8 DEF Found, Planned
<1>9. CASE NotFound
    BY <1>0, <1>9 DEF NotFound
<1>10. CASE Rescan
    BY <1>0, <1>10 DEF Rescan, Scan
<1>11. CASE Stay
    BY <1>0, <1>11 DEF Stay
<1>12. CASE Check
    BY <1>0, <1>12 DEF Check
<1>13. CASE Again
    BY <1>0, <1>13 DEF Again, Restart
<1>14. CASE Leave
    BY <1>0, <1>14 DEF Leave
<1>15. CASE Collect
    BY <1>0, <1>15 DEF Collect, Scan, Stored, Confs
<1>16. CASE Connect
    BY <1>0, <1>16 DEF Connect, Confs
<1>17. CASE CheckIp
    BY <1>0, <1>17 DEF CheckIp
<1>18. CASE ControlReinit
    BY <1>0, <1>18 DEF ControlReinit
<1>19. CASE \E s \in ScanMsgs : NoControl(s)
    BY <1>0, <1>19 DEF NoControl, AfterScan, Execute, Save, Delete, Scan, Stored, Confs
<1>20. CASE \E s \in ScanMsgs, m \in CtrlMsgs : ReadControl(s, m)
    BY <1>0, <1>20 DEF ReadControl, AfterScan
<1>21. CASE \E a \in APs \union {NoAP} : Capture(a)
    BY <1>0, <1>21 DEF Capture, Running
<1>22. CASE Open
    BY <1>0, <1>22 DEF Open, Running
<1>23. CASE OpenFails
    BY <1>0, <1>23 DEF OpenFails, Running
<1>24. CASE Receive
    BY <1>0, <1>24 DEF Receive, Running
<1>25. CASE ReceiveFails
    BY <1>0, <1>25 DEF ReceiveFails, Running
<1>26. CASE Ignored
    BY <1>0, <1>26 DEF Ignored, Parsed, Running
<1>27. CASE Synced
    BY <1>0, <1>27 DEF Synced, Parsed, Running
<1>28. CASE Decoded
    BY <1>0, <1>28 DEF Decoded, Parsed, Running
<1>29. CASE Rejected
    BY <1>0, <1>29 DEF Rejected, Parsed, Restart, Running
<1>30. CASE TimerStops
    BY <1>0, <1>30 DEF TimerStops, Running
<1>31. CASE Press
    BY <1>0, <1>31 DEF Press, Running
<1>32. CASE Interrupt
    BY <1>0, <1>32 DEF Interrupt, Running, Confs
<1>33. CASE RemoveConf
    BY <1>0, <1>33 DEF RemoveConf, Confs
<1>34. CASE UNCHANGED vars
    BY <1>0, <1>34 DEF vars
<1> QED
    BY <1>1, <1>2, <1>3, <1>4, <1>5, <1>6, <1>7, <1>8, <1>9, <1>10, <1>11, <1>12, <1>13, <1>14, <1>15, <1>16, <1>17, <1>18, <1>19, <1>20, <1>21, <1>22, <1>23, <1>24, <1>25, <1>26, <1>27, <1>28, <1>29, <1>30, <1>31, <1>32, <1>33, <1>34 DEF Next, Main, Receiver

LEMMA FlagsStep ==
    ASSUME FlagsOK, [Next]_vars
    PROVE  FlagsOK'
<1> USE DEF FlagsOK
<1>1. CASE Reinitialise
    BY <1>1 DEF Reinitialise, Scan, Confs
<1>2. CASE MonitorOn
    BY <1>2 DEF MonitorOn
<1>3. CASE CreateReceiver
    BY <1>3 DEF CreateReceiver
<1>4. CASE ClearReinit
    BY <1>4 DEF ClearReinit
<1>5. CASE StartLibrary
    BY <1>5 DEF StartLibrary, Restart
<1>6. CASE Hop
    BY <1>6 DEF Hop
<1>7. CASE TestDecode
    BY <1>7 DEF TestDecode
<1>8. CASE Found
    BY <1>8 DEF Found, Planned
<1>9. CASE NotFound
    BY <1>9 DEF NotFound
<1>10. CASE Rescan
    BY <1>10 DEF Rescan, Scan
<1>11. CASE Stay
    BY <1>11 DEF Stay
<1>12. CASE Check
    BY <1>12 DEF Check
<1>13. CASE Again
    BY <1>13 DEF Again, Restart
<1>14. CASE Leave
    BY <1>14 DEF Leave
<1>15. CASE Collect
    BY <1>15 DEF Collect
<1>16. CASE Connect
    BY <1>16 DEF Connect, Confs
<1>17. CASE CheckIp
    BY <1>17 DEF CheckIp
<1>18. CASE ControlReinit
    BY <1>18 DEF ControlReinit
<1>19. CASE \E s \in ScanMsgs : NoControl(s)
    BY <1>19 DEF NoControl, AfterScan, Execute, Save, Delete
<1>20. CASE \E s \in ScanMsgs, m \in CtrlMsgs : ReadControl(s, m)
    BY <1>20 DEF ReadControl, AfterScan
<1>21. CASE \E a \in APs \union {NoAP} : Capture(a)
    BY <1>21 DEF Capture, Running
<1>22. CASE Open
    BY <1>22 DEF Open, Running
<1>23. CASE OpenFails
    BY <1>23 DEF OpenFails, Running
<1>24. CASE Receive
    BY <1>24 DEF Receive, Running
<1>25. CASE ReceiveFails
    BY <1>25 DEF ReceiveFails, Running
<1>26. CASE Ignored
    BY <1>26 DEF Ignored, Parsed, Running
<1>27. CASE Synced
    BY <1>27 DEF Synced, Parsed, Running
<1>28. CASE Decoded
    BY <1>28 DEF Decoded, Parsed, Running
<1>29. CASE Rejected
    BY <1>29 DEF Rejected, Parsed, Restart, Running
<1>30. CASE TimerStops
    BY <1>30 DEF TimerStops, Running
<1>31. CASE Press
    BY <1>31 DEF Press, Running
<1>32. CASE Interrupt
    BY <1>32 DEF Interrupt, Running
<1>33. CASE RemoveConf
    BY <1>33 DEF RemoveConf
<1>34. CASE UNCHANGED vars
    BY <1>34 DEF vars
<1> QED
    BY <1>1, <1>2, <1>3, <1>4, <1>5, <1>6, <1>7, <1>8, <1>9, <1>10, <1>11, <1>12, <1>13, <1>14, <1>15, <1>16, <1>17, <1>18, <1>19, <1>20, <1>21, <1>22, <1>23, <1>24, <1>25, <1>26, <1>27, <1>28, <1>29, <1>30, <1>31, <1>32, <1>33, <1>34 DEF Next, Main, Receiver

\* Type correctness for every value of the constants.
THEOREM TypeCorrect == Spec => []TypeOK
<1>1. SocketOK /\ RestOK /\ FlagsOK /\ [Next]_vars => (SocketOK /\ RestOK /\ FlagsOK)'
    BY SocketStep, RestStep, FlagsStep
<1> QED
    BY InitParts, <1>1, TypeParts, PTL DEF Spec
-----------------------------------------------------------------------------
(* One receiver.                                                           *)

RecvInv ==
  /\ threads \in {0, 1}
  /\ threads = 1 /\ pc \in {"init", "monitor", "create"} => reinit

LEMMA RecvStep ==
    ASSUME RecvInv, [Next]_vars
    PROVE  RecvInv'
<1> USE DEF RecvInv
<1>1. CASE Reinitialise
    BY <1>1 DEF Reinitialise, Scan, Confs
<1>2. CASE MonitorOn
    BY <1>2 DEF MonitorOn
<1>3. CASE CreateReceiver
    BY <1>3 DEF CreateReceiver
<1>4. CASE ClearReinit
    BY <1>4 DEF ClearReinit
<1>5. CASE StartLibrary
    BY <1>5 DEF StartLibrary, Restart
<1>6. CASE Hop
    BY <1>6 DEF Hop
<1>7. CASE TestDecode
    BY <1>7 DEF TestDecode
<1>8. CASE Found
    BY <1>8 DEF Found, Planned
<1>9. CASE NotFound
    BY <1>9 DEF NotFound
<1>10. CASE Rescan
    BY <1>10 DEF Rescan, Scan
<1>11. CASE Stay
    BY <1>11 DEF Stay
<1>12. CASE Check
    BY <1>12 DEF Check
<1>13. CASE Again
    BY <1>13 DEF Again, Restart
<1>14. CASE Leave
    BY <1>14 DEF Leave
<1>15. CASE Collect
    BY <1>15 DEF Collect, Scan, Stored, Confs
<1>16. CASE Connect
    BY <1>16 DEF Connect, Confs
<1>17. CASE CheckIp
    BY <1>17 DEF CheckIp
<1>18. CASE ControlReinit
    BY <1>18 DEF ControlReinit
<1>19. CASE \E s \in ScanMsgs : NoControl(s)
    BY <1>19 DEF NoControl, AfterScan, Execute, Save, Delete, Scan, Stored, Confs
<1>20. CASE \E s \in ScanMsgs, m \in CtrlMsgs : ReadControl(s, m)
    BY <1>20 DEF ReadControl, AfterScan
<1>21. CASE \E a \in APs \union {NoAP} : Capture(a)
    BY <1>21 DEF Capture, Running
<1>22. CASE Open
    BY <1>22 DEF Open, Running
<1>23. CASE OpenFails
    BY <1>23 DEF OpenFails, Running
<1>24. CASE Receive
    BY <1>24 DEF Receive, Running
<1>25. CASE ReceiveFails
    BY <1>25 DEF ReceiveFails, Running
<1>26. CASE Ignored
    BY <1>26 DEF Ignored, Parsed, Running
<1>27. CASE Synced
    BY <1>27 DEF Synced, Parsed, Running
<1>28. CASE Decoded
    BY <1>28 DEF Decoded, Parsed, Running
<1>29. CASE Rejected
    BY <1>29 DEF Rejected, Parsed, Restart, Running
<1>30. CASE TimerStops
    BY <1>30 DEF TimerStops, Running
<1>31. CASE Press
    BY <1>31 DEF Press, Running
<1>32. CASE Interrupt
    BY <1>32 DEF Interrupt, Running, Confs
<1>33. CASE RemoveConf
    BY <1>33 DEF RemoveConf, Confs
<1>34. CASE UNCHANGED vars
    BY <1>34 DEF vars
<1> QED
    BY <1>1, <1>2, <1>3, <1>4, <1>5, <1>6, <1>7, <1>8, <1>9, <1>10, <1>11, <1>12, <1>13, <1>14, <1>15, <1>16, <1>17, <1>18, <1>19, <1>20, <1>21, <1>22, <1>23, <1>24, <1>25, <1>26, <1>27, <1>28, <1>29, <1>30, <1>31, <1>32, <1>33, <1>34 DEF Next, Main, Receiver

\* The thread is created once, however often the button starts main over.
THEOREM OneReceiverThm == Spec => []OneReceiver
<1>1. Init => RecvInv
    BY DEF Init, RecvInv
<1>2. RecvInv => OneReceiver
    BY DEF RecvInv, OneReceiver
<1> QED
    BY <1>1, RecvStep, <1>2, PTL DEF Spec

-----------------------------------------------------------------------------
(* The network that is joined.                                             *)

Joining == {"collect", "connect", "ip", "control"}

JoinInv ==
  /\ status = "DONE" => rcv # "parse"
  /\ pc \in Joining => mode = "managed" /\ status \in {"DONE", "STOP"} /\ rcv # "parse"
  /\ pc = "connect" => conf = NoConf \/ (profile \in APs /\ conf = Stored(profile))
  /\ wpa # NoConf => /\ pc \in {"ip", "control", "exited"}
                     /\ mode = "managed"
                     /\ profile \in APs /\ wpa = Stored(profile)

LEMMA JoinStep ==
    ASSUME TypeOK, JoinInv, [Next]_vars
    PROVE  JoinInv'
<1> USE DEF JoinInv, Joining
<1>0. seen \in SUBSET APs
    BY DEF TypeOK
<1>1. CASE Reinitialise
    BY <1>1 DEF Reinitialise, Scan, Confs
<1>2. CASE MonitorOn
    BY <1>2 DEF MonitorOn
<1>3. CASE CreateReceiver
    BY <1>3 DEF CreateReceiver
<1>4. CASE ClearReinit
    BY <1>4 DEF ClearReinit
<1>5. CASE StartLibrary
    BY <1>5 DEF StartLibrary, Restart
<1>6. CASE Hop
    BY <1>6 DEF Hop
<1>7. CASE TestDecode
    BY <1>7 DEF TestDecode
<1>8. CASE Found
    BY <1>8 DEF Found, Planned
<1>9. CASE NotFound
    BY <1>9 DEF NotFound
<1>10. CASE Rescan
    BY <1>10 DEF Rescan, Scan
<1>11. CASE Stay
    BY <1>11 DEF Stay
<1>12. CASE Check
    BY <1>12 DEF Check
<1>13. CASE Again
    BY <1>13 DEF Again, Restart
<1>14. CASE Leave
    BY <1>14 DEF Leave
<1>15. CASE Collect
    BY <1>0, <1>15 DEF Collect, Scan, Stored, Confs
<1>16. CASE Connect
    BY <1>16 DEF Connect, Confs
<1>17. CASE CheckIp
    BY <1>17 DEF CheckIp
<1>18. CASE ControlReinit
    BY <1>18 DEF ControlReinit
<1>19. CASE \E s \in ScanMsgs : NoControl(s)
    BY <1>0, <1>19 DEF NoControl, AfterScan, Execute, Save, Delete, Scan, Stored, Confs
<1>20. CASE \E s \in ScanMsgs, m \in CtrlMsgs : ReadControl(s, m)
    BY <1>20 DEF ReadControl, AfterScan
<1>21. CASE \E a \in APs \union {NoAP} : Capture(a)
    BY <1>21 DEF Capture, Running
<1>22. CASE Open
    BY <1>22 DEF Open, Running
<1>23. CASE OpenFails
    BY <1>23 DEF OpenFails, Running
<1>24. CASE Receive
    BY <1>24 DEF Receive, Running
<1>25. CASE ReceiveFails
    BY <1>25 DEF ReceiveFails, Running
<1>26. CASE Ignored
    BY <1>26 DEF Ignored, Parsed, Running
<1>27. CASE Synced
    BY <1>27 DEF Synced, Parsed, Running
<1>28. CASE Decoded
    BY <1>28 DEF Decoded, Parsed, Running
<1>29. CASE Rejected
    BY <1>29 DEF Rejected, Parsed, Restart, Running
<1>30. CASE TimerStops
    BY <1>30 DEF TimerStops, Running
<1>31. CASE Press
    BY <1>31 DEF Press, Running
<1>32. CASE Interrupt
    BY <1>32 DEF Interrupt, Running, Confs
<1>33. CASE RemoveConf
    BY <1>33 DEF RemoveConf, Confs
<1>34. CASE UNCHANGED vars
    BY <1>34 DEF vars
<1> QED
    BY <1>1, <1>2, <1>3, <1>4, <1>5, <1>6, <1>7, <1>8, <1>9, <1>10, <1>11, <1>12, <1>13, <1>14, <1>15, <1>16, <1>17, <1>18, <1>19, <1>20, <1>21, <1>22, <1>23, <1>24, <1>25, <1>26, <1>27, <1>28, <1>29, <1>30, <1>31, <1>32, <1>33, <1>34 DEF Next, Main, Receiver

LEMMA JoinInvariant == Spec => []JoinInv
<1>1. Init => JoinInv
    BY DEF Init, JoinInv, Joining
<1>2. TypeOK /\ JoinInv /\ [Next]_vars => JoinInv'
    BY JoinStep
<1> QED
    BY <1>1, <1>2, TypeCorrect, PTL DEF Spec

\* The interface is managed whenever wpa_supplicant has it.
THEOREM ManagedThm == Spec => []ManagedWhenConnected
<1>1. JoinInv => ManagedWhenConnected
    BY DEF JoinInv, ManagedWhenConnected
<1> QED
    BY JoinInvariant, <1>1, PTL

\* wpa_supplicant is given the network of the profile and nothing else.
THEOREM JoinsTheProfileThm == Spec => []JoinsTheProfile
<1>1. JoinInv => JoinsTheProfile
    BY DEF JoinInv, JoinsTheProfile
<1> QED
    BY JoinInvariant, <1>1, PTL
=============================================================================
