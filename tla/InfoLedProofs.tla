--------------------------- MODULE InfoLedProofs ---------------------------
(***************************************************************************)
(* TLAPS proofs of the safety properties of InfoLed, for every set of      *)
(* volumes and modes and every number of calls.                            *)
(***************************************************************************)
EXTENDS InfoLed, TLAPS

(***************************************************************************)
(* One property needs more than itself to be preserved: m_oldState, not    *)
(* just a request that equals it, is the mode on the LEDs, unless it is    *)
(* IDLE or OFF.                                                            *)
(***************************************************************************)
OldIsShown == m_isLedInitialized => m_oldState \in {"IDLE", "OFF", display.mode}

LastIsShown ==
    m_isLedInitialized /\ m_currentState = "IDLE"
        => display.value = ValueOf(display.mode)

IInv ==
    /\ TypeOK
    /\ TimersExclusive
    /\ ScrollHasLeds
    /\ VolumeKept
    /\ OldIsShown
    /\ LastIsShown

\* Every mode of led_open asks for one of the states mainloop knows, and a boot
\* progress mode for a number of LEDs it can scroll.
LEMMA ModeTables ==
    ASSUME NEW mode \in Modes
    PROVE  /\ StateOf[mode] \in ShownStates
           /\ mode \in DOMAIN ScrollOf => ScrollOf[mode] \in ScrollNums
           /\ StateOf[mode] = "LED_SCROLLING"
                => mode \in DOMAIN ScrollOf /\ ScrollOf[mode] # 0
  BY ModesAssumption DEF LedModes, StateOf, ScrollOf, ShownStates, LedStates,
     ScrollNums

\* The constructor establishes the invariant.
LEMMA InitIInv == Init => IInv
  <1> SUFFICES ASSUME Init PROVE IInv
    OBVIOUS
  <1>1. TypeOK
    <2>1. calls \in 0..MaxCalls
      BY MaxCallsAssumption DEF Init
    <2>2. volAge \in 0..Timeout /\ wifiAge \in 0..Timeout
      BY DEF Init, Timeout
    <2>3. m_currentVolume \in Volumes /\ m_oldVolume \in Volumes
      BY VolumesAssumption DEF Init
    <2>4. m_currentState \in State /\ m_oldState \in State /\ display.mode \in ShownStates
      BY DEF Init, State, ShownStates
    <2>5. display \in [mode : ShownStates, value : Volumes \cup ScrollNums]
      BY <2>4 DEF Init, ShownStates, ScrollNums
    <2> QED
      BY <2>1, <2>2, <2>3, <2>4, <2>5 DEF Init, TypeOK
  <1>2. TimersExclusive /\ ScrollHasLeds /\ VolumeKept
    BY DEF Init, TimersExclusive, ScrollHasLeds, VolumeKept
  <1>3. OldIsShown /\ LastIsShown
    BY DEF Init, OldIsShown, LastIsShown
  <1> QED
    BY <1>1, <1>2, <1>3 DEF IInv

\* Every step of every thread keeps the types.
LEMMA NextTypeOK == TypeOK /\ [Next]_vars => TypeOK'
  <1> SUFFICES ASSUME TypeOK, [Next]_vars PROVE TypeOK'
    OBVIOUS
  <1> USE DEF TypeOK, posted, shown, timers, files
  <1>1. CASE MainStart
    <2>1. /\ m_oldState' \in State /\ m_currentState' \in State
          /\ m_ledState' \in LedStates /\ m_scrollLedNum' \in ScrollNums
      BY <1>1 DEF MainStart, State, ShownStates, LedStates, ScrollNums
    <2> QED
      BY <1>1, <2>1 DEF MainStart
  <1>2. CASE MainCheck
    BY <1>2 DEF MainCheck
  <1>3. CASE MainBlock
    BY <1>3 DEF MainBlock
  <1>4. CASE MainHandle
    <2>1. Handled \in State /\ (Handled # "IDLE" => Handled \in ShownStates)
      BY DEF Handled, State
    <2>2. ValueOf(Handled) \in Volumes \cup ScrollNums
      BY DEF ValueOf, ScrollNums
    <2>3. display' \in [mode : ShownStates, value : Volumes \cup ScrollNums]
      BY <1>4, <2>1, <2>2 DEF MainHandle
    <2> QED
      BY <1>4, <2>1, <2>3 DEF MainHandle, SaveDue, EndsVolume, setState, State,
         ShownStates, LedStates, Timeout
  <1>5. CASE SpuriousWakeup
    BY <1>5 DEF SpuriousWakeup
  <1>6. CASE TimerLock
    BY <1>6 DEF TimerLock, VolExpired, setState, notify_one, State, ShownStates
  <1>7. CASE SaveTxt
    BY <1>7 DEF SaveTxt, FileContents
  <1>8. CASE CopyInfo
    BY <1>8 DEF CopyInfo, CpDeviceInfo
  <1>9. CASE TimerUnlock
    BY <1>9 DEF TimerUnlock, setState, notify_one, State, ShownStates
  <1>10. CASE \E mode \in Modes, val \in Volumes : led_open(mode, val)
    <2> PICK mode \in Modes, val \in Volumes : led_open(mode, val)
      BY <1>10
    <2> QED
      BY ModeTables, MaxCallsAssumption DEF led_open, setState, notify_one, State
  <1>11. CASE Second
    BY <1>11 DEF Second, Timeout
  <1>12. CASE UNCHANGED vars
    BY <1>12 DEF vars
  <1> QED
    BY <1>1, <1>2, <1>3, <1>4, <1>5, <1>6, <1>7, <1>8, <1>9, <1>10, <1>11, <1>12
    DEF Next, mainloop, led_system_start_t

\* ... and the rest of the invariant.
LEMMA NextIInv == IInv /\ [Next]_vars => IInv'
  <1> SUFFICES ASSUME IInv, [Next]_vars PROVE IInv'
    OBVIOUS
  <1>0. TypeOK /\ TypeOK'
    BY NextTypeOK DEF IInv
  <1> USE <1>0 DEF IInv, TimersExclusive, ScrollHasLeds, VolumeKept,
                   OldIsShown, LastIsShown, ValueOf, posted, shown, timers, files
  <1>1. CASE MainStart
    BY <1>1 DEF MainStart
  <1>2. CASE MainCheck
    BY <1>2 DEF MainCheck
  <1>3. CASE MainBlock
    BY <1>3 DEF MainBlock
  <1>4. CASE MainHandle
    <2>1. TimersExclusive'
      BY <1>4 DEF MainHandle, Handled, EndsVolume, KeepsWifiError, TypeOK
    <2>2. ScrollHasLeds'
      BY <1>4 DEF MainHandle, setState
    <2>3. VolumeKept'
      BY <1>4 DEF MainHandle, SaveDue, EndsVolume, TypeOK
    <2>4. OldIsShown'
      BY <1>4 DEF MainHandle, OffIgnored
    <2>5. LastIsShown'
      BY <1>4 DEF MainHandle, OffIgnored, Handled, setState
    <2> QED
      BY <2>1, <2>2, <2>3, <2>4, <2>5
  <1>5. CASE SpuriousWakeup
    BY <1>5 DEF SpuriousWakeup
  <1>6. CASE TimerLock
    BY <1>6 DEF TimerLock, VolExpired, setState, notify_one, TypeOK, LedStates
  <1>7. CASE SaveTxt
    BY <1>7, VolumesAssumption DEF SaveTxt, TypeOK
  <1>8. CASE CopyInfo
    BY <1>8 DEF CopyInfo, CpDeviceInfo, TypeOK
  <1>9. CASE TimerUnlock
    BY <1>9 DEF TimerUnlock, setState, notify_one
  <1>10. CASE \E mode \in Modes, val \in Volumes : led_open(mode, val)
    <2> PICK mode \in Modes, val \in Volumes : led_open(mode, val)
      BY <1>10
    <2> QED
      BY ModeTables DEF led_open, setState, LedMutexFree, ShownStates, LedStates
  <1>11. CASE Second
    BY <1>11 DEF Second
  <1>12. CASE UNCHANGED vars
    BY <1>12 DEF vars
  <1> QED
    BY <1>1, <1>2, <1>3, <1>4, <1>5, <1>6, <1>7, <1>8, <1>9, <1>10, <1>11, <1>12
    DEF Next, mainloop, led_system_start_t

\* The inductive invariant holds in every behaviour of the LED service.
THEOREM Invariance == Spec => []IInv
  BY InitIInv, NextIInv, PTL DEF Spec

\* Type correctness of the LED service.
THEOREM TypeCorrect == Spec => []TypeOK
  <1>1. IInv => TypeOK
    BY DEF IInv
  <1> QED
    BY <1>1, Invariance, PTL

\* The two expiry timers are never armed together (led_system_start_t).
THEOREM TimersExclusiveThm == Spec => []TimersExclusive
  <1>1. IInv => TimersExclusive
    BY DEF IInv
  <1> QED
    BY <1>1, Invariance, PTL

\* A pending LED_SCROLLING has LEDs to scroll: mainloop's test for
\* m_scrollLedNum == 0 is never true.
THEOREM ScrollHasLedsThm == Spec => []ScrollHasLeds
  <1>1. IInv => ScrollHasLeds
    BY DEF IInv
  <1> QED
    BY <1>1, Invariance, PTL

\* A volume that was shown stays due for saving until it is written.
THEOREM VolumeKeptThm == Spec => []VolumeKept
  <1>1. IInv => VolumeKept
    BY DEF IInv
  <1> QED
    BY <1>1, Invariance, PTL

\* A request that the wait predicate cannot see repeats the mode on the LEDs, and
\* what is shown once mainloop is idle is the last volume or count posted.
THEOREM OnlyRepeatsMissedThm == Spec => []OnlyRepeatsMissed
  <1>1. IInv => OnlyRepeatsMissed
    BY DEF IInv, OldIsShown, LastIsShown, OnlyRepeatsMissed
  <1> QED
    BY <1>1, Invariance, PTL
=============================================================================
