------------------------------ MODULE InfoLed ------------------------------
(***************************************************************************)
(* The LED service of led_control_app: class InfoLed.                      *)
(*                                                                         *)
(* Three kinds of thread share one object:                                 *)
(*   - mainloop      waits on mStateChange until m_currentState differs    *)
(*                   from m_oldState, then drives the LEDs under led_mutex;*)
(*   - led_system_start_t  every 100 ms, under led_mutex, ends a volume    *)
(*                   display or a wifi error that is 5 seconds old and     *)
(*                   saves the volume;                                     *)
(*   - any caller of led_open, under led_mutex, posts a new state.         *)
(* The waiter holds m_mtx, the notifiers hold led_mutex: nothing orders    *)
(* a notification and the evaluation of the wait predicate.                *)
(*                                                                         *)
(* A definition X_word is X with a bug of the kind the name says; the      *)
(* properties must tell it from X.                                         *)
(*                                                                         *)
(* A critical section of led_mutex is one action, except the one of        *)
(* led_system_start_t, whose file operations are steps of their own.  The  *)
(* object lives as long as the process: m_isRunning stays true.            *)
(***************************************************************************)
EXTENDS Naturals

CONSTANTS
    Volumes,     \* the values callers pass with MODE_VOLUME
    Zero,        \* the volume of a new object
    NoFile,      \* a file that does not exist
    Modes,       \* the modes callers pass to led_open
    MaxCalls     \* bound on the number of led_open calls

VARIABLES
    mainPc,              \* where mainloop is
    timerPc,             \* where led_system_start_t is
    m_isLedInitialized, m_currentState, m_oldState, m_ledState,
    m_scrollLedNum, m_currentVolume, m_oldVolume,
    m_isVolAdjust, m_isWifiError, m_needSaveVol,
    volAge, wifiAge,     \* seconds since m_tvVolAdjust and m_tvWifiError
    display,             \* what the LEDs show: a mode, and how many of them are lit
    txt, info,           \* volume in device_info.txt and in its copy device_info
    unsaved,             \* history: a volume was shown and not yet saved
    calls                \* number of led_open calls so far

posted == <<m_currentState, m_scrollLedNum, m_currentVolume>>
shown == <<m_oldState, m_ledState, m_oldVolume, display, unsaved>>
timers == <<m_isVolAdjust, m_isWifiError, m_needSaveVol, volAge, wifiAge>>
files == <<txt, info>>
vars == <<mainPc, timerPc, m_isLedInitialized, posted, shown, timers, files,
          calls>>

(***************************************************************************)
(* led_open's switch: the state each mode asks for and, for the modes that *)
(* report boot progress, the number of scrolling LEDs.                     *)
(***************************************************************************)
ScrollOf ==
    [MODE_BOOTED |-> 3, MODE_NETWORK_STARTED |-> 8,
     MODE_JAVACLIENT_STARTED |-> 4, MODE_SENSORY_STARTED |-> 6,
     MODE_SYSTEM_OK |-> 0]

StateOf ==
    [MODE_BOOTED |-> "LED_SCROLLING", MODE_NETWORK_STARTED |-> "LED_SCROLLING",
     MODE_JAVACLIENT_STARTED |-> "LED_SCROLLING",
     MODE_SENSORY_STARTED |-> "LED_SCROLLING", MODE_SYSTEM_OK |-> "SYSTEM_OK",
     MODE_START |-> "SYSTEM_START", MODE_OFF |-> "OFF", MODE_VP |-> "VP_PROCESS",
     MODE_VP_WAKEUP |-> "VP_WAKEUP", MODE_WIFI_CONNECT |-> "WIFI_MODE",
     MODE_BLUETOOTH |-> "BT_MODE", MODE_NORMAL |-> "NORMAL_MODE",
     MODE_VOLUME |-> "ADJUST_VOLUME", MODE_WIFI_ERR |-> "WIFI_ERR",
     MODE_MIC_MUTE |-> "MIC_MUTE"]

LedModes == DOMAIN StateOf
LedStates == {"NORMAL_MODE", "BT_MODE", "WIFI_MODE", "MIC_MUTE"}
ShownStates == LedStates \cup
    {"SYSTEM_START", "WIFI_ERR", "VP_WAKEUP", "VP_PROCESS", "ADJUST_VOLUME",
     "LED_SCROLLING", "SYSTEM_OK", "OFF"}
State == ShownStates \cup {"IDLE"}
ScrollNums == {0, 3, 4, 6, 8}

FileContents == Volumes \cup {NoFile}
Timeout == 5              \* seconds, for both timers

ASSUME VolumesAssumption == Zero \in Volumes /\ NoFile \notin Volumes
ASSUME ModesAssumption == Modes \subseteq LedModes
ASSUME MaxCallsAssumption == MaxCalls \in Nat

(***************************************************************************)
(* setState and notify_one.  A notification that finds nobody waiting is   *)
(* lost; one that does makes mainloop evaluate its predicate again.        *)
(***************************************************************************)
setState(s) == m_currentState' = s

notify_one == mainPc' = IF mainPc = "waiting" THEN "check" ELSE mainPc

LedMutexFree == timerPc = "sleep"

\* InfoLed::InfoLed and InfoLed::init: the members the constructor leaves out
\* (m_ledState, m_scrollLedNum) have any value; the LEDs are dark.  An earlier run
\* may have lost its power between the two files, so they need not agree.
Init ==
    /\ mainPc = "start"
    /\ timerPc = "sleep"
    /\ m_isLedInitialized = FALSE
    /\ m_currentState = "IDLE"
    /\ m_oldState = "IDLE"
    /\ m_ledState \in LedStates
    /\ m_scrollLedNum \in ScrollNums
    /\ m_currentVolume = Zero
    /\ m_oldVolume = Zero
    /\ m_isVolAdjust = FALSE
    /\ m_isWifiError = FALSE
    /\ m_needSaveVol = FALSE
    /\ volAge = 0
    /\ wifiAge = 0
    /\ display = [mode |-> "OFF", value |-> 0]
    /\ txt \in FileContents
    /\ info \in FileContents
    /\ unsaved = FALSE
    /\ calls = 0

(***************************************************************************)
(* mainloop                                                                *)
(***************************************************************************)
\* Up to the loop.  When leds_multi_init fails the thread ends and led_open
\* stays a no-op for ever.
MainStart ==
    /\ mainPc = "start"
    /\ m_oldState' = "OFF"
    /\ m_ledState' = "NORMAL_MODE"
    /\ m_currentState' = "OFF"
    /\ m_scrollLedNum' = 3
    /\ \/ mainPc' = "check" /\ m_isLedInitialized' = TRUE
       \/ mainPc' = "dead" /\ m_isLedInitialized' = FALSE
    /\ UNCHANGED <<timerPc, m_currentVolume, m_oldVolume, display, unsaved,
                   timers, files, calls>>

\* mStateChange.wait(lck, checkState), evaluation of checkState.
MainCheck ==
    /\ mainPc = "check"
    /\ mainPc' = IF m_currentState # m_oldState THEN "lock" ELSE "block"
    /\ UNCHANGED <<timerPc, m_isLedInitialized, posted, shown, timers, files,
                   calls>>

\* The rest of the wait: mainloop is on the condition variable's queue.
MainBlock ==
    /\ mainPc = "block"
    /\ mainPc' = "waiting"
    /\ UNCHANGED <<timerPc, m_isLedInitialized, posted, shown, timers, files,
                   calls>>

\* condition_variable::wait may return without a notification.
SpuriousWakeup ==
    /\ mainPc = "waiting"
    /\ mainPc' = "check"
    /\ UNCHANGED <<timerPc, m_isLedInitialized, posted, shown, timers, files,
                   calls>>

\* What mainloop decides before its switch: the state it handles, whether that
\* state ends a volume display (and so makes a save due) or a wifi error, and
\* whether it is an OFF to be dropped.
EndsVolume ==
    /\ m_currentState \notin {"ADJUST_VOLUME", "IDLE", "OFF"}
    /\ m_isVolAdjust

SaveDue_dropped == m_needSaveVol
SaveDue == m_needSaveVol \/ EndsVolume

KeepsWifiError_volume == m_currentState \in {"WIFI_ERR", "IDLE", "ADJUST_VOLUME"}
KeepsWifiError_off == m_currentState \in {"WIFI_ERR", "IDLE", "OFF"}
KeepsWifiError == m_currentState \in {"WIFI_ERR", "IDLE"}

Handled == IF m_scrollLedNum = 0 /\ m_currentState = "LED_SCROLLING"
           THEN "IDLE" ELSE m_currentState

OffIgnored_anyMode == m_isVolAdjust /\ Handled \notin {"IDLE", "ADJUST_VOLUME"}
OffIgnored == m_isVolAdjust /\ Handled = "OFF"

\* The volume or the number of scrolling LEDs that goes with a state; the other
\* states take no value.
ValueOf(s) == CASE s = "ADJUST_VOLUME" -> m_currentVolume
                [] s = "LED_SCROLLING" -> m_scrollLedNum
                [] OTHER -> 0

\* The body of the loop, under led_mutex.  Every state but IDLE drives the LEDs
\* and posts IDLE; OFF during a volume display does neither.
MainHandle ==
    /\ mainPc = "lock"
    /\ LedMutexFree
    /\ mainPc' = "check"
    /\ m_oldState' = Handled
    /\ setState(IF OffIgnored THEN "OFF" ELSE "IDLE")
    /\ m_ledState' = IF Handled \in LedStates THEN Handled ELSE m_ledState
    /\ m_isVolAdjust' = \/ Handled = "ADJUST_VOLUME"
                        \/ m_isVolAdjust /\ ~EndsVolume
    /\ m_needSaveVol' = SaveDue
    /\ m_isWifiError' = \/ Handled = "WIFI_ERR"
                        \/ m_isWifiError /\ KeepsWifiError
    /\ volAge' = IF Handled = "ADJUST_VOLUME" THEN 0 ELSE volAge
    /\ wifiAge' = IF Handled = "WIFI_ERR" THEN 0 ELSE wifiAge
    /\ display' = IF Handled = "IDLE" \/ OffIgnored THEN display
                  ELSE [mode |-> Handled, value |-> ValueOf(Handled)]
    /\ m_oldVolume' = IF Handled = "ADJUST_VOLUME" THEN m_currentVolume
                      ELSE m_oldVolume
    /\ unsaved' = (unsaved \/ Handled = "ADJUST_VOLUME")
    /\ UNCHANGED <<timerPc, m_isLedInitialized, m_scrollLedNum,
                   m_currentVolume, files, calls>>

(***************************************************************************)
(* led_system_start_t: one pass is TimerLock ... TimerUnlock.              *)
(***************************************************************************)
VolExpired == m_isVolAdjust /\ volAge >= Timeout

\* Take led_mutex; a volume display that has expired gives way to m_ledState.
TimerLock ==
    /\ timerPc = "sleep"
    /\ IF VolExpired
       THEN setState(m_ledState) /\ notify_one /\ timerPc' = "saveAdjusted"
       ELSE /\ timerPc' = IF m_needSaveVol THEN "saveNeeded" ELSE "wifi"
            /\ UNCHANGED <<m_currentState, mainPc>>
    /\ UNCHANGED <<m_isLedInitialized, m_scrollLedNum, m_currentVolume, shown,
                   timers, files, calls>>

\* fopen("rb+") ... fsync, fclose: in place, and only if the file exists.
SaveTxt ==
    /\ timerPc \in {"saveAdjusted", "saveNeeded"}
    /\ txt' = IF txt = NoFile THEN NoFile ELSE m_currentVolume
    /\ timerPc' = IF timerPc = "saveAdjusted" THEN "copyAdjusted" ELSE "copyNeeded"
    /\ UNCHANGED <<mainPc, m_isLedInitialized, posted, shown, timers, info, calls>>

\* system("cp device_info.txt device_info"), whose result nobody asks for: it fails
\* without a source, and may fail with one.
CpDeviceInfo == info' = info \/ (txt # NoFile /\ info' = txt)

\* The copy and the reset of the flag that asked for the save.
CopyInfo ==
    /\ timerPc \in {"copyAdjusted", "copyNeeded"}
    /\ CpDeviceInfo
    /\ unsaved' = (unsaved /\ txt = NoFile)
    /\ \/ /\ timerPc = "copyAdjusted"
          /\ m_isVolAdjust' = FALSE
          /\ timerPc' = IF m_needSaveVol THEN "saveNeeded" ELSE "wifi"
          /\ UNCHANGED m_needSaveVol
       \/ /\ timerPc = "copyNeeded"
          /\ m_needSaveVol' = FALSE
          /\ timerPc' = "wifi"
          /\ UNCHANGED m_isVolAdjust
    /\ UNCHANGED <<mainPc, m_isLedInitialized, posted, m_oldState, m_ledState,
                   m_oldVolume, display, m_isWifiError, volAge, wifiAge, txt,
                   calls>>

\* A wifi error that has expired asks for OFF, again on every pass until
\* mainloop has seen it; then led_mutex is released.
TimerUnlock ==
    /\ timerPc = "wifi"
    /\ timerPc' = "sleep"
    /\ IF m_isWifiError /\ wifiAge >= Timeout
       THEN setState("OFF") /\ notify_one
       ELSE UNCHANGED <<m_currentState, mainPc>>
    /\ UNCHANGED <<m_isLedInitialized, m_scrollLedNum, m_currentVolume, shown,
                   timers, files, calls>>

(***************************************************************************)
(* led_open(mode, val), and the passing of a second.                       *)
(***************************************************************************)
\* A call before mainloop is ready returns at once and changes nothing.
led_open(mode, val) ==
    /\ m_isLedInitialized
    /\ LedMutexFree
    /\ calls < MaxCalls
    /\ calls' = calls + 1
    /\ m_scrollLedNum' = IF mode \in DOMAIN ScrollOf THEN ScrollOf[mode]
                         ELSE m_scrollLedNum
    /\ m_currentVolume' = IF mode = "MODE_VOLUME" THEN val ELSE m_currentVolume
    /\ setState(StateOf[mode])
    /\ notify_one
    /\ UNCHANGED <<timerPc, m_isLedInitialized, shown, timers, files>>

\* gettimeofday moves on: the ages stop at Timeout, where nothing changes more.
Second ==
    /\ \/ m_isVolAdjust /\ volAge < Timeout
       \/ m_isWifiError /\ wifiAge < Timeout
    /\ volAge' = IF m_isVolAdjust /\ volAge < Timeout THEN volAge + 1 ELSE volAge
    /\ wifiAge' = IF m_isWifiError /\ wifiAge < Timeout THEN wifiAge + 1 ELSE wifiAge
    /\ UNCHANGED <<mainPc, timerPc, m_isLedInitialized, posted, shown,
                   m_isVolAdjust, m_isWifiError, m_needSaveVol, files, calls>>

mainloop == MainStart \/ MainCheck \/ MainBlock \/ MainHandle
led_system_start_t == TimerLock \/ SaveTxt \/ CopyInfo \/ TimerUnlock

Next ==
    \/ mainloop
    \/ SpuriousWakeup
    \/ led_system_start_t
    \/ \E mode \in Modes, val \in Volumes : led_open(mode, val)
    \/ Second

Spec == Init /\ [][Next]_vars

(***************************************************************************)
(* Both threads keep running, time passes, and mainloop gets led_mutex in  *)
(* the end: led_system_start_t sleeps 100 ms outside it on every pass.     *)
(* Callers need not call, and nobody owes a spurious wakeup.               *)
(***************************************************************************)
Fairness ==
    /\ WF_vars(MainStart \/ MainCheck \/ MainBlock)
    /\ SF_vars(MainHandle)
    /\ WF_vars(led_system_start_t)
    /\ WF_vars(Second)

FairSpec == Spec /\ Fairness

(***************************************************************************)
(* Properties                                                              *)
(***************************************************************************)
TypeOK ==
    /\ mainPc \in {"start", "dead", "check", "block", "waiting", "lock"}
    /\ timerPc \in {"sleep", "saveAdjusted", "copyAdjusted", "saveNeeded",
                    "copyNeeded", "wifi"}
    /\ m_isLedInitialized \in BOOLEAN
    /\ m_currentState \in State
    /\ m_oldState \in State
    /\ m_ledState \in LedStates
    /\ m_scrollLedNum \in ScrollNums
    /\ m_currentVolume \in Volumes
    /\ m_oldVolume \in Volumes
    /\ m_isVolAdjust \in BOOLEAN
    /\ m_isWifiError \in BOOLEAN
    /\ m_needSaveVol \in BOOLEAN
    /\ volAge \in 0..Timeout
    /\ wifiAge \in 0..Timeout
    /\ display \in [mode : ShownStates, value : Volumes \cup ScrollNums]
    /\ txt \in FileContents
    /\ info \in FileContents
    /\ unsaved \in BOOLEAN
    /\ calls \in 0..MaxCalls

\* The two expiry timers of led_system_start_t never run together: each of
\* them overwrites m_currentState, and a pass in which both expired would
\* replace the restored mode by OFF.  mainloop's two resets (the ends of a
\* volume display and of a wifi error) must cover every way in.
TimersExclusive == ~(m_isVolAdjust /\ m_isWifiError)

\* A posted LED_SCROLLING always has LEDs to scroll: m_scrollLedNum and the
\* state are written together under led_mutex, and no later request can zero
\* the count while the state is pending.
ScrollHasLeds == m_currentState = "LED_SCROLLING" => m_scrollLedNum # 0

\* A volume that was shown is not forgotten: whatever requests and timers come
\* in between, a save is still due until the file has been written.
VolumeKept == unsaved /\ txt # NoFile => m_isVolAdjust \/ m_needSaveVol

\* mainloop can miss a request only while it repeats the mode on the LEDs: when the
\* wait predicate cannot see it (m_currentState equals m_oldState because the IDLE
\* pass has not run), that mode is shown already, perhaps with an older volume or
\* count; and what is shown once mainloop has gone idle is the last volume or count
\* posted.  OFF is the exception: mainloop drops it during a volume display.
OnlyRepeatsMissed ==
    m_isLedInitialized =>
        /\ m_currentState = m_oldState
             => m_currentState \in {"IDLE", "OFF", display.mode}
        /\ m_currentState = "IDLE" => display.value = ValueOf(display.mode)

\* A wifi error is always taken down, even though notifications can be lost:
\* the timer repeats its OFF until mainloop has handled a request.
WifiErrorEnds == m_isWifiError ~> ~m_isWifiError

\* A volume that was shown is saved once callers leave it alone.
VolumeSaved == unsaved /\ txt # NoFile ~> ~unsaved

\* "if time is 5 seconds after set volume, then close the led" (the comment on
\* the volume timer): the volume bar does not stay for ever.
VolumeBarCloses == display.mode = "ADJUST_VOLUME" ~> display.mode # "ADJUST_VOLUME"
====
