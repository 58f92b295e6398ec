--------------------------- MODULE ModesetProofs ---------------------------
(***************************************************************************)
(* Proofs about the two sides of modeset: its threads (module Modeset), for*)
(* any number of connectors, hotplugs and events, and the frames of the    *)
(* boot animation (module BootAnimation), for any number of slots, pictures*)
(* and buffer objects.                                                     *)
(*                                                                         *)
(* Threads.  That nobody waits while the animation is enabled rests on the *)
(* mutual exclusion that lock_ gives (LockHeld), which holds only when     *)
(* lock_ was free as main initialised it: until then the vsync thread does *)
(* not exist (NotStarted), and from then on enabled_ cannot change between *)
(* the test of it and the wait (WaitsDisabled).                            *)
(*                                                                         *)
(* Frames.  BuffersHeldOnce is inductive once it is known at which steps   *)
(* there is a current buffer and which slots are empty then (PlaceInv);    *)
(* KeptWhileReplaced follows from ShownIsKept: the picture on the screen   *)
(* is in the slot that its age says.                                       *)
(***************************************************************************)
EXTENDS Modeset, BootAnimation, TLAPS

(***************************************************************************)
(* The threads.                                                            *)
(***************************************************************************)
\* No more events are unread than there were hotplugs.
EventsCounted == uevents <= plugs

\* The vsync thread, and the doubt about lock_, come with MainCreate.
NotStarted ==
    pc["main"] \in {"drm_init", "reset", "create"} => pc["vsync"] = "off" /\ ~torn

\* lock_ does its work if it was free when it was initialised: a thread inside a
\* critical section holds it.
Inside == {"ctl_set", "ctl_unlock", "test", "wait", "look"}
LockHeld == ~torn => \A t \in Thread : pc[t] \in Inside => lock_ = t

\* Between the test and the signal nothing has changed.
WaitsDisabled == ~torn /\ pc["vsync"] \in {"wait", "blocked"} => ~enabled_

ThreadInv == TypeOK /\ EventsCounted /\ NotStarted /\ LockHeld /\ WaitsDisabled

USE ConnectorAssumption, BoundAssumption

LEMMA InitThreads == Init => ThreadInv
<1>. SUFFICES ASSUME Init PROVE ThreadInv
  OBVIOUS
<1>. USE DEF Init
<1>1. connected \in SUBSET Connectors /\ active \in Connectors \cup {NoConnector}
  OBVIOUS
<1>2. pc["main"] = "drm_init" /\ pc["uevent"] = "off" /\ pc["vsync"] = "off" /\ DOMAIN pc = Thread
  BY DEF Thread
<1>3. want \in [{"main", "uevent"} -> BOOLEAN]
  OBVIOUS
<1>4. uevents \in 0..MaxPlugs /\ drmEvents \in 0..EventSpace /\ plugs \in 0..MaxPlugs
      /\ uevents <= plugs /\ vsync_cnt \in 0..1
  OBVIOUS
<1>5. TypeOK
  BY <1>1, <1>2, <1>3, <1>4 DEF TypeOK, Thread
<1>6. NotStarted /\ LockHeld /\ WaitsDisabled
  BY <1>2 DEF NotStarted, LockHeld, WaitsDisabled, Inside, Thread
<1>. QED  BY <1>4, <1>5, <1>6 DEF ThreadInv, EventsCounted

LEMMA NextTypes == TypeOK /\ EventsCounted /\ [Next]_vars => TypeOK' /\ EventsCounted'
<1>. SUFFICES ASSUME TypeOK, EventsCounted, [Next]_vars PROVE TypeOK' /\ EventsCounted'
  OBVIOUS
<1>. USE DEF TypeOK, EventsCounted, Thread, Control, Goto, threads, kernel, history
<1>1. ASSUME NEW t \in {"main", "uevent"}, CtlLock(t) \/ CtlSet(t) \/ CtlUnlock(t)
      PROVE  TypeOK' /\ EventsCounted'
  <2>1. CASE CtlLock(t)
    BY <1>1, <2>1 DEF CtlLock
  <2>2. CASE CtlSet(t)
    BY <1>1, <2>2 DEF CtlSet, Signalled
  <2>3. CASE CtlUnlock(t)
    BY <1>1, <2>3 DEF CtlUnlock, AfterCtl
  <2>. QED  BY <1>1, <2>1, <2>2, <2>3
<1>2. CASE MainInit \/ MainReset \/ MainCreate
  BY <1>2 DEF MainInit, MainReset, MainCreate
<1>3. CASE Bind \/ ReadUevent
  BY <1>3 DEF Bind, ReadUevent
<1>4. CASE CountMonitors
  <2>1. (connected # {}) \in BOOLEAN
    OBVIOUS
  <2>2. want' \in [{"main", "uevent"} -> BOOLEAN]
    BY <1>4, <2>1 DEF CountMonitors
  <2>3. /\ pc["uevent"] = "count"
        /\ pc' = [pc EXCEPT !["uevent"] = IF connected = {} THEN "ctl_lock" ELSE "set_mode"]
    BY <1>4 DEF CountMonitors
  <2>. QED  BY <1>4, <2>2, <2>3 DEF CountMonitors
<1>5. CASE CommitOff \/ FreeEncoder \/ FindEncoder
  BY <1>5 DEF CommitOff, FreeEncoder, FindEncoder
<1>6. CASE SetMode
  BY <1>6 DEF SetMode, Tried, Committed
<1>7. CASE VsyncLock \/ VsyncTest \/ VsyncWait \/ VsyncWake \/ VsyncLook \/ SpuriousWakeup
  BY <1>7 DEF VsyncLock, VsyncTest, VsyncWait, VsyncWake, VsyncLook, SpuriousWakeup
<1>8. CASE Vblank \/ CheckVideo \/ Animate \/ CountVsync
  BY <1>8 DEF Vblank, CheckVideo, Animate, CountVsync, Follow
<1>9. ASSUME NEW c \in Connectors, Hotplug(c) PROVE TypeOK' /\ EventsCounted'
  <2>1. connected' \in SUBSET Connectors
    BY <1>9 DEF Hotplug
  <2>2. uevents' \in 0..MaxPlugs /\ plugs' \in 0..MaxPlugs /\ uevents' <= plugs'
    BY <1>9 DEF Hotplug
  <2>3. unannounced' \in BOOLEAN
    BY <1>9 DEF Hotplug
  <2>. QED  BY <1>9, <2>1, <2>2, <2>3 DEF Hotplug
<1>10. CASE UNCHANGED vars
  BY <1>10 DEF vars
<1>. QED  BY <1>1, <1>2, <1>3, <1>4, <1>5, <1>6, <1>7, <1>8, <1>9, <1>10
          DEF Next, Main, Uevent, Vsync

LEMMA NextLock == ThreadInv /\ [Next]_vars => NotStarted' /\ LockHeld' /\ WaitsDisabled'
<1>. SUFFICES ASSUME ThreadInv, [Next]_vars PROVE NotStarted' /\ LockHeld' /\ WaitsDisabled'
  OBVIOUS
<1>. USE DEF ThreadInv, TypeOK, NotStarted, LockHeld, WaitsDisabled, Inside, Thread, Control,
             Goto, threads, history
<1>1. ASSUME NEW t \in {"main", "uevent"}, CtlLock(t) \/ CtlSet(t) \/ CtlUnlock(t)
      PROVE  NotStarted' /\ LockHeld' /\ WaitsDisabled'
  <2>1. CASE CtlLock(t)
    BY <1>1, <2>1 DEF CtlLock
  <2>2. CASE CtlSet(t)
    BY <1>1, <2>2 DEF CtlSet, Signalled
  <2>3. CASE CtlUnlock(t)
    BY <1>1, <2>3 DEF CtlUnlock, AfterCtl
  <2>. QED  BY <1>1, <2>1, <2>2, <2>3
<1>2. CASE MainInit \/ MainReset
  BY <1>2 DEF MainInit, MainReset
<1>3. CASE MainCreate
  BY <1>3 DEF MainCreate
<1>4. CASE Bind \/ ReadUevent \/ CountMonitors \/ CommitOff
  BY <1>4 DEF Bind, ReadUevent, CountMonitors, CommitOff, kernel
<1>5. CASE SetMode \/ FreeEncoder \/ FindEncoder
  BY <1>5 DEF SetMode, FreeEncoder, FindEncoder, kernel
<1>6. CASE VsyncLock \/ VsyncTest \/ VsyncWait \/ VsyncWake \/ VsyncLook \/ SpuriousWakeup
  BY <1>6 DEF VsyncLock, VsyncTest, VsyncWait, VsyncWake, VsyncLook, SpuriousWakeup
<1>7. CASE Vblank \/ CheckVideo \/ Animate \/ CountVsync
  BY <1>7 DEF Vblank, CheckVideo, Animate, CountVsync, Follow
<1>8. ASSUME NEW c \in Connectors, Hotplug(c) PROVE NotStarted' /\ LockHeld' /\ WaitsDisabled'
  BY <1>8 DEF Hotplug
<1>9. CASE UNCHANGED vars
  BY <1>9 DEF vars
<1>. QED  BY <1>1, <1>2, <1>3, <1>4, <1>5, <1>6, <1>7, <1>8, <1>9 DEF Next, Main, Uevent, Vsync

THEOREM ThreadInvariance == Spec => []ThreadInv
<1>1. ThreadInv /\ [Next]_vars => ThreadInv'
  BY NextTypes, NextLock DEF ThreadInv
<1>. QED  BY InitThreads, <1>1, PTL DEF Spec

\* Every thread stays in its own code, and the event queues in their bounds, for any
\* number of connectors, hotplugs and page flip events.
THEOREM ThreadsTypeCorrect == Spec => []TypeOK
<1>1. ThreadInv => TypeOK
  BY DEF ThreadInv
<1>. QED  BY ThreadInvariance, <1>1, PTL

\* The vsync thread waits only while the animation is disabled, if the mutex was free
\* when main initialised it.
THEOREM WaiterIsWokenThm == Spec => []WaiterIsWoken
<1>1. ThreadInv => WaiterIsWoken
  BY DEF ThreadInv, WaitsDisabled, WaiterIsWoken, TypeOK
<1>. QED  BY ThreadInvariance, <1>1, PTL

(***************************************************************************)
(* The frames.                                                             *)
(***************************************************************************)
PlaceInv ==
    /\ bo # NoBo <=> step \in {"add", "display"}
    /\ step \in {"create", "add", "display"} => mBufSlotInfo[Last] = NoBo /\ j < mImageCount

ShownIsKept ==
    fb # NoBo => missed + 1 \in Slots /\ mBufSlotInfo[missed + 1] = fb

FramesInv == FramesTypeOK /\ PlaceInv /\ BuffersHeldOnce /\ ShownIsKept

USE BootAnimationAssumption DEF Slots, Last

LEMMA InitFrames == FramesInit => FramesInv
BY DEF FramesInit, FramesInv, FramesTypeOK, PlaceInv, BuffersHeldOnce, ShownIsKept, Held, InSlots

\* What Display's shift makes of the slots: the last one was empty.
LEMMA ShiftFacts ==
    ASSUME FramesTypeOK, mBufSlotInfo[Last] = NoBo, bo \in Bos,
           mBufSlotInfo' = Shift([mBufSlotInfo EXCEPT ![0] = bo])
    PROVE  /\ mBufSlotInfo' \in [Slots -> Bos \cup {NoBo}]
           /\ mBufSlotInfo'[0] = NoBo /\ mBufSlotInfo'[1] = bo /\ 1 \in Slots
           /\ \A s \in Slots \ {0, 1} : mBufSlotInfo'[s] = mBufSlotInfo[s - 1]
           /\ InSlots' = InSlots \cup {bo}
<1>. DEFINE slots == mBufSlotInfo
            new == mBufSlotInfo'
<1>0. slots \in [Slots -> Bos \cup {NoBo}] /\ slots[0] = NoBo
  BY DEF FramesTypeOK
<1>1. new = [s \in Slots |-> IF s = 0 THEN NoBo ELSE [slots EXCEPT ![0] = bo][s - 1]]
  BY DEF Shift
<1>. HIDE DEF slots, new
<1>2. 0 \in Slots /\ 1 \in Slots /\ \A s \in Slots \ {0} : s - 1 \in Slots
  OBVIOUS
<1>3. new[0] = NoBo /\ new[1] = bo
  BY <1>0, <1>1, <1>2
<1>4. \A s \in Slots \ {0, 1} : s - 1 # 0 /\ new[s] = slots[s - 1]
  BY <1>0, <1>1, <1>2
<1>5. new \in [Slots -> Bos \cup {NoBo}]
  <2>1. \A s \in Slots : new[s] \in Bos \cup {NoBo}
    BY <1>0, <1>2, <1>3, <1>4
  <2>. QED  BY <1>1, <2>1
<1>6. ASSUME NEW s \in Slots, slots[s] # NoBo
      PROVE  s + 1 \in Slots /\ new[s + 1] = slots[s]
  <2>1. s # 0 /\ s # Last
    BY <1>0, <1>6 DEF slots
  <2>2. s + 1 \in Slots \ {0, 1} /\ (s + 1) - 1 = s
    BY <2>1
  <2>. QED  BY <1>4, <2>2
<1>7. ASSUME NEW s \in Slots, new[s] # NoBo
      PROVE  new[s] = bo \/ (s - 1 \in Slots /\ new[s] = slots[s - 1])
  BY <1>2, <1>3, <1>4, <1>7
<1>8. {new[s] : s \in Slots} \ {NoBo} = ({slots[s] : s \in Slots} \ {NoBo}) \cup {bo}
  <2>1. bo # NoBo
    OBVIOUS
  <2>2. ASSUME NEW x \in {slots[s] : s \in Slots}, x # NoBo
        PROVE  x \in {new[s] : s \in Slots}
    BY <1>6, <2>2
  <2>3. ASSUME NEW x \in {new[s] : s \in Slots}, x # NoBo
        PROVE  x = bo \/ x \in {slots[s] : s \in Slots}
    BY <1>7, <2>3
  <2>. QED  BY <1>2, <1>3, <2>1, <2>2, <2>3
<1>. QED  BY <1>2, <1>3, <1>4, <1>5, <1>8 DEF slots, new, InSlots

LEMMA NextFramesTypes == FramesInv /\ [FramesNext]_frameVars => FramesTypeOK' /\ PlaceInv'
<1>. SUFFICES ASSUME FramesInv, [FramesNext]_frameVars PROVE FramesTypeOK' /\ PlaceInv'
  OBVIOUS
<1>. USE DEF FramesInv, FramesTypeOK, PlaceInv
<1>1. CASE Start \/ Skip \/ End
  BY <1>1 DEF Start, Skip, End
<1>2. CASE Evict
  BY <1>2 DEF Evict
<1>3. CASE Create
  BY <1>3 DEF Create
<1>4. CASE AddFB
  BY <1>4 DEF AddFB
<1>5. CASE Display
  <2>1. /\ bo \in Bos /\ mBufSlotInfo[Last] = NoBo /\ j < mImageCount
        /\ mBufSlotInfo' = Shift([mBufSlotInfo EXCEPT ![0] = bo])
        /\ bo' = NoBo /\ step' = "picture" /\ j' = j + 1
        /\ live' = live /\ forgotten' = forgotten
    BY <1>5 DEF Display
  <2>2. fb' \in Bos \cup {NoBo} /\ missed' \in Nat
    BY <1>5, <2>1 DEF Display
  <2>3. mBufSlotInfo' \in [Slots -> Bos \cup {NoBo}] /\ mBufSlotInfo'[0] = NoBo
    BY <2>1, ShiftFacts
  <2>4. PlaceInv'
    BY <2>1 DEF PlaceInv
  <2>5. j' \in 0..mImageCount /\ step' = "picture" /\ bo' = NoBo
    BY <2>1
  <2>6. live' \in SUBSET Bos /\ forgotten' \in SUBSET Bos
    BY <2>1
  <2>7. FramesTypeOK'
    <3>. HIDE DEF Slots
    <3>. QED  BY <2>2, <2>3, <2>5, <2>6 DEF FramesTypeOK
  <2>. QED  BY <2>4, <2>7
<1>6. CASE UNCHANGED frameVars
  BY <1>6 DEF frameVars
<1>. QED  BY <1>1, <1>2, <1>3, <1>4, <1>5, <1>6 DEF FramesNext

LEMMA NextHeld == FramesInv /\ [FramesNext]_frameVars => BuffersHeldOnce'
<1>. SUFFICES ASSUME FramesInv, [FramesNext]_frameVars PROVE BuffersHeldOnce'
  OBVIOUS
<1>. USE DEF FramesInv, FramesTypeOK, PlaceInv
<1>1. CASE Start \/ Skip \/ End \/ UNCHANGED frameVars
  BY <1>1 DEF Start, Skip, End, frameVars, BuffersHeldOnce, Held, InSlots
<1>2. CASE Evict
  <2>. DEFINE old == mBufSlotInfo[Last]
  <2>1. bo = NoBo /\ bo' = NoBo /\ live' = live \ {old} /\ forgotten' = forgotten
        /\ mBufSlotInfo' = [mBufSlotInfo EXCEPT ![Last] = NoBo] /\ Last \in Slots
    BY <1>2 DEF Evict
  <2>2. InSlots' = InSlots \ {old}
    BY <2>1 DEF InSlots, BuffersHeldOnce
  <2>3. old \notin forgotten
    BY <2>1 DEF BuffersHeldOnce, Held, InSlots
  <2>4. \A s, t \in Slots : mBufSlotInfo'[s] = mBufSlotInfo'[t] /\ s # t
                                => mBufSlotInfo'[s] = NoBo
    BY <2>1 DEF BuffersHeldOnce
  <2>5. NoBo \notin live
    BY DEF FramesTypeOK
  <2>. QED  BY <2>1, <2>2, <2>3, <2>4, <2>5 DEF BuffersHeldOnce, Held
<1>3. CASE Create
  BY <1>3 DEF Create, BuffersHeldOnce, Held, InSlots
<1>4. CASE AddFB
  BY <1>4 DEF AddFB, BuffersHeldOnce, Held, InSlots
<1>5. CASE Display
  <2>1. /\ bo \in Bos /\ mBufSlotInfo[0] = NoBo /\ mBufSlotInfo[Last] = NoBo
        /\ mBufSlotInfo' = Shift([mBufSlotInfo EXCEPT ![0] = bo])
        /\ bo' = NoBo /\ live' = live /\ forgotten' = forgotten
    BY <1>5 DEF Display
  <2>2. /\ InSlots' = InSlots \cup {bo}
        /\ mBufSlotInfo'[0] = NoBo /\ mBufSlotInfo'[1] = bo
        /\ \A s \in Slots \ {0, 1} : mBufSlotInfo'[s] = mBufSlotInfo[s - 1]
    BY <2>1, ShiftFacts
  <2>3. \A s \in Slots : mBufSlotInfo[s] # bo
    BY <2>1 DEF BuffersHeldOnce, InSlots
  <2>4. ASSUME NEW s \in Slots, NEW t \in Slots, s # t, mBufSlotInfo'[s] = mBufSlotInfo'[t]
        PROVE  mBufSlotInfo'[s] = NoBo
    <3>1. CASE s = 0 \/ t = 0
      BY <2>2, <2>4, <3>1
    <3>2. CASE s = 1 /\ t # 0
      <4>1. t - 1 \in Slots /\ mBufSlotInfo'[t] = mBufSlotInfo[t - 1]
        BY <2>2, <2>4, <3>2
      <4>. QED  BY <2>2, <2>3, <2>4, <3>2, <4>1
    <3>3. CASE t = 1 /\ s # 0
      <4>1. s - 1 \in Slots /\ mBufSlotInfo'[s] = mBufSlotInfo[s - 1]
        BY <2>2, <2>4, <3>3
      <4>. QED  BY <2>2, <2>3, <2>4, <3>3, <4>1
    <3>4. CASE s \notin {0, 1} /\ t \notin {0, 1}
      <4>1. s - 1 \in Slots /\ t - 1 \in Slots /\ s - 1 # t - 1
        BY <3>4, <2>4
      <4>. QED  BY <2>2, <2>4, <3>4, <4>1 DEF BuffersHeldOnce
    <3>. QED  BY <3>1, <3>2, <3>3, <3>4
  <2>. QED  BY <2>1, <2>2, <2>4 DEF BuffersHeldOnce, Held
<1>. QED  BY <1>1, <1>2, <1>3, <1>4, <1>5 DEF FramesNext

LEMMA NextShown == FramesInv /\ [FramesNext]_frameVars => ShownIsKept'
<1>. SUFFICES ASSUME FramesInv, [FramesNext]_frameVars PROVE ShownIsKept'
  OBVIOUS
<1>. USE DEF FramesInv, FramesTypeOK, PlaceInv
<1>1. CASE Start \/ Skip \/ End \/ UNCHANGED frameVars
  BY <1>1 DEF Start, Skip, End, frameVars, ShownIsKept
<1>2. CASE Evict
  <2>1. CASE fb = mBufSlotInfo[Last]
    BY <1>2, <2>1 DEF Evict, ShownIsKept
  <2>2. CASE fb # mBufSlotInfo[Last]
    <3>1. fb' = fb /\ missed' = missed
          /\ mBufSlotInfo' = [mBufSlotInfo EXCEPT ![Last] = NoBo]
      BY <1>2, <2>2 DEF Evict
    <3>. QED  BY <2>2, <3>1 DEF ShownIsKept
  <2>. QED  BY <2>1, <2>2
<1>3. CASE Create \/ AddFB
  BY <1>3 DEF Create, AddFB, ShownIsKept
<1>4. CASE Display
  <2>1. /\ bo \in Bos /\ mBufSlotInfo[0] = NoBo /\ mBufSlotInfo[Last] = NoBo
        /\ mBufSlotInfo' = Shift([mBufSlotInfo EXCEPT ![0] = bo])
    BY <1>4 DEF Display
  <2>2. /\ mBufSlotInfo'[1] = bo /\ 1 \in Slots
        /\ \A s \in Slots \ {0, 1} : mBufSlotInfo'[s] = mBufSlotInfo[s - 1]
    BY <2>1, ShiftFacts
  <2>3. CASE fb' = bo /\ missed' = 0
    BY <2>2, <2>3 DEF ShownIsKept
  <2>4. CASE fb' = fb /\ fb # NoBo /\ missed' = missed + 1
    <3>1. missed + 1 \in Slots /\ mBufSlotInfo[missed + 1] = fb
      BY <2>4 DEF ShownIsKept
    <3>2. missed + 1 # Last
      BY <2>1, <2>4, <3>1
    <3>3. missed' + 1 \in Slots \ {0, 1} /\ (missed' + 1) - 1 = missed + 1
      BY <2>4, <3>1, <3>2
    <3>. QED  BY <2>2, <2>4, <3>1, <3>3 DEF ShownIsKept
  <2>5. CASE fb' = NoBo
    BY <2>5 DEF ShownIsKept
  <2>. QED  BY <1>4, <2>3, <2>4, <2>5 DEF Display
<1>. QED  BY <1>1, <1>2, <1>3, <1>4 DEF FramesNext

THEOREM FramesInvariance == FramesSpec => []FramesInv
<1>1. FramesInv /\ [FramesNext]_frameVars => FramesInv'
  BY NextFramesTypes, NextHeld, NextShown DEF FramesInv
<1>. QED  BY InitFrames, <1>1, PTL DEF FramesSpec

\* Type correctness; slot 0 is empty whenever bootAnimation is not shifting.
THEOREM FramesTypeCorrect == FramesSpec => []FramesTypeOK
<1>1. FramesInv => FramesTypeOK
  BY DEF FramesInv
<1>. QED  BY FramesInvariance, <1>1, PTL

\* No buffer object is lost or destroyed twice, however many slots there are and
\* whichever calls fail, but for those whose frame buffer could not be added.
THEOREM BuffersHeldOnceThm == FramesSpec => []BuffersHeldOnce
<1>1. FramesInv => BuffersHeldOnce
  BY DEF FramesInv
<1>. QED  BY FramesInvariance, <1>1, PTL

\* The picture on the screen is destroyed without a successor only when all pictures
\* the slots had room for after it failed to get there.
THEOREM KeptWhileReplacedThm == FramesSpec => KeptWhileReplaced
<1>1. FramesInv /\ [FramesNext]_frameVars => (fb # NoBo /\ fb' = NoBo => missed >= MAX_OUTPUT_RSV_CNT - 2)
  <2>. SUFFICES ASSUME FramesInv, [FramesNext]_frameVars, fb # NoBo, fb' = NoBo
                PROVE  missed >= MAX_OUTPUT_RSV_CNT - 2
    OBVIOUS
  <2>. USE DEF FramesInv, FramesTypeOK, PlaceInv
  <2>1. Evict
    BY DEF FramesNext, Start, Skip, End, Create, AddFB, Display, frameVars
  <2>2. fb = mBufSlotInfo[Last] /\ Last \in Slots
    BY <2>1 DEF Evict
  <2>3. missed + 1 = Last
    BY <2>2 DEF ShownIsKept, BuffersHeldOnce
  <2>. QED  BY <2>3
<1>. QED  BY FramesInvariance, <1>1, PTL DEF FramesSpec, KeptWhileReplaced
=============================================================================
