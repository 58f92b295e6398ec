------------------------------ MODULE Modeset ------------------------------
(***************************************************************************)
(* modeset: sets the video mode when a monitor is plugged in and plays the *)
(* boot animation.  Three threads: main starts the others and enables the  *)
(* animation, the uevent thread follows hotplug events (updateModes,       *)
(* setMode, drm_update), the vsync thread plays (Routine).                 *)
(*                                                                         *)
(* They share enabled_ and vsync_cnt, guarded by lock_ in vsync_control    *)
(* only, and g_drm_encoder, guarded by nothing: a thread that follows the  *)
(* pointer while drm_get_encoder has freed it goes on with garbage or dies.*)
(* main initialises lock_ when the uevent thread is already running.       *)
(*                                                                         *)
(* Left out: the frames (module BootAnimation), the mode numbers, modeset  *)
(* called with a mode argument (no thread then touches the animation), and *)
(* stop_boot_thread and exit_, behind main's endless loop.  updateModes    *)
(* reads all connectors in one step, and again in a later one.             *)
(***************************************************************************)
EXTENDS Naturals, FiniteSets

CONSTANTS
    Connectors,
    HDMI,          \* the connectors of type HDMIA
    EventSpace,    \* how many unread events the kernel keeps for the DRM file
    MaxPlugs,      \* bound on the number of hotplugs
    NoConnector

ASSUME ConnectorAssumption ==
    HDMI \subseteq Connectors /\ NoConnector \notin Connectors
ASSUME BoundAssumption == EventSpace \in Nat /\ MaxPlugs \in Nat

VARIABLES
    pc,            \* where each thread is
    want,          \* the argument of a thread's call of vsync_control
    lock_,         \* the thread that holds lock_, or "free"
    enabled_,
    vsync_cnt,     \* 0, or 1 for any other count
    connected,     \* the connectors with a monitor
    uevents,       \* hotplug events in the netlink socket
    drmEvents,     \* page flip events in the DRM file, which nobody reads
    active,        \* the connector whose mode is set and whose CRTC is on
    g_drm_encoder, \* "null", "valid", or "freed" (it still points to the old one)
    plugs,         \* number of hotplugs so far
    unannounced,   \* the last hotplug came before the socket was bound
    torn           \* lock_ was initialised while it was held

threads == <<pc, want, lock_, enabled_, vsync_cnt>>
kernel == <<connected, uevents, drmEvents, active>>
history == <<unannounced, torn>>
vars == <<threads, kernel, g_drm_encoder, plugs, history>>

Thread == {"main", "uevent", "vsync"}
Goto(t, l) == pc' = [pc EXCEPT ![t] = l]
Alive == pc["vsync"] # "dead"

Init ==
    /\ pc = [t \in Thread |-> IF t = "main" THEN "drm_init" ELSE "off"]
    /\ want = [t \in {"main", "uevent"} |-> TRUE]
    /\ lock_ = "free" /\ enabled_ = FALSE /\ vsync_cnt = 0
    /\ connected \in SUBSET Connectors
    /\ active \in connected \cup {NoConnector}
    /\ uevents = 0 /\ drmEvents = 0
    /\ g_drm_encoder = "null"
    /\ plugs = 0 /\ unannounced = FALSE /\ torn = FALSE

(***************************************************************************)
(* vsync_control(want), called by main and by the uevent thread            *)
(***************************************************************************)
CtlLock(t) ==
    /\ pc[t] = "ctl_lock" /\ lock_ = "free"
    /\ lock_' = t
    /\ Goto(t, "ctl_set")
    /\ UNCHANGED <<want, enabled_, vsync_cnt, kernel, g_drm_encoder, plugs, history>>

\* enabled_ and the signal, which wakes the vsync thread if it waits.
Signalled_never(l) == l
Signalled(l) == IF l = "blocked" THEN "wake" ELSE l
CtlSet(t) ==
    /\ pc[t] = "ctl_set"
    /\ enabled_' = want[t]
    /\ pc' = [pc EXCEPT ![t] = "ctl_unlock", !["vsync"] = Signalled(@)]
    /\ UNCHANGED <<want, lock_, vsync_cnt, kernel, g_drm_encoder, plugs, history>>

AfterCtl_shared(t) == IF want[t] THEN "read" ELSE "commit_off"
AfterCtl(t) == IF t = "main" THEN "sleep" ELSE IF want[t] THEN "read" ELSE "commit_off"
CtlUnlock(t) ==
    /\ pc[t] = "ctl_unlock"
    /\ vsync_cnt' = 0
    /\ lock_' = "free"
    /\ Goto(t, AfterCtl(t))
    /\ UNCHANGED <<want, enabled_, kernel, g_drm_encoder, plugs, history>>

(***************************************************************************)
(* main                                                                    *)
(***************************************************************************)
\* drm_init, whose result is dropped; an encoder is found if a mode is set, as the
\* bootloader may have done.  Then the uevent thread is created.
MainInit ==
    /\ pc["main"] = "drm_init"
    /\ g_drm_encoder' = IF active = NoConnector THEN "null" ELSE "valid"
    /\ pc' = [pc EXCEPT !["main"] = "reset", !["uevent"] = "bind"]
    /\ UNCHANGED <<want, lock_, enabled_, vsync_cnt, kernel, plugs, history>>

\* start_boot_thread: the flags, then the mutex, then the thread.
MainReset ==
    /\ pc["main"] = "reset"
    /\ enabled_' = FALSE
    /\ Goto("main", "create")
    /\ UNCHANGED <<want, lock_, vsync_cnt, kernel, g_drm_encoder, plugs, history>>

MainCreate ==
    /\ pc["main"] = "create"
    /\ lock_' = "free" /\ torn' = (lock_ # "free")
    /\ pc' = [pc EXCEPT !["main"] = "ctl_lock", !["vsync"] = "lock"]
    /\ want' = [want EXCEPT !["main"] = TRUE]
    /\ UNCHANGED <<enabled_, vsync_cnt, kernel, g_drm_encoder, plugs, unannounced>>

(***************************************************************************)
(* The uevent thread                                                       *)
(***************************************************************************)
Bind ==
    /\ pc["uevent"] = "bind"
    /\ Goto("uevent", "read")
    /\ UNCHANGED <<want, lock_, enabled_, vsync_cnt, kernel, g_drm_encoder, plugs, history>>

\* UEventHandler reads in a loop of its own, so select and drmHandleEvent never get
\* their turn again.
ReadUevent ==
    /\ pc["uevent"] = "read" /\ uevents > 0
    /\ uevents' = uevents - 1
    /\ Goto("uevent", "count")
    /\ UNCHANGED <<want, lock_, enabled_, vsync_cnt, connected, drmEvents, active, g_drm_encoder,
                   plugs, history>>

\* updateModes: is there a monitor at all?
CountMonitors ==
    /\ pc["uevent"] = "count"
    /\ want' = [want EXCEPT !["uevent"] = connected # {}]
    /\ Goto("uevent", IF connected = {} THEN "ctl_lock" ELSE "set_mode")
    /\ UNCHANGED <<lock_, enabled_, vsync_cnt, kernel, g_drm_encoder, plugs, history>>

\* All CRTCs off.  The kernel refuses if a connector in use is connected again, since
\* that one's CRTC_ID is not cleared.
CommitOff ==
    /\ pc["uevent"] = "commit_off"
    /\ active' = IF active \in connected THEN active ELSE NoConnector
    /\ Goto("uevent", "read")
    /\ UNCHANGED <<want, lock_, enabled_, vsync_cnt, connected, uevents, drmEvents, g_drm_encoder,
                   plugs, history>>

\* setMode on a connected HDMI connector (isHdmiConnect is assigned in the test, so no
\* other is tried).  The commit asks for a page flip event, and fails without room.
Committed == drmEvents + 1
Tried_unplugged == HDMI
Tried == connected \cap HDMI
SetMode ==
    /\ pc["uevent"] = "set_mode"
    /\ \/ \E c \in Tried :
            /\ IF drmEvents < EventSpace
               THEN active' = c /\ drmEvents' = Committed
               ELSE UNCHANGED <<active, drmEvents>>
            /\ Goto("uevent", "update")
       \/ Tried = {} /\ Goto("uevent", "ctl_lock") /\ UNCHANGED <<active, drmEvents>>
    /\ UNCHANGED <<want, lock_, enabled_, vsync_cnt, connected, uevents, g_drm_encoder, plugs, history>>

\* drm_update: drm_get_encoder frees the encoder before it looks for the new one.
FreeEncoder ==
    /\ pc["uevent"] = "update"
    /\ g_drm_encoder' = IF g_drm_encoder = "null" THEN "null" ELSE "freed"
    /\ Goto("uevent", "find")
    /\ UNCHANGED <<want, lock_, enabled_, vsync_cnt, kernel, plugs, history>>

FindEncoder ==
    /\ pc["uevent"] = "find"
    /\ g_drm_encoder' = IF active = NoConnector THEN "null" ELSE "valid"
    /\ Goto("uevent", "ctl_lock")
    /\ UNCHANGED <<want, lock_, enabled_, vsync_cnt, kernel, plugs, history>>

(***************************************************************************)
(* The vsync thread: Routine                                               *)
(***************************************************************************)
VsyncLock ==
    /\ pc["vsync"] = "lock" /\ lock_ = "free"
    /\ lock_' = "vsync"
    /\ Goto("vsync", "test")
    /\ UNCHANGED <<want, enabled_, vsync_cnt, kernel, g_drm_encoder, plugs, history>>

\* The test and the wait are two steps: lock_ keeps others from between them only if
\* it was not initialised while it was held.
VsyncTest ==
    /\ pc["vsync"] = "test"
    /\ Goto("vsync", IF enabled_ THEN "look" ELSE "wait")
    /\ UNCHANGED <<want, lock_, enabled_, vsync_cnt, kernel, g_drm_encoder, plugs, history>>

VsyncWait ==
    /\ pc["vsync"] = "wait"
    /\ lock_' = "free"
    /\ Goto("vsync", "blocked")
    /\ UNCHANGED <<want, enabled_, vsync_cnt, kernel, g_drm_encoder, plugs, history>>

\* pthread_cond_wait may also return without a signal.
SpuriousWakeup ==
    /\ pc["vsync"] = "blocked"
    /\ Goto("vsync", "wake")
    /\ UNCHANGED <<want, lock_, enabled_, vsync_cnt, kernel, g_drm_encoder, plugs, history>>

VsyncWake ==
    /\ pc["vsync"] = "wake" /\ lock_ = "free"
    /\ lock_' = "vsync"
    /\ Goto("vsync", "look")
    /\ UNCHANGED <<want, enabled_, vsync_cnt, kernel, g_drm_encoder, plugs, history>>

\* Routine takes enabled_ as it is now, and goes back to its start without it.
Recheck_none == TRUE
Recheck == enabled_
VsyncLook ==
    /\ pc["vsync"] = "look"
    /\ lock_' = "free"
    /\ Goto("vsync", IF Recheck THEN "vblank" ELSE "lock")
    /\ UNCHANGED <<want, enabled_, vsync_cnt, kernel, g_drm_encoder, plugs, history>>

\* What follows g_drm_encoder: on to l, or the end of the process.
Follow(l) == Goto("vsync", l) \/ (g_drm_encoder = "freed" /\ Goto("vsync", "dead"))

Vblank ==
    /\ pc["vsync"] = "vblank"
    /\ Follow("video")
    /\ UNCHANGED <<want, lock_, enabled_, vsync_cnt, kernel, g_drm_encoder, plugs, history>>

\* drm_check_video: the animation makes way for a player.
CheckVideo ==
    /\ pc["vsync"] = "video"
    /\ \E video \in BOOLEAN :
          Goto("vsync", IF ~video /\ vsync_cnt = 0 THEN "animate" ELSE "count")
    /\ UNCHANGED <<want, lock_, enabled_, vsync_cnt, kernel, g_drm_encoder, plugs, history>>

Animate ==
    /\ pc["vsync"] = "animate"
    /\ Follow("count")
    /\ UNCHANGED <<want, lock_, enabled_, vsync_cnt, kernel, g_drm_encoder, plugs, history>>

\* vsync_cnt++, without the lock: a reset since the test is lost.
CountVsync ==
    /\ pc["vsync"] = "count"
    /\ vsync_cnt' = 1
    /\ Goto("vsync", "lock")
    /\ UNCHANGED <<want, lock_, enabled_, kernel, g_drm_encoder, plugs, history>>

(***************************************************************************)
(* The world outside                                                       *)
(***************************************************************************)
\* A monitor is plugged in or out; the event reaches a bound socket only.
Hotplug(c) ==
    /\ plugs < MaxPlugs
    /\ plugs' = plugs + 1
    /\ connected' = IF c \in connected THEN connected \ {c} ELSE connected \cup {c}
    /\ IF pc["uevent"] \in {"off", "bind"}
       THEN UNCHANGED uevents /\ unannounced' = TRUE
       ELSE uevents' = uevents + 1 /\ unannounced' = FALSE
    /\ UNCHANGED <<threads, drmEvents, active, g_drm_encoder, torn>>

Main == Alive /\ (CtlLock("main") \/ CtlSet("main") \/ CtlUnlock("main")
                  \/ MainInit \/ MainReset \/ MainCreate)
Uevent == Alive /\ (CtlLock("uevent") \/ CtlSet("uevent") \/ CtlUnlock("uevent") \/ Bind
                    \/ ReadUevent \/ CountMonitors \/ CommitOff \/ SetMode \/ FreeEncoder
                    \/ FindEncoder)
Vsync == VsyncLock \/ VsyncTest \/ VsyncWait \/ VsyncWake \/ VsyncLook \/ Vblank \/ CheckVideo \/ Animate
         \/ CountVsync

Next == Main \/ Uevent \/ Vsync \/ SpuriousWakeup \/ \E c \in Connectors : Hotplug(c)

Spec == Init /\ [][Next]_vars

\* The scheduler runs every thread that can run; the mutex is handed to a thread that
\* keeps asking for it.
FairSpec == Spec /\ WF_vars(Uevent) /\ WF_vars(Vsync) /\ WF_vars(Main)
                 /\ SF_vars(CtlLock("main")) /\ SF_vars(CtlLock("uevent"))
                 /\ SF_vars(VsyncLock) /\ SF_vars(VsyncWake)

(***************************************************************************)
(* Properties                                                              *)
(***************************************************************************)
\* Type correctness: every thread is at a place of its own code, and the kernel never
\* keeps more page flip events than it has room for.
Control == {"ctl_lock", "ctl_set", "ctl_unlock"}
TypeOK ==
    /\ pc["main"] \in Control \cup {"drm_init", "reset", "create", "sleep"}
    /\ pc["uevent"] \in Control \cup {"off", "bind", "read", "count", "commit_off", "set_mode",
                                      "update", "find"}
    /\ pc["vsync"] \in {"off", "lock", "test", "wait", "blocked", "wake", "look", "vblank", "video",
                        "animate", "count", "dead"}
    /\ DOMAIN pc = Thread
    /\ want \in [{"main", "uevent"} -> BOOLEAN]
    /\ lock_ \in Thread \cup {"free"}
    /\ enabled_ \in BOOLEAN /\ vsync_cnt \in 0..1
    /\ connected \in SUBSET Connectors
    /\ uevents \in 0..MaxPlugs /\ drmEvents \in 0..EventSpace
    /\ active \in Connectors \cup {NoConnector}
    /\ g_drm_encoder \in {"null", "valid", "freed"}
    /\ plugs \in 0..MaxPlugs /\ unannounced \in BOOLEAN /\ torn \in BOOLEAN

\* No lost wakeup: when the animation is enabled the vsync thread does not wait
\* (Routine 761-763, vsync_control 860-862), unless main initialised the mutex while the
\* uevent thread held it: then two threads may be inside at once, and the signal can come
\* between the test and the wait.
WaiterIsWoken == pc["vsync"] = "blocked" /\ enabled_ => torn

\* While the animation stays enabled the vsync thread keeps passing its test for a
\* player's plane, frame by frame (Routine 813-821), with the same exception.
AnimationRuns == <>[]enabled_ => []<>(pc["vsync"] = "video" \/ ~Alive \/ torn)

\* Once it stays disabled the vsync thread stays out of the frame loop, whatever wakes
\* it (Routine 769-777).
AnimationPauses ==
    <>[]~enabled_ => <>[](pc["vsync"] \notin {"vblank", "video", "animate", "count"})

\* The screen follows the monitors: when the plugging has stopped and was announced,
\* everything is off if no monitor is left, and a connected HDMI monitor has its mode
\* set, as long as the DRM file had room for the page flip event (updateModes 201-285).
ScreenMatches ==
    /\ connected = {} => active = NoConnector
    /\ connected \cap HDMI # {} => active \in connected \cap HDMI
ScreenFollows ==
    <>[](plugs > 0 /\ ~unannounced /\ Alive /\ drmEvents < EventSpace => ScreenMatches)
====
