--------------------------- MODULE BootAnimation ---------------------------
(***************************************************************************)
(* bootAnimation: shows the pictures one after the other.  Each picture    *)
(* gets a buffer object of its own; mBufSlotInfo keeps the last ones, the  *)
(* newest in slot 1, and the oldest is destroyed before a new one is made. *)
(* Slot 0 is only used while the slots are shifted.                        *)
(*                                                                         *)
(* Any call to the DRM device can fail: creating the buffer (bo_create     *)
(* then follows a null pointer), mapping it, adding the frame buffer (the  *)
(* buffer is then forgotten), putting it on the screen (the picture before *)
(* stays).  The contents of pictures are left out.                         *)
(***************************************************************************)
EXTENDS Naturals

CONSTANTS
    Bos,                   \* buffer objects
    NoBo,                  \* the null pointer
    MAX_OUTPUT_RSV_CNT,    \* number of slots
    mImageCount

ASSUME BootAnimationAssumption ==
    /\ NoBo \notin Bos
    /\ MAX_OUTPUT_RSV_CNT \in Nat \ {0, 1} /\ mImageCount \in Nat

VARIABLES
    step,              \* where bootAnimation is, "idle" between two calls
    j,               \* the picture
    bo,
    mBufSlotInfo,
    live,            \* the buffer objects that exist
    forgotten,       \* those that no slot will ever hold
    fb,              \* the buffer on the screen
    missed           \* pictures that failed to get there since it did

frameVars == <<step, j, bo, mBufSlotInfo, live, forgotten, fb, missed>>
Slots == 0..MAX_OUTPUT_RSV_CNT - 1
Last_newest == 1
Last == MAX_OUTPUT_RSV_CNT - 1

FramesInit ==
    /\ step = "idle" /\ j = 0
    /\ bo = NoBo
    /\ mBufSlotInfo = [s \in Slots |-> NoBo]
    /\ live = {} /\ forgotten = {}
    /\ fb = NoBo /\ missed = 0

Start ==
    /\ step = "idle"
    /\ step' = "picture" /\ j' = 0
    /\ UNCHANGED <<bo, mBufSlotInfo, live, forgotten, fb, missed>>

\* A picture that is missing or has no size is passed over; so is one without a frame
\* buffer, in AddFB.
Skip ==
    /\ step = "picture" /\ j < mImageCount
    /\ j' = j + 1
    /\ UNCHANGED <<step, bo, mBufSlotInfo, live, forgotten, fb, missed>>

End ==
    /\ step = "picture" /\ j >= mImageCount
    /\ step' = "idle"
    /\ UNCHANGED <<j, bo, mBufSlotInfo, live, forgotten, fb, missed>>

\* bo_unmap and bo_destroy; a buffer on the screen goes off it.
Evict ==
    /\ step = "picture" /\ j < mImageCount
    /\ LET old == mBufSlotInfo[Last]
       IN  /\ live' = live \ {old}
           /\ fb' = IF fb = old THEN NoBo ELSE fb
           /\ missed' = IF fb = old THEN 0 ELSE missed
    /\ mBufSlotInfo' = [mBufSlotInfo EXCEPT ![Last] = NoBo]
    /\ step' = "create"
    /\ UNCHANGED <<j, bo, forgotten>>

\* bo_create: without a buffer the process dies, without a mapping bootAnimation
\* returns.
Create ==
    /\ step = "create"
    /\ \/ /\ bo' \in Bos \ live
          /\ live' = live \cup {bo'}
          /\ step' = "add"
       \/ step' \in {"dead", "idle"} /\ UNCHANGED <<bo, live>>
    /\ UNCHANGED <<j, mBufSlotInfo, forgotten, fb, missed>>

AddFB ==
    /\ step = "add"
    /\ \/ step' = "display" /\ UNCHANGED <<j, bo, forgotten>>
       \/ /\ forgotten' = forgotten \cup {bo}
          /\ bo' = NoBo
          /\ j' = j + 1 /\ step' = "picture"
    /\ UNCHANGED <<mBufSlotInfo, live, fb, missed>>

\* ctx_drm_display puts the picture on the screen or fails, and bootAnimation does not
\* ask which.  Then the slots are shifted, from the last one down.
Shift_up(slots) == [s \in Slots |-> IF s = 0 THEN NoBo ELSE slots[0]]
Shift(slots) == [s \in Slots |-> IF s = 0 THEN NoBo ELSE slots[s - 1]]
Display ==
    /\ step = "display"
    /\ \/ fb' = bo /\ missed' = 0
       \/ /\ fb' = fb
          /\ missed' = IF fb = NoBo THEN 0 ELSE missed + 1
    /\ mBufSlotInfo' = Shift([mBufSlotInfo EXCEPT ![0] = bo])
    /\ bo' = NoBo
    /\ j' = j + 1 /\ step' = "picture"
    /\ UNCHANGED <<live, forgotten>>

FramesNext == Start \/ Skip \/ End \/ Evict \/ Create \/ AddFB \/ Display
FramesSpec == FramesInit /\ [][FramesNext]_frameVars

(***************************************************************************)
(* Properties                                                              *)
(***************************************************************************)
\* Type correctness; outside of bootAnimation's shift slot 0 is empty.
FramesTypeOK ==
    /\ step \in {"idle", "picture", "create", "add", "display", "dead"}
    /\ j \in 0..mImageCount
    /\ bo \in Bos \cup {NoBo}
    /\ mBufSlotInfo \in [Slots -> Bos \cup {NoBo}] /\ mBufSlotInfo[0] = NoBo
    /\ live \in SUBSET Bos /\ forgotten \in SUBSET Bos
    /\ fb \in Bos \cup {NoBo}
    /\ missed \in Nat

\* Every buffer that exists is held once: by one slot, as the current one, or it is one
\* whose frame buffer could not be added (bootAnimation 681-710).
InSlots == {mBufSlotInfo[s] : s \in Slots} \ {NoBo}
Held == InSlots \cup ({bo} \ {NoBo})
BuffersHeldOnce ==
    /\ live = Held \cup forgotten
    /\ Held \cap forgotten = {}
    /\ \A s, t \in Slots : mBufSlotInfo[s] = mBufSlotInfo[t] /\ s # t => mBufSlotInfo[s] = NoBo
    /\ bo # NoBo => bo \notin InSlots

\* The screen is emptied only after as many pictures as there are slots but one have
\* failed to get there: until then the shift keeps the shown one (676-688, 701-709).
KeptWhileReplaced ==
    [][fb # NoBo /\ fb' = NoBo => missed >= MAX_OUTPUT_RSV_CNT - 2]_frameVars
====
