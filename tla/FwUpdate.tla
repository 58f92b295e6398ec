------------------------------ MODULE FwUpdate ------------------------------
(***************************************************************************)
(* update: the tool that prepares a firmware update or a factory reset and *)
(* reboots into recovery.                                                  *)
(*                                                                         *)
(*   update ota PATH  flashes the recovery partition from the image        *)
(*                    (WriteFwData), reads it back (CheckFwData) and tells *)
(*                    recovery to install PATH (rebootUpdate);             *)
(*   update ota       tells recovery to install the image it finds;        *)
(*   update factory   tells recovery to wipe the user data.                *)
(*                                                                         *)
(* The recovery partition and the misc partition are written through the   *)
(* page cache; only bootCommand's sync, or the kernel at a time of its own,*)
(* makes them durable.  Power can fail at any time, and the tool can be    *)
(* run again after it failed.  A byte of an image is its position in the   *)
(* file, so a byte of the partition tells where it came from.              *)
(*                                                                         *)
(* External: the bootloader (boots recovery if misc says so) and recovery  *)
(* itself, which clears misc.  X_word is X with a bug of the kind the name *)
(* says.                                                                   *)
(***************************************************************************)
EXTENDS Integers, Sequences

CONSTANTS
    Images,      \* the images an update can find, see IsImage
    BufSize,     \* LBA_TRANSFER_SIZE
    HdrSize,     \* sizeof(STRUCT_RKIMAGE_HDR)
    Word,        \* 2^32: a DWORD holds 0..Word-1
    FlashSize,   \* bytes of the recovery partition
    MaxRuns      \* bound on the number of times the tool is run

\* What the code reads of an image: whether it starts with the RKFW tag, the
\* offset of the firmware in it, and for each item of the firmware header
\* whether it is the recovery partition, where it starts and how long it is,
\* and whether file[50] marks an offset beyond 4 GiB.
Item == [recovery : BOOLEAN, offset : 0..Word - 1, size : Nat, far : BOOLEAN]
Image == [tag : BOOLEAN, dwFWOffset : 0..Word - 1, fileSize : Nat, item : Seq(Item)]

ASSUME BoundsAssumption ==
    /\ BufSize \in Nat \ {0} /\ HdrSize \in Nat \ {0} /\ FlashSize \in Nat
    /\ Word \in Nat \ {0} /\ MaxRuns \in Nat
ASSUME ImagesAssumption == Images \subseteq Image

\* The images the tool is meant for: below 4 GiB, with one recovery item at most,
\* which a second one would follow at a wrong place (uiEntryOffset is not reset).
ASSUME SmallImages ==
    \A im \in Images :
        /\ im.fileSize < Word
        /\ \A k \in 1..Len(im.item) :
              im.item[k].recovery => im.dwFWOffset + im.item[k].offset < Word
        /\ \A j, k \in 1..Len(im.item) :
              im.item[j].recovery /\ im.item[k].recovery => j = k

Old == -1                          \* a byte no update has written
Area == 0..FlashSize - 1
Packages == {"given", "data", "sd"}
Commands == {"wipe"} \cup Packages

VARIABLES
    pc,              \* where the tool is
    job,             \* "ota" with a path, "update" without one, "factory"
    image,           \* the image GetFwSize found
    present,         \* which of /userdata/update.img and /sdcard/update.img exist
    m_fwOffset,
    idx, fileBufferSize, uiEntryOffset, recvPos,    \* of the two loops
    package,         \* the command bootCommand is writing
    cache, disk,     \* recovery and misc in the page cache and on the medium
    runs             \* number of runs so far

loop == <<idx, fileBufferSize, uiEntryOffset, recvPos>>
vars == <<pc, job, image, present, m_fwOffset, loop, package, cache, disk, runs>>

Clear == "clear"
Init ==
    /\ pc = "booted"
    /\ job = "none"
    /\ image \in Images
    /\ present \in SUBSET {"data", "sd"}
    /\ m_fwOffset = 0
    /\ idx = 0 /\ fileBufferSize = 0 /\ uiEntryOffset = 0 /\ recvPos = 0
    /\ package = "wipe"
    /\ cache = [recovery |-> [i \in Area |-> Old], misc |-> Clear]
    /\ disk = cache
    /\ runs = 0

(***************************************************************************)
(* WriteFwData and CheckFwData                                             *)
(***************************************************************************)
\* GetFwOffset returns -1 for a file without the tag; m_fwOffset is a DWORD, so
\* the tests for m_fwOffset < 0 never hold and only GetData's bound is left.
NoOffset == Word - 1
GetFwOffset == IF image.tag THEN image.dwFWOffset ELSE NoOffset

\* GetData(offset, n): does it deliver n bytes?
GetData(offset, n) == n # 0 /\ offset + n <= image.fileSize

ResetLoop == idx' = 0 /\ fileBufferSize' = 0 /\ uiEntryOffset' = 0 /\ recvPos' = 0

\* GetFwSize, the headers and fopen of the partition.  Any of the calls can
\* fail, also for want of an image.
OpenImage ==
    /\ pc = "open"
    /\ m_fwOffset' = GetFwOffset
    /\ \/ pc' = "failed"
       \/ /\ GetData(m_fwOffset', HdrSize)
          /\ image.item # <<>>
          /\ pc' = "write"
    /\ ResetLoop
    /\ UNCHANGED <<job, image, present, package, cache, disk, runs>>

\* The head of the for loop: on to the next item, or the end of the function.
\* An offset marked as far is read through a character taken for a pointer.
NextItem ==
    /\ pc \in {"write", "check"}
    /\ fileBufferSize = 0
    /\ IF idx < Len(image.item)
       THEN LET t == image.item[idx + 1]
            IN  /\ idx' = idx + 1
                /\ fileBufferSize' = IF t.recovery THEN t.size ELSE 0
                /\ pc' = IF t.recovery /\ t.far /\ t.size > 0 THEN "failed" ELSE pc
                /\ UNCHANGED <<uiEntryOffset, recvPos>>
       ELSE ResetLoop /\ pc' = IF pc = "write" THEN "check" ELSE "boot"
    /\ UNCHANGED <<job, image, present, m_fwOffset, package, cache, disk, runs>>

\* The chunk of an item that the inner loops handle next: its length, its place
\* in the image (the sum of two DWORDs), and its place in the partition.
ChunkLen == IF fileBufferSize < BufSize THEN fileBufferSize ELSE BufSize
ChunkOffset_head == (m_fwOffset + image.item[idx].offset) % Word
ChunkOffset == ((m_fwOffset + image.item[idx].offset) % Word) + uiEntryOffset
Chunk == recvPos..recvPos + ChunkLen - 1
ByteAt(i) == ChunkOffset + (i - recvPos)

Advance ==
    /\ fileBufferSize' = fileBufferSize - ChunkLen
    /\ uiEntryOffset' = uiEntryOffset + ChunkLen
    /\ recvPos' = recvPos + ChunkLen
    /\ UNCHANGED <<pc, idx>>

Fail == pc' = "failed" /\ UNCHANGED loop

Put(S) == [cache EXCEPT !.recovery =
              [i \in Area |-> IF i \in S THEN ByteAt(i) ELSE cache.recovery[i]]]

\* fwrite of one chunk fails, perhaps after a part of it, or succeeds; a chunk
\* shorter than the buffer stays in stdio until fclose, whose failure nobody sees.
WriteChunk ==
    /\ pc = "write" /\ fileBufferSize > 0
    /\ \/ Fail /\ UNCHANGED cache
       \/ /\ Fail
          /\ GetData(ChunkOffset, ChunkLen)
          /\ \E n \in 1..ChunkLen : cache' = Put(recvPos..recvPos + n - 1)
       \/ /\ GetData(ChunkOffset, ChunkLen)
          /\ Advance
          /\ \/ Chunk \subseteq Area /\ cache' = Put(Chunk)
             \/ ChunkLen < BufSize /\ UNCHANGED cache
    /\ UNCHANGED <<job, image, present, m_fwOffset, package, disk, runs>>

\* Read back: through the page cache, not from the medium.
SameBytes_length == Chunk \subseteq Area
SameBytes ==
    /\ Chunk \subseteq Area
    /\ \A i \in Chunk : cache.recovery[i] = ByteAt(i)
CheckChunk ==
    /\ pc = "check" /\ fileBufferSize > 0
    /\ \/ Fail
       \/ GetData(ChunkOffset, ChunkLen) /\ SameBytes /\ Advance
    /\ UNCHANGED <<job, image, present, m_fwOffset, package, cache, disk, runs>>

(***************************************************************************)
(* main, rebootUpdate, rebootWipeUserData and bootCommand                  *)
(***************************************************************************)
\* The image rebootUpdate finds by itself.
Found == IF "data" \in present THEN "data"
         ELSE IF "sd" \in present THEN "sd" ELSE "none"

Run(j) ==
    /\ pc \in {"booted", "failed"}
    /\ runs < MaxRuns
    /\ runs' = runs + 1
    /\ job' = j
    /\ package' = CASE j = "ota" -> "given" [] j = "update" -> Found
                     [] j = "factory" -> "wipe"
    /\ pc' = IF j = "ota" THEN "open" ELSE IF package' = "none" THEN "failed" ELSE "boot"
    /\ UNCHANGED <<image, present, m_fwOffset, loop, cache, disk>>

\* What is tried when bootCommand has returned, which it does on failure only.
NextPackage_retry == IF package = "data" /\ "sd" \in present THEN "sd"
                     ELSE IF package = "wipe" THEN "none" ELSE Found
NextPackage == IF package = "given" THEN Found ELSE "none"

\* The three fopens of bootCommand, that of misc last; if one fails nothing has
\* been written to misc.
BootOpen ==
    /\ pc = "boot"
    /\ \/ pc' = "arm" /\ UNCHANGED package
       \/ /\ package' = NextPackage
          /\ pc' = IF NextPackage = "none" THEN "failed" ELSE "boot"
    /\ UNCHANGED <<job, image, present, m_fwOffset, loop, cache, disk, runs>>

\* The command goes to misc; whether fwrite does it is not asked.
BootArm ==
    /\ pc = "arm"
    /\ cache' \in {cache, [cache EXCEPT !.misc = package]}
    /\ pc' = "sync"
    /\ UNCHANGED <<job, image, present, m_fwOffset, loop, package, disk, runs>>

\* sync() and reboot (by root, so it does not fail): misc decides what boots.
Synced_misc == [disk EXCEPT !.misc = cache.misc]
Synced == cache
BootReboot ==
    /\ pc = "sync"
    /\ disk' = Synced
    /\ cache' = disk'
    /\ pc' = IF disk'.misc = Clear THEN "booted" ELSE "recovery"
    /\ UNCHANGED <<job, image, present, m_fwOffset, loop, package, runs>>

(***************************************************************************)
(* The world outside                                                       *)
(***************************************************************************)
\* Power fails: any part of what was in the page cache may have been written.
PowerFail ==
    /\ pc \notin {"booted", "recovery"}
    /\ \E S \in SUBSET Area, misc \in {disk.misc, cache.misc} :
          disk' = [recovery |-> [i \in Area |-> IF i \in S THEN cache.recovery[i]
                                                ELSE disk.recovery[i]],
                   misc |-> misc]
    /\ cache' = disk'
    /\ pc' = IF disk'.misc = Clear THEN "booted" ELSE "recovery"
    /\ job' = "none"
    /\ UNCHANGED <<image, present, m_fwOffset, loop, package, runs>>

\* Recovery does what misc says, clears it and boots the system.
RecoveryDone ==
    /\ pc = "recovery"
    /\ pc' = "booted"
    /\ disk' = [disk EXCEPT !.misc = Clear]
    /\ cache' = disk'
    /\ job' = "none"
    /\ UNCHANGED <<image, present, m_fwOffset, loop, package, runs>>

Tool == \/ OpenImage \/ NextItem \/ WriteChunk \/ CheckChunk
        \/ BootOpen \/ BootArm \/ BootReboot

Next ==
    \/ \E j \in {"ota", "update", "factory"} : Run(j)
    \/ Tool \/ PowerFail \/ RecoveryDone

Spec == Init /\ [][Next]_vars

\* A running tool goes on; nobody has to start one, and power need not fail.
FairSpec == Spec /\ WF_vars(Tool)

(***************************************************************************)
(* Properties                                                              *)
(***************************************************************************)
\* Type correctness: no byte count or position of the copy loops (update_recv.c
\* 239-265, 406-437) leaves its range, and misc holds a command the tool knows.
Partitions == [recovery : [Area -> Nat \cup {Old}], misc : Commands \cup {Clear}]
TypeOK ==
    /\ pc \in {"booted", "open", "write", "check", "boot", "arm", "sync", "recovery",
               "failed"}
    /\ job \in {"none", "ota", "update", "factory"}
    /\ image \in Images
    /\ present \in SUBSET {"data", "sd"}
    /\ m_fwOffset \in 0..Word - 1
    /\ idx \in 0..Len(image.item)
    /\ fileBufferSize \in Nat /\ uiEntryOffset \in Nat /\ recvPos \in Nat
    /\ fileBufferSize > 0 => idx > 0
    /\ package \in Commands \cup {"none"}
    /\ package = "none" => pc \in {"booted", "failed", "recovery"}
    /\ cache \in Partitions /\ disk \in Partitions
    /\ runs \in 0..MaxRuns

\* The partition holds the image's recovery item: byte i of the item is at place
\* i, and comes from where the image's headers say, counted without wrapping.
Holds(partition, t, i) ==
    i \in Area /\ partition[i] = image.dwFWOffset + t.offset + i
Verified(partition) ==
    \A k \in 1..Len(image.item) :
        image.item[k].recovery =>
            \A i \in 0..image.item[k].size - 1 : Holds(partition, image.item[k], i)

\* An update with a path gets as far as writing misc only when the recovery
\* partition reads back as the image's, whatever was lost of the writes (main 250-260).
ArmedIsVerified ==
    job = "ota" /\ pc \in {"boot", "arm", "sync"} => Verified(cache.recovery)

\* When that update's own reboot starts recovery, the partition it starts is the
\* verified one on the medium: bootCommand's sync covers WriteFwData's writes.
RebootedIsDurable == job = "ota" /\ pc = "recovery" => Verified(disk.recovery)

\* A file without the RKFW tag never reaches the recovery partition, although the
\* test of GetFwOffset's result (update_recv.c 172) cannot fail.
BadTagUntouched ==
    ~image.tag => \A i \in Area : cache.recovery[i] = Old /\ disk.recovery[i] = Old

\* A tool that returned without rebooting left misc alone: the next reboot of any
\* kind does not start recovery behind the user's back (bootCommand 112-125).
FailedNotArmed ==
    pc \in {"booted", "failed"} => cache.misc = Clear /\ disk.misc = Clear

\* The commands that the run of the tool may leave: the given package, then the one
\* rebootUpdate finds; that one; or the wipe.
InTool == pc \in {"open", "write", "check", "boot", "arm", "sync"}
Asked == {c \in Commands : /\ InTool
                           /\ \/ job = "ota" /\ c = "given"
                              \/ job \in {"ota", "update"} /\ c = Found
                              \/ job = "factory" /\ c = "wipe"}

Mode == IF pc = "recovery" THEN "recovery" ELSE IF InTool THEN "tool" ELSE "system"
Whole == Verified(disk.recovery)
Pending == cache.recovery # disk.recovery
Rebooted == pc \in {"booted", "recovery"} /\ job # "none"

Promise == INSTANCE UpdateProtocol WITH
    mode <- Mode, asked <- Asked, command <- disk.misc, whole <- Whole, pending <- Pending,
    rebooted <- Rebooted

\* The tool keeps its promise (UpdateProtocol): whatever fails and whenever the power is
\* cut, recovery finds a command of the run that was interrupted or rebooted (bootCommand
\* 109-157, rebootUpdate 207-229), and its partition is as it was unless an update with a
\* path was run in the session; after the reboot of one it is the image's.
KeepsUpdateProtocol == Promise!Spec

\* A run of the tool ends, failed or in a reboot, whichever images are tried.
UpdateEnds == pc \in {"open", "boot"} ~> pc \in {"failed", "recovery", "booted"}
====
