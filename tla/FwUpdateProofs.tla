--------------------------- MODULE FwUpdateProofs ---------------------------
(***************************************************************************)
(* Proofs of the safety properties of FwUpdate, for images of every size,  *)
(* every flash and buffer size and every number of runs.                   *)
(*                                                                         *)
(* TypeOK, FailedNotArmed and BadTagUntouched are inductive together with  *)
(* TagInv (what m_fwOffset can be past OpenImage).  ArmedIsVerified needs  *)
(* CheckInv: while the partition is read back, the bytes compared so far   *)
(* are those of the recovery item, in order.                               *)
(*                                                                         *)
(* The last part shows that the model implements UpdateProtocol.  It needs *)
(* AskedInv: which commands can be on their way to misc at each place.     *)
(***************************************************************************)
EXTENDS FwUpdate, TLAPS

\* Past OpenImage the offset is the one of a tagged image.
TagInv == pc \in {"write", "check"} => image.tag /\ m_fwOffset = image.dwFWOffset

\* Bytes of item k handled so far by the loop at idx.
Done(k) == IF k < idx THEN image.item[k].size ELSE image.item[k].size - fileBufferSize

CheckInv ==
    pc = "check" =>
        /\ fileBufferSize > 0 => image.item[idx].recovery
        /\ (\A k \in 1..idx : ~image.item[k].recovery) => recvPos = 0 /\ uiEntryOffset = 0
        /\ \A k \in 1..idx :
              image.item[k].recovery =>
                  /\ recvPos = Done(k) /\ uiEntryOffset = Done(k)
                  /\ \A i \in 0..Done(k) - 1 : Holds(cache.recovery, image.item[k], i)

\* misc is written between BootArm and the reboot only.
MiscInv == /\ pc \notin {"sync", "recovery"} => cache.misc = Clear
           /\ pc # "recovery" => disk.misc = Clear

IInv == /\ TypeOK /\ TagInv /\ MiscInv /\ BadTagUntouched
        /\ CheckInv /\ ArmedIsVerified /\ RebootedIsDurable

\* The command being written is one the run was asked for, a flashing run is an update
\* with a path, and recovery starts with nothing left in the page cache.
AskedInv ==
    /\ pc \in {"open", "write", "check"} => job = "ota" /\ package = "given"
    /\ pc \in {"boot", "arm", "sync"} => package \in Asked
    /\ pc = "sync" => cache.misc \in {Clear, package}
    /\ pc = "recovery" => cache = disk

USE DEF Old, Area, Packages, Commands, Clear, Partitions

\* Facts about an image, and about the offset of one without the tag.
LEMMA ImageFacts ==
    ASSUME image \in Images
    PROVE  /\ image \in Image
           /\ image.item \in Seq(Item) /\ Len(image.item) \in Nat
           /\ \A k \in 1..Len(image.item) : image.item[k] \in Item
           /\ \A k \in 1..Len(image.item) :
                 /\ image.item[k].recovery \in BOOLEAN /\ image.item[k].far \in BOOLEAN
                 /\ image.item[k].offset \in Nat /\ image.item[k].size \in Nat
           /\ image.tag \in BOOLEAN /\ image.dwFWOffset \in 0..Word - 1
           /\ image.fileSize \in Nat /\ image.fileSize < Word
<1>1. image \in Image
  BY ImagesAssumption
<1>2. image.item \in Seq(Item)
  BY <1>1 DEF Image
<1>. HIDE DEF Item
<1>3. Len(image.item) \in Nat /\ \A k \in 1..Len(image.item) : image.item[k] \in Item
  BY <1>2
<1>4. \A t \in Item : /\ t.recovery \in BOOLEAN /\ t.far \in BOOLEAN
                      /\ t.offset \in Nat /\ t.size \in Nat
  BY DEF Item
<1>5. /\ image.tag \in BOOLEAN /\ image.dwFWOffset \in 0..Word - 1
      /\ image.fileSize \in Nat
  BY <1>1 DEF Image
<1>6. image.fileSize < Word
  BY SmallImages
<1>. QED  BY <1>1, <1>2, <1>3, <1>4, <1>5, <1>6

\* The length of a chunk is positive and no more than what is left.
LEMMA ChunkFacts ==
    ASSUME fileBufferSize \in Nat \ {0}
    PROVE  ChunkLen \in 1..fileBufferSize /\ fileBufferSize - ChunkLen \in Nat
BY BoundsAssumption DEF ChunkLen

\* The place of a byte in the image is a natural number.
LEMMA ByteFacts ==
    ASSUME TypeOK, fileBufferSize > 0, NEW i \in Int, i >= recvPos
    PROVE  ByteAt(i) \in Nat
<1>1. idx \in 1..Len(image.item)
  BY ImageFacts DEF TypeOK
<1>2. (m_fwOffset + image.item[idx].offset) % Word \in Nat
  <2>1. m_fwOffset + image.item[idx].offset \in Nat
    BY <1>1, ImageFacts, BoundsAssumption DEF TypeOK
  <2>2. \A a \in Nat, w \in Nat \ {0} : a % w \in Nat
    OBVIOUS
  <2>. QED  BY <2>1, <2>2, BoundsAssumption
<1>. QED  BY <1>2 DEF ByteAt, ChunkOffset, TypeOK

\* Writing some of the chunk's bytes leaves a well-formed page cache.
LEMMA PutFacts ==
    ASSUME TypeOK, fileBufferSize > 0, NEW n \in Nat,
           cache' = Put(recvPos..recvPos + n - 1)
    PROVE  cache' \in Partitions /\ cache'.misc = cache.misc
<1>. DEFINE S == recvPos..recvPos + n - 1
            r == [i \in Area |-> IF i \in S THEN ByteAt(i) ELSE cache.recovery[i]]
<1>1. \A i \in Area : r[i] \in Nat \cup {Old}
  <2>. TAKE i \in Area
  <2>1. CASE i \in S
    <3>1. i \in Int /\ i >= recvPos
      BY <2>1, BoundsAssumption DEF TypeOK
    <3>. QED  BY <2>1, <3>1, ByteFacts
  <2>2. CASE i \notin S
    BY <2>2 DEF TypeOK
  <2>. QED  BY <2>1, <2>2
<1>2. cache' = [cache EXCEPT !.recovery = r]
  BY DEF Put
<1>. HIDE DEF r
<1>3. cache \in Partitions
  BY DEF TypeOK
<1>4. r \in [Area -> Nat \cup {Old}]
  BY <1>1 DEF r
<1>. QED  BY <1>2, <1>3, <1>4

LEMMA InitInv == Init => IInv
<1>. SUFFICES ASSUME Init PROVE IInv
  OBVIOUS
<1>1. TypeOK
  BY BoundsAssumption, ImageFacts DEF Init, TypeOK
<1>. QED
  BY <1>1 DEF Init, IInv, TagInv, MiscInv, BadTagUntouched, CheckInv, ArmedIsVerified,
     RebootedIsDurable

LEMMA TypeStep == TypeOK /\ [Next]_vars => TypeOK'
<1>. SUFFICES ASSUME TypeOK, [Next]_vars PROVE TypeOK'
  OBVIOUS
<1>. USE BoundsAssumption, ImageFacts
<1>0. /\ image \in Images /\ Len(image.item) \in Nat
      /\ \A k \in 1..Len(image.item) : image.item[k].size \in Nat
  BY DEF TypeOK
<1>1. CASE OpenImage
  <2>1. m_fwOffset' \in 0..Word - 1
    BY <1>1 DEF OpenImage, TypeOK, GetFwOffset, NoOffset
  <2>. QED  BY <1>0, <1>1, <2>1 DEF OpenImage, TypeOK, ResetLoop
<1>2. CASE NextItem
  <2>1. CASE idx < Len(image.item)
    <3>1. idx + 1 \in 1..Len(image.item) /\ image' = image
      BY <1>0, <1>2, <2>1 DEF TypeOK, NextItem
    <3>2. idx' = idx + 1 /\ fileBufferSize' \in Nat
      BY <1>0, <1>2, <2>1, <3>1 DEF NextItem
    <3>3. pc' \in {"write", "check", "failed"}
      BY <1>2, <2>1 DEF NextItem
    <3>. QED  BY <1>0, <1>2, <2>1, <3>1, <3>2, <3>3 DEF NextItem, TypeOK
  <2>2. CASE ~(idx < Len(image.item))
    <3>1. ResetLoop /\ pc' \in {"check", "boot"} /\ (pc' = "boot" => pc = "check")
      BY <1>2, <2>2 DEF NextItem
    <3>. QED  BY <1>0, <1>2, <3>1 DEF NextItem, TypeOK, ResetLoop
  <2>. QED  BY <2>1, <2>2
<1>3. CASE WriteChunk
  <2>0. fileBufferSize > 0 /\ fileBufferSize \in Nat \ {0}
    BY <1>3 DEF WriteChunk, TypeOK
  <2>1. ChunkLen \in Nat \ {0} /\ fileBufferSize - ChunkLen \in Nat
    BY <2>0, ChunkFacts
  <2>2. cache' \in Partitions
    <3>1. CASE UNCHANGED cache
      BY <3>1 DEF TypeOK
    <3>2. ASSUME NEW n \in 1..ChunkLen, cache' = Put(recvPos..recvPos + n - 1)
          PROVE  cache' \in Partitions
      <4>1. n \in Nat
        BY <2>1, <3>2
      <4>. QED  BY <2>0, <3>2, <4>1, PutFacts
    <3>3. CASE cache' = Put(Chunk)
      <4>1. cache' = Put(recvPos..recvPos + ChunkLen - 1)
        BY <3>3 DEF Chunk
      <4>. QED  BY <2>0, <2>1, <4>1, PutFacts
    <3>. QED  BY <1>3, <3>1, <3>2, <3>3 DEF WriteChunk
  <2>3. /\ pc' \in {"write", "failed"} /\ idx' = idx /\ fileBufferSize' \in Nat
        /\ uiEntryOffset' \in Nat /\ recvPos' \in Nat
        /\ fileBufferSize' > 0 => fileBufferSize > 0
    BY <1>3, <2>0, <2>1, SMTT(20) DEF WriteChunk, TypeOK, Fail, Advance, loop
  <2>. QED  BY <1>0, <1>3, <2>2, <2>3, SMTT(20) DEF WriteChunk, TypeOK
<1>4. CASE CheckChunk
  <2>0. fileBufferSize > 0 /\ fileBufferSize \in Nat \ {0}
    BY <1>4 DEF CheckChunk, TypeOK
  <2>1. ChunkLen \in Nat \ {0} /\ fileBufferSize - ChunkLen \in Nat
    BY <2>0, ChunkFacts
  <2>3. /\ pc' \in {"check", "failed"} /\ idx' = idx /\ fileBufferSize' \in Nat
        /\ uiEntryOffset' \in Nat /\ recvPos' \in Nat
        /\ fileBufferSize' > 0 => fileBufferSize > 0
    BY <1>4, <2>0, <2>1, SMTT(20) DEF CheckChunk, TypeOK, Fail, Advance, loop
  <2>. QED  BY <1>0, <1>4, <2>3, SMTT(20) DEF CheckChunk, TypeOK
<1>5. CASE BootOpen
  BY <1>5, SMTT(20) DEF BootOpen, TypeOK, NextPackage, Found, loop
<1>6. CASE BootArm
  BY <1>6 DEF BootArm, TypeOK, loop
<1>7. CASE BootReboot
  BY <1>7 DEF BootReboot, TypeOK, Synced, loop
<1>8. ASSUME NEW j \in {"ota", "update", "factory"}, Run(j) PROVE TypeOK'
  <2>1. /\ package' \in Commands \cup {"none"}
        /\ pc' \in {"open", "failed", "boot"}
        /\ package' = "none" => pc' = "failed"
    <3>1. CASE j = "ota"
      BY <1>8, <3>1 DEF Run
    <3>2. CASE j = "update"
      BY <1>8, <3>2 DEF Run, Found
    <3>3. CASE j = "factory"
      BY <1>8, <3>3 DEF Run
    <3>. QED  BY <3>1, <3>2, <3>3
  <2>2. job' = j /\ runs' \in 0..MaxRuns
    BY <1>8 DEF Run, TypeOK
  <2>. QED  BY <1>0, <1>8, <2>1, <2>2, SMTT(20) DEF Run, TypeOK, loop
<1>9. CASE PowerFail
  BY <1>9 DEF PowerFail, TypeOK, loop
<1>10. CASE RecoveryDone
  BY <1>10 DEF RecoveryDone, TypeOK, loop
<1>11. CASE UNCHANGED vars
  BY <1>11 DEF vars, TypeOK, loop
<1>. QED  BY <1>1, <1>2, <1>3, <1>4, <1>5, <1>6, <1>7, <1>8, <1>9, <1>10, <1>11 DEF Next, Tool

\* What the steps on the image, misc and the untagged partition leave in place.
LEMMA TagStep == IInv /\ [Next]_vars => TagInv'
<1>. SUFFICES ASSUME IInv, [Next]_vars PROVE TagInv'
  OBVIOUS
<1>. USE BoundsAssumption DEF IInv, TagInv
<1>1. CASE OpenImage
  <2>1. pc' = "failed" \/ (pc' = "write" /\ GetData(m_fwOffset', HdrSize))
    BY <1>1 DEF OpenImage
  <2>2. image' = image /\ image.fileSize < Word /\ image.fileSize \in Nat
    BY <1>1, ImageFacts DEF OpenImage, TypeOK
  <2>3. image.tag \in BOOLEAN
    BY ImageFacts DEF TypeOK
  <2>4. ASSUME ~image.tag PROVE ~GetData(m_fwOffset', HdrSize)
    BY <1>1, <2>2, <2>4 DEF OpenImage, GetFwOffset, NoOffset, GetData
  <2>5. ASSUME image.tag PROVE m_fwOffset' = image.dwFWOffset
    BY <1>1, <2>5 DEF OpenImage, GetFwOffset
  <2>. QED  BY <2>1, <2>2, <2>3, <2>4, <2>5
<1>2. CASE NextItem
  BY <1>2 DEF NextItem
<1>3. CASE WriteChunk
  BY <1>3 DEF WriteChunk, Fail, Advance, loop
<1>4. CASE CheckChunk
  BY <1>4 DEF CheckChunk, Fail, Advance, loop
<1>5. CASE BootOpen \/ BootArm \/ BootReboot
  BY <1>5 DEF BootOpen, BootArm, BootReboot, NextPackage, Found
<1>6. ASSUME NEW j \in {"ota", "update", "factory"}, Run(j) PROVE TagInv'
  BY <1>6 DEF Run
<1>7. CASE PowerFail \/ RecoveryDone
  BY <1>7 DEF PowerFail, RecoveryDone
<1>8. CASE UNCHANGED vars
  BY <1>8 DEF vars
<1>. QED  BY <1>1, <1>2, <1>3, <1>4, <1>5, <1>6, <1>7, <1>8 DEF Next, Tool

LEMMA MiscStep == IInv /\ [Next]_vars => MiscInv'
<1>. SUFFICES ASSUME IInv, [Next]_vars PROVE MiscInv'
  OBVIOUS
<1>. USE DEF IInv, MiscInv
<1>0. cache \in Partitions /\ disk \in Partitions
  BY DEF TypeOK
<1>1. CASE OpenImage
  BY <1>1 DEF OpenImage
<1>2. CASE NextItem
  BY <1>2 DEF NextItem
<1>3. CASE WriteChunk
  <2>1. cache'.misc = cache.misc
    BY <1>0, <1>3 DEF WriteChunk, Put
  <2>. QED  BY <1>3, <2>1 DEF WriteChunk
<1>4. CASE CheckChunk
  BY <1>4 DEF CheckChunk
<1>5. CASE BootOpen
  BY <1>5 DEF BootOpen
<1>6. CASE BootArm
  BY <1>6 DEF BootArm
<1>7. CASE BootReboot
  BY <1>0, <1>7 DEF BootReboot, Synced
<1>8. ASSUME NEW j \in {"ota", "update", "factory"}, Run(j) PROVE MiscInv'
  BY <1>8 DEF Run
<1>9. CASE PowerFail
  BY <1>9 DEF PowerFail
<1>10. CASE RecoveryDone
  BY <1>0, <1>10 DEF RecoveryDone
<1>11. CASE UNCHANGED vars
  BY <1>11 DEF vars
<1>. QED  BY <1>1, <1>2, <1>3, <1>4, <1>5, <1>6, <1>7, <1>8, <1>9, <1>10, <1>11 DEF Next, Tool

LEMMA BadTagStep == IInv /\ [Next]_vars => BadTagUntouched'
<1>. SUFFICES ASSUME IInv, [Next]_vars, ~image.tag'
              PROVE  \A i \in Area : cache'.recovery[i] = Old /\ disk'.recovery[i] = Old
  BY DEF BadTagUntouched
<1>0. /\ cache \in Partitions /\ disk \in Partitions
      /\ image' = image
  BY DEF IInv, TypeOK, Next, Tool, OpenImage, NextItem, WriteChunk, CheckChunk, BootOpen,
     BootArm, BootReboot, Run, PowerFail, RecoveryDone, vars
<1>1. \A i \in Area : cache.recovery[i] = Old /\ disk.recovery[i] = Old
  BY <1>0 DEF IInv, BadTagUntouched
<1>2. ~WriteChunk
  BY <1>0 DEF IInv, TagInv, WriteChunk
<1>3. CASE PowerFail
  BY <1>1, <1>3 DEF PowerFail
<1>4. CASE BootReboot
  BY <1>1, <1>4 DEF BootReboot, Synced
<1>5. CASE RecoveryDone
  BY <1>0, <1>1, <1>5 DEF RecoveryDone
<1>6. CASE BootArm
  <2>1. cache'.recovery = cache.recovery /\ disk' = disk
    BY <1>0, <1>6 DEF BootArm
  <2>. QED  BY <1>1, <2>1
<1>7. CASE BootOpen
  BY <1>1, <1>7 DEF BootOpen
<1>8. CASE UNCHANGED <<cache, disk>>
  BY <1>1, <1>8
<1>9. OpenImage \/ NextItem \/ CheckChunk \/ (\E j \in {"ota", "update", "factory"} : Run(j))
      \/ UNCHANGED vars => UNCHANGED <<cache, disk>>
  BY DEF OpenImage, NextItem, CheckChunk, Run, vars
<1>. QED  BY <1>2, <1>3, <1>4, <1>5, <1>6, <1>7, <1>8, <1>9 DEF Next, Tool, IInv

\* Comparing a chunk extends the verified part of the recovery item by the chunk.
LEMMA CheckChunkStep ==
    ASSUME IInv, CheckChunk, pc' = "check"
    PROVE  CheckInv'
<1>. USE DEF IInv
<1>1. /\ pc = "check" /\ fileBufferSize > 0 /\ fileBufferSize \in Nat \ {0}
      /\ recvPos \in Nat /\ uiEntryOffset \in Nat /\ idx \in 1..Len(image.item)
      /\ image \in Images
  BY ImageFacts DEF CheckChunk, TypeOK
<1>2. /\ SameBytes /\ Advance
      /\ image' = image /\ cache' = cache /\ idx' = idx
  BY <1>1 DEF CheckChunk, Fail, Advance
<1>3. ChunkLen \in 1..fileBufferSize /\ fileBufferSize' \in Nat
  BY <1>1, <1>2, ChunkFacts DEF Advance
<1>4. /\ image.item[idx].recovery /\ image.item[idx].offset \in Nat
      /\ image.item[idx].size \in Nat /\ image.dwFWOffset \in Nat
  BY <1>1, ImageFacts DEF CheckInv
<1>5. \A k \in 1..idx : image.item[k].recovery => k = idx
  BY <1>1, <1>4, SmallImages
<1>. DEFINE t == image.item[idx]
<1>6. /\ recvPos = t.size - fileBufferSize /\ uiEntryOffset = recvPos
      /\ \A i \in 0..recvPos - 1 : Holds(cache.recovery, t, i)
  BY <1>1, <1>4 DEF CheckInv, Done
<1>7. recvPos' = t.size - fileBufferSize' /\ uiEntryOffset' = recvPos'
  BY <1>1, <1>2, <1>3, <1>4, <1>6 DEF Advance
<1>8. \A i \in Chunk : ByteAt(i) = image.dwFWOffset + t.offset + i
  <2>1. m_fwOffset = image.dwFWOffset /\ image.dwFWOffset + t.offset < Word
    BY <1>1, <1>4, SmallImages DEF TagInv
  <2>2. \A a, w \in Nat : a < w => a % w = a
    OBVIOUS
  <2>3. (m_fwOffset + t.offset) % Word = image.dwFWOffset + t.offset
    BY <1>4, <2>1, <2>2, BoundsAssumption
  <2>4. ChunkOffset = image.dwFWOffset + t.offset + recvPos
    BY <1>6, <2>3 DEF ChunkOffset
  <2>5. TAKE i \in Chunk
  <2>6. i \in Int
    BY <1>1, <1>3 DEF Chunk
  <2>7. image.dwFWOffset + t.offset \in Nat
    BY <1>4
  <2>8. ByteAt(i) = (image.dwFWOffset + t.offset + recvPos) + (i - recvPos)
    BY <2>4 DEF ByteAt
  <2>9. \A a, r \in Nat, j \in Int : (a + r) + (j - r) = a + j
    OBVIOUS
  <2>. QED  BY <1>1, <2>6, <2>7, <2>8, <2>9
<1>9. \A i \in 0..recvPos' - 1 : Holds(cache.recovery, t, i)
  <2>. TAKE i \in 0..recvPos' - 1
  <2>1. CASE i \in 0..recvPos - 1
    BY <1>6, <2>1
  <2>2. CASE i \in Chunk
    BY <1>2, <1>8, <2>2 DEF SameBytes, Holds
  <2>3. i \in 0..recvPos - 1 \/ i \in Chunk
    BY <1>1, <1>2, <1>3 DEF Advance, Chunk
  <2>. QED  BY <2>1, <2>2, <2>3
<1>10. (\A k \in 1..idx : ~image.item[k].recovery) => FALSE
  BY <1>1, <1>4
<1>11. ASSUME NEW k \in 1..idx', image'.item[k].recovery
       PROVE  /\ recvPos' = Done(k)' /\ uiEntryOffset' = Done(k)'
              /\ \A i \in 0..Done(k)' - 1 : Holds(cache.recovery, image.item[k], i)'
  <2>1. k = idx
    BY <1>2, <1>5, <1>11
  <2>2. Done(k)' = recvPos'
    BY <1>1, <1>2, <1>7, <2>1 DEF Done
  <2>. QED  BY <1>2, <1>7, <1>9, <2>1, <2>2 DEF Holds
<1>. QED  BY <1>2, <1>4, <1>10, <1>11 DEF CheckInv

\* On to the next item: the recovery item has been compared in full, or is yet to be.
LEMMA CheckItemStep ==
    ASSUME IInv, NextItem
    PROVE  CheckInv' /\ (pc = "check" /\ pc' = "boot" => Verified(cache.recovery))
<1>. USE DEF IInv
<1>1. /\ fileBufferSize = 0 /\ recvPos \in Nat /\ uiEntryOffset \in Nat
      /\ idx \in 0..Len(image.item) /\ Len(image.item) \in Nat
      /\ image \in Images /\ image' = image /\ cache' = cache
  BY ImageFacts DEF NextItem, TypeOK
<1>2. CASE idx < Len(image.item)
  <2>. SUFFICES ASSUME pc' = "check" PROVE CheckInv'
    BY <1>2 DEF NextItem, CheckInv
  <2>. DEFINE t == image.item[idx + 1]
  <2>1. /\ pc = "check" /\ idx' = idx + 1 /\ idx + 1 \in 1..Len(image.item)
        /\ fileBufferSize' = (IF t.recovery THEN t.size ELSE 0)
        /\ uiEntryOffset' = uiEntryOffset /\ recvPos' = recvPos
    BY <1>1, <1>2 DEF NextItem
  <2>2. t.recovery \in BOOLEAN /\ t.size \in Nat
    BY <1>1, <2>1, ImageFacts
  <2>3. fileBufferSize' > 0 => image'.item[idx'].recovery
    BY <1>1, <2>1, <2>2
  <2>4. (\A k \in 1..idx' : ~image'.item[k].recovery) => recvPos' = 0 /\ uiEntryOffset' = 0
    BY <1>1, <2>1 DEF CheckInv
  <2>5. ASSUME NEW k \in 1..idx', image'.item[k].recovery
        PROVE  /\ recvPos' = Done(k)' /\ uiEntryOffset' = Done(k)'
               /\ \A i \in 0..Done(k)' - 1 : Holds(cache.recovery, image.item[k], i)'
    <3>1. CASE k = idx + 1
      <4>1. \A j \in 1..idx : ~image.item[j].recovery
        BY <1>1, <2>1, <2>5, <3>1, SmallImages
      <4>2. recvPos' = 0 /\ uiEntryOffset' = 0
        BY <2>1, <4>1 DEF CheckInv
      <4>3. Done(k)' = 0
        BY <1>1, <2>1, <2>2, <2>5, <3>1 DEF Done
      <4>. QED  BY <4>2, <4>3
    <3>2. CASE k # idx + 1
      <4>1. k \in 1..idx /\ image.item[k].size \in Nat
        BY <1>1, <2>1, <3>2, ImageFacts
      <4>2. Done(k) = image.item[k].size /\ Done(k)' = image.item[k].size
        BY <1>1, <2>1, <4>1 DEF Done
      <4>3. /\ recvPos = Done(k) /\ uiEntryOffset = Done(k)
            /\ \A i \in 0..Done(k) - 1 : Holds(cache.recovery, image.item[k], i)
        BY <1>1, <2>1, <2>5, <4>1 DEF CheckInv
      <4>. QED  BY <1>1, <2>1, <4>2, <4>3 DEF Holds
    <3>. QED  BY <3>1, <3>2
  <2>. QED  BY <2>3, <2>4, <2>5 DEF CheckInv
<1>3. CASE ~(idx < Len(image.item))
  <2>1. /\ idx' = 0 /\ fileBufferSize' = 0 /\ uiEntryOffset' = 0 /\ recvPos' = 0
        /\ pc' = (IF pc = "write" THEN "check" ELSE "boot")
    BY <1>3 DEF NextItem, ResetLoop
  <2>2. CheckInv'
    BY <2>1 DEF CheckInv
  <2>3. ASSUME pc = "check" PROVE Verified(cache.recovery)
    <3>1. idx = Len(image.item)
      BY <1>1, <1>3
    <3>2. SUFFICES ASSUME NEW k \in 1..Len(image.item), image.item[k].recovery
                   PROVE  \A i \in 0..image.item[k].size - 1 :
                              Holds(cache.recovery, image.item[k], i)
      BY DEF Verified
    <3>3. image.item[k].size \in Nat
      BY <1>1, ImageFacts
    <3>4. Done(k) = image.item[k].size
      BY <1>1, <3>3 DEF Done
    <3>. QED  BY <2>3, <3>1, <3>2, <3>4 DEF CheckInv
  <2>. QED  BY <2>2, <2>3
<1>. QED  BY <1>2, <1>3

LEMMA CheckStep == IInv /\ [Next]_vars => CheckInv'
<1>. SUFFICES ASSUME IInv, [Next]_vars, pc' = "check" PROVE CheckInv'
  BY DEF CheckInv
<1>1. CASE NextItem
  BY <1>1, CheckItemStep
<1>2. CASE CheckChunk
  BY <1>2, CheckChunkStep
<1>3. CASE UNCHANGED vars
  BY <1>3 DEF vars, loop, CheckInv, IInv, Done, Holds
<1>4. ~OpenImage /\ ~BootOpen /\ ~BootArm /\ ~BootReboot /\ ~PowerFail /\ ~RecoveryDone
  BY DEF OpenImage, BootOpen, BootArm, BootReboot, PowerFail, RecoveryDone
<1>5. ~WriteChunk
  BY DEF WriteChunk, Fail, Advance
<1>6. \A j \in {"ota", "update", "factory"} : ~Run(j)
  BY DEF Run
<1>. QED  BY <1>1, <1>2, <1>3, <1>4, <1>5, <1>6 DEF Next, Tool

\* From the end of CheckFwData to the reboot nothing touches the partition.
LEMMA ArmedStep == IInv /\ [Next]_vars => ArmedIsVerified' /\ RebootedIsDurable'
<1>. SUFFICES ASSUME IInv, [Next]_vars, job' = "ota"
              PROVE  /\ pc' \in {"boot", "arm", "sync"} => Verified(cache.recovery)'
                     /\ pc' = "recovery" => Verified(disk.recovery)'
  BY DEF ArmedIsVerified, RebootedIsDurable
<1>. USE DEF IInv, ArmedIsVerified, RebootedIsDurable
<1>0. cache \in Partitions
  BY DEF TypeOK
<1>1. CASE OpenImage
  BY <1>1 DEF OpenImage
<1>2. CASE NextItem
  <2>1. pc' # "recovery" /\ image' = image /\ cache' = cache
    BY <1>2 DEF NextItem
  <2>2. pc' \in {"boot", "arm", "sync"} => pc = "check" /\ pc' = "boot"
    BY <1>2 DEF NextItem
  <2>. QED  BY <1>2, <2>1, <2>2, CheckItemStep DEF Verified, Holds
<1>3. CASE WriteChunk \/ CheckChunk
  BY <1>3 DEF WriteChunk, CheckChunk, Fail, Advance
<1>4. CASE BootOpen \/ BootArm
  <2>1. pc \in {"boot", "arm"} /\ job = "ota" /\ image' = image /\ pc' # "recovery"
    BY <1>4 DEF BootOpen, BootArm
  <2>2. cache'.recovery = cache.recovery
    BY <1>0, <1>4 DEF BootOpen, BootArm
  <2>. QED  BY <2>1, <2>2 DEF Verified, Holds
<1>5. CASE BootReboot
  BY <1>5 DEF BootReboot, Synced, Verified, Holds
<1>6. ASSUME NEW j \in {"ota", "update", "factory"}, Run(j)
      PROVE  pc' \notin {"boot", "arm", "sync", "recovery"}
  BY <1>6 DEF Run
<1>7. ~PowerFail /\ ~RecoveryDone
  BY DEF PowerFail, RecoveryDone
<1>8. CASE UNCHANGED vars
  BY <1>8 DEF vars, Verified, Holds
<1>. QED  BY <1>1, <1>2, <1>3, <1>4, <1>5, <1>6, <1>7, <1>8 DEF Next, Tool

LEMMA AskedStep == TypeOK /\ MiscInv /\ AskedInv /\ [Next]_vars => AskedInv'
<1>. SUFFICES ASSUME TypeOK, MiscInv, AskedInv, [Next]_vars PROVE AskedInv'
  OBVIOUS
<1>. USE DEF AskedInv, Asked, InTool
<1>0. cache \in Partitions /\ disk \in Partitions
  BY DEF TypeOK
<1>1. CASE OpenImage
  BY <1>1 DEF OpenImage
<1>2. CASE NextItem
  <2>1. pc' \in {"write", "check", "failed", "boot"} /\ job = "ota" /\ package = "given"
    BY <1>2 DEF NextItem
  <2>2. job' = job /\ package' = package /\ present' = present
    BY <1>2 DEF NextItem
  <2>. QED  BY <2>1, <2>2
<1>3. CASE WriteChunk \/ CheckChunk
  BY <1>3 DEF WriteChunk, CheckChunk, Fail, Advance
<1>4. CASE BootOpen
  BY <1>4 DEF BootOpen, NextPackage, Found
<1>5. CASE BootArm
  <2>1. /\ job' = job /\ package' = package /\ present' = present
        /\ pc = "arm" /\ pc' = "sync"
    BY <1>5 DEF BootArm
  <2>2. cache.misc = Clear /\ cache'.misc \in {Clear, package}
    BY <1>0, <1>5, <2>1 DEF BootArm, MiscInv
  <2>. QED  BY <2>1, <2>2 DEF Found
<1>6. CASE BootReboot
  BY <1>6 DEF BootReboot
<1>7. ASSUME NEW j \in {"ota", "update", "factory"}, Run(j) PROVE AskedInv'
  BY <1>7 DEF Run, Found
<1>8. CASE PowerFail \/ RecoveryDone
  BY <1>8 DEF PowerFail, RecoveryDone
<1>9. CASE UNCHANGED vars
  BY <1>9 DEF vars, Found
<1>. QED  BY <1>1, <1>2, <1>3, <1>4, <1>5, <1>6, <1>7, <1>8, <1>9 DEF Next, Tool

\* Whether the partition is the image's depends on nothing else.
LEMMA WholeFacts ==
    ASSUME image' = image, disk'.recovery = disk.recovery
    PROVE  Whole' = Whole
BY DEF Whole, Verified, Holds

LEMMA InitPromise == Init => Promise!Init
<1>. SUFFICES ASSUME Init PROVE Promise!Init
  OBVIOUS
<1>1. Mode = "system" /\ Asked = {}
  BY DEF Init, Mode, InTool, Asked
<1>2. disk.misc = "clear" /\ Pending = FALSE /\ Rebooted = FALSE
  BY DEF Init, Pending, Rebooted
<1>3. Whole \in BOOLEAN
  BY DEF Whole, Verified
<1>. QED  BY <1>1, <1>2, <1>3 DEF Promise!Init

\* Every end of a session boots what misc says, which is a command asked for.
LEMMA BootPromise ==
    ASSUME TypeOK, disk'.misc \in Asked \cup {"clear"}, cache' = disk',
           pc' = IF disk'.misc = Clear THEN "booted" ELSE "recovery"
    PROVE  Promise!Boot(disk'.misc)
<1>1. Mode' = IF disk'.misc = "clear" THEN "system" ELSE "recovery"
  BY DEF Mode, InTool
<1>2. Asked' = {} /\ Pending' = FALSE
  BY DEF Asked, InTool, Pending
<1>. QED  BY <1>1, <1>2 DEF Promise!Boot

\* Every step of the tool and of the world outside is a step of the abstract update
\* or leaves its variables alone.
LEMMA StepPromise == IInv /\ AskedInv /\ [Next]_vars => [Promise!Next]_(Promise!vars)
<1>. SUFFICES ASSUME IInv, AskedInv, [Next]_vars
              PROVE  Promise!Next \/ UNCHANGED Promise!vars
  OBVIOUS
<1>0. /\ TypeOK /\ MiscInv /\ ArmedIsVerified
      /\ cache \in Partitions /\ disk \in Partitions
      /\ Whole \in BOOLEAN /\ Whole' \in BOOLEAN
      /\ Pending \in BOOLEAN /\ Pending' \in BOOLEAN
  BY DEF IInv, TypeOK, Whole, Verified, Pending
<1>. DEFINE Same == /\ Mode' = Mode /\ Asked' = Asked /\ Whole' = Whole
                    /\ disk'.misc = disk.misc /\ Rebooted' = Rebooted
<1>s. Same /\ Pending' = Pending => UNCHANGED Promise!vars
  BY DEF Promise!vars
<1>t. ASSUME image' = image, disk' = disk, present' = present
      PROVE  Whole' = Whole /\ disk'.misc = disk.misc /\ Found' = Found
  BY <1>t, WholeFacts DEF Found
\* A run that returns to the shell has given up.
<1>g. ASSUME InTool, pc' = "failed", Whole' = Whole, disk'.misc = disk.misc,
             Pending' = Pending \/ job = "ota"
      PROVE  Promise!Next
  <2>1. Mode = "tool" /\ Mode' = "system" /\ Asked' = {}
    BY <1>g DEF Mode, InTool, Asked
  <2>2. Promise!Flashes \/ Pending' = Pending
    BY <1>g DEF Promise!Flashes, Asked
  <2>r. Rebooted = FALSE /\ Rebooted' = FALSE
    BY <1>g DEF Rebooted, InTool
  <2>3. Promise!GiveUp
    BY <1>0, <1>g, <2>1, <2>2, <2>r DEF Promise!GiveUp
  <2>. QED  BY <2>3 DEF Promise!Next
\* A step inside the tool that leaves the partitions alone is not seen.
<1>i. ASSUME InTool, InTool', job' = job, image' = image, disk' = disk, present' = present
      PROVE  Same
  <2>1. Mode' = Mode
    BY <1>i DEF Mode, InTool
  <2>2. Asked' = Asked
    BY <1>i, <1>t DEF Asked
  <2>3. Rebooted' = Rebooted
    BY <1>i DEF Rebooted, InTool
  <2>. QED  BY <1>i, <1>t, <2>1, <2>2, <2>3
<1>. HIDE DEF Same
<1>1. CASE OpenImage \/ NextItem \/ CheckChunk \/ BootOpen
  <2>1. /\ InTool /\ (InTool' \/ pc' = "failed") /\ job' = job
        /\ image' = image /\ present' = present /\ cache' = cache /\ disk' = disk
    BY <1>1 DEF OpenImage, NextItem, CheckChunk, BootOpen, Fail, Advance, InTool
  <2>2. Pending' = Pending
    BY <2>1 DEF Pending
  <2>. QED  BY <1>s, <1>t, <1>g, <1>i, <2>1, <2>2
<1>2. CASE WriteChunk
  <2>1. /\ InTool /\ (InTool' \/ pc' = "failed") /\ job' = job /\ job = "ota"
        /\ image' = image /\ present' = present /\ disk' = disk
    BY <1>2 DEF WriteChunk, Fail, Advance, InTool, AskedInv
  <2>2. CASE pc' = "failed"
    BY <1>t, <1>g, <2>1, <2>2
  <2>3. CASE InTool'
    <3>1. Same
      BY <1>i, <2>1, <2>3
    <3>2. Mode = "tool" /\ Promise!Flashes
      BY <2>1 DEF Mode, InTool, Promise!Flashes, Asked
    <3>3. Promise!Flash
      BY <1>0, <3>1, <3>2 DEF Promise!Flash, Same
    <3>. QED  BY <3>3 DEF Promise!Next
  <2>. QED  BY <2>1, <2>2, <2>3
<1>3. CASE BootArm
  <2>1. /\ InTool /\ InTool' /\ job' = job
        /\ image' = image /\ present' = present /\ disk' = disk
    BY <1>3 DEF BootArm, InTool
  <2>2. cache'.recovery = cache.recovery
    BY <1>0, <1>3 DEF BootArm
  <2>3. Pending' = Pending
    BY <2>1, <2>2 DEF Pending
  <2>. QED  BY <1>s, <1>i, <2>1, <2>3
<1>4. CASE BootReboot
  <2>. DEFINE c == disk'.misc
  <2>1. /\ pc = "sync" /\ disk' = cache /\ cache' = disk' /\ image' = image
        /\ pc' = IF disk'.misc = Clear THEN "booted" ELSE "recovery"
    BY <1>4 DEF BootReboot, Synced
  <2>2. c \in Asked \cup {"clear"}
    BY <2>1 DEF AskedInv
  <2>3. Promise!Boot(c)
    BY <1>0, <2>1, <2>2, BootPromise
  <2>4. Mode = "tool"
    BY <2>1 DEF Mode, InTool
  <2>5. ASSUME Promise!Flashes PROVE Whole' = TRUE
    <3>1. job = "ota"
      BY <2>5 DEF Promise!Flashes, Asked, Found
    <3>2. Verified(cache.recovery)
      BY <1>0, <2>1, <3>1 DEF ArmedIsVerified
    <3>3. Whole'
      BY <2>1, <3>2 DEF Whole, Verified, Holds
    <3>. QED  BY <3>3
  <2>6. ASSUME ~Pending PROVE Whole' = Whole
    BY <2>1, <2>6, WholeFacts DEF Pending
  <2>r. Rebooted' = TRUE
    <3>1. job' = job /\ job # "none"
      BY <1>4, <2>1 DEF BootReboot, AskedInv, Asked
    <3>. QED  BY <2>1, <3>1 DEF Rebooted
  <2>7. Promise!Reboot(c)
    BY <1>0, <2>2, <2>3, <2>4, <2>5, <2>6, <2>r DEF Promise!Reboot
  <2>. QED  BY <2>2, <2>7 DEF Promise!Next
<1>5. ASSUME NEW j \in {"ota", "update", "factory"}, Run(j)
      PROVE  Promise!Next \/ UNCHANGED Promise!vars
  <2>1. /\ pc \in {"booted", "failed"} /\ job' = j /\ image' = image
        /\ present' = present /\ cache' = cache /\ disk' = disk
    BY <1>5 DEF Run
  <2>2. Mode = "system" /\ Asked = {}
    BY <2>1 DEF Mode, InTool, Asked
  <2>3. Whole' = Whole /\ Pending' = Pending /\ disk'.misc = disk.misc
    BY <1>t, <2>1 DEF Pending
  <2>4. CASE pc' = "failed"
    <3>1. Mode' = "system" /\ Asked' = {} /\ Rebooted' = FALSE
      BY <2>4 DEF Mode, InTool, Asked, Rebooted
    <3>2. Promise!Refuse
      BY <2>2, <2>3, <3>1 DEF Promise!Refuse
    <3>. QED  BY <3>2 DEF Promise!Next
  <2>5. CASE pc' # "failed"
    <3>1. InTool' /\ (j = "update" => Found # "none")
      BY <1>5, <2>5 DEF Run, InTool
    <3>2. Mode' = "tool" /\ Rebooted' = FALSE
      BY <3>1 DEF Mode, InTool, Rebooted
    <3>3. Found' = Found /\ Found \in {"none", "data", "sd"}
      BY <2>1 DEF Found
    <3>4. Asked' = {d \in Commands : \/ j = "ota" /\ d = "given"
                                     \/ j \in {"ota", "update"} /\ d = Found
                                     \/ j = "factory" /\ d = "wipe"}
      BY <2>1, <3>1, <3>3 DEF Asked
    <3>5. Asked' \in Promise!Requests
      <4>1. CASE j = "factory"
        <5>1. Asked' = {"wipe"}
          BY <3>4, <4>1
        <5>. QED  BY <5>1 DEF Promise!Requests
      <4>2. CASE j = "update"
        <5>1. Asked' = {Found}
          BY <3>1, <3>3, <3>4, <4>2
        <5>. QED  BY <3>1, <3>3, <4>2, <5>1 DEF Promise!Requests
      <4>3. CASE j = "ota"
        <5>1. Asked' = IF Found = "none" THEN {"given"} ELSE {"given", Found}
          BY <3>3, <3>4, <4>3
        <5>. QED  BY <3>3, <5>1 DEF Promise!Requests
      <4>. QED  BY <4>1, <4>2, <4>3
    <3>6. Promise!Begin
      BY <2>2, <2>3, <3>2, <3>5 DEF Promise!Begin
    <3>. QED  BY <3>6 DEF Promise!Next
  <2>. QED  BY <2>4, <2>5
<1>6. CASE PowerFail
  <2>. DEFINE c == disk'.misc
  <2>1. /\ pc \notin {"booted", "recovery"} /\ cache' = disk' /\ image' = image
        /\ pc' = IF disk'.misc = Clear THEN "booted" ELSE "recovery"
        /\ c \in {disk.misc, cache.misc}
    BY <1>6 DEF PowerFail
  <2>2. c \in Asked \cup {"clear"}
    BY <1>0, <2>1 DEF MiscInv, AskedInv
  <2>3. Promise!Boot(c)
    BY <1>0, <2>1, <2>2, BootPromise
  <2>4. Mode \in {"system", "tool"}
    BY <2>1 DEF Mode
  <2>5. ASSUME ~Pending PROVE Whole' = Whole
    <3>1. cache.recovery = disk.recovery /\ disk.recovery \in [Area -> Nat \cup {Old}]
      BY <1>0, <2>5 DEF Pending
    <3>2. PICK S \in SUBSET Area, misc \in {disk.misc, cache.misc} :
              disk' = [recovery |-> [i \in Area |-> IF i \in S THEN cache.recovery[i]
                                                    ELSE disk.recovery[i]],
                       misc |-> misc]
      BY <1>6 DEF PowerFail
    <3>3. disk'.recovery = disk.recovery
      BY <3>1, <3>2
    <3>. QED  BY <2>1, <3>3, WholeFacts
  <2>r. Rebooted' = FALSE
    BY <1>6 DEF PowerFail, Rebooted
  <2>6. Promise!PowerCut(c)
    BY <1>0, <2>2, <2>3, <2>4, <2>5, <2>r DEF Promise!PowerCut
  <2>. QED  BY <2>2, <2>6 DEF Promise!Next
<1>7. CASE RecoveryDone
  <2>1. /\ pc = "recovery" /\ pc' = "booted" /\ image' = image
        /\ disk'.misc = "clear" /\ disk'.recovery = disk.recovery /\ cache' = disk'
    BY <1>0, <1>7 DEF RecoveryDone
  <2>2. Mode = "recovery" /\ Mode' = "system" /\ Asked' = Asked
    BY <2>1 DEF Mode, InTool, Asked
  <2>3. Pending' = FALSE /\ Pending = FALSE
    BY <2>1 DEF Pending, AskedInv
  <2>4. Whole' = Whole
    BY <2>1, WholeFacts
  <2>5. Rebooted' = FALSE
    BY <1>7 DEF RecoveryDone, Rebooted
  <2>. QED  BY <2>1, <2>2, <2>3, <2>4, <2>5 DEF Promise!Next, Promise!Recover
<1>8. CASE UNCHANGED vars
  <2>1. UNCHANGED <<pc, job, image, present, cache, disk>>
    BY <1>8 DEF vars
  <2>2. Mode' = Mode /\ Asked' = Asked /\ Pending' = Pending /\ Rebooted' = Rebooted
    BY <1>t, <2>1 DEF Mode, InTool, Asked, Pending, Rebooted
  <2>. QED  BY <1>s, <1>t, <2>1, <2>2 DEF Same
<1>. QED  BY <1>1, <1>2, <1>3, <1>4, <1>5, <1>6, <1>7, <1>8 DEF Next, Tool

\* Every property below is a part of the inductive invariant IInv, or follows from it.
THEOREM Invariance == Spec => []IInv
<1>1. IInv /\ [Next]_vars => IInv'
  BY TypeStep, TagStep, MiscStep, BadTagStep, CheckStep, ArmedStep DEF IInv
<1>. QED  BY InitInv, <1>1, PTL DEF Spec

\* No byte count or position of the copy loops leaves its range, and misc holds only
\* commands the tool knows, for images of every size (WriteFwData, CheckFwData).
THEOREM TypeCorrect == Spec => []TypeOK
<1>1. IInv => TypeOK
  BY DEF IInv
<1>. QED  BY Invariance, <1>1, PTL

\* misc is written only after the partition has been read back as the image's recovery
\* item, whatever its length and wherever it is in the image (main 250-260).
THEOREM ArmedIsVerifiedThm == Spec => []ArmedIsVerified
<1>1. IInv => ArmedIsVerified
  BY DEF IInv
<1>. QED  BY Invariance, <1>1, PTL

\* What the update's own reboot starts is the verified recovery (bootCommand's sync).
THEOREM RebootedIsDurableThm == Spec => []RebootedIsDurable
<1>1. IInv => RebootedIsDurable
  BY DEF IInv
<1>. QED  BY Invariance, <1>1, PTL

\* An untagged file never reaches the partition, although the test of GetFwOffset's
\* result cannot fail: the offset 2^32 - 1 lies beyond every image below 4 GiB.
THEOREM BadTagUntouchedThm == Spec => []BadTagUntouched
<1>1. IInv => BadTagUntouched
  BY DEF IInv
<1>. QED  BY Invariance, <1>1, PTL

\* A run that failed before its reboot leaves no command for the bootloader.
THEOREM FailedNotArmedThm == Spec => []FailedNotArmed
<1>1. IInv => FailedNotArmed
  BY DEF IInv, MiscInv, FailedNotArmed
<1>. QED  BY Invariance, <1>1, PTL

\* The tool keeps its promise (UpdateProtocol), whatever fails and whenever the power is
\* cut: recovery finds a command of the run that was interrupted or rebooted, and its
\* partition changes only where an update with a path was run, to the image's one when
\* that update reboots (bootCommand 109-157, rebootUpdate 207-229, main 250-260).
THEOREM KeepsUpdateProtocolThm == Spec => KeepsUpdateProtocol
<1>1. Init => AskedInv
  BY DEF Init, AskedInv
<1>2. IInv /\ AskedInv /\ [Next]_vars => AskedInv'
  BY AskedStep DEF IInv
<1>. QED
  BY InitPromise, StepPromise, Invariance, <1>1, <1>2, PTL
     DEF Spec, KeepsUpdateProtocol, Promise!Spec
=============================================================================
