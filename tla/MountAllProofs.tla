--------------------------- MODULE MountAllProofs ---------------------------
(***************************************************************************)
(* Proofs about S21mountall.sh for every fstab, any set of files and any   *)
(* number of boots.  Each safety property has its own inductive invariant: *)
(* KeptInv adds where the archive is complete, FullInv from which step on  *)
(* the partition is full, SmallInv that only a small file system gets to   *)
(* mkfs.ext2, and RepairInv that the lines behind the script are settled.  *)
(***************************************************************************)
EXTENDS MountAll, TLAPS

-----------------------------------------------------------------------------
(* Type correctness.                                                       *)

DiskOK ==
    /\ fstype \in FsTypes
    /\ size \in [Part -> {"none", "small", "full"}]
    /\ label \in [Part -> BOOLEAN]
    /\ files \in [Part -> SUBSET File]
    /\ put \in [Part -> SUBSET File]
    /\ dirty \in [Part -> BOOLEAN]

RamOK ==
    /\ archive \in [Part -> SUBSET File]
    /\ temp \in BOOLEAN
    /\ mounted \in SUBSET Part
    /\ nodes \in SUBSET Part
    /\ missed \in SUBSET Part
    /\ hurt \in SUBSET Part
    /\ skip \in BOOLEAN
    /\ tried \in SUBSET Part

PlaceOK ==
    /\ pc \in Steps
    /\ line \in 1 .. Len(Fstab) + 1
    /\ cycles \in 0 .. MaxCycles
    /\ pc \in Resizing \ {"loop"} => line \in DOMAIN Fstab
    /\ temp => pc \in {"grow", "backup", "restore", "label", "flush"}

LEMMA TypeParts == TypeOK <=> DiskOK /\ RamOK /\ PlaceOK
BY DEF TypeOK, DiskOK, RamOK, PlaceOK

\* The script's steps on a line of fstab are about a partition.
LEMMA CurInPart ==
    ASSUME line \in DOMAIN Fstab
    PROVE  Cur \in Part
BY PartAssumption DEF Cur

LEMMA LineInFstab ==
    ASSUME line \in 1 .. Len(Fstab) + 1, line <= Len(Fstab)
    PROVE  line \in DOMAIN Fstab /\ line + 1 \in 1 .. Len(Fstab) + 1
BY PartAssumption

LEMMA InitType == Init => TypeOK
<1> SUFFICES ASSUME Init PROVE TypeOK
    OBVIOUS
<1>1. DiskOK
    BY PartAssumption DEF Init, DiskOK
<1>2. RamOK
    BY DEF Init, RamOK
<1>3. PlaceOK
    BY PartAssumption DEF Init, PlaceOK, Steps, Resizing
<1> QED
    BY <1>1, <1>2, <1>3, TypeParts

USE DEF At, Go, disk, ram, vars

LEMMA NextPlace ==
    ASSUME TypeOK, [Next]_vars
    PROVE  PlaceOK'
<1> USE PartAssumption DEF PlaceOK, Steps, Resizing, Replacing
<1>0. PlaceOK /\ temp \in BOOLEAN /\ (pc = "loop" /\ line <= Len(Fstab) => line \in DOMAIN Fstab)
    BY DEF TypeOK
<1>0a. line \in DOMAIN Fstab => line + 1 \in 1 .. Len(Fstab) + 1
    OBVIOUS
<1>1. CASE Start
    BY <1>0, <1>0a, <1>1, SMTT(20) DEF Start
<1>2. CASE StartRecovery
    BY <1>0, <1>0a, <1>2 DEF StartRecovery
<1>3. CASE Resized
    BY <1>0, <1>0a, <1>3 DEF Resized
<1>4. CASE UnknownDevice
    BY <1>0, <1>0a, <1>4 DEF UnknownDevice, NextLine
<1>5. CASE NoFileSystem
    BY <1>0, <1>0a, <1>5 DEF NoFileSystem, NextLine
<1>6. CASE AlreadyResized
    BY <1>0, <1>0a, <1>6 DEF AlreadyResized, Present, AtLine, NextLine
<1>7. CASE FirstBoot
    BY <1>0, <1>0a, <1>7 DEF FirstBoot, Present, AtLine
<1>8. CASE MountTemp
    BY <1>0, <1>0a, <1>8 DEF MountTemp
<1>9. CASE Grow
    BY <1>0, <1>0a, <1>9 DEF Grow
<1>10. CASE Backup
    BY <1>0, <1>0a, <1>10 DEF Backup
<1>11. CASE Mkfs
    BY <1>0, <1>0a, <1>11 DEF Mkfs
<1>12. CASE FormatDone
    BY <1>0, <1>0a, <1>12 DEF FormatDone
<1>13. CASE Remount
    BY <1>0, <1>0a, <1>13 DEF Remount
<1>14. CASE Restore
    BY <1>0, <1>0a, <1>14 DEF Restore
<1>15. CASE SetLabel
    BY <1>0, <1>0a, <1>15 DEF SetLabel, NextLine
<1>16. CASE FatLarge
    BY <1>0, <1>0a, <1>16 DEF FatLarge, Present, AtLine, NextLine
<1>17. CASE FatEmpty
    BY <1>0, <1>0a, <1>17 DEF FatEmpty, Present, AtLine
<1>18. CASE FatFormatDone
    BY <1>0, <1>0a, <1>18 DEF FatFormatDone, NextLine
<1>19. CASE Fatresize
    BY <1>0, <1>0a, <1>19 DEF Fatresize, Present, AtLine, NextLine
<1>20. CASE Ntfs
    BY <1>0, <1>0a, <1>20 DEF Ntfs, Present, AtLine, NextLine
<1>21. CASE Check
    BY <1>0, <1>0a, <1>21 DEF Check
<1>22. CASE Mount
    BY <1>0, <1>0a, <1>22 DEF Mount
<1>23. CASE \E p \in Part : UdevAdd(p)
    BY <1>0, <1>23 DEF UdevAdd
<1>24. CASE \E p \in Part, f \in File : Write(p, f)
    BY <1>0, <1>24 DEF Write
<1>25. CASE SetSkip
    BY <1>0, <1>25 DEF SetSkip
<1>26. CASE Reboot
    BY <1>0, <1>26 DEF Reboot, RamLost
<1>27. CASE PowerFail
    BY <1>0, <1>27 DEF PowerFail, RamLost
<1>28. CASE UNCHANGED vars
    BY <1>0, <1>28
<1> QED
    BY <1>1, <1>2, <1>3, <1>4, <1>5, <1>6, <1>7, <1>8, <1>9, <1>10, <1>11, <1>12, <1>13, <1>14,
    <1>15, <1>16, <1>17, <1>18, <1>19, <1>20, <1>21, <1>22, <1>23, <1>24, <1>25, <1>26, <1>27, <1>28
    DEF Next, Script, ResizeExt, ResizeFat

LEMMA NextDisk ==
    ASSUME TypeOK, [Next]_vars
    PROVE  DiskOK'
<1>0. /\ DiskOK /\ RamOK
      /\ pc \in Resizing \ {"loop"} => Cur \in Part
      /\ pc = "loop" /\ line <= Len(Fstab) => Cur \in Part
    BY CurInPart, LineInFstab, TypeParts DEF PlaceOK
<1>1. CASE FirstBoot
    BY <1>0, <1>1 DEF FirstBoot, DiskOK, Resizing, Replacing, Present, AtLine, Repaired
<1>2. CASE Grow
    BY <1>0, <1>2 DEF Grow, DiskOK, Resizing, Replacing
<1>3. CASE Mkfs
    BY <1>0, <1>3 DEF Mkfs, DiskOK, Resizing, Replacing, Wiped
<1>4. CASE FormatDone
    BY <1>0, <1>4 DEF FormatDone, DiskOK, Resizing, Replacing, Formatted, Repaired
<1>5. CASE Restore
    <2>1. Cur \in Part
        BY <1>0, <1>5 DEF Restore, Resizing, Replacing
    <2>2. PICK R \in SUBSET (IF temp THEN archive[Cur] ELSE {}) :
              files' = [files EXCEPT ![Cur] = @ \cup R]
        BY <1>5 DEF Restore
    <2>3. files[Cur] \cup R \in SUBSET File
        BY <1>0, <2>1, <2>2 DEF DiskOK, RamOK
    <2>4. files' \in [Part -> SUBSET File]
        BY <1>0, <2>1, <2>2, <2>3 DEF DiskOK
    <2> QED
        BY <1>0, <1>5, <2>4 DEF Restore, DiskOK
<1>6. CASE SetLabel
    BY <1>0, <1>6 DEF SetLabel, DiskOK, Resizing, Replacing
<1>7. CASE FatLarge
    BY <1>0, <1>7 DEF FatLarge, DiskOK, Resizing, Replacing, Present, AtLine, Repaired
<1>8. CASE FatEmpty
    BY <1>0, <1>8 DEF FatEmpty, DiskOK, Resizing, Replacing, Present, AtLine, Wiped, Repaired
<1>9. CASE FatFormatDone
    BY <1>0, <1>9 DEF FatFormatDone, DiskOK, Resizing, Replacing, Formatted, Repaired
<1>10. CASE Fatresize
    BY <1>0, <1>10 DEF Fatresize, DiskOK, Resizing, Replacing, Present, AtLine, Repaired
<1>11. CASE Ntfs
    BY <1>0, <1>11 DEF Ntfs, DiskOK, Resizing, Replacing, Present, AtLine, Repaired
<1>12. CASE Check
    BY <1>0, <1>12 DEF Check, DiskOK, Resizing, Replacing, Repaired
<1>13. CASE Start \/ StartRecovery \/ Resized \/ UnknownDevice \/ NoFileSystem
          \/ AlreadyResized \/ MountTemp \/ Backup \/ Remount \/ Mount
    BY <1>0, <1>13 DEF Start, StartRecovery, Resized, UnknownDevice, NoFileSystem,
    AlreadyResized, MountTemp, Backup, Remount, Mount, DiskOK
<1>14. CASE \E p \in Part : UdevAdd(p)
    BY <1>0, <1>14 DEF DiskOK, UdevAdd
<1>15. CASE \E p \in Part, f \in File : Write(p, f)
    BY <1>0, <1>15 DEF DiskOK, Write
<1>16. CASE SetSkip \/ Reboot
    BY <1>0, <1>16 DEF DiskOK, SetSkip, Reboot
<1>17. CASE PowerFail
    BY <1>0, <1>17 DEF DiskOK, PowerFail, Resizing, Replacing, InUse
<1>18. CASE UNCHANGED vars
    BY <1>0, <1>18 DEF DiskOK
<1> QED
    BY <1>1, <1>2, <1>3, <1>4, <1>5, <1>6, <1>7, <1>8, <1>9, <1>10, <1>11, <1>12, <1>13, <1>14,
    <1>15, <1>16, <1>17, <1>18
    DEF Next, Script, ResizeExt, ResizeFat

LEMMA NextRam ==
    ASSUME TypeOK, [Next]_vars
    PROVE  RamOK'
<1>0. /\ DiskOK /\ RamOK
      /\ pc \in Resizing \ {"loop"} => Cur \in Part
      /\ pc = "loop" /\ line <= Len(Fstab) => Cur \in Part
    BY CurInPart, LineInFstab, TypeParts DEF PlaceOK
<1>1. CASE Start
    BY <1>0, <1>1, PartAssumption DEF Start, RamOK, Resizing, Replacing
<1>2. CASE UnknownDevice
    BY <1>0, <1>2 DEF UnknownDevice, RamOK, Resizing, Replacing
<1>3. CASE MountTemp
    BY <1>0, <1>3 DEF MountTemp, RamOK, Resizing, Replacing
<1>4. CASE Backup
    <2>1. Cur \in Part
        BY <1>0, <1>4 DEF Backup, Resizing, Replacing
    <2>2. PICK A \in SUBSET Archivable :
              /\ archive' = [archive EXCEPT ![Cur] = A]
              /\ HurtUnless(A = files[Cur])
        BY <1>4 DEF Backup
    <2>3. A \in SUBSET File
        BY <1>0, <2>1, <2>2 DEF DiskOK, Archivable
    <2>4. archive' \in [Part -> SUBSET File]
        BY <1>0, <2>1, <2>2, <2>3 DEF RamOK
    <2>5. hurt' \in SUBSET Part
        BY <1>0, <2>1, <2>2 DEF RamOK, HurtUnless
    <2> QED
        BY <1>0, <1>4, <2>4, <2>5 DEF Backup, RamOK
<1>5. CASE Mkfs
    BY <1>0, <1>5 DEF Mkfs, RamOK, Resizing, Replacing, HurtUnless
<1>6. CASE Remount
    BY <1>0, <1>6 DEF Remount, RamOK, Resizing, Replacing, HurtUnless
<1>7. CASE Restore
    BY <1>0, <1>7 DEF Restore, RamOK, Resizing, Replacing, HurtUnless
<1>8. CASE SetLabel
    BY <1>0, <1>8 DEF SetLabel, RamOK, Resizing, Replacing
<1>9. CASE Fatresize
    BY <1>0, <1>9 DEF Fatresize, RamOK, Resizing, Replacing, Present, AtLine
<1>10. CASE Check
    BY <1>0, <1>10 DEF Check, RamOK, Resizing, Replacing
<1>11. CASE Mount
    BY <1>0, <1>11 DEF Mount, RamOK, Resizing, Replacing, Mountable
<1>12. CASE StartRecovery \/ Resized \/ NoFileSystem \/ AlreadyResized \/ FirstBoot \/ Grow
          \/ FormatDone \/ FatLarge \/ FatEmpty \/ FatFormatDone \/ Ntfs
    BY <1>0, <1>12 DEF StartRecovery, Resized, NoFileSystem, AlreadyResized, FirstBoot, Grow,
    FormatDone, FatLarge, FatEmpty, FatFormatDone, Ntfs, RamOK
<1>13. CASE \E p \in Part : UdevAdd(p)
    BY <1>0, <1>13 DEF RamOK, UdevAdd
<1>14. CASE \E p \in Part, f \in File : Write(p, f)
    BY <1>0, <1>14 DEF RamOK, Write
<1>15. CASE SetSkip \/ Reboot
    BY <1>0, <1>15 DEF RamOK, SetSkip, Reboot, RamLost
<1>16. CASE PowerFail
    BY <1>0, <1>16 DEF RamOK, PowerFail, RamLost, Resizing, Replacing
<1>17. CASE UNCHANGED vars
    BY <1>0, <1>17 DEF RamOK
<1> QED
    BY <1>1, <1>2, <1>3, <1>4, <1>5, <1>6, <1>7, <1>8, <1>9, <1>10, <1>11, <1>12, <1>13, <1>14,
    <1>15, <1>16, <1>17
    DEF Next, Script, ResizeExt, ResizeFat

\* Each variable keeps its type, and the script its place in fstab.
THEOREM TypeCorrect == Spec => []TypeOK
<1>1. TypeOK /\ [Next]_vars => TypeOK'
    BY NextDisk, NextRam, NextPlace, TypeParts DEF TypeOK, DiskOK, RamOK, PlaceOK
<1> QED
    BY InitType, <1>1, PTL DEF Spec

-----------------------------------------------------------------------------
(* Files are kept.  Beyond FilesKept: nothing appears from nowhere, and    *)
(* from the end of tar to the end of the restore the archive is complete.  *)

KeptInv ==
    /\ \A p \in Part : files[p] \subseteq put[p] /\ archive[p] \subseteq put[p]
    /\ \A p \in Part \ hurt :
          files[p] = put[p] \/ (p = Cur /\ pc \in {"format", "remount", "restore"})
    /\ pc \in {"mkfs", "format", "remount", "restore"} /\ Cur \notin hurt =>
          archive[Cur] = put[Cur]

LEMMA NextKept ==
    ASSUME TypeOK, KeptInv, [Next]_vars
    PROVE  KeptInv'
<1>0. /\ DiskOK /\ RamOK /\ PlaceOK
      /\ pc \in Resizing \ {"loop"} => Cur \in Part
      /\ pc = "loop" /\ line <= Len(Fstab) => Cur \in Part
    BY CurInPart, LineInFstab, TypeParts DEF PlaceOK
<1> USE DEF KeptInv, DiskOK, RamOK, Cur, Resizing, Replacing
<1>1. CASE Start
    BY <1>0, <1>1 DEF Start
<1>2. CASE StartRecovery
    BY <1>0, <1>2 DEF StartRecovery
<1>3. CASE Resized
    BY <1>0, <1>3 DEF Resized
<1>4. CASE UnknownDevice \/ NoFileSystem \/ AlreadyResized
    BY <1>0, <1>4 DEF UnknownDevice, NextLine, NoFileSystem, AlreadyResized, Present, AtLine
<1>5. CASE FirstBoot
    BY <1>0, <1>5 DEF FirstBoot, Present, AtLine, Repaired
<1>6. CASE MountTemp
    BY <1>0, <1>6 DEF MountTemp
<1>7. CASE Grow
    BY <1>0, <1>7 DEF Grow, FallsBack
<1>8. CASE Backup
    BY <1>0, <1>8 DEF Backup, Archivable, HurtUnless
<1>9. CASE Mkfs
    BY <1>0, <1>9 DEF Mkfs, Wiped, HurtUnless
<1>10. CASE FormatDone
    BY <1>0, <1>10 DEF FormatDone, Formatted, Repaired
<1>11. CASE Remount
    BY <1>0, <1>11 DEF Remount, HurtUnless
<1>12. CASE Restore
    <2>1. /\ Cur \in Part /\ pc' = "flush" /\ Cur' = Cur /\ put' = put
          /\ Cur \notin hurt => archive[Cur] = put[Cur]
          /\ \A p \in Part : files[p] \subseteq put[p] /\ archive[p] \subseteq put[p]
          /\ archive' = archive /\ archive[Cur] \in SUBSET File
        BY <1>0, <1>12 DEF Restore
    <2>2. \A p \in Part \ hurt : p # Cur => files[p] = put[p]
        BY <1>0
    <2>3. PICK R \in SUBSET (IF temp THEN archive[Cur] ELSE {}) :
              /\ files' = [files EXCEPT ![Cur] = @ \cup R]
              /\ HurtUnless(R = archive[Cur])
        BY <1>12 DEF Restore
    <2>4. files \in [Part -> SUBSET File]
        BY <1>0
    <2> HIDE DEF Cur, KeptInv, DiskOK, RamOK
    <2>5. \A p \in Part : files'[p] = IF p = Cur THEN files[Cur] \cup R ELSE files[p]
        BY <2>3, <2>4
    <2>6. hurt' = IF R = archive[Cur] THEN hurt ELSE hurt \cup {Cur}
        BY <2>3 DEF HurtUnless
    <2>7. R \subseteq archive[Cur]
        BY <2>3
    <2>8. Cur \notin hurt' => files'[Cur] = put[Cur]
        BY <2>1, <2>5, <2>6
    <2>9. \A p \in Part \ hurt' : files'[p] = put'[p]
        BY <2>1, <2>2, <2>5, <2>6, <2>8
    <2>10. \A p \in Part : files'[p] \subseteq put'[p]
        BY <2>1, <2>2, <2>5, <2>7
    <2> QED
        BY <2>1, <2>9, <2>10 DEF KeptInv
<1>13. CASE SetLabel
    BY <1>0, <1>13 DEF SetLabel, NextLine
<1>14. CASE FatLarge
    BY <1>0, <1>14 DEF FatLarge, Present, AtLine, NextLine, Repaired
<1>15. CASE FatEmpty
    BY <1>0, <1>15 DEF FatEmpty, Present, AtLine, Wiped, Empty, LargeEnough, Repaired
<1>16. CASE FatFormatDone
    BY <1>0, <1>16 DEF FatFormatDone, NextLine, Formatted, Repaired
<1>17. CASE Fatresize
    BY <1>0, <1>17 DEF Fatresize, Present, AtLine, NextLine, Repaired
<1>18. CASE Ntfs
    BY <1>0, <1>18 DEF Ntfs, Present, AtLine, NextLine, Repaired
<1>19. CASE Check
    BY <1>0, <1>19 DEF Check, Repaired, Checked
<1>20. CASE Mount
    BY <1>0, <1>20 DEF Mount
<1>21. CASE (\E p \in Part : UdevAdd(p))
    BY <1>0, <1>21 DEF UdevAdd
<1>22. CASE (\E p \in Part, f \in File : Write(p, f))
    <2>1. PICK q \in Part, f \in File : Write(q, f)
        BY <1>22
    <2>2. /\ \A p \in Part : files'[p] = IF p = q THEN files[q] \cup {f} ELSE files[p]
          /\ \A p \in Part : put'[p] = IF p = q THEN put[q] \cup {f} ELSE put[p]
          /\ pc = "up" /\ pc' = "up" /\ hurt' = hurt /\ archive' = archive
        BY <1>0, <2>1 DEF Write
    <2>3. \A p \in Part \ hurt : files[p] = put[p]
        BY <2>2
    <2> QED
        BY <2>2, <2>3
<1>23. CASE SetSkip
    BY <1>0, <1>23 DEF SetSkip
<1>24. CASE Reboot
    BY <1>0, <1>24 DEF Reboot, RamLost
<1>25. CASE PowerFail
    <2>1. CASE pc \in Replacing
        <3>1. Cur \in Part /\ pc' = "off" /\ hurt' = hurt \cup {Cur} /\ put' = put
            BY <1>0, <1>25, <2>1 DEF PowerFail
        <3>2. PICK F \in SUBSET files[Cur] : files' = [files EXCEPT ![Cur] = F]
            BY <1>25, <2>1 DEF PowerFail
        <3>3. \A p \in Part : files'[p] = IF p = Cur THEN F ELSE files[p]
            BY <1>0, <3>2
        <3>4. \A p \in Part : files'[p] \subseteq put'[p] /\ archive'[p] \subseteq put'[p]
            BY <1>25, <3>1, <3>2, <3>3 DEF PowerFail, RamLost
        <3> QED
            BY <3>1, <3>3, <3>4
    <2>2. CASE pc \notin Replacing
        BY <1>0, <1>25, <2>2 DEF PowerFail, RamLost
    <2> QED
        BY <2>1, <2>2
<1>26. CASE UNCHANGED vars
    BY <1>0, <1>26
<1> QED
    BY <1>1, <1>2, <1>3, <1>4, <1>5, <1>6, <1>7, <1>8, <1>9, <1>10, <1>11, <1>12, <1>13, <1>14,
    <1>15, <1>16, <1>17, <1>18, <1>19, <1>20, <1>21, <1>22, <1>23, <1>24, <1>25, <1>26
    DEF Next, Script, ResizeExt, ResizeFat

\* However often the power fails, a partition loses files only if a tool or the power
\* failed while its own file system was being replaced (resize_e2fs).
THEOREM FilesKeptThm == Spec => []FilesKept
<1>1. Init => KeptInv
    <2> SUFFICES ASSUME Init PROVE KeptInv
        OBVIOUS
    <2>1. put = files /\ pc = "off" /\ archive = [p \in Part |-> {}]
        BY DEF Init
    <2> QED
        BY <2>1 DEF KeptInv
<1>2. TypeOK /\ KeptInv => FilesKept
    <2> SUFFICES ASSUME TypeOK, KeptInv, NEW p \in Part \ hurt
                 PROVE  \/ files[p] = put[p]
                        \/ /\ p = Cur /\ pc \in {"format", "remount", "restore"}
                           /\ archive[p] = put[p]
        BY DEF FilesKept
    <2> QED
        BY DEF KeptInv
<1> QED
    BY <1>1, <1>2, NextKept, TypeCorrect, PTL DEF Spec

-----------------------------------------------------------------------------
(* The label.  Whatever path leads to tune2fs, the file system is full.    *)

FullInv ==
    /\ LabelledIsFull
    /\ pc \in {"remount", "restore", "flush", "label"} /\ Cur \notin hurt \cup {Root} =>
          size[Cur] = "full"

LEMMA NextFull ==
    ASSUME TypeOK, FullInv, [Next]_vars
    PROVE  FullInv'
<1>0. /\ DiskOK /\ RamOK /\ PlaceOK
      /\ pc \in Resizing \ {"loop"} => Cur \in Part
      /\ pc = "loop" /\ line <= Len(Fstab) => Cur \in Part
    BY CurInPart, LineInFstab, TypeParts DEF PlaceOK
<1> USE DEF FullInv, LabelledIsFull, DiskOK, RamOK, Cur, Resizing, Replacing
<1>1. CASE Start
    BY <1>0, <1>1 DEF Start
<1>2. CASE StartRecovery
    BY <1>0, <1>2 DEF StartRecovery
<1>3. CASE Resized
    BY <1>0, <1>3 DEF Resized
<1>4. CASE UnknownDevice \/ NoFileSystem \/ AlreadyResized
    BY <1>0, <1>4 DEF UnknownDevice, NextLine, NoFileSystem, AlreadyResized, Present, AtLine
<1>5. CASE FirstBoot
    BY <1>0, <1>5 DEF FirstBoot, Present, AtLine, Repaired
<1>6. CASE MountTemp
    BY <1>0, <1>6 DEF MountTemp
<1>7. CASE Grow
    BY <1>0, <1>7 DEF Grow, FallsBack
<1>8. CASE Backup
    BY <1>0, <1>8 DEF Backup, Archivable, HurtUnless
<1>9. CASE Mkfs
    BY <1>0, <1>9 DEF Mkfs, Wiped, HurtUnless
<1>10. CASE FormatDone
    BY <1>0, <1>10 DEF FormatDone, Formatted, Repaired
<1>11. CASE Remount
    BY <1>0, <1>11 DEF Remount, HurtUnless
<1>12. CASE Restore
    BY <1>0, <1>12 DEF Restore, HurtUnless
<1>13. CASE SetLabel
    BY <1>0, <1>13 DEF SetLabel, NextLine
<1>14. CASE FatLarge
    BY <1>0, <1>14 DEF FatLarge, Present, AtLine, NextLine, Repaired
<1>15. CASE FatEmpty
    BY <1>0, <1>15 DEF FatEmpty, Present, AtLine, Wiped, Empty, LargeEnough, Repaired
<1>16. CASE FatFormatDone
    BY <1>0, <1>16 DEF FatFormatDone, NextLine, Formatted, Repaired
<1>17. CASE Fatresize
    BY <1>0, <1>17 DEF Fatresize, Present, AtLine, NextLine, Repaired
<1>18. CASE Ntfs
    BY <1>0, <1>18 DEF Ntfs, Present, AtLine, NextLine, Repaired
<1>19. CASE Check
    BY <1>0, <1>19 DEF Check, Repaired, Checked
<1>20. CASE Mount
    BY <1>0, <1>20 DEF Mount
<1>21. CASE (\E p \in Part : UdevAdd(p))
    BY <1>0, <1>21 DEF UdevAdd
<1>22. CASE (\E p \in Part, f \in File : Write(p, f))
    BY <1>0, <1>22 DEF Write
<1>23. CASE SetSkip
    BY <1>0, <1>23 DEF SetSkip
<1>24. CASE Reboot
    BY <1>0, <1>24 DEF Reboot, RamLost
<1>25. CASE PowerFail
    BY <1>0, <1>25 DEF PowerFail, RamLost, InUse
<1>26. CASE UNCHANGED vars
    BY <1>0, <1>26
<1> QED
    BY <1>1, <1>2, <1>3, <1>4, <1>5, <1>6, <1>7, <1>8, <1>9, <1>10, <1>11, <1>12, <1>13, <1>14,
    <1>15, <1>16, <1>17, <1>18, <1>19, <1>20, <1>21, <1>22, <1>23, <1>24, <1>25, <1>26
    DEF Next, Script, ResizeExt, ResizeFat

\* The label is a record that can be trusted at the next boot (resize_e2fs).
THEOREM LabelledIsFullThm == Spec => []LabelledIsFull
<1>1. Init => FullInv
    BY DEF Init, FullInv, LabelledIsFull
<1>2. FullInv => LabelledIsFull
    BY DEF FullInv
<1> QED
    BY <1>1, <1>2, NextFull, TypeCorrect, PTL DEF Spec

-----------------------------------------------------------------------------
(* Formatting.  mkfs.ext2 is reached only after resize2fs failed.          *)

SmallInv == pc \in {"backup", "mkfs"} => size[Cur] # "full"

LEMMA NextSmall ==
    ASSUME TypeOK, SmallInv, [Next]_vars
    PROVE  SmallInv'
<1>0. /\ DiskOK /\ RamOK /\ PlaceOK
      /\ pc \in Resizing \ {"loop"} => Cur \in Part
      /\ pc = "loop" /\ line <= Len(Fstab) => Cur \in Part
    BY CurInPart, LineInFstab, TypeParts DEF PlaceOK
<1> USE DEF SmallInv, DiskOK, RamOK, Cur, Resizing, Replacing
<1>1. CASE Start
    BY <1>0, <1>1 DEF Start
<1>2. CASE StartRecovery
    BY <1>0, <1>2 DEF StartRecovery
<1>3. CASE Resized
    BY <1>0, <1>3 DEF Resized
<1>4. CASE UnknownDevice \/ NoFileSystem \/ AlreadyResized
    BY <1>0, <1>4 DEF UnknownDevice, NextLine, NoFileSystem, AlreadyResized, Present, AtLine
<1>5. CASE FirstBoot
    BY <1>0, <1>5 DEF FirstBoot, Present, AtLine, Repaired
<1>6. CASE MountTemp
    BY <1>0, <1>6 DEF MountTemp
<1>7. CASE Grow
    BY <1>0, <1>7 DEF Grow, FallsBack
<1>8. CASE Backup
    BY <1>0, <1>8 DEF Backup, Archivable, HurtUnless
<1>9. CASE Mkfs
    BY <1>0, <1>9 DEF Mkfs, Wiped, HurtUnless
<1>10. CASE FormatDone
    BY <1>0, <1>10 DEF FormatDone, Formatted, Repaired
<1>11. CASE Remount
    BY <1>0, <1>11 DEF Remount, HurtUnless
<1>12. CASE Restore
    BY <1>0, <1>12 DEF Restore, HurtUnless
<1>13. CASE SetLabel
    BY <1>0, <1>13 DEF SetLabel, NextLine
<1>14. CASE FatLarge
    BY <1>0, <1>14 DEF FatLarge, Present, AtLine, NextLine, Repaired
<1>15. CASE FatEmpty
    BY <1>0, <1>15 DEF FatEmpty, Present, AtLine, Wiped, Empty, LargeEnough, Repaired
<1>16. CASE FatFormatDone
    BY <1>0, <1>16 DEF FatFormatDone, NextLine, Formatted, Repaired
<1>17. CASE Fatresize
    BY <1>0, <1>17 DEF Fatresize, Present, AtLine, NextLine, Repaired
<1>18. CASE Ntfs
    BY <1>0, <1>18 DEF Ntfs, Present, AtLine, NextLine, Repaired
<1>19. CASE Check
    BY <1>0, <1>19 DEF Check, Repaired, Checked
<1>20. CASE Mount
    BY <1>0, <1>20 DEF Mount
<1>21. CASE (\E p \in Part : UdevAdd(p))
    BY <1>0, <1>21 DEF UdevAdd
<1>22. CASE (\E p \in Part, f \in File : Write(p, f))
    BY <1>0, <1>22 DEF Write
<1>23. CASE SetSkip
    BY <1>0, <1>23 DEF SetSkip
<1>24. CASE Reboot
    BY <1>0, <1>24 DEF Reboot, RamLost
<1>25. CASE PowerFail
    BY <1>0, <1>25 DEF PowerFail, RamLost, InUse
<1>26. CASE UNCHANGED vars
    BY <1>0, <1>26
<1> QED
    BY <1>1, <1>2, <1>3, <1>4, <1>5, <1>6, <1>7, <1>8, <1>9, <1>10, <1>11, <1>12, <1>13, <1>14,
    <1>15, <1>16, <1>17, <1>18, <1>19, <1>20, <1>21, <1>22, <1>23, <1>24, <1>25, <1>26
    DEF Next, Script, ResizeExt, ResizeFat

\* Neither a lost label nor any sequence of boots formats a full file system
\* (resize_e2fs, resize_fat).
THEOREM FullStaysFullThm == Spec => FullStaysFull
<1>1. Init => SmallInv
    BY DEF Init, SmallInv
<1>2. ASSUME TypeOK, SmallInv, [Next]_vars
      PROVE  [\A p \in Part : size[p] = "full" => size'[p] = "full"]_size
    <2>0. DiskOK /\ PlaceOK /\ (pc \in Resizing \ {"loop"} => Cur \in Part)
        BY <1>2, CurInPart, TypeParts DEF PlaceOK
    <2>1. CASE Grow
        BY <2>0, <2>1 DEF Grow, DiskOK, Resizing
    <2>2. CASE Mkfs
        BY <1>2, <2>0, <2>2 DEF Mkfs, Wiped, SmallInv, DiskOK, Resizing
    <2>3. CASE FatEmpty
        BY <2>0, <2>3 DEF FatEmpty, Wiped, LargeEnough, Present, AtLine, DiskOK
    <2>4. CASE FormatDone \/ FatFormatDone
        BY <2>0, <2>4 DEF FormatDone, FatFormatDone, Formatted, DiskOK, Resizing, Replacing
    <2>5. CASE Ntfs
        BY <2>0, <2>5 DEF Ntfs, DiskOK
    <2>6. CASE ~(Grow \/ Mkfs \/ FatEmpty \/ FormatDone \/ FatFormatDone \/ Ntfs)
        <3>1. size' = size
            BY <1>2, <2>6 DEF Next, Script, ResizeExt, ResizeFat, Start, StartRecovery, Resized,
            UnknownDevice, NoFileSystem, AlreadyResized, FirstBoot, MountTemp, Backup, Remount,
            Restore, SetLabel, FatLarge, Fatresize, Check, Mount, UdevAdd, Write, SetSkip,
            Reboot, PowerFail
        <3> QED
            BY <3>1
    <2> QED
        BY <2>1, <2>2, <2>3, <2>4, <2>5, <2>6
<1> QED
    BY <1>1, <1>2, NextSmall, TypeCorrect, PTL DEF Spec, FullStaysFull

-----------------------------------------------------------------------------
(* Checks.  A fat or ntfs partition is repaired when its line is handled   *)
(* and stays so, the others are repaired by fsck.                          *)

Settled(p) == fstype[p] \in {"fat", "ntfs"} /\ dirty[p] => p \in missed \/ size[p] = "none"

ExtInv == pc \in Resizing \ {"loop", "fatformat"} => fstype[Cur] = "ext"

LEMMA NextExt ==
    ASSUME TypeOK, ExtInv, [Next]_vars
    PROVE  ExtInv'
<1>0. /\ DiskOK /\ RamOK /\ PlaceOK
      /\ pc \in Resizing \ {"loop"} => Cur \in Part
      /\ pc = "loop" /\ line <= Len(Fstab) => Cur \in Part
    BY CurInPart, LineInFstab, TypeParts DEF PlaceOK
<1> USE DEF ExtInv, DiskOK, RamOK, Cur, Resizing, Replacing
<1>1. CASE Start
    BY <1>0, <1>1 DEF Start
<1>2. CASE StartRecovery
    BY <1>0, <1>2 DEF StartRecovery
<1>3. CASE Resized
    BY <1>0, <1>3 DEF Resized
<1>4. CASE UnknownDevice
    BY <1>0, <1>4 DEF UnknownDevice, NextLine
<1>5. CASE NoFileSystem
    BY <1>0, <1>5 DEF NoFileSystem, NextLine
<1>6. CASE AlreadyResized
    BY <1>0, <1>6 DEF AlreadyResized, Present, AtLine, NextLine
<1>7. CASE FirstBoot
    BY <1>0, <1>7 DEF FirstBoot, Present, AtLine, Repaired
<1>8. CASE MountTemp
    BY <1>0, <1>8 DEF MountTemp
<1>9. CASE Grow
    BY <1>0, <1>9 DEF Grow, FallsBack
<1>10. CASE Backup
    BY <1>0, <1>10 DEF Backup, Archivable, HurtUnless
<1>11. CASE Mkfs
    BY <1>0, <1>11 DEF Mkfs, Wiped, HurtUnless
<1>12. CASE FormatDone
    BY <1>0, <1>12 DEF FormatDone, Formatted, Repaired
<1>13. CASE Remount
    BY <1>0, <1>13 DEF Remount, HurtUnless
<1>14. CASE Restore
    BY <1>0, <1>14 DEF Restore, HurtUnless
<1>15. CASE SetLabel
    BY <1>0, <1>15 DEF SetLabel, NextLine
<1>16. CASE FatLarge
    BY <1>0, <1>16 DEF FatLarge, Present, AtLine, NextLine, Repaired
<1>17. CASE FatEmpty
    BY <1>0, <1>17 DEF FatEmpty, Present, AtLine, Wiped, Empty, LargeEnough, Repaired
<1>18. CASE FatFormatDone
    BY <1>0, <1>18 DEF FatFormatDone, NextLine, Formatted, Repaired
<1>19. CASE Fatresize
    BY <1>0, <1>19 DEF Fatresize, Present, AtLine, NextLine, Repaired
<1>20. CASE Ntfs
    BY <1>0, <1>20 DEF Ntfs, Present, AtLine, NextLine, Repaired
<1>21. CASE Check
    BY <1>0, <1>21 DEF Check, Repaired, Checked
<1>22. CASE Mount
    BY <1>0, <1>22 DEF Mount
<1>23. CASE (\E p \in Part : UdevAdd(p))
    BY <1>0, <1>23 DEF UdevAdd
<1>24. CASE (\E p \in Part, f \in File : Write(p, f))
    BY <1>0, <1>24 DEF Write
<1>25. CASE SetSkip
    BY <1>0, <1>25 DEF SetSkip
<1>26. CASE Reboot
    BY <1>0, <1>26 DEF Reboot, RamLost
<1>27. CASE PowerFail
    BY <1>0, <1>27 DEF PowerFail, RamLost, InUse
<1>28. CASE UNCHANGED vars
    BY <1>0, <1>28
<1> QED
    BY <1>1, <1>2, <1>3, <1>4, <1>5, <1>6, <1>7, <1>8, <1>9, <1>10, <1>11, <1>12, <1>13, <1>14,
    <1>15, <1>16, <1>17, <1>18, <1>19, <1>20, <1>21, <1>22, <1>23, <1>24, <1>25, <1>26, <1>27, <1>28
    DEF Next, Script, ResizeExt, ResizeFat

LEMMA SettledStays ==
    ASSUME TypeOK, ExtInv, [Next]_vars, pc' # "off", NEW p \in Part, Settled(p)
    PROVE  Settled(p)'
<1>0. /\ DiskOK /\ RamOK /\ PlaceOK
      /\ pc \in Resizing \ {"loop"} => Cur \in Part
      /\ pc = "loop" /\ line <= Len(Fstab) => Cur \in Part
    BY CurInPart, LineInFstab, TypeParts DEF PlaceOK
<1> USE DEF ExtInv, Settled, DiskOK, RamOK, Cur, Resizing, Replacing
<1>1. CASE Start
    BY <1>0, <1>1 DEF Start
<1>2. CASE StartRecovery
    BY <1>0, <1>2 DEF StartRecovery
<1>3. CASE Resized
    BY <1>0, <1>3 DEF Resized
<1>4. CASE UnknownDevice
    BY <1>0, <1>4 DEF UnknownDevice, NextLine
<1>5. CASE NoFileSystem
    BY <1>0, <1>5 DEF NoFileSystem, NextLine
<1>6. CASE AlreadyResized
    BY <1>0, <1>6 DEF AlreadyResized, Present, AtLine, NextLine
<1>7. CASE FirstBoot
    BY <1>0, <1>7 DEF FirstBoot, Present, AtLine, Repaired
<1>8. CASE MountTemp
    BY <1>0, <1>8 DEF MountTemp
<1>9. CASE Grow
    BY <1>0, <1>9 DEF Grow, FallsBack
<1>10. CASE Backup
    BY <1>0, <1>10 DEF Backup, Archivable, HurtUnless
<1>11. CASE Mkfs
    BY <1>0, <1>11 DEF Mkfs, Wiped, HurtUnless
<1>12. CASE FormatDone
    BY <1>0, <1>12 DEF FormatDone, Formatted, Repaired
<1>13. CASE Remount
    BY <1>0, <1>13 DEF Remount, HurtUnless
<1>14. CASE Restore
    BY <1>0, <1>14 DEF Restore, HurtUnless
<1>15. CASE SetLabel
    BY <1>0, <1>15 DEF SetLabel, NextLine
<1>16. CASE FatLarge
    BY <1>0, <1>16 DEF FatLarge, Present, AtLine, NextLine, Repaired
<1>17. CASE FatEmpty
    BY <1>0, <1>17 DEF FatEmpty, Present, AtLine, Wiped, Empty, LargeEnough, Repaired
<1>18. CASE FatFormatDone
    BY <1>0, <1>18 DEF FatFormatDone, NextLine, Formatted, Repaired
<1>19. CASE Fatresize
    BY <1>0, <1>19 DEF Fatresize, Present, AtLine, NextLine, Repaired
<1>20. CASE Ntfs
    BY <1>0, <1>20 DEF Ntfs, Present, AtLine, NextLine, Repaired
<1>21. CASE Check
    BY <1>0, <1>21 DEF Check, Repaired, Checked
<1>22. CASE Mount
    BY <1>0, <1>22 DEF Mount
<1>23. CASE (\E q \in Part : UdevAdd(q))
    BY <1>0, <1>23 DEF UdevAdd
<1>24. CASE (\E q \in Part, f \in File : Write(q, f))
    BY <1>0, <1>24 DEF Write
<1>25. CASE SetSkip
    BY <1>0, <1>25 DEF SetSkip
<1>26. CASE Reboot
    BY <1>0, <1>26 DEF Reboot, RamLost
<1>27. CASE PowerFail
    BY <1>0, <1>27 DEF PowerFail, RamLost, InUse
<1>28. CASE UNCHANGED vars
    BY <1>0, <1>28
<1> QED
    BY <1>1, <1>2, <1>3, <1>4, <1>5, <1>6, <1>7, <1>8, <1>9, <1>10, <1>11, <1>12, <1>13, <1>14,
    <1>15, <1>16, <1>17, <1>18, <1>19, <1>20, <1>21, <1>22, <1>23, <1>24, <1>25, <1>26, <1>27, <1>28
    DEF Next, Script, ResizeExt, ResizeFat

\* At the end of its line a partition is settled.
LEMMA SettledNow ==
    ASSUME TypeOK, ExtInv, [Next]_vars, line' # line, pc # "off", NEW p \in Part, p = Cur
    PROVE  NextLine /\ Settled(p)'
<1>0. /\ DiskOK /\ RamOK /\ PlaceOK
      /\ pc \in Resizing \ {"loop"} => Cur \in Part
    BY CurInPart, TypeParts DEF PlaceOK
<1> USE DEF DiskOK, RamOK, Settled, NextLine, Resizing, Replacing
<1>1. CASE UnknownDevice
    BY <1>0, <1>1 DEF UnknownDevice
<1>2. CASE NoFileSystem
    BY <1>0, <1>2 DEF NoFileSystem
<1>3. CASE AlreadyResized
    BY <1>0, <1>3 DEF AlreadyResized, Present, AtLine
<1>4. CASE SetLabel
    BY <1>0, <1>4 DEF SetLabel, ExtInv
<1>5. CASE FatLarge
    BY <1>0, <1>5 DEF FatLarge, Repaired
<1>6. CASE FatFormatDone
    BY <1>0, <1>6 DEF FatFormatDone, Formatted, Repaired
<1>7. CASE Fatresize
    BY <1>0, <1>7 DEF Fatresize, Repaired
<1>8. CASE Ntfs
    BY <1>0, <1>8 DEF Ntfs, Repaired
<1>9. CASE ~(UnknownDevice \/ NoFileSystem \/ AlreadyResized \/ SetLabel \/ FatLarge
             \/ FatFormatDone \/ Fatresize \/ Ntfs)
    BY <1>9 DEF Next, Script, ResizeExt, ResizeFat, Start, StartRecovery, Resized, FirstBoot,
    MountTemp, Grow, Backup, Mkfs, FormatDone, Remount, Restore, FatEmpty, Check, Mount,
    UdevAdd, Write, SetSkip, Reboot, PowerFail
<1> QED
    BY <1>1, <1>2, <1>3, <1>4, <1>5, <1>6, <1>7, <1>8, <1>9

RepairInv ==
    /\ pc \in Resizing \cup {"check"} =>
          \A i \in 1 .. Len(Fstab) : i < line => Settled(Fstab[i])
    /\ pc = "check" => line > Len(Fstab)
    /\ pc = "mountall" => Part \subseteq nodes \cup missed
    /\ RepairedBeforeMount

LEMMA NextRepair ==
    ASSUME TypeOK, ExtInv, RepairInv, [Next]_vars
    PROVE  RepairInv'
<1>0. /\ DiskOK /\ RamOK /\ PlaceOK
      /\ Len(Fstab) \in Nat /\ \A i \in 1 .. Len(Fstab) : Fstab[i] \in Part
    BY PartAssumption, TypeParts
<1>1. CASE Start
    BY <1>0, <1>1 DEF Start, RepairInv, RepairedBeforeMount, Resizing, Replacing
<1>2. CASE pc' = "off"
    BY <1>2 DEF RepairInv, RepairedBeforeMount, Resizing, Replacing
<1>3. CASE Check
    <2>1. \A p \in Part : Settled(p)
        <3>1. line > Len(Fstab) /\ \A i \in 1 .. Len(Fstab) : Settled(Fstab[i])
            BY <1>0, <1>3 DEF Check, RepairInv, PlaceOK
        <3> QED
            BY <3>1, PartAssumption
    <2>2. pc' = "mountall" /\ missed' = missed \cup (Part \ nodes)
          /\ UNCHANGED <<size, nodes, fstype, skip>>
        BY <1>3 DEF Check
    <2>3. \A p \in Part : fstype[p] \in {"ext", "fat", "ntfs"}
        BY <1>0, PartAssumption DEF DiskOK
    <2>4. ASSUME NEW p \in Mountable' \ (missed' \cup {Root}), dirty'[p]
          PROVE  skip /\ fstype[p] = "ext"
        <3>1. p \in Part /\ p \in nodes /\ p \notin missed /\ p # Root /\ size[p] # "none" /\ dirty[p]
            BY <1>0, <1>3, <2>2, <2>4 DEF Mountable, RamOK, Check, Repaired
        <3>2. fstype[p] = "ext"
            BY <2>1, <2>3, <3>1 DEF Settled
        <3>3. p \in Checked
            BY <3>1, <3>2 DEF Checked
        <3> QED
            BY <1>3, <2>4, <3>1, <3>2, <3>3 DEF Check, Repaired
    <2> QED
        BY <1>0, <2>2, <2>4 DEF RepairInv, RepairedBeforeMount, Resizing, Replacing, RamOK
<1>4. CASE pc = "mountall" /\ pc' = "mountall"
    <2>1. UNCHANGED <<size, dirty, missed, fstype, skip>> /\ nodes \subseteq nodes'
        BY <1>4 DEF Next, Script, ResizeExt, ResizeFat, Start, StartRecovery, Resized,
        UnknownDevice, NoFileSystem, AlreadyResized, FirstBoot, MountTemp, Grow, Backup, Mkfs,
        FormatDone, Remount, Restore, SetLabel, FatLarge, FatEmpty, FatFormatDone, Fatresize,
        Ntfs, Check, Mount, UdevAdd, Write, SetSkip, Reboot, PowerFail, Present, AtLine
    <2>2. nodes' \subseteq Part
        BY NextRam DEF RamOK
    <2>3. \A p \in Part : p \in nodes \/ p \in missed
        BY <1>4 DEF RepairInv
    <2>4. (Mountable \ (missed \cup {Root}))' \subseteq Mountable \ (missed \cup {Root})
        BY <2>1, <2>2, <2>3 DEF Mountable
    <2> QED
        BY <1>4, <2>1, <2>3, <2>4 DEF RepairInv, RepairedBeforeMount, Resizing, Replacing
<1>5. CASE pc \in Resizing \cup {"check"} /\ pc' \in Resizing \cup {"check"} /\ line' = line
    <2>1. \A i \in 1 .. Len(Fstab) : i < line => Settled(Fstab[i])'
        BY <1>0, <1>5, SettledStays DEF RepairInv, Resizing, Replacing
    <2>2. pc' = "check" => line > Len(Fstab)
        <3>1. CASE pc = "check"
            BY <1>5, <3>1 DEF RepairInv
        <3>2. CASE pc # "check" /\ pc' = "check"
            <4>1. Resized
                BY <3>2 DEF Next, Script, ResizeExt, ResizeFat, Start, StartRecovery,
                UnknownDevice, NoFileSystem, AlreadyResized, FirstBoot, MountTemp, Grow, Backup,
                Mkfs, FormatDone, Remount, Restore, SetLabel, FatLarge, FatEmpty,
                FatFormatDone, Fatresize, Ntfs, Check, Mount, UdevAdd, Write, SetSkip, Reboot,
                PowerFail, NextLine
            <4> QED
                BY <4>1 DEF Resized
        <3> QED
            BY <3>1, <3>2
    <2> QED
        BY <1>5, <2>1, <2>2 DEF RepairInv, RepairedBeforeMount, Resizing, Replacing
<1>6. CASE pc # "off" /\ line' # line
    <2>1. Cur \in Part /\ line \in DOMAIN Fstab /\ pc \in Resizing
        BY <1>6, CurInPart, LineInFstab, TypeParts DEF Next, Script, ResizeExt, ResizeFat, Start,
        StartRecovery, Resized, UnknownDevice, NoFileSystem, AlreadyResized, FirstBoot,
        MountTemp, Grow, Backup, Mkfs, FormatDone, Remount, Restore, SetLabel, FatLarge,
        FatEmpty, FatFormatDone, Fatresize, Ntfs, Check, Mount, UdevAdd, Write, SetSkip, Reboot,
        PowerFail, PlaceOK, Present, AtLine, Resizing, Replacing
    <2>2. pc' = "loop" /\ line' = line + 1
        <3>1. PICK p \in Part : p = Cur
            BY <2>1
        <3> QED
            BY <1>6, <2>1, <3>1, SettledNow DEF NextLine
    <2>3. \A i \in 1 .. Len(Fstab) : i = line => Settled(Fstab[i])'
        <3> SUFFICES ASSUME NEW i \in 1 .. Len(Fstab), i = line
                     PROVE  Settled(Fstab[i])'
            OBVIOUS
        <3>1. Fstab[i] \in Part /\ Fstab[i] = Cur
            BY <1>0 DEF Cur
        <3> QED
            BY <1>6, <3>1, SettledNow
    <2>4. \A i \in 1 .. Len(Fstab) : i < line => Settled(Fstab[i])'
        BY <1>0, <2>1, <2>2, SettledStays DEF RepairInv
    <2>5. \A i \in 1 .. Len(Fstab) : i < line' => Settled(Fstab[i])'
        BY <1>0, <2>2, <2>3, <2>4 DEF PlaceOK
    <2> QED
        BY <2>2, <2>5 DEF RepairInv, RepairedBeforeMount, Resizing, Replacing
<1>7. CASE pc' \in {"off", "up"}
    BY <1>7 DEF RepairInv, RepairedBeforeMount, Resizing, Replacing
<1>8. \/ Start \/ Check \/ pc' \in {"off", "up"} \/ (pc # "off" /\ line' # line)
      \/ (pc = "mountall" /\ pc' = "mountall")
      \/ (pc \in Resizing \cup {"check"} /\ pc' \in Resizing \cup {"check"} /\ line' = line)
    BY <1>0 DEF PlaceOK, Next, Script, ResizeExt, ResizeFat, StartRecovery, Resized,
    UnknownDevice, NoFileSystem, AlreadyResized, FirstBoot, MountTemp, Grow, Backup, Mkfs,
    FormatDone, Remount, Restore, SetLabel, FatLarge, FatEmpty, FatFormatDone, Fatresize, Ntfs,
    Mount, UdevAdd, Write, SetSkip, Reboot, PowerFail, Resizing, Replacing, Steps, Present,
    AtLine, NextLine
<1> QED
    BY <1>1, <1>2, <1>3, <1>4, <1>5, <1>6, <1>7, <1>8

\* The comment in checkall is right: whatever mountall mounts has been repaired, by one
\* of the two passes, unless its node was late or fsck was switched off.
THEOREM RepairedThm == Spec => []RepairedBeforeMount
<1>1. Init => ExtInv /\ RepairInv
    BY DEF Init, ExtInv, RepairInv, RepairedBeforeMount, Resizing, Replacing
<1>2. RepairInv => RepairedBeforeMount
    BY DEF RepairInv
<1> QED
    BY <1>1, <1>2, NextExt, NextRepair, TypeCorrect, PTL DEF Spec

=============================================================================
