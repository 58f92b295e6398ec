------------------------------ MODULE MountAll ------------------------------
(***************************************************************************)
(* partinit/S21mountall.sh: at every boot it resizes the file systems of   *)
(* /etc/fstab to their partitions, checks them and mounts them.  An ext    *)
(* file system that cannot be resized in place is saved to /tmp, a tmpfs,  *)
(* formatted and restored; the volume label records that it was done.      *)
(* Tools can fail, the power can go at any step, and udev may be late with *)
(* a device node.  Names follow the script's functions.                    *)
(***************************************************************************)
EXTENDS Naturals, Sequences

CONSTANTS
    Part,       \* partitions with a line in fstab
    Root,       \* the one mounted on /
    Fstab,      \* the lines of fstab that name block devices, in order
    FsTypes,    \* the types the lines may give, as the build chooses them
    File,       \* what can be kept on a partition
    MaxCycles   \* bound on reboots and power failures

ASSUME PartAssumption ==
    /\ Root \in Part
    /\ Fstab \in Seq(Part)
    /\ \A p \in Part : \E i \in 1 .. Len(Fstab) : Fstab[i] = p
    /\ FsTypes \subseteq {T \in [Part -> {"ext", "fat", "ntfs"}] : T[Root] = "ext"}
    /\ MaxCycles \in Nat

VARIABLES
    fstype,     \* partition |-> its type in fstab, which nothing changes
    size,       \* partition |-> its file system: none, small or full
    label,      \* partition |-> the volume name is the partition's name
    files,      \* partition |-> files on it
    put,        \* partition |-> files flashed or written and synced, ever
    dirty,      \* partition |-> not unmounted cleanly nor checked since
    hurt,       \* partitions whose replacement met a failing tool or a power cut
    archive,    \* partition |-> files in /tmp/<name>.tar
    temp,       \* the current partition is mounted on TEMP
    mounted,    \* partitions on their mount points
    nodes,      \* partitions whose device node exists
    missed,     \* partitions whose node was not there when it was looked for
    skip,       \* /var/.skip_fsck exists
    tried,      \* partitions fatresize -s was run on
    pc, line,   \* where the script is, and the line of fstab it is at
    cycles

disk == <<size, label, files, put, dirty>>
ram == <<archive, temp, mounted, nodes, missed>>
vars == <<fstype, disk, ram, hurt, skip, tried, pc, line, cycles>>

Cur == Fstab[line]
At(step) == pc = step /\ pc' = step
Go(from, to) == pc = from /\ pc' = to

\* Steps in which the files of the current partition are only in /tmp or not
\* yet flushed: from the start of mkfs.ext2 to the umount after the restore.
Replacing == {"format", "remount", "restore", "flush"}
Resizing == {"loop", "mount", "grow", "backup", "mkfs", "label", "fatformat"} \cup Replacing
Steps == {"off", "check", "mountall", "up"} \cup Resizing

Init ==
    /\ fstype \in FsTypes
    /\ size \in [Part -> {"small", "full"}]
    /\ label = [p \in Part |-> FALSE]
    /\ files \in [Part -> SUBSET File]
    /\ put = files
    /\ dirty = [p \in Part |-> FALSE]
    /\ archive = [p \in Part |-> {}]
    /\ temp = FALSE
    /\ mounted = {}
    /\ nodes = {}
    /\ missed = {}
    /\ hurt = {}
    /\ skip = FALSE
    /\ tried = {}
    /\ pc = "off"
    /\ line = 1
    /\ cycles = 0

-----------------------------------------------------------------------------
(* Booting.  The kernel mounts the root; udev may have made only some of   *)
(* the device nodes when the script starts.                                *)

Start ==
    /\ Go("off", "loop")
    /\ line' = 1
    /\ mounted' = {Root}
    /\ \E N \in SUBSET Part : nodes' = N \cup {Root}
    /\ UNCHANGED <<fstype, disk, archive, temp, missed, hurt, skip, tried, cycles>>

\* Recovery runs from a ramfs: mountall is limited to proc, tmpfs and the like.
StartRecovery ==
    /\ Go("off", "up")
    /\ UNCHANGED <<fstype, disk, ram, hurt, skip, tried, line, cycles>>

UdevAdd(p) ==
    /\ pc # "off" /\ p \notin nodes
    /\ nodes' = nodes \cup {p}
    /\ UNCHANGED <<fstype, disk, archive, temp, mounted, missed, hurt, skip, tried, pc, line, cycles>>

-----------------------------------------------------------------------------
(* do_resize, for one line of fstab.                                       *)

NextLine == pc' = "loop" /\ line' = line + 1

\* No line is left: on to checkall.
Resized ==
    /\ Go("loop", "check")
    /\ line > Len(Fstab)
    /\ UNCHANGED <<fstype, disk, ram, hurt, skip, tried, line, cycles>>

AtLine(fs) == pc = "loop" /\ line <= Len(Fstab) /\ fstype[Cur] = fs

UnknownDevice ==
    /\ pc = "loop" /\ line <= Len(Fstab)
    /\ Cur \notin nodes
    /\ NextLine
    /\ missed' = missed \cup {Cur}
    /\ UNCHANGED <<fstype, disk, archive, temp, mounted, nodes, hurt, skip, tried, cycles>>

\* dumpe2fs, fsck.fat or ntfsresize find no file system.
NoFileSystem ==
    /\ pc = "loop" /\ line <= Len(Fstab)
    /\ Cur \in nodes /\ size[Cur] = "none"
    /\ NextLine
    /\ UNCHANGED <<fstype, disk, ram, hurt, skip, tried, cycles>>

Present(fs) == AtLine(fs) /\ Cur \in nodes /\ size[Cur] # "none"

(* resize_e2fs.                                                            *)

AlreadyResized ==
    /\ Present("ext") /\ label[Cur]
    /\ NextLine
    /\ UNCHANGED <<fstype, disk, ram, hurt, skip, tried, cycles>>

Repaired_notNtfs(S) == [p \in Part |-> dirty[p] /\ (p \notin S \/ fstype[p] = "ntfs")]
Repaired(S) == [p \in Part |-> dirty[p] /\ p \notin S]

\* e2fsck, unless it is mounted.
FirstBoot ==
    /\ Present("ext") /\ ~label[Cur]
    /\ pc' = "mount"
    /\ dirty' = Repaired({Cur} \ mounted)
    /\ UNCHANGED <<fstype, size, label, files, put, ram, hurt, skip, tried, line, cycles>>

\* The result of mount is not looked at.
MountTemp ==
    /\ Go("mount", "grow")
    /\ temp' \in BOOLEAN
    /\ UNCHANGED <<fstype, disk, archive, mounted, nodes, missed, hurt, skip, tried, line, cycles>>

\* resize2fs.  It has nothing to do for a file system that fills its partition.
FallsBack_never(p) == FALSE
FallsBack(p) == p # Root

Grow ==
    /\ pc = "grow"
    /\ \/ /\ size' = [size EXCEPT ![Cur] = "full"]
          /\ pc' = "label"
       \/ /\ size[Cur] # "full"
          /\ pc' = IF FallsBack(Cur) THEN "backup" ELSE "label"
          /\ UNCHANGED size
    /\ UNCHANGED <<fstype, label, files, put, dirty, ram, hurt, skip, tried, line, cycles>>

\* tar cvf and umount.  tar may fail, for want of memory in the first place, and
\* archives an empty directory when nothing is mounted on TEMP.
Archivable == IF temp THEN files[Cur] ELSE {}
HurtUnless(ok) == hurt' = IF ok THEN hurt ELSE hurt \cup {Cur}

Backup ==
    /\ Go("backup", "mkfs")
    /\ \E A \in SUBSET Archivable :
        /\ archive' = [archive EXCEPT ![Cur] = A]
        /\ HurtUnless(A = files[Cur])
    /\ temp' = FALSE
    /\ UNCHANGED <<fstype, disk, mounted, nodes, missed, skip, tried, line, cycles>>

\* mkfs.ext2 and mkfs.fat: nothing is there while they run.
Wiped ==
    /\ size' = [size EXCEPT ![Cur] = "none"]
    /\ label' = [label EXCEPT ![Cur] = FALSE]
    /\ files' = [files EXCEPT ![Cur] = {}]

Mkfs ==
    /\ pc = "mkfs"
    /\ \/ /\ pc' = "format"
          /\ Wiped
          /\ UNCHANGED hurt
       \/ /\ pc' = "remount"
          /\ HurtUnless(FALSE)
          /\ UNCHANGED <<size, label, files>>
    /\ UNCHANGED <<fstype, put, dirty, ram, skip, tried, line, cycles>>

Formatted ==
    /\ size' = [size EXCEPT ![Cur] = "full"]
    /\ dirty' = Repaired({Cur})

FormatDone ==
    /\ Go("format", "remount")
    /\ Formatted
    /\ UNCHANGED <<fstype, label, files, put, ram, hurt, skip, tried, line, cycles>>

Remount ==
    /\ Go("remount", "restore")
    /\ temp' \in BOOLEAN
    /\ HurtUnless(temp')
    /\ UNCHANGED <<fstype, disk, archive, mounted, nodes, missed, skip, tried, line, cycles>>

\* tar xvf -C /: into the directory TEMP of the tmpfs when nothing is mounted there.
Restore ==
    /\ Go("restore", "flush")
    /\ \E R \in SUBSET (IF temp THEN archive[Cur] ELSE {}) :
        /\ files' = [files EXCEPT ![Cur] = @ \cup R]
        /\ HurtUnless(R = archive[Cur])
    /\ UNCHANGED <<fstype, size, label, put, dirty, ram, skip, tried, line, cycles>>

\* umount and tune2fs, the second of which may fail.
SetLabel ==
    /\ pc \in {"label", "flush"}
    /\ NextLine
    /\ temp' = FALSE
    /\ \E done \in BOOLEAN : label' = [label EXCEPT ![Cur] = @ \/ done]
    /\ UNCHANGED <<fstype, size, files, put, dirty, archive, mounted, nodes, missed, hurt, skip, tried, cycles>>

(* resize_fat, after fsck.fat -vy.                                         *)

LargeEnough_less(p) == size[p] = "small"
LargeEnough(p) == size[p] = "full"
Empty_always(p) == TRUE
Empty(p) == files[p] = {}

FatLarge ==
    /\ Present("fat") /\ LargeEnough(Cur)
    /\ NextLine
    /\ dirty' = Repaired({Cur})
    /\ UNCHANGED <<fstype, size, label, files, put, ram, hurt, skip, tried, cycles>>

FatEmpty ==
    /\ Present("fat") /\ ~LargeEnough(Cur) /\ Empty(Cur)
    /\ pc' = "fatformat"
    /\ Wiped
    /\ dirty' = Repaired({Cur})
    /\ UNCHANGED <<fstype, put, ram, hurt, skip, tried, line, cycles>>

FatFormatDone ==
    /\ pc = "fatformat"
    /\ NextLine
    /\ Formatted
    /\ UNCHANGED <<fstype, label, files, put, ram, hurt, skip, tried, cycles>>

\* fatresize -h || echo "No fatresize" && return: both || and && are taken from the
\* left, and echo succeeds.
ReturnsEarly(present) == (present \/ TRUE)

\* resize_fatresize, for a file system of more than 256M and with fatresize installed.
Fatresize ==
    /\ Present("fat") /\ ~LargeEnough(Cur) /\ ~Empty(Cur)
    /\ NextLine
    /\ tried' = IF ReturnsEarly(TRUE) THEN tried ELSE tried \cup {Cur}
    /\ dirty' = Repaired({Cur})
    /\ UNCHANGED <<fstype, size, label, files, put, ram, hurt, skip, cycles>>

\* resize_ntfs: ntfsfix always, ntfsresize for want of 4M or more.
Ntfs ==
    /\ Present("ntfs")
    /\ NextLine
    /\ dirty' = Repaired({Cur})
    /\ \E s \in {size[Cur], "full"} : size' = [size EXCEPT ![Cur] = s]
    /\ UNCHANGED <<fstype, label, files, put, ram, hurt, skip, tried, cycles>>

-----------------------------------------------------------------------------
(* checkall and mountall.                                                  *)

\* fsck -ARy passes over the root, and does not count on the other types.
Checked == {p \in nodes \ {Root} : fstype[p] = "ext" /\ size[p] # "none"}

Check ==
    /\ Go("check", "mountall")
    /\ dirty' = IF skip THEN dirty ELSE Repaired(Checked)
    /\ missed' = missed \cup (Part \ nodes)
    /\ UNCHANGED <<fstype, size, label, files, put, archive, temp, mounted, nodes, hurt, skip, tried, line, cycles>>

Mountable == {p \in nodes : size[p] # "none"}

Mount ==
    /\ Go("mountall", "up")
    /\ \E M \in SUBSET Mountable : mounted' = mounted \cup M
    /\ UNCHANGED <<fstype, disk, archive, temp, nodes, missed, hurt, skip, tried, line, cycles>>

-----------------------------------------------------------------------------
(* The running system, and its end.                                        *)

Write(p, f) ==
    /\ At("up") /\ p \in mounted
    /\ files' = [files EXCEPT ![p] = @ \cup {f}]
    /\ put' = [put EXCEPT ![p] = @ \cup {f}]
    /\ UNCHANGED <<fstype, size, label, dirty, ram, hurt, skip, tried, line, cycles>>

SetSkip ==
    /\ At("up") /\ Root \in mounted
    /\ skip' = ~skip
    /\ UNCHANGED <<fstype, disk, ram, hurt, tried, line, cycles>>

RamLost ==
    /\ archive' = [p \in Part |-> {}]
    /\ temp' = FALSE
    /\ mounted' = {}
    /\ nodes' = {}
    /\ missed' = {}

Reboot ==
    /\ Go("up", "off")
    /\ cycles < MaxCycles /\ cycles' = cycles + 1
    /\ RamLost
    /\ UNCHANGED <<fstype, disk, hurt, skip, tried, line>>

InUse == mounted \cup (IF temp THEN {Cur} ELSE {})

\* What was restored and not flushed may be lost.
PowerFail ==
    /\ pc # "off" /\ pc' = "off"
    /\ cycles < MaxCycles /\ cycles' = cycles + 1
    /\ RamLost
    /\ dirty' = [p \in Part |-> dirty[p] \/ p \in InUse]
    /\ IF pc \in Replacing
       THEN /\ hurt' = hurt \cup {Cur}
            /\ \E F \in SUBSET files[Cur] : files' = [files EXCEPT ![Cur] = F]
       ELSE UNCHANGED <<hurt, files>>
    /\ UNCHANGED <<fstype, size, label, put, skip, tried, line>>

ResizeExt ==
    \/ AlreadyResized \/ FirstBoot \/ MountTemp \/ Grow
    \/ Backup \/ Mkfs \/ FormatDone \/ Remount \/ Restore \/ SetLabel
ResizeFat == FatLarge \/ FatEmpty \/ FatFormatDone \/ Fatresize
Script ==
    \/ Resized \/ UnknownDevice \/ NoFileSystem
    \/ ResizeExt \/ ResizeFat \/ Ntfs \/ Check \/ Mount

Next ==
    \/ Start \/ StartRecovery \/ Script
    \/ \E p \in Part : UdevAdd(p) \/ \E f \in File : Write(p, f)
    \/ SetSkip \/ Reboot \/ PowerFail

Spec == Init /\ [][Next]_vars

-----------------------------------------------------------------------------
(* Properties.                                                             *)

\* Every variable has its type, and the script's place in fstab agrees with its
\* step: the steps on one line have a line, TEMP is in use and files are saved
\* only while that line's partition is being handled (do_resize).
TypeOK ==
    /\ fstype \in FsTypes
    /\ size \in [Part -> {"none", "small", "full"}]
    /\ label \in [Part -> BOOLEAN]
    /\ files \in [Part -> SUBSET File]
    /\ put \in [Part -> SUBSET File]
    /\ dirty \in [Part -> BOOLEAN]
    /\ archive \in [Part -> SUBSET File]
    /\ temp \in BOOLEAN
    /\ mounted \in SUBSET Part
    /\ nodes \in SUBSET Part
    /\ missed \in SUBSET Part
    /\ hurt \in SUBSET Part
    /\ skip \in BOOLEAN
    /\ tried \in SUBSET Part
    /\ pc \in Steps
    /\ line \in 1 .. Len(Fstab) + 1
    /\ cycles \in 0 .. MaxCycles
    /\ pc \in Resizing \ {"loop"} => line \in DOMAIN Fstab
    /\ temp => pc \in {"grow", "backup", "restore", "label", "flush"}

\* A partition keeps all its files from boot to boot, through any number of power
\* failures and through the replacement of its file system, during which they are in
\* the archive; unless a tool failed, or the power, in that very replacement
\* (resize_e2fs, resize_fat).
FilesKept ==
    \A p \in Part \ hurt :
        \/ files[p] = put[p]
        \/ p = Cur /\ pc \in {"format", "remount", "restore"} /\ archive[p] = put[p]

\* The label commits the resize: a labelled partition fills its place, although the
\* label is written after a choice of paths with power failures between them
\* (resize_e2fs; the root is labelled whatever resize2fs says).
LabelledIsFull ==
    \A p \in Part \ (hurt \cup {Root}) : label[p] => size[p] = "full"

\* A file system that fills its partition is never formatted again: the power may fail
\* between mkfs and tune2fs, or tune2fs may fail, and the next boot then finds no label
\* (resize_e2fs, resize_fat, resize_ntfs).
FullStaysFull == [][\A p \in Part : size[p] = "full" => size'[p] = "full"]_size

\* What mountall mounts after an unclean shutdown has been repaired, vfat and ntfs by
\* resize_fat and resize_ntfs as the comment in checkall says, also when fsck is
\* skipped; except for the root and for a partition whose node came too late.
RepairedBeforeMount ==
    pc = "mountall" =>
        \A p \in Mountable \ (missed \cup {Root}) :
            dirty[p] => skip /\ fstype[p] = "ext"

\* "Try to resize with fatresize": after resizeall, each small file system with files
\* has been given to fatresize.  It never is (resize_fatresize).
FatTried ==
    pc = "check" =>
        \A p \in nodes \ missed :
            fstype[p] = "fat" /\ size[p] = "small" /\ ~Empty(p) => p \in tried
=============================================================================
