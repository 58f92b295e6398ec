----------------------------- MODULE JpegBuffers -----------------------------
(***************************************************************************)
(* rkjpeg: who owns the memory of the decoder.  One decoder object         *)
(* (Rk_JpegDecoder) is initialised, given pictures and released.  Its      *)
(* buffers are dumb buffers of the DRM device: a handle, a descriptor that *)
(* is given to the hardware, and a mapping.  The kernel hands out the      *)
(* lowest free descriptor, handle and address again, so that a number kept *)
(* after its release may come to mean something else: a descriptor of the  *)
(* caller, who opens files of its own between the calls, or another        *)
(* buffer.  Every allocation may fail.  What is decoded is the subject of  *)
(* JpegDecode and JpegHeaders.                                             *)
(***************************************************************************)
EXTENDS Integers, FiniteSets, FiniteSetsExt

CONSTANTS Objects,     \* bound: buffers of the device in use at one time
          MaxNumber,   \* bound: descriptors, handles and addresses
          MaxCalls,    \* bound: pictures submitted
          MaxFailures, \* bound: operations of the kernel that fail
          MaxFiles,    \* bound: files the caller opens
          NULL         \* no object, no mapping

ASSUME JpegBuffersAssumption ==
  /\ IsFiniteSet(Objects) /\ Objects \intersect {"std", "caller", "dri", "vpu"} = {}
  /\ NULL \notin Objects \union {"std", "caller", "dri", "vpu"} /\ NULL \notin Nat
  /\ {MaxNumber, MaxCalls, MaxFailures, MaxFiles} \subseteq Nat /\ MaxNumber >= 3

Fds     == 0 .. MaxNumber
Numbers == 1 .. MaxNumber   \* handles and, in the order they are given, addresses
\* What a descriptor stands for.
Opened  == Objects \union {"std", "caller", "dri", "vpu"}

VARIABLES stage,
          fds, hnds, maps,           \* the tables of the kernel
          ctx,                       \* the allocator is open
          streamMem, streamSize,     \* of the object: the stream, its size
          pictureMem, out_phyaddr,   \* the picture, the caller's own memory for it
          pTableBase, outLumaBuffer, \* of the instance
          socket, allocated,         \* the instance: 0 when there is none
          scanRead,                  \* headerReady: a scan was read and not finished
          size,                      \* the size of the picture submitted
          calls, failures, files,    \* how many so far
          owned,                     \* did this call allocate its picture?
          faults                     \* what has gone wrong, for the properties

tables   == <<fds, hnds, maps>>
object   == <<streamMem, streamSize, pictureMem, out_phyaddr>>
instance == <<pTableBase, outLumaBuffer, socket, allocated, scanRead>>
counts   == <<calls, failures, files>>
bufferVars == <<stage, tables, ctx, object, instance, size, counts, owned, faults>>

\* MppBufferInfo: the mapping (vir_addr), the descriptor (phy_addr) and the
\* handle (hnd), with the object it was allocated for.
Buffer  == [vir : {NULL} \union Numbers, fd : Fds, hnd : {0} \union Numbers,
            of : {NULL} \union Objects]
NoBuffer == [vir |-> NULL, fd |-> 0, hnd |-> 0, of |-> NULL]

K == [fds |-> fds, hnds |-> hnds, maps |-> maps]
KernelIs(k) == fds' = k.fds /\ hnds' = k.hnds /\ maps' = k.maps

-----------------------------------------------------------------------------
\* The kernel.

Lowest(f, free) == Min({n \in DOMAIN f : f[n] = free})
FullTable(f, free) == \A n \in DOMAIN f : f[n] # free
HasRoom(k) == /\ ~FullTable(k.fds, NULL) /\ ~FullTable(k.hnds, NULL) /\ ~FullTable(k.maps, NULL)
              /\ \E o \in Objects : o \notin {k.fds[n] : n \in Fds}
                                      \union {k.hnds[n] : n \in Numbers}
                                      \union {k.maps[n] : n \in Numbers}
Fresh(k) == CHOOSE o \in Objects : o \notin {k.fds[n] : n \in Fds}
                                     \union {k.hnds[n] : n \in Numbers}
                                     \union {k.maps[n] : n \in Numbers}
OpenFd(k, what) == [k EXCEPT !.fds[Lowest(k.fds, NULL)] = what]
CloseFd(k, n)   == [k EXCEPT !.fds[n] = NULL]

-----------------------------------------------------------------------------
\* The allocator.  Each operation gives the tables, the buffer and whether it
\* succeeded; how is the outcome of its ioctl.

Outcomes == {"ok", "no buffer", "no descriptor"}

\* os_allocator_drm_alloc
Alloc(k, b, how) ==
  LET o == Fresh(k)  h == Lowest(k.hnds, NULL)  n == Lowest(k.fds, NULL)
      k1 == [k EXCEPT !.hnds[h] = o] IN
  CASE how = "no buffer" \/ ~ctx -> [k |-> k, b |-> b, ok |-> FALSE]
    [] how = "no descriptor" /\ ctx -> [k |-> k1, b |-> [b EXCEPT !.hnd = h], ok |-> FALSE]
    [] how = "ok" /\ ctx ->
         [k |-> OpenFd(k1, o), b |-> [vir |-> NULL, fd |-> n, hnd |-> h, of |-> o], ok |-> TRUE]

\* os_allocator_drm_mmap
Mappable(k, b) == ctx /\ b.hnd # 0 /\ k.hnds[b.hnd] # NULL
Mmap(k, b, works) ==
  IF ctx /\ b.vir # NULL THEN [k |-> k, b |-> b, ok |-> TRUE]
  ELSE IF works /\ Mappable(k, b)
  THEN LET a == Lowest(k.maps, NULL) IN
       [k |-> [k EXCEPT !.maps[a] = k.hnds[b.hnd]], b |-> [b EXCEPT !.vir = a], ok |-> TRUE]
  ELSE [k |-> k, b |-> b, ok |-> FALSE]

\* os_allocator_drm_free
Free(k, b) ==
  IF ~ctx THEN [k |-> k, b |-> b]
  ELSE [k |-> [CloseFd(k, b.fd) EXCEPT
                 !.maps = IF b.vir = NULL THEN @ ELSE [@ EXCEPT ![b.vir] = NULL],
                 !.hnds = IF b.hnd = 0 THEN @ ELSE [@ EXCEPT ![b.hnd] = NULL]],
        b |-> [b EXCEPT !.vir = NULL, !.of = NULL]]

\* One allocation and its mapping.
Try(k, b, how, works) ==
  LET a == Alloc(k, b, how)  m == Mmap(a.k, a.b, works) IN
  [k |-> m.k, b |-> m.b, allocated |-> a.ok, mapped |-> m.ok]

\* Only so many operations fail.
Fails(how, works) == IF how = "ok" /\ works THEN 0 ELSE 1
Budget(how, works) ==
  /\ failures' = failures + Fails(how, works) /\ failures' <= MaxFailures
  /\ HasRoom(K)
\* One half of an allocation without the other: a handle that is forgotten, no
\* mapping, or a mapping of what the handle of an earlier buffer now stands for.
Half(t, how) == IF how = "no descriptor" \/ t.allocated # t.mapped THEN {"half"} ELSE {}

\* A release of numbers that no longer are this buffer's.
Stray(k, b) ==
  IF ctx /\ \/ k.fds[b.fd] # NULL /\ (b.of = NULL \/ k.fds[b.fd] # b.of)
            \/ b.hnd # 0 /\ k.hnds[b.hnd] # NULL /\ (b.of = NULL \/ k.hnds[b.hnd] # b.of)
            \/ b.vir # NULL /\ k.maps[b.vir] # NULL /\ (b.of = NULL \/ k.maps[b.vir] # b.of)
  THEN {"stray"} ELSE {}

-----------------------------------------------------------------------------
\* The object is constructed and its caller has standard input and output.
BuffersInit ==
  /\ stage = "new"
  /\ fds = [n \in Fds |-> IF n \in 0 .. 2 THEN "std" ELSE NULL]
  /\ hnds = [n \in Numbers |-> NULL] /\ maps = [n \in Numbers |-> NULL]
  /\ ctx = FALSE
  /\ streamMem = NoBuffer /\ streamSize = "small" /\ pictureMem = NoBuffer /\ out_phyaddr = 0
  /\ pTableBase = NoBuffer /\ outLumaBuffer = NoBuffer /\ socket = 0 /\ allocated = FALSE
  /\ scanRead = FALSE
  /\ size = "small"
  /\ calls = 0 /\ failures = 0 /\ files = 0
  /\ owned = FALSE /\ faults = {}

\* os_allocator_drm_open.
OpenAllocator ==
  /\ stage = "new"
  /\ KernelIs(OpenFd(K, "dri")) /\ ctx' = TRUE
  /\ stage' = "init"
  /\ UNCHANGED <<object, instance, size, counts, owned, faults>>
OpenFails ==
  /\ stage = "new" /\ failures < MaxFailures
  /\ failures' = failures + 1
  /\ stage' = "init"
  /\ UNCHANGED <<tables, ctx, object, instance, size, calls, files, owned, faults>>

\* pv_rkJpegdecoder_init.  That the mapping failed is not seen, that the
\* allocation did is returned; jpegdemo goes on all the same.
InitStream(how, works) ==
  /\ stage = "init" /\ Budget(how, works)
  /\ LET t == Try(K, streamMem, how, works) IN
     KernelIs(t.k) /\ streamMem' = t.b /\ faults' = faults \union Half(t, how)
  /\ stage' = "idle"
  /\ UNCHANGED <<ctx, streamSize, pictureMem, out_phyaddr, instance, size, calls, files, owned>>

\* Between two calls the caller opens a file.
CallerOpens ==
  /\ stage = "idle" /\ files < MaxFiles /\ ~FullTable(fds, NULL)
  /\ files' = files + 1
  /\ KernelIs(OpenFd(K, "caller"))
  /\ UNCHANGED <<stage, ctx, object, instance, size, calls, failures, owned, faults>>

-----------------------------------------------------------------------------
\* pv_rkJpegdecoder_oneframe

\* A picture of some size: "none" is too short to be one, "big" does not fit
\* the stream buffer.  The caller may give memory of its own for the result.
SubmitPicture(s, f) ==
  /\ stage = "idle" /\ calls < MaxCalls
  /\ f = 0 \/ fds[f] = "caller"
  /\ calls' = calls + 1 /\ size' = s /\ out_phyaddr' = f /\ owned' = FALSE
  /\ stage' = IF s = "none" THEN "end" ELSE IF socket = 0 THEN "open" ELSE "stream"
  /\ UNCHANGED <<tables, ctx, streamMem, streamSize, pictureMem, instance, failures, files,
                 faults>>

\* JpegDecInit and VPUClientInit.  A socket of 0 is taken for a failure.
OpenInstance ==
  /\ stage = "open" /\ ~FullTable(fds, NULL)
  /\ KernelIs(OpenFd(K, "vpu"))
  /\ LET n == Lowest(fds, NULL) IN
     IF n = 0 THEN stage' = "idle" /\ faults' = faults \union {"lost"} /\ UNCHANGED socket
     ELSE stage' = "stream" /\ socket' = n /\ UNCHANGED faults
  /\ scanRead' = FALSE
  /\ UNCHANGED <<ctx, object, pTableBase, outLumaBuffer, allocated, size, counts, owned>>
\* The device cannot be opened, or there is no memory for the instance; or
\* the ioctl fails, and the descriptor is forgotten.
InstanceFails ==
  /\ stage = "open" /\ failures < MaxFailures
  /\ failures' = failures + 1
  /\ \/ UNCHANGED <<tables, faults>>
     \/ ~FullTable(fds, NULL) /\ KernelIs(OpenFd(K, "vpu")) /\ faults' = faults \union {"lost"}
  /\ stage' = "idle"
  /\ UNCHANGED <<ctx, object, instance, size, calls, files, owned>>

\* A larger stream buffer takes the place of the old one.  Only the result
\* of the mapping counts.
GrowStream(how, works) ==
  /\ stage = "stream" /\ size = "big" /\ streamSize = "small" /\ Budget(how, works)
  /\ LET f == Free(K, streamMem)  t == Try(f.k, f.b, how, works) IN
     /\ KernelIs(t.k) /\ streamMem' = t.b
     /\ IF t.mapped THEN streamSize' = "big" /\ stage' = "copy"
        ELSE UNCHANGED streamSize /\ stage' = "end"
     /\ faults' = faults \union Half(t, how) \union Stray(K, streamMem)
  /\ UNCHANGED <<ctx, pictureMem, out_phyaddr, instance, size, calls, files, owned>>
KeepStream ==
  /\ stage = "stream" /\ ~(size = "big" /\ streamSize = "small")
  /\ stage' = "copy"
  /\ UNCHANGED <<tables, ctx, object, instance, size, counts, owned, faults>>

\* The picture is copied to the stream buffer; without a mapping that is the
\* end of the process.
CopyStream ==
  /\ stage = "copy"
  /\ stage' = IF streamMem.vir = NULL THEN "crashed" ELSE "info"
  /\ UNCHANGED <<tables, ctx, object, instance, size, counts, owned, faults>>

\* JpegDecGetImageInfo takes the picture or does not.
GetImageInfo ==
  /\ stage = "info"
  /\ stage' \in {"picture", "end"}
  /\ UNCHANGED <<tables, ctx, object, instance, size, counts, owned, faults>>

\* The memory of the result: the caller's, or a buffer of the device.  A
\* failed attempt, which is one without a mapping, is repeated; after 256 of
\* them the call returns at once.
UseGiven_kept ==
  /\ stage = "picture" /\ out_phyaddr # 0
  /\ stage' = "decode"
  /\ UNCHANGED <<tables, ctx, object, instance, size, counts, owned, faults>>
UseGiven ==
  /\ stage = "picture" /\ out_phyaddr # 0
  /\ pictureMem' = [pictureMem EXCEPT !.fd = out_phyaddr, !.of = NULL]
  /\ stage' = "decode"
  /\ UNCHANGED <<tables, ctx, streamMem, streamSize, out_phyaddr, instance, size, counts, owned,
                 faults>>
AllocPicture(how, works) ==
  /\ stage = "picture" /\ out_phyaddr = 0 /\ Budget(how, works)
  /\ LET t == Try(K, [pictureMem EXCEPT !.of = NULL], how, works) IN
     /\ KernelIs(t.k) /\ pictureMem' = t.b
     /\ IF t.mapped THEN stage' = "decode" /\ owned' = TRUE
        ELSE stage' \in {"picture", "idle"} /\ UNCHANGED owned
     /\ faults' = faults \union Half(t, how)
  /\ UNCHANGED <<ctx, streamMem, streamSize, out_phyaddr, instance, size, calls, files>>

\* JpegDecDecodeScan, JpegDecAllocateResidual: the memory of the tables comes
\* with the first scan of the instance, where a failed mapping is not seen;
\* every scan copies pictureMem, numbers and all, but the copy owns nothing.
Copy(b) == [b EXCEPT !.of = NULL]
FirstScan(how, works) ==
  /\ stage = "decode" /\ ~allocated /\ Budget(how, works)
  /\ LET t == Try(K, pTableBase, how, works) IN
     /\ KernelIs(t.k) /\ pTableBase' = t.b
     /\ IF ~t.allocated THEN stage' = "end" /\ UNCHANGED <<outLumaBuffer, allocated>>
        ELSE /\ outLumaBuffer' = Copy(pictureMem) /\ allocated' = TRUE
             /\ stage' = IF t.b.vir = NULL THEN "crashed" ELSE "hw"
     /\ faults' = faults \union Half(t, how)
  /\ scanRead' = TRUE
  /\ UNCHANGED <<ctx, object, socket, size, calls, files, owned>>
NextScan ==
  /\ stage = "decode" /\ allocated
  /\ outLumaBuffer' = Copy(pictureMem) /\ scanRead' = TRUE
  /\ stage' = "hw"
  /\ UNCHANGED <<tables, ctx, object, pTableBase, socket, allocated, size, counts, owned, faults>>
\* A scan read before, of this picture or left over from another: the hardware
\* may be started without a copy and without an allocation (whether it is depends
\* on flags of JpegDecode).  Tables that were never allocated are written through
\* no mapping.
GoOn ==
  /\ stage = "decode" /\ scanRead
  /\ stage' = IF pTableBase.vir = NULL THEN "crashed" ELSE "hw"
  /\ UNCHANGED <<tables, ctx, object, instance, size, counts, owned, faults>>
\* A header the decoder refuses.
Refused ==
  /\ stage = "decode"
  /\ stage' = "end"
  /\ UNCHANGED <<tables, ctx, object, instance, size, counts, owned, faults>>
\* The hardware has run: another scan or slice, the frame, or an error, some of
\* which leave scanRead set.
HwDone ==
  /\ stage = "hw"
  /\ stage' \in {"decode", "end"} /\ scanRead' \in {FALSE, scanRead}
  /\ UNCHANGED <<tables, ctx, object, pTableBase, outLumaBuffer, socket, allocated, size, counts,
                 owned, faults>>

\* j_end frees the picture, also one that this call did not allocate.
End ==
  /\ stage = "end"
  /\ IF out_phyaddr = 0
     THEN /\ KernelIs(Free(K, pictureMem).k) /\ pictureMem' = Free(K, pictureMem).b
          /\ faults' = faults \union IF owned THEN {} ELSE Stray(K, pictureMem)
     ELSE UNCHANGED <<tables, pictureMem, faults>>
  /\ stage' = "idle"
  /\ UNCHANGED <<ctx, streamMem, streamSize, out_phyaddr, instance, size, counts, owned>>

-----------------------------------------------------------------------------
\* pv_rkJpegdecoder_deinit, in its order.

FreeStream ==
  /\ stage = "idle"
  /\ IF streamMem.vir # NULL
     THEN /\ KernelIs(Free(K, streamMem).k) /\ streamMem' = Free(K, streamMem).b
          /\ faults' = faults \union Stray(K, streamMem)
     ELSE UNCHANGED <<tables, streamMem, faults>>
  /\ stage' = "free picture"
  /\ UNCHANGED <<ctx, streamSize, pictureMem, out_phyaddr, instance, size, counts, owned>>
FreePicture ==
  /\ stage = "free picture"
  /\ IF pictureMem.vir # NULL
     THEN /\ KernelIs(Free(K, pictureMem).k) /\ pictureMem' = Free(K, pictureMem).b
          /\ faults' = faults \union Stray(K, pictureMem)
     ELSE UNCHANGED <<tables, pictureMem, faults>>
  /\ stage' = IF socket # 0 THEN "free tables" ELSE "close"
  /\ UNCHANGED <<ctx, streamMem, streamSize, out_phyaddr, instance, size, counts, owned>>

\* JpegDecRelease: the tables, the copy of the last picture, the instance.
FreeTables_never ==
  /\ stage = "free tables"
  /\ stage' = "free copy"
  /\ UNCHANGED <<tables, ctx, object, instance, size, counts, owned, faults>>
FreeTables ==
  /\ stage = "free tables"
  /\ IF pTableBase.vir # NULL
     THEN /\ KernelIs(Free(K, pTableBase).k) /\ pTableBase' = Free(K, pTableBase).b
          /\ faults' = faults \union Stray(K, pTableBase)
     ELSE UNCHANGED <<tables, pTableBase, faults>>
  /\ stage' = "free copy"
  /\ UNCHANGED <<ctx, object, outLumaBuffer, socket, allocated, scanRead, size, counts, owned>>
FreeCopy ==
  /\ stage = "free copy"
  /\ IF outLumaBuffer.vir # NULL
     THEN /\ KernelIs(Free(K, outLumaBuffer).k) /\ outLumaBuffer' = Free(K, outLumaBuffer).b
          /\ faults' = faults \union Stray(K, outLumaBuffer)
     ELSE UNCHANGED <<tables, outLumaBuffer, faults>>
  /\ stage' = "free instance"
  /\ UNCHANGED <<ctx, object, pTableBase, socket, allocated, scanRead, size, counts, owned>>
FreeInstance ==
  /\ stage = "free instance"
  /\ KernelIs(CloseFd(K, socket)) /\ socket' = 0
  /\ stage' = "close"
  /\ UNCHANGED <<ctx, object, pTableBase, outLumaBuffer, allocated, scanRead, size, counts,
                 owned, faults>>

\* os_allocator_drm_close
CloseAllocator ==
  /\ stage = "close"
  /\ IF ctx THEN KernelIs(CloseFd(K, CHOOSE n \in Fds : fds[n] = "dri")) ELSE UNCHANGED tables
  /\ stage' = "closed"
  /\ UNCHANGED <<ctx, object, instance, size, counts, owned, faults>>

BuffersNext ==
  \/ OpenAllocator \/ OpenFails \/ CallerOpens
  \/ \E how \in Outcomes, works \in BOOLEAN : InitStream(how, works)
  \/ \E s \in {"none", "small", "big"}, f \in Fds : SubmitPicture(s, f)
  \/ OpenInstance \/ InstanceFails
  \/ \E how \in Outcomes, works \in BOOLEAN : GrowStream(how, works)
  \/ KeepStream \/ CopyStream \/ GetImageInfo \/ UseGiven
  \/ \E how \in Outcomes, works \in BOOLEAN : AllocPicture(how, works)
  \/ \E how \in Outcomes, works \in BOOLEAN : FirstScan(how, works)
  \/ NextScan \/ GoOn \/ Refused \/ HwDone \/ End
  \/ FreeStream \/ FreePicture \/ FreeTables \/ FreeCopy \/ FreeInstance \/ CloseAllocator

BuffersSpec == BuffersInit /\ [][BuffersNext]_bufferVars

-----------------------------------------------------------------------------
\* Properties.

BuffersTypeOK ==
  /\ stage \in {"new", "init", "idle", "open", "stream", "copy", "info", "picture", "decode", "hw",
             "end", "crashed", "free picture", "free tables", "free copy", "free instance",
             "close", "closed"}
  /\ fds \in [Fds -> Opened \union {NULL}]
  /\ hnds \in [Numbers -> Objects \union {NULL}] /\ maps \in [Numbers -> Objects \union {NULL}]
  /\ ctx \in BOOLEAN
  /\ {streamMem, pictureMem, pTableBase, outLumaBuffer} \subseteq Buffer
  /\ streamSize \in {"small", "big"} /\ size \in {"none", "small", "big"}
  /\ out_phyaddr \in Fds /\ socket \in Fds /\ {allocated, scanRead, owned} \subseteq BOOLEAN
  /\ calls \in 0 .. MaxCalls /\ failures \in 0 .. MaxFailures /\ files \in 0 .. MaxFiles
  /\ faults \subseteq {"half", "stray", "lost"}

\* What a buffer says it is, it is.
Whole(b) == /\ b.of # NULL /\ fds[b.fd] = b.of
            /\ b.hnd # 0 /\ hnds[b.hnd] = b.of /\ b.vir # NULL /\ maps[b.vir] = b.of

\* The hardware works on the stream, the result and the tables and on nothing
\* else, after whatever has failed, been freed and been allocated again: each
\* descriptor it is given is one of the buffer it stands for, of which the
\* processor has the same mapping.  Not so after an allocation that failed
\* half way, whose result is not looked at, or a stray release.
OwnBuffersOnly ==
  stage = "hw" /\ faults \intersect {"half", "stray"} = {} =>
    /\ Whole(streamMem) /\ Whole(pTableBase) /\ streamMem.of # pTableBase.of
    /\ IF out_phyaddr # 0 THEN pictureMem.fd = out_phyaddr /\ fds[out_phyaddr] = "caller"
       ELSE Whole(pictureMem) /\ pictureMem.of \notin {streamMem.of, pTableBase.of}
    /\ fds[socket] = "vpu"

\* After the release nothing of the decoder is left in the tables of the kernel,
\* however often a release hit numbers that had come to mean something else
\* meanwhile (j_end without a picture, the copy of the picture in JpegDecRelease):
\* such a release takes too much and never leaves anything.  Not so after an
\* allocation that failed half way, whose buffer nobody releases, or when the
\* descriptor of the device was forgotten (VPUClientInit).
NothingLeft ==
  stage = "closed" /\ faults \subseteq {"stray"} =>
    /\ \A n \in Fds : fds[n] \in {NULL, "std", "caller"}
    /\ \A n \in Numbers : hnds[n] = NULL /\ maps[n] = NULL
=============================================================================
