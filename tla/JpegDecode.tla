----------------------------- MODULE JpegDecode -----------------------------
(***************************************************************************)
(* rkjpeg: JpegDecDecode (jpegdecapi.c) and the functions that move its    *)
(* control, JpegDecGetImageInfo, JpegDecDecodeScan and                     *)
(* JpegDecNextScanHdrs, under the loop of pv_rkJpegdecoder_oneframe        *)
(* (pv_jpegdec_api.cpp), which gives one decoder instance picture after    *)
(* picture.                                                                *)
(*                                                                         *)
(* JpegDecDecode is a resumable parser: it reads markers up to a scan      *)
(* header, starts the hardware and waits for it, and may return in between *)
(* (a slice, an empty buffer).  What it must remember lives in flags of    *)
(* the instance, and nothing resets them between two pictures.             *)
(*                                                                         *)
(* A stream is a sequence of tokens.  A segment that only fills tables or  *)
(* is jumped over is "DQT"; "badDHT" is a Huffman segment and "badSOS" an  *)
(* interleaved scan header that is refused, for what it says or because    *)
(* the data ends in it; "SOS" is an interleaved scan header, "SOS1",       *)
(* "SOS2" and "SOS3" are those of one component; "ECS" is coded data;      *)
(* "FF" is a last byte 0xFF.  Frame headers are those of three components; *)
(* the ones GetImageInfo refuses for their size or sampling are "SOFx".    *)
(*                                                                         *)
(* Out of reach of the calls of oneframe, and left out: thumbnails, user   *)
(* memory, a buffer smaller than the stream, progressive decoding (refused *)
(* because the fuse register says so), and what follows the empty scan,    *)
(* whose stream buffer is never allocated.                                 *)
(***************************************************************************)
EXTENDS Naturals, Sequences

CONSTANTS Pictures,   \* the pictures a client may submit
          ColorConvs, \* the values of color_conv, TRUE in the constructor
          MaxPics     \* bound: pictures submitted in one behaviour

Components == 1 .. 3
ScanOf     == [t \in {"SOS1", "SOS2", "SOS3"} |->
                 IF t = "SOS1" THEN 1 ELSE IF t = "SOS2" THEN 2 ELSE 3]
ScanTokens == {"SOS", "badSOS"} \union DOMAIN ScanOf
Tokens     == {"SOI", "DQT", "DHT", "badDHT", "SOF0", "SOF2", "SOFx", "ECS", "EOI", "FF"}
                \union ScanTokens
Picture    == [toks : Seq(Tokens),  \* the stream
               big  : BOOLEAN,      \* more than JPEGDEC_MAX_PIXEL_AMOUNT: decoded in slices
               tol  : BOOLEAN]      \* its height and sampling excuse a hardware timeout

ASSUME JpegDecodeAssumption ==
  /\ Pictures \subseteq Picture
  /\ \A p \in Pictures :
       /\ Len(p.toks) > 0
       /\ \A i \in 1 .. Len(p.toks) : p.toks[i] = "FF" => i = Len(p.toks)
       /\ \A i, j \in 1 .. Len(p.toks) :
            p.toks[i] \in ScanTokens /\ p.toks[j] \in {"SOF0", "SOF2"} => j < i
  /\ ColorConvs \subseteq BOOLEAN /\ ColorConvs # {}
  /\ MaxPics \in Nat

OpTypes == {"BASELINE", "PROGRESSIVE", "NONINTERLEAVED"}
Rets    == {"FRAME_READY", "SLICE_READY", "STRM_PROCESSED", "SCAN_PROCESSED", "ERROR",
            "STRM_ERROR", "UNSUPPORTED", "SLICE_MODE_UNSUPPORTED", "INCREASE_INPUT_BUFFER",
            "HW_BUS_ERROR", "SYSTEM_ERROR", "NONE"}

VARIABLES pc,          \* where the call is
          pic,         \* the picture in the stream buffer
          pics,        \* how many were submitted
          pos,         \* stream.pCurrPos: the next token
          ret,         \* what the last call returned
          decoded,     \* JpegDecDecode was called for this picture
          colorConv,
          \* fields of the instance
          init, operationType, headerReady, imageReady,
          SliceReadyForPause, sliceHeight, inputBufferEmpty,
          nonInterleavedScanReady, components, pfNeeded, componentId,
          \* a local of JpegDecDecode
          endOfImage,
          \* what only the properties read
          fresh,       \* nothing of an earlier picture was left at submission
          job,         \* what the hardware works on: a scan token or "STALE"
          done,        \* the jobs it finished for this picture
          hwOk         \* it reported nothing but slices and ends of scans

call   == <<pic, pics, decoded, colorConv, fresh>>
flags  == <<headerReady, imageReady>>
slices == <<SliceReadyForPause, sliceHeight>>
scans  == <<nonInterleavedScanReady, components, pfNeeded, componentId>>
hist   == <<job, done, hwOk>>
vars   == <<pc, pos, ret, init, operationType, inputBufferEmpty, endOfImage,
            call, flags, slices, scans, hist>>

Jobs == ScanTokens \union {"STALE"}

TypeOK ==
  /\ pc \in {"idle", "info", "enter", "marker", "start", "hw", "next", "finish", "crash", "lost"}
  /\ pic \in Pictures /\ pics \in 0 .. MaxPics
  /\ pos \in 1 .. Len(pic.toks) + 1
  /\ ret \in Rets /\ decoded \in BOOLEAN /\ colorConv \in ColorConvs
  /\ init \in BOOLEAN /\ operationType \in OpTypes
  /\ headerReady \in BOOLEAN /\ imageReady \in BOOLEAN
  /\ SliceReadyForPause \in BOOLEAN /\ sliceHeight \in BOOLEAN
  /\ inputBufferEmpty \in BOOLEAN /\ nonInterleavedScanReady \in BOOLEAN
  /\ components \in SUBSET Components /\ pfNeeded \in SUBSET Components
  /\ componentId \in Components /\ endOfImage \in BOOLEAN
  /\ fresh \in BOOLEAN /\ job \in Jobs /\ done \in SUBSET Jobs /\ hwOk \in BOOLEAN

\* JpegDecInit, JpegClearDecStructs.  pic, job and done mean nothing yet.
Init ==
  /\ pc = "idle" /\ pic \in Pictures /\ pics = 0 /\ pos = 1 /\ ret = "NONE" /\ decoded = FALSE
  /\ colorConv \in ColorConvs
  /\ init = FALSE /\ operationType = "BASELINE"
  /\ headerReady = FALSE /\ imageReady = FALSE
  /\ SliceReadyForPause = FALSE /\ sliceHeight = FALSE
  /\ inputBufferEmpty = FALSE /\ nonInterleavedScanReady = FALSE
  /\ components = {} /\ pfNeeded = {} /\ componentId = 1 /\ endOfImage = FALSE
  /\ fresh = TRUE /\ job = "STALE" /\ done = {} /\ hwOk = TRUE

Size  == Len(pic.toks)
AtEnd == pos > Size
Token == pic.toks[pos]

\* A call returns.  oneframe calls JpegDecDecode again for a slice or an
\* empty buffer, and is done with the picture otherwise.
Again_empty == {"STRM_PROCESSED"}
Again == {"SLICE_READY", "STRM_PROCESSED"}
Return(r) == ret' = r /\ pc' = IF r \in Again THEN "enter" ELSE "idle"

-----------------------------------------------------------------------------
(* oneframe and JpegDecGetImageInfo                                        *)

Clean ==
  /\ ~headerReady /\ ~imageReady /\ ~SliceReadyForPause /\ ~sliceHeight /\ ~inputBufferEmpty
  /\ ~nonInterleavedScanReady /\ components = {} /\ pfNeeded = {}

\* The picture is copied over the one before it.
Submit(p) ==
  /\ pc = "idle" /\ pics < MaxPics
  /\ pc' = "info" /\ pic' = p /\ pics' = pics + 1 /\ pos' = 1 /\ decoded' = FALSE
  /\ fresh' = Clean /\ job' = "STALE" /\ done' = {} /\ hwOk' = TRUE
  /\ UNCHANGED <<ret, colorConv, init, operationType, inputBufferEmpty, endOfImage,
                 flags, slices, scans>>

\* JpegDecGetImageInfo stops at the first token it does not jump over.
Passed == {"SOI", "DQT", "DHT", "badDHT", "SOF0", "SOF2", "EOI"}
Stops  == {i \in 1 .. Size + 1 : i <= Size => pic.toks[i] \notin Passed}
Stop   == CHOOSE i \in Stops : \A j \in Stops : i <= j
Frames == {i \in 1 .. Stop - 1 : pic.toks[i] \in {"SOF0", "SOF2"}}
CodingMode ==
  IF Frames = {} THEN operationType
  ELSE LET last == CHOOSE i \in Frames : \A j \in Frames : j <= i
       IN IF pic.toks[last] = "SOF0" THEN "BASELINE" ELSE "PROGRESSIVE"

Decodes(ok, r) ==
  /\ decoded' = ok
  /\ IF ok THEN pc' = "enter" /\ ret' = ret ELSE Return(r)
  /\ UNCHANGED <<pos, inputBufferEmpty, endOfImage, flags, slices, scans, hist,
                 pic, pics, colorConv, fresh>>

\* The first scan header; a byte must follow it.
InfoScan ==
  /\ pc = "info" /\ Stop <= Size /\ pic.toks[Stop] \in ScanTokens
  /\ operationType' = IF pic.toks[Stop] \in DOMAIN ScanOf /\ CodingMode = "BASELINE"
                      THEN "NONINTERLEAVED" ELSE CodingMode
  /\ init' = (init \/ Stop < Size)
  /\ Decodes(Stop < Size, "INCREASE_INPUT_BUFFER")

InfoUnsupported ==
  /\ pc = "info" /\ Stop <= Size /\ pic.toks[Stop] = "SOFx"
  /\ operationType' = CodingMode /\ init' = init
  /\ Decodes(FALSE, "UNSUPPORTED")

\* Something else than a marker, or no byte left where one is looked for.
NoMarker == Stop <= Size => pic.toks[Stop] \in {"ECS", "FF"}
InfoNoMarker ==
  /\ pc = "info" /\ NoMarker
  /\ operationType' = CodingMode /\ init' = init
  /\ Decodes(FALSE, IF init THEN "STRM_ERROR" ELSE "INCREASE_INPUT_BUFFER")

\* readBits drifts by one bit for each marker, so the loop may also end on
\* its condition: then an instance that has seen a scan header before says OK.
InfoLoopEnds ==
  /\ pc = "info" /\ (Stop <= Size => pic.toks[Stop] = "FF")
  /\ operationType' = CodingMode /\ init' = init
  /\ Decodes(init, "ERROR")

-----------------------------------------------------------------------------
(* JpegDecDecode up to the hardware                                        *)

\* A scan of a non-interleaved picture was left unfinished: the call goes on
\* where the stream was, whatever picture is there now.
Enter ==
  /\ pc = "enter" /\ endOfImage' = FALSE
  /\ IF nonInterleavedScanReady
     THEN pos' \in (IF inputBufferEmpty THEN {1} ELSE 1 .. Size + 1) /\ headerReady' = FALSE
     ELSE pos' = 1 /\ headerReady' = headerReady
  /\ IF operationType = "PROGRESSIVE" THEN Return("UNSUPPORTED")
     ELSE IF pic.big /\ operationType # "BASELINE" THEN Return("SLICE_MODE_UNSUPPORTED")
     ELSE pc' = "marker" /\ ret' = ret
  /\ UNCHANGED <<init, operationType, inputBufferEmpty, call, imageReady, slices, scans, hist>>

\* A slice was handed out, its scan goes on without another marker.
SliceGoesOn ==
  /\ pc = "marker" /\ headerReady /\ SliceReadyForPause
  /\ pc' = "start"
  /\ UNCHANGED <<pos, ret, init, operationType, inputBufferEmpty, endOfImage, call, flags,
                 slices, scans, hist>>

\* The two marker loops: of JpegDecDecode and of JpegDecNextScanHdrs, which
\* has cleared headerReady.  At the end of the data JpegDecGetByte does not
\* advance, so neither loop's condition is ever false: nothing is enabled.
InLoop == pc = "next" \/ (pc = "marker" /\ ~(headerReady /\ SliceReadyForPause))
Read(t) == InLoop /\ ~AtEnd /\ Token \in t

\* A token that changes nothing, or the operation type.  The loop of
\* JpegDecDecode stops after any token once headerReady is set.
PassToken ==
  /\ Read({"SOI", "DQT", "DHT", "ECS", "SOF0", "SOF2"})
  /\ pos' = pos + 1
  /\ operationType' = IF pc = "next" THEN operationType
                      ELSE IF Token = "SOF0" THEN "BASELINE"
                      ELSE IF Token = "SOF2" THEN "PROGRESSIVE" ELSE operationType
  /\ pc' = IF headerReady THEN "start" ELSE pc
  /\ UNCHANGED <<ret, init, inputBufferEmpty, endOfImage, call, flags, slices, scans, hist>>

ReadScan_all ==
  /\ Read({"SOS"} \union DOMAIN ScanOf)
  /\ pos' = pos + 1 /\ pc' = "start"
  /\ imageReady' = FALSE /\ headerReady' = TRUE /\ job' = Token
  /\ IF Token = "SOS"
     THEN /\ pfNeeded' = Components
          /\ UNCHANGED <<componentId, operationType>>
     ELSE /\ pfNeeded' = Components \ {ScanOf[Token]}
          /\ componentId' = ScanOf[Token]
          /\ operationType' = IF operationType = "BASELINE" THEN "NONINTERLEAVED"
                              ELSE operationType
  /\ UNCHANGED <<ret, init, inputBufferEmpty, endOfImage, call, slices, components,
                 nonInterleavedScanReady, done, hwOk>>

\* JpegDecDecodeScan: an interleaved scan needs every component, a scan of
\* one component needs that one no longer.
ReadScan ==
  /\ Read({"SOS"} \union DOMAIN ScanOf)
  /\ pos' = pos + 1 /\ pc' = "start"
  /\ imageReady' = FALSE /\ headerReady' = TRUE /\ job' = Token
  /\ IF Token = "SOS"
     THEN /\ pfNeeded' = Components
          /\ UNCHANGED <<componentId, operationType>>
     ELSE /\ pfNeeded' = pfNeeded \ {ScanOf[Token]}
          /\ componentId' = ScanOf[Token]
          /\ operationType' = IF operationType = "BASELINE" THEN "NONINTERLEAVED"
                              ELSE operationType
  /\ UNCHANGED <<ret, init, inputBufferEmpty, endOfImage, call, slices, components,
                 nonInterleavedScanReady, done, hwOk>>

\* headerReady is set before the header's error is looked at.  JpegDecGetImageInfo
\* lets no picture pass whose first scan header is cut.
Cut == \E i \in 1 .. pos - 1 : pic.toks[i] \in ScanTokens
ReadBadScan ==
  /\ Read({"badSOS"})
  /\ pos' = pos + 1
  /\ imageReady' = FALSE /\ headerReady' = TRUE
  /\ \/ Return("UNSUPPORTED") /\ pfNeeded' = Components
     \/ Return("STRM_ERROR") /\ Cut /\ pfNeeded' = pfNeeded
  /\ UNCHANGED <<init, operationType, inputBufferEmpty, endOfImage, call, slices,
                 nonInterleavedScanReady, components, componentId, hist>>

ReadRefused ==
  /\ Read({"badDHT", "SOFx"})
  /\ pos' = pos + 1
  /\ Return(IF Token = "SOFx" THEN "UNSUPPORTED" ELSE "STRM_ERROR")
  /\ UNCHANGED <<init, operationType, inputBufferEmpty, endOfImage, call, flags, slices,
                 scans, hist>>

ReadEnd_on ==
  /\ Read({"EOI"})
  /\ pos' = pos + 1
  /\ IF pc = "next" /\ imageReady THEN pc' = "finish" /\ ret' = ret
     ELSE IF imageReady THEN Return("FRAME_READY") ELSE pc' = pc /\ ret' = ret
  /\ UNCHANGED <<init, operationType, inputBufferEmpty, endOfImage, call, flags, slices,
                 scans, hist>>

\* In JpegDecNextScanHdrs FRAME_READY leads back to the test of imageReady.
ReadEnd ==
  /\ Read({"EOI"})
  /\ pos' = pos + 1
  /\ IF pc = "next" /\ imageReady THEN pc' = "finish" /\ ret' = ret
     ELSE Return(IF imageReady THEN "FRAME_READY" ELSE "ERROR")
  /\ UNCHANGED <<init, operationType, inputBufferEmpty, endOfImage, call, flags, slices,
                 scans, hist>>

\* The loop gives up: a lone 0xFF makes currentByte 0xFFFFFFFF.  Without a
\* header JpegDecDecode looks at imageReady, and the loop around the hardware
\* starts it again.
ReadLoneFF ==
  /\ Read({"FF"})
  /\ pos' = pos + 1
  /\ IF headerReady THEN pc' = "start" /\ ret' = ret
     ELSE IF imageReady THEN pc' = "finish" /\ ret' = ret
     ELSE IF pc = "next" THEN pc' = "start" /\ ret' = ret
     ELSE Return("ERROR")
  /\ UNCHANGED <<init, operationType, inputBufferEmpty, endOfImage, call, flags, slices,
                 scans, hist>>

-----------------------------------------------------------------------------
(* The hardware                                                            *)

StartHW_keep ==
  /\ pc = "start" /\ ~inputBufferEmpty
  /\ pc' = "hw"
  /\ sliceHeight' = (sliceHeight \/ (pic.big /\ ~colorConv))
  /\ nonInterleavedScanReady' = nonInterleavedScanReady
  /\ job' = IF headerReady THEN job ELSE "STALE"
  /\ UNCHANGED <<pos, ret, init, operationType, inputBufferEmpty, endOfImage, call, flags,
                 SliceReadyForPause, components, pfNeeded, componentId, done, hwOk>>

\* JpegDecInitHW, or JpegDecInitHWContinue, which leaves the registers as the
\* last slice left them.  color_conv puts the post-processor in the pipeline.
StartHW ==
  /\ pc = "start" /\ ~inputBufferEmpty
  /\ pc' = "hw"
  /\ sliceHeight' = (sliceHeight \/ (pic.big /\ ~colorConv))
  /\ nonInterleavedScanReady' = (nonInterleavedScanReady /\ SliceReadyForPause)
  /\ job' = IF headerReady THEN job ELSE "STALE"
  /\ UNCHANGED <<pos, ret, init, operationType, inputBufferEmpty, endOfImage, call, flags,
                 SliceReadyForPause, components, pfNeeded, componentId, done, hwOk>>

\* JpegDecInitHWInputBuffLoad: the hardware reads the buffer again, and ends
\* up somewhere in it.
LoadBuffer ==
  /\ pc = "start" /\ inputBufferEmpty
  /\ pc' = "hw" /\ inputBufferEmpty' = FALSE
  /\ pos' \in 1 .. Size
  /\ UNCHANGED <<ret, init, operationType, endOfImage, call, flags, slices, scans, hist>>

Answer(ok) == pc = "hw" /\ hwOk' = (hwOk /\ ok)

BusError_keep ==
  /\ Answer(FALSE)
  /\ imageReady' = FALSE /\ UNCHANGED headerReady
  /\ Return("HW_BUS_ERROR")
  /\ UNCHANGED <<pos, init, operationType, inputBufferEmpty, endOfImage, call, slices, scans,
                 job, done>>

BusError ==
  /\ Answer(FALSE)
  /\ headerReady' = FALSE /\ imageReady' = FALSE
  /\ Return("HW_BUS_ERROR")
  /\ UNCHANGED <<pos, init, operationType, inputBufferEmpty, endOfImage, call, slices, scans,
                 job, done>>

\* A stream error, or a timeout the picture's height may excuse.
StreamError ==
  /\ Answer(FALSE)
  /\ headerReady' = FALSE /\ imageReady' = FALSE
  /\ \E r \in {"STRM_ERROR"} \union (IF pic.tol THEN {"FRAME_READY"} ELSE {}) : Return(r)
  /\ UNCHANGED <<pos, init, operationType, inputBufferEmpty, endOfImage, call, slices, scans,
                 job, done>>

\* oneframe calls again with the same buffer, from its start.
BufferEmpty ==
  /\ Answer(FALSE)
  /\ inputBufferEmpty' = TRUE
  /\ Return("STRM_PROCESSED")
  /\ UNCHANGED <<pos, init, operationType, endOfImage, call, flags, slices, scans, job, done>>

SliceReady ==
  /\ Answer(TRUE) /\ sliceHeight /\ ~colorConv
  /\ SliceReadyForPause' = TRUE
  /\ Return("SLICE_READY")
  /\ UNCHANGED <<pos, init, operationType, inputBufferEmpty, endOfImage, call, flags,
                 sliceHeight, scans, job, done>>

\* VPUClientWaitResult fails.
WaitFails ==
  /\ Answer(FALSE)
  /\ Return("SYSTEM_ERROR")
  /\ UNCHANGED <<pos, init, operationType, inputBufferEmpty, endOfImage, call, flags, slices,
                 scans, job, done>>

Finished == done' = done \union {job} /\ UNCHANGED <<job>>

\* The scan of a baseline picture is the whole picture.
BaselineDone ==
  /\ Answer(TRUE) /\ operationType = "BASELINE" /\ Finished
  /\ imageReady' = TRUE /\ pc' = "finish"
  /\ UNCHANGED <<pos, ret, init, operationType, inputBufferEmpty, endOfImage, call,
                 headerReady, slices, scans>>

\* The image is complete when every component is.
Complete_any == components' # {}
Complete == components' = Components

\* After the scan of one component the parser goes on at the address in
\* HWIF_RLC_VLC_BASE, cast to a pointer.  The code wrote a descriptor and an offset
\* there and the hardware its own address of the stream, and neither is the address
\* of the buffer in the process.  So the parser may be anywhere in the stream or at
\* its end - behind the scan, if the address should happen to fit - and the search
\* for the next marker may find anything.
ScanDone ==
  /\ Answer(TRUE) /\ operationType # "BASELINE" /\ Finished
  /\ pos' \in 1 .. Size + 1 /\ endOfImage' \in BOOLEAN
  /\ SliceReadyForPause' = FALSE
  /\ components' = components \union {componentId}
  /\ nonInterleavedScanReady' = (nonInterleavedScanReady \/ ~endOfImage')
  /\ imageReady' = (imageReady \/ Complete)
  /\ IF Complete /\ endOfImage'
     THEN pc' = "finish" /\ headerReady' = headerReady
     ELSE pc' = "next" /\ headerReady' = FALSE
  /\ UNCHANGED <<ret, init, operationType, inputBufferEmpty, call, sliceHeight, pfNeeded,
                 componentId>>

\* Or nothing is mapped at that address, or memory that is not the stream: the
\* process dies, or reads it as one.  It is not followed any further.
ScanLost ==
  /\ Answer(TRUE) /\ operationType # "BASELINE" /\ Finished
  /\ pc' = "lost"
  /\ UNCHANGED <<pos, ret, init, operationType, inputBufferEmpty, endOfImage, call, flags,
                 slices, scans>>

-----------------------------------------------------------------------------
(* The image is ready                                                      *)

FinishBase == pc = "finish" /\ headerReady' = FALSE /\ imageReady' = FALSE
FinishKeeps == UNCHANGED <<pos, init, operationType, inputBufferEmpty, endOfImage, call, slices,
                           scans, hist>>

Finish ==
  /\ FinishBase
  /\ operationType # "BASELINE" /\ endOfImage => pfNeeded = {}
  /\ Return(IF operationType # "BASELINE" /\ ~endOfImage THEN "SCAN_PROCESSED"
            ELSE "FRAME_READY")
  /\ FinishKeeps

\* JpegDecInitHWEmptyScan writes to tmpStrm, which is NULL.
EmptyScan ==
  /\ FinishBase
  /\ operationType # "BASELINE" /\ endOfImage /\ pfNeeded # {}
  /\ pc' = "crash" /\ ret' = ret
  /\ FinishKeeps

-----------------------------------------------------------------------------
Info     == InfoScan \/ InfoUnsupported \/ InfoNoMarker \/ InfoLoopEnds
Marker   == PassToken \/ ReadScan \/ ReadBadScan \/ ReadRefused \/ ReadEnd \/ ReadLoneFF
Failure  == BusError \/ StreamError \/ WaitFails
Ready    == BaselineDone \/ ScanDone \/ ScanLost

Next ==
  \/ \E p \in Pictures : Submit(p)
  \/ InfoScan \/ InfoUnsupported \/ InfoNoMarker \/ InfoLoopEnds
  \/ Enter \/ SliceGoesOn
  \/ PassToken \/ ReadScan \/ ReadBadScan \/ ReadRefused \/ ReadEnd \/ ReadLoneFF
  \/ StartHW \/ LoadBuffer
  \/ BusError \/ StreamError \/ WaitFails \/ BufferEmpty \/ SliceReady
  \/ BaselineDone \/ ScanDone \/ ScanLost
  \/ Finish \/ EmptyScan

Spec == Init /\ [][Next]_vars

\* The code runs on; a picture has finitely many slices and the hardware ends
\* every scan, with its own timeout if need be.
FairSpec ==
  /\ Spec
  /\ WF_vars(Info \/ Enter \/ SliceGoesOn \/ Marker \/ StartHW \/ LoadBuffer
             \/ Finish \/ EmptyScan)
  /\ SF_vars(Failure \/ Ready)
-----------------------------------------------------------------------------
(* Properties                                                              *)

\* What a picture must be for the decoder to owe its client a frame: one
\* baseline frame, then one interleaved scan with its data, and EOI.
Good(p) ==
  LET At(t) == {i \in 1 .. Len(p.toks) : p.toks[i] \in t}
  IN /\ At({"badDHT", "SOF2", "SOFx", "FF"}) = {}
     /\ At({"EOI"}) = {Len(p.toks)}
     /\ At({"SOF0"}) # {}
     /\ \E i \in At({"SOS"}) : At(ScanTokens) = {i} /\ At({"ECS"}) = {i + 1}
     /\ Len(p.toks) - 1 \in At({"ECS"})

\* A picture with scans of single components, and one that has a scan of all
\* components as well.
Single(p) == \E i \in 1 .. Len(p.toks) : p.toks[i] \in DOMAIN ScanOf
Mixed(p)  == Single(p) /\ \E i \in 1 .. Len(p.toks) : p.toks[i] = "SOS"

Idle == pc = "idle" /\ decoded

\* A decoder that owes nothing to an earlier picture announces a frame only
\* when the hardware has decoded an interleaved scan of it or all three
\* components, by scans whose headers were read (2370-2501, 2574-2626).  With
\* a timeout it may be excused (2220), and after a reload the first marker is
\* read again (2069), which need not be SOI.
HonestFrame ==
  Idle /\ fresh /\ hwOk /\ ret = "FRAME_READY"
    => "SOS" \in done \/ DOMAIN ScanOf \subseteq done

\* A decoder that owes nothing to an earlier picture delivers a good one, in
\* however many slices and calls, unless the hardware fails or runs dry.
GoodPicture ==
  Idle /\ fresh /\ hwOk /\ Good(pic) => ret = "FRAME_READY"

\* And it is ready for the next picture but for the slice and the components:
\* the next call parses that picture from its start (1576-1599, 1792, 2097).
FrameLeavesClean ==
  Idle /\ fresh /\ ret = "FRAME_READY"
    => /\ ~headerReady /\ ~imageReady /\ ~inputBufferEmpty
       /\ ~nonInterleavedScanReady

\* A scan header is left for the next picture, which then starts the hardware
\* after its first marker (1792, 2069), only by a failed wait, a refused or
\* cut header, or a call that ended before the markers.
LeftoverHeader ==
  Idle /\ headerReady /\ pic.toks[1] = "SOI"
    => \/ ret \in {"SYSTEM_ERROR", "UNSUPPORTED", "SLICE_MODE_UNSUPPORTED"}
       \/ ret = "STRM_ERROR" /\ pic.toks[pos - 1] = "badSOS"

\* The hardware is not asked for an empty scan, whose buffer does not exist
\* (2593), by a decoder that owes nothing to an earlier picture, unless the
\* picture mixes interleaved scans with others.
NoEmptyScan == pc = "crash" /\ fresh => Mixed(pic)

\* Decoding a stream that ends with EOI, without scans of single components, comes
\* to an end unless the hardware runs dry: the marker loop, which never ends at the
\* end of the data (1790-2071), does not get there.
DecodeReturns ==
  (pc = "enter" /\ fresh /\ pic.toks[Size] = "EOI" /\ ~Single(pic))
    ~> (pc = "idle" \/ ~hwOk)
=============================================================================
