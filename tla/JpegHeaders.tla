----------------------------- MODULE JpegHeaders -----------------------------
(***************************************************************************)
(* rkjpeg: what the headers of a picture become in the registers and the   *)
(* table memory of the hardware.  One decoder instance is given picture    *)
(* after picture by pv_rkJpegdecoder_oneframe: JpegDecGetImageInfo reads   *)
(* the headers once, oneframe sizes the memory, the post-processor and the *)
(* slices from what it found, JpegDecDecode reads the headers again, and   *)
(* JpegDecInitHW writes the registers of a scan.  Everything read is kept  *)
(* in the instance, which no picture starts from zero.                     *)
(*                                                                         *)
(* A picture is the sequence of its segments, each with one table, value   *)
(* or scan header (a segment of several tables counts as several).  The    *)
(* pictures are the well-formed baseline ones this decoder takes: all the  *)
(* components in one scan, or, for 4:2:0, 4:2:2 and 4:4:0, one scan each   *)
(* in any order.  Damaged streams, empty buffers and what an error does to *)
(* the flags of the parser are the subject of JpegDecode.                  *)
(***************************************************************************)
EXTENDS Integers, JpegSizes

CONSTANTS Pictures,   \* the pictures a client may submit
          ColorConvs, \* the values of color_conv, TRUE in the constructor
          MaxPics,    \* bound: pictures submitted in one behaviour
          Values      \* what a table of a stream may hold

\* A table never filled, the one of the standard, one of a stream.
Table    == {"none", "default"} \union Values
TableIds == 0 .. 1   \* of the Huffman tables of a baseline picture
Classes  == {"dc", "ac"}

MaxWord  == 65535   \* of 16 bits
Word     == 0 .. MaxWord

Segment ==
  [m : {"DQT"}, id : 0 .. 3, v : Values]
    \union [m : {"DHT"}, cl : Classes, id : TableIds, v : Values]
    \union [m : {"DRI"}, n : Word]
    \union [m : {"SOS"}, comps : Seq(1 .. 3), td : Seq(TableIds), ta : Seq(TableIds)]
    \union [m : {"SOF", "EOI"}]

Picture == [X : Word, Y : Word,
            sam  : Seq((1 .. 4) \X (1 .. 4)),  \* of each component
            tq   : Seq(0 .. 3),                \* its quantisation table
            segs : Seq(Segment)]

Components(p)  == 1 .. Len(p.sam)
OneByOne       == {Pattern[f] : f \in {"420", "422", "440"}}
WellFormed(p) ==
  /\ Len(p.sam) \in {1, 3} /\ Len(p.tq) = Len(p.sam) /\ Len(p.segs) > 0
  /\ \A i \in 1 .. Len(p.segs) : (p.segs[i].m = "EOI") = (i = Len(p.segs))
  /\ \E i \in 1 .. Len(p.segs) : p.segs[i].m = "SOS"
  /\ \A i \in 1 .. Len(p.segs) : p.segs[i].m = "SOS" =>
       /\ Len(p.segs[i].ta) = Len(p.segs[i].comps) /\ Len(p.segs[i].td) = Len(p.segs[i].comps)
       /\ \E j \in 1 .. i - 1 : p.segs[j].m = "SOF"
       /\ \/ /\ p.segs[i].comps = [c \in Components(p) |-> c]
             /\ \A j \in 1 .. Len(p.segs) : p.segs[j].m = "SOS" => j = i
          \/ p.sam \in OneByOne /\ Len(p.segs[i].comps) = 1
  /\ \A i, j \in 1 .. Len(p.segs) : p.segs[i].m = "SOF" /\ p.segs[j].m = "SOF" => i = j

ASSUME JpegHeadersAssumption ==
  /\ \A p \in Pictures : p \in Picture /\ WellFormed(p)
  /\ ColorConvs \subseteq BOOLEAN /\ ColorConvs # {}
  /\ MaxPics \in Nat
  /\ Values \intersect {"none", "default"} = {}

VARIABLES pc,
          pic, pics, pos,    \* the picture, how many, the next segment
          \* of oneframe
          colorConv, imageInfo, sliceMbSet, picSize, pp,
          \* instance.frame and instance.image
          hwX, hwY, numMcuInRow, numMcuInFrame, Ri, sizeLuma, sizeChroma,
          \* instance.info
          X, Y, yCbCrMode, yCbCrModeOrig, fillRight, fillBottom, fillX, fillY,
          operationType, componentId, amountOfQTables,
          SliceCount, sliceHeight, SliceReadyForPause,
          \* instance.scan, instance.quant, instance.vlc, and a local
          Td, Ta, quant, vlc, findhufftable,
          \* the registers, the table memory, the macroblock rows decoded
          regs, tabs, rows,
          \* what an earlier picture left in the instance, for the properties
          left

caller == <<colorConv, imageInfo, sliceMbSet, picSize, pp>>
mcus   == <<numMcuInRow, numMcuInFrame>>
planes == <<sizeLuma, sizeChroma>>
fills  == <<fillRight, fillBottom, fillX, fillY>>
slices == <<SliceCount, sliceHeight, SliceReadyForPause>>
scan   == <<Td, Ta, componentId, amountOfQTables>>
tables == <<quant, vlc>>
hw     == <<regs, tabs, rows>>
input  == <<pic, pics, left>>
vars   == <<pc, pos, hwX, hwY, Ri, X, Y, yCbCrMode, yCbCrModeOrig, operationType, findhufftable,
            input, caller, mcus, planes, fills, slices, scan, tables, hw>>

NoRegs == [w |-> 0, h |-> 0, mode |-> "400", fillRight |-> 0, fillBottom |-> 0, qTables |-> 0,
           sliceH |-> 0, restart |-> 0, ac |-> <<0, 0, 0>>, dc |-> <<0, 0, 0>>,
           acBits |-> <<"none", "none">>, dcBits |-> <<"none", "none">>]
NoTabs == [q |-> <<"none", "none", "none">>, ac |-> <<"none", "none">>,
           dc |-> <<"none", "none">>, cut |-> FALSE]
NoPP   == [fmt |-> "400", inW |-> 0, inH |-> 0, outW |-> 0, outH |-> 0, hor |-> 0, ver |-> 0]

\* JpegDecInit, JpegDecClearStructs.  What is not read before it is written
\* has any value.
Init ==
  /\ pc = "idle" /\ pic \in Pictures /\ pics = 0 /\ pos = 1
  /\ colorConv \in ColorConvs
  /\ imageInfo = [w |-> 0, h |-> 0, fmt |-> "400"] /\ sliceMbSet = 0 /\ picSize = 0 /\ pp = NoPP
  /\ hwX = 0 /\ hwY = 0 /\ numMcuInRow = 0 /\ numMcuInFrame = 0 /\ Ri = 0
  /\ sizeLuma = 0 /\ sizeChroma = 0 /\ X = 0 /\ Y = 0
  /\ yCbCrMode = "400" /\ yCbCrModeOrig = "400"
  /\ fillRight = 0 /\ fillBottom = 0 /\ fillX = 0 /\ fillY = 0
  /\ operationType = "BASELINE" /\ componentId = 1 /\ amountOfQTables = 0
  /\ SliceCount = 0 /\ sliceHeight = 0 /\ SliceReadyForPause = FALSE
  /\ Td = <<0, 0, 0>> /\ Ta = <<0, 0, 0>>
  /\ quant = [id \in 0 .. 3 |-> "none"]
  /\ vlc = [cl \in Classes |-> [id \in TableIds |-> "none"]]
  /\ findhufftable = FALSE
  /\ regs = NoRegs /\ tabs = NoTabs /\ rows = 0
  /\ left = [fill |-> FALSE, Ri |-> FALSE, height |-> FALSE, slices |-> FALSE, pause |-> FALSE]

Seg == pic.segs[pos]

-----------------------------------------------------------------------------
\* oneframe takes the next picture.
Submit(p) ==
  /\ pc = "idle" /\ pics < MaxPics
  /\ pic' = p /\ pics' = pics + 1 /\ pos' = 1 /\ pc' = "info"
  /\ left' = [fill   |-> fillRight + fillBottom > 0,
              Ri     |-> Ri # 0,
              height |-> sliceHeight # 0,
              slices |-> SliceReadyForPause \/ SliceCount # 0 \/ sliceHeight # 0,
              pause  |-> SliceReadyForPause]
  /\ UNCHANGED <<hwX, hwY, Ri, X, Y, yCbCrMode, yCbCrModeOrig, operationType, findhufftable,
                 caller, mcus, planes, fills, slices, scan, tables, hw>>

\* The segments JpegDecGetImageInfo passes: up to the first scan header, or
\* up to the frame header it refuses.
FirstScan == CHOOSE i \in 1 .. Len(pic.segs) :
               pic.segs[i].m = "SOS" /\ \A j \in 1 .. i - 1 : pic.segs[j].m # "SOS"
FrameHdr  == CHOOSE i \in 1 .. Len(pic.segs) : pic.segs[i].m = "SOF"
LastDRI(n) == CHOOSE i \in 1 .. n - 1 :
                pic.segs[i].m = "DRI" /\ \A j \in i + 1 .. n - 1 : pic.segs[j].m # "DRI"
RiBefore(n) ==
  IF \E i \in 1 .. n - 1 : pic.segs[i].m = "DRI" THEN pic.segs[LastDRI(n)].n ELSE Ri

\* JpegDecGetImageInfo.
GetImageInfo_swapped ==
  /\ pc = "info" /\ InfoAccepts(pic.sam, pic.X, pic.Y)
  /\ LET f == InfoFormat(pic.sam) IN
     /\ imageInfo' = [w |-> InfoHeight(pic.X), h |-> InfoHeight(pic.Y), fmt |-> f]
     /\ hwX' = imageInfo'.w /\ hwY' = imageInfo'.h
     /\ numMcuInRow' = InfoMcuInRow(f, hwX') /\ numMcuInFrame' = InfoMcuInFrame(f, hwX', hwY')
     /\ yCbCrMode' = f
  /\ operationType' = IF Len(pic.segs[FirstScan].comps) = 1 /\ yCbCrMode' # "400"
                      THEN "NONINTERLEAVED" ELSE "BASELINE"
  /\ Ri' = RiBefore(FirstScan)
  /\ pc' = "prepare"
  /\ UNCHANGED <<pos, X, Y, yCbCrModeOrig, findhufftable, input, colorConv, sliceMbSet, picSize,
                 pp, planes, fills, slices, scan, tables, hw>>
GetImageInfo ==
  /\ pc = "info" /\ InfoAccepts(pic.sam, pic.X, pic.Y)
  /\ LET f == InfoFormat(pic.sam) IN
     /\ imageInfo' = [w |-> InfoWidth(pic.sam, pic.X), h |-> InfoHeight(pic.Y), fmt |-> f]
     /\ hwX' = imageInfo'.w /\ hwY' = imageInfo'.h
     /\ numMcuInRow' = InfoMcuInRow(f, hwX') /\ numMcuInFrame' = InfoMcuInFrame(f, hwX', hwY')
     /\ yCbCrMode' = f
  /\ operationType' = IF Len(pic.segs[FirstScan].comps) = 1 /\ yCbCrMode' # "400"
                      THEN "NONINTERLEAVED" ELSE "BASELINE"
  /\ Ri' = RiBefore(FirstScan)
  /\ pc' = "prepare"
  /\ UNCHANGED <<pos, X, Y, yCbCrModeOrig, findhufftable, input, colorConv, sliceMbSet, picSize,
                 pp, planes, fills, slices, scan, tables, hw>>

\* A size or a sampling is refused in the frame header, after the fields
\* before it were stored.
InfoUnsupported ==
  /\ pc = "info" /\ ~InfoAccepts(pic.sam, pic.X, pic.Y)
  /\ operationType' = "BASELINE"
  /\ hwY' = IF pic.Y >= 1 THEN InfoHeight(pic.Y) ELSE hwY
  /\ hwX' = IF pic.Y < 1 \/ pic.X < 1 THEN hwX
            ELSE IF SupportedSize(UpTo(pic.X, 16), InfoHeight(pic.Y))
            THEN InfoWidth(pic.sam, pic.X) ELSE UpTo(pic.X, 16)
  /\ Ri' = RiBefore(FrameHdr)
  /\ pc' = "idle"
  /\ UNCHANGED <<pos, X, Y, yCbCrMode, yCbCrModeOrig, findhufftable, input, caller, mcus, planes,
                 fills, slices, scan, tables, hw>>

\* SetPostProcessor: the picture read and the one written, and how the first
\* is scaled to the second (0 not at all, 1 up, 2 down).
Scaling(in, out) == IF in < out THEN 1 ELSE IF in > out THEN 2 ELSE 0
SetPostProcessor(f, w, h, outW, outH) ==
  [fmt |-> f, inW |-> w \div 16, inH |-> h \div 16, outW |-> outW, outH |-> outH,
   hor |-> Scaling(w, outW), ver |-> Scaling(h, outH)]

\* oneframe: the memory of the picture, the post-processor, the number of
\* macroblock rows in a slice.
Prepare ==
  /\ pc = "prepare"
  /\ LET w == imageInfo.w  h == imageInfo.h  f == imageInfo.fmt IN
     /\ picSize' = IF colorConv THEN FrameConverted(w, h) ELSE FrameOriginal(f, w, h)
     /\ pp' = IF colorConv
              THEN SetPostProcessor(f, w, h, FrameWidth(w), FrameHeight(w, h))
              ELSE SetPostProcessor(f, w, h, UpTo(w, 16), UpTo(h, 16))
     /\ sliceMbSet' = FrameSliceMbSet(f, w, h)
  /\ pc' = "enter"
  /\ UNCHANGED <<pos, hwX, hwY, Ri, X, Y, yCbCrMode, yCbCrModeOrig, operationType, findhufftable,
                 input, colorConv, imageInfo, mcus, planes, fills, slices, scan, tables, hw>>

\* JpegDecDecode checks the slices and the size against what GetImageInfo
\* stored in the instance, then reads the markers.
RowOfSlice == sliceMbSet * (numMcuInRow \div McuSizeDivider(imageInfo.fmt))
EnterAccepts ==
  /\ sliceMbSet # 0 => operationType = "BASELINE"
  /\ sliceMbSet = 0 => hwX * hwY <= MaxPixelsAtOnce
  /\ RowOfSlice <= MaxSliceSize
  /\ sliceMbSet # 0 /\ ~SliceReadyForPause => RowOfSlice <= numMcuInFrame
Enter ==
  /\ pc = "enter"
  /\ pc' = IF EnterAccepts THEN "read" ELSE "idle"
  /\ findhufftable' = FALSE
  /\ UNCHANGED <<pos, hwX, hwY, Ri, X, Y, yCbCrMode, yCbCrModeOrig, operationType,
                 input, caller, mcus, planes, fills, slices, scan, tables, hw>>

-----------------------------------------------------------------------------
\* The segments, in the marker loop of JpegDecDecode ("read") and, between
\* two scans, in that of JpegDecNextScanHdrs ("next").

InLoop == pc \in {"read", "next"}

ReadDQT ==
  /\ InLoop /\ Seg.m = "DQT"
  /\ quant' = [quant EXCEPT ![Seg.id] = Seg.v]
  /\ pos' = pos + 1
  /\ UNCHANGED <<pc, hwX, hwY, Ri, X, Y, yCbCrMode, yCbCrModeOrig, operationType, findhufftable,
                 input, caller, mcus, planes, fills, slices, scan, vlc, hw>>

ReadDHT ==
  /\ InLoop /\ Seg.m = "DHT"
  /\ vlc' = [vlc EXCEPT ![Seg.cl][Seg.id] = Seg.v]
  /\ findhufftable' = (findhufftable \/ pc = "read")
  /\ pos' = pos + 1
  /\ UNCHANGED <<pc, hwX, hwY, Ri, X, Y, yCbCrMode, yCbCrModeOrig, operationType,
                 input, caller, mcus, planes, fills, slices, scan, quant, hw>>

ReadDRI ==
  /\ InLoop /\ Seg.m = "DRI"
  /\ Ri' = Seg.n
  /\ pos' = pos + 1
  /\ UNCHANGED <<pc, hwX, hwY, X, Y, yCbCrMode, yCbCrModeOrig, operationType, findhufftable,
                 input, caller, mcus, planes, fills, slices, scan, tables, hw>>

\* JpegDecDecodeFrameHdr and JpegDecMode.
DecodeFrameHdr(f) ==
  /\ hwX' = HdrWidth(f, pic.X) /\ hwY' = HdrHeight(pic.Y)
  /\ numMcuInRow' = HdrMcuInRow(f, hwX') /\ numMcuInFrame' = HdrMcuInFrame(f, hwX', hwY')
  /\ X' = hwX' /\ Y' = hwY'
  /\ yCbCrMode' = f /\ yCbCrModeOrig' = f
  /\ fillRight'  = IF FillsRight(f) /\ HalfFilled(pic.X) THEN 1 ELSE fillRight
  /\ fillBottom' = IF FillsBottom(f) /\ HalfFilled(pic.Y) THEN 1 ELSE fillBottom
  /\ sizeLuma'   = IF sliceMbSet # 0 THEN SliceLuma(f, X', sliceMbSet) ELSE HdrLuma(f, hwX', hwY')
  /\ sizeChroma' = IF sliceMbSet # 0 THEN SliceChroma(f, X', sliceMbSet)
                   ELSE HdrChroma(f, hwX', hwY')
ReadSOF ==
  /\ pc = "read" /\ Seg.m = "SOF"
  /\ operationType' = "BASELINE"
  /\ IF HdrAccepts(pic.sam, pic.X, pic.Y)
     THEN DecodeFrameHdr(HdrFormat(pic.sam)) /\ pc' = pc /\ pos' = pos + 1
     ELSE /\ pc' = "idle"
          /\ UNCHANGED <<pos, hwX, hwY, mcus, X, Y, yCbCrMode, yCbCrModeOrig, planes,
                         fillRight, fillBottom>>
  /\ UNCHANGED <<Ri, findhufftable, input, caller, fillX, fillY, slices, scan, tables, hw>>

\* JpegDecDecodeScanHeader, one component of three.
ScanOfOne(c) ==
  LET w == CASE c = 1 -> hwX [] c # 1 /\ yCbCrModeOrig \in {"420", "422"} -> hwX \div 2
             [] OTHER -> X
      h == CASE c = 1 -> hwY [] c # 1 /\ yCbCrModeOrig \in {"420", "440"} -> hwY \div 2
             [] OTHER -> Y IN
  /\ operationType' = IF operationType = "BASELINE" /\ yCbCrMode # "400"
                      THEN "NONINTERLEAVED" ELSE operationType
  /\ componentId' = c
  /\ X' = IF w % 16 # 0 THEN w + 8 ELSE w
  /\ Y' = IF h % 16 # 0 THEN h + 8 ELSE h
  /\ fillX' = IF w % 16 # 0 THEN 1 ELSE 0
  /\ fillY' = IF h % 16 # 0 THEN 1 ELSE 0
  /\ fillRight'  = IF /\ w % 16 = 0 /\ HalfFilled(pic.X)
                      /\ c = 1 \/ yCbCrModeOrig = "440"
                   THEN 1 ELSE 0
  /\ fillBottom' = IF /\ h % 16 = 0 /\ HalfFilled(pic.Y)
                      /\ c = 1 \/ yCbCrModeOrig = "422"
                   THEN 1 ELSE 0
  /\ yCbCrMode' = "400" /\ amountOfQTables' = 1

\* All the components, or the only one.
ScanOfAll(n) ==
  /\ fillX' = 0 /\ fillY' = 0
  /\ IF n = 1 THEN componentId' = 1 /\ UNCHANGED <<X, Y, yCbCrMode>>
     ELSE X' = hwX /\ Y' = hwY /\ yCbCrMode' = yCbCrModeOrig /\ UNCHANGED componentId
  /\ amountOfQTables' = IF n = 1 THEN 1 ELSE 3
  /\ UNCHANGED <<operationType, fillRight, fillBottom>>

\* The scan's selection of Huffman tables.
Selects(old, comps, new) ==
  [c \in 1 .. 3 |-> IF \E i \in 1 .. Len(comps) : comps[i] = c
                    THEN new[CHOOSE i \in 1 .. Len(comps) : comps[i] = c] ELSE old[c]]

\* JpegDefaultHuffmanTables, when this call of JpegDecDecode met no DHT.
DefaultTables ==
  vlc' = IF findhufftable THEN vlc ELSE [cl \in Classes |-> [id \in TableIds |-> "default"]]

ReadSOS ==
  /\ InLoop /\ Seg.m = "SOS"
  /\ IF Len(Seg.comps) = 1 /\ Len(pic.sam) = 3 THEN ScanOfOne(Seg.comps[1])
     ELSE ScanOfAll(Len(Seg.comps))
  /\ Ta' = Selects(Ta, Seg.comps, Seg.ta) /\ Td' = Selects(Td, Seg.comps, Seg.td)
  /\ IF pc = "read" THEN DefaultTables ELSE UNCHANGED vlc
  /\ pc' = "start" /\ pos' = pos + 1
  /\ UNCHANGED <<hwX, hwY, Ri, yCbCrModeOrig, findhufftable, input, caller, mcus, planes, slices,
                 quant, hw>>

\* The picture ends after the last of its scans.
ReadEOI ==
  /\ pc = "next" /\ Seg.m = "EOI"
  /\ pc' = "idle"
  /\ UNCHANGED <<pos, hwX, hwY, Ri, X, Y, yCbCrMode, yCbCrModeOrig, operationType, findhufftable,
                 input, caller, mcus, planes, fills, slices, scan, tables, hw>>

-----------------------------------------------------------------------------
\* JpegDecInitHW.

QTable(c) == quant[IF pic.tq[c] = 0 THEN 0 ELSE 1]

\* JpegDecWriteTables.  The hardware takes the luma tables as its first ones;
\* a grey picture has no others.  The tables are packed into words: when there
\* is no second AC table, filling its place with zeros throws away the word
\* the first one ended in, and with it two values.
Missing(t)  == t = "none"
QPTables    == [c \in 1 .. 3 |-> IF c <= amountOfQTables THEN QTable(c) ELSE "none"]
ACTables    == <<vlc["ac"][Ta[1]], vlc["ac"][1 - Ta[1]]>>
DCTables    == <<vlc["dc"][Td[1]], vlc["dc"][1 - Td[1]]>>
ACTableGrey == <<vlc["ac"][Ta[1]], "none">>
DCTableGrey == <<vlc["dc"][Td[1]], "none">>
WriteTables ==
  IF yCbCrMode # "400"
  THEN [q |-> QPTables, ac |-> ACTables, dc |-> DCTables,
        cut |-> ~Missing(ACTables[1]) /\ Missing(ACTables[2])]
  ELSE [q |-> QPTables, ac |-> ACTableGrey, dc |-> DCTableGrey, cut |-> FALSE]

\* JpegDecWriteTablesNonInterleaved: the tables of one component.
WriteTablesNonInterleaved ==
  [q   |-> <<QTable(componentId), "none", "none">>,
   ac  |-> <<vlc["ac"][Ta[componentId]], "none">>,
   dc  |-> <<vlc["dc"][Td[componentId]], "none">>,
   cut |-> FALSE]

\* How many codes of each length: those of the tables in the memory, chosen
\* again.  The second tables of a single component keep what they were.
WriteLenBits(r) == [r EXCEPT !.acBits = ACTables, !.dcBits = DCTables]
WriteLenBitsNonInterleaved(r) ==
  [r EXCEPT !.acBits[1] = vlc["ac"][Ta[componentId]], !.dcBits[1] = vlc["dc"][Td[componentId]]]

\* JpegDecChromaTableSelectors: 0 is the first table, 1 the second.
Selectors_raw(t) == t
Selectors(t) ==
  [c \in 1 .. 3 |-> IF t[1] = 0 THEN t[c] ELSE IF t[1] = t[c] THEN 0 ELSE 1]

\* JpegDecSliceSizeCalculation.  The height is kept as its register keeps it,
\* modulo 2^8: it is only multiplied and subtracted.
SliceSizeCalculation_reset ==
  IF (SliceCount + 1) * (sliceMbSet * 16) > Y
  THEN (Y \div 16) % 256
  ELSE sliceMbSet
SliceSizeCalculation ==
  IF (SliceCount + 1) * (sliceMbSet * 16) > Y
  THEN ((Y \div 16) - SliceCount * sliceHeight) % 256
  ELSE sliceMbSet

\* The rest of JpegDecInitHW; the width and height are in macroblocks.
InitHW ==
  LET r == [regs EXCEPT
              !.w = X \div 16, !.h = Y \div 16, !.mode = yCbCrMode,
              !.fillRight = fillRight, !.fillBottom = fillBottom, !.qTables = amountOfQTables,
              !.sliceH = sliceHeight', !.restart = Ri, !.ac = Selectors(Ta), !.dc = Selectors(Td)] IN
  /\ IF operationType = "BASELINE"
     THEN regs' = WriteLenBits(r) /\ tabs' = WriteTables
     ELSE regs' = WriteLenBitsNonInterleaved(r) /\ tabs' = WriteTablesNonInterleaved
  /\ rows' = 0

\* JpegDecInitHWContinue: the next slice of the same scan.
InitHWContinue == regs' = [regs EXCEPT !.sliceH = sliceHeight'] /\ UNCHANGED <<tabs, rows>>

\* The post-processor reads the decoder in a pipeline (ppControl.usePipeline)
\* exactly when colours are converted, and then no slice height is set.
StartHW ==
  /\ pc = "start"
  /\ sliceHeight' = IF sliceMbSet # 0 /\ ~colorConv THEN SliceSizeCalculation ELSE sliceHeight
  /\ IF SliceReadyForPause THEN InitHWContinue ELSE InitHW
  /\ SliceCount' = SliceCount + 1
  /\ pc' = "hw"
  /\ UNCHANGED <<pos, hwX, hwY, Ri, X, Y, yCbCrMode, yCbCrModeOrig, operationType, findhufftable,
                 input, caller, mcus, planes, fills, SliceReadyForPause, scan, tables>>

\* The hardware stops after the rows of a slice when more are to come.  The
\* next call of JpegDecDecode leaves its marker loop at once, so it met no DHT.
MoreRows == regs.sliceH > 0 /\ rows + regs.sliceH < regs.h
SliceReady ==
  /\ pc = "hw" /\ MoreRows
  /\ rows' = rows + regs.sliceH
  /\ SliceReadyForPause' = ~colorConv
  /\ pc' = "again"
  /\ UNCHANGED <<pos, hwX, hwY, Ri, X, Y, yCbCrMode, yCbCrModeOrig, operationType, findhufftable,
                 input, caller, mcus, planes, fills, SliceCount, sliceHeight, scan, tables, regs,
                 tabs>>
Resume ==
  /\ pc = "again"
  /\ findhufftable' = FALSE
  /\ vlc' = [cl \in Classes |-> [id \in TableIds |-> "default"]]
  /\ pc' = "start"
  /\ UNCHANGED <<pos, hwX, hwY, Ri, X, Y, yCbCrMode, yCbCrModeOrig, operationType,
                 input, caller, mcus, planes, fills, slices, scan, quant, hw>>

\* The scan is decoded.  After one of a component come the headers of the
\* next, unless the instance counts every component as decoded.
BaselineDone ==
  /\ pc = "hw" /\ operationType = "BASELINE" /\ ~MoreRows
  /\ pc' = "idle"
  /\ UNCHANGED <<pos, hwX, hwY, Ri, X, Y, yCbCrMode, yCbCrModeOrig, operationType, findhufftable,
                 input, caller, mcus, planes, fills, slices, scan, tables, hw>>
ScanDone ==
  /\ pc = "hw" /\ operationType = "NONINTERLEAVED" /\ ~MoreRows
  /\ SliceCount' = 0 /\ SliceReadyForPause' = FALSE
  /\ pc' \in {"next", "idle"}
  /\ UNCHANGED <<pos, hwX, hwY, Ri, X, Y, yCbCrMode, yCbCrModeOrig, operationType, findhufftable,
                 input, caller, mcus, planes, fills, sliceHeight, scan, tables, hw>>

\* A bus or stream error ends the picture.
HwFails ==
  /\ pc = "hw"
  /\ pc' = "idle"
  /\ UNCHANGED <<pos, hwX, hwY, Ri, X, Y, yCbCrMode, yCbCrModeOrig, operationType, findhufftable,
                 input, caller, mcus, planes, fills, slices, scan, tables, hw>>

Next ==
  \/ \E p \in Pictures : Submit(p)
  \/ GetImageInfo \/ InfoUnsupported \/ Prepare \/ Enter
  \/ ReadDQT \/ ReadDHT \/ ReadDRI \/ ReadSOF \/ ReadSOS \/ ReadEOI
  \/ StartHW \/ SliceReady \/ Resume
  \/ BaselineDone \/ ScanDone \/ HwFails

Spec == Init /\ [][Next]_vars

-----------------------------------------------------------------------------
\* Properties.

TypeOK ==
  /\ pc \in {"idle", "info", "prepare", "enter", "read", "next", "start", "hw", "again"}
  /\ pic \in Pictures /\ pics \in 0 .. MaxPics /\ pos \in 1 .. Len(pic.segs)
  /\ colorConv \in ColorConvs
  /\ imageInfo \in [w : Nat, h : Nat, fmt : Formats] /\ sliceMbSet \in Nat /\ picSize \in Nat
  /\ hwX \in Nat /\ hwY \in Nat /\ Ri \in Nat /\ X \in Nat /\ Y \in Nat
  /\ yCbCrMode \in Formats /\ yCbCrModeOrig \in Formats
  /\ fillRight \in 0 .. 1 /\ fillBottom \in 0 .. 1 /\ fillX \in 0 .. 1 /\ fillY \in 0 .. 1
  /\ operationType \in {"BASELINE", "NONINTERLEAVED"}
  /\ componentId \in 1 .. 3 /\ amountOfQTables \in {0, 1, 3}
  /\ SliceCount \in Nat /\ sliceHeight \in 0 .. 255 /\ SliceReadyForPause \in BOOLEAN
  /\ Td \in [1 .. 3 -> TableIds] /\ Ta \in [1 .. 3 -> TableIds]
  /\ quant \in [0 .. 3 -> Table] /\ vlc \in [Classes -> [TableIds -> Table]]
  /\ findhufftable \in BOOLEAN
  /\ tabs \in [q : [1 .. 3 -> Table], ac : [1 .. 2 -> Table], dc : [1 .. 2 -> Table],
               cut : BOOLEAN]
  /\ regs.acBits \in [1 .. 2 -> Table] /\ regs.dcBits \in [1 .. 2 -> Table]

\* What GetImageInfo accepted, JpegDecDecode decodes: the slices oneframe
\* computes from the image information pass every check of the size and of
\* the slices, except that it asks for slices of non-interleaved pictures,
\* and the frame header is not refused the second time it is read.
AcceptedIsDecodable ==
  [][/\ pc = "enter" /\ pc' = "idle" => sliceMbSet # 0 /\ operationType = "NONINTERLEAVED"
     /\ pc = "read" /\ Seg.m = "SOF" => pc' # "idle"]_vars

Scanning == pc = "hw" /\ ~left.pause
CurrentScan == pic.segs[pos - 1].comps
Interleaved == Len(pic.sam) = 1 \/ Len(CurrentScan) = 3

\* The picture, or the slice, fits the memory oneframe gave it.
PictureFits ==
  IF colorConv THEN (pp.outW * pp.outH * 3) \div 2 <= picSize
  ELSE sizeLuma + sizeChroma <= picSize

\* What oneframe set up from the image information is what the frame header
\* makes of the same picture, read later by other code: the post-processor
\* expects the format and the size in macroblocks the decoder hands it and
\* does not scale, the slices were cut from the same rows, and the result,
\* or a slice of it, fits its memory.
HeadersAgree ==
  Scanning /\ Interleaved =>
    /\ pp.fmt = regs.mode /\ pp.inW = regs.w /\ pp.inH = regs.h
    /\ pp.hor = 0 /\ pp.ver = 0
    /\ numMcuInRow = FrameMcuInRow(imageInfo.fmt, imageInfo.w)
    /\ PictureFits

\* The blocks a scan codes, in pixels: whole MCUs when it is interleaved, the
\* blocks that hold samples of the component when it is not.
ScaledUp(n, factor, max) == (n * factor + max - 1) \div max
CodedWidth ==
  LET f == imageInfo.fmt IN
  IF Interleaved THEN UpTo(pic.X, 8 * Hmax[f])
  ELSE UpTo(ScaledUp(pic.X, Pattern[f][CurrentScan[1]][1], Hmax[f]), 8)
CodedHeight ==
  LET f == imageInfo.fmt IN
  IF Interleaved THEN UpTo(pic.Y, 8 * Vmax[f])
  ELSE UpTo(ScaledUp(pic.Y, Pattern[f][CurrentScan[1]][2], Vmax[f]), 8)

\* The hardware reads exactly the blocks the scan codes: its macroblocks less
\* a last half one.  A fill flag an earlier picture left is never cleared for
\* an interleaved one, and for chroma of an odd number of blocks only fillX
\* and fillY are set, which JpegDecInitHW does not use; both are set aside.
BlocksCounted ==
  Scanning /\ (Interleaved => ~left.fill) =>
    /\ fillX = 0 => 16 * regs.w - 8 * regs.fillRight = CodedWidth
    /\ fillY = 0 => 16 * regs.h - 8 * regs.fillBottom = CodedHeight

\* The slices of a picture are its rows, each decoded once: the height set for
\* the next slice is never zero and never beyond the picture.  SliceCount is
\* only cleared after non-interleaved scans, so a decoder that has decoded
\* anything else before is set aside.
SlicesAddUp ==
  pc = "hw" /\ sliceMbSet # 0 /\ ~colorConv /\ ~left.slices =>
    regs.sliceH >= 1 /\ rows + regs.sliceH <= regs.h

\* The table last defined in the stream before this scan.
LastTable(i, m, cl, id) ==
  LET Is(j) == /\ pic.segs[j].m = m /\ pic.segs[j].id = id
               /\ m = "DHT" => pic.segs[j].cl = cl IN
  i \in 1 .. pos - 1 /\ Is(i) /\ \A j \in i + 1 .. pos - 1 : ~Is(j)

\* The table of a component in the memory of the hardware, its bits too.
HwTable(t, sel, c) == IF Interleaved THEN t[1 + sel[c]] ELSE t[1]
HwQTable(c) == IF Interleaved THEN tabs.q[c] ELSE tabs.q[1]
OwnTable(cl, c, s) ==
  LET id   == IF cl = "ac" THEN s.ta ELSE s.td
      t    == IF cl = "ac" THEN tabs.ac ELSE tabs.dc
      bits == IF cl = "ac" THEN regs.acBits ELSE regs.dcBits
      sel  == IF cl = "ac" THEN regs.ac ELSE regs.dc IN
  \A i \in 1 .. pos - 1 : \A k \in 1 .. Len(s.comps) :
    s.comps[k] = c /\ LastTable(i, "DHT", cl, id[k]) =>
      HwTable(t, sel, c) = pic.segs[i].v /\ HwTable(bits, sel, c) = pic.segs[i].v

\* The tables of the components of this scan, and those of the first AC table
\* a second one follows.
ScanTables ==
  LET s == pic.segs[pos - 1] IN
  /\ \A k \in 1 .. Len(s.comps) :
       LET c == s.comps[k] IN
       /\ OwnTable("ac", c, s) /\ OwnTable("dc", c, s)
       /\ \A i \in 1 .. pos - 1 :
            pic.tq[c] <= 1 /\ LastTable(i, "DQT", "", pic.tq[c]) => HwQTable(c) = pic.segs[i].v
  /\ tabs.cut => /\ Interleaved
                 /\ ~\E i \in 1 .. pos - 1 : LastTable(i, "DHT", "ac", 1 - Ta[1])

\* A picture is decoded with its own tables: each component with those that
\* the stream defined last under the identifier its headers name, through the
\* swap of the tables, the selectors, and the tables of earlier scans and
\* pictures.  The third and fourth quantisation table are never used; a first
\* Huffman AC table without a second, in a decoder that never had one, loses
\* its end; and the slice height of an earlier picture, which is never cleared,
\* cuts the scans of a non-interleaved one, whose tables the resumption
\* replaces by those of the standard.  The three are set aside.
OwnTables == Scanning /\ (Interleaved \/ ~left.height) => ScanTables

\* The restart interval is the picture's own: the last one its stream
\* defines, or none; that of an earlier picture is never cleared.
OwnRestart ==
  Scanning =>
    IF \E i \in 1 .. pos - 1 : pic.segs[i].m = "DRI"
    THEN regs.restart = pic.segs[LastDRI(pos)].n
    ELSE left.Ri \/ regs.restart = 0

OwnParameters == OwnTables /\ OwnRestart
=============================================================================
