-------------------------- MODULE JpegDecodeProofs --------------------------
(***************************************************************************)
(* Proofs about the decoder of rkjpeg, for all sequences of pictures: the  *)
(* control of JpegDecDecode (JpegDecode), and who owns its memory, for any *)
(* number of buffers, calls, failures and files (JpegBuffers).             *)
(***************************************************************************)
EXTENDS JpegDecode, JpegBuffers, FiniteSetTheorems, WellFoundedInduction, TLAPS

-----------------------------------------------------------------------------
(* Types                                                                   *)

LEMMA Steps == Next => \/ Info \/ \E p \in Pictures : Submit(p)
                       \/ Enter \/ SliceGoesOn \/ Marker
                       \/ StartHW \/ LoadBuffer \/ Failure \/ BufferEmpty \/ SliceReady
                       \/ Ready \/ Finish \/ EmptyScan
BY DEF Next, Info, Marker, Failure, Ready

LEMMA SizeType == ASSUME NEW p \in Pictures PROVE Len(p.toks) \in Nat /\ Len(p.toks) > 0
BY JpegDecodeAssumption DEF Picture

LEMMA TypeInit == Init => TypeOK
<1> SUFFICES ASSUME Init PROVE TypeOK
    OBVIOUS
<1>1. Len(pic.toks) \in Nat /\ Len(pic.toks) > 0 BY SizeType DEF Init
<1>2. MaxPics \in Nat BY JpegDecodeAssumption
<1>3. /\ componentId \in Components /\ components \in SUBSET Components
      /\ pfNeeded \in SUBSET Components
      /\ done \in SUBSET Jobs /\ job \in Jobs
    BY DEF Init, Components, Jobs
<1>4. ret \in Rets /\ operationType \in OpTypes BY DEF Init, Rets, OpTypes
<1>5. pos \in 1 .. Len(pic.toks) + 1 /\ pics \in 0 .. MaxPics BY <1>1, <1>2 DEF Init
<1> QED BY <1>3, <1>4, <1>5 DEF Init, TypeOK

LEMMA TypeInfoReturns ==
  ASSUME TypeOK, operationType' \in OpTypes, decoded' \in BOOLEAN, init' \in BOOLEAN,
         ret' \in Rets, pc' \in {"idle", "enter"},
         UNCHANGED <<pos, inputBufferEmpty, endOfImage, flags, slices, scans, hist,
                     pic, pics, colorConv, fresh>>
  PROVE  TypeOK'
<1>1. UNCHANGED <<components, pfNeeded, componentId, done, job>> BY DEF scans, hist
<1>2. UNCHANGED <<headerReady, imageReady>> BY DEF flags
<1>3. UNCHANGED <<SliceReadyForPause, sliceHeight>> BY DEF slices
<1>4. UNCHANGED nonInterleavedScanReady BY DEF scans
<1>5. UNCHANGED hwOk BY DEF hist
<1> HIDE DEF Rets, OpTypes, Jobs, Components
<1> QED BY <1>1, <1>2, <1>3, <1>4, <1>5 DEF TypeOK

LEMMA TypeInfo == TypeOK /\ (Info \/ \E p \in Pictures : Submit(p)) => TypeOK'
<1> SUFFICES ASSUME TypeOK, Info \/ \E p \in Pictures : Submit(p) PROVE TypeOK'
    OBVIOUS
<1>0. CodingMode \in OpTypes BY DEF CodingMode, OpTypes, TypeOK
<1>9. MaxPics \in Nat BY JpegDecodeAssumption
<1> USE <1>0, <1>9 DEF TypeOK, Decodes, Return, Rets, flags, slices, scans, hist, Jobs
<1>1. CASE InfoScan
    <2>1. init' \in BOOLEAN /\ decoded' \in BOOLEAN BY <1>1 DEF InfoScan
    <2>2. operationType' \in OpTypes BY <1>1 DEF InfoScan, OpTypes
    <2> HIDE <1>0
    <2> QED BY <1>1, <2>1, <2>2 DEF InfoScan
<1>2. CASE InfoUnsupported
    <2>1. operationType' \in OpTypes /\ decoded' \in BOOLEAN /\ init' \in BOOLEAN BY <1>2 DEF InfoUnsupported
    <2>2. ret' \in Rets /\ pc' \in {"idle", "enter"} BY <1>2 DEF InfoUnsupported
    <2> QED BY <1>2, <2>1, <2>2, TypeInfoReturns DEF InfoUnsupported
<1>3. CASE InfoNoMarker
    <2>1. operationType' \in OpTypes /\ decoded' \in BOOLEAN /\ init' \in BOOLEAN BY <1>3 DEF InfoNoMarker
    <2>2. ret' \in Rets /\ pc' \in {"idle", "enter"} BY <1>3 DEF InfoNoMarker
    <2> QED BY <1>3, <2>1, <2>2, TypeInfoReturns DEF InfoNoMarker
<1>4. CASE InfoLoopEnds
    <2>1. operationType' \in OpTypes /\ decoded' \in BOOLEAN /\ init' \in BOOLEAN BY <1>4 DEF InfoLoopEnds
    <2>2. ret' \in Rets /\ pc' \in {"idle", "enter"} BY <1>4 DEF InfoLoopEnds
    <2> QED BY <1>4, <2>1, <2>2, TypeInfoReturns DEF InfoLoopEnds
<1>5. CASE \E p \in Pictures : Submit(p)
    <2> PICK p \in Pictures : Submit(p) BY <1>5
    <2>1. Len(p.toks) \in Nat /\ Len(p.toks) > 0 BY SizeType
    <2>2. fresh' \in BOOLEAN
        <3>1. fresh' = Clean BY DEF Submit
        <3>2. Clean \in BOOLEAN BY DEF Clean
        <3> QED BY <3>1, <3>2
    <2>3. pics' \in 0 .. MaxPics /\ pos' \in 1 .. Len(pic'.toks) + 1 BY <2>1 DEF Submit
    <2>4. done' \in SUBSET Jobs /\ job' \in Jobs /\ hwOk' \in BOOLEAN /\ decoded' \in BOOLEAN
        BY DEF Submit
    <2> HIDE <1>0, <1>9
    <2> HIDE DEF Jobs, Rets
    <2> QED BY <2>2, <2>3, <2>4 DEF Submit
<1> QED BY <1>1, <1>2, <1>3, <1>4, <1>5 DEF Info

LEMMA TypeMarker == TypeOK /\ (Enter \/ SliceGoesOn \/ Marker) => TypeOK'
<1> SUFFICES ASSUME TypeOK, Enter \/ SliceGoesOn \/ Marker PROVE TypeOK'
    OBVIOUS
<1>0. Len(pic.toks) \in Nat /\ Len(pic.toks) > 0 BY SizeType DEF TypeOK
<1> USE <1>0 DEF TypeOK, Return, Rets, flags, slices, scans, hist, call, Size
<1>1. CASE Enter
    <2>1. pos' \in 1 .. Len(pic.toks) + 1 BY <1>1 DEF Enter
    <2>2. /\ headerReady' \in BOOLEAN /\ endOfImage' \in BOOLEAN
          /\ ret' \in Rets /\ pc' \in {"enter", "idle", "marker"}
        BY <1>1 DEF Enter
    <2> QED BY <1>1, <2>1, <2>2 DEF Enter
<1>2. CASE SliceGoesOn BY <1>2 DEF SliceGoesOn
<1> USE DEF Read, AtEnd
<1>3. CASE PassToken BY <1>3 DEF PassToken, OpTypes
<1>4. CASE ReadScan
    <2>1. Token \in {"SOS"} \union DOMAIN ScanOf /\ pos' \in 1 .. Len(pic.toks) + 1
        BY <1>4 DEF ReadScan
    <2>2. job' \in Jobs BY <1>4, <2>1 DEF ReadScan, Jobs, ScanTokens
    <2>3. \A t \in DOMAIN ScanOf : ScanOf[t] \in Components BY DEF ScanOf, Components
    <2>4. componentId' \in Components /\ pfNeeded' \in SUBSET Components
        BY <1>4, <2>1, <2>3 DEF ReadScan
    <2>5. operationType' \in OpTypes BY <1>4 DEF ReadScan, OpTypes
    <2>6. imageReady' \in BOOLEAN /\ headerReady' \in BOOLEAN BY <1>4 DEF ReadScan
    <2> HIDE DEF Rets
    <2> QED BY <1>4, <2>1, <2>2, <2>4, <2>5, <2>6 DEF ReadScan
<1>5. CASE ReadBadScan
    <2>1. pos' \in 1 .. Len(pic.toks) + 1 BY <1>5 DEF ReadBadScan
    <2>2. pfNeeded' \in SUBSET Components BY <1>5 DEF ReadBadScan
    <2>3. ret' \in Rets /\ pc' \in {"enter", "idle"} BY <1>5 DEF ReadBadScan
    <2> HIDE DEF Rets
    <2> QED BY <1>5, <2>1, <2>2, <2>3 DEF ReadBadScan
<1>6. CASE ReadRefused BY <1>6 DEF ReadRefused
<1>7. CASE ReadEnd BY <1>7 DEF ReadEnd
<1>8. CASE ReadLoneFF BY <1>8 DEF ReadLoneFF
<1> QED BY <1>1, <1>2, <1>3, <1>4, <1>5, <1>6, <1>7, <1>8 DEF Marker

LEMMA TypeHardware ==
  TypeOK /\ (StartHW \/ LoadBuffer \/ Failure \/ BufferEmpty \/ SliceReady \/ Ready
             \/ Finish \/ EmptyScan) => TypeOK'
<1> SUFFICES ASSUME TypeOK,
                    StartHW \/ LoadBuffer \/ Failure \/ BufferEmpty \/ SliceReady \/ Ready
                    \/ Finish \/ EmptyScan
             PROVE  TypeOK'
    OBVIOUS
<1>0. Len(pic.toks) \in Nat /\ Len(pic.toks) > 0 BY SizeType DEF TypeOK
<1> USE <1>0 DEF TypeOK, Return, Rets, Answer, flags, slices, scans, hist, call
<1>1. CASE StartHW
    <2>1. nonInterleavedScanReady' \in BOOLEAN /\ sliceHeight' \in BOOLEAN BY <1>1 DEF StartHW
    <2>2. job' \in Jobs BY <1>1 DEF StartHW, Jobs
    <2> QED BY <1>1, <2>1, <2>2 DEF StartHW
<1>2. CASE LoadBuffer
    <2>1. pos' \in 1 .. Len(pic.toks) + 1 BY <1>2 DEF LoadBuffer, Size
    <2> HIDE DEF Rets
    <2> QED BY <1>2, <2>1, ZenonT(30) DEF LoadBuffer
<1>3. CASE BusError BY <1>3 DEF BusError
<1>4. CASE StreamError BY <1>4 DEF StreamError
<1>5. CASE WaitFails BY <1>5 DEF WaitFails
<1>6. CASE BufferEmpty BY <1>6 DEF BufferEmpty
<1>7. CASE SliceReady BY <1>7 DEF SliceReady
<1>8. CASE BaselineDone BY <1>8 DEF BaselineDone, Finished
<1>9. CASE ScanDone
    <2>1. pos' \in 1 .. Len(pic.toks) + 1 BY <1>9 DEF ScanDone, Size
    <2>2. /\ nonInterleavedScanReady' \in BOOLEAN /\ imageReady' \in BOOLEAN
          /\ endOfImage' \in BOOLEAN
        BY <1>9 DEF ScanDone, Complete
    <2>3. components' \in SUBSET Components BY <1>9 DEF ScanDone
    <2>4. done' \in SUBSET Jobs /\ job' \in Jobs BY <1>9 DEF ScanDone, Finished
    <2>5. hwOk' \in BOOLEAN BY <1>9 DEF ScanDone
    <2> QED BY <1>9, <2>1, <2>2, <2>3, <2>4, <2>5, ZenonT(30) DEF ScanDone
<1>10. CASE Finish BY <1>10, ZenonT(30) DEF Finish, FinishBase, FinishKeeps
<1> HIDE DEF Rets
<1>11. CASE EmptyScan BY <1>11 DEF EmptyScan, FinishBase, FinishKeeps
<1>12. CASE ScanLost BY <1>12 DEF ScanLost, Finished
<1> QED BY <1>1, <1>2, <1>3, <1>4, <1>5, <1>6, <1>7, <1>8, <1>9, <1>10, <1>11, <1>12
        DEF Failure, Ready
\* The parser never leaves the stream: JpegDecDecode reads tokens 1 .. Size of
\* the picture in the buffer, whatever an earlier picture left in the flags.
THEOREM TypeCorrect == Spec => []TypeOK
<1>1. TypeOK /\ UNCHANGED vars => TypeOK'
      BY DEF TypeOK, vars, call, flags, slices, scans, hist
<1>2. TypeOK /\ [Next]_vars => TypeOK'
      BY <1>1, Steps, TypeInfo, TypeMarker, TypeHardware
<1> QED BY TypeInit, <1>2, PTL DEF Spec
-----------------------------------------------------------------------------
(* The scan header left for the next picture                               *)

\* JpegDecNextScanHdrs begins by forgetting the header, and JpegDecDecode
\* reads no more than the first marker with one: the two places where a call
\* could return and leave it.
HeaderInv ==
  /\ LeftoverHeader
  /\ pos \in Nat
  /\ pc = "next" => ~headerReady
  /\ pc = "marker" /\ headerReady => pos = 1
  /\ pc = "info" => ~decoded
  /\ pc \notin {"idle", "info"} => decoded

LEMMA HeaderInit == Init => HeaderInv
BY DEF Init, HeaderInv, LeftoverHeader, Idle

LEMMA HeaderInfo == HeaderInv /\ (Info \/ \E p \in Pictures : Submit(p)) => HeaderInv'
<1> SUFFICES ASSUME HeaderInv, Info \/ \E p \in Pictures : Submit(p) PROVE HeaderInv'
    OBVIOUS
<1> USE DEF HeaderInv, LeftoverHeader, Idle, Decodes, Return, Again, flags, call
<1>1. CASE InfoScan BY <1>1 DEF InfoScan
<1>2. CASE InfoUnsupported BY <1>2 DEF InfoUnsupported
<1>3. CASE InfoNoMarker BY <1>3 DEF InfoNoMarker
<1>4. CASE InfoLoopEnds BY <1>4 DEF InfoLoopEnds
<1>5. CASE \E p \in Pictures : Submit(p) BY <1>5 DEF Submit
<1> QED BY <1>1, <1>2, <1>3, <1>4, <1>5 DEF Info

LEMMA HeaderMarker == HeaderInv /\ (Enter \/ SliceGoesOn \/ Marker) => HeaderInv'
<1> SUFFICES ASSUME HeaderInv, Enter \/ SliceGoesOn \/ Marker PROVE HeaderInv'
    OBVIOUS
<1> USE DEF HeaderInv, LeftoverHeader, Idle, Return, Again, flags, call
<1>1. CASE Enter BY <1>1 DEF Enter
<1>2. CASE SliceGoesOn BY <1>2 DEF SliceGoesOn
<1>3. CASE PassToken BY <1>3 DEF PassToken, Read, InLoop, Token, AtEnd
<1>4. CASE ReadScan BY <1>4 DEF ReadScan, Read, InLoop
<1>5. CASE ReadBadScan BY <1>5 DEF ReadBadScan, Read, InLoop, Token, AtEnd
<1>6. CASE ReadRefused BY <1>6 DEF ReadRefused, Read, InLoop, Token, AtEnd
<1>7. CASE ReadEnd BY <1>7 DEF ReadEnd, Read, InLoop, Token, AtEnd
<1>8. CASE ReadLoneFF BY <1>8 DEF ReadLoneFF, Read, InLoop, Token, AtEnd
<1> QED BY <1>1, <1>2, <1>3, <1>4, <1>5, <1>6, <1>7, <1>8 DEF Marker

LEMMA HeaderHardware ==
  HeaderInv /\ (StartHW \/ LoadBuffer \/ Failure \/ BufferEmpty \/ SliceReady \/ Ready
                \/ Finish \/ EmptyScan) => HeaderInv'
<1> SUFFICES ASSUME HeaderInv,
                    StartHW \/ LoadBuffer \/ Failure \/ BufferEmpty \/ SliceReady \/ Ready
                    \/ Finish \/ EmptyScan
             PROVE  HeaderInv'
    OBVIOUS
<1> USE DEF HeaderInv, LeftoverHeader, Idle, Return, Again, Answer, flags, call
<1>1. CASE StartHW BY <1>1 DEF StartHW
<1>2. CASE LoadBuffer BY <1>2 DEF LoadBuffer
<1>3. CASE BusError BY <1>3 DEF BusError
<1>4. CASE StreamError BY <1>4 DEF StreamError
<1>5. CASE WaitFails BY <1>5 DEF WaitFails
<1>6. CASE BufferEmpty BY <1>6 DEF BufferEmpty
<1>7. CASE SliceReady BY <1>7 DEF SliceReady
<1>8. CASE BaselineDone BY <1>8 DEF BaselineDone
<1>9. CASE ScanDone BY <1>9 DEF ScanDone
<1>10. CASE Finish BY <1>10 DEF Finish, FinishBase, FinishKeeps
<1>11. CASE EmptyScan BY <1>11 DEF EmptyScan, FinishBase, FinishKeeps
<1>12. CASE ScanLost BY <1>12 DEF ScanLost
<1> QED BY <1>1, <1>2, <1>3, <1>4, <1>5, <1>6, <1>7, <1>8, <1>9, <1>10, <1>11, <1>12
        DEF Failure, Ready

\* Only a failed wait, a refused header or a call refused before its markers
\* leaves a scan header to the next picture (JpegDecDecode).
THEOREM LeftoverHeaderThm == Spec => []LeftoverHeader
<1>1. HeaderInv /\ UNCHANGED vars => HeaderInv'
      BY DEF HeaderInv, LeftoverHeader, Idle, vars, call, flags
<1>2. HeaderInv /\ [Next]_vars => HeaderInv'
      BY <1>1, Steps, HeaderInfo, HeaderMarker, HeaderHardware
<1>3. HeaderInv => LeftoverHeader BY DEF HeaderInv
<1> QED BY HeaderInit, <1>2, <1>3, PTL DEF Spec
-----------------------------------------------------------------------------
(* An announced frame is a decoded one                                     *)

DoneComps == {ScanOf[t] : t \in done \cap DOMAIN ScanOf}
Honest    == "SOS" \in done \/ DOMAIN ScanOf \subseteq done
Has(c)    == "SOS" \in done \/ c \in DoneComps

\* The header the hardware was started with is the one of its job.
JobKnown ==
  headerReady => \/ job = "SOS"
                 \/ /\ job \in DOMAIN ScanOf /\ componentId = ScanOf[job]
                    /\ operationType # "BASELINE"

\* What holds while the picture of a clean decoder is decoded and the hardware
\* does its work: components counts only finished scans, imageReady only
\* finished pictures, and the hardware is started without a header only for a
\* component it has finished.
FrameInv ==
  fresh /\ hwOk =>
    /\ \A c \in components : Has(c)
    /\ imageReady => Honest
    /\ pc \in {"enter", "marker", "start", "hw"} => JobKnown
    /\ pc \in {"enter", "marker"} /\ headerReady => SliceReadyForPause
    /\ pc \in {"start", "hw"} /\ ~headerReady => operationType # "BASELINE"
    /\ pc \in {"start", "hw"} /\ ~headerReady => Has(componentId)
    /\ pc = "next" => operationType # "BASELINE" /\ ~headerReady /\ Has(componentId)
    /\ pc = "finish" => imageReady
    /\ pc = "info" => ~headerReady
    /\ Idle /\ ret = "FRAME_READY" => Honest

\* HeaderInv says when decoded holds.
IInv == HeaderInv /\ FrameInv

LEMMA FrameInit == Init => FrameInv
BY DEF Init, FrameInv, Idle

LEMMA HasMonotone == ASSUME NEW c, Has(c), done \subseteq done' PROVE Has(c)'
BY DEF Has, DoneComps

\* The three components come from three scans.
LEMMA AllComponents ==
  ASSUME NEW D,
         \A c \in Components : "SOS" \in D \/ c \in {ScanOf[t] : t \in D \cap DOMAIN ScanOf}
  PROVE  "SOS" \in D \/ DOMAIN ScanOf \subseteq D
<1> SUFFICES ASSUME "SOS" \notin D PROVE DOMAIN ScanOf \subseteq D
    OBVIOUS
<1>1. \A c \in Components : \E t \in D \cap DOMAIN ScanOf : ScanOf[t] = c
    OBVIOUS
<1>2. /\ DOMAIN ScanOf = {"SOS1", "SOS2", "SOS3"}
      /\ ScanOf["SOS1"] = 1 /\ ScanOf["SOS2"] = 2 /\ ScanOf["SOS3"] = 3
    BY DEF ScanOf
<1> QED BY <1>1, <1>2 DEF Components

LEMMA FrameInfo == IInv /\ (Info \/ \E p \in Pictures : Submit(p)) => FrameInv'
<1> SUFFICES ASSUME IInv, Info \/ \E p \in Pictures : Submit(p) PROVE FrameInv'
    OBVIOUS
<1> USE DEF IInv, HeaderInv, FrameInv, JobKnown, Has, DoneComps, Honest, Idle, Decodes,
            Return, Again, flags, call, scans, slices, hist
<1>1. CASE InfoScan BY <1>1 DEF InfoScan
<1>2. CASE InfoUnsupported BY <1>2 DEF InfoUnsupported
<1>3. CASE InfoNoMarker BY <1>3 DEF InfoNoMarker
<1>4. CASE InfoLoopEnds BY <1>4 DEF InfoLoopEnds
<1>5. CASE \E p \in Pictures : Submit(p)
    <2>1. pc' = "info" /\ ~decoded' BY <1>5 DEF Submit
    <2>2. fresh' => components' = {} /\ ~imageReady' /\ ~headerReady'
        <3>1. fresh' = Clean BY <1>5 DEF Submit
        <3>2. fresh' => Clean BY <3>1, Zenon
        <3>3. Clean => components = {} /\ ~imageReady /\ ~headerReady BY DEF Clean
        <3>4. components' = components /\ imageReady' = imageReady /\ headerReady' = headerReady
            BY <1>5 DEF Submit
        <3> QED BY <3>2, <3>3, <3>4
    <2> QED BY <2>1, <2>2
<1> QED BY <1>1, <1>2, <1>3, <1>4, <1>5 DEF Info

LEMMA FrameMarker == IInv /\ (Enter \/ SliceGoesOn \/ Marker) => FrameInv'
<1> SUFFICES ASSUME IInv, Enter \/ SliceGoesOn \/ Marker PROVE FrameInv'
    OBVIOUS
<1> USE DEF IInv, HeaderInv, FrameInv, JobKnown, Has, DoneComps, Honest, Idle,
            Return, Again, flags, call, scans, slices, hist
<1>1. CASE Enter BY <1>1 DEF Enter
<1>2. CASE SliceGoesOn BY <1>2 DEF SliceGoesOn
<1>3. CASE PassToken BY <1>3 DEF PassToken, Read, InLoop
<1>4. CASE ReadScan BY <1>4 DEF ReadScan, Read, InLoop
<1>5. CASE ReadBadScan BY <1>5 DEF ReadBadScan, Read, InLoop, Token, AtEnd
<1>6. CASE ReadRefused BY <1>6 DEF ReadRefused, Read, InLoop
<1>7. CASE ReadEnd BY <1>7 DEF ReadEnd, Read, InLoop
<1>8. CASE ReadLoneFF BY <1>8 DEF ReadLoneFF, Read, InLoop
<1> QED BY <1>1, <1>2, <1>3, <1>4, <1>5, <1>6, <1>7, <1>8 DEF Marker

LEMMA FrameScanDone == IInv /\ ScanDone => FrameInv'
<1> SUFFICES ASSUME IInv, ScanDone, fresh, hwOk' PROVE FrameInv'
    BY DEF ScanDone, FrameInv, call
<1>1. fresh /\ hwOk /\ FrameInv BY DEF IInv, ScanDone, Answer
<1>2. done \subseteq done' /\ job \in done' BY DEF ScanDone, Finished
<1>3. Has(componentId)'
    <2>1. CASE headerReady
        <3>1. job = "SOS" \/ (job \in DOMAIN ScanOf /\ componentId = ScanOf[job])
            BY <1>1, <2>1 DEF FrameInv, JobKnown, ScanDone, Answer
        <3> QED BY <3>1, <1>2 DEF Has, DoneComps, ScanDone
    <2>2. CASE ~headerReady
        <3>1. Has(componentId) BY <1>1, <2>2 DEF FrameInv, ScanDone, Answer
        <3>2. componentId' = componentId BY DEF ScanDone
        <3> QED BY <3>1, <3>2, <1>2 DEF Has, DoneComps
    <2> QED BY <2>1, <2>2
<1>4. \A c \in components' : Has(c)'
    <2> TAKE c \in components'
    <2>1. CASE c \in components
        BY <2>1, <1>1, <1>2, HasMonotone DEF FrameInv
    <2>2. CASE c = componentId
        BY <2>2, <1>3 DEF Has, DoneComps, ScanDone
    <2> QED BY <2>1, <2>2 DEF ScanDone
<1>5. imageReady' => Honest'
    <2>1. CASE imageReady BY <2>1, <1>1, <1>2 DEF FrameInv, Honest
    <2>2. CASE Complete
        <3>1. \A c \in Components : Has(c)' BY <2>2, <1>4 DEF Complete
        <3> QED BY <3>1, AllComponents DEF Has, DoneComps, Honest
    <2> QED BY <2>1, <2>2 DEF ScanDone
<1>6. pc' \in {"finish", "next"} /\ (pc' = "finish" => imageReady')
    BY DEF ScanDone
<1>7. operationType' # "BASELINE" /\ (pc' = "next" => ~headerReady')
    BY DEF ScanDone
<1> QED BY <1>3, <1>4, <1>5, <1>6, <1>7 DEF FrameInv, Idle

LEMMA FrameScanLost == IInv /\ ScanLost => FrameInv'
<1> SUFFICES ASSUME IInv, ScanLost, fresh, hwOk' PROVE FrameInv'
    BY DEF ScanLost, FrameInv, call
<1>1. fresh /\ hwOk /\ FrameInv BY DEF IInv, ScanLost, Answer
<1>2. done \subseteq done' /\ UNCHANGED <<components, imageReady>> /\ pc' = "lost"
    BY DEF ScanLost, Finished, scans, flags
<1>3. \A c \in components' : Has(c)' BY <1>1, <1>2, HasMonotone DEF FrameInv
<1>4. imageReady' => Honest' BY <1>1, <1>2 DEF FrameInv, Honest
<1> QED BY <1>2, <1>3, <1>4 DEF FrameInv, Idle

LEMMA FrameBaselineDone == IInv /\ BaselineDone => FrameInv'
<1> SUFFICES ASSUME IInv, BaselineDone, fresh, hwOk' PROVE FrameInv'
    BY DEF BaselineDone, FrameInv, call
<1>1. fresh /\ hwOk /\ FrameInv BY DEF IInv, BaselineDone, Answer
<1>2. job = "SOS" BY <1>1 DEF FrameInv, JobKnown, BaselineDone, Answer
<1>3. "SOS" \in done' BY <1>2 DEF BaselineDone, Finished
<1> QED BY <1>3 DEF FrameInv, Has, Honest, Idle, BaselineDone

LEMMA FrameHardware ==
  IInv /\ (StartHW \/ LoadBuffer \/ Failure \/ BufferEmpty \/ SliceReady
           \/ Finish \/ EmptyScan) => FrameInv'
<1> SUFFICES ASSUME IInv,
                    StartHW \/ LoadBuffer \/ Failure \/ BufferEmpty \/ SliceReady
                    \/ Finish \/ EmptyScan
             PROVE  FrameInv'
    OBVIOUS
<1> USE DEF IInv, HeaderInv, FrameInv, JobKnown, Has, DoneComps, Honest, Idle, Return, Again,
            Answer, flags, call, scans, slices, hist
<1>1. CASE StartHW BY <1>1 DEF StartHW
<1>2. CASE LoadBuffer BY <1>2 DEF LoadBuffer
<1>3. CASE BusError BY <1>3 DEF BusError
<1>4. CASE StreamError BY <1>4 DEF StreamError
<1>5. CASE WaitFails BY <1>5 DEF WaitFails
<1>6. CASE BufferEmpty BY <1>6 DEF BufferEmpty
<1>7. CASE SliceReady BY <1>7 DEF SliceReady
<1>8. CASE Finish BY <1>8 DEF Finish, FinishBase, FinishKeeps
<1>9. CASE EmptyScan BY <1>9 DEF EmptyScan, FinishBase, FinishKeeps
<1> QED BY <1>1, <1>2, <1>3, <1>4, <1>5, <1>6, <1>7, <1>8, <1>9 DEF Failure

\* JpegDecDecode says FRAME_READY for a picture of a clean decoder only when
\* the hardware has finished an interleaved scan or all three components of it.
THEOREM HonestFrameThm == Spec => []HonestFrame
<1>1. IInv /\ UNCHANGED vars => IInv'
      BY DEF IInv, HeaderInv, LeftoverHeader, FrameInv, JobKnown, Has, DoneComps, Honest, Idle,
             vars, call, flags, slices, scans, hist
<1>2. IInv /\ [Next]_vars => IInv'
    <2>1. IInv /\ Next => HeaderInv'
        BY Steps, HeaderInfo, HeaderMarker, HeaderHardware DEF IInv
    <2>2. IInv /\ Next => FrameInv'
        BY Steps, FrameInfo, FrameMarker, FrameHardware, FrameScanDone, FrameScanLost,
           FrameBaselineDone DEF Ready
    <2> QED BY <1>1, <2>1, <2>2 DEF IInv
<1>3. IInv => HonestFrame BY DEF IInv, FrameInv, HonestFrame, Honest
<1>4. Init => IInv BY HeaderInit, FrameInit DEF IInv
<1> QED BY <1>2, <1>3, <1>4, PTL DEF Spec

-----------------------------------------------------------------------------
(* What a frame leaves                                                     *)

\* While the picture of a clean decoder is decoded, imageReady is set only
\* between its last scan and its return, and a scan is started with neither
\* the empty buffer nor the earlier scan still to be taken up.
LeaveInv ==
  fresh =>
    /\ pc \in {"info", "enter", "marker", "start", "hw"} => ~imageReady
    /\ pc \in {"hw", "next", "finish"} => ~inputBufferEmpty
    /\ pc \in {"info", "enter", "marker", "hw"} => ~nonInterleavedScanReady
    /\ pc = "start" /\ nonInterleavedScanReady => ~SliceReadyForPause /\ ~inputBufferEmpty
    /\ pc = "next" => ~SliceReadyForPause /\ operationType # "BASELINE"
    /\ pc \in {"next", "finish"} /\ endOfImage => ~nonInterleavedScanReady
    /\ pc = "finish" /\ operationType = "BASELINE" => ~nonInterleavedScanReady
    /\ FrameLeavesClean

LEMMA LeaveInit == Init => LeaveInv
BY DEF Init, LeaveInv, FrameLeavesClean, Idle

LEMMA CleanSubmitted == ASSUME NEW p \in Pictures, Submit(p), fresh' PROVE Clean /\ Clean'
<1>1. fresh' = Clean /\ UNCHANGED <<flags, slices, scans, inputBufferEmpty>> BY DEF Submit
<1>2. Clean BY <1>1, Zenon
<1> QED BY <1>1, <1>2 DEF Clean, flags, slices, scans

LEMMA LeaveInfo ==
  HeaderInv /\ LeaveInv /\ (Info \/ \E p \in Pictures : Submit(p)) => LeaveInv'
<1> SUFFICES ASSUME HeaderInv, LeaveInv, Info \/ \E p \in Pictures : Submit(p) PROVE LeaveInv'
    OBVIOUS
<1> USE DEF HeaderInv, LeaveInv, FrameLeavesClean, Idle, Decodes, Return, Again, flags, call,
            scans, slices, hist
<1>1. CASE InfoScan BY <1>1 DEF InfoScan
<1>2. CASE InfoUnsupported BY <1>2 DEF InfoUnsupported
<1>3. CASE InfoNoMarker BY <1>3 DEF InfoNoMarker
<1>4. CASE InfoLoopEnds BY <1>4 DEF InfoLoopEnds
<1>5. CASE \E p \in Pictures : Submit(p)
    <2> PICK p \in Pictures : Submit(p) BY <1>5
    <2>1. pc' = "info" /\ ~decoded' BY DEF Submit
    <2>2. fresh' => ~imageReady' /\ ~nonInterleavedScanReady' BY CleanSubmitted DEF Clean
    <2> QED BY <2>1, <2>2
<1> QED BY <1>1, <1>2, <1>3, <1>4, <1>5 DEF Info

LEMMA LeaveMarker ==
  HeaderInv /\ LeaveInv /\ (Enter \/ SliceGoesOn \/ Marker) => LeaveInv'
<1> SUFFICES ASSUME HeaderInv, LeaveInv, Enter \/ SliceGoesOn \/ Marker PROVE LeaveInv'
    OBVIOUS
<1> USE DEF HeaderInv, LeaveInv, FrameLeavesClean, Idle, Return, Again, flags, call, scans, slices,
            hist
<1>1. CASE Enter BY <1>1 DEF Enter
<1>2. CASE SliceGoesOn BY <1>2 DEF SliceGoesOn
<1>3. CASE PassToken BY <1>3 DEF PassToken, Read, InLoop
<1>4. CASE ReadScan BY <1>4 DEF ReadScan, Read, InLoop
<1>5. CASE ReadBadScan BY <1>5 DEF ReadBadScan, Read, InLoop
<1>6. CASE ReadRefused BY <1>6 DEF ReadRefused, Read, InLoop
<1>7. CASE ReadEnd BY <1>7 DEF ReadEnd, Read, InLoop
<1>8. CASE ReadLoneFF BY <1>8 DEF ReadLoneFF, Read, InLoop
<1> QED BY <1>1, <1>2, <1>3, <1>4, <1>5, <1>6, <1>7, <1>8 DEF Marker

LEMMA LeaveHardware ==
  HeaderInv /\ LeaveInv
    /\ (StartHW \/ LoadBuffer \/ Failure \/ BufferEmpty \/ SliceReady \/ Ready
        \/ Finish \/ EmptyScan) => LeaveInv'
<1> SUFFICES ASSUME HeaderInv, LeaveInv,
                    StartHW \/ LoadBuffer \/ Failure \/ BufferEmpty \/ SliceReady \/ Ready
                    \/ Finish \/ EmptyScan
             PROVE  LeaveInv'
    OBVIOUS
<1> USE DEF HeaderInv, LeaveInv, FrameLeavesClean, Idle, Return, Again, Answer, flags, call, scans,
            slices, hist
<1>1. CASE StartHW BY <1>1 DEF StartHW
<1>2. CASE LoadBuffer BY <1>2 DEF LoadBuffer
<1>3. CASE BusError BY <1>3 DEF BusError
<1>4. CASE StreamError BY <1>4 DEF StreamError
<1>5. CASE WaitFails BY <1>5 DEF WaitFails
<1>6. CASE BufferEmpty BY <1>6 DEF BufferEmpty
<1>7. CASE SliceReady BY <1>7 DEF SliceReady
<1>8. CASE BaselineDone BY <1>8 DEF BaselineDone
<1>9. CASE ScanDone BY <1>9 DEF ScanDone
<1>10. CASE Finish BY <1>10 DEF Finish, FinishBase, FinishKeeps
<1>11. CASE EmptyScan BY <1>11 DEF EmptyScan, FinishBase, FinishKeeps
<1>12. CASE ScanLost BY <1>12 DEF ScanLost
<1> QED BY <1>1, <1>2, <1>3, <1>4, <1>5, <1>6, <1>7, <1>8, <1>9, <1>10, <1>11, <1>12
        DEF Failure, Ready

LEMMA StepHeader == HeaderInv /\ [Next]_vars => HeaderInv'
<1>1. HeaderInv /\ UNCHANGED vars => HeaderInv'
      BY DEF HeaderInv, LeftoverHeader, Idle, vars, call, flags
<1> QED BY <1>1, Steps, HeaderInfo, HeaderMarker, HeaderHardware

LEMMA AlwaysLeave == Spec => []LeaveInv
<1>1. LeaveInv /\ UNCHANGED vars => LeaveInv'
      BY DEF LeaveInv, FrameLeavesClean, Idle, vars, call, flags, slices, scans
<1>2. HeaderInv /\ LeaveInv /\ [Next]_vars => LeaveInv'
      BY <1>1, Steps, LeaveInfo, LeaveMarker, LeaveHardware
<1> QED BY HeaderInit, StepHeader, LeaveInit, <1>2, PTL DEF Spec

\* After a frame the next call parses the next picture from its start, for all
\* sequences of pictures, whatever the hardware answered.
THEOREM FrameLeavesCleanThm == Spec => []FrameLeavesClean
<1>1. LeaveInv => FrameLeavesClean BY DEF LeaveInv, FrameLeavesClean
<1> QED BY <1>1, AlwaysLeave, PTL

-----------------------------------------------------------------------------
(* The empty scan                                                          *)

HasAll == \E i \in 1 .. Len(pic.toks) : pic.toks[i] = "SOS"
HasOne == \E i \in 1 .. Len(pic.toks) : pic.toks[i] \in DOMAIN ScanOf

\* Components are wanted for the sake of an interleaved scan only, and all of
\* them are there by the scans of single ones only.
EmptyInv ==
  fresh =>
    /\ pc = "info" => components = {} /\ pfNeeded = {}
    /\ pc \notin {"idle", "info"} /\ pfNeeded # {} => HasAll
    /\ pc \notin {"idle", "info"} /\ ~HasOne => components \subseteq {componentId}
    /\ pc = "next" /\ imageReady => components = Components
    /\ pc = "finish" /\ operationType # "BASELINE" => components = Components
    /\ NoEmptyScan

LEMMA EmptyInit == Init => EmptyInv
BY DEF Init, EmptyInv, NoEmptyScan

LEMMA BothKinds == HasAll /\ HasOne => Mixed(pic)
BY DEF HasAll, HasOne, Mixed, Single

LEMMA EmptyInfo ==
  EmptyInv /\ (Info \/ \E p \in Pictures : Submit(p)) => EmptyInv'
<1> SUFFICES ASSUME EmptyInv, Info \/ \E p \in Pictures : Submit(p) PROVE EmptyInv'
    OBVIOUS
<1> USE DEF EmptyInv, NoEmptyScan, Decodes, Return, Again, flags, call, scans
<1>1. CASE InfoScan BY <1>1 DEF InfoScan
<1>2. CASE InfoUnsupported BY <1>2 DEF InfoUnsupported
<1>3. CASE InfoNoMarker BY <1>3 DEF InfoNoMarker
<1>4. CASE InfoLoopEnds BY <1>4 DEF InfoLoopEnds
<1>5. CASE \E p \in Pictures : Submit(p)
    <2> PICK p \in Pictures : Submit(p) BY <1>5
    <2>1. pc' = "info" BY DEF Submit
    <2>2. fresh' => components' = {} /\ pfNeeded' = {} BY CleanSubmitted DEF Clean
    <2> QED BY <2>1, <2>2
<1> QED BY <1>1, <1>2, <1>3, <1>4, <1>5 DEF Info

LEMMA EmptyMarker ==
  TypeOK /\ LeaveInv /\ EmptyInv /\ (Enter \/ SliceGoesOn \/ Marker) => EmptyInv'
<1> SUFFICES ASSUME TypeOK, LeaveInv, EmptyInv, Enter \/ SliceGoesOn \/ Marker PROVE EmptyInv'
    OBVIOUS
<1>0. (HasAll' <=> HasAll) /\ (HasOne' <=> HasOne)
    <2>1. pic' = pic BY DEF Enter, SliceGoesOn, Marker, PassToken, ReadScan, ReadBadScan,
                        ReadRefused, ReadEnd, ReadLoneFF, call
    <2> QED BY <2>1 DEF HasAll, HasOne
<1>9. Read({"SOS"} \union DOMAIN ScanOf) => (Token = "SOS" => HasAll) /\ (Token # "SOS" => HasOne)
    BY DEF Read, Token, AtEnd, Size, HasAll, HasOne, TypeOK
<1> USE DEF EmptyInv, NoEmptyScan, Return, Again, flags, call, scans
<1>1. CASE Enter BY <1>0, <1>1 DEF Enter
<1>2. CASE SliceGoesOn BY <1>0, <1>2 DEF SliceGoesOn
<1>3. CASE PassToken BY <1>0, <1>3 DEF PassToken, Read, InLoop
<1>4. CASE ReadScan BY <1>0, <1>4, <1>9 DEF ReadScan, Read, InLoop
<1>5. CASE ReadBadScan BY <1>0, <1>5 DEF ReadBadScan, Read, InLoop
<1>6. CASE ReadRefused BY <1>0, <1>6 DEF ReadRefused, Read, InLoop
<1>7. CASE ReadEnd BY <1>0, <1>7 DEF ReadEnd, Read, InLoop, LeaveInv
<1>8. CASE ReadLoneFF BY <1>0, <1>8 DEF ReadLoneFF, Read, InLoop, LeaveInv
<1> QED BY <1>1, <1>2, <1>3, <1>4, <1>5, <1>6, <1>7, <1>8 DEF Marker

LEMMA EmptyHardware ==
  TypeOK /\ LeaveInv /\ EmptyInv
    /\ (StartHW \/ LoadBuffer \/ Failure \/ BufferEmpty \/ SliceReady \/ Ready
        \/ Finish \/ EmptyScan) => EmptyInv'
<1> SUFFICES ASSUME TypeOK, LeaveInv, EmptyInv,
                    StartHW \/ LoadBuffer \/ Failure \/ BufferEmpty \/ SliceReady \/ Ready
                    \/ Finish \/ EmptyScan
             PROVE  EmptyInv'
    OBVIOUS
<1>0. (HasAll' <=> HasAll) /\ (HasOne' <=> HasOne) /\ pic' = pic
    <2>1. pic' = pic BY DEF StartHW, LoadBuffer, Failure, BusError, StreamError, WaitFails,
             BufferEmpty, SliceReady, Ready, BaselineDone, ScanDone, ScanLost, Finish, EmptyScan,
             FinishKeeps, call
    <2> QED BY <2>1 DEF HasAll, HasOne
<1> USE DEF EmptyInv, NoEmptyScan, Return, Again, Answer, flags, call, scans
<1>1. CASE StartHW BY <1>0, <1>1 DEF StartHW
<1>2. CASE LoadBuffer BY <1>0, <1>2 DEF LoadBuffer
<1>3. CASE BusError BY <1>0, <1>3 DEF BusError
<1>4. CASE StreamError BY <1>0, <1>4 DEF StreamError
<1>5. CASE WaitFails BY <1>0, <1>5 DEF WaitFails
<1>6. CASE BufferEmpty BY <1>0, <1>6 DEF BufferEmpty
<1>7. CASE SliceReady BY <1>0, <1>7 DEF SliceReady
<1>8. CASE BaselineDone BY <1>0, <1>8 DEF BaselineDone
<1>9. CASE ScanDone BY <1>0, <1>9 DEF ScanDone, Complete, LeaveInv
<1>10. CASE Finish BY <1>0, <1>10 DEF Finish, FinishBase, FinishKeeps
<1>12. CASE ScanLost BY <1>0, <1>12 DEF ScanLost
<1>11. CASE EmptyScan
    <2>1. fresh => components = Components /\ HasAll BY <1>11 DEF EmptyScan, FinishBase
    <2>2. fresh => HasOne
        <3> SUFFICES ASSUME fresh, ~HasOne PROVE FALSE OBVIOUS
        <3>1. Components \subseteq {componentId} BY <2>1, <1>11 DEF EmptyScan, FinishBase
        <3> QED BY <3>1 DEF Components
    <2>3. fresh => Mixed(pic') BY <1>0, <2>1, <2>2, BothKinds
    <2>4. /\ pc' = "crash" /\ fresh' = fresh /\ components' = components /\ pfNeeded' = pfNeeded
          /\ componentId' = componentId
        BY <1>11 DEF EmptyScan, FinishKeeps
    <2> HIDE DEF EmptyInv
    <2>5. fresh => Mixed(pic)' BY <1>0, <2>3 DEF Mixed, Single
    <2> QED BY <1>0, <1>11, <2>1, <2>2, <2>4, <2>5 DEF EmptyInv
<1> QED BY <1>1, <1>2, <1>3, <1>4, <1>5, <1>6, <1>7, <1>8, <1>9, <1>10, <1>11, <1>12
        DEF Failure, Ready

\* The decoder is never led to the scan whose buffer does not exist by a
\* picture that does not mix the two kinds of scans, for all such pictures.
THEOREM NoEmptyScanThm == Spec => []NoEmptyScan
<1>1. EmptyInv /\ UNCHANGED vars => EmptyInv'
      BY DEF EmptyInv, NoEmptyScan, Mixed, Single, HasAll, HasOne, vars, call, flags, scans
<1>2. TypeOK /\ LeaveInv /\ EmptyInv /\ [Next]_vars => EmptyInv'
      BY <1>1, Steps, EmptyInfo, EmptyMarker, EmptyHardware
<1>3. EmptyInv => NoEmptyScan BY DEF EmptyInv, NoEmptyScan
<1> QED BY <1>2, <1>3, EmptyInit, TypeCorrect, AlwaysLeave, PTL DEF Spec

-----------------------------------------------------------------------------
(* A good picture comes out                                                *)

\* A set of natural numbers that is not empty has a smallest one, and a
\* largest one if it is bounded.
LEMMA Smallest ==
  ASSUME NEW T, T \subseteq Nat, T # {}
  PROVE  \E i \in T : \A j \in T : i <= j
<1> DEFINE R == OpToRel(<, Nat)
<1>1. IsWellFoundedOn(R, Nat) BY NatLessThanWellFounded
<1>2. \A k, l \in Nat : <<l, k>> \in R <=> l < k BY DEF OpToRel
<1> HIDE DEF R
<1>3. PICK i \in T : \A j \in T : ~ (<<j, i>> \in R) BY <1>1, WFMin
<1>4. ASSUME NEW j \in T PROVE i <= j
    <2>1. i \in Nat /\ j \in Nat /\ ~(j < i) BY <1>2, <1>3
    <2> QED BY <2>1
<1> QED BY <1>4

LEMMA Largest ==
  ASSUME NEW n \in Nat, NEW D, D \subseteq 1 .. n, D # {}
  PROVE  \E i \in D : \A j \in D : j <= i
<1> DEFINE T == {k \in Nat : n - k \in D}
<1>0. \A d \in D : d \in 1 .. n /\ n - d \in Nat /\ n - (n - d) = d OBVIOUS
<1>1. T \subseteq Nat /\ (\A d \in D : n - d \in T) BY <1>0
<1>2. PICK k \in T : \A l \in T : k <= l BY <1>1, Smallest
<1>3. k \in Nat /\ n - k \in D BY <1>2
<1>4. ASSUME NEW j \in D PROVE j <= n - k BY <1>0, <1>1, <1>2, <1>3
<1> QED BY <1>3, <1>4

\* A good picture as an index sees it: headers, then its scan, its data, its end.
Shape(p) ==
  /\ Len(p.toks) \in Nat /\ Len(p.toks) > 2
  /\ \A i \in 1 .. Len(p.toks) :
       /\ p.toks[i] \in {"SOI", "DQT", "DHT", "SOF0", "SOS", "ECS", "EOI"}
       /\ (p.toks[i] = "SOS" <=> i = Len(p.toks) - 2)
       /\ (p.toks[i] = "ECS" <=> i = Len(p.toks) - 1)
       /\ (p.toks[i] = "EOI" <=> i = Len(p.toks))
  /\ \E i \in 1 .. Len(p.toks) : p.toks[i] = "SOF0"

LEMMA GoodShape == ASSUME NEW p \in Pictures, Good(p) PROVE Shape(p)
<1> DEFINE n == Len(p.toks)
           heads == {i \in 1 .. n : p.toks[i] \in ScanTokens}
<1>0. n \in Nat /\ n > 0 /\ (\A i \in 1 .. n : p.toks[i] \in Tokens) BY JpegDecodeAssumption DEF Picture
<1>1. /\ {i \in 1 .. n : p.toks[i] \in {"badDHT", "SOF2", "SOFx", "FF"}} = {}
      /\ {i \in 1 .. n : p.toks[i] \in {"EOI"}} = {n}
      /\ {i \in 1 .. n : p.toks[i] \in {"SOF0"}} # {}
      /\ n - 1 \in {i \in 1 .. n : p.toks[i] \in {"ECS"}}
    BY DEF Good
<1>2. PICK s \in 1 .. n : /\ p.toks[s] = "SOS" /\ heads = {s}
                           /\ \A i \in 1 .. n : p.toks[i] = "ECS" <=> i = s + 1
    <2>1. PICK s \in {i \in 1 .. n : p.toks[i] \in {"SOS"}} :
            heads = {s} /\ {i \in 1 .. n : p.toks[i] \in {"ECS"}} = {s + 1}
        BY DEF Good
    <2> HIDE DEF heads
    <2> QED BY <2>1
<1>3. s = n - 2 /\ n - 1 \in 1 .. n
    <2>1. n - 1 \in 1 .. n /\ p.toks[n - 1] = "ECS" BY <1>1
    <2>2. n - 1 = s + 1 BY <1>2, <2>1
    <2> QED BY <1>0, <2>1, <2>2
<1>4. \A i \in 1 .. n : p.toks[i] = "SOS" <=> i = n - 2
    <2>1. \A i \in 1 .. n : p.toks[i] = "SOS" => i \in heads BY DEF ScanTokens
    <2> HIDE DEF heads
    <2> QED BY <1>2, <1>3, <2>1
<1>5. \A i \in 1 .. n : p.toks[i] = "ECS" <=> i = n - 1 BY <1>0, <1>2, <1>3
<1>6. \A i \in 1 .. n : p.toks[i] = "EOI" <=> i = n BY <1>1
<1>7. \A i \in 1 .. n : p.toks[i] \in {"SOI", "DQT", "DHT", "SOF0", "SOS", "ECS", "EOI"}
    <2> SUFFICES ASSUME NEW i \in 1 .. n
                 PROVE  p.toks[i] \in {"SOI", "DQT", "DHT", "SOF0", "SOS", "ECS", "EOI"}
        OBVIOUS
    <2>1. p.toks[i] \notin {"badDHT", "SOF2", "SOFx", "FF"} BY <1>1
    <2>2. p.toks[i] \in ScanTokens => p.toks[i] = "SOS"
        <3>1. p.toks[i] \in ScanTokens => i \in heads OBVIOUS
        <3> HIDE DEF heads
        <3> QED BY <1>2, <1>3, <1>4, <3>1
    <2> QED BY <1>0, <2>1, <2>2 DEF Tokens, ScanTokens
<1>8. \E i \in 1 .. n : p.toks[i] = "SOF0" BY <1>1
<1>9. n > 2 BY <1>0, <1>3
<1> QED BY <1>0, <1>4, <1>5, <1>6, <1>7, <1>8, <1>9 DEF Shape

\* Before its scan it has nothing but headers.
LEMMA GoodHead ==
  ASSUME Shape(pic), NEW i \in 1 .. Size, i <= Size - 2
  PROVE  /\ pic.toks[i] \in {"SOI", "DQT", "DHT", "SOF0", "SOS"}
         /\ (i < Size - 2 => pic.toks[i] \in {"SOI", "DQT", "DHT", "SOF0"})
<1>0. Size \in Nat /\ Size > 2 /\ Size = Len(pic.toks) BY DEF Shape, Size
<1>1. pic.toks[i] \in {"SOI", "DQT", "DHT", "SOF0", "SOS", "ECS", "EOI"} BY <1>0 DEF Shape
<1>2. (pic.toks[i] = "SOS" <=> i = Size - 2) BY <1>0 DEF Shape
<1>3. (pic.toks[i] = "ECS" <=> i = Size - 1) BY <1>0 DEF Shape
<1>4. (pic.toks[i] = "EOI" <=> i = Size) BY <1>0 DEF Shape
<1>5. i # Size - 1 /\ i # Size BY <1>0
<1>6. pic.toks[i] # "ECS" /\ pic.toks[i] # "EOI" BY <1>3, <1>4, <1>5
<1>7. i < Size - 2 => pic.toks[i] # "SOS" BY <1>0, <1>2
<1> QED BY <1>1, <1>6, <1>7

\* JpegDecGetImageInfo stops at the scan and has seen a baseline frame.
LEMMA GoodInfo ==
  ASSUME Shape(pic)
  PROVE  Stop = Size - 2 /\ Stop < Size /\ pic.toks[Stop] = "SOS" /\ CodingMode = "BASELINE"
<1>0. Size \in Nat /\ Size > 2 /\ Size - 2 \in 1 .. Size /\ pic.toks[Size - 2] = "SOS"
    BY DEF Shape, Size
<1>1. Size - 2 \in Stops BY <1>0 DEF Stops, Passed
<1>2. \A i \in Stops : i \in Nat /\ Size - 2 <= i
    <2> SUFFICES ASSUME NEW i \in Stops, i < Size - 2 PROVE FALSE BY <1>0 DEF Stops
    <2>1. i \in 1 .. Size /\ i <= Size /\ pic.toks[i] \notin Passed BY <1>0 DEF Stops
    <2>2. pic.toks[i] \in {"SOI", "DQT", "DHT", "SOF0"} BY <1>0, <2>1, GoodHead
    <2> QED BY <2>1, <2>2 DEF Passed
<1>3. \E i \in Stops : \A j \in Stops : i <= j BY <1>1, <1>2
<1>4. Stop \in Stops /\ (\A j \in Stops : Stop <= j) BY <1>3 DEF Stop
<1>5. Stop = Size - 2 BY <1>0, <1>1, <1>2, <1>4
<1>6. CodingMode = "BASELINE"
    <2>1. PICK f \in 1 .. Size : pic.toks[f] = "SOF0" BY DEF Shape, Size
    <2>2. f < Stop
        <3>1. /\ (pic.toks[f] = "SOS" <=> f = Size - 2)
              /\ (pic.toks[f] = "ECS" <=> f = Size - 1)
              /\ (pic.toks[f] = "EOI" <=> f = Size)
            BY DEF Shape, Size
        <3>2. f # Size - 2 /\ f # Size - 1 /\ f # Size BY <2>1, <3>1
        <3> QED BY <1>0, <1>5, <3>2
    <2>3. f \in Frames /\ Frames \subseteq 1 .. Size BY <1>0, <1>5, <2>1, <2>2 DEF Frames
    <2>4. \E i \in Frames : \A j \in Frames : j <= i BY <1>0, <2>3, Largest
    <2> DEFINE last == CHOOSE i \in Frames : \A j \in Frames : j <= i
    <2>5. last \in Frames BY <2>4
    <2>6. pic.toks[last] = "SOF0" BY <1>0, <2>3, <2>5 DEF Frames, Shape, Size
    <2> QED BY <2>3, <2>6 DEF CodingMode
<1> QED BY <1>0, <1>5, <1>6

\* A good picture is read up to its scan and no further, as a baseline one.
Live == fresh /\ hwOk /\ Good(pic)
Decoding ==
  /\ ~inputBufferEmpty
  /\ pc \notin {"idle", "info"} => operationType = "BASELINE"
  /\ pc \notin {"next", "crash", "lost"}
  /\ pc = "marker" => pos <= Size - 2
  /\ Idle => ret = "FRAME_READY"
GoodInv == Live => Decoding

LEMMA GoodInit == Init => GoodInv
BY DEF Init, GoodInv, Decoding, Idle

\* What a step that keeps the picture may assume.
LEMMA GoodKept ==
  ASSUME TypeOK, GoodInv, UNCHANGED <<pic, fresh>>, hwOk' => hwOk, Live'
  PROVE  /\ fresh /\ Shape(pic) /\ Decoding /\ Size' = Size /\ Size \in Nat /\ Size > 2
         /\ pos \in 1 .. Size + 1
<1>1. pic' = pic /\ fresh' = fresh OBVIOUS
<1>2. fresh' /\ hwOk' /\ Good(pic)' BY DEF Live
<1>3. Good(pic) BY <1>1, <1>2
<1>4. fresh /\ Decoding BY <1>1, <1>2, <1>3 DEF GoodInv, Live
<1>5. Shape(pic) BY <1>3, GoodShape DEF TypeOK
<1>6. Size' = Size BY <1>1 DEF Size
<1>7. Size \in Nat /\ Size > 2 /\ pos \in 1 .. Size + 1 BY <1>5 DEF Shape, Size, TypeOK
<1> QED BY <1>4, <1>5, <1>6, <1>7

LEMMA GoodSubmit == ASSUME NEW p \in Pictures, Submit(p) PROVE GoodInv'
<1>1. fresh' => Clean' BY CleanSubmitted
<1>2. pc' = "info" BY DEF Submit
<1> QED BY <1>1, <1>2 DEF Clean, GoodInv, Live, Decoding, Idle

LEMMA GoodStart == ASSUME TypeOK, GoodInv, Info, Live' PROVE Decoding'
<1>1. UNCHANGED <<pic, fresh>> /\ hwOk' = hwOk
    BY DEF Info, InfoScan, InfoUnsupported, InfoNoMarker, InfoLoopEnds, Decodes, hist
<1>2. Shape(pic) /\ Decoding /\ Size \in Nat BY <1>1, GoodKept
<1>3. Stop < Size /\ Stop <= Size /\ pic.toks[Stop] = "SOS" /\ CodingMode = "BASELINE"
    BY <1>2, GoodInfo
<1>4. InfoScan BY <1>3 DEF Info, InfoUnsupported, InfoNoMarker, NoMarker, InfoLoopEnds
<1>5. pc' = "enter" /\ UNCHANGED inputBufferEmpty BY <1>3, <1>4 DEF InfoScan, Decodes
<1>6. operationType' = "BASELINE" BY <1>3, <1>4 DEF InfoScan, ScanOf
<1> QED BY <1>2, <1>5, <1>6 DEF Decoding, Idle

LEMMA GoodMarker ==
  ASSUME TypeOK, LeaveInv, GoodInv, Enter \/ SliceGoesOn \/ Marker, Live'
  PROVE  Decoding'
<1>1. UNCHANGED <<pic, fresh>> /\ hwOk' = hwOk
    BY DEF Enter, SliceGoesOn, Marker, PassToken, ReadScan, ReadBadScan, ReadRefused, ReadEnd,
           ReadLoneFF, call, hist
<1>2. /\ fresh /\ Shape(pic) /\ Decoding /\ Size' = Size /\ Size \in Nat /\ Size > 2
      /\ pos \in 1 .. Size + 1
    BY <1>1, GoodKept
<1>3. InLoop => /\ pc = "marker" /\ pos \in 1 .. Size /\ pos <= Size - 2
                /\ pic.toks[pos] \in {"SOI", "DQT", "DHT", "SOF0", "SOS"}
                /\ (pic.toks[pos] # "SOS" => pos + 1 <= Size - 2)
    <2> SUFFICES ASSUME InLoop
                 PROVE  /\ pc = "marker" /\ pos \in 1 .. Size /\ pos <= Size - 2
                        /\ pic.toks[pos] \in {"SOI", "DQT", "DHT", "SOF0", "SOS"}
                        /\ (pic.toks[pos] # "SOS" => pos + 1 <= Size - 2)
        OBVIOUS
    <2>1. pc = "marker" /\ pos \in 1 .. Size /\ pos <= Size - 2 BY <1>2 DEF InLoop, Decoding
    <2>2. pic.toks[pos] \in {"SOI", "DQT", "DHT", "SOF0", "SOS"} BY <1>2, <2>1, GoodHead
    <2>3. pos = Size - 2 => pic.toks[pos] = "SOS"
        <3>1. (pic.toks[pos] = "SOS" <=> pos = Size - 2) BY <1>2, <2>1 DEF Shape, Size
        <3> QED BY <3>1
    <2> QED BY <1>2, <2>1, <2>2, <2>3
<1> USE DEF Return, Again, flags, call, scans, slices
<1>4. CASE Enter
    <2>1. pos' = 1 /\ UNCHANGED <<operationType, inputBufferEmpty>> /\ pc = "enter"
        BY <1>2, <1>4 DEF Enter, LeaveInv
    <2>2. operationType = "BASELINE" BY <1>2, <2>1 DEF Decoding
    <2>3. pc' = "marker" BY <1>4, <2>2 DEF Enter
    <2> QED BY <1>2, <2>1, <2>2, <2>3 DEF Decoding, Idle
<1>5. CASE SliceGoesOn BY <1>2, <1>5 DEF SliceGoesOn, Decoding, Idle
<1>6. CASE PassToken
    <2>1. /\ pc = "marker" /\ pos' = pos + 1 /\ pos + 1 <= Size - 2 /\ pc' \in {"marker", "start"}
          /\ operationType' \in {operationType, "BASELINE"} /\ UNCHANGED inputBufferEmpty
        BY <1>3, <1>6 DEF PassToken, Read, Token
    <2> QED BY <1>2, <2>1 DEF Decoding, Idle
<1>7. CASE ReadScan
    <2>1. pc = "marker" /\ pic.toks[pos] = "SOS"
        BY <1>3, <1>7 DEF ReadScan, Read, Token, ScanOf
    <2>2. pc' = "start" /\ UNCHANGED <<operationType, inputBufferEmpty>>
        BY <1>7, <2>1 DEF ReadScan, Token
    <2> QED BY <1>2, <2>1, <2>2 DEF Decoding, Idle
<1>8. ~ReadBadScan BY <1>3 DEF ReadBadScan, Read, Token
<1>9. ~ReadRefused BY <1>3 DEF ReadRefused, Read, Token
<1>10. ~ReadEnd BY <1>3 DEF ReadEnd, Read, Token
<1>11. ~ReadLoneFF BY <1>3 DEF ReadLoneFF, Read, Token
<1> QED BY <1>4, <1>5, <1>6, <1>7, <1>8, <1>9, <1>10, <1>11 DEF Marker

LEMMA GoodHardware ==
  ASSUME TypeOK, LeaveInv, GoodInv, Live',
         StartHW \/ LoadBuffer \/ Failure \/ BufferEmpty \/ SliceReady \/ Ready \/ Finish \/ EmptyScan
  PROVE  Decoding'
<1>0. ~Failure /\ ~BufferEmpty
    BY DEF Failure, BusError, StreamError, WaitFails, BufferEmpty, Answer, Live
<1>1. UNCHANGED <<pic, fresh>> /\ (hwOk' => hwOk)
    <2> USE DEF Answer, call, hist, Finished
    <2>1. CASE StartHW BY <2>1 DEF StartHW
    <2>2. CASE LoadBuffer BY <2>2 DEF LoadBuffer
    <2>3. CASE SliceReady BY <2>3 DEF SliceReady
    <2>4. CASE Ready BY <2>4 DEF Ready, BaselineDone, ScanDone, ScanLost
    <2>5. CASE Finish BY <2>5 DEF Finish, FinishKeeps
    <2>6. CASE EmptyScan BY <2>6 DEF EmptyScan, FinishKeeps
    <2> QED BY <1>0, <2>1, <2>2, <2>3, <2>4, <2>5, <2>6
<1>2. fresh /\ Decoding /\ Size' = Size BY <1>1, GoodKept
<1> USE DEF Return, Again, flags, call, scans, slices
<1>3. CASE StartHW BY <1>2, <1>3 DEF StartHW, Decoding, Idle
<1>4. ~LoadBuffer BY <1>2 DEF LoadBuffer, Decoding
<1>5. CASE SliceReady BY <1>2, <1>5 DEF SliceReady, Answer, Decoding, Idle
<1>6. CASE BaselineDone BY <1>2, <1>6 DEF BaselineDone, Answer, Decoding, Idle
<1>7. ~ScanDone /\ ~ScanLost BY <1>2 DEF ScanDone, ScanLost, Answer, Decoding
<1>8. CASE Finish
    <2>1. pc = "finish" /\ UNCHANGED <<inputBufferEmpty, operationType>>
        BY <1>8 DEF Finish, FinishBase, FinishKeeps
    <2>2. operationType = "BASELINE" BY <1>2, <2>1 DEF Decoding
    <2>3. ret' = "FRAME_READY" /\ pc' = "idle" BY <1>8, <2>2 DEF Finish
    <2> QED BY <1>2, <2>1, <2>3 DEF Decoding, Idle
<1>9. ~EmptyScan BY <1>2 DEF EmptyScan, FinishBase, Decoding
<1> QED BY <1>0, <1>3, <1>4, <1>5, <1>6, <1>7, <1>8, <1>9 DEF Ready

\* A decoder that owes nothing to an earlier picture delivers a good baseline one
\* (JpegDecDecode), in however many slices and calls, when the hardware neither
\* fails nor runs dry.
THEOREM GoodPictureThm == Spec => []GoodPicture
<1>1. TypeOK /\ LeaveInv /\ GoodInv /\ [Next]_vars => GoodInv'
    <2> SUFFICES ASSUME TypeOK, LeaveInv, GoodInv, [Next]_vars, Live' PROVE Decoding'
        BY DEF GoodInv
    <2>1. CASE \E p \in Pictures : Submit(p) BY <2>1, GoodSubmit DEF GoodInv
    <2>2. CASE Info BY <2>2, GoodStart
    <2>3. CASE Enter \/ SliceGoesOn \/ Marker BY <2>3, GoodMarker
    <2>4. CASE StartHW \/ LoadBuffer \/ Failure \/ BufferEmpty \/ SliceReady \/ Ready \/ Finish \/ EmptyScan
        BY <2>4, GoodHardware
    <2>5. CASE UNCHANGED vars
        <3>1. UNCHANGED <<pic, fresh, hwOk>> BY <2>5 DEF vars, call, hist
        <3>2. Live BY <3>1 DEF Live
        <3>3. Decoding BY <3>2 DEF GoodInv
        <3> QED BY <2>5, <3>1, <3>3 DEF Decoding, Idle, Size, vars, call
    <2> QED BY <2>1, <2>2, <2>3, <2>4, <2>5, Steps
<1>2. GoodInv => GoodPicture BY DEF GoodInv, Live, Decoding, GoodPicture
<1> QED BY GoodInit, <1>1, <1>2, TypeCorrect, AlwaysLeave, PTL DEF Spec

-----------------------------------------------------------------------------
(* Who owns the memory                                                     *)

\* What a descriptor that is no buffer stands for; the tables of the kernel.
Names  == {"std", "caller", "dri", "vpu"}
Tables == [fds : [Fds -> Opened \union {NULL}], hnds : [Numbers -> Objects \union {NULL}],
           maps : [Numbers -> Objects \union {NULL}]]
\* No allocation stopped half way and no release was a stray one.
Intact == faults \intersect {"half", "stray"} = {}

\* Whole and the ownership of the buffers, in tables k that need not be the present ones.
WholeIn(k, b) == /\ b.of # NULL /\ k.fds[b.fd] = b.of
                 /\ b.hnd # 0 /\ k.hnds[b.hnd] = b.of /\ b.vir # NULL /\ k.maps[b.vir] = b.of

\* The buffers s, p and t own all of the device's memory that is in use, each its own.
Sound(k, b) == IF b.of = NULL THEN b.vir = NULL ELSE WholeIn(k, b)
OwnIn(k, s, p, t) ==
  /\ Sound(k, s) /\ Sound(k, p) /\ Sound(k, t)
  /\ (s.of # NULL => s.of # p.of /\ s.of # t.of) /\ (p.of # NULL => p.of # t.of)
  /\ \A n \in Fds : k.fds[n] \in Objects => \E b \in {s, p, t} : b.of = k.fds[n] /\ b.fd = n
  /\ \A n \in Numbers : k.hnds[n] # NULL => \E b \in {s, p, t} : b.of = k.hnds[n] /\ b.hnd = n
  /\ \A n \in Numbers : k.maps[n] # NULL => \E b \in {s, p, t} : b.of = k.maps[n] /\ b.vir = n

\* Which of them is in use at which stage.
Released == {"free picture", "free tables", "free copy", "free instance", "close", "closed"}
InUse ==
  /\ streamMem.of # NULL \/ pictureMem.of # NULL \/ pTableBase.of # NULL => ctx
  /\ outLumaBuffer.of = NULL
  /\ stage \in {"info", "picture", "decode", "hw"} => streamMem.of # NULL
  /\ stage \in {"new", "init"} \union Released => streamMem.of = NULL
  /\ pTableBase.of # NULL => allocated /\ socket # 0
  /\ stage = "hw" => allocated
  /\ allocated => pTableBase.of # NULL \/ stage \in {"free copy", "free instance", "close", "closed"}
  /\ stage \in {"free copy", "free instance", "close", "closed"} => pTableBase.of = NULL
  /\ stage # "crashed" => (pictureMem.of # NULL <=> stage \in {"decode", "hw", "end"} /\ owned)
  /\ stage \in {"open", "stream", "copy", "info", "picture"} => ~owned
  /\ stage \in {"decode", "hw"} => (owned <=> out_phyaddr = 0)
  /\ stage \in {"decode", "hw"} /\ out_phyaddr # 0 => pictureMem.fd = out_phyaddr
  /\ stage = "end" /\ owned => out_phyaddr = 0
  /\ stage \in {"stream", "copy", "info", "picture", "decode", "hw", "free tables", "free copy",
                "free instance"} => socket # 0
  /\ stage \in {"open", "close", "closed"} => socket = 0

\* The descriptors that are not buffers.
Descriptors ==
  /\ \A n \in 0 .. 2 : fds[n] = "std"
  /\ socket # 0 => fds[socket] = "vpu"
  /\ out_phyaddr # 0 => fds[out_phyaddr] = "caller"
  /\ \A m, n \in Fds : fds[m] = "dri" /\ fds[n] = "dri" => m = n
  /\ (\E n \in Fds : fds[n] = "dri") <=> (ctx /\ stage # "closed")
  /\ stage = "new" => fds[3] = NULL /\ ~ctx

\* The inductive invariant: every object of the device that a number stands for is owned
\* by the stream, the picture or the tables, and the stage of the call says by which.
Own == OwnIn(K, streamMem, pictureMem, pTableBase)
OwnershipInv == BuffersTypeOK /\ (Intact => Own /\ InUse /\ Descriptors)

-----------------------------------------------------------------------------
(* The tables of the kernel                                                *)

\* The constants: NULL is no object, number or name.
LEMMA Nulls ==
  /\ NULL \notin Objects /\ NULL \notin Names /\ NULL \notin Numbers /\ NULL \notin Fds
  /\ Objects \intersect Names = {} /\ 0 \notin Numbers
  /\ Opened = Objects \union Names /\ MaxNumber \in Nat /\ MaxNumber >= 3
  /\ Fds \subseteq Nat /\ Numbers \subseteq Fds /\ 0 .. 2 \subseteq Fds
BY JpegBuffersAssumption DEF Names, Numbers, Fds, Opened

\* The number the kernel hands out is a free one.
LEMMA LowestIsFree ==
  ASSUME NEW f, DOMAIN f \subseteq Nat, NEW free, ~FullTable(f, free)
  PROVE  Lowest(f, free) \in DOMAIN f /\ f[Lowest(f, free)] = free
<1> DEFINE T == {n \in DOMAIN f : f[n] = free}
<1>1. T \subseteq Nat /\ T # {} BY DEF FullTable
<1>2. \E i \in T : \A j \in T : i <= j BY <1>1, Smallest
<1>3. Lowest(f, free) = CHOOSE i \in T : \A j \in T : i <= j BY DEF Lowest, Min
<1>4. Lowest(f, free) \in T
    <2> HIDE DEF T
    <2> QED BY <1>2, <1>3
<1> QED BY <1>4

\* What an allocation finds: free numbers and an object nobody has.
Room(k, o, n, h, a) ==
  /\ o \in Objects /\ n \in Fds /\ h \in Numbers /\ a \in Numbers
  /\ k.fds[n] = NULL /\ k.hnds[h] = NULL /\ k.maps[a] = NULL
  /\ \A m \in Fds : k.fds[m] # o
  /\ \A m \in Numbers : k.hnds[m] # o /\ k.maps[m] # o
LEMMA RoomThere ==
  ASSUME NEW k \in Tables, HasRoom(k)
  PROVE  Room(k, Fresh(k), Lowest(k.fds, NULL), Lowest(k.hnds, NULL), Lowest(k.maps, NULL))
<1>1. /\ DOMAIN k.fds = Fds /\ DOMAIN k.hnds = Numbers /\ DOMAIN k.maps = Numbers
      /\ Fds \subseteq Nat /\ Numbers \subseteq Nat
    BY Nulls DEF Tables
<1>2. /\ Lowest(k.fds, NULL) \in Fds /\ k.fds[Lowest(k.fds, NULL)] = NULL
      /\ Lowest(k.hnds, NULL) \in Numbers /\ k.hnds[Lowest(k.hnds, NULL)] = NULL
      /\ Lowest(k.maps, NULL) \in Numbers /\ k.maps[Lowest(k.maps, NULL)] = NULL
    BY <1>1, LowestIsFree DEF HasRoom
<1> DEFINE Used == {k.fds[n] : n \in Fds} \union {k.hnds[n] : n \in Numbers}
                     \union {k.maps[n] : n \in Numbers}
<1>3. \E o \in Objects : o \notin Used BY DEF HasRoom
<1>4. Fresh(k) = CHOOSE o \in Objects : o \notin Used BY DEF Fresh
<1>5. Fresh(k) \in Objects /\ Fresh(k) \notin Used
    <2> HIDE DEF Used
    <2> QED BY <1>3, <1>4
<1> QED BY <1>2, <1>5 DEF Room

\* Tables after a change of one entry each.
LEMMA SetEntries ==
  ASSUME NEW k \in Tables
  PROVE  /\ \A n : \A x \in Opened \union {NULL} : [k EXCEPT !.fds[n] = x] \in Tables
         /\ \A h \in Numbers, y \in Objects \union {NULL} :
               [k EXCEPT !.hnds[h] = y] \in Tables /\ [k EXCEPT !.maps[h] = y] \in Tables
BY DEF Tables

LEMMA AllocTypes ==
  ASSUME NEW k \in Tables, NEW b \in Buffer, HasRoom(k), NEW how \in Outcomes
  PROVE  /\ Alloc(k, b, how).k \in Tables /\ Alloc(k, b, how).b \in Buffer
         /\ Alloc(k, b, how).ok \in BOOLEAN
         /\ ~FullTable(Alloc(k, b, how).k.maps, NULL)
<1> DEFINE o == Fresh(k)  h == Lowest(k.hnds, NULL)  n == Lowest(k.fds, NULL)
           k1 == [k EXCEPT !.hnds[h] = o]
           k2 == [k1 EXCEPT !.fds[n] = o]
<1>1. o \in Objects /\ h \in Numbers /\ n \in Fds BY RoomThere DEF Room
<1>2. k1 \in Tables /\ k1.maps = k.maps BY <1>1, SetEntries DEF Tables
<1>3. k2 \in Tables /\ k2.maps = k.maps
    <2> HIDE DEF k1
    <2> QED BY <1>1, <1>2, SetEntries DEF Tables, Opened
<1>4. Lowest(k1.fds, NULL) = n BY DEF Tables
<1>5. ~FullTable(k.maps, NULL) BY DEF HasRoom
<1>6. CASE how = "no buffer" \/ ~ctx
    BY <1>5, <1>6 DEF Alloc
<1>7. CASE how = "no descriptor" /\ ctx
    <2>1. Alloc(k, b, how) = [k |-> k1, b |-> [b EXCEPT !.hnd = h], ok |-> FALSE]
        BY <1>7 DEF Alloc
    <2>2. [b EXCEPT !.hnd = h] \in Buffer BY <1>1 DEF Buffer
    <2> HIDE DEF k1
    <2> QED BY <1>2, <1>5, <2>1, <2>2
<1>8. CASE how = "ok" /\ ctx
    <2>1. Alloc(k, b, how) =
            [k |-> k2, b |-> [vir |-> NULL, fd |-> n, hnd |-> h, of |-> o], ok |-> TRUE]
        BY <1>4, <1>8 DEF Alloc, OpenFd
    <2>2. [vir |-> NULL, fd |-> n, hnd |-> h, of |-> o] \in Buffer BY <1>1 DEF Buffer
    <2> HIDE DEF k2
    <2> QED BY <1>3, <1>5, <2>1, <2>2
<1> QED BY <1>6, <1>7, <1>8 DEF Outcomes

LEMMA MmapTypes ==
  ASSUME NEW k \in Tables, NEW b \in Buffer, ~FullTable(k.maps, NULL), NEW works \in BOOLEAN
  PROVE  /\ Mmap(k, b, works).k \in Tables /\ Mmap(k, b, works).b \in Buffer
         /\ Mmap(k, b, works).ok \in BOOLEAN
<1> DEFINE a == Lowest(k.maps, NULL)
<1>1. a \in Numbers BY Nulls, LowestIsFree DEF Tables
<1>2. CASE ~(ctx /\ b.vir # NULL) /\ works /\ Mappable(k, b)
    <2>1. Mmap(k, b, works) = [k |-> [k EXCEPT !.maps[a] = k.hnds[b.hnd]],
                               b |-> [b EXCEPT !.vir = a], ok |-> TRUE]
        BY <1>2 DEF Mmap
    <2>2. b.hnd \in Numbers BY <1>2 DEF Mappable, Buffer
    <2>3. k.hnds[b.hnd] \in Objects \union {NULL} BY <2>2 DEF Tables
    <2>4. [k EXCEPT !.maps[a] = k.hnds[b.hnd]] \in Tables BY <1>1, <2>3, SetEntries, Nulls
    <2>5. [b EXCEPT !.vir = a] \in Buffer BY <1>1 DEF Buffer
    <2> QED BY <2>1, <2>4, <2>5
<1>3. CASE ~(~(ctx /\ b.vir # NULL) /\ works /\ Mappable(k, b))
    BY <1>3 DEF Mmap
<1> QED BY <1>2, <1>3

LEMMA TryTypes ==
  ASSUME NEW k \in Tables, NEW b \in Buffer, HasRoom(k), NEW how \in Outcomes,
         NEW works \in BOOLEAN
  PROVE  /\ Try(k, b, how, works).k \in Tables /\ Try(k, b, how, works).b \in Buffer
         /\ Try(k, b, how, works).allocated \in BOOLEAN
         /\ Try(k, b, how, works).mapped \in BOOLEAN
BY AllocTypes, MmapTypes DEF Try

\* A release makes entries free and leaves the others as they are.
LEMMA FreeTypes ==
  ASSUME NEW k \in Tables, NEW b \in Buffer
  PROVE  /\ Free(k, b).k \in Tables /\ Free(k, b).b \in Buffer
         /\ \A n \in Fds : Free(k, b).k.fds[n] \in {NULL, k.fds[n]}
         /\ \A n \in Numbers : /\ Free(k, b).k.hnds[n] \in {NULL, k.hnds[n]}
                               /\ Free(k, b).k.maps[n] \in {NULL, k.maps[n]}
<1>1. CASE ~ctx BY <1>1 DEF Free
<1>2. CASE ctx
    <2> DEFINE fd2 == [k.fds EXCEPT ![b.fd] = NULL]
               hn2 == IF b.hnd = 0 THEN k.hnds ELSE [k.hnds EXCEPT ![b.hnd] = NULL]
               mp2 == IF b.vir = NULL THEN k.maps ELSE [k.maps EXCEPT ![b.vir] = NULL]
    <2>1. /\ Free(k, b).b = [b EXCEPT !.vir = NULL, !.of = NULL]
          /\ Free(k, b).k = [fds |-> fd2, hnds |-> hn2, maps |-> mp2]
        BY <1>2 DEF Free, CloseFd, Tables
    <2>2. [b EXCEPT !.vir = NULL, !.of = NULL] \in Buffer BY DEF Buffer
    <2>3. /\ fd2 \in [Fds -> Opened \union {NULL}] /\ \A n \in Fds : fd2[n] \in {NULL, k.fds[n]}
        BY DEF Tables
    <2>4. /\ hn2 \in [Numbers -> Objects \union {NULL}]
          /\ \A n \in Numbers : hn2[n] \in {NULL, k.hnds[n]}
        BY DEF Tables
    <2>5. /\ mp2 \in [Numbers -> Objects \union {NULL}]
          /\ \A n \in Numbers : mp2[n] \in {NULL, k.maps[n]}
        BY DEF Tables
    <2> HIDE DEF fd2, hn2, mp2
    <2> QED BY <2>1, <2>2, <2>3, <2>4, <2>5 DEF Tables
<1> QED BY <1>1, <1>2

LEMMA FreeRoom ==
  ASSUME NEW k \in Tables, NEW b \in Buffer, HasRoom(k)
  PROVE  HasRoom(Free(k, b).k)
<1> DEFINE l == Free(k, b).k
<1>1. /\ l \in Tables /\ \A n \in Fds : l.fds[n] \in {NULL, k.fds[n]}
      /\ \A n \in Numbers : l.hnds[n] \in {NULL, k.hnds[n]} /\ l.maps[n] \in {NULL, k.maps[n]}
    BY FreeTypes
<1> HIDE DEF l
<1>2. /\ DOMAIN k.fds = Fds /\ DOMAIN k.hnds = Numbers /\ DOMAIN k.maps = Numbers
      /\ DOMAIN l.fds = Fds /\ DOMAIN l.hnds = Numbers /\ DOMAIN l.maps = Numbers
    BY <1>1 DEF Tables
<1>3. /\ ~FullTable(l.fds, NULL) /\ ~FullTable(l.hnds, NULL) /\ ~FullTable(l.maps, NULL)
    BY <1>1, <1>2 DEF HasRoom, FullTable
<1>4. PICK o \in Objects : o \notin {k.fds[n] : n \in Fds} \union {k.hnds[n] : n \in Numbers}
                                      \union {k.maps[n] : n \in Numbers}
    BY DEF HasRoom
<1>5. o \notin {l.fds[n] : n \in Fds} \union {l.hnds[n] : n \in Numbers}
                 \union {l.maps[n] : n \in Numbers}
    BY <1>1, <1>4, Nulls
<1> QED BY <1>3, <1>5 DEF HasRoom, l

-----------------------------------------------------------------------------
(* Types                                                                   *)

\* The parts of the type invariant that most actions change, and the others.
TablesOK == K \in Tables
BuffersOK == {streamMem, pictureMem, pTableBase, outLumaBuffer} \subseteq Buffer
Stages == {"new", "init", "idle", "open", "stream", "copy", "info", "picture", "decode", "hw",
           "end", "crashed"} \union Released
Faults == {"half", "stray", "lost"}
FlagsOK ==
  /\ stage \in Stages
  /\ ctx \in BOOLEAN /\ allocated \in BOOLEAN /\ scanRead \in BOOLEAN /\ owned \in BOOLEAN
  /\ streamSize \in {"small", "big"} /\ size \in {"none", "small", "big"}
  /\ out_phyaddr \in Fds /\ socket \in Fds
  /\ calls \in 0 .. MaxCalls /\ failures \in 0 .. MaxFailures /\ files \in 0 .. MaxFiles
  /\ faults \subseteq Faults

LEMMA TypesByParts ==
  /\ BuffersTypeOK <=> TablesOK /\ BuffersOK /\ FlagsOK
  /\ BuffersTypeOK' <=> TablesOK' /\ BuffersOK' /\ FlagsOK'
<1>1. BuffersTypeOK <=> TablesOK /\ BuffersOK /\ FlagsOK
    BY DEF BuffersTypeOK, TablesOK, BuffersOK, FlagsOK, Stages, Released, Faults, K, Tables
<1>2. BuffersTypeOK' <=> TablesOK' /\ BuffersOK' /\ FlagsOK'
    BY DEF BuffersTypeOK, TablesOK, BuffersOK, FlagsOK, Stages, Released, Faults, K, Tables
<1> QED BY <1>1, <1>2

LEMMA KernelIsTables == \A k \in Tables : KernelIs(k) => K' = k /\ TablesOK'
BY DEF TablesOK, K, Tables, KernelIs

LEMMA InitBuffersTypes == BuffersInit => BuffersTypeOK
<1> SUFFICES ASSUME BuffersInit PROVE BuffersTypeOK
    OBVIOUS
<1>1. fds \in [Fds -> Opened \union {NULL}] BY DEF BuffersInit, Opened
<1>2. hnds \in [Numbers -> Objects \union {NULL}] /\ maps \in [Numbers -> Objects \union {NULL}]
    BY DEF BuffersInit
<1>3. 0 \in Fds /\ NoBuffer \in Buffer BY Nulls DEF NoBuffer, Buffer
<1>4. 0 \in 0 .. MaxCalls /\ 0 \in 0 .. MaxFailures /\ 0 \in 0 .. MaxFiles
    BY JpegBuffersAssumption
<1> QED BY <1>1, <1>2, <1>3, <1>4 DEF BuffersInit, BuffersTypeOK

LEMMA NextBuffersTypes == BuffersTypeOK /\ [BuffersNext]_bufferVars => BuffersTypeOK'
<1> SUFFICES ASSUME BuffersTypeOK, [BuffersNext]_bufferVars PROVE BuffersTypeOK'
    OBVIOUS
<1>1. /\ K \in Tables /\ TablesOK /\ BuffersOK /\ FlagsOK
      /\ streamMem \in Buffer /\ pictureMem \in Buffer /\ pTableBase \in Buffer
      /\ outLumaBuffer \in Buffer
    BY TypesByParts DEF TablesOK, BuffersOK
<1>2. UNCHANGED tables => TablesOK' BY <1>1 DEF tables, TablesOK, K
<1>3. \A b \in Buffer : (KernelIs(Free(K, b).k) => TablesOK') /\ Free(K, b).b \in Buffer
    BY <1>1, KernelIsTables, FreeTypes
<1>4. ASSUME NEW k \in Tables, HasRoom(k), NEW b \in Buffer, NEW how \in Outcomes,
             NEW works \in BOOLEAN
      PROVE  /\ KernelIs(Try(k, b, how, works).k) => TablesOK'
             /\ Try(k, b, how, works).b \in Buffer
    BY <1>4, KernelIsTables, TryTypes
<1>5. \A b, k, t, how : Stray(k, b) \subseteq Faults /\ Half(t, how) \subseteq Faults
    BY DEF Stray, Half, Faults
<1>6. \A x \in {"dri", "vpu", "caller"} : KernelIs(OpenFd(K, x)) => TablesOK'
    BY <1>1, SetEntries, KernelIsTables DEF OpenFd, Opened
<1>7. \A n : KernelIs(CloseFd(K, n)) => TablesOK'
    BY <1>1, SetEntries, KernelIsTables DEF CloseFd
<1>8. \A b \in Buffer : Copy(b) \in Buffer BY DEF Copy, Buffer
<1>9. ~FullTable(fds, NULL) => Lowest(fds, NULL) \in Fds
    <2>1. DOMAIN fds = Fds /\ Fds \subseteq Nat BY <1>1, Nulls DEF K, Tables
    <2> QED BY <2>1, LowestIsFree
<1>10. ASSUME NEW how \in Outcomes, NEW works \in BOOLEAN, Budget(how, works)
       PROVE  HasRoom(K) /\ failures' \in 0 .. MaxFailures
    <2>1. failures \in Nat /\ Fails(how, works) \in Nat /\ MaxFailures \in Nat
        BY <1>1, JpegBuffersAssumption DEF FlagsOK, Fails
    <2> QED BY <1>10, <2>1 DEF Budget
<1> SUFFICES TablesOK' /\ BuffersOK' /\ FlagsOK'
    BY TypesByParts
<1>11. UNCHANGED <<streamMem, pictureMem, pTableBase, outLumaBuffer>> => BuffersOK'
    BY <1>1 DEF BuffersOK
<1>12. ASSUME NEW b \in Buffer
       PROVE  /\ streamMem' = b /\ UNCHANGED <<pictureMem, pTableBase, outLumaBuffer>> => BuffersOK'
              /\ pictureMem' = b /\ UNCHANGED <<streamMem, pTableBase, outLumaBuffer>> => BuffersOK'
              /\ pTableBase' = b /\ UNCHANGED <<streamMem, pictureMem, outLumaBuffer>> => BuffersOK'
              /\ outLumaBuffer' = b /\ UNCHANGED <<streamMem, pictureMem, pTableBase>> => BuffersOK'
    BY <1>1, <1>12 DEF BuffersOK
<1> USE JpegBuffersAssumption DEF object, instance, counts, Stages, Released, Faults
<1>21. CASE OpenAllocator
    BY <1>1, <1>6, <1>11, <1>21 DEF OpenAllocator, FlagsOK
<1>22. CASE OpenFails
    BY <1>1, <1>2, <1>11, <1>22 DEF OpenFails, FlagsOK
<1>23. ASSUME NEW how \in Outcomes, NEW works \in BOOLEAN, InitStream(how, works)
       PROVE  TablesOK' /\ BuffersOK' /\ FlagsOK'
    <2> DEFINE t == Try(K, streamMem, how, works)
    <2>1. Budget(how, works) /\ KernelIs(t.k) /\ streamMem' = t.b /\ faults' = faults \union Half(t, how)
        BY <1>23 DEF InitStream
    <2>2. HasRoom(K) /\ failures' \in 0 .. MaxFailures BY <1>10, <2>1
    <2>3. TablesOK' /\ t.b \in Buffer BY <1>1, <1>4, <2>1, <2>2
    <2>4. faults' \subseteq Faults BY <1>1, <1>5, <2>1 DEF FlagsOK
    <2> HIDE DEF t
    <2> QED BY <1>1, <1>12, <1>23, <2>1, <2>2, <2>3, <2>4 DEF InitStream, FlagsOK
<1>24. CASE CallerOpens
    <2>1. files' \in 0 .. MaxFiles BY <1>1, <1>24 DEF CallerOpens, FlagsOK
    <2> QED BY <1>1, <1>6, <1>11, <1>24, <2>1 DEF CallerOpens, FlagsOK
<1>25. ASSUME NEW s \in {"none", "small", "big"}, NEW f \in Fds, SubmitPicture(s, f)
       PROVE  TablesOK' /\ BuffersOK' /\ FlagsOK'
    <2>1. calls' \in 0 .. MaxCalls BY <1>1, <1>25 DEF SubmitPicture, FlagsOK
    <2> QED BY <1>1, <1>2, <1>11, <1>25, <2>1 DEF SubmitPicture, FlagsOK
<1>26. CASE OpenInstance
    BY <1>1, <1>6, <1>9, <1>11, <1>26 DEF OpenInstance, FlagsOK
<1>27. CASE InstanceFails
    <2>1. TablesOK' BY <1>2, <1>6, <1>27 DEF InstanceFails
    <2>2. failures' \in 0 .. MaxFailures BY <1>1, <1>27 DEF InstanceFails, FlagsOK
    <2>3. faults' \subseteq Faults BY <1>1, <1>27 DEF InstanceFails, FlagsOK
    <2> QED BY <1>1, <1>11, <1>27, <2>1, <2>2, <2>3 DEF InstanceFails, FlagsOK
<1>28. ASSUME NEW how \in Outcomes, NEW works \in BOOLEAN, GrowStream(how, works)
       PROVE  TablesOK' /\ BuffersOK' /\ FlagsOK'
    <2> DEFINE f == Free(K, streamMem)
               t == Try(f.k, f.b, how, works)
    <2>1. /\ Budget(how, works) /\ KernelIs(t.k) /\ streamMem' = t.b
          /\ faults' = faults \union Half(t, how) \union Stray(K, streamMem)
        BY <1>28 DEF GrowStream
    <2>2. HasRoom(K) /\ failures' \in 0 .. MaxFailures BY <1>10, <2>1
    <2>3. f.k \in Tables /\ f.b \in Buffer /\ HasRoom(f.k) BY <1>1, <2>2, FreeTypes, FreeRoom
    <2> HIDE DEF f
    <2>4. TablesOK' /\ t.b \in Buffer BY <1>4, <2>1, <2>3
    <2>5. faults' \subseteq Faults BY <1>1, <1>5, <2>1 DEF FlagsOK
    <2>6. streamSize' \in {"small", "big"} /\ stage' \in Stages
        BY <1>1, <1>28 DEF GrowStream, FlagsOK
    <2> HIDE DEF t
    <2> QED BY <1>1, <1>12, <1>28, <2>1, <2>2, <2>4, <2>5, <2>6 DEF GrowStream, FlagsOK
<1>29. CASE KeepStream \/ CopyStream \/ GetImageInfo
    BY <1>1, <1>2, <1>11, <1>29 DEF KeepStream, CopyStream, GetImageInfo, FlagsOK
<1>30. CASE UseGiven
    <2>1. [pictureMem EXCEPT !.fd = out_phyaddr, !.of = NULL] \in Buffer
        BY <1>1 DEF Buffer, FlagsOK
    <2> QED BY <1>1, <1>2, <1>12, <1>30, <2>1 DEF UseGiven, FlagsOK
<1>31. ASSUME NEW how \in Outcomes, NEW works \in BOOLEAN, AllocPicture(how, works)
       PROVE  TablesOK' /\ BuffersOK' /\ FlagsOK'
    <2> DEFINE b == [pictureMem EXCEPT !.of = NULL]
               t == Try(K, b, how, works)
    <2>1. /\ Budget(how, works) /\ KernelIs(t.k) /\ pictureMem' = t.b
          /\ faults' = faults \union Half(t, how)
        BY <1>31 DEF AllocPicture
    <2>2. HasRoom(K) /\ failures' \in 0 .. MaxFailures BY <1>10, <2>1
    <2>3. b \in Buffer BY <1>1 DEF Buffer
    <2> HIDE DEF b
    <2>4. TablesOK' /\ t.b \in Buffer BY <1>1, <1>4, <2>1, <2>2, <2>3
    <2>5. faults' \subseteq Faults BY <1>1, <1>5, <2>1 DEF FlagsOK
    <2>6. owned' \in BOOLEAN /\ stage' \in Stages
        BY <1>1, <1>31 DEF AllocPicture, FlagsOK
    <2> HIDE DEF t
    <2> QED BY <1>1, <1>12, <1>31, <2>1, <2>2, <2>4, <2>5, <2>6 DEF AllocPicture, FlagsOK
<1>32. ASSUME NEW how \in Outcomes, NEW works \in BOOLEAN, FirstScan(how, works)
       PROVE  TablesOK' /\ BuffersOK' /\ FlagsOK'
    <2> DEFINE t == Try(K, pTableBase, how, works)
    <2>1. /\ Budget(how, works) /\ KernelIs(t.k) /\ pTableBase' = t.b
          /\ faults' = faults \union Half(t, how)
        BY <1>32 DEF FirstScan
    <2>2. HasRoom(K) /\ failures' \in 0 .. MaxFailures BY <1>10, <2>1
    <2>3. TablesOK' /\ t.b \in Buffer BY <1>1, <1>4, <2>1, <2>2
    <2>4. faults' \subseteq Faults BY <1>1, <1>5, <2>1 DEF FlagsOK
    <2>5. /\ allocated' \in BOOLEAN /\ stage' \in Stages
          /\ outLumaBuffer' = outLumaBuffer \/ outLumaBuffer' = Copy(pictureMem)
        BY <1>1, <1>32 DEF FirstScan, FlagsOK
    <2>6. BuffersOK' BY <1>1, <1>8, <1>32, <2>1, <2>3, <2>5 DEF FirstScan, BuffersOK
    <2> HIDE DEF t
    <2> QED BY <1>1, <1>32, <2>1, <2>2, <2>3, <2>4, <2>5, <2>6 DEF FirstScan, FlagsOK
<1>33. CASE NextScan
    BY <1>1, <1>2, <1>8, <1>12, <1>33 DEF NextScan, FlagsOK
<1>34. CASE GoOn \/ Refused \/ HwDone
    <2>1. scanRead' \in BOOLEAN BY <1>1, <1>34 DEF GoOn, Refused, HwDone, FlagsOK
    <2> QED BY <1>1, <1>2, <1>11, <1>34, <2>1 DEF GoOn, Refused, HwDone, FlagsOK
<1>35. CASE End
    BY <1>1, <1>2, <1>3, <1>5, <1>11, <1>12, <1>35 DEF End, FlagsOK
<1>36. CASE FreeStream
    BY <1>1, <1>2, <1>3, <1>5, <1>11, <1>12, <1>36 DEF FreeStream, FlagsOK
<1>37. CASE FreePicture
    BY <1>1, <1>2, <1>3, <1>5, <1>11, <1>12, <1>37 DEF FreePicture, FlagsOK
<1>38. CASE FreeTables
    BY <1>1, <1>2, <1>3, <1>5, <1>11, <1>12, <1>38 DEF FreeTables, FlagsOK
<1>39. CASE FreeCopy
    BY <1>1, <1>2, <1>3, <1>5, <1>11, <1>12, <1>39 DEF FreeCopy, FlagsOK
<1>40. CASE FreeInstance
    <2>1. 0 \in Fds BY Nulls
    <2> QED BY <1>1, <1>7, <1>11, <1>40, <2>1 DEF FreeInstance, FlagsOK
<1>41. CASE CloseAllocator
    BY <1>1, <1>2, <1>7, <1>11, <1>41 DEF CloseAllocator, FlagsOK
<1>42. CASE UNCHANGED bufferVars
    BY <1>1, <1>2, <1>11, <1>42 DEF bufferVars, FlagsOK
<1> HIDE JpegBuffersAssumption DEF object, instance, counts, Stages, Released, Faults
<1> QED BY <1>21, <1>22, <1>23, <1>24, <1>25, <1>26, <1>27, <1>28, <1>29, <1>30, <1>31, <1>32,
           <1>33, <1>34, <1>35, <1>36, <1>37, <1>38, <1>39, <1>40, <1>41, <1>42 DEF BuffersNext

-----------------------------------------------------------------------------
(* Ownership through the operations of the allocator                       *)

\* The order in which the buffers are named does not matter.
LEMMA OwnSwap ==
  ASSUME NEW k, NEW s, NEW p, NEW t, OwnIn(k, s, p, t)
  PROVE  OwnIn(k, p, s, t) /\ OwnIn(k, t, p, s)
<1>1. {p, s, t} = {s, p, t} /\ {t, p, s} = {s, p, t} OBVIOUS
<1> QED BY <1>1 DEF OwnIn

\* The descriptors that are not buffers are the same.
SameNames(k, l) == \A n \in Fds : \A x \in Names : l.fds[n] = x <=> k.fds[n] = x

\* What an attempt gives, of what its allocation gave.
LEMMA TryFields ==
  ASSUME NEW k, NEW b, NEW how, NEW works
  PROVE  /\ Try(k, b, how, works).allocated = Alloc(k, b, how).ok
         /\ Try(k, b, how, works).mapped = Mmap(Alloc(k, b, how).k, Alloc(k, b, how).b, works).ok
         /\ Try(k, b, how, works).k = Mmap(Alloc(k, b, how).k, Alloc(k, b, how).b, works).k
         /\ Try(k, b, how, works).b = Mmap(Alloc(k, b, how).k, Alloc(k, b, how).b, works).b
BY DEF Try

\* The buffer c has taken an object that nobody had, with the numbers for it.
Taken(k, l, c) ==
  /\ Room(k, c.of, c.fd, c.hnd, c.vir)
  /\ l = [fds |-> [k.fds EXCEPT ![c.fd] = c.of], hnds |-> [k.hnds EXCEPT ![c.hnd] = c.of],
          maps |-> [k.maps EXCEPT ![c.vir] = c.of]]

\* An attempt that does not stop half way takes an object or changes nothing.
LEMMA TryTakes ==
  ASSUME NEW k \in Tables, NEW b \in Buffer, b.vir = NULL, HasRoom(k), NEW how \in Outcomes,
         NEW works \in BOOLEAN, NEW r, r = Try(k, b, how, works), Half(r, how) = {}
  PROVE  /\ r.allocated = r.mapped /\ r.mapped \in BOOLEAN
         /\ IF r.mapped THEN ctx /\ Taken(k, r.k, r.b) ELSE r.k = k /\ r.b = b
<1> DEFINE o == Fresh(k)  n == Lowest(k.fds, NULL)  h == Lowest(k.hnds, NULL)
           a == Lowest(k.maps, NULL)
           l == [fds |-> [k.fds EXCEPT ![n] = o], hnds |-> [k.hnds EXCEPT ![h] = o],
                 maps |-> [k.maps EXCEPT ![a] = o]]
           c == [vir |-> a, fd |-> n, hnd |-> h, of |-> o]
<1>1. Room(k, o, n, h, a) BY RoomThere
<1>2. r.allocated \in BOOLEAN /\ r.mapped \in BOOLEAN BY TryTypes
<1>3. how # "no descriptor" /\ r.allocated = r.mapped BY <1>2 DEF Half
<1>5. CASE how = "no buffer" \/ ~ctx
    <2>1. Alloc(k, b, how) = [k |-> k, b |-> b, ok |-> FALSE] BY <1>5 DEF Alloc
    <2>2. r.allocated = FALSE /\ r.mapped = FALSE /\ r.mapped = Mmap(k, b, works).ok
          /\ r.k = Mmap(k, b, works).k /\ r.b = Mmap(k, b, works).b
        <3>1. Alloc(k, b, how).k = k /\ Alloc(k, b, how).b = b /\ Alloc(k, b, how).ok = FALSE
            BY <2>1
        <3>2. r.allocated = Alloc(k, b, how).ok BY TryFields
        <3>3. r.allocated = FALSE BY <3>1, <3>2
        <3>4. r.mapped = FALSE BY <1>3, <3>3
        <3>5. r.mapped = Mmap(k, b, works).ok /\ r.k = Mmap(k, b, works).k
              /\ r.b = Mmap(k, b, works).b
            <4>1. /\ r.mapped = Mmap(Alloc(k, b, how).k, Alloc(k, b, how).b, works).ok
                  /\ r.k = Mmap(Alloc(k, b, how).k, Alloc(k, b, how).b, works).k
                  /\ r.b = Mmap(Alloc(k, b, how).k, Alloc(k, b, how).b, works).b
                BY TryFields
            <4> QED BY <3>1, <4>1
        <3> QED BY <3>3, <3>4, <3>5
    <2>3. r.k = k /\ r.b = b BY <2>2 DEF Mmap
    <2> QED BY <2>2, <2>3
<1>6. CASE how = "ok" /\ ctx
    <2> DEFINE k1 == [k EXCEPT !.hnds[h] = o]
               k2 == [k1 EXCEPT !.fds[n] = o]
               b2 == [vir |-> NULL, fd |-> n, hnd |-> h, of |-> o]
    <2>1. Lowest(k1.fds, NULL) = n BY DEF Tables
    <2>2. Alloc(k, b, how) = [k |-> k2, b |-> b2, ok |-> TRUE]
        BY <1>6, <2>1 DEF Alloc, OpenFd
    <2>3. /\ k2.fds = [k.fds EXCEPT ![n] = o] /\ k2.hnds = [k.hnds EXCEPT ![h] = o]
          /\ k2.maps = k.maps /\ k2 = [fds |-> k2.fds, hnds |-> k2.hnds, maps |-> k2.maps]
        <3>1. /\ k1.fds = k.fds /\ k1.hnds = [k.hnds EXCEPT ![h] = o] /\ k1.maps = k.maps
              /\ k1 = [fds |-> k1.fds, hnds |-> k1.hnds, maps |-> k1.maps]
            BY DEF Tables
        <3> HIDE DEF k1, o, n, h
        <3> QED BY <3>1
    <2> HIDE DEF k1
    <2>4. /\ r.allocated = TRUE /\ r.mapped = TRUE /\ r.mapped = Mmap(k2, b2, works).ok
          /\ r.k = Mmap(k2, b2, works).k /\ r.b = Mmap(k2, b2, works).b
        <3> HIDE DEF k2, b2
        <3>1. Alloc(k, b, how).k = k2 /\ Alloc(k, b, how).b = b2 /\ Alloc(k, b, how).ok = TRUE
            BY <2>2
        <3>2. r.allocated = Alloc(k, b, how).ok BY TryFields
        <3>3. r.allocated = TRUE BY <3>1, <3>2
        <3>4. r.mapped = TRUE BY <1>3, <3>3
        <3>5. r.mapped = Mmap(k2, b2, works).ok /\ r.k = Mmap(k2, b2, works).k
              /\ r.b = Mmap(k2, b2, works).b
            <4>1. /\ r.mapped = Mmap(Alloc(k, b, how).k, Alloc(k, b, how).b, works).ok
                  /\ r.k = Mmap(Alloc(k, b, how).k, Alloc(k, b, how).b, works).k
                  /\ r.b = Mmap(Alloc(k, b, how).k, Alloc(k, b, how).b, works).b
                BY TryFields
            <4> QED BY <3>1, <4>1
        <3> QED BY <3>3, <3>4, <3>5
    <2>5. k2.hnds[h] = o BY <1>1, <2>3 DEF Room, Tables
    <2> HIDE DEF k2
    <2>6. Mmap(k2, b2, works) = [k |-> [k2 EXCEPT !.maps[a] = o], b |-> [b2 EXCEPT !.vir = a], ok |-> TRUE]
        BY <2>3, <2>4, <2>5 DEF Mmap
    <2>7. r.k = l /\ r.b = c BY <2>3, <2>4, <2>6
    <2> HIDE DEF k2, o, n, h, a
    <2>8. c.vir = a /\ c.fd = n /\ c.hnd = h /\ c.of = o OBVIOUS
    <2>9. Taken(k, l, c) BY <1>1, <2>8 DEF Taken
    <2> HIDE DEF l, c
    <2> QED BY <1>6, <2>4, <2>7, <2>9
<1> QED BY <1>3, <1>5, <1>6 DEF Outcomes

\* A buffer that owned nothing gets an object, or stays as it is.
LEMMA TryOwn ==
  ASSUME NEW k \in Tables, NEW b \in Buffer, NEW p \in Buffer, NEW t \in Buffer,
         OwnIn(k, b, p, t), b.of = NULL, HasRoom(k), NEW how \in Outcomes,
         NEW works \in BOOLEAN, NEW r, r = Try(k, b, how, works), Half(r, how) = {}
  PROVE  /\ OwnIn(r.k, r.b, p, t) /\ SameNames(k, r.k)
         /\ r.allocated = r.mapped /\ r.mapped \in BOOLEAN
         /\ IF r.mapped THEN ctx /\ r.b.of # NULL /\ r.b.vir # NULL ELSE r.b = b
<1>1. b.vir = NULL BY DEF OwnIn, Sound
<1>2. /\ r.allocated = r.mapped /\ r.mapped \in BOOLEAN
      /\ IF r.mapped THEN ctx /\ Taken(k, r.k, r.b) ELSE r.k = k /\ r.b = b
    BY <1>1, TryTakes
<1>3. CASE ~r.mapped BY <1>2, <1>3 DEF SameNames
<1>4. CASE r.mapped
    <2> DEFINE l == r.k  c == r.b  o == c.of  n == c.fd  h == c.hnd  a == c.vir
    <2>1. /\ ctx /\ Room(k, o, n, h, a)
          /\ l = [fds |-> [k.fds EXCEPT ![n] = o], hnds |-> [k.hnds EXCEPT ![h] = o],
                  maps |-> [k.maps EXCEPT ![a] = o]]
        BY <1>2, <1>4 DEF Taken
    <2>8. /\ o # NULL /\ a # NULL /\ h # 0 BY <2>1, Nulls DEF Room
    <2>10. c.vir = a /\ c.fd = n /\ c.hnd = h /\ c.of = o OBVIOUS
    <2> HIDE DEF l, c, o, n, h, a
    <2>9. /\ l.fds[n] = o /\ l.hnds[h] = o /\ l.maps[a] = o
          /\ \A m \in Fds : m # n => l.fds[m] = k.fds[m]
          /\ \A m \in Numbers : m # h => l.hnds[m] = k.hnds[m]
          /\ \A m \in Numbers : m # a => l.maps[m] = k.maps[m]
        BY <2>1 DEF Room, Tables
    <2>11. Sound(l, c) BY <2>8, <2>9, <2>10 DEF Sound, WholeIn
    <2>12. ASSUME NEW x \in Buffer, Sound(k, x) PROVE Sound(l, x) /\ (x.of # NULL => x.of # o)
        <3>1. CASE x.of = NULL BY <2>12, <3>1 DEF Sound
        <3>2. CASE x.of # NULL
            <4>1. /\ k.fds[x.fd] = x.of /\ k.hnds[x.hnd] = x.of /\ k.maps[x.vir] = x.of
                  /\ x.hnd # 0 /\ x.vir # NULL /\ x.fd \in Fds /\ x.hnd \in Numbers /\ x.vir \in Numbers
                BY <2>12, <3>2 DEF Sound, WholeIn, Buffer
            <4>2. x.fd # n /\ x.hnd # h /\ x.vir # a /\ x.of # o
                BY <2>1, <3>2, <4>1 DEF Room
            <4> QED BY <2>9, <3>2, <4>1, <4>2 DEF Sound, WholeIn
        <3> QED BY <3>1, <3>2
    <2>13. \A m \in Fds : l.fds[m] \in Objects => \E x \in {c, p, t} : x.of = l.fds[m] /\ x.fd = m
        BY <2>9, <2>10, Nulls DEF OwnIn
    <2>14. \A m \in Numbers : l.hnds[m] # NULL => \E x \in {c, p, t} : x.of = l.hnds[m] /\ x.hnd = m
        BY <2>9, <2>10 DEF OwnIn
    <2>15. \A m \in Numbers : l.maps[m] # NULL => \E x \in {c, p, t} : x.of = l.maps[m] /\ x.vir = m
        BY <2>9, <2>10 DEF OwnIn
    <2>16. OwnIn(l, c, p, t)
        BY <2>8, <2>10, <2>11, <2>12, <2>13, <2>14, <2>15 DEF OwnIn
    <2>17. SameNames(k, l)
        BY <2>1, <2>9, Nulls DEF SameNames, Room
    <2> QED BY <1>2, <1>4, <2>1, <2>8, <2>10, <2>16, <2>17 DEF l, c, o, a
<1> QED BY <1>2, <1>3, <1>4

\* A buffer that owned an object gives back all of it, and nothing else.
LEMMA FreeOwn ==
  ASSUME NEW k \in Tables, NEW b \in Buffer, NEW p \in Buffer, NEW t \in Buffer,
         OwnIn(k, b, p, t), b.of # NULL, ctx
  PROVE  /\ OwnIn(Free(k, b).k, Free(k, b).b, p, t) /\ SameNames(k, Free(k, b).k)
         /\ Free(k, b).b.of = NULL
<1> DEFINE l == [fds |-> [k.fds EXCEPT ![b.fd] = NULL], hnds |-> [k.hnds EXCEPT ![b.hnd] = NULL],
                 maps |-> [k.maps EXCEPT ![b.vir] = NULL]]
           c == [b EXCEPT !.vir = NULL, !.of = NULL]
<1>1. /\ k.fds[b.fd] = b.of /\ k.hnds[b.hnd] = b.of /\ k.maps[b.vir] = b.of
      /\ b.hnd # 0 /\ b.vir # NULL /\ b.fd \in Fds /\ b.hnd \in Numbers /\ b.vir \in Numbers
      /\ b.of \in Objects
    BY DEF OwnIn, Sound, WholeIn, Buffer
<1>2. Free(k, b).k = l /\ Free(k, b).b = c
    BY <1>1 DEF Free, CloseFd, Tables
<1>3. c.vir = NULL /\ c.of = NULL BY DEF Buffer
<1>4. /\ l.fds[b.fd] = NULL /\ l.hnds[b.hnd] = NULL /\ l.maps[b.vir] = NULL
      /\ \A m \in Fds : m # b.fd => l.fds[m] = k.fds[m]
      /\ \A m \in Numbers : m # b.hnd => l.hnds[m] = k.hnds[m]
      /\ \A m \in Numbers : m # b.vir => l.maps[m] = k.maps[m]
    BY <1>1 DEF Tables
<1> HIDE DEF l, c
<1>5. ASSUME NEW x \in Buffer, Sound(k, x), x.of # NULL => x.of # b.of PROVE Sound(l, x)
    <2>1. CASE x.of = NULL BY <1>5, <2>1 DEF Sound
    <2>2. CASE x.of # NULL
        <3>1. /\ k.fds[x.fd] = x.of /\ k.hnds[x.hnd] = x.of /\ k.maps[x.vir] = x.of
              /\ x.hnd # 0 /\ x.vir # NULL /\ x.fd \in Fds /\ x.hnd \in Numbers /\ x.vir \in Numbers
            BY <1>5, <2>2 DEF Sound, WholeIn, Buffer
        <3>2. x.fd # b.fd /\ x.hnd # b.hnd /\ x.vir # b.vir BY <1>1, <1>5, <2>2, <3>1
        <3> QED BY <1>4, <2>2, <3>1, <3>2 DEF Sound, WholeIn
    <2> QED BY <2>1, <2>2
<1>6. \A m \in Fds : l.fds[m] \in Objects => \E x \in {c, p, t} : x.of = l.fds[m] /\ x.fd = m
    <2>1. ASSUME NEW m \in Fds, l.fds[m] \in Objects
          PROVE  \E x \in {c, p, t} : x.of = l.fds[m] /\ x.fd = m
        <3>1. m # b.fd /\ l.fds[m] = k.fds[m] BY <1>4, <2>1, Nulls
        <3> QED BY <2>1, <3>1 DEF OwnIn
    <2> QED BY <2>1
<1>7. \A m \in Numbers : l.hnds[m] # NULL => \E x \in {c, p, t} : x.of = l.hnds[m] /\ x.hnd = m
    <2>1. ASSUME NEW m \in Numbers, l.hnds[m] # NULL
          PROVE  \E x \in {c, p, t} : x.of = l.hnds[m] /\ x.hnd = m
        <3>1. m # b.hnd /\ l.hnds[m] = k.hnds[m] BY <1>4, <2>1
        <3> QED BY <2>1, <3>1 DEF OwnIn
    <2> QED BY <2>1
<1>8. \A m \in Numbers : l.maps[m] # NULL => \E x \in {c, p, t} : x.of = l.maps[m] /\ x.vir = m
    <2>1. ASSUME NEW m \in Numbers, l.maps[m] # NULL
          PROVE  \E x \in {c, p, t} : x.of = l.maps[m] /\ x.vir = m
        <3>1. m # b.vir /\ l.maps[m] = k.maps[m] BY <1>4, <2>1
        <3> QED BY <2>1, <3>1 DEF OwnIn
    <2> QED BY <2>1
<1>9. OwnIn(l, c, p, t)
    BY <1>3, <1>5, <1>6, <1>7, <1>8 DEF OwnIn, Sound
<1>10. SameNames(k, l) BY <1>1, <1>4, Nulls DEF SameNames
<1> QED BY <1>2, <1>3, <1>9, <1>10

\* A buffer that owns nothing gives nothing back, unless its numbers are somebody's.
LEMMA FreeNothing ==
  ASSUME NEW k \in Tables, NEW b \in Buffer, b.of = NULL, Stray(k, b) = {}
  PROVE  Free(k, b).k = k /\ (b.vir = NULL => Free(k, b).b = b)
<1>1. CASE ~ctx BY <1>1 DEF Free
<1>2. CASE ctx
    <2>1. /\ k.fds[b.fd] = NULL /\ (b.hnd # 0 => k.hnds[b.hnd] = NULL)
          /\ (b.vir # NULL => k.maps[b.vir] = NULL)
        BY <1>2 DEF Stray
    <2>2. Free(k, b).k =
            [fds |-> [k.fds EXCEPT ![b.fd] = NULL],
             hnds |-> IF b.hnd = 0 THEN k.hnds ELSE [k.hnds EXCEPT ![b.hnd] = NULL],
             maps |-> IF b.vir = NULL THEN k.maps ELSE [k.maps EXCEPT ![b.vir] = NULL]]
        BY <1>2 DEF Free, CloseFd, Tables
    <2>3. [k.fds EXCEPT ![b.fd] = NULL] = k.fds BY <2>1 DEF Tables
    <2>4. b.hnd # 0 => [k.hnds EXCEPT ![b.hnd] = NULL] = k.hnds BY <2>1 DEF Tables
    <2>5. b.vir # NULL => [k.maps EXCEPT ![b.vir] = NULL] = k.maps BY <2>1 DEF Tables
    <2>6. Free(k, b).b = [b EXCEPT !.vir = NULL, !.of = NULL] BY <1>2 DEF Free
    <2>7. b.vir = NULL => [b EXCEPT !.vir = NULL, !.of = NULL] = b BY DEF Buffer
    <2>8. k = [fds |-> k.fds, hnds |-> k.hnds, maps |-> k.maps] BY DEF Tables
    <2> QED BY <2>2, <2>3, <2>4, <2>5, <2>6, <2>7, <2>8
<1> QED BY <1>1, <1>2

\* After a release the buffer owns nothing, in either case.
LEMMA FreeSound ==
  ASSUME NEW k \in Tables, NEW b \in Buffer, NEW p \in Buffer, NEW t \in Buffer,
         OwnIn(k, b, p, t), b.of # NULL => ctx, b.of = NULL => Stray(k, b) = {}
  PROVE  /\ OwnIn(Free(k, b).k, Free(k, b).b, p, t) /\ SameNames(k, Free(k, b).k)
         /\ Free(k, b).b.of = NULL
         /\ Free(k, b).k \in Tables /\ Free(k, b).b \in Buffer
<1>1. Free(k, b).k \in Tables /\ Free(k, b).b \in Buffer BY FreeTypes
<1>2. CASE b.of # NULL BY <1>1, <1>2, FreeOwn
<1>3. CASE b.of = NULL
    <2>1. b.vir = NULL BY <1>3 DEF OwnIn, Sound
    <2>2. Free(k, b).k = k /\ Free(k, b).b = b BY <1>3, <2>1, FreeNothing
    <2> QED BY <1>1, <1>3, <2>2 DEF SameNames
<1> QED BY <1>2, <1>3

\* Descriptors that are no buffers do not matter.
LEMMA OwnNames ==
  ASSUME NEW k \in Tables, NEW l \in Tables, NEW s \in Buffer, NEW p \in Buffer, NEW t \in Buffer,
         OwnIn(k, s, p, t), l.hnds = k.hnds, l.maps = k.maps,
         \A n \in Fds : l.fds[n] # k.fds[n] => l.fds[n] \notin Objects /\ k.fds[n] \notin Objects
  PROVE  OwnIn(l, s, p, t)
<1>1. ASSUME NEW b \in Buffer, Sound(k, b) PROVE Sound(l, b)
    <2>1. b.of # NULL => b.of \in Objects /\ b.fd \in Fds BY DEF Buffer
    <2> QED BY <1>1, <2>1 DEF Sound, WholeIn
<1>2. \A n \in Fds : l.fds[n] \in Objects => l.fds[n] = k.fds[n] OBVIOUS
<1> QED BY <1>1, <1>2 DEF OwnIn

\* Numbers that stand for nothing may change.
LEMMA OwnBlank ==
  ASSUME NEW k \in Tables, NEW s, NEW p, NEW t, OwnIn(k, s, p, t), p.of = NULL,
         NEW q, q.of = NULL, q.vir = NULL
  PROVE  OwnIn(k, s, q, t)
<1>1. ASSUME NEW n \in Fds, k.fds[n] \in Objects
      PROVE  \E b \in {s, q, t} : b.of = k.fds[n] /\ b.fd = n
    <2>1. PICK b \in {s, p, t} : b.of = k.fds[n] /\ b.fd = n BY <1>1 DEF OwnIn
    <2> QED BY <1>1, <2>1, Nulls
<1>2. ASSUME NEW n \in Numbers, k.hnds[n] # NULL
      PROVE  \E b \in {s, q, t} : b.of = k.hnds[n] /\ b.hnd = n
    <2>1. PICK b \in {s, p, t} : b.of = k.hnds[n] /\ b.hnd = n BY <1>2 DEF OwnIn
    <2> QED BY <1>2, <2>1
<1>3. ASSUME NEW n \in Numbers, k.maps[n] # NULL
      PROVE  \E b \in {s, q, t} : b.of = k.maps[n] /\ b.vir = n
    <2>1. PICK b \in {s, p, t} : b.of = k.maps[n] /\ b.vir = n BY <1>3 DEF OwnIn
    <2> QED BY <1>3, <2>1
<1> QED BY <1>1, <1>2, <1>3 DEF OwnIn, Sound

-----------------------------------------------------------------------------
(* The invariant                                                           *)

LEMMA InitOwn == BuffersInit => OwnershipInv
<1> SUFFICES ASSUME BuffersInit PROVE Own /\ InUse /\ Descriptors
    BY InitBuffersTypes DEF OwnershipInv
<1>1. Own
    BY Nulls DEF BuffersInit, Own, OwnIn, Sound, NoBuffer, K, Names
<1>2. InUse
    BY DEF BuffersInit, InUse, NoBuffer, Released
<1>5. /\ \A n \in 0 .. 2 : fds[n] = "std" 
      /\ fds[3] = NULL
      /\ \A n \in Fds : fds[n] \in {"std", NULL}
    BY Nulls DEF BuffersInit, Fds
<1>6. Descriptors BY <1>5, Nulls DEF BuffersInit, Descriptors, Names
<1> QED BY <1>1, <1>2, <1>6

\* The descriptors that are not buffers, in a step that opens and closes none of them.
LEMMA KeepDescriptors ==
  ASSUME BuffersTypeOK, Descriptors, SameNames(K, K'),
         UNCHANGED <<files, socket, ctx>>,
         out_phyaddr' # 0 => out_phyaddr' \in Fds /\ fds[out_phyaddr'] = "caller",
         stage # "closed", stage' \notin {"closed", "new"}
  PROVE  Descriptors'
<1>1. /\ \A n \in Fds : fds'[n] = "std" <=> fds[n] = "std"
      /\ \A n \in Fds : fds'[n] = "caller" <=> fds[n] = "caller"
      /\ \A n \in Fds : fds'[n] = "dri" <=> fds[n] = "dri"
      /\ \A n \in Fds : fds'[n] = "vpu" <=> fds[n] = "vpu"
    BY DEF SameNames, K, Names
<1>3. socket \in Fds /\ 0 .. 2 \subseteq Fds BY Nulls DEF BuffersTypeOK
<1> QED BY <1>1, <1>3 DEF Descriptors

\* What has gone wrong stays on record.
LEMMA FaultsStay == [BuffersNext]_bufferVars => faults \subseteq faults'
BY DEF BuffersNext, bufferVars, OpenAllocator, OpenFails, InitStream, CallerOpens, SubmitPicture,
       OpenInstance, InstanceFails, GrowStream, KeepStream, CopyStream, GetImageInfo, UseGiven,
       AllocPicture, FirstScan, NextScan, GoOn, Refused, HwDone, End, FreeStream, FreePicture,
       FreeTables, FreeCopy, FreeInstance, CloseAllocator

\* A descriptor that is no buffer is opened or closed.
LEMMA OwnOther ==
  ASSUME K \in Tables, K' \in Tables, BuffersTypeOK, Own,
         UNCHANGED <<hnds, maps, streamMem, pictureMem, pTableBase>>,
         NEW n \in Fds, NEW x, fds' = [fds EXCEPT ![n] = x], fds[n] \notin Objects, x \notin Objects
  PROVE  Own'
<1>1. /\ K'.hnds = K.hnds /\ K'.maps = K.maps
      /\ \A m \in Fds : K'.fds[m] # K.fds[m] => K'.fds[m] \notin Objects /\ K.fds[m] \notin Objects
    BY DEF K, Tables
<1>2. streamMem \in Buffer /\ pictureMem \in Buffer /\ pTableBase \in Buffer
    BY DEF BuffersTypeOK
<1> HIDE DEF K, Own
<1>3. OwnIn(K', streamMem, pictureMem, pTableBase) BY <1>1, <1>2, OwnNames DEF Own
<1> QED BY <1>3 DEF Own

\* Every step of the decoder and of its caller keeps the ownership, with one case per action.
LEMMA NextOwn ==
  ASSUME BuffersTypeOK, BuffersTypeOK', Own, InUse, Descriptors, Intact', [BuffersNext]_bufferVars
  PROVE  Own' /\ InUse' /\ Descriptors'
<1>1. /\ K \in Tables /\ K' \in Tables /\ FlagsOK /\ FlagsOK'
      /\ streamMem \in Buffer /\ pictureMem \in Buffer /\ pTableBase \in Buffer
      /\ outLumaBuffer \in Buffer /\ outLumaBuffer' \in Buffer /\ pictureMem' \in Buffer
    BY TypesByParts DEF TablesOK, BuffersOK
<1>3. \A t, how : Half(t, how) \subseteq faults' => Half(t, how) = {}
    BY DEF Half, Intact
<1>4. \A b : Stray(K, b) \subseteq faults' => Stray(K, b) = {}
    BY DEF Stray, Intact
<1>5. Sound(K, streamMem) /\ Sound(K, pictureMem) /\ Sound(K, pTableBase)
    BY DEF Own, OwnIn
<1>6. \A b : Sound(K, b) => (b.of = NULL <=> b.vir = NULL)
    BY DEF Sound, WholeIn
<1>7. UNCHANGED <<tables, streamMem, pictureMem, pTableBase>> => Own' /\ SameNames(K, K')
    BY DEF tables, Own, SameNames, K
<1>8. \A k \in Tables : KernelIs(k) => K' = k
    BY KernelIsTables
<1>9. /\ \A n \in Fds : fds[n] \in Opened \union {NULL} /\ DOMAIN fds = Fds
      /\ socket \in Fds /\ out_phyaddr \in Fds /\ out_phyaddr' \in Fds /\ 0 \in Fds /\ 3 \in Fds
      /\ fds[0] = "std"
    BY <1>1, Nulls DEF K, Tables, FlagsOK, Descriptors, Fds
<1>10. ~FullTable(fds, NULL) => /\ Lowest(fds, NULL) \in Fds /\ fds[Lowest(fds, NULL)] = NULL
    BY <1>9, Nulls, LowestIsFree
<1>11. out_phyaddr # 0 => fds[out_phyaddr] = "caller" BY DEF Descriptors
<1>12. ctx \in BOOLEAN /\ owned \in BOOLEAN /\ owned' \in BOOLEAN /\ allocated \in BOOLEAN
       /\ allocated' \in BOOLEAN
    BY <1>1 DEF FlagsOK
<1> USE DEF object, instance, counts, Released
<1>13. \A x : KernelIs(OpenFd(K, x)) =>
               fds' = [fds EXCEPT ![Lowest(fds, NULL)] = x] /\ hnds' = hnds /\ maps' = maps
    BY DEF KernelIs, OpenFd, K
<1>14. \A n : KernelIs(CloseFd(K, n)) => fds' = [fds EXCEPT ![n] = NULL] /\ hnds' = hnds /\ maps' = maps
    BY DEF KernelIs, CloseFd, K
<1>21. CASE OpenAllocator
    <2> DEFINE n == Lowest(fds, NULL)
    <2>1. n \in Fds /\ fds[n] = NULL
        <3>1. fds[3] = NULL BY <1>21 DEF OpenAllocator, Descriptors
        <3> QED BY <1>9, <1>10, <3>1 DEF FullTable
    <2>2. fds' = [fds EXCEPT ![n] = "dri"] /\ hnds' = hnds /\ maps' = maps
        BY <1>13, <1>21 DEF OpenAllocator
    <2> HIDE DEF n
    <2>3. Own' BY <1>1, <1>21, <2>1, <2>2, OwnOther, Nulls DEF OpenAllocator, Names
    <2>4. InUse' BY <1>12, <1>21 DEF OpenAllocator, InUse
    <2>5. Descriptors'
        <3>1. \A m \in Fds : fds'[m] = IF m = n THEN "dri" ELSE fds[m] BY <1>9, <2>1, <2>2
        <3>3. /\ stage = "new" /\ ~ctx /\ ctx' = TRUE /\ stage' = "init"
              /\ UNCHANGED <<files, socket, out_phyaddr, faults>>
            BY <1>21 DEF OpenAllocator, Descriptors
        <3>4. \A m \in Fds : fds[m] # "dri" BY <3>3 DEF Descriptors
        <3>5. \A m \in Fds : fds'[m] = "dri" <=> m = n BY <2>1, <3>1, <3>4
        <3>6. \A m \in Fds : fds[m] # NULL => fds'[m] = fds[m] BY <2>1, <3>1
        <3>8. (\A m \in 0 .. 2 : fds'[m] = "std") /\ (socket # 0 => fds'[socket] = "vpu")
              /\ (out_phyaddr # 0 => fds'[out_phyaddr] = "caller")
            BY <1>9, <3>6, Nulls DEF Descriptors, Names
        <3> QED BY <2>1, <3>3, <3>5, <3>8 DEF Descriptors
    <2> QED BY <2>3, <2>4, <2>5
<1>22. CASE OpenFails
    <2>1. Own' /\ SameNames(K, K') BY <1>7, <1>22 DEF OpenFails
    <2>2. InUse' BY <1>22 DEF OpenFails, InUse
    <2>3. Descriptors' BY <1>9, <1>11, <1>22, <2>1, KeepDescriptors DEF OpenFails
    <2> QED BY <2>1, <2>2, <2>3
<1>23. ASSUME NEW how \in Outcomes, NEW works \in BOOLEAN, InitStream(how, works)
       PROVE  Own' /\ InUse' /\ Descriptors'
    <2> DEFINE r == Try(K, streamMem, how, works)
    <2>1. /\ HasRoom(K) /\ KernelIs(r.k) /\ streamMem' = r.b /\ Half(r, how) \subseteq faults'
          /\ streamMem.of = NULL
        BY <1>23 DEF InitStream, Budget, InUse
    <2>2. r.k \in Tables BY <1>1, <2>1, TryTypes
    <2>3. K' = r.k BY <1>8, <2>1, <2>2
    <2>4. Half(r, how) = {} BY <1>3, <2>1
    <2>5. /\ OwnIn(r.k, r.b, pictureMem, pTableBase) /\ SameNames(K, r.k)
          /\ r.mapped \in BOOLEAN /\ IF r.mapped THEN ctx ELSE r.b = streamMem
        BY <1>1, <2>1, <2>4, TryOwn DEF Own
    <2> HIDE DEF r
    <2>6. Own' /\ SameNames(K, K') BY <1>23, <2>1, <2>3, <2>5 DEF InitStream, Own
    <2>7. streamMem'.of # NULL => ctx BY <2>1, <2>5
    <2>8. InUse' BY <1>12, <1>23, <2>7 DEF InitStream, InUse
    <2>9. Descriptors' BY <1>9, <1>11, <1>23, <2>6, KeepDescriptors DEF InitStream
    <2> QED BY <2>6, <2>8, <2>9
<1>24. CASE CallerOpens
    <2> DEFINE n == Lowest(fds, NULL)
    <2>1. n \in Fds /\ fds[n] = NULL BY <1>10, <1>24 DEF CallerOpens
    <2>2. fds' = [fds EXCEPT ![n] = "caller"] /\ hnds' = hnds /\ maps' = maps
        BY <1>13, <1>24 DEF CallerOpens
    <2> HIDE DEF n
    <2>3. Own' BY <1>1, <1>24, <2>1, <2>2, OwnOther, Nulls DEF CallerOpens, Names
    <2>4. InUse' BY <1>12, <1>24 DEF CallerOpens, InUse
    <2>5. Descriptors'
        <3>1. \A m \in Fds : fds'[m] = IF m = n THEN "caller" ELSE fds[m] BY <1>9, <2>1, <2>2
        <3>4. stage = "idle" /\ UNCHANGED <<stage, ctx, socket, out_phyaddr>>
            BY <1>24 DEF CallerOpens
        <3>5. \A m \in Fds : fds[m] # NULL => fds'[m] = fds[m] BY <2>1, <3>1
        <3>6. \A m \in Fds : fds'[m] = "dri" <=> fds[m] = "dri"
            BY <2>1, <3>1, Nulls DEF Names
        <3>7. (\A m \in 0 .. 2 : fds'[m] = "std") /\ (socket # 0 => fds'[socket] = "vpu")
              /\ (out_phyaddr # 0 => fds'[out_phyaddr] = "caller")
            BY <1>9, <3>5, Nulls DEF Descriptors, Names
        <3> QED BY <3>4, <3>6, <3>7 DEF Descriptors
    <2> QED BY <2>3, <2>4, <2>5
<1>25. ASSUME NEW s \in {"none", "small", "big"}, NEW f \in Fds, SubmitPicture(s, f)
       PROVE  Own' /\ InUse' /\ Descriptors'
    <2>1. Own' /\ SameNames(K, K') BY <1>7, <1>25 DEF SubmitPicture
    <2>2. InUse' BY <1>25 DEF SubmitPicture, InUse
    <2>3. Descriptors' BY <1>25, <2>1, KeepDescriptors DEF SubmitPicture
    <2> QED BY <2>1, <2>2, <2>3
<1>26. CASE OpenInstance
    <2> DEFINE n == Lowest(fds, NULL)
    <2>1. n \in Fds /\ fds[n] = NULL BY <1>10, <1>26 DEF OpenInstance
    <2>2. fds' = [fds EXCEPT ![n] = "vpu"] /\ hnds' = hnds /\ maps' = maps
        BY <1>13, <1>26 DEF OpenInstance
    <2>3. n # 0 BY <1>9, <2>1, Nulls DEF Names
    <2>4. stage' = "stream" /\ socket' = n /\ UNCHANGED faults BY <1>26, <2>3 DEF OpenInstance
    <2> HIDE DEF n
    <2>5. Own' BY <1>1, <1>26, <2>1, <2>2, OwnOther, Nulls DEF OpenInstance, Names
    <2>6. InUse' BY <1>12, <1>26, <2>3, <2>4 DEF OpenInstance, InUse
    <2>7. Descriptors'
        <3>1. \A m \in Fds : fds'[m] = IF m = n THEN "vpu" ELSE fds[m] BY <1>9, <2>1, <2>2
        <3>3. /\ stage = "open" /\ socket = 0 /\ UNCHANGED <<ctx, out_phyaddr>>
            BY <1>26, <2>4 DEF OpenInstance, InUse
        <3>5. \A m \in Fds : fds[m] # NULL => fds'[m] = fds[m] BY <2>1, <3>1
        <3>6. \A m \in Fds : fds'[m] = "dri" <=> fds[m] = "dri"
            BY <2>1, <3>1, Nulls DEF Names
        <3>7. (\A m \in 0 .. 2 : fds'[m] = "std") /\ fds'[n] = "vpu"
              /\ (out_phyaddr # 0 => fds'[out_phyaddr] = "caller")
            BY <1>9, <2>1, <3>1, <3>5, Nulls DEF Descriptors, Names
        <3> QED BY <2>4, <3>3, <3>6, <3>7 DEF Descriptors
    <2> QED BY <2>5, <2>6, <2>7
<1>27. CASE InstanceFails
    <2>1. InUse' BY <1>12, <1>27 DEF InstanceFails, InUse
    <2>2. CASE UNCHANGED tables
        <3>1. Own' /\ SameNames(K, K') BY <1>7, <1>27, <2>2 DEF InstanceFails
        <3>2. Descriptors' BY <1>9, <1>11, <1>27, <3>1, KeepDescriptors DEF InstanceFails
        <3> QED BY <2>1, <3>1, <3>2
    <2>3. CASE ~FullTable(fds, NULL) /\ KernelIs(OpenFd(K, "vpu")) /\ faults' = faults \union {"lost"}
        <3> DEFINE n == Lowest(fds, NULL)
        <3>1. n \in Fds /\ fds[n] = NULL BY <1>10, <2>3
        <3>2. fds' = [fds EXCEPT ![n] = "vpu"] /\ hnds' = hnds /\ maps' = maps BY <1>13, <2>3
        <3> HIDE DEF n
        <3>3. Own' BY <1>1, <1>27, <3>1, <3>2, OwnOther, Nulls DEF InstanceFails, Names
        <3>4. Descriptors'
            <4>1. \A m \in Fds : fds'[m] = IF m = n THEN "vpu" ELSE fds[m] BY <1>9, <3>1, <3>2
            <4>3. stage = "open" /\ stage' = "idle" /\ UNCHANGED <<ctx, socket, out_phyaddr>>
                BY <1>27, <2>3 DEF InstanceFails
            <4>4. \A m \in Fds : fds[m] # NULL => fds'[m] = fds[m] BY <3>1, <4>1
            <4>5. \A m \in Fds : fds'[m] = "dri" <=> fds[m] = "dri"
                BY <3>1, <4>1, Nulls DEF Names
            <4>6. (\A m \in 0 .. 2 : fds'[m] = "std") /\ (socket # 0 => fds'[socket] = "vpu")
                  /\ (out_phyaddr # 0 => fds'[out_phyaddr] = "caller")
                BY <1>9, <4>4, Nulls DEF Descriptors, Names
            <4> QED BY <4>3, <4>5, <4>6 DEF Descriptors
        <3> QED BY <2>1, <3>3, <3>4
    <2> QED BY <1>27, <2>2, <2>3 DEF InstanceFails
<1>28. ASSUME NEW how \in Outcomes, NEW works \in BOOLEAN, GrowStream(how, works)
       PROVE  Own' /\ InUse' /\ Descriptors'
    <2> DEFINE f == Free(K, streamMem)
               r == Try(f.k, f.b, how, works)
    <2>1. /\ HasRoom(K) /\ KernelIs(r.k) /\ streamMem' = r.b /\ Half(r, how) \subseteq faults'
          /\ Stray(K, streamMem) \subseteq faults'
        BY <1>28 DEF GrowStream, Budget
    <2>2. Half(r, how) = {} /\ Stray(K, streamMem) = {} BY <1>3, <1>4, <2>1
    <2>3. /\ OwnIn(f.k, f.b, pictureMem, pTableBase) /\ SameNames(K, f.k) /\ f.b.of = NULL
          /\ f.k \in Tables /\ f.b \in Buffer
        BY <1>1, <2>2, FreeSound DEF Own, InUse
    <2>4. HasRoom(f.k) BY <1>1, <2>1, FreeRoom
    <2> HIDE DEF f
    <2>5. r.k \in Tables BY <2>3, <2>4, TryTypes
    <2>6. K' = r.k BY <1>8, <2>1, <2>5
    <2>7. /\ OwnIn(r.k, r.b, pictureMem, pTableBase) /\ SameNames(f.k, r.k)
          /\ r.mapped \in BOOLEAN /\ IF r.mapped THEN ctx ELSE r.b = f.b
        BY <1>1, <2>2, <2>3, <2>4, TryOwn
    <2>8. SameNames(K, K') BY <2>3, <2>6, <2>7 DEF SameNames
    <2>9. stage = "stream" /\ stage' \in {"copy", "end"} BY <1>28 DEF GrowStream
    <2> HIDE DEF r
    <2>10. Own' BY <1>28, <2>1, <2>6, <2>7 DEF GrowStream, Own
    <2>11. streamMem'.of # NULL => ctx BY <2>1, <2>3, <2>7
    <2>12. /\ stage = "stream" /\ stage' \in {"copy", "end"}
           /\ UNCHANGED <<ctx, pictureMem, out_phyaddr, instance, files, owned>>
        BY <1>28, <2>9 DEF GrowStream
    <2>13. InUse' BY <1>12, <2>11, <2>12 DEF InUse
    <2>14. Descriptors' BY <1>9, <1>11, <2>8, <2>12, KeepDescriptors
    <2> QED BY <2>10, <2>13, <2>14
<1>29. CASE KeepStream \/ CopyStream \/ GetImageInfo \/ NextScan \/ GoOn \/ Refused \/ HwDone
    <2>1. Own' /\ SameNames(K, K')
        BY <1>7, <1>29 DEF KeepStream, CopyStream, GetImageInfo, NextScan, GoOn, Refused, HwDone
    <2>2. InUse'
        <3>1. CASE KeepStream BY <1>12, <3>1 DEF KeepStream, InUse
        <3>2. CASE CopyStream
            <4>1. streamMem.vir # NULL => streamMem.of # NULL BY <1>5, <1>6
            <4> QED BY <1>12, <3>2, <4>1 DEF CopyStream, InUse
        <3>3. CASE NextScan
            <4>1. outLumaBuffer'.of = NULL BY <1>1, <3>3 DEF NextScan, Copy, Buffer
            <4> QED BY <3>3, <4>1 DEF NextScan, InUse
        <3>4. CASE Refused BY <1>12, <3>4 DEF Refused, InUse
        <3>5. CASE HwDone BY <1>12, <3>5 DEF HwDone, InUse
        <3>6. CASE GetImageInfo BY <1>12, <3>6 DEF GetImageInfo, InUse
        <3>7. CASE GoOn
            <4>1. pTableBase.vir # NULL => allocated BY <1>5, <1>6 DEF InUse
            <4> QED BY <1>12, <3>7, <4>1 DEF GoOn, InUse
        <3> QED BY <1>29, <3>1, <3>2, <3>3, <3>4, <3>5, <3>6, <3>7
    <2>3. Descriptors'
        BY <1>9, <1>11, <1>29, <2>1, KeepDescriptors
           DEF KeepStream, CopyStream, GetImageInfo, NextScan, GoOn, Refused, HwDone
    <2> QED BY <2>1, <2>2, <2>3
<1>30. CASE UseGiven
    <2>1. pictureMem.of = NULL /\ pictureMem.vir = NULL BY <1>5, <1>6, <1>30 DEF UseGiven, InUse
    <2>2. pictureMem'.of = NULL /\ pictureMem'.vir = NULL /\ pictureMem'.fd = out_phyaddr
        BY <1>1, <1>30, <2>1 DEF UseGiven, Buffer
    <2>3. Own' /\ SameNames(K, K')
        <3>1. K' = K BY <1>30 DEF UseGiven, tables, K
        <3>2. OwnIn(K, streamMem, pictureMem', pTableBase) BY <1>1, <2>1, <2>2, OwnBlank DEF Own
        <3> QED BY <1>30, <3>1, <3>2 DEF UseGiven, Own, SameNames
    <2>4. InUse' BY <1>12, <1>30, <2>1, <2>2 DEF UseGiven, InUse
    <2>5. Descriptors' BY <1>9, <1>11, <1>30, <2>3, KeepDescriptors DEF UseGiven
    <2> QED BY <2>3, <2>4, <2>5
<1>31. ASSUME NEW how \in Outcomes, NEW works \in BOOLEAN, AllocPicture(how, works)
       PROVE  Own' /\ InUse' /\ Descriptors'
    <2> DEFINE r == Try(K, pictureMem, how, works)
    <2>1. pictureMem.of = NULL /\ stage = "picture" /\ out_phyaddr = 0 /\ ~owned /\ HasRoom(K)
        BY <1>31 DEF AllocPicture, Budget, InUse
    <2>2. [pictureMem EXCEPT !.of = NULL] = pictureMem BY <1>1, <2>1 DEF Buffer
    <2>3. KernelIs(r.k) /\ pictureMem' = r.b /\ faults' = faults \union Half(r, how)
          /\ IF r.mapped THEN stage' = "decode" /\ owned' = TRUE
             ELSE stage' \in {"picture", "idle"} /\ UNCHANGED owned
        BY <1>31, <2>2 DEF AllocPicture
    <2>4. r.k \in Tables BY <1>1, <2>1, TryTypes
    <2>5. K' = r.k BY <1>8, <2>3, <2>4
    <2>6. Half(r, how) = {} BY <1>3, <2>3
    <2>7. OwnIn(K, pictureMem, streamMem, pTableBase) BY OwnSwap DEF Own
    <2>8. /\ OwnIn(r.k, r.b, streamMem, pTableBase) /\ SameNames(K, r.k)
          /\ r.mapped \in BOOLEAN
          /\ IF r.mapped THEN ctx /\ r.b.of # NULL ELSE r.b = pictureMem
        BY <1>1, <2>1, <2>6, <2>7, TryOwn
    <2>9. OwnIn(r.k, streamMem, r.b, pTableBase) BY <2>8, OwnSwap
    <2> HIDE DEF r
    <2>10. UNCHANGED <<ctx, streamMem, out_phyaddr, instance, files>> BY <1>31 DEF AllocPicture
    <2>11. Own' /\ SameNames(K, K') BY <2>3, <2>5, <2>8, <2>9, <2>10 DEF Own
    <2>12. InUse'
        <3>1. CASE r.mapped BY <1>12, <2>1, <2>3, <2>8, <2>10, <3>1 DEF InUse
        <3>2. CASE ~r.mapped BY <1>12, <2>1, <2>3, <2>8, <2>10, <3>2 DEF InUse
        <3> QED BY <3>1, <3>2
    <2>13. stage' \in {"decode", "picture", "idle"} BY <2>3
    <2>14. Descriptors' BY <1>9, <1>11, <2>1, <2>10, <2>11, <2>13, KeepDescriptors
    <2> QED BY <2>11, <2>12, <2>14
<1>32. ASSUME NEW how \in Outcomes, NEW works \in BOOLEAN, FirstScan(how, works)
       PROVE  Own' /\ InUse' /\ Descriptors'
    <2> DEFINE r == Try(K, pTableBase, how, works)
    <2>1. pTableBase.of = NULL /\ stage = "decode" /\ ~allocated /\ HasRoom(K) /\ socket # 0
        BY <1>32 DEF FirstScan, Budget, InUse
    <2>2. /\ KernelIs(r.k) /\ pTableBase' = r.b /\ faults' = faults \union Half(r, how)
          /\ IF ~r.allocated THEN stage' = "end" /\ UNCHANGED <<outLumaBuffer, allocated>>
             ELSE /\ outLumaBuffer' = Copy(pictureMem) /\ allocated' = TRUE
                  /\ stage' = IF r.b.vir = NULL THEN "crashed" ELSE "hw"
        BY <1>32 DEF FirstScan
    <2>3. r.k \in Tables BY <1>1, <2>1, TryTypes
    <2>4. K' = r.k BY <1>8, <2>2, <2>3
    <2>5. Half(r, how) = {} BY <1>3, <2>2
    <2>6. OwnIn(K, pTableBase, pictureMem, streamMem) BY OwnSwap DEF Own
    <2>7. /\ OwnIn(r.k, r.b, pictureMem, streamMem) /\ SameNames(K, r.k)
          /\ r.mapped \in BOOLEAN /\ r.allocated = r.mapped
          /\ IF r.mapped THEN ctx /\ r.b.of # NULL /\ r.b.vir # NULL ELSE r.b = pTableBase
        BY <1>1, <2>1, <2>5, <2>6, TryOwn
    <2>8. OwnIn(r.k, streamMem, pictureMem, r.b) BY <2>7, OwnSwap
    <2> HIDE DEF r
    <2>9. UNCHANGED <<ctx, object, socket, files, owned>> BY <1>32 DEF FirstScan
    <2>10. Own' /\ SameNames(K, K') BY <2>2, <2>4, <2>7, <2>8, <2>9 DEF Own
    <2>11. outLumaBuffer'.of = NULL BY <1>1, <2>2 DEF Copy, Buffer, InUse
    <2>12. InUse' /\ stage' \in {"end", "hw"}
        <3>1. CASE r.mapped
            <4>1. stage' = "hw" /\ allocated' = TRUE BY <2>2, <2>7, <3>1
            <4> QED BY <1>12, <2>1, <2>2, <2>7, <2>9, <2>11, <3>1, <4>1 DEF InUse
        <3>2. CASE ~r.mapped
            <4>1. stage' = "end" /\ allocated' = allocated BY <2>2, <2>7, <3>2
            <4> QED BY <1>12, <2>1, <2>2, <2>7, <2>9, <2>11, <3>2, <4>1 DEF InUse
        <3> QED BY <3>1, <3>2
    <2>13. Descriptors' BY <1>9, <1>11, <2>1, <2>9, <2>10, <2>12, KeepDescriptors
    <2> QED BY <2>10, <2>12, <2>13
<1>35. CASE End
    <2>1. /\ stage = "end" /\ stage' = "idle"
          /\ UNCHANGED <<ctx, streamMem, out_phyaddr, instance, files, owned>>
        BY <1>35 DEF End
    <2>2. Own' /\ SameNames(K, K') /\ pictureMem'.of = NULL
        <3>1. CASE out_phyaddr # 0
            <4>1. UNCHANGED <<tables, pictureMem>> BY <1>35, <3>1 DEF End
            <4> QED BY <1>7, <1>12, <2>1, <3>1, <4>1 DEF InUse
        <3>2. CASE out_phyaddr = 0
            <4>1. /\ KernelIs(Free(K, pictureMem).k) /\ pictureMem' = Free(K, pictureMem).b
                  /\ ~owned => Stray(K, pictureMem) \subseteq faults'
                BY <1>35, <3>2 DEF End
            <4>2. pictureMem.of = NULL => Stray(K, pictureMem) = {}
                BY <1>4, <1>12, <2>1, <4>1 DEF InUse
            <4>3. OwnIn(K, pictureMem, streamMem, pTableBase) BY OwnSwap DEF Own
            <4>4. pictureMem.of # NULL => ctx BY DEF InUse
            <4>5. /\ OwnIn(Free(K, pictureMem).k, Free(K, pictureMem).b, streamMem, pTableBase)
                  /\ SameNames(K, Free(K, pictureMem).k) /\ Free(K, pictureMem).b.of = NULL
                  /\ Free(K, pictureMem).k \in Tables
                BY <1>1, <4>2, <4>3, <4>4, FreeSound
            <4>6. K' = Free(K, pictureMem).k BY <1>8, <4>1, <4>5
            <4>7. OwnIn(K', streamMem, pictureMem', pTableBase) BY <4>1, <4>5, <4>6, OwnSwap
            <4> QED BY <2>1, <4>1, <4>5, <4>6, <4>7 DEF Own
        <3> QED BY <3>1, <3>2
    <2>3. InUse' BY <1>12, <2>1, <2>2 DEF InUse
    <2>4. Descriptors' BY <1>9, <1>11, <2>1, <2>2, KeepDescriptors
    <2> QED BY <2>2, <2>3, <2>4
<1>36. CASE FreeStream
    <2>1. /\ stage = "idle" /\ stage' = "free picture"
          /\ UNCHANGED <<ctx, pictureMem, out_phyaddr, instance, files, owned>>
        BY <1>36 DEF FreeStream
    <2>2. Own' /\ SameNames(K, K') /\ streamMem'.of = NULL
        <3>1. CASE streamMem.vir = NULL
            <4>1. UNCHANGED <<tables, streamMem>> BY <1>36, <3>1 DEF FreeStream
            <4> QED BY <1>5, <1>6, <1>7, <2>1, <3>1, <4>1
        <3>2. CASE streamMem.vir # NULL
            <4>1. /\ KernelIs(Free(K, streamMem).k) /\ streamMem' = Free(K, streamMem).b
                BY <1>36, <3>2 DEF FreeStream
            <4>2. streamMem.of # NULL /\ ctx BY <1>5, <1>6, <3>2 DEF InUse
            <4>3. /\ OwnIn(Free(K, streamMem).k, Free(K, streamMem).b, pictureMem, pTableBase)
                  /\ SameNames(K, Free(K, streamMem).k) /\ Free(K, streamMem).b.of = NULL
                  /\ Free(K, streamMem).k \in Tables
                BY <1>1, <4>2, FreeSound DEF Own
            <4>4. K' = Free(K, streamMem).k BY <1>8, <4>1, <4>3
            <4> QED BY <2>1, <4>1, <4>3, <4>4 DEF Own
        <3> QED BY <3>1, <3>2
    <2>3. InUse' BY <1>12, <2>1, <2>2 DEF InUse
    <2>4. Descriptors' BY <1>9, <1>11, <2>1, <2>2, KeepDescriptors
    <2> QED BY <2>2, <2>3, <2>4
<1>37. CASE FreePicture
    <2>1. /\ stage = "free picture" /\ stage' = IF socket # 0 THEN "free tables" ELSE "close"
          /\ UNCHANGED <<ctx, streamMem, out_phyaddr, instance, files, owned>>
        BY <1>37 DEF FreePicture
    <2>2. pictureMem.vir = NULL BY <1>5, <1>6, <2>1 DEF InUse
    <2>3. UNCHANGED <<tables, pictureMem>> BY <1>37, <2>2 DEF FreePicture
    <2>4. Own' /\ SameNames(K, K') BY <1>7, <2>1, <2>3
    <2>5. InUse' BY <1>12, <2>1, <2>3 DEF InUse
    <2>6. Descriptors' BY <1>9, <1>11, <2>1, <2>4, KeepDescriptors
    <2> QED BY <2>4, <2>5, <2>6
<1>38. CASE FreeTables
    <2>1. /\ stage = "free tables" /\ stage' = "free copy"
          /\ UNCHANGED <<ctx, object, outLumaBuffer, socket, allocated, files, owned>>
        BY <1>38 DEF FreeTables
    <2>2. Own' /\ SameNames(K, K') /\ pTableBase'.of = NULL
        <3>1. CASE pTableBase.vir = NULL
            <4>1. UNCHANGED <<tables, pTableBase>> BY <1>38, <3>1 DEF FreeTables
            <4> QED BY <1>5, <1>6, <1>7, <2>1, <3>1, <4>1
        <3>2. CASE pTableBase.vir # NULL
            <4>1. /\ KernelIs(Free(K, pTableBase).k) /\ pTableBase' = Free(K, pTableBase).b
                BY <1>38, <3>2 DEF FreeTables
            <4>2. pTableBase.of # NULL /\ ctx BY <1>5, <1>6, <3>2 DEF InUse
            <4>3. OwnIn(K, pTableBase, pictureMem, streamMem) BY OwnSwap DEF Own
            <4>4. /\ OwnIn(Free(K, pTableBase).k, Free(K, pTableBase).b, pictureMem, streamMem)
                  /\ SameNames(K, Free(K, pTableBase).k) /\ Free(K, pTableBase).b.of = NULL
                  /\ Free(K, pTableBase).k \in Tables
                BY <1>1, <4>2, <4>3, FreeSound
            <4>5. K' = Free(K, pTableBase).k BY <1>8, <4>1, <4>4
            <4>6. OwnIn(K', streamMem, pictureMem, pTableBase') BY <4>1, <4>4, <4>5, OwnSwap
            <4> QED BY <2>1, <4>1, <4>4, <4>5, <4>6 DEF Own
        <3> QED BY <3>1, <3>2
    <2>3. InUse' BY <1>12, <2>1, <2>2 DEF InUse
    <2>4. Descriptors' BY <1>9, <1>11, <2>1, <2>2, KeepDescriptors
    <2> QED BY <2>2, <2>3, <2>4
<1>39. CASE FreeCopy
    <2>1. /\ stage = "free copy" /\ stage' = "free instance"
          /\ UNCHANGED <<ctx, object, pTableBase, socket, allocated, files, owned>>
        BY <1>39 DEF FreeCopy
    <2>2. Own' /\ SameNames(K, K') /\ outLumaBuffer'.of = NULL
        <3>1. CASE outLumaBuffer.vir = NULL
            <4>1. UNCHANGED <<tables, outLumaBuffer>> BY <1>39, <3>1 DEF FreeCopy
            <4> QED BY <1>7, <2>1, <4>1 DEF InUse
        <3>2. CASE outLumaBuffer.vir # NULL
            <4>1. /\ KernelIs(Free(K, outLumaBuffer).k) /\ outLumaBuffer' = Free(K, outLumaBuffer).b
                  /\ Stray(K, outLumaBuffer) \subseteq faults'
                BY <1>39, <3>2 DEF FreeCopy
            <4>2. outLumaBuffer.of = NULL /\ Stray(K, outLumaBuffer) = {} BY <1>4, <4>1 DEF InUse
            <4>3. Free(K, outLumaBuffer).k = K BY <1>1, <4>2, FreeNothing
            <4>4. outLumaBuffer'.of = NULL BY <1>1, <4>1, <4>2 DEF Free, Buffer
            <4>5. UNCHANGED tables BY <4>1, <4>3 DEF KernelIs, K, tables
            <4> QED BY <1>7, <2>1, <4>4, <4>5
        <3> QED BY <3>1, <3>2
    <2>3. InUse' BY <1>12, <2>1, <2>2 DEF InUse
    <2>4. Descriptors' BY <1>9, <1>11, <2>1, <2>2, KeepDescriptors
    <2> QED BY <2>2, <2>3, <2>4
<1>40. CASE FreeInstance
    <2>1. /\ stage = "free instance" /\ stage' = "close" /\ socket' = 0
          /\ UNCHANGED <<ctx, object, pTableBase, outLumaBuffer, allocated, counts, owned, faults>>
        BY <1>40 DEF FreeInstance
    <2>2. fds' = [fds EXCEPT ![socket] = NULL] /\ hnds' = hnds /\ maps' = maps
        BY <1>14, <1>40 DEF FreeInstance
    <2>3. socket # 0 /\ fds[socket] = "vpu" BY <2>1 DEF InUse, Descriptors
    <2>4. Own' BY <1>1, <1>9, <2>1, <2>2, <2>3, OwnOther, Nulls DEF Names
    <2>5. InUse' BY <1>12, <2>1 DEF InUse
    <2>6. Descriptors'
        <3>1. \A m \in Fds : fds'[m] = IF m = socket THEN NULL ELSE fds[m] BY <1>9, <2>2
        <3>3. \A m \in Fds : fds[m] # "vpu" => fds'[m] = fds[m] BY <2>3, <3>1
        <3>4. \A m \in Fds : fds'[m] = "dri" <=> fds[m] = "dri"
            BY <2>3, <3>1, Nulls DEF Names
        <3>5. (\A m \in 0 .. 2 : fds'[m] = "std") /\ (out_phyaddr # 0 => fds'[out_phyaddr] = "caller")
            BY <1>9, <3>3, Nulls DEF Descriptors
        <3> QED BY <2>1, <3>4, <3>5 DEF Descriptors
    <2> QED BY <2>4, <2>5, <2>6
<1>41. CASE CloseAllocator
    <2>1. /\ stage = "close" /\ stage' = "closed"
          /\ UNCHANGED <<ctx, object, instance, counts, owned, faults>>
        BY <1>41 DEF CloseAllocator
    <2>2. InUse' BY <1>12, <2>1 DEF InUse
    <2>3. CASE ctx
        <3> DEFINE n == CHOOSE m \in Fds : fds[m] = "dri"
        <3>1. \E m \in Fds : fds[m] = "dri" BY <2>1, <2>3 DEF Descriptors
        <3>2. n \in Fds /\ fds[n] = "dri" BY <3>1
        <3>3. fds' = [fds EXCEPT ![n] = NULL] /\ hnds' = hnds /\ maps' = maps
            BY <1>14, <1>41, <2>3 DEF CloseAllocator
        <3> HIDE DEF n
        <3>4. Own' BY <1>1, <2>1, <3>2, <3>3, OwnOther, Nulls DEF Names
        <3>5. Descriptors'
            <4>1. \A m \in Fds : fds'[m] = IF m = n THEN NULL ELSE fds[m] BY <1>9, <3>2, <3>3
            <4>3. \A m \in Fds : fds[m] # "dri" => fds'[m] = fds[m] BY <3>2, <4>1
            <4>4. \A m \in Fds : fds'[m] # "dri"
                BY <3>2, <4>1, Nulls DEF Descriptors, Names
            <4>5. (\A m \in 0 .. 2 : fds'[m] = "std") /\ (socket # 0 => fds'[socket] = "vpu")
                  /\ (out_phyaddr # 0 => fds'[out_phyaddr] = "caller")
                BY <1>9, <4>3, Nulls DEF Descriptors
            <4> QED BY <2>1, <4>4, <4>5 DEF Descriptors
        <3> QED BY <2>2, <3>4, <3>5
    <2>4. CASE ~ctx
        <3>1. UNCHANGED tables BY <1>41, <2>4 DEF CloseAllocator
        <3>2. Own' BY <1>7, <2>1, <3>1
        <3>4. Descriptors' BY <2>1, <2>4, <3>1 DEF Descriptors, tables
        <3> QED BY <2>2, <3>2, <3>4
    <2> QED BY <1>12, <2>3, <2>4
<1>42. CASE UNCHANGED bufferVars
    <2>1. Own' BY <1>7, <1>42 DEF bufferVars
    <2>2. InUse' BY <1>42 DEF bufferVars, InUse
    <2>4. Descriptors' BY <1>42 DEF bufferVars, tables, Descriptors
    <2> QED BY <2>1, <2>2, <2>4
<1> HIDE DEF object, instance, counts, Released
<1> QED
    BY <1>21, <1>22, <1>23, <1>24, <1>25, <1>26, <1>27, <1>28, <1>29, <1>30, <1>31, <1>32, <1>35,
       <1>36, <1>37, <1>38, <1>39, <1>40, <1>41, <1>42 DEF BuffersNext

\* The ownership invariant holds through the calls of pv_rkJpegdecoder and its release, for
\* any number of objects, descriptors, calls, failures and files of the caller.
THEOREM OwnershipInvariance == BuffersSpec => []OwnershipInv
<1>1. BuffersInit => OwnershipInv BY InitOwn
<1>2. OwnershipInv /\ [BuffersNext]_bufferVars => OwnershipInv'
    <2> SUFFICES ASSUME OwnershipInv, [BuffersNext]_bufferVars PROVE OwnershipInv'
        OBVIOUS
    <2>1. BuffersTypeOK /\ BuffersTypeOK' BY NextBuffersTypes DEF OwnershipInv
    <2>2. ASSUME Intact' PROVE Own' /\ InUse' /\ Descriptors'
        <3>1. Intact BY <2>2, FaultsStay DEF Intact
        <3> QED BY <2>1, <2>2, <3>1, NextOwn DEF OwnershipInv
    <2> QED BY <2>1, <2>2 DEF OwnershipInv
<1> QED BY <1>1, <1>2, PTL DEF BuffersSpec

\* Every variable of the ownership model keeps its type (pv_jpegdec_api.cpp, allocator_drm.c).
THEOREM BuffersTypeCorrect == BuffersSpec => []BuffersTypeOK
<1>1. OwnershipInv => BuffersTypeOK BY DEF OwnershipInv
<1> QED BY <1>1, OwnershipInvariance, PTL

\* The hardware is given the memory of the stream, the result and the tables, each its own.
THEOREM OwnBuffersOnlyThm == BuffersSpec => []OwnBuffersOnly
<1>1. OwnershipInv => OwnBuffersOnly
    <2> SUFFICES ASSUME OwnershipInv, stage = "hw", Intact
                 PROVE  /\ Whole(streamMem) /\ Whole(pTableBase) /\ streamMem.of # pTableBase.of
                        /\ IF out_phyaddr # 0
                           THEN pictureMem.fd = out_phyaddr /\ fds[out_phyaddr] = "caller"
                           ELSE Whole(pictureMem) /\ pictureMem.of \notin {streamMem.of, pTableBase.of}
                        /\ fds[socket] = "vpu"
        BY DEF OwnBuffersOnly, Intact
    <2>1. Own /\ InUse /\ Descriptors BY DEF OwnershipInv
    <2>2. \A b : Sound(K, b) /\ b.of # NULL => Whole(b) BY DEF Sound, WholeIn, Whole, K
    <2>3. /\ streamMem.of # NULL /\ pTableBase.of # NULL /\ socket # 0
          /\ out_phyaddr = 0 => pictureMem.of # NULL
          /\ out_phyaddr # 0 => pictureMem.fd = out_phyaddr
        BY <2>1 DEF InUse
    <2>4. Whole(streamMem) /\ Whole(pTableBase) /\ (out_phyaddr = 0 => Whole(pictureMem))
        BY <2>1, <2>2, <2>3 DEF Own, OwnIn
    <2>5. /\ streamMem.of # pTableBase.of
          /\ out_phyaddr = 0 => pictureMem.of # streamMem.of /\ pictureMem.of # pTableBase.of
        BY <2>1, <2>3 DEF Own, OwnIn
    <2>6. fds[socket] = "vpu" /\ (out_phyaddr # 0 => fds[out_phyaddr] = "caller")
        BY <2>1, <2>3 DEF Descriptors
    <2> QED BY <2>3, <2>4, <2>5, <2>6
<1> QED BY <1>1, OwnershipInvariance, PTL

-----------------------------------------------------------------------------
(* What is left behind                                                     *)

\* Every number that stands for an object is one of a buffer that is still to be released,
\* be the object that buffer's or, after a stray release, another.
CoverIn(k, s, p, t) ==
  /\ \A n \in Fds : k.fds[n] \in Objects => \E b \in {s, p, t} : b.vir # NULL /\ b.fd = n
  /\ \A n \in Numbers : k.hnds[n] # NULL => \E b \in {s, p, t} : b.vir # NULL /\ b.hnd = n
  /\ \A n \in Numbers : k.maps[n] # NULL => \E b \in {s, p, t} : b.vir = n
Cover == CoverIn(K, streamMem, pictureMem, pTableBase)

\* Which buffers are still to be released, and that the release will come to them.
ToRelease ==
  /\ streamMem.vir # NULL \/ pictureMem.vir # NULL \/ pTableBase.vir # NULL => ctx
  /\ stage \in {"new", "init"} \union Released => streamMem.vir = NULL
  /\ pictureMem.vir # NULL => stage \in {"decode", "hw", "end", "crashed"}
  /\ stage \in {"decode", "hw", "end"} /\ pictureMem.vir # NULL => out_phyaddr = 0
  /\ pTableBase.vir # NULL => allocated /\ socket # 0
  /\ stage \in {"free copy", "free instance", "close", "closed"} => pTableBase.vir = NULL
  /\ stage \in {"stream", "copy", "info", "picture", "decode", "hw", "free tables", "free copy",
                "free instance"} => socket # 0
  /\ stage \in {"open", "close", "closed"} => socket = 0

\* The descriptors of the two devices.
Devices ==
  /\ \A m, n \in Fds : fds[m] = "dri" /\ fds[n] = "dri" => m = n
  /\ (\E n \in Fds : fds[n] = "dri") => ctx /\ stage # "closed"
  /\ stage = "new" => ~ctx
  /\ \A n \in Fds : fds[n] = "vpu" => n = socket /\ socket # 0

\* Nothing was forgotten; releases may have gone astray.
Kept == faults \subseteq {"stray"}
LeftInv == Kept => Cover /\ ToRelease /\ Devices

LEMMA CoverSwap ==
  ASSUME NEW k, NEW s, NEW p, NEW t, CoverIn(k, s, p, t)
  PROVE  CoverIn(k, p, s, t) /\ CoverIn(k, t, p, s)
<1>1. {p, s, t} = {s, p, t} /\ {t, p, s} = {s, p, t} OBVIOUS
<1> QED BY <1>1 DEF CoverIn

\* Entries that become free, or stand for no object, need no cover.
LEMMA CoverLess ==
  ASSUME NEW k, NEW l, NEW s, NEW p, NEW t, CoverIn(k, s, p, t),
         \A n \in Fds : l.fds[n] \in Objects => l.fds[n] = k.fds[n],
         \A n \in Numbers : l.hnds[n] \in {NULL, k.hnds[n]} /\ l.maps[n] \in {NULL, k.maps[n]}
  PROVE  CoverIn(l, s, p, t)
BY DEF CoverIn

\* A buffer without a mapping covers nothing.
LEMMA CoverBlank ==
  ASSUME NEW k, NEW s, NEW p, NEW t, CoverIn(k, s, p, t), p.vir = NULL, NEW q, q.vir = NULL
  PROVE  CoverIn(k, s, q, t)
BY Nulls DEF CoverIn

\* What an attempt takes is covered by the buffer it is for.
LEMMA TryCover ==
  ASSUME NEW k \in Tables, NEW b \in Buffer, NEW p, NEW t, CoverIn(k, b, p, t), b.vir = NULL,
         HasRoom(k), NEW how \in Outcomes, NEW works \in BOOLEAN,
         NEW r, r = Try(k, b, how, works), Half(r, how) = {}
  PROVE  /\ CoverIn(r.k, r.b, p, t)
         /\ r.allocated = r.mapped /\ r.mapped \in BOOLEAN
         /\ IF r.mapped THEN ctx /\ r.b.vir # NULL ELSE r.b = b
         /\ \A n \in Fds : r.k.fds[n] \notin Objects => r.k.fds[n] = k.fds[n]
<1>1. /\ r.allocated = r.mapped /\ r.mapped \in BOOLEAN
      /\ IF r.mapped THEN ctx /\ Taken(k, r.k, r.b) ELSE r.k = k /\ r.b = b
    BY TryTakes
<1>2. CASE ~r.mapped BY <1>1, <1>2
<1>3. CASE r.mapped
    <2> DEFINE l == r.k  c == r.b
    <2>1. ctx /\ Taken(k, l, c) BY <1>1, <1>3
    <2>2. /\ c.of \in Objects /\ c.vir \in Numbers /\ c.vir # NULL
          /\ \A n \in Fds : n # c.fd => l.fds[n] = k.fds[n]
          /\ l.fds[c.fd] = c.of
          /\ \A n \in Numbers : n # c.hnd => l.hnds[n] = k.hnds[n]
          /\ \A n \in Numbers : n # c.vir => l.maps[n] = k.maps[n]
        BY <2>1, Nulls DEF Taken, Room, Tables
    <2> HIDE DEF l, c
    <2>3. ASSUME NEW n \in Fds, l.fds[n] \in Objects
          PROVE  \E x \in {c, p, t} : x.vir # NULL /\ x.fd = n
        <3>1. n # c.fd => \E x \in {b, p, t} : x.vir # NULL /\ x.fd = n
            BY <2>2, <2>3 DEF CoverIn
        <3> QED BY <2>2, <3>1
    <2>4. ASSUME NEW n \in Numbers, l.hnds[n] # NULL
          PROVE  \E x \in {c, p, t} : x.vir # NULL /\ x.hnd = n
        <3>1. n # c.hnd => \E x \in {b, p, t} : x.vir # NULL /\ x.hnd = n
            BY <2>2, <2>4 DEF CoverIn
        <3> QED BY <2>2, <3>1
    <2>5. ASSUME NEW n \in Numbers, l.maps[n] # NULL
          PROVE  \E x \in {c, p, t} : x.vir = n
        <3>1. n # c.vir => \E x \in {b, p, t} : x.vir = n
            BY <2>2, <2>5 DEF CoverIn
        <3> QED BY <2>5, <3>1, Nulls
    <2>6. CoverIn(l, c, p, t) BY <2>3, <2>4, <2>5 DEF CoverIn
    <2>7. \A n \in Fds : l.fds[n] \notin Objects => l.fds[n] = k.fds[n] BY <2>2
    <2> QED BY <1>1, <1>3, <2>1, <2>2, <2>6, <2>7 DEF l, c
<1> QED BY <1>1, <1>2, <1>3

\* A release frees what only its buffer covered, whosever that has become.
LEMMA FreeCover ==
  ASSUME NEW k \in Tables, NEW b \in Buffer, NEW p, NEW t, CoverIn(k, b, p, t),
         b.vir # NULL => ctx
  PROVE  CoverIn(Free(k, b).k, Free(k, b).b, p, t) /\ Free(k, b).b.vir = NULL
<1>1. CASE ~ctx BY <1>1 DEF Free
<1>2. CASE ctx
    <2> DEFINE l == Free(k, b).k
               c == Free(k, b).b
    <2>1. c.vir = NULL BY <1>2 DEF Free, Buffer
    <2>2. /\ l \in Tables /\ \A n \in Fds : l.fds[n] \in {NULL, k.fds[n]}
          /\ \A n \in Numbers : l.hnds[n] \in {NULL, k.hnds[n]} /\ l.maps[n] \in {NULL, k.maps[n]}
        BY FreeTypes
    <2>3. /\ l.fds[b.fd] = NULL /\ (b.hnd # 0 => l.hnds[b.hnd] = NULL)
          /\ (b.vir # NULL => l.maps[b.vir] = NULL)
        <3>1. l = [fds |-> [k.fds EXCEPT ![b.fd] = NULL],
                   hnds |-> IF b.hnd = 0 THEN k.hnds ELSE [k.hnds EXCEPT ![b.hnd] = NULL],
                   maps |-> IF b.vir = NULL THEN k.maps ELSE [k.maps EXCEPT ![b.vir] = NULL]]
            BY <1>2 DEF Free, CloseFd, Tables
        <3>2. /\ b.fd \in Fds /\ (b.hnd # 0 => b.hnd \in Numbers)
              /\ (b.vir # NULL => b.vir \in Numbers)
            BY DEF Buffer
        <3> HIDE DEF l
        <3> QED BY <3>1, <3>2 DEF Tables
    <2> HIDE DEF l, c
    <2>4. ASSUME NEW n \in Fds, l.fds[n] \in Objects
          PROVE  \E x \in {c, p, t} : x.vir # NULL /\ x.fd = n
        <3>1. n # b.fd /\ k.fds[n] \in Objects BY <2>2, <2>3, <2>4, Nulls
        <3> QED BY <3>1 DEF CoverIn
    <2>5. ASSUME NEW n \in Numbers, l.hnds[n] # NULL
          PROVE  \E x \in {c, p, t} : x.vir # NULL /\ x.hnd = n
        <3>1. n # b.hnd /\ k.hnds[n] # NULL BY <2>2, <2>3, <2>5, Nulls
        <3> QED BY <3>1 DEF CoverIn
    <2>6. ASSUME NEW n \in Numbers, l.maps[n] # NULL
          PROVE  \E x \in {c, p, t} : x.vir = n
        <3>1. n # b.vir /\ k.maps[n] # NULL BY <2>2, <2>3, <2>6, Nulls
        <3> QED BY <3>1 DEF CoverIn
    <2>7. CoverIn(l, c, p, t) BY <2>4, <2>5, <2>6 DEF CoverIn
    <2> QED BY <2>1, <2>7 DEF l, c
<1> QED BY <1>1, <1>2

LEMMA InitLeft == BuffersInit => LeftInv
<1> SUFFICES ASSUME BuffersInit PROVE Cover /\ ToRelease /\ Devices
    BY DEF LeftInv
<1>1. \A n \in Fds : fds[n] \in {"std", NULL} BY DEF BuffersInit
<1>2. /\ \A n \in Numbers : hnds[n] = NULL /\ maps[n] = NULL
      /\ streamMem.vir = NULL /\ pictureMem.vir = NULL /\ pTableBase.vir = NULL
      /\ stage = "new" /\ ~ctx
    BY DEF BuffersInit, NoBuffer
<1>3. Cover BY <1>1, <1>2, Nulls DEF Cover, CoverIn, K, Names
<1>4. ToRelease BY <1>2 DEF ToRelease, Released
<1>5. Devices BY <1>1, <1>2, Nulls DEF Devices, Names
<1> QED BY <1>3, <1>4, <1>5

\* No descriptor of the devices is opened.
LEMMA KeepDevices ==
  ASSUME BuffersTypeOK, Devices, UNCHANGED <<socket, ctx>>, stage' \notin {"closed", "new"},
         \A n \in Fds : fds'[n] \in {"dri", "vpu"} => fds'[n] = fds[n]
  PROVE  Devices'
BY DEF Devices

\* A step that changes neither the tables nor the buffers.
LEMMA CoverKept ==
  ASSUME UNCHANGED <<tables, streamMem, pictureMem, pTableBase>>, Cover
  PROVE  Cover' /\ \A n \in Fds : fds'[n] \in {"dri", "vpu"} => fds'[n] = fds[n]
BY DEF Cover, K, tables

\* Every step keeps the cover, with one case per action.
LEMMA NextLeft ==
  ASSUME BuffersTypeOK, BuffersTypeOK', Cover, ToRelease, Devices, Kept', [BuffersNext]_bufferVars
  PROVE  Cover' /\ ToRelease' /\ Devices'
<1>1. /\ K \in Tables /\ K' \in Tables /\ FlagsOK /\ FlagsOK'
      /\ streamMem \in Buffer /\ pictureMem \in Buffer /\ pTableBase \in Buffer
      /\ outLumaBuffer \in Buffer
    BY TypesByParts DEF TablesOK, BuffersOK
<1>2. \A t, how : Half(t, how) \subseteq faults' => Half(t, how) = {}
    BY DEF Half, Kept
<1>3. \A k \in Tables : KernelIs(k) => K' = k
    BY KernelIsTables
<1>4. /\ "dri" \notin Objects /\ "vpu" \notin Objects /\ "caller" \notin Objects
      /\ NULL \notin Objects /\ "dri" # NULL /\ "vpu" # NULL /\ "caller" # NULL
    BY Nulls DEF Names
<1>5. K.fds = fds /\ K.hnds = hnds /\ K.maps = maps /\ K'.fds = fds' /\ K'.hnds = hnds'
      /\ K'.maps = maps' /\ DOMAIN fds = Fds
    BY <1>1 DEF K, Tables
<1>6. ctx \in BOOLEAN /\ allocated \in BOOLEAN /\ allocated' \in BOOLEAN /\ scanRead \in BOOLEAN
    BY <1>1 DEF FlagsOK
\* A descriptor that is no buffer is opened or closed.
<1>7. ASSUME NEW n, NEW x, x \notin Objects, fds' = [fds EXCEPT ![n] = x],
             UNCHANGED <<hnds, maps, streamMem, pictureMem, pTableBase>>
      PROVE  /\ Cover'
             /\ \A m \in Fds : fds'[m] = fds[m] \/ (m = n /\ fds'[m] = x)
    <2>1. \A m \in Fds : fds'[m] = IF m = n THEN x ELSE fds[m] BY <1>5, <1>7
    <2>2. \A m \in Fds : K'.fds[m] \in Objects => K'.fds[m] = K.fds[m] BY <1>5, <1>7, <2>1
    <2>3. \A m \in Numbers : K'.hnds[m] = K.hnds[m] /\ K'.maps[m] = K.maps[m] BY <1>5, <1>7
    <2>4. CoverIn(K', streamMem, pictureMem, pTableBase) BY <2>2, <2>3, CoverLess DEF Cover
    <2> QED BY <1>7, <2>1, <2>4 DEF Cover
\* The numbers of a buffer are released.
<1>8. ASSUME NEW b \in Buffer, KernelIs(Free(K, b).k)
      PROVE  /\ K' = Free(K, b).k
             /\ \A n \in Fds : fds'[n] \in {"dri", "vpu"} => fds'[n] = fds[n]
             /\ \A n \in Fds : K'.fds[n] \in Objects => K'.fds[n] = K.fds[n]
             /\ \A n \in Numbers : K'.hnds[n] \in {NULL, K.hnds[n]} /\ K'.maps[n] \in {NULL, K.maps[n]}
    <2>1. K' = Free(K, b).k BY <1>1, <1>3, <1>8, FreeTypes
    <2>2. /\ \A n \in Fds : K'.fds[n] \in {NULL, K.fds[n]}
          /\ \A n \in Numbers : K'.hnds[n] \in {NULL, K.hnds[n]} /\ K'.maps[n] \in {NULL, K.maps[n]}
        BY <1>1, <2>1, FreeTypes
    <2> QED BY <1>4, <1>5, <2>1, <2>2
<1> USE DEF object, instance, counts, Released
<1>9. \A x : KernelIs(OpenFd(K, x)) =>
               fds' = [fds EXCEPT ![Lowest(fds, NULL)] = x] /\ hnds' = hnds /\ maps' = maps
    BY DEF KernelIs, OpenFd, K
<1>10. \A n : KernelIs(CloseFd(K, n)) => fds' = [fds EXCEPT ![n] = NULL] /\ hnds' = hnds /\ maps' = maps
    BY DEF KernelIs, CloseFd, K
<1>21. CASE OpenAllocator
    <2> DEFINE n == Lowest(fds, NULL)
    <2>1. /\ stage = "new" /\ stage' = "init" /\ ctx' = TRUE /\ UNCHANGED <<object, instance>>
          /\ fds' = [fds EXCEPT ![n] = "dri"] /\ hnds' = hnds /\ maps' = maps
        BY <1>9, <1>21 DEF OpenAllocator
    <2> HIDE DEF n
    <2>2. Cover' /\ \A m \in Fds : fds'[m] = fds[m] \/ (m = n /\ fds'[m] = "dri")
        BY <1>4, <1>7, <2>1
    <2>3. ToRelease' BY <1>6, <2>1 DEF ToRelease
    <2>4. \A m \in Fds : fds[m] # "dri" BY <2>1 DEF Devices
    <2>5. Devices' BY <2>1, <2>2, <2>4 DEF Devices
    <2> QED BY <2>2, <2>3, <2>5
<1>22. CASE OpenFails
    <2>1. UNCHANGED <<tables, ctx, object, instance>> /\ stage = "new" /\ stage' = "init"
        BY <1>22 DEF OpenFails
    <2>2. ToRelease' BY <2>1 DEF ToRelease
    <2> QED BY <2>1, <2>2, CoverKept, KeepDevices
<1>23. ASSUME NEW how \in Outcomes, NEW works \in BOOLEAN, InitStream(how, works)
       PROVE  Cover' /\ ToRelease' /\ Devices'
    <2> DEFINE r == Try(K, streamMem, how, works)
    <2>1. /\ HasRoom(K) /\ KernelIs(r.k) /\ streamMem' = r.b /\ Half(r, how) \subseteq faults'
          /\ stage = "init" /\ stage' = "idle"
          /\ UNCHANGED <<ctx, pictureMem, out_phyaddr, instance>>
        BY <1>23 DEF InitStream, Budget
    <2>2. r.k \in Tables BY <1>1, <2>1, TryTypes
    <2>3. K' = r.k BY <1>3, <2>1, <2>2
    <2>4. Half(r, how) = {} BY <1>2, <2>1
    <2>5. streamMem.vir = NULL BY <2>1 DEF ToRelease
    <2>6. /\ CoverIn(r.k, r.b, pictureMem, pTableBase)
          /\ r.mapped \in BOOLEAN /\ IF r.mapped THEN ctx ELSE r.b = streamMem
          /\ \A n \in Fds : r.k.fds[n] \notin Objects => r.k.fds[n] = K.fds[n]
        BY <1>1, <2>1, <2>4, <2>5, TryCover DEF Cover
    <2> HIDE DEF r
    <2>7. Cover' BY <2>1, <2>3, <2>6 DEF Cover
    <2>8. ToRelease' BY <1>6, <2>1, <2>5, <2>6 DEF ToRelease
    <2>9. \A n \in Fds : fds'[n] \in {"dri", "vpu"} => fds'[n] = fds[n]
        BY <1>4, <1>5, <2>3, <2>6
    <2> QED BY <2>1, <2>7, <2>8, <2>9, KeepDevices
<1>24. CASE CallerOpens
    <2> DEFINE n == Lowest(fds, NULL)
    <2>1. /\ fds' = [fds EXCEPT ![n] = "caller"] /\ hnds' = hnds /\ maps' = maps
          /\ stage = "idle" /\ stage' = "idle" /\ UNCHANGED <<ctx, object, instance>>
        BY <1>9, <1>24 DEF CallerOpens
    <2> HIDE DEF n
    <2>2. Cover' /\ \A m \in Fds : fds'[m] = fds[m] \/ (m = n /\ fds'[m] = "caller")
        BY <1>4, <1>7, <2>1
    <2>3. ToRelease' BY <1>6, <2>1 DEF ToRelease
    <2> QED BY <2>1, <2>2, <2>3, KeepDevices
<1>25. ASSUME NEW s \in {"none", "small", "big"}, NEW f \in Fds, SubmitPicture(s, f)
       PROVE  Cover' /\ ToRelease' /\ Devices'
    <2>1. /\ UNCHANGED <<tables, ctx, streamMem, pictureMem, instance>> /\ stage = "idle"
          /\ stage' = IF s = "none" THEN "end" ELSE IF socket = 0 THEN "open" ELSE "stream"
        BY <1>25 DEF SubmitPicture
    <2>2. ToRelease' BY <1>6, <2>1 DEF ToRelease
    <2> QED BY <2>1, <2>2, CoverKept, KeepDevices
<1>26. CASE OpenInstance
    <2> DEFINE n == Lowest(fds, NULL)
    <2>1. /\ fds' = [fds EXCEPT ![n] = "vpu"] /\ hnds' = hnds /\ maps' = maps
          /\ stage = "open" /\ UNCHANGED <<ctx, object, pTableBase, allocated>>
          /\ IF n = 0 THEN faults' = faults \union {"lost"} ELSE stage' = "stream" /\ socket' = n
        BY <1>9, <1>26 DEF OpenInstance
    <2> HIDE DEF n
    <2>2. n # 0 /\ stage' = "stream" /\ socket' = n BY <2>1 DEF Kept
    <2>3. Cover' /\ \A m \in Fds : fds'[m] = fds[m] \/ (m = n /\ fds'[m] = "vpu")
        BY <1>4, <1>7, <2>1
    <2>4. ToRelease' BY <1>6, <2>1, <2>2 DEF ToRelease
    <2>5. socket = 0 BY <2>1 DEF ToRelease
    <2>6. \A m \in Fds : fds[m] # "vpu" BY <2>5 DEF Devices
    <2>7. Devices' BY <2>1, <2>2, <2>3, <2>6 DEF Devices
    <2> QED BY <2>3, <2>4, <2>7
<1>27. CASE InstanceFails
    <2>1. /\ UNCHANGED <<tables, ctx, object, instance>> /\ stage = "open" /\ stage' = "idle"
        BY <1>27 DEF InstanceFails, Kept
    <2>2. ToRelease' BY <1>6, <2>1 DEF ToRelease
    <2> QED BY <2>1, <2>2, CoverKept, KeepDevices
<1>28. ASSUME NEW how \in Outcomes, NEW works \in BOOLEAN, GrowStream(how, works)
       PROVE  Cover' /\ ToRelease' /\ Devices'
    <2> DEFINE f == Free(K, streamMem)
               r == Try(f.k, f.b, how, works)
    <2>1. /\ HasRoom(K) /\ KernelIs(r.k) /\ streamMem' = r.b /\ Half(r, how) \subseteq faults'
          /\ stage = "stream" /\ UNCHANGED <<ctx, pictureMem, out_phyaddr, instance>>
        BY <1>28 DEF GrowStream, Budget
    <2>2. stage' \in {"copy", "end"} BY <1>28 DEF GrowStream
    <2>3. Half(r, how) = {} BY <1>2, <2>1
    <2>4. CoverIn(f.k, f.b, pictureMem, pTableBase) /\ f.b.vir = NULL
        BY <1>1, FreeCover DEF Cover, ToRelease
    <2>5. /\ f.k \in Tables /\ f.b \in Buffer /\ HasRoom(f.k)
          /\ \A n \in Fds : f.k.fds[n] \in {NULL, K.fds[n]}
        BY <1>1, <2>1, FreeTypes, FreeRoom
    <2> HIDE DEF f
    <2>6. r.k \in Tables BY <2>5, TryTypes
    <2>7. K' = r.k BY <1>3, <2>1, <2>6
    <2>8. /\ CoverIn(r.k, r.b, pictureMem, pTableBase)
          /\ r.mapped \in BOOLEAN /\ IF r.mapped THEN ctx ELSE r.b = f.b
          /\ \A n \in Fds : r.k.fds[n] \notin Objects => r.k.fds[n] = f.k.fds[n]
        BY <2>3, <2>4, <2>5, TryCover
    <2> HIDE DEF r
    <2>9. Cover' BY <2>1, <2>7, <2>8 DEF Cover
    <2>10. ToRelease' BY <1>6, <2>1, <2>2, <2>4, <2>8 DEF ToRelease
    <2>11. \A n \in Fds : fds'[n] \in {"dri", "vpu"} => fds'[n] = fds[n]
        BY <1>4, <1>5, <2>5, <2>7, <2>8
    <2> QED BY <2>1, <2>2, <2>9, <2>10, <2>11, KeepDevices
<1>29. CASE KeepStream \/ CopyStream \/ GetImageInfo \/ NextScan \/ GoOn \/ Refused \/ HwDone
    <2>1. /\ UNCHANGED <<tables, ctx, object, pTableBase, socket, allocated>>
          /\ \/ stage = "stream" /\ stage' = "copy"
             \/ stage = "copy" /\ stage' \in {"crashed", "info"}
             \/ stage = "info" /\ stage' \in {"picture", "end"}
             \/ stage \in {"decode", "hw"} /\ stage' \in {"decode", "hw", "end", "crashed"}
        BY <1>29 DEF KeepStream, CopyStream, GetImageInfo, NextScan, GoOn, Refused, HwDone
    <2>2. ToRelease' BY <1>6, <2>1 DEF ToRelease
    <2> QED BY <2>1, <2>2, CoverKept, KeepDevices
<1>30. CASE UseGiven
    <2>1. /\ stage = "picture" /\ stage' = "decode"
          /\ UNCHANGED <<tables, ctx, streamMem, out_phyaddr, instance>>
          /\ pictureMem' = [pictureMem EXCEPT !.fd = out_phyaddr, !.of = NULL]
        BY <1>30 DEF UseGiven
    <2>2. pictureMem.vir = NULL /\ pictureMem'.vir = NULL BY <1>1, <2>1 DEF ToRelease, Buffer
    <2>3. K' = K BY <2>1 DEF tables, K
    <2>4. Cover' BY <2>1, <2>2, <2>3, CoverBlank DEF Cover
    <2>5. ToRelease' BY <1>6, <2>1, <2>2 DEF ToRelease
    <2> QED BY <1>5, <2>1, <2>3, <2>4, <2>5, KeepDevices
<1>31. ASSUME NEW how \in Outcomes, NEW works \in BOOLEAN, AllocPicture(how, works)
       PROVE  Cover' /\ ToRelease' /\ Devices'
    <2> DEFINE b == [pictureMem EXCEPT !.of = NULL]
               r == Try(K, b, how, works)
    <2>1. /\ HasRoom(K) /\ KernelIs(r.k) /\ pictureMem' = r.b /\ Half(r, how) \subseteq faults'
          /\ stage = "picture" /\ out_phyaddr = 0
          /\ UNCHANGED <<ctx, streamMem, out_phyaddr, instance>>
          /\ IF r.mapped THEN stage' = "decode" ELSE stage' \in {"picture", "idle"}
        BY <1>31 DEF AllocPicture, Budget
    <2>2. pictureMem.vir = NULL BY <2>1 DEF ToRelease
    <2>3. b \in Buffer /\ b.vir = NULL BY <1>1, <2>2 DEF Buffer
    <2> HIDE DEF b
    <2>4. r.k \in Tables BY <1>1, <2>1, <2>3, TryTypes
    <2>5. K' = r.k BY <1>3, <2>1, <2>4
    <2>6. Half(r, how) = {} BY <1>2, <2>1
    <2>7. CoverIn(K, streamMem, b, pTableBase) BY <2>2, <2>3, CoverBlank DEF Cover
    <2>8. CoverIn(K, b, streamMem, pTableBase) BY <2>7, CoverSwap
    <2>9. /\ CoverIn(r.k, r.b, streamMem, pTableBase)
          /\ r.mapped \in BOOLEAN /\ IF r.mapped THEN ctx ELSE r.b = b
          /\ \A n \in Fds : r.k.fds[n] \notin Objects => r.k.fds[n] = K.fds[n]
        BY <1>1, <2>1, <2>3, <2>6, <2>8, TryCover
    <2>10. CoverIn(r.k, streamMem, r.b, pTableBase) BY <2>9, CoverSwap
    <2> HIDE DEF r
    <2>11. Cover' BY <2>1, <2>5, <2>10 DEF Cover
    <2>12. ToRelease'
        <3>1. CASE r.mapped BY <1>6, <2>1, <2>9, <3>1 DEF ToRelease
        <3>2. CASE ~r.mapped BY <1>6, <2>1, <2>3, <2>9, <3>2 DEF ToRelease
        <3> QED BY <2>9, <3>1, <3>2
    <2>13. \A n \in Fds : fds'[n] \in {"dri", "vpu"} => fds'[n] = fds[n]
        BY <1>4, <1>5, <2>5, <2>9
    <2>14. stage' \in {"decode", "picture", "idle"} BY <2>1, <2>9
    <2> QED BY <2>1, <2>11, <2>12, <2>13, <2>14, KeepDevices
<1>32. ASSUME NEW how \in Outcomes, NEW works \in BOOLEAN, FirstScan(how, works)
       PROVE  Cover' /\ ToRelease' /\ Devices'
    <2> DEFINE r == Try(K, pTableBase, how, works)
    <2>1. /\ HasRoom(K) /\ KernelIs(r.k) /\ pTableBase' = r.b /\ Half(r, how) \subseteq faults'
          /\ stage = "decode" /\ ~allocated /\ UNCHANGED <<ctx, object, socket>>
          /\ IF ~r.allocated THEN stage' = "end" /\ UNCHANGED allocated
             ELSE allocated' = TRUE /\ stage' \in {"crashed", "hw"}
        BY <1>32 DEF FirstScan, Budget
    <2>2. pTableBase.vir = NULL /\ socket # 0 BY <2>1 DEF ToRelease
    <2>3. r.k \in Tables BY <1>1, <2>1, TryTypes
    <2>4. K' = r.k BY <1>3, <2>1, <2>3
    <2>5. Half(r, how) = {} BY <1>2, <2>1
    <2>6. CoverIn(K, pTableBase, pictureMem, streamMem) BY CoverSwap DEF Cover
    <2>7. /\ CoverIn(r.k, r.b, pictureMem, streamMem)
          /\ r.mapped \in BOOLEAN /\ r.allocated = r.mapped
          /\ IF r.mapped THEN ctx ELSE r.b = pTableBase
          /\ \A n \in Fds : r.k.fds[n] \notin Objects => r.k.fds[n] = K.fds[n]
        BY <1>1, <2>1, <2>2, <2>5, <2>6, TryCover
    <2>8. CoverIn(r.k, streamMem, pictureMem, r.b) BY <2>7, CoverSwap
    <2> HIDE DEF r
    <2>9. Cover' BY <2>1, <2>4, <2>8 DEF Cover
    <2>10. ToRelease'
        <3>1. CASE r.mapped BY <1>6, <2>1, <2>2, <2>7, <3>1 DEF ToRelease
        <3>2. CASE ~r.mapped BY <1>6, <2>1, <2>2, <2>7, <3>2 DEF ToRelease
        <3> QED BY <2>7, <3>1, <3>2
    <2>11. \A n \in Fds : fds'[n] \in {"dri", "vpu"} => fds'[n] = fds[n]
        BY <1>4, <1>5, <2>4, <2>7
    <2>12. stage' \in {"end", "crashed", "hw"} BY <2>1, <2>7
    <2> QED BY <2>1, <2>9, <2>10, <2>11, <2>12, KeepDevices
<1>35. CASE End
    <2>1. /\ stage = "end" /\ stage' = "idle"
          /\ UNCHANGED <<ctx, streamMem, out_phyaddr, instance>>
        BY <1>35 DEF End
    <2>2. CASE out_phyaddr # 0
        <3>1. UNCHANGED <<tables, pictureMem>> BY <1>35, <2>2 DEF End
        <3>2. ToRelease' BY <1>6, <2>1, <2>2, <3>1 DEF ToRelease
        <3> QED BY <2>1, <3>1, <3>2, CoverKept, KeepDevices
    <2>3. CASE out_phyaddr = 0
        <3>1. KernelIs(Free(K, pictureMem).k) /\ pictureMem' = Free(K, pictureMem).b
            BY <1>35, <2>3 DEF End
        <3>2. CoverIn(K, pictureMem, streamMem, pTableBase) BY CoverSwap DEF Cover
        <3>3. pictureMem.vir # NULL => ctx BY DEF ToRelease
        <3>4. /\ CoverIn(K', pictureMem', streamMem, pTableBase) /\ pictureMem'.vir = NULL
              /\ \A n \in Fds : fds'[n] \in {"dri", "vpu"} => fds'[n] = fds[n]
            BY <1>1, <1>8, <3>1, <3>2, <3>3, FreeCover
        <3>5. CoverIn(K', streamMem, pictureMem', pTableBase) BY <3>4, CoverSwap
        <3>6. Cover' BY <2>1, <3>5 DEF Cover
        <3>7. ToRelease' BY <1>6, <2>1, <3>4 DEF ToRelease
        <3> QED BY <2>1, <3>4, <3>6, <3>7, KeepDevices
    <2> QED BY <2>2, <2>3
<1>36. CASE FreeStream
    <2>1. /\ stage = "idle" /\ stage' = "free picture"
          /\ UNCHANGED <<ctx, pictureMem, out_phyaddr, instance>>
        BY <1>36 DEF FreeStream
    <2>2. CASE streamMem.vir = NULL
        <3>1. UNCHANGED <<tables, streamMem>> BY <1>36, <2>2 DEF FreeStream
        <3>2. ToRelease' BY <1>6, <2>1, <2>2, <3>1 DEF ToRelease
        <3> QED BY <2>1, <3>1, <3>2, CoverKept, KeepDevices
    <2>3. CASE streamMem.vir # NULL
        <3>1. KernelIs(Free(K, streamMem).k) /\ streamMem' = Free(K, streamMem).b
            BY <1>36, <2>3 DEF FreeStream
        <3>2. streamMem.vir # NULL => ctx BY DEF ToRelease
        <3>3. /\ CoverIn(K', streamMem', pictureMem, pTableBase) /\ streamMem'.vir = NULL
              /\ \A n \in Fds : fds'[n] \in {"dri", "vpu"} => fds'[n] = fds[n]
            BY <1>1, <1>8, <3>1, <3>2, FreeCover DEF Cover
        <3>4. Cover' BY <2>1, <3>3 DEF Cover
        <3>5. ToRelease' BY <1>6, <2>1, <3>3 DEF ToRelease
        <3> QED BY <2>1, <3>3, <3>4, <3>5, KeepDevices
    <2> QED BY <2>2, <2>3
<1>37. CASE FreePicture
    <2>1. /\ stage = "free picture" /\ stage' = IF socket # 0 THEN "free tables" ELSE "close"
          /\ UNCHANGED <<ctx, streamMem, out_phyaddr, instance>>
        BY <1>37 DEF FreePicture
    <2>2. pictureMem.vir = NULL BY <2>1 DEF ToRelease
    <2>3. UNCHANGED <<tables, pictureMem>> BY <1>37, <2>2 DEF FreePicture
    <2>4. ToRelease' BY <1>6, <2>1, <2>3 DEF ToRelease
    <2> QED BY <2>1, <2>3, <2>4, CoverKept, KeepDevices
<1>38. CASE FreeTables
    <2>1. /\ stage = "free tables" /\ stage' = "free copy"
          /\ UNCHANGED <<ctx, object, socket, allocated>>
        BY <1>38 DEF FreeTables
    <2>2. CASE pTableBase.vir = NULL
        <3>1. UNCHANGED <<tables, pTableBase>> BY <1>38, <2>2 DEF FreeTables
        <3>2. ToRelease' BY <1>6, <2>1, <2>2, <3>1 DEF ToRelease
        <3> QED BY <2>1, <3>1, <3>2, CoverKept, KeepDevices
    <2>3. CASE pTableBase.vir # NULL
        <3>1. KernelIs(Free(K, pTableBase).k) /\ pTableBase' = Free(K, pTableBase).b
            BY <1>38, <2>3 DEF FreeTables
        <3>2. CoverIn(K, pTableBase, pictureMem, streamMem) BY CoverSwap DEF Cover
        <3>3. pTableBase.vir # NULL => ctx BY DEF ToRelease
        <3>4. /\ CoverIn(K', pTableBase', pictureMem, streamMem) /\ pTableBase'.vir = NULL
              /\ \A n \in Fds : fds'[n] \in {"dri", "vpu"} => fds'[n] = fds[n]
            BY <1>1, <1>8, <3>1, <3>2, <3>3, FreeCover
        <3>5. CoverIn(K', streamMem, pictureMem, pTableBase') BY <3>4, CoverSwap
        <3>6. Cover' BY <2>1, <3>5 DEF Cover
        <3>7. ToRelease' BY <1>6, <2>1, <3>4 DEF ToRelease
        <3> QED BY <2>1, <3>4, <3>6, <3>7, KeepDevices
    <2> QED BY <2>2, <2>3
<1>39. CASE FreeCopy
    <2>1. /\ stage = "free copy" /\ stage' = "free instance"
          /\ UNCHANGED <<ctx, object, pTableBase, socket, allocated>>
        BY <1>39 DEF FreeCopy
    <2>2. ToRelease' BY <1>6, <2>1 DEF ToRelease
    <2>3. CASE outLumaBuffer.vir = NULL
        <3>1. UNCHANGED tables BY <1>39, <2>3 DEF FreeCopy
        <3> QED BY <2>1, <2>2, <3>1, CoverKept, KeepDevices
    <2>4. CASE outLumaBuffer.vir # NULL
        <3>1. KernelIs(Free(K, outLumaBuffer).k) BY <1>39, <2>4 DEF FreeCopy
        <3>2. /\ \A n \in Fds : fds'[n] \in {"dri", "vpu"} => fds'[n] = fds[n]
              /\ \A n \in Fds : K'.fds[n] \in Objects => K'.fds[n] = K.fds[n]
              /\ \A n \in Numbers : K'.hnds[n] \in {NULL, K.hnds[n]} /\ K'.maps[n] \in {NULL, K.maps[n]}
            BY <1>1, <1>8, <3>1
        <3>3. CoverIn(K', streamMem, pictureMem, pTableBase) BY <3>2, CoverLess DEF Cover
        <3>4. Cover' BY <2>1, <3>3 DEF Cover
        <3> QED BY <2>1, <2>2, <3>2, <3>4, KeepDevices
    <2> QED BY <2>3, <2>4
<1>40. CASE FreeInstance
    <2>1. /\ stage = "free instance" /\ stage' = "close" /\ socket' = 0
          /\ UNCHANGED <<ctx, object, pTableBase, allocated>>
          /\ fds' = [fds EXCEPT ![socket] = NULL] /\ hnds' = hnds /\ maps' = maps
        BY <1>10, <1>40 DEF FreeInstance
    <2>2. Cover' /\ \A m \in Fds : fds'[m] = fds[m] \/ (m = socket /\ fds'[m] = NULL)
        BY <1>4, <1>7, <2>1
    <2>3. ToRelease' BY <1>6, <2>1 DEF ToRelease
    <2>4. \A m \in Fds : fds'[m] = IF m = socket THEN NULL ELSE fds[m] BY <1>5, <2>1
    <2>5. Devices' BY <1>4, <2>1, <2>4 DEF Devices
    <2> QED BY <2>2, <2>3, <2>5
<1>41. CASE CloseAllocator
    <2>1. /\ stage = "close" /\ stage' = "closed" /\ UNCHANGED <<ctx, object, instance>>
        BY <1>41 DEF CloseAllocator
    <2>2. ToRelease' BY <1>6, <2>1 DEF ToRelease
    <2>3. CASE ctx
        <3> DEFINE n == CHOOSE m \in Fds : fds[m] = "dri"
        <3>1. fds' = [fds EXCEPT ![n] = NULL] /\ hnds' = hnds /\ maps' = maps
            BY <1>10, <1>41, <2>3 DEF CloseAllocator
        <3>2. \A m \in Fds : fds[m] = "dri" => m = n
            <4>1. (\E m \in Fds : fds[m] = "dri") => n \in Fds /\ fds[n] = "dri" OBVIOUS
            <4> QED BY <4>1 DEF Devices
        <3> HIDE DEF n
        <3>3. Cover' BY <1>4, <1>7, <2>1, <3>1
        <3>4. \A m \in Fds : fds'[m] = IF m = n THEN NULL ELSE fds[m] BY <1>5, <3>1
        <3>5. \A m \in Fds : fds'[m] # "dri" /\ (fds'[m] = "vpu" => fds[m] = "vpu")
            BY <1>4, <3>2, <3>4
        <3>6. Devices' BY <2>1, <3>5 DEF Devices
        <3> QED BY <2>2, <3>3, <3>6
    <2>4. CASE ~ctx
        <3>1. UNCHANGED tables BY <1>41, <2>4 DEF CloseAllocator
        <3>2. Cover' BY <2>1, <3>1, CoverKept
        <3>3. Devices' BY <2>1, <2>4, <3>1 DEF Devices, tables
        <3> QED BY <2>2, <3>2, <3>3
    <2> QED BY <1>6, <2>3, <2>4
<1>42. CASE UNCHANGED bufferVars
    <2>1. Cover' BY <1>42, CoverKept DEF bufferVars
    <2>2. ToRelease' BY <1>42 DEF bufferVars, ToRelease
    <2>3. Devices' BY <1>42 DEF bufferVars, tables, Devices
    <2> QED BY <2>1, <2>2, <2>3
<1> HIDE DEF object, instance, counts, Released
<1> QED
    BY <1>21, <1>22, <1>23, <1>24, <1>25, <1>26, <1>27, <1>28, <1>29, <1>30, <1>31, <1>32, <1>35,
       <1>36, <1>37, <1>38, <1>39, <1>40, <1>41, <1>42 DEF BuffersNext

\* After the release (pv_rkJpegdecoder_deinit, JpegDecRelease, os_allocator_drm_close) no
\* descriptor, handle or mapping of the decoder is left, however many releases went astray,
\* unless an allocation stopped half way or a descriptor of the device was forgotten.
THEOREM NothingLeftThm == BuffersSpec => []NothingLeft
<1>1. BuffersTypeOK /\ BuffersTypeOK' /\ LeftInv /\ [BuffersNext]_bufferVars => LeftInv'
    <2> SUFFICES ASSUME BuffersTypeOK, BuffersTypeOK', LeftInv, [BuffersNext]_bufferVars, Kept'
                 PROVE  Cover' /\ ToRelease' /\ Devices'
        BY DEF LeftInv
    <2>1. Kept BY FaultsStay DEF Kept
    <2> QED BY <2>1, NextLeft DEF LeftInv
<1>2. BuffersTypeOK /\ LeftInv => NothingLeft
    <2> SUFFICES ASSUME BuffersTypeOK, Cover, ToRelease, Devices, stage = "closed"
                 PROVE  /\ \A n \in Fds : fds[n] \in {NULL, "std", "caller"}
                        /\ \A n \in Numbers : hnds[n] = NULL /\ maps[n] = NULL
        BY DEF NothingLeft, LeftInv, Kept
    <2>1. /\ streamMem.vir = NULL /\ pictureMem.vir = NULL /\ pTableBase.vir = NULL /\ socket = 0
        BY DEF ToRelease, Released
    <2>2. \A n \in Fds : fds[n] \notin Objects BY <2>1 DEF Cover, CoverIn, K
    <2>3. \A n \in Fds : fds[n] # "dri" /\ fds[n] # "vpu" BY <2>1 DEF Devices
    <2>4. \A n \in Fds : fds[n] \in Opened \union {NULL} BY DEF BuffersTypeOK
    <2>5. \A n \in Numbers : hnds[n] = NULL BY <2>1 DEF Cover, CoverIn, K
    <2>6. \A n \in Numbers : maps[n] = NULL BY <2>1, Nulls DEF Cover, CoverIn, K
    <2> QED BY <2>2, <2>3, <2>4, <2>5, <2>6 DEF Opened
<1> QED BY InitLeft, <1>1, <1>2, BuffersTypeCorrect, PTL DEF BuffersSpec

=============================================================================
