-------------------------- MODULE JpegHeadersProofs --------------------------
(***************************************************************************)
(* TLAPS proofs about JpegHeaders, for pictures of every size, format and  *)
(* arrangement of segments.                                                *)
(***************************************************************************)
EXTENDS JpegHeaders, WellFoundedInduction, TLAPS

(***************************************************************************)
(* The sizes.                                                              *)
(***************************************************************************)

\* Rounding up to 16.
LEMMA UpTo16 ==
    ASSUME NEW n \in Nat
    PROVE  /\ UpTo(n, 16) \in Nat /\ UpTo(n, 16) % 16 = 0
           /\ n <= UpTo(n, 16) /\ UpTo(n, 16) < n + 16
  BY DEF UpTo

\* The samplings of the formats, spelled out.
LEMMA Patterns ==
    /\ Pattern["400"] = << <<1, 1>> >>
    /\ Pattern["420"] = << <<2, 2>>, <<1, 1>>, <<1, 1>> >>
    /\ Pattern["422"] = << <<2, 1>>, <<1, 1>>, <<1, 1>> >>
    /\ Pattern["440"] = << <<1, 2>>, <<1, 1>>, <<1, 1>> >>
    /\ Pattern["411"] = << <<4, 1>>, <<1, 1>>, <<1, 1>> >>
    /\ Pattern["444"] = << <<1, 1>>, <<1, 1>>, <<1, 1>> >>
    /\ Formats = {"400", "420", "422", "440", "411", "444"}
  BY DEF Pattern, Formats, Chroma

\* The largest sampling factors of the formats.
LEMMA Maxima ==
    /\ Hmax["400"] = 1 /\ Vmax["400"] = 1 /\ Hmax["420"] = 2 /\ Vmax["420"] = 2
    /\ Hmax["422"] = 2 /\ Vmax["422"] = 1 /\ Hmax["440"] = 1 /\ Vmax["440"] = 2
    /\ Hmax["411"] = 4 /\ Vmax["411"] = 1 /\ Hmax["444"] = 1 /\ Vmax["444"] = 1
  BY Patterns DEF Hmax, Vmax

\* JpegDecGetImageInfo finds the format of each sampling it accepts, and
\* JpegDecDecodeFrameHdr the same.
LEMMA FormatFound ==
    ASSUME NEW f \in Formats
    PROVE  /\ InfoFormat(Pattern[f]) = f /\ HdrFormat(Pattern[f]) = f
           /\ Pattern[f] = Pattern["411"] <=> f = "411"
           /\ Len(Pattern[f]) = (IF f = "400" THEN 1 ELSE 3)
           /\ Pattern[f][1][1] = Hmax[f] /\ Pattern[f][1][2] = Vmax[f]
  <1>1. \A g \in Formats : Pattern[g] = Pattern[f] => g = f
    BY Patterns
  <1>2. Len(Pattern[f]) = (IF f = "400" THEN 1 ELSE 3)
    <2>1. Len(Pattern["400"]) = 1 /\ Len(Pattern["420"]) = 3 /\ Len(Pattern["422"]) = 3
      BY Patterns
    <2>2. Len(Pattern["440"]) = 3 /\ Len(Pattern["411"]) = 3 /\ Len(Pattern["444"]) = 3
      BY Patterns
    <2> QED
      BY <2>1, <2>2 DEF Formats
  <1>3. InfoFormat(Pattern[f]) = f
    BY <1>1 DEF InfoFormat
  <1>4. HdrFormat(Pattern[f]) = f
    BY <1>1, <1>2 DEF HdrFormat
  <1>5. Pattern[f] = Pattern["411"] <=> f = "411"
    BY <1>1, Patterns
  <1>6. Pattern[f][1][1] = Hmax[f] /\ Pattern[f][1][2] = Vmax[f]
    BY DEF Hmax, Vmax
  <1> QED
    BY <1>2, <1>3, <1>4, <1>5, <1>6

\* What the image information is, for a sampling it accepts.
LEMMA InfoAccepted ==
    ASSUME NEW sam, NEW x \in Nat, NEW y \in Nat, InfoAccepts(sam, x, y)
    PROVE  /\ InfoFormat(sam) \in Formats /\ sam = Pattern[InfoFormat(sam)]
           /\ HdrFormat(sam) = InfoFormat(sam)
           /\ HdrAccepts(sam, x, y)
           /\ HdrWidth(InfoFormat(sam), x) = InfoWidth(sam, x)
  <1> PICK f \in Formats : sam = Pattern[f]
    BY DEF InfoAccepts
  <1>1. /\ InfoFormat(sam) = f /\ HdrFormat(sam) = f
        /\ sam = Pattern["411"] <=> f = "411"
        /\ sam[1][1] = Hmax[f]
    BY FormatFound
  <1>2. Hmax[f] = 4 <=> f = "411"
    BY Maxima DEF Formats
  <1>3. HdrWidth(f, x) = InfoWidth(sam, x)
    BY <1>1, <1>2 DEF HdrWidth, InfoWidth
  <1>4. HdrHeight(y) = InfoHeight(y)
    BY DEF HdrHeight, InfoHeight
  <1>5. HdrAccepts(sam, x, y)
    <2>1. Hmax[f] = 4 => SupportedWidth(HdrWidth("411", x), HdrHeight(y))
      BY <1>1, <1>2, <1>3, <1>4 DEF InfoAccepts
    <2> QED
      BY <1>1, <1>4, <2>1 DEF InfoAccepts, HdrAccepts
  <1> QED
    BY <1>1, <1>3, <1>5

\* The picture in the instance: whole macroblocks, two of them across for
\* 4:1:1, and not larger than the hardware takes.
LEMMA InfoSize ==
    ASSUME NEW sam, NEW x \in Nat, NEW y \in Nat, InfoAccepts(sam, x, y)
    PROVE  LET w == InfoWidth(sam, x)  h == InfoHeight(y) IN
           /\ w \in Nat /\ h \in Nat /\ w % 16 = 0 /\ h % 16 = 0
           /\ InfoFormat(sam) = "411" => w % 32 = 0
           /\ 48 <= w /\ w <= MaxWidth /\ 48 <= h /\ h <= MaxHeight
           /\ x <= w /\ y <= h /\ y > h - 16
           /\ w < (IF InfoFormat(sam) = "411" THEN x + 32 ELSE x + 16)
  <1> DEFINE u == UpTo(x, 16)
  <1>1. u \in Nat /\ u % 16 = 0 /\ x <= u /\ u < x + 16
    BY UpTo16
  <1>2. InfoHeight(y) \in Nat /\ InfoHeight(y) % 16 = 0
        /\ y <= InfoHeight(y) /\ InfoHeight(y) < y + 16
    BY UpTo16 DEF InfoHeight
  <1>3. 48 <= u /\ u <= 8176 /\ 48 <= InfoHeight(y) /\ InfoHeight(y) <= 8176
    BY DEF InfoAccepts, SupportedSize, MinWidth, MinHeight, MaxWidth, MaxHeight
  <1>4. PICK f \in Formats : sam = Pattern[f]
    BY DEF InfoAccepts
  <1>5. InfoFormat(sam) = f /\ (sam = Pattern["411"] <=> f = "411")
    BY <1>4, FormatFound
  <1>6. InfoWidth(sam, x) = IF f = "411" /\ u % 32 # 0 THEN u + 16 ELSE u
    BY <1>5 DEF InfoWidth
  <1>7. f = "411" => InfoWidth(sam, x) <= 8176
    BY <1>5 DEF InfoAccepts, SupportedWidth, MaxWidth
  <1> HIDE DEF u
  <1> QED
    BY <1>1, <1>2, <1>3, <1>5, <1>6, <1>7 DEF MaxWidth, MaxHeight

\* JpegDecDecodeFrameHdr and pv_rkJpegdecoder_oneframe count the MCUs of a row
\* as JpegDecGetImageInfo does.
LEMMA McusAgree ==
    ASSUME NEW f \in Formats, NEW w \in Nat, w % 16 = 0, f = "411" => w % 32 = 0
    PROVE  /\ HdrMcuInRow(f, w) = InfoMcuInRow(f, w)
           /\ FrameMcuInRow(f, w) = InfoMcuInRow(f, w)
           /\ UpTo(w, 8 * Hmax[f]) = w
  <1>1. InfoMcuWidth[f] = 8 * Hmax[f]
    BY Maxima DEF InfoMcuWidth, Formats
  <1>2. Hmax[f] \in {1, 2, 4} /\ (Hmax[f] = 4 => f = "411")
    BY Maxima DEF Formats
  <1>3. UpTo(w, 8 * Hmax[f]) = w
    <2>1. UpTo(w, 8) = w /\ UpTo(w, 16) = w
      BY DEF UpTo
    <2>2. f = "411" => UpTo(w, 32) = w
      BY DEF UpTo
    <2> QED
      BY <1>2, <2>1, <2>2
  <1>4. FrameMcuInRow(f, w) = w \div (8 * Hmax[f])
    BY Maxima DEF FrameMcuInRow, Formats
  <1> QED
    BY <1>1, <1>3, <1>4 DEF HdrMcuInRow, InfoMcuInRow

\* The quotient and the remainder of natural numbers.
LEMMA Quotient ==
    ASSUME NEW a \in Nat, NEW b \in Nat \ {0}
    PROVE  /\ a \div b \in Int /\ a % b \in 0 .. b - 1
           /\ a = b * (a \div b) + (a % b)
  <1>1. a \div b \in Int /\ a % b \in 0 .. b - 1
    BY Z3T(20)
  <1>2. a = b * (a \div b) + (a % b)
    BY Z3T(20)
  <1> QED
    BY <1>1, <1>2

\* Multiplying is monotonic.
LEMMA Times ==
    ASSUME NEW a \in Nat, NEW b \in Nat, NEW k \in Nat, a <= b
    PROVE  a * k \in Nat /\ b * k \in Nat /\ a * k <= b * k
  OBVIOUS

\* The largest multiple of row below the limit, of any two numbers.
LEMMA LargestMultiple ==
    ASSUME NEW row \in Nat, NEW limit \in Nat, 1 <= row, row < limit
    PROVE  \E c \in Nat : /\ 1 <= c /\ c < limit
                          /\ c * row < limit /\ c * row + row >= limit
  <1> DEFINE m == limit - 1
             c == m \div row
             r == m % row
             p == c * row
  <1>0. m \in Nat /\ row \in Nat \ {0} /\ m + 1 = limit /\ row <= m
    OBVIOUS
  <1> HIDE DEF m
  <1>1. c \in Int /\ r \in 0 .. row - 1
    BY <1>0, Quotient
  <1>2. m = row * c + r
    BY <1>0, Quotient
  <1> HIDE DEF c, r
  <1>3. p \in Int /\ p = row * c
    BY <1>1
  <1>4. c < 1 => p <= 0
    BY <1>1
  <1>5. c >= 1 => p >= c
    BY <1>1
  <1>6. m = p + r
    BY <1>2, <1>3
  <1>7. p \in Int
    BY <1>3
  <1> HIDE DEF p
  <1>8. p < limit /\ p + row >= limit
    BY <1>0, <1>1, <1>6, <1>7
  <1>9. c \in Nat /\ 1 <= c /\ c < limit
    <2>1. p > 0
      BY <1>0, <1>1, <1>6, <1>7
    <2>2. c >= 1
      BY <1>1, <1>4, <1>7, <2>1
    <2> QED
      BY <1>1, <1>5, <1>7, <1>8, <2>2
  <1> QED
    BY <1>8, <1>9 DEF p

\* The rows of a slice exist, and with them the slice has at most the MCUs the
\* decoder takes: as many as fit with one row more below the limit, or one row.
LEMMA SliceFits ==
    ASSUME NEW row \in Nat, 1 <= row, row < MaxSliceSize
    PROVE  LET s == CHOOSE n \in 1 .. MaxSliceSize8190 : IsSliceMbSet(n, row) IN
           s \in 1 .. MaxSliceSize8190 /\ s * row < MaxSliceSize
  <1> DEFINE L == MaxSliceSize
  <1>0. MaxSliceSize8190 = L /\ L \in Nat
    BY DEF MaxSliceSize, MaxSliceSize8190
  <1>00. row < L
    OBVIOUS
  <1> HIDE DEF L
  <1>1. PICK c \in Nat : 1 <= c /\ c < L /\ c * row < L /\ c * row + row >= L
    BY <1>0, <1>00, LargestMultiple
  <1>2. c \in 1 .. L /\ IsSliceMbSet(c, row)
    <2>1. ASSUME NEW t \in 1 .. c - 1 PROVE t * row + row < L
      <3> DEFINE q == t * row
                 p == c * row
                 v == (t + 1) * row
      <3>1. t \in Nat /\ t + 1 \in Nat /\ t + 1 <= c
        BY <1>1
      <3>2. v <= p
        BY <3>1, <1>1, Times
      <3>3. v = q + row /\ q \in Int /\ p \in Int
        BY <3>1, <1>1
      <3>4. p < L
        BY <1>1
      <3> HIDE DEF p, q, v
      <3>6. q + row < L
        BY <1>0, <3>2, <3>3, <3>4
      <3> QED
        BY <3>6 DEF q
    <2>2. c >= 1 /\ c * row + row >= L
      BY <1>1
    <2>3. c \in 1 .. L
      BY <1>0, <1>1
    <2> QED
      BY <1>0, <2>1, <2>2, <2>3 DEF IsSliceMbSet
  <1>3. ASSUME NEW n \in 1 .. L, IsSliceMbSet(n, row) PROVE n * row < L
    <2>1. CASE n = 1
      <3>1. n * row = row
        BY <2>1
      <3> QED
        BY <3>1, <1>00
    <2>2. CASE n > 1
      <3>1. n - 1 \in 1 .. n - 1
        BY <2>2
      <3>2. (n - 1) * row + row = n * row
        OBVIOUS
      <3>3. (n - 1) * row + row < L
        BY <1>0, <1>3, <3>1 DEF IsSliceMbSet
      <3> QED
        BY <3>2, <3>3
    <2>3. n = 1 \/ n > 1
      BY <1>0
    <2> QED
      BY <2>1, <2>2, <2>3
  <1> DEFINE s == CHOOSE n \in 1 .. L : IsSliceMbSet(n, row)
  <1>4. s \in 1 .. L /\ IsSliceMbSet(s, row)
    BY <1>2, Zenon
  <1> HIDE DEF s
  <1>5. s * row < L
    BY <1>3, <1>4, Zenon
  <1>6. s \in 1 .. L /\ s * row < L
    BY <1>4, <1>5, Zenon
  <1> QED
    BY <1>0, <1>6, Zenon DEF s, L

(***************************************************************************)
(* What is known of the picture while it is decoded.                       *)
(***************************************************************************)

\* The image information is that of the picture, and what the caller made
\* of it is not changed until the next one.
Accepted == pc \notin {"idle", "info"} =>
  /\ InfoAccepts(pic.sam, pic.X, pic.Y)
  /\ imageInfo = [w |-> InfoWidth(pic.sam, pic.X), h |-> InfoHeight(pic.Y),
                  fmt |-> InfoFormat(pic.sam)]
Stored == pc \in {"prepare", "enter"} =>
  /\ hwX = imageInfo.w /\ hwY = imageInfo.h
  /\ numMcuInRow = InfoMcuInRow(imageInfo.fmt, imageInfo.w)
  /\ numMcuInFrame = InfoMcuInFrame(imageInfo.fmt, imageInfo.w, imageInfo.h)
Prepared == pc \notin {"idle", "info", "prepare"} =>
  /\ sliceMbSet = FrameSliceMbSet(imageInfo.fmt, imageInfo.w, imageInfo.h)
  /\ picSize = IF colorConv THEN FrameConverted(imageInfo.w, imageInfo.h)
               ELSE FrameOriginal(imageInfo.fmt, imageInfo.w, imageInfo.h)
  /\ pp = IF colorConv
          THEN SetPostProcessor(imageInfo.fmt, imageInfo.w, imageInfo.h, FrameWidth(imageInfo.w),
                                FrameHeight(imageInfo.w, imageInfo.h))
          ELSE SetPostProcessor(imageInfo.fmt, imageInfo.w, imageInfo.h, UpTo(imageInfo.w, 16),
                                UpTo(imageInfo.h, 16))
InfoInv == /\ pic \in Pictures /\ operationType \in {"BASELINE", "NONINTERLEAVED"}
           /\ Accepted /\ Stored /\ Prepared

LEMMA InitInfo == Init => InfoInv
  BY DEF Init, InfoInv, Accepted, Stored, Prepared

LEMMA StepInfo == InfoInv /\ [Next]_vars => InfoInv'
  <1> SUFFICES ASSUME InfoInv, [Next]_vars PROVE InfoInv'
    OBVIOUS
  <1> USE DEF InfoInv, Accepted, Stored, Prepared
  <1>1. ASSUME NEW p \in Pictures, Submit(p) PROVE InfoInv'
    BY <1>1 DEF Submit
  <1>2. CASE GetImageInfo
    BY <1>2 DEF GetImageInfo, input
  <1>3. CASE InfoUnsupported
    BY <1>3 DEF InfoUnsupported, input
  <1>4. CASE Prepare
    BY <1>4 DEF Prepare, input, mcus
  <1>5. CASE Enter
    BY <1>5 DEF Enter, input, caller, mcus
  <1>6. CASE ReadDQT \/ ReadDHT \/ ReadDRI
    BY <1>6 DEF ReadDQT, ReadDHT, ReadDRI, InLoop, input, caller, mcus
  <1>7. CASE ReadSOF
    BY <1>7 DEF ReadSOF, input, caller
  <1>8. CASE ReadSOS
    BY <1>8 DEF ReadSOS, ScanOfOne, ScanOfAll, InLoop, input, caller, mcus
  <1>9. CASE ReadEOI
    BY <1>9 DEF ReadEOI, input
  <1>10. CASE StartHW
    BY <1>10 DEF StartHW, input, caller, mcus
  <1>11. CASE SliceReady \/ Resume
    BY <1>11 DEF SliceReady, Resume, input, caller, mcus
  <1>12. CASE BaselineDone \/ ScanDone \/ HwFails
    BY <1>12 DEF BaselineDone, ScanDone, HwFails, input, caller, mcus
  <1>13. CASE UNCHANGED vars
    BY <1>13 DEF vars, input, caller, mcus
  <1> QED
    BY <1>1, <1>2, <1>3, <1>4, <1>5, <1>6, <1>7, <1>8, <1>9, <1>10, <1>11, <1>12, <1>13 DEF Next

LEMMA AlwaysInfo == Spec => []InfoInv
  BY InitInfo, StepInfo, PTL DEF Spec

LEMMA Words == Word \subseteq Nat
  <1>1. MaxWord \in Nat
    BY DEF MaxWord
  <1> QED
    BY <1>1 DEF Word

\* A picture is one.
LEMMA PictureOf ==
    ASSUME NEW p \in Pictures
    PROVE  /\ p \in Picture /\ WellFormed(p) /\ p.X \in Nat /\ p.Y \in Nat
           /\ p.segs \in Seq(Segment) /\ p.sam \in Seq((1 .. 4) \X (1 .. 4)) /\ p.tq \in Seq(0 .. 3)
  <1>1. p \in Picture /\ WellFormed(p)
    BY JpegHeadersAssumption, Zenon DEF JpegHeadersAssumption
  <1>2. /\ p.X \in Word /\ p.Y \in Word
        /\ p.segs \in Seq(Segment) /\ p.sam \in Seq((1 .. 4) \X (1 .. 4)) /\ p.tq \in Seq(0 .. 3)
    BY <1>1 DEF Picture
  <1>3. p.X \in Nat /\ p.Y \in Nat
    BY <1>2, Words
  <1> QED
    BY <1>1, <1>2, <1>3

\* The slices oneframe asks for pass the checks of JpegDecDecode.
LEMMA SlicesPass ==
    ASSUME NEW sam, NEW x \in Nat, NEW y \in Nat, InfoAccepts(sam, x, y)
    PROVE  LET f   == InfoFormat(sam)
               w   == InfoWidth(sam, x)
               h   == InfoHeight(y)
               s   == FrameSliceMbSet(f, w, h)
               row == FrameMcuInRow(f, w) \div McuSizeDivider(f) IN
           /\ s \in Nat /\ row \in Nat
           /\ s = 0 => w * h <= MaxPixelsAtOnce
           /\ s # 0 => w * h > MaxPixelsAtOnce
           /\ s * row <= MaxSliceSize
           /\ s # 0 => s * row < MaxSliceSize /\ s * row <= InfoMcuInFrame(f, w, h)
  <1> DEFINE f   == InfoFormat(sam)
             w   == InfoWidth(sam, x)
             h   == InfoHeight(y)
             s   == FrameSliceMbSet(f, w, h)
             row == FrameMcuInRow(f, w) \div McuSizeDivider(f)
             n   == w * h
  <1>1. f \in Formats
    BY InfoAccepted
  <1>2. w \in Nat /\ h \in Nat /\ 48 <= w /\ w <= 8176
    BY InfoSize DEF MaxWidth
  <1> HIDE DEF f, w, h
  <1>3. row \in Nat /\ 1 <= row /\ row < MaxSliceSize
    <2>1. CASE f \in {"400", "444", "440"}
      <3>1. row = (w \div 8) \div 2
        BY <2>1 DEF FrameMcuInRow, McuSizeDivider
      <3> HIDE DEF row
      <3> QED
        BY <1>2, <3>1 DEF MaxSliceSize
    <2>2. CASE f \in {"420", "422"}
      <3>1. row = (w \div 16) \div 1
        BY <2>2 DEF FrameMcuInRow, McuSizeDivider
      <3> HIDE DEF row
      <3> QED
        BY <1>2, <3>1 DEF MaxSliceSize
    <2>3. CASE f = "411"
      <3>1. row = (w \div 32) \div 1
        BY <2>3 DEF FrameMcuInRow, McuSizeDivider
      <3> HIDE DEF row
      <3> QED
        BY <1>2, <3>1 DEF MaxSliceSize
    <2> QED
      BY <1>1, <2>1, <2>2, <2>3 DEF Formats
  <1>4. n \in Nat /\ n = w * h
    BY <1>2
  <1>5. InfoMcuInFrame(f, w, h) = n \div InfoMcuPixels[f] /\ InfoMcuPixels[f] \in {64, 128, 256}
    BY <1>1 DEF InfoMcuInFrame, InfoMcuPixels, Formats
  <1>6. s = IF n <= MaxPixelsAtOnce THEN 0
            ELSE CHOOSE k \in 1 .. MaxSliceSize8190 : IsSliceMbSet(k, row)
    BY DEF FrameSliceMbSet
  <1> HIDE DEF n, row, s
  <1>7. CASE n <= MaxPixelsAtOnce
    <2>1. s = 0
      BY <1>6, <1>7
    <2>2. s * row = 0
      BY <1>3, <2>1
    <2>3. s * row <= MaxSliceSize
      BY <2>2 DEF MaxSliceSize
    <2> QED
      BY <1>3, <1>4, <1>7, <2>1, <2>3 DEF f, w, h, s, row
  <1>8. CASE ~(n <= MaxPixelsAtOnce)
    <2>1. s \in 1 .. MaxSliceSize8190 /\ s * row < MaxSliceSize
      BY <1>3, <1>6, <1>8, SliceFits
    <2>2. n \div InfoMcuPixels[f] >= MaxSliceSize
      BY <1>4, <1>5, <1>8 DEF MaxPixelsAtOnce, MaxSliceSize
    <2>3. s \in Nat /\ s # 0
      BY <2>1 DEF MaxSliceSize8190
    <2>4. s * row \in Nat
      BY <1>3, <2>3
    <2> DEFINE p == s * row
    <2> HIDE DEF p
    <2>5. p \in Nat /\ p < MaxSliceSize
      BY <2>1, <2>4 DEF p
    <2>6. p <= MaxSliceSize /\ p <= n \div InfoMcuPixels[f]
      BY <1>4, <1>5, <2>2, <2>5 DEF MaxSliceSize
    <2>7. n > MaxPixelsAtOnce
      BY <1>4, <1>8 DEF MaxPixelsAtOnce
    <2> QED
      BY <1>3, <1>4, <1>5, <2>3, <2>5, <2>6, <2>7 DEF f, w, h, s, row, p
  <1> QED
    BY <1>7, <1>8

\* The checks of JpegDecDecode on entry refuse only slices of a picture of
\* several scans.
LEMMA EnterPasses ==
    ASSUME InfoInv, pc = "enter", ~EnterAccepts
    PROVE  sliceMbSet # 0 /\ operationType = "NONINTERLEAVED"
  <1> DEFINE f == imageInfo.fmt
             w == imageInfo.w
             h == imageInfo.h
             s == FrameSliceMbSet(f, w, h)
             row == FrameMcuInRow(f, w) \div McuSizeDivider(f)
  <1>1. /\ InfoAccepts(pic.sam, pic.X, pic.Y) /\ pic.X \in Nat /\ pic.Y \in Nat
        /\ w = InfoWidth(pic.sam, pic.X) /\ h = InfoHeight(pic.Y) /\ f = InfoFormat(pic.sam)
    BY PictureOf DEF InfoInv, Accepted
  <1>2. /\ s \in Nat
        /\ s = 0 => w * h <= MaxPixelsAtOnce
        /\ s * row <= MaxSliceSize
        /\ s # 0 => s * row <= InfoMcuInFrame(f, w, h)
    BY <1>1, SlicesPass, Zenon
  <1>3. FrameMcuInRow(f, w) = InfoMcuInRow(f, w)
    <2>1. f \in Formats /\ w \in Nat /\ w % 16 = 0 /\ (f = "411" => w % 32 = 0)
      BY <1>1, InfoAccepted, InfoSize
    <2> QED
      BY <2>1, McusAgree
  <1>4. /\ hwX = w /\ hwY = h /\ sliceMbSet = s
        /\ numMcuInRow = InfoMcuInRow(f, w) /\ numMcuInFrame = InfoMcuInFrame(f, w, h)
    BY DEF InfoInv, Stored, Prepared
  <1>5. RowOfSlice = s * row
    BY <1>3, <1>4 DEF RowOfSlice
  <1> HIDE DEF f, w, h, s, row
  <1>6. ~(sliceMbSet # 0 => operationType = "BASELINE")
    BY <1>2, <1>4, <1>5 DEF EnterAccepts
  <1> QED
    BY <1>6 DEF InfoInv

\* For every set of pictures: what GetImageInfo accepted, JpegDecDecode
\* decodes.
THEOREM AcceptedIsDecodableThm == Spec => AcceptedIsDecodable
  <1>1. ASSUME InfoInv, [Next]_vars, pc = "enter", pc' = "idle"
        PROVE  sliceMbSet # 0 /\ operationType = "NONINTERLEAVED"
    <2>1. CASE Enter
      <3>1. ~EnterAccepts
        BY <1>1, <2>1 DEF Enter
      <3> QED
        BY <1>1, <3>1, EnterPasses
    <2>2. CASE UNCHANGED vars
      BY <1>1, <2>2 DEF vars
    <2> QED
      BY <1>1, <2>1, <2>2 DEF Next, Submit, GetImageInfo, InfoUnsupported, Prepare, ReadDQT, ReadDHT,
         ReadDRI, ReadSOF, ReadSOS, ReadEOI, InLoop, StartHW, SliceReady, Resume, BaselineDone,
         ScanDone, HwFails
  <1>2. ASSUME InfoInv, [Next]_vars, pc = "read", Seg.m = "SOF"
        PROVE  pc' # "idle"
    <2>1. HdrAccepts(pic.sam, pic.X, pic.Y)
      <3>1. InfoAccepts(pic.sam, pic.X, pic.Y) /\ pic.X \in Nat /\ pic.Y \in Nat
        BY <1>2, PictureOf DEF InfoInv, Accepted
      <3> QED
        BY <3>1, InfoAccepted
    <2>2. CASE ReadSOF
      BY <1>2, <2>1, <2>2 DEF ReadSOF
    <2>3. CASE UNCHANGED vars
      BY <1>2, <2>3 DEF vars
    <2> QED
      BY <1>2, <2>2, <2>3 DEF Next, Submit, GetImageInfo, InfoUnsupported, Prepare, Enter, ReadDQT,
         ReadDHT, ReadDRI, ReadSOS, ReadEOI, InLoop, StartHW, SliceReady, Resume, BaselineDone,
         ScanDone, HwFails
  <1>3. InfoInv /\ [Next]_vars =>
          [/\ pc = "enter" /\ pc' = "idle" => sliceMbSet # 0 /\ operationType = "NONINTERLEAVED"
           /\ pc = "read" /\ Seg.m = "SOF" => pc' # "idle"]_vars
    BY <1>1, <1>2
  <1> QED
    BY <1>3, AlwaysInfo, PTL DEF Spec, AcceptedIsDecodable

(***************************************************************************)
(* What the frame header and the scan headers make of it.                  *)
(***************************************************************************)

FrameRead == \E i \in 1 .. pos - 1 : pic.segs[i].m = "SOF"
ScanRead  == \E i \in 1 .. pos - 1 : pic.segs[i].m = "SOS"
InScan    == pc \in {"start", "hw", "again"}
Framed    == InScan \/ pc = "next" \/ (pc = "read" /\ FrameRead)
OneScan   == InScan /\ ~Interleaved

Places ==
  /\ pos \in 1 .. Len(pic.segs) /\ fillRight \in {0, 1} /\ fillBottom \in {0, 1}
  /\ pc \in {"info", "prepare", "enter"} => pos = 1
  /\ pc = "read" => ~ScanRead
  /\ pc = "next" => ScanRead /\ operationType = "NONINTERLEAVED" /\ Len(pic.sam) = 3
  /\ InScan => pos - 1 \in 1 .. Len(pic.segs) /\ pic.segs[pos - 1].m = "SOS"

\* Flags of earlier pictures, until the frame header is read.
NoFill == (pc \in {"info", "prepare", "enter"} \/ (pc = "read" /\ ~FrameRead)) =>
  (~left.fill => fillRight = 0 /\ fillBottom = 0)

\* The frame header.
HeaderOf ==
  /\ hwX = imageInfo.w /\ hwY = imageInfo.h
  /\ numMcuInRow = HdrMcuInRow(imageInfo.fmt, imageInfo.w)
  /\ yCbCrModeOrig = imageInfo.fmt
  /\ sizeLuma = IF sliceMbSet # 0 THEN SliceLuma(imageInfo.fmt, imageInfo.w, sliceMbSet)
                ELSE HdrLuma(imageInfo.fmt, imageInfo.w, imageInfo.h)
  /\ sizeChroma = IF sliceMbSet # 0 THEN SliceChroma(imageInfo.fmt, imageInfo.w, sliceMbSet)
                  ELSE HdrChroma(imageInfo.fmt, imageInfo.w, imageInfo.h)

\* The whole picture.
FillOf(b, n) == IF b /\ HalfFilled(n) THEN 1 ELSE 0
WholeOf ==
  /\ X = hwX /\ Y = hwY /\ yCbCrMode = imageInfo.fmt /\ operationType = "BASELINE"
  /\ ~left.fill => /\ fillRight = FillOf(FillsRight(imageInfo.fmt), pic.X)
                   /\ fillBottom = FillOf(FillsBottom(imageInfo.fmt), pic.Y)

\* One component of it.
Component == CurrentScan[1]
Half(n)   == IF (n \div 2) % 16 # 0 THEN (n \div 2) + 8 ELSE n \div 2
Halved(n) == IF (n \div 2) % 16 # 0 THEN 1 ELSE 0
OneOf ==
  /\ imageInfo.fmt \in {"420", "422", "440"} /\ Component \in 1 .. 3 /\ Len(CurrentScan) = 1
  /\ yCbCrMode = "400" /\ componentId = Component
  /\ IF Component = 1 \/ imageInfo.fmt = "440"
     THEN X = hwX /\ fillX = 0 /\ fillRight = FillOf(TRUE, pic.X)
     ELSE X = Half(hwX) /\ fillX = Halved(hwX) /\ fillRight = 0
  /\ IF Component = 1 \/ imageInfo.fmt = "422"
     THEN Y = hwY /\ fillY = 0 /\ fillBottom = FillOf(TRUE, pic.Y)
     ELSE Y = Half(hwY) /\ fillY = Halved(hwY) /\ fillBottom = 0

FrameInv ==
  /\ Places /\ NoFill
  /\ Framed => HeaderOf
  /\ pc = "read" /\ FrameRead => WholeOf
  /\ InScan /\ Interleaved => WholeOf /\ fillX = 0 /\ fillY = 0
  /\ OneScan => OneOf
  /\ OneScan \/ pc = "next" =>
       /\ operationType = "NONINTERLEAVED"
       /\ imageInfo.fmt = "440" => X = hwX
       /\ imageInfo.fmt = "422" => Y = hwY

\* The segments of a picture that is well formed.
LEMMA Segments ==
    ASSUME NEW p \in Pictures, NEW i \in 1 .. Len(p.segs)
    PROVE  /\ p.segs[i] \in Segment /\ (p.segs[i].m = "EOI") = (i = Len(p.segs))
           /\ p.segs[i].m = "SOS" =>
                /\ p.segs[i].comps \in Seq(1 .. 3)
                /\ p.segs[i].ta \in Seq(TableIds) /\ p.segs[i].td \in Seq(TableIds)
                /\ Len(p.segs[i].ta) = Len(p.segs[i].comps)
                /\ Len(p.segs[i].td) = Len(p.segs[i].comps)
                /\ \E j \in 1 .. i - 1 : p.segs[j].m = "SOF"
                /\ \/ /\ p.segs[i].comps = [c \in 1 .. Len(p.sam) |-> c]
                      /\ \A j \in 1 .. Len(p.segs) : p.segs[j].m = "SOS" => j = i
                   \/ p.sam \in OneByOne /\ Len(p.segs[i].comps) = 1
  <1>1. WellFormed(p) /\ p.segs \in Seq(Segment)
    BY PictureOf
  <1>2. p.segs[i] \in Segment
    BY <1>1
  <1>3. p.segs[i].m = "SOS" => /\ p.segs[i].comps \in Seq(1 .. 3)
                               /\ p.segs[i].ta \in Seq(TableIds) /\ p.segs[i].td \in Seq(TableIds)
    <2> DEFINE g == p.segs[i]
    <2> HIDE DEF g
    <2>1. g \in Segment
      BY <1>2 DEF g
    <2>2. ASSUME g.m = "SOS"
          PROVE  g \in [m : {"SOS"}, comps : Seq(1 .. 3), td : Seq(TableIds), ta : Seq(TableIds)]
      BY <2>1, <2>2 DEF Segment
    <2>3. g.m = "SOS" => /\ g.comps \in Seq(1 .. 3) /\ g.ta \in Seq(TableIds) /\ g.td \in Seq(TableIds)
      BY <2>2
    <2> QED
      BY <2>3 DEF g
  <1> QED
    BY <1>1, <1>2, <1>3 DEF WellFormed, Components

LEMMA InitFrame == Init => FrameInv
  <1> SUFFICES ASSUME Init PROVE FrameInv
    OBVIOUS
  <1>1. pc = "idle" /\ pos = 1 /\ fillRight = 0 /\ fillBottom = 0 /\ pic \in Pictures
    BY DEF Init
  <1>2. Len(pic.segs) > 0 /\ Len(pic.segs) \in Nat
    BY <1>1, PictureOf DEF WellFormed
  <1> QED
    BY <1>1, <1>2 DEF FrameInv, Places, NoFill, Framed, InScan, OneScan

\* What the frame header is found to hold the second time.
LEMMA SecondReading ==
    ASSUME InfoInv, pc \notin {"idle", "info"}
    PROVE  /\ HdrFormat(pic.sam) = imageInfo.fmt /\ HdrWidth(imageInfo.fmt, pic.X) = imageInfo.w
           /\ HdrHeight(pic.Y) = imageInfo.h /\ HdrAccepts(pic.sam, pic.X, pic.Y)
           /\ imageInfo.fmt \in Formats /\ pic.sam = Pattern[imageInfo.fmt]
           /\ imageInfo.w \in Nat /\ imageInfo.h \in Nat
           /\ imageInfo.w % 16 = 0 /\ imageInfo.h % 16 = 0
  <1>1. /\ InfoAccepts(pic.sam, pic.X, pic.Y) /\ pic.X \in Nat /\ pic.Y \in Nat
        /\ imageInfo.w = InfoWidth(pic.sam, pic.X) /\ imageInfo.h = InfoHeight(pic.Y)
        /\ imageInfo.fmt = InfoFormat(pic.sam)
    BY PictureOf DEF InfoInv, Accepted
  <1>2. HdrHeight(pic.Y) = InfoHeight(pic.Y)
    BY DEF HdrHeight, InfoHeight
  <1> QED
    BY <1>1, <1>2, InfoAccepted, InfoSize

\* A scan of one component of several is one of a picture of three, in a format
\* that may be decoded so.
LEMMA Separate ==
    ASSUME InfoInv, pc \notin {"idle", "info"}, pic.sam \in OneByOne
    PROVE  imageInfo.fmt \in {"420", "422", "440"} /\ Len(pic.sam) = 3
  <1>1. PICK f \in {"420", "422", "440"} : pic.sam = Pattern[f]
    BY DEF OneByOne
  <1>2. f \in Formats /\ InfoFormat(pic.sam) = f /\ Len(pic.sam) = 3
    BY <1>1, FormatFound, Patterns
  <1> QED
    BY <1>2 DEF InfoInv, Accepted

LEMMA FrameSOS ==
    ASSUME InfoInv, FrameInv, ReadSOS PROVE FrameInv'
  <1> DEFINE s == pic.segs[pos]
  <1>1. /\ pic \in Pictures /\ pic' = pic /\ pos \in 1 .. Len(pic.segs) /\ pos' = pos + 1
        /\ pc' = "start" /\ pc \in {"read", "next"} /\ s.m = "SOS" /\ imageInfo' = imageInfo
        /\ hwX' = hwX /\ hwY' = hwY /\ yCbCrModeOrig' = yCbCrModeOrig /\ left' = left
        /\ sizeLuma' = sizeLuma /\ sizeChroma' = sizeChroma /\ sliceMbSet' = sliceMbSet
        /\ numMcuInRow' = numMcuInRow
    BY DEF ReadSOS, InLoop, Seg, FrameInv, Places, InfoInv, input, caller, planes, mcus
  <1>2. /\ s.comps \in Seq(1 .. 3)
        /\ \E j \in 1 .. pos - 1 : pic.segs[j].m = "SOF"
        /\ \/ /\ s.comps = [c \in 1 .. Len(pic.sam) |-> c]
              /\ \A j \in 1 .. Len(pic.segs) : pic.segs[j].m = "SOS" => j = pos
           \/ pic.sam \in OneByOne /\ Len(s.comps) = 1
        /\ (s.m = "EOI") = (pos = Len(pic.segs))
    BY <1>1, Segments
  <1>3. Len(pic.segs) \in Nat
    BY <1>1, PictureOf
  <1>4. pos' \in 1 .. Len(pic'.segs) /\ pos' - 1 = pos /\ CurrentScan' = s.comps
    BY <1>1, <1>2, <1>3 DEF CurrentScan
  <1>5. Framed /\ HeaderOf
    BY <1>1, <1>2 DEF FrameInv, Framed, FrameRead
  <1>6. HeaderOf'
    BY <1>1, <1>5 DEF HeaderOf
  <1>7. imageInfo.fmt \in Formats /\ pic.sam = Pattern[imageInfo.fmt] /\ hwX \in Nat /\ hwY \in Nat
        /\ hwX % 16 = 0 /\ hwY % 16 = 0
    BY <1>1, <1>5, SecondReading DEF HeaderOf
  <1>8. Len(pic.sam) = (IF imageInfo.fmt = "400" THEN 1 ELSE 3)
    BY <1>7, FormatFound
  <1>9. CASE Len(s.comps) = 1 /\ Len(pic.sam) = 3
    <2>1. pic.sam \in OneByOne
      BY <1>2, <1>9
    <2>2. imageInfo.fmt \in {"420", "422", "440"}
      BY <1>1, <2>1, Separate
    <2>3. ~Interleaved' /\ Component' = s.comps[1] /\ s.comps[1] \in 1 .. 3
      BY <1>1, <1>2, <1>4, <1>9 DEF Interleaved, Component
    <2>4. ScanOfOne(s.comps[1])
      BY <1>1, <1>9 DEF ReadSOS, Seg
    <2>5. X = hwX \/ imageInfo.fmt # "440"
      BY <1>1, <1>2 DEF FrameInv, FrameRead, WholeOf
    <2>6. Y = hwY \/ imageInfo.fmt # "422"
      BY <1>1, <1>2 DEF FrameInv, FrameRead, WholeOf
    <2>7. (operationType = "BASELINE" /\ yCbCrMode # "400") \/ operationType = "NONINTERLEAVED"
      BY <1>1, <1>2, <2>2 DEF FrameInv, FrameRead, WholeOf, Places
    <2>8. operationType' = "NONINTERLEAVED"
      BY <2>4, <2>7 DEF ScanOfOne
    <2>9. yCbCrModeOrig = imageInfo.fmt
      BY <1>5 DEF HeaderOf
    <2> DEFINE c == s.comps[1]
               w == IF c = 1 \/ imageInfo.fmt = "440" THEN hwX ELSE hwX \div 2
               h == IF c = 1 \/ imageInfo.fmt = "422" THEN hwY ELSE hwY \div 2
    <2> HIDE DEF c
    <2>10. /\ X' = IF w % 16 # 0 THEN w + 8 ELSE w
           /\ fillX' = IF w % 16 # 0 THEN 1 ELSE 0
           /\ fillRight' = IF w % 16 = 0 /\ HalfFilled(pic.X) /\ (c = 1 \/ yCbCrModeOrig = "440")
                           THEN 1 ELSE 0
      BY <2>2, <2>4, <2>5, <2>9 DEF ScanOfOne, c
    <2>11. /\ Y' = IF h % 16 # 0 THEN h + 8 ELSE h
           /\ fillY' = IF h % 16 # 0 THEN 1 ELSE 0
           /\ fillBottom' = IF h % 16 = 0 /\ HalfFilled(pic.Y) /\ (c = 1 \/ yCbCrModeOrig = "422")
                            THEN 1 ELSE 0
      BY <2>2, <2>4, <2>6, <2>9 DEF ScanOfOne, c
    <2>12. IF c = 1 \/ imageInfo.fmt = "440"
           THEN X' = hwX /\ fillX' = 0 /\ fillRight' = FillOf(TRUE, pic.X)
           ELSE X' = Half(hwX) /\ fillX' = Halved(hwX) /\ fillRight' = 0
      BY <1>7, <2>9, <2>10 DEF FillOf, Half, Halved
    <2>13. IF c = 1 \/ imageInfo.fmt = "422"
           THEN Y' = hwY /\ fillY' = 0 /\ fillBottom' = FillOf(TRUE, pic.Y)
           ELSE Y' = Half(hwY) /\ fillY' = Halved(hwY) /\ fillBottom' = 0
      BY <1>7, <2>9, <2>11 DEF FillOf, Half, Halved
    <2>14. OneOf'
      BY <1>1, <1>4, <1>9, <2>2, <2>3, <2>4, <2>12, <2>13 DEF OneOf, ScanOfOne, c
    <2>15. imageInfo.fmt = "440" => X' = hwX
      BY <2>12
    <2>16. imageInfo.fmt = "422" => Y' = hwY
      BY <2>13
    <2>17. fillRight' \in {0, 1} /\ fillBottom' \in {0, 1}
      BY <2>4 DEF ScanOfOne
    <2> QED
      BY <1>1, <1>4, <1>6, <2>3, <2>8, <2>14, <2>15, <2>16, <2>17
         DEF FrameInv, Places, NoFill, Framed, InScan, OneScan
  <1>10. CASE ~(Len(s.comps) = 1 /\ Len(pic.sam) = 3)
    <2>1. ~(pic.sam \in OneByOne /\ Len(s.comps) = 1)
      BY <1>1, <1>10, Separate
    <2>2. /\ s.comps = [k \in 1 .. Len(pic.sam) |-> k]
          /\ \A j \in 1 .. Len(pic.segs) : pic.segs[j].m = "SOS" => j = pos
      BY <1>2, <2>1
    <2>3. Len(s.comps) = Len(pic.sam)
      BY <1>8, <2>2
    <2>4. pc = "read"
      <3>1. ~ScanRead
        BY <1>1, <1>3, <2>2 DEF ScanRead
      <3> QED
        BY <1>1, <3>1 DEF FrameInv, Places
    <2>5. WholeOf
      BY <1>2, <2>4 DEF FrameInv, FrameRead
    <2>6. ScanOfAll(Len(s.comps))
      BY <1>10 DEF ReadSOS, Seg
    <2>7. /\ operationType' = operationType /\ fillRight' = fillRight /\ fillBottom' = fillBottom
          /\ X' = hwX /\ Y' = hwY /\ yCbCrMode' = imageInfo.fmt /\ fillX' = 0 /\ fillY' = 0
      BY <1>5, <2>5, <2>6 DEF ScanOfAll, WholeOf, HeaderOf
    <2>8. WholeOf'
      BY <1>1, <2>5, <2>7 DEF WholeOf
    <2>9. Interleaved'
      BY <1>1, <1>4, <1>8, <2>3 DEF Interleaved
    <2> QED
      BY <1>1, <1>4, <1>6, <2>7, <2>8, <2>9
         DEF FrameInv, Places, NoFill, Framed, InScan, OneScan
  <1> QED
    BY <1>9, <1>10

LEMMA FrameSOF ==
    ASSUME InfoInv, FrameInv, ReadSOF PROVE FrameInv'
  <1>1. /\ pic \in Pictures /\ pic' = pic /\ pos \in 1 .. Len(pic.segs) /\ pc = "read"
        /\ imageInfo' = imageInfo /\ left' = left /\ sliceMbSet' = sliceMbSet /\ pic.segs[pos].m = "SOF"
    BY DEF ReadSOF, Seg, FrameInv, Places, InfoInv, input, caller
  <1>2. (pic.segs[pos].m = "EOI") = (pos = Len(pic.segs)) /\ Len(pic.segs) \in Nat
    <2>1. (pic.segs[pos].m = "EOI") = (pos = Len(pic.segs))
      BY <1>1, Segments, Zenon
    <2>2. Len(pic.segs) \in Nat
      BY <1>1, PictureOf
    <2> QED
      BY <2>1, <2>2, Zenon
  <1>3. /\ HdrFormat(pic.sam) = imageInfo.fmt /\ HdrWidth(imageInfo.fmt, pic.X) = imageInfo.w
        /\ HdrHeight(pic.Y) = imageInfo.h /\ HdrAccepts(pic.sam, pic.X, pic.Y)
    BY <1>1, SecondReading
  <1>4. DecodeFrameHdr(imageInfo.fmt) /\ pc' = "read" /\ pos' = pos + 1 /\ operationType' = "BASELINE"
    BY <1>1, <1>3 DEF ReadSOF
  <1>5. HeaderOf'
    BY <1>1, <1>3, <1>4 DEF DecodeFrameHdr, HeaderOf
  <1>6. /\ fillRight' = IF FillsRight(imageInfo.fmt) /\ HalfFilled(pic.X) THEN 1 ELSE fillRight
        /\ fillBottom' = IF FillsBottom(imageInfo.fmt) /\ HalfFilled(pic.Y) THEN 1 ELSE fillBottom
        /\ X' = hwX' /\ Y' = hwY' /\ yCbCrMode' = imageInfo.fmt
    BY <1>4 DEF DecodeFrameHdr
  <1>7. ~left.fill => \/ fillRight = 0 /\ fillBottom = 0
                      \/ /\ fillRight = FillOf(FillsRight(imageInfo.fmt), pic.X)
                         /\ fillBottom = FillOf(FillsBottom(imageInfo.fmt), pic.Y)
    BY <1>1 DEF FrameInv, NoFill, WholeOf
  <1>8. WholeOf'
    BY <1>1, <1>4, <1>6, <1>7 DEF WholeOf, FillOf
  <1>9. FrameRead'
    BY <1>1, <1>2, <1>4 DEF FrameRead
  <1>10. Places'
    <2>1. ~ScanRead
      BY <1>1 DEF FrameInv, Places
    <2>2. ~ScanRead'
      BY <1>1, <1>4, <2>1 DEF ScanRead
    <2>3. pos' \in 1 .. Len(pic'.segs)
      BY <1>1, <1>2, <1>4
    <2>4. fillRight \in {0, 1} /\ fillBottom \in {0, 1}
      BY DEF FrameInv, Places
    <2> QED
      BY <1>4, <1>6, <2>2, <2>3, <2>4 DEF Places, InScan
  <1> QED
    BY <1>4, <1>5, <1>8, <1>9, <1>10 DEF FrameInv, NoFill, InScan, OneScan

\* A table or a value is read: only the place changes.
LEMMA FrameTable ==
    ASSUME InfoInv, FrameInv, ReadDQT \/ ReadDHT \/ ReadDRI PROVE FrameInv'
  <1>1. /\ pic \in Pictures /\ pic' = pic /\ pos \in 1 .. Len(pic.segs) /\ pc \in {"read", "next"}
        /\ pc' = pc /\ pos' = pos + 1 /\ pic.segs[pos].m \in {"DQT", "DHT", "DRI"}
    BY DEF ReadDQT, ReadDHT, ReadDRI, InLoop, Seg, FrameInv, Places, InfoInv, input
  <1>2. (pic.segs[pos].m = "EOI") = (pos = Len(pic.segs)) /\ Len(pic.segs) \in Nat
    <2>1. (pic.segs[pos].m = "EOI") = (pos = Len(pic.segs))
      BY <1>1, Segments, Zenon
    <2>2. Len(pic.segs) \in Nat
      BY <1>1, PictureOf
    <2> QED
      BY <2>1, <2>2, Zenon
  <1>3. /\ UNCHANGED <<imageInfo, hwX, hwY, numMcuInRow, yCbCrMode, yCbCrModeOrig, sizeLuma>>
        /\ UNCHANGED <<sizeChroma, sliceMbSet, X, Y, operationType, fillRight, fillBottom, left>>
        /\ UNCHANGED <<fillX, fillY, componentId>>
    BY DEF ReadDQT, ReadDHT, ReadDRI, input, caller, mcus, planes, fills, scan
  <1>4. (FrameRead' <=> FrameRead) /\ (ScanRead' <=> ScanRead)
    BY <1>1, <1>2 DEF FrameRead, ScanRead
  <1>5. Places'
    <2>1. pos' \in 1 .. Len(pic'.segs)
      BY <1>1, <1>2
    <2> QED
      BY <1>1, <1>3, <1>4, <2>1 DEF FrameInv, Places, InScan
  <1>6. (HeaderOf' <=> HeaderOf) /\ (WholeOf' <=> WholeOf)
    BY <1>1, <1>3 DEF HeaderOf, WholeOf
  <1> QED
    BY <1>1, <1>3, <1>4, <1>5, <1>6 DEF FrameInv, NoFill, Framed, InScan, OneScan

\* The hardware decodes or the next slice begins: only the program counter and
\* variables of the slices change.
LEMMA FrameScan ==
    ASSUME InfoInv, FrameInv, InScan, InScan',
           UNCHANGED <<pic, pos, imageInfo, hwX, hwY, numMcuInRow, yCbCrMode, yCbCrModeOrig>>,
           UNCHANGED <<sizeLuma, sizeChroma, sliceMbSet, X, Y, operationType, fillRight, left>>,
           UNCHANGED <<fillBottom, fillX, fillY, componentId>>
    PROVE  FrameInv'
  <1>1. /\ (HeaderOf' <=> HeaderOf) /\ (WholeOf' <=> WholeOf) /\ (Interleaved' <=> Interleaved)
        /\ CurrentScan' = CurrentScan /\ Component' = Component
    BY DEF HeaderOf, WholeOf, Interleaved, CurrentScan, Component
  <1>2. OneOf' <=> OneOf
    BY <1>1 DEF OneOf
  <1>3. HeaderOf
    BY DEF FrameInv, Framed
  <1>4. Places'
    BY DEF FrameInv, Places, InScan
  <1>5. (InScan /\ Interleaved => WholeOf /\ fillX = 0 /\ fillY = 0)'
    BY <1>1 DEF FrameInv
  <1>6. (OneScan => OneOf)'
    BY <1>1, <1>2 DEF FrameInv, OneScan
  <1>7. (OneScan \/ pc = "next" =>
           /\ operationType = "NONINTERLEAVED"
           /\ imageInfo.fmt = "440" => X = hwX
           /\ imageInfo.fmt = "422" => Y = hwY)'
    BY <1>1 DEF FrameInv, OneScan, InScan
  <1>8. NoFill' /\ (pc = "read" /\ FrameRead => WholeOf)'
    BY DEF NoFill, InScan
  <1> QED
    BY <1>1, <1>3, <1>4, <1>5, <1>6, <1>7, <1>8 DEF FrameInv

LEMMA FrameDone ==
    ASSUME InfoInv, FrameInv, ScanDone PROVE FrameInv'
  <1>1. /\ UNCHANGED <<pic, pos, imageInfo, hwX, hwY, numMcuInRow, yCbCrMode, yCbCrModeOrig>>
        /\ UNCHANGED <<sizeLuma, sizeChroma, sliceMbSet, X, Y, operationType, fillRight, left>>
        /\ UNCHANGED <<fillBottom, fillX, fillY, componentId>>
        /\ pc = "hw" /\ pc' \in {"next", "idle"} /\ operationType = "NONINTERLEAVED"
    BY DEF ScanDone, input, caller, mcus, planes, fills, scan
  <1>2. ~Interleaved
    BY <1>1 DEF FrameInv, WholeOf, InScan
  <1>3. OneOf /\ HeaderOf /\ (imageInfo.fmt = "440" => X = hwX) /\ (imageInfo.fmt = "422" => Y = hwY)
    BY <1>1, <1>2 DEF FrameInv, OneScan, InScan, Framed
  <1>4. HeaderOf'
    BY <1>1, <1>3 DEF HeaderOf
  <1>5. ScanRead' /\ Len(pic.sam) = 3
    <2>1. pos - 1 \in 1 .. Len(pic.segs) /\ pic.segs[pos - 1].m = "SOS" /\ pos \in 1 .. Len(pic.segs)
      BY <1>1 DEF FrameInv, Places, InScan
    <2>2. imageInfo.fmt \in Formats /\ imageInfo.fmt # "400" /\ pic.sam = Pattern[imageInfo.fmt]
      BY <1>1, <1>3, SecondReading DEF OneOf
    <2>3. Len(pic.sam) = 3
      BY <2>2, FormatFound
    <2>4. Len(pic.segs) \in Nat
      BY PictureOf DEF InfoInv
    <2>5. ScanRead
      BY <2>1, <2>4 DEF ScanRead
    <2> QED
      BY <1>1, <2>3, <2>5 DEF ScanRead
  <1>6. Places'
    BY <1>1, <1>5 DEF FrameInv, Places, InScan
  <1> QED
    BY <1>1, <1>3, <1>4, <1>6 DEF FrameInv, NoFill, InScan, OneScan

LEMMA StepFrame == InfoInv /\ FrameInv /\ [Next]_vars => FrameInv'
  <1> SUFFICES ASSUME InfoInv, FrameInv, [Next]_vars PROVE FrameInv'
    OBVIOUS
  <1>1. ASSUME NEW p \in Pictures, Submit(p) PROVE FrameInv'
    <2>1. /\ pic' = p /\ pos' = 1 /\ pc' = "info" /\ fillRight' = fillRight /\ fillBottom' = fillBottom
          /\ left'.fill = (fillRight + fillBottom > 0)
      BY <1>1 DEF Submit, fills
    <2>2. Len(p.segs) > 0 /\ Len(p.segs) \in Nat
      BY PictureOf DEF WellFormed
    <2>3. fillRight \in {0, 1} /\ fillBottom \in {0, 1}
      BY DEF FrameInv, Places
    <2>4. ~left'.fill => fillRight' = 0 /\ fillBottom' = 0
      <3>1. ~left'.fill => ~(fillRight + fillBottom > 0)
        BY <2>1, Zenon
      <3> QED
        BY <2>1, <2>3, <3>1
    <2>5. Places'
      BY <2>1, <2>2, <2>3 DEF Places, InScan
    <2> QED
      BY <2>1, <2>4, <2>5 DEF FrameInv, NoFill, Framed, InScan, OneScan
  <1>2. CASE GetImageInfo \/ InfoUnsupported \/ Prepare
    <2>1. /\ pic' = pic /\ pos' = pos /\ pc \in {"info", "prepare"} /\ pc' \in {"prepare", "enter", "idle"}
          /\ fillRight' = fillRight /\ fillBottom' = fillBottom /\ left' = left
      BY <1>2 DEF GetImageInfo, InfoUnsupported, Prepare, input, fills
    <2> QED
      BY <2>1 DEF FrameInv, Places, NoFill, Framed, InScan, OneScan
  <1>3. CASE Enter
    <2>1. /\ pic' = pic /\ pos' = pos /\ pc = "enter" /\ pc' \in {"read", "idle"}
          /\ fillRight' = fillRight /\ fillBottom' = fillBottom /\ left' = left
      BY <1>3 DEF Enter, input, fills
    <2>2. pos = 1
      BY <2>1 DEF FrameInv, Places
    <2>3. ~FrameRead' /\ ~ScanRead'
      BY <2>1, <2>2 DEF FrameRead, ScanRead
    <2> QED
      BY <2>1, <2>3 DEF FrameInv, Places, NoFill, Framed, InScan, OneScan
  <1>4. CASE ReadDQT \/ ReadDHT \/ ReadDRI
    BY <1>4, FrameTable
  <1>5. CASE ReadSOF
    BY <1>5, FrameSOF
  <1>6. CASE ReadSOS
    BY <1>6, FrameSOS
  <1>7. CASE StartHW \/ SliceReady \/ Resume
    <2>1. /\ UNCHANGED <<pic, pos, imageInfo, hwX, hwY, numMcuInRow, yCbCrMode, yCbCrModeOrig>>
          /\ UNCHANGED <<sizeLuma, sizeChroma, sliceMbSet, X, Y, operationType, fillRight, left>>
          /\ UNCHANGED <<fillBottom, fillX, fillY, componentId>>
          /\ InScan /\ InScan'
      BY <1>7 DEF StartHW, SliceReady, Resume, InScan, input, caller, mcus, planes, fills, scan
    <2> QED
      BY <2>1, FrameScan
  <1>8. CASE ScanDone
    BY <1>8, FrameDone
  <1>9. CASE ReadEOI \/ BaselineDone \/ HwFails
    <2>1. /\ pic' = pic /\ pos' = pos /\ pc' = "idle" /\ fillRight' = fillRight /\ fillBottom' = fillBottom
      BY <1>9 DEF ReadEOI, BaselineDone, HwFails, input, fills
    <2> QED
      BY <2>1 DEF FrameInv, Places, NoFill, Framed, InScan, OneScan
  <1>10. CASE UNCHANGED vars
    <2>1. /\ UNCHANGED <<pic, pos, pc, imageInfo, hwX, hwY, numMcuInRow, yCbCrMode, yCbCrModeOrig>>
          /\ UNCHANGED <<sizeLuma, sizeChroma, sliceMbSet, X, Y, operationType, fillRight, left>>
          /\ UNCHANGED <<fillBottom, fillX, fillY, componentId>>
      BY <1>10 DEF vars, input, caller, mcus, planes, fills, scan
    <2>2. /\ (HeaderOf' <=> HeaderOf) /\ (WholeOf' <=> WholeOf) /\ (Interleaved' <=> Interleaved)
          /\ CurrentScan' = CurrentScan /\ Component' = Component
          /\ (FrameRead' <=> FrameRead) /\ (ScanRead' <=> ScanRead)
      BY <2>1 DEF HeaderOf, WholeOf, Interleaved, CurrentScan, Component, FrameRead, ScanRead
    <2>3. OneOf' <=> OneOf
      BY <2>1, <2>2 DEF OneOf
    <2> QED
      BY <2>1, <2>2, <2>3 DEF FrameInv, Places, NoFill, Framed, InScan, OneScan
  <1> QED
    BY <1>1, <1>2, <1>3, <1>4, <1>5, <1>6, <1>7, <1>8, <1>9, <1>10 DEF Next

LEMMA AlwaysFrame == Spec => []FrameInv
  BY InitFrame, StepFrame, AlwaysInfo, PTL DEF Spec

(***************************************************************************)
(* The registers.                                                          *)
(***************************************************************************)

\* The registers hold what the instance does: from the first slice of a scan
\* on, unless an earlier picture left the instance as in the middle of one.
RegsOf ==
  /\ regs.w = X \div 16 /\ regs.h = Y \div 16 /\ regs.mode = yCbCrMode
  /\ regs.fillRight = fillRight /\ regs.fillBottom = fillBottom /\ regs.restart = Ri
Written == pc \in {"hw", "again"} \/ (pc = "start" /\ SliceReadyForPause)

\* The last restart interval read.
IsLastDRI(i) == /\ pic.segs[i].m = "DRI"
                /\ \A j \in i + 1 .. pos - 1 : pic.segs[j].m # "DRI"
DRIRead == \E i \in 1 .. pos - 1 : pic.segs[i].m = "DRI"
RiOf ==
  IF DRIRead THEN \E i \in 1 .. pos - 1 : IsLastDRI(i) /\ Ri = pic.segs[i].n
  ELSE \/ left.Ri \/ Ri = 0
       \/ pc \in {"prepare", "enter", "read"} /\ \E i \in 1 .. FirstScan - 1 : pic.segs[i].m = "DRI"

RegsInv ==
  /\ DOMAIN regs = DOMAIN NoRegs
  /\ SliceReadyForPause \in BOOLEAN
  /\ pc \in {"info", "prepare", "enter", "read"} => SliceReadyForPause = left.pause
  /\ pc = "next" => ~SliceReadyForPause
  /\ Written /\ ~left.pause => RegsOf
  /\ pc = "info" => left.Ri \/ Ri = 0
  /\ pc \notin {"idle", "info"} => RiOf

LEMMA InitRegs == Init => RegsInv
  <1> SUFFICES ASSUME Init PROVE RegsInv
    OBVIOUS
  <1>1. pc = "idle" /\ regs = NoRegs /\ SliceReadyForPause = FALSE
    BY DEF Init
  <1> QED
    BY <1>1 DEF RegsInv, Written

\* The register writes of a first slice and of the next.
LEMMA Registers ==
    ASSUME StartHW, DOMAIN regs = DOMAIN NoRegs
    PROVE  /\ DOMAIN regs' = DOMAIN NoRegs
           /\ ~SliceReadyForPause => RegsOf'
           /\ SliceReadyForPause /\ RegsOf => RegsOf'
  <1>1. UNCHANGED <<X, Y, yCbCrMode, fillRight, fillBottom, Ri>>
    BY DEF StartHW, fills
  <1>2. CASE SliceReadyForPause
    <2>1. regs' = [regs EXCEPT !.sliceH = sliceHeight']
      BY <1>2 DEF StartHW, InitHWContinue
    <2>2. /\ DOMAIN regs' = DOMAIN regs
          /\ regs'.w = regs.w /\ regs'.h = regs.h /\ regs'.mode = regs.mode
          /\ regs'.fillRight = regs.fillRight /\ regs'.fillBottom = regs.fillBottom
          /\ regs'.restart = regs.restart
      BY <2>1 DEF NoRegs
    <2> QED
      BY <1>1, <1>2, <2>2 DEF RegsOf
  <1>3. CASE ~SliceReadyForPause
    <2> DEFINE r == [regs EXCEPT
              !.w = X \div 16, !.h = Y \div 16, !.mode = yCbCrMode,
              !.fillRight = fillRight, !.fillBottom = fillBottom, !.qTables = amountOfQTables,
              !.sliceH = sliceHeight', !.restart = Ri, !.ac = Selectors(Ta), !.dc = Selectors(Td)]
    <2>1. regs' = WriteLenBits(r) \/ regs' = WriteLenBitsNonInterleaved(r)
      BY <1>3 DEF StartHW, InitHW
    <2>2. /\ DOMAIN r = DOMAIN NoRegs
          /\ r.w = X \div 16 /\ r.h = Y \div 16 /\ r.mode = yCbCrMode
          /\ r.fillRight = fillRight /\ r.fillBottom = fillBottom /\ r.restart = Ri
      BY DEF NoRegs
    <2> HIDE DEF r
    <2>3. /\ DOMAIN regs' = DOMAIN NoRegs
          /\ regs'.w = r.w /\ regs'.h = r.h /\ regs'.mode = r.mode
          /\ regs'.fillRight = r.fillRight /\ regs'.fillBottom = r.fillBottom
          /\ regs'.restart = r.restart
      BY <2>1, <2>2 DEF WriteLenBits, WriteLenBitsNonInterleaved, NoRegs
    <2> QED
      BY <1>1, <1>3, <2>2, <2>3 DEF RegsOf
  <1> QED
    BY <1>2, <1>3

\* One segment more.
LEMMA NextRi ==
    ASSUME InfoInv, FrameInv, RegsInv, InLoop, pic' = pic, pos' = pos + 1, left' = left,
           IF Seg.m = "DRI" THEN Ri' = Seg.n ELSE Ri' = Ri,
           IF Seg.m = "SOS" THEN pc' = "start" ELSE pc' = pc
    PROVE  RiOf'
  <1>1. pos \in 1 .. Len(pic.segs) /\ Len(pic.segs) \in Nat /\ pos' - 1 = pos /\ RiOf /\ Seg = pic.segs[pos]
    BY PictureOf DEF InfoInv, FrameInv, Places, RegsInv, InLoop, Seg
  <1>2. CASE Seg.m = "DRI"
    <2> PICK k \in 1 .. Len(pic.segs) : k = pos
      BY <1>1
    <2>1. IsLastDRI(k)' /\ Ri' = pic'.segs[k].n /\ k \in 1 .. pos' - 1
      BY <1>1, <1>2 DEF IsLastDRI
    <2>2. DRIRead'
      BY <1>1, <1>2 DEF DRIRead
    <2> QED
      BY <2>1, <2>2 DEF RiOf
  <1>3. CASE Seg.m # "DRI"
    <2>1. DRIRead' <=> DRIRead
      BY <1>1, <1>3 DEF DRIRead
    <2>2. CASE DRIRead
      <3>1. PICK i \in 1 .. pos - 1 : IsLastDRI(i) /\ Ri = pic.segs[i].n
        BY <1>1, <2>2 DEF RiOf
      <3>2. IsLastDRI(i)'
        BY <1>1, <1>3, <3>1 DEF IsLastDRI
      <3>3. Ri' = pic'.segs[i].n /\ i \in 1 .. pos' - 1
        BY <1>1, <1>3, <3>1
      <3> QED
        BY <2>1, <2>2, <3>2, <3>3 DEF RiOf
    <2>3. CASE ~DRIRead
      <3>1. CASE left.Ri \/ Ri = 0
        BY <1>3, <2>1, <2>3, <3>1 DEF RiOf
      <3>2. CASE pc = "read" /\ ~(left.Ri \/ Ri = 0)
        <4>1. \E i \in 1 .. FirstScan - 1 : pic.segs[i].m = "DRI"
          BY <1>1, <2>3, <3>2 DEF RiOf
        <4>2. FirstScan' = FirstScan
          BY DEF FirstScan
        <4>3. CASE Seg.m # "SOS"
          BY <2>1, <2>3, <3>2, <4>1, <4>2, <4>3 DEF RiOf
        <4>4. CASE Seg.m = "SOS"
          <5>1. \A j \in 1 .. pos - 1 : pic.segs[j].m # "SOS"
            BY <3>2 DEF FrameInv, Places, ScanRead
          <5>2. FirstScan = pos
            <6> DEFINE P(i) == pic.segs[i].m = "SOS" /\ \A j \in 1 .. i - 1 : pic.segs[j].m # "SOS"
            <6>1. P(pos)
              BY <1>1, <4>4, <5>1
            <6>2. ASSUME NEW i \in 1 .. Len(pic.segs), P(i) PROVE i = pos
              BY <1>1, <4>4, <5>1, <6>2
            <6> HIDE DEF P
            <6>3. (CHOOSE i \in 1 .. Len(pic.segs) : P(i)) = pos
              BY <1>1, <6>1, <6>2
            <6> QED
              BY <6>3 DEF FirstScan, P
          <5> QED
            BY <2>3, <4>1, <5>2 DEF DRIRead
        <4> QED
          BY <4>3, <4>4
      <3> QED
        BY <1>1, <2>3, <3>1, <3>2 DEF RiOf, InLoop
    <2> QED
      BY <2>2, <2>3
  <1> QED
    BY <1>2, <1>3

LEMMA StepRegs == InfoInv /\ FrameInv /\ RegsInv /\ [Next]_vars => RegsInv'
  <1> SUFFICES ASSUME InfoInv, FrameInv, RegsInv, [Next]_vars PROVE RegsInv'
    OBVIOUS
  <1>1. ASSUME NEW p \in Pictures, Submit(p) PROVE RegsInv'
    <2>1. /\ regs' = regs /\ SliceReadyForPause' = SliceReadyForPause /\ pc' = "info" /\ Ri' = Ri
          /\ left' = [fill   |-> fillRight + fillBottom > 0,
                      Ri     |-> Ri # 0,
                      height |-> sliceHeight # 0,
                      slices |-> SliceReadyForPause \/ SliceCount # 0 \/ sliceHeight # 0,
                      pause  |-> SliceReadyForPause]
      BY <1>1 DEF Submit, slices, hw
    <2>2. left'.pause = SliceReadyForPause /\ left'.Ri = (Ri # 0)
      BY <2>1, Zenon
    <2>3. left'.Ri \/ Ri' = 0
      BY <2>1, <2>2, Zenon
    <2> QED
      BY <2>1, <2>2, <2>3 DEF RegsInv, Written
  <1>2. CASE GetImageInfo
    <2>1. /\ regs' = regs /\ SliceReadyForPause' = SliceReadyForPause /\ pc = "info" /\ pc' = "prepare"
          /\ Ri' = RiBefore(FirstScan) /\ pos' = pos /\ left' = left /\ pic' = pic
      BY <1>2 DEF GetImageInfo, slices, hw, input
    <2>2. pos = 1 /\ ~DRIRead' /\ FirstScan' = FirstScan
      BY <2>1 DEF FrameInv, Places, DRIRead, FirstScan
    <2>3. RiOf'
      BY <2>1, <2>2 DEF RiOf, RiBefore, RegsInv
    <2> QED
      BY <2>1, <2>3 DEF RegsInv, Written
  <1>3. CASE Prepare \/ Enter
    <2>1. /\ regs' = regs /\ SliceReadyForPause' = SliceReadyForPause /\ pc \in {"prepare", "enter"}
          /\ pc' \in {"enter", "read", "idle"} /\ Ri' = Ri /\ pos' = pos /\ left' = left /\ pic' = pic
      BY <1>3 DEF Prepare, Enter, slices, hw, input
    <2>2. pc' # "idle" => RiOf'
      <3>1. FirstScan' = FirstScan /\ (DRIRead' <=> DRIRead) /\ \A i : IsLastDRI(i)' <=> IsLastDRI(i)
        BY <2>1 DEF FirstScan, DRIRead, IsLastDRI
      <3> QED
        BY <2>1, <3>1 DEF RegsInv, RiOf
    <2> QED
      BY <2>1, <2>2 DEF RegsInv, Written
  <1>4. CASE InfoUnsupported \/ ReadEOI \/ BaselineDone \/ HwFails \/ (ReadSOF /\ pc' = "idle")
    BY <1>4 DEF InfoUnsupported, ReadEOI, BaselineDone, HwFails, ReadSOF, slices, hw, RegsInv, Written
  <1>5. CASE ReadDQT \/ ReadDHT \/ ReadDRI \/ (ReadSOF /\ pc' # "idle")
    <2>1. /\ regs' = regs /\ SliceReadyForPause' = SliceReadyForPause /\ InLoop /\ pc' = pc
          /\ pos' = pos + 1 /\ left' = left /\ pic' = pic
          /\ (IF Seg.m = "DRI" THEN Ri' = Seg.n ELSE Ri' = Ri) /\ Seg.m # "SOS"
      BY <1>5 DEF ReadDQT, ReadDHT, ReadDRI, ReadSOF, InLoop, slices, hw, input
    <2>2. RiOf'
      BY <2>1, NextRi
    <2> QED
      BY <2>1, <2>2 DEF RegsInv, Written, InLoop
  <1>6. CASE ReadSOS
    <2>1. /\ regs' = regs /\ SliceReadyForPause' = SliceReadyForPause /\ InLoop /\ pc' = "start"
          /\ pos' = pos + 1 /\ left' = left /\ pic' = pic
          /\ Ri' = Ri /\ Seg.m = "SOS"
      BY <1>6 DEF ReadSOS, slices, hw, input
    <2>2. RiOf'
      BY <2>1, NextRi
    <2>3. ~left.pause => ~SliceReadyForPause
      BY <2>1 DEF RegsInv, InLoop
    <2> QED
      BY <2>1, <2>2, <2>3 DEF RegsInv, Written
  <1>7. CASE StartHW
    <2>1. /\ SliceReadyForPause' = SliceReadyForPause /\ pc = "start" /\ pc' = "hw"
          /\ UNCHANGED <<pos, left, pic, Ri>>
      BY <1>7 DEF StartHW, input
    <2>2. RiOf'
      BY <2>1 DEF RegsInv, RiOf, DRIRead, IsLastDRI
    <2>3. /\ DOMAIN regs' = DOMAIN NoRegs
          /\ ~SliceReadyForPause => RegsOf'
          /\ SliceReadyForPause /\ RegsOf => RegsOf'
      BY <1>7, Registers DEF RegsInv
    <2> QED
      BY <2>1, <2>2, <2>3 DEF RegsInv, Written
  <1>8. CASE SliceReady \/ Resume \/ ScanDone
    <2>1. /\ UNCHANGED <<pos, left, pic, Ri, regs, X, Y, yCbCrMode, fillRight, fillBottom>>
          /\ pc \in {"hw", "again"} /\ pc' \in {"again", "start", "next", "idle"}
          /\ SliceReadyForPause' \in BOOLEAN /\ (pc' = "next" => ~SliceReadyForPause')
      BY <1>8 DEF SliceReady, Resume, ScanDone, input, fills, slices, hw, RegsInv
    <2>2. RiOf'
      BY <2>1 DEF RegsInv, RiOf, DRIRead, IsLastDRI
    <2>3. RegsOf' <=> RegsOf
      BY <2>1 DEF RegsOf
    <2> QED
      BY <2>1, <2>2, <2>3 DEF RegsInv, Written
  <1>9. CASE UNCHANGED vars
    <2>1. UNCHANGED <<pc, pos, left, pic, Ri, regs, X, Y, yCbCrMode, fillRight, fillBottom, SliceReadyForPause>>
      BY <1>9 DEF vars, input, fills, slices, hw
    <2>2. (RegsOf' <=> RegsOf) /\ (Written' <=> Written) /\ (RiOf' <=> RiOf)
      BY <2>1 DEF RegsOf, Written, RiOf, DRIRead, IsLastDRI, FirstScan
    <2> QED
      BY <2>1, <2>2 DEF RegsInv
  <1> QED
    BY <1>1, <1>2, <1>3, <1>4, <1>5, <1>6, <1>7, <1>8, <1>9 DEF Next

LEMMA AlwaysRegs == Spec => []RegsInv
  BY InitRegs, StepRegs, AlwaysInfo, AlwaysFrame, PTL DEF Spec

(***************************************************************************)
(* The properties.                                                         *)
(***************************************************************************)

\* The planes of a picture, or of a slice of it, fit the memory of one in its
\* own format.
LEMMA PlanesFit ==
    ASSUME NEW sam, NEW x \in Nat, NEW y \in Nat, InfoAccepts(sam, x, y)
    PROVE  LET f == InfoFormat(sam)
               w == InfoWidth(sam, x)
               h == InfoHeight(y)
               s == FrameSliceMbSet(f, w, h) IN
           (IF s # 0 THEN SliceLuma(f, w, s) ELSE HdrLuma(f, w, h))
             + (IF s # 0 THEN SliceChroma(f, w, s) ELSE HdrChroma(f, w, h))
           <= FrameOriginal(f, w, h)
  <1> DEFINE f == InfoFormat(sam)
             w == InfoWidth(sam, x)
             h == InfoHeight(y)
             s == FrameSliceMbSet(f, w, h)
             n == w * h
             row == FrameMcuInRow(f, w) \div McuSizeDivider(f)
  <1>1. f \in Formats
    BY InfoAccepted
  <1>2. w \in Nat /\ h \in Nat /\ w % 16 = 0 /\ h % 16 = 0 /\ (f = "411" => w % 32 = 0)
    BY InfoSize
  <1>3. /\ s \in Nat /\ row \in Nat /\ (s # 0 => w * h > MaxPixelsAtOnce)
        /\ s # 0 => s * row < MaxSliceSize
    BY SlicesPass
  <1> HIDE DEF f, w, h, s
  <1>4. UpTo(w, 16) = w /\ UpTo(h, 16) = h
    BY <1>2 DEF UpTo
  <1>5. n \in Nat
    BY <1>2
  <1>6. PICK a \in Nat, b \in Nat : w = 16 * a /\ h = 16 * b
    BY <1>2
  <1> DEFINE m == a * b
  <1>7. n = 256 * m /\ m \in Nat
    BY <1>6
  <1>8. FrameOriginal(f, w, h) = CASE f = "400" -> n
                                   [] f = "420" -> (n * 3) \div 2
                                   [] f \in {"422", "440", "411"} -> n * 2
                                   [] f = "444" -> n * 3
    BY <1>1, <1>4 DEF FrameOriginal, Formats
  <1>9. CASE s = 0
    <2>1. UpTo(w, 8 * Hmax[f]) = w
      BY <1>1, <1>2, McusAgree
    <2>2. UpTo(h, 8 * Vmax[f]) = h
      <3>1. UpTo(h, 8) = h
        BY <1>2 DEF UpTo
      <3>2. Vmax[f] \in {1, 2}
        BY <1>1, Maxima DEF Formats
      <3> QED
        BY <1>4, <3>1, <3>2
    <2>3. HdrLuma(f, w, h) = n
      BY <2>1, <2>2 DEF HdrLuma
    <2>4. HdrChroma(f, w, h) =
            IF f = "400" THEN 0 ELSE 2 * ((w \div Hmax[f]) * (h \div Vmax[f]))
      BY <2>1, <2>2 DEF HdrChroma
    <2>5. HdrChroma(f, w, h) = CASE f = "400" -> 0
                                 [] f = "420" -> 128 * m
                                 [] f \in {"422", "440"} -> 256 * m
                                 [] f = "411" -> 128 * m
                                 [] f = "444" -> 512 * m
      <3>1. w \div 1 = 16 * a /\ w \div 2 = 8 * a /\ w \div 4 = 4 * a /\ h \div 1 = 16 * b /\ h \div 2 = 8 * b
        BY <1>6
      <3>2. /\ (8 * a) * (8 * b) = 64 * m /\ (8 * a) * (16 * b) = 128 * m
            /\ (16 * a) * (8 * b) = 128 * m /\ (4 * a) * (16 * b) = 64 * m
            /\ (16 * a) * (16 * b) = 256 * m
        OBVIOUS
      <3> HIDE DEF m
      <3>3. CASE f = "400"
        BY <2>4, <3>3
      <3>4. CASE f = "420"
        BY <2>4, <3>1, <3>2, <3>4, <1>7, Maxima
      <3>5. CASE f = "422"
        BY <2>4, <3>1, <3>2, <3>5, <1>7, Maxima
      <3>6. CASE f = "440"
        BY <2>4, <3>1, <3>2, <3>6, <1>7, Maxima
      <3>7. CASE f = "411"
        BY <2>4, <3>1, <3>2, <3>7, <1>7, Maxima
      <3>8. CASE f = "444"
        BY <2>4, <3>1, <3>2, <3>8, <1>7, Maxima
      <3> QED
        BY <1>1, <3>3, <3>4, <3>5, <3>6, <3>7, <3>8 DEF Formats
    <2> DEFINE c == HdrChroma(f, w, h)
               o == FrameOriginal(f, w, h)
    <2> HIDE DEF n, m, c, o
    <2>6. n + c <= o
      BY <1>1, <1>7, <1>8, <2>5 DEF c, o, Formats
    <2> QED
      BY <1>9, <2>3, <2>6 DEF f, w, h, s, c, o
  <1>10. CASE s # 0
    <2> DEFINE p == s * row
               l == w * (s * 16)
               q == s * a
    <2>1. q \in Nat /\ l = 256 * q
      BY <1>3, <1>6
    <2>2. p \in Nat /\ p < MaxSliceSize /\ n > MaxPixelsAtOnce
      BY <1>3, <1>10
    <2>3. a <= 2 * row + 1 /\ (f # "411" => a = row) /\ (f = "411" => a = 2 * row)
      <3>1. CASE f \in {"400", "444", "440"}
        <4>1. row = (w \div 8) \div 2
          BY <3>1 DEF FrameMcuInRow, McuSizeDivider
        <4> HIDE DEF row
        <4> QED
          BY <1>3, <1>6, <3>1, <4>1
      <3>2. CASE f \in {"420", "422"}
        <4>1. row = (w \div 16) \div 1
          BY <3>2 DEF FrameMcuInRow, McuSizeDivider
        <4> HIDE DEF row
        <4> QED
          BY <1>3, <1>6, <3>2, <4>1
      <3>3. CASE f = "411"
        <4>1. row = (w \div 32) \div 1
          BY <3>3 DEF FrameMcuInRow, McuSizeDivider
        <4> HIDE DEF row
        <4> QED
          BY <1>2, <1>3, <1>6, <3>3, <4>1
      <3> QED
        BY <1>1, <3>1, <3>2, <3>3 DEF Formats
    <2> HIDE DEF row
    <2>4. q <= 2 * p
      <3>1. CASE a = row
        <4>1. q = p
          BY <3>1
        <4> QED
          BY <2>2, <4>1
      <3>2. CASE a = 2 * row
        <4>1. q = 2 * p
          BY <1>3, <3>2
        <4> QED
          BY <2>2, <4>1
      <3> QED
        BY <2>3, <3>1, <3>2
    <2>5. SliceLuma(f, w, s) = l
      BY DEF SliceLuma
    <2>6. SliceChroma(f, w, s) = CASE f = "400" -> 0
                                   [] f \in {"420", "411"} -> l \div 2
                                   [] f \in {"422", "440"} -> l
                                   [] f = "444" -> l * 2
      BY <1>1 DEF SliceChroma, SliceLuma
    <2> DEFINE c == SliceChroma(f, w, s)
               o == FrameOriginal(f, w, h)
    <2> HIDE DEF n, m, c, o, l, p, q
    <2>7. l \in Nat /\ l <= n
      BY <1>5, <2>1, <2>2, <2>4 DEF MaxSliceSize, MaxPixelsAtOnce
    <2>8. l + c <= o
      <3>1. CASE f = "400"
        BY <1>5, <1>8, <2>6, <2>7, <3>1 DEF c, o
      <3>2. CASE f = "420"
        BY <1>5, <1>8, <2>6, <2>7, <3>2 DEF c, o
      <3>3. CASE f \in {"422", "440"}
        BY <1>5, <1>8, <2>6, <2>7, <3>3 DEF c, o
      <3>4. CASE f = "411"
        BY <1>5, <1>8, <2>6, <2>7, <3>4 DEF c, o
      <3>5. CASE f = "444"
        BY <1>5, <1>8, <2>6, <2>7, <3>5 DEF c, o
      <3> QED
        BY <1>1, <3>1, <3>2, <3>3, <3>4, <3>5 DEF Formats
    <2> QED
      BY <1>10, <2>5, <2>8 DEF f, w, h, s, c, o
  <1> QED
    BY <1>9, <1>10

\* The post-processor's picture is as large as the decoder's, and its bytes fit.
LEMMA NotScaled ==
    ASSUME NEW w \in Nat, NEW h \in Nat, w % 16 = 0, h % 16 = 0
    PROVE  /\ FrameWidth(w) = w /\ FrameHeight(w, h) = h /\ UpTo(w, 16) = w /\ UpTo(h, 16) = h
           /\ Scaling(w, w) = 0 /\ Scaling(h, h) = 0
           /\ (w * h * 3) \div 2 <= FrameConverted(w, h)
  <1>1. UpTo(w, 16) = w /\ UpTo(w, 8) = w /\ UpTo(h, 16) = h /\ UpTo(h, 2) = h
    BY DEF UpTo
  <1>2. FrameWidth(w) = w /\ FrameHeight(w, h) = h
    BY <1>1 DEF FrameWidth, FrameHeight
  <1>3. Scaling(w, w) = 0 /\ Scaling(h, h) = 0
    BY DEF Scaling
  <1>4. (w * h * 3) \div 2 <= FrameConverted(w, h)
    <2> DEFINE n == w * h
    <2>1. n \in Nat
      OBVIOUS
    <2>2. FrameConverted(w, h) = n * 2
      BY <1>2 DEF FrameConverted
    <2> HIDE DEF n
    <2>3. (n * 3) \div 2 <= n * 2
      BY <2>1
    <2> QED
      BY <2>2, <2>3 DEF n
  <1> QED
    BY <1>1, <1>2, <1>3, <1>4

\* For every set of pictures: what oneframe set up from the image information
\* is what the frame header makes of the picture, the post-processor does not
\* scale, and the picture fits its memory.
THEOREM HeadersAgreeThm == Spec => []HeadersAgree
  <1>1. ASSUME InfoInv, FrameInv, RegsInv PROVE HeadersAgree
    <2> SUFFICES ASSUME Scanning, Interleaved PROVE /\ pp.fmt = regs.mode /\ pp.inW = regs.w
                 /\ pp.inH = regs.h /\ pp.hor = 0 /\ pp.ver = 0
                 /\ numMcuInRow = FrameMcuInRow(imageInfo.fmt, imageInfo.w) /\ PictureFits
      BY DEF HeadersAgree
    <2> DEFINE f == imageInfo.fmt
               w == imageInfo.w
               h == imageInfo.h
    <2>1. /\ f \in Formats /\ w \in Nat /\ h \in Nat /\ w % 16 = 0 /\ h % 16 = 0
          /\ InfoAccepts(pic.sam, pic.X, pic.Y) /\ pic.X \in Nat /\ pic.Y \in Nat
          /\ w = InfoWidth(pic.sam, pic.X) /\ h = InfoHeight(pic.Y) /\ f = InfoFormat(pic.sam)
      BY <1>1, SecondReading, PictureOf DEF Scanning, InfoInv, Accepted
    <2>2. HeaderOf /\ WholeOf /\ RegsOf
      BY <1>1 DEF Scanning, FrameInv, Framed, InScan, RegsInv, Written
    <2>3. pp = SetPostProcessor(f, w, h, w, h)
      BY <1>1, <2>1, NotScaled DEF Scanning, InfoInv, Prepared
    <2>4. /\ pp.fmt = f /\ pp.inW = w \div 16 /\ pp.inH = h \div 16 /\ pp.outW = w /\ pp.outH = h
          /\ pp.hor = 0 /\ pp.ver = 0
      BY <2>1, <2>3, NotScaled DEF SetPostProcessor
    <2>5. numMcuInRow = FrameMcuInRow(f, w)
      <3>1. f = "411" => w % 32 = 0
        BY <2>1, InfoSize
      <3> QED
        BY <2>1, <2>2, <3>1, McusAgree DEF HeaderOf
    <2>6. regs.mode = f /\ regs.w = w \div 16 /\ regs.h = h \div 16
      BY <2>2 DEF RegsOf, WholeOf, HeaderOf
    <2>7. PictureFits
      <3>1. CASE colorConv
        <4>1. picSize = FrameConverted(w, h)
          BY <1>1, <3>1 DEF Scanning, InfoInv, Prepared
        <4> QED
          BY <2>1, <2>4, <3>1, <4>1, NotScaled DEF PictureFits
      <3>2. CASE ~colorConv
        <4> DEFINE s == FrameSliceMbSet(f, w, h)
        <4>1. picSize = FrameOriginal(f, w, h) /\ sliceMbSet = s
          BY <1>1, <3>2 DEF Scanning, InfoInv, Prepared
        <4>2. /\ sizeLuma = (IF s # 0 THEN SliceLuma(f, w, s) ELSE HdrLuma(f, w, h))
              /\ sizeChroma = (IF s # 0 THEN SliceChroma(f, w, s) ELSE HdrChroma(f, w, h))
          BY <2>2, <4>1 DEF HeaderOf
        <4>3. (IF s # 0 THEN SliceLuma(f, w, s) ELSE HdrLuma(f, w, h))
                + (IF s # 0 THEN SliceChroma(f, w, s) ELSE HdrChroma(f, w, h))
              <= FrameOriginal(f, w, h)
          <5> HIDE DEF f, w, h
          <5> QED
            BY <2>1, PlanesFit
        <4> QED
          BY <3>2, <4>1, <4>2, <4>3 DEF PictureFits
      <3> QED
        BY <3>1, <3>2
    <2> QED
      BY <2>4, <2>5, <2>6, <2>7
  <1> QED
    BY <1>1, AlwaysInfo, AlwaysFrame, AlwaysRegs, PTL

\* The macroblocks of a picture less the half one at its end are the blocks of
\* its samples, and of half as many samples.
LEMMA HalfBlocks ==
    ASSUME NEW n \in Nat
    PROVE  /\ 16 * (UpTo(n, 16) \div 16) - 8 * FillOf(TRUE, n) = UpTo(n, 8)
           /\ 16 * (UpTo(n, 16) \div 16) = UpTo(n, 16)
           /\ (UpTo(n, 16) \div 2) % 16 = 0 =>
                16 * ((UpTo(n, 16) \div 2) \div 16) = UpTo((n + 1) \div 2, 8)
           /\ UpTo(n, 16) % 32 = 0 => UpTo(n, 16) = UpTo(n, 32)
           /\ UpTo(n, 16) % 32 # 0 => UpTo(n, 16) + 16 = UpTo(n, 32)
  <1> PICK a \in Nat, b \in 0 .. 15 : n = 16 * a + b
    <2>1. n = 16 * (n \div 16) + (n % 16) /\ n \div 16 \in Nat /\ n % 16 \in 0 .. 15
      OBVIOUS
    <2> QED
      BY <2>1
  <1>1. UpTo(n, 16) = (IF b = 0 THEN 16 * a ELSE 16 * a + 16)
    BY DEF UpTo
  <1>2. UpTo(n, 8) = (IF b = 0 THEN 16 * a ELSE IF b <= 8 THEN 16 * a + 8 ELSE 16 * a + 16)
    BY DEF UpTo
  <1>3. FillOf(TRUE, n) = (IF b \in 1 .. 8 THEN 1 ELSE 0)
    BY DEF FillOf, HalfFilled
  <1>4. 16 * (UpTo(n, 16) \div 16) = UpTo(n, 16)
    BY <1>1
  <1>5. 16 * (UpTo(n, 16) \div 16) - 8 * FillOf(TRUE, n) = UpTo(n, 8)
    <2> DEFINE v == UpTo(n, 16)
               e == UpTo(n, 8)
               d == FillOf(TRUE, n)
    <2>1. /\ v = (IF b = 0 THEN 16 * a ELSE 16 * a + 16)
          /\ e = (IF b = 0 THEN 16 * a ELSE IF b <= 8 THEN 16 * a + 8 ELSE 16 * a + 16)
          /\ d = (IF b \in 1 .. 8 THEN 1 ELSE 0)
          /\ 16 * (v \div 16) = v
      BY <1>1, <1>2, <1>3, <1>4, Zenon
    <2> HIDE DEF v, e, d
    <2>2. 16 * (v \div 16) - 8 * d = e
      BY <2>1
    <2> QED
      BY <2>2, Zenon DEF v, e, d
  <1> DEFINE u == UpTo(n, 16)
  <1>6. ASSUME u % 32 = 0
        PROVE  u = UpTo(n, 32) /\ 16 * ((u \div 2) \div 16) = UpTo((n + 1) \div 2, 8)
    <2>1. PICK c \in Nat : u = 32 * c
      BY <1>1, <1>6
    <2>2. n <= 32 * c /\ n + 16 > 32 * c
      BY <1>1, <2>1
    <2> HIDE DEF u
    <2>3. (n + 31) \div 32 = c
      BY <2>2
    <2>4. UpTo(n, 32) = 32 * c
      BY <2>3 DEF UpTo
    <2>5. (n + 1) \div 2 <= 16 * c /\ (n + 1) \div 2 > 16 * c - 8
      BY <2>2
    <2>6. (((n + 1) \div 2) + 7) \div 8 = 2 * c
      BY <2>5
    <2>7. UpTo((n + 1) \div 2, 8) = 16 * c
      BY <2>6 DEF UpTo
    <2>8. 16 * ((u \div 2) \div 16) = 16 * c
      BY <2>1
    <2> QED
      BY <2>1, <2>4, <2>7, <2>8
  <1>7. ASSUME u % 32 # 0 PROVE u + 16 = UpTo(n, 32)
    <2>1. PICK c \in Nat : u = 32 * c + 16
      BY <1>1, <1>7
    <2>2. n <= 32 * c + 16 /\ n > 32 * c
      BY <1>1, <2>1
    <2> HIDE DEF u
    <2>3. (n + 31) \div 32 = c + 1
      BY <2>2
    <2> QED
      BY <2>1, <2>3 DEF UpTo
  <1>8. (u \div 2) % 16 = 0 => u % 32 = 0
    BY <1>1
  <1> QED
    BY <1>4, <1>5, <1>6, <1>7, <1>8

\* The blocks of a whole picture.
LEMMA WholeBlocks ==
    ASSUME NEW f \in Formats, NEW n \in Nat
    PROVE  /\ 16 * (HdrWidth(f, n) \div 16) - 8 * FillOf(FillsRight(f), n) = UpTo(n, 8 * Hmax[f])
           /\ 16 * (HdrHeight(n) \div 16) - 8 * FillOf(FillsBottom(f), n) = UpTo(n, 8 * Vmax[f])
  <1> DEFINE v == UpTo(n, 16)
             d == IF HalfFilled(n) THEN 1 ELSE 0
  <1>1. v \in Nat /\ 16 * (v \div 16) = v /\ d \in {0, 1}
    BY UpTo16, HalfBlocks
  <1>2. 16 * (v \div 16) - 8 * d = UpTo(n, 8)
    BY HalfBlocks DEF FillOf
  <1>3. (v % 32 = 0 => v = UpTo(n, 32)) /\ (v % 32 # 0 => v + 16 = UpTo(n, 32))
    BY HalfBlocks
  <1>4. HdrWidth(f, n) = (IF f = "411" /\ v % 32 # 0 THEN v + 16 ELSE v)
    <2>1. Hmax[f] = 4 <=> f = "411"
      BY Maxima DEF Formats
    <2> QED
      BY <2>1 DEF HdrWidth
  <1>5. HdrHeight(n) = v
    BY DEF HdrHeight
  <1>6. FillOf(FillsRight(f), n) = (IF f \in {"400", "440", "444"} THEN d ELSE 0)
    BY DEF FillOf, FillsRight
  <1>7. FillOf(FillsBottom(f), n) = (IF f \in {"400", "422", "411", "444"} THEN d ELSE 0)
    BY DEF FillOf, FillsBottom
  <1> DEFINE a == FillOf(FillsRight(f), n)
             b == FillOf(FillsBottom(f), n)
             w == HdrWidth(f, n)
             h == HdrHeight(n)
  <1> HIDE DEF v, d, a, b, w, h
  <1>8. 16 * (w \div 16) - 8 * a = UpTo(n, 8 * Hmax[f])
    <2>1. CASE f \in {"400", "440", "444"}
      <3>1. 8 * Hmax[f] = 8
        BY <2>1, Maxima
      <3>2. w = v /\ a = d
        BY <1>4, <1>6, <2>1 DEF a, w
      <3> QED
        BY <1>2, <3>1, <3>2
    <2>2. CASE f \in {"420", "422"}
      <3>1. 8 * Hmax[f] = 16
        BY <2>2, Maxima
      <3>2. w = v /\ a = 0
        BY <1>4, <1>6, <2>2 DEF a, w
      <3>3. 16 * (w \div 16) - 8 * a = v
        BY <1>1, <3>2
      <3> QED
        BY <3>1, <3>3 DEF v
    <2>3. CASE f = "411"
      <3>1. 8 * Hmax[f] = 32
        BY <2>3, Maxima
      <3>2. w = (IF v % 32 # 0 THEN v + 16 ELSE v) /\ a = 0
        BY <1>4, <1>6, <2>3 DEF a, w
      <3>3. w = UpTo(n, 32)
        BY <1>3, <3>2
      <3>4. 16 * (w \div 16) = w
        BY <1>1, <3>2
      <3>5. w \in Nat
        BY <1>1, <3>2
      <3>6. 16 * (w \div 16) - 8 * a = w
        BY <3>2, <3>4, <3>5
      <3> QED
        BY <3>1, <3>3, <3>6
    <2> QED
      BY <2>1, <2>2, <2>3 DEF Formats
  <1>9. 16 * (h \div 16) - 8 * b = UpTo(n, 8 * Vmax[f])
    <2>0. h = v
      BY <1>5 DEF h
    <2>1. CASE f \in {"400", "422", "411", "444"}
      <3>1. 8 * Vmax[f] = 8
        BY <2>1, Maxima
      <3>2. b = d
        BY <1>7, <2>1 DEF b
      <3> QED
        BY <1>2, <2>0, <3>1, <3>2
    <2>2. CASE f \in {"420", "440"}
      <3>1. 8 * Vmax[f] = 16
        BY <2>2, Maxima
      <3>2. b = 0
        BY <1>7, <2>2 DEF b
      <3>3. 16 * (h \div 16) - 8 * b = v
        BY <1>1, <2>0, <3>2
      <3> QED
        BY <3>1, <3>3 DEF v
    <2> QED
      BY <2>1, <2>2 DEF Formats
  <1> QED
    BY <1>8, <1>9 DEF a, b, w, h

\* The blocks of one component: as many samples as the picture, or half of them.
LEMMA ScaledSamples ==
    ASSUME NEW n \in Nat
    PROVE  /\ ScaledUp(n, 1, 1) = n /\ ScaledUp(n, 2, 2) = n /\ ScaledUp(n, 1, 2) = (n + 1) \div 2
  BY DEF ScaledUp

LEMMA HalvedBlocks ==
    ASSUME NEW n \in Nat, Halved(UpTo(n, 16)) = 0
    PROVE  16 * (Half(UpTo(n, 16)) \div 16) = UpTo((n + 1) \div 2, 8)
  <1>1. (UpTo(n, 16) \div 2) % 16 = 0
    BY DEF Halved
  <1> QED
    BY <1>1, HalfBlocks DEF Half

\* For every set of pictures: the registers count the blocks of the scan.
THEOREM BlocksCountedThm == Spec => []BlocksCounted
  <1>1. ASSUME InfoInv, FrameInv, RegsInv PROVE BlocksCounted
    <2> SUFFICES ASSUME Scanning, Interleaved => ~left.fill
                 PROVE  /\ fillX = 0 => 16 * regs.w - 8 * regs.fillRight = CodedWidth
                        /\ fillY = 0 => 16 * regs.h - 8 * regs.fillBottom = CodedHeight
      BY DEF BlocksCounted
    <2> DEFINE f == imageInfo.fmt
    <2>1. /\ f \in Formats /\ pic.X \in Nat /\ pic.Y \in Nat
          /\ HdrWidth(f, pic.X) = imageInfo.w /\ HdrHeight(pic.Y) = imageInfo.h
      BY <1>1, SecondReading, PictureOf DEF Scanning, InfoInv
    <2>2. HeaderOf /\ RegsOf /\ hwX = imageInfo.w /\ hwY = imageInfo.h
      BY <1>1 DEF Scanning, FrameInv, Framed, InScan, RegsInv, Written, HeaderOf
    <2>3. /\ regs.w = X \div 16 /\ regs.h = Y \div 16
          /\ regs.fillRight = fillRight /\ regs.fillBottom = fillBottom
      BY <2>2 DEF RegsOf
    <2>4. CASE Interleaved
      <3>1. WholeOf
        BY <1>1, <2>4 DEF Scanning, FrameInv, InScan
      <3>2. /\ X = HdrWidth(f, pic.X) /\ Y = HdrHeight(pic.Y)
            /\ fillRight = FillOf(FillsRight(f), pic.X) /\ fillBottom = FillOf(FillsBottom(f), pic.Y)
        BY <2>1, <2>2, <2>4, <3>1 DEF WholeOf
      <3>3. 16 * regs.w - 8 * regs.fillRight = UpTo(pic.X, 8 * Hmax[f])
        BY <2>1, <2>3, <3>2, WholeBlocks
      <3>4. 16 * regs.h - 8 * regs.fillBottom = UpTo(pic.Y, 8 * Vmax[f])
        BY <2>1, <2>3, <3>2, WholeBlocks
      <3>5. CodedWidth = UpTo(pic.X, 8 * Hmax[f]) /\ CodedHeight = UpTo(pic.Y, 8 * Vmax[f])
        BY <2>4 DEF CodedWidth, CodedHeight
      <3> QED
        BY <3>3, <3>4, <3>5
    <2>5. CASE ~Interleaved
      <3> DEFINE c == Component
      <3>1. OneOf
        BY <1>1, <2>5 DEF Scanning, FrameInv, InScan, OneScan
      <3>2. f \in {"420", "422", "440"} /\ c \in 1 .. 3
        BY <3>1 DEF OneOf
      <3>3. hwX = UpTo(pic.X, 16) /\ hwY = UpTo(pic.Y, 16)
        <4>1. Hmax[f] # 4
          BY <3>2, Maxima
        <4> QED
          BY <2>1, <2>2, <4>1 DEF HdrWidth, HdrHeight
      <3>4. /\ CodedWidth = UpTo(ScaledUp(pic.X, Pattern[f][c][1], Hmax[f]), 8)
            /\ CodedHeight = UpTo(ScaledUp(pic.Y, Pattern[f][c][2], Vmax[f]), 8)
        BY <2>5 DEF CodedWidth, CodedHeight, Component
      <3>5. /\ Pattern[f][c][1] = (IF c = 1 THEN Hmax[f] ELSE 1)
            /\ Pattern[f][c][2] = (IF c = 1 THEN Vmax[f] ELSE 1)
        <4>1. CASE f = "420"
          BY <3>2, <4>1, Patterns, Maxima
        <4>2. CASE f = "422"
          BY <3>2, <4>2, Patterns, Maxima
        <4>3. CASE f = "440"
          BY <3>2, <4>3, Patterns, Maxima
        <4> QED
          BY <3>2, <4>1, <4>2, <4>3
      <3> HIDE DEF c
      <3>6. /\ Hmax[f] = (IF f = "440" THEN 1 ELSE 2) /\ Vmax[f] = (IF f = "422" THEN 1 ELSE 2)
        BY <3>2, Maxima
      <3>7. fillX = 0 => 16 * regs.w - 8 * regs.fillRight = CodedWidth
        <4>1. CASE c = 1 \/ f = "440"
          <5>1. X = hwX /\ fillRight = FillOf(TRUE, pic.X)
            BY <3>1, <4>1 DEF OneOf, c
          <5>2. CodedWidth = UpTo(pic.X, 8)
            <6>1. ScaledUp(pic.X, Pattern[f][c][1], Hmax[f]) = pic.X
              BY <2>1, <3>2, <3>5, <3>6, <4>1, ScaledSamples
            <6> QED
              BY <3>4, <6>1
          <5>3. 16 * regs.w - 8 * regs.fillRight = UpTo(pic.X, 8)
            BY <2>1, <2>3, <3>3, <5>1, HalfBlocks, Zenon
          <5> QED
            BY <5>2, <5>3
        <4>2. CASE ~(c = 1 \/ f = "440")
          <5>1. X = Half(hwX) /\ fillX = Halved(hwX) /\ fillRight = 0
            BY <3>1, <4>2 DEF OneOf, c
          <5>2. CodedWidth = UpTo((pic.X + 1) \div 2, 8)
            <6>1. ScaledUp(pic.X, Pattern[f][c][1], Hmax[f]) = (pic.X + 1) \div 2
              BY <2>1, <3>2, <3>5, <3>6, <4>2, ScaledSamples
            <6> QED
              BY <3>4, <6>1
          <5>3. fillX = 0 => 16 * regs.w = UpTo((pic.X + 1) \div 2, 8)
            BY <2>1, <2>3, <3>3, <5>1, HalvedBlocks, Zenon
          <5>4. fillX = 0 => regs.w \in Int
            <6> DEFINE u == UpTo(pic.X, 16)
            <6>1. u \in Nat /\ X = Half(u)
              BY <2>1, <3>3, <5>1, UpTo16
            <6> HIDE DEF u
            <6> QED
              BY <2>3, <6>1 DEF Half
          <5> QED
            BY <2>3, <5>1, <5>2, <5>3, <5>4
        <4> QED
          BY <4>1, <4>2
      <3>8. fillY = 0 => 16 * regs.h - 8 * regs.fillBottom = CodedHeight
        <4>1. CASE c = 1 \/ f = "422"
          <5>1. Y = hwY /\ fillBottom = FillOf(TRUE, pic.Y)
            BY <3>1, <4>1 DEF OneOf, c
          <5>2. CodedHeight = UpTo(pic.Y, 8)
            <6>1. ScaledUp(pic.Y, Pattern[f][c][2], Vmax[f]) = pic.Y
              BY <2>1, <3>2, <3>5, <3>6, <4>1, ScaledSamples
            <6> QED
              BY <3>4, <6>1
          <5>3. 16 * regs.h - 8 * regs.fillBottom = UpTo(pic.Y, 8)
            BY <2>1, <2>3, <3>3, <5>1, HalfBlocks, Zenon
          <5> QED
            BY <5>2, <5>3
        <4>2. CASE ~(c = 1 \/ f = "422")
          <5>1. Y = Half(hwY) /\ fillY = Halved(hwY) /\ fillBottom = 0
            BY <3>1, <4>2 DEF OneOf, c
          <5>2. CodedHeight = UpTo((pic.Y + 1) \div 2, 8)
            <6>1. ScaledUp(pic.Y, Pattern[f][c][2], Vmax[f]) = (pic.Y + 1) \div 2
              BY <2>1, <3>2, <3>5, <3>6, <4>2, ScaledSamples
            <6> QED
              BY <3>4, <6>1
          <5>3. fillY = 0 => 16 * regs.h = UpTo((pic.Y + 1) \div 2, 8)
            BY <2>1, <2>3, <3>3, <5>1, HalvedBlocks, Zenon
          <5>4. regs.h \in Int
            <6> DEFINE u == UpTo(pic.Y, 16)
            <6>1. u \in Nat /\ Y = Half(u)
              BY <2>1, <3>3, <5>1, UpTo16
            <6> HIDE DEF u
            <6> QED
              BY <2>3, <6>1 DEF Half
          <5> QED
            BY <2>3, <5>1, <5>2, <5>3, <5>4
        <4> QED
          BY <4>1, <4>2
      <3> QED
        BY <3>7, <3>8
    <2> QED
      BY <2>4, <2>5
  <1> QED
    BY <1>1, AlwaysInfo, AlwaysFrame, AlwaysRegs, PTL

\* For every set of pictures: the restart interval of the hardware is the one
\* the stream defined last, and none if it defines none, unless an earlier
\* picture had one.
THEOREM OwnRestartThm == Spec => []OwnRestart
  <1>1. ASSUME InfoInv, FrameInv, RegsInv PROVE OwnRestart
    <2> SUFFICES ASSUME Scanning
                 PROVE  IF DRIRead THEN regs.restart = pic.segs[LastDRI(pos)].n
                        ELSE left.Ri \/ regs.restart = 0
      BY DEF OwnRestart, DRIRead
    <2>1. RiOf /\ regs.restart = Ri /\ pos \in Nat
      BY <1>1 DEF Scanning, RegsInv, Written, RegsOf, FrameInv, Places
    <2>2. CASE DRIRead
      <3>1. PICK i \in 1 .. pos - 1 : IsLastDRI(i) /\ Ri = pic.segs[i].n
        BY <2>1, <2>2 DEF RiOf
      <3>2. ASSUME NEW j \in 1 .. pos - 1, IsLastDRI(j) PROVE j = i
        BY <2>1, <3>1, <3>2 DEF IsLastDRI
      <3>3. LastDRI(pos) = CHOOSE j \in 1 .. pos - 1 : IsLastDRI(j)
        BY DEF LastDRI, IsLastDRI
      <3> HIDE DEF IsLastDRI
      <3>4. (CHOOSE j \in 1 .. pos - 1 : IsLastDRI(j)) = i
        BY <3>1, <3>2
      <3> QED
        BY <2>1, <2>2, <3>1, <3>3, <3>4
    <2>3. CASE ~DRIRead
      BY <2>1, <2>3 DEF RiOf, Scanning
    <2> QED
      BY <2>2, <2>3
  <1> QED
    BY <1>1, AlwaysInfo, AlwaysFrame, AlwaysRegs, PTL

(***************************************************************************)
(* Types.                                                                  *)
(***************************************************************************)

\* A set of numbers up to n that is not empty has a largest one.
LEMMA Largest ==
    ASSUME NEW n \in Nat, NEW D, D \subseteq 1 .. n, D # {}
    PROVE  \E i \in D : \A j \in D : j <= i
  <1> DEFINE T == {k \in Nat : n - k \in D}
             R == OpToRel(<, Nat)
  <1>1. T \subseteq Nat /\ T # {}
    <2> PICK d \in D : TRUE
      OBVIOUS
    <2>1. n - d \in Nat /\ n - (n - d) = d
      OBVIOUS
    <2> QED
      BY <2>1
  <1>2. IsWellFoundedOn(R, Nat)
    BY NatLessThanWellFounded
  <1>3. \A k, l \in Nat : <<l, k>> \in R <=> l < k
    BY DEF OpToRel
  <1> HIDE DEF R, T
  <1>4. PICK k \in T : \A l \in T : ~ (<<l, k>> \in R)
    BY <1>1, <1>2, WFMin
  <1>5. n - k \in D /\ k \in Nat
    BY <1>1, <1>4 DEF T
  <1>6. ASSUME NEW j \in D PROVE j <= n - k
    <2>1. j \in 1 .. n /\ n - j \in Nat /\ n - (n - j) = j
      OBVIOUS
    <2>2. n - j \in T
      BY <2>1 DEF T
    <2>3. ~(n - j < k)
      BY <1>1, <1>3, <1>4, <2>2
    <2> QED
      BY <1>5, <2>1, <2>3
  <1> QED
    BY <1>5, <1>6

\* A restart interval of a stream is a number.
LEMMA Interval ==
    ASSUME pic \in Pictures, Ri \in Nat, NEW n \in Int, n <= Len(pic.segs) PROVE RiBefore(n) \in Nat
  <1>1. CASE ~\E i \in 1 .. n - 1 : pic.segs[i].m = "DRI"
    BY <1>1 DEF RiBefore
  <1>2. CASE \E i \in 1 .. n - 1 : pic.segs[i].m = "DRI"
    <2> DEFINE D == {i \in 1 .. n - 1 : pic.segs[i].m = "DRI"}
               P(i) == pic.segs[i].m = "DRI" /\ \A j \in i + 1 .. n - 1 : pic.segs[j].m # "DRI"
    <2>1. n - 1 \in Nat /\ D \subseteq 1 .. (n - 1) /\ D # {}
      BY <1>2
    <2>2. \E i \in D : \A j \in D : j <= i
      <3> HIDE DEF D
      <3> QED
        BY <2>1, Largest
    <2>3. \E i \in 1 .. n - 1 : P(i)
      BY <2>2
    <2> HIDE DEF P, D
    <2>4. (CHOOSE i \in 1 .. n - 1 : P(i)) \in 1 .. n - 1 /\ P(CHOOSE i \in 1 .. n - 1 : P(i))
      BY <2>3
    <2>5. LastDRI(n) \in 1 .. n - 1 /\ pic.segs[LastDRI(n)].m = "DRI"
      BY <2>4 DEF P, LastDRI
    <2>6. pic.segs[LastDRI(n)] \in Segment
      <3>1. Len(pic.segs) \in Nat /\ LastDRI(n) \in 1 .. Len(pic.segs)
        BY <2>5, PictureOf
      <3> QED
        BY <3>1, Segments
    <2>7. pic.segs[LastDRI(n)].n \in Nat
      <3> DEFINE g == pic.segs[LastDRI(n)]
      <3>1. g \in Segment /\ g.m = "DRI"
        BY <2>5, <2>6
      <3> HIDE DEF g
      <3>2. g \in [m : {"DRI"}, n : Word]
        BY <3>1 DEF Segment
      <3>3. g.n \in Nat
        BY <3>2, Words
      <3> QED
        BY <3>3 DEF g
    <2> QED
      BY <1>2, <2>7 DEF RiBefore
  <1> QED
    BY <1>1, <1>2

TypeA == /\ pc \in {"idle", "info", "prepare", "enter", "read", "next", "start", "hw", "again"}
         /\ pic \in Pictures /\ pics \in 0 .. MaxPics /\ colorConv \in ColorConvs
TypeB == /\ imageInfo \in [w : Nat, h : Nat, fmt : Formats] /\ sliceMbSet \in Nat /\ picSize \in Nat
         /\ yCbCrMode \in Formats /\ yCbCrModeOrig \in Formats
TypeC == hwX \in Nat /\ hwY \in Nat /\ Ri \in Nat /\ X \in Nat /\ Y \in Nat
TypeD == /\ fillRight \in 0 .. 1 /\ fillBottom \in 0 .. 1 /\ fillX \in 0 .. 1 /\ fillY \in 0 .. 1
         /\ operationType \in {"BASELINE", "NONINTERLEAVED"}
TypeE == /\ componentId \in 1 .. 3 /\ amountOfQTables \in {0, 1, 3}
         /\ SliceCount \in Nat /\ sliceHeight \in 0 .. 255 /\ SliceReadyForPause \in BOOLEAN
TypeF == /\ Td \in [1 .. 3 -> TableIds] /\ Ta \in [1 .. 3 -> TableIds]
         /\ quant \in [0 .. 3 -> Table] /\ vlc \in [Classes -> [TableIds -> Table]]
         /\ findhufftable \in BOOLEAN
TypeG == /\ tabs \in [q : [1 .. 3 -> Table], ac : [1 .. 2 -> Table], dc : [1 .. 2 -> Table],
                      cut : BOOLEAN]
         /\ regs.acBits \in [1 .. 2 -> Table] /\ regs.dcBits \in [1 .. 2 -> Table]
TypeInv == TypeA /\ TypeB /\ TypeC /\ TypeD /\ TypeE /\ TypeF /\ TypeG

LEMMA InitType == Init => TypeInv
  <1> SUFFICES ASSUME Init PROVE TypeInv
    OBVIOUS
  <1>1. TypeA
    BY JpegHeadersAssumption DEF Init, TypeA, JpegHeadersAssumption
  <1>2. TypeB /\ TypeC /\ TypeD
    BY DEF Init, TypeB, TypeC, TypeD, Formats
  <1>3. TypeE
    <2>1. SliceReadyForPause \in BOOLEAN
      BY Zenon DEF Init
    <2>2. sliceHeight \in 0 .. 255 /\ SliceCount \in Nat
      BY DEF Init
    <2>3. componentId \in 1 .. 3 /\ amountOfQTables \in {0, 1, 3}
      BY DEF Init
    <2> QED
      BY <2>1, <2>2, <2>3, Zenon DEF TypeE
  <1>4. TypeF
    <2>1. Td \in [1 .. 3 -> TableIds] /\ Ta \in [1 .. 3 -> TableIds]
      BY DEF Init, TableIds
    <2>2. quant \in [0 .. 3 -> Table] /\ vlc \in [Classes -> [TableIds -> Table]]
      <3> "none" \in Table
        BY DEF Table
      <3> QED
        BY DEF Init
    <2>3. findhufftable \in BOOLEAN
      BY Zenon DEF Init
    <2> QED
      BY <2>1, <2>2, <2>3, Zenon DEF TypeF
  <1>5. TypeG
    BY DEF Init, TypeG, NoTabs, NoRegs, Table
  <1> QED
    BY <1>1, <1>2, <1>3, <1>4, <1>5 DEF TypeInv

LEMMA StepTypeA == InfoInv /\ TypeA /\ [Next]_vars => TypeA'
  <1> SUFFICES ASSUME InfoInv, TypeA, [Next]_vars PROVE TypeA'
    OBVIOUS
  <1>0. pic' \in Pictures
    BY StepInfo DEF InfoInv
  <1>1. colorConv' \in ColorConvs /\ pics' \in 0 .. MaxPics
    <2>1. ASSUME NEW p \in Pictures, Submit(p) PROVE colorConv' = colorConv /\ pics' \in 0 .. MaxPics
      BY <2>1, JpegHeadersAssumption DEF Submit, caller, TypeA, JpegHeadersAssumption
    <2>2. CASE ~\E p \in Pictures : Submit(p)
      BY <2>2 DEF Next, GetImageInfo, InfoUnsupported, Prepare, Enter, ReadDQT, ReadDHT, ReadDRI,
         ReadSOF, ReadSOS, ReadEOI, StartHW, SliceReady, Resume, BaselineDone, ScanDone, HwFails, vars,
         caller, input, TypeA
    <2> QED
      BY <2>1, <2>2 DEF TypeA
  <1>2. pc' \in {"idle", "info", "prepare", "enter", "read", "next", "start", "hw", "again"}
    BY DEF Next, Submit, GetImageInfo, InfoUnsupported, Prepare, Enter, ReadDQT, ReadDHT, ReadDRI,
       ReadSOF, ReadSOS, ReadEOI, InLoop, StartHW, SliceReady, Resume, BaselineDone, ScanDone, HwFails,
       vars, TypeA
  <1> QED
    BY <1>0, <1>1, <1>2 DEF TypeA

\* The sizes computed from the image information.
LEMMA SizesNat ==
    ASSUME NEW f \in Formats, NEW w \in Nat, NEW h \in Nat
    PROVE  FrameConverted(w, h) \in Nat /\ FrameOriginal(f, w, h) \in Nat
  <1>1. /\ UpTo(w, 16) \in Nat /\ UpTo(h, 16) \in Nat /\ UpTo(w, 8) \in Nat /\ UpTo(h, 2) \in Nat
    BY DEF UpTo
  <1>2. FrameWidth(w) \in Nat /\ FrameHeight(w, h) \in Nat
    BY <1>1 DEF FrameWidth, FrameHeight
  <1>3. FrameConverted(w, h) \in Nat
    <2> DEFINE a == FrameWidth(w)
               b == FrameHeight(w, h)
    <2> HIDE DEF a, b
    <2>1. a * b * 2 \in Nat
      BY <1>2 DEF a, b
    <2> QED
      BY <2>1 DEF FrameConverted, a, b
  <1> DEFINE n == UpTo(w, 16) * UpTo(h, 16)
  <1>4. n \in Nat
    BY <1>1
  <1>5. FrameOriginal(f, w, h) = CASE f = "400" -> n
                                   [] f = "420" -> (n * 3) \div 2
                                   [] f \in {"422", "440", "411"} -> n * 2
                                   [] f = "444" -> n * 3
    BY DEF FrameOriginal
  <1> HIDE DEF n
  <1>6. n * 2 \in Nat /\ n * 3 \in Nat /\ (n * 3) \div 2 \in Nat
    BY <1>4
  <1>7. FrameOriginal(f, w, h) \in Nat
    BY <1>4, <1>5, <1>6 DEF Formats
  <1> QED
    BY <1>3, <1>7

LEMMA StepTypeB == InfoInv /\ FrameInv /\ TypeB /\ [Next]_vars => TypeB'
  <1> SUFFICES ASSUME InfoInv, FrameInv, TypeB, [Next]_vars PROVE TypeB'
    OBVIOUS
  <1>1. CASE GetImageInfo
    <2>1. /\ InfoFormat(pic.sam) \in Formats /\ InfoWidth(pic.sam, pic.X) \in Nat
          /\ InfoHeight(pic.Y) \in Nat
      <3>1. InfoAccepts(pic.sam, pic.X, pic.Y) /\ pic.X \in Nat /\ pic.Y \in Nat
        BY <1>1, PictureOf DEF GetImageInfo, InfoInv
      <3> QED
        BY <3>1, InfoAccepted, InfoSize
    <2> QED
      BY <1>1, <2>1 DEF GetImageInfo, TypeB
  <1>2. CASE Prepare
    <2>1. /\ imageInfo.fmt \in Formats /\ imageInfo.w \in Nat /\ imageInfo.h \in Nat
      BY DEF TypeB
    <2>2. FrameSliceMbSet(imageInfo.fmt, imageInfo.w, imageInfo.h) \in Nat
      <3>1. /\ InfoAccepts(pic.sam, pic.X, pic.Y) /\ pic.X \in Nat /\ pic.Y \in Nat
            /\ imageInfo.w = InfoWidth(pic.sam, pic.X) /\ imageInfo.h = InfoHeight(pic.Y)
            /\ imageInfo.fmt = InfoFormat(pic.sam)
        BY <1>2, PictureOf DEF Prepare, InfoInv, Accepted
      <3> QED
        BY <3>1, SlicesPass
    <2>3. /\ FrameConverted(imageInfo.w, imageInfo.h) \in Nat
          /\ FrameOriginal(imageInfo.fmt, imageInfo.w, imageInfo.h) \in Nat
      BY <2>1, SizesNat
    <2> QED
      BY <1>2, <2>2, <2>3 DEF Prepare, TypeB
  <1>3. CASE ReadSOF
    <2>1. HdrFormat(pic.sam) \in Formats
      BY <1>3, SecondReading DEF ReadSOF
    <2> QED
      BY <1>3, <2>1 DEF ReadSOF, DecodeFrameHdr, caller, TypeB
  <1>4. CASE ReadSOS
    BY <1>4 DEF ReadSOS, ScanOfOne, ScanOfAll, caller, TypeB, Formats
  <1>5. CASE ~(GetImageInfo \/ Prepare \/ ReadSOF \/ ReadSOS)
    <2>1. UNCHANGED <<imageInfo, sliceMbSet, picSize, yCbCrMode, yCbCrModeOrig>>
      BY <1>5 DEF Next, Submit, InfoUnsupported, Enter, ReadDQT, ReadDHT, ReadDRI,
         ReadEOI, StartHW, SliceReady, Resume, BaselineDone, ScanDone, HwFails, vars, caller
    <2> QED
      BY <2>1 DEF TypeB
  <1> QED
    BY <1>1, <1>2, <1>3, <1>4, <1>5

\* The first scan, and the frame header, of a picture that is well formed.
LEMMA FirstOnes ==
    ASSUME pic \in Pictures
    PROVE  FirstScan \in 1 .. Len(pic.segs) /\ FrameHdr \in 1 .. Len(pic.segs)
  <1>1. Len(pic.segs) \in Nat /\ WellFormed(pic)
    BY PictureOf
  <1>2. PICK i \in 1 .. Len(pic.segs) : pic.segs[i].m = "SOS"
    BY <1>1 DEF WellFormed
  <1> DEFINE n == Len(pic.segs)
             P(j) == pic.segs[j].m = "SOS" /\ \A k \in 1 .. j - 1 : pic.segs[k].m # "SOS"
             D == {k \in 1 .. n : pic.segs[n + 1 - k].m = "SOS"}
  <1>3. D \subseteq 1 .. n /\ D # {}
    <2>1. n + 1 - i \in 1 .. n /\ n + 1 - (n + 1 - i) = i
      BY <1>1
    <2>2. n + 1 - i \in D
      BY <1>2, <2>1
    <2> QED
      BY <2>2
  <1>4. PICK k \in D : \A l \in D : l <= k
    <2> HIDE DEF D, n
    <2>1. n \in Nat
      BY <1>1 DEF n
    <2> QED
      BY <1>3, <2>1, Largest
  <1>5. n + 1 - k \in 1 .. n /\ P(n + 1 - k)
    <2>1. k \in 1 .. n /\ pic.segs[n + 1 - k].m = "SOS"
      BY <1>4
    <2>2. ASSUME NEW j \in 1 .. (n + 1 - k) - 1 PROVE pic.segs[j].m # "SOS"
      <3>1. n + 1 - j \in 1 .. n /\ n + 1 - (n + 1 - j) = j /\ ~(n + 1 - j <= k)
        BY <1>1, <2>1, <2>2
      <3> QED
        BY <1>4, <3>1
    <2> QED
      BY <1>1, <2>1, <2>2
  <1>6. FirstScan \in 1 .. n
    <2> HIDE DEF P, n
    <2>1. (CHOOSE j \in 1 .. n : P(j)) \in 1 .. n
      BY <1>5
    <2> QED
      BY <2>1 DEF FirstScan, P, n
  <1>7. \E j \in 1 .. n : pic.segs[j].m = "SOF"
    <2>1. \E j \in 1 .. i - 1 : pic.segs[j].m = "SOF"
      BY <1>2, Segments
    <2> QED
      BY <1>1, <2>1
  <1>8. FrameHdr \in 1 .. n
    BY <1>7 DEF FrameHdr
  <1> QED
    BY <1>6, <1>8

LEMMA StepTypeC == InfoInv /\ FrameInv /\ TypeC /\ [Next]_vars => TypeC'
  <1> SUFFICES ASSUME InfoInv, FrameInv, TypeC, [Next]_vars PROVE TypeC'
    OBVIOUS
  <1>0. /\ pic \in Pictures /\ pic.X \in Nat /\ pic.Y \in Nat
        /\ UpTo(pic.X, 16) \in Nat /\ UpTo(pic.Y, 16) \in Nat
    BY PictureOf, UpTo16 DEF InfoInv
  <1>1. CASE GetImageInfo
    <2>1. InfoWidth(pic.sam, pic.X) \in Nat /\ InfoHeight(pic.Y) \in Nat
      BY <1>0 DEF InfoWidth, InfoHeight
    <2>2. RiBefore(FirstScan) \in Nat
      BY <1>0, FirstOnes, Interval, PictureOf DEF TypeC
    <2> QED
      BY <1>1, <2>1, <2>2 DEF GetImageInfo, TypeC
  <1>2. CASE InfoUnsupported
    <2>1. InfoWidth(pic.sam, pic.X) \in Nat /\ InfoHeight(pic.Y) \in Nat
      BY <1>0 DEF InfoWidth, InfoHeight
    <2>2. RiBefore(FrameHdr) \in Nat
      BY <1>0, FirstOnes, Interval, PictureOf DEF TypeC
    <2> QED
      BY <1>0, <1>2, <2>1, <2>2 DEF InfoUnsupported, TypeC
  <1>3. CASE ReadDRI
    <2> DEFINE g == Seg
    <2>1. g \in Segment /\ g.m = "DRI"
      BY <1>0, <1>3, Segments DEF ReadDRI, Seg, FrameInv, Places
    <2> HIDE DEF g
    <2>2. g \in [m : {"DRI"}, n : Word]
      BY <2>1 DEF Segment
    <2>3. g.n \in Nat
      BY <2>2, Words
    <2> QED
      BY <1>3, <2>3 DEF ReadDRI, TypeC, g
  <1>4. CASE ReadSOF
    <2>1. HdrWidth(HdrFormat(pic.sam), pic.X) \in Nat /\ HdrHeight(pic.Y) \in Nat
      BY <1>0 DEF HdrWidth, HdrHeight
    <2> QED
      BY <1>4, <2>1 DEF ReadSOF, DecodeFrameHdr, TypeC
  <1>5. CASE ReadSOS
    <2>1. hwX \div 2 \in Nat /\ hwY \div 2 \in Nat
      BY DEF TypeC
    <2> QED
      BY <1>5, <2>1 DEF ReadSOS, ScanOfOne, ScanOfAll, TypeC
  <1>6. CASE ~(GetImageInfo \/ InfoUnsupported \/ ReadDRI \/ ReadSOF \/ ReadSOS)
    <2>1. UNCHANGED <<hwX, hwY, Ri, X, Y>>
      BY <1>6 DEF Next, Submit, Prepare, Enter, ReadDQT, ReadDHT,
         ReadEOI, StartHW, SliceReady, Resume, BaselineDone, ScanDone, HwFails, vars
    <2> QED
      BY <2>1 DEF TypeC
  <1> QED
    BY <1>1, <1>2, <1>3, <1>4, <1>5, <1>6

LEMMA StepTypeD == FrameInv /\ InfoInv /\ TypeD /\ [Next]_vars => TypeD'
  <1> SUFFICES ASSUME FrameInv, InfoInv, TypeD, [Next]_vars PROVE TypeD'
    OBVIOUS
  <1>1. CASE GetImageInfo \/ InfoUnsupported \/ ReadSOF
    BY <1>1 DEF GetImageInfo, InfoUnsupported, ReadSOF, DecodeFrameHdr, fills, TypeD
  <1>2. CASE ReadSOS
    BY <1>2 DEF ReadSOS, ScanOfOne, ScanOfAll, TypeD
  <1>3. CASE ~(GetImageInfo \/ InfoUnsupported \/ ReadSOF \/ ReadSOS)
    <2>1. UNCHANGED <<fillRight, fillBottom, fillX, fillY, operationType>>
      BY <1>3 DEF Next, Submit, Prepare, Enter, ReadDQT, ReadDHT, ReadDRI,
         ReadEOI, StartHW, SliceReady, Resume, BaselineDone, ScanDone, HwFails, vars, fills
    <2> QED
      BY <2>1 DEF TypeD
  <1> QED
    BY <1>1, <1>2, <1>3

\* A slice has few rows of macroblocks, for its picture is wide.
LEMMA FewRows ==
    ASSUME InfoInv, pc \notin {"idle", "info", "prepare"}
    PROVE  sliceMbSet \in 0 .. 130
  <1> DEFINE f == imageInfo.fmt
             w == imageInfo.w
             h == imageInfo.h
             s == FrameSliceMbSet(f, w, h)
             row == FrameMcuInRow(f, w) \div McuSizeDivider(f)
  <1>1. /\ InfoAccepts(pic.sam, pic.X, pic.Y) /\ pic.X \in Nat /\ pic.Y \in Nat
        /\ w = InfoWidth(pic.sam, pic.X) /\ h = InfoHeight(pic.Y) /\ f = InfoFormat(pic.sam)
        /\ sliceMbSet = s
    BY PictureOf DEF InfoInv, Accepted, Prepared
  <1>2. /\ s \in Nat /\ row \in Nat /\ (s # 0 => w * h > MaxPixelsAtOnce)
        /\ s # 0 => s * row < MaxSliceSize
    BY <1>1, SlicesPass, Zenon
  <1>3. w \in Nat /\ h \in Nat /\ h <= MaxHeight /\ w <= MaxWidth /\ f \in Formats
    BY <1>1, InfoSize, InfoAccepted
  <1> HIDE DEF f, w, h, s
  <1>4. CASE s # 0
    <2>1. w > 2000
      <3>1. w <= 2000 => w * h <= 2000 * h
        BY <1>3
      <3>2. w * h > MaxPixelsAtOnce /\ w * h \in Nat
        BY <1>2, <1>3, <1>4
      <3> DEFINE n == w * h
      <3> HIDE DEF n
      <3>3. n \in Nat /\ n > 16370688 /\ (w <= 2000 => n <= 2000 * h) /\ h <= 8176
        BY <1>3, <3>1, <3>2 DEF n, MaxPixelsAtOnce, MaxHeight
      <3> QED
        BY <1>3, <3>3
    <2>2. row >= 62
      <3>1. CASE f \in {"400", "444", "440"}
        <4>1. row = (w \div 8) \div 2
          BY <3>1 DEF FrameMcuInRow, McuSizeDivider
        <4> HIDE DEF row
        <4> QED
          BY <1>3, <2>1, <4>1
      <3>2. CASE f \in {"420", "422"}
        <4>1. row = (w \div 16) \div 1
          BY <3>2 DEF FrameMcuInRow, McuSizeDivider
        <4> HIDE DEF row
        <4> QED
          BY <1>3, <2>1, <4>1
      <3>3. CASE f = "411"
        <4>1. row = (w \div 32) \div 1
          BY <3>3 DEF FrameMcuInRow, McuSizeDivider
        <4> HIDE DEF row
        <4> QED
          BY <1>3, <2>1, <4>1
      <3> QED
        BY <1>3, <3>1, <3>2, <3>3 DEF Formats
    <2> HIDE DEF row
    <2>3. s * 62 <= s * row /\ s * row \in Nat /\ s * row < MaxSliceSize
      BY <1>2, <1>4, <2>2
    <2> DEFINE p == s * row
    <2> HIDE DEF p
    <2>4. s * 62 <= p /\ p \in Nat /\ p < 8100
      BY <2>3 DEF p, MaxSliceSize
    <2>5. s <= 130
      BY <1>2, <2>4
    <2> QED
      BY <1>1, <1>2, <2>5
  <1> QED
    BY <1>1, <1>2, <1>4

LEMMA StepTypeE == InfoInv /\ FrameInv /\ TypeC /\ TypeE /\ [Next]_vars => TypeE'
  <1> SUFFICES ASSUME InfoInv, FrameInv, TypeC, TypeE, [Next]_vars PROVE TypeE'
    OBVIOUS
  <1> DEFINE A == componentId \in 1 .. 3 /\ amountOfQTables \in {0, 1, 3}
             B == SliceCount \in Nat /\ SliceReadyForPause \in BOOLEAN
             C == sliceHeight \in 0 .. 255
  <1>1. A /\ B /\ C
    BY DEF TypeE
  <1>2. A'
    <2>1. CASE ReadSOS
      <3>1. Seg.comps \in Seq(1 .. 3) /\ Len(Seg.comps) \in Nat /\ pic \in Pictures
        <4>1. pic \in Pictures /\ pos \in 1 .. Len(pic.segs) /\ pic.segs[pos].m = "SOS" /\ Seg = pic.segs[pos]
          BY <2>1 DEF ReadSOS, Seg, FrameInv, Places, InfoInv
        <4>2. Seg.comps \in Seq(1 .. 3)
          BY <4>1, Segments
        <4> QED
          BY <4>1, <4>2
      <3>2. CASE Len(Seg.comps) = 1 /\ Len(pic.sam) = 3
        <4>1. Seg.comps[1] \in 1 .. 3
          BY <3>1, <3>2
        <4> QED
          BY <2>1, <3>2, <4>1 DEF ReadSOS, ScanOfOne
      <3>3. CASE ~(Len(Seg.comps) = 1 /\ Len(pic.sam) = 3)
        BY <1>1, <2>1, <3>3 DEF ReadSOS, ScanOfAll
      <3> QED
        BY <3>2, <3>3
    <2>2. CASE ~ReadSOS
      <3>1. UNCHANGED <<componentId, amountOfQTables>>
        BY <2>2 DEF Next, Submit, GetImageInfo, InfoUnsupported, Prepare, Enter, ReadDQT, ReadDHT,
           ReadDRI, ReadSOF, ReadEOI, StartHW, SliceReady, Resume, BaselineDone, ScanDone, HwFails,
           vars, scan
      <3> QED
        BY <1>1, <3>1
    <2> QED
      BY <2>1, <2>2
  <1>3. B'
    <2>1. CASE StartHW \/ SliceReady \/ ScanDone
      <3>1. SliceCount' \in Nat
        BY <1>1, <2>1 DEF StartHW, SliceReady, ScanDone
      <3>2. SliceReadyForPause' \in BOOLEAN
        BY <1>1, <2>1, Zenon DEF StartHW, SliceReady, ScanDone
      <3> QED
        BY <3>1, <3>2, Zenon
    <2>2. CASE ~(StartHW \/ SliceReady \/ ScanDone)
      <3>1. UNCHANGED <<SliceCount, SliceReadyForPause>>
        BY <2>2 DEF Next, Submit, GetImageInfo, InfoUnsupported, Prepare, Enter, ReadDQT, ReadDHT,
           ReadDRI, ReadSOF, ReadSOS, ReadEOI, Resume, BaselineDone, HwFails, vars, slices
      <3> QED
        BY <1>1, <3>1
    <2> QED
      BY <2>1, <2>2
  <1>4. C'
    <2>1. CASE StartHW
      <3>1. sliceMbSet \in 0 .. 130
        BY <2>1, FewRows DEF StartHW
      <3>2. SliceSizeCalculation \in 0 .. 255
        <4>1. ((Y \div 16) - SliceCount * sliceHeight) \in Int
          BY <1>1 DEF TypeC
        <4>2. ((Y \div 16) - SliceCount * sliceHeight) % 256 \in 0 .. 255
          <5> DEFINE n == (Y \div 16) - SliceCount * sliceHeight
          <5> HIDE DEF n
          <5>1. n \in Int
            BY <4>1 DEF n
          <5>2. n % 256 \in 0 .. 255
            BY <5>1
          <5> QED
            BY <5>2 DEF n
        <4>3. sliceMbSet \in 0 .. 255
          BY <3>1
        <4> QED
          BY <4>2, <4>3 DEF SliceSizeCalculation
      <3> QED
        BY <1>1, <2>1, <3>2, Zenon DEF StartHW
    <2>2. CASE ~StartHW
      <3>1. sliceHeight' = sliceHeight
        BY <2>2 DEF Next, Submit, GetImageInfo, InfoUnsupported, Prepare, Enter, ReadDQT, ReadDHT,
           ReadDRI, ReadSOF, ReadSOS, ReadEOI, SliceReady, Resume, BaselineDone, ScanDone, HwFails,
           vars, slices
      <3> QED
        BY <1>1, <3>1
    <2> QED
      BY <2>1, <2>2
  <1> QED
    BY <1>2, <1>3, <1>4, Zenon DEF TypeE

\* The choice of tables of a scan.
LEMMA SelectsType ==
    ASSUME NEW old \in [1 .. 3 -> TableIds], NEW comps \in Seq(1 .. 3), NEW new \in Seq(TableIds),
           Len(new) = Len(comps)
    PROVE  Selects(old, comps, new) \in [1 .. 3 -> TableIds]
  <1> SUFFICES ASSUME NEW c \in 1 .. 3, \E i \in 1 .. Len(comps) : comps[i] = c
               PROVE  new[CHOOSE i \in 1 .. Len(comps) : comps[i] = c] \in TableIds
    BY DEF Selects
  <1>1. (CHOOSE i \in 1 .. Len(comps) : comps[i] = c) \in 1 .. Len(new)
    OBVIOUS
  <1> QED
    BY <1>1

\* A table of a stream.
LEMMA SegTables ==
    ASSUME NEW g \in Segment
    PROVE  /\ g.m = "DQT" => g.id \in 0 .. 3 /\ g.v \in Values
           /\ g.m = "DHT" => g.cl \in Classes /\ g.id \in TableIds /\ g.v \in Values
  <1>1. ASSUME g.m = "DQT" PROVE g \in [m : {"DQT"}, id : 0 .. 3, v : Values]
    BY <1>1 DEF Segment
  <1>2. ASSUME g.m = "DHT" PROVE g \in [m : {"DHT"}, cl : Classes, id : TableIds, v : Values]
    BY <1>2 DEF Segment
  <1> QED
    BY <1>1, <1>2

LEMMA StepTypeF == InfoInv /\ FrameInv /\ TypeF /\ [Next]_vars => TypeF'
  <1> SUFFICES ASSUME InfoInv, FrameInv, TypeF, [Next]_vars PROVE TypeF'
    OBVIOUS
  <1> DEFINE A == Td \in [1 .. 3 -> TableIds] /\ Ta \in [1 .. 3 -> TableIds]
             B == quant \in [0 .. 3 -> Table] /\ vlc \in [Classes -> [TableIds -> Table]]
             C == findhufftable \in BOOLEAN
  <1>1. A /\ B /\ C /\ pic \in Pictures /\ pos \in 1 .. Len(pic.segs)
    BY DEF TypeF, InfoInv, FrameInv, Places
  <1>2. Seg \in Segment
    BY <1>1, Segments DEF Seg
  <1>3. A'
    <2>1. CASE ReadSOS
      <3>1. /\ Seg.comps \in Seq(1 .. 3) /\ Seg.ta \in Seq(TableIds) /\ Seg.td \in Seq(TableIds)
            /\ Len(Seg.ta) = Len(Seg.comps) /\ Len(Seg.td) = Len(Seg.comps)
        BY <1>1, <2>1, Segments DEF ReadSOS, Seg
      <3> QED
        BY <1>1, <2>1, <3>1, SelectsType DEF ReadSOS
    <2>2. CASE ~ReadSOS
      <3>1. UNCHANGED <<Td, Ta>>
        BY <2>2 DEF Next, Submit, GetImageInfo, InfoUnsupported, Prepare, Enter, ReadDQT, ReadDHT,
           ReadDRI, ReadSOF, ReadEOI, StartHW, SliceReady, Resume, BaselineDone, ScanDone, HwFails,
           vars, scan
      <3> QED
        BY <1>1, <3>1
    <2> QED
      BY <2>1, <2>2
  <1>4. B'
    <2>0. Values \subseteq Table /\ "default" \in Table
      BY DEF Table
    <2>1. CASE ReadDQT
      <3>1. Seg.id \in 0 .. 3 /\ Seg.v \in Table
        BY <1>2, <2>0, <2>1, SegTables DEF ReadDQT
      <3>2. quant' \in [0 .. 3 -> Table] /\ vlc' = vlc
        BY <1>1, <2>1, <3>1 DEF ReadDQT
      <3> QED
        BY <1>1, <3>2
    <2>2. CASE ReadDHT
      <3>1. Seg.cl \in Classes /\ Seg.id \in TableIds /\ Seg.v \in Table
        BY <1>2, <2>0, <2>2, SegTables DEF ReadDHT
      <3>2. vlc' = [vlc EXCEPT ![Seg.cl][Seg.id] = Seg.v] /\ quant' = quant
        BY <2>2 DEF ReadDHT
      <3> QED
        BY <1>1, <3>1, <3>2
    <2>3. CASE ReadSOS \/ Resume
      <3>1. quant' = quant /\ (vlc' = vlc \/ vlc' = [cl \in Classes |-> [id \in TableIds |-> "default"]])
        BY <2>3 DEF ReadSOS, Resume, DefaultTables
      <3> QED
        BY <1>1, <2>0, <3>1
    <2>4. CASE ~(ReadDQT \/ ReadDHT \/ ReadSOS \/ Resume)
      <3>1. UNCHANGED <<quant, vlc>>
        BY <2>4 DEF Next, Submit, GetImageInfo, InfoUnsupported, Prepare, Enter,
           ReadDRI, ReadSOF, ReadEOI, StartHW, SliceReady, BaselineDone, ScanDone, HwFails,
           vars, tables
      <3> QED
        BY <1>1, <3>1
    <2> QED
      BY <2>1, <2>2, <2>3, <2>4
  <1>5. C'
    <2>1. CASE ReadDHT
      BY <2>1, Zenon DEF ReadDHT
    <2>2. CASE ~ReadDHT
      <3>1. findhufftable' = findhufftable \/ findhufftable' = FALSE
        BY <2>2 DEF Next, Submit, GetImageInfo, InfoUnsupported, Prepare, Enter, ReadDQT,
           ReadDRI, ReadSOF, ReadSOS, ReadEOI, StartHW, SliceReady, Resume, BaselineDone, ScanDone,
           HwFails, vars
      <3> QED
        BY <1>1, <3>1, Zenon
    <2> QED
      BY <2>1, <2>2, Zenon
  <1> QED
    BY <1>3, <1>4, <1>5, Zenon DEF TypeF

LEMMA StepTypeG == InfoInv /\ RegsInv /\ TypeE /\ TypeF /\ TypeG /\ [Next]_vars => TypeG'
  <1> SUFFICES ASSUME InfoInv, RegsInv, TypeE, TypeF, TypeG, [Next]_vars PROVE TypeG'
    OBVIOUS
  <1>1. CASE StartHW
    <2>1. SliceReadyForPause \in BOOLEAN /\ DOMAIN regs = DOMAIN NoRegs
      BY DEF RegsInv
    <2>2. CASE SliceReadyForPause
      <3>1. regs' = [regs EXCEPT !.sliceH = sliceHeight'] /\ tabs' = tabs
        BY <1>1, <2>2 DEF StartHW, InitHWContinue
      <3>2. regs'.acBits = regs.acBits /\ regs'.dcBits = regs.dcBits
        BY <2>1, <3>1 DEF NoRegs
      <3> QED
        BY <3>1, <3>2 DEF TypeG
    <2>3. CASE ~SliceReadyForPause
      <3>1. "none" \in Table /\ 1 - Ta[1] \in TableIds /\ Ta[1] \in TableIds
            /\ 1 - Td[1] \in TableIds /\ Td[1] \in TableIds
        BY DEF Table, TypeF, TableIds
      <3>2. \A cl \in Classes, id \in TableIds : vlc[cl][id] \in Table
        BY DEF TypeF
      <3>3. ACTables \in [1 .. 2 -> Table] /\ DCTables \in [1 .. 2 -> Table]
        BY <3>1, <3>2 DEF ACTables, DCTables, Classes
      <3>4. ACTableGrey \in [1 .. 2 -> Table] /\ DCTableGrey \in [1 .. 2 -> Table]
        BY <3>1, <3>2 DEF ACTableGrey, DCTableGrey, Classes
      <3>5. \A c : QTable(c) \in Table
        BY DEF QTable, TypeF
      <3>6. QPTables \in [1 .. 3 -> Table]
        BY <3>1, <3>5 DEF QPTables
      <3>7. componentId \in 1 .. 3 /\ Ta[componentId] \in TableIds /\ Td[componentId] \in TableIds
        BY DEF TypeE, TypeF
      <3>8. /\ vlc["ac"][Ta[componentId]] \in Table /\ vlc["dc"][Td[componentId]] \in Table
        BY <3>2, <3>7 DEF Classes
      <3>9. tabs' = WriteTables \/ tabs' = WriteTablesNonInterleaved
        BY <1>1, <2>3 DEF StartHW, InitHW
      <3> DEFINE T == [q : [1 .. 3 -> Table], ac : [1 .. 2 -> Table], dc : [1 .. 2 -> Table],
                       cut : BOOLEAN]
      <3>10. WriteTables \in T
        <4> DEFINE cut == ~Missing(ACTables[1]) /\ Missing(ACTables[2])
        <4>1. cut \in BOOLEAN
          BY Zenon
        <4> HIDE DEF cut
        <4>2. CASE yCbCrMode # "400"
          <5>1. WriteTables = [q |-> QPTables, ac |-> ACTables, dc |-> DCTables, cut |-> cut]
            BY <4>2 DEF WriteTables, cut
          <5> QED
            BY <3>3, <3>6, <4>1, <5>1
        <4>3. CASE yCbCrMode = "400"
          BY <3>4, <3>6, <4>3 DEF WriteTables
        <4> QED
          BY <4>2, <4>3
      <3>11. WriteTablesNonInterleaved \in T
        <4>1. /\ <<QTable(componentId), "none", "none">> \in [1 .. 3 -> Table]
              /\ <<vlc["ac"][Ta[componentId]], "none">> \in [1 .. 2 -> Table]
              /\ <<vlc["dc"][Td[componentId]], "none">> \in [1 .. 2 -> Table]
          BY <3>1, <3>5, <3>8
        <4> QED
          BY <4>1, Zenon DEF WriteTablesNonInterleaved
      <3>12. tabs' \in T
        BY <3>9, <3>10, <3>11
      <3> DEFINE r == [regs EXCEPT
              !.w = X \div 16, !.h = Y \div 16, !.mode = yCbCrMode,
              !.fillRight = fillRight, !.fillBottom = fillBottom, !.qTables = amountOfQTables,
              !.sliceH = sliceHeight', !.restart = Ri, !.ac = Selectors(Ta), !.dc = Selectors(Td)]
      <3>13. regs' = WriteLenBits(r) \/ regs' = WriteLenBitsNonInterleaved(r)
        BY <1>1, <2>3 DEF StartHW, InitHW
      <3>14. DOMAIN r = DOMAIN NoRegs /\ r.acBits = regs.acBits /\ r.dcBits = regs.dcBits
        BY <2>1 DEF NoRegs
      <3> HIDE DEF r, T
      <3>15. CASE regs' = WriteLenBits(r)
        <4>1. regs'.acBits = ACTables /\ regs'.dcBits = DCTables
          BY <3>14, <3>15 DEF WriteLenBits, NoRegs
        <4> QED
          BY <3>3, <3>12, <4>1 DEF TypeG, T
      <3>16. CASE regs' = WriteLenBitsNonInterleaved(r)
        <4>1. /\ regs'.acBits = [r.acBits EXCEPT ![1] = vlc["ac"][Ta[componentId]]]
              /\ regs'.dcBits = [r.dcBits EXCEPT ![1] = vlc["dc"][Td[componentId]]]
          BY <3>14, <3>16 DEF WriteLenBitsNonInterleaved, NoRegs
        <4>2. regs'.acBits \in [1 .. 2 -> Table] /\ regs'.dcBits \in [1 .. 2 -> Table]
          BY <3>8, <3>14, <4>1 DEF TypeG
        <4> QED
          BY <3>12, <4>2 DEF TypeG, T
      <3> QED
        BY <3>13, <3>15, <3>16
    <2> QED
      BY <2>2, <2>3
  <1>2. CASE ~StartHW
    <2>1. UNCHANGED <<regs, tabs>>
      BY <1>2 DEF Next, Submit, GetImageInfo, InfoUnsupported, Prepare, Enter, ReadDQT, ReadDHT,
         ReadDRI, ReadSOF, ReadSOS, ReadEOI, SliceReady, Resume, BaselineDone, ScanDone, HwFails,
         vars, hw
    <2> QED
      BY <2>1 DEF TypeG
  <1> QED
    BY <1>1, <1>2

LEMMA AlwaysType == Spec => []TypeInv
  <1>1. InfoInv /\ FrameInv /\ RegsInv /\ TypeInv /\ [Next]_vars => TypeInv'
    BY StepTypeA, StepTypeB, StepTypeC, StepTypeD, StepTypeE, StepTypeF, StepTypeG DEF TypeInv
  <1> QED
    BY <1>1, InitType, AlwaysInfo, AlwaysFrame, AlwaysRegs, PTL DEF Spec

\* For every set of pictures: type correctness, and the parser stays within the
\* segments of its picture.
THEOREM TypeCorrect == Spec => []TypeOK
  <1>1. TypeInv /\ FrameInv => TypeOK
    <2> SUFFICES ASSUME TypeInv, FrameInv PROVE TypeOK
      OBVIOUS
    <2>1. pos \in 1 .. Len(pic.segs)
      BY DEF FrameInv, Places
    <2> QED
      BY <2>1, Zenon DEF TypeOK, TypeInv, TypeA, TypeB, TypeC, TypeD, TypeE, TypeF, TypeG
  <1> QED
    BY <1>1, AlwaysType, AlwaysFrame, PTL

(***************************************************************************)
(* The slices.                                                             *)
(***************************************************************************)

\* A picture to be cut has its components in one scan.
ApartFirst == Len(pic.segs[FirstScan].comps) = 1 /\ imageInfo.fmt # "400"
KindInv ==
  /\ pc \in {"prepare", "enter"} =>
       operationType = IF ApartFirst THEN "NONINTERLEAVED" ELSE "BASELINE"
  /\ pc = "read" /\ sliceMbSet # 0 => ~ApartFirst
  /\ (InScan \/ pc = "next") /\ sliceMbSet # 0 => InScan /\ Interleaved

LEMMA InitKind == Init => KindInv
  BY DEF Init, KindInv, InScan

LEMMA KindSOS ==
    ASSUME InfoInv, FrameInv, KindInv, ReadSOS PROVE KindInv'
  <1> DEFINE s == pic.segs[pos]
  <1>1. /\ pic \in Pictures /\ pic' = pic /\ pos \in 1 .. Len(pic.segs) /\ pos' = pos + 1
        /\ pc' = "start" /\ pc \in {"read", "next"} /\ s.m = "SOS" /\ imageInfo' = imageInfo
        /\ sliceMbSet' = sliceMbSet /\ Len(pic.segs) \in Nat
    BY PictureOf DEF ReadSOS, InLoop, Seg, FrameInv, Places, InfoInv, input, caller
  <1>2. CASE sliceMbSet = 0
    BY <1>1, <1>2 DEF KindInv, InScan
  <1>3. CASE sliceMbSet # 0
    <2>1. pc = "read" /\ ~ApartFirst
      BY <1>1, <1>3 DEF KindInv, InScan
    <2>2. FirstScan = pos
      <3> DEFINE P(i) == pic.segs[i].m = "SOS" /\ \A j \in 1 .. i - 1 : pic.segs[j].m # "SOS"
      <3>0. \A j \in 1 .. pos - 1 : pic.segs[j].m # "SOS"
        BY <2>1 DEF FrameInv, Places, ScanRead
      <3>1. P(pos)
        BY <1>1, <3>0
      <3>2. ASSUME NEW i \in 1 .. Len(pic.segs), P(i) PROVE i = pos
        BY <1>1, <3>0, <3>2
      <3> HIDE DEF P
      <3>3. (CHOOSE i \in 1 .. Len(pic.segs) : P(i)) = pos
        BY <1>1, <3>1, <3>2
      <3> QED
        BY <3>3 DEF FirstScan, P
    <2>3. /\ s.comps = [c \in 1 .. Len(pic.sam) |-> c] \/ (pic.sam \in OneByOne /\ Len(s.comps) = 1)
      BY <1>1, Segments
    <2>4. /\ Len(pic.sam) = (IF imageInfo.fmt = "400" THEN 1 ELSE 3)
      BY <1>1, <2>1, SecondReading, FormatFound
    <2>5. Len(pic.sam) = 1 \/ Len(s.comps) = 3
      <3>1. CASE s.comps = [c \in 1 .. Len(pic.sam) |-> c]
        <4>1. Len(s.comps) = Len(pic.sam)
          BY <2>4, <3>1
        <4> QED
          BY <2>4, <4>1
      <3>2. CASE pic.sam \in OneByOne /\ Len(s.comps) = 1
        <4>1. imageInfo.fmt # "400"
          BY <2>1, <3>2, Separate
        <4> QED
          BY <2>1, <2>2, <3>2, <4>1 DEF ApartFirst
      <3> QED
        BY <2>3, <3>1, <3>2
    <2>6. CurrentScan' = s.comps
      <3>1. pos' - 1 = pos
        BY <1>1
      <3> QED
        BY <1>1, <3>1 DEF CurrentScan
    <2>7. Interleaved'
      BY <1>1, <2>5, <2>6 DEF Interleaved
    <2> QED
      BY <1>1, <2>7 DEF KindInv, InScan
  <1> QED
    BY <1>2, <1>3

LEMMA StepKind == InfoInv /\ FrameInv /\ KindInv /\ [Next]_vars => KindInv'
  <1> SUFFICES ASSUME InfoInv, FrameInv, KindInv, [Next]_vars PROVE KindInv'
    OBVIOUS
  <1>1. ASSUME NEW p \in Pictures, Submit(p) PROVE KindInv'
    BY <1>1 DEF Submit, KindInv, InScan
  <1>2. CASE GetImageInfo
    <2>1. pc' = "prepare" /\ pic' = pic /\ imageInfo'.fmt = yCbCrMode'
          /\ operationType' = IF Len(pic.segs[FirstScan].comps) = 1 /\ yCbCrMode' # "400"
                              THEN "NONINTERLEAVED" ELSE "BASELINE"
      BY <1>2 DEF GetImageInfo, input
    <2>2. FirstScan' = FirstScan
      BY <2>1 DEF FirstScan
    <2> QED
      BY <2>1, <2>2 DEF KindInv, ApartFirst, InScan
  <1>3. CASE Prepare \/ Enter
    <2>1. /\ pic' = pic /\ imageInfo' = imageInfo /\ operationType' = operationType
          /\ pc \in {"prepare", "enter"} /\ pc' \in {"enter", "read", "idle"}
          /\ pc' = "read" => EnterAccepts /\ sliceMbSet' = sliceMbSet
      BY <1>3 DEF Prepare, Enter, input, caller
    <2>2. ApartFirst' <=> ApartFirst
      BY <2>1 DEF ApartFirst, FirstScan
    <2>3. pc' = "read" /\ sliceMbSet' # 0 => ~ApartFirst
      BY <2>1 DEF EnterAccepts, KindInv
    <2>4. (pc \in {"prepare", "enter"} =>
             operationType = IF ApartFirst THEN "NONINTERLEAVED" ELSE "BASELINE")'
      BY <2>1, <2>2 DEF KindInv
    <2> QED
      BY <2>1, <2>2, <2>3, <2>4 DEF KindInv, InScan
  <1>4. CASE InfoUnsupported \/ ReadEOI \/ BaselineDone \/ HwFails \/ (ReadSOF /\ pc' = "idle")
    BY <1>4 DEF InfoUnsupported, ReadEOI, BaselineDone, HwFails, ReadSOF, KindInv, InScan
  <1>5. CASE ReadDQT \/ ReadDHT \/ ReadDRI \/ (ReadSOF /\ pc' # "idle")
    <2>1. /\ pc \in {"read", "next"} /\ pc' = pc /\ pic' = pic /\ imageInfo' = imageInfo
          /\ sliceMbSet' = sliceMbSet
      BY <1>5 DEF ReadDQT, ReadDHT, ReadDRI, ReadSOF, InLoop, input, caller
    <2>2. ApartFirst' <=> ApartFirst
      BY <2>1 DEF ApartFirst, FirstScan
    <2> QED
      BY <2>1, <2>2 DEF KindInv, InScan
  <1>6. CASE ReadSOS
    BY <1>6, KindSOS
  <1>7. CASE StartHW \/ SliceReady \/ Resume \/ ScanDone
    <2>1. /\ InScan /\ pc' \in {"hw", "again", "start", "next", "idle"}
          /\ pc' = "next" => operationType = "NONINTERLEAVED"
          /\ UNCHANGED <<pic, pos, sliceMbSet>>
      BY <1>7 DEF StartHW, SliceReady, Resume, ScanDone, InScan, input, caller
    <2>2. Interleaved' <=> Interleaved
      BY <2>1 DEF Interleaved, CurrentScan
    <2>3. Interleaved => operationType = "BASELINE"
      BY <2>1 DEF FrameInv, WholeOf
    <2> QED
      BY <2>1, <2>2, <2>3 DEF KindInv, InScan
  <1>8. CASE UNCHANGED vars
    <2>1. UNCHANGED <<pc, pic, pos, sliceMbSet, operationType, imageInfo>>
      BY <1>8 DEF vars, input, caller
    <2>2. (ApartFirst' <=> ApartFirst) /\ (Interleaved' <=> Interleaved) /\ (InScan' <=> InScan)
      BY <2>1 DEF ApartFirst, FirstScan, Interleaved, CurrentScan, InScan
    <2> QED
      BY <2>1, <2>2 DEF KindInv
  <1> QED
    BY <1>1, <1>2, <1>3, <1>4, <1>5, <1>6, <1>7, <1>8 DEF Next

LEMMA AlwaysKind == Spec => []KindInv
  BY InitKind, StepKind, AlwaysInfo, AlwaysFrame, PTL DEF Spec

\* The slice height and the count of slices, from the first slice on.
Before == pc \in {"info", "prepare", "enter", "read"}
HeightInv ==
  /\ ~left.slices => ~left.pause /\ ~left.height
  /\ Before /\ ~left.slices => SliceCount = 0
  /\ pc # "idle" /\ ~left.height /\ (Before \/ sliceMbSet = 0) => sliceHeight = 0
  /\ colorConv => sliceHeight = 0 /\ ~SliceReadyForPause
  /\ pc \in {"hw", "again"} => regs.sliceH = sliceHeight
  /\ pc = "again" => ~colorConv /\ SliceReadyForPause /\ sliceHeight > 0

LEMMA InitHeight == Init => HeightInv
  BY DEF Init, HeightInv

LEMMA StepHeight == InfoInv /\ RegsInv /\ HeightInv /\ [Next]_vars => HeightInv'
  <1> SUFFICES ASSUME InfoInv, RegsInv, HeightInv, [Next]_vars PROVE HeightInv'
    OBVIOUS
  <1>1. ASSUME NEW p \in Pictures, Submit(p) PROVE HeightInv'
    <2>1. /\ pc' = "info" /\ UNCHANGED <<SliceCount, sliceHeight, SliceReadyForPause, colorConv>>
          /\ left' = [fill   |-> fillRight + fillBottom > 0,
                      Ri     |-> Ri # 0,
                      height |-> sliceHeight # 0,
                      slices |-> SliceReadyForPause \/ SliceCount # 0 \/ sliceHeight # 0,
                      pause  |-> SliceReadyForPause]
      BY <1>1 DEF Submit, slices, caller
    <2>2. /\ left'.slices = (SliceReadyForPause \/ SliceCount # 0 \/ sliceHeight # 0)
          /\ left'.height = (sliceHeight # 0) /\ left'.pause = SliceReadyForPause
      BY <2>1, Zenon
    <2>3. ~left'.slices => ~left'.pause /\ ~left'.height /\ SliceCount = 0
      BY <2>2, Zenon
    <2>4. ~left'.height => sliceHeight = 0
      BY <2>2, Zenon
    <2> QED
      BY <2>1, <2>3, <2>4 DEF HeightInv, Before
  <1>2. CASE GetImageInfo \/ InfoUnsupported \/ Prepare \/ Enter
    <2>1. /\ UNCHANGED <<SliceCount, sliceHeight, SliceReadyForPause, colorConv, left>>
          /\ Before /\ pc' \in {"prepare", "enter", "read", "idle"}
      BY <1>2 DEF GetImageInfo, InfoUnsupported, Prepare, Enter, Before, slices, caller, input
    <2> QED
      BY <2>1 DEF HeightInv, Before
  <1>3. CASE ReadDQT \/ ReadDHT \/ ReadDRI \/ ReadSOF \/ ReadSOS \/ ReadEOI
    <2>1. /\ UNCHANGED <<SliceCount, sliceHeight, SliceReadyForPause, colorConv, left, sliceMbSet>>
          /\ pc \in {"read", "next"} /\ pc' \in {pc, "start", "idle"}
      BY <1>3 DEF ReadDQT, ReadDHT, ReadDRI, ReadSOF, ReadSOS, ReadEOI, InLoop, slices, caller, input
    <2> QED
      BY <2>1 DEF HeightInv, Before
  <1>4. CASE StartHW
    <2>1. /\ UNCHANGED <<SliceReadyForPause, colorConv, left, sliceMbSet>> /\ pc = "start" /\ pc' = "hw"
          /\ sliceMbSet = 0 \/ colorConv => sliceHeight' = sliceHeight
      BY <1>4 DEF StartHW, caller, input
    <2>2. regs'.sliceH = sliceHeight'
      <3>1. CASE SliceReadyForPause
        <4>1. regs' = [regs EXCEPT !.sliceH = sliceHeight']
          BY <1>4, <3>1 DEF StartHW, InitHWContinue
        <4> QED
          BY <4>1 DEF RegsInv, NoRegs
      <3>2. CASE ~SliceReadyForPause
        <4> DEFINE r == [regs EXCEPT
              !.w = X \div 16, !.h = Y \div 16, !.mode = yCbCrMode,
              !.fillRight = fillRight, !.fillBottom = fillBottom, !.qTables = amountOfQTables,
              !.sliceH = sliceHeight', !.restart = Ri, !.ac = Selectors(Ta), !.dc = Selectors(Td)]
        <4>1. regs' = WriteLenBits(r) \/ regs' = WriteLenBitsNonInterleaved(r)
          BY <1>4, <3>2 DEF StartHW, InitHW
        <4>2. DOMAIN r = DOMAIN NoRegs /\ r.sliceH = sliceHeight'
          BY DEF RegsInv, NoRegs
        <4> HIDE DEF r
        <4> QED
          BY <4>1, <4>2 DEF WriteLenBits, WriteLenBitsNonInterleaved, NoRegs
      <3> QED
        BY <3>1, <3>2
    <2> QED
      BY <2>1, <2>2 DEF HeightInv, Before
  <1>5. CASE SliceReady
    <2>1. /\ UNCHANGED <<sliceHeight, colorConv, left, sliceMbSet, regs>> /\ pc = "hw" /\ pc' = "again"
          /\ SliceReadyForPause' = ~colorConv /\ regs.sliceH > 0
      BY <1>5 DEF SliceReady, MoreRows, caller, input
    <2>2. regs.sliceH = sliceHeight /\ (colorConv => sliceHeight = 0)
      BY <2>1 DEF HeightInv
    <2>3. ~colorConv
      BY <2>1, <2>2
    <2>4. SliceReadyForPause' /\ ~colorConv'
      BY <2>1, <2>3
    <2> QED
      BY <2>1, <2>2, <2>4 DEF HeightInv, Before
  <1>6. CASE Resume
    <2>1. /\ UNCHANGED <<SliceCount, sliceHeight, SliceReadyForPause, colorConv, left, sliceMbSet>>
          /\ pc = "again" /\ pc' = "start"
      BY <1>6 DEF Resume, slices, caller, input
    <2> QED
      BY <2>1 DEF HeightInv, Before
  <1>7. CASE BaselineDone \/ ScanDone \/ HwFails
    <2>1. /\ UNCHANGED <<sliceHeight, colorConv, left, sliceMbSet>>
          /\ SliceReadyForPause' = SliceReadyForPause \/ SliceReadyForPause' = FALSE
          /\ pc = "hw" /\ pc' \in {"next", "idle"}
      BY <1>7 DEF BaselineDone, ScanDone, HwFails, slices, caller, input
    <2> QED
      BY <2>1 DEF HeightInv, Before
  <1>8. CASE UNCHANGED vars
    <2>1. UNCHANGED <<pc, SliceCount, sliceHeight, SliceReadyForPause, colorConv, left, sliceMbSet, regs>>
      BY <1>8 DEF vars, slices, caller, input, hw
    <2> QED
      BY <2>1 DEF HeightInv, Before
  <1> QED
    BY <1>1, <1>2, <1>3, <1>4, <1>5, <1>6, <1>7, <1>8 DEF Next

LEMMA AlwaysHeight == Spec => []HeightInv
  BY InitHeight, StepHeight, AlwaysInfo, AlwaysRegs, PTL DEF Spec

\* The rows decoded so far, and those of the slice at work.
Cutting == InScan /\ sliceMbSet # 0 /\ ~colorConv /\ ~left.slices
PictureRows == Y \div 16
SlicesInv == Cutting =>
  /\ pc = "start" /\ SliceCount = 0 => ~SliceReadyForPause /\ sliceHeight = 0
  /\ pc = "start" /\ SliceCount # 0 => SliceReadyForPause
  /\ pc = "again" => SliceCount # 0
  /\ pc \in {"start", "again"} /\ SliceCount # 0 =>
       sliceHeight = sliceMbSet /\ rows = SliceCount * sliceMbSet /\ rows < PictureRows
  /\ pc = "hw" =>
       /\ SliceCount # 0 /\ rows = (SliceCount - 1) * sliceMbSet
       /\ sliceHeight >= 1 /\ rows + sliceHeight <= PictureRows
       /\ sliceHeight = sliceMbSet \/ rows + sliceHeight = PictureRows

LEMMA InitSlices == Init => SlicesInv
  BY DEF Init, SlicesInv, Cutting, InScan

\* The height set for the next slice.
LEMMA NextSlice ==
    ASSUME NEW k \in Nat, NEW m \in 1 .. 130, NEW n \in Nat, k * m < n, Y = 16 * n,
           SliceCount = k, sliceMbSet = m, (k = 0 /\ sliceHeight = 0) \/ sliceHeight = m
    PROVE  LET sh == SliceSizeCalculation IN
           /\ sh \in Nat /\ sh >= 1 /\ k * m + sh <= n
           /\ sh = m \/ k * m + sh = n
  <1> DEFINE d == k * m
  <1>1. d \in Nat /\ SliceCount * sliceHeight = d
    BY Z3T(20)
  <1>2. (k + 1) * (m * 16) = 16 * d + 16 * m
    BY Z3T(20)
  <1>3. Y \div 16 = n
    OBVIOUS
  <1>4. SliceSizeCalculation = IF 16 * d + 16 * m > 16 * n THEN (n - d) % 256 ELSE m
    BY <1>1, <1>2, <1>3 DEF SliceSizeCalculation
  <1>5. d < n
    OBVIOUS
  <1> HIDE DEF d
  <1>6. CASE 16 * d + 16 * m > 16 * n
    <2>1. n - d \in 1 .. 130 /\ d + (n - d) = n
      BY <1>1, <1>5, <1>6
    <2>2. (n - d) % 256 = n - d
      BY <2>1
    <2>3. SliceSizeCalculation = n - d
      BY <1>4, <1>6, <2>2
    <2> QED
      BY <1>1, <2>1, <2>3 DEF d
  <1>7. CASE ~(16 * d + 16 * m > 16 * n)
    <2>1. SliceSizeCalculation = m
      BY <1>4, <1>7
    <2>2. d + m <= n
      BY <1>1, <1>7
    <2> QED
      BY <2>1, <2>2 DEF d
  <1> QED
    BY <1>6, <1>7

\* The picture cut is a whole one of whole macroblocks.
LEMMA CutWhole ==
    ASSUME InfoInv, FrameInv, KindInv, Cutting
    PROVE  /\ Interleaved /\ Y = 16 * PictureRows /\ PictureRows \in Nat /\ PictureRows >= 1
           /\ sliceMbSet \in 1 .. 130 /\ operationType = "BASELINE"
  <1>1. Interleaved /\ WholeOf /\ HeaderOf
    BY DEF Cutting, KindInv, FrameInv, Framed
  <1>2. /\ Y = imageInfo.h /\ imageInfo.h = InfoHeight(pic.Y) /\ pic.X \in Nat /\ pic.Y \in Nat
        /\ InfoAccepts(pic.sam, pic.X, pic.Y)
    BY <1>1, PictureOf DEF WholeOf, HeaderOf, InfoInv, Accepted, Cutting, InScan
  <1>3. Y \in Nat /\ Y % 16 = 0 /\ Y >= 48
    BY <1>2, InfoSize
  <1>4. sliceMbSet \in 1 .. 130
    BY FewRows DEF Cutting, InScan
  <1> QED
    BY <1>1, <1>3, <1>4 DEF PictureRows, WholeOf

LEMMA StepSlices ==
    InfoInv /\ FrameInv /\ RegsInv /\ KindInv /\ HeightInv /\ TypeE /\ SlicesInv /\ [Next]_vars
      => SlicesInv'
  <1> SUFFICES ASSUME InfoInv, FrameInv, RegsInv, KindInv, HeightInv, TypeE, SlicesInv, [Next]_vars, Cutting'
               PROVE  SlicesInv'
    BY DEF SlicesInv
  <1>1. CASE ReadSOS
    <2>1. /\ UNCHANGED <<SliceCount, sliceHeight, SliceReadyForPause, sliceMbSet, left>>
          /\ pc \in {"read", "next"} /\ pc' = "start"
      BY <1>1 DEF ReadSOS, InLoop, slices, input, caller
    <2>2. pc = "read"
      BY <2>1 DEF KindInv, Cutting, InScan
    <2>3. ~left.slices
      BY <2>1 DEF Cutting
    <2>4. SliceCount = 0 /\ sliceHeight = 0 /\ ~SliceReadyForPause
      BY <2>2, <2>3 DEF HeightInv, Before, RegsInv
    <2> QED
      BY <2>1, <2>4 DEF SlicesInv
  <1>2. CASE StartHW
    <2>1. /\ UNCHANGED <<SliceReadyForPause, sliceMbSet, left, colorConv, Y>> /\ pc = "start" /\ pc' = "hw"
          /\ SliceCount' = SliceCount + 1
      BY <1>2 DEF StartHW, input, caller
    <2>2. Cutting /\ PictureRows' = PictureRows
      BY <2>1 DEF Cutting, InScan, PictureRows
    <2>3. /\ Y = 16 * PictureRows /\ PictureRows \in Nat /\ PictureRows >= 1 /\ sliceMbSet \in 1 .. 130
      BY <2>2, CutWhole
    <2>4. sliceHeight' = SliceSizeCalculation
      BY <1>2, <2>2 DEF StartHW, Cutting
    <2>5. SliceCount \in Nat
      BY DEF TypeE
    <2>6. SliceCount' # 0 /\ SliceCount' - 1 = SliceCount
      BY <2>1, <2>5
    <2> DEFINE d == SliceCount * sliceMbSet
    <2>7. rows' = d /\ d < PictureRows /\ ((SliceCount = 0 /\ sliceHeight = 0) \/ sliceHeight = sliceMbSet)
      <3>1. CASE SliceCount = 0
        <4>1. rows' = 0 /\ sliceHeight = 0
          BY <1>2, <2>1, <2>2, <3>1 DEF SlicesInv, StartHW, InitHW
        <4>2. d = 0
          BY <2>3, <3>1
        <4> QED
          BY <2>3, <3>1, <4>1, <4>2
      <3>2. CASE SliceCount # 0
        <4>1. SliceReadyForPause /\ rows = d /\ d < PictureRows /\ sliceHeight = sliceMbSet
          BY <2>1, <2>2, <3>2 DEF SlicesInv
        <4>2. rows' = rows
          BY <1>2, <4>1 DEF StartHW, InitHWContinue
        <4> QED
          BY <4>1, <4>2
      <3> QED
        BY <3>1, <3>2
    <2>8. /\ SliceSizeCalculation \in Nat /\ SliceSizeCalculation >= 1
          /\ d + SliceSizeCalculation <= PictureRows
          /\ SliceSizeCalculation = sliceMbSet \/ d + SliceSizeCalculation = PictureRows
      BY <2>3, <2>5, <2>7, NextSlice
    <2> HIDE DEF d
    <2>9. (SliceCount' - 1) * sliceMbSet' = d
      BY <2>1, <2>6 DEF d
    <2> QED
      BY <2>1, <2>2, <2>4, <2>6, <2>7, <2>8, <2>9 DEF SlicesInv
  <1>3. CASE SliceReady
    <2>1. /\ UNCHANGED <<SliceCount, sliceHeight, sliceMbSet, left, colorConv, Y>>
          /\ pc = "hw" /\ pc' = "again" /\ rows' = rows + regs.sliceH /\ rows + regs.sliceH < regs.h
      BY <1>3 DEF SliceReady, MoreRows, input, caller
    <2>2. Cutting /\ PictureRows' = PictureRows
      BY <2>1 DEF Cutting, InScan, PictureRows
    <2>3. regs.sliceH = sliceHeight /\ regs.h = PictureRows
      BY <2>1, <2>2 DEF HeightInv, RegsInv, Written, RegsOf, PictureRows, Cutting
    <2>4. /\ SliceCount # 0 /\ rows = (SliceCount - 1) * sliceMbSet
          /\ sliceHeight = sliceMbSet \/ rows + sliceHeight = PictureRows
      BY <2>1, <2>2 DEF SlicesInv
    <2>5. PictureRows \in Nat /\ sliceMbSet \in 1 .. 130 /\ SliceCount \in Nat
      BY <2>2, CutWhole DEF TypeE
    <2> DEFINE d == (SliceCount - 1) * sliceMbSet
    <2>6. d \in Nat /\ SliceCount * sliceMbSet = d + sliceMbSet
      BY <2>4, <2>5
    <2> HIDE DEF d
    <2>7. sliceHeight = sliceMbSet
      BY <2>1, <2>3, <2>4, <2>5, <2>6 DEF d
    <2>8. rows' = SliceCount * sliceMbSet /\ rows' < PictureRows
      BY <2>1, <2>3, <2>4, <2>6, <2>7 DEF d
    <2> QED
      BY <2>1, <2>2, <2>4, <2>7, <2>8 DEF SlicesInv
  <1>4. CASE Resume
    <2>1. /\ UNCHANGED <<SliceCount, sliceHeight, SliceReadyForPause, sliceMbSet, left, colorConv, Y, rows>>
          /\ pc = "again" /\ pc' = "start"
      BY <1>4 DEF Resume, slices, input, caller, hw
    <2>2. Cutting /\ PictureRows' = PictureRows /\ SliceReadyForPause
      BY <2>1 DEF Cutting, InScan, PictureRows, HeightInv
    <2> QED
      BY <2>1, <2>2 DEF SlicesInv
  <1>5. CASE UNCHANGED vars
    <2>1. UNCHANGED <<pc, SliceCount, sliceHeight, SliceReadyForPause, sliceMbSet, left, colorConv, Y, rows>>
      BY <1>5 DEF vars, slices, input, caller, hw
    <2>2. (Cutting' <=> Cutting) /\ PictureRows' = PictureRows
      BY <2>1 DEF Cutting, InScan, PictureRows
    <2> QED
      BY <2>1, <2>2 DEF SlicesInv
  <1>6. CASE ~(ReadSOS \/ StartHW \/ SliceReady \/ Resume \/ UNCHANGED vars)
    <2>1. pc' \notin {"start", "hw", "again"}
      BY <1>6 DEF Next, Submit, GetImageInfo, InfoUnsupported, Prepare, Enter, ReadDQT, ReadDHT,
         ReadDRI, ReadSOF, ReadEOI, InLoop, BaselineDone, ScanDone, HwFails
    <2> QED
      BY <2>1 DEF Cutting, InScan
  <1> QED
    BY <1>1, <1>2, <1>3, <1>4, <1>5, <1>6

\* For every set of pictures: the slices of a picture are its rows, each decoded
\* once, by a decoder that no earlier picture left as in the middle of one.
THEOREM SlicesAddUpThm == Spec => []SlicesAddUp
  <1>1. ASSUME InfoInv, FrameInv, RegsInv, KindInv, HeightInv, SlicesInv PROVE SlicesAddUp
    <2> SUFFICES ASSUME pc = "hw", sliceMbSet # 0, ~colorConv, ~left.slices
                 PROVE  regs.sliceH >= 1 /\ rows + regs.sliceH <= regs.h
      BY DEF SlicesAddUp
    <2>1. Cutting
      BY DEF Cutting, InScan
    <2>2. regs.sliceH = sliceHeight /\ regs.h = PictureRows
      BY <1>1 DEF HeightInv, RegsInv, Written, RegsOf, PictureRows
    <2> QED
      BY <1>1, <2>1, <2>2 DEF SlicesInv
  <1>2. TypeInv => TypeE
    BY DEF TypeInv
  <1>3. Spec => []SlicesInv
    BY <1>2, InitSlices, StepSlices, AlwaysInfo, AlwaysFrame, AlwaysRegs, AlwaysKind, AlwaysHeight,
       AlwaysType, PTL DEF Spec
  <1> QED
    BY <1>1, <1>3, AlwaysInfo, AlwaysFrame, AlwaysRegs, AlwaysKind, AlwaysHeight, PTL

(***************************************************************************)
(* The tables.                                                             *)
(***************************************************************************)

\* The instance holds the tables last defined, and the tables a scan selects.
IsTable(j, m, cl, id) == /\ pic.segs[j].m = m /\ pic.segs[j].id = id
                         /\ m = "DHT" => pic.segs[j].cl = cl
VlcOf   == \A cl \in Classes, id \in TableIds, i \in 1 .. pos - 1 :
             LastTable(i, "DHT", cl, id) => vlc[cl][id] = pic.segs[i].v
QuantOf == \A id \in 0 .. 3, i \in 1 .. pos - 1 :
             LastTable(i, "DQT", "", id) => quant[id] = pic.segs[i].v
SelectsOf ==
  LET s == pic.segs[pos - 1] IN
  /\ amountOfQTables = Len(s.comps)
  /\ \A k \in 1 .. Len(s.comps) : Ta[s.comps[k]] = s.ta[k] /\ Td[s.comps[k]] = s.td[k]
NoDHT == \A i \in 1 .. pos - 1 : pic.segs[i].m # "DHT"

\* The tables are those of the stream until a scan is resumed; a resumption is
\* that of an interleaved one unless an earlier picture left its slice height.
Fresh ==
  \/ pc = "read" \/ (pc = "next" /\ ~left.height)
  \/ pc = "start" /\ ~SliceReadyForPause /\ Interleaved
  \/ InScan /\ ~Interleaved /\ ~left.height
TablesInv ==
  /\ pc \in {"read", "next"} \/ InScan => QuantOf
  /\ Fresh /\ ~left.pause => VlcOf
  /\ pc = "read" /\ ~findhufftable => NoDHT
  /\ InScan => SelectsOf
  /\ Written /\ ~left.pause /\ (Interleaved \/ ~left.height) => ScanTables

\* The table last defined, one segment later.
LEMMA NextLast ==
    ASSUME pos \in Nat, pos # 0, pic' = pic, pos' = pos + 1,
           NEW m, NEW cl, NEW id, NEW i \in 1 .. pos, LastTable(i, m, cl, id)'
    PROVE  IF IsTable(pos, m, cl, id) THEN i = pos ELSE i \in 1 .. pos - 1 /\ LastTable(i, m, cl, id)
  <1>1. IsTable(i, m, cl, id) /\ \A j \in i + 1 .. pos : ~IsTable(j, m, cl, id)
    BY DEF LastTable, IsTable
  <1>2. CASE IsTable(pos, m, cl, id)
    BY <1>1, <1>2
  <1>3. CASE ~IsTable(pos, m, cl, id)
    <2>1. i \in 1 .. pos - 1
      BY <1>1, <1>3
    <2>2. \A j \in i + 1 .. pos - 1 : ~IsTable(j, m, cl, id)
      BY <1>1
    <2> QED
      BY <1>1, <1>3, <2>1, <2>2 DEF LastTable, IsTable
  <1> QED
    BY <1>2, <1>3

\* The selectors find, among the luma table and the other one, the table a
\* component selects.
LEMMA Selected ==
    ASSUME NEW T \in [1 .. 3 -> TableIds], NEW v, NEW c \in 1 .. 3
    PROVE  /\ <<v[T[1]], v[1 - T[1]]>>[1 + Selectors(T)[c]] = v[T[c]]
           /\ Selectors(T)[1] = 0
  <1>1. T[1] \in {0, 1} /\ T[c] \in {0, 1}
    BY DEF TableIds
  <1>2. Selectors(T)[c] = IF T[1] = 0 THEN T[c] ELSE IF T[1] = T[c] THEN 0 ELSE 1
    BY DEF Selectors
  <1>3. Selectors(T)[1] = 0
    BY <1>1 DEF Selectors
  <1>4. CASE T[1] = T[c]
    <2>1. Selectors(T)[c] = 0
      BY <1>1, <1>2, <1>4
    <2> QED
      BY <1>3, <1>4, <2>1
  <1>5. CASE T[1] # T[c]
    <2>1. Selectors(T)[c] = 1 /\ 1 - T[1] = T[c]
      BY <1>1, <1>2, <1>5
    <2> QED
      BY <1>3, <2>1
  <1> QED
    BY <1>4, <1>5

\* What the scan about to start loads is what it selects from the instance.
Loaded ==
  LET s == pic.segs[pos - 1] IN
  /\ \A k \in 1 .. Len(s.comps) :
       LET c == s.comps[k] IN
       /\ HwTable(tabs.ac, regs.ac, c) = vlc["ac"][Ta[c]]
       /\ HwTable(regs.acBits, regs.ac, c) = vlc["ac"][Ta[c]]
       /\ HwTable(tabs.dc, regs.dc, c) = vlc["dc"][Td[c]]
       /\ HwTable(regs.dcBits, regs.dc, c) = vlc["dc"][Td[c]]
       /\ pic.tq[c] <= 1 => HwQTable(c) = quant[pic.tq[c]]
  /\ tabs.cut => Interleaved /\ vlc["ac"][1 - Ta[1]] = "none"

\* The components of a scan.
LEMMA ScanComponents ==
    ASSUME NEW p \in Pictures, NEW n \in 1 .. Len(p.segs), p.segs[n].m = "SOS"
    PROVE  LET s == p.segs[n] IN
           /\ Len(s.comps) \in {1, 3}
           /\ Len(p.sam) = 1 => Len(s.comps) = 1 /\ s.comps[1] = 1
           /\ \A k \in 1 .. Len(s.comps) :
                /\ s.comps[k] \in 1 .. 3 /\ p.tq[s.comps[k]] \in 0 .. 3
                /\ s.ta[k] \in TableIds /\ s.td[k] \in TableIds
                /\ \A j \in 1 .. Len(s.comps) : s.comps[j] = s.comps[k] => j = k
  <1> DEFINE s == p.segs[n]
  <1> HIDE DEF s
  <1>1. /\ s.comps \in Seq(1 .. 3) /\ s.ta \in Seq(TableIds) /\ s.td \in Seq(TableIds)
        /\ Len(s.ta) = Len(s.comps) /\ Len(s.td) = Len(s.comps)
        /\ \/ s.comps = [c \in 1 .. Len(p.sam) |-> c]
           \/ p.sam \in OneByOne /\ Len(s.comps) = 1
    BY Segments DEF s
  <1>2. Len(p.sam) \in {1, 3} /\ Len(p.tq) = Len(p.sam) /\ p.tq \in Seq(0 .. 3)
    BY PictureOf DEF WellFormed
  <1>3. \A k \in 1 .. Len(s.comps) : /\ s.comps[k] \in 1 .. 3
                                     /\ s.ta[k] \in TableIds /\ s.td[k] \in TableIds
    BY <1>1
  <1>4. CASE s.comps = [c \in 1 .. Len(p.sam) |-> c]
    <2>1. Len(s.comps) = Len(p.sam)
      BY <1>2, <1>4
    <2>2. \A k \in 1 .. Len(s.comps) : s.comps[k] = k /\ p.tq[k] \in 0 .. 3
      BY <1>2, <1>4, <2>1
    <2> QED
      BY <1>2, <1>3, <2>1, <2>2 DEF s
  <1>5. CASE p.sam \in OneByOne /\ Len(s.comps) = 1
    <2>1. Len(p.sam) = 3
      <3>1. PICK f \in {"420", "422", "440"} : p.sam = Pattern[f]
        BY <1>5 DEF OneByOne
      <3>2. f \in Formats /\ f # "400"
        BY Patterns
      <3> QED
        BY <3>1, <3>2, FormatFound
    <2>2. \A c \in 1 .. 3 : p.tq[c] \in 0 .. 3
      BY <1>2, <2>1
    <2>3. Len(s.comps) = 1 /\ s.comps[1] \in 1 .. 3
      BY <1>3, <1>5
    <2>4. \A k \in 1 .. Len(s.comps) : k = 1
      BY <2>3
    <2> QED
      BY <1>3, <2>1, <2>2, <2>3, <2>4 DEF s
  <1> QED
    BY <1>1, <1>4, <1>5

\* Then they are the stream's.
LEMMA LoadedTables ==
    InfoInv /\ FrameInv /\ TypeF /\ InScan /\ VlcOf /\ QuantOf /\ SelectsOf /\ Loaded => ScanTables
  <1> SUFFICES ASSUME InfoInv, FrameInv, TypeF, InScan, VlcOf, QuantOf, SelectsOf, Loaded
               PROVE  ScanTables
    OBVIOUS
  <1> DEFINE s == pic.segs[pos - 1]
  <1>0. pic \in Pictures /\ pos - 1 \in 1 .. Len(pic.segs) /\ s.m = "SOS" /\ pos \in Nat
        /\ Len(pic.segs) \in Nat
    BY PictureOf DEF InfoInv, FrameInv, Places
  <1>1. \A k \in 1 .. Len(s.comps) :
          /\ s.comps[k] \in 1 .. 3 /\ pic.tq[s.comps[k]] \in 0 .. 3
          /\ s.ta[k] \in TableIds /\ s.td[k] \in TableIds
          /\ \A j \in 1 .. Len(s.comps) : s.comps[j] = s.comps[k] => j = k
    BY <1>0, ScanComponents
  <1> HIDE DEF s
  <1>2. ASSUME NEW k \in 1 .. Len(s.comps), NEW c, c = s.comps[k]
        PROVE  /\ OwnTable("ac", c, s) /\ OwnTable("dc", c, s)
               /\ \A i \in 1 .. pos - 1 : pic.tq[c] <= 1 /\ LastTable(i, "DQT", "", pic.tq[c]) =>
                    HwQTable(c) = pic.segs[i].v
    <2>1. /\ HwTable(tabs.ac, regs.ac, c) = vlc["ac"][s.ta[k]]
          /\ HwTable(regs.acBits, regs.ac, c) = vlc["ac"][s.ta[k]]
          /\ HwTable(tabs.dc, regs.dc, c) = vlc["dc"][s.td[k]]
          /\ HwTable(regs.dcBits, regs.dc, c) = vlc["dc"][s.td[k]]
          /\ pic.tq[c] <= 1 => HwQTable(c) = quant[pic.tq[c]]
      BY <1>2 DEF Loaded, SelectsOf, s
    <2>2. \A j \in 1 .. Len(s.comps) : s.comps[j] = c => j = k
      BY <1>1, <1>2
    <2>3. OwnTable("ac", c, s)
      <3>1. \A i \in 1 .. pos - 1 : LastTable(i, "DHT", "ac", s.ta[k]) =>
              vlc["ac"][s.ta[k]] = pic.segs[i].v
        BY <1>1 DEF VlcOf, Classes
      <3> QED
        BY <2>1, <2>2, <3>1 DEF OwnTable
    <2>4. OwnTable("dc", c, s)
      <3>1. \A i \in 1 .. pos - 1 : LastTable(i, "DHT", "dc", s.td[k]) =>
              vlc["dc"][s.td[k]] = pic.segs[i].v
        BY <1>1 DEF VlcOf, Classes
      <3> QED
        BY <2>1, <2>2, <3>1 DEF OwnTable
    <2>5. pic.tq[c] \in 0 .. 3
      BY <1>1, <1>2
    <2> QED
      BY <2>1, <2>3, <2>4, <2>5 DEF QuantOf
  <1>3. tabs.cut => /\ Interleaved
                    /\ ~\E i \in 1 .. pos - 1 : LastTable(i, "DHT", "ac", 1 - Ta[1])
    <2> SUFFICES ASSUME tabs.cut, NEW i \in 1 .. pos - 1, LastTable(i, "DHT", "ac", 1 - Ta[1])
                 PROVE  FALSE
      BY DEF Loaded
    <2>1. 1 - Ta[1] \in TableIds
      BY DEF TypeF, TableIds
    <2>2. "none" = pic.segs[i].v
      BY <2>1 DEF VlcOf, Classes, Loaded
    <2>3. pic.segs[i].m = "DHT"
      BY DEF LastTable
    <2>0. i \in 1 .. Len(pic.segs)
      BY <1>0
    <2>4. pic.segs[i] \in Segment
      BY <1>0, <2>0, Segments
    <2>5. pic.segs[i].v \in Values
      BY <2>3, <2>4, SegTables
    <2> QED
      BY <2>2, <2>5, JpegHeadersAssumption
  <1> QED
    BY <1>2, <1>3 DEF ScanTables, s

\* What JpegDecInitHW loads.
LEMMA FirstLoad ==
    ASSUME InfoInv, FrameInv, RegsInv, TypeE, TypeF, TypeG, SelectsOf, StartHW, ~SliceReadyForPause
    PROVE  Loaded'
  <1> DEFINE s == pic.segs[pos - 1]
             r == [regs EXCEPT
              !.w = X \div 16, !.h = Y \div 16, !.mode = yCbCrMode,
              !.fillRight = fillRight, !.fillBottom = fillBottom, !.qTables = amountOfQTables,
              !.sliceH = sliceHeight', !.restart = Ri, !.ac = Selectors(Ta), !.dc = Selectors(Td)]
  <1>1. /\ pc = "start" /\ InScan /\ pic \in Pictures /\ pos - 1 \in 1 .. Len(pic.segs) /\ s.m = "SOS"
        /\ UNCHANGED <<pic, pos, quant, vlc, Ta, Td>>
    BY DEF StartHW, InScan, InfoInv, FrameInv, Places, input, tables, scan
  <1>2. /\ IF operationType = "BASELINE"
           THEN regs' = WriteLenBits(r) /\ tabs' = WriteTables
           ELSE regs' = WriteLenBitsNonInterleaved(r) /\ tabs' = WriteTablesNonInterleaved
    BY DEF StartHW, InitHW
  <1>3. /\ r.ac = Selectors(Ta) /\ r.dc = Selectors(Td) /\ DOMAIN r = DOMAIN NoRegs
        /\ r.acBits = regs.acBits /\ r.dcBits = regs.dcBits
    BY DEF RegsInv, NoRegs
  <1>4. Interleaved' <=> Interleaved
    BY <1>1 DEF Interleaved, CurrentScan
  <1>5. s' = s
    BY <1>1
  <1>6. /\ Ta \in [1 .. 3 -> TableIds] /\ Td \in [1 .. 3 -> TableIds]
        /\ \A id \in TableIds : "none" = vlc["ac"][id] \/ vlc["ac"][id] # "none"
    BY DEF TypeF
  <1> HIDE DEF r
  <1>7. /\ Len(s.comps) \in {1, 3}
        /\ Len(pic.sam) = 1 => Len(s.comps) = 1 /\ s.comps[1] = 1
        /\ \A k \in 1 .. Len(s.comps) : s.comps[k] \in 1 .. 3 /\ pic.tq[s.comps[k]] \in 0 .. 3
    BY <1>1, ScanComponents
  <1>8. CurrentScan = s.comps
    BY DEF CurrentScan
  <1>9. ASSUME NEW c, pic.tq[c] \in 0 .. 3, pic.tq[c] <= 1 PROVE QTable(c) = quant[pic.tq[c]]
    BY <1>9 DEF QTable
  <1> DEFINE Hw(t, sel, c) == IF Interleaved THEN t[1 + sel[c]] ELSE t[1]
             Holds(c) ==
       /\ Hw(tabs'.ac, regs'.ac, c) = vlc["ac"][Ta[c]]
       /\ Hw(regs'.acBits, regs'.ac, c) = vlc["ac"][Ta[c]]
       /\ Hw(tabs'.dc, regs'.dc, c) = vlc["dc"][Td[c]]
       /\ Hw(regs'.dcBits, regs'.dc, c) = vlc["dc"][Td[c]]
       /\ pic.tq[c] <= 1 => (IF Interleaved THEN tabs'.q[c] ELSE tabs'.q[1]) = quant[pic.tq[c]]
  <1>10. SUFFICES /\ \A k \in 1 .. Len(s.comps) : Holds(s.comps[k])
                  /\ tabs'.cut => Interleaved /\ vlc["ac"][1 - Ta[1]] = "none"
    BY <1>1, <1>4, <1>5 DEF Loaded, HwTable, HwQTable
  <1>11. CASE Interleaved
    <2>1. operationType = "BASELINE" /\ yCbCrMode = imageInfo.fmt
      BY <1>1, <1>11 DEF FrameInv, WholeOf
    <2>2. /\ regs'.acBits = ACTables /\ regs'.dcBits = DCTables
          /\ regs'.ac = Selectors(Ta) /\ regs'.dc = Selectors(Td) /\ tabs' = WriteTables
      BY <1>2, <1>3, <2>1 DEF WriteLenBits, NoRegs
    <2>3. /\ Len(pic.sam) = (IF imageInfo.fmt = "400" THEN 1 ELSE 3)
      BY <1>1, SecondReading, FormatFound
    <2>4. ASSUME NEW c \in 1 .. 3
          PROVE  /\ ACTables[1 + Selectors(Ta)[c]] = vlc["ac"][Ta[c]]
                 /\ DCTables[1 + Selectors(Td)[c]] = vlc["dc"][Td[c]]
                 /\ Selectors(Ta)[1] = 0 /\ Selectors(Td)[1] = 0
      BY <1>6, Selected DEF ACTables, DCTables
    <2>5. CASE yCbCrMode = "400"
      <3>1. Len(s.comps) = 1 /\ s.comps[1] = 1 /\ amountOfQTables = 1
        BY <1>7, <2>1, <2>3, <2>5 DEF SelectsOf
      <3>2. tabs' = [q |-> QPTables, ac |-> ACTableGrey, dc |-> DCTableGrey, cut |-> FALSE]
        BY <2>2, <2>5 DEF WriteTables
      <3>3. /\ tabs'.ac[1] = vlc["ac"][Ta[1]] /\ tabs'.dc[1] = vlc["dc"][Td[1]] /\ ~tabs'.cut
            /\ tabs'.q[1] = QTable(1)
        BY <3>1, <3>2 DEF ACTableGrey, DCTableGrey, QPTables
      <3>4. Holds(1)
        BY <1>4, <1>7, <1>9, <1>11, <2>2, <2>4, <3>1, <3>3
      <3>5. \A k \in 1 .. Len(s.comps) : s.comps[k] = 1
        BY <3>1
      <3> HIDE DEF Holds
      <3> QED
        BY <3>3, <3>4, <3>5
    <2>6. CASE yCbCrMode # "400"
      <3>1. amountOfQTables = 3 /\ Len(s.comps) = 3
        BY <1>8, <1>11, <2>1, <2>3, <2>6 DEF SelectsOf, Interleaved
      <3> DEFINE cut == ~Missing(ACTables[1]) /\ Missing(ACTables[2])
      <3>2. tabs' = [q |-> QPTables, ac |-> ACTables, dc |-> DCTables, cut |-> cut]
        BY <2>2, <2>6 DEF WriteTables
      <3>3. cut => vlc["ac"][1 - Ta[1]] = "none"
        BY DEF Missing, ACTables
      <3> HIDE DEF cut
      <3>4. tabs'.ac = ACTables /\ tabs'.dc = DCTables /\ tabs'.q = QPTables /\ (tabs'.cut => cut)
        BY <3>2, Zenon
      <3>5. ASSUME NEW c \in 1 .. 3, pic.tq[c] \in 0 .. 3 PROVE Holds(c)
        <4>1. tabs'.q[c] = QTable(c)
          BY <3>1, <3>4 DEF QPTables
        <4> QED
          BY <1>4, <1>9, <1>11, <2>2, <2>4, <3>4, <3>5, <4>1
      <3> QED
        BY <1>7, <1>11, <3>3, <3>4, <3>5
    <2> QED
      BY <2>5, <2>6
  <1>12. CASE ~Interleaved
    <2>1. operationType = "NONINTERLEAVED" /\ componentId = s.comps[1] /\ Len(s.comps) = 1
      BY <1>1, <1>8, <1>12 DEF FrameInv, OneScan, OneOf, Component
    <2>2. /\ regs'.acBits = [r.acBits EXCEPT ![1] = vlc["ac"][Ta[componentId]]]
          /\ regs'.dcBits = [r.dcBits EXCEPT ![1] = vlc["dc"][Td[componentId]]]
          /\ tabs' = WriteTablesNonInterleaved
      BY <1>2, <1>3, <2>1 DEF WriteLenBitsNonInterleaved, NoRegs
    <2>3. /\ regs'.acBits[1] = vlc["ac"][Ta[componentId]]
          /\ regs'.dcBits[1] = vlc["dc"][Td[componentId]]
      BY <1>3, <2>2 DEF TypeG
    <2>4. /\ tabs'.ac[1] = vlc["ac"][Ta[componentId]] /\ tabs'.dc[1] = vlc["dc"][Td[componentId]]
          /\ ~tabs'.cut /\ tabs'.q[1] = QTable(componentId)
      BY <2>2 DEF WriteTablesNonInterleaved
    <2>5. pic.tq[componentId] \in 0 .. 3 /\ \A k \in 1 .. Len(s.comps) : s.comps[k] = componentId
      BY <1>7, <2>1
    <2>6. Holds(componentId)
      BY <1>4, <1>7, <1>9, <1>12, <2>1, <2>3, <2>4, <2>5
    <2> HIDE DEF Holds
    <2> QED
      BY <2>4, <2>5, <2>6
  <1> QED
    BY <1>11, <1>12

\* Of the tables, what a step leaves.
LEMMA TablesKept ==
    ASSUME pic' = pic, pos' = pos
    PROVE  /\ (NoDHT' <=> NoDHT) /\ (Interleaved' <=> Interleaved)
           /\ vlc' = vlc => (VlcOf' <=> VlcOf)
           /\ quant' = quant => (QuantOf' <=> QuantOf)
           /\ UNCHANGED <<Ta, Td, amountOfQTables>> => (SelectsOf' <=> SelectsOf)
  <1>0. ASSUME NEW i, NEW m, NEW cl, NEW id
        PROVE  LastTable(i, m, cl, id)' <=> LastTable(i, m, cl, id)
    BY DEF LastTable
  <1>1. (NoDHT' <=> NoDHT) /\ (Interleaved' <=> Interleaved)
    BY DEF NoDHT, Interleaved, CurrentScan
  <1>2. vlc' = vlc => (VlcOf' <=> VlcOf)
    BY <1>0 DEF VlcOf
  <1>3. quant' = quant => (QuantOf' <=> QuantOf)
    BY <1>0 DEF QuantOf
  <1>4. UNCHANGED <<Ta, Td, amountOfQTables>> => (SelectsOf' <=> SelectsOf)
    BY DEF SelectsOf
  <1> QED
    BY <1>1, <1>2, <1>3, <1>4

LEMMA ScanTablesKept ==
    ASSUME pic' = pic, pos' = pos, Ta' = Ta, tabs' = tabs,
           regs'.ac = regs.ac, regs'.dc = regs.dc,
           regs'.acBits = regs.acBits, regs'.dcBits = regs.dcBits, ScanTables
    PROVE  ScanTables'
  <1>0. ASSUME NEW i, NEW m, NEW cl, NEW id
        PROVE  LastTable(i, m, cl, id)' <=> LastTable(i, m, cl, id)
    BY DEF LastTable
  <1>1. Interleaved' <=> Interleaved
    BY DEF Interleaved, CurrentScan
  <1>2. ASSUME NEW c, NEW s
        PROVE  /\ OwnTable("ac", c, s) => OwnTable("ac", c, s)'
               /\ OwnTable("dc", c, s) => OwnTable("dc", c, s)'
    BY <1>0, <1>1 DEF OwnTable, HwTable
  <1>3. ASSUME NEW c PROVE HwQTable(c)' = HwQTable(c)
    BY <1>1 DEF HwQTable
  <1> QED
    BY <1>0, <1>1, <1>2, <1>3 DEF ScanTables

LEMMA TablesStart ==
    /\ InfoInv /\ FrameInv /\ RegsInv /\ TypeInv /\ TablesInv /\ StartHW
    /\ InfoInv' /\ FrameInv' /\ TypeInv'
    => TablesInv'
  <1>0. (InfoInv /\ FrameInv /\ TypeF /\ InScan /\ VlcOf /\ QuantOf /\ SelectsOf /\ Loaded => ScanTables)'
    BY LoadedTables, PTL
  <1> SUFFICES ASSUME InfoInv, FrameInv, RegsInv, TypeInv, TablesInv, StartHW, InfoInv', FrameInv', TypeInv'
               PROVE  TablesInv'
    OBVIOUS
  <1>1. /\ pc = "start" /\ pc' = "hw" /\ InScan /\ InScan'
        /\ UNCHANGED <<pic, pos, quant, vlc, Ta, Td, amountOfQTables, left, findhufftable>>
        /\ SliceReadyForPause' = SliceReadyForPause
    BY DEF StartHW, InScan, input, tables, scan
  <1>2. /\ (VlcOf' <=> VlcOf) /\ (QuantOf' <=> QuantOf) /\ (SelectsOf' <=> SelectsOf)
        /\ (Interleaved' <=> Interleaved)
    BY <1>1, TablesKept
  <1>3. QuantOf /\ SelectsOf
    BY <1>1 DEF TablesInv
  <1>4. Fresh' => Fresh
    BY <1>1, <1>2 DEF Fresh
  <1>5. ASSUME ~left.pause, Interleaved \/ ~left.height PROVE ScanTables'
    <2>1. CASE SliceReadyForPause
      <3>1. ScanTables
        BY <1>1, <1>5, <2>1 DEF TablesInv, Written
      <3>2. regs' = [regs EXCEPT !.sliceH = sliceHeight'] /\ tabs' = tabs
        BY <2>1 DEF StartHW, InitHWContinue
      <3>3. /\ regs'.ac = regs.ac /\ regs'.dc = regs.dc
            /\ regs'.acBits = regs.acBits /\ regs'.dcBits = regs.dcBits
        BY <3>2 DEF RegsInv, NoRegs
      <3> QED
        BY <1>1, <3>1, <3>2, <3>3, ScanTablesKept
    <2>2. CASE ~SliceReadyForPause
      <3>1. Loaded'
        BY <1>3, <2>2, FirstLoad DEF TypeInv
      <3>2. VlcOf
        BY <1>1, <1>5, <2>2 DEF Fresh, TablesInv
      <3> QED
        BY <1>0, <1>1, <1>2, <1>3, <3>1, <3>2 DEF TypeInv
    <2> QED
      BY <2>1, <2>2
  <1> QED
    BY <1>1, <1>2, <1>3, <1>4, <1>5 DEF TablesInv, Written

\* A segment that is not a scan header.
LEMMA TablesRead ==
    ASSUME InfoInv, FrameInv, TypeF, TablesInv,
           ReadDQT \/ ReadDHT \/ ReadDRI \/ (ReadSOF /\ pc' # "idle")
    PROVE  TablesInv'
  <1>1. /\ pc \in {"read", "next"} /\ pc' = pc /\ pic' = pic /\ pos' = pos + 1 /\ left' = left
        /\ pos \in Nat /\ pos # 0 /\ pos \in 1 .. Len(pic.segs) /\ pic \in Pictures
    BY PictureOf DEF ReadDQT, ReadDHT, ReadDRI, ReadSOF, InLoop, input, InfoInv, FrameInv, Places
  <1>0. pos' - 1 = pos
    BY <1>1
  <1>2. Seg \in Segment /\ Seg = pic.segs[pos]
    BY <1>1, Segments DEF Seg
  <1>3. QuantOf /\ (Fresh /\ ~left.pause => VlcOf) /\ (pc = "read" /\ ~findhufftable => NoDHT)
    BY <1>1 DEF TablesInv
  <1>4. QuantOf'
    <2> SUFFICES ASSUME NEW id \in 0 .. 3, NEW i \in 1 .. pos, LastTable(i, "DQT", "", id)'
                 PROVE  quant'[id] = pic.segs[i].v
      BY <1>0, <1>1 DEF QuantOf
    <2>1. IF IsTable(pos, "DQT", "", id) THEN i = pos ELSE i \in 1 .. pos - 1 /\ LastTable(i, "DQT", "", id)
      BY <1>1, NextLast
    <2>2. CASE ReadDQT
      <3>1. quant' = [quant EXCEPT ![Seg.id] = Seg.v] /\ Seg.m = "DQT"
        BY <2>2 DEF ReadDQT
      <3>2. IsTable(pos, "DQT", "", id) <=> Seg.id = id
        BY <1>2, <3>1 DEF IsTable
      <3>3. quant \in [0 .. 3 -> Table]
        BY DEF TypeF
      <3>4. CASE Seg.id = id
        BY <1>2, <2>1, <3>1, <3>2, <3>3, <3>4
      <3>5. CASE Seg.id # id
        BY <1>3, <2>1, <3>1, <3>2, <3>3, <3>5 DEF QuantOf
      <3> QED
        BY <3>4, <3>5
    <2>3. CASE ~ReadDQT
      <3>1. quant' = quant /\ Seg.m # "DQT"
        BY <2>3 DEF ReadDHT, ReadDRI, ReadSOF, tables
      <3> QED
        BY <1>2, <1>3, <2>1, <3>1 DEF QuantOf, IsTable
    <2> QED
      BY <2>2, <2>3
  <1>5. ASSUME Fresh', ~left'.pause PROVE VlcOf'
    <2>0. VlcOf
      BY <1>1, <1>3, <1>5 DEF Fresh, InScan
    <2> SUFFICES ASSUME NEW cl \in Classes, NEW id \in TableIds, NEW i \in 1 .. pos,
                        LastTable(i, "DHT", cl, id)'
                 PROVE  vlc'[cl][id] = pic.segs[i].v
      BY <1>1 DEF VlcOf
    <2>1. IF IsTable(pos, "DHT", cl, id) THEN i = pos ELSE i \in 1 .. pos - 1 /\ LastTable(i, "DHT", cl, id)
      BY <1>1, NextLast
    <2>2. CASE ReadDHT
      <3>1. vlc' = [vlc EXCEPT ![Seg.cl][Seg.id] = Seg.v] /\ Seg.m = "DHT"
        BY <2>2 DEF ReadDHT
      <3>2. IsTable(pos, "DHT", cl, id) <=> Seg.id = id /\ Seg.cl = cl
        BY <1>2, <3>1 DEF IsTable
      <3>3. vlc \in [Classes -> [TableIds -> Table]] /\ Seg.cl \in Classes /\ Seg.id \in TableIds
        BY <1>2, <3>1, SegTables DEF TypeF
      <3>4. vlc'[cl][id] = IF Seg.id = id /\ Seg.cl = cl THEN Seg.v ELSE vlc[cl][id]
        BY <3>1, <3>3
      <3> QED
        BY <1>2, <2>0, <2>1, <3>2, <3>4 DEF VlcOf
    <2>3. CASE ~ReadDHT
      <3>1. vlc' = vlc /\ Seg.m # "DHT"
        BY <2>3 DEF ReadDQT, ReadDRI, ReadSOF, tables
      <3> QED
        BY <1>2, <2>0, <2>1, <3>1 DEF VlcOf, IsTable
    <2> QED
      BY <2>2, <2>3
  <1>6. ASSUME pc' = "read", ~findhufftable' PROVE NoDHT'
    <2>1. ~ReadDHT
      BY <1>1, <1>6 DEF ReadDHT
    <2>2. findhufftable' = findhufftable /\ Seg.m # "DHT"
      BY <2>1 DEF ReadDQT, ReadDRI, ReadSOF
    <2>3. NoDHT
      BY <1>1, <1>3, <1>6, <2>2
    <2> QED
      BY <1>1, <1>2, <2>2, <2>3 DEF NoDHT
  <1> QED
    BY <1>1, <1>4, <1>5, <1>6 DEF TablesInv, InScan, Written

\* A scan header.
LEMMA TablesSOS ==
    ASSUME InfoInv, FrameInv, RegsInv, TypeF, TablesInv, ReadSOS PROVE TablesInv'
  <1> DEFINE s == pic.segs[pos]
  <1>1. /\ pc \in {"read", "next"} /\ pc' = "start" /\ pic' = pic /\ pos' = pos + 1 /\ left' = left
        /\ pos \in Nat /\ pos # 0 /\ pos \in 1 .. Len(pic.segs) /\ pic \in Pictures
        /\ s.m = "SOS" /\ quant' = quant /\ SliceReadyForPause' = SliceReadyForPause
    BY PictureOf DEF ReadSOS, Seg, InLoop, input, slices, InfoInv, FrameInv, Places
  <1>2. /\ Len(s.comps) \in {1, 3}
        /\ Len(pic.sam) = 1 => Len(s.comps) = 1 /\ s.comps[1] = 1
        /\ \A k \in 1 .. Len(s.comps) :
             /\ s.comps[k] \in 1 .. 3 /\ s.ta[k] \in TableIds /\ s.td[k] \in TableIds
             /\ \A j \in 1 .. Len(s.comps) : s.comps[j] = s.comps[k] => j = k
    BY <1>1, ScanComponents
  <1>3. QuantOf /\ (Fresh /\ ~left.pause => VlcOf) /\ (pc = "read" /\ ~findhufftable => NoDHT)
    BY <1>1 DEF TablesInv
  <1>4. ASSUME NEW i \in 1 .. pos, NEW m \in {"DQT", "DHT"}, NEW cl, NEW id, LastTable(i, m, cl, id)'
        PROVE  i \in 1 .. pos - 1 /\ LastTable(i, m, cl, id)
    <2>1. ~IsTable(pos, m, cl, id)
      BY <1>1 DEF IsTable
    <2> QED
      BY <1>1, <1>4, <2>1, NextLast
  <1>5. QuantOf'
    <2>1. pos' - 1 = pos
      BY <1>1
    <2>2. \A id \in 0 .. 3, i \in 1 .. pos : LastTable(i, "DQT", "", id)' => quant[id] = pic.segs[i].v
      BY <1>3, <1>4 DEF QuantOf
    <2> QED
      BY <1>1, <2>1, <2>2 DEF QuantOf
  <1>6. pc = "next" => ~Interleaved'
    <2> SUFFICES ASSUME pc = "next" PROVE ~Interleaved'
      OBVIOUS
    <2>1. Len(pic.sam) = 3 /\ \E j \in 1 .. pos - 1 : pic.segs[j].m = "SOS"
      BY DEF FrameInv, Places, ScanRead
    <2>2. pic.sam \in OneByOne /\ Len(s.comps) = 1
      <3>1. \/ \A j \in 1 .. Len(pic.segs) : pic.segs[j].m = "SOS" => j = pos
            \/ pic.sam \in OneByOne /\ Len(s.comps) = 1
        BY <1>1, Segments
      <3> QED
        BY <1>1, <2>1, <3>1
    <2>3. CurrentScan' = s.comps
      BY <1>1 DEF CurrentScan
    <2>4. Len(CurrentScan') = 1 /\ Len(pic'.sam) = 3
      BY <1>1, <2>1, <2>2, <2>3
    <2> QED
      BY <2>4, SMT DEF Interleaved
  <1>7. ASSUME Fresh', ~left'.pause PROVE VlcOf'
    <2>1. CASE pc = "next" \/ findhufftable
      <3>1. Fresh
        BY <1>1, <1>6, <1>7, <2>1 DEF Fresh, InScan
      <3>2. vlc' = vlc
        BY <1>1, <2>1 DEF ReadSOS, DefaultTables
      <3>3. VlcOf /\ pos' - 1 = pos
        BY <1>1, <1>3, <1>7, <3>1
      <3>4. \A cl \in Classes, id \in TableIds, i \in 1 .. pos :
              LastTable(i, "DHT", cl, id)' => vlc[cl][id] = pic.segs[i].v
        BY <1>4, <3>3 DEF VlcOf
      <3> QED
        BY <1>1, <3>2, <3>3, <3>4 DEF VlcOf
    <2>2. CASE pc = "read" /\ ~findhufftable
      <3>1. NoDHT
        BY <1>3, <2>2
      <3>2. ASSUME NEW cl, NEW id, NEW i \in 1 .. pos PROVE ~LastTable(i, "DHT", cl, id)'
        <4>1. ~LastTable(i, "DHT", cl, id) \/ i = pos
          BY <3>1 DEF LastTable, NoDHT
        <4> QED
          BY <1>1, <1>4, <4>1
      <3> QED
        BY <1>1, <3>2 DEF VlcOf
    <2> QED
      BY <1>1, <2>1, <2>2
  <1>8. SelectsOf'
    <2>1. pic'.segs[pos' - 1] = s
      BY <1>1
    <2>2. amountOfQTables' = Len(s.comps)
      <3>1. CASE Len(s.comps) = 1 /\ Len(pic.sam) = 3
        BY <3>1 DEF ReadSOS, Seg, ScanOfOne
      <3>2. CASE ~(Len(s.comps) = 1 /\ Len(pic.sam) = 3)
        <4>1. amountOfQTables' = IF Len(s.comps) = 1 THEN 1 ELSE 3
          BY <3>2 DEF ReadSOS, Seg, ScanOfAll
        <4> QED
          BY <1>2, <4>1
      <3> QED
        BY <3>1, <3>2
    <2>3. Ta' = Selects(Ta, s.comps, s.ta) /\ Td' = Selects(Td, s.comps, s.td)
      BY DEF ReadSOS, Seg
    <2>4. ASSUME NEW k \in 1 .. Len(s.comps)
          PROVE  Ta'[s.comps[k]] = s.ta[k] /\ Td'[s.comps[k]] = s.td[k]
      <3>1. (CHOOSE i \in 1 .. Len(s.comps) : s.comps[i] = s.comps[k]) = k
        BY <1>2
      <3>2. s.comps[k] \in 1 .. 3
        BY <1>2
      <3> QED
        BY <2>3, <3>1, <3>2 DEF Selects
    <2> HIDE DEF s
    <2> QED
      BY <2>1, <2>2, <2>4 DEF SelectsOf
  <1>9. Written' /\ ~left'.pause => FALSE
    BY <1>1 DEF Written, RegsInv
  <1> QED
    BY <1>1, <1>5, <1>7, <1>8, <1>9 DEF TablesInv

\* The steps within a scan, and out of it.
LEMMA TablesScan ==
    ASSUME InfoInv, FrameInv, RegsInv, KindInv, HeightInv, TablesInv,
           SliceReady \/ Resume \/ BaselineDone \/ ScanDone \/ HwFails
    PROVE  TablesInv'
  <1>1. /\ InScan /\ UNCHANGED <<pic, pos, quant, Ta, Td, amountOfQTables, left, tabs>>
        /\ pc' \in {"again", "start", "next", "idle"} /\ regs' = regs
    BY DEF SliceReady, Resume, BaselineDone, ScanDone, HwFails, InScan, input, tables, scan, hw
  <1>2. /\ (QuantOf' <=> QuantOf) /\ (SelectsOf' <=> SelectsOf) /\ (Interleaved' <=> Interleaved)
        /\ vlc' = vlc => (VlcOf' <=> VlcOf)
    BY <1>1, TablesKept
  <1>3. ASSUME ScanTables PROVE ScanTables'
    BY <1>1, <1>3, ScanTablesKept
  <1>4. QuantOf' /\ SelectsOf'
    BY <1>1, <1>2 DEF TablesInv
  <1>5. ASSUME Written', ~left.pause, Interleaved \/ ~left.height PROVE ScanTables'
    <2>1. Written
      BY <1>1, <1>5 DEF Written, SliceReady, Resume, BaselineDone, ScanDone, HwFails
    <2> QED
      BY <1>3, <1>5, <2>1 DEF TablesInv
  <1>6. ASSUME Fresh', ~left'.pause PROVE VlcOf'
    <2>1. ~Interleaved /\ ~left.height
      <3>1. pc' = "next" => ScanDone
        BY <1>1 DEF SliceReady, Resume, BaselineDone, ScanDone, HwFails
      <3>2. ScanDone => ~Interleaved
        BY <1>1 DEF ScanDone, FrameInv, WholeOf
      <3>3. pc' = "start" => SliceReadyForPause'
        BY <1>1 DEF SliceReady, Resume, BaselineDone, ScanDone, HwFails, HeightInv, slices
      <3> QED
        BY <1>1, <1>2, <1>6, <3>1, <3>2, <3>3 DEF Fresh
    <2>2. ~Resume
      <3> SUFFICES ASSUME Resume PROVE FALSE
        OBVIOUS
      <3>1. pc = "again"
        BY DEF Resume
      <3>2. sliceMbSet = 0
        BY <2>1, <3>1 DEF KindInv, InScan
      <3> QED
        BY <2>1, <3>1, <3>2 DEF HeightInv
    <2>3. vlc' = vlc
      BY <2>2 DEF SliceReady, BaselineDone, ScanDone, HwFails, tables
    <2> QED
      BY <1>1, <1>2, <1>6, <2>1, <2>3 DEF TablesInv, Fresh
  <1> QED
    BY <1>1, <1>4, <1>5, <1>6, <1>2 DEF TablesInv

LEMMA StepTables ==
    /\ InfoInv /\ FrameInv /\ RegsInv /\ TypeInv /\ KindInv /\ HeightInv /\ TablesInv /\ [Next]_vars
    /\ InfoInv' /\ FrameInv' /\ TypeInv'
    => TablesInv'
  <1> SUFFICES ASSUME InfoInv, FrameInv, RegsInv, TypeInv, KindInv, HeightInv, TablesInv, [Next]_vars,
                      InfoInv', FrameInv', TypeInv'
               PROVE  TablesInv'
    OBVIOUS
  <1>0. TypeF
    BY DEF TypeInv
  <1>1. CASE (\E p \in Pictures : Submit(p)) \/ GetImageInfo \/ InfoUnsupported \/ Prepare
             \/ (Enter /\ pc' = "idle") \/ ReadEOI \/ (ReadSOF /\ pc' = "idle")
    <2>1. pc' \in {"info", "prepare", "enter", "idle"}
      BY <1>1 DEF Submit, GetImageInfo, InfoUnsupported, Prepare, ReadEOI
    <2> QED
      BY <2>1 DEF TablesInv, Fresh, InScan, Written
  <1>2. CASE Enter /\ pc' = "read"
    <2>1. pos' = 1
      BY <1>2 DEF Enter, FrameInv, Places
    <2>2. \A i : i \notin 1 .. pos' - 1
      BY <2>1
    <2>3. QuantOf' /\ VlcOf' /\ NoDHT'
      BY <2>2, Zenon DEF QuantOf, VlcOf, NoDHT
    <2> QED
      BY <1>2, <2>3 DEF TablesInv, InScan, Written
  <1>3. CASE ReadDQT \/ ReadDHT \/ ReadDRI \/ (ReadSOF /\ pc' # "idle")
    BY <1>0, <1>3, TablesRead
  <1>4. CASE ReadSOS
    BY <1>0, <1>4, TablesSOS
  <1>5. CASE StartHW
    BY <1>5, TablesStart
  <1>6. CASE SliceReady \/ Resume \/ BaselineDone \/ ScanDone \/ HwFails
    BY <1>6, TablesScan
  <1>7. CASE UNCHANGED vars
    <2>1. /\ UNCHANGED <<pc, pic, pos, quant, vlc, Ta, Td, amountOfQTables, left, tabs, regs>>
          /\ UNCHANGED <<findhufftable, SliceReadyForPause>>
      BY <1>7 DEF vars, input, scan, tables, hw, slices
    <2>2. /\ (NoDHT' <=> NoDHT) /\ (Interleaved' <=> Interleaved) /\ (VlcOf' <=> VlcOf)
          /\ (QuantOf' <=> QuantOf) /\ (SelectsOf' <=> SelectsOf)
      BY <2>1, TablesKept
    <2>3. ASSUME ScanTables PROVE ScanTables'
      BY <2>1, <2>3, ScanTablesKept
    <2>4. (Fresh' <=> Fresh) /\ (Written' <=> Written) /\ (InScan' <=> InScan)
      BY <2>1, <2>2 DEF Fresh, Written, InScan
    <2> QED
      BY <2>1, <2>2, <2>3, <2>4 DEF TablesInv
  <1>8. Enter => pc' = "idle" \/ pc' = "read"
    BY DEF Enter
  <1> QED
    BY <1>1, <1>2, <1>3, <1>4, <1>5, <1>6, <1>7, <1>8 DEF Next

LEMMA AlwaysTables == Spec => []TablesInv
  <1>1. Init => TablesInv
    BY DEF Init, TablesInv, Fresh, InScan, Written
  <1> QED
    BY <1>1, StepTables, AlwaysInfo, AlwaysFrame, AlwaysRegs, AlwaysType, AlwaysKind, AlwaysHeight,
       PTL DEF Spec

\* For every set of pictures: a picture is decoded with its own tables, and
\* with its own restart interval.
THEOREM OwnParametersThm == Spec => []OwnParameters
  <1>1. TablesInv => OwnTables
    BY DEF TablesInv, Written, Scanning, OwnTables
  <1> QED
    BY <1>1, AlwaysTables, OwnRestartThm, PTL DEF OwnParameters
=============================================================================
