------------------------------ MODULE JpegSizes ------------------------------
(***************************************************************************)
(* rkjpeg: what the decoder and its caller compute from the size and the   *)
(* sampling factors of a picture.  The same quantities are computed in     *)
(* several places: by JpegDecGetImageInfo (Info...), from the frame header *)
(* by JpegDecDecodeFrameHdr and JpegDecMode (Hdr...), and by               *)
(* pv_rkJpegdecoder_oneframe for the memory and the slices (Frame...).     *)
(* Each copy is translated on its own.                                     *)
(***************************************************************************)
EXTENDS Naturals, Sequences

\* jpegdeccontainer.h, JpegDecInit: what the hardware supports.
MinWidth  == 48
MinHeight == 48
MaxWidth  == 8176
MaxHeight == 8176
MaxPixelAmount   == 66846976
\* Above this, only slice by slice (JPEGDEC_MAX_PIXEL_AMOUNT).
MaxPixelsAtOnce  == 16370688
\* Of the decoder (maxSupportedSliceSize), and its copy in pv_jpegdec_api.cpp.
MaxSliceSize     == 8100
MaxSliceSize8190 == 8100

\* Rounding up to a multiple of k, a power of two: (n + k - 1) & ~(k - 1).
UpTo(n, k) == ((n + k - 1) \div k) * k

\* The sampling factors <<H, V>> of the components.
Formats == {"400", "420", "422", "440", "411", "444"}
Chroma  == <<1, 1>>
Pattern == [f \in Formats |->
  CASE f = "400" -> << <<1, 1>> >>
    [] f = "420" -> << <<2, 2>>, Chroma, Chroma >>
    [] f = "422" -> << <<2, 1>>, Chroma, Chroma >>
    [] f = "440" -> << <<1, 2>>, Chroma, Chroma >>
    [] f = "411" -> << <<4, 1>>, Chroma, Chroma >>
    [] f = "444" -> << <<1, 1>>, Chroma, Chroma >>]

SupportedSize(w, h) ==
  /\ MinWidth <= w /\ MinHeight <= h
  /\ w <= MaxWidth /\ h <= MaxHeight
  /\ w * h <= MaxPixelAmount

SupportedWidth(w, h) == w <= MaxWidth /\ w * h <= MaxPixelAmount

-----------------------------------------------------------------------------
\* JpegDecGetImageInfo.

InfoWidth(sam, X) ==
  LET w == UpTo(X, 16) IN
  IF sam = Pattern["411"] /\ w % 32 # 0 THEN w + 16 ELSE w

InfoHeight(Y) == UpTo(Y, 16)

InfoAccepts(sam, X, Y) ==
  /\ X >= 1 /\ Y >= 1
  /\ SupportedSize(UpTo(X, 16), InfoHeight(Y))
  /\ \E f \in Formats : sam = Pattern[f]
  /\ sam = Pattern["411"] => SupportedWidth(InfoWidth(sam, X), InfoHeight(Y))

InfoFormat(sam) == CHOOSE f \in Formats : sam = Pattern[f]

InfoMcuWidth  == [f \in Formats |->
  CASE f \in {"420", "422"} -> 16 [] f = "411" -> 32 [] OTHER -> 8]
InfoMcuPixels == [f \in Formats |->
  CASE f \in {"420", "411"} -> 256 [] f \in {"422", "440"} -> 128 [] OTHER -> 64]

InfoMcuInRow(f, w)      == w \div InfoMcuWidth[f]
InfoMcuInFrame(f, w, h) == (w * h) \div InfoMcuPixels[f]

-----------------------------------------------------------------------------
\* JpegDecDecodeFrameHdr, for the samplings it accepts: H and V of the first
\* component are the largest.

Hmax == [f \in Formats |-> Pattern[f][1][1]]
Vmax == [f \in Formats |-> Pattern[f][1][2]]

HdrWidth(f, X) ==
  LET w == UpTo(X, 16) IN IF Hmax[f] = 4 /\ w % 32 # 0 THEN w + 16 ELSE w

HdrHeight(Y) == UpTo(Y, 16)

\* The sampling factors of a single component do not matter.
HdrAccepts(sam, X, Y) ==
  /\ X >= 1 /\ Y >= 1
  /\ SupportedSize(UpTo(X, 16), HdrHeight(Y))
  /\ Len(sam) = 1 \/ \E f \in Formats : sam = Pattern[f]
  /\ Len(sam) = 3 /\ sam[1][1] = 4 => SupportedWidth(HdrWidth("411", X), HdrHeight(Y))

HdrFormat(sam) == IF Len(sam) = 1 THEN "400" ELSE CHOOSE f \in Formats : sam = Pattern[f]

HdrMcuInRow(f, w) == UpTo(w, 8 * Hmax[f]) \div (8 * Hmax[f])
HdrMcuInFrame(f, w, h) ==
  HdrMcuInRow(f, w) * (UpTo(h, 8 * Vmax[f]) \div (8 * Vmax[f]))

\* Bytes of the luma plane and of both chroma planes.
HdrLuma(f, w, h) == UpTo(w, 8 * Hmax[f]) * UpTo(h, 8 * Vmax[f])
HdrChroma(f, w, h) ==
  IF f = "400" THEN 0
  ELSE 2 * ((UpTo(w, 8 * Hmax[f]) \div Hmax[f]) * (UpTo(h, 8 * Vmax[f]) \div Vmax[f]))

\* JpegDecMode: the planes of one slice.
SliceLuma(f, w, mbs) == w * (mbs * 16)
SliceChroma(f, w, mbs) ==
  CASE f = "400" -> 0
    [] f \in {"420", "411"} -> SliceLuma(f, w, mbs) \div 2
    [] f \in {"422", "440"} -> SliceLuma(f, w, mbs)
    [] f = "444" -> SliceLuma(f, w, mbs) * 2

\* JpegDecMode: the last block column, or row, of a 16 pixel macroblock is
\* not coded.
HalfFilled_upTo7(n) == n % 16 \in 1 .. 7
HalfFilled(n) == n % 16 \in 1 .. 8
FillsRight(f)  == f \in {"400", "440", "444"}
FillsBottom(f) == f \in {"400", "422", "411", "444"}

-----------------------------------------------------------------------------
\* pv_rkJpegdecoder_oneframe.

\* The size of the post-processor's picture, which is semiplanar 4:2:0.
FrameWidth(w)     == IF w > 1920 THEN UpTo(w, 16) ELSE UpTo(w, 8)
FrameHeight(w, h) == IF w > 1920 THEN UpTo(h, 16) ELSE UpTo(h, 2)

\* The memory it is given, and that of a picture in its own format.
FrameConverted(w, h) == FrameWidth(w) * FrameHeight(w, h) * 2
FrameOriginal(f, w, h) ==
  LET size == UpTo(w, 16) * UpTo(h, 16) IN
  CASE f = "400" -> size
    [] f = "420" -> (size * 3) \div 2
    [] f \in {"422", "440", "411"} -> size * 2
    [] f = "444" -> size * 3

FrameMcuInRow(f, w) ==
  w \div (CASE f \in {"400", "444", "440"} -> 8
            [] f \in {"420", "422"} -> 16
            [] f = "411" -> 32)

\* jpegIn.sliceMbSet: the first count, from one on, to which no other row
\* can be added.
McuSizeDivider(f) == IF f \in {"400", "440", "444"} THEN 2 ELSE 1
IsSliceMbSet_over(s, row) ==
  /\ s >= 1 /\ s * row >= MaxSliceSize8190
  /\ \A t \in 1 .. s - 1 : t * row < MaxSliceSize8190
IsSliceMbSet(s, row) ==
  /\ s >= 1 /\ s * row + row >= MaxSliceSize8190
  /\ \A t \in 1 .. s - 1 : t * row + row < MaxSliceSize8190
FrameSliceMbSet(f, w, h) ==
  IF w * h <= MaxPixelsAtOnce THEN 0
  ELSE CHOOSE s \in 1 .. MaxSliceSize8190 :
         IsSliceMbSet(s, FrameMcuInRow(f, w) \div McuSizeDivider(f))
=============================================================================
