---------------------------- MODULE HeightDecode ----------------------------
(***************************************************************************)
(* What becomes of the bytes of a heightfield: loadHeightfieldAsset reads  *)
(* a file into 16-bit samples and the range they stand for, three decoders *)
(* unpack heights from the channels of an image, computeRobustHeightRange  *)
(* finds the range of most of the heights, and they are normalized to      *)
(* samples again.  GpuDecode has the shaders that do the same.             *)
(*                                                                         *)
(* A byte has Base values, so that a sample has Base^2.  Heights are       *)
(* integers; a float that is no height is NoHeight.  The values of the      *)
(* histogram are multiples of Bins^MaxIters, on which its edges are exact. *)
(***************************************************************************)
EXTENDS Integers, Sequences, FiniteSets
LOCAL INSTANCE FiniteSetsExt

CONSTANTS
    Base,         \* values of a byte: 256
    Files,        \* files: [ext, bytes], the bytes <<>> if it cannot be read
    Images,       \* parsed images: [ext, format, pixels]
    HeightLists,  \* decoded heights: sequences of integers and NoHeight
    Height(_),    \* of four bytes, lowest first: the float32 they are, or NoHeight
    NoHeight,      \* NaN, infinities and the three sentinel heights
    Bins,         \* kBinCount
    GapBins,      \* kGapBinsMin
    OutlierShare, \* 1 / kOutlierMaxFrac
    MinCount,     \* fewer heights than this are never trimmed
    MaxIters      \* kMaxIters

ASSUME DecodeAssumption ==
    /\ {Base, Bins, GapBins, OutlierShare, MinCount, MaxIters} \subseteq Nat \ {0}
    /\ NoHeight \notin Int

VARIABLES
    job,     \* what is to be decoded
    result   \* what came of it, <<>> before
decode == <<job, result>>

Byte == 0 .. Base - 1
Full == Base * Base - 1      \* 65535
-----------------------------------------------------------------------------
(***************************************************************************)
(* heightfield_asset.cpp                                                   *)
(***************************************************************************)
Error == [success |-> FALSE]

LittleEndianOnly(hi, lo) == lo * Base + hi     \* mutant: bytes swapped

BigEndian(hi, lo) == hi * Base + lo

ReadU16(bytes, i, bigEndian) ==
    LET first == bytes[2 * i - 1]  second == bytes[2 * i] IN
    IF bigEndian THEN BigEndian(first, second) ELSE BigEndian(second, first)

ReadI16(bytes, i, bigEndian) ==
    LET u == ReadU16(bytes, i, bigEndian) IN
    IF 2 * u > Full THEN u - Full - 1 ELSE u

SrtmVoid == -((Full + 1) \div 2)

(* inferSquareDimensions: the sides a square of so many samples can have.  *)
SquareSides(samples) == {side \in 1 .. samples : side * side = samples}

Finite(values) == {values[i] : i \in DOMAIN values} \ {NoHeight}

(* normalizeFloatSamples, which rounds to the nearest sample.              *)
Nearest(v, min, range) == (2 * (v - min) * Full + range) \div (2 * range)

NormalizeFloatSamples(values, min, max) ==
    [i \in DOMAIN values |->
        IF max <= min \/ values[i] = NoHeight THEN 0
        ELSE Nearest(values[i], min, max - min)]

(* The SRTM loader: a void sample is no elevation, nor may all be void.    *)
LoadSrtmHgt(bytes) ==
    LET count  == Len(bytes) \div 2
        values == [i \in 1 .. count |->
                      LET v == ReadI16(bytes, i, TRUE) IN
                      IF v = SrtmVoid THEN NoHeight ELSE v]
        sound  == Finite(values) IN
    IF Len(bytes) % 2 # 0 \/ SquareSides(count) = {} \/ sound = {} THEN Error
    ELSE [success |-> TRUE, range |-> <<Min(sound), Max(sound)>>,
          samples |-> NormalizeFloatSamples(values, Min(sound), Max(sound))]

Unitless == <<"unitless">>     \* finalizeUnitless: heights 0 .. 0.3

(* loadRawR16 with the options the renderer has: unsigned, dimensions      *)
(* inferred.                                                               *)
LoadRawR16(bytes, bigEndian) ==
    LET count == Len(bytes) \div 2 IN
    IF Len(bytes) % 2 # 0 \/ SquareSides(count) = {} THEN Error
    ELSE [success |-> TRUE, range |-> Unitless,
          samples |-> [i \in 1 .. count |-> ReadU16(bytes, i, bigEndian)]]

Widen(byte) == byte * (Base + 1)     \* x 257: 0 to 0 and 255 to 65535

Luma(p) == (p.r * 299 + p.g * 587 + p.b * 114) \div 1000

(* loadImage; the payload for the GPU is kept if the pixels have 4 bytes   *)
(* and it is asked for, which loadImageData does where the GPU decodes.    *)
LoadImage(image) ==
    LET sample(p) ==
            CASE image.format = "R16" -> p
              [] image.format = "R8" -> Widen(p)
              [] OTHER -> Widen(Luma(p)) IN
    IF image.format = "other" THEN Error
    ELSE [success |-> TRUE, range |-> Unitless,
          samples |-> [i \in DOMAIN image.pixels |-> sample(image.pixels[i])],
          payload |-> image.format \in {"RGBA8", "BGRA8"}]

LoadHeightfieldAsset(file) ==
    CASE file.ext = "png" -> LoadImage(file)
      [] file.ext # "png" /\ file.bytes = <<>> -> Error
      [] file.ext = "hgt" /\ file.bytes # <<>> -> LoadSrtmHgt(file.bytes)
      [] file.ext \in {"raw", "r16be"} /\ file.bytes # <<>> ->
            LoadRawR16(file.bytes, file.ext = "r16be")

(* HeightfieldTextureLoader::loadImageData: a flat 1 x 1 map on failure.   *)
LoadImageData(file) ==
    LET loaded == LoadHeightfieldAsset(file) IN
    IF loaded.success THEN loaded
    ELSE [success |-> TRUE, range |-> <<0, 0>>, samples |-> <<0>>]
-----------------------------------------------------------------------------
(***************************************************************************)
(* The byte order of a packed height, lowest byte first                    *)
(***************************************************************************)
Reorder(b, orderId) ==
    CASE orderId % 4 = 0 -> b
      [] orderId % 4 = 1 -> <<b[3], b[2], b[1], b[4]>>
      [] orderId % 4 = 2 -> <<b[4], b[3], b[2], b[1]>>
      [] orderId % 4 = 3 -> <<b[4], b[1], b[2], b[3]>>

(* The memory of a pixel in the two layouts.                               *)
Memory(p, bgra) ==
    IF bgra THEN <<p.b, p.g, p.r, p.a>> ELSE <<p.r, p.g, p.b, p.a>>

(* kHeightfieldOrderIdBGRA and kHeightfieldOrderIdRGBA                     *)
OrderId(bgra) == IF bgra THEN 0 ELSE 1

(* decodeRGBAHeightfield reads the memory in the order of its layout.      *)
CpuPacked(p, bgra) == Reorder(Memory(p, bgra), OrderId(bgra))

(* decodeHeight of the shaders, to which a texel has its colours by name:  *)
(* the layout is told by orderId + 4.                                      *)
ShaderPacked(p, orderPacked) ==
    Reorder(IF orderPacked < 4 THEN <<p.b, p.g, p.r, p.a>> ELSE <<p.r, p.g, p.b, p.a>>,
            orderPacked)

(* decodePixel, whose b0 is the blue byte in both layouts.                 *)
PixelPacked(p, bgra) ==
    LET px == Memory(p, bgra)
        r  == px[IF bgra THEN 3 ELSE 1]
        b  == px[IF bgra THEN 1 ELSE 3] IN
    Reorder(<<b, px[2], r, px[4]>>, OrderId(bgra))
-----------------------------------------------------------------------------
(***************************************************************************)
(* The range of most of the heights and their samples                      *)
(***************************************************************************)
Count(values, Test(_)) ==
    Cardinality({i \in DOMAIN values : values[i] # NoHeight /\ Test(values[i])})

Budget(values) == Count(values, LAMBDA v : TRUE) \div OutlierShare

(* The bin of a height in lo .. hi, the last bin taking hi itself.         *)
Bin(v, lo, hi) == Min({Bins - 1, ((v - lo) * Bins) \div (hi - lo)})

(* The bins at which the walk from the left may cut: after a gap, with a   *)
(* cluster before it that is not empty and within the budget.  The walk    *)
(* stops at the first; the one from the right is its mirror image.         *)
LeftCuts(values, lo, hi, budget) ==
    {i \in GapBins .. Bins - 1 :
        LET bin(v) == Bin(v, lo, hi)
            in(v)  == v >= lo /\ v <= hi IN
        /\ Count(values, LAMBDA v : in(v) /\ bin(v) = i) > 0
        /\ Count(values, LAMBDA v : in(v) /\ bin(v) \in i - GapBins .. i - 1) = 0
        /\ Count(values, LAMBDA v : in(v) /\ bin(v) < i) \in 1 .. budget}

RightCuts(values, lo, hi, budget) ==
    {i \in 0 .. Bins - 1 - GapBins :
        LET bin(v) == Bin(v, lo, hi)
            in(v)  == v >= lo /\ v <= hi IN
        /\ Count(values, LAMBDA v : in(v) /\ bin(v) = i) > 0
        /\ Count(values, LAMBDA v : in(v) /\ bin(v) \in i + 1 .. i + GapBins) = 0
        /\ Count(values, LAMBDA v : in(v) /\ bin(v) > i) \in 1 .. budget}

BudgetKept(budget, trimmed) == budget     \* mutant: 5% per iteration

BudgetLeft(budget, trimmed) == IF trimmed < budget THEN budget - trimmed ELSE 0

(* One iteration on the range so far and the budgets of its two sides; the *)
(* search is over when nothing is cut, all would be, or nothing may be.    *)
Trim(values, s) ==
    LET lefts  == LeftCuts(values, s.lo, s.hi, s.left)
        rights == RightCuts(values, s.lo, s.hi, s.right)
        edge(i) == s.lo + ((s.hi - s.lo) * i) \div Bins
        lo == IF lefts = {} THEN s.lo ELSE edge(Min(lefts))
        hi == IF rights = {} THEN s.hi ELSE edge(Max(rights) + 1)
        below == Count(values, LAMBDA v : v >= s.lo /\ v < lo)
        above == IF rights = {} THEN 0
                 ELSE Count(values, LAMBDA v : v >= hi /\ v <= s.hi)
        left  == BudgetLeft(s.left, below)
        right == BudgetLeft(s.right, above) IN
    IF lefts \cup rights = {} \/ hi <= lo THEN [s EXCEPT !.over = TRUE]
    ELSE [lo |-> lo, hi |-> hi, left |-> left, right |-> right,
          over |-> left + right = 0]

(* computeRobustHeightRange                                                *)
RobustRange(values) ==
    LET raw    == Finite(values)
        start  == [lo |-> Min(raw), hi |-> Max(raw), left |-> Budget(values),
                   right |-> Budget(values), over |-> FALSE]
        trimmed[k \in 0 .. MaxIters] ==
            IF k = 0 THEN start
            ELSE IF trimmed[k - 1].over THEN trimmed[k - 1]
            ELSE Trim(values, trimmed[k - 1]) IN
    CASE raw = {} -> <<0, 0>>
      [] raw # {} /\ (Count(values, LAMBDA v : TRUE) < MinCount \/ Max(raw) <= Min(raw)) ->
            <<Min(raw), Max(raw)>>
      [] OTHER -> <<trimmed[MaxIters].lo, trimmed[MaxIters].hi>>

(* The clamped fraction n / range of Full, rounded down.                   *)
Fraction(n, range) ==
    IF n <= 0 THEN 0 ELSE IF n >= range THEN Full ELSE (n * Full) \div range

(* convertToUint16Heightfield: from the bottom of the range, invalid       *)
(* heights to the bottom.                                                  *)
ConvertToUint16(values) ==
    LET range == RobustRange(values) IN
    [i \in DOMAIN values |->
        IF range[2] <= range[1] \/ values[i] = NoHeight THEN 0
        ELSE Fraction(values[i] - range[1], range[2] - range[1])]

(* cs_heightfield_normalize.sc and cpuDecodeAndNormalizeHeightfield: from  *)
(* the bottom only if it is below 0, invalid heights to height 0.          *)
Normalized(values, minmax) ==
    LET shift == minmax[1] < 0
        range == IF shift THEN minmax[2] - minmax[1] ELSE minmax[2]
        zero  == IF shift THEN -minmax[1] ELSE 0 IN
    [i \in DOMAIN values |->
        IF minmax[2] <= minmax[1] \/ range <= 0 THEN 0
        ELSE IF values[i] = NoHeight THEN Fraction(zero, range)
        ELSE Fraction(values[i] + zero, range)]

CpuNormalized(values) ==
    LET sound == Finite(values) IN
    IF sound = {} THEN Normalized(values, <<0, 0>>)
    ELSE Normalized(values, <<Min(sound), Max(sound)>>)
-----------------------------------------------------------------------------
DecodeInit ==
    /\ result = <<>>
    /\ \/ \E f \in Files \cup Images : job = [kind |-> "file", file |-> f]
       \/ \E h \in HeightLists : job = [kind |-> "heights", heights |-> h]

LoadFile ==
    /\ job.kind = "file" /\ result = <<>>
    /\ result' = LoadImageData(job.file)
    /\ UNCHANGED job

ConvertHeights ==
    /\ job.kind = "heights" /\ result = <<>>
    /\ result' = [range |-> RobustRange(job.heights),
                  samples |-> ConvertToUint16(job.heights)]
    /\ UNCHANGED job

DecodeNext == LoadFile \/ ConvertHeights
-----------------------------------------------------------------------------
(***************************************************************************)
(* Properties                                                              *)
(***************************************************************************)

(* Elevations survive the loading of an SRTM file: it is loaded whenever   *)
(* it is a square with an elevation in it, the ends of the range occur in  *)
(* it, and the range and a sample restore an elevation to half a step;     *)
(* voids count neither way (docs/HEIGHTFIELD_FORMATS.md:18, "Big-endian    *)
(* signed 16-bit square grid. -32768 is treated as void").                 *)
SrtmElevation(i) ==
    LET u == job.file.bytes[2 * i - 1] * Base + job.file.bytes[2 * i] IN
    IF u < -SrtmVoid THEN u ELSE u - Base * Base

HeightsRestored ==
    result # <<>> /\ job.kind = "file" /\ job.file.ext = "hgt" =>
        LET size  == Len(job.file.bytes)
            given == {SrtmElevation(i) : i \in 1 .. size \div 2} \ {SrtmVoid}
            lo    == result.range[1]
            steps == result.range[2] - lo IN
        IF given = {} \/ size \notin {2 * n * n : n \in 1 .. size}
        THEN result.samples = <<0>>
        ELSE /\ {lo, lo + steps} \subseteq given
             /\ Len(result.samples) = size \div 2
             /\ \A i \in DOMAIN result.samples :
                   LET error == (SrtmElevation(i) - lo) * Full - result.samples[i] * steps IN
                   SrtmElevation(i) \in given => 2 * error \in -steps .. steps

(* However often it trims, computeRobustHeightRange leaves no more than    *)
(* its share of the heights out on either side ("5% per side across all    *)
(* iterations combined", terrain_cpu_compute.cpp:167), and keeps a range   *)
(* within which samples follow the heights.                                *)
BulkKept ==
    result # <<>> /\ job.kind = "heights" /\ Finite(job.heights) # {} =>
        LET h  == job.heights
            lo == result.range[1]
            hi == result.range[2] IN
        /\ Count(h, LAMBDA v : v < lo) <= Budget(h)
        /\ Count(h, LAMBDA v : v > hi) <= Budget(h)
        /\ lo = hi => Cardinality(Finite(h)) = 1
        /\ \A i, j \in DOMAIN h :
              h[i] # NoHeight /\ h[j] # NoHeight /\ h[i] <= h[j]
                => result.samples[i] <= result.samples[j]

(* No elevation is lost on the way from a file to the samples of a map.    *)
HeightsKept == HeightsRestored /\ BulkKept
=============================================================================
