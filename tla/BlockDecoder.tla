---------------------------- MODULE BlockDecoder ----------------------------
(***************************************************************************)
(* DecodeImage and DecodeImageBlock (reader.go): an image is allocated     *)
(* after the tags of an IFD, and the samples of its blocks become its      *)
(* pixels, block after block, row after row (tiff_ifd_block.go).           *)
(*                                                                         *)
(* The data of a block is kept by bit position: where a sample starts,     *)
(* which sample it is.  What the image holds then tells of every pixel     *)
(* which samples it was made from.                                         *)
(***************************************************************************)
EXTENDS BlockGeometry, ImageTags, Sequences, FiniteSets

CONSTANTS
    Ifds,       \* layouts with the tags that say how the samples are stored
    Requests,   \* WholeImage, or the column and row of one block
    WholeImage,
    Cuts        \* bytes a block can decompress to less than it should

\* The getters return zero for a tag that is not there, and BitsPerSample holds shorts.
ASSUME IfdAssumption ==
    \A p \in Ifds :
        /\ IsLayout(p)
        /\ p.bits \in Seq(Nat) /\ p.predictor \in BOOLEAN
        /\ p.tiled <=> "TileWidth" \in p.tags
        /\ "TileWidth" \notin p.tags => p.tileWidth = 0
        /\ "TileLength" \notin p.tags => p.tileLength = 0

ASSUME CutsAssumption == Cuts \subseteq Nat

VARIABLES
    ifd, request,   \* the call
    pc,             \* "open", "block", "rows", or how the call ended
    image,          \* its Go type and its bounds
    pixels,         \* its contents
    block,          \* the block being decoded: <<col, row>>
    data, size,     \* the samples of that block, and its length in bits
    y, cursor       \* the next row, and where the data is read on

vars == <<ifd, request, pc, image, pixels, block, data, size, y, cursor>>

---------------------------------------------------------------------------
(* How decodeBlock reads the samples of a pixel.                           *)

FaxPixels(p) == ImageType(p) \in Grays /\ p.fax /\ Depth(p) = 1

\* The image type the loop for these samples asserts.
AssertedImage(p) ==
    CASE ImageType(p) \in Grays           -> IF FaxPixels(p) THEN "Gray" ELSE Sized(p, "Gray", "Gray16")
      [] ImageType(p) = "Paletted"        -> "Paletted"
      [] ImageType(p) = "NRGBA"           -> Sized(p, "NRGBA", "NRGBA64")
      [] ImageType(p) \in {"RGB", "RGBA"} -> Sized(p, "RGBA", "RGBA64")

\* Samples for a pixel, and bits for a sample.
SamplesRead(p) ==
    IF ImageType(p) = "RGB" THEN 3 ELSE IF ImageType(p) \in {"RGBA", "NRGBA"} THEN 4 ELSE 1

BitsRead(p) ==
    IF FaxPixels(p) THEN 8
    ELSE IF ImageType(p) \in Grays \cup {"Paletted"} THEN Depth(p)
    ELSE IF Depth(p) = 16 THEN 16 ELSE 8

PixelBits(p) == SamplesRead(p) * BitsRead(p)

\* The row gives the offset; else the data is read on from where the last row ended.
Addressed(p) ==
    FaxPixels(p) \/ (ImageType(p) \in {"RGB", "RGBA", "NRGBA"} /\ Depth(p) # 16)

\* Rows that are copied must be there as a whole.
CopiesRows(p) == ImageType(p) \in {"RGBA", "NRGBA"} /\ Depth(p) # 16

DividesByDepth(p) == ImageType(p) \in Grays /\ ~ FaxPixels(p) /\ Depth(p) = 0

Inverts(p) == ImageType(p) = "GrayInvert" /\ ~ FaxPixels(p)

---------------------------------------------------------------------------
(* What the file holds, as TIFF 6.0 lays it out: external.                 *)

FileBlock(p, col, row) ==
    IF p.tiled
    THEN Rect(col * p.tileWidth, row * p.tileLength, (col + 1) * p.tileWidth, (row + 1) * p.tileLength)
    ELSE LET strip == IF p.rowsPerStrip \in 1 .. p.height THEN p.rowsPerStrip ELSE p.height
             below == (row + 1) * strip
         IN  Rect(0, row * strip, p.width, IF below < p.height THEN below ELSE p.height)

\* Group 4 data decompresses to a byte for each pixel.
FileDepth(p)    == IF p.fax THEN 8 ELSE Depth(p)
FileChannels(p) == IF p.fax THEN 1 ELSE Channels(p)

\* A row starts on a byte.
FileRowBits(p, b) == 8 * DivUp((b.maxX - b.minX) * FileChannels(p) * FileDepth(p), 8)
FileBits(p, b)    == (b.maxY - b.minY) * FileRowBits(p, b)

Sample(x, row, c) == [x |-> x, y |-> row, c |-> c, diff |-> FALSE]
Garbage           == [x |-> -1, y |-> -1, c |-> -1, diff |-> FALSE]

\* The samples of a block that is bits long, at the places they start.
FileSamples(p, b, bits) ==
    LET depth  == FileDepth(p)
        rowLen == FileRowBits(p, b)
        used   == (b.maxX - b.minX) * FileChannels(p) * depth
        nth(k) == (k % rowLen) \div depth
        starts == {k \in 0 .. bits - depth : (k % rowLen) < used /\ (k % rowLen) % depth = 0}
    IN  IF depth = 0 \/ used = 0 THEN << >>
        ELSE [k \in starts |->
                LET x == b.minX + nth(k) \div FileChannels(p)
                IN  [Sample(x, b.minY + k \div rowLen, 1 + (nth(k) % FileChannels(p))) EXCEPT
                        !.diff = p.predictor /\ x > b.minX]]

---------------------------------------------------------------------------
(* decodePredictor: every sample but the first of a row was a difference.  *)

Added(left, v) ==
    IF v.diff /\ left = Sample(v.x - 1, v.y, v.c) THEN [v EXCEPT !.diff = FALSE] ELSE Garbage

\* The samples that are added to, by number: the first pixel of a row is not.
Summed(p, b) ==
    LET line == (b.maxX - b.minX) * Channels(p)
    IN  {k \in 0 .. (b.maxY - b.minY) * line - 1 : (k % line) >= Channels(p)}

PredictorFails(p, b, bits) ==
    Depth(p) \notin {8, 16} \/ \E k \in Summed(p, b) : (k + 1) * Depth(p) > bits

PredictorSums(p, b, raw) ==
    LET sum[k \in {n \div Depth(p) : n \in DOMAIN raw}] ==
            IF k \in Summed(p, b)
            THEN Added(sum[k - Channels(p)], raw[k * Depth(p)]) ELSE raw[k * Depth(p)]
    IN  [n \in DOMAIN raw |-> sum[n \div Depth(p)]]

---------------------------------------------------------------------------
Blank == [samples |-> <<>>, inverted |-> FALSE]

AllBlank(r) == [at \in (r.minX .. r.maxX - 1) \X (r.minY .. r.maxY - 1) |-> Blank]

Init ==
    /\ ifd \in Ifds /\ request \in Requests
    /\ pc = "open"
    /\ image = [type |-> "none", bounds |-> Rect(0, 0, 0, 0)]
    /\ pixels = AllBlank(Rect(0, 0, 0, 0))
    /\ block = <<0, 0>>
    /\ data = << >> /\ size = 0 /\ y = 0 /\ cursor = 0

Fail(how) == pc' = how /\ UNCHANGED <<ifd, request, image, pixels, block, data, size, y, cursor>>

Allocate(r, first, next) ==
    /\ image' = [type |-> NewImage(ifd), bounds |-> r]
    /\ pixels' = AllBlank(r)
    /\ block' = first /\ pc' = next
    /\ UNCHANGED <<ifd, request, data, size, y, cursor>>

DecodeImage ==
    /\ pc = "open" /\ request = WholeImage
    /\ IF ImageConfig(ifd) = "error" \/ NewImage(ifd) = "error" THEN Fail("error")
       ELSE Allocate(Rect(0, 0, ifd.width, ifd.height), <<0, 0>>,
                     IF BlocksAcross(ifd) > 0 /\ BlocksDown(ifd) > 0 THEN "block" ELSE "done")

DecodeImageBlock ==
    /\ pc = "open" /\ request # WholeImage
    /\ IF NewImage(ifd) = "error" THEN Fail("error")
       ELSE Allocate(BlockBounds(ifd, request[1], request[2]), request, "block")

Blocks(p)        == BlocksAcross(p) * BlocksDown(p)
Bounds           == BlockBounds(ifd, block[1], block[2])
BitsInFile(n)    == IF ifd.counts # Blocks(ifd) THEN 0 ELSE n
InFile           == FileBlock(ifd, block[1], block[2])

\* The block is read from where the offsets say, decompressed, and summed up.
DecodeBlock ==
    /\ pc = "block" /\ IsBlock(ifd, block[1], block[2])
    /\ \E cut \in Cuts :
          LET full == FileBits(ifd, InFile)
              bits == BitsInFile(IF full > 8 * cut THEN full - 8 * cut ELSE 0)
              read == FileSamples(ifd, InFile, bits)
              raw  == IF ifd.offsets = Blocks(ifd) THEN read ELSE [k \in DOMAIN read |-> Garbage]
          IN  IF ifd.predictor /\ PredictorFails(ifd, Bounds, bits) THEN Fail("error")
              ELSE /\ data' = IF ifd.predictor THEN PredictorSums(ifd, Bounds, raw) ELSE raw
                   /\ size' = bits
                   /\ y' = Bounds.minY /\ cursor' = 0
                   /\ pc' = IF AssertedImage(ifd) = image.type THEN "rows" ELSE "panic"
                   /\ UNCHANGED <<ifd, request, image, pixels, block>>

\* There is no such block, or it cannot be read or decompressed.
DecodeBlockFails == pc = "block" /\ Fail("error")

Lesser(a, b) == IF a < b THEN a ELSE b
RMaxX == Lesser(Lesser(Bounds.maxX, image.bounds.maxX), ifd.width)
RMaxY == Lesser(Lesser(Bounds.maxY, image.bounds.maxY), ifd.height)

\* Mutant: the rows are as long as the image, not as the block.
RowStartClipped ==
    IF Addressed(ifd) THEN (y - Bounds.minY) * (RMaxX - Bounds.minX) * PixelBits(ifd) ELSE cursor

\* Where the row starts in the data, and where its i-th pixel ends.
RowStart ==
    IF Addressed(ifd) THEN (y - Bounds.minY) * (Bounds.maxX - Bounds.minX) * PixelBits(ifd) ELSE cursor
PixelEnd(i) == RowStart + i * PixelBits(ifd)

\* Mutant: data that ends with the pixel is too short for it.
RoomStrictly(i) == PixelEnd(IF CopiesRows(ifd) THEN Bounds.maxX - Bounds.minX ELSE i) < size

\* The checks against the length of the data.
Room(i) == PixelEnd(IF CopiesRows(ifd) THEN Bounds.maxX - Bounds.minX ELSE i) <= size

RowWidth == RMaxX - Bounds.minX
Readable == {i \in 1 .. RowWidth : Room(i)}

\* The pixel's samples; a place where no sample of this length starts holds none.
PixelAt(i) ==
    LET from(c) == PixelEnd(i - 1) + (c - 1) * BitsRead(ifd)
    IN  [ samples  |-> [c \in 1 .. SamplesRead(ifd) |->
                           IF from(c) \in DOMAIN data /\ BitsRead(ifd) = FileDepth(ifd)
                           THEN data[from(c)] ELSE Garbage],
          inverted |-> Inverts(ifd) ]

RowWritten ==
    [at \in DOMAIN pixels |->
        IF at[2] = y /\ at[1] + 1 - Bounds.minX \in Readable
        THEN PixelAt(at[1] + 1 - Bounds.minX) ELSE pixels[at]]

AtRow == pc = "rows" /\ y < RMaxY

DecodeRow ==
    /\ AtRow /\ ~ (DividesByDepth(ifd) /\ RowWidth > 0)
    /\ Cardinality(Readable) = RowWidth
    /\ pixels' = RowWritten
    /\ y' = y + 1
    /\ cursor' = IF Addressed(ifd) THEN cursor ELSE 8 * DivUp(PixelEnd(RowWidth), 8)
    /\ UNCHANGED <<ifd, request, pc, image, block, data, size>>

\* The data ends within the row: an error, or for fax pixels an index out of range.
RowTooShort ==
    /\ AtRow /\ ~ DividesByDepth(ifd)
    /\ Cardinality(Readable) < RowWidth
    /\ pixels' = RowWritten
    /\ pc' = IF FaxPixels(ifd) THEN "panic" ELSE "short"
    /\ UNCHANGED <<ifd, request, image, block, data, size, y, cursor>>

\* The largest value of no bits is zero, and the value is divided by it.
DivideByZero == AtRow /\ DividesByDepth(ifd) /\ RowWidth > 0 /\ Fail("panic")

\* Columns outside, rows inside.
NextBlock ==
    /\ pc = "rows" /\ y >= RMaxY
    /\ LET col == block[1]  row == block[2]
       IN  IF request # WholeImage THEN pc' = "done" /\ UNCHANGED block
           ELSE IF row + 1 < BlocksDown(ifd) THEN pc' = "block" /\ block' = <<col, row + 1>>
           ELSE IF col + 1 < BlocksAcross(ifd) THEN pc' = "block" /\ block' = <<col + 1, 0>>
           ELSE pc' = "done" /\ UNCHANGED block
    /\ UNCHANGED <<ifd, request, image, pixels, data, size, y, cursor>>

Next == \/ DecodeImage \/ DecodeImageBlock \/ DecodeBlock \/ DecodeBlockFails
        \/ DecodeRow \/ RowTooShort \/ DivideByZero \/ NextBlock

Spec == Init /\ [][Next]_vars

---------------------------------------------------------------------------
(* Properties.                                                             *)

\* The rows of the data are as long as the code assumes: those of a block that the edge of the
\* image cuts are, as far as they are read on from, only if no byte of them is left over.
SamplesFit  == /\ SamplesRead(ifd) = FileChannels(ifd)
               /\ BitsRead(ifd) = FileDepth(ifd) /\ FileDepth(ifd) > 0
RowsFit(b)  == Addressed(ifd) \/ LET right == Lesser(b.maxX, ifd.width)
                                 IN  DivUp((right - b.minX) * PixelBits(ifd), 8)
                                     = DivUp((b.maxX - b.minX) * PixelBits(ifd), 8)

\* The differences are summed over as many channels as the data has: Group 4 data has one.
SumsFit == ifd.predictor => Channels(ifd) = FileChannels(ifd)

FromSamples(at) ==
    [ samples  |-> [c \in 1 .. SamplesRead(ifd) |-> Sample(at[1], at[2], c)],
      inverted |-> ifd.photometric = "WhiteIsZero" /\ Depth(ifd) >= 8 ]

\* decodeBlock, decodePredictor, BlockBounds: every pixel that is written is made from its own
\* samples, in their order, whole and undone of the predictor, whatever block it lies in; gray
\* levels of 8 bits and more are inverted where white is zero.  Blocks of which the code loses
\* the rows (RowsFit), samples it takes for others, sums over channels that are not there and a
\* wrong number of offsets are excepted.
PixelsFromTheirSamples ==
    SamplesFit /\ SumsFit /\ ifd.offsets = Blocks(ifd) =>
    \A at \in DOMAIN pixels : pixels[at] # Blank =>
        \E col \in 0 .. BlocksAcross(ifd) - 1, row \in 0 .. BlocksDown(ifd) - 1 :
            LET b == FileBlock(ifd, col, row)
            IN  Within(b, at[1], at[2]) /\ (RowsFit(b) => pixels[at] = FromSamples(at))

\* TestDecode: an image in tiles has the same pixels as in strips (decoder_test.go:118-144),
\* wherever the tiles end.
TilesLikeStrips ==
    SamplesFit /\ ifd.offsets = Blocks(ifd) =>
    \A at \in DOMAIN pixels : pixels[at] # Blank => pixels[at] = FromSamples(at)

\* DecodeImage, DecodeImageBlock: a call that returns no error has written every pixel of the
\* image it returns that lies in the image of the file.
CompleteOrError ==
    pc = "done" /\ Proper(ifd) =>
    \A at \in DOMAIN pixels : at[1] < ifd.width /\ at[2] < ifd.height => pixels[at] # Blank

\* BlockBounds, decodeBlock: no block writes a pixel that another has written.
WritesOnce ==
    [][\A at \in DOMAIN pixels : pixels[at] # Blank => pixels'[at] = pixels[at]]_vars

\* decodeBlock panics only where nothing checks: gray samples without a common depth, and Group 4
\* data with fewer pixels than the block (never over the type of the image it was given).
PanicOnlyUnchecked ==
    pc = "panic" => DividesByDepth(ifd) \/ (FaxPixels(ifd) /\ size < FileBits(ifd, InFile))

\* decodeBlock: "not enough pixel data" is said only of a block that is shorter than its rows.
ErrorOnlyWhenShort == pc = "short" /\ SamplesFit => size < FileBits(ifd, InFile)

\* ImageConfig, newImageWithIFD: what DecodeConfig announces is what Decode returns, for an
\* image with pixels (without any, nothing notices gray samples of different depths).
ConfigForetells ==
    pc = "done" /\ request = WholeImage /\ Proper(ifd) /\ DOMAIN pixels # {}
    => ImageConfig(ifd) = image.type
=============================================================================
