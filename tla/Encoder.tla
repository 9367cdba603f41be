-------------------------------- MODULE Encoder --------------------------------
(***************************************************************************)
(* Encode (encoder.go): the header, the pixels and the directory of one    *)
(* image, as one Write after the other to a writer that may fail.          *)
(*                                                                         *)
(* An image is [type, dx, dy, x0, right, below]: its Go type and size, and *)
(* the columns to its left and right and the rows below it in the image it *)
(* was cut from by SubImage.  Its Pix is what the parent holds from its    *)
(* first pixel on, the bytes numbered from Base: they are no digits.       *)
(***************************************************************************)
EXTENDS TagGetters, ImageTags

CONSTANTS
    Images,
    PaletteSize,    \* colours of a ColorMap: 256
    Palette         \* the colours of a paletted image, as levels

\* The types that Encode tells apart; "Other" goes through At and RGBA.
GoTypes == {"Paletted", "Gray", "Gray16", "RGBA", "NRGBA", "RGBA64", "NRGBA64", "Other"}

\* An image without pixels has no parent: SubImage gives the zero image for an empty rectangle.
ASSUME ImagesAssumption ==
    \A m \in Images :
        /\ m.type \in GoTypes
        /\ {m.dx, m.dy, m.x0, m.right, m.below} \subseteq Nat
        /\ m.dx * m.dy = 0 => m.x0 = 0 /\ m.right = 0 /\ m.below = 0

\* A palette is indexed by a byte, and a level has two.
ASSUME PaletteAssumption ==
    /\ PaletteSize \in Nat \ {0}
    /\ Palette \in Seq([1 .. 3 -> 0 .. Power[2] - 1]) /\ Len(Palette) <= PaletteSize

VARIABLES
    img,            \* the argument
    pc,             \* the Write that comes next, or how the call ended
    out,            \* what the writer has taken
    y,              \* rows written
    at,             \* entries written
    field,          \* the value field of writeIFD's buffer
    area            \* the values that do not fit their entries

encoderVars == <<img, pc, out, y, at, field, area>>

LE(v, n) == Encoded("II", v, n)

Classic == [order |-> "II", big |-> FALSE]

---------------------------------------------------------------------------
(* The image.  SubImage and the layout of Pix are the image package's.     *)

\* Bytes for a pixel, as imageLen is computed.
PixelSize(t) ==
    CASE t \in {"Paletted", "Gray"}   -> 1
      [] t = "Gray16"                 -> 2
      [] t \in {"RGBA64", "NRGBA64"}  -> 8
      [] OTHER                        -> 4

ImageLen(m) == m.dx * m.dy * PixelSize(m.type)

Stride(m) == (m.x0 + m.dx + m.right) * PixelSize(m.type)
PixLen(m) == IF m.dx * m.dy = 0 THEN 0 ELSE Stride(m) * (m.dy + m.below) - m.x0 * PixelSize(m.type)

\* A row of the image in Pix; of the 16-bit types, whose samples are big-endian there, as written.
RowLen(m) == m.dx * PixelSize(m.type)
PixRow(m, r) == [k \in 1 .. RowLen(m) |-> Base + r * Stride(m) + k]

SwappedPairs(bytes) == [k \in DOMAIN bytes |-> bytes[IF k % 2 = 1 THEN k + 1 ELSE k - 1]]

Deep == {"Gray16", "RGBA64", "NRGBA64"}

Row16(m, r) == IF m.type \in Deep THEN SwappedPairs(PixRow(m, r)) ELSE PixRow(m, r)

---------------------------------------------------------------------------
(* The entries.                                                            *)

Field(tag, t, values) == [tag |-> tag, type |-> t, values |-> values]

Alpha(m) == CASE m.type \in {"NRGBA", "NRGBA64"}           -> 2
              [] m.type \in {"Paletted", "Gray", "Gray16"} -> 0
              [] OTHER                                     -> 1

Bits(m) ==
    LET depth == IF m.type \in Deep THEN 16 ELSE 8
    IN  IF Alpha(m) = 0 THEN <<depth>> ELSE <<depth, depth, depth, depth>>

Photometric(m) ==
    CASE m.type = "Paletted"          -> 3
      [] m.type \in {"Gray", "Gray16"} -> 1
      [] OTHER                        -> 2

\* Red levels, then green, then blue; what the palette lacks is black.
ColorMap ==
    [k \in 1 .. 3 * PaletteSize |->
        LET i == 1 + ((k - 1) % PaletteSize)
        IN  IF i <= Len(Palette) THEN Palette[i][1 + ((k - 1) \div PaletteSize)] ELSE 0]

\* What every image has.
CommonEntries(m) ==
    << Field("ImageWidth", "Short", <<m.dx>>),
       Field("ImageLength", "Short", <<m.dy>>),
       Field("BitsPerSample", "Short", Bits(m)),
       Field("Compression", "Short", <<1>>),
       Field("PhotometricInterpretation", "Short", <<Photometric(m)>>),
       Field("StripOffsets", "Long", <<8>>),
       Field("SamplesPerPixel", "Short", <<Len(Bits(m))>>),
       Field("RowsPerStrip", "Short", <<m.dy>>),
       Field("StripByteCounts", "Long", <<ImageLen(m)>>),
       Field("XResolution", "Rational", <<72, 1>>),
       Field("YResolution", "Rational", <<72, 1>>),
       Field("ResolutionUnit", "Short", <<2>>) >>

Entries(m) ==
    CommonEntries(m)
    \o (IF m.type = "Paletted" THEN <<Field("ColorMap", "Short", ColorMap)>> ELSE <<>>)
    \o (IF Alpha(m) > 0 THEN <<Field("ExtraSamples", "Short", <<Alpha(m)>>)>> ELSE <<>>)

\* By tag: the k-th is the one with k tags up to its own.
Sorted[m \in Images] ==
    LET es  == Entries(m)
        row == [i \in DOMAIN es |-> Row(es[i].tag)]
    IN  [k \in DOMAIN es |-> es[CHOOSE i \in DOMAIN es : Cardinality({j \in DOMAIN es : row[j] <= row[i]}) = k]]

\* ifdEntry.putData: a rational is two numbers.
PutData(e) == EncodedAll("II", e.values, IF e.type = "Rational" THEN 4 ELSE ByteSize(e.type))

FieldCount(e) == IF e.type = "Rational" THEN Len(e.values) \div 2 ELSE Len(e.values)

---------------------------------------------------------------------------
EncoderInit ==
    /\ img \in Images
    /\ pc = "magic" /\ out = <<>>
    /\ y = 0 /\ at = 0 /\ field = <<0, 0, 0, 0>> /\ area = <<>>

\* A Write takes all of the bytes, or some and fails; Encode returns the error.
Write(bytes, next) ==
    \/ out' = out \o bytes /\ pc' = next
    \/ /\ \E n \in {0, Len(bytes) \div 2, Len(bytes) - 1} : out' = out \o SubSeq(bytes, 1, n)
       /\ pc' = "error"

WriteMagic == /\ pc = "magic" /\ Write(ByteOrderMark("II") \o LE(42, 2), "offset")
              /\ UNCHANGED <<img, y, at, field, area>>

WriteOffset == /\ pc = "offset" /\ Write(LE(ImageLen(img) + 8, 4), "pixels")
               /\ UNCHANGED <<img, y, at, field, area>>

\* The types that writePix writes, and whether it writes the rows as one.
ByBytes(m) == m.type \in {"Paletted", "Gray", "RGBA", "NRGBA"}
Together(m) == ByBytes(m) /\ RowLen(m) = Stride(m)

WritePix == /\ pc = "pixels" /\ Together(img)
            /\ Write(FlattenSeq([r \in 1 .. img.dy |-> PixRow(img, r - 1)]), "count")
            /\ UNCHANGED <<img, y, at, field, area>>

\* Mutant: the bytes of a sample stay in the order of the image.
RowAsHeld(m, r) == PixRow(m, r)

RowWritten(m, r) == Row16(m, r)

WriteRow == /\ pc \in {"pixels", "row"} /\ ~ Together(img)
            /\ y < img.dy
            /\ Write(RowWritten(img, y), IF ByBytes(img) THEN "advance" ELSE "row")
            /\ y' = y + 1
            /\ UNCHANGED <<img, at, field, area>>

\* Mutant: a row that ends with Pix cannot be left behind.
StrideStrictlyFits == Stride(img) < PixLen(img) - (y - 1) * Stride(img)

StrideFits == Stride(img) <= PixLen(img) - (y - 1) * Stride(img)

\* pix = pix[stride:], after the last row, too.
Advance == /\ pc = "advance"
           /\ pc' = IF StrideFits THEN "row" ELSE "panic"
           /\ UNCHANGED <<img, out, y, at, field, area>>

WriteCount == /\ \/ pc = "count"
                 \/ pc \in {"pixels", "row"} /\ ~ Together(img) /\ y = img.dy
              /\ Write(LE(Len(Sorted[img]), 2), "entry")
              /\ UNCHANGED <<img, y, at, field, area>>

AreaStart == ImageLen(img) + 8 + 12 * Len(Sorted[img]) + 6

\* Mutant: the values start where the entries end.
FieldBeforeNext(e) ==
    LET data == PutData(e)
    IN  IF Len(data) <= 4 THEN data \o SubSeq(field, Len(data) + 1, 4) ELSE LE(AreaStart - 4 + Len(area), 4)

\* The buffer is used for every entry: a short value leaves the bytes of the last one behind it.
NextField(e) ==
    LET data == PutData(e)
    IN  IF Len(data) <= 4 THEN data \o SubSeq(field, Len(data) + 1, 4) ELSE LE(AreaStart + Len(area), 4)

WriteEntry ==
    /\ pc = "entry" /\ at < Len(Sorted[img])
    /\ LET e == Sorted[img][at + 1]
       IN  /\ field' = NextField(e)
           /\ area' = IF Len(PutData(e)) <= 4 THEN area ELSE area \o PutData(e)
           /\ Write(LE(Row(e.tag), 2) \o LE(TypeCode[e.type], 2) \o LE(FieldCount(e), 4) \o field', "entry")
    /\ at' = at + 1
    /\ UNCHANGED <<img, y>>

WriteNext == /\ pc = "entry" /\ at = Len(Sorted[img])
             /\ Write(LE(0, 4), "area")
             /\ UNCHANGED <<img, y, at, field, area>>

WriteArea == /\ pc = "area" /\ Write(area, "done")
             /\ UNCHANGED <<img, y, at, field, area>>

EncoderNext == \/ WriteMagic \/ WriteOffset \/ WritePix \/ WriteRow \/ Advance
               \/ WriteCount \/ WriteEntry \/ WriteNext \/ WriteArea
=============================================================================
