----------------------------- MODULE MemPImage -----------------------------
(***************************************************************************)
(* MemPImage of image.go: images of one to four channels of one or two     *)
(* bytes, the images cut out of them and the images of Go's library they   *)
(* turn into and are made from.  Several of them may look at one array, so *)
(* an image is a slice (buf, start) of the heap.  All these slices reach to*)
(* the end of their array, and the machine is little-endian.               *)
(*                                                                         *)
(* A channel of a colour is a pair <<high byte, low byte>>, as RGBA()      *)
(* returns it.                                                             *)
(***************************************************************************)
EXTENDS Integers, Sequences, FiniteSets

CONSTANTS
    Rects,      \* the rectangles of new images
    Cuts,       \* what SubImage is asked for
    Kinds,      \* the channels and bytes per channel of new images, pairs
    Colours,    \* colours to paint with
    Overflow,   \* what, besides its low byte, Go may make of a number too large for a byte
    MaxImages,  \* bound: images alive
    MaxCalls    \* bound: calls made

\* Rectangles as image.Rect makes them.  Images that begin left of column 0 are left out: there,
\* whether a row is copied or indexes out of range depends on the capacity that append chose.
ASSUME RectsAssumption ==
    /\ \A r \in Rects : r \in [x0 : Nat, y0 : Int, x1 : Int, y1 : Int] /\ r.x0 <= r.x1 /\ r.y0 <= r.y1
    /\ Cuts \subseteq [x0 : Int, y0 : Int, x1 : Int, y1 : Int]
    /\ Kinds \subseteq (1 .. 4) \X {1, 2} /\ Overflow \subseteq 0 .. 255

VARIABLES
    heap,       \* the arrays behind the slices, sequences of bytes
    images,     \* the images the caller has got
    ipc,        \* "ok", or "panic" after a slice out of range
    painted,    \* history: for each picture, what was painted at each point
    calls       \* history: the number of calls

ivars == <<heap, images, ipc, painted, calls>>

Full == <<255, 255>>

\* Painted with a conversion that does not keep colours.
Unclear == [r |-> <<>>, g |-> <<>>, b |-> <<>>, a |-> <<>>]

Points(r) == (r.x0 .. r.x1 - 1) \X (r.y0 .. r.y1 - 1)

Larger(a, b)  == IF a > b THEN a ELSE b
Smaller(a, b) == IF a < b THEN a ELSE b

Intersect(r, s) ==
    [x0 |-> Larger(r.x0, s.x0), y0 |-> Larger(r.y0, s.y0),
     x1 |-> Smaller(r.x1, s.x1), y1 |-> Smaller(r.y1, s.y1)]

-----------------------------------------------------------------------------
\* Pixels.  The images of the library keep the high byte first, MemPImage the native order.
Order(type) == IF type = "MemP" THEN "native" ELSE "big"

Swapped(pix) == [i \in DOMAIN pix |-> pix[IF i % 2 = 1 THEN i + 1 ELSE i - 1]]

InOrder(order, size, value) ==
    CASE size = 1 -> <<value[1]>>
      [] size = 2 /\ order = "big" -> value
      [] OTHER -> <<value[2], value[1]>>

PixelOf(channels, size, order, colour) ==
    LET value == <<colour.r, colour.g, colour.b, colour.a>>
    IN  [i \in 1 .. channels * size |->
            InOrder(order, size, value[((i - 1) \div size) + 1])[((i - 1) % size) + 1]]

\* MemPColor.RGBA, and RGBA of the library's colours.
RGBA(channels, size, order, pix) ==
    LET byte(k, i) == pix[(k - 1) * size + i]
        value(k) == CASE size = 1 -> <<byte(k, 1), byte(k, 1)>>
                      [] size = 2 /\ order = "big" -> <<byte(k, 1), byte(k, 2)>>
                      [] OTHER -> <<byte(k, 2), byte(k, 1)>>
    IN  [r |-> value(1),
         g |-> IF channels = 1 THEN value(1) ELSE value(2),
         b |-> CASE channels = 1 -> value(1) [] channels = 2 -> Full [] OTHER -> value(3),
         a |-> IF channels = 4 THEN value(4) ELSE Full]

\* What an image of this kind can hold of a colour.
Held(channels, size, colour) ==
    RGBA(channels, size, "big", PixelOf(channels, size, "big", colour))

\* The colour with the two bytes of each channel exchanged.
Turned(colour) ==
    LET exchanged(value) == <<value[2], value[1]>>
    IN  [r |-> exchanged(colour.r), g |-> exchanged(colour.g),
         b |-> exchanged(colour.b), a |-> exchanged(colour.a)]

IsGray(colour) == colour.r = colour.g /\ colour.g = colour.b

-----------------------------------------------------------------------------
\* Where a pixel is.
SizeofPixel(m) == m.channels * m.size

PixOffset(m, x, y) == (y - m.rect.y0) * m.stride + (x - m.rect.x0) * SizeofPixel(m)

Pix(m) == SubSeq(heap[m.buf], m.start + 1, Len(heap[m.buf]))

PixelAt(m, pt) == SubSeq(Pix(m), PixOffset(m, pt[1], pt[2]) + 1, PixOffset(m, pt[1], pt[2]) + SizeofPixel(m))

Seen(m, pt) == RGBA(m.channels, m.size, Order(m.type), PixelAt(m, pt))

\* copy(p.XPix[i:][:n], pix)
Store(m, pt, pix) ==
    LET at == m.start + PixOffset(m, pt[1], pt[2])
    IN  heap' = [heap EXCEPT ![m.buf] =
                    [i \in DOMAIN @ |-> IF i - at \in DOMAIN pix THEN pix[i - at] ELSE @[i]]]

Zeros(n) == [i \in 1 .. n |-> 0]

-----------------------------------------------------------------------------
\* SetValue of a byte: byte(v) of a float64.  What does not fit is up to the compiler.
ByteOf(value) == IF value[1] = 0 THEN {value[2]} ELSE {value[2]} \cup Overflow

Narrowed(values) ==
    {pix \in [DOMAIN values -> UNION {ByteOf(values[k]) : k \in DOMAIN values}] :
        \A k \in DOMAIN values : pix[k] \in ByteOf(values[k])}

\* colorModelConvert, the pixels it may give.  Colours of the library: two bytes are stored with
\* the high one first, one byte is the high one.  Two channels go through SetValue: two bytes
\* are stored natively, and one byte is what byte() leaves of both.
ConvertColour(channels, size, colour) ==
    CASE channels = 2 /\ size = 1 -> Narrowed(<<colour.r, colour.g>>)
      [] channels = 2 /\ size = 2 -> {PixelOf(channels, size, "native", colour)}
      [] OTHER -> {PixelOf(channels, size, "big", colour)}

\* What that shows as, read in the native order.
ShownAs(channels, size, colour) ==
    CASE channels = 2 /\ size = 1 ->
            IF colour.r[1] = 0 /\ colour.g[1] = 0 THEN Held(channels, size, Turned(colour)) ELSE Unclear
      [] channels # 2 /\ size = 2 -> Held(channels, size, Turned(colour))
      [] OTHER -> Held(channels, size, colour)

\* Colours of a MemPImage: the bytes as they are when only the channels differ, else value by
\* value, one byte as the low one of two.
ConvertMemP(channels, size, m, pix) ==
    IF size = 1 /\ m.size = 2
    THEN Narrowed([k \in 1 .. channels |->
                      IF k <= m.channels THEN <<pix[2 * k], pix[2 * k - 1]>> ELSE <<0, 0>>])
    ELSE {[i \in 1 .. channels * size |->
              IF size = m.size
              THEN IF i <= Len(pix) THEN pix[i] ELSE 0
              ELSE IF i % 2 = 1 /\ (i + 1) \div 2 <= m.channels THEN pix[(i + 1) \div 2] ELSE 0]}

SameKind(m, p) == m.type = "MemP" /\ m.channels = p.channels /\ m.size = p.size

-----------------------------------------------------------------------------
IInit == heap = <<>> /\ images = <<>> /\ ipc = "ok" /\ painted = <<>> /\ calls = 0

Calls == ipc = "ok" /\ calls < MaxCalls /\ calls' = calls + 1

\* A new image with an array and a picture of its own.
Made(type, channels, size, r, pix, picture) ==
    /\ Len(images) < MaxImages
    /\ heap' = Append(heap, pix)
    /\ painted' = Append(painted, picture)
    /\ images' = Append(images,
          [type |-> type, channels |-> channels, size |-> size, rect |-> r,
           stride |-> (r.x1 - r.x0) * channels * size,
           buf |-> Len(heap) + 1, start |-> 0, picture |-> Len(painted) + 1])
    /\ UNCHANGED ipc

NewMemPImage(r, channels, size) ==
    LET n == (r.y1 - r.y0) * (r.x1 - r.x0) * channels * size
    IN  /\ Calls
        /\ Made("MemP", channels, size, r, Zeros(n),
                [pt \in Points(r) |-> RGBA(channels, size, "native", Zeros(channels * size))])

\* External: a caller's image of one colour; "YCbCr" and "Other" stand for the types whose
\* pixels NewMemPImageFrom asks for one by one.
Arrives(type, r, colour) ==
    LET channels == IF type = "Gray16" THEN 1 ELSE 4
        size     == IF type = "YCbCr" THEN 1 ELSE 2
        pixel    == PixelOf(channels, size, "big", colour)
        n        == (r.y1 - r.y0) * (r.x1 - r.x0) * Len(pixel)
    IN  /\ Calls /\ (type = "Gray16" => IsGray(colour))
        /\ Made(type, channels, size, r, [i \in 1 .. n |-> pixel[((i - 1) % Len(pixel)) + 1]],
                [pt \in Points(r) |-> Held(channels, size, colour)])

Picture(m) == [pt \in Points(m.rect) |-> painted[m.picture][pt]]

\* Another image of the same array.
Shares(m, start) ==
    /\ Len(images) < MaxImages
    /\ images' = Append(images, [m EXCEPT !.start = start])
    /\ UNCHANGED <<heap, painted, ipc>>

\* Another image of a new array, the old one from the image's first byte.
Copies(m, pix) ==
    /\ Len(images) < MaxImages
    /\ heap' = Append(heap, pix)
    /\ painted' = Append(painted, Picture(m))
    /\ images' = Append(images,
          [m EXCEPT !.buf = Len(heap) + 1, !.start = 0, !.picture = Len(painted) + 1])
    /\ UNCHANGED ipc

\* Mutant: the clone keeps the slice.
CloneSlice(m) ==
    /\ Len(images) < MaxImages
    /\ painted' = Append(painted, Picture(m))
    /\ images' = Append(images, [m EXCEPT !.picture = Len(painted) + 1])
    /\ UNCHANGED <<heap, ipc>>

Clone(m) == Copies(m, Pix(m))

SubImage(m, r) ==
    LET s == Intersect(r, m.rect)
    IN  /\ Calls /\ m.type \notin {"YCbCr", "Other"}
        /\ IF Points(s) = {}
           THEN Shares([m EXCEPT !.channels = 0, !.size = 0, !.stride = 0,
                                 !.rect = [x0 |-> 0, y0 |-> 0, x1 |-> 0, y1 |-> 0]],
                       Len(heap[m.buf]))
           ELSE Shares([m EXCEPT !.rect = s], m.start + PixOffset(m, s.x0, s.y0))

\* Two channels, three, and none stay as they are: StdImage returns the image itself.
StdImage(m) ==
    /\ Calls /\ m.type = "MemP" /\ m.channels \in {1, 4}
    /\ IF m.size = 1
       THEN Shares([m EXCEPT !.type = IF m.channels = 1 THEN "Gray" ELSE "RGBA"], m.start)
       ELSE Copies([m EXCEPT !.type = IF m.channels = 1 THEN "Gray16" ELSE "RGBA64"], Swapped(Pix(m)))

AsMemPImage(m) ==
    /\ Calls /\ m.type \in {"Gray", "RGBA"}
    /\ Shares([m EXCEPT !.type = "MemP"], m.start)

-----------------------------------------------------------------------------
\* NewMemPImageFrom, by the type of the image.
FromShared(m) ==
    /\ m.type \in {"MemP", "Gray", "RGBA"}
    /\ Clone([m EXCEPT !.type = "MemP"])

\* Mutant: a row must not be the last.
InsideStrictly(at, n, length) == at >= 0 /\ at + n < length

\* slice[at:][:n], which may not go past the capacity.
Inside(at, n, length) == at >= 0 /\ at + n <= length

\* Rows of 16-bit images are copied from the offset of column 0, which is in the image only
\* if its left edge is there, in both images.
FromRows(m) ==
    LET width   == (m.rect.x1 - m.rect.x0) * SizeofPixel(m)
        p       == [m EXCEPT !.stride = width]
        size    == (m.rect.y1 - m.rect.y0) * width
        from(y) == PixOffset(m, 0, y)
        fits    == \A y \in m.rect.y0 .. m.rect.y1 - 1 :
                       /\ Inside(from(y), m.stride, Len(Pix(m)))
                       /\ Inside(PixOffset(p, 0, y), width, size)
        pix     == [i \in 1 .. size |->
                       Pix(m)[from(m.rect.y0 + ((i - 1) \div width)) + ((i - 1) % width) + 1]]
    IN  /\ m.type \in {"Gray16", "RGBA64"}
        /\ Len(images) < MaxImages
        /\ IF fits
           THEN Copies([p EXCEPT !.type = "MemP"], Swapped(pix))
           ELSE ipc' = "panic" /\ UNCHANGED <<heap, images, painted>>

\* Pixel by pixel: one byte per channel, or two with the high one first, as Set stores them.
FromPixels(m) ==
    /\ m.type \in {"YCbCr", "Other"}
    /\ Made("MemP", 4, m.size, m.rect, Pix(m),
            [pt \in Points(m.rect) |->
                LET was == painted[m.picture][pt]
                IN  IF m.size = 1 \/ was = Unclear THEN was ELSE Turned(was)])

NewMemPImageFrom(m) == Calls /\ (FromShared(m) \/ FromRows(m) \/ FromPixels(m))

CloneImage(m) == Calls /\ m.type = "MemP" /\ Clone(m)

-----------------------------------------------------------------------------
Paint(m, pt, pix, colour) ==
    /\ IF pt \in Points(m.rect)
       THEN /\ Store(m, pt, pix)
            /\ painted' = [painted EXCEPT ![m.picture][pt] = colour]
       ELSE UNCHANGED <<heap, painted>>
    /\ UNCHANGED <<images, ipc>>

\* Set with a colour of the library.  The luminance of colours that are not gray is left out.
Set(m, pt, colour) ==
    /\ Calls /\ m.type \notin {"YCbCr", "Other"} /\ (m.channels = 1 => IsGray(colour))
    /\ IF m.type = "MemP"
       THEN \E pix \in ConvertColour(m.channels, m.size, colour) :
                Paint(m, pt, pix, ShownAs(m.channels, m.size, colour))
       ELSE Paint(m, pt, PixelOf(m.channels, m.size, "big", colour), Held(m.channels, m.size, colour))

SetPixel(m, pt, colour) ==
    /\ Calls /\ m.type = "MemP"
    /\ Paint(m, pt, PixelOf(m.channels, m.size, "native", colour), Held(m.channels, m.size, colour))

\* Set with what At returned for a MemPImage: a view of the pixel, read when it is used.
SetAt(m, pt, from, at) ==
    /\ Calls /\ m.type = "MemP" /\ from.type = "MemP" /\ at \in Points(from.rect)
    /\ \E pix \in ConvertMemP(m.channels, m.size, from, PixelAt(from, at)) :
          Paint(m, pt, pix, IF SameKind(from, m) THEN painted[from.picture][at] ELSE Unclear)

INext ==
    \/ \E r \in Rects, kind \in Kinds : NewMemPImage(r, kind[1], kind[2])
    \/ \E type \in {"Gray16", "YCbCr", "Other"}, r \in Rects, c \in Colours : Arrives(type, r, c)
    \/ \E i \in DOMAIN images :
          \/ CloneImage(images[i]) \/ StdImage(images[i])
          \/ AsMemPImage(images[i]) \/ NewMemPImageFrom(images[i])
          \/ \E r \in Cuts : SubImage(images[i], r)
          \/ \E pt \in UNION {Points(r) : r \in Rects}, c \in Colours :
                Set(images[i], pt, c) \/ SetPixel(images[i], pt, c)
          \/ \E pt \in UNION {Points(r) : r \in Rects}, j \in DOMAIN images :
                \E at \in Points(images[j].rect) : SetAt(images[i], pt, images[j], at)

ImageSpec == IInit /\ [][INext]_ivars

-----------------------------------------------------------------------------
\* Every image shows at each point what was last painted there through any image of the same
\* picture, and nothing that was painted on a copy or next to it.  A 16-bit colour of the
\* library set on a MemPImage, or copied into one pixel by pixel, shows with the bytes of its
\* channels exchanged, unless there are two channels: colorModelConvert stores the high byte
\* first, and At reads natively.  Excepted are the points painted with numbers cut to a byte
\* or with a pixel of another kind.
SeenAsPainted ==
    \A i \in DOMAIN images :
        LET m == images[i]
        IN  \A pt \in Points(m.rect) :
                painted[m.picture][pt] # Unclear => Seen(m, pt) = painted[m.picture][pt]

\* Making an image from one of the library indexes out of range only if that one holds two
\* bytes per channel and does not begin at column 0.
PanicOnlyOffColumnZero ==
    ipc = "panic" => \E i \in DOMAIN images :
        images[i].type \in {"Gray16", "RGBA64"} /\ images[i].rect.x0 # 0
=============================================================================
