---------------------------- MODULE SlicesProofs ----------------------------
(***************************************************************************)
(* The slices of bytes that are shared and grown: the array of the         *)
(* buffering writer and the arrays of pixels behind images.                *)
(*                                                                         *)
(* The writer: the buffer is what Write has said it took, no more and no   *)
(* less, and Close delivers a prefix of it.  grow keeps only what lies     *)
(* before the offset; the argument is that it grows   *)
(* only when the bytes to be written reach past everything else, and that  *)
(* the slice and the offset never leave the array.                         *)
(*                                                                         *)
(* The images: every image shows what was last painted through any image   *)
(* of its picture.  The argument: all images of an array are cut out of    *)
(* the first image made on it and keep its stride and type (Rooted), so a  *)
(* point has one place in the array whichever image it is reached through, *)
(* and two points of that first image never share a byte.  Images that     *)
(* copy are new arrays; the two that do not are the two that are cut out.  *)
(* Where a conversion swaps bytes it also names the order to read them in. *)
(***************************************************************************)
EXTENDS SeekWriter, MemPImage, TLAPS, SequenceTheorems

-----------------------------------------------------------------------------
\* The buffering writer.

\* The inductive invariant: slice and offset are within the array, and what was accepted is there.
WInv ==
    /\ mem \in Seq(Bytes)
    /\ len \in 0 .. Len(mem) /\ off \in 0 .. Len(mem) /\ off <= MaxOffset
    /\ accepted \in [0 .. MaxOffset - 1 -> Bytes]
    /\ AcceptedIsKept

LEMMA InitWInv == WInit => WInv
  BY SeekWriterAssumption DEF WInit, WInv, AcceptedIsKept

LEMMA WriteWInv ==
  ASSUME WInv, NEW d \in Data, Write(d)
  PROVE  WInv'
<1> DEFINE n     == off + Len(d)
           mem1  == IF Grows(n) THEN Grown(n) ELSE mem
           len1  == IF Grows(n) THEN n ELSE len
           taken == IF Len(d) < len1 - off THEN Len(d) ELSE len1 - off
<1>1. CASE off > len1
  BY <1>1 DEF Write, Panic, WInv, AcceptedIsKept, writer
<1>2. CASE ~ (off > len1)
  <2>1. d \in Seq(Bytes) /\ Len(d) \in Nat \ {0}
    BY SeekWriterAssumption
  <2>2. /\ \A i \in 1 .. Len(d) : d[i] \in Bytes /\ d[i] # Blank
        /\ Blank \in Bytes
    BY <2>1, SeekWriterAssumption
  <2>3. /\ mem1 \in Seq(Bytes) /\ Len(mem1) \in Nat
        /\ len1 \in 0 .. Len(mem1) /\ taken \in 0 .. Len(d)
        /\ off + taken <= len1
        /\ off \in Nat
        /\ Grows(n) => taken = Len(d) /\ Len(mem1) >= n
        /\ ~ Grows(n) => mem1 = mem
    <3>1. CASE Grows(n)
      <4>1. /\ mem1 = [i \in 1 .. 2 * Len(mem) + n |-> IF i <= off /\ i <= n THEN mem[i] ELSE Blank]
            /\ len1 = n
        BY <3>1 DEF Grown
      <4>2. /\ 2 * Len(mem) + n \in Nat /\ off <= Len(mem) /\ Len(mem) \in Nat /\ n \in Nat
            /\ mem \in [1 .. Len(mem) -> Bytes]
        BY <2>1 DEF WInv
      <4>3. \A i \in 1 .. 2 * Len(mem) + n :
                (IF i <= off /\ i <= n THEN mem[i] ELSE Blank) \in Bytes
        <5> TAKE i \in 1 .. 2 * Len(mem) + n
        <5>1. i <= off => i \in 1 .. Len(mem)
          BY <4>2 DEF WInv
        <5> QED BY <5>1, <4>2, <2>2
      <4>4. mem1 \in [1 .. 2 * Len(mem) + n -> Bytes]
        BY <4>1, <4>3
      <4>5. mem1 \in Seq(Bytes) /\ Len(mem1) = 2 * Len(mem) + n
        BY <4>2, <4>4
      <4> QED BY <3>1, <4>1, <4>2, <4>5, <2>1 DEF WInv
    <3>2. CASE ~ Grows(n)
      BY <1>2, <2>1, <3>2 DEF WInv
    <3> QED BY <3>1, <3>2
  <2>4. /\ mem' = [i \in 1 .. Len(mem1) |->
                      IF i \in off + 1 .. off + taken THEN d[i - off] ELSE mem1[i]]
        /\ len' = len1 /\ off' = off + taken
        /\ accepted' = [o \in 0 .. MaxOffset - 1 |->
                           IF o \in off .. off + taken - 1 THEN d[o - off + 1] ELSE accepted[o]]
        /\ off + Len(d) <= MaxOffset
    BY <1>2 DEF Write
  <2> HIDE DEF mem1, len1, taken
  <2>5. mem' \in Seq(Bytes) /\ Len(mem') = Len(mem1)
    <3>1. \A i \in 1 .. Len(mem1) :
             (IF i \in off + 1 .. off + taken THEN d[i - off] ELSE mem1[i]) \in Bytes
      <4> TAKE i \in 1 .. Len(mem1)
      <4>1. CASE i \in off + 1 .. off + taken
        <5>1. i - off \in 1 .. Len(d)
          BY <4>1, <2>3, <2>1
        <5> QED BY <4>1, <5>1, <2>2
      <4>2. CASE i \notin off + 1 .. off + taken
        BY <4>2, <2>3
      <4> QED BY <4>1, <4>2
    <3>2. mem' \in [1 .. Len(mem1) -> Bytes]
      BY <3>1, <2>4
    <3> QED BY <3>2, <2>3
  <2>6. accepted' \in [0 .. MaxOffset - 1 -> Bytes]
    <3>1. \A o \in 0 .. MaxOffset - 1 :
             (IF o \in off .. off + taken - 1 THEN d[o - off + 1] ELSE accepted[o]) \in Bytes
      <4> TAKE o \in 0 .. MaxOffset - 1
      <4>1. CASE o \in off .. off + taken - 1
        <5>1. o - off + 1 \in 1 .. Len(d)
          BY <4>1, <2>3, <2>1
        <5> QED BY <4>1, <5>1, <2>2
      <4>2. CASE o \notin off .. off + taken - 1
        BY <4>2 DEF WInv
      <4> QED BY <4>1, <4>2
    <3> QED BY <3>1, <2>4
  <2>7. AcceptedIsKept'
    <3>4. wpc' # "closed"
      BY <1>2, Zenon DEF Write, Panic
    <3> SUFFICES ASSUME NEW o \in 0 .. MaxOffset - 1
                 PROVE  accepted'[o] = IF o < Len(mem') THEN mem'[o + 1] ELSE Blank
      BY <3>4 DEF AcceptedIsKept
    <3>1. MaxOffset \in Nat
      BY SeekWriterAssumption
    <3>2. CASE o \in off .. off + taken - 1
      <4>1. o + 1 \in off + 1 .. off + taken /\ o + 1 \in 1 .. Len(mem1)
        BY <3>2, <2>3, <2>1
      <4>2. mem'[o + 1] = d[o + 1 - off]
        <5>1. \A i \in 1 .. Len(mem1) : i \in off + 1 .. off + taken => mem'[i] = d[i - off]
          BY <2>4
        <5> QED BY <4>1, <5>1, <2>3, <3>1
      <4>4. accepted'[o] = d[o - off + 1]
        BY <3>2, <2>4
      <4>3. o + 1 - off = o - off + 1
        BY <2>3
      <4> QED BY <4>1, <4>2, <4>3, <4>4, <2>5, <2>3
    <3>3. CASE o \notin off .. off + taken - 1
      <4>1. accepted'[o] = accepted[o]
        BY <3>3, <2>4
      <4>2. accepted[o] = IF o < Len(mem) THEN mem[o + 1] ELSE Blank
        BY DEF WInv, AcceptedIsKept
      <4>3. CASE Grows(n)
        <5>1. /\ mem1 = [i \in 1 .. 2 * Len(mem) + n |-> IF i <= off /\ i <= n THEN mem[i] ELSE Blank]
              /\ Len(mem1) = 2 * Len(mem) + n
          <6>1. 2 * Len(mem) + n \in Nat
            BY <2>1 DEF WInv
          <6>2. mem1 = [i \in 1 .. 2 * Len(mem) + n |-> IF i <= off /\ i <= n THEN mem[i] ELSE Blank]
            BY <4>3 DEF mem1, Grown
          <6> QED BY <2>3, <6>1, <6>2
        <5>2. /\ off <= Len(mem) /\ Len(mem) < n /\ n = off + Len(d) /\ taken = Len(d)
              /\ Len(mem) \in Nat /\ o + 1 \notin off + 1 .. off + taken
          BY <4>3, <2>1, <2>3, <3>3 DEF Grows, WInv
        <5>3. CASE o < off
          <6>1. o + 1 \in 1 .. Len(mem1) /\ o + 1 <= off /\ o + 1 <= n /\ o < Len(mem)
            BY <5>1, <5>2, <5>3, <2>1, <2>3, <3>1
          <6>2. mem1[o + 1] = mem[o + 1]
            BY <5>1, <6>1
          <6>3. mem'[o + 1] = mem1[o + 1]
            BY <2>4, <5>2, <6>1
          <6> QED BY <2>5, <4>1, <4>2, <6>1, <6>2, <6>3
        <5>4. CASE ~ (o < off)
          <6>1. ~ (o < Len(mem)) /\ ~ (o + 1 <= off)
            BY <3>3, <5>2, <5>4, <2>1, <2>3
          <6>2. o + 1 \in 1 .. Len(mem1) => mem1[o + 1] = Blank /\ mem'[o + 1] = mem1[o + 1]
            BY <2>4, <5>1, <5>2, <6>1
          <6> QED BY <2>3, <2>5, <4>1, <4>2, <6>1, <6>2
        <5> QED BY <5>3, <5>4
      <4>4. CASE ~ Grows(n)
        <5>1. mem1 = mem
          BY <4>4, <2>3
        <5>2. o + 1 \notin off + 1 .. off + taken
          BY <3>3, <2>3
        <5>3. o + 1 \in 1 .. Len(mem1) => mem'[o + 1] = mem1[o + 1]
          BY <2>4, <5>2
        <5> QED BY <2>3, <2>5, <4>1, <4>2, <5>1, <5>3
      <4> QED BY <4>3, <4>4
    <3> QED BY <3>2, <3>3
  <2>8. off' <= MaxOffset /\ off' \in 0 .. Len(mem') /\ len' \in 0 .. Len(mem')
    BY <2>1, <2>3, <2>4, <2>5, SeekWriterAssumption
  <2> QED BY <2>5, <2>6, <2>7, <2>8 DEF WInv
<1> QED BY <1>1, <1>2

LEMMA SeekWInv ==
  ASSUME WInv, NEW base \in Int, NEW offset \in Int, Seek(base, offset)
  PROVE  WInv'
<1>1. CASE Grows(base + offset)
  BY <1>1 DEF Seek, Panic, writer, WInv, AcceptedIsKept
<1>2. CASE ~ Grows(base + offset)
  <2>1. base + offset <= Len(mem) /\ base + offset \in Nat
    BY <1>2, SeekWriterAssumption DEF Seek, Grows, WInv
  <2> QED BY <1>2, <2>1 DEF Seek, WInv, AcceptedIsKept
<1> QED BY <1>1, <1>2

LEMMA NextWInv == WInv /\ [WNext]_wvars => WInv'
<1> SUFFICES ASSUME WInv, [WNext]_wvars PROVE WInv'
  OBVIOUS
<1>1. ASSUME NEW d \in Data, Write(d) PROVE WInv'
  BY <1>1, WriteWInv
<1>2. ASSUME NEW base \in {0, off, len}, NEW offset \in 0 - MaxOffset .. MaxOffset,
             Seek(base, offset)
      PROVE  WInv'
  <2>1. base \in Int /\ offset \in Int
    BY SeekWriterAssumption DEF WInv
  <2> QED BY <1>2, <2>1, SeekWInv
<1>3. CASE Close
  <2>1. delivered' = SubSeq(mem, 1, off) /\ UNCHANGED <<mem, len, off, accepted>>
    BY <1>3 DEF Close, writer
  <2>2. mem \in Seq(Bytes) /\ off \in 0 .. Len(mem) /\ Len(mem) \in Nat /\ off <= MaxOffset
        /\ MaxOffset \in Nat
    BY SeekWriterAssumption DEF WInv
  <2>3. Len(delivered') = off /\ \A i \in 1 .. off : delivered'[i] = mem[i]
    BY <2>1, <2>2
  <2>4. ASSUME NEW o \in 0 .. off - 1 PROVE delivered'[o + 1] = accepted[o]
    <3>1. o + 1 \in 1 .. off /\ o \in 0 .. MaxOffset - 1 /\ o < Len(mem)
      BY <2>2
    <3> QED BY <2>3, <3>1 DEF WInv, AcceptedIsKept
  <2> QED BY <2>1, <2>3, <2>4 DEF WInv, AcceptedIsKept
<1>4. CASE CloseFails \/ UNCHANGED wvars
  BY <1>4 DEF CloseFails, WInv, AcceptedIsKept, wvars, writer
<1> QED BY <1>1, <1>2, <1>3, <1>4 DEF WNext

\* The buffer is what Write has said it took, and Close hands over that up to the offset,
\* whatever writes, seeks and grows came between: for all data and every bound on the offsets.
THEOREM AcceptedIsKeptThm == WriterSpec => []AcceptedIsKept
<1>1. WInv => AcceptedIsKept
  BY DEF WInv
<1> QED BY InitWInv, NextWInv, <1>1, PTL DEF WriterSpec

-----------------------------------------------------------------------------
\* Sequences of anything.
IsSeq(s) == s \in Seq({s[i] : i \in DOMAIN s})

LEMMA SeqFacts ==
  ASSUME NEW s, IsSeq(s)
  PROVE  /\ Len(s) \in Nat /\ DOMAIN s = 1 .. Len(s)
         /\ s = [i \in 1 .. Len(s) |-> s[i]]
  BY LenProperties DEF IsSeq

LEMMA FunIsSeq ==
  ASSUME NEW s, NEW n \in Nat, s = [i \in 1 .. n |-> s[i]]
  PROVE  IsSeq(s) /\ Len(s) = n /\ DOMAIN s = 1 .. n
<1>1. DOMAIN s = 1 .. n
  OBVIOUS
<1>2. \A i \in 1 .. n : s[i] \in {s[j] : j \in DOMAIN s}
  BY <1>1
<1>3. s \in [1 .. n -> {s[j] : j \in DOMAIN s}]
  BY <1>1, <1>2
<1>4. s \in Seq({s[j] : j \in DOMAIN s})
  BY <1>3, SeqDef
<1> QED BY <1>1, <1>3, <1>4, LenProperties DEF IsSeq

LEMMA AppendAny ==
  ASSUME NEW s, NEW e, IsSeq(s)
  PROVE  /\ IsSeq(Append(s, e)) /\ Len(Append(s, e)) = Len(s) + 1
         /\ DOMAIN Append(s, e) = 1 .. Len(s) + 1
         /\ \A i \in 1 .. Len(s) : Append(s, e)[i] = s[i]
         /\ Append(s, e)[Len(s) + 1] = e
<1> DEFINE S == {s[i] : i \in DOMAIN s} \cup {e}
<1>1. s \in Seq(S)
  BY SeqMonotonic DEF IsSeq
<1>2. /\ Append(s, e) \in Seq(S) /\ Len(Append(s, e)) = Len(s) + 1
      /\ \A i \in 1 .. Len(s) : Append(s, e)[i] = s[i]
      /\ Append(s, e)[Len(s) + 1] = e
  BY <1>1, AppendProperties
<1>3. Len(s) + 1 \in Nat /\ DOMAIN Append(s, e) = 1 .. Len(s) + 1
  BY <1>1, <1>2, LenProperties
<1>4. Append(s, e) = [i \in 1 .. Len(s) + 1 |-> Append(s, e)[i]]
  BY <1>2, LenProperties
<1> QED BY <1>2, <1>3, <1>4, FunIsSeq

\* A SubSeq in the middle.
LEMMA MiddleFacts ==
  ASSUME NEW s, IsSeq(s), NEW at \in Nat, NEW n \in Nat, at + n <= Len(s)
  PROVE  LET t == SubSeq(s, at + 1, at + n)
         IN  /\ IsSeq(t) /\ Len(t) = n
             /\ \A i \in 1 .. n : t[i] = s[at + i]
<1> DEFINE S == {s[i] : i \in DOMAIN s}
           t == SubSeq(s, at + 1, at + n)
<1>1. Len(s) \in Nat /\ DOMAIN s = 1 .. Len(s)
  BY SeqFacts
<1>2. \A i \in at + 1 .. at + n : s[i] \in S
  BY <1>1
<1>3. at + 1 \in Int /\ at + n \in Int /\ (at + n) - (at + 1) + 1 = n
  OBVIOUS
<1>4. /\ t \in Seq(S) /\ Len(t) = (IF at + 1 <= at + n THEN (at + n) - (at + 1) + 1 ELSE 0)
      /\ \A i \in 1 .. (at + n) - (at + 1) + 1 : t[i] = s[(at + 1) + i - 1]
  <2> DEFINE from == at + 1
             to   == at + n
  <2>1. from \in Int /\ to \in Int
    BY <1>3
  <2>2. \A i \in from .. to : s[i] \in S
    BY <1>2
  <2> HIDE DEF S, from, to
  <2>3. /\ SubSeq(s, from, to) \in Seq(S)
        /\ Len(SubSeq(s, from, to)) = (IF from <= to THEN to - from + 1 ELSE 0)
        /\ \A i \in 1 .. to - from + 1 : SubSeq(s, from, to)[i] = s[from + i - 1]
    BY <2>1, <2>2, SubSeqProperties
  <2> QED BY <2>3 DEF from, to
<1>5. Len(t) = n
  BY <1>4
<1>6. ASSUME NEW i \in 1 .. n PROVE t[i] = s[at + i]
  <2>1. (at + 1) + i - 1 = at + i
    OBVIOUS
  <2> QED BY <2>1, <1>3, <1>4
<1>7. t = [i \in 1 .. Len(t) |-> t[i]] /\ Len(t) \in Nat
  BY <1>4, LenProperties
<1> HIDE DEF t
<1> QED BY <1>5, <1>6, <1>7, FunIsSeq DEF t

\* SubSeq to the end.
LEMMA SuffixFacts ==
  ASSUME NEW s, IsSeq(s), NEW at \in 0 .. Len(s)
  PROVE  LET t == SubSeq(s, at + 1, Len(s))
         IN  /\ IsSeq(t) /\ Len(t) = Len(s) - at
             /\ \A i \in 1 .. Len(s) - at : t[i] = s[at + i]
<1> DEFINE n == Len(s) - at
<1>1. Len(s) \in Nat
  BY SeqFacts
<1>2. n \in Nat /\ at \in Nat /\ at + n = Len(s) /\ at + n <= Len(s)
  BY <1>1
<1> HIDE DEF n
<1>3. /\ IsSeq(SubSeq(s, at + 1, at + n)) /\ Len(SubSeq(s, at + 1, at + n)) = n
      /\ \A i \in 1 .. n : SubSeq(s, at + 1, at + n)[i] = s[at + i]
  BY <1>2, MiddleFacts
<1>4. SubSeq(s, at + 1, at + n) = SubSeq(s, at + 1, Len(s))
  BY <1>2
<1> QED BY <1>3, <1>4, Zenon DEF n


-----------------------------------------------------------------------------
\* Images.
Types == {"MemP", "Gray", "RGBA", "Gray16", "RGBA64", "YCbCr", "Other"}

Rectangles == [x0 : Nat, y0 : Int, x1 : Int, y1 : Int]

Records == [type : Types, channels : 0 .. 4, size : 0 .. 2, rect : Rectangles, stride : Nat,
            buf : Nat, start : Nat, picture : Nat]

Width(m)  == (m.rect.x1 - m.rect.x0) * SizeofPixel(m)
Height(m) == m.rect.y1 - m.rect.y0

\* What the operations rely on of an image by itself, ...
WellFormed(m) ==
    /\ m \in Records
    /\ m.rect.x0 <= m.rect.x1 /\ m.rect.y0 <= m.rect.y1
    /\ Width(m) <= m.stride
    /\ m.size = 2 => m.stride % 2 = 0
    /\ Points(m.rect) # {} => m.channels > 0 /\ m.size > 0
    /\ m.type \in {"Gray", "RGBA"} => m.size # 2
    /\ m.type \in {"Gray16", "RGBA64"} => m.size # 1
    /\ m.type \in {"YCbCr", "Other"} => m.channels = 4 /\ m.size > 0 /\ m.stride = Width(m)

\* ... and of the array it lies in.
HasRoom(m, array) ==
    /\ m.start <= Len(array)
    /\ Height(m) > 0 => m.start + (Height(m) - 1) * m.stride + Width(m) <= Len(array)
    /\ m.rect.x0 = 0 => m.start + Height(m) * m.stride <= Len(array)

\* Where column 0 of row 0 is, or would be.
Origin(m) == m.start - m.rect.y0 * m.stride - m.rect.x0 * SizeofPixel(m)

\* An image of no points, or one whose points are points of another at the same place.
Within(n, m) ==
    \/ Points(n.rect) = {}
    \/ /\ n.channels = m.channels /\ n.size = m.size /\ n.stride = m.stride
       /\ n.size = 1 \/ Order(n.type) = Order(m.type)
       /\ m.rect.x0 <= n.rect.x0 /\ n.rect.x1 <= m.rect.x1
       /\ m.rect.y0 <= n.rect.y0 /\ n.rect.y1 <= m.rect.y1
       /\ Origin(n) = Origin(m)

\* The first image of an array: its points are those of the picture, and the other images are
\* cut out of it.
IsRoot(b, r, those, picture) ==
    /\ r.buf = b /\ DOMAIN picture = Points(r.rect)
    /\ \A i \in DOMAIN those : those[i].buf = b => Within(those[i], r)

\* What an image shows, by the bytes of its array.
BytesOf(m, array, pt) ==
    [j \in 1 .. SizeofPixel(m) |-> array[m.start + PixOffset(m, pt[1], pt[2]) + j]]

Shown(m, array, pt) == RGBA(m.channels, m.size, Order(m.type), BytesOf(m, array, pt))

ImageFits(m, arrays) ==
    /\ WellFormed(m) /\ m.picture = m.buf
    /\ m.buf \in DOMAIN arrays /\ HasRoom(m, arrays[m.buf])

Sequential ==
    /\ IsSeq(heap) /\ IsSeq(images) /\ IsSeq(painted) /\ Len(painted) = Len(heap)
    /\ \A b \in DOMAIN heap : IsSeq(heap[b])

Rooted == \A b \in DOMAIN heap : \E i \in DOMAIN images : IsRoot(b, images[i], images, painted[b])

AllShown ==
    \A i \in DOMAIN images :
        LET m == images[i]
        IN  \A pt \in Points(m.rect) :
                painted[m.picture][pt] # Unclear => Shown(m, heap[m.buf], pt) = painted[m.picture][pt]

\* The inductive invariant.
IInv ==
    /\ Sequential
    /\ \A i \in DOMAIN images : ImageFits(images[i], heap)
    /\ Rooted
    /\ AllShown
    /\ PanicOnlyOffColumnZero

-----------------------------------------------------------------------------
\* Where the points of an image are.
LEMMA TimesMonotone ==
  ASSUME NEW a \in Int, NEW b \in Int, NEW c \in Nat, a <= b
  PROVE  a * c <= b * c /\ a * c \in Int /\ b * c \in Int
  OBVIOUS

LEMMA DivModOf ==
  ASSUME NEW w \in Nat, w > 0, NEW q \in Nat, NEW r \in 0 .. w - 1
  PROVE  (w * q + r) \div w = q /\ (w * q + r) % w = r
<1> DEFINE n == w * q + r
           d == n \div w
           e == n % w
<1>1. n \in Nat /\ d \in Int /\ e \in 0 .. w - 1 /\ n = w * d + e
  OBVIOUS
<1> HIDE DEF d, e
<1>2. w * (d - q) = r - e
  BY <1>1
<1>3. d - q = 0
  <2>1. CASE d - q >= 1
    <3>1. w * (d - q) >= w
      BY <1>1, <2>1
    <3> QED BY <1>1, <1>2, <3>1
  <2>2. CASE d - q <= -1
    <3>1. w * (d - q) <= 0 - w
      BY <1>1, <2>2
    <3> QED BY <1>1, <1>2, <3>1
  <2> QED BY <1>1, <2>1, <2>2
<1>4. d = q /\ e = r
  BY <1>1, <1>2, <1>3
<1> QED BY <1>4 DEF d, e

LEMMA Even ==
  ASSUME NEW a \in Int, NEW b \in Int, NEW c \in Int, NEW s \in Int, s % 2 = 0
  PROVE  (a * s + b * (c * 2)) % 2 = 0
<1>1. PICK h \in Int : s = 2 * h
  <2>1. s = 2 * (s \div 2) /\ s \div 2 \in Int
    OBVIOUS
  <2> QED BY <2>1
<1> DEFINE k == a * h + b * c
<1>2. a * s + b * (c * 2) = 2 * k
  BY <1>1
<1>3. k \in Int
  BY <1>1
<1> HIDE DEF k
<1>4. (2 * k) % 2 = 0
  BY <1>3
<1> QED BY <1>2, <1>4

LEMMA PointFacts ==
  ASSUME NEW r \in Rectangles, NEW pt \in Points(r)
  PROVE  /\ pt = <<pt[1], pt[2]>> /\ pt[1] \in Int /\ pt[2] \in Int
         /\ r.x0 <= pt[1] /\ pt[1] < r.x1 /\ r.y0 <= pt[2] /\ pt[2] < r.y1
         /\ Points(r) # {}
  BY DEF Points, Rectangles

LEMMA NoPoints ==
  ASSUME NEW r \in Rectangles, r.x0 < r.x1, r.y0 < r.y1
  PROVE  Points(r) # {}
<1>1. <<r.x0, r.y0>> \in Points(r)
  BY DEF Points, Rectangles
<1> QED BY <1>1

LEMMA RecordFacts ==
  ASSUME NEW m \in Records
  PROVE  /\ m.type \in Types /\ m.channels \in 0 .. 4 /\ m.size \in 0 .. 2 /\ m.rect \in Rectangles
         /\ m.stride \in Nat /\ m.buf \in Nat /\ m.start \in Nat /\ m.picture \in Nat
         /\ m.rect.x0 \in Nat /\ m.rect.y0 \in Int /\ m.rect.x1 \in Int /\ m.rect.y1 \in Int
         /\ SizeofPixel(m) \in Nat /\ Width(m) \in Int /\ Height(m) \in Int
         /\ Origin(m) \in Int
<1>1. /\ m.type \in Types /\ m.channels \in 0 .. 4 /\ m.size \in 0 .. 2 /\ m.rect \in Rectangles
      /\ m.stride \in Nat /\ m.buf \in Nat /\ m.start \in Nat /\ m.picture \in Nat
  BY DEF Records
<1>2. m.rect.x0 \in Nat /\ m.rect.y0 \in Int /\ m.rect.x1 \in Int /\ m.rect.y1 \in Int
  BY <1>1 DEF Rectangles
<1>3. SizeofPixel(m) \in Nat
  BY <1>1 DEF SizeofPixel
<1>4. Width(m) \in Int /\ Height(m) \in Int
  BY <1>2, <1>3 DEF Width, Height
<1>5. m.rect.y0 * m.stride \in Int /\ m.rect.x0 * SizeofPixel(m) \in Int
  BY <1>1, <1>2, <1>3
<1>6. Origin(m) \in Int
  BY <1>1, <1>5 DEF Origin
<1> QED BY <1>1, <1>2, <1>3, <1>4, <1>6

LEMMA SpotFacts ==
  ASSUME NEW m, WellFormed(m), NEW pt \in Points(m.rect)
  PROVE  LET at == PixOffset(m, pt[1], pt[2])
         IN  /\ at \in Nat
             /\ at + SizeofPixel(m) <= (Height(m) - 1) * m.stride + Width(m)
             /\ m.size = 2 => at % 2 = 0
             /\ Height(m) > 0 /\ m.channels \in 1 .. 4 /\ m.size \in 1 .. 2 /\ SizeofPixel(m) > 0
             /\ (Height(m) - 1) * m.stride + Width(m) \in Nat
<1>1. /\ m \in Records /\ m.rect.x0 <= m.rect.x1 /\ m.rect.y0 <= m.rect.y1
      /\ Width(m) <= m.stride /\ (m.size = 2 => m.stride % 2 = 0)
      /\ (Points(m.rect) # {} => m.channels > 0 /\ m.size > 0)
  BY DEF WellFormed
<1>2. /\ m.channels \in 0 .. 4 /\ m.size \in 0 .. 2 /\ m.rect \in Rectangles /\ m.stride \in Nat
      /\ m.rect.x0 \in Nat /\ m.rect.y0 \in Int /\ m.rect.x1 \in Int /\ m.rect.y1 \in Int
      /\ SizeofPixel(m) \in Nat /\ Width(m) \in Int /\ Height(m) \in Int
  BY <1>1, RecordFacts
<1>3. /\ pt[1] \in Int /\ pt[2] \in Int
      /\ m.rect.x0 <= pt[1] /\ pt[1] < m.rect.x1 /\ m.rect.y0 <= pt[2] /\ pt[2] < m.rect.y1
      /\ Points(m.rect) # {}
  BY <1>2, PointFacts
<1>4. m.channels \in 1 .. 4 /\ m.size \in 1 .. 2
  BY <1>1, <1>2, <1>3
<1>5. SizeofPixel(m) > 0
  BY <1>4 DEF SizeofPixel
<1> DEFINE px == SizeofPixel(m)
           dx == pt[1] - m.rect.x0
           dy == pt[2] - m.rect.y0
           w  == m.rect.x1 - m.rect.x0
           h  == m.rect.y1 - m.rect.y0
<1>6. dx \in Nat /\ dy \in Nat /\ w \in Nat /\ h \in Nat /\ dx + 1 <= w /\ dy <= h - 1 /\ h > 0
  BY <1>2, <1>3
<1>7. PixOffset(m, pt[1], pt[2]) = dy * m.stride + dx * px /\ Height(m) = h /\ Width(m) = w * px
  BY DEF PixOffset, Height, Width
<1>8. m.size = 2 => (dy * m.stride + dx * px) % 2 = 0
  <2> SUFFICES ASSUME m.size = 2 PROVE (dy * m.stride + dx * px) % 2 = 0
    OBVIOUS
  <2>1. px = m.channels * 2
    BY DEF SizeofPixel
  <2>2. m.stride % 2 = 0 /\ m.channels \in Int /\ m.stride \in Int
    BY <1>1, <1>2
  <2> HIDE DEF dx, dy, px
  <2> QED BY <1>6, <2>1, <2>2, Even
<1>9. /\ (dx + 1) * px <= w * px /\ dy * m.stride <= (h - 1) * m.stride
      /\ dx * px + px = (dx + 1) * px
      /\ dx * px \in Nat /\ dy * m.stride \in Nat /\ w * px \in Nat /\ (h - 1) * m.stride \in Nat
  <2> HIDE DEF dx, dy, px, w, h
  <2>1. px \in Nat
    BY <1>2 DEF px
  <2>2. h - 1 \in Nat /\ dx + 1 \in Nat
    BY <1>6
  <2> QED BY <1>2, <1>6, <2>1, <2>2, TimesMonotone
<1> HIDE DEF dx, dy, w, h
<1>10. px \in Nat
  BY <1>2
<1> HIDE DEF px
<1>11. /\ dy * m.stride + dx * px \in Nat
       /\ dy * m.stride + dx * px + px <= (h - 1) * m.stride + w * px
       /\ (h - 1) * m.stride + w * px \in Nat
  <2> DEFINE a == dy * m.stride
             b == dx * px
             c == (h - 1) * m.stride
             d == w * px
             e == (dx + 1) * px
  <2>1. a \in Nat /\ b \in Nat /\ c \in Nat /\ d \in Nat /\ e <= d /\ a <= c /\ b + px = e
    BY <1>9
  <2> HIDE DEF a, b, c, d, e
  <2>2. a + b \in Nat /\ a + b + px <= c + d /\ c + d \in Nat
    BY <2>1, <1>10
  <2> QED BY <2>2 DEF a, b, c, d
<1> QED BY <1>4, <1>5, <1>6, <1>7, <1>8, <1>11 DEF px

LEMMA SpotIsOrigin ==
  ASSUME NEW m, WellFormed(m), NEW x \in Int, NEW y \in Int
  PROVE  m.start + PixOffset(m, x, y) = Origin(m) + y * m.stride + x * SizeofPixel(m)
<1>1. /\ m.start \in Nat /\ m.stride \in Nat /\ SizeofPixel(m) \in Nat
      /\ m.rect.x0 \in Int /\ m.rect.y0 \in Int
  BY RecordFacts DEF WellFormed
<1> DEFINE px == SizeofPixel(m)
<1>2. \A s, st, p, x0, y0 \in Int :
         s + ((y - y0) * st + (x - x0) * p) = s - y0 * st - x0 * p + y * st + x * p
  OBVIOUS
<1> QED BY <1>1, <1>2 DEF PixOffset, Origin

\* Two points of an image do not overlap.
LEMMA SpotsApart ==
  ASSUME NEW m, WellFormed(m), NEW p \in Points(m.rect), NEW q \in Points(m.rect), p # q
  PROVE  \/ PixOffset(m, p[1], p[2]) + SizeofPixel(m) <= PixOffset(m, q[1], q[2])
         \/ PixOffset(m, q[1], q[2]) + SizeofPixel(m) <= PixOffset(m, p[1], p[2])
<1> DEFINE px == SizeofPixel(m)
           x0 == m.rect.x0
           x1 == m.rect.x1
           y0 == m.rect.y0
           st == m.stride
<1>1. /\ m.rect \in Rectangles /\ st \in Nat /\ px \in Nat /\ (x1 - x0) * px <= st
      /\ x0 \in Nat /\ y0 \in Int /\ x1 \in Int
  BY RecordFacts DEF WellFormed, Width
<1>2. /\ p = <<p[1], p[2]>> /\ q = <<q[1], q[2]>>
      /\ p[1] \in Int /\ p[2] \in Int /\ q[1] \in Int /\ q[2] \in Int
      /\ x0 <= p[1] /\ p[1] < x1 /\ x0 <= q[1] /\ q[1] < x1 /\ y0 <= p[2] /\ y0 <= q[2]
  BY <1>1, PointFacts
<1>3. p[1] # q[1] \/ p[2] # q[2]
  BY <1>2
<1>4. \A a, b, c, d, s, n \in Int :
         /\ s \in Nat /\ n \in Nat /\ (x1 - x0) * n <= s
         /\ x0 <= a /\ a < x1 /\ x0 <= c /\ c < x1 /\ b < d
         => (b - y0) * s + (a - x0) * n + n <= (d - y0) * s + (c - x0) * n
  <2> TAKE a, b, c, d, s, n \in Int
  <2> HAVE /\ s \in Nat /\ n \in Nat /\ (x1 - x0) * n <= s
           /\ x0 <= a /\ a < x1 /\ x0 <= c /\ c < x1 /\ b < d
  <2> HIDE DEF x0, x1, y0
  <2>1. (a - x0 + 1) * n <= (x1 - x0) * n
    BY <1>1, TimesMonotone
  <2>2. (a - x0 + 1) * n = (a - x0) * n + n /\ (a - x0) * n \in Int
    BY <1>1
  <2>3. (b - y0 + 1) * s <= (d - y0) * s
    BY <1>1, TimesMonotone
  <2>4. (b - y0 + 1) * s = (b - y0) * s + s /\ (b - y0) * s \in Int /\ (d - y0) * s \in Int
    BY <1>1
  <2>5. 0 * n <= (c - x0) * n /\ 0 * n = 0 /\ (c - x0) * n \in Int /\ (x1 - x0) * n \in Int
    BY <1>1, TimesMonotone
  <2> DEFINE t1 == (a - x0) * n
             t2 == (x1 - x0) * n
             t3 == (b - y0) * s
             t4 == (d - y0) * s
             t5 == (c - x0) * n
  <2>6. /\ t1 \in Int /\ t2 \in Int /\ t3 \in Int /\ t4 \in Int /\ t5 \in Int
        /\ t1 + n <= t2 /\ t2 <= s /\ t3 + s <= t4 /\ 0 <= t5
    BY <2>1, <2>2, <2>3, <2>4, <2>5
  <2> HIDE DEF t1, t2, t3, t4, t5
  <2>7. t3 + t1 + n <= t4 + t5
    BY <2>6
  <2> QED BY <2>7 DEF t1, t3, t4, t5
<1>5. \A a, b, n \in Int :
         n \in Nat /\ a < b => (a - x0) * n + n <= (b - x0) * n
  <2> TAKE a, b, n \in Int
  <2> HAVE n \in Nat /\ a < b
  <2> HIDE DEF x0
  <2>1. (a - x0 + 1) * n <= (b - x0) * n
    BY <1>1, TimesMonotone
  <2>2. (a - x0 + 1) * n = (a - x0) * n + n /\ (a - x0) * n \in Int
    BY <1>1
  <2> QED BY <2>1, <2>2
<1>6. CASE p[2] < q[2]
  <2>1. (p[2] - y0) * st + (p[1] - x0) * px + px <= (q[2] - y0) * st + (q[1] - x0) * px
    <3> HIDE DEF x0, x1, y0, st, px
    <3>1. /\ p[1] \in Int /\ p[2] \in Int /\ q[1] \in Int /\ q[2] \in Int
          /\ st \in Int /\ px \in Int
          /\ st \in Nat /\ px \in Nat /\ (x1 - x0) * px <= st
          /\ x0 <= p[1] /\ p[1] < x1 /\ x0 <= q[1] /\ q[1] < x1 /\ p[2] < q[2]
      BY <1>1, <1>2, <1>6
    <3> QED BY <3>1, <1>4, Zenon
  <2> QED BY <2>1 DEF PixOffset
<1>7. CASE q[2] < p[2]
  <2>1. (q[2] - y0) * st + (q[1] - x0) * px + px <= (p[2] - y0) * st + (p[1] - x0) * px
    <3> HIDE DEF x0, x1, y0, st, px
    <3>1. /\ p[1] \in Int /\ p[2] \in Int /\ q[1] \in Int /\ q[2] \in Int
          /\ st \in Int /\ px \in Int
          /\ st \in Nat /\ px \in Nat /\ (x1 - x0) * px <= st
          /\ x0 <= p[1] /\ p[1] < x1 /\ x0 <= q[1] /\ q[1] < x1 /\ q[2] < p[2]
      BY <1>1, <1>2, <1>7
    <3> QED BY <3>1, <1>4, Zenon
  <2> QED BY <2>1 DEF PixOffset
<1>8. CASE p[2] = q[2] /\ p[1] < q[1]
  <2>1. (p[1] - x0) * px + px <= (q[1] - x0) * px
    BY <1>1, <1>2, <1>5, <1>8
  <2>2. (p[2] - y0) * st \in Int /\ (p[1] - x0) * px \in Int /\ (q[1] - x0) * px \in Int
    BY <1>1, <1>2
  <2> QED BY <1>1, <1>8, <2>1, <2>2 DEF PixOffset
<1>9. CASE p[2] = q[2] /\ q[1] < p[1]
  <2>1. (q[1] - x0) * px + px <= (p[1] - x0) * px
    BY <1>1, <1>2, <1>5, <1>9
  <2>2. (p[2] - y0) * st \in Int /\ (p[1] - x0) * px \in Int /\ (q[1] - x0) * px \in Int
    BY <1>1, <1>2
  <2> QED BY <1>1, <1>9, <2>1, <2>2 DEF PixOffset
<1> QED BY <1>2, <1>3, <1>6, <1>7, <1>8, <1>9

-----------------------------------------------------------------------------
LEMMA SpotInArray ==
  ASSUME NEW m, NEW array, NEW pt, WellFormed(m), HasRoom(m, array), IsSeq(array),
         pt \in Points(m.rect)
  PROVE  LET at == m.start + PixOffset(m, pt[1], pt[2])
         IN  at \in Nat /\ at + SizeofPixel(m) <= Len(array) /\ SizeofPixel(m) \in Nat
<1> DEFINE at == PixOffset(m, pt[1], pt[2])
           px == SizeofPixel(m)
           c  == (Height(m) - 1) * m.stride
           d  == Width(m)
<1>1. m.start \in Nat /\ px \in Nat /\ Len(array) \in Nat /\ d \in Int
  BY SeqFacts, RecordFacts DEF WellFormed
<1>2. /\ at \in Nat /\ at + px <= c + d /\ Height(m) > 0 /\ c + d \in Nat
  BY SpotFacts
<1>3. m.start + c + d <= Len(array) /\ c \in Int
  BY <1>2, RecordFacts DEF HasRoom, WellFormed
<1> HIDE DEF at, px, c, d
<1>4. m.start + at \in Nat /\ m.start + at + px <= Len(array)
  BY <1>1, <1>2, <1>3
<1> QED BY <1>1, <1>4 DEF at, px

LEMMA PixelIsBytes ==
  ASSUME NEW m, NEW array, NEW pt, WellFormed(m), HasRoom(m, array), IsSeq(array),
         pt \in Points(m.rect)
  PROVE  LET at  == PixOffset(m, pt[1], pt[2])
             pix == SubSeq(array, m.start + 1, Len(array))
         IN  SubSeq(pix, at + 1, at + SizeofPixel(m)) = BytesOf(m, array, pt)
<1> DEFINE at == PixOffset(m, pt[1], pt[2])
           px == SizeofPixel(m)
           pix == SubSeq(array, m.start + 1, Len(array))
<1>1. WellFormed(m) /\ HasRoom(m, array) /\ m.start \in Nat /\ px \in Nat /\ Len(array) \in Nat
  BY SeqFacts, RecordFacts DEF WellFormed
<1>2. m.start \in 0 .. Len(array)
  BY <1>1 DEF HasRoom
<1>3. /\ IsSeq(pix) /\ Len(pix) = Len(array) - m.start
      /\ \A i \in 1 .. Len(array) - m.start : pix[i] = array[m.start + i]
  BY <1>2, SuffixFacts
<1>4. /\ at \in Nat /\ at + px <= (Height(m) - 1) * m.stride + Width(m) /\ Height(m) > 0
      /\ (Height(m) - 1) * m.stride + Width(m) \in Nat
  BY <1>1, SpotFacts
<1>5. at + px <= Len(pix)
  <2> DEFINE c == (Height(m) - 1) * m.stride
             d == Width(m)
  <2>1. /\ c + d \in Nat /\ at + px <= c + d /\ m.start + c + d <= Len(array)
        /\ c \in Int /\ d \in Int
    BY <1>1, <1>4, RecordFacts DEF HasRoom, WellFormed
  <2> HIDE DEF c, d, at, px
  <2> QED BY <1>1, <1>3, <1>4, <2>1
<1> HIDE DEF at, px, pix
<1>6. /\ IsSeq(SubSeq(pix, at + 1, at + px)) /\ Len(SubSeq(pix, at + 1, at + px)) = px
      /\ \A i \in 1 .. px : SubSeq(pix, at + 1, at + px)[i] = pix[at + i]
  <2>1. IsSeq(pix) /\ at \in Nat /\ px \in Nat /\ at + px <= Len(pix)
    BY <1>1, <1>3, <1>4, <1>5 DEF at, px
  <2> QED BY <2>1, MiddleFacts
<1>8. ASSUME NEW i \in 1 .. px PROVE pix[at + i] = array[m.start + at + i]
  <2>1. at + i \in 1 .. Len(array) - m.start /\ m.start + (at + i) = m.start + at + i
    BY <1>1, <1>3, <1>4, <1>5
  <2> QED BY <1>3, <2>1
<1>9. SubSeq(pix, at + 1, at + px) = [i \in 1 .. px |-> array[m.start + at + i]]
  <2> DEFINE t == SubSeq(pix, at + 1, at + px)
  <2>1. t = [i \in 1 .. px |-> t[i]]
    BY <1>6, SeqFacts
  <2> HIDE DEF t
  <2>2. \A i \in 1 .. px : t[i] = array[m.start + at + i]
    BY <1>6, <1>8 DEF t
  <2> QED BY <2>1, <2>2 DEF t
<1> QED BY <1>9 DEF BytesOf, at, px, pix

LEMMA SeenIsShown ==
  ASSUME NEW m, NEW pt, ImageFits(m, heap), IsSeq(heap[m.buf]), pt \in Points(m.rect)
  PROVE  /\ PixelAt(m, pt) = BytesOf(m, heap[m.buf], pt)
         /\ Seen(m, pt) = Shown(m, heap[m.buf], pt)
<1>1. PixelAt(m, pt) = BytesOf(m, heap[m.buf], pt)
  BY PixelIsBytes DEF PixelAt, Pix, ImageFits
<1> QED BY <1>1 DEF Seen, Shown

LEMMA SeenAsShown ==
  ASSUME Sequential, \A i \in DOMAIN images : ImageFits(images[i], heap), AllShown
  PROVE  SeenAsPainted
<1> SUFFICES ASSUME NEW i \in DOMAIN images, NEW pt \in Points(images[i].rect),
                    painted[images[i].picture][pt] # Unclear
             PROVE  Seen(images[i], pt) = painted[images[i].picture][pt]
  BY DEF SeenAsPainted
<1>1. ImageFits(images[i], heap) /\ IsSeq(heap[images[i].buf])
  BY DEF Sequential, ImageFits
<1>2. Seen(images[i], pt) = Shown(images[i], heap[images[i].buf], pt)
  BY <1>1, SeenIsShown
<1> QED BY <1>2 DEF AllShown

-----------------------------------------------------------------------------
\* Colours.
LEMMA SameColour ==
  ASSUME NEW c \in 1 .. 4, NEW s \in 1 .. 2, NEW o1, NEW o2, NEW p, NEW q,
         s = 1 \/ o1 = o2, \A j \in 1 .. c * s : p[j] = q[j]
  PROVE  RGBA(c, s, o1, p) = RGBA(c, s, o2, q)
<1>1. CASE c = 1 /\ s = 1
  BY <1>1 DEF RGBA, Full
<1>2. CASE c = 2 /\ s = 1
  BY <1>2 DEF RGBA, Full
<1>3. CASE c = 3 /\ s = 1
  BY <1>3 DEF RGBA, Full
<1>4. CASE c = 4 /\ s = 1
  BY <1>4 DEF RGBA, Full
<1>5. CASE c = 1 /\ s = 2
  BY <1>5 DEF RGBA, Full
<1>6. CASE c = 2 /\ s = 2
  BY <1>6 DEF RGBA, Full
<1>7. CASE c = 3 /\ s = 2
  BY <1>7 DEF RGBA, Full
<1>8. CASE c = 4 /\ s = 2
  BY <1>8 DEF RGBA, Full
<1> QED BY <1>1, <1>2, <1>3, <1>4, <1>5, <1>6, <1>7, <1>8

LEMMA TurnedColour ==
  ASSUME NEW c \in 1 .. 4, NEW p, NEW q,
         \A k \in 1 .. c : p[2 * k - 1] = q[2 * k] /\ p[2 * k] = q[2 * k - 1]
  PROVE  RGBA(c, 2, "big", p) = RGBA(c, 2, "native", q)
<1>1. p[1] = q[2] /\ p[2] = q[1]
  <2>1. 1 \in 1 .. c /\ 2 * 1 - 1 = 1 /\ 2 * 1 = 2
    OBVIOUS
  <2> QED BY <2>1
<1>2. c > 1 => p[3] = q[4] /\ p[4] = q[3]
  <2>1. (c > 1 => 2 \in 1 .. c) /\ 2 * 2 - 1 = 3 /\ 2 * 2 = 4
    OBVIOUS
  <2> QED BY <2>1
<1>3. c > 2 => p[5] = q[6] /\ p[6] = q[5]
  <2>1. (c > 2 => 3 \in 1 .. c) /\ 2 * 3 - 1 = 5 /\ 2 * 3 = 6
    OBVIOUS
  <2> QED BY <2>1
<1>4. c > 3 => p[7] = q[8] /\ p[8] = q[7]
  <2>1. (c > 3 => 4 \in 1 .. c) /\ 2 * 4 - 1 = 7 /\ 2 * 4 = 8
    OBVIOUS
  <2> QED BY <2>1
<1>5. CASE c = 1
  BY <1>1, <1>5 DEF RGBA
<1>6. CASE c = 2
  BY <1>1, <1>2, <1>6 DEF RGBA
<1>7. CASE c = 3
  BY <1>1, <1>2, <1>3, <1>7 DEF RGBA
<1>8. CASE c = 4
  BY <1>1, <1>2, <1>3, <1>4, <1>8 DEF RGBA
<1> QED BY <1>5, <1>6, <1>7, <1>8

-----------------------------------------------------------------------------
\* Images of one array.
LEMMA SameSpot ==
  ASSUME NEW n, NEW m, WellFormed(n), WellFormed(m), Within(n, m), NEW pt \in Points(n.rect)
  PROVE  /\ pt \in Points(m.rect) /\ n.channels = m.channels /\ n.size = m.size
         /\ n.start + PixOffset(n, pt[1], pt[2]) = m.start + PixOffset(m, pt[1], pt[2])
         /\ \A array : Shown(n, array, pt) = Shown(m, array, pt)
<1>1. n \in Records /\ m \in Records
  BY DEF WellFormed
<1>2. /\ n.channels = m.channels /\ n.size = m.size /\ n.stride = m.stride
      /\ n.size = 1 \/ Order(n.type) = Order(m.type)
      /\ m.rect.x0 <= n.rect.x0 /\ n.rect.x1 <= m.rect.x1
      /\ m.rect.y0 <= n.rect.y0 /\ n.rect.y1 <= m.rect.y1
      /\ Origin(n) = Origin(m)
  BY DEF Within
<1>3. /\ pt = <<pt[1], pt[2]>> /\ pt[1] \in Int /\ pt[2] \in Int
      /\ n.rect.x0 <= pt[1] /\ pt[1] < n.rect.x1 /\ n.rect.y0 <= pt[2] /\ pt[2] < n.rect.y1
  BY <1>1, RecordFacts, PointFacts
<1>4. pt \in Points(m.rect)
  <2>1. pt[1] \in m.rect.x0 .. m.rect.x1 - 1 /\ pt[2] \in m.rect.y0 .. m.rect.y1 - 1
    BY <1>1, <1>2, <1>3, RecordFacts
  <2> QED BY <1>3, <2>1 DEF Points
<1>5. SizeofPixel(n) = SizeofPixel(m)
  BY <1>2 DEF SizeofPixel
<1>6. n.start + PixOffset(n, pt[1], pt[2]) = m.start + PixOffset(m, pt[1], pt[2])
  BY <1>2, <1>3, <1>5, SpotIsOrigin
<1>7. m.channels \in 1 .. 4 /\ m.size \in 1 .. 2
  BY <1>4, SpotFacts
<1>8. ASSUME NEW array PROVE Shown(n, array, pt) = Shown(m, array, pt)
  <2>1. BytesOf(n, array, pt) = BytesOf(m, array, pt)
    BY <1>5, <1>6 DEF BytesOf
  <2>2. \A j \in 1 .. m.channels * m.size : BytesOf(n, array, pt)[j] = BytesOf(m, array, pt)[j]
    BY <2>1
  <2> QED BY <1>2, <1>7, <2>2, SameColour DEF Shown
<1> QED BY <1>2, <1>4, <1>6, <1>8

LEMMA WithinItself ==
  ASSUME NEW m, WellFormed(m)
  PROVE  Within(m, m)
  BY RecordFacts DEF Within, WellFormed

LEMMA WithinTransitive ==
  ASSUME NEW a, NEW b, NEW c, WellFormed(a), WellFormed(b), WellFormed(c),
         Within(a, b), Within(b, c)
  PROVE  Within(a, c)
<1>1. CASE Points(a.rect) = {}
  BY <1>1 DEF Within
<1>2. CASE Points(a.rect) # {}
  <2>1. PICK pt : pt \in Points(a.rect)
    BY <1>2
  <2>2. pt \in Points(b.rect)
    BY <2>1, SameSpot
  <2>3. /\ a.channels = b.channels /\ a.size = b.size /\ a.stride = b.stride
        /\ a.size = 1 \/ Order(a.type) = Order(b.type)
        /\ b.rect.x0 <= a.rect.x0 /\ a.rect.x1 <= b.rect.x1
        /\ b.rect.y0 <= a.rect.y0 /\ a.rect.y1 <= b.rect.y1
        /\ Origin(a) = Origin(b)
    BY <1>2 DEF Within
  <2>4. /\ b.channels = c.channels /\ b.size = c.size /\ b.stride = c.stride
        /\ b.size = 1 \/ Order(b.type) = Order(c.type)
        /\ c.rect.x0 <= b.rect.x0 /\ b.rect.x1 <= c.rect.x1
        /\ c.rect.y0 <= b.rect.y0 /\ b.rect.y1 <= c.rect.y1
        /\ Origin(b) = Origin(c)
    BY <2>2 DEF Within
  <2>5. a \in Records /\ b \in Records /\ c \in Records
    BY DEF WellFormed
  <2>6. /\ c.rect.x0 <= a.rect.x0 /\ a.rect.x1 <= c.rect.x1
        /\ c.rect.y0 <= a.rect.y0 /\ a.rect.y1 <= c.rect.y1
    BY <2>3, <2>4, <2>5, RecordFacts
  <2> QED BY <2>3, <2>4, <2>6 DEF Within
<1> QED BY <1>1, <1>2

-----------------------------------------------------------------------------
\* The three ways in which a call leaves the state.
LEMMA AddedKeeps ==
  ASSUME IInv, NEW pix, NEW picture, NEW q, IsSeq(pix), WellFormed(q), HasRoom(q, pix),
         q.buf = Len(heap) + 1, q.picture = Len(heap) + 1,
         DOMAIN picture = Points(q.rect),
         \A pt \in Points(q.rect) : picture[pt] # Unclear => Shown(q, pix, pt) = picture[pt],
         heap' = Append(heap, pix), painted' = Append(painted, picture),
         images' = Append(images, q), ipc' = "ok"
  PROVE  IInv'
<1> DEFINE new == Len(heap) + 1
<1>1. /\ IsSeq(heap) /\ IsSeq(images) /\ IsSeq(painted) /\ Len(painted) = Len(heap)
      /\ \A b \in DOMAIN heap : IsSeq(heap[b])
  BY DEF IInv, Sequential
<1>2. /\ Len(heap) \in Nat /\ DOMAIN heap = 1 .. Len(heap)
      /\ Len(images) \in Nat /\ DOMAIN images = 1 .. Len(images)
      /\ DOMAIN painted = 1 .. Len(heap)
  BY <1>1, SeqFacts
<1>3. /\ IsSeq(heap') /\ Len(heap') = new /\ DOMAIN heap' = 1 .. new
      /\ \A b \in 1 .. Len(heap) : heap'[b] = heap[b]
      /\ heap'[new] = pix
  BY <1>1, AppendAny
<1>4. /\ IsSeq(painted') /\ Len(painted') = new /\ DOMAIN painted' = 1 .. new
      /\ \A b \in 1 .. Len(heap) : painted'[b] = painted[b]
      /\ painted'[new] = picture
  <2>1. /\ IsSeq(painted') /\ Len(painted') = Len(painted) + 1
        /\ DOMAIN painted' = 1 .. Len(painted) + 1
        /\ \A b \in 1 .. Len(painted) : painted'[b] = painted[b]
        /\ painted'[Len(painted) + 1] = picture
    BY <1>1, AppendAny
  <2> QED BY <2>1, <1>1
<1>5. /\ IsSeq(images') /\ Len(images') = Len(images) + 1 /\ DOMAIN images' = 1 .. Len(images) + 1
      /\ \A i \in 1 .. Len(images) : images'[i] = images[i]
      /\ images'[Len(images) + 1] = q
  BY <1>1, AppendAny
<1>6. \A i \in DOMAIN images : ImageFits(images[i], heap) /\ images[i].buf \in 1 .. Len(heap)
  BY <1>2 DEF IInv, ImageFits
<1>7. Sequential'
  BY <1>1, <1>2, <1>3, <1>4, <1>5 DEF Sequential
<1>8. ASSUME NEW i \in DOMAIN images' PROVE ImageFits(images'[i], heap')
  <2>1. CASE i \in 1 .. Len(images)
    <3>1. /\ images'[i] = images[i] /\ ImageFits(images[i], heap)
          /\ heap'[images[i].buf] = heap[images[i].buf]
          /\ images[i].buf \in DOMAIN heap'
      BY <1>2, <1>3, <1>5, <1>6, <2>1
    <3> QED BY <3>1 DEF ImageFits
  <2>2. CASE i = Len(images) + 1
    BY <1>2, <1>3, <1>5, <2>2 DEF ImageFits
  <2> QED BY <1>2, <1>5, <2>1, <2>2
<1>9. ASSUME NEW b \in DOMAIN heap'
      PROVE  \E i \in DOMAIN images' : IsRoot(b, images'[i], images', painted'[b])
  <2>1. CASE b \in 1 .. Len(heap)
    <3>1. PICK k \in DOMAIN images : IsRoot(b, images[k], images, painted[b])
      BY <1>2, <2>1 DEF IInv, Rooted
    <3>2. k \in DOMAIN images' /\ images'[k] = images[k] /\ painted'[b] = painted[b]
      BY <1>2, <1>4, <1>5, <2>1
    <3>3. \A i \in DOMAIN images' : images'[i].buf = b => i \in DOMAIN images /\ images'[i] = images[i]
      BY <1>2, <1>5, <2>1
    <3>4. IsRoot(b, images'[k], images', painted'[b])
      BY <3>1, <3>2, <3>3 DEF IsRoot
    <3> QED BY <3>2, <3>4
  <2>2. CASE b = new
    <3>1. \A i \in DOMAIN images' : images'[i].buf = b => images'[i] = q
      BY <1>2, <1>5, <1>6, <2>2
    <3>2. Within(q, q)
      BY WithinItself
    <3>3. Len(images) + 1 \in DOMAIN images' /\ images'[Len(images) + 1] = q
      BY <1>2, <1>5
    <3>4. IsRoot(b, images'[Len(images) + 1], images', painted'[b])
      BY <1>4, <2>2, <3>1, <3>2, <3>3 DEF IsRoot
    <3> QED BY <3>3, <3>4
  <2> QED BY <1>2, <1>3, <2>1, <2>2
<1>10. ASSUME NEW i \in DOMAIN images', NEW pt \in Points(images'[i].rect),
              painted'[images'[i].picture][pt] # Unclear
       PROVE  Shown(images'[i], heap'[images'[i].buf], pt) = painted'[images'[i].picture][pt]
  <2>1. CASE i \in 1 .. Len(images)
    <3>1. /\ i \in DOMAIN images /\ images'[i] = images[i] /\ images[i].buf \in 1 .. Len(heap)
          /\ images[i].picture = images[i].buf
      BY <1>2, <1>5, <1>6, <2>1 DEF ImageFits
    <3>2. /\ heap'[images[i].buf] = heap[images[i].buf]
          /\ painted'[images[i].picture] = painted[images[i].picture]
      BY <1>3, <1>4, <3>1
    <3>3. pt \in Points(images[i].rect) /\ painted[images[i].picture][pt] # Unclear
      BY <1>10, <3>1, <3>2
    <3>4. Shown(images[i], heap[images[i].buf], pt) = painted[images[i].picture][pt]
      BY <3>1, <3>3, Zenon DEF IInv, AllShown
    <3> QED BY <3>1, <3>2, <3>4
  <2>2. CASE i = Len(images) + 1
    BY <1>3, <1>4, <1>5, <1>10, <2>2
  <2>3. i \in 1 .. Len(images) \/ i = Len(images) + 1
    BY <1>2, <1>5
  <2> QED BY <2>1, <2>2, <2>3, Zenon
<1>11. PanicOnlyOffColumnZero'
  BY DEF PanicOnlyOffColumnZero
<1>12. AllShown'
  BY <1>10 DEF AllShown
<1>13. Rooted'
  BY <1>9 DEF Rooted
<1> QED BY <1>7, <1>8, <1>11, <1>12, <1>13 DEF IInv

LEMMA SharedKeeps ==
  ASSUME IInv, NEW k \in DOMAIN images, NEW q, ImageFits(q, heap),
         q.buf = images[k].buf, Within(q, images[k]),
         images' = Append(images, q), UNCHANGED <<heap, painted>>, ipc' = "ok"
  PROVE  IInv'
<1> DEFINE m == images[k]
<1>1. /\ IsSeq(heap) /\ IsSeq(images) /\ IsSeq(painted) /\ Len(painted) = Len(heap)
      /\ \A b \in DOMAIN heap : IsSeq(heap[b])
  BY DEF IInv, Sequential
<1>2. Len(images) \in Nat /\ DOMAIN images = 1 .. Len(images)
  BY <1>1, SeqFacts
<1>3. /\ IsSeq(images') /\ Len(images') = Len(images) + 1 /\ DOMAIN images' = 1 .. Len(images) + 1
      /\ \A i \in 1 .. Len(images) : images'[i] = images[i]
      /\ images'[Len(images) + 1] = q
  BY <1>1, AppendAny
<1>4. \A i \in DOMAIN images : ImageFits(images[i], heap)
  BY DEF IInv
<1>5. Sequential'
  BY <1>1, <1>3 DEF Sequential
<1>6. ASSUME NEW i \in DOMAIN images' PROVE ImageFits(images'[i], heap')
  <2>1. CASE i \in 1 .. Len(images)
    BY <1>2, <1>3, <1>4, <2>1 DEF ImageFits
  <2>2. CASE i = Len(images) + 1
    BY <1>3, <2>2 DEF ImageFits
  <2> QED BY <1>2, <1>3, <2>1, <2>2
<1>7. ASSUME NEW b \in DOMAIN heap'
      PROVE  \E i \in DOMAIN images' : IsRoot(b, images'[i], images', painted'[b])
  <2>1. PICK r \in DOMAIN images : IsRoot(b, images[r], images, painted[b])
    BY DEF IInv, Rooted
  <2>2. r \in DOMAIN images' /\ images'[r] = images[r]
    BY <1>2, <1>3
  <2>3. ASSUME NEW i \in DOMAIN images', images'[i].buf = b PROVE Within(images'[i], images[r])
    <3>1. CASE i \in 1 .. Len(images)
      BY <1>2, <1>3, <2>1, <2>3, <3>1 DEF IsRoot
    <3>2. CASE i = Len(images) + 1
      <4>1. images'[i] = q /\ Within(q, m) /\ Within(m, images[r])
        BY <1>3, <2>1, <2>3, <3>2 DEF IsRoot
      <4>2. WellFormed(q) /\ WellFormed(m) /\ WellFormed(images[r])
        BY <1>4 DEF ImageFits
      <4> QED BY <4>1, <4>2, WithinTransitive
    <3> QED BY <1>2, <1>3, <3>1, <3>2
  <2>4. IsRoot(b, images'[r], images', painted'[b])
    BY <2>1, <2>2, <2>3 DEF IsRoot
  <2> QED BY <2>2, <2>4
<1>8. ASSUME NEW i \in DOMAIN images', NEW pt \in Points(images'[i].rect),
              painted'[images'[i].picture][pt] # Unclear
       PROVE  Shown(images'[i], heap'[images'[i].buf], pt) = painted'[images'[i].picture][pt]
  <2>1. CASE i \in 1 .. Len(images)
    <3>1. /\ i \in DOMAIN images /\ images'[i] = images[i]
          /\ pt \in Points(images[i].rect) /\ painted[images[i].picture][pt] # Unclear
      BY <1>2, <1>3, <1>8, <2>1
    <3>2. Shown(images[i], heap[images[i].buf], pt) = painted[images[i].picture][pt]
      BY <3>1, Zenon DEF IInv, AllShown
    <3> QED BY <3>1, <3>2
  <2>2. CASE i = Len(images) + 1
    <3>1. images'[i] = q /\ q.picture = m.picture /\ ImageFits(m, heap)
      BY <1>3, <1>4, <2>2 DEF ImageFits
    <3>2. /\ pt \in Points(m.rect)
          /\ \A array : Shown(q, array, pt) = Shown(m, array, pt)
      BY <1>8, <3>1, SameSpot DEF ImageFits
    <3>3. Shown(m, heap[m.buf], pt) = painted[m.picture][pt]
      BY <1>8, <3>1, <3>2 DEF IInv, AllShown
    <3> QED BY <3>1, <3>2, <3>3
  <2> QED BY <1>2, <1>3, <2>1, <2>2
<1>9. PanicOnlyOffColumnZero'
  BY DEF PanicOnlyOffColumnZero
<1>10. AllShown'
  BY <1>8 DEF AllShown
<1>11. Rooted'
  BY <1>7 DEF Rooted
<1> QED BY <1>5, <1>6, <1>9, <1>10, <1>11 DEF IInv

LEMMA PaintKeeps ==
  ASSUME IInv, NEW k \in DOMAIN images, NEW pt, NEW pix, NEW colour,
         pt \in Points(images[k].rect) =>
            /\ DOMAIN pix = 1 .. SizeofPixel(images[k])
            /\ colour # Unclear =>
                  RGBA(images[k].channels, images[k].size, Order(images[k].type), pix) = colour,
         Paint(images[k], pt, pix, colour), ipc = "ok"
  PROVE  IInv'
<1> DEFINE m  == images[k]
           at == m.start + PixOffset(m, pt[1], pt[2])
           px == SizeofPixel(m)
<1>1. /\ IsSeq(heap) /\ IsSeq(images) /\ IsSeq(painted) /\ Len(painted) = Len(heap)
      /\ \A b \in DOMAIN heap : IsSeq(heap[b])
  BY DEF IInv, Sequential
<1>2. images' = images /\ ipc' = ipc
  BY DEF Paint
<1>3. PanicOnlyOffColumnZero'
  BY <1>2 DEF PanicOnlyOffColumnZero
<1>4. CASE pt \notin Points(m.rect)
  <2>1. heap' = heap /\ painted' = painted
    BY <1>4 DEF Paint
  <2> QED BY <1>2, <1>3, <2>1 DEF IInv, Sequential, Rooted, AllShown
<1>5. CASE pt \in Points(m.rect)
  <2>1. /\ heap' = [heap EXCEPT ![m.buf] =
                       [i \in DOMAIN @ |-> IF i - at \in DOMAIN pix THEN pix[i - at] ELSE @[i]]]
        /\ painted' = [painted EXCEPT ![m.picture][pt] = colour]
    BY <1>5 DEF Paint, Store
  <2>2. \A i \in DOMAIN images : ImageFits(images[i], heap)
    BY DEF IInv
  <2>3. /\ ImageFits(m, heap) /\ m.picture = m.buf /\ m.buf \in DOMAIN heap /\ WellFormed(m)
        /\ m.buf \in DOMAIN painted
    <3>1. DOMAIN heap = 1 .. Len(heap) /\ DOMAIN painted = 1 .. Len(painted)
      BY <1>1, SeqFacts
    <3> QED BY <1>1, <2>2, <3>1 DEF ImageFits
  <2>4. DOMAIN pix = 1 .. px
    BY <1>5
  <2>5. /\ DOMAIN heap' = DOMAIN heap /\ DOMAIN painted' = DOMAIN painted
        /\ \A b : b # m.buf /\ b \in DOMAIN heap => heap'[b] = heap[b]
        /\ \A b : b # m.buf /\ b \in DOMAIN painted => painted'[b] = painted[b]
        /\ painted'[m.buf] = [painted[m.buf] EXCEPT ![pt] = colour]
        /\ heap'[m.buf] = [i \in DOMAIN heap[m.buf] |->
                              IF i - at \in 1 .. px THEN pix[i - at] ELSE heap[m.buf][i]]
    <3> HIDE DEF at, px, m
    <3> QED BY <2>1, <2>3, <2>4
  <2>6. \A b \in DOMAIN painted : DOMAIN painted'[b] = DOMAIN painted[b]
    BY <2>5
  <2>7. ASSUME NEW b \in DOMAIN heap PROVE IsSeq(heap'[b]) /\ Len(heap'[b]) = Len(heap[b])
    <3>1. CASE b # m.buf
      BY <1>1, <2>5, <3>1
    <3>2. CASE b = m.buf
      <4>1. Len(heap[b]) \in Nat /\ DOMAIN heap[b] = 1 .. Len(heap[b])
        BY <1>1, SeqFacts
      <4>2. heap'[b] = [i \in 1 .. Len(heap[b]) |-> heap'[b][i]]
        <5> HIDE DEF at, px, m
        <5> QED BY <2>5, <3>2, <4>1
      <4> QED BY <4>1, <4>2, FunIsSeq
    <3> QED BY <3>1, <3>2
  <2>8. Sequential'
    <3>1. /\ Len(heap) \in Nat /\ DOMAIN heap = 1 .. Len(heap) /\ DOMAIN painted = 1 .. Len(heap)
      BY <1>1, SeqFacts
    <3>2. heap' = [i \in 1 .. Len(heap) |-> heap'[i]] /\ painted' = [i \in 1 .. Len(heap) |-> painted'[i]]
      <4> HIDE DEF at, m
      <4> QED BY <2>1, <3>1
    <3>3. IsSeq(heap') /\ Len(heap') = Len(heap) /\ IsSeq(painted') /\ Len(painted') = Len(heap)
      BY <3>1, <3>2, FunIsSeq
    <3> QED BY <1>1, <1>2, <2>5, <2>7, <3>3 DEF Sequential
  <2>9. \A i \in DOMAIN images' : ImageFits(images'[i], heap')
    <3> SUFFICES ASSUME NEW i \in DOMAIN images PROVE ImageFits(images[i], heap')
      BY <1>2
    <3>1. Len(heap'[images[i].buf]) = Len(heap[images[i].buf])
      BY <2>2, <2>7 DEF ImageFits
    <3> QED BY <2>2, <2>5, <3>1 DEF ImageFits, HasRoom
  <2>10. Rooted'
    <3> SUFFICES ASSUME NEW b \in DOMAIN heap
                 PROVE  \E i \in DOMAIN images : IsRoot(b, images[i], images, painted'[b])
      BY <1>2, <2>5 DEF Rooted
    <3>1. PICK r \in DOMAIN images : IsRoot(b, images[r], images, painted[b])
      BY DEF IInv, Rooted
    <3>2. b \in DOMAIN painted
      BY <1>1, SeqFacts
    <3> QED BY <2>6, <3>1, <3>2 DEF IsRoot
  <2>11. AllShown'
    <3> SUFFICES ASSUME NEW i \in DOMAIN images, NEW p \in Points(images[i].rect),
                        painted'[images[i].picture][p] # Unclear
                 PROVE  Shown(images[i], heap'[images[i].buf], p) = painted'[images[i].picture][p]
      BY <1>2 DEF AllShown
    <3> DEFINE n == images[i]
    <3>1. ImageFits(n, heap) /\ n.picture = n.buf /\ n.buf \in DOMAIN heap /\ WellFormed(n)
          /\ n.buf \in DOMAIN painted
      <4>1. DOMAIN heap = 1 .. Len(heap) /\ DOMAIN painted = 1 .. Len(painted)
        BY <1>1, SeqFacts
      <4> QED BY <1>1, <2>2, <4>1 DEF ImageFits
    <3>2. CASE n.buf # m.buf
      <4>1. heap'[n.buf] = heap[n.buf] /\ painted'[n.picture] = painted[n.picture]
        BY <2>5, <3>1, <3>2
      <4>2. painted[n.picture][p] # Unclear
        BY <4>1
      <4>3. Shown(n, heap[n.buf], p) = painted[n.picture][p]
        BY <4>2, Zenon DEF IInv, AllShown
      <4> QED BY <4>1, <4>3
    <3>3. CASE n.buf = m.buf
      <4>1. PICK r \in DOMAIN images : IsRoot(m.buf, images[r], images, painted[m.buf])
        BY <2>3 DEF IInv, Rooted
      <4> DEFINE root == images[r]
                 spot(q) == root.start + PixOffset(root, q[1], q[2])
      <4>2. /\ WellFormed(root) /\ Within(m, root) /\ Within(n, root)
            /\ DOMAIN painted[m.buf] = Points(root.rect)
        BY <2>2, <3>3, <4>1 DEF IsRoot, ImageFits
      <4>3. /\ pt \in Points(root.rect) /\ m.channels = root.channels /\ m.size = root.size
            /\ at = spot(pt)
            /\ \A array : Shown(m, array, pt) = Shown(root, array, pt)
        BY <1>5, <2>3, <4>2, SameSpot
      <4>4. /\ p \in Points(root.rect) /\ n.channels = root.channels /\ n.size = root.size
            /\ \A array : Shown(n, array, p) = Shown(root, array, p)
        BY <3>1, <4>2, SameSpot
      <4>5. px = SizeofPixel(root)
        BY <4>3 DEF SizeofPixel
      <4>6. ImageFits(root, heap) /\ root.buf = m.buf /\ IsSeq(heap[m.buf]) /\ HasRoom(root, heap[m.buf])
        BY <1>1, <2>2, <2>3, <4>1 DEF IsRoot, ImageFits
      <4>7. /\ spot(p) \in Nat /\ spot(p) + px <= Len(heap[m.buf]) /\ px \in Nat
        BY <4>2, <4>4, <4>5, <4>6, SpotInArray
      <4>8. /\ spot(pt) \in Nat /\ spot(pt) + px <= Len(heap[m.buf])
        BY <4>2, <4>3, <4>5, <4>6, SpotInArray
      <4>9. Len(heap[m.buf]) \in Nat /\ DOMAIN heap[m.buf] = 1 .. Len(heap[m.buf])
        BY <4>6, SeqFacts
      <4>10. CASE p = pt
        <5>1. \A j \in 1 .. px : heap'[m.buf][at + j] = pix[j]
          <6> SUFFICES ASSUME NEW j \in 1 .. px PROVE heap'[m.buf][at + j] = pix[j]
            OBVIOUS
          <6>1. /\ at + j \in DOMAIN heap[m.buf] /\ (at + j) - at = j
            <7> HIDE DEF at, px, spot
            <7> QED BY <4>3, <4>7, <4>8, <4>9
          <6> HIDE DEF at, px, m
          <6> QED BY <2>5, <6>1
        <5>2. Shown(m, heap'[m.buf], pt) = RGBA(m.channels, m.size, Order(m.type), pix)
          <6>1. \A j \in 1 .. m.channels * m.size : BytesOf(m, heap'[m.buf], pt)[j] = pix[j]
            BY <5>1 DEF BytesOf, SizeofPixel
          <6>2. m.channels \in 1 .. 4 /\ m.size \in 1 .. 2
            BY <1>5, <2>3, SpotFacts
          <6> QED BY <6>1, <6>2, SameColour DEF Shown
        <5>3. painted'[n.picture][p] = colour
          BY <2>5, <3>1, <3>3, <4>2, <4>3, <4>10
        <5>4. Shown(n, heap'[n.buf], p) = Shown(m, heap'[m.buf], pt)
          BY <3>3, <4>3, <4>4, <4>10
        <5> QED BY <1>5, <5>2, <5>3, <5>4
      <4>11. CASE p # pt
        <5>1. spot(p) + px <= spot(pt) \/ spot(pt) + px <= spot(p)
          <6>1. \/ PixOffset(root, p[1], p[2]) + px <= PixOffset(root, pt[1], pt[2])
                \/ PixOffset(root, pt[1], pt[2]) + px <= PixOffset(root, p[1], p[2])
            BY <4>2, <4>3, <4>4, <4>5, <4>11, SpotsApart
          <6>2. /\ root.start \in Nat /\ PixOffset(root, p[1], p[2]) \in Nat
                /\ PixOffset(root, pt[1], pt[2]) \in Nat
            BY <4>2, <4>3, <4>4, SpotFacts, RecordFacts DEF WellFormed
          <6> QED BY <4>7, <6>1, <6>2
        <5>2. \A j \in 1 .. px : heap'[m.buf][spot(p) + j] = heap[m.buf][spot(p) + j]
          <6> SUFFICES ASSUME NEW j \in 1 .. px
                       PROVE  heap'[m.buf][spot(p) + j] = heap[m.buf][spot(p) + j]
            OBVIOUS
          <6> DEFINE x == spot(p) + j
          <6>1. x \in DOMAIN heap[m.buf] /\ x - at \notin 1 .. px
            <7> HIDE DEF at, px, spot
            <7> QED BY <4>3, <4>7, <4>8, <4>9, <5>1
          <6> HIDE DEF at, px, m, x
          <6>2. heap'[m.buf][x] = heap[m.buf][x]
            BY <2>5, <6>1
          <6> QED BY <6>2 DEF x
        <5>3. BytesOf(root, heap'[m.buf], p) = BytesOf(root, heap[m.buf], p)
          BY <4>5, <5>2 DEF BytesOf
        <5>4. Shown(n, heap'[n.buf], p) = Shown(n, heap[n.buf], p)
          BY <3>3, <4>4, <5>3 DEF Shown
        <5>5. painted'[n.picture][p] = painted[n.picture][p]
          BY <2>5, <3>1, <3>3, <4>2, <4>4, <4>11
        <5>6. painted[n.picture][p] # Unclear
          BY <5>5
        <5>7. Shown(n, heap[n.buf], p) = painted[n.picture][p]
          BY <5>6, Zenon DEF IInv, AllShown
        <5> QED BY <5>4, <5>5, <5>7
      <4> QED BY <4>10, <4>11
    <3> QED BY <3>2, <3>3
  <2> QED BY <1>3, <2>8, <2>9, <2>10, <2>11 DEF IInv
<1> QED BY <1>4, <1>5

-----------------------------------------------------------------------------
\* What the images in the state satisfy.
LEMMA ImageFacts ==
  ASSUME IInv, NEW k \in DOMAIN images
  PROVE  /\ ImageFits(images[k], heap) /\ WellFormed(images[k]) /\ images[k] \in Records
         /\ images[k].picture = images[k].buf /\ images[k].buf \in DOMAIN heap
         /\ HasRoom(images[k], heap[images[k].buf]) /\ IsSeq(heap[images[k].buf])
         /\ Len(heap[images[k].buf]) \in Nat /\ images[k].start \in 0 .. Len(heap[images[k].buf])
<1>1. /\ ImageFits(images[k], heap) /\ WellFormed(images[k]) /\ images[k] \in Records
      /\ images[k].picture = images[k].buf /\ images[k].buf \in DOMAIN heap
      /\ HasRoom(images[k], heap[images[k].buf]) /\ IsSeq(heap[images[k].buf])
  BY DEF IInv, ImageFits, WellFormed, Sequential
<1>2. Len(heap[images[k].buf]) \in Nat /\ images[k].start \in Nat
  BY <1>1, SeqFacts, RecordFacts
<1> QED BY <1>1, <1>2 DEF HasRoom

LEMMA HeapLength ==
  ASSUME IInv
  PROVE  Len(heap) \in Nat /\ Len(painted) = Len(heap)
  BY SeqFacts DEF IInv, Sequential

\* An image that begins at its array.
Moved(m, b) == [m EXCEPT !.buf = b, !.start = 0, !.picture = b]

LEMMA MovedFacts ==
  ASSUME NEW m, NEW b \in Nat, WellFormed(m)
  PROVE  LET q == Moved(m, b)
         IN  /\ WellFormed(q) /\ q.buf = b /\ q.picture = b /\ q.start = 0
             /\ q.rect = m.rect /\ q.channels = m.channels /\ q.size = m.size /\ q.stride = m.stride
             /\ q.type = m.type /\ SizeofPixel(q) = SizeofPixel(m)
             /\ Width(q) = Width(m) /\ Height(q) = Height(m)
<1> DEFINE q == Moved(m, b)
<1>1. m \in Records
  BY DEF WellFormed
<1>2. /\ q.buf = b /\ q.picture = b /\ q.start = 0
      /\ q.rect = m.rect /\ q.channels = m.channels /\ q.size = m.size /\ q.stride = m.stride
      /\ q.type = m.type /\ q \in Records
  BY <1>1 DEF Moved, Records
<1> HIDE DEF q
<1>3. SizeofPixel(q) = SizeofPixel(m) /\ Width(q) = Width(m) /\ Height(q) = Height(m)
  BY <1>2 DEF SizeofPixel, Width, Height
<1>4. WellFormed(q)
  BY <1>2, <1>3 DEF WellFormed
<1> QED BY <1>2, <1>3, <1>4 DEF q

LEMMA CopiesKeeps ==
  ASSUME IInv, NEW k \in DOMAIN images, NEW m, NEW pix, WellFormed(m),
         m.rect = images[k].rect, m.picture = images[k].picture,
         IsSeq(pix), HasRoom(Moved(m, Len(heap) + 1), pix),
         \A pt \in Points(m.rect) :
            Shown(Moved(m, Len(heap) + 1), pix, pt) = Shown(images[k], heap[images[k].buf], pt),
         Copies(m, pix), ipc = "ok"
  PROVE  IInv'
<1> DEFINE b == Len(heap) + 1
           q == Moved(m, b)
<1>1. b \in Nat /\ Len(painted) + 1 = b
  BY HeapLength
<1>2. /\ heap' = Append(heap, pix) /\ painted' = Append(painted, Picture(m))
      /\ images' = Append(images, q) /\ ipc' = "ok"
  BY <1>1 DEF Copies, Moved
<1>3. WellFormed(q) /\ q.buf = b /\ q.picture = b /\ q.rect = m.rect
  BY <1>1, MovedFacts
<1>4. DOMAIN Picture(m) = Points(q.rect)
  BY <1>3 DEF Picture
<1>5. ASSUME NEW pt \in Points(q.rect), Picture(m)[pt] # Unclear
      PROVE  Shown(q, pix, pt) = Picture(m)[pt]
  <2>1. Picture(m)[pt] = painted[images[k].picture][pt] /\ pt \in Points(images[k].rect)
    BY <1>3 DEF Picture
  <2>2. Shown(images[k], heap[images[k].buf], pt) = painted[images[k].picture][pt]
    BY <1>5, <2>1, Zenon DEF IInv, AllShown
  <2> QED BY <1>3, <2>1, <2>2
<1> HIDE DEF q
<1>6. HasRoom(q, pix)
  BY DEF q
<1> QED BY <1>2, <1>3, <1>4, <1>5, <1>6, AddedKeeps

\* The same bytes from the first one on.
LEMMA SuffixShows ==
  ASSUME NEW m, NEW q, NEW array, WellFormed(m), HasRoom(m, array), IsSeq(array),
         WellFormed(q), q.start = 0, q.rect = m.rect, q.stride = m.stride,
         q.channels = m.channels, q.size = m.size
  PROVE  LET pix == SubSeq(array, m.start + 1, Len(array))
         IN  /\ IsSeq(pix) /\ Len(pix) = Len(array) - m.start
             /\ HasRoom(q, pix)
             /\ \A pt \in Points(m.rect) :
                   /\ BytesOf(q, pix, pt) = BytesOf(m, array, pt)
                   /\ m.size = 1 \/ Order(q.type) = Order(m.type)
                      => Shown(q, pix, pt) = Shown(m, array, pt)
<1> DEFINE pix == SubSeq(array, m.start + 1, Len(array))
<1>1. m.start \in Nat /\ Len(array) \in Nat /\ m.start <= Len(array)
  BY SeqFacts, RecordFacts DEF WellFormed, HasRoom
<1>2. m.start \in 0 .. Len(array)
  BY <1>1
<1>3. /\ IsSeq(pix) /\ Len(pix) = Len(array) - m.start
      /\ \A i \in 1 .. Len(array) - m.start : pix[i] = array[m.start + i]
  BY <1>2, SuffixFacts
<1> HIDE DEF pix
<1>4. SizeofPixel(q) = SizeofPixel(m) /\ Width(q) = Width(m) /\ Height(q) = Height(m)
  BY DEF SizeofPixel, Width, Height
<1>5. HasRoom(q, pix)
  <2> DEFINE c == (Height(m) - 1) * m.stride
             d == Width(m)
             e == Height(m) * m.stride
  <2>1. /\ (Height(m) > 0 => m.start + c + d <= Len(array))
        /\ (m.rect.x0 = 0 => m.start + e <= Len(array))
        /\ c \in Int /\ d \in Int /\ e \in Int
    BY RecordFacts DEF HasRoom, WellFormed
  <2> HIDE DEF c, d, e
  <2>2. /\ (Height(m) > 0 => 0 + c + d <= Len(pix)) /\ (m.rect.x0 = 0 => 0 + e <= Len(pix))
        /\ 0 <= Len(pix)
    BY <1>1, <1>3, <2>1
  <2> QED BY <1>4, <2>2 DEF HasRoom, c, d, e
<1>6. ASSUME NEW pt \in Points(m.rect)
      PROVE  /\ BytesOf(q, pix, pt) = BytesOf(m, array, pt)
             /\ m.size = 1 \/ Order(q.type) = Order(m.type)
                => Shown(q, pix, pt) = Shown(m, array, pt)
  <2> DEFINE at == PixOffset(m, pt[1], pt[2])
             px == SizeofPixel(m)
  <2>1. PixOffset(q, pt[1], pt[2]) = at
    BY <1>4 DEF PixOffset
  <2>2. /\ at \in Nat /\ px \in Nat /\ m.start + at + px <= Len(array)
        /\ m.channels \in 1 .. 4 /\ m.size \in 1 .. 2
    <3>1. at \in Nat /\ m.channels \in 1 .. 4 /\ m.size \in 1 .. 2
      BY SpotFacts
    <3> QED BY <3>1, SpotInArray
  <2>3. ASSUME NEW j \in 1 .. px PROVE pix[0 + at + j] = array[m.start + at + j]
    <3> HIDE DEF at, px
    <3>1. at + j \in 1 .. Len(array) - m.start /\ m.start + (at + j) = m.start + at + j /\ 0 + at + j = at + j
      BY <1>1, <2>2
    <3> QED BY <1>3, <3>1
  <2>4. BytesOf(q, pix, pt) = BytesOf(m, array, pt)
    <3> HIDE DEF at, px
    <3>1. BytesOf(q, pix, pt) = [j \in 1 .. px |-> pix[0 + at + j]]
      BY <1>4, <2>1 DEF BytesOf, px, at
    <3>2. BytesOf(m, array, pt) = [j \in 1 .. px |-> array[m.start + at + j]]
      BY DEF BytesOf, px, at
    <3> QED BY <2>3, <3>1, <3>2
  <2>5. ASSUME m.size = 1 \/ Order(q.type) = Order(m.type)
        PROVE  Shown(q, pix, pt) = Shown(m, array, pt)
    <3>1. \A j \in 1 .. m.channels * m.size : BytesOf(q, pix, pt)[j] = BytesOf(m, array, pt)[j]
      BY <2>4
    <3> QED BY <2>2, <2>5, <3>1, SameColour DEF Shown
  <2> QED BY <2>4, <2>5
<1> QED BY <1>3, <1>5, <1>6 DEF pix

LEMMA CloneKeeps ==
  ASSUME IInv, NEW k \in DOMAIN images, NEW m, WellFormed(m), m.type \in Types,
         m.rect = images[k].rect, m.picture = images[k].picture, m.stride = images[k].stride,
         m.channels = images[k].channels, m.size = images[k].size,
         m.buf = images[k].buf, m.start = images[k].start,
         images[k].size = 1 \/ Order(m.type) = Order(images[k].type) \/ Points(m.rect) = {},
         Clone(m), ipc = "ok"
  PROVE  IInv'
<1> DEFINE b == Len(heap) + 1
           q == Moved(m, b)
           p == images[k]
           array == heap[p.buf]
           pix == SubSeq(array, p.start + 1, Len(array))
<1>1. b \in Nat /\ WellFormed(p) /\ HasRoom(p, array) /\ IsSeq(array)
  BY HeapLength, ImageFacts
<1>2. /\ WellFormed(q) /\ q.start = 0 /\ q.rect = p.rect /\ q.stride = p.stride
      /\ q.channels = p.channels /\ q.size = p.size /\ q.type = m.type
  BY <1>1, MovedFacts
<1>3. Pix(m) = pix
  BY DEF Pix
<1>4. Copies(m, pix)
  BY <1>3 DEF Clone
<1> HIDE DEF q, p, array
<1>5. /\ IsSeq(pix) /\ HasRoom(q, pix)
      /\ \A pt \in Points(p.rect) :
            p.size = 1 \/ Order(q.type) = Order(p.type) => Shown(q, pix, pt) = Shown(p, array, pt)
  BY <1>1, <1>2, SuffixShows
<1> HIDE DEF pix
<1>6. ASSUME NEW pt \in Points(m.rect) PROVE Shown(q, pix, pt) = Shown(p, array, pt)
  <2>1. p.size = 1 \/ Order(q.type) = Order(p.type)
    BY <1>2 DEF p
  <2>2. pt \in Points(p.rect)
    BY DEF p
  <2> QED BY <1>5, <2>1, <2>2
<1> QED BY <1>4, <1>5, <1>6, CopiesKeeps DEF q, p, array

-----------------------------------------------------------------------------
\* The calls that clone or share an array.
LEMMA CloneImageKeeps ==
  ASSUME IInv, NEW k \in DOMAIN images, CloneImage(images[k])
  PROVE  IInv'
<1>1. WellFormed(images[k]) /\ images[k].type \in Types
  BY ImageFacts, RecordFacts
<1> QED BY <1>1, CloneKeeps DEF CloneImage, Calls

\* An image of another type.
LEMMA Retyped ==
  ASSUME NEW m, NEW t \in Types, WellFormed(m),
         t \in {"Gray", "RGBA"} => m.size # 2,
         t \in {"Gray16", "RGBA64"} => m.size # 1,
         t \notin {"YCbCr", "Other"}
  PROVE  LET q == [m EXCEPT !.type = t]
         IN  /\ WellFormed(q) /\ q.type = t /\ q.rect = m.rect /\ q.picture = m.picture
             /\ q.stride = m.stride /\ q.channels = m.channels /\ q.size = m.size
             /\ q.buf = m.buf /\ q.start = m.start /\ Origin(q) = Origin(m)
             /\ Width(q) = Width(m) /\ Height(q) = Height(m) /\ SizeofPixel(q) = SizeofPixel(m)
<1> DEFINE q == [m EXCEPT !.type = t]
<1>1. m \in Records
  BY DEF WellFormed
<1>2. /\ q \in Records /\ q.type = t /\ q.rect = m.rect /\ q.picture = m.picture
      /\ q.stride = m.stride /\ q.channels = m.channels /\ q.size = m.size
      /\ q.buf = m.buf /\ q.start = m.start
  BY <1>1 DEF Records
<1> HIDE DEF q
<1>3. SizeofPixel(q) = SizeofPixel(m) /\ Width(q) = Width(m) /\ Height(q) = Height(m)
  BY <1>2 DEF SizeofPixel, Width, Height
<1>4. Origin(q) = Origin(m)
  BY <1>2, <1>3 DEF Origin
<1>5. WellFormed(q)
  BY <1>2, <1>3 DEF WellFormed
<1> QED BY <1>2, <1>3, <1>4, <1>5 DEF q

LEMMA RetypedShares ==
  ASSUME IInv, NEW k \in DOMAIN images, NEW t \in Types,
         t \in {"Gray", "RGBA"} => images[k].size # 2,
         t \in {"Gray16", "RGBA64"} => images[k].size # 1,
         t \notin {"YCbCr", "Other"},
         images[k].size # 2 \/ Order(t) = Order(images[k].type),
         Shares([images[k] EXCEPT !.type = t], images[k].start), ipc = "ok"
  PROVE  IInv'
<1> DEFINE m == images[k]
           q == [m EXCEPT !.type = t]
<1>1. WellFormed(m) /\ m \in Records /\ HasRoom(m, heap[m.buf]) /\ m.picture = m.buf
      /\ m.buf \in DOMAIN heap
  BY ImageFacts
<1>2. /\ WellFormed(q) /\ q.type = t /\ q.rect = m.rect /\ q.picture = m.picture
      /\ q.stride = m.stride /\ q.channels = m.channels /\ q.size = m.size
      /\ q.buf = m.buf /\ q.start = m.start /\ Origin(q) = Origin(m)
      /\ Width(q) = Width(m) /\ Height(q) = Height(m)
  BY <1>1, Retyped
<1>3. [q EXCEPT !.start = m.start] = q
  BY <1>1 DEF Records
<1>4. images' = Append(images, q) /\ UNCHANGED <<heap, painted>> /\ ipc' = "ok"
  BY <1>3 DEF Shares
<1>5. m.size \in 0 .. 2
  BY <1>1, RecordFacts
<1> HIDE DEF q
<1>6. ImageFits(q, heap)
  BY <1>1, <1>2 DEF ImageFits, HasRoom
<1>7. Within(q, m)
  <2>1. CASE Points(m.rect) = {}
    BY <1>2, <2>1 DEF Within
  <2>2. CASE Points(m.rect) # {}
    <3>1. m.size > 0
      BY <1>1, <2>2 DEF WellFormed
    <3>2. m.size = 1 \/ Order(q.type) = Order(m.type)
      BY <1>2, <1>5, <3>1
    <3>3. /\ m.rect.x0 <= m.rect.x0 /\ m.rect.x1 <= m.rect.x1
          /\ m.rect.y0 <= m.rect.y0 /\ m.rect.y1 <= m.rect.y1
      BY <1>1, RecordFacts
    <3> QED BY <1>2, <3>2, <3>3 DEF Within
  <2> QED BY <2>1, <2>2
<1> QED BY <1>2, <1>4, <1>6, <1>7, SharedKeeps

LEMMA AsMemPImageKeeps ==
  ASSUME IInv, NEW k \in DOMAIN images, AsMemPImage(images[k])
  PROVE  IInv'
<1>1. images[k].size # 2
  BY ImageFacts DEF AsMemPImage, WellFormed
<1> QED BY <1>1, RetypedShares DEF AsMemPImage, Types, Calls

LEMMA FromSharedKeeps ==
  ASSUME IInv, NEW k \in DOMAIN images, FromShared(images[k]), ipc = "ok"
  PROVE  IInv'
<1> DEFINE m == images[k]
           q == [m EXCEPT !.type = "MemP"]
<1>1. WellFormed(m) /\ m \in Records
  BY ImageFacts
<1>2. /\ WellFormed(q) /\ q.type = "MemP" /\ q.rect = m.rect /\ q.picture = m.picture
      /\ q.stride = m.stride /\ q.channels = m.channels /\ q.size = m.size
      /\ q.buf = m.buf /\ q.start = m.start
  <2>1. "MemP" \in Types /\ "MemP" \notin {"Gray", "RGBA"} /\ "MemP" \notin {"Gray16", "RGBA64"}
        /\ "MemP" \notin {"YCbCr", "Other"}
    BY DEF Types
  <2> QED BY <1>1, <2>1, Retyped, Zenon
<1>3. m.size = 1 \/ Order(q.type) = Order(m.type) \/ Points(q.rect) = {}
  <2>1. CASE m.type = "MemP"
    BY <1>2, <2>1
  <2>2. CASE m.type \in {"Gray", "RGBA"} /\ Points(m.rect) # {}
    <3>1. m.size \in 0 .. 2 /\ m.size # 2 /\ m.size > 0
      BY <1>1, <2>2, RecordFacts DEF WellFormed
    <3> QED BY <3>1
  <2>3. CASE Points(m.rect) = {}
    BY <1>2, <2>3
  <2> QED BY <2>1, <2>2, <2>3 DEF FromShared
<1>4. Clone(q)
  BY DEF FromShared
<1> HIDE DEF q
<1> QED BY <1>2, <1>3, <1>4, CloneKeeps DEF Types

\* SubImage.
LEMMA EmptyKeeps ==
  ASSUME IInv, NEW k \in DOMAIN images, images[k].type \notin {"YCbCr", "Other"}, ipc = "ok",
         Shares([images[k] EXCEPT !.channels = 0, !.size = 0, !.stride = 0,
                                  !.rect = [x0 |-> 0, y0 |-> 0, x1 |-> 0, y1 |-> 0]],
                Len(heap[images[k].buf]))
  PROVE  IInv'
<1> DEFINE m == images[k]
           length == Len(heap[m.buf])
           q == [[m EXCEPT !.channels = 0, !.size = 0, !.stride = 0,
                           !.rect = [x0 |-> 0, y0 |-> 0, x1 |-> 0, y1 |-> 0]]
                   EXCEPT !.start = length]
<1>1. WellFormed(m) /\ m \in Records /\ m.picture = m.buf /\ m.buf \in DOMAIN heap /\ length \in Nat
  BY ImageFacts
<1>2. images' = Append(images, q) /\ UNCHANGED <<heap, painted>> /\ ipc' = "ok"
  BY DEF Shares
<1> HIDE DEF length
<1>3. /\ q.buf = m.buf /\ q.picture = m.picture /\ q.start = length /\ q.type = m.type
      /\ q.channels = 0 /\ q.size = 0 /\ q.stride = 0
      /\ q.rect.x0 = 0 /\ q.rect.x1 = 0 /\ q.rect.y0 = 0 /\ q.rect.y1 = 0
      /\ q.rect \in Rectangles
  BY <1>1 DEF Records, Rectangles
<1>4. q \in Records
  <2> DEFINE origin == [x0 |-> 0, y0 |-> 0, x1 |-> 0, y1 |-> 0]
  <2>1. origin \in Rectangles
    BY DEF Rectangles
  <2> HIDE DEF origin
  <2> DEFINE bare == [m EXCEPT !.channels = 0, !.size = 0, !.stride = 0]
  <2>2. [m EXCEPT !.channels = 0, !.size = 0, !.stride = 0, !.rect = origin] \in Records
    <3>1. bare \in Records
      <4> DEFINE m1 == [m EXCEPT !.channels = 0]
                 m2 == [m1 EXCEPT !.size = 0]
                 m3 == [m2 EXCEPT !.stride = 0]
      <4>1. bare = m3
        BY <1>1 DEF Records
      <4>2. m1 \in Records
        BY <1>1 DEF Records
      <4> HIDE DEF m1
      <4>3. m2 \in Records
        BY <4>2 DEF Records
      <4> HIDE DEF m2
      <4>4. m3 \in Records
        BY <4>3 DEF Records
      <4> QED BY <4>1, <4>4
    <3>2. [bare EXCEPT !.rect = origin] \in Records
      BY <2>1, <3>1 DEF Records
    <3>3. [m EXCEPT !.channels = 0, !.size = 0, !.stride = 0, !.rect = origin]
             = [bare EXCEPT !.rect = origin]
      BY <1>1 DEF Records
    <3> QED BY <3>2, <3>3
  <2>3. [[m EXCEPT !.channels = 0, !.size = 0, !.stride = 0, !.rect = origin]
           EXCEPT !.start = length] \in Records
    BY <1>1, <2>2 DEF Records
  <2> QED BY <2>3 DEF origin
<1> HIDE DEF q
<1>5. Width(q) = 0 /\ Height(q) = 0
  BY <1>3 DEF Width, Height, SizeofPixel
<1>6. Points(q.rect) = {}
  BY <1>3 DEF Points
<1>7. WellFormed(q)
  BY <1>3, <1>4, <1>5, <1>6 DEF WellFormed
<1>8. HasRoom(q, heap[q.buf])
  <2>1. q.start <= length /\ q.start + 0 * 0 <= length /\ ~ (0 > 0)
    BY <1>1, <1>3
  <2> QED BY <1>3, <1>5, <2>1 DEF HasRoom, length
<1>9. ImageFits(q, heap) /\ Within(q, m)
  BY <1>1, <1>3, <1>6, <1>7, <1>8 DEF ImageFits, Within
<1> QED BY <1>2, <1>3, <1>9, SharedKeeps

LEMMA CutKeeps ==
  ASSUME IInv, NEW k \in DOMAIN images, NEW r \in Cuts, NEW s, s = Intersect(r, images[k].rect),
         ipc = "ok", images[k].type \notin {"YCbCr", "Other"}, Points(s) # {},
         Shares([images[k] EXCEPT !.rect = s], images[k].start + PixOffset(images[k], s.x0, s.y0))
  PROVE  IInv'
<1> DEFINE m == images[k]
           at == PixOffset(m, s.x0, s.y0)
           q == [[m EXCEPT !.rect = s] EXCEPT !.start = m.start + at]
           length == Len(heap[m.buf])
<1>1. /\ WellFormed(m) /\ m \in Records /\ m.picture = m.buf /\ m.buf \in DOMAIN heap /\ length \in Nat
      /\ HasRoom(m, heap[m.buf]) /\ IsSeq(heap[m.buf])
  BY ImageFacts
<1>2. /\ m.rect.x0 \in Nat /\ m.rect.y0 \in Int /\ m.rect.x1 \in Int /\ m.rect.y1 \in Int
      /\ m.start \in Nat /\ m.stride \in Nat /\ SizeofPixel(m) \in Nat /\ m.rect \in Rectangles
      /\ m.channels \in 0 .. 4
  BY <1>1, RecordFacts
<1>3. r.x0 \in Int /\ r.y0 \in Int /\ r.x1 \in Int /\ r.y1 \in Int
  BY RectsAssumption
<1>4. /\ s \in Rectangles
      /\ m.rect.x0 <= s.x0 /\ s.x1 <= m.rect.x1 /\ m.rect.y0 <= s.y0 /\ s.y1 <= m.rect.y1
  BY <1>2, <1>3 DEF Intersect, Larger, Smaller, Rectangles
<1>5. s.x0 < s.x1 /\ s.y0 < s.y1 /\ s.x0 \in Nat /\ s.y0 \in Int /\ s.x1 \in Int /\ s.y1 \in Int
  <2>1. PICK pt : pt \in Points(s)
    OBVIOUS
  <2>2. s.x0 \in Nat /\ s.y0 \in Int /\ s.x1 \in Int /\ s.y1 \in Int
    BY <1>4 DEF Rectangles
  <2> QED BY <1>4, <2>1, <2>2, PointFacts
<1>6. <<s.x0, s.y0>> \in Points(m.rect) /\ Points(m.rect) # {}
  BY <1>2, <1>4, <1>5 DEF Points
<1>7. at \in Nat /\ (m.size = 2 => at % 2 = 0) /\ m.size \in 1 .. 2 /\ m.channels \in 1 .. 4
  <2>1. <<s.x0, s.y0>>[1] = s.x0 /\ <<s.x0, s.y0>>[2] = s.y0
    OBVIOUS
  <2> QED BY <1>1, <1>6, <2>1, SpotFacts
<1>8. images' = Append(images, q) /\ UNCHANGED <<heap, painted>> /\ ipc' = "ok"
  BY DEF Shares
<1>9. at = (s.y0 - m.rect.y0) * m.stride + (s.x0 - m.rect.x0) * SizeofPixel(m)
  BY DEF PixOffset
<1> HIDE DEF at, length
<1>10. /\ q.buf = m.buf /\ q.picture = m.picture /\ q.start = m.start + at /\ q.type = m.type
       /\ q.channels = m.channels /\ q.size = m.size /\ q.stride = m.stride /\ q.rect = s
       /\ q \in Records
  <2> DEFINE cut == [m EXCEPT !.rect = s]
  <2>1. /\ cut \in Records /\ cut.buf = m.buf /\ cut.picture = m.picture /\ cut.type = m.type
        /\ cut.channels = m.channels /\ cut.size = m.size /\ cut.stride = m.stride /\ cut.rect = s
    BY <1>1, <1>4 DEF Records
  <2>2. m.start + at \in Nat
    BY <1>2, <1>7
  <2> HIDE DEF cut
  <2>3. /\ [cut EXCEPT !.start = m.start + at] \in Records
        /\ [cut EXCEPT !.start = m.start + at].start = m.start + at
        /\ \A f \in {"buf", "picture", "type", "channels", "size", "stride", "rect"} :
              [cut EXCEPT !.start = m.start + at][f] = cut[f]
    BY <2>1, <2>2 DEF Records
  <2> QED BY <2>1, <2>3 DEF cut
<1> HIDE DEF q
<1> DEFINE px == SizeofPixel(m)
           st == m.stride
<1>11. SizeofPixel(q) = px /\ Width(q) = (s.x1 - s.x0) * px /\ Height(q) = s.y1 - s.y0
  BY <1>10 DEF SizeofPixel, Width, Height
<1>12. (s.x1 - s.x0) * px <= (m.rect.x1 - m.rect.x0) * px /\ Width(m) = (m.rect.x1 - m.rect.x0) * px
  <2>1. s.x1 - s.x0 <= m.rect.x1 - m.rect.x0
    BY <1>2, <1>4, <1>5
  <2> HIDE DEF px
  <2>2. px \in Nat
    BY <1>2 DEF px
  <2>3. s.x1 - s.x0 \in Int /\ m.rect.x1 - m.rect.x0 \in Int
    BY <1>2, <1>5
  <2>4. (s.x1 - s.x0) * px <= (m.rect.x1 - m.rect.x0) * px
    BY <2>1, <2>2, <2>3, TimesMonotone
  <2> QED BY <2>4 DEF Width, px
<1>13. WellFormed(q)
  <2>1. m.stride \in Int /\ Width(m) \in Int /\ Width(q) \in Int /\ Width(m) <= m.stride
    BY <1>1, <1>10, RecordFacts DEF WellFormed
  <2>2. Width(q) <= q.stride
    BY <1>10, <1>11, <1>12, <2>1
  <2>3. m.size = 2 => m.stride % 2 = 0
    BY <1>1 DEF WellFormed
  <2>4. /\ (m.type \in {"Gray", "RGBA"} => m.size # 2) /\ (m.type \in {"Gray16", "RGBA64"} => m.size # 1)
    BY <1>1 DEF WellFormed
  <2>5. q.channels > 0 /\ q.size > 0 /\ q.rect.x0 <= q.rect.x1 /\ q.rect.y0 <= q.rect.y1
    BY <1>5, <1>7, <1>10
  <2> QED BY <1>10, <2>2, <2>3, <2>4, <2>5 DEF WellFormed
<1>14. Origin(q) = Origin(m)
  <2>1. Origin(q) = (m.start + at) - s.y0 * st - s.x0 * px
    <3>1. q.start = m.start + at /\ q.rect = s /\ q.stride = st /\ SizeofPixel(q) = px
      BY <1>10, <1>11
    <3>2. Origin(q) = q.start - q.rect.y0 * q.stride - q.rect.x0 * SizeofPixel(q)
      BY DEF Origin
    <3>3. q.rect.y0 = s.y0 /\ q.rect.x0 = s.x0
      BY <3>1
    <3> HIDE DEF px, st
    <3>4. q.rect.y0 * q.stride = s.y0 * st /\ q.rect.x0 * SizeofPixel(q) = s.x0 * px
      BY <3>1, <3>3
    <3> QED BY <3>1, <3>2, <3>4, Zenon
  <2>2. m.start + at = Origin(m) + s.y0 * st + s.x0 * px
    BY <1>1, <1>5, SpotIsOrigin DEF at
  <2>3. /\ Origin(m) \in Int /\ s.y0 * st \in Int /\ s.x0 * px \in Int /\ m.start \in Nat /\ at \in Nat
    BY <1>1, <1>2, <1>5, <1>7, RecordFacts
  <2> HIDE DEF px, st
  <2> DEFINE a == s.y0 * st
             b == s.x0 * px
  <2>4. a \in Int /\ b \in Int /\ Origin(q) = (m.start + at) - a - b /\ m.start + at = Origin(m) + a + b
    BY <2>1, <2>2, <2>3
  <2>5. Origin(m) \in Int /\ m.start \in Int /\ at \in Int
    BY <2>3
  <2> HIDE DEF a, b
  <2>6. (m.start + at) - a - b = Origin(m)
    <3>1. a \in Int /\ b \in Int /\ m.start + at = Origin(m) + a + b
      BY <2>4
    <3> QED BY <2>5, <3>1
  <2> QED BY <2>4, <2>6, Zenon
<1>15. Within(q, m)
  BY <1>4, <1>10, <1>14 DEF Within
<1>16. HasRoom(q, heap[q.buf])
  <2> DEFINE h0 == s.y0 - m.rect.y0
             h  == s.y1 - s.y0
             hm == m.rect.y1 - m.rect.y0
             w0 == s.x0 - m.rect.x0
             w  == s.x1 - s.x0
             wm == m.rect.x1 - m.rect.x0
  <2>1. /\ h0 \in Nat /\ h \in Nat /\ h > 0 /\ hm \in Nat /\ h0 + h <= hm
        /\ w0 \in Nat /\ w \in Nat /\ w > 0 /\ wm \in Nat /\ w0 + w <= wm
    BY <1>2, <1>4, <1>5
  <2>2. /\ m.start + (hm - 1) * st + wm * px <= length
        /\ m.rect.x0 = 0 => m.start + hm * st <= length
    BY <1>1, <2>1 DEF HasRoom, Width, Height, length
  <2>3. at = h0 * st + w0 * px
    BY <1>9
  <2>4. px \in Nat /\ st \in Nat /\ m.start \in Nat
    BY <1>2
  <2>5. /\ Height(q) = h /\ Width(q) = w * px /\ q.stride = st /\ q.start = m.start + at
        /\ q.rect.x0 = s.x0
    BY <1>10, <1>11
  <2>6. s.x0 = 0 => w0 = 0 /\ m.rect.x0 = 0
    BY <1>2, <1>4
  <2> HIDE DEF px, st, h0, h, hm, w0, w, wm
  <2>7. /\ (h0 + (h - 1)) * st <= (hm - 1) * st
        /\ (w0 + w) * px <= wm * px
        /\ (h0 + h) * st <= hm * st
    <3>1. /\ h0 + (h - 1) \in Int /\ hm - 1 \in Int /\ h0 + (h - 1) <= hm - 1
          /\ w0 + w \in Int /\ wm \in Int /\ h0 + h \in Int /\ hm \in Int
      BY <2>1
    <3> QED BY <2>1, <2>4, <3>1, TimesMonotone
  <2>8. /\ (h0 + (h - 1)) * st = h0 * st + (h - 1) * st
        /\ (w0 + w) * px = w0 * px + w * px
        /\ (h0 + h) * st = h0 * st + h * st
        /\ (h - 1) * st \in Int /\ h0 * st \in Int /\ w0 * px \in Int /\ w * px \in Int /\ h * st \in Int
        /\ (hm - 1) * st \in Int /\ wm * px \in Int /\ hm * st \in Int
    BY <2>1, <2>4
  <2> DEFINE a == h0 * st
             b == w0 * px
             c == (h - 1) * st
             d == w * px
             e == h * st
             f == (hm - 1) * st
             g == wm * px
             i == hm * st
  <2>9. /\ a \in Int /\ b \in Int /\ c \in Int /\ d \in Int /\ e \in Int
        /\ f \in Int /\ g \in Int /\ i \in Int
        /\ a + c <= f /\ b + d <= g /\ a + e <= i /\ at = a + b
        /\ m.start + f + g <= length /\ (m.rect.x0 = 0 => m.start + i <= length)
    BY <2>2, <2>3, <2>7, <2>8
  <2>10. w0 = 0 => b = 0
    BY <2>4
  <2>11. d \in Nat /\ c \in Nat
    BY <2>1, <2>4
  <2>12. q.start <= length /\ q.start + c + d <= length /\ (q.rect.x0 = 0 => q.start + e <= length)
    <3> HIDE DEF a, b, c, d, e, f, g, i
    <3> QED BY <1>1, <2>4, <2>5, <2>6, <2>9, <2>10, <2>11
  <2> QED BY <1>10, <2>5, <2>12 DEF HasRoom, length
<1>17. ImageFits(q, heap)
  BY <1>1, <1>10, <1>13, <1>16 DEF ImageFits
<1> QED BY <1>8, <1>10, <1>15, <1>17, SharedKeeps

LEMMA SubImageKeeps ==
  ASSUME IInv, NEW k \in DOMAIN images, NEW r \in Cuts, SubImage(images[k], r)
  PROVE  IInv'
<1> DEFINE s == Intersect(r, images[k].rect)
<1>1. ipc = "ok" /\ images[k].type \notin {"YCbCr", "Other"}
  BY DEF SubImage, Calls
<1>2. CASE Points(s) = {}
  BY <1>1, <1>2, EmptyKeeps DEF SubImage
<1>3. CASE Points(s) # {}
  <2>1. Shares([images[k] EXCEPT !.rect = s], images[k].start + PixOffset(images[k], s.x0, s.y0))
    BY <1>3 DEF SubImage
  <2> HIDE DEF s
  <2> QED BY <1>1, <1>3, <2>1, CutKeeps DEF s
<1> QED BY <1>2, <1>3

-----------------------------------------------------------------------------
\* The calls that turn the bytes of two-byte channels around.
LEMMA SwappedShows ==
  ASSUME NEW m, NEW q, NEW pix, NEW pt, WellFormed(m), WellFormed(q), q.size = 2, q.start = 0,
         IsSeq(pix), HasRoom(q, pix), pt \in Points(q.rect),
         NEW array, BytesOf(q, pix, pt) = BytesOf(m, array, pt),
         m.channels = q.channels, m.size = 2, Order(m.type) # Order(q.type)
  PROVE  Shown(q, Swapped(pix), pt) = Shown(m, array, pt)
<1> DEFINE at == PixOffset(q, pt[1], pt[2])
           px == SizeofPixel(q)
           c  == q.channels
           u  == BytesOf(q, Swapped(pix), pt)
           v  == BytesOf(q, pix, pt)
<1>1. /\ at \in Nat /\ at % 2 = 0 /\ c \in 1 .. 4 /\ 0 + at + px <= Len(pix) /\ px = c * 2
      /\ Len(pix) \in Nat /\ DOMAIN pix = 1 .. Len(pix)
  <2>1. at \in Nat /\ at % 2 = 0 /\ c \in 1 .. 4
    BY SpotFacts
  <2>2. 0 + at + px <= Len(pix)
    BY SpotInArray
  <2>3. px = c * 2
    BY DEF SizeofPixel
  <2> QED BY <2>1, <2>2, <2>3, SeqFacts
<1>2. /\ u = [j \in 1 .. px |-> Swapped(pix)[0 + at + j]]
      /\ v = [j \in 1 .. px |-> pix[0 + at + j]]
  BY DEF BytesOf
<1> HIDE DEF at, px, c, u, v
<1>3. ASSUME NEW k \in 1 .. c PROVE u[2 * k - 1] = v[2 * k] /\ u[2 * k] = v[2 * k - 1]
  <2> DEFINE a == 0 + at + (2 * k - 1)
             b == 0 + at + 2 * k
  <2>1. 2 * k - 1 \in 1 .. px /\ 2 * k \in 1 .. px
    BY <1>1
  <2>2. a \in 1 .. Len(pix) /\ b \in 1 .. Len(pix) /\ b = a + 1 /\ a = b - 1
    BY <1>1, <2>1
  <2>3. a % 2 = 1 /\ b % 2 # 1
    <3>1. PICK h \in Int : at = 2 * h
      <4>1. at = 2 * (at \div 2) /\ at \div 2 \in Int
        BY <1>1
      <4> QED BY <4>1
    <3>2. k \in Int /\ a = 2 * (h + k - 1) + 1 /\ b = 2 * (h + k)
      BY <3>1, <1>1
    <3>3. \A n \in Int : (2 * n + 1) % 2 = 1 /\ (2 * n) % 2 = 0
      OBVIOUS
    <3> HIDE DEF a, b
    <3>4. h + k - 1 \in Int /\ h + k \in Int
      BY <3>1, <3>2
    <3> QED BY <3>2, <3>3, <3>4
  <2> HIDE DEF a, b
  <2>4. Swapped(pix)[a] = pix[b] /\ Swapped(pix)[b] = pix[a]
    BY <1>1, <2>2, <2>3 DEF Swapped
  <2>5. u[2 * k - 1] = Swapped(pix)[a] /\ v[2 * k - 1] = pix[a] /\ u[2 * k] = Swapped(pix)[b] /\ v[2 * k] = pix[b]
    BY <1>2, <2>1 DEF a, b
  <2> QED BY <2>4, <2>5
<1>4. c \in 1 .. 4
  BY <1>1
<1>5. \A k \in 1 .. c : v[2 * k - 1] = u[2 * k] /\ v[2 * k] = u[2 * k - 1]
  BY <1>3
<1>6. RGBA(c, 2, "big", u) = RGBA(c, 2, "native", v)
  BY <1>3, <1>4, TurnedColour
<1>7. RGBA(c, 2, "big", v) = RGBA(c, 2, "native", u)
  BY <1>4, <1>5, TurnedColour
<1>8. Order(m.type) \in {"big", "native"} /\ Order(q.type) \in {"big", "native"}
  BY DEF Order
<1>9. /\ Shown(q, Swapped(pix), pt) = RGBA(c, 2, Order(q.type), u)
      /\ Shown(m, array, pt) = RGBA(c, 2, Order(m.type), v)
  BY DEF Shown, u, v, c
<1> QED BY <1>6, <1>7, <1>8, <1>9

LEMMA SwappedFacts ==
  ASSUME NEW pix, IsSeq(pix)
  PROVE  IsSeq(Swapped(pix)) /\ Len(Swapped(pix)) = Len(pix)
<1>1. Len(pix) \in Nat /\ DOMAIN pix = 1 .. Len(pix)
  BY SeqFacts
<1>2. Swapped(pix) = [i \in 1 .. Len(pix) |-> Swapped(pix)[i]]
  BY <1>1 DEF Swapped
<1> QED BY <1>1, <1>2, FunIsSeq

LEMMA StdImageKeeps ==
  ASSUME IInv, NEW k \in DOMAIN images, StdImage(images[k])
  PROVE  IInv'
<1> DEFINE m == images[k]
<1>1. ipc = "ok" /\ m.type = "MemP"
  BY DEF StdImage, Calls
<1>2. WellFormed(m) /\ m \in Records /\ HasRoom(m, heap[m.buf]) /\ IsSeq(heap[m.buf])
  BY ImageFacts
<1>3. CASE m.size = 1
  <2> DEFINE t == IF m.channels = 1 THEN "Gray" ELSE "RGBA"
  <2>1. Shares([m EXCEPT !.type = t], m.start)
    BY <1>3 DEF StdImage
  <2>2. t \in {"Gray", "RGBA"} /\ t \in Types
    BY DEF Types
  <2> HIDE DEF t
  <2> QED BY <1>1, <1>3, <2>1, <2>2, RetypedShares
<1>4. CASE m.size # 1
  <2> DEFINE t == IF m.channels = 1 THEN "Gray16" ELSE "RGBA64"
             n == [m EXCEPT !.type = t]
             q == Moved(n, Len(heap) + 1)
             array == heap[m.buf]
             pix == SubSeq(array, m.start + 1, Len(array))
  <2>1. Copies(n, Swapped(pix))
    BY <1>4 DEF StdImage, Pix
  <2>2. t \in {"Gray16", "RGBA64"} /\ t \in Types
    BY DEF Types
  <2>3. Order(t) # Order(m.type)
    BY <1>1 DEF Order
  <2> HIDE DEF t
  <2>4. /\ WellFormed(n) /\ n.type = t /\ n.rect = m.rect /\ n.picture = m.picture
        /\ n.stride = m.stride /\ n.channels = m.channels /\ n.size = m.size
    BY <1>2, <1>4, <2>2, Retyped
  <2> HIDE DEF n
  <2>5. Len(heap) + 1 \in Nat
    BY HeapLength
  <2>6. /\ WellFormed(q) /\ q.start = 0 /\ q.rect = m.rect /\ q.stride = m.stride
        /\ q.channels = m.channels /\ q.size = m.size /\ q.type = t
    BY <2>4, <2>5, MovedFacts
  <2> HIDE DEF q, array, m
  <2>7. /\ IsSeq(pix) /\ HasRoom(q, pix)
        /\ \A pt \in Points(m.rect) : BytesOf(q, pix, pt) = BytesOf(m, array, pt)
    BY <1>2, <2>6, SuffixShows DEF array
  <2> HIDE DEF pix
  <2>8. IsSeq(Swapped(pix)) /\ HasRoom(q, Swapped(pix))
    BY <2>7, SwappedFacts DEF HasRoom
  <2>9. ASSUME NEW pt \in Points(m.rect) PROVE Shown(q, Swapped(pix), pt) = Shown(m, array, pt)
    <3>1. m.size = 2
      <4>1. m.size \in 1 .. 2
        BY <1>2, SpotFacts
      <4> QED BY <1>4, <4>1
    <3>2. pt \in Points(q.rect) /\ BytesOf(q, pix, pt) = BytesOf(m, array, pt)
      BY <2>6, <2>7
    <3> QED BY <1>2, <2>3, <2>6, <2>7, <3>1, <3>2, SwappedShows
  <2> QED BY <1>1, <2>1, <2>4, <2>8, <2>9, CopiesKeeps DEF q, m, array
<1> QED BY <1>3, <1>4

LEMMA ByteOfRow ==
  ASSUME NEW a \in Nat, NEW b \in Nat, NEW c \in Nat, NEW w \in Nat, NEW n \in Nat,
         a + n <= w, b + w <= c, NEW j \in 1 .. n
  PROVE  /\ (0 + (b + a) + j) - 1 = b + (a + j - 1) /\ a + j - 1 \in 0 .. w - 1
         /\ 0 + (b + a) + j \in 1 .. c /\ w > 0
  OBVIOUS

\* Rows copied one after the other.
Rows(m, bytes) ==
    [i \in 1 .. Height(m) * Width(m) |->
        bytes[PixOffset(m, 0, m.rect.y0 + ((i - 1) \div Width(m))) + ((i - 1) % Width(m)) + 1]]

LEMMA RowsShow ==
  ASSUME NEW m, NEW q, NEW array, WellFormed(m), HasRoom(m, array), IsSeq(array),
         WellFormed(q), m.rect.x0 = 0, q.start = 0, q.rect = m.rect, q.stride = Width(m),
         q.channels = m.channels, q.size = m.size, NEW pt \in Points(m.rect)
  PROVE  BytesOf(q, Rows(m, SubSeq(array, m.start + 1, Len(array))), pt) = BytesOf(m, array, pt)
<1> DEFINE bytes == SubSeq(array, m.start + 1, Len(array))
           pix == Rows(m, bytes)
           px == SizeofPixel(m)
           w  == Width(m)
           h  == Height(m)
           x  == pt[1]
           y  == pt[2] - m.rect.y0
           st == m.stride
           at == PixOffset(m, pt[1], pt[2])
<1>1. /\ m.rect \in Rectangles /\ m.rect.y0 \in Int /\ m.rect.x1 \in Int /\ m.rect.y1 \in Int
      /\ m.stride \in Nat /\ px \in Nat /\ m.start \in Nat /\ Len(array) \in Nat /\ m.start <= Len(array)
  BY RecordFacts, SeqFacts DEF WellFormed, HasRoom
<1>2. /\ pt[1] \in Int /\ pt[2] \in Int /\ 0 <= pt[1] /\ pt[1] < m.rect.x1
      /\ m.rect.y0 <= pt[2] /\ pt[2] < m.rect.y1
  BY <1>1, PointFacts
<1>3. /\ at \in Nat /\ m.start + at + px <= Len(array) /\ px > 0
  <2>1. at \in Nat /\ px > 0
    BY SpotFacts
  <2> QED BY <2>1, SpotInArray
<1>4. SizeofPixel(q) = px
  BY DEF SizeofPixel
<1>5. /\ at = y * st + x * px /\ PixOffset(q, pt[1], pt[2]) = y * w + x * px
      /\ \A z \in Int : PixOffset(m, 0, z) = (z - m.rect.y0) * st + 0 * px
  <2>1. pt[1] - m.rect.x0 = x /\ 0 - m.rect.x0 = 0
    BY <1>2
  <2>2. PixOffset(q, pt[1], pt[2]) = (pt[2] - q.rect.y0) * q.stride + (pt[1] - q.rect.x0) * SizeofPixel(q)
    BY DEF PixOffset
  <2>3. q.rect.y0 = m.rect.y0 /\ q.rect.x0 = m.rect.x0 /\ q.stride = w
    OBVIOUS
  <2>4. PixOffset(q, pt[1], pt[2]) = y * w + x * px
    BY <1>4, <2>1, <2>2, <2>3, Zenon
  <2>5. at = y * st + x * px
    BY <2>1 DEF PixOffset
  <2>6. \A z \in Int : PixOffset(m, 0, z) = (z - m.rect.y0) * st + 0 * px
    BY <2>1, Zenon DEF PixOffset
  <2> QED BY <2>4, <2>5, <2>6
<1>6. w = m.rect.x1 * px /\ h = m.rect.y1 - m.rect.y0 /\ w \in Nat /\ h \in Nat
  <2>1. m.rect.x1 - m.rect.x0 = m.rect.x1 /\ m.rect.x1 \in Nat
    BY <1>1, <1>2
  <2>2. w = m.rect.x1 * px
    BY <2>1 DEF Width
  <2>3. h = m.rect.y1 - m.rect.y0
    BY DEF Height
  <2>4. px \in Nat
    BY <1>1
  <2>5. \A a, b \in Nat : a * b \in Nat
    OBVIOUS
  <2>6. h \in Nat
    <3>1. \A a, b, c \in Int : a <= c /\ c < b => b - a \in Nat
      OBVIOUS
    <3>2. m.rect.y1 - m.rect.y0 \in Nat
      BY <1>1, <1>2, <3>1
    <3> QED BY <2>3, <3>2
  <2> HIDE DEF w, px, h
  <2>7. w \in Nat
    BY <2>1, <2>2, <2>4, <2>5
  <2> QED BY <2>2, <2>3, <2>6, <2>7
<1>7. y \in Nat /\ y + 1 <= h /\ x \in Nat /\ x + 1 <= m.rect.x1
  <2>1. /\ m.rect.y0 \in Int /\ m.rect.y1 \in Int /\ m.rect.x1 \in Int /\ pt[1] \in Int /\ pt[2] \in Int
        /\ 0 <= pt[1] /\ pt[1] < m.rect.x1 /\ m.rect.y0 <= pt[2] /\ pt[2] < m.rect.y1
    BY <1>1, <1>2
  <2>2. h = m.rect.y1 - m.rect.y0
    BY <1>6
  <2>3. x \in Nat /\ x + 1 <= m.rect.x1
    BY <2>1
  <2>4. \A a, b, c \in Int : a <= b /\ b < c => b - a \in Nat /\ b - a + 1 <= c - a
    OBVIOUS
  <2>5. y \in Nat /\ y + 1 <= m.rect.y1 - m.rect.y0
    BY <2>1, <2>4
  <2> QED BY <2>2, <2>3, <2>5
<1>8. x * px + px <= w /\ x * px \in Nat /\ y * w + w <= h * w /\ y * w \in Nat /\ y * st \in Nat
  <2> HIDE DEF px, w, h, x, y, st
  <2>1. st \in Nat /\ px \in Nat /\ w \in Nat /\ h \in Nat /\ y \in Nat /\ x \in Nat
        /\ m.rect.x1 \in Int /\ x + 1 <= m.rect.x1 /\ y + 1 <= h /\ w = m.rect.x1 * px
    BY <1>1, <1>6, <1>7 DEF st, px
  <2>2. x + 1 \in Int /\ y + 1 \in Int /\ h \in Int
    BY <2>1
  <2>3. (x + 1) * px <= m.rect.x1 * px
    BY <2>1, <2>2, TimesMonotone
  <2>4. (y + 1) * w <= h * w
    BY <2>1, <2>2, TimesMonotone
  <2>5. \A a, b \in Nat : (a + 1) * b = a * b + b /\ a * b \in Nat
    OBVIOUS
  <2>6. (x + 1) * px = x * px + px /\ (y + 1) * w = y * w + w
    BY <2>1, <2>5
  <2>7. x * px \in Nat /\ y * w \in Nat /\ y * st \in Nat
    BY <2>1, <2>5
  <2> QED BY <2>1, <2>3, <2>4, <2>6, <2>7, Zenon
<1>9. ASSUME NEW j \in 1 .. px
      PROVE  pix[0 + (y * w + x * px) + j] = array[m.start + at + j]
  <2> DEFINE i == 0 + (y * w + x * px) + j
             d == x * px + j - 1
  <2>1. i - 1 = y * w + d /\ d \in 0 .. w - 1 /\ i \in 1 .. h * w /\ w > 0
    <3> DEFINE a == x * px
               b == y * w
               c == h * w
    <3>1. a \in Nat /\ b \in Nat /\ a + px <= w /\ b + w <= c /\ c \in Nat
      <4>1. c \in Nat
        BY <1>6
      <4> QED BY <1>8, <4>1
    <3> HIDE DEF a, b, c, w, px
    <3>2. px \in Nat /\ w \in Nat /\ j \in 1 .. px /\ j \in Nat
      BY <1>1, <1>6 DEF px
    <3>4. /\ (0 + (b + a) + j) - 1 = b + (a + j - 1) /\ a + j - 1 \in 0 .. w - 1
          /\ 0 + (b + a) + j \in 1 .. c /\ w > 0
      BY <3>1, <3>2, ByteOfRow
    <3> QED BY <3>4 DEF a, b, c
  <2>2. (i - 1) \div w = y /\ (i - 1) % w = d
    <3> HIDE DEF i, d, w, y
    <3>1. w \in Nat /\ w > 0 /\ y \in Nat /\ d \in 0 .. w - 1
      BY <1>6, <1>7, <2>1
    <3>2. \A n \in Nat : (y * w + n) = w * y + n
      BY <3>1
    <3>3. (w * y + d) \div w = y /\ (w * y + d) % w = d
      BY <3>1, DivModOf
    <3> QED BY <2>1, <3>1, <3>2, <3>3
  <2>3. pix[i] = bytes[PixOffset(m, 0, m.rect.y0 + ((i - 1) \div w)) + ((i - 1) % w) + 1]
    <3>1. pix = [n \in 1 .. h * w |->
                   bytes[PixOffset(m, 0, m.rect.y0 + ((n - 1) \div w)) + ((n - 1) % w) + 1]]
      BY DEF Rows
    <3> HIDE DEF i, d
    <3> QED BY <2>1, <3>1
  <2>4. PixOffset(m, 0, m.rect.y0 + y) = y * st
    <3>1. m.rect.y0 + y \in Int /\ (m.rect.y0 + y) - m.rect.y0 = y
      BY <1>1, <1>2
    <3>2. PixOffset(m, 0, m.rect.y0 + y) = ((m.rect.y0 + y) - m.rect.y0) * st + 0 * px
      BY <1>5, <3>1
    <3> HIDE DEF px, st, y
    <3>3. 0 * px = 0 /\ y * st + 0 = y * st
      BY <1>1, <1>8
    <3> QED BY <3>1, <3>2, <3>3
  <2>5. pix[i] = bytes[y * st + d + 1]
    BY <2>2, <2>3, <2>4
  <2>6. y * st + d + 1 = at + j
    <3> DEFINE a == y * st
               b == x * px
    <3>1. a \in Nat /\ b \in Nat /\ at = a + b
      BY <1>5, <1>8
    <3> HIDE DEF a, b, px, at
    <3>2. a + (b + j - 1) + 1 = at + j
      BY <1>1, <3>1
    <3> QED BY <3>2 DEF a, b
  <2>7. at + j \in 1 .. Len(array) - m.start /\ m.start + (at + j) = m.start + at + j
    <3> HIDE DEF at, px
    <3> QED BY <1>1, <1>3
  <2>8. \A n \in 1 .. Len(array) - m.start : bytes[n] = array[m.start + n]
    <3>1. m.start \in 0 .. Len(array)
      BY <1>1
    <3> QED BY <3>1, SuffixFacts
  <2> HIDE DEF i, d, at
  <2>9. bytes[at + j] = array[m.start + at + j]
    BY <2>7, <2>8
  <2> QED BY <2>5, <2>6, <2>9 DEF i
<1>10. BytesOf(q, pix, pt) = [j \in 1 .. px |-> pix[0 + (y * w + x * px) + j]]
  BY <1>4, <1>5 DEF BytesOf
<1>11. BytesOf(m, array, pt) = [j \in 1 .. px |-> array[m.start + at + j]]
  BY DEF BytesOf
<1> HIDE DEF px, w, x, y, at, pix, bytes
<1>12. BytesOf(q, pix, pt) = BytesOf(m, array, pt)
  BY <1>9, <1>10, <1>11
<1> QED BY <1>12 DEF pix, bytes

\* Whether the rows of an image can be cut out: never off column 0, always on it.
RowFits(m, p, bytes, y) ==
    /\ Inside(PixOffset(m, 0, y), m.stride, Len(bytes))
    /\ Inside(PixOffset(p, 0, y), Width(m), Height(m) * Width(m))

LEMMA RowsFitOnColumnZero ==
  ASSUME NEW m, NEW p, NEW array, NEW bytes, WellFormed(m), HasRoom(m, array),
         Len(bytes) = Len(array) - m.start, Len(array) \in Nat,
         m.rect.x0 = 0, p.rect = m.rect, p.stride = Width(m), SizeofPixel(p) = SizeofPixel(m),
         NEW y \in m.rect.y0 .. m.rect.y1 - 1
  PROVE  RowFits(m, p, bytes, y)
<1> DEFINE px == SizeofPixel(m)
           w  == Width(m)
           h  == Height(m)
           st == m.stride
           d  == y - m.rect.y0
           room == m.start + h * st
<1>1. /\ m.rect.y0 \in Int /\ m.rect.y1 \in Int /\ m.rect.x1 \in Int /\ m.rect.x0 <= m.rect.x1
      /\ st \in Nat /\ px \in Nat /\ m.start \in Nat /\ w \in Int
  BY RecordFacts DEF WellFormed
<1>2. room <= Len(array)
  BY DEF HasRoom
<1>3. h = m.rect.y1 - m.rect.y0
  BY DEF Height
<1>4. w \in Nat
  <2>1. w = (m.rect.x1 - 0) * px /\ m.rect.x1 - 0 \in Nat
    BY <1>1 DEF Width
  <2>2. \A a, b \in Nat : a * b \in Nat
    OBVIOUS
  <2> HIDE DEF px, w
  <2> QED BY <1>1, <2>1, <2>2
<1>5. d \in Nat /\ d + 1 <= h /\ h \in Nat
  <2>1. y \in Int /\ m.rect.y0 <= y /\ y <= m.rect.y1 - 1 /\ m.rect.y0 \in Int /\ m.rect.y1 \in Int
    BY <1>1
  <2> HIDE DEF h
  <2> QED BY <1>3, <2>1
<1>6. PixOffset(m, 0, y) = d * st /\ PixOffset(p, 0, y) = d * w
  <2>1. 0 - m.rect.x0 = 0 /\ 0 * px = 0
    BY <1>1
  <2>2. PixOffset(m, 0, y) = d * st + 0 * px /\ PixOffset(p, 0, y) = d * w + 0 * px
    <3>1. /\ PixOffset(m, 0, y) = (y - m.rect.y0) * m.stride + (0 - m.rect.x0) * SizeofPixel(m)
          /\ PixOffset(p, 0, y) = (y - p.rect.y0) * p.stride + (0 - p.rect.x0) * SizeofPixel(p)
      BY DEF PixOffset
    <3>2. p.rect.y0 = m.rect.y0 /\ p.rect.x0 = m.rect.x0
      OBVIOUS
    <3> QED BY <2>1, <3>1, <3>2, Zenon
  <2>3. d * st \in Int /\ d * w \in Int
    <3> HIDE DEF d, st, w
    <3> QED BY <1>1, <1>4, <1>5
  <2>4. \A a \in Int : a + 0 = a
    OBVIOUS
  <2> HIDE DEF px, d, st, w
  <2> QED BY <2>1, <2>2, <2>3, <2>4
<1>7. /\ d * st >= 0 /\ d * st + st <= h * st /\ d * w >= 0 /\ d * w + w <= h * w
      /\ d * st \in Int /\ h * st \in Int /\ d * w \in Int /\ h * w \in Int
  <2> HIDE DEF d, st, w, h
  <2>1. d + 1 \in Int /\ h \in Int /\ st \in Nat
    BY <1>1, <1>5 DEF st
  <2>2. (d + 1) * st <= h * st /\ (d + 1) * w <= h * w
    BY <1>4, <1>5, <2>1, TimesMonotone
  <2>3. \A a, b \in Nat : (a + 1) * b = a * b + b /\ a * b \in Nat
    OBVIOUS
  <2>4. (d + 1) * st = d * st + st /\ (d + 1) * w = d * w + w /\ d * st \in Nat /\ d * w \in Nat
        /\ h * st \in Nat /\ h * w \in Nat
    BY <1>4, <1>5, <2>1, <2>3
  <2> QED BY <2>2, <2>4
<1>8. d * st + st <= Len(bytes)
  <2> DEFINE a == d * st
             b == h * st
  <2>1. a + st <= b /\ a \in Int /\ b \in Int /\ m.start + b <= Len(array)
    BY <1>2, <1>7
  <2> HIDE DEF a, b
  <2>2. a + st <= Len(bytes)
    BY <1>1, <2>1
  <2> QED BY <2>2 DEF a
<1> QED BY <1>6, <1>7, <1>8 DEF RowFits, Inside

LEMMA RowsFitOnlyOnColumnZero ==
  ASSUME NEW m, NEW p, NEW bytes, WellFormed(m), Points(m.rect) # {},
         RowFits(m, p, bytes, m.rect.y0)
  PROVE  m.rect.x0 = 0
<1> DEFINE px == SizeofPixel(m)
<1>1. m.rect.x0 \in Nat /\ m.rect.y0 \in Int /\ m.stride \in Nat /\ px \in Nat
  BY RecordFacts DEF WellFormed
<1>2. px > 0
  BY SpotFacts
<1>3. PixOffset(m, 0, m.rect.y0) = (m.rect.y0 - m.rect.y0) * m.stride + (0 - m.rect.x0) * px
  BY DEF PixOffset
<1>4. PixOffset(m, 0, m.rect.y0) >= 0
  BY DEF RowFits, Inside
<1>5. (m.rect.y0 - m.rect.y0) * m.stride = 0
  <2>1. m.rect.y0 - m.rect.y0 = 0 /\ 0 * m.stride = 0
    BY <1>1
  <2> QED BY <2>1
<1> HIDE DEF px
<1>6. (0 - m.rect.x0) * px >= 0 /\ (0 - m.rect.x0) * px \in Int
  BY <1>1, <1>3, <1>4, <1>5
<1>7. ASSUME m.rect.x0 > 0 PROVE FALSE
  <2>1. \A a, b \in Int : a < 0 /\ b > 0 => a * b < 0
    OBVIOUS
  <2>2. (0 - m.rect.x0) * px < 0
    BY <1>1, <1>2, <1>7, <2>1
  <2> QED BY <1>6, <2>2
<1> QED BY <1>1, <1>7

LEMMA FromRowsKeeps ==
  ASSUME IInv, NEW k \in DOMAIN images, FromRows(images[k]), ipc = "ok"
  PROVE  IInv'
<1> DEFINE m     == images[k]
           w     == Width(m)
           p     == [m EXCEPT !.stride = w]
           n     == [p EXCEPT !.type = "MemP"]
           array == heap[m.buf]
           bytes == SubSeq(array, m.start + 1, Len(array))
           fits  == \A y \in m.rect.y0 .. m.rect.y1 - 1 : RowFits(m, p, bytes, y)
           pix   == Rows(m, bytes)
           q     == Moved(n, Len(heap) + 1)
<1>1. /\ m.type \in {"Gray16", "RGBA64"}
      /\ IF fits THEN Copies(n, Swapped(pix)) ELSE ipc' = "panic" /\ UNCHANGED <<heap, images, painted>>
  BY DEF FromRows, Pix, Width, Height, RowFits, Rows
<1>2. /\ WellFormed(m) /\ m \in Records /\ HasRoom(m, array) /\ IsSeq(array) /\ Len(array) \in Nat
      /\ m.start \in 0 .. Len(array)
  BY ImageFacts
<1>3. w \in Nat /\ SizeofPixel(m) \in Nat /\ m.rect.y0 \in Int /\ m.rect.y1 \in Int /\ Height(m) \in Nat
      /\ m.rect.x1 - m.rect.x0 \in Nat
  <2>1. /\ m.rect.y0 \in Int /\ m.rect.y1 \in Int /\ m.rect.y0 <= m.rect.y1 /\ SizeofPixel(m) \in Nat
        /\ m.rect.x0 \in Int /\ m.rect.x1 \in Int /\ m.rect.x0 <= m.rect.x1
    BY <1>2, RecordFacts DEF WellFormed
  <2>2. m.rect.x1 - m.rect.x0 \in Nat /\ m.rect.y1 - m.rect.y0 \in Nat
    BY <2>1
  <2>3. \A a, b \in Nat : a * b \in Nat
    OBVIOUS
  <2> QED BY <2>1, <2>2, <2>3 DEF Width, Height
<1>4. /\ p \in Records /\ p.type = m.type /\ p.rect = m.rect /\ p.picture = m.picture /\ p.stride = w
      /\ p.channels = m.channels /\ p.size = m.size
  <2> HIDE DEF w
  <2> QED BY <1>2, <1>3 DEF Records
<1>5. SizeofPixel(p) = SizeofPixel(m) /\ Width(p) = w
  <2> HIDE DEF p
  <2>1. SizeofPixel(p) = SizeofPixel(m)
    BY <1>4 DEF SizeofPixel
  <2> QED BY <1>4, <2>1 DEF Width
<1>6. Len(bytes) = Len(array) - m.start
  BY <1>2, SuffixFacts
<1>7. CASE ~ fits
  <2>1. m.rect.x0 # 0
    <3> SUFFICES ASSUME m.rect.x0 = 0 PROVE fits
      BY <1>7
    <3> TAKE y \in m.rect.y0 .. m.rect.y1 - 1
    <3> HIDE DEF p, bytes, m, array
    <3> QED BY <1>2, <1>4, <1>5, <1>6, RowsFitOnColumnZero
  <2>2. UNCHANGED <<heap, images, painted>>
    BY <1>1, <1>7
  <2>3. PanicOnlyOffColumnZero'
    BY <1>1, <2>1, <2>2 DEF PanicOnlyOffColumnZero
  <2> QED BY <2>2, <2>3 DEF IInv, Sequential, Rooted, AllShown
<1>8. CASE fits
  <2>1. Copies(n, Swapped(pix))
    BY <1>1, <1>8
  <2>2. WellFormed(p)
    <3> HIDE DEF p
    <3>1. m.size = 2 => w % 2 = 0
      <4> SUFFICES ASSUME m.size = 2 PROVE w % 2 = 0
        OBVIOUS
      <4> DEFINE e == (m.rect.x1 - m.rect.x0) * m.channels
      <4>1. m.channels \in Nat
        BY <1>2, RecordFacts
      <4>2. w = (m.rect.x1 - m.rect.x0) * (m.channels * 2)
        BY DEF Width, SizeofPixel
      <4>3. \A a, b \in Nat : a * (b * 2) = 2 * (a * b) /\ a * b \in Nat
        OBVIOUS
      <4>4. w = 2 * e /\ e \in Nat
        BY <1>3, <4>1, <4>2, <4>3
      <4> HIDE DEF e, w
      <4> QED BY <4>4
    <3>2. Width(p) <= p.stride
      BY <1>3, <1>4, <1>5
    <3> QED BY <1>1, <1>2, <1>4, <1>5, <3>1, <3>2 DEF WellFormed
  <2> HIDE DEF p
  <2>3. "MemP" \in Types /\ "MemP" \notin {"Gray", "RGBA"} /\ "MemP" \notin {"Gray16", "RGBA64"}
        /\ "MemP" \notin {"YCbCr", "Other"}
    BY DEF Types
  <2>4. /\ WellFormed(n) /\ n.type = "MemP" /\ n.rect = m.rect /\ n.picture = m.picture /\ n.stride = w
        /\ n.channels = m.channels /\ n.size = m.size /\ Width(n) = w
    <3>1. /\ WellFormed(n) /\ n.type = "MemP" /\ n.rect = p.rect /\ n.picture = p.picture
          /\ n.stride = p.stride /\ n.channels = p.channels /\ n.size = p.size /\ Width(n) = Width(p)
      BY <2>2, <2>3, Retyped, Zenon
    <3> HIDE DEF n
    <3> QED BY <1>4, <1>5, <3>1
  <2>5. Len(heap) + 1 \in Nat
    BY HeapLength
  <2> HIDE DEF n
  <2>6. /\ WellFormed(q) /\ q.type = "MemP" /\ q.rect = m.rect /\ q.stride = w /\ q.start = 0
        /\ q.channels = m.channels /\ q.size = m.size /\ Width(q) = w
    BY <2>4, <2>5, MovedFacts
  <2> HIDE DEF q
  <2>7. /\ Height(m) * w \in Nat /\ (Height(m) - 1) * w + w = Height(m) * w
        /\ (Height(m) - 1) * w \in Int
    <3> DEFINE h == Height(m)
    <3>1. h \in Nat /\ w \in Nat
      BY <1>3
    <3> HIDE DEF h, w
    <3>2. h * w \in Nat /\ (h - 1) * w + w = h * w /\ (h - 1) * w \in Int
      BY <3>1
    <3> QED BY <3>2 DEF h
  <2>8. IsSeq(pix) /\ Len(pix) = Height(m) * w
    <3>1. pix = [i \in 1 .. Height(m) * w |-> pix[i]]
      BY DEF Rows
    <3> HIDE DEF pix, w
    <3> QED BY <2>7, <3>1, FunIsSeq
  <2>9. IsSeq(Swapped(pix)) /\ Len(Swapped(pix)) = Height(m) * w
    <3> HIDE DEF pix
    <3> QED BY <2>8, SwappedFacts
  <2>10. Height(q) = Height(m)
    BY <2>6 DEF Height
  <2>11. \A bs : Len(bs) = Height(m) * w => HasRoom(q, bs)
    <3> DEFINE a == Height(m) * w
               b == (Height(m) - 1) * w
    <3>1. a \in Nat /\ b + w = a /\ b \in Int /\ w \in Nat
      BY <1>3, <2>7
    <3> HIDE DEF a, b, w
    <3>2. 0 <= a /\ 0 + b + w <= a /\ 0 + a <= a
      BY <3>1
    <3> QED BY <2>6, <2>10, <3>2 DEF HasRoom, a, b
  <2>12. ASSUME NEW pt \in Points(m.rect) PROVE Shown(q, Swapped(pix), pt) = Shown(m, array, pt)
    <3>1. m.size = 2
      <4>1. m.size \in 1 .. 2
        BY <1>2, SpotFacts
      <4> QED BY <1>1, <1>2, <4>1 DEF WellFormed
    <3>2. m.rect.x0 = 0
      <4>1. m.rect \in Rectangles
        BY <1>2, RecordFacts
      <4>2. Points(m.rect) # {} /\ m.rect.y0 \in m.rect.y0 .. m.rect.y1 - 1
        BY <1>3, <4>1, PointFacts
      <4>3. RowFits(m, p, bytes, m.rect.y0)
        BY <1>8, <4>2
      <4> HIDE DEF m, bytes
      <4> QED BY <1>2, <4>2, <4>3, RowsFitOnlyOnColumnZero
    <3>3. BytesOf(q, pix, pt) = BytesOf(m, array, pt)
      <4>1. q.stride = Width(m)
        BY <2>6
      <4> HIDE DEF m, array, w
      <4> QED BY <1>2, <2>6, <3>2, <4>1, RowsShow
    <3>4. HasRoom(q, pix)
      <4> HIDE DEF pix
      <4> QED BY <2>8, <2>11
    <3>5. Order(m.type) # Order(q.type)
      BY <1>1, <2>6 DEF Order
    <3> HIDE DEF pix, m, array
    <3> QED BY <1>2, <2>6, <2>8, <3>1, <3>3, <3>4, <3>5, SwappedShows
  <2>13. HasRoom(q, Swapped(pix))
    <3> HIDE DEF pix
    <3> QED BY <2>9, <2>11
  <2> HIDE DEF pix
  <2> QED BY <2>1, <2>4, <2>9, <2>12, <2>13, CopiesKeeps DEF q
<1> QED BY <1>7, <1>8

-----------------------------------------------------------------------------
\* New images.
NewImage(type, channels, size, r, b) ==
    [type |-> type, channels |-> channels, size |-> size, rect |-> r,
     stride |-> (r.x1 - r.x0) * channels * size, buf |-> b, start |-> 0, picture |-> b]

\* What that says of the image q.
IsNewImage(q, type, channels, size, r, b) ==
    /\ WellFormed(q) /\ q.buf = b /\ q.picture = b /\ q.start = 0 /\ q.rect = r
    /\ q.type = type /\ q.channels = channels /\ q.size = size /\ q.stride = Width(q)
    /\ Width(q) = (r.x1 - r.x0) * (channels * size) /\ SizeofPixel(q) = channels * size
    /\ Width(q) \in Nat /\ Height(q) = r.y1 - r.y0 /\ Height(q) \in Nat
    /\ Height(q) * Width(q) \in Nat
    /\ Height(q) * Width(q) = (r.y1 - r.y0) * (r.x1 - r.x0) * channels * size
    /\ Height(q) * Width(q) = (r.y1 - r.y0) * (r.x1 - r.x0) * (channels * size)
    /\ \A pix : Len(pix) \in Nat /\ Height(q) * Width(q) <= Len(pix) => HasRoom(q, pix)

LEMMA NewImageFacts ==
  ASSUME NEW type \in Types, NEW channels \in 1 .. 4, NEW size \in 1 .. 2, NEW r \in Rectangles,
         r.x0 <= r.x1, r.y0 <= r.y1, NEW b \in Nat,
         type \in {"Gray", "RGBA"} => size # 2, type \in {"Gray16", "RGBA64"} => size # 1,
         type \in {"YCbCr", "Other"} => channels = 4
  PROVE  IsNewImage(NewImage(type, channels, size, r, b), type, channels, size, r, b)
<1> DEFINE q == NewImage(type, channels, size, r, b)
           w == r.x1 - r.x0
           h == r.y1 - r.y0
           e == w * channels * size
<1>1. w \in Nat /\ h \in Nat /\ r.x0 \in Int /\ r.x1 \in Int /\ r.y0 \in Int /\ r.y1 \in Int
  BY DEF Rectangles
<1>2. /\ q.buf = b /\ q.picture = b /\ q.start = 0 /\ q.rect = r /\ q.type = type
      /\ q.channels = channels /\ q.size = size /\ q.stride = e
  BY DEF NewImage
<1>3. /\ w * channels * size = w * (channels * size) /\ w * channels * size \in Nat
      /\ h * (w * (channels * size)) = h * w * channels * size
      /\ h * (w * (channels * size)) = h * w * (channels * size)
      /\ h * (w * (channels * size)) \in Nat
      /\ size = 2 => (w * channels * size) = 2 * (w * channels) /\ w * channels \in Int
  <2>1. \A a, c, x, y \in Nat : /\ a * x * y = a * (x * y) /\ a * x * y \in Nat
                              /\ c * (a * (x * y)) = c * a * x * y /\ c * (a * (x * y)) = c * a * (x * y)
                              /\ c * (a * (x * y)) \in Nat /\ (y = 2 => a * x * y = 2 * (a * x)) /\ a * x \in Int
    OBVIOUS
  <2>2. channels \in Nat /\ size \in Nat
    OBVIOUS
  <2> HIDE DEF w, h
  <2> QED BY <1>1, <2>1, <2>2
<1>4. q \in Records
  <2>1. e \in Nat
    BY <1>3
  <2> HIDE DEF e
  <2>2. [type |-> type, channels |-> channels, size |-> size, rect |-> r, stride |-> e,
         buf |-> b, start |-> 0, picture |-> b] \in Records
    BY <2>1 DEF Records
  <2> QED BY <2>2 DEF NewImage, e
<1> HIDE DEF q
<1>5. SizeofPixel(q) = channels * size /\ Width(q) = w * (channels * size) /\ Height(q) = h
  BY <1>2 DEF SizeofPixel, Width, Height
<1>6. q.stride = Width(q) /\ Width(q) \in Nat
  BY <1>2, <1>3, <1>5
<1>7. size = 2 => q.stride % 2 = 0
  <2> SUFFICES ASSUME size = 2 PROVE q.stride % 2 = 0
    OBVIOUS
  <2> DEFINE f == w * channels
  <2>1. f \in Int /\ q.stride = 2 * f
    BY <1>2, <1>3
  <2> HIDE DEF f
  <2> QED BY <2>1
<1>8. WellFormed(q)
  BY <1>2, <1>4, <1>6, <1>7 DEF WellFormed
<1>9. Height(q) * Width(q) = h * (w * (channels * size))
  BY <1>5
<1>10. ASSUME NEW pix, Len(pix) \in Nat, Height(q) * Width(q) <= Len(pix) PROVE HasRoom(q, pix)
  <2> DEFINE s == Width(q)
             a == Height(q) * s
             c == (Height(q) - 1) * s
  <2>1. /\ a \in Nat /\ c + s = a /\ c \in Int /\ s \in Nat
    <3> HIDE DEF s
    <3>1. Height(q) \in Nat /\ s \in Nat
      BY <1>1, <1>5, <1>6 DEF s
    <3> QED BY <3>1
  <2>2. a <= Len(pix)
    BY <1>10
  <2> HIDE DEF a, c, s
  <2>3. 0 <= Len(pix) /\ 0 + c + s <= Len(pix) /\ 0 + a <= Len(pix)
    BY <1>10, <2>1, <2>2
  <2> QED BY <1>2, <1>6, <2>3 DEF HasRoom, a, c, s
<1> QED BY <1>1, <1>2, <1>3, <1>5, <1>6, <1>8, <1>9, <1>10 DEF q, IsNewImage

LEMMA MadeKeeps ==
  ASSUME IInv, NEW type \in Types, NEW channels \in 1 .. 4, NEW size \in 1 .. 2, NEW r \in Rectangles,
         r.x0 <= r.x1, r.y0 <= r.y1,
         type \in {"Gray", "RGBA"} => size # 2, type \in {"Gray16", "RGBA64"} => size # 1,
         type \in {"YCbCr", "Other"} => channels = 4,
         NEW pix, NEW picture, IsSeq(pix), DOMAIN picture = Points(r),
         HasRoom(NewImage(type, channels, size, r, Len(heap) + 1), pix),
         \A pt \in Points(r) :
            picture[pt] # Unclear
               => Shown(NewImage(type, channels, size, r, Len(heap) + 1), pix, pt) = picture[pt],
         Made(type, channels, size, r, pix, picture), ipc = "ok"
  PROVE  IInv'
<1> DEFINE b == Len(heap) + 1
           q == NewImage(type, channels, size, r, b)
<1>1. b \in Nat /\ Len(painted) + 1 = b
  BY HeapLength
<1>2. /\ heap' = Append(heap, pix) /\ painted' = Append(painted, picture)
      /\ images' = Append(images, q) /\ ipc' = "ok"
  BY <1>1 DEF Made, NewImage
<1>3. WellFormed(q) /\ q.buf = b /\ q.picture = b /\ q.rect = r
  <2>1. IsNewImage(q, type, channels, size, r, b)
    BY <1>1, NewImageFacts
  <2> HIDE DEF q
  <2> QED BY <2>1 DEF IsNewImage
<1>4. HasRoom(q, pix) /\ \A pt \in Points(r) : picture[pt] # Unclear => Shown(q, pix, pt) = picture[pt]
  OBVIOUS
<1> HIDE DEF q
<1> QED BY <1>2, <1>3, <1>4, AddedKeeps

LEMMA NewMemPImageKeeps ==
  ASSUME IInv, NEW r \in Rects, NEW kind \in Kinds, NewMemPImage(r, kind[1], kind[2])
  PROVE  IInv'
<1> DEFINE channels == kind[1]
           size == kind[2]
           n == (r.y1 - r.y0) * (r.x1 - r.x0) * channels * size
           picture == [pt \in Points(r) |-> RGBA(channels, size, "native", Zeros(channels * size))]
           b == Len(heap) + 1
           q == NewImage("MemP", channels, size, r, b)
<1>1. /\ r \in Rectangles /\ r.x0 <= r.x1 /\ r.y0 <= r.y1
      /\ channels \in 1 .. 4 /\ size \in 1 .. 2
  BY RectsAssumption DEF Rectangles
<1>2. "MemP" \in Types /\ "MemP" \notin {"Gray", "RGBA"} /\ "MemP" \notin {"Gray16", "RGBA64"}
      /\ "MemP" \notin {"YCbCr", "Other"} /\ b \in Nat
  BY HeapLength DEF Types
<1>3. ipc = "ok" /\ Made("MemP", channels, size, r, Zeros(n), picture)
  BY DEF NewMemPImage, Calls
<1> HIDE DEF channels, size, b
<1>4. /\ WellFormed(q) /\ q.start = 0 /\ q.rect = r /\ q.type = "MemP"
      /\ q.channels = channels /\ q.size = size /\ SizeofPixel(q) = channels * size
      /\ n \in Nat /\ Height(q) * Width(q) = n
      /\ \A pix : Len(pix) \in Nat /\ n <= Len(pix) => HasRoom(q, pix)
  <2>1. IsNewImage(q, "MemP", channels, size, r, b)
    BY <1>1, <1>2, NewImageFacts
  <2> HIDE DEF q
  <2> QED BY <2>1 DEF IsNewImage
<1> HIDE DEF n, q
<1>5. IsSeq(Zeros(n)) /\ Len(Zeros(n)) = n
  <2>1. Zeros(n) = [i \in 1 .. n |-> Zeros(n)[i]]
    BY DEF Zeros
  <2> QED BY <1>4, <2>1, FunIsSeq
<1>6. HasRoom(q, Zeros(n))
  BY <1>4, <1>5
<1>7. ASSUME NEW pt \in Points(r) PROVE Shown(q, Zeros(n), pt) = picture[pt]
  <2> DEFINE at == q.start + PixOffset(q, pt[1], pt[2])
             px == channels * size
  <2>1. at \in Nat /\ at + px <= n /\ px \in Nat
    BY <1>4, <1>5, <1>6, SpotInArray
  <2>2. BytesOf(q, Zeros(n), pt) = [j \in 1 .. px |-> Zeros(n)[at + j]]
    BY <1>4 DEF BytesOf
  <2> HIDE DEF at
  <2>3. \A j \in 1 .. px : BytesOf(q, Zeros(n), pt)[j] = Zeros(px)[j]
    <3> SUFFICES ASSUME NEW j \in 1 .. px PROVE BytesOf(q, Zeros(n), pt)[j] = Zeros(px)[j]
      OBVIOUS
    <3> HIDE DEF px
    <3>1. at + j \in 1 .. n
      BY <1>4, <2>1
    <3> QED BY <2>2, <3>1 DEF Zeros
  <2>4. RGBA(channels, size, "native", BytesOf(q, Zeros(n), pt)) = RGBA(channels, size, "native", Zeros(px))
    BY <1>1, <2>3, SameColour
  <2>5. Shown(q, Zeros(n), pt) = RGBA(channels, size, "native", BytesOf(q, Zeros(n), pt))
    BY <1>4 DEF Shown, Order
  <2> QED BY <2>4, <2>5
<1>8. DOMAIN picture = Points(r)
  OBVIOUS
<1> HIDE DEF picture
<1> QED BY <1>1, <1>2, <1>3, <1>5, <1>6, <1>7, <1>8, MadeKeeps DEF q, b

LEMMA PixelOfFacts ==
  ASSUME NEW c \in 1 .. 4, NEW s \in 1 .. 2, NEW order, NEW colour
  PROVE  /\ Len(PixelOf(c, s, order, colour)) = c * s /\ DOMAIN PixelOf(c, s, order, colour) = 1 .. c * s
         /\ c * s \in Nat /\ c * s > 0
<1>1. c * s \in Nat /\ c * s > 0
  <2>1. \A a, b \in Nat : a > 0 /\ b > 0 => a * b \in Nat /\ a * b > 0
    OBVIOUS
  <2> QED BY <2>1
<1> DEFINE p == PixelOf(c, s, order, colour)
           n == c * s
<1>2. p = [i \in 1 .. n |-> p[i]]
  BY DEF PixelOf
<1> HIDE DEF n, p
<1>3. Len(p) = n /\ DOMAIN p = 1 .. n
  BY <1>1, <1>2, FunIsSeq DEF n
<1> QED BY <1>1, <1>3 DEF n, p

LEMMA ArrivesKeeps ==
  ASSUME IInv, NEW type \in {"Gray16", "YCbCr", "Other"}, NEW r \in Rects, NEW colour \in Colours,
         Arrives(type, r, colour)
  PROVE  IInv'
<1> DEFINE channels == IF type = "Gray16" THEN 1 ELSE 4
           size == IF type = "YCbCr" THEN 1 ELSE 2
           pixel == PixelOf(channels, size, "big", colour)
           px == channels * size
           n == (r.y1 - r.y0) * (r.x1 - r.x0) * Len(pixel)
           pix == [i \in 1 .. n |-> pixel[((i - 1) % Len(pixel)) + 1]]
           picture == [pt \in Points(r) |-> Held(channels, size, colour)]
           b == Len(heap) + 1
           q == NewImage(type, channels, size, r, b)
<1>1. /\ r \in Rectangles /\ r.x0 <= r.x1 /\ r.y0 <= r.y1
      /\ channels \in 1 .. 4 /\ size \in 1 .. 2
  BY RectsAssumption DEF Rectangles
<1>2. /\ type \in Types /\ (type \in {"Gray", "RGBA"} => size # 2)
      /\ (type \in {"Gray16", "RGBA64"} => size # 1) /\ (type \in {"YCbCr", "Other"} => channels = 4)
      /\ Order(type) = "big"
  BY DEF Types, Order
<1>3. ipc = "ok" /\ Made(type, channels, size, r, pix, picture)
  BY DEF Arrives, Calls
<1>4. b \in Nat
  BY HeapLength
<1> HIDE DEF channels, size, b
<1>5. Len(pixel) = px /\ DOMAIN pixel = 1 .. px /\ px \in Nat /\ px > 0
  BY <1>1, PixelOfFacts
<1>6. /\ WellFormed(q) /\ q.start = 0 /\ q.rect = r /\ q.type = type /\ q.stride = Width(q)
      /\ q.channels = channels /\ q.size = size /\ SizeofPixel(q) = px
      /\ Width(q) = (r.x1 - r.x0) * px
      /\ Height(q) * Width(q) \in Nat
      /\ Height(q) * Width(q) = (r.y1 - r.y0) * (r.x1 - r.x0) * px
      /\ \A bytes : Len(bytes) \in Nat /\ Height(q) * Width(q) <= Len(bytes) => HasRoom(q, bytes)
  <2>1. IsNewImage(q, type, channels, size, r, b)
    BY <1>1, <1>2, <1>4, NewImageFacts
  <2> HIDE DEF q
  <2> QED BY <2>1 DEF IsNewImage
<1>7. n \in Nat /\ Height(q) * Width(q) = n
  BY <1>5, <1>6
<1>8. pix = [i \in 1 .. n |-> pixel[((i - 1) % px) + 1]]
  BY <1>5
<1> HIDE DEF n, q, pixel, pix
<1>9. IsSeq(pix) /\ Len(pix) = n
  <2>1. pix = [i \in 1 .. n |-> pix[i]]
    BY <1>8
  <2> QED BY <1>7, <2>1, FunIsSeq
<1>10. HasRoom(q, pix)
  <2>1. Len(pix) \in Nat /\ Height(q) * Width(q) <= Len(pix)
    BY <1>7, <1>9
  <2> QED BY <1>6, <2>1
<1>11. ASSUME NEW pt \in Points(r) PROVE Shown(q, pix, pt) = picture[pt]
  <2> DEFINE at == PixOffset(q, pt[1], pt[2])
             dy == pt[2] - r.y0
             dx == pt[1] - r.x0
             w  == r.x1 - r.x0
             m  == dy * w + dx
  <2>1. q.start + at \in Nat /\ q.start + at + px <= Len(pix) /\ at \in Nat
    BY <1>6, <1>9, <1>10, SpotInArray, SpotFacts
  <2>2. 0 + at + px <= n
    BY <1>6, <1>9, <2>1
  <2>3. dy \in Nat /\ dx \in Nat /\ w \in Nat
    <3>1. /\ pt[1] \in Int /\ pt[2] \in Int /\ r.x0 <= pt[1] /\ r.y0 <= pt[2]
          /\ r.x0 \in Int /\ r.x1 \in Int /\ r.y0 \in Int /\ r.x0 <= r.x1
      BY <1>1, PointFacts DEF Rectangles
    <3> QED BY <3>1
  <2>4. at = dy * (w * px) + dx * px
    <3>1. at = (pt[2] - q.rect.y0) * q.stride + (pt[1] - q.rect.x0) * SizeofPixel(q)
      BY DEF PixOffset
    <3>2. q.rect.y0 = r.y0 /\ q.rect.x0 = r.x0 /\ q.stride = w * px
      BY <1>6
    <3> QED BY <1>6, <3>1, <3>2, Zenon
  <2>5. at = px * m /\ m \in Nat
    <3>1. \A c, d, e, f \in Nat : c * (d * e) + f * e = e * (c * d + f) /\ c * d + f \in Nat
      OBVIOUS
    <3> HIDE DEF dy, dx, w, at, px
    <3> QED BY <1>5, <2>3, <2>4, <3>1
  <2>6. BytesOf(q, pix, pt) = [j \in 1 .. px |-> pix[0 + at + j]]
    BY <1>6 DEF BytesOf
  <2> HIDE DEF at, m
  <2>7. \A j \in 1 .. px : BytesOf(q, pix, pt)[j] = pixel[j]
    <3> SUFFICES ASSUME NEW j \in 1 .. px PROVE BytesOf(q, pix, pt)[j] = pixel[j]
      OBVIOUS
    <3> HIDE DEF px
    <3>1. 0 + at + j \in 1 .. n /\ j - 1 \in 0 .. px - 1 /\ (0 + at + j) - 1 = at + (j - 1)
      BY <1>5, <1>7, <2>1, <2>2
    <3>2. (px * m + (j - 1)) % px = j - 1
      BY <1>5, <2>5, <3>1, DivModOf
    <3>3. ((0 + at + j) - 1) % px = j - 1
      BY <2>5, <3>1, <3>2
    <3>4. pix[0 + at + j] = pixel[(((0 + at + j) - 1) % px) + 1]
      <4> DEFINE i == 0 + at + j
      <4>1. i \in 1 .. n
        BY <3>1
      <4> HIDE DEF i
      <4>2. pix[i] = pixel[((i - 1) % px) + 1]
        BY <1>8, <4>1
      <4> QED BY <4>2 DEF i
    <3>5. (j - 1) + 1 = j
      BY <1>5
    <3> QED BY <2>6, <3>3, <3>4, <3>5
  <2>8. RGBA(channels, size, "big", BytesOf(q, pix, pt)) = RGBA(channels, size, "big", pixel)
    BY <1>1, <2>7, SameColour
  <2>9. Shown(q, pix, pt) = RGBA(channels, size, "big", BytesOf(q, pix, pt))
    BY <1>2, <1>6 DEF Shown
  <2>10. picture[pt] = RGBA(channels, size, "big", pixel)
    BY DEF Held, pixel
  <2> QED BY <2>8, <2>9, <2>10
<1>12. DOMAIN picture = Points(r)
  OBVIOUS
<1> HIDE DEF picture
<1> QED BY <1>1, <1>2, <1>3, <1>9, <1>10, <1>11, <1>12, MadeKeeps DEF q, b

\* Four channels of two bytes, read in the other order.
LEMMA NativeIsTurned ==
  ASSUME NEW pix
  PROVE  RGBA(4, 2, "native", pix) = Turned(RGBA(4, 2, "big", pix))
  BY DEF RGBA, Turned

LEMMA FromPixelsKeeps ==
  ASSUME IInv, NEW k \in DOMAIN images, FromPixels(images[k]), ipc = "ok"
  PROVE  IInv'
<1> DEFINE m == images[k]
           array == heap[m.buf]
           pix == SubSeq(array, m.start + 1, Len(array))
           was(pt) == painted[m.picture][pt]
           picture == [pt \in Points(m.rect) |->
                          IF m.size = 1 \/ was(pt) = Unclear THEN was(pt) ELSE Turned(was(pt))]
           b == Len(heap) + 1
           q == NewImage("MemP", 4, m.size, m.rect, b)
<1>1. m.type \in {"YCbCr", "Other"} /\ Made("MemP", 4, m.size, m.rect, pix, picture)
  BY DEF FromPixels, Pix
<1>2. /\ WellFormed(m) /\ m \in Records /\ HasRoom(m, array) /\ IsSeq(array)
  BY ImageFacts
<1>3. /\ m.channels = 4 /\ m.size \in 1 .. 2 /\ m.stride = Width(m) /\ m.rect \in Rectangles
      /\ m.rect.x0 <= m.rect.x1 /\ m.rect.y0 <= m.rect.y1
  <2>1. m.size \in 0 .. 2 /\ m.size > 0
    BY <1>1, <1>2, RecordFacts DEF WellFormed
  <2>2. m.rect \in Rectangles
    BY <1>2, RecordFacts
  <2> QED BY <1>1, <1>2, <2>1, <2>2 DEF WellFormed
<1>4. "MemP" \in Types /\ "MemP" \notin {"Gray", "RGBA"} /\ "MemP" \notin {"Gray16", "RGBA64"}
      /\ "MemP" \notin {"YCbCr", "Other"} /\ b \in Nat /\ 4 \in 1 .. 4
  BY HeapLength DEF Types
<1> HIDE DEF b
<1>5. /\ WellFormed(q) /\ q.start = 0 /\ q.rect = m.rect /\ q.type = "MemP"
      /\ q.channels = 4 /\ q.size = m.size /\ q.stride = (m.rect.x1 - m.rect.x0) * (4 * m.size)
  <2>1. IsNewImage(q, "MemP", 4, m.size, m.rect, b)
    <3> HIDE DEF m
    <3> QED BY <1>3, <1>4, NewImageFacts
  <2> HIDE DEF q
  <2> QED BY <2>1 DEF IsNewImage
<1> HIDE DEF q
<1>6. q.stride = m.stride
  BY <1>3, <1>5 DEF Width, SizeofPixel
<1>7. /\ IsSeq(pix) /\ HasRoom(q, pix)
      /\ \A pt \in Points(m.rect) :
            /\ BytesOf(q, pix, pt) = BytesOf(m, array, pt)
            /\ m.size = 1 => Shown(q, pix, pt) = Shown(m, array, pt)
  <2> HIDE DEF m, array
  <2> QED BY <1>2, <1>3, <1>5, <1>6, SuffixShows
<1> HIDE DEF pix
<1>8. ASSUME NEW pt \in Points(m.rect), picture[pt] # Unclear PROVE Shown(q, pix, pt) = picture[pt]
  <2>0. /\ BytesOf(q, pix, pt) = BytesOf(m, array, pt)
        /\ m.size = 1 => Shown(q, pix, pt) = Shown(m, array, pt)
    <3> HIDE DEF m, array, picture
    <3> QED BY <1>7
  <2>1. was(pt) # Unclear
    BY <1>8
  <2>2. Shown(m, array, pt) = was(pt)
    BY <1>8, <2>1, Zenon DEF IInv, AllShown
  <2>3. CASE m.size = 1
    <3>1. picture[pt] = was(pt)
      BY <2>3
    <3>2. Shown(q, pix, pt) = Shown(m, array, pt)
      BY <2>0, <2>3
    <3> HIDE DEF was, picture, m, array
    <3> QED BY <2>2, <3>1, <3>2
  <2>4. CASE m.size # 1
    <3> DEFINE bytes == BytesOf(m, array, pt)
    <3>1. picture[pt] = Turned(was(pt)) /\ m.size = 2
      BY <1>3, <2>1, <2>4
    <3>2. Shown(m, array, pt) = RGBA(4, 2, "big", bytes)
      BY <1>1, <1>3, <3>1 DEF Shown, Order
    <3>3. Shown(q, pix, pt) = RGBA(4, 2, "native", bytes)
      <4>1. BytesOf(q, pix, pt) = bytes
        BY <2>0
      <4> HIDE DEF bytes
      <4> QED BY <1>5, <3>1, <4>1 DEF Shown, Order
    <3> HIDE DEF bytes
    <3>4. RGBA(4, 2, "native", bytes) = Turned(RGBA(4, 2, "big", bytes))
      BY NativeIsTurned
    <3> QED BY <2>2, <3>1, <3>2, <3>3, <3>4
  <2> QED BY <2>3, <2>4
<1>9. DOMAIN picture = Points(m.rect)
  OBVIOUS
<1> HIDE DEF picture
<1> QED BY <1>1, <1>3, <1>4, <1>7, <1>8, <1>9, MadeKeeps DEF q, b

-----------------------------------------------------------------------------
\* The calls that paint.
LEMMA NativePixel ==
  ASSUME NEW c \in 1 .. 4, NEW s \in 1 .. 2, NEW colour
  PROVE  /\ RGBA(c, s, "native", PixelOf(c, s, "native", colour)) = Held(c, s, colour)
         /\ s = 1 => RGBA(c, s, "native", PixelOf(c, s, "big", colour)) = Held(c, s, colour)
<1> DEFINE value == <<colour.r, colour.g, colour.b, colour.a>>
           big == PixelOf(c, s, "big", colour)
           native == PixelOf(c, s, "native", colour)
<1>1. Held(c, s, colour) = RGBA(c, s, "big", big)
  BY DEF Held
<1>2. /\ big = [i \in 1 .. c * s |-> InOrder("big", s, value[((i - 1) \div s) + 1])[((i - 1) % s) + 1]]
      /\ native = [i \in 1 .. c * s |-> InOrder("native", s, value[((i - 1) \div s) + 1])[((i - 1) % s) + 1]]
  BY DEF PixelOf
<1> HIDE DEF value, big, native
<1>3. CASE s = 1
  <2>1. \A v : InOrder("big", 1, v) = InOrder("native", 1, v)
    BY DEF InOrder
  <2>2. \A j \in 1 .. c * s : native[j] = big[j]
    BY <1>2, <1>3, <2>1
  <2>3. RGBA(c, s, "native", native) = RGBA(c, s, "big", big)
    BY <1>3, <2>2, SameColour
  <2>4. RGBA(c, s, "native", big) = RGBA(c, s, "big", big)
    BY <1>3, SameColour
  <2> QED BY <1>1, <2>3, <2>4 DEF big, native
<1>4. CASE s = 2
  <2>1. \A v : /\ InOrder("big", 2, v) = v
              /\ InOrder("native", 2, v)[1] = v[2] /\ InOrder("native", 2, v)[2] = v[1]
    BY DEF InOrder
  <2>2. \A k \in 1 .. c : big[2 * k - 1] = native[2 * k] /\ big[2 * k] = native[2 * k - 1]
    <3> SUFFICES ASSUME NEW k \in 1 .. c
                 PROVE  big[2 * k - 1] = native[2 * k] /\ big[2 * k] = native[2 * k - 1]
      OBVIOUS
    <3> DEFINE i == 2 * k - 1
               j == 2 * k
    <3>1. /\ i \in 1 .. c * 2 /\ j \in 1 .. c * 2
          /\ (i - 1) \div 2 = k - 1 /\ (i - 1) % 2 = 0 /\ (j - 1) \div 2 = k - 1 /\ (j - 1) % 2 = 1
      OBVIOUS
    <3>2. 0 + 1 = 1 /\ 1 + 1 = 2
      OBVIOUS
    <3> HIDE DEF i, j
    <3> DEFINE v == value[(k - 1) + 1]
    <3>3. /\ big[i] = InOrder("big", 2, v)[1] /\ big[j] = InOrder("big", 2, v)[2]
          /\ native[i] = InOrder("native", 2, v)[1] /\ native[j] = InOrder("native", 2, v)[2]
      BY <1>2, <1>4, <3>1, <3>2
    <3> HIDE DEF v
    <3>4. big[i] = native[j] /\ big[j] = native[i]
      BY <2>1, <3>3
    <3> QED BY <3>4 DEF i, j
  <2>3. RGBA(c, 2, "big", big) = RGBA(c, 2, "native", native)
    BY <2>2, TurnedColour
  <2> QED BY <1>1, <1>4, <2>3 DEF native
<1> QED BY <1>3, <1>4

LEMMA TurnedPixel ==
  ASSUME NEW c \in 1 .. 4, NEW colour
  PROVE  RGBA(c, 2, "native", PixelOf(c, 2, "big", colour)) = Held(c, 2, Turned(colour))
<1> DEFINE value  == <<colour.r, colour.g, colour.b, colour.a>>
           turned == Turned(colour)
           other  == <<turned.r, turned.g, turned.b, turned.a>>
           p == PixelOf(c, 2, "big", turned)
           q == PixelOf(c, 2, "big", colour)
<1>1. \A k \in 1 .. 4 : other[k][1] = value[k][2] /\ other[k][2] = value[k][1]
  <2>1. 1 .. 4 = {1, 2, 3, 4}
    OBVIOUS
  <2>2. /\ turned.r = <<colour.r[2], colour.r[1]>> /\ turned.g = <<colour.g[2], colour.g[1]>>
        /\ turned.b = <<colour.b[2], colour.b[1]>> /\ turned.a = <<colour.a[2], colour.a[1]>>
    BY DEF Turned
  <2> HIDE DEF turned
  <2> QED BY <2>1, <2>2
<1>2. /\ p = [i \in 1 .. c * 2 |-> InOrder("big", 2, other[((i - 1) \div 2) + 1])[((i - 1) % 2) + 1]]
      /\ q = [i \in 1 .. c * 2 |-> InOrder("big", 2, value[((i - 1) \div 2) + 1])[((i - 1) % 2) + 1]]
  BY DEF PixelOf
<1>3. \A v : InOrder("big", 2, v) = v
  BY DEF InOrder
<1> HIDE DEF value, other, turned
<1>4. ASSUME NEW k \in 1 .. c PROVE p[2 * k - 1] = q[2 * k] /\ p[2 * k] = q[2 * k - 1]
  <2> DEFINE i == 2 * k - 1
             j == 2 * k
  <2>1. /\ i \in 1 .. c * 2 /\ j \in 1 .. c * 2
        /\ (i - 1) \div 2 = k - 1 /\ (i - 1) % 2 = 0 /\ (j - 1) \div 2 = k - 1 /\ (j - 1) % 2 = 1
    OBVIOUS
  <2>2. 0 + 1 = 1 /\ 1 + 1 = 2 /\ (k - 1) + 1 = k /\ k \in 1 .. 4
    OBVIOUS
  <2> HIDE DEF i, j, p, q
  <2>3. /\ p[i] = other[k][1] /\ p[j] = other[k][2] /\ q[i] = value[k][1] /\ q[j] = value[k][2]
    BY <1>2, <1>3, <2>1, <2>2
  <2>4. p[i] = q[j] /\ p[j] = q[i]
    BY <1>1, <2>2, <2>3
  <2> QED BY <2>4 DEF i, j
<1> HIDE DEF p, q
<1>5. RGBA(c, 2, "big", p) = RGBA(c, 2, "native", q)
  BY <1>4, TurnedColour
<1> QED BY <1>5 DEF Held, p, q, turned

\* Two channels cut to a byte that hold them.
LEMMA NarrowedPixel ==
  ASSUME NEW colour, NEW pix \in Narrowed(<<colour.r, colour.g>>)
  PROVE  /\ DOMAIN pix = 1 .. 2
         /\ colour.r[1] = 0 /\ colour.g[1] = 0
            => RGBA(2, 1, "native", pix) = Held(2, 1, Turned(colour))
<1> DEFINE values == <<colour.r, colour.g>>
           turned == Turned(colour)
           p == PixelOf(2, 1, "big", turned)
<1>1. DOMAIN values = 1 .. 2 /\ values[1] = colour.r /\ values[2] = colour.g
  OBVIOUS
<1>2. DOMAIN pix = DOMAIN values /\ \A k \in DOMAIN values : pix[k] \in ByteOf(values[k])
  BY DEF Narrowed
<1>3. ASSUME colour.r[1] = 0, colour.g[1] = 0
      PROVE  RGBA(2, 1, "native", pix) = Held(2, 1, Turned(colour))
  <2>1. pix[1] = colour.r[2] /\ pix[2] = colour.g[2]
    <3>1. 1 \in 1 .. 2 /\ 2 \in 1 .. 2
      OBVIOUS
    <3> HIDE DEF values
    <3> QED BY <1>1, <1>2, <1>3, <3>1 DEF ByteOf
  <2>2. p[1] = turned.r[1] /\ p[2] = turned.g[1]
    <3>1. /\ 1 \in 1 .. 2 * 1 /\ 2 \in 1 .. 2 * 1
          /\ (1 - 1) \div 1 = 0 /\ (1 - 1) % 1 = 0 /\ (2 - 1) \div 1 = 1 /\ (2 - 1) % 1 = 0
          /\ 0 + 1 = 1 /\ 1 + 1 = 2
      OBVIOUS
    <3>2. \A v : InOrder("big", 1, v)[1] = v[1]
      BY DEF InOrder
    <3> HIDE DEF turned
    <3> DEFINE four == <<turned.r, turned.g, turned.b, turned.a>>
    <3>3. p = [i \in 1 .. 2 * 1 |-> InOrder("big", 1, four[((i - 1) \div 1) + 1])[((i - 1) % 1) + 1]]
      BY DEF PixelOf
    <3>4. four[1] = turned.r /\ four[2] = turned.g
      OBVIOUS
    <3> HIDE DEF four, p
    <3> QED BY <3>1, <3>2, <3>3, <3>4
  <2>3. turned.r[1] = colour.r[2] /\ turned.g[1] = colour.g[2]
    BY DEF Turned
  <2> HIDE DEF p, turned
  <2>4. \A j \in 1 .. 2 * 1 : pix[j] = p[j]
    <3>1. 1 .. 2 * 1 = {1, 2}
      OBVIOUS
    <3> QED BY <2>1, <2>2, <2>3, <3>1
  <2>5. RGBA(2, 1, "native", pix) = RGBA(2, 1, "big", p)
    <3> DEFINE two == 2
               one == 1
    <3>1. two \in 1 .. 4 /\ one \in 1 .. 2
      OBVIOUS
    <3>2. \A j \in 1 .. two * one : pix[j] = p[j]
      BY <2>4
    <3>3. one = 1
      OBVIOUS
    <3> HIDE DEF two, one
    <3>4. RGBA(two, one, "native", pix) = RGBA(two, one, "big", p)
      BY <3>1, <3>2, <3>3, SameColour
    <3> QED BY <3>4 DEF two, one
  <2> QED BY <2>5 DEF Held, p, turned
<1> QED BY <1>1, <1>2, <1>3

LEMMA SetKeeps ==
  ASSUME IInv, NEW k \in DOMAIN images, NEW pt, NEW colour, Set(images[k], pt, colour)
  PROVE  IInv'
<1> DEFINE m == images[k]
           c == m.channels
           s == m.size
<1>1. ipc = "ok" /\ WellFormed(m) /\ SizeofPixel(m) = c * s
  BY ImageFacts DEF Set, Calls, SizeofPixel
<1>2. pt \in Points(m.rect) => c \in 1 .. 4 /\ s \in 1 .. 2
  BY <1>1, SpotFacts
<1>3. CASE m.type = "MemP"
  <2> DEFINE seen == ShownAs(c, s, colour)
  <2>1. PICK pix \in ConvertColour(c, s, colour) : Paint(m, pt, pix, seen)
    BY <1>3 DEF Set
  <2>2. ASSUME pt \in Points(m.rect)
        PROVE  /\ DOMAIN pix = 1 .. SizeofPixel(m)
               /\ seen # Unclear => RGBA(c, s, Order(m.type), pix) = seen
    <3>1. c \in 1 .. 4 /\ s \in 1 .. 2 /\ Order(m.type) = "native" /\ SizeofPixel(m) = c * s
      BY <1>1, <1>2, <1>3, <2>2 DEF Order
    <3> HIDE DEF c, s
    <3>2. CASE c = 2 /\ s = 1
      <4>1. pix \in Narrowed(<<colour.r, colour.g>>)
        BY <2>1, <3>2 DEF ConvertColour
      <4>2. seen # Unclear => seen = Held(c, s, Turned(colour)) /\ colour.r[1] = 0 /\ colour.g[1] = 0
        BY <3>2 DEF ShownAs
      <4> HIDE DEF seen
      <4>3. c * s = 2
        BY <3>2
      <4> QED BY <3>1, <3>2, <4>1, <4>2, <4>3, NarrowedPixel
    <3>3. CASE c # 2 /\ s = 2
      <4>1. pix = PixelOf(c, s, "big", colour) /\ seen = Held(c, s, Turned(colour))
        BY <2>1, <3>3 DEF ConvertColour, ShownAs
      <4> HIDE DEF seen
      <4>2. DOMAIN pix = 1 .. c * s
        BY <3>1, <4>1, PixelOfFacts
      <4>3. RGBA(c, s, "native", pix) = seen
        BY <3>1, <3>3, <4>1, TurnedPixel
      <4> QED BY <3>1, <4>2, <4>3
    <3>4. CASE (c = 2 /\ s = 2) \/ (c # 2 /\ s = 1)
      <4> DEFINE order == IF c = 2 THEN "native" ELSE "big"
      <4>1. pix = PixelOf(c, s, order, colour) /\ seen = Held(c, s, colour)
        BY <2>1, <3>4 DEF ConvertColour, ShownAs
      <4>2. order = "native" \/ (order = "big" /\ s = 1)
        BY <3>4
      <4> HIDE DEF seen, order
      <4>3. DOMAIN pix = 1 .. c * s
        BY <3>1, <4>1, PixelOfFacts
      <4>4. RGBA(c, s, "native", pix) = seen
        BY <3>1, <4>1, <4>2, NativePixel
      <4> QED BY <3>1, <4>3, <4>4
    <3> QED BY <3>1, <3>2, <3>3, <3>4
  <2> HIDE DEF seen
  <2> QED BY <1>1, <2>1, <2>2, PaintKeeps
<1>4. CASE m.type # "MemP"
  <2> DEFINE pix == PixelOf(c, s, "big", colour)
             seen == Held(c, s, colour)
  <2>1. Paint(m, pt, pix, seen)
    BY <1>4 DEF Set
  <2>2. ASSUME pt \in Points(m.rect)
        PROVE  /\ DOMAIN pix = 1 .. SizeofPixel(m)
               /\ seen # Unclear => RGBA(c, s, Order(m.type), pix) = seen
    <3>1. c \in 1 .. 4 /\ s \in 1 .. 2 /\ Order(m.type) = "big"
      BY <1>2, <1>4, <2>2 DEF Order
    <3>2. DOMAIN pix = 1 .. SizeofPixel(m)
      <4> HIDE DEF c, s
      <4> QED BY <1>1, <3>1, PixelOfFacts
    <3> QED BY <3>1, <3>2 DEF Held
  <2> HIDE DEF pix, seen
  <2> QED BY <1>1, <2>1, <2>2, PaintKeeps
<1> QED BY <1>3, <1>4

LEMMA SetPixelKeeps ==
  ASSUME IInv, NEW k \in DOMAIN images, NEW pt, NEW colour, SetPixel(images[k], pt, colour)
  PROVE  IInv'
<1> DEFINE m == images[k]
           c == m.channels
           s == m.size
           pix == PixelOf(c, s, "native", colour)
           seen == Held(c, s, colour)
<1>1. ipc = "ok" /\ m.type = "MemP" /\ Paint(m, pt, pix, seen)
  BY DEF SetPixel, Calls
<1>2. WellFormed(m) /\ SizeofPixel(m) = c * s
  BY ImageFacts DEF SizeofPixel
<1>3. ASSUME pt \in Points(m.rect)
      PROVE  /\ DOMAIN pix = 1 .. SizeofPixel(m)
             /\ seen # Unclear => RGBA(c, s, Order(m.type), pix) = seen
  <2>1. c \in 1 .. 4 /\ s \in 1 .. 2 /\ Order(m.type) = "native"
    BY <1>1, <1>2, <1>3, SpotFacts DEF Order
  <2> HIDE DEF c, s
  <2>2. DOMAIN pix = 1 .. SizeofPixel(m)
    BY <1>2, <2>1, PixelOfFacts
  <2>3. RGBA(c, s, "native", pix) = seen
    BY <2>1, NativePixel
  <2> HIDE DEF pix, seen
  <2> QED BY <2>1, <2>2, <2>3
<1> HIDE DEF pix, seen
<1> QED BY <1>1, <1>3, PaintKeeps

LEMMA SetAtKeeps ==
  ASSUME IInv, NEW k \in DOMAIN images, NEW pt, NEW j \in DOMAIN images,
         NEW at \in Points(images[j].rect), SetAt(images[k], pt, images[j], at)
  PROVE  IInv'
<1> DEFINE m == images[k]
           from == images[j]
           c == m.channels
           s == m.size
           seen == IF SameKind(from, m) THEN painted[from.picture][at] ELSE Unclear
<1>1. /\ ipc = "ok" /\ m.type = "MemP" /\ from.type = "MemP"
      /\ \E pix \in ConvertMemP(c, s, from, PixelAt(from, at)) : Paint(m, pt, pix, seen)
  BY DEF SetAt, Calls
<1> PICK pix \in ConvertMemP(c, s, from, PixelAt(from, at)) : Paint(m, pt, pix, seen)
  BY <1>1
<1>2. WellFormed(m) /\ SizeofPixel(m) = c * s
  BY ImageFacts DEF SizeofPixel
<1>3. pt \in Points(m.rect) => DOMAIN pix = 1 .. SizeofPixel(m)
  <2> SUFFICES ASSUME pt \in Points(m.rect) PROVE DOMAIN pix = 1 .. SizeofPixel(m)
    OBVIOUS
  <2>1. c \in 1 .. 4 /\ s \in 1 .. 2
    BY <1>2, SpotFacts
  <2> HIDE DEF c, s, from, m
  <2>2. CASE s = 1 /\ from.size = 2
    <3> DEFINE values == [n \in 1 .. c |-> IF n <= from.channels
                              THEN <<PixelAt(from, at)[2 * n], PixelAt(from, at)[2 * n - 1]>>
                              ELSE <<0, 0>>]
    <3>1. pix \in Narrowed(values)
      BY <2>2 DEF ConvertMemP
    <3>2. DOMAIN values = 1 .. c /\ c * s = c
      BY <2>1, <2>2
    <3> HIDE DEF values
    <3> QED BY <1>2, <3>1, <3>2 DEF Narrowed
  <2>3. CASE ~ (s = 1 /\ from.size = 2)
    BY <1>2, <2>3 DEF ConvertMemP
  <2> QED BY <2>2, <2>3
<1>4. ASSUME pt \in Points(m.rect), seen # Unclear
      PROVE  RGBA(c, s, Order(m.type), pix) = seen
  <2>1. /\ from.channels = c /\ from.size = s /\ painted[from.picture][at] # Unclear
        /\ seen = painted[from.picture][at]
    BY <1>4 DEF SameKind
  <2>2. c \in 1 .. 4 /\ s \in 1 .. 2
    BY <1>2, <1>4, SpotFacts
  <2> DEFINE array == heap[from.buf]
             bytes == BytesOf(from, array, at)
             px == c * s
  <2>3. ImageFits(from, heap) /\ IsSeq(array)
    BY ImageFacts
  <2>4. PixelAt(from, at) = bytes
    BY <2>3, SeenIsShown
  <2>5. Shown(from, array, at) = seen
    BY <2>1, Zenon DEF IInv, AllShown
  <2>6. Shown(from, array, at) = RGBA(c, s, Order(m.type), bytes)
    BY <1>1, <2>1 DEF Shown
  <2>7. px \in Nat
    BY <2>2
  <2>8. Len(bytes) = px
    <3>1. SizeofPixel(from) = px
      BY <2>1 DEF SizeofPixel
    <3>2. bytes = [n \in 1 .. px |-> bytes[n]]
      BY <3>1 DEF BytesOf
    <3> HIDE DEF bytes, px
    <3> QED BY <2>7, <3>2, FunIsSeq
  <2>9. \A n \in 1 .. px : pix[n] = bytes[n]
    <3> SUFFICES ASSUME NEW n \in 1 .. px PROVE pix[n] = bytes[n]
      OBVIOUS
    <3>1. pix[n] = IF n <= Len(bytes) THEN bytes[n] ELSE 0
      <4> HIDE DEF bytes
      <4>1. ~ (s = 1 /\ from.size = 2) /\ s = from.size
          BY <2>1, <2>2
        <4> QED BY <2>1, <2>4, <4>1 DEF ConvertMemP
    <3> HIDE DEF bytes, px
    <3> QED BY <2>7, <2>8, <3>1
  <2>10. RGBA(c, s, Order(m.type), pix) = RGBA(c, s, Order(m.type), bytes)
    <3> HIDE DEF c, s, bytes
    <3> QED BY <2>2, <2>9, SameColour
  <2> QED BY <2>5, <2>6, <2>10
<1> HIDE DEF seen
<1> QED BY <1>1, <1>3, <1>4, PaintKeeps

-----------------------------------------------------------------------------
LEMMA InitIInv == IInit => IInv
<1> SUFFICES ASSUME IInit PROVE IInv
  OBVIOUS
<1>1. heap = <<>> /\ images = <<>> /\ painted = <<>> /\ ipc = "ok"
  BY DEF IInit
<1>2. IsSeq(<<>>) /\ DOMAIN <<>> = {} /\ Len(<<>>) = 0
  <2>1. <<>> \in Seq({<<>>[i] : i \in DOMAIN <<>>}) /\ Len(<<>>) = 0
    BY EmptySeq
  <2> QED BY <2>1, LenProperties DEF IsSeq
<1> QED BY <1>1, <1>2 DEF IInv, Sequential, Rooted, AllShown, PanicOnlyOffColumnZero

LEMMA NextIInv == IInv /\ [INext]_ivars => IInv'
<1> SUFFICES ASSUME IInv, [INext]_ivars PROVE IInv'
  OBVIOUS
<1>1. CASE UNCHANGED ivars
  BY <1>1 DEF ivars, IInv, Sequential, Rooted, AllShown, PanicOnlyOffColumnZero
<1>2. ASSUME NEW r \in Rects, NEW kind \in Kinds, NewMemPImage(r, kind[1], kind[2]) PROVE IInv'
  BY <1>2, NewMemPImageKeeps
<1>3. ASSUME NEW type \in {"Gray16", "YCbCr", "Other"}, NEW r \in Rects, NEW c \in Colours,
             Arrives(type, r, c)
      PROVE  IInv'
  BY <1>3, ArrivesKeeps
<1>4. ASSUME NEW i \in DOMAIN images, CloneImage(images[i]) PROVE IInv'
  BY <1>4, CloneImageKeeps
<1>5. ASSUME NEW i \in DOMAIN images, StdImage(images[i]) PROVE IInv'
  BY <1>5, StdImageKeeps
<1>6. ASSUME NEW i \in DOMAIN images, AsMemPImage(images[i]) PROVE IInv'
  BY <1>6, AsMemPImageKeeps
<1>7. ASSUME NEW i \in DOMAIN images, NewMemPImageFrom(images[i]) PROVE IInv'
  <2>1. ipc = "ok" /\ (FromShared(images[i]) \/ FromRows(images[i]) \/ FromPixels(images[i]))
    BY <1>7 DEF NewMemPImageFrom, Calls
  <2> QED BY <2>1, FromSharedKeeps, FromRowsKeeps, FromPixelsKeeps
<1>8. ASSUME NEW i \in DOMAIN images, NEW r \in Cuts, SubImage(images[i], r) PROVE IInv'
  BY <1>8, SubImageKeeps
<1>9. ASSUME NEW i \in DOMAIN images, NEW pt \in UNION {Points(r) : r \in Rects}, NEW c \in Colours,
             Set(images[i], pt, c) \/ SetPixel(images[i], pt, c)
      PROVE  IInv'
  BY <1>9, SetKeeps, SetPixelKeeps
<1>10. ASSUME NEW i \in DOMAIN images, NEW pt \in UNION {Points(r) : r \in Rects},
              NEW j \in DOMAIN images, NEW at \in Points(images[j].rect),
              SetAt(images[i], pt, images[j], at)
       PROVE  IInv'
  BY <1>10, SetAtKeeps
<1> QED BY <1>1, <1>2, <1>3, <1>4, <1>5, <1>6, <1>7, <1>8, <1>9, <1>10 DEF INext

\* Every image shows at each point what was last painted there through any image of the same
\* picture, whatever was cloned, cut out, turned into an image of the library and made from one in
\* between: for images of any size and place that do not begin left of column 0, all their
\* cuts, and all colours.
THEOREM SeenAsPaintedThm == ImageSpec => []SeenAsPainted
<1>1. IInv => SeenAsPainted
  BY SeenAsShown DEF IInv
<1> QED BY InitIInv, NextIInv, <1>1, PTL DEF ImageSpec

\* Copying the rows of a 16-bit image of the library indexes out of range only when one of these
\* images does not begin at column 0: at column 0 every row lies within the array.
THEOREM PanicOnlyOffColumnZeroThm == ImageSpec => []PanicOnlyOffColumnZero
<1>1. IInv => PanicOnlyOffColumnZero
  BY DEF IInv
<1> QED BY InitIInv, NextIInv, <1>1, PTL DEF ImageSpec
=============================================================================
