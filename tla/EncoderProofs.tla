--------------------------- MODULE EncoderProofs ---------------------------
(***************************************************************************)
(* Proofs about the file that Encode writes, as Directories reads it: it   *)
(* is read back, its parts do not overlap, cut short of its last value it  *)
(* is refused; and Encode panics only where it says.                       *)
(***************************************************************************)
EXTENDS DirectoriesProofs

---------------------------------------------------------------------------
(* Encode, until the rows are written.                                     *)

LEMMA ImageIs ==
    ASSUME NEW m \in Images
    PROVE  /\ m.dx \in Nat /\ m.dy \in Nat /\ m.x0 \in Nat /\ m.right \in Nat /\ m.below \in Nat
           /\ m.dx * m.dy = 0 => m.x0 = 0 /\ m.right = 0 /\ m.below = 0
           /\ PixelSize(m.type) \in {1, 2, 4, 8}
           /\ RowLen(m) \in Nat /\ Stride(m) \in Nat /\ ImageLen(m) \in Nat /\ PixLen(m) \in Int
<1> DEFINE t == m.type
           s == PixelSize(t)
<1>1. /\ m.dx \in Nat /\ m.dy \in Nat /\ m.x0 \in Nat /\ m.right \in Nat /\ m.below \in Nat
      /\ m.dx * m.dy = 0 => m.x0 = 0 /\ m.right = 0 /\ m.below = 0
  BY ImagesAssumption
<1> HIDE DEF t
<1>2. s \in {1, 2, 4, 8}
  BY DEF PixelSize
<1> HIDE DEF s
<1>3. /\ RowLen(m) = m.dx * s /\ Stride(m) = (m.x0 + m.dx + m.right) * s /\ ImageLen(m) = (m.dx * m.dy) * s
      /\ PixLen(m) = IF m.dx * m.dy = 0 THEN 0 ELSE Stride(m) * (m.dy + m.below) - m.x0 * s
  BY DEF RowLen, Stride, ImageLen, PixLen, s, t
<1>4. m.dx * s \in Nat /\ m.x0 * s \in Nat /\ (m.x0 + m.dx + m.right) * s \in Nat
  BY <1>1, <1>2
<1>5. m.dx * m.dy \in Nat
  BY <1>1
<1>6. (m.dx * m.dy) * s \in Nat
  <2> DEFINE p == m.dx * m.dy
  <2> HIDE DEF p
  <2>1. p * s \in Nat
    BY <1>2, <1>5 DEF p
  <2> QED
    BY <2>1 DEF p
<1>7. PixLen(m) \in Int
  <2> DEFINE p == Stride(m)
             r == m.dy + m.below
             x == m.x0 * s
             pixels == m.dx * m.dy
  <2>1. p \in Nat
    BY <1>3, <1>4
  <2>2. r \in Nat
    BY <1>1
  <2>3. x \in Nat
    BY <1>4
  <2>4. PixLen(m) = IF pixels = 0 THEN 0 ELSE p * r - x
    BY <1>3
  <2> HIDE DEF p, r, x, pixels
  <2>5. p * r \in Nat
    BY <2>1, <2>2
  <2> QED
    BY <2>1, <2>2, <2>3, <2>4, <2>5
<1> QED
  BY <1>1, <1>2, <1>3, <1>4, <1>6, <1>7 DEF s, t

\* What Encode has written when it comes to the rows.
RowsInv ==
    /\ img \in Images
    /\ pc \in {"magic", "offset", "pixels", "row", "advance", "panic"} => out \in Seq(Int)
    /\ pc = "magic" => Len(out) = 0 /\ y = 0
    /\ pc = "offset" => Len(out) = 4 /\ y = 0
    /\ pc = "pixels" => Len(out) = 8 /\ y = 0
    /\ pc \in {"row", "advance", "panic"} =>
          y \in 0 .. img.dy /\ Len(out) = 8 + y * RowLen(img) /\ ~ Together(img)
    /\ pc \in {"advance", "panic"} => y > 0 /\ ByBytes(img)
    /\ pc = "panic" => ~ StrideFits

LEMMA PixRowIs ==
    ASSUME NEW m \in Images, NEW r \in Int
    PROVE  /\ PixRow(m, r) \in Seq(Int) /\ Len(PixRow(m, r)) = RowLen(m)
           /\ RowWritten(m, r) \in Seq(Int) /\ Len(RowWritten(m, r)) = RowLen(m)
<1> DEFINE L == RowLen(m)
           s == Stride(m)
           b == Base + r * s
           row == PixRow(m, r)
<1>1. L \in Nat /\ s \in Nat
  BY ImageIs
<1> HIDE DEF L, s
<1>2. b \in Int
  BY <1>1, BaseIs
<1>3. row = [k \in 1 .. L |-> b + k]
  BY DEF PixRow, L, s
<1> HIDE DEF b, row
<1>4. row \in Seq(Int) /\ Len(row) = L /\ DOMAIN row = 1 .. L /\ \A k \in 1 .. L : row[k] = b + k
  BY <1>1, <1>2, <1>3
<1>5. CASE m.type \notin Deep
  <2>1. RowWritten(m, r) = row
    BY <1>5 DEF RowWritten, Row16, row
  <2> QED
    BY <1>4, <2>1 DEF L, row
<1>6. CASE m.type \in Deep
  <2>1. RowWritten(m, r) = [k \in 1 .. L |-> row[IF k % 2 = 1 THEN k + 1 ELSE k - 1]]
    BY <1>4, <1>6 DEF RowWritten, Row16, SwappedPairs, row
  <2>2. \E c \in Nat : L = 2 * c
    <3> DEFINE w == PixelSize(m.type)
    <3>1. w \in {2, 8} /\ L = m.dx * w /\ m.dx \in Nat
      BY <1>6, ImageIs DEF PixelSize, Deep, RowLen, L
    <3> HIDE DEF w
    <3>2. CASE w = 2
      BY <3>1, <3>2
    <3>3. CASE w = 8
      <4>1. L = 2 * (4 * m.dx) /\ 4 * m.dx \in Nat
        BY <3>1, <3>3
      <4> QED
        BY <4>1
    <3> QED
      BY <3>1, <3>2, <3>3
  <2>3. ASSUME NEW k \in 1 .. L PROVE row[IF k % 2 = 1 THEN k + 1 ELSE k - 1] \in Int
    <3> DEFINE o == k % 2
    <3>1. o \in {0, 1} /\ k = 2 * (k \div 2) + o /\ k \div 2 \in Int
      BY <1>1
    <3>2. PICK c \in Nat : L = 2 * c
      BY <2>2
    <3> DEFINE d == k \div 2
    <3> HIDE DEF o, d
    <3>3. (IF o = 1 THEN k + 1 ELSE k - 1) \in 1 .. L
      <4>1. o \in {0, 1} /\ k = 2 * d + o /\ d \in Int
        BY <3>1 DEF d
      <4> QED
        BY <1>1, <3>2, <4>1
    <3> DEFINE i == IF o = 1 THEN k + 1 ELSE k - 1
    <3> HIDE DEF i
    <3>4. row[i] = b + i /\ i \in Int
      BY <1>1, <1>4, <3>3 DEF i
    <3> QED
      BY <1>2, <3>4 DEF i, o
  <2>4. [k \in 1 .. L |-> row[IF k % 2 = 1 THEN k + 1 ELSE k - 1]] \in [1 .. L -> Int]
    BY <2>3
  <2>5. RowWritten(m, r) \in Seq(Int) /\ Len(RowWritten(m, r)) = L
    <3> DEFINE u == RowWritten(m, r)
    <3>1. u \in [1 .. L -> Int]
      BY <2>1, <2>4
    <3> HIDE DEF u
    <3>2. u \in Seq(Int) /\ Len(u) = L
      BY <1>1, <3>1
    <3> QED
      BY <3>2 DEF u
  <2> QED
    BY <1>4, <2>5 DEF L, row
<1> QED
  BY <1>5, <1>6

\* A Write that went well.
Wrote(bytes, next) == out' = out \o bytes /\ pc' = next

LEMMA Writes ==
    ASSUME NEW bytes, NEW next, Write(bytes, next), pc' # "error"
    PROVE  Wrote(bytes, next)
  BY DEF Write, Wrote

LEMMA Longer ==
    ASSUME out \in Seq(Int), NEW bytes \in Seq(Int), NEW next, Wrote(bytes, next)
    PROVE  out' \in Seq(Int) /\ Len(out') = Len(out) + Len(bytes) /\ pc' = next
  BY Joined DEF Wrote

\* How the calls after the rows go is nothing that RowsInv is about.
Later == {"count", "entry", "area", "done", "error"}

LEMMA RowsDone ==
    ASSUME RowsInv, img' = img, pc' \in Later
    PROVE  RowsInv'
  BY DEF RowsInv, Later

LEMMA LEIs ==
    ASSUME NEW v \in Int
    PROVE  LE(v, 2) \in Seq(Int) /\ Len(LE(v, 2)) = 2 /\ LE(v, 4) \in Seq(Int) /\ Len(LE(v, 4)) = 4
<1> DEFINE two == 2
           four == 4
<1>1. two \in Widths /\ four \in Widths /\ "II" \in Orders /\ Bytes \subseteq Int
  BY BaseIs DEF Widths, Orders, Bytes
<1> HIDE DEF two, four
<1>2. /\ LE(v, two) \in Seq(Bytes) /\ Len(LE(v, two)) = two
      /\ LE(v, four) \in Seq(Bytes) /\ Len(LE(v, four)) = four
  BY <1>1, EncodedBytes DEF LE
<1>3. LE(v, two) \in Seq(Int) /\ LE(v, four) \in Seq(Int)
  BY <1>1, <1>2, SeqWider
<1> QED
  BY <1>2, <1>3 DEF two, four

LEMMA RowsInitially ==
    ASSUME Init
    PROVE  RowsInv
<1>1. img \in Images /\ pc = "magic" /\ out = <<>> /\ y = 0
  BY DEF Init, EncoderInit
<1>2. out \in Seq(Int) /\ Len(out) = 0
  BY <1>1, EmptySeq
<1> QED
  BY <1>1, <1>2 DEF RowsInv

LEMMA RowsStep ==
    ASSUME RowsInv, WriteRow
    PROVE  RowsInv'
<1>1. /\ pc \in {"pixels", "row"} /\ ~ Together(img) /\ y < img.dy /\ y' = y + 1 /\ img' = img
      /\ Write(RowWritten(img, y), IF ByBytes(img) THEN "advance" ELSE "row")
  BY DEF WriteRow
<1>2. img \in Images /\ out \in Seq(Int)
  BY <1>1 DEF RowsInv
<1> DEFINE L == RowLen(img)
           row == RowWritten(img, y)
           next == IF ByBytes(img) THEN "advance" ELSE "row"
           rows == y * L
<1>3. L \in Nat /\ img.dy \in Nat
  BY <1>2, ImageIs
<1>4. y \in 0 .. img.dy /\ Len(out) = 8 + rows
  <2>1. CASE pc = "pixels"
    <3>1. y = 0 /\ Len(out) = 8 /\ 0 * L = 0
      BY <1>3, <2>1 DEF RowsInv
    <3> HIDE DEF L
    <3> QED
      BY <1>3, <3>1
  <2>2. CASE pc = "row"
    BY <2>2 DEF RowsInv
  <2> QED
    BY <1>1, <2>1, <2>2
<1>5. row \in Seq(Int) /\ Len(row) = L
  BY <1>2, <1>4, PixRowIs
<1>6. CASE pc' = "error"
  BY <1>1, <1>6, RowsDone DEF Later
<1>7. CASE pc' # "error"
  <2>1. Wrote(row, next)
    BY <1>1, <1>7, Writes
  <2> HIDE DEF row, next
  <2>2. out' \in Seq(Int) /\ Len(out') = Len(out) + Len(row) /\ pc' = next
    BY <1>2, <1>5, <2>1, Longer
  <2>3. Len(out') = 8 + (y + 1) * L
    <3> HIDE DEF L
    <3>1. rows \in Int /\ (y + 1) * L = rows + L
      <4>1. y \in Nat
        BY <1>4
      <4> QED
        BY <1>3, <4>1, SMT
    <3> QED
      BY <1>3, <1>4, <1>5, <2>2, <3>1
  <2>4. y' \in 0 .. img.dy /\ y' > 0
    BY <1>1, <1>3, <1>4
  <2>5. pc' \in {"advance", "row"} /\ (pc' = "advance" => ByBytes(img))
    BY <2>2 DEF next
  <2> QED
    BY <1>1, <1>2, <2>2, <2>3, <2>4, <2>5 DEF RowsInv
<1> QED
  BY <1>6, <1>7

LEMMA RowsSteps ==
    ASSUME RowsInv, EncoderNext
    PROVE  RowsInv'
<1>1. CASE WriteMagic
  <2> DEFINE bytes == ByteOrderMark("II") \o LE(42, 2)
  <2>1. pc = "magic" /\ Write(bytes, "offset") /\ img' = img /\ y' = y
    BY <1>1 DEF WriteMagic
  <2>2. bytes \in Seq(Int) /\ Len(bytes) = 4
    <3> DEFINE mark == ByteOrderMark("II")
               number == LE(42, 2)
    <3>1. mark \in Seq(Int) /\ Len(mark) = 2
      BY DEF ByteOrderMark
    <3>2. number \in Seq(Int) /\ Len(number) = 2
      BY LEIs
    <3> HIDE DEF mark, number
    <3>3. mark \o number \in Seq(Int) /\ Len(mark \o number) = Len(mark) + Len(number)
      BY <3>1, <3>2, Joined
    <3>4. Len(mark \o number) = 4
      BY <3>1, <3>2, <3>3
    <3>5. bytes = mark \o number
      BY DEF mark, number
    <3> QED
      BY <3>3, <3>4, <3>5
  <2> HIDE DEF bytes
  <2>3. CASE pc' = "error"
    BY <2>1, <2>3, RowsDone DEF Later
  <2>4. CASE pc' # "error"
    <3>1. Wrote(bytes, "offset") /\ out \in Seq(Int) /\ Len(out) = 0 /\ y = 0
      BY <2>1, <2>4, Writes DEF RowsInv
    <3>2. out' \in Seq(Int) /\ Len(out') = Len(out) + Len(bytes) /\ pc' = "offset"
      BY <2>2, <3>1, Longer
    <3> QED
      BY <2>1, <2>2, <3>1, <3>2 DEF RowsInv
  <2> QED
    BY <2>3, <2>4
<1>2. CASE WriteOffset
  <2> DEFINE bytes == LE(ImageLen(img) + 8, 4)
  <2>1. pc = "offset" /\ Write(bytes, "pixels") /\ img' = img /\ y' = y
    BY <1>2 DEF WriteOffset
  <2>2. bytes \in Seq(Int) /\ Len(bytes) = 4
    <3> DEFINE n == ImageLen(img) + 8
    <3>1. ImageLen(img) \in Nat
      BY ImageIs DEF RowsInv
    <3>2. n \in Int
      BY <3>1
    <3>3. bytes = LE(n, 4)
      OBVIOUS
    <3> HIDE DEF n, bytes
    <3> QED
      BY <3>2, <3>3, LEIs
  <2> HIDE DEF bytes
  <2>3. CASE pc' = "error"
    BY <2>1, <2>3, RowsDone DEF Later
  <2>4. CASE pc' # "error"
    <3>1. Wrote(bytes, "pixels") /\ out \in Seq(Int) /\ Len(out) = 4 /\ y = 0
      BY <2>1, <2>4, Writes DEF RowsInv
    <3>2. out' \in Seq(Int) /\ Len(out') = Len(out) + Len(bytes) /\ pc' = "pixels"
      BY <2>2, <3>1, Longer
    <3> QED
      BY <2>1, <2>2, <3>1, <3>2 DEF RowsInv
  <2> QED
    BY <2>3, <2>4
<1>3. CASE WriteRow
  BY <1>3, RowsStep
<1>4. CASE Advance
  BY <1>4 DEF Advance, RowsInv, StrideFits
<1>5. CASE WritePix
  <2>1. img' = img /\ pc' \in {"count", "error"}
    BY <1>5 DEF WritePix, Write
  <2> QED
    BY <2>1, RowsDone DEF Later
<1>6. CASE WriteCount
  <2>1. img' = img /\ pc' \in {"entry", "error"}
    BY <1>6 DEF WriteCount, Write
  <2> QED
    BY <2>1, RowsDone DEF Later
<1>7. CASE WriteEntry
  <2>1. img' = img /\ pc' \in {"entry", "error"}
    BY <1>7 DEF WriteEntry, Write
  <2> QED
    BY <2>1, RowsDone DEF Later
<1>8. CASE WriteNext
  <2>1. img' = img /\ pc' \in {"area", "error"}
    BY <1>8 DEF WriteNext, Write
  <2> QED
    BY <2>1, RowsDone DEF Later
<1>9. CASE WriteArea
  <2>1. img' = img /\ pc' \in {"done", "error"}
    BY <1>9 DEF WriteArea, Write
  <2> QED
    BY <2>1, RowsDone DEF Later
<1> QED
  BY <1>1, <1>2, <1>3, <1>4, <1>5, <1>6, <1>7, <1>8, <1>9 DEF EncoderNext

LEMMA RowsInvariant == Spec => []RowsInv
<1>1. Init => RowsInv
  BY RowsInitially
<1>2. RowsInv /\ [Next]_vars => RowsInv'
  <2> SUFFICES ASSUME RowsInv, [Next]_vars PROVE RowsInv'
    OBVIOUS
  <2>1. CASE EncoderNext
    BY <2>1, RowsSteps
  <2>2. CASE UNCHANGED encoderVars
    BY <2>2 DEF encoderVars, RowsInv, StrideFits
  <2> QED
    BY <2>1, <2>2 DEF Next, Save, ReadBack, vars
<1> QED
  BY <1>1, <1>2, PTL DEF Spec

\* What is left of Pix is shorter than a row only for the last row, and of an image cut from the
\* end of another and right of its first column.
LEMMA CutImage ==
    ASSUME NEW m \in Images, ByBytes(m), ~ Together(m), NEW r \in 1 .. m.dy,
           ~ (Stride(m) <= PixLen(m) - (r - 1) * Stride(m))
    PROVE  m.x0 > 0 /\ m.below = 0 /\ r = m.dy /\ m.dy * RowLen(m) = ImageLen(m)
<1> DEFINE t == m.type
           s == PixelSize(t)
           S == Stride(m)
           cut == m.x0 * s
           L == m.dx * s
           rest == m.right * s
           left == m.dy + m.below - r
           before == r - 1
<1>1. /\ m.dx \in Nat /\ m.dy \in Nat /\ m.x0 \in Nat /\ m.right \in Nat /\ m.below \in Nat
      /\ m.dx * m.dy = 0 => m.x0 = 0 /\ m.right = 0 /\ m.below = 0
  BY ImageIs
<1>2. s \in {1, 2, 4, 8}
  BY ImageIs
<1> HIDE DEF s
<1>3. /\ RowLen(m) = L /\ S = (m.x0 + m.dx + m.right) * s /\ ImageLen(m) = (m.dx * m.dy) * s
      /\ PixLen(m) = IF m.dx * m.dy = 0 THEN 0 ELSE S * (m.dy + m.below) - cut
  BY DEF RowLen, Stride, ImageLen, PixLen, s
<1>4. cut \in Nat /\ L \in Nat /\ rest \in Nat
  BY <1>1, <1>2
<1>5. S = cut + L + rest
  <2>1. (m.x0 + m.dx + m.right) * s = m.x0 * s + m.dx * s + m.right * s
    BY <1>1, <1>2
  <2> QED
    BY <1>3, <2>1
<1>6. L # S
  BY <1>3 DEF Together
<1>7. m.dx * m.dy # 0
  <2>1. SUFFICES ASSUME m.dx * m.dy = 0 PROVE FALSE
    OBVIOUS
  <2>2. m.x0 = 0 /\ m.right = 0
    BY <1>1, <2>1
  <2>3. cut = 0 /\ rest = 0
    BY <1>2, <2>2
  <2> HIDE DEF cut, rest, L, S
  <2> QED
    BY <1>4, <1>5, <1>6, <2>3
<1>8. PixLen(m) = S * (m.dy + m.below) - cut
  BY <1>3, <1>7
<1>9. left \in Nat /\ m.dy + m.below = left + before + 1 /\ before \in Nat
  BY <1>1
<1>10. S \in Nat
  <2> HIDE DEF cut, rest, L, S
  <2> QED
    BY <1>4, <1>5
<1>11. PixLen(m) - before * S = S * left + S - cut
  <2> HIDE DEF S, left, before, cut
  <2>1. S * (left + before + 1) = S * left + S * before + S /\ S * before = before * S
    BY <1>9, <1>10, SMT
  <2>2. S * left \in Nat /\ S * before \in Nat
    BY <1>9, <1>10, SMT
  <2> QED
    BY <1>4, <1>8, <1>9, <1>10, <2>1, <2>2
<1>12. S * left < cut
  <2> HIDE DEF left, cut
  <2>1. ~ (S <= PixLen(m) - before * S)
    OBVIOUS
  <2> HIDE DEF S, before
  <2>2. S * left \in Nat
    BY <1>9, <1>10, SMT
  <2> QED
    BY <1>4, <1>10, <1>11, <2>1, <2>2
<1>13. left = 0
  <2>1. SUFFICES ASSUME left # 0 PROVE FALSE
    OBVIOUS
  <2> HIDE DEF S, left, cut, L, rest
  <2>2. S * left >= S
    BY <1>9, <1>10, <2>1, SMT
  <2>3. S * left \in Nat
    BY <1>9, <1>10, SMT
  <2> QED
    BY <1>4, <1>5, <1>10, <1>12, <2>2, <2>3
<1>14. r = m.dy /\ m.below = 0
  BY <1>1, <1>13
<1>15. m.x0 # 0
  <2>1. SUFFICES ASSUME m.x0 = 0 PROVE FALSE
    OBVIOUS
  <2>2. cut = 0
    BY <1>2, <2>1
  <2>3. S * 0 = 0
    BY <1>10
  <2> HIDE DEF S, left, cut
  <2> QED
    BY <1>12, <1>13, <2>2, <2>3
<1>16. m.dy * L = (m.dx * m.dy) * s
  <2> DEFINE a == m.dx
             b == m.dy
  <2>1. a \in Nat /\ b \in Nat
    BY <1>1
  <2> HIDE DEF a, b
  <2>2. b * (a * s) = (a * b) * s
    BY <1>2, <2>1, SMT
  <2> QED
    BY <2>2 DEF a, b
<1> QED
  BY <1>1, <1>3, <1>14, <1>15, <1>16

\* Encode (encoder.go) panics where writePix leaves a row behind that ends with Pix, and only
\* then: on a sub-image that ends with its parent and starts right of it, once every pixel of
\* it is written.
THEOREM PanicOnlyOnCutImagesThm == Spec => []PanicOnlyOnCutImages
<1>1. RowsInv => PanicOnlyOnCutImages
  <2> SUFFICES ASSUME RowsInv, pc = "panic"
               PROVE  ByBytes(img) /\ img.x0 > 0 /\ img.below = 0 /\ y = img.dy /\ Len(out) = 8 + ImageLen(img)
    BY DEF PanicOnlyOnCutImages
  <2>1. /\ img \in Images /\ y \in 0 .. img.dy /\ Len(out) = 8 + y * RowLen(img) /\ ~ Together(img)
        /\ y > 0 /\ ByBytes(img) /\ ~ StrideFits
    BY DEF RowsInv
  <2>2. img.dy \in Nat
    BY <2>1, ImageIs
  <2>3. y \in 1 .. img.dy /\ ~ (Stride(img) <= PixLen(img) - (y - 1) * Stride(img))
    BY <2>1, <2>2 DEF StrideFits
  <2>4. img.x0 > 0 /\ img.below = 0 /\ y = img.dy /\ img.dy * RowLen(img) = ImageLen(img)
    BY <2>1, <2>3, CutImage
  <2> QED
    BY <2>1, <2>4
<1> QED
  BY <1>1, RowsInvariant, PTL

---------------------------------------------------------------------------
(* The entries of the directory that Encode writes.                        *)

\* The rows of the tags that Encode uses.
Numbered(row, k) ==
    /\ row[1] = "ImageWidth" <=> k = 3
    /\ row[1] = "ImageLength" <=> k = 4
    /\ row[1] = "BitsPerSample" <=> k = 5
    /\ row[1] = "Compression" <=> k = 6
    /\ row[1] = "PhotometricInterpretation" <=> k = 7
    /\ row[1] = "StripOffsets" <=> k = 16
    /\ row[1] = "SamplesPerPixel" <=> k = 18
    /\ row[1] = "RowsPerStrip" <=> k = 19
    /\ row[1] = "StripByteCounts" <=> k = 20
    /\ row[1] = "XResolution" <=> k = 23
    /\ row[1] = "YResolution" <=> k = 24
    /\ row[1] = "ResolutionUnit" <=> k = 35
    /\ row[1] = "ColorMap" <=> k = 45
    /\ row[1] = "ExtraSamples" <=> k = 57
    /\ row[1] = "TileWidth" <=> k = 47
    /\ row[1] = "TileLength" <=> k = 48
    /\ row[1] = "TileOffsets" <=> k = 49
    /\ row[1] = "TileByteCounts" <=> k = 50

LEMMA RowsNumbered == \A k \in 1 .. 85 : Numbered(Getters[k], k)
<1>1. \A k \in 1 .. 11 : Numbered(BaselineGetters[k], k)
  BY DEF BaselineGetters, Numbered
<1>2. \A k \in 1 .. 13 : Numbered(StripGetters[k], 11 + k)
  BY DEF StripGetters, Numbered
<1>3. \A k \in 1 .. 12 : Numbered(PageGetters[k], 24 + k)
  BY DEF PageGetters, Numbered
<1>4. \A k \in 1 .. 12 : Numbered(DocumentGetters[k], 36 + k)
  BY DEF DocumentGetters, Numbered
<1>5. \A k \in 1 .. 14 : Numbered(TileGetters[k], 48 + k)
  BY DEF TileGetters, Numbered
<1>6. \A k \in 1 .. 14 : Numbered(JPEGGetters[k], 62 + k)
  BY DEF JPEGGetters, Numbered
<1>7. \A k \in 1 .. 9 : Numbered(GeoGetters[k], 76 + k)
  BY DEF GeoGetters, Numbered
<1> SUFFICES ASSUME NEW k \in 1 .. 85 PROVE Numbered(Getters[k], k)
  OBVIOUS
<1>8. CASE k \in 1 .. 11
  BY <1>1, <1>8, Table
<1>9. CASE k \in 12 .. 24
  <2>1. k - 11 \in 1 .. 13 /\ 11 + (k - 11) = k
    BY <1>9
  <2>2. Numbered(StripGetters[k - 11], 11 + (k - 11)) /\ Getters[11 + (k - 11)] = StripGetters[k - 11]
    BY <1>2, <2>1, Table
  <2> QED
    BY <2>1, <2>2
<1>10. CASE k \in 25 .. 36
  <2>1. k - 24 \in 1 .. 12 /\ 24 + (k - 24) = k
    BY <1>10
  <2>2. Numbered(PageGetters[k - 24], 24 + (k - 24)) /\ Getters[24 + (k - 24)] = PageGetters[k - 24]
    BY <1>3, <2>1, Table
  <2> QED
    BY <2>1, <2>2
<1>11. CASE k \in 37 .. 48
  <2>1. k - 36 \in 1 .. 12 /\ 36 + (k - 36) = k
    BY <1>11
  <2>2. Numbered(DocumentGetters[k - 36], 36 + (k - 36)) /\ Getters[36 + (k - 36)] = DocumentGetters[k - 36]
    BY <1>4, <2>1, Table
  <2> QED
    BY <2>1, <2>2
<1>12. CASE k \in 49 .. 62
  <2>1. k - 48 \in 1 .. 14 /\ 48 + (k - 48) = k
    BY <1>12
  <2>2. Numbered(TileGetters[k - 48], 48 + (k - 48)) /\ Getters[48 + (k - 48)] = TileGetters[k - 48]
    BY <1>5, <2>1, Table
  <2> QED
    BY <2>1, <2>2
<1>13. CASE k \in 63 .. 76
  <2>1. k - 62 \in 1 .. 14 /\ 62 + (k - 62) = k
    BY <1>13
  <2>2. Numbered(JPEGGetters[k - 62], 62 + (k - 62)) /\ Getters[62 + (k - 62)] = JPEGGetters[k - 62]
    BY <1>6, <2>1, Table
  <2> QED
    BY <2>1, <2>2
<1>14. CASE k \in 77 .. 85
  <2>1. k - 76 \in 1 .. 9 /\ 76 + (k - 76) = k
    BY <1>14
  <2>2. Numbered(GeoGetters[k - 76], 76 + (k - 76)) /\ Getters[76 + (k - 76)] = GeoGetters[k - 76]
    BY <1>7, <2>1, Table
  <2> QED
    BY <2>1, <2>2
<1> QED
  BY <1>8, <1>9, <1>10, <1>11, <1>12, <1>13, <1>14

\* The one row that such a tag has.
OnlyRow(tag, k) == k \in 1 .. 85 /\ \A i \in 1 .. 85 : Getters[i][1] = tag <=> i = k

HasRow(tag, k) == tag \in Tags /\ Row(tag) = k

LEMMA TagAt ==
    ASSUME NEW tag, NEW k, OnlyRow(tag, k)
    PROVE  HasRow(tag, k)
<1>1. tag \in Tags
  BY Table DEF Tags, OnlyRow
<1>2. Row(tag) \in 1 .. 85 /\ Getters[Row(tag)][1] = tag
  BY <1>1, RowIs
<1> QED
  BY <1>1, <1>2 DEF HasRow, OnlyRow

LEMMA RowNumbers ==
    /\ HasRow("ImageWidth", 3) /\ HasRow("ImageLength", 4) /\ HasRow("BitsPerSample", 5)
    /\ HasRow("Compression", 6) /\ HasRow("PhotometricInterpretation", 7) /\ HasRow("StripOffsets", 16)
    /\ HasRow("SamplesPerPixel", 18) /\ HasRow("RowsPerStrip", 19) /\ HasRow("StripByteCounts", 20)
    /\ HasRow("XResolution", 23) /\ HasRow("YResolution", 24) /\ HasRow("ResolutionUnit", 35)
    /\ HasRow("ColorMap", 45) /\ HasRow("ExtraSamples", 57)
<1>1. \A i \in 1 .. 85 : Numbered(Getters[i], i)
  BY RowsNumbered
<1>2. /\ OnlyRow("ImageWidth", 3)
      /\ OnlyRow("ImageLength", 4)
      /\ OnlyRow("BitsPerSample", 5)
      /\ OnlyRow("Compression", 6)
      /\ OnlyRow("PhotometricInterpretation", 7)
  BY <1>1 DEF Numbered, OnlyRow
<1>3. /\ OnlyRow("StripOffsets", 16)
      /\ OnlyRow("SamplesPerPixel", 18)
      /\ OnlyRow("RowsPerStrip", 19)
      /\ OnlyRow("StripByteCounts", 20)
      /\ OnlyRow("XResolution", 23)
  BY <1>1 DEF Numbered, OnlyRow
<1>4. /\ OnlyRow("YResolution", 24)
      /\ OnlyRow("ResolutionUnit", 35)
      /\ OnlyRow("ColorMap", 45)
      /\ OnlyRow("ExtraSamples", 57)
  BY <1>1 DEF Numbered, OnlyRow
<1> QED
  BY <1>2, <1>3, <1>4, TagAt

\* How many entries an image has, and the row, the bytes of the value and the place of each:
\* values of more than four bytes lie outside the directory, one behind another.
Count(m) == IF m.type \in {"Gray", "Gray16"} THEN 12 ELSE 13

RowNo(m, i) == IF i = 13 THEN IF m.type = "Paletted" THEN 45 ELSE 57
               ELSE <<3, 4, 5, 6, 7, 16, 18, 19, 20, 23, 24, 35>>[i]

Far(m, i) == i \in {10, 11} \/ (i = 3 /\ Alpha(m) > 0) \/ (i = 13 /\ m.type = "Paletted")

DataSize(m, i) ==
    IF i \in {10, 11} \/ (i = 3 /\ Alpha(m) > 0) THEN 8
    ELSE IF i = 13 /\ m.type = "Paletted" THEN 6 * PaletteSize
    ELSE IF i \in {6, 9} THEN 4 ELSE 2

Before(m, i) ==
    (IF i > 3 /\ Alpha(m) > 0 THEN 8 ELSE 0) + (IF i > 10 THEN 8 ELSE 0) + (IF i > 11 THEN 8 ELSE 0)
    + (IF i > 13 /\ m.type = "Paletted" THEN 6 * PaletteSize ELSE 0)

LEMMA PlacesAre ==
    ASSUME NEW m \in Images, NEW i \in 1 .. Count(m)
    PROVE  /\ Before(m, i) \in Nat /\ DataSize(m, i) \in Nat \ {0}
           /\ Far(m, i) <=> DataSize(m, i) > 4
           /\ Before(m, i + 1) = Before(m, i) + (IF Far(m, i) THEN DataSize(m, i) ELSE 0)
           /\ RowNo(m, i) \in 1 .. 85
           /\ \A j \in 1 .. Count(m) : i < j => RowNo(m, i) < RowNo(m, j)
<1> DEFINE size == 6 * PaletteSize
           n == Count(m)
           p == m.type = "Paletted"
           a == Alpha(m) > 0
<1>1. size \in Nat /\ size > 4
  BY PaletteAssumption
<1>2. n \in {12, 13} /\ i \in Int /\ i >= 1 /\ i <= n
  BY DEF Count
<1>3. p => ~ a
  BY DEF Alpha
<1> HIDE DEF size, n, p, a
<1>4. /\ Before(m, i) = (IF i > 3 /\ a THEN 8 ELSE 0) + (IF i > 10 THEN 8 ELSE 0) + (IF i > 11 THEN 8 ELSE 0)
                        + (IF i > 13 /\ p THEN size ELSE 0)
      /\ Before(m, i + 1) = (IF i + 1 > 3 /\ a THEN 8 ELSE 0) + (IF i + 1 > 10 THEN 8 ELSE 0)
                            + (IF i + 1 > 11 THEN 8 ELSE 0) + (IF i + 1 > 13 /\ p THEN size ELSE 0)
  BY DEF Before, size, p, a
<1>5. /\ Far(m, i) <=> i \in {10, 11} \/ (i = 3 /\ a) \/ (i = 13 /\ p)
      /\ DataSize(m, i) = IF i \in {10, 11} \/ (i = 3 /\ a) THEN 8
                          ELSE IF i = 13 /\ p THEN size ELSE IF i \in {6, 9} THEN 4 ELSE 2
  BY DEF Far, DataSize, size, p, a
<1>6. Before(m, i) \in Nat /\ DataSize(m, i) \in Nat \ {0} /\ (Far(m, i) <=> DataSize(m, i) > 4)
  BY <1>1, <1>2, <1>4, <1>5
<1>7. Before(m, i + 1) = Before(m, i) + (IF Far(m, i) THEN DataSize(m, i) ELSE 0)
  <2>1. CASE i < 3
    BY <1>1, <1>2, <1>4, <1>5, <2>1
  <2>2. CASE i = 3
    BY <1>1, <1>2, <1>4, <1>5, <2>2
  <2>3. CASE i \in 4 .. 9
    BY <1>1, <1>2, <1>4, <1>5, <2>3
  <2>4. CASE i = 10
    BY <1>1, <1>2, <1>4, <1>5, <2>4
  <2>5. CASE i = 11
    BY <1>1, <1>2, <1>4, <1>5, <2>5
  <2>6. CASE i = 12
    BY <1>1, <1>2, <1>4, <1>5, <2>6
  <2>7. CASE i = 13
    BY <1>1, <1>2, <1>4, <1>5, <2>7
  <2> QED
    BY <1>2, <2>1, <2>2, <2>3, <2>4, <2>5, <2>6, <2>7
<1>8. \A k \in 1 .. 13 : /\ RowNo(m, k) \in 1 .. 85
                         /\ k < 13 => RowNo(m, k) < 45
  BY DEF RowNo
<1>9. \A k, j \in 1 .. 12 : k < j => RowNo(m, k) < RowNo(m, j)
  BY DEF RowNo
<1>10. RowNo(m, 13) >= 45
  BY DEF RowNo
<1>11. ASSUME NEW j \in 1 .. n, i < j PROVE RowNo(m, i) < RowNo(m, j)
  <2>1. i \in 1 .. 12 /\ j \in 1 .. 13 /\ i \in 1 .. 13
    BY <1>2, <1>11
  <2>2. CASE j = 13
    BY <1>8, <1>10, <2>1, <2>2
  <2>3. CASE j # 13
    <3>1. j \in 1 .. 12
      BY <2>1, <2>3
    <3> QED
      BY <1>9, <1>11, <2>1, <3>1
  <2> QED
    BY <2>2, <2>3
<1> QED
  BY <1>2, <1>6, <1>7, <1>8, <1>11 DEF n

Wide(t) == IF t = "Short" THEN 2 ELSE 4

EntryFits(e, m, i) ==
    /\ HasRow(e.tag, RowNo(m, i))
    /\ e.type \in {"Short", "Long", "Rational"} /\ e.values \in Seq(Nat)
    /\ Len(e.values) * Wide(e.type) = DataSize(m, i)
    /\ FieldCount(e) \in Nat /\ FieldCount(e) * ByteSize(e.type) = DataSize(m, i)

LEMMA BitsAre ==
    ASSUME NEW m \in Images
    PROVE  /\ Bits(m) \in Seq(Nat) /\ Len(Bits(m)) = IF Alpha(m) > 0 THEN 4 ELSE 1
           /\ Bits(m) \in Seq({8, 16}) /\ Alpha(m) \in {0, 1, 2} /\ Photometric(m) \in {1, 2, 3}
           /\ \A i \in 1 .. Len(Bits(m)) : Bits(m)[i] = IF m.type \in Deep THEN 16 ELSE 8
<1> DEFINE depth == IF m.type \in Deep THEN 16 ELSE 8
<1>1. Alpha(m) \in {0, 1, 2} /\ Photometric(m) \in {1, 2, 3} /\ depth \in {8, 16} /\ depth \in Nat
  BY DEF Alpha, Photometric
<1>2. Bits(m) = IF Alpha(m) = 0 THEN <<depth>> ELSE <<depth, depth, depth, depth>>
  BY DEF Bits
<1> HIDE DEF depth
<1>3. CASE Alpha(m) = 0
  BY <1>1, <1>2, <1>3 DEF depth
<1>4. CASE Alpha(m) # 0
  <2> DEFINE b == Bits(m)
  <2>1. b = <<depth, depth, depth, depth>> /\ Alpha(m) > 0
    BY <1>1, <1>2, <1>4
  <2> HIDE DEF b
  <2>2. b \in Seq(Nat) /\ b \in Seq({8, 16}) /\ Len(b) = 4
    BY <1>1, <2>1
  <2>3. \A i \in 1 .. Len(b) : b[i] = depth
    BY <2>1, <2>2
  <2> QED
    BY <1>1, <2>1, <2>2, <2>3 DEF b, depth
<1> QED
  BY <1>3, <1>4

LEMMA ColorMapIs ==
    /\ ColorMap \in Seq(Nat) /\ Len(ColorMap) = 3 * PaletteSize
    /\ \A k \in 1 .. 3 * PaletteSize : ColorMap[k] < Power[2]
    /\ \A i \in 1 .. Len(Palette) : \A c \in 1 .. 3 : ColorMap[(c - 1) * PaletteSize + i] = Palette[i][c]
<1> DEFINE n == PaletteSize
           q == Power[2]
           level(k) == IF 1 + ((k - 1) % n) <= Len(Palette)
                       THEN Palette[1 + ((k - 1) % n)][1 + ((k - 1) \div n)] ELSE 0
           u == ColorMap
<1>1. n \in Nat \ {0} /\ Palette \in Seq([1 .. 3 -> 0 .. q - 1]) /\ Len(Palette) <= n /\ Len(Palette) \in Nat
  BY PaletteAssumption
<1>2. q \in Nat \ {0}
  <2>1. 2 \in Widths
    BY DEF Widths
  <2> QED
    BY <2>1, Powers
<1>3. u = [k \in 1 .. 3 * n |-> level(k)]
  BY DEF ColorMap
<1> HIDE DEF n, q, u
<1>4. ASSUME NEW k \in 1 .. 3 * n
      PROVE  (k - 1) % n \in 0 .. n - 1 /\ (k - 1) \div n \in 0 .. 2
  <2> DEFINE v == k - 1
             d == v \div n
             r == v % n
             p == n * d
  <2>1. v \in Int /\ 0 <= v /\ v < 3 * n
    BY <1>1
  <2> HIDE DEF v
  <2>2. d \in Int /\ r \in 0 .. n - 1 /\ v = p + r
    BY <1>1, <2>1, Divided
  <2> HIDE DEF d, r
  <2>3. p \in Int
    BY <1>1, <2>2
  <2>4. ASSUME d < 0 PROVE FALSE
    <3>1. p <= 0 - n
      <4>1. d <= 0 - 1 /\ n * (0 - 1) = 0 - n
        BY <1>1, <2>2, <2>4
      <4>2. n * d <= n * (0 - 1)
        BY <1>1, <2>2, <4>1, SMT
      <4> QED
        BY <4>1, <4>2
    <3> HIDE DEF p
    <3> QED
      BY <1>1, <2>1, <2>2, <2>3, <3>1
  <2>5. ASSUME d > 2 PROVE FALSE
    <3>1. p >= 3 * n
      <4>1. n * d >= n * 3 /\ n * 3 = 3 * n
        BY <1>1, <2>2, <2>5, SMT
      <4> QED
        BY <4>1
    <3> HIDE DEF p
    <3> QED
      BY <1>1, <2>1, <2>2, <2>3, <3>1
  <2> QED
    BY <2>2, <2>4, <2>5 DEF d, r, v
<1>5. ASSUME NEW k \in 1 .. 3 * n PROVE level(k) \in 0 .. q - 1
  <2> DEFINE i == 1 + ((k - 1) % n)
             c == 1 + ((k - 1) \div n)
  <2>1. i \in 1 .. n /\ c \in 1 .. 3
    BY <1>1, <1>4
  <2>2. level(k) = IF i <= Len(Palette) THEN Palette[i][c] ELSE 0
    OBVIOUS
  <2> HIDE DEF i, c, level
  <2>3. CASE i <= Len(Palette)
    <3>1. i \in 1 .. Len(Palette)
      BY <1>1, <2>1, <2>3
    <3>2. Palette[i] \in [1 .. 3 -> 0 .. q - 1]
      BY <1>1, <3>1
    <3>3. Palette[i][c] \in 0 .. q - 1
      BY <2>1, <3>2
    <3> QED
      BY <2>2, <2>3, <3>3
  <2>4. CASE ~ (i <= Len(Palette))
    BY <1>2, <2>2, <2>4
  <2> QED
    BY <2>3, <2>4
<1>6. u \in [1 .. 3 * n -> 0 .. q - 1] /\ 3 * n \in Nat
  BY <1>1, <1>3, <1>5
<1>7. u \in [1 .. 3 * n -> Nat] /\ \A k \in 1 .. 3 * n : u[k] < q
  BY <1>2, <1>6
<1>8. u \in Seq(Nat) /\ Len(u) = 3 * n
  BY <1>6, <1>7
<1>9. ASSUME NEW i \in 1 .. Len(Palette), NEW c \in 1 .. 3 PROVE u[(c - 1) * n + i] = Palette[i][c]
  <2> DEFINE k == (c - 1) * n + i
             r == i - 1
             d == c - 1
  <2>1. d \in 0 .. 2 /\ r \in 0 .. n - 1 /\ i = 1 + r /\ c = 1 + d /\ k = d * n + i
    BY <1>1
  <2> HIDE DEF k, r, d
  <2>2. d * n \in Nat /\ d * n <= 2 * n /\ d * n = n * d
    BY <1>1, <2>1, SMT
  <2>3. k \in 1 .. 3 * n /\ k - 1 = n * d + r /\ k - 1 \in Int
    BY <1>1, <2>1, <2>2
  <2> DEFINE v == k - 1
  <2>4. v \div n = d /\ v % n = r
    <3>1. v \in Int /\ v = n * d + r /\ d \in Int /\ r \in 0 .. n - 1
      BY <2>1, <2>3
    <3> HIDE DEF v
    <3> QED
      BY <1>1, <3>1, OnlyQuotient
  <2>5. u[k] = Palette[1 + r][1 + d]
    <3>1. u[k] = level(k)
      BY <1>3, <2>3
    <3>2. 1 + r <= Len(Palette)
      BY <2>1
    <3>3. level(k) = Palette[1 + r][1 + d]
      BY <2>4, <3>2
    <3> QED
      BY <3>1, <3>3
  <2> QED
    BY <2>1, <2>5 DEF k
<1> QED
  BY <1>7, <1>8, <1>9 DEF n, q, u

LEMMA CommonFits ==
    ASSUME NEW m \in Images
    PROVE  /\ CommonEntries(m) \in Seq({CommonEntries(m)[i] : i \in 1 .. 12}) /\ Len(CommonEntries(m)) = 12
           /\ \A i \in 1 .. 12 : EntryFits(CommonEntries(m)[i], m, i)
<1> DEFINE c == CommonEntries(m)
           b == Bits(m)
           l == ImageLen(m)
           p == Photometric(m)
<1>1. m.dx \in Nat /\ m.dy \in Nat /\ l \in Nat
  BY ImageIs
<1>2. p \in Nat /\ b \in Seq(Nat) /\ Len(b) = IF Alpha(m) > 0 THEN 4 ELSE 1
  BY BitsAre
<1>3. c = << Field("ImageWidth", "Short", <<m.dx>>), Field("ImageLength", "Short", <<m.dy>>),
             Field("BitsPerSample", "Short", b), Field("Compression", "Short", <<1>>),
             Field("PhotometricInterpretation", "Short", <<p>>), Field("StripOffsets", "Long", <<8>>),
             Field("SamplesPerPixel", "Short", <<Len(b)>>), Field("RowsPerStrip", "Short", <<m.dy>>),
             Field("StripByteCounts", "Long", <<l>>), Field("XResolution", "Rational", <<72, 1>>),
             Field("YResolution", "Rational", <<72, 1>>), Field("ResolutionUnit", "Short", <<2>>) >>
  BY DEF CommonEntries
<1> HIDE DEF c, b, l, p
<1>4. c \in Seq({c[i] : i \in 1 .. 12}) /\ Len(c) = 12
  BY <1>3
<1>5. EntryFits(Field("ImageWidth", "Short", <<m.dx>>), m, 1)
  BY <1>1, <1>2, RowNumbers DEF EntryFits, Field, FieldCount, Wide, ByteSize, RowNo, DataSize
<1>6. EntryFits(Field("ImageLength", "Short", <<m.dy>>), m, 2)
  BY <1>1, <1>2, RowNumbers DEF EntryFits, Field, FieldCount, Wide, ByteSize, RowNo, DataSize
<1>7. EntryFits(Field("BitsPerSample", "Short", b), m, 3)
  <2> DEFINE e == Field("BitsPerSample", "Short", b)
  <2>1. e.tag = "BitsPerSample" /\ e.type = "Short" /\ e.values = b
    BY DEF Field
  <2> HIDE DEF e
  <2>2. FieldCount(e) = Len(b) /\ Wide(e.type) = 2 /\ ByteSize(e.type) = 2
    BY <2>1 DEF FieldCount, Wide, ByteSize
  <2>3. DataSize(m, 3) = IF Alpha(m) > 0 THEN 8 ELSE 2
    BY DEF DataSize
  <2>4. HasRow("BitsPerSample", RowNo(m, 3))
    BY RowNumbers DEF RowNo
  <2>5. Len(b) * 2 = DataSize(m, 3) /\ Len(b) \in Nat
    <3>1. CASE Alpha(m) > 0
      BY <1>2, <2>3, <3>1
    <3>2. CASE ~ (Alpha(m) > 0)
      BY <1>2, <2>3, <3>2
    <3> QED
      BY <3>1, <3>2
  <2> DEFINE n == Len(b)
             size == DataSize(m, 3)
  <2> HIDE DEF n, size
  <2>6. /\ HasRow(e.tag, RowNo(m, 3)) /\ e.type = "Short" /\ e.values \in Seq(Nat)
        /\ Len(e.values) = n /\ n * 2 = size /\ n \in Nat
    BY <1>2, <2>1, <2>4, <2>5 DEF n, size
  <2>7. EntryFits(e, m, 3)
    BY <2>2, <2>6 DEF EntryFits, n, size
  <2> QED
    BY <2>7 DEF e
<1>8. EntryFits(Field("Compression", "Short", <<1>>), m, 4)
  BY <1>1, <1>2, RowNumbers DEF EntryFits, Field, FieldCount, Wide, ByteSize, RowNo, DataSize
<1>9. EntryFits(Field("PhotometricInterpretation", "Short", <<p>>), m, 5)
  BY <1>1, <1>2, RowNumbers DEF EntryFits, Field, FieldCount, Wide, ByteSize, RowNo, DataSize
<1>10. EntryFits(Field("StripOffsets", "Long", <<8>>), m, 6)
  BY <1>1, <1>2, RowNumbers DEF EntryFits, Field, FieldCount, Wide, ByteSize, RowNo, DataSize
<1>11. EntryFits(Field("SamplesPerPixel", "Short", <<Len(b)>>), m, 7)
  BY <1>1, <1>2, RowNumbers DEF EntryFits, Field, FieldCount, Wide, ByteSize, RowNo, DataSize
<1>12. EntryFits(Field("RowsPerStrip", "Short", <<m.dy>>), m, 8)
  BY <1>1, <1>2, RowNumbers DEF EntryFits, Field, FieldCount, Wide, ByteSize, RowNo, DataSize
<1>13. EntryFits(Field("StripByteCounts", "Long", <<l>>), m, 9)
  BY <1>1, <1>2, RowNumbers DEF EntryFits, Field, FieldCount, Wide, ByteSize, RowNo, DataSize
<1>14. EntryFits(Field("XResolution", "Rational", <<72, 1>>), m, 10)
  BY <1>1, <1>2, RowNumbers DEF EntryFits, Field, FieldCount, Wide, ByteSize, RowNo, DataSize
<1>15. EntryFits(Field("YResolution", "Rational", <<72, 1>>), m, 11)
  BY <1>1, <1>2, RowNumbers DEF EntryFits, Field, FieldCount, Wide, ByteSize, RowNo, DataSize
<1>16. EntryFits(Field("ResolutionUnit", "Short", <<2>>), m, 12)
  BY <1>1, <1>2, RowNumbers DEF EntryFits, Field, FieldCount, Wide, ByteSize, RowNo, DataSize
<1>17. \A i \in 1 .. 12 : EntryFits(c[i], m, i)
  BY <1>3, <1>5, <1>6, <1>7, <1>8, <1>9, <1>10, <1>11, <1>12, <1>13, <1>14, <1>15, <1>16
<1> QED
  BY <1>4, <1>17 DEF c

LEMMA Decided ==
    ASSUME NEW m \in Images
    PROVE  \/ m.type \in {"Gray", "Gray16"} /\ m.type # "Paletted" /\ Alpha(m) = 0
           \/ m.type \notin {"Gray", "Gray16"} /\ m.type = "Paletted" /\ Alpha(m) = 0
           \/ m.type \notin {"Gray", "Gray16"} /\ m.type # "Paletted" /\ Alpha(m) > 0
  BY ImagesAssumption DEF GoTypes, Alpha

LEMMA LastFits ==
    ASSUME NEW m \in Images
    PROVE  /\ m.type = "Paletted" => EntryFits(Field("ColorMap", "Short", ColorMap), m, 13)
           /\ Alpha(m) > 0 => EntryFits(Field("ExtraSamples", "Short", <<Alpha(m)>>), m, 13)
<1> DEFINE e == Field("ColorMap", "Short", ColorMap)
           a == Alpha(m)
           g == Field("ExtraSamples", "Short", <<a>>)
<1>1. ASSUME m.type = "Paletted" PROVE EntryFits(e, m, 13)
  <2> DEFINE n == Len(ColorMap)
             size == DataSize(m, 13)
  <2>1. e.tag = "ColorMap" /\ e.type = "Short" /\ e.values = ColorMap
    BY DEF Field
  <2> HIDE DEF e
  <2>2. FieldCount(e) = n /\ Wide(e.type) = 2 /\ ByteSize(e.type) = 2
    BY <2>1 DEF FieldCount, Wide, ByteSize
  <2>3. size = 6 * PaletteSize
    BY <1>1, Decided DEF DataSize, Alpha
  <2>4. HasRow("ColorMap", RowNo(m, 13))
    BY <1>1, RowNumbers DEF RowNo
  <2>5. ColorMap \in Seq(Nat) /\ n = 3 * PaletteSize /\ PaletteSize \in Nat
    BY ColorMapIs, PaletteAssumption
  <2>6. n * 2 = size /\ n \in Nat
    BY <2>3, <2>5
  <2> HIDE DEF size
  <2> QED
    BY <2>1, <2>2, <2>4, <2>5, <2>6 DEF EntryFits, size
<1>2. ASSUME a > 0 PROVE EntryFits(g, m, 13)
  <2>1. m.type # "Paletted" /\ a \in Nat
    BY <1>2, BitsAre, Decided
  <2> HIDE DEF a
  <2>2. g.tag = "ExtraSamples" /\ g.type = "Short" /\ g.values = <<a>>
    BY DEF Field
  <2> HIDE DEF g
  <2>3. FieldCount(g) = 1 /\ Wide(g.type) = 2 /\ ByteSize(g.type) = 2 /\ g.values \in Seq(Nat) /\ Len(g.values) = 1
    BY <2>1, <2>2 DEF FieldCount, Wide, ByteSize
  <2>4. DataSize(m, 13) = 2
    BY <2>1 DEF DataSize
  <2>5. HasRow("ExtraSamples", RowNo(m, 13))
    BY <2>1, RowNumbers DEF RowNo
  <2> QED
    BY <2>2, <2>3, <2>4, <2>5 DEF EntryFits
<1> QED
  BY <1>1, <1>2

Fitting(es, m) ==
    /\ DOMAIN es = 1 .. Count(m) /\ Len(es) = Count(m) /\ es = [k \in 1 .. Count(m) |-> es[k]]
    /\ \A i \in 1 .. Count(m) : EntryFits(es[i], m, i)
    /\ \A i \in 1 .. 12 : es[i] = CommonEntries(m)[i]
    /\ m.type = "Paletted" => es[13] = Field("ColorMap", "Short", ColorMap)
    /\ Alpha(m) > 0 => es[13] = Field("ExtraSamples", "Short", <<Alpha(m)>>)

LEMMA EntriesAre == ASSUME NEW m \in Images PROVE Fitting(Entries(m), m)
<1> DEFINE c == CommonEntries(m)
           es == Entries(m)
           e == Field("ColorMap", "Short", ColorMap)
           g == Field("ExtraSamples", "Short", <<Alpha(m)>>)
           S == {c[i] : i \in 1 .. 12} \cup {e, g}
<1>1. c \in Seq(S) /\ Len(c) = 12 /\ \A i \in 1 .. 12 : EntryFits(c[i], m, i)
  <2> DEFINE T == {c[i] : i \in 1 .. 12}
  <2>1. c \in Seq(T) /\ Len(c) = 12 /\ \A i \in 1 .. 12 : EntryFits(c[i], m, i)
    BY CommonFits
  <2>2. T \subseteq S
    OBVIOUS
  <2> HIDE DEF T, S, c
  <2>3. c \in Seq(S)
    BY <2>1, <2>2, SeqWider
  <2> QED
    BY <2>1, <2>3
<1>2. /\ m.type = "Paletted" => EntryFits(e, m, 13)
      /\ Alpha(m) > 0 => EntryFits(g, m, 13)
  BY LastFits
<1>3. es = (c \o (IF m.type = "Paletted" THEN <<e>> ELSE <<>>)) \o (IF Alpha(m) > 0 THEN <<g>> ELSE <<>>)
  BY DEF Entries
<1>4. e \in S /\ g \in S
  OBVIOUS
<1> HIDE DEF c, es, e, g, S
<1>5. CASE m.type \in {"Gray", "Gray16"} /\ m.type # "Paletted" /\ Alpha(m) = 0
  <2>1. es = (c \o <<>>) \o <<>>
    BY <1>3, <1>5
  <2>2. es = c
    BY <1>1, <2>1
  <2>3. Count(m) = 12 /\ DOMAIN es = 1 .. 12 /\ es = [k \in 1 .. 12 |-> es[k]]
    BY <1>1, <1>5, <2>2 DEF Count
  <2>4. ~ Alpha(m) > 0
    BY <1>5
  <2> QED
    BY <1>1, <1>5, <2>2, <2>3, <2>4 DEF Fitting, es, c
<1>6. ASSUME NEW l \in S, es = c \o <<l>>, Count(m) = 13, EntryFits(l, m, 13)
      PROVE  /\ DOMAIN es = 1 .. Count(m) /\ Len(es) = Count(m) /\ es = [k \in 1 .. Count(m) |-> es[k]]
             /\ \A i \in 1 .. Count(m) : EntryFits(es[i], m, i)
             /\ \A i \in 1 .. 12 : es[i] = c[i]
             /\ es[13] = l
  <2> DEFINE t == <<l>>
  <2>1. t \in Seq(S) /\ Len(t) = 1 /\ t[1] = l
    OBVIOUS
  <2> HIDE DEF t
  <2>2. es = c \o t
    BY <1>6 DEF t
  <2>3. es \in Seq(S) /\ Then(es, c, t)
    BY <1>1, <2>1, <2>2, ThenIs
  <2>4. Len(es) = 13 /\ \A i \in 1 .. 12 : es[i] = c[i]
    BY <1>1, <2>1, <2>3 DEF Then
  <2>5. es[13] = l
    <3>1. es[Len(c) + 1] = t[1]
      BY <2>1, <2>3 DEF Then
    <3>2. Len(c) + 1 = 13
      BY <1>1
    <3> QED
      BY <2>1, <3>1, <3>2
  <2>6. DOMAIN es = 1 .. 13 /\ es = [k \in 1 .. 13 |-> es[k]]
    BY <2>3, <2>4
  <2>7. ASSUME NEW i \in 1 .. 13 PROVE EntryFits(es[i], m, i)
    <3>1. CASE i = 13
      BY <1>6, <2>5, <3>1
    <3>2. CASE i # 13
      <4>1. i \in 1 .. 12
        BY <3>2
      <4> QED
        BY <1>1, <2>4, <4>1
    <3> QED
      BY <3>1, <3>2
  <2> QED
    BY <1>6, <2>4, <2>5, <2>6, <2>7
<1>7. CASE m.type \notin {"Gray", "Gray16"} /\ m.type = "Paletted" /\ Alpha(m) = 0
  <2>1. es = (c \o <<e>>) \o <<>>
    BY <1>3, <1>7
  <2>2. c \o <<e>> \in Seq(S)
    BY <1>1, <1>4
  <2>3. es = c \o <<e>>
    BY <2>1, <2>2
  <2>4. Count(m) = 13 /\ EntryFits(e, m, 13)
    BY <1>2, <1>7 DEF Count
  <2>5. ~ Alpha(m) > 0
    BY <1>7
  <2> QED
    BY <1>4, <1>6, <1>7, <2>3, <2>4, <2>5 DEF Fitting, es, c, e
<1>8. CASE m.type \notin {"Gray", "Gray16"} /\ m.type # "Paletted" /\ Alpha(m) > 0
  <2>1. es = (c \o <<>>) \o <<g>>
    BY <1>3, <1>8
  <2>2. es = c \o <<g>>
    BY <1>1, <2>1
  <2>3. Count(m) = 13 /\ EntryFits(g, m, 13)
    BY <1>2, <1>8 DEF Count
  <2> QED
    BY <1>4, <1>6, <1>8, <2>2, <2>3 DEF Fitting, es, c, g
<1> QED
  BY <1>5, <1>7, <1>8, Decided DEF es

\* The entries come in the order of their tags.
LEMMA SortedIs ==
    ASSUME NEW m \in Images
    PROVE  Sorted[m] = Entries(m)
<1> DEFINE es == Entries(m)
           n == Count(m)
           row == [i \in DOMAIN es |-> Row(es[i].tag)]
           upTo(i) == {j \in DOMAIN es : row[j] <= row[i]}
<1>1. DOMAIN es = 1 .. n /\ Len(es) = n /\ n \in Nat
  BY EntriesAre DEF Fitting, Count
<1>2. ASSUME NEW i \in 1 .. n PROVE row[i] = RowNo(m, i) /\ row[i] \in 1 .. 85
  <2>1. EntryFits(es[i], m, i)
    BY EntriesAre DEF Fitting
  <2>2. row[i] = RowNo(m, i)
    BY <1>1, <2>1 DEF EntryFits, HasRow
  <2> QED
    BY <2>2, PlacesAre
<1>3. Sorted[m] = [k \in DOMAIN es |-> es[CHOOSE i \in DOMAIN es : Cardinality(upTo(i)) = k]]
  BY Zenon DEF Sorted
<1>4. \A i, j \in 1 .. n : i < j => row[i] < row[j]
  <2> SUFFICES ASSUME NEW i \in 1 .. n, NEW j \in 1 .. n, i < j PROVE row[i] < row[j]
    OBVIOUS
  <2>1. RowNo(m, i) < RowNo(m, j)
    BY PlacesAre
  <2> QED
    BY <1>2, <2>1
<1> HIDE DEF es, n, row
<1>5. ASSUME NEW i \in 1 .. n PROVE Cardinality(upTo(i)) = i
  <2>1. \A j \in 1 .. n : row[j] <= row[i] <=> j <= i
    <3> SUFFICES ASSUME NEW j \in 1 .. n PROVE row[j] <= row[i] <=> j <= i
      OBVIOUS
    <3>1. row[i] \in Int /\ row[j] \in Int /\ i \in Int /\ j \in Int
      BY <1>2
    <3>2. i < j => row[i] < row[j]
      BY <1>4
    <3>3. j < i => row[j] < row[i]
      BY <1>4
    <3> QED
      BY <3>1, <3>2, <3>3
  <2>2. upTo(i) = 1 .. i
    BY <1>1, <2>1
  <2>3. i \in Int /\ i >= 1
    BY <1>1
  <2> DEFINE one == 1
  <2>4. one \in Int /\ i - one + 1 = i /\ ~ (one > i)
    BY <2>3
  <2> HIDE DEF one
  <2>5. Cardinality(one .. i) = IF one > i THEN 0 ELSE i - one + 1
    BY <2>3, <2>4, FS_Interval
  <2> HIDE DEF upTo
  <2> QED
    BY <2>2, <2>4, <2>5 DEF one
<1> HIDE DEF upTo
<1>6. ASSUME NEW k \in DOMAIN es PROVE (CHOOSE i \in DOMAIN es : Cardinality(upTo(i)) = k) = k
  BY <1>1, <1>5
<1> DEFINE pick(k) == CHOOSE i \in DOMAIN es : Cardinality(upTo(i)) = k
<1>7. Sorted[m] = [k \in DOMAIN es |-> es[pick(k)]]
  BY Zenon, <1>3
<1>8. \A k \in DOMAIN es : es[pick(k)] = es[k]
  BY <1>6
<1>9. es = [k \in DOMAIN es |-> es[k]]
  BY <1>1, EntriesAre DEF Fitting, es, n
<1> HIDE DEF pick
<1> QED
  BY <1>7, <1>8, <1>9 DEF es

\* What a step makes of the value before, from 0 to n.
Chained(g, V, n, b, op) == g \in [0 .. n -> V] /\ g[0] = b /\ \A i \in 1 .. n : g[i] = op[<<i, g[i - 1]>>]

LEMMA Chain ==
    ASSUME NEW V, NEW n \in Nat, NEW b \in V, NEW op \in [(1 .. n) \X V -> V]
    PROVE  \E g : Chained(g, V, n, b, op)
<1> DEFINE D == 0 .. n
           Stop == {0}
           B == [x \in Stop |-> b]
           N == [x \in D \ Stop |-> x - 1]
           m == [x \in D |-> x]
<1>1. Stop \in SUBSET D /\ B \in [Stop -> V] /\ D \ Stop = 1 .. n
  OBVIOUS
<1>2. N \in [D \ Stop -> D] /\ m \in [D -> 0 .. n] /\ \A x \in D \ Stop : m[N[x]] < m[x]
  OBVIOUS
<1>3. op \in [(D \ Stop) \X V -> V]
  BY <1>1
<1>4. B[0] = b /\ \A x \in D \ Stop : N[x] = x - 1
  OBVIOUS
<1> HIDE DEF D, B, N, m
<1>5. PICK g \in [D -> V] : Recurs(g, D, Stop, B, N, op)
  <2> HIDE DEF Stop
  <2> QED
    BY <1>1, <1>2, <1>3, Recursion
<1>6. \A x \in D : g[x] = IF x \in Stop THEN B[x] ELSE op[<<x, g[N[x]]>>]
  BY <1>5 DEF Recurs
<1>7. g[0] = b
  BY <1>1, <1>4, <1>6
<1>8. ASSUME NEW i \in 1 .. n PROVE g[i] = op[<<i, g[i - 1]>>]
  <2>1. i \in D \ Stop /\ i \in D /\ i \notin Stop
    BY <1>1
  <2> QED
    BY <1>4, <1>6, <2>1
<1> QED
  BY <1>5, <1>7, <1>8 DEF Chained, D

LEMMA LEBytes ==
    ASSUME NEW v \in Int
    PROVE  LE(v, 2) \in Seq(Bytes) /\ Len(LE(v, 2)) = 2 /\ LE(v, 4) \in Seq(Bytes) /\ Len(LE(v, 4)) = 4
<1> DEFINE two == 2
           four == 4
<1>1. two \in Widths /\ four \in Widths /\ "II" \in Orders
  BY DEF Widths, Orders
<1> HIDE DEF two, four
<1>2. /\ LE(v, two) \in Seq(Bytes) /\ Len(LE(v, two)) = two
      /\ LE(v, four) \in Seq(Bytes) /\ Len(LE(v, four)) = four
  BY <1>1, EncodedBytes DEF LE
<1> QED
  BY <1>2 DEF two, four

Data(m, i) == PutData(Entries(m)[i])

LEMMA DataIs ==
    ASSUME NEW m \in Images, NEW i \in 1 .. Count(m)
    PROVE  /\ EntryFits(Entries(m)[i], m, i)
           /\ Data(m, i) \in Seq(Bytes) /\ Len(Data(m, i)) = DataSize(m, i) /\ DataSize(m, i) \in Nat \ {0}
           /\ Far(m, i) <=> DataSize(m, i) > 4
           /\ ~ Far(m, i) => DataSize(m, i) \in {2, 4}
<1> DEFINE e == Entries(m)[i]
           w == Wide(e.type)
           ii == "II"
<1>1. EntryFits(e, m, i)
  BY EntriesAre DEF Fitting
<1> HIDE DEF e
<1>2. e.type \in {"Short", "Long", "Rational"} /\ e.values \in Seq(Nat) /\ Len(e.values) * w = DataSize(m, i)
  BY <1>1 DEF EntryFits
<1>3. w = IF e.type = "Rational" THEN 4 ELSE ByteSize(e.type)
  BY <1>2 DEF Wide, ByteSize
<1>4. w \in Widths
  BY <1>2 DEF Wide, Widths
<1>5. e.values \in Seq(Int)
  <2>1. Nat \subseteq Int
    OBVIOUS
  <2> QED
    BY <1>2, <2>1, SeqWider
<1>6. PutData(e) = EncodedAll(ii, e.values, w)
  BY <1>3 DEF PutData
<1>7. ii \in Orders
  BY DEF Orders
<1> HIDE DEF w, ii
<1>8. PutData(e) \in Seq(Bytes) /\ Len(PutData(e)) = DataSize(m, i)
  BY <1>2, <1>4, <1>5, <1>6, <1>7, EncodedAllIs
<1>9. DataSize(m, i) \in Nat \ {0} /\ (Far(m, i) <=> DataSize(m, i) > 4)
  BY PlacesAre
<1>10. ~ Far(m, i) => DataSize(m, i) \in {2, 4}
  BY DEF Far, DataSize
<1> QED
  BY <1>1, <1>8, <1>9, <1>10 DEF Data, e

Start(m) == ImageLen(m) + 8 + 12 * Count(m) + 6

\* The value field of the buffer and the values outside the directory, after so many entries.
Slots == [field : {u \in Seq(Bytes) : Len(u) = 4}, area : Seq(Bytes)]

AfterEntry(m, i, s) ==
    [ field |-> IF Len(Data(m, i)) <= 4 THEN Data(m, i) \o SubSeq(s.field, Len(Data(m, i)) + 1, 4)
                ELSE LE(Start(m) + Len(s.area), 4),
      area  |-> IF Len(Data(m, i)) <= 4 THEN s.area ELSE s.area \o Data(m, i) ]

LEMMA AfterEntryIs ==
    ASSUME NEW m \in Images, NEW i \in 1 .. Count(m), NEW s \in Slots
    PROVE  /\ AfterEntry(m, i, s) \in Slots
           /\ Far(m, i) => /\ AfterEntry(m, i, s).field = LE(Start(m) + Len(s.area), 4)
                           /\ AfterEntry(m, i, s).area = s.area \o Data(m, i)
           /\ ~ Far(m, i) => /\ Lies(AfterEntry(m, i, s).field, 0, Data(m, i))
                             /\ AfterEntry(m, i, s).area = s.area
<1> DEFINE d == Data(m, i)
           f == s.field
           a == s.area
           r == AfterEntry(m, i, s)
<1>1. d \in Seq(Bytes) /\ Len(d) \in Nat /\ (Far(m, i) <=> Len(d) > 4) /\ (~ Far(m, i) => Len(d) \in {2, 4})
  BY DataIs
<1>2. f \in Seq(Bytes) /\ Len(f) = 4 /\ a \in Seq(Bytes)
  BY DEF Slots
<1>3. Start(m) + Len(a) \in Int
  BY <1>2, ImageIs DEF Start, Count
<1>4. /\ r.field = IF Len(d) <= 4 THEN d \o SubSeq(f, Len(d) + 1, 4) ELSE LE(Start(m) + Len(a), 4)
      /\ r.area = IF Len(d) <= 4 THEN a ELSE a \o d
      /\ r = [field |-> r.field, area |-> r.area]
  BY DEF AfterEntry
<1> HIDE DEF r, f, a, d
<1>5. CASE Far(m, i)
  <2>1. r.field = LE(Start(m) + Len(a), 4) /\ r.area = a \o d
    BY <1>1, <1>4, <1>5
  <2>2. r.field \in Seq(Bytes) /\ Len(r.field) = 4 /\ r.area \in Seq(Bytes)
    BY <1>1, <1>2, <1>3, <2>1, LEBytes
  <2>3. r \in Slots
    BY <1>4, <2>2 DEF Slots
  <2> QED
    BY <1>5, <2>1, <2>3 DEF r, a, d
<1>6. CASE ~ Far(m, i)
  <2> DEFINE t == SubSeq(f, Len(d) + 1, 4)
  <2>1. r.field = d \o t /\ r.area = a
    BY <1>1, <1>4, <1>6
  <2>2. t \in Seq(Bytes) /\ Len(t) = 4 - Len(d)
    <3> DEFINE four == 4
               low == Len(d) + 1
    <3>1. four \in Nat /\ low \in Int /\ 1 <= low /\ low <= four + 1 /\ four <= Len(f)
      BY <1>1, <1>2, <1>6
    <3>2. four - low + 1 = 4 - Len(d)
      BY <1>1
    <3> HIDE DEF four, low
    <3>3. SubSeq(f, low, four) \in Seq(Bytes) /\ Len(SubSeq(f, low, four)) = four - low + 1
      BY <1>2, <3>1, SubSeqIs
    <3> QED
      BY <3>2, <3>3 DEF four, low
  <2> HIDE DEF t
  <2>3. Lies(r.field, 0, d) /\ r.field \in Seq(Bytes) /\ Len(r.field) = 4
    <3>1. Lies(d \o t, 0, d)
      BY <1>1, <2>2, LiesFirst
    <3>2. d \o t \in Seq(Bytes) /\ Len(d \o t) = Len(d) + Len(t)
      BY <1>1, <2>2, Joined
    <3> QED
      BY <1>1, <2>1, <2>2, <3>1, <3>2
  <2>4. r \in Slots
    BY <1>2, <1>4, <2>1, <2>3 DEF Slots
  <2> QED
    BY <1>6, <2>1, <2>3, <2>4 DEF r, a, d
<1> QED
  BY <1>5, <1>6

NoSlots == [field |-> <<0, 0, 0, 0>>, area |-> <<>>]

Filling(g, m) ==
    /\ g \in [0 .. Count(m) -> Slots] /\ g[0] = NoSlots
    /\ \A i \in 1 .. Count(m) : g[i] = AfterEntry(m, i, g[i - 1])

Buffers(m) == CHOOSE g : Filling(g, m)

LEMMA FillingIs ==
    ASSUME NEW m \in Images
    PROVE  Filling(Buffers(m), m) /\ Count(m) \in Nat /\ Count(m) \in 12 .. 13
<1> DEFINE n == Count(m)
           op == [z \in (1 .. n) \X Slots |-> AfterEntry(m, z[1], z[2])]
<1>1. n \in Nat /\ n \in 12 .. 13
  BY DEF Count
<1>2. op \in [(1 .. n) \X Slots -> Slots]
  <2> SUFFICES ASSUME NEW z \in (1 .. n) \X Slots PROVE AfterEntry(m, z[1], z[2]) \in Slots
    OBVIOUS
  <2>1. z[1] \in 1 .. n /\ z[2] \in Slots
    OBVIOUS
  <2> QED
    BY <2>1, AfterEntryIs
<1>3. NoSlots \in Slots
  <2> DEFINE z == <<0, 0, 0, 0>>
  <2>1. 0 \in Bytes
    BY BaseIs DEF Bytes
  <2>2. z \in Seq(Bytes) /\ Len(z) = 4
    BY <2>1
  <2>3. <<>> \in Seq(Bytes)
    BY EmptySeq
  <2>4. NoSlots = [field |-> z, area |-> <<>>]
    BY DEF NoSlots
  <2> HIDE DEF z
  <2> QED
    BY <2>2, <2>3, <2>4 DEF Slots
<1>4. \A i \in 1 .. n : \A s \in Slots : op[<<i, s>>] = AfterEntry(m, i, s)
  OBVIOUS
<1> HIDE DEF op, n
<1>5. PICK g : Chained(g, Slots, n, NoSlots, op)
  BY <1>1, <1>2, <1>3, Chain
<1>6. ASSUME NEW i \in 1 .. n PROVE g[i] = AfterEntry(m, i, g[i - 1])
  <2>1. i - 1 \in 0 .. n
    BY <1>1
  <2>2. g[i - 1] \in Slots /\ g[i] = op[<<i, g[i - 1]>>]
    BY <1>5, <2>1 DEF Chained
  <2> QED
    BY <1>4, <2>2
<1>7. Filling(g, m)
  BY <1>5, <1>6 DEF Filling, Chained, n
<1> QED
  BY <1>1, <1>7 DEF Buffers, n

LEMMA AreaIs ==
    ASSUME NEW m \in Images, NEW i \in 0 .. Count(m)
    PROVE  /\ Buffers(m)[i] \in Slots /\ Len(Buffers(m)[i].area) = Before(m, i + 1)
           /\ \A j \in 1 .. i : Far(m, j) => Lies(Buffers(m)[i].area, Before(m, j), Data(m, j))
<1> DEFINE n == Count(m)
           g == Buffers(m)
           Right(l) == /\ Len(g[l].area) = Before(m, l + 1)
                       /\ \A j \in 1 .. l : Far(m, j) => Lies(g[l].area, Before(m, j), Data(m, j))
           T == {l \in 0 .. n : Right(l)}
<1>1. /\ n \in Nat /\ n >= 12 /\ g \in [0 .. n -> Slots] /\ g[0] = NoSlots
      /\ \A l \in 1 .. n : g[l] = AfterEntry(m, l, g[l - 1])
  BY FillingIs DEF Filling
<1> HIDE DEF g, n
<1>2. Right(0)
  <2>1. g[0].area = <<>> /\ Len(g[0].area) = 0
    BY <1>1 DEF NoSlots
  <2>2. Before(m, 1) = 0
    BY DEF Before
  <2> QED
    BY <2>1, <2>2
<1>3. ASSUME NEW l \in T, l < n PROVE l + 1 \in T
  <2> DEFINE k == l + 1
             s == g[l]
             d == Data(m, k)
  <2>1. k \in 1 .. n /\ k - 1 = l /\ l \in 0 .. n /\ k + 1 = l + 2 /\ l \in Nat
    BY <1>1, <1>3
  <2>2. s \in Slots /\ g[k] = AfterEntry(m, k, s)
    BY <1>1, <2>1
  <2>3. Right(l)
    BY <1>3
  <2>4. s.area \in Seq(Bytes) /\ Len(s.area) = Before(m, k)
    BY <2>2, <2>3 DEF Slots
  <2>5. Before(m, k + 1) = Before(m, k) + (IF Far(m, k) THEN DataSize(m, k) ELSE 0) /\ Before(m, k) \in Nat
    BY <2>1, PlacesAre DEF n
  <2>6. d \in Seq(Bytes) /\ Len(d) = DataSize(m, k)
    BY <2>1, DataIs DEF n
  <2> HIDE DEF d, s, k, Right
  <2>7. CASE Far(m, k)
    <3>1. g[k].area = s.area \o d
      BY <2>1, <2>2, <2>7, AfterEntryIs DEF n, d
    <3>2. Len(g[k].area) = Before(m, k + 1)
      <4>1. Len(s.area \o d) = Len(s.area) + Len(d)
        BY <2>4, <2>6, Joined
      <4> QED
        BY <2>4, <2>5, <2>6, <2>7, <3>1, <4>1
    <3>3. ASSUME NEW j \in 1 .. k, Far(m, j) PROVE Lies(g[k].area, Before(m, j), Data(m, j))
      <4>1. CASE j = k
        <5>1. Lies(s.area \o d, Len(s.area), d)
          BY <2>4, <2>6, LiesFirst
        <5> QED
          BY <2>4, <3>1, <4>1, <5>1 DEF d
      <4>2. CASE j # k
        <5>1. j \in 1 .. l /\ j \in 1 .. n
          BY <1>1, <2>1, <4>2 DEF k
        <5>2. Lies(s.area, Before(m, j), Data(m, j))
          BY <2>3, <3>3, <5>1 DEF Right, s
        <5>3. Data(m, j) \in Seq(Bytes) /\ Before(m, j) \in Nat
          BY <5>1, DataIs, PlacesAre DEF n
        <5>4. Lies(s.area \o d, Before(m, j), Data(m, j))
          BY <2>4, <2>6, <5>2, <5>3, LiesBefore
        <5> QED
          BY <3>1, <5>4
      <4> QED
        BY <4>1, <4>2
    <3> QED
      BY <2>1, <3>2, <3>3 DEF Right, k
  <2>8. CASE ~ Far(m, k)
    <3>1. g[k].area = s.area
      BY <2>1, <2>2, <2>8, AfterEntryIs DEF n
    <3>2. Len(g[k].area) = Before(m, k + 1)
      BY <2>4, <2>5, <2>8, <3>1
    <3>3. ASSUME NEW j \in 1 .. k, Far(m, j) PROVE Lies(g[k].area, Before(m, j), Data(m, j))
      <4>1. j \in 1 .. l
        BY <2>1, <2>8, <3>3 DEF k
      <4> QED
        BY <2>3, <3>1, <3>3, <4>1 DEF Right, s
    <3> QED
      BY <2>1, <3>2, <3>3 DEF Right, k
  <2> QED
    BY <2>7, <2>8
<1>4. T = 0 .. n
  <2>1. T \in SUBSET (0 .. n) /\ 0 \in T
    BY <1>1, <1>2
  <2> HIDE DEF T
  <2> QED
    BY <1>1, <1>3, <2>1, InductionTo
<1>5. i \in T
  BY <1>4 DEF n
<1>6. g[i] \in Slots
  BY <1>1 DEF n
<1> QED
  BY <1>5, <1>6 DEF g

LEMMA EvenLies ==
    ASSUME NEW u, NEW ss, NEW n \in Nat, NEW l \in Nat, Even(u, ss, n, l), NEW i \in 1 .. l, Len(ss[i]) = n
    PROVE  Lies(u, (i - 1) * n, ss[i])
<1> DEFINE o == (i - 1) * n
<1>1. o \in Nat /\ i * n = o + n /\ i * n <= l * n /\ l * n \in Nat
  BY Pieces
<1>2. Len(u) = l * n /\ \A k \in 1 .. n : u[o + k] = ss[i][k]
  BY DEF Even
<1> HIDE DEF o
<1>3. o + Len(ss[i]) <= Len(u)
  BY <1>1, <1>2
<1> QED
  BY <1>2, <1>3 DEF Lies, o

EntryText(m, i) ==
    ((LE(Row(Entries(m)[i].tag), 2) \o LE(TypeCode[Entries(m)[i].type], 2))
     \o LE(FieldCount(Entries(m)[i]), 4)) \o Buffers(m)[i].field

LEMMA EntryTextIs ==
    ASSUME NEW m \in Images, NEW i \in 1 .. Count(m), NEW e, e = Entries(m)[i], NEW u, u = EntryText(m, i)
    PROVE  /\ u \in Seq(Bytes) /\ Len(u) = 12
           /\ Lies(u, 0, LE(Row(e.tag), 2)) /\ Lies(u, 2, LE(TypeCode[e.type], 2))
           /\ Lies(u, 4, LE(FieldCount(e), 4)) /\ Lies(u, 8, Buffers(m)[i].field)
<1> DEFINE a == LE(Row(e.tag), 2)
           b == LE(TypeCode[e.type], 2)
           c == LE(FieldCount(e), 4)
           f == Buffers(m)[i].field
           v == (a \o b) \o c
<1>1. EntryFits(e, m, i)
  BY DataIs
<1>2. Row(e.tag) \in Int /\ TypeCode[e.type] \in Int /\ FieldCount(e) \in Int
  <2>1. Row(e.tag) = RowNo(m, i) /\ e.type \in {"Short", "Long", "Rational"} /\ FieldCount(e) \in Nat
    BY <1>1 DEF EntryFits, HasRow
  <2>2. RowNo(m, i) \in Int
    BY PlacesAre
  <2>3. TypeCode[e.type] \in Int
    BY <2>1 DEF TypeCode
  <2> QED
    BY <2>1, <2>2, <2>3
<1>3. /\ a \in Seq(Bytes) /\ Len(a) = 2 /\ b \in Seq(Bytes) /\ Len(b) = 2 /\ c \in Seq(Bytes) /\ Len(c) = 4
  BY <1>2, LEBytes
<1>4. f \in Seq(Bytes) /\ Len(f) = 4
  <2>1. i \in 0 .. Count(m)
    OBVIOUS
  <2> QED
    BY <2>1, AreaIs DEF Slots
<1>5. u = v \o f
  BY DEF EntryText
<1> HIDE DEF a, b, c, f
<1>6. /\ v \in Seq(Bytes) /\ Len(v) = 8
      /\ Lies(v, 0, a) /\ Lies(v, 2, b) /\ Lies(v, 4, c)
  <2>1. /\ v \in Seq(Bytes) /\ Len(v) = Len(a) + Len(b) + Len(c)
        /\ Lies(v, 0, a) /\ Lies(v, Len(a), b) /\ Lies(v, Len(a) + Len(b), c)
    BY <1>3, ThreeLie
  <2> QED
    BY <1>3, <2>1
<1> HIDE DEF v
<1>7. u \in Seq(Bytes) /\ Len(u) = 12 /\ Lies(u, 8, f)
  <2>1. v \o f \in Seq(Bytes) /\ Len(v \o f) = Len(v) + Len(f)
    BY <1>4, <1>6, Joined
  <2>2. Lies(v \o f, Len(v), f)
    BY <1>4, <1>6, LiesFirst
  <2> QED
    BY <1>4, <1>5, <1>6, <2>1, <2>2
<1>8. \A s \in Seq(Bytes) : \A o \in Nat : Lies(v, o, s) => Lies(u, o, s)
  BY <1>4, <1>5, <1>6, LiesBefore
<1>9. Lies(u, 0, a) /\ Lies(u, 2, b) /\ Lies(u, 4, c)
  <2>1. 0 \in Nat /\ 2 \in Nat /\ 4 \in Nat
    OBVIOUS
  <2> QED
    BY <1>3, <1>6, <1>8, <2>1
<1> QED
  BY <1>7, <1>9 DEF a, b, c, f

MarkText(m)  == (ByteOrderMark("II") \o LE(42, 2)) \o LE(ImageLen(m) + 8, 4)
RowTexts(m)  == [r \in 1 .. m.dy |-> RowWritten(m, r - 1)]
RowsText(m)  == FlattenSeq(RowTexts(m))
EntryTexts(m) == [i \in 1 .. Count(m) |-> EntryText(m, i)]
IFDText(m)   == FlattenSeq(EntryTexts(m))
Values(m)    == Buffers(m)[Count(m)].area
LastText(m)  == LE(0, 4) \o Values(m)

\* What Encode writes of an image, when no Write fails.
Encoding(m) == (((MarkText(m) \o RowsText(m)) \o LE(Count(m), 2)) \o IFDText(m)) \o LastText(m)

EntryPlace(m, i) == ImageLen(m) + 10 + 12 * (i - 1)

LEMMA RowTextsAre ==
    ASSUME NEW m \in Images
    PROVE  /\ RowsText(m) \in Seq(Int) /\ Len(RowsText(m)) = ImageLen(m) /\ m.dy * RowLen(m) = ImageLen(m)
           /\ \A r \in 0 .. m.dy - 1 : Lies(RowsText(m), r * RowLen(m), RowWritten(m, r))
           /\ RowTexts(m) \in Seq(Seq(Int)) /\ Len(RowTexts(m)) = m.dy
           /\ \A r \in 1 .. m.dy : Len(RowTexts(m)[r]) = RowLen(m)
<1> DEFINE l == m.dy
           n == RowLen(m)
           ss == RowTexts(m)
           u == RowsText(m)
<1>1. l \in Nat /\ n \in Nat /\ m.dx \in Nat /\ PixelSize(m.type) \in {1, 2, 4, 8}
  BY ImageIs
<1>2. \A r \in 1 .. l : RowWritten(m, r - 1) \in Seq(Int) /\ Len(RowWritten(m, r - 1)) = n
  <2> SUFFICES ASSUME NEW r \in 1 .. l PROVE RowWritten(m, r - 1) \in Seq(Int) /\ Len(RowWritten(m, r - 1)) = n
    OBVIOUS
  <2>1. r - 1 \in Int
    BY <1>1
  <2> QED
    BY <2>1, PixRowIs
<1>3. ss \in Seq(Seq(Int)) /\ Len(ss) = l /\ \A r \in 1 .. l : ss[r] = RowWritten(m, r - 1)
  BY <1>1, <1>2 DEF RowTexts
<1>4. l * n = ImageLen(m)
  <2> DEFINE p == PixelSize(m.type)
  <2>1. p \in Nat
    BY <1>1
  <2> HIDE DEF p
  <2>2. l * (m.dx * p) = m.dx * l * p
    BY <1>1, <2>1, SMT
  <2> QED
    BY <2>2 DEF RowLen, ImageLen, p
<1> HIDE DEF l, n, ss
<1>5. \A r \in 1 .. l : Len(ss[r]) = n
  BY <1>2, <1>3
<1>6. u \in Seq(Int) /\ Even(u, ss, n, l)
  BY <1>1, <1>3, <1>5, FlattenEven DEF RowsText, ss
<1>7. Len(u) = l * n
  BY <1>6 DEF Even
<1> HIDE DEF u
<1>8. ASSUME NEW r \in 0 .. l - 1 PROVE Lies(u, r * n, RowWritten(m, r))
  <2> DEFINE k == r + 1
  <2>1. k \in 1 .. l /\ k - 1 = r
    BY <1>1
  <2> HIDE DEF k
  <2>2. Lies(u, (k - 1) * n, ss[k])
    BY <1>1, <1>5, <1>6, <2>1, EvenLies
  <2> QED
    BY <1>3, <2>1, <2>2
<1> QED
  BY <1>3, <1>4, <1>5, <1>6, <1>7, <1>8 DEF u, l, n, ss

LEMMA EntryTextsAre ==
    ASSUME NEW m \in Images
    PROVE  /\ IFDText(m) \in Seq(Int) /\ Len(IFDText(m)) = 12 * Count(m)
           /\ \A i \in 1 .. Count(m) : Lies(IFDText(m), 12 * (i - 1), EntryText(m, i))
<1> DEFINE l == Count(m)
           twelve == 12
           ss == EntryTexts(m)
           u == IFDText(m)
<1>1. l \in Nat /\ twelve \in Nat
  BY FillingIs
<1>2. ASSUME NEW i \in 1 .. l PROVE EntryText(m, i) \in Seq(Int) /\ Len(EntryText(m, i)) = twelve
  <2>1. EntryText(m, i) \in Seq(Bytes) /\ Len(EntryText(m, i)) = 12
    BY EntryTextIs
  <2>2. Bytes \subseteq Int
    BY BaseIs DEF Bytes
  <2> QED
    BY <2>1, <2>2, SeqWider
<1>3. ss \in Seq(Seq(Int)) /\ Len(ss) = l /\ \A i \in 1 .. l : ss[i] = EntryText(m, i)
  BY <1>1, <1>2 DEF EntryTexts
<1> HIDE DEF l, ss, twelve
<1>4. \A i \in 1 .. l : Len(ss[i]) = twelve
  BY <1>2, <1>3
<1>5. u \in Seq(Int) /\ Even(u, ss, twelve, l)
  BY <1>1, <1>3, <1>4, FlattenEven DEF IFDText, ss
<1>6. Len(u) = l * twelve
  BY <1>5 DEF Even
<1> HIDE DEF u
<1>7. ASSUME NEW i \in 1 .. l PROVE Lies(u, 12 * (i - 1), EntryText(m, i))
  <2>1. Lies(u, (i - 1) * twelve, ss[i])
    BY <1>1, <1>4, <1>5, EvenLies
  <2>2. (i - 1) * twelve = 12 * (i - 1)
    BY <1>1 DEF twelve
  <2> QED
    BY <1>3, <2>1, <2>2
<1> QED
  <2>1. l * twelve = 12 * l
    BY <1>1 DEF twelve
  <2> QED
    BY <1>5, <1>6, <1>7, <2>1 DEF u, l

\* Where everything is in what Encode writes.
LaidOut(f, m) ==
    /\ f \in Seq(Int) /\ Len(f) = Start(m) + Len(Values(m))
    /\ Lies(f, 0, ByteOrderMark("II") \o LE(42, 2)) /\ Lies(f, 4, LE(ImageLen(m) + 8, 4))
    /\ Lies(f, 8, RowsText(m))
    /\ \A r \in 0 .. m.dy - 1 : Lies(f, 8 + r * RowLen(m), RowWritten(m, r))
    /\ Lies(f, ImageLen(m) + 8, LE(Count(m), 2))
    /\ \A i \in 1 .. Count(m) : Lies(f, EntryPlace(m, i), EntryText(m, i))
    /\ Lies(f, Start(m) - 4, LE(0, 4))
    /\ Lies(f, Start(m), Values(m))

LEMMA EncodingIs == ASSUME NEW m \in Images PROVE LaidOut(Encoding(m), m)
<1> DEFINE f == Encoding(m)
           l == ImageLen(m)
           n == Count(m)
           mark == ByteOrderMark("II")
           magic == LE(42, 2)
           two == mark \o magic
           offset == LE(l + 8, 4)
           a == MarkText(m)
           b == RowsText(m)
           c == LE(n, 2)
           d == IFDText(m)
           none == LE(0, 4)
           v == Values(m)
           e == LastText(m)
<1>1. l \in Nat /\ n \in Nat /\ RowLen(m) \in Nat /\ m.dy \in Nat /\ Bytes \subseteq Int
  BY ImageIs, FillingIs, BaseIs DEF Bytes
<1>2. /\ mark \in Seq(Int) /\ Len(mark) = 2 /\ magic \in Seq(Int) /\ Len(magic) = 2
      /\ offset \in Seq(Int) /\ Len(offset) = 4 /\ c \in Seq(Int) /\ Len(c) = 2
      /\ none \in Seq(Int) /\ Len(none) = 4
  <2>1. mark \in Seq(Int) /\ Len(mark) = 2
    BY MarkIs DEF Orders
  <2>2. 42 \in Int /\ l + 8 \in Int /\ n \in Int /\ 0 \in Int
    BY <1>1
  <2> QED
    BY <2>1, <2>2, LEIs
<1>3. v \in Seq(Int)
  <2>1. n \in 0 .. Count(m)
    BY <1>1
  <2>2. v \in Seq(Bytes)
    BY <2>1, AreaIs DEF Slots, Values
  <2> QED
    BY <1>1, <2>2, SeqWider
<1>4. b \in Seq(Int) /\ Len(b) = l /\ \A r \in 0 .. m.dy - 1 : Lies(b, r * RowLen(m), RowWritten(m, r))
  BY RowTextsAre
<1>5. d \in Seq(Int) /\ Len(d) = 12 * n /\ \A i \in 1 .. n : Lies(d, 12 * (i - 1), EntryText(m, i))
  BY EntryTextsAre
<1>6. f = (((a \o b) \o c) \o d) \o e /\ a = two \o offset /\ e = none \o v
  BY DEF Encoding, MarkText, LastText
<1> HIDE DEF f, l, n, mark, magic, offset, a, b, c, d, none, v, e
<1>7. two \in Seq(Int) /\ Len(two) = 4
  <2>1. mark \o magic \in Seq(Int) /\ Len(mark \o magic) = Len(mark) + Len(magic)
    BY <1>2, Joined
  <2> QED
    BY <1>2, <2>1
<1> HIDE DEF two
<1>8. a \in Seq(Int) /\ Len(a) = 8 /\ Lies(a, 0, two) /\ Lies(a, 4, offset)
  <2>1. two \o offset \in Seq(Int) /\ Len(two \o offset) = Len(two) + Len(offset)
    BY <1>2, <1>7, Joined
  <2>2. Lies(two \o offset, 0, two) /\ Lies(two \o offset, Len(two), offset)
    BY <1>2, <1>7, LiesFirst
  <2> QED
    BY <1>2, <1>6, <1>7, <2>1, <2>2
<1>9. e \in Seq(Int) /\ Len(e) = 4 + Len(v) /\ Lies(e, 0, none) /\ Lies(e, 4, v)
  <2>1. none \o v \in Seq(Int) /\ Len(none \o v) = Len(none) + Len(v)
    BY <1>2, <1>3, Joined
  <2>2. Lies(none \o v, 0, none) /\ Lies(none \o v, Len(none), v)
    BY <1>2, <1>3, LiesFirst
  <2> QED
    BY <1>2, <1>6, <2>1, <2>2
<1>10. f \in Seq(Int) /\ Laid(f, a, b, c, d, e)
  BY <1>2, <1>4, <1>5, <1>6, <1>8, <1>9, FivePlaces
<1>11. /\ Len(f) = Start(m) + Len(v)
       /\ Lies(f, 0, a) /\ Lies(f, 8, b) /\ Lies(f, l + 8, c) /\ Lies(f, l + 10, d) /\ Lies(f, Start(m) - 4, e)
       /\ Start(m) \in Int /\ Start(m) = l + 14 + 12 * n
  <2>1. Start(m) = l + 14 + 12 * n /\ Start(m) \in Int
    BY <1>1 DEF Start, l, n
  <2>2. /\ Len(a) = 8 /\ Len(a) + Len(b) = l + 8 /\ Len(a) + Len(b) + Len(c) = l + 10
        /\ Len(a) + Len(b) + Len(c) + Len(d) = Start(m) - 4
        /\ Len(a) + Len(b) + Len(c) + Len(d) + Len(e) = Start(m) + Len(v)
    BY <1>1, <1>2, <1>3, <1>4, <1>5, <1>8, <1>9, <2>1
  <2> QED
    BY <1>10, <2>1, <2>2 DEF Laid
<1>12. Lies(f, 0, two) /\ Lies(f, 4, offset)
  <2>1. \A s \in Seq(Int) : \A o \in Nat : Lies(a, o, s) => Lies(f, o, s)
    BY <1>8, <1>10, <1>11, LiesThrough
  <2>2. 0 \in Nat /\ 4 \in Nat
    OBVIOUS
  <2> QED
    BY <1>2, <1>7, <1>8, <2>1, <2>2
<1>13. ASSUME NEW r \in 0 .. m.dy - 1 PROVE Lies(f, 8 + r * RowLen(m), RowWritten(m, r))
  <2> DEFINE o == r * RowLen(m)
             eight == 8
             w == RowWritten(m, r)
  <2>1. o \in Nat /\ w \in Seq(Int) /\ eight \in Nat
    <3>1. r \in Nat /\ r \in Int
      BY <1>1
    <3>2. r * RowLen(m) \in Nat
      BY <1>1, <3>1, SMT
    <3> QED
      BY <3>1, <3>2, PixRowIs
  <2>2. Lies(b, o, w) /\ Lies(f, eight, b)
    BY <1>4, <1>11
  <2> HIDE DEF o, w, eight
  <2>3. Lies(f, eight + o, w)
    BY <1>4, <1>10, <2>1, <2>2, LiesIn
  <2> QED
    BY <2>3 DEF o, w, eight
<1>14. ASSUME NEW i \in 1 .. n PROVE Lies(f, EntryPlace(m, i), EntryText(m, i))
  <2> DEFINE o == 12 * (i - 1)
             p == l + 10
             w == EntryText(m, i)
  <2>1. o \in Nat /\ p \in Nat /\ p + o = EntryPlace(m, i)
    BY <1>1 DEF EntryPlace, l
  <2>2. w \in Seq(Int)
    <3>1. w \in Seq(Bytes)
      BY EntryTextIs DEF n
    <3> QED
      BY <1>1, <3>1, SeqWider
  <2>3. Lies(d, o, w) /\ Lies(f, p, d)
    BY <1>5, <1>11
  <2> HIDE DEF o, p, w
  <2>4. Lies(f, p + o, w)
    BY <1>5, <1>10, <2>1, <2>2, <2>3, LiesIn
  <2> QED
    BY <2>1, <2>4 DEF w
<1>15. Lies(f, Start(m) - 4, none) /\ Lies(f, Start(m), v)
  <2> DEFINE p == Start(m) - 4
             four == 4
             zero == 0
  <2>1. p \in Nat /\ four \in Nat /\ zero \in Nat /\ p + zero = p /\ p + four = Start(m)
    BY <1>1, <1>11
  <2>2. Lies(f, p, e) /\ Lies(e, zero, none) /\ Lies(e, four, v)
    BY <1>9, <1>11
  <2> HIDE DEF p, four, zero
  <2>3. Lies(f, p + zero, none) /\ Lies(f, p + four, v)
    BY <1>2, <1>3, <1>9, <1>10, <2>1, <2>2, LiesIn
  <2> QED
    BY <2>1, <2>3 DEF p
<1> QED
  BY <1>10, <1>11, <1>12, <1>13, <1>14, <1>15 DEF LaidOut, f, l, n, mark, magic, two, offset, b, c, v, none

Begins(s, f) == Len(s) <= Len(f) /\ \A k \in 1 .. Len(s) : s[k] = f[k]

LEMMA BeginsWith ==
    ASSUME NEW S, NEW s \in Seq(S), NEW f \in Seq(S), Begins(s, f), NEW b \in Seq(S), Lies(f, Len(s), b),
           NEW t \in Seq(S), Len(t) <= Len(b), \A k \in 1 .. Len(t) : t[k] = b[k]
    PROVE  Begins(s \o t, f) /\ s \o t \in Seq(S) /\ Len(s \o t) = Len(s) + Len(t)
<1> DEFINE u == s \o t
<1>1. u \in Seq(S) /\ Len(u) = Len(s) + Len(t)
  BY Joined
<1>2. /\ \A k \in 1 .. Len(s) : u[k] = s[k]
      /\ \A k \in 1 .. Len(t) : u[Len(s) + k] = t[k]
  BY Joined
<1>3. Len(s) + Len(b) <= Len(f) /\ \A k \in 1 .. Len(b) : f[Len(s) + k] = b[k]
  BY DEF Lies
<1>4. Len(s) \in Nat /\ Len(t) \in Nat /\ Len(b) \in Nat /\ Len(f) \in Nat
  OBVIOUS
<1> HIDE DEF u
<1>5. ASSUME NEW k \in 1 .. Len(u) PROVE u[k] = f[k]
  <2>1. CASE k <= Len(s)
    <3>1. k \in 1 .. Len(s)
      BY <1>1, <1>4, <2>1
    <3> QED
      BY <1>2, <3>1 DEF Begins
  <2>2. CASE k > Len(s)
    <3> DEFINE j == k - Len(s)
    <3>1. j \in 1 .. Len(t) /\ j \in 1 .. Len(b) /\ Len(s) + j = k
      BY <1>1, <1>4, <2>2
    <3> HIDE DEF j
    <3>2. u[Len(s) + j] = t[j] /\ t[j] = b[j] /\ f[Len(s) + j] = b[j]
      BY <1>2, <1>3, <3>1
    <3> QED
      BY <3>1, <3>2
  <2> QED
    BY <1>1, <1>4, <2>1, <2>2
<1> QED
  BY <1>1, <1>3, <1>4, <1>5 DEF Begins, u

LEMMA Writing ==
    ASSUME out \in Seq(Int), NEW f \in Seq(Int), Begins(out, f), NEW bytes \in Seq(Int), Lies(f, Len(out), bytes),
           NEW next, Write(bytes, next)
    PROVE  /\ out' \in Seq(Int) /\ Begins(out', f) /\ Len(out') <= Len(out) + Len(bytes)
           /\ \/ pc' = next /\ Len(out') = Len(out) + Len(bytes)
              \/ pc' = "error"
<1>1. CASE out' = out \o bytes /\ pc' = next
  <2>1. Len(bytes) <= Len(bytes) /\ \A k \in 1 .. Len(bytes) : bytes[k] = bytes[k]
    OBVIOUS
  <2>2. Begins(out \o bytes, f) /\ out \o bytes \in Seq(Int) /\ Len(out \o bytes) = Len(out) + Len(bytes)
    BY <2>1, BeginsWith
  <2> QED
    BY <1>1, <2>2
<1>2. CASE /\ \E n \in {0, Len(bytes) \div 2, Len(bytes) - 1} : out' = out \o SubSeq(bytes, 1, n)
           /\ pc' = "error"
  <2>1. PICK n \in {0, Len(bytes) \div 2, Len(bytes) - 1} : out' = out \o SubSeq(bytes, 1, n)
    BY <1>2
  <2> DEFINE t == SubSeq(bytes, 1, n)
  <2>2. t \in Seq(Int) /\ Len(t) <= Len(bytes) /\ \A k \in 1 .. Len(t) : t[k] = bytes[k]
    <3>1. CASE n \in 0 .. Len(bytes)
      <4> DEFINE one == 1
      <4>1. n \in Nat /\ one \in Int /\ one <= n + 1 /\ one <= one /\ n <= Len(bytes) /\ n - one + 1 = n
        BY <3>1
      <4>2. \A k \in 1 .. n : one + k - 1 = k
        BY <4>1
      <4>3. /\ SubSeq(bytes, one, n) \in Seq(Int) /\ Len(SubSeq(bytes, one, n)) = n
            /\ SubSeq(bytes, one, n) = [k \in 1 .. n |-> bytes[one + k - 1]]
        <5> HIDE DEF one
        <5>1. 1 <= one
          BY DEF one
        <5>2. /\ SubSeq(bytes, one, n) \in Seq(Int) /\ Len(SubSeq(bytes, one, n)) = n - one + 1
              /\ SubSeq(bytes, one, n) = [k \in 1 .. n - one + 1 |-> bytes[one + k - 1]]
          BY <4>1, <5>1, SubSeqIs
        <5> QED
          BY <4>1, <5>2
      <4> QED
        BY <4>1, <4>2, <4>3
    <3>2. CASE n \notin 0 .. Len(bytes)
      <4>1. n = -1
        BY <3>2
      <4>2. t = <<>>
        BY <4>1
      <4> QED
        BY <4>2
    <3> QED
      BY <3>1, <3>2
  <2>4. out' = out \o t
    BY <2>1
  <2> HIDE DEF t
  <2>3. Begins(out \o t, f) /\ out \o t \in Seq(Int) /\ Len(out \o t) = Len(out) + Len(t)
    BY <2>2, BeginsWith
  <2>5. Len(out \o t) <= Len(out) + Len(bytes)
    BY <2>2, <2>3
  <2>6. out' \in Seq(Int) /\ Begins(out', f) /\ Len(out') <= Len(out) + Len(bytes)
    BY <2>3, <2>4, <2>5, Zenon
  <2> QED
    BY <1>2, <2>6
<1> QED
  BY <1>1, <1>2 DEF Write

\* What was written is the beginning of what Encode writes of the image, up to where pc says.
TextInv ==
    /\ out \in Seq(Int) /\ Begins(out, Encoding(img))
    /\ at \in 0 .. Count(img) /\ field = Buffers(img)[at].field /\ area = Buffers(img)[at].area
    /\ at = Count(img) \/ Len(out) <= EntryPlace(img, at + 1)
    /\ pc \in {"magic", "offset", "pixels", "row", "advance", "panic", "count"} => at = 0
    /\ pc = "count" => Len(out) = ImageLen(img) + 8
    /\ pc = "entry" => Len(out) = EntryPlace(img, at + 1)
    /\ pc = "area" => at = Count(img) /\ Len(out) = Start(img)
    /\ pc = "done" => at = Count(img) /\ Len(out) = Len(Encoding(img))

LEMMA PlaceSizes ==
    ASSUME NEW m \in Images
    PROVE  /\ ImageLen(m) \in Nat /\ Count(m) \in Nat /\ 0 < Count(m)
           /\ EntryPlace(m, 0 + 1) = ImageLen(m) + 10 /\ EntryPlace(m, Count(m) + 1) = Start(m) - 4
           /\ Start(m) = ImageLen(m) + 14 + 12 * Count(m) /\ Start(m) \in Nat
           /\ \A i \in Int : EntryPlace(m, i) \in Int /\ EntryPlace(m, i + 1) = EntryPlace(m, i) + 12
           /\ LaidOut(Encoding(m), m) /\ Encoding(m) \in Seq(Int)
           /\ Values(m) \in Seq(Bytes) /\ Len(Sorted[m]) = Count(m)
<1>1. ImageLen(m) \in Nat /\ Count(m) \in Nat /\ 0 < Count(m) /\ Count(m) \in 0 .. Count(m)
  BY ImageIs, FillingIs
<1>2. LaidOut(Encoding(m), m)
  BY EncodingIs
<1>3. Encoding(m) \in Seq(Int)
  BY <1>2 DEF LaidOut
<1>4. Values(m) \in Seq(Bytes)
  BY <1>1, AreaIs DEF Slots, Values
<1>5. Len(Sorted[m]) = Count(m)
  BY SortedIs, EntriesAre DEF Fitting
<1>6. Start(m) = ImageLen(m) + 14 + 12 * Count(m) /\ Start(m) \in Nat
  BY <1>1 DEF Start
<1>7. \A i \in Int : EntryPlace(m, i) \in Int /\ EntryPlace(m, i + 1) = EntryPlace(m, i) + 12
  BY <1>1 DEF EntryPlace
<1>8. EntryPlace(m, 0 + 1) = ImageLen(m) + 10 /\ EntryPlace(m, Count(m) + 1) = Start(m) - 4
  BY <1>1, <1>6 DEF EntryPlace
<1> QED
  BY <1>1, <1>2, <1>3, <1>4, <1>5, <1>6, <1>7, <1>8

\* The Writes before the entries.
Early(bytes, next) ==
    /\ Lies(Encoding(img), Len(out), bytes) /\ bytes \in Seq(Int) /\ Write(bytes, next)
    /\ Len(out) + Len(bytes) <= ImageLen(img) + 10
    /\ \/ next \in {"offset", "pixels", "advance", "row"}
       \/ next = "count" /\ Len(out) + Len(bytes) = ImageLen(img) + 8
       \/ next = "entry" /\ Len(out) + Len(bytes) = ImageLen(img) + 10
    /\ UNCHANGED <<img, at, field, area>>

LEMMA EarlyStep ==
    ASSUME RowsInv, TextInv, at = 0, NEW bytes, NEW next, Early(bytes, next)
    PROVE  TextInv'
<1> DEFINE l == ImageLen(img)
           f == Encoding(img)
<1>1. img \in Images /\ out \in Seq(Int) /\ Begins(out, f)
  BY DEF RowsInv, TextInv
<1>2. /\ l \in Nat /\ EntryPlace(img, 0 + 1) = l + 10 /\ f \in Seq(Int)
  BY <1>1, PlaceSizes
<1>3. /\ bytes \in Seq(Int) /\ Lies(f, Len(out), bytes) /\ Write(bytes, next) /\ Len(out) + Len(bytes) <= l + 10
      /\ \/ next \in {"offset", "pixels", "advance", "row"}
         \/ next = "count" /\ Len(out) + Len(bytes) = l + 8
         \/ next = "entry" /\ Len(out) + Len(bytes) = l + 10
      /\ img' = img /\ at' = at /\ field' = field /\ area' = area
  BY DEF Early
<1> HIDE DEF f, l
<1>4. /\ out' \in Seq(Int) /\ Begins(out', f) /\ Len(out') <= Len(out) + Len(bytes)
      /\ \/ pc' = next /\ Len(out') = Len(out) + Len(bytes)
         \/ pc' = "error"
  BY <1>1, <1>2, <1>3, Writing
<1>5. Len(out') <= l + 10
  BY <1>1, <1>2, <1>3, <1>4
<1>6. Begins(out', Encoding(img'))
  BY <1>3, <1>4 DEF f
<1>7. /\ at' \in 0 .. Count(img') /\ field' = Buffers(img')[at'].field /\ area' = Buffers(img')[at'].area
  BY <1>3 DEF TextInv
<1>8. at' = 0
  BY <1>3
<1>9. Len(out') <= EntryPlace(img', at' + 1)
  BY <1>2, <1>3, <1>5, <1>8
<1>10. /\ pc' = "count" => Len(out') = ImageLen(img') + 8
       /\ pc' = "entry" => Len(out') = EntryPlace(img', at' + 1)
       /\ pc' \notin {"area", "done"}
  BY <1>2, <1>3, <1>4, <1>8 DEF l
<1> QED
  BY <1>4, <1>6, <1>7, <1>8, <1>9, <1>10 DEF TextInv

LEMMA MagicStep == ASSUME RowsInv, TextInv, WriteMagic PROVE TextInv'
<1> DEFINE b == ByteOrderMark("II") \o LE(42, 2)
           next == "offset"
<1>1. img \in Images /\ pc = "magic" /\ Len(out) = 0 /\ at = 0 /\ Write(b, next) /\ UNCHANGED <<img, at, field, area>>
  BY DEF RowsInv, TextInv, WriteMagic
<1>2. LaidOut(Encoding(img), img) /\ ImageLen(img) \in Nat
  BY <1>1, PlaceSizes
<1>3. Lies(Encoding(img), 0, b)
  BY <1>2 DEF LaidOut
<1>4. b \in Seq(Int) /\ Len(b) = 4
  <2> DEFINE u == ByteOrderMark("II")
             v == LE(42, 2)
  <2>1. u \in Seq(Int) /\ Len(u) = 2
    BY MarkIs DEF Orders
  <2>2. v \in Seq(Int) /\ Len(v) = 2
    BY LEIs
  <2>3. b = u \o v
    OBVIOUS
  <2> HIDE DEF u, v, b
  <2>4. u \o v \in Seq(Int) /\ Len(u \o v) = Len(u) + Len(v)
    BY <2>1, <2>2, Joined
  <2> QED
    BY <2>1, <2>2, <2>3, <2>4
<1> HIDE DEF b
<1>5. Len(out) + Len(b) <= ImageLen(img) + 10
  BY <1>1, <1>2, <1>4
<1>6. Early(b, next)
  BY <1>1, <1>3, <1>4, <1>5 DEF Early
<1> QED
  BY <1>1, <1>6, EarlyStep

LEMMA OffsetStep == ASSUME RowsInv, TextInv, WriteOffset PROVE TextInv'
<1> DEFINE b == LE(ImageLen(img) + 8, 4)
           next == "pixels"
<1>1. img \in Images /\ pc = "offset" /\ Len(out) = 4 /\ at = 0 /\ Write(b, next) /\ UNCHANGED <<img, at, field, area>>
  BY DEF RowsInv, TextInv, WriteOffset
<1>2. LaidOut(Encoding(img), img) /\ ImageLen(img) \in Nat
  BY <1>1, PlaceSizes
<1>3. Lies(Encoding(img), 4, b)
  BY <1>2 DEF LaidOut
<1>4. b \in Seq(Int) /\ Len(b) = 4
  <2>1. ImageLen(img) + 8 \in Int
    BY <1>2
  <2> QED
    BY <2>1, LEIs
<1> HIDE DEF b
<1>5. Len(out) + Len(b) <= ImageLen(img) + 10
  BY <1>1, <1>2, <1>4
<1>6. Early(b, next)
  BY <1>1, <1>3, <1>4, <1>5 DEF Early
<1> QED
  BY <1>1, <1>6, EarlyStep

LEMMA PixStep == ASSUME RowsInv, TextInv, WritePix PROVE TextInv'
<1> DEFINE b == RowsText(img)
           next == "count"
           rows == [r \in 1 .. img.dy |-> PixRow(img, r - 1)]
<1>1. img \in Images /\ pc = "pixels" /\ Len(out) = 8 /\ at = 0 /\ UNCHANGED <<img, at, field, area>>
  BY DEF RowsInv, TextInv, WritePix
<1>2. Write(FlattenSeq(rows), next) /\ ByBytes(img)
  BY DEF WritePix, Together
<1>3. \A r \in 1 .. img.dy : PixRow(img, r - 1) = RowWritten(img, r - 1)
  <2>1. img.type \notin Deep
    BY <1>2 DEF ByBytes, Deep
  <2> QED
    BY <2>1 DEF RowWritten, Row16
<1>4. rows = RowTexts(img)
  BY <1>3 DEF RowTexts
<1>5. Write(b, next)
  BY <1>2, <1>4 DEF RowsText
<1>6. LaidOut(Encoding(img), img) /\ ImageLen(img) \in Nat
  BY <1>1, PlaceSizes
<1>7. Lies(Encoding(img), 8, b)
  BY <1>6 DEF LaidOut
<1>8. b \in Seq(Int) /\ Len(b) = ImageLen(img)
  BY <1>1, RowTextsAre
<1> HIDE DEF b
<1>9. Len(out) + Len(b) <= ImageLen(img) + 10 /\ Len(out) + Len(b) = ImageLen(img) + 8
  BY <1>1, <1>6, <1>8
<1>10. Early(b, next)
  BY <1>1, <1>5, <1>7, <1>8, <1>9 DEF Early
<1> QED
  BY <1>1, <1>10, EarlyStep

LEMMA RowStep == ASSUME RowsInv, TextInv, WriteRow PROVE TextInv'
<1> DEFINE b == RowWritten(img, y)
           next == IF ByBytes(img) THEN "advance" ELSE "row"
           n == RowLen(img)
           o == y * n
           l == ImageLen(img)
<1>1. img \in Images /\ pc \in {"pixels", "row"} /\ at = 0 /\ Write(b, next) /\ UNCHANGED <<img, at, field, area>>
  BY DEF RowsInv, TextInv, WriteRow
<1>2. y \in 0 .. img.dy - 1 /\ y \in Int
  <2>1. img.dy \in Nat
    BY <1>1, ImageIs
  <2>2. y \in Nat /\ y < img.dy
    BY <1>1, <2>1 DEF RowsInv, WriteRow
  <2> QED
    BY <2>1, <2>2
<1>3. n \in Nat /\ o \in Nat /\ l \in Nat
  <2>1. n \in Nat /\ l \in Nat
    BY <1>1, ImageIs
  <2>2. y * n \in Nat
    BY <1>2, <2>1, SMT
  <2> QED
    BY <2>1, <2>2
<1>4. Len(out) = 8 + o
  <2>1. pc = "row" => Len(out) = 8 + o
    BY DEF RowsInv
  <2>2. CASE pc = "pixels"
    <3>1. y = 0 /\ Len(out) = 8
      BY <2>2 DEF RowsInv
    <3>2. o = 0
      BY <1>3, <3>1
    <3> QED
      BY <3>1, <3>2
  <2> QED
    BY <1>1, <2>1, <2>2
<1>5. LaidOut(Encoding(img), img)
  BY <1>1, PlaceSizes
<1>6. Lies(Encoding(img), 8 + o, b)
  BY <1>2, <1>5 DEF LaidOut
<1>7. b \in Seq(Int)
  BY <1>1, <1>2, PixRowIs
<1>8. o + Len(b) <= l
  <2>1. Len(RowsText(img)) = l /\ Lies(RowsText(img), o, b)
    BY <1>1, <1>2, RowTextsAre
  <2> QED
    BY <2>1 DEF Lies
<1> HIDE DEF b, o, l, next
<1>9. Len(out) + Len(b) <= l + 10
  BY <1>3, <1>4, <1>7, <1>8
<1>10. next \in {"advance", "row"}
  BY DEF next
<1>11. Early(b, next)
  BY <1>1, <1>4, <1>6, <1>7, <1>9, <1>10 DEF Early, l
<1> QED
  BY <1>1, <1>11, EarlyStep

LEMMA CountStep == ASSUME RowsInv, TextInv, WriteCount PROVE TextInv'
<1> DEFINE b == LE(Count(img), 2)
           next == "entry"
           l == ImageLen(img)
<1>1. img \in Images /\ pc \in {"count", "pixels", "row"} /\ at = 0 /\ UNCHANGED <<img, at, field, area>>
  BY DEF RowsInv, TextInv, WriteCount
<1>2. LaidOut(Encoding(img), img) /\ l \in Nat /\ Len(Sorted[img]) = Count(img) /\ Count(img) \in Nat
  BY <1>1, PlaceSizes
<1>3. Write(b, next)
  BY <1>2 DEF WriteCount
<1>4. Len(out) = l + 8
  <2>1. CASE pc = "count"
    BY <2>1 DEF TextInv
  <2>2. CASE pc # "count"
    <3>1. y = img.dy /\ pc \in {"pixels", "row"}
      BY <2>2 DEF WriteCount
    <3>2. img.dy * RowLen(img) = l /\ img.dy \in Nat /\ RowLen(img) \in Nat
      BY <1>1, RowTextsAre, ImageIs
    <3>3. CASE pc = "pixels"
      <4>1. Len(out) = 8 /\ img.dy = 0
        BY <3>1, <3>3 DEF RowsInv
      <4>2. l = 0
        BY <3>2, <4>1
      <4> QED
        BY <4>1, <4>2
    <3>4. CASE pc = "row"
      <4>1. Len(out) = 8 + y * RowLen(img)
        BY <3>4 DEF RowsInv
      <4>2. y * RowLen(img) = l
        BY <3>1, <3>2
      <4> HIDE DEF l
      <4> QED
        BY <1>2, <4>1, <4>2
    <3> QED
      BY <3>1, <3>3, <3>4
  <2> QED
    BY <2>1, <2>2
<1>5. Lies(Encoding(img), l + 8, b)
  BY <1>2 DEF LaidOut
<1>6. b \in Seq(Int) /\ Len(b) = 2
  <2>1. Count(img) \in Int
    BY <1>2
  <2> QED
    BY <2>1, LEIs
<1> HIDE DEF b, l
<1>7. Len(out) + Len(b) = l + 10 /\ Len(out) + Len(b) <= l + 10
  BY <1>2, <1>4, <1>6
<1>8. Early(b, next)
  BY <1>1, <1>3, <1>4, <1>5, <1>6, <1>7 DEF Early, l
<1> QED
  BY <1>1, <1>8, EarlyStep

LEMMA AdvanceStep == ASSUME RowsInv, TextInv, Advance PROVE TextInv'
<1>1. /\ pc = "advance" /\ pc' \in {"row", "panic"} /\ at = 0
      /\ img' = img /\ out' = out /\ at' = at /\ field' = field /\ area' = area
  BY DEF TextInv, Advance
<1>2. at' = 0 /\ pc' \notin {"count", "entry", "area", "done"}
  BY <1>1
<1>3. /\ out' \in Seq(Int) /\ Begins(out', Encoding(img'))
      /\ at' \in 0 .. Count(img') /\ field' = Buffers(img')[at'].field /\ area' = Buffers(img')[at'].area
      /\ at' = Count(img') \/ Len(out') <= EntryPlace(img', at' + 1)
  BY <1>1 DEF TextInv
<1> QED
  BY <1>2, <1>3 DEF TextInv

LEMMA EntryStep == ASSUME RowsInv, TextInv, WriteEntry PROVE TextInv'
<1> DEFINE n == Count(img)
           k == at + 1
           f == Encoding(img)
           s == Buffers(img)[at]
           e == Sorted[img][k]
           b == EntryText(img, k)
           next == "entry"
<1>1. img \in Images /\ pc = "entry" /\ at < n /\ at \in 0 .. n
  <2>1. img \in Images /\ pc = "entry" /\ at < Len(Sorted[img]) /\ at \in 0 .. n
    BY DEF RowsInv, TextInv, WriteEntry
  <2> QED
    BY <2>1, PlaceSizes
<1>2. k \in 1 .. n /\ k - 1 = at /\ n \in Nat /\ k \in 0 .. n
  BY <1>1, PlaceSizes
<1>3. e = Entries(img)[k] /\ PutData(e) = Data(img, k)
  BY <1>1, SortedIs DEF Data
<1>4. field = s.field /\ area = s.area
  BY DEF TextInv
<1>5. AreaStart = Start(img)
  BY <1>1, PlaceSizes DEF AreaStart, Start
<1>6. Buffers(img)[k] = AfterEntry(img, k, s)
  <2>1. Filling(Buffers(img), img)
    BY <1>1, FillingIs
  <2> QED
    BY <1>2, <2>1 DEF Filling
<1>7. /\ field' = NextField(e)
      /\ area' = (IF Len(PutData(e)) <= 4 THEN area ELSE area \o PutData(e))
      /\ Write(((LE(Row(e.tag), 2) \o LE(TypeCode[e.type], 2)) \o LE(FieldCount(e), 4)) \o field', next)
      /\ at' = k /\ img' = img /\ y' = y
  BY DEF WriteEntry
<1>8. NextField(e) = IF Len(PutData(e)) <= 4 THEN PutData(e) \o SubSeq(field, Len(PutData(e)) + 1, 4)
                     ELSE LE(AreaStart + Len(area), 4)
  BY DEF NextField
<1> HIDE DEF e, s, k, f, n
<1>9. field' = AfterEntry(img, k, s).field /\ area' = AfterEntry(img, k, s).area
  BY <1>3, <1>4, <1>5, <1>7, <1>8 DEF AfterEntry
<1>10. field' = Buffers(img)[k].field /\ area' = Buffers(img)[k].area
  BY <1>6, <1>9
<1>11. Write(b, next)
  BY <1>3, <1>7, <1>10 DEF EntryText
<1>12. LaidOut(f, img) /\ f \in Seq(Int) /\ Len(out) = EntryPlace(img, k) /\ Len(out) \in Nat
  BY <1>1, PlaceSizes DEF TextInv, k, f
<1>13. Lies(f, Len(out), b)
  BY <1>2, <1>12 DEF LaidOut, n
<1>14. b \in Seq(Int) /\ Len(b) = 12
  <2>1. b \in Seq(Bytes) /\ Len(b) = 12
    BY <1>1, <1>2, EntryTextIs DEF n
  <2>2. Bytes \subseteq Int
    BY BaseIs DEF Bytes
  <2> QED
    BY <2>1, <2>2, SeqWider
<1> HIDE DEF b, next
<1>15. out \in Seq(Int) /\ Begins(out, f)
  BY DEF TextInv, f
<1>16. /\ out' \in Seq(Int) /\ Begins(out', f) /\ Len(out') <= Len(out) + Len(b)
       /\ \/ pc' = next /\ Len(out') = Len(out) + Len(b)
          \/ pc' = "error"
  BY <1>11, <1>12, <1>13, <1>14, <1>15, Writing
<1>17. EntryPlace(img, k + 1) = Len(out) + Len(b)
  <2>1. k \in Int
    BY <1>2
  <2> QED
    BY <1>1, <1>12, <1>14, <2>1, PlaceSizes
<1>18. Len(out') <= EntryPlace(img, k + 1) /\ (pc' = next => Len(out') = EntryPlace(img, k + 1))
       /\ pc' \in {"entry", "error"}
  BY <1>16, <1>17 DEF next
<1>19. /\ out' \in Seq(Int) /\ Begins(out', Encoding(img'))
       /\ at' \in 0 .. Count(img') /\ field' = Buffers(img')[at'].field /\ area' = Buffers(img')[at'].area
       /\ Len(out') <= EntryPlace(img', at' + 1)
       /\ pc' = "entry" => Len(out') = EntryPlace(img', at' + 1)
  BY <1>2, <1>7, <1>10, <1>16, <1>18 DEF f, n, next
<1> QED
  BY <1>18, <1>19 DEF TextInv

LEMMA NextStep == ASSUME RowsInv, TextInv, WriteNext PROVE TextInv'
<1> DEFINE n == Count(img)
           f == Encoding(img)
           b == LE(0, 4)
           next == "area"
<1>1. img \in Images /\ pc = "entry" /\ at = n
  <2>1. img \in Images /\ pc = "entry" /\ at = Len(Sorted[img])
    BY DEF RowsInv, WriteNext
  <2> QED
    BY <2>1, PlaceSizes
<1>2. Write(b, next) /\ img' = img /\ y' = y /\ at' = at /\ field' = field /\ area' = area
  BY DEF WriteNext
<1>3. /\ LaidOut(f, img) /\ f \in Seq(Int) /\ out \in Seq(Int) /\ Begins(out, f)
      /\ EntryPlace(img, n + 1) = Start(img) - 4 /\ Start(img) \in Nat
  BY <1>1, PlaceSizes DEF TextInv
<1>4. Len(out) = Start(img) - 4
  BY <1>1, <1>3 DEF TextInv
<1>5. Lies(f, Len(out), b)
  BY <1>3, <1>4 DEF LaidOut
<1>6. b \in Seq(Int) /\ Len(b) = 4
  BY LEIs
<1> HIDE DEF b, next, f
<1>7. /\ out' \in Seq(Int) /\ Begins(out', f)
      /\ \/ pc' = next /\ Len(out') = Len(out) + Len(b)
         \/ pc' = "error"
  BY <1>2, <1>3, <1>5, <1>6, Writing
<1>8. /\ out' \in Seq(Int) /\ Begins(out', Encoding(img'))
      /\ at' \in 0 .. Count(img') /\ field' = Buffers(img')[at'].field /\ area' = Buffers(img')[at'].area
      /\ at' = Count(img')
  BY <1>1, <1>2, <1>7 DEF f, TextInv
<1>9. pc' \in {"area", "error"} /\ (pc' = "area" => Len(out') = Start(img'))
  BY <1>2, <1>3, <1>4, <1>6, <1>7 DEF next
<1> QED
  BY <1>8, <1>9 DEF TextInv

LEMMA AreaStep == ASSUME RowsInv, TextInv, WriteArea PROVE TextInv'
<1> DEFINE n == Count(img)
           f == Encoding(img)
           b == Values(img)
           next == "done"
<1>1. img \in Images /\ pc = "area" /\ at = n /\ Len(out) = Start(img) /\ area = b
  BY DEF RowsInv, TextInv, WriteArea, Values
<1>2. Write(b, next) /\ img' = img /\ y' = y /\ at' = at /\ field' = field /\ area' = area
  BY <1>1 DEF WriteArea
<1>3. LaidOut(f, img) /\ f \in Seq(Int) /\ out \in Seq(Int) /\ Begins(out, f) /\ b \in Seq(Bytes)
  BY <1>1, PlaceSizes DEF TextInv
<1>4. Lies(f, Len(out), b) /\ Len(f) = Start(img) + Len(b)
  BY <1>1, <1>3 DEF LaidOut
<1>5. b \in Seq(Int)
  <2>1. Bytes \subseteq Int
    BY BaseIs DEF Bytes
  <2> QED
    BY <1>3, <2>1, SeqWider
<1> HIDE DEF b, next, f
<1>6. /\ out' \in Seq(Int) /\ Begins(out', f)
      /\ \/ pc' = next /\ Len(out') = Len(out) + Len(b)
         \/ pc' = "error"
  BY <1>2, <1>3, <1>4, <1>5, Writing
<1>7. /\ out' \in Seq(Int) /\ Begins(out', Encoding(img'))
      /\ at' \in 0 .. Count(img') /\ field' = Buffers(img')[at'].field /\ area' = Buffers(img')[at'].area
      /\ at' = Count(img')
  BY <1>1, <1>2, <1>6 DEF f, TextInv
<1>8. pc' \in {"done", "error"} /\ (pc' = "done" => Len(out') = Len(Encoding(img')))
  BY <1>1, <1>2, <1>4, <1>6 DEF next, f
<1> QED
  BY <1>7, <1>8 DEF TextInv

LEMMA TextInitially == ASSUME EncoderInit PROVE TextInv
<1>1. img \in Images /\ pc = "magic" /\ out = <<>> /\ at = 0 /\ field = <<0, 0, 0, 0>> /\ area = <<>>
  BY DEF EncoderInit
<1>2. Filling(Buffers(img), img) /\ Count(img) \in Nat /\ 0 < Count(img)
  BY <1>1, FillingIs, PlaceSizes
<1>3. Buffers(img)[0] = NoSlots
  BY <1>2 DEF Filling
<1>4. field = Buffers(img)[at].field /\ area = Buffers(img)[at].area
  BY <1>1, <1>3 DEF NoSlots
<1>5. out \in Seq(Int) /\ Len(out) = 0
  BY <1>1, EmptySeq
<1>6. Encoding(img) \in Seq(Int) /\ EntryPlace(img, 0 + 1) = ImageLen(img) + 10 /\ ImageLen(img) \in Nat
  BY <1>1, PlaceSizes
<1>7. Begins(out, Encoding(img))
  BY <1>5, <1>6 DEF Begins
<1>8. Len(out) <= EntryPlace(img, at + 1)
  BY <1>1, <1>5, <1>6
<1>9. at \in 0 .. Count(img)
  BY <1>1, <1>2
<1> QED
  BY <1>1, <1>4, <1>5, <1>7, <1>8, <1>9 DEF TextInv

LEMMA TextSteps == ASSUME RowsInv, TextInv, EncoderNext PROVE TextInv'
  BY MagicStep, OffsetStep, PixStep, RowStep, AdvanceStep, CountStep, EntryStep, NextStep, AreaStep
     DEF EncoderNext

LEMMA TextSame == ASSUME TextInv, UNCHANGED encoderVars PROVE TextInv'
  BY DEF TextInv, encoderVars

\* The directory, read from what Encode wrote.
SavedInv ==
    writer = "Encode" =>
        /\ file # <<>> => file = out /\ pc \in {"done", "error"}
        /\ head # NoHeader => /\ file # <<>> /\ head = ReadHeader(file)
                              /\ ifd = IF head.ok THEN ReadIFD(head, file, head.first) ELSE NoIFD

LEMMA SavedSteps == ASSUME SavedInv, [Next]_vars PROVE SavedInv'
<1>1. CASE writer = "caller" /\ file = <<>> /\ EntryNext /\ UNCHANGED <<encoderVars, writer, file, head, ifd>>
  <2>1. writer' # "Encode"
    BY <1>1
  <2> QED
    BY <2>1 DEF SavedInv
<1>2. CASE writer = "Encode" /\ EncoderNext /\ UNCHANGED <<entryVars, writer, file, head, ifd>>
  <2>1. pc \notin {"done", "error"}
    BY <1>2 DEF EncoderNext, WriteMagic, WriteOffset, WritePix, WriteRow, Advance, WriteCount, WriteEntry,
            WriteNext, WriteArea
  <2>2. file = <<>> /\ head = NoHeader
    BY <1>2, <2>1 DEF SavedInv
  <2>3. file' = <<>> /\ head' = NoHeader
    BY <1>2, <2>2
  <2> QED
    BY <2>3 DEF SavedInv
<1>3. CASE Save
  <2>1. writer' = writer /\ head' = head /\ out' = out /\ pc' = pc /\ file = <<>>
    BY <1>3 DEF Save, encoderVars
  <2>2. CASE writer = "Encode"
    <3>1. file' = out /\ pc \in {"done", "error"} /\ head = NoHeader
      BY <1>3, <2>1, <2>2 DEF Save, SavedInv
    <3> QED
      BY <2>1, <3>1 DEF SavedInv
  <2>3. CASE writer # "Encode"
    BY <2>1, <2>3 DEF SavedInv
  <2> QED
    BY <2>2, <2>3
<1>4. CASE ReadBack
  <2>1. /\ file' = file /\ file # <<>> /\ head' = ReadHeader(file) /\ writer' = writer /\ out' = out /\ pc' = pc
        /\ ifd' = IF head'.ok THEN ReadIFD(head', file, head'.first) ELSE NoIFD
    BY <1>4 DEF ReadBack, encoderVars
  <2> QED
    BY <2>1 DEF SavedInv
<1>5. CASE UNCHANGED vars
  <2>1. writer' = writer /\ file' = file /\ head' = head /\ ifd' = ifd /\ out' = out /\ pc' = pc
    BY <1>5 DEF vars, encoderVars
  <2> QED
    BY <2>1 DEF SavedInv
<1> QED
  BY <1>1, <1>2, <1>3, <1>4, <1>5 DEF Next

LEMMA TextInvariant == Spec => []TextInv
<1>1. Init => TextInv
  BY TextInitially DEF Init
<1>2. RowsInv /\ TextInv /\ [Next]_vars => TextInv'
  <2> SUFFICES ASSUME RowsInv, TextInv, [Next]_vars PROVE TextInv'
    OBVIOUS
  <2>1. EncoderNext \/ UNCHANGED encoderVars
    BY DEF Next, Save, ReadBack, vars
  <2> QED
    BY <2>1, TextSteps, TextSame
<1> QED
  BY <1>1, <1>2, RowsInvariant, PTL DEF Spec

LEMMA SavedInvariant == Spec => []SavedInv
<1>1. Init => SavedInv
  BY DEF Init, SavedInv
<1>2. SavedInv /\ [Next]_vars => SavedInv'
  BY SavedSteps
<1> QED
  BY <1>1, <1>2, PTL DEF Spec

LEMMA BeginsLies ==
    ASSUME NEW S, NEW f \in Seq(S), NEW g \in Seq(S), Begins(f, g), NEW b \in Seq(S), NEW o \in Nat, Lies(g, o, b),
           o + Len(b) <= Len(f)
    PROVE  Lies(f, o, b)
<1>1. Len(b) \in Nat /\ Len(f) \in Nat
  OBVIOUS
<1>2. ASSUME NEW k \in 1 .. Len(b) PROVE f[o + k] = b[k]
  <2>1. o + k \in 1 .. Len(f)
    BY <1>1
  <2>2. g[o + k] = b[k]
    BY DEF Lies
  <2> QED
    BY <2>1, <2>2 DEF Begins
<1> QED
  BY <1>2 DEF Lies

LEMMA DecodedInt ==
    ASSUME NEW order \in Orders, NEW bytes \in Seq(Int)
    PROVE  Decoded(order, bytes) \in Int
<1> DEFINE u == InOrder(order, bytes)
<1>1. u \in Seq(Int) /\ Decoded(order, bytes) = Number(u)
  BY InOrderTwice, DecodedIsNumber
<1> HIDE DEF u
<1>2. PICK h : Horner(h, u) /\ Number(u) = h[1]
  BY <1>1, NumberHorner
<1>3. h \in [1 .. Len(u) + 1 -> Int] /\ 1 \in 1 .. Len(u) + 1
  BY <1>1, <1>2 DEF Horner
<1> QED
  BY <1>1, <1>2, <1>3

\* In a file too short for the count of a directory there is none.
LEMMA ShortFile ==
    ASSUME NEW f \in Seq(Int), Len(f) < 10, NEW h, h = ReadHeader(f), h.ok
    PROVE  ~ DirectoryThere(h, f, h.first)
<1> DEFINE u == HeadBytes(f)
           order == IF SubSeq(u, 1, 2) = ByteOrderMark("II") THEN "II" ELSE "MM"
           at0(o, n) == Decoded(order, SubSeq(u, o + 1, o + n))
           big == at0(2, 2) = 43
<1>1. u \in Seq(Int) /\ Len(u) = 16 /\ order \in Orders
  <2> DEFINE sixteen == 16
  <2>1. sixteen \in Nat /\ sixteen = 16
    OBVIOUS
  <2> HIDE DEF sixteen
  <2>2. u \in Seq(Int) /\ Len(u) = sixteen
    BY <2>1, HeadIs
  <2> QED
    BY <2>2 DEF sixteen, Orders
<1>2. h.first = (IF big THEN at0(8, 8) ELSE at0(4, 4)) /\ h.first >= (IF big THEN 16 ELSE 8)
  BY Zenon DEF ReadHeader
<1> HIDE DEF u, order
<1>3. ASSUME NEW o \in Nat, NEW n \in Nat, o + n <= 16 PROVE at0(o, n) \in Int
  <2> DEFINE l == o + 1
             k == o + n
  <2>1. l \in Int /\ k \in Nat /\ 1 <= l /\ l <= k + 1 /\ k <= Len(u)
    BY <1>1, <1>3
  <2> HIDE DEF l, k
  <2>2. SubSeq(u, l, k) \in Seq(Int)
    BY <1>1, <2>1, SubSeqIs
  <2>3. Decoded(order, SubSeq(u, l, k)) \in Int
    BY <1>1, <2>2, DecodedInt
  <2> QED
    BY <2>3 DEF l, k
<1>4. at0(8, 8) \in Int /\ at0(4, 4) \in Int
  <2>1. 8 \in Nat /\ 4 \in Nat /\ 8 + 8 <= 16 /\ 4 + 4 <= 16
    OBVIOUS
  <2> HIDE DEF at0
  <2> QED
    BY <1>3, <2>1
<1> HIDE DEF at0, big
<1>5. h.first \in Int /\ h.first >= 8
  BY <1>2, <1>4
<1>6. CountSize(h) \in {2, 8}
  BY DEF CountSize
<1> QED
  BY <1>5, <1>6 DEF DirectoryThere

\* The file is the beginning of what Encode writes, whose sizes and offsets fit.
BeginsText(f, m) == m \in Images /\ f \in Seq(Int) /\ Begins(f, Encoding(m)) /\ Start(m) < Power[4]

AsEncoded(h, m) == h.ok /\ h.order = "II" /\ h.big = FALSE /\ h.first = ImageLen(m) + 8

LEMMA TextHead ==
    ASSUME NEW m, NEW f, BeginsText(f, m), Len(f) >= 8
    PROVE  AsEncoded(ReadHeader(f), m)
<1> DEFINE l == ImageLen(m)
           first == l + 8
           g == Encoding(m)
           mark == ByteOrderMark("II")
           magic == LE(42, 2)
           two == mark \o magic
           offset == LE(first, 4)
<1>1. m \in Images /\ f \in Seq(Int) /\ Begins(f, g)
  BY DEF BeginsText
<1>2. /\ l \in Nat /\ first \in Nat /\ first \in Int /\ g \in Seq(Int) /\ LaidOut(g, m) /\ Count(m) \in Nat
      /\ Start(m) = l + 14 + 12 * Count(m)
  <2>1. /\ l \in Nat /\ g \in Seq(Int) /\ LaidOut(g, m) /\ Count(m) \in Nat
        /\ Start(m) = l + 14 + 12 * Count(m)
    BY <1>1, PlaceSizes
  <2> HIDE DEF l
  <2> QED
    BY <2>1
<1>3. first < Power[4]
  <2>1. Power[4] \in Nat
    <3>1. 4 \in Widths
      BY DEF Widths
    <3> QED
      BY <3>1, Powers
  <2> QED
    BY <1>2, <2>1 DEF BeginsText
<1>4. Lies(g, 0, two) /\ Lies(g, 4, offset)
  BY <1>2 DEF LaidOut
<1>5. mark \in Seq(Int) /\ Len(mark) = 2 /\ magic \in Seq(Int) /\ Len(magic) = 2 /\ offset \in Seq(Int) /\ Len(offset) = 4
  <2>1. mark \in Seq(Int) /\ Len(mark) = 2
    BY MarkIs DEF Orders
  <2>2. 42 \in Int
    OBVIOUS
  <2> HIDE DEF first
  <2> QED
    BY <1>2, <2>1, <2>2, LEIs
<1>6. Classic \in Headers /\ Classic.order = "II" /\ Classic.big = FALSE
  BY DEF Classic, Headers, Orders
<1>7. Encoded("II", 42, 2) = magic /\ Encoded("II", first, 4) = offset
  BY DEF LE
<1> HIDE DEF first, l, g, mark, magic, two, offset
<1>8. two \in Seq(Int) /\ Len(two) = 4 /\ Lies(two, 0, mark) /\ Lies(two, 2, magic)
  <2>1. mark \o magic \in Seq(Int) /\ Len(mark \o magic) = Len(mark) + Len(magic)
    BY <1>5, Joined
  <2>2. Lies(mark \o magic, 0, mark) /\ Lies(mark \o magic, Len(mark), magic)
    BY <1>5, LiesFirst
  <2> QED
    BY <1>5, <2>1, <2>2 DEF two
<1>9. Lies(f, 0, two) /\ Lies(f, 4, offset)
  <2> DEFINE zero == 0
             four == 4
  <2>1. zero \in Nat /\ four \in Nat /\ Lies(g, zero, two) /\ Lies(g, four, offset)
    BY <1>4
  <2>2. zero + Len(two) <= Len(f) /\ four + Len(offset) <= Len(f)
    BY <1>5, <1>8
  <2> HIDE DEF zero, four
  <2>3. Lies(f, zero, two) /\ Lies(f, four, offset)
    BY <1>1, <1>2, <1>5, <1>8, <2>1, <2>2, BeginsLies
  <2> QED
    BY <2>3 DEF zero, four
<1>10. Lies(f, 0, mark) /\ Lies(f, 2, magic)
  <2>1. \A s \in Seq(Int) : \A o \in Nat : Lies(two, o, s) => Lies(f, o, s)
    BY <1>1, <1>8, <1>9, LiesThrough
  <2>2. 0 \in Nat /\ 2 \in Nat
    OBVIOUS
  <2> QED
    BY <1>5, <1>8, <2>1, <2>2
<1>11. Headed(f, Classic, first)
  BY <1>6, <1>7, <1>9, <1>10 DEF Headed, Version, mark
<1>12. HeadSize(Classic) <= first /\ first < Power[Word(Classic)]
  BY <1>2, <1>3, <1>6 DEF HeadSize, Word, first
<1>13. /\ ReadHeader(f).order = "II" /\ ReadHeader(f).big = FALSE
       /\ ReadHeader(f).first = first /\ ReadHeader(f).ok
  BY <1>1, <1>2, <1>6, <1>11, <1>12, HeaderRead
<1> QED
  BY <1>13 DEF AsEncoded, first, l

LEMMA LittleSizes ==
    ASSUME NEW h, NEW m, AsEncoded(h, m)
    PROVE  /\ Word(h) = 4 /\ CountSize(h) = 2 /\ EntrySize(h) = 12 /\ HeadSize(h) = 8
           /\ h.order = "II" /\ h.order \in Orders /\ h.big \in BOOLEAN
<1>1. h.order = "II" /\ h.big = FALSE /\ h.order \in Orders /\ h.big \in BOOLEAN
  BY DEF AsEncoded, Orders
<1>2. Word(h) = 4 /\ CountSize(h) = 2 /\ HeadSize(h) = 8
  BY <1>1, Zenon DEF Word, CountSize, HeadSize
<1> QED
  BY <1>1, <1>2 DEF EntrySize

\* The whole directory, or none.
LEMMA TextThere ==
    ASSUME NEW m, NEW f, BeginsText(f, m), NEW h, AsEncoded(h, m), NEW o, o = ImageLen(m) + 8
    PROVE  /\ Len(f) < Start(m) => ~ DirectoryThere(h, f, o)
           /\ Len(f) >= Start(m) => /\ DirectoryThere(h, f, o)
                                    /\ NumberAt(h, f, o, CountSize(h)) = Count(m)
                                    /\ NumberAt(h, f, EntriesEnd(h, f, o), Word(h)) = 0
<1> DEFINE l == ImageLen(m)
           n == Count(m)
           g == Encoding(m)
           s == Start(m)
           two == 2
           four == 4
           zero == 0
           end == s - 4
<1>1. m \in Images /\ f \in Seq(Int) /\ Begins(f, g)
  BY DEF BeginsText
<1>2. /\ l \in Nat /\ g \in Seq(Int) /\ LaidOut(g, m) /\ n \in Nat /\ s = l + 14 + 12 * n /\ s \in Nat
  BY <1>1, PlaceSizes
<1>3. n \in 12 .. 13 /\ n \in Int /\ n \in 0 .. 99
  BY <1>1, FillingIs
<1>4. CountSize(h) = two /\ Word(h) = four /\ EntrySize(h) = 12 /\ h.order \in Orders /\ h.order = "II"
  BY LittleSizes
<1>5. two \in Widths /\ four \in Widths /\ two \in 2 .. 8 /\ four \in 2 .. 8 /\ zero \in Int /\ zero \in 0 .. 99
  BY DEF Widths
<1>6. o \in Nat /\ end \in Nat
  BY <1>2
<1>7. Lies(g, o, Encoded(h.order, n, two)) /\ Lies(g, end, Encoded(h.order, zero, four))
  BY <1>2, <1>4 DEF LaidOut, LE
<1>8. /\ two = 2 /\ four = 4 /\ zero = 0 /\ end = s - 4
  OBVIOUS
<1> HIDE DEF two, four, zero, end, l, n, g, s
<1>9. /\ Encoded(h.order, n, two) \in Seq(Int) /\ Len(Encoded(h.order, n, two)) = two
      /\ Encoded(h.order, zero, four) \in Seq(Int) /\ Len(Encoded(h.order, zero, four)) = four
  BY <1>3, <1>4, <1>5, EncodedInts
<1>10. ASSUME Len(f) >= o + 2 PROVE NumberAt(h, f, o, two) = n
  <2>1. o + Len(Encoded(h.order, n, two)) <= Len(f)
    BY <1>8, <1>9, <1>10
  <2>2. Lies(f, o, Encoded(h.order, n, two))
    BY <1>1, <1>2, <1>6, <1>7, <1>9, <2>1, BeginsLies
  <2>3. NumberAt(h, f, o, two) = n % Power[two]
    BY <1>1, <1>3, <1>4, <1>5, <1>6, <2>2, NumberLies
  <2>4. n % Power[two] = n
    BY <1>3, <1>5, SmallNumbers
  <2> QED
    BY <2>3, <2>4
<1>11. ASSUME Len(f) >= o + 2 PROVE EntriesEnd(h, f, o) = s - 4
  <2>1. NumberAt(h, f, o, CountSize(h)) = n
    BY <1>4, <1>10, <1>11
  <2>2. o + CountSize(h) + n * EntrySize(h) = s - 4
    <3>1. o = l + 8
      BY DEF l
    <3>2. s = l + 14 + 12 * n /\ l \in Nat /\ n \in Nat
      BY <1>2
    <3>3. CountSize(h) = 2 /\ EntrySize(h) = 12
      BY <1>4, <1>8
    <3> QED
      BY <3>1, <3>2, <3>3
  <2> QED
    BY <2>1, <2>2 DEF EntriesEnd
<1>12. ASSUME Len(f) < s PROVE ~ DirectoryThere(h, f, o)
  <2>1. CASE Len(f) < o + 2
    BY <1>1, <1>4, <1>6, <1>8, <2>1 DEF DirectoryThere
  <2>2. CASE Len(f) >= o + 2
    <3>1. EntriesEnd(h, f, o) + Word(h) = s
      BY <1>2, <1>4, <1>8, <1>11, <2>2
    <3> QED
      BY <1>1, <1>2, <1>12, <3>1 DEF DirectoryThere
  <2> QED
    BY <1>1, <1>6, <2>1, <2>2
<1>13. ASSUME Len(f) >= s
       PROVE  DirectoryThere(h, f, o) /\ NumberAt(h, f, o, CountSize(h)) = n
              /\ NumberAt(h, f, EntriesEnd(h, f, o), Word(h)) = 0
  <2>1. Len(f) >= o + 2 /\ o + two <= Len(f)
    BY <1>1, <1>2, <1>3, <1>8, <1>13 DEF l
  <2>2. EntriesEnd(h, f, o) + Word(h) = s /\ EntriesEnd(h, f, o) = end
    BY <1>2, <1>4, <1>8, <1>11, <2>1
  <2>3. end + Len(Encoded(h.order, zero, four)) <= Len(f)
    <3>1. end + four = s
      BY <1>2, <1>8
    <3> QED
      BY <1>9, <1>13, <3>1
  <2>4. Lies(f, end, Encoded(h.order, zero, four))
    BY <1>1, <1>2, <1>6, <1>7, <1>9, <2>3, BeginsLies
  <2>5. NumberAt(h, f, end, four) = zero % Power[four]
    BY <1>1, <1>4, <1>5, <1>6, <2>4, NumberLies
  <2>6. zero % Power[four] = zero
    BY <1>5, SmallNumbers
  <2>7. NumberAt(h, f, EntriesEnd(h, f, o), Word(h)) = 0
    BY <1>4, <1>8, <2>2, <2>5, <2>6
  <2>8. NumberAt(h, f, o, CountSize(h)) = n
    BY <1>4, <1>10, <2>1
  <2>9. DirectoryThere(h, f, o)
    BY <1>4, <1>13, <2>1, <2>2 DEF DirectoryThere
  <2> QED
    BY <2>7, <2>8, <2>9
<1> QED
  BY <1>12, <1>13 DEF s, n

LEMMA BeforeGrows ==
    ASSUME NEW m \in Images, NEW i \in Int, NEW j \in Int, i <= j
    PROVE  Before(m, i) \in Nat /\ Before(m, j) \in Nat /\ Before(m, i) <= Before(m, j)
<1> DEFINE size == 6 * PaletteSize
           a == Alpha(m) > 0
           p == m.type = "Paletted"
           one(k) == IF k > 3 /\ a THEN 8 ELSE 0
           two(k) == IF k > 10 THEN 8 ELSE 0
           three(k) == IF k > 11 THEN 8 ELSE 0
           four(k) == IF k > 13 /\ p THEN size ELSE 0
<1>1. size \in Nat
  BY PaletteAssumption
<1>2. \A k \in Int : Before(m, k) = one(k) + two(k) + three(k) + four(k)
  BY DEF Before
<1> HIDE DEF size, a, p
<1>3. one(i) \in Nat /\ one(j) \in Nat /\ one(i) <= one(j)
  OBVIOUS
<1>4. two(i) \in Nat /\ two(j) \in Nat /\ two(i) <= two(j)
  OBVIOUS
<1>5. three(i) \in Nat /\ three(j) \in Nat /\ three(i) <= three(j)
  OBVIOUS
<1>6. four(i) \in Nat /\ four(j) \in Nat /\ four(i) <= four(j)
  BY <1>1
<1> HIDE DEF one, two, three, four
<1> QED
  BY <1>2, <1>3, <1>4, <1>5, <1>6

LEMMA SlotIs ==
    ASSUME NEW m \in Images, NEW i \in 1 .. Count(m), NEW u, u = Buffers(m)[i].field
    PROVE  /\ u \in Seq(Bytes) /\ Len(u) = 4
           /\ Far(m, i) => u = LE(Start(m) + Before(m, i), 4)
           /\ ~ Far(m, i) => Lies(u, 0, Data(m, i))
<1> DEFINE k == i - 1
           s == Buffers(m)[k]
<1>1. k \in 0 .. Count(m) /\ i \in 0 .. Count(m) /\ k + 1 = i
  BY PlaceSizes
<1>2. s \in Slots /\ Len(s.area) = Before(m, k + 1) /\ Buffers(m)[i] \in Slots
  <2> HIDE DEF k
  <2> QED
    BY <1>1, AreaIs
<1>3. Buffers(m)[i] = AfterEntry(m, i, s)
  BY FillingIs DEF Filling
<1> HIDE DEF k, s
<1>4. /\ Far(m, i) => Buffers(m)[i].field = LE(Start(m) + Len(s.area), 4)
      /\ ~ Far(m, i) => Lies(Buffers(m)[i].field, 0, Data(m, i))
  BY <1>2, <1>3, AfterEntryIs
<1>5. u \in Seq(Bytes) /\ Len(u) = 4
  BY <1>2 DEF Slots
<1> QED
  BY <1>1, <1>2, <1>4, <1>5

\* All of the directory is in the file, and every offset fits.
HasIFD(f, m) ==
    BeginsText(f, m) /\ Len(f) >= Start(m) /\ Start(m) + Len(Values(m)) < Power[4]

RawOf(m, i) == Raw(RowNo(m, i), Entries(m)[i].type, FieldCount(Entries(m)[i]), Decoded("II", Buffers(m)[i].field))

LEMMA FarFits ==
    ASSUME NEW m \in Images, NEW i \in 1 .. Count(m), Start(m) + Len(Values(m)) < Power[4]
    PROVE  /\ Power[4] \in Nat /\ Power[4] > 4 /\ DataSize(m, i) < Power[4]
           /\ Far(m, i) => /\ Start(m) + Before(m, i) < Power[4]
                           /\ Before(m, i) + DataSize(m, i) <= Len(Values(m))
           /\ Len(Values(m)) = Before(m, Count(m) + 1)
<1> DEFINE n == Count(m)
           four == 4
           q == Power[4]
<1>1. q \in Nat /\ q > 4
  <2>1. four \in Widths /\ four \in 2 .. 8 /\ four \in 0 .. 99 /\ four = 4
    BY DEF Widths
  <2> HIDE DEF four
  <2>2. Power[four] \in Nat \ {0} /\ four < Power[four]
    BY <2>1, Powers, SmallNumbers
  <2> QED
    BY <2>1, <2>2
<1>2. n \in Nat /\ n \in 0 .. n /\ Start(m) \in Nat
  BY PlaceSizes
<1>3. Len(Values(m)) = Before(m, n + 1)
  BY <1>2, AreaIs DEF Values
<1>4. i \in Int /\ i + 1 \in Int /\ n + 1 \in Int /\ i + 1 <= n + 1 /\ i <= n + 1
  BY <1>2
<1>5. /\ Before(m, i) \in Nat /\ Before(m, i + 1) \in Nat /\ Before(m, n + 1) \in Nat
      /\ Before(m, i + 1) <= Before(m, n + 1) /\ Before(m, i) <= Before(m, n + 1)
  BY <1>4, BeforeGrows
<1>6. /\ DataSize(m, i) \in Nat \ {0} /\ (Far(m, i) <=> DataSize(m, i) > 4)
      /\ Before(m, i + 1) = Before(m, i) + (IF Far(m, i) THEN DataSize(m, i) ELSE 0)
  BY PlacesAre
<1> HIDE DEF n, q
<1>7. q > Start(m) + Len(Values(m))
  BY DEF q
<1>8. CASE Far(m, i)
  <2>1. Before(m, i) + DataSize(m, i) <= Len(Values(m)) /\ Before(m, i) <= Len(Values(m))
    BY <1>3, <1>5, <1>6, <1>8
  <2> QED
    BY <1>1, <1>2, <1>3, <1>5, <1>6, <1>7, <2>1 DEF q, n
<1>9. CASE ~ Far(m, i)
  BY <1>1, <1>3, <1>6, <1>9 DEF q, n
<1> QED
  BY <1>8, <1>9

LEMMA EntryFound ==
    ASSUME NEW m, NEW f, HasIFD(f, m), NEW h, AsEncoded(h, m), NEW i \in 1 .. Count(m)
    PROVE  EntryAt(h, f, EntryPlace(m, i)) = RawOf(m, i)
<1> DEFINE e == Entries(m)[i]
           p == EntryPlace(m, i)
           b == EntryText(m, i)
           value == Buffers(m)[i].field
           g == Encoding(m)
           tag == RowNo(m, i)
           count == FieldCount(e)
           q == Power[4]
           n == Count(m)
<1>1. m \in Images /\ f \in Seq(Int) /\ Begins(f, g) /\ Len(f) >= Start(m) /\ Start(m) + Len(Values(m)) < q
  BY DEF HasIFD, BeginsText
<1>2. /\ g \in Seq(Int) /\ LaidOut(g, m) /\ Start(m) = ImageLen(m) + 14 + 12 * n /\ ImageLen(m) \in Nat /\ n \in Nat
      /\ Start(m) \in Nat
  BY <1>1, PlaceSizes
<1>3. p \in Nat /\ p + 12 <= Start(m) /\ p + 2 \in Nat /\ p + 4 \in Nat /\ p + 8 \in Nat /\ p + 0 = p
  <2> DEFINE l == ImageLen(m)
  <2>1. p = l + 10 + 12 * (i - 1) /\ l \in Nat /\ Start(m) = l + 14 + 12 * n /\ i \in 1 .. n
    BY <1>2 DEF EntryPlace
  <2> HIDE DEF p, l, n
  <2> QED
    BY <1>2, <2>1
<1>4. Lies(g, p, b)
  BY <1>2 DEF LaidOut
<1>5. /\ b \in Seq(Bytes) /\ Len(b) = 12
      /\ Lies(b, 0, LE(Row(e.tag), 2)) /\ Lies(b, 2, LE(TypeCode[e.type], 2))
      /\ Lies(b, 4, LE(count, 4)) /\ Lies(b, 8, value)
  BY <1>1, EntryTextIs
<1>6. EntryFits(e, m, i)
  BY <1>1, DataIs
<1>7. /\ Row(e.tag) = tag /\ tag \in 1 .. 85 /\ tag \in 0 .. 99 /\ tag \in Int
      /\ e.type \in {"Short", "Long", "Rational"} /\ count \in Nat /\ count \in Int
      /\ count * ByteSize(e.type) = DataSize(m, i)
  <2>1. tag \in 1 .. 85
    BY <1>1, PlacesAre
  <2>2. /\ Row(e.tag) = tag /\ e.type \in {"Short", "Long", "Rational"} /\ count \in Nat
        /\ count * ByteSize(e.type) = DataSize(m, i)
    BY <1>6 DEF EntryFits, HasRow
  <2> HIDE DEF tag, count, e
  <2>3. tag \in 0 .. 99 /\ tag \in Int /\ count \in Int
    BY <2>1, <2>2
  <2> QED
    BY <2>1, <2>2, <2>3
<1>8. e.type \in Types /\ TypeCode[e.type] \in Int
  BY <1>7 DEF Types, TypeCode
<1>9. count < q
  <2>1. ByteSize(e.type) \in {2, 4, 8}
    BY <1>7 DEF ByteSize
  <2>2. DataSize(m, i) < q /\ q \in Nat /\ DataSize(m, i) \in Nat
    BY <1>1, FarFits, PlacesAre
  <2> HIDE DEF q, count, e
  <2>3. count <= DataSize(m, i)
    BY <1>7, <2>1
  <2> QED
    BY <1>7, <2>2, <2>3
<1>10. value \in Seq(Bytes) /\ Len(value) = 4
  BY <1>1, SlotIs
<1>11. Bytes \subseteq Int
  BY BaseIs DEF Bytes
<1> HIDE DEF e, p, b, value, g, tag, count, q, n
<1>12. b \in Seq(Int) /\ value \in Seq(Int)
  BY <1>5, <1>10, <1>11, SeqWider
<1>13. p + Len(b) <= Len(f)
  <2>1. Len(b) = 12 /\ p \in Nat /\ p + 12 <= Start(m) /\ Start(m) \in Nat
    BY <1>2, <1>3, <1>5
  <2>2. Len(f) \in Nat /\ Len(f) >= Start(m)
    BY <1>1
  <2> QED
    BY <2>1, <2>2
<1>14. Lies(f, p, b)
  BY <1>1, <1>2, <1>3, <1>4, <1>12, <1>13, BeginsLies
<1>15. /\ LE(tag, 2) \in Seq(Int) /\ LE(TypeCode[e.type], 2) \in Seq(Int) /\ LE(count, 4) \in Seq(Int)
  BY <1>7, <1>8, LEIs
<1>16. \A s \in Seq(Int) : \A o \in Nat : Lies(b, o, s) => Lies(f, p + o, s)
  BY <1>1, <1>3, <1>12, <1>14, LiesIn
<1>17. 0 \in Nat /\ 2 \in Nat /\ 4 \in Nat /\ 8 \in Nat
  OBVIOUS
<1>18. /\ Lies(f, p + 0, LE(tag, 2)) /\ Lies(f, p + 2, LE(TypeCode[e.type], 2))
       /\ Lies(f, p + 4, LE(count, 4)) /\ Lies(f, p + 8, value)
  BY <1>5, <1>7, <1>12, <1>15, <1>16, <1>17
<1>19. Word(h) = 4 /\ h.order = "II" /\ h.order \in Orders /\ h.big \in BOOLEAN
  BY LittleSizes
<1>20. p + 4 + Word(h) = p + 8
  BY <1>3, <1>19
<1>21. FieldsLie(f, h, p, tag, e.type, count, value)
  BY <1>1, <1>3, <1>7, <1>8, <1>9, <1>10, <1>18, <1>19, <1>20 DEF FieldsLie, LE, q
<1>22. EntryAt(h, f, p) = Raw(tag, e.type, count, Decoded(h.order, value))
  BY <1>21, EntryRead
<1> QED
  BY <1>19, <1>22 DEF RawOf, p, e, tag, count, value

LEMMA RawIs ==
    ASSUME NEW m, NEW f, HasIFD(f, m), NEW h, AsEncoded(h, m), NEW i \in 1 .. Count(m), NEW r, r = RawOf(m, i)
    PROVE  /\ r.tag = RowNo(m, i) /\ r.type = Entries(m)[i].type /\ r.count = FieldCount(Entries(m)[i])
           /\ r.count * ByteSize(r.type) = DataSize(m, i)
           /\ r.offset = Decoded("II", Buffers(m)[i].field)
           /\ Far(m, i) => r.offset = Start(m) + Before(m, i)
           /\ DataFails(h, f, r) <=> Far(m, i) /\ Start(m) + Before(m, i) >= Len(f)
<1> DEFINE e == Entries(m)[i]
           u == Buffers(m)[i].field
           v == Start(m) + Before(m, i)
           four == 4
<1>1. m \in Images /\ Start(m) + Len(Values(m)) < Power[4] /\ f \in Seq(Int)
  BY DEF HasIFD, BeginsText
<1>2. /\ r.tag = RowNo(m, i) /\ r.type = e.type /\ r.count = FieldCount(e) /\ r.offset = Decoded("II", u)
  BY DEF RawOf, Raw
<1>3. r.count * ByteSize(r.type) = DataSize(m, i)
  <2>1. EntryFits(e, m, i)
    BY <1>1, DataIs
  <2> QED
    BY <1>2, <2>1 DEF EntryFits
<1>4. Start(m) \in Nat /\ Start(m) >= 14 /\ Before(m, i) \in Nat /\ v \in Nat /\ v >= 14
  <2>1. Start(m) \in Nat /\ Start(m) = ImageLen(m) + 14 + 12 * Count(m) /\ ImageLen(m) \in Nat /\ Count(m) \in Nat
    BY <1>1, PlaceSizes
  <2>2. Before(m, i) \in Nat
    BY <1>1, PlacesAre
  <2> QED
    BY <2>1, <2>2
<1>5. ASSUME Far(m, i) PROVE r.offset = v
  <2>1. u = LE(v, four) /\ v < Power[four]
    BY <1>1, <1>5, SlotIs, FarFits
  <2>2. four \in Widths /\ "II" \in Orders /\ v \in Int
    BY <1>4 DEF Widths, Orders
  <2> HIDE DEF u, v, four
  <2>3. Decoded("II", LE(v, four)) = v % Power[four]
    BY <2>2, DecodedEncoded DEF LE
  <2>4. v % Power[four] = v
    BY <1>4, <2>1, <2>2, Fits
  <2> QED
    BY <1>2, <2>1, <2>3, <2>4
<1>6. Word(h) = 4 /\ HeadSize(h) = 8
  BY LittleSizes
<1>7. Far(m, i) <=> DataSize(m, i) > 4
  BY <1>1, DataIs
<1>8. DataFails(h, f, r) <=> DataSize(m, i) > 4 /\ (r.offset < 8 \/ r.offset >= Len(f))
  BY <1>3, <1>6 DEF DataFails
<1> HIDE DEF v
<1>9. DataFails(h, f, r) <=> Far(m, i) /\ v >= Len(f)
  <2>1. CASE Far(m, i)
    <3>1. r.offset = v /\ ~ (v < 8)
      BY <1>4, <1>5, <2>1
    <3> QED
      BY <1>7, <1>8, <2>1, <3>1
  <2>2. CASE ~ Far(m, i)
    BY <1>7, <1>8, <2>2
  <2> QED
    BY <2>1, <2>2
<1> QED
  BY <1>2, <1>3, <1>5, <1>9 DEF v

LEMMA NoDirectory ==
    ASSUME NEW h, NEW f, NEW o, ~ DirectoryThere(h, f, o)
    PROVE  ReadIFD(h, f, o) = NoIFD
  BY Zenon DEF ReadIFD

LEMMA DirectoryFails ==
    ASSUME NEW h, NEW f, NEW o, NEW n \in Nat, NumberAt(h, f, o, CountSize(h)) = n,
           NEW es, \A i \in 1 .. n : EntryAt(h, f, o + CountSize(h) + (i - 1) * EntrySize(h)) = es[i],
           \A i, j \in 1 .. n : es[i].tag = es[j].tag => i = j,
           NEW k \in 1 .. n, DataFails(h, f, es[k])
    PROVE  ReadIFD(h, f, o) = NoIFD
<1> DEFINE count == NumberAt(h, f, o, CountSize(h))
           read == [i \in 1 .. count |-> EntryAt(h, f, o + CountSize(h) + (i - 1) * EntrySize(h))]
           last == {i \in 1 .. count : \A j \in i + 1 .. count : read[j].tag # read[i].tag}
           entry0(tag) == read[CHOOSE i \in last : read[i].tag = tag]
           all == [tag \in {read[i].tag : i \in last} |-> [entry0(tag) EXCEPT !.data = EntryData(h, f, entry0(tag))]]
           next == NumberAt(h, f, EntriesEnd(h, f, o), Word(h))
<1>1. ReadIFD(h, f, o) = IF ~ DirectoryThere(h, f, o) \/ \E i \in last : DataFails(h, f, read[i])
                         THEN NoIFD
                         ELSE [ok |-> TRUE, entries |-> all, next |-> next]
  BY Zenon DEF ReadIFD
<1>2. count = n
  OBVIOUS
<1> HIDE DEF count, all, next
<1>3. \A i \in 1 .. n : read[i] = es[i]
  BY <1>2
<1> HIDE DEF read
<1>4. last = 1 .. n
  <2>1. ASSUME NEW i \in 1 .. n, NEW j \in i + 1 .. n PROVE read[j].tag # read[i].tag
    <3>1. j \in 1 .. n /\ j # i
      OBVIOUS
    <3> QED
      BY <1>3, <3>1
  <2> QED
    BY <1>2, <2>1
<1> HIDE DEF last
<1>5. \E i \in last : DataFails(h, f, read[i])
  BY <1>3, <1>4
<1> QED
  BY <1>1, <1>5

LacksValue(f, m, i) == Far(m, i) /\ Start(m) + Before(m, i) >= Len(f)

Found(d, f, h, m) ==
    /\ d.ok /\ d.next = 0 /\ DOMAIN d.entries = {RowNo(m, i) : i \in 1 .. Count(m)}
    /\ \A i \in 1 .. Count(m) :
          d.entries[RowNo(m, i)] = [RawOf(m, i) EXCEPT !.data = EntryData(h, f, RawOf(m, i))]

LEMMA TextRead ==
    ASSUME NEW m, NEW f, HasIFD(f, m), NEW h, AsEncoded(h, m), NEW o, o = ImageLen(m) + 8, NEW d, d = ReadIFD(h, f, o)
    PROVE  /\ (\E i \in 1 .. Count(m) : LacksValue(f, m, i)) => d = NoIFD
           /\ ~ (\E i \in 1 .. Count(m) : LacksValue(f, m, i)) => Found(d, f, h, m)
<1> DEFINE n == Count(m)
           es == [i \in 1 .. n |-> RawOf(m, i)]
<1>1. m \in Images /\ BeginsText(f, m) /\ Len(f) >= Start(m)
  BY DEF HasIFD, BeginsText
<1>2. n \in Nat /\ ImageLen(m) \in Nat
  BY <1>1, PlaceSizes
<1>3. /\ DirectoryThere(h, f, o) /\ NumberAt(h, f, o, CountSize(h)) = n
      /\ NumberAt(h, f, EntriesEnd(h, f, o), Word(h)) = 0
  BY <1>1, TextThere
<1>4. CountSize(h) = 2 /\ EntrySize(h) = 12
  BY LittleSizes
<1>5. \A i \in 1 .. n : es[i] = RawOf(m, i) /\ es[i].tag = RowNo(m, i)
  <2> SUFFICES ASSUME NEW i \in 1 .. n PROVE es[i] = RawOf(m, i) /\ es[i].tag = RowNo(m, i)
    OBVIOUS
  <2>1. es[i] = RawOf(m, i)
    OBVIOUS
  <2> HIDE DEF es
  <2> QED
    BY <2>1, RawIs
<1> HIDE DEF es
<1>6. ASSUME NEW i \in 1 .. n PROVE EntryAt(h, f, o + CountSize(h) + (i - 1) * EntrySize(h)) = es[i]
  <2>1. o + CountSize(h) + (i - 1) * EntrySize(h) = EntryPlace(m, i)
    <3> DEFINE l == ImageLen(m)
    <3>1. o = l + 8 /\ l \in Nat /\ EntryPlace(m, i) = l + 10 + 12 * (i - 1)
      BY <1>2 DEF EntryPlace
    <3> HIDE DEF l
    <3>2. (i - 1) * 12 = 12 * (i - 1)
      BY <1>2
    <3> QED
      BY <1>2, <1>4, <3>1, <3>2
  <2>2. EntryAt(h, f, EntryPlace(m, i)) = RawOf(m, i)
    BY EntryFound
  <2> QED
    BY <1>5, <2>1, <2>2
<1>7. ASSUME NEW i \in 1 .. n, NEW j \in 1 .. n, es[i].tag = es[j].tag PROVE i = j
  <2>1. RowNo(m, i) = RowNo(m, j) /\ RowNo(m, i) \in Int /\ RowNo(m, j) \in Int
    <3>1. RowNo(m, i) \in 1 .. 85 /\ RowNo(m, j) \in 1 .. 85
      BY <1>1, PlacesAre
    <3>2. RowNo(m, i) = RowNo(m, j)
      BY <1>5, <1>7
    <3> QED
      BY <3>1, <3>2
  <2>2. i < j => RowNo(m, i) < RowNo(m, j)
    BY <1>1, PlacesAre
  <2>3. j < i => RowNo(m, j) < RowNo(m, i)
    BY <1>1, PlacesAre
  <2> QED
    BY <1>2, <2>1, <2>2, <2>3
<1>8. \A i \in 1 .. n : DataFails(h, f, es[i]) <=> LacksValue(f, m, i)
  <2> SUFFICES ASSUME NEW i \in 1 .. n PROVE DataFails(h, f, es[i]) <=> LacksValue(f, m, i)
    OBVIOUS
  <2>1. DataFails(h, f, RawOf(m, i)) <=> Far(m, i) /\ Start(m) + Before(m, i) >= Len(f)
    BY RawIs
  <2> QED
    BY <1>5, <2>1 DEF LacksValue
<1>9. ASSUME NEW k \in 1 .. n, LacksValue(f, m, k) PROVE d = NoIFD
  <2>1. DataFails(h, f, es[k])
    BY <1>8, <1>9
  <2> HIDE DEF n
  <2> QED
    BY <1>2, <1>3, <1>6, <1>7, <2>1, DirectoryFails
<1>10. ASSUME ~ (\E i \in 1 .. n : LacksValue(f, m, i)) PROVE Found(d, f, h, m)
  <2>1. \A i \in 1 .. n : ~ DataFails(h, f, es[i])
    BY <1>8, <1>10
  <2> HIDE DEF n
  <2>5. \A i, j \in 1 .. n : es[i].tag = es[j].tag => i = j
    BY <1>7
  <2>6. Listed(h, f, o, n, es)
    BY <1>2, <1>3, <1>6, <2>1, <2>5 DEF Listed
  <2>7. ListRead(d, h, f, o, n, es)
    BY <2>6, DirectoryRead
  <2>2. /\ d.ok /\ d.next = NumberAt(h, f, EntriesEnd(h, f, o), Word(h)) /\ DOMAIN d.entries = {es[i].tag : i \in 1 .. n}
        /\ \A i \in 1 .. n : d.entries[es[i].tag] = [es[i] EXCEPT !.data = EntryData(h, f, es[i])]
    BY <2>7, Zenon DEF ListRead
  <2>3. {es[i].tag : i \in 1 .. n} = {RowNo(m, i) : i \in 1 .. n}
    BY <1>5
  <2>4. \A i \in 1 .. n : d.entries[RowNo(m, i)] = [RawOf(m, i) EXCEPT !.data = EntryData(h, f, RawOf(m, i))]
    <3> SUFFICES ASSUME NEW i \in 1 .. n
                 PROVE  d.entries[RowNo(m, i)] = [RawOf(m, i) EXCEPT !.data = EntryData(h, f, RawOf(m, i))]
      OBVIOUS
    <3>1. d.entries[es[i].tag] = [es[i] EXCEPT !.data = EntryData(h, f, es[i])]
      BY <2>2
    <3>2. es[i] = RawOf(m, i) /\ es[i].tag = RowNo(m, i)
      BY <1>5
    <3> QED
      BY <3>1, <3>2, Zenon
  <2> QED
    BY <1>3, <2>2, <2>3, <2>4 DEF Found, n
<1> QED
  BY <1>9, <1>10

\* The last value outside the directory.
LastFar(m) == IF m.type = "Paletted" THEN 13 ELSE 11

LEMMA LastFarIs ==
    ASSUME NEW m \in Images
    PROVE  /\ LastFar(m) \in 1 .. Count(m) /\ LastFar(m) > 1 /\ Far(m, LastFar(m))
           /\ \A i \in 1 .. Count(m) : Far(m, i) => i <= LastFar(m)
<1>1. Count(m) \in 12 .. 13 /\ (m.type = "Paletted" => Count(m) = 13)
  BY DEF Count
<1>2. CASE m.type = "Paletted"
  <2>1. LastFar(m) = 13 /\ Count(m) = 13
    BY <1>1, <1>2 DEF LastFar
  <2> QED
    BY <1>2, <2>1 DEF Far
<1>3. CASE m.type # "Paletted"
  <2>1. LastFar(m) = 11
    BY <1>3 DEF LastFar
  <2>2. ASSUME NEW i \in 1 .. Count(m), Far(m, i) PROVE i <= 11
    BY <1>1, <1>3, <2>2 DEF Far
  <2>3. Far(m, 11)
    BY DEF Far
  <2> QED
    BY <1>1, <2>1, <2>2, <2>3
<1> QED
  BY <1>2, <1>3

FarParts(m, l, long) == [i \in 1 .. l |-> IF i \in long THEN Data(m, i) ELSE <<>>]

LEMMA ValuesBefore ==
    ASSUME NEW m \in Images, NEW l \in 1 .. Count(m), NEW long, long = {i \in 1 .. Count(m) : Far(m, i)},
           NEW ss, ss = FarParts(m, l, long)
    PROVE  Len(FlattenSeq(ss)) = Before(m, l + 1)
<1>1. l \in Nat /\ l >= 1
  BY PlaceSizes
<1>2. ASSUME NEW i \in 1 .. l
      PROVE  /\ ss[i] \in Seq(Bytes)
             /\ Before(m, i + 1) = Before(m, i) + Len(ss[i]) /\ Before(m, i) \in Nat
  <2>1. i \in 1 .. Count(m)
    BY PlaceSizes
  <2>2. ss[i] = IF Far(m, i) THEN Data(m, i) ELSE <<>>
    BY <2>1 DEF FarParts
  <2>3. Data(m, i) \in Seq(Bytes) /\ Len(Data(m, i)) = DataSize(m, i)
    BY <2>1, DataIs
  <2>4. Before(m, i + 1) = Before(m, i) + (IF Far(m, i) THEN DataSize(m, i) ELSE 0) /\ Before(m, i) \in Nat
    BY <2>1, PlacesAre
  <2>5. <<>> \in Seq(Bytes) /\ Len(<<>>) = 0
    BY EmptySeq
  <2> QED
    BY <2>2, <2>3, <2>4, <2>5
<1>3. ss \in Seq(Seq(Bytes)) /\ Len(ss) = l
  BY <1>1, <1>2 DEF FarParts
<1> DEFINE u == FlattenSeq(ss)
<1>4. PICK f : Joins(f, ss, Bytes) /\ u = f[Len(ss)]
  <2>1. Len(ss) # 0
    BY <1>1, <1>3
  <2> QED
    BY <1>3, <2>1, FlattenJoins
<1>5. f \in [1 .. l -> Seq(Bytes)] /\ f[1] = ss[1] /\ \A i \in 2 .. l : f[i] = f[i - 1] \o ss[i]
  BY <1>3, <1>4 DEF Joins
<1> DEFINE T == {i \in 0 .. l : i = 0 \/ Len(f[i]) = Before(m, i + 1)}
<1>6. ASSUME NEW i \in T, i < l PROVE i + 1 \in T
  <2> DEFINE k == i + 1
  <2>1. k \in 1 .. l /\ k \in 0 .. l /\ k - 1 = i
    BY <1>1, <1>6
  <2>2. ss[k] \in Seq(Bytes) /\ Before(m, k + 1) = Before(m, k) + Len(ss[k]) /\ Before(m, k) \in Nat
    BY <1>2, <2>1
  <2>3. CASE i = 0
    <3>1. k = 1
      BY <2>3
    <3> HIDE DEF k
    <3>2. Before(m, k) = 0
      BY <3>1 DEF Before
    <3>3. Len(f[k]) = Before(m, k + 1)
      BY <1>5, <2>2, <3>1, <3>2
    <3> QED
      BY <2>1, <3>3 DEF k
  <2>4. CASE i # 0
    <3>1. k \in 2 .. l /\ i \in 1 .. l /\ Len(f[i]) = Before(m, k)
      BY <1>6, <2>1, <2>4
    <3> HIDE DEF k
    <3>2. f[k] = f[i] \o ss[k] /\ f[i] \in Seq(Bytes)
      BY <1>5, <2>1, <3>1
    <3>3. Len(f[i] \o ss[k]) = Len(f[i]) + Len(ss[k])
      BY <2>2, <3>2, Joined
    <3>4. Len(f[k]) = Before(m, k + 1)
      BY <2>2, <3>1, <3>2, <3>3
    <3> QED
      BY <2>1, <3>4 DEF k
  <2> QED
    BY <2>3, <2>4
<1>7. 0 \in T /\ T \in SUBSET (0 .. l)
  BY <1>1
<1> HIDE DEF T
<1>8. T = 0 .. l
  BY <1>1, <1>6, <1>7, InductionTo
<1>9. Len(f[l]) = Before(m, l + 1)
  BY <1>1, <1>8 DEF T
<1> QED
  BY <1>3, <1>4, <1>9

LEMMA LastValueIs == ASSUME img \in Images PROVE LastValueAt = Start(img) + Before(img, LastFar(img))
<1> DEFINE m == img
           n == Count(m)
           es == Sorted[m]
           long == {i \in DOMAIN es : Len(PutData(es[i])) > 4}
           last == CHOOSE i \in long : \A j \in long : j <= i
           l == LastFar(m)
           k == l - 1
<1>1. es = Entries(m) /\ DOMAIN es = 1 .. n
  BY SortedIs, EntriesAre DEF Fitting
<1>2. l \in 1 .. n /\ l > 1 /\ Far(m, l) /\ \A i \in 1 .. n : Far(m, i) => i <= l
  BY LastFarIs
<1>3. n \in Nat /\ Len(Sorted[m]) = n
  BY PlaceSizes
<1>4. \A i \in 1 .. n : PutData(es[i]) = Data(m, i) /\ (Far(m, i) <=> Len(PutData(es[i])) > 4)
  <2> SUFFICES ASSUME NEW i \in 1 .. n PROVE PutData(es[i]) = Data(m, i) /\ (Far(m, i) <=> Len(PutData(es[i])) > 4)
    OBVIOUS
  <2>1. PutData(es[i]) = Data(m, i)
    BY <1>1 DEF Data
  <2>2. Far(m, i) <=> Len(Data(m, i)) > 4
    BY DataIs
  <2> QED
    BY <2>1, <2>2
<1>5. LastValueAt = AreaStart + Len(FlattenSeq([i \in 1 .. last - 1 |-> IF i \in long THEN PutData(es[i]) ELSE <<>>]))
  BY Zenon DEF LastValueAt
<1>6. AreaStart = Start(m)
  BY <1>3 DEF AreaStart, Start
<1> HIDE DEF es, l
<1>7. long = {i \in 1 .. n : Far(m, i)}
  BY <1>1, <1>4
<1> HIDE DEF long
<1>8. last = l
  <2>1. l \in long /\ \A j \in long : j <= l
    BY <1>2, <1>7
  <2>2. last \in long /\ \A j \in long : j <= last
    BY <2>1
  <2>3. last \in Int /\ l \in Int
    BY <1>3, <1>7, <2>1, <2>2
  <2> HIDE DEF last
  <2> QED
    BY <2>1, <2>2, <2>3
<1> HIDE DEF last
<1> DEFINE ss == [i \in 1 .. k |-> IF i \in long THEN Data(m, i) ELSE <<>>]
           tt == [i \in 1 .. last - 1 |-> IF i \in long THEN PutData(es[i]) ELSE <<>>]
<1>9. k \in 1 .. n /\ k + 1 = l /\ last - 1 = k
  BY <1>2, <1>3, <1>8
<1>10. tt = ss
  <2>1. \A i \in 1 .. k : PutData(es[i]) = Data(m, i)
    BY <1>3, <1>4, <1>9
  <2> HIDE DEF k
  <2> QED
    BY <1>9, <2>1
<1>11. Len(FlattenSeq(ss)) = Before(m, k + 1)
  <2> HIDE DEF k
  <2>1. ss = FarParts(m, k, long)
    BY DEF FarParts
  <2>2. m \in Images /\ k \in 1 .. Count(m) /\ long = {i \in 1 .. Count(m) : Far(m, i)}
    BY <1>7, <1>9
  <2> HIDE DEF ss, n, m
  <2> QED
    BY <2>1, <2>2, ValuesBefore
<1> HIDE DEF ss, tt
<1>12. Len(FlattenSeq(tt)) = Before(m, l)
  BY <1>9, <1>10, <1>11
<1> QED
  BY <1>5, <1>6, <1>12 DEF tt, l

\* Of what Encode left behind, when it failed, the directory is read iff the last value has begun.
CutFile(f, h, d, m) ==
    /\ BeginsText(f, m) /\ h = ReadHeader(f) /\ d = IF h.ok THEN ReadIFD(h, f, h.first) ELSE NoIFD
    /\ Len(f) >= Start(m) => HasIFD(f, m)

LEMMA NoneIsNone == NoIFD.ok = FALSE
  BY DEF NoIFD

LEMMA CutFileRead ==
    ASSUME NEW f, NEW h, NEW d, NEW m, CutFile(f, h, d, m)
    PROVE  d.ok <=> Len(f) > Start(m) + Before(m, LastFar(m))
<1> DEFINE l == LastFar(m)
           o == ImageLen(m) + 8
<1>1. /\ m \in Images /\ f \in Seq(Int) /\ BeginsText(f, m) /\ h = ReadHeader(f)
      /\ d = IF h.ok THEN ReadIFD(h, f, h.first) ELSE NoIFD
  BY DEF CutFile, BeginsText
<1>2. /\ l \in 1 .. Count(m) /\ Far(m, l) /\ \A i \in 1 .. Count(m) : Far(m, i) => i <= l
      /\ Count(m) \in Nat
  BY <1>1, LastFarIs, PlaceSizes
<1>3. /\ Start(m) \in Nat /\ Start(m) >= 10 /\ Len(f) \in Nat /\ ImageLen(m) \in Nat
  <2>1. ImageLen(m) \in Nat /\ Count(m) \in Nat /\ Start(m) = ImageLen(m) + 14 + 12 * Count(m)
    BY <1>1, PlaceSizes
  <2> QED
    BY <1>1, <2>1
<1>4. l \in Int /\ Before(m, l) \in Nat /\ \A i \in Int : i <= l => Before(m, i) <= Before(m, l) /\ Before(m, i) \in Nat
  <2>1. l \in Int
    BY <1>2
  <2> HIDE DEF l
  <2> QED
    BY <1>1, <2>1, BeforeGrows
<1> HIDE DEF l
<1>5. CASE Len(f) < Start(m)
  <2>1. d.ok = FALSE
    <3>1. CASE ~ h.ok
      BY <1>1, <3>1, NoneIsNone
    <3>2. CASE h.ok /\ Len(f) < 10
      <4>1. ~ DirectoryThere(h, f, h.first)
        BY <1>1, <3>2, ShortFile
      <4>2. ReadIFD(h, f, h.first) = NoIFD
        BY <4>1, NoDirectory
      <4> QED
        BY <1>1, <4>2, NoneIsNone
    <3>3. CASE h.ok /\ Len(f) >= 10
      <4>1. Len(f) >= 8
        BY <1>3, <3>3
      <4>2. AsEncoded(h, m)
        BY <1>1, <4>1, TextHead
      <4>3. h.first = o
        BY <4>2 DEF AsEncoded
      <4> HIDE DEF o
      <4>4. ~ DirectoryThere(h, f, o)
        BY <1>1, <1>5, <4>2, TextThere DEF o
      <4>5. ReadIFD(h, f, h.first) = NoIFD
        BY <4>3, <4>4, NoDirectory
      <4> QED
        BY <1>1, <4>5, NoneIsNone
    <3>4. Len(f) < 10 \/ Len(f) >= 10
      BY <1>3
    <3> QED
      BY <3>1, <3>2, <3>3, <3>4, Zenon
  <2>2. ~ (Len(f) > Start(m) + Before(m, l))
    BY <1>3, <1>4, <1>5
  <2> QED
    BY <2>1, <2>2 DEF l
<1>6. CASE Len(f) >= Start(m)
  <2>1. HasIFD(f, m)
    BY <1>6 DEF CutFile
  <2>2. Len(f) >= 8
    BY <1>3, <1>6
  <2>3. AsEncoded(h, m)
    BY <1>1, <2>2, TextHead
  <2>4. h.ok /\ h.first = o
    BY <2>3 DEF AsEncoded
  <2>5. d = ReadIFD(h, f, o)
    BY <1>1, <2>4
  <2> HIDE DEF o
  <2>6. /\ (\E i \in 1 .. Count(m) : LacksValue(f, m, i)) => d = NoIFD
        /\ ~ (\E i \in 1 .. Count(m) : LacksValue(f, m, i)) => Found(d, f, h, m)
    BY <2>1, <2>3, <2>5, TextRead DEF o
  <2>7. (\E i \in 1 .. Count(m) : LacksValue(f, m, i)) <=> Start(m) + Before(m, l) >= Len(f)
    <3>1. ASSUME NEW i \in 1 .. Count(m), LacksValue(f, m, i) PROVE Start(m) + Before(m, l) >= Len(f)
      <4>1. Far(m, i) /\ Start(m) + Before(m, i) >= Len(f)
        BY <3>1 DEF LacksValue
      <4>2. i <= l /\ i \in Int
        BY <1>2, <4>1
      <4>3. Before(m, i) <= Before(m, l) /\ Before(m, i) \in Nat
        BY <1>4, <4>2
      <4> QED
        BY <1>3, <1>4, <4>1, <4>3
    <3>2. ASSUME Start(m) + Before(m, l) >= Len(f) PROVE LacksValue(f, m, l)
      BY <1>2, <3>2 DEF LacksValue
    <3> QED
      BY <1>2, <3>1, <3>2
  <2>8. d.ok <=> ~ (Start(m) + Before(m, l) >= Len(f))
    BY <2>6, <2>7, NoneIsNone DEF Found
  <2>9. Start(m) + Before(m, l) \in Nat
    BY <1>3, <1>4
  <2> QED
    BY <1>3, <2>8, <2>9 DEF l
<1> QED
  BY <1>3, <1>5, <1>6

\* What writer Encode has left in the file begins what it writes; the directory is whole when
\* the values outside it are.
LEMMA EncoderFile ==
    ASSUME RowsInv, TextInv, SavedInv, writer = "Encode", head # NoHeader, OffsetsFit
    PROVE  /\ CutFile(file, head, ifd, img) /\ file = out /\ pc \in {"done", "error"} /\ img \in Images
           /\ pc = "done" => Len(file) = Len(Encoding(img)) /\ HasIFD(file, img)
<1> DEFINE f == Encoding(img)
           n == Count(img)
           s == Start(img)
<1>1. img \in Images
  BY DEF RowsInv
<1>2. /\ file = out /\ pc \in {"done", "error"} /\ head = ReadHeader(file)
      /\ ifd = IF head.ok THEN ReadIFD(head, file, head.first) ELSE NoIFD
  BY DEF SavedInv
<1>3. file \in Seq(Int) /\ Begins(file, f) /\ at \in 0 .. n /\ area = Buffers(img)[at].area
  BY <1>2 DEF TextInv
<1>4. n \in Nat /\ s \in Nat /\ ImageLen(img) \in Nat /\ s = ImageLen(img) + 14 + 12 * n /\ Len(Sorted[img]) = n
  BY <1>1, PlaceSizes
<1>5. Len(area) \in Nat
  <2>1. Buffers(img)[at] \in Slots
    BY <1>1, <1>3, AreaIs
  <2>2. area \in Seq(Bytes)
    BY <1>3, <2>1 DEF Slots
  <2> QED
    BY <2>2
<1>6. s + Len(area) < Power[4] /\ Power[4] \in Nat
  <2>1. AreaStart = s
    BY <1>4 DEF AreaStart
  <2>2. Power[4] \in Nat
    BY Powers DEF Widths
  <2> QED
    BY <2>1, <2>2 DEF OffsetsFit
<1>7. BeginsText(file, img)
  <2>1. s < Power[4]
    BY <1>4, <1>5, <1>6
  <2> QED
    BY <1>1, <1>3, <2>1 DEF BeginsText
<1>8. ASSUME Len(file) >= s PROVE HasIFD(file, img)
  <2>1. at = n
    <3>1. ASSUME at # n PROVE FALSE
      <4>1. Len(file) <= EntryPlace(img, at + 1)
        BY <1>2, <3>1 DEF TextInv
      <4>2. EntryPlace(img, at + 1) = ImageLen(img) + 10 + 12 * at
        <5> DEFINE k == at + 1
        <5>1. k - 1 = at
          BY <1>3
        <5> HIDE DEF k
        <5>2. EntryPlace(img, k) = ImageLen(img) + 10 + 12 * (k - 1)
          BY Zenon DEF EntryPlace
        <5> QED
          BY <5>1, <5>2 DEF k
      <4>3. Len(file) \in Nat
        BY <1>3
      <4> QED
        BY <1>3, <1>4, <1>8, <4>1, <4>2, <4>3
    <3> QED
      BY <3>1
  <2>2. area = Values(img)
    BY <1>3, <2>1 DEF Values
  <2> QED
    BY <1>6, <1>7, <1>8, <2>2 DEF HasIFD
<1>9. CutFile(file, head, ifd, img)
  BY <1>2, <1>7, <1>8 DEF CutFile
<1>10. ASSUME pc = "done" PROVE Len(file) = Len(f) /\ HasIFD(file, img)
  <2>1. Len(file) = Len(f)
    BY <1>2, <1>10 DEF TextInv
  <2>2. Len(f) = s + Len(Values(img)) /\ Values(img) \in Seq(Bytes)
    BY <1>1, PlaceSizes DEF LaidOut
  <2>3. Len(file) >= s
    BY <1>4, <2>1, <2>2
  <2> QED
    BY <1>8, <2>1, <2>3
<1> QED
  BY <1>1, <1>2, <1>9, <1>10

(* Encode writes the directory after the pixels and its values after it, in the order of the    *)
(* entries: of what a writer that fails leaves behind ReadIFD accepts a file only if the last   *)
(* of the values has begun.                                                                     *)
THEOREM CutFileFailsThm == Spec => []CutFileFails
<1>1. RowsInv /\ TextInv /\ SavedInv => CutFileFails
  <2> SUFFICES ASSUME RowsInv, TextInv, SavedInv, writer = "Encode", pc = "error", head # NoHeader, OffsetsFit
               PROVE  ifd.ok <=> Len(file) > LastValueAt
    BY DEF CutFileFails
  <2>1. CutFile(file, head, ifd, img) /\ img \in Images
    BY EncoderFile
  <2>2. LastValueAt = Start(img) + Before(img, LastFar(img))
    BY <2>1, LastValueIs
  <2> QED
    BY <2>1, <2>2, CutFileRead
<1> QED
  BY <1>1, RowsInvariant, TextInvariant, SavedInvariant, PTL

\* The whole of what Encode writes, and what was read of it.
ReadWhole(f, h, d, m) ==
    /\ m \in Images /\ LaidOut(f, m) /\ HasIFD(f, m) /\ AsEncoded(h, m) /\ Found(d, f, h, m)
    /\ Start(m) + Len(Values(m)) = Len(f)

LEMMA WholeRead ==
    ASSUME RowsInv, TextInv, SavedInv, EncodedAndRead, OffsetsFit
    PROVE  ReadWhole(file, head, ifd, img)
<1> DEFINE f == Encoding(img)
           h == head
           o == ImageLen(img) + 8
<1>1. writer = "Encode" /\ pc = "done" /\ head # NoHeader
  BY DEF EncodedAndRead
<1>2. /\ CutFile(file, h, ifd, img) /\ file = out /\ img \in Images
      /\ Len(file) = Len(f) /\ HasIFD(file, img)
  BY <1>1, EncoderFile
<1>3. file \in Seq(Int) /\ Begins(file, f) /\ f \in Seq(Int) /\ LaidOut(f, img)
  BY <1>2, PlaceSizes DEF TextInv
<1> HIDE DEF f
<1>4. file = f
  <2>1. \A k \in 1 .. Len(file) : file[k] = f[k]
    BY <1>3 DEF Begins
  <2>2. file = [k \in 1 .. Len(file) |-> file[k]] /\ f = [k \in 1 .. Len(f) |-> f[k]]
    BY <1>3
  <2> QED
    BY <1>2, <2>1, <2>2
<1>5. LaidOut(file, img)
  BY <1>3, <1>4
<1>6. Len(file) = Start(img) + Len(Values(img)) /\ Len(file) \in Nat
  BY <1>3, <1>5 DEF LaidOut
<1>7. BeginsText(file, img) /\ h = ReadHeader(file) /\ ifd = IF h.ok THEN ReadIFD(h, file, h.first) ELSE NoIFD
  BY <1>2 DEF CutFile
<1>8. Len(file) >= 8
  <2>1. Len(file) >= Start(img)
    BY <1>2 DEF HasIFD
  <2>2. Start(img) \in Nat /\ Start(img) = ImageLen(img) + 14 + 12 * Count(img)
        /\ ImageLen(img) \in Nat /\ Count(img) \in Nat
    BY <1>2, PlaceSizes
  <2> QED
    BY <1>6, <2>1, <2>2
<1>9. AsEncoded(h, img)
  BY <1>7, <1>8, TextHead
<1>10. h.ok /\ h.first = o
  BY <1>9 DEF AsEncoded
<1>11. ifd = ReadIFD(h, file, o)
  BY <1>7, <1>10
<1>12. ASSUME NEW i \in 1 .. Count(img) PROVE ~ LacksValue(file, img, i)
  <2> SUFFICES ASSUME Far(img, i) PROVE Start(img) + Before(img, i) < Len(file)
    <3>1. Start(img) + Before(img, i) \in Nat
      <4>1. Start(img) \in Nat
        BY <1>2, PlaceSizes
      <4>2. Before(img, i) \in Nat
        BY <1>2, PlacesAre
      <4> QED
        BY <4>1, <4>2
    <3> QED
      BY <1>6, <3>1 DEF LacksValue
  <2>1. Start(img) + Len(Values(img)) < Power[4]
    BY <1>2 DEF HasIFD
  <2>2. Before(img, i) + DataSize(img, i) <= Len(Values(img))
    BY <1>2, <2>1, FarFits
  <2>3. Before(img, i) \in Nat /\ DataSize(img, i) \in Nat \ {0}
    BY <1>2, PlacesAre
  <2>4. Start(img) \in Nat /\ Len(Values(img)) \in Nat
    BY <1>2, PlaceSizes
  <2> QED
    BY <1>6, <2>2, <2>3, <2>4
<1> HIDE DEF o, h
<1>13. Found(ifd, file, h, img)
  BY <1>2, <1>9, <1>11, <1>12, TextRead DEF o
<1> QED
  BY <1>2, <1>5, <1>6, <1>9, <1>13 DEF ReadWhole, h

\* An entry that was read has the type and the count that were written, and their bytes.
ReadAs(r, e, bytes) ==
    /\ r.type = e.type /\ r.count = FieldCount(e) /\ r.data \in Seq(Bytes) /\ Lies(r.data, 0, bytes)

LEMMA ValueRead ==
    ASSUME NEW f, NEW h, NEW d, NEW m, ReadWhole(f, h, d, m), NEW i \in 1 .. Count(m),
           NEW r, r = d.entries[RowNo(m, i)]
    PROVE  /\ ReadAs(r, Entries(m)[i], Data(m, i)) /\ r.count * ByteSize(r.type) = DataSize(m, i)
           /\ Far(m, i) => r.offset = Start(m) + Before(m, i)
<1> DEFINE q == RawOf(m, i)
           e == Entries(m)[i]
           u == Buffers(m)[i].field
           s == DataSize(m, i)
           b == Data(m, i)
           o == Start(m) + Before(m, i)
<1>1. m \in Images /\ HasIFD(f, m) /\ AsEncoded(h, m) /\ LaidOut(f, m) /\ f \in Seq(Int)
  BY DEF ReadWhole, LaidOut
<1>2. r = [q EXCEPT !.data = EntryData(h, f, q)]
  BY DEF ReadWhole, Found
<1>3. /\ q.tag = RowNo(m, i) /\ q.type = e.type /\ q.count = FieldCount(e)
      /\ q.count * ByteSize(q.type) = s /\ q.offset = Decoded("II", u) /\ (Far(m, i) => q.offset = o)
  BY <1>1, RawIs
<1>4. /\ r.type = q.type /\ r.count = q.count /\ r.offset = q.offset /\ r.data = EntryData(h, f, q)
  BY <1>2 DEF RawOf, Raw
<1>5. Word(h) = 4 /\ h.order = "II"
  BY <1>1, LittleSizes
<1>6. b \in Seq(Bytes) /\ Len(b) = s /\ s \in Nat \ {0} /\ (Far(m, i) <=> s > 4)
  BY <1>1, DataIs
<1>7. u \in Seq(Bytes) /\ Len(u) = 4 /\ (~ Far(m, i) => Lies(u, 0, b))
  BY <1>1, SlotIs
<1>8. Bytes \subseteq Int /\ 0 \in Bytes
  BY BaseIs DEF Bytes
<1> HIDE DEF q, e, u, s, b, o
<1>9. EntryData(h, f, q) = IF s <= 4 THEN Encoded("II", q.offset, 4) ELSE Padded(Stored(f, q.offset, s), s)
  BY <1>3, <1>5 DEF EntryData
<1>10. CASE ~ Far(m, i)
  <2>1. EntryData(h, f, q) = Encoded("II", Decoded("II", u), 4)
    BY <1>3, <1>6, <1>9, <1>10
  <2>2. "II" \in Orders /\ 4 \in Widths
    BY DEF Orders, Widths
  <2>3. EntryData(h, f, q) = u
    BY <1>7, <2>1, <2>2, EncodedDecoded
  <2>4. r.data \in Seq(Bytes) /\ Lies(r.data, 0, b)
    BY <1>4, <1>7, <1>10, <2>3
  <2> QED
    BY <1>3, <1>4, <1>10, <2>4 DEF ReadAs, e, b, s
<1>11. CASE Far(m, i)
  <2>1. Start(m) \in Nat /\ Before(m, i) \in Nat
    BY <1>1, PlaceSizes, PlacesAre
  <2>2. o \in Nat /\ q.offset = o
    BY <1>3, <1>11, <2>1 DEF o
  <2>3. Lies(f, o, b)
    <3> DEFINE n == Count(m)
               g == Values(m)
    <3>1. n \in Nat /\ n \in 0 .. n /\ g \in Seq(Bytes)
      BY <1>1, PlaceSizes
    <3>2. Lies(g, Before(m, i), b)
      <4>1. \A j \in 1 .. n : Far(m, j) => Lies(Buffers(m)[n].area, Before(m, j), Data(m, j))
        BY <1>1, <3>1, AreaIs
      <4> QED
        BY <1>11, <4>1 DEF Values, b
    <3>3. Lies(f, Start(m), g)
      BY <1>1 DEF LaidOut
    <3>4. g \in Seq(Int) /\ b \in Seq(Int)
      BY <1>6, <1>8, <3>1, SeqWider
    <3> HIDE DEF g
    <3> QED
      BY <1>1, <2>1, <3>2, <3>3, <3>4, LiesIn DEF o
  <2>4. Stored(f, o, s) = b
    <3>1. b \in Seq(Int)
      BY <1>6, <1>8, SeqWider
    <3> QED
      BY <1>1, <1>6, <2>2, <2>3, <3>1, LiesStored
  <2>5. EntryData(h, f, q) = Padded(b, s)
    BY <1>6, <1>9, <1>11, <2>2, <2>4
  <2>6. Padded(b, s) = b
    BY <1>6, <1>8, PaddedIs
  <2>7. Lies(b, 0, b)
    BY <1>6 DEF Lies
  <2>8. r.data \in Seq(Bytes) /\ Lies(r.data, 0, b)
    BY <1>4, <1>6, <2>5, <2>6, <2>7
  <2> QED
    BY <1>3, <1>4, <2>8 DEF ReadAs, e, b, s, o
<1> QED
  BY <1>10, <1>11

IntsFit(e) ==
    /\ e.type \in {"Short", "Long"} /\ e.values \in Seq(Nat)
    /\ \A i \in 1 .. Len(e.values) : e.values[i] < Power[ByteSize(e.type)]

LEMMA IntsRead ==
    ASSUME NEW e, IntsFit(e), NEW h, h.order = "II", NEW r, ReadAs(r, e, PutData(e))
    PROVE  GetInts(h, r) = e.values
<1> DEFINE vs == e.values
           n == ByteSize(e.type)
           c == Len(vs)
           b == PutData(e)
           t == r.data
<1>1. vs \in Seq(Nat) /\ vs \in Seq(Int) /\ c \in Nat /\ (e.type = "Short" \/ e.type = "Long")
  BY DEF IntsFit
<1>2. n \in {2, 4} /\ n \in Widths /\ n \in Nat
  <2>1. n = IF e.type = "Short" THEN 2 ELSE 4
    BY <1>1 DEF ByteSize
  <2> QED
    BY <2>1 DEF Widths
<1>3. e.type # "Rational" /\ e.type \in IntTypes /\ e.type \notin ReadSigned
  BY <1>1 DEF IntTypes, ReadSigned
<1>4. b = EncodedAll("II", vs, n)
  BY <1>3 DEF PutData
<1>5. r.type = e.type /\ r.count = c /\ t \in Seq(Bytes) /\ Lies(t, 0, b)
  BY <1>3 DEF ReadAs, FieldCount
<1>6. \A i \in 1 .. c : vs[i] < Power[n] /\ vs[i] \in Nat
  BY <1>1 DEF IntsFit
<1>7. GetInts(h, r) = [i \in 1 .. IF Whole(r) THEN r.count ELSE 0 |-> Decoded("II", Nth(t, i, n))]
  <2>1. GetInts(h, r) = Numbers(h, r, r.type \in ReadSigned)
    BY <1>3, <1>5 DEF GetInts
  <2>2. (r.type \in ReadSigned) = FALSE
    BY <1>3, <1>5
  <2>3. GetInts(h, r) = Numbers(h, r, FALSE)
    BY <2>1, <2>2
  <2>4. Numbers(h, r, FALSE) = [i \in 1 .. IF Whole(r) THEN r.count ELSE 0 |->
                                   LET v == Decoded(h.order, Nth(r.data, i, ByteSize(r.type)))
                                   IN  IF FALSE THEN Signed(v, ByteSize(r.type)) ELSE v]
    BY Zenon DEF Numbers
  <2>5. h.order = "II" /\ r.type = e.type
    BY <1>5
  <2> QED
    BY <2>3, <2>4, <2>5, Zenon
<1> HIDE DEF n, b, t, vs, c
<1>8. "II" \in Orders /\ vs \in Seq(Int)
  BY <1>1 DEF Orders
<1>9. b \in Seq(Bytes) /\ Len(b) = c * n /\ \A i \in 1 .. c : Nth(b, i, n) = Encoded("II", vs[i], n)
  BY <1>2, <1>4, <1>8, EncodedAllIs DEF c
<1>10. Whole(r)
  <2>1. Len(b) <= Len(t)
    <3>1. 0 + Len(b) <= Len(t)
      BY <1>5 DEF Lies
    <3> QED
      BY <1>9, <3>1
  <2>2. r.count * ByteSize(r.type) = c * n
    BY <1>5 DEF n
  <2> QED
    BY <1>9, <2>1, <2>2 DEF Whole, t
<1>11. \A i \in 1 .. c : Decoded("II", Nth(t, i, n)) = vs[i]
  <2> SUFFICES ASSUME NEW i \in 1 .. c PROVE Decoded("II", Nth(t, i, n)) = vs[i]
    OBVIOUS
  <2>1. Holds(b, c, n)
    <3>1. c * n \in Nat
      BY <1>1, <1>2
    <3> QED
      BY <1>9, <3>1 DEF Holds
  <2>2. Nth(t, i, n) = Nth(b, i, n)
    BY <1>1, <1>2, <1>5, <1>9, <2>1, NthWithin
  <2>3. Decoded("II", Encoded("II", vs[i], n)) = vs[i] % Power[n]
    BY <1>2, <1>6, <1>8, DecodedEncoded
  <2>4. vs[i] % Power[n] = vs[i]
    BY <1>2, <1>6, Fits
  <2> QED
    BY <1>9, <2>2, <2>3, <2>4
<1>12. GetInts(h, r) = [i \in 1 .. c |-> vs[i]]
  <2>1. GetInts(h, r) = [i \in 1 .. c |-> Decoded("II", Nth(t, i, n))]
    BY <1>5, <1>7, <1>10
  <2> QED
    BY <1>11, <2>1
<1>13. vs = [i \in 1 .. c |-> vs[i]]
  BY <1>1 DEF c
<1> QED
  BY <1>12, <1>13 DEF vs

\* The values of an entry, and what the getter of its tag makes of them.
Says(m, i, tag, form, values) ==
    /\ HasRow(tag, RowNo(m, i)) /\ Form(tag) = form
    /\ IntsFit(Entries(m)[i]) /\ Entries(m)[i].values = values

LEMMA SaidIsGot ==
    ASSUME NEW f, NEW h, NEW d, NEW m, ReadWhole(f, h, d, m), NEW i \in 1 .. Count(m),
           NEW tag, NEW form, NEW values, Says(m, i, tag, form, values)
    PROVE  /\ form = "one" => Get(h, d.entries, tag) = Exactly(1, values)
           /\ form = "ints" => Get(h, d.entries, tag) = Answer(values)
           /\ form = "colors" => Get(h, d.entries, tag) = Colors(values)
<1> DEFINE e == Entries(m)[i]
           r == d.entries[RowNo(m, i)]
<1>1. Row(tag) = RowNo(m, i) /\ Form(tag) = form /\ IntsFit(e) /\ e.values = values
  BY DEF Says, HasRow
<1>2. ReadAs(r, e, PutData(e))
  BY ValueRead DEF Data
<1>3. h.order = "II"
  BY DEF ReadWhole, AsEncoded
<1>4. RowNo(m, i) \in DOMAIN d.entries
  BY DEF ReadWhole, Found
<1> HIDE DEF e, r
<1>5. GetInts(h, r) = values
  BY <1>1, <1>2, <1>3, IntsRead
<1>6. Get(h, d.entries, tag) = MadeOf(h, r, form)
  <2>1. Get(h, d.entries, tag) = MadeOf(h, d.entries[Row(tag)], Form(tag))
    BY <1>1, <1>4, Zenon DEF Get
  <2> QED
    BY <1>1, <2>1, Zenon DEF r
<1>7. MadeOf(h, r, "one") = Exactly(1, GetInts(h, r))
  BY DEF MadeOf
<1>8. MadeOf(h, r, "ints") = Answer(GetInts(h, r))
  BY DEF MadeOf
<1>9. MadeOf(h, r, "colors") = Colors(GetInts(h, r))
  BY DEF MadeOf
<1> QED
  BY <1>5, <1>6, <1>7, <1>8, <1>9

LEMMA UnsaidIsNot ==
    ASSUME NEW h, NEW entries, NEW tag, Row(tag) \notin DOMAIN entries, Default(tag) = <<>>
    PROVE  Get(h, entries, tag) = NoAnswer
  BY Zenon DEF Get

LEMMA FormsAre ==
    /\ Form("ImageWidth") = "one" /\ Form("ImageLength") = "one" /\ Form("BitsPerSample") = "ints"
    /\ Form("Compression") = "one" /\ Form("PhotometricInterpretation") = "one"
    /\ Form("StripOffsets") = "ints" /\ Form("SamplesPerPixel") = "one" /\ Form("RowsPerStrip") = "one"
    /\ Form("StripByteCounts") = "ints" /\ Form("ColorMap") = "colors" /\ Form("ExtraSamples") = "one"
    /\ Default("ExtraSamples") = <<>>
<1>1. /\ BaselineGetters[3][2] = "one" /\ BaselineGetters[4][2] = "one" /\ BaselineGetters[5][2] = "ints"
      /\ BaselineGetters[6][2] = "one" /\ BaselineGetters[7][2] = "one"
  BY DEF BaselineGetters
<1>2. /\ StripGetters[5][2] = "ints" /\ StripGetters[7][2] = "one" /\ StripGetters[8][2] = "one"
      /\ StripGetters[9][2] = "ints"
  BY DEF StripGetters
<1>3. DocumentGetters[9][2] = "colors"
  BY DEF DocumentGetters
<1>4. TileGetters[9][2] = "one" /\ TileGetters[9][3] = <<>>
  BY DEF TileGetters
<1>5. \A k \in 1 .. 11 : Getters[k] = BaselineGetters[k]
  BY Table
<1>6. \A k \in 1 .. 13 : Getters[11 + k] = StripGetters[k]
  BY Table
<1>7. \A k \in 1 .. 12 : Getters[36 + k] = DocumentGetters[k]
  BY Table
<1>8. \A k \in 1 .. 14 : Getters[48 + k] = TileGetters[k]
  BY Table
<1>9. /\ Getters[3][2] = "one" /\ Getters[4][2] = "one" /\ Getters[5][2] = "ints"
      /\ Getters[6][2] = "one" /\ Getters[7][2] = "one"
  BY <1>1, <1>5
<1>10. Getters[16] = StripGetters[5] /\ Getters[18] = StripGetters[7] /\ Getters[19] = StripGetters[8]
       /\ Getters[20] = StripGetters[9]
  <2>1. 11 + 5 = 16 /\ 11 + 7 = 18 /\ 11 + 8 = 19 /\ 11 + 9 = 20
    OBVIOUS
  <2>2. 5 \in 1 .. 13 /\ 7 \in 1 .. 13 /\ 8 \in 1 .. 13 /\ 9 \in 1 .. 13
    OBVIOUS
  <2> QED
    BY <1>6, <2>1, <2>2, Zenon
<1>11. Getters[45] = DocumentGetters[9] /\ Getters[57] = TileGetters[9]
  <2>1. 36 + 9 = 45 /\ 48 + 9 = 57
    OBVIOUS
  <2>2. 9 \in 1 .. 12 /\ 9 \in 1 .. 14
    OBVIOUS
  <2>3. Getters[36 + 9] = DocumentGetters[9]
    BY <1>7, <2>2
  <2>4. Getters[48 + 9] = TileGetters[9]
    BY <1>8, <2>2
  <2> QED
    BY <2>1, <2>3, <2>4
<1>12. /\ Row("ImageWidth") = 3 /\ Row("ImageLength") = 4 /\ Row("BitsPerSample") = 5 /\ Row("Compression") = 6
       /\ Row("PhotometricInterpretation") = 7 /\ Row("StripOffsets") = 16 /\ Row("SamplesPerPixel") = 18
       /\ Row("RowsPerStrip") = 19 /\ Row("StripByteCounts") = 20 /\ Row("ColorMap") = 45
       /\ Row("ExtraSamples") = 57
  BY RowNumbers DEF HasRow
<1>13. /\ Form("ImageWidth") = Getters[3][2] /\ Form("ImageLength") = Getters[4][2]
       /\ Form("BitsPerSample") = Getters[5][2] /\ Form("Compression") = Getters[6][2]
       /\ Form("PhotometricInterpretation") = Getters[7][2] /\ Form("StripOffsets") = Getters[16][2]
       /\ Form("SamplesPerPixel") = Getters[18][2] /\ Form("RowsPerStrip") = Getters[19][2]
       /\ Form("StripByteCounts") = Getters[20][2] /\ Form("ColorMap") = Getters[45][2]
       /\ Form("ExtraSamples") = Getters[57][2] /\ Default("ExtraSamples") = Getters[57][3]
  BY <1>12, Zenon DEF Form, Default
<1>14. /\ Getters[16][2] = "ints" /\ Getters[18][2] = "one" /\ Getters[19][2] = "one" /\ Getters[20][2] = "ints"
  BY <1>2, <1>10, Zenon
<1>15. Getters[45][2] = "colors" /\ Getters[57][2] = "one" /\ Getters[57][3] = <<>>
  BY <1>3, <1>4, <1>11, Zenon
<1> QED
  BY <1>9, <1>13, <1>14, <1>15

LEMMA SmallFit ==
    /\ \A v \in 0 .. 99 : v < Power[2] /\ v < Power[4]
    /\ ByteSize("Short") = 2 /\ ByteSize("Long") = 4
<1>1. ASSUME NEW v \in 0 .. 99 PROVE v < Power[2]
  <2> DEFINE two == 2
  <2>1. two \in 2 .. 8
    OBVIOUS
  <2> HIDE DEF two
  <2>2. v < Power[two]
    BY <2>1, SmallNumbers
  <2> QED
    BY <2>2 DEF two
<1>2. ASSUME NEW v \in 0 .. 99 PROVE v < Power[4]
  <2> DEFINE four == 4
  <2>1. four \in 2 .. 8
    OBVIOUS
  <2> HIDE DEF four
  <2>2. v < Power[four]
    BY <2>1, SmallNumbers
  <2> QED
    BY <2>2 DEF four
<1>3. ByteSize("Short") = 2 /\ ByteSize("Long") = 4
  BY DEF ByteSize
<1> QED
  BY <1>1, <1>2, <1>3

LEMMA OneFits ==
    ASSUME NEW tag, NEW t, NEW v \in Nat, (t = "Short" /\ v < Power[2]) \/ (t = "Long" /\ v < Power[4]),
           NEW e, e = Field(tag, t, <<v>>)
    PROVE  IntsFit(e) /\ e.values = <<v>>
<1>1. e.type = t /\ e.values = <<v>>
  BY DEF Field
<1> DEFINE vs == <<v>>
<1>2. vs \in Seq(Nat) /\ Len(vs) = 1 /\ vs[1] = v
  OBVIOUS
<1>3. t \in {"Short", "Long"} /\ v < Power[ByteSize(t)]
  BY SmallFit, Zenon
<1> HIDE DEF vs
<1>4. \A i \in 1 .. Len(vs) : vs[i] < Power[ByteSize(t)]
  BY <1>2, <1>3
<1> QED
  BY <1>1, <1>2, <1>3, <1>4 DEF IntsFit, vs

LEMMA CommonAre ==
    ASSUME NEW m \in Images, NEW es, es = Entries(m)
    PROVE  /\ Count(m) \in Nat /\ 12 <= Count(m)
           /\ es[1] = Field("ImageWidth", "Short", <<m.dx>>) /\ es[2] = Field("ImageLength", "Short", <<m.dy>>)
           /\ es[3] = Field("BitsPerSample", "Short", Bits(m)) /\ es[4] = Field("Compression", "Short", <<1>>)
           /\ es[5] = Field("PhotometricInterpretation", "Short", <<Photometric(m)>>)
           /\ es[6] = Field("StripOffsets", "Long", <<8>>)
           /\ es[7] = Field("SamplesPerPixel", "Short", <<Len(Bits(m))>>)
           /\ es[8] = Field("RowsPerStrip", "Short", <<m.dy>>)
           /\ es[9] = Field("StripByteCounts", "Long", <<ImageLen(m)>>)
           /\ m.type = "Paletted" => es[13] = Field("ColorMap", "Short", ColorMap) /\ Count(m) = 13
           /\ Alpha(m) > 0 => es[13] = Field("ExtraSamples", "Short", <<Alpha(m)>>) /\ Count(m) = 13
<1>1. Fitting(es, m)
  BY EntriesAre
<1> DEFINE cs == CommonEntries(m)
<1>2. \A i \in 1 .. 12 : es[i] = cs[i]
  BY <1>1 DEF Fitting
<1>3. /\ cs[1] = Field("ImageWidth", "Short", <<m.dx>>) /\ cs[2] = Field("ImageLength", "Short", <<m.dy>>)
      /\ cs[3] = Field("BitsPerSample", "Short", Bits(m)) /\ cs[4] = Field("Compression", "Short", <<1>>)
      /\ cs[5] = Field("PhotometricInterpretation", "Short", <<Photometric(m)>>)
      /\ cs[6] = Field("StripOffsets", "Long", <<8>>)
      /\ cs[7] = Field("SamplesPerPixel", "Short", <<Len(Bits(m))>>)
      /\ cs[8] = Field("RowsPerStrip", "Short", <<m.dy>>)
      /\ cs[9] = Field("StripByteCounts", "Long", <<ImageLen(m)>>)
  BY DEF CommonEntries
<1> HIDE DEF cs
<1>4. Count(m) \in 12 .. 13 /\ (m.type = "Paletted" \/ Alpha(m) > 0 => Count(m) = 13)
  BY Decided DEF Count
<1>5. /\ es[1] = cs[1] /\ es[2] = cs[2] /\ es[3] = cs[3] /\ es[4] = cs[4] /\ es[5] = cs[5]
      /\ es[6] = cs[6] /\ es[7] = cs[7] /\ es[8] = cs[8] /\ es[9] = cs[9]
  BY <1>2
<1>6. /\ m.type = "Paletted" => es[13] = Field("ColorMap", "Short", ColorMap)
      /\ Alpha(m) > 0 => es[13] = Field("ExtraSamples", "Short", <<Alpha(m)>>)
  BY <1>1 DEF Fitting
<1> QED
  BY <1>3, <1>4, <1>5, <1>6

LEMMA RowNosAre ==
    ASSUME NEW m \in Images
    PROVE  /\ RowNo(m, 1) = 3 /\ RowNo(m, 2) = 4 /\ RowNo(m, 3) = 5 /\ RowNo(m, 4) = 6 /\ RowNo(m, 5) = 7
           /\ RowNo(m, 6) = 16 /\ RowNo(m, 7) = 18 /\ RowNo(m, 8) = 19 /\ RowNo(m, 9) = 20
           /\ RowNo(m, 10) = 23 /\ RowNo(m, 11) = 24 /\ RowNo(m, 12) = 35
           /\ RowNo(m, 13) = IF m.type = "Paletted" THEN 45 ELSE 57
  BY DEF RowNo

\* What the strip's entries say, of images of any size.
LEMMA StripSays ==
    ASSUME NEW m \in Images, ImageLen(m) < Power[4]
    PROVE  /\ Says(m, 6, "StripOffsets", "ints", <<8>>)
           /\ Says(m, 9, "StripByteCounts", "ints", <<ImageLen(m)>>)
           /\ 6 \in 1 .. Count(m) /\ 9 \in 1 .. Count(m)
<1> DEFINE es == Entries(m)
           n == ImageLen(m)
<1>1. /\ es[6] = Field("StripOffsets", "Long", <<8>>) /\ es[9] = Field("StripByteCounts", "Long", <<n>>)
      /\ Count(m) \in Nat /\ 12 <= Count(m)
  BY CommonAre
<1>2. n \in Nat /\ n < Power[4]
  BY ImageIs
<1> HIDE DEF es, n
<1>3. IntsFit(es[6]) /\ es[6].values = <<8>>
  <2>1. 8 \in 0 .. 99 /\ 8 \in Nat
    OBVIOUS
  <2>2. 8 < Power[4]
    BY <2>1, SmallFit
  <2> DEFINE eight == 8
  <2>3. eight \in Nat /\ eight < Power[4] /\ es[6] = Field("StripOffsets", "Long", <<eight>>)
    BY <1>1, <2>1, <2>2
  <2> HIDE DEF eight
  <2>4. IntsFit(es[6]) /\ es[6].values = <<eight>>
    BY <2>3, OneFits
  <2> QED
    BY <2>4 DEF eight
<1>4. IntsFit(es[9]) /\ es[9].values = <<n>>
  BY <1>1, <1>2, OneFits
<1>5. Says(m, 6, "StripOffsets", "ints", <<8>>)
  BY <1>3, RowNosAre, RowNumbers, FormsAre DEF Says, es
<1>6. Says(m, 9, "StripByteCounts", "ints", <<n>>)
  BY <1>4, RowNosAre, RowNumbers, FormsAre DEF Says, es
<1> QED
  BY <1>1, <1>5, <1>6 DEF n

\* The tags of the image that was encoded, as BlockDecoder has them.
TagsOf(p, m) ==
    /\ RequiredTags \cup StripTags \subseteq p.tags /\ p.tags \cap TileTags = {}
    /\ p.bits = Bits(m) /\ p.extra = Alpha(m)
    /\ p.photometric = CASE Photometric(m) = 1 -> "BlackIsZero" [] Photometric(m) = 2 -> "RGB"
                         [] Photometric(m) = 3 -> "Paletted"

LEMMA ImageOfTags ==
    ASSUME NEW m \in Images, NEW p, TagsOf(p, m)
    PROVE  /\ Depth(p) = IF m.type \in Deep THEN 16 ELSE 8
           /\ Channels(p) = Len(Bits(m))
           /\ NewImage(p) = IF m.type = "Other" THEN "RGBA" ELSE m.type
           /\ ImageConfig(p) = NewImage(p)
<1> DEFINE b == p.bits
           depth == IF m.type \in Deep THEN 16 ELSE 8
           t == IF m.type = "Other" THEN "RGBA" ELSE m.type
<1>1. b = Bits(m) /\ b \in Seq(Nat) /\ Len(b) = (IF Alpha(m) > 0 THEN 4 ELSE 1) /\ \A i \in 1 .. Len(b) : b[i] = depth
  BY BitsAre DEF TagsOf
<1>2. HasTags(p)
  BY DEF TagsOf, HasTags
<1>3. b # <<>> /\ 1 \in 1 .. Len(b) /\ b[1] = depth
  <2>1. 1 \in 1 .. Len(b)
    BY <1>1
  <2>2. b # <<>>
    BY <2>1
  <2> QED
    BY <1>1, <2>1, <2>2
<1>4. Depth(p) = depth /\ Channels(p) = Len(b)
  <2>1. \A i \in 1 .. Len(b) : b[i] = b[1]
    BY <1>1, <1>3
  <2> QED
    BY <1>3, <2>1 DEF Depth, Channels
<1>5. m.type \in GoTypes /\ depth \in {8, 16}
  BY ImagesAssumption
<1>6. p.extra = Alpha(m)
  BY DEF TagsOf
<1>7. p.photometric = CASE Photometric(m) = 1 -> "BlackIsZero" [] Photometric(m) = 2 -> "RGB"
                        [] Photometric(m) = 3 -> "Paletted"
  BY DEF TagsOf
<1> DEFINE deep == b[1] = 16
<1>8. deep <=> m.type \in Deep
  BY <1>3
<1>9. \A i \in 1 .. Len(b) : b[i] = IF deep THEN 16 ELSE 8
  BY <1>1, <1>3
<1> HIDE DEF b, depth
<1>10. CASE m.type \in {"Gray", "Gray16"}
  <2>1. Alpha(m) = 0 /\ Photometric(m) = 1
    BY <1>10 DEF Alpha, Photometric
  <2>2. p.photometric = "BlackIsZero" /\ Len(b) = 1
    BY <1>1, <1>7, <2>1
  <2>3. ~ IsBilevel(p)
    BY <1>3, <1>5 DEF IsBilevel, b
  <2>4. ImageType(p) = "Gray"
    BY <1>2, <2>2, <2>3 DEF ImageType
  <2>5. NewImage(p) = IF depth = 16 THEN "Gray16" ELSE "Gray"
    BY <1>4, <2>4 DEF NewImage, Grays, NewGray, Sized
  <2>6. ImageConfig(p) = IF deep THEN "Gray16" ELSE "Gray"
    BY <1>3, <2>2 DEF ImageConfig, b
  <2>7. deep <=> depth = 16
    BY <1>3
  <2>8. depth = IF m.type = "Gray16" THEN 16 ELSE 8
    BY <1>10 DEF depth, Deep
  <2> QED
    BY <1>1, <1>4, <1>10, <2>5, <2>6, <2>7, <2>8 DEF depth
<1>11. CASE m.type = "Paletted"
  <2>1. Photometric(m) = 3
    BY <1>11 DEF Photometric
  <2>2. p.photometric = "Paletted"
    BY <1>7, <2>1
  <2>3. ImageType(p) = "Paletted"
    BY <1>2, <2>2 DEF ImageType
  <2>4. NewImage(p) = "Paletted"
    BY <2>3 DEF NewImage, Grays
  <2>5. ImageConfig(p) = "Paletted"
    BY <1>3, <2>2 DEF ImageConfig, b
  <2> QED
    BY <1>1, <1>4, <1>11, <2>4, <2>5 DEF depth
<1>12. CASE m.type \in {"RGBA", "RGBA64", "Other"}
  <2>1. Alpha(m) = 1 /\ Photometric(m) = 2
    BY <1>12 DEF Alpha, Photometric
  <2>2. p.photometric = "RGB" /\ Len(b) = 4 /\ p.extra = 1
    BY <1>1, <1>6, <1>7, <2>1
  <2>3. Channels(p) = 4
    BY <1>4, <2>2
  <2>4. ImageType(p) = "RGBA"
    BY <1>2, <2>2, <2>3 DEF ImageType
  <2>5. NewImage(p) = IF depth = 16 THEN "RGBA64" ELSE "RGBA"
    BY <1>4, <2>4 DEF NewImage, Grays, Sized
  <2>6. Premultiplied(p)
    BY <2>2, <2>3 DEF Premultiplied
  <2>7. ImageConfig(p) = IF deep THEN "RGBA64" ELSE "RGBA"
    BY <1>3, <1>9, <2>2, <2>6 DEF ImageConfig, b
  <2>8. deep <=> depth = 16
    BY <1>3
  <2>9. depth = IF m.type = "RGBA64" THEN 16 ELSE 8
    BY <1>12 DEF depth, Deep
  <2> QED
    BY <1>1, <1>4, <1>12, <2>5, <2>7, <2>8, <2>9 DEF depth
<1>13. CASE m.type \in {"NRGBA", "NRGBA64"}
  <2>1. Alpha(m) = 2 /\ Photometric(m) = 2
    BY <1>13 DEF Alpha, Photometric
  <2>2. p.photometric = "RGB" /\ Len(b) = 4 /\ p.extra = 2
    BY <1>1, <1>6, <1>7, <2>1
  <2>3. Channels(p) = 4
    BY <1>4, <2>2
  <2>4. ImageType(p) = "NRGBA"
    BY <1>2, <2>2, <2>3 DEF ImageType
  <2>5. NewImage(p) = IF depth = 16 THEN "NRGBA64" ELSE "NRGBA"
    BY <1>4, <2>4 DEF NewImage, Grays, Sized
  <2>6. ~ Premultiplied(p) /\ Straight(p)
    BY <2>2, <2>3 DEF Premultiplied, Straight
  <2>7. ImageConfig(p) = IF deep THEN "NRGBA64" ELSE "NRGBA"
    BY <1>3, <1>9, <2>2, <2>6 DEF ImageConfig, b
  <2>8. deep <=> depth = 16
    BY <1>3
  <2>9. depth = IF m.type = "NRGBA64" THEN 16 ELSE 8
    BY <1>13 DEF depth, Deep
  <2> QED
    BY <1>1, <1>4, <1>13, <2>5, <2>7, <2>8, <2>9 DEF depth
<1> QED
  BY <1>5, <1>10, <1>11, <1>12, <1>13 DEF GoTypes

LEMMA RowNoIn ==
    ASSUME NEW m \in Images, NEW i \in 1 .. Count(m)
    PROVE  RowNo(m, i) \in {3, 4, 5, 6, 7, 16, 18, 19, 20, 23, 24, 35, 45, 57}
<1>1. i \in 1 .. 13
  BY DEF Count
<1> QED
  BY <1>1, RowNosAre

\* The names of the tags in the directory.
LEMMA NamesRead ==
    ASSUME NEW f, NEW h, NEW d, NEW m, ReadWhole(f, h, d, m), NEW names, names = {Getters[k][1] : k \in DOMAIN d.entries}
    PROVE  RequiredTags \cup StripTags \subseteq names /\ names \cap TileTags = {}
<1>1. m \in Images /\ DOMAIN d.entries = {RowNo(m, i) : i \in 1 .. Count(m)}
  BY DEF ReadWhole, Found
<1>2. ASSUME NEW tag, NEW i \in 1 .. Count(m), HasRow(tag, RowNo(m, i)) PROVE tag \in names
  <2>1. tag \in Tags /\ Row(tag) = RowNo(m, i)
    BY <1>2 DEF HasRow
  <2>2. Getters[Row(tag)][1] = tag
    BY <2>1, RowIs
  <2>3. Row(tag) \in DOMAIN d.entries
    BY <1>1, <2>1
  <2> QED
    BY <2>2, <2>3
<1>3. 1 \in 1 .. Count(m) /\ 2 \in 1 .. Count(m) /\ 5 \in 1 .. Count(m) /\ 6 \in 1 .. Count(m) /\ 9 \in 1 .. Count(m)
  <2>1. Count(m) \in Nat /\ Count(m) \in 12 .. 13
    BY <1>1, FillingIs
  <2> QED
    BY <2>1
<1>4. /\ HasRow("ImageWidth", RowNo(m, 1)) /\ HasRow("ImageLength", RowNo(m, 2))
      /\ HasRow("PhotometricInterpretation", RowNo(m, 5)) /\ HasRow("StripOffsets", RowNo(m, 6))
      /\ HasRow("StripByteCounts", RowNo(m, 9))
  BY <1>1, RowNosAre, RowNumbers
<1>5. /\ "ImageWidth" \in names /\ "ImageLength" \in names /\ "PhotometricInterpretation" \in names
      /\ "StripOffsets" \in names /\ "StripByteCounts" \in names
  BY <1>2, <1>3, <1>4
<1>6. ASSUME NEW tag \in names, tag \in TileTags PROVE FALSE
  <2>1. PICK k \in DOMAIN d.entries : tag = Getters[k][1]
    OBVIOUS
  <2>2. k \in {3, 4, 5, 6, 7, 16, 18, 19, 20, 23, 24, 35, 45, 57}
    BY <1>1, RowNoIn
  <2>3. Numbered(Getters[k], k)
    <3>1. k \in 1 .. 85
      BY <2>2
    <3> QED
      BY <3>1, RowsNumbered
  <2>4. tag \in TileTags => k \in {47, 48, 49, 50}
    BY <2>1, <2>3 DEF Numbered, TileTags
  <2> QED
    BY <1>6, <2>2, <2>4
<1> QED
  BY <1>5, <1>6 DEF RequiredTags, StripTags

\* What the getters give of the directory that Encode wrote.
AllGot(h, entries, m) ==
    /\ Get(h, entries, "ImageWidth") = Answer(<<m.dx>>) /\ Get(h, entries, "ImageLength") = Answer(<<m.dy>>)
    /\ Get(h, entries, "BitsPerSample") = Answer(Bits(m)) /\ Get(h, entries, "Compression") = Answer(<<1>>)
    /\ Get(h, entries, "PhotometricInterpretation") = Answer(<<Photometric(m)>>)
    /\ Get(h, entries, "SamplesPerPixel") = Answer(<<Len(Bits(m))>>)
    /\ Get(h, entries, "RowsPerStrip") = Answer(<<m.dy>>)
    /\ Get(h, entries, "ExtraSamples") = IF Alpha(m) > 0 THEN Answer(<<Alpha(m)>>) ELSE NoAnswer
    /\ m.type = "Paletted" => Get(h, entries, "ColorMap") = Colors(ColorMap)

StripGot(h, entries, m) ==
    /\ Get(h, entries, "StripOffsets") = Answer(<<8>>)
    /\ Get(h, entries, "StripByteCounts") = Answer(<<ImageLen(m)>>)

LEMMA ExactlyOne == ASSUME NEW v PROVE Exactly(1, <<v>>) = Answer(<<v>>)
  BY DEF Exactly

LEMMA OneGot ==
    ASSUME NEW f, NEW h, NEW d, NEW m, ReadWhole(f, h, d, m), NEW i \in 1 .. Count(m),
           NEW tag, HasRow(tag, RowNo(m, i)), Form(tag) = "one",
           NEW v \in Nat, v < Power[2], Entries(m)[i] = Field(tag, "Short", <<v>>)
    PROVE  Get(h, d.entries, tag) = Answer(<<v>>)
<1> DEFINE e == Entries(m)[i]
<1>1. e = Field(tag, "Short", <<v>>)
  OBVIOUS
<1> HIDE DEF e
<1>2. IntsFit(e) /\ e.values = <<v>>
  BY <1>1, OneFits
<1>3. Says(m, i, tag, "one", <<v>>)
  BY <1>2 DEF Says, e
<1>4. Get(h, d.entries, tag) = Exactly(1, <<v>>)
  BY <1>3, SaidIsGot
<1> QED
  BY <1>4, ExactlyOne

LEMMA StripRow ==
    ASSUME NEW f, NEW h, NEW d, NEW m, ReadWhole(f, h, d, m)
    PROVE  StripGot(h, d.entries, m)
<1>1. m \in Images /\ HasIFD(f, m)
  BY DEF ReadWhole
<1>2. ImageLen(m) < Power[4]
  <2>1. Start(m) < Power[4] /\ Power[4] \in Nat
    BY <1>1, Powers DEF HasIFD, BeginsText, Widths
  <2>2. ImageLen(m) \in Nat /\ Count(m) \in Nat /\ Start(m) = ImageLen(m) + 14 + 12 * Count(m)
    BY <1>1, PlaceSizes
  <2> QED
    BY <2>1, <2>2
<1>3. /\ Says(m, 6, "StripOffsets", "ints", <<8>>)
      /\ Says(m, 9, "StripByteCounts", "ints", <<ImageLen(m)>>)
      /\ 6 \in 1 .. Count(m) /\ 9 \in 1 .. Count(m)
  BY <1>1, <1>2, StripSays
<1> DEFINE six == 6
           nine == 9
           n == ImageLen(m)
<1>4. /\ Says(m, six, "StripOffsets", "ints", <<8>>) /\ Says(m, nine, "StripByteCounts", "ints", <<n>>)
      /\ six \in 1 .. Count(m) /\ nine \in 1 .. Count(m)
  BY <1>3
<1> HIDE DEF six, nine, n
<1>5. Get(h, d.entries, "StripOffsets") = Answer(<<8>>)
  BY <1>4, SaidIsGot
<1>6. Get(h, d.entries, "StripByteCounts") = Answer(<<n>>)
  BY <1>4, SaidIsGot
<1> QED
  BY <1>5, <1>6 DEF StripGot, n

LEMMA BitsSaid ==
    ASSUME NEW m \in Images
    PROVE  Says(m, 3, "BitsPerSample", "ints", Bits(m))
<1> DEFINE e == Entries(m)[3]
           b == Bits(m)
<1>1. e = Field("BitsPerSample", "Short", b)
  BY CommonAre
<1>2. b \in Seq(Nat) /\ \A i \in 1 .. Len(b) : b[i] = IF m.type \in Deep THEN 16 ELSE 8
  BY BitsAre
<1>3. \A i \in 1 .. Len(b) : b[i] < Power[2]
  <2>1. \A i \in 1 .. Len(b) : b[i] \in 0 .. 99
    BY <1>2
  <2> QED
    BY <2>1, SmallFit
<1> HIDE DEF e, b
<1>4. e.type = "Short" /\ e.values = b /\ ByteSize("Short") = 2
  BY <1>1, SmallFit DEF Field
<1>5. IntsFit(e)
  BY <1>2, <1>3, <1>4 DEF IntsFit
<1> QED
  BY <1>4, <1>5, RowNosAre, RowNumbers, FormsAre DEF Says, e, b

LEMMA ColorsSaid ==
    ASSUME NEW m \in Images, m.type = "Paletted"
    PROVE  Says(m, 13, "ColorMap", "colors", ColorMap)
<1> DEFINE e == Entries(m)[13]
           b == ColorMap
<1>1. e = Field("ColorMap", "Short", b)
  BY CommonAre
<1>2. b \in Seq(Nat) /\ \A i \in 1 .. Len(b) : b[i] < Power[2]
  BY ColorMapIs
<1> HIDE DEF e, b
<1>4. e.type = "Short" /\ e.values = b /\ ByteSize("Short") = 2
  BY <1>1, SmallFit DEF Field
<1>5. IntsFit(e)
  BY <1>2, <1>4 DEF IntsFit
<1>6. RowNo(m, 13) = 45 /\ HasRow("ColorMap", 45) /\ Form("ColorMap") = "colors"
  BY RowNosAre, RowNumbers, FormsAre
<1> QED
  BY <1>4, <1>5, <1>6 DEF Says, e, b

LEMMA SmallAre ==
    ASSUME NEW m \in Images
    PROVE  /\ Photometric(m) \in Nat /\ Photometric(m) < Power[2]
           /\ Len(Bits(m)) \in Nat /\ Len(Bits(m)) < Power[2]
           /\ Alpha(m) \in Nat /\ Alpha(m) < Power[2] /\ 1 < Power[2]
<1>1. Photometric(m) \in 0 .. 99 /\ Alpha(m) \in 0 .. 99 /\ Len(Bits(m)) \in 0 .. 99 /\ 1 \in 0 .. 99
  BY BitsAre
<1>2. \A v \in 0 .. 99 : v \in Nat /\ v < Power[2]
  BY SmallFit
<1> QED
  BY <1>1, <1>2, Zenon

LEMMA AllAreGot ==
    ASSUME NEW f, NEW h, NEW d, NEW m, ReadWhole(f, h, d, m), m.dx < Power[2], m.dy < Power[2]
    PROVE  AllGot(h, d.entries, m)
<1> DEFINE es == Entries(m)
           n == Count(m)
<1>1. m \in Images /\ m.dx \in Nat /\ m.dy \in Nat /\ n \in 12 .. 13
  BY ImageIs, FillingIs DEF ReadWhole
<1>2. /\ es[1] = Field("ImageWidth", "Short", <<m.dx>>) /\ es[2] = Field("ImageLength", "Short", <<m.dy>>)
      /\ es[4] = Field("Compression", "Short", <<1>>)
      /\ es[5] = Field("PhotometricInterpretation", "Short", <<Photometric(m)>>)
      /\ es[7] = Field("SamplesPerPixel", "Short", <<Len(Bits(m))>>)
      /\ es[8] = Field("RowsPerStrip", "Short", <<m.dy>>)
      /\ m.type = "Paletted" => n = 13
      /\ Alpha(m) > 0 => es[13] = Field("ExtraSamples", "Short", <<Alpha(m)>>) /\ n = 13
  BY <1>1, CommonAre
<1>3. /\ Photometric(m) \in Nat /\ Photometric(m) < Power[2] /\ Len(Bits(m)) \in Nat /\ Len(Bits(m)) < Power[2]
      /\ Alpha(m) \in Nat /\ Alpha(m) < Power[2] /\ 1 < Power[2]
  BY <1>1, SmallAre
<1>4. /\ HasRow("ImageWidth", RowNo(m, 1)) /\ HasRow("ImageLength", RowNo(m, 2))
      /\ HasRow("Compression", RowNo(m, 4)) /\ HasRow("PhotometricInterpretation", RowNo(m, 5))
      /\ HasRow("SamplesPerPixel", RowNo(m, 7)) /\ HasRow("RowsPerStrip", RowNo(m, 8))
      /\ m.type # "Paletted" => HasRow("ExtraSamples", RowNo(m, 13))
  BY <1>1, RowNosAre, RowNumbers
<1>5. /\ Form("ImageWidth") = "one" /\ Form("ImageLength") = "one" /\ Form("Compression") = "one"
      /\ Form("PhotometricInterpretation") = "one" /\ Form("SamplesPerPixel") = "one" /\ Form("RowsPerStrip") = "one"
      /\ Form("ExtraSamples") = "one" /\ Default("ExtraSamples") = <<>>
  BY FormsAre
<1> DEFINE G(tag) == Get(h, d.entries, tag)
           i1 == 1
           i2 == 2
           i3 == 3
           i4 == 4
           i5 == 5
           i7 == 7
           i8 == 8
           i13 == 13
<1>6. i1 \in 1 .. n /\ i2 \in 1 .. n /\ i3 \in 1 .. n /\ i4 \in 1 .. n /\ i5 \in 1 .. n /\ i7 \in 1 .. n /\ i8 \in 1 .. n
  BY <1>1
<1>7. G("ImageWidth") = Answer(<<m.dx>>)
  <2>1. i1 \in 1 .. n /\ es[i1] = Field("ImageWidth", "Short", <<m.dx>>) /\ HasRow("ImageWidth", RowNo(m, i1))
    BY <1>2, <1>4, <1>6
  <2> HIDE DEF i1
  <2> QED
    BY <1>1, <1>5, <2>1, OneGot
<1>8. G("ImageLength") = Answer(<<m.dy>>)
  <2>1. i2 \in 1 .. n /\ es[i2] = Field("ImageLength", "Short", <<m.dy>>) /\ HasRow("ImageLength", RowNo(m, i2))
    BY <1>2, <1>4, <1>6
  <2> HIDE DEF i2
  <2> QED
    BY <1>1, <1>5, <2>1, OneGot
<1>9. G("Compression") = Answer(<<1>>)
  <2> DEFINE v == 1
  <2>1. /\ i4 \in 1 .. n /\ es[i4] = Field("Compression", "Short", <<v>>) /\ HasRow("Compression", RowNo(m, i4))
        /\ v \in Nat /\ v < Power[2]
    BY <1>2, <1>3, <1>4, <1>6
  <2> HIDE DEF i4, v
  <2>2. G("Compression") = Answer(<<v>>)
    BY <1>5, <2>1, OneGot
  <2> QED
    BY <2>2 DEF v
<1>10. G("PhotometricInterpretation") = Answer(<<Photometric(m)>>)
  <2>1. /\ i5 \in 1 .. n /\ es[i5] = Field("PhotometricInterpretation", "Short", <<Photometric(m)>>)
        /\ HasRow("PhotometricInterpretation", RowNo(m, i5))
    BY <1>2, <1>4, <1>6
  <2> HIDE DEF i5
  <2> QED
    BY <1>3, <1>5, <2>1, OneGot
<1>11. G("SamplesPerPixel") = Answer(<<Len(Bits(m))>>)
  <2>1. /\ i7 \in 1 .. n /\ es[i7] = Field("SamplesPerPixel", "Short", <<Len(Bits(m))>>)
        /\ HasRow("SamplesPerPixel", RowNo(m, i7))
    BY <1>2, <1>4, <1>6
  <2> HIDE DEF i7
  <2> QED
    BY <1>3, <1>5, <2>1, OneGot
<1>12. G("RowsPerStrip") = Answer(<<m.dy>>)
  <2>1. i8 \in 1 .. n /\ es[i8] = Field("RowsPerStrip", "Short", <<m.dy>>) /\ HasRow("RowsPerStrip", RowNo(m, i8))
    BY <1>2, <1>4, <1>6
  <2> HIDE DEF i8
  <2> QED
    BY <1>1, <1>5, <2>1, OneGot
<1>13. G("BitsPerSample") = Answer(Bits(m))
  <2>1. i3 \in 1 .. n /\ Says(m, i3, "BitsPerSample", "ints", Bits(m))
    BY <1>1, <1>6, BitsSaid
  <2> HIDE DEF i3
  <2> QED
    BY <2>1, SaidIsGot
<1>14. ASSUME m.type = "Paletted" PROVE G("ColorMap") = Colors(ColorMap)
  <2>1. i13 \in 1 .. n /\ Says(m, i13, "ColorMap", "colors", ColorMap)
    BY <1>1, <1>2, <1>14, ColorsSaid
  <2> HIDE DEF i13
  <2> QED
    BY <2>1, SaidIsGot
<1>15. G("ExtraSamples") = IF Alpha(m) > 0 THEN Answer(<<Alpha(m)>>) ELSE NoAnswer
  <2>1. CASE Alpha(m) > 0
    <3>1. m.type # "Paletted"
      BY <2>1 DEF Alpha
    <3>2. /\ i13 \in 1 .. n /\ es[i13] = Field("ExtraSamples", "Short", <<Alpha(m)>>)
          /\ HasRow("ExtraSamples", RowNo(m, i13))
      BY <1>1, <1>2, <1>4, <2>1, <3>1
    <3> HIDE DEF i13
    <3>3. G("ExtraSamples") = Answer(<<Alpha(m)>>)
      BY <1>3, <1>5, <3>2, OneGot
    <3> QED
      BY <2>1, <3>3
  <2>2. CASE ~ (Alpha(m) > 0)
    <3>1. Row("ExtraSamples") = 57
      BY RowNumbers DEF HasRow
    <3>2. ASSUME NEW i \in 1 .. n PROVE RowNo(m, i) # 57
      <4>1. m.type = "Paletted" \/ n = 12
        BY <1>1, <2>2, Decided DEF Count
      <4>2. i \in 1 .. 12 \/ (i = 13 /\ m.type = "Paletted")
        BY <1>1, <4>1
      <4> QED
        BY <1>1, <4>2, RowNosAre
    <3>3. Row("ExtraSamples") \notin DOMAIN d.entries
      BY <3>1, <3>2 DEF ReadWhole, Found
    <3>4. G("ExtraSamples") = NoAnswer
      BY <1>5, <3>3, UnsaidIsNot
    <3> QED
      BY <2>2, <3>4
  <2> QED
    BY <2>1, <2>2
<1> QED
  BY <1>7, <1>8, <1>9, <1>10, <1>11, <1>12, <1>13, <1>14, <1>15 DEF AllGot

LEMMA Answered == ASSUME NEW v PROVE Answer(v).value = v /\ Answer(v).ok = TRUE
  BY DEF Answer

LEMMA TagsAre ==
    ASSUME NEW m, ReadWhole(file, head, ifd, m), AllGot(head, ifd.entries, m)
    PROVE  TagsOf(TagsRead, m)
<1> DEFINE p == TagsRead
           names == {Getters[k][1] : k \in DOMAIN ifd.entries}
           photo(v) == CASE v = 1 -> "BlackIsZero" [] v = 2 -> "RGB" [] v = 3 -> "Paletted"
<1>1. m \in Images
  BY DEF ReadWhole
<1>2. /\ p.tags = names /\ p.bits = Got("BitsPerSample").value
      /\ p.extra = (IF Got("ExtraSamples").ok THEN Got("ExtraSamples").value[1] ELSE 0)
      /\ p.photometric = photo(Got("PhotometricInterpretation").value[1])
  BY Zenon DEF TagsRead
<1>3. RequiredTags \cup StripTags \subseteq names /\ names \cap TileTags = {}
  BY NamesRead
<1>4. /\ Got("BitsPerSample") = Answer(Bits(m)) /\ Got("PhotometricInterpretation") = Answer(<<Photometric(m)>>)
      /\ Got("ExtraSamples") = IF Alpha(m) > 0 THEN Answer(<<Alpha(m)>>) ELSE NoAnswer
  BY Zenon DEF Got, AllGot
<1>5. p.bits = Bits(m)
  BY <1>2, <1>4, Answered
<1>6. p.extra = Alpha(m)
  <2>1. Alpha(m) \in {0, 1, 2}
    BY <1>1, BitsAre
  <2>2. CASE Alpha(m) > 0
    <3>1. Got("ExtraSamples").ok = TRUE /\ Got("ExtraSamples").value = <<Alpha(m)>>
      BY <1>4, <2>2, Answered
    <3> QED
      BY <1>2, <3>1
  <2>3. CASE Alpha(m) = 0
    <3>2. Got("ExtraSamples") = NoAnswer
      BY <1>4, <2>3
    <3>1. Got("ExtraSamples").ok = FALSE
      BY <3>2 DEF NoAnswer
    <3> QED
      BY <1>2, <2>3, <3>1
  <2> QED
    BY <2>1, <2>2, <2>3
<1>7. p.photometric = photo(Photometric(m))
  <2>1. Got("PhotometricInterpretation").value = <<Photometric(m)>>
    BY <1>4, Answered
  <2>2. Got("PhotometricInterpretation").value[1] = Photometric(m)
    BY <2>1
  <2> HIDE DEF photo
  <2> QED
    BY <1>2, <2>2, Zenon
<1> HIDE DEF p, names
<1> QED
  BY <1>2, <1>3, <1>5, <1>6, <1>7, Zenon DEF TagsOf, p

\* The strip that is read: all of the rows and nothing else.
LEMMA StripIs ==
    ASSUME NEW m, ReadWhole(file, head, ifd, m)
    PROVE  /\ Got("StripOffsets").value[1] = 8 /\ Got("StripByteCounts").value[1] = ImageLen(m)
           /\ StripRead = RowsText(m)
<1> DEFINE n == ImageLen(m)
           u == RowsText(m)
<1>1. Got("StripOffsets") = Answer(<<8>>) /\ Got("StripByteCounts") = Answer(<<n>>)
  BY StripRow DEF StripGot, Got
<1>2. Got("StripOffsets").value = <<8>> /\ Got("StripByteCounts").value = <<n>>
  BY <1>1, Answered
<1>3. Got("StripOffsets").value[1] = 8 /\ Got("StripByteCounts").value[1] = n
  BY <1>2
<1>4. StripRead = Stored(file, 8, n)
  BY <1>3 DEF StripRead
<1>5. m \in Images /\ file \in Seq(Int) /\ Lies(file, 8, u)
  BY DEF ReadWhole, LaidOut
<1>6. u \in Seq(Int) /\ Len(u) = n /\ n \in Nat
  BY <1>5, RowTextsAre, ImageIs
<1> DEFINE eight == 8
<1>7. eight \in Nat /\ Lies(file, eight, u)
  BY <1>5
<1> HIDE DEF u, n, eight
<1>8. Stored(file, eight, n) = u
  BY <1>5, <1>6, <1>7, LiesStored
<1> QED
  BY <1>3, <1>4, <1>8 DEF u, n, eight

LEMMA PaletteIs ==
    ASSUME NEW v, v = Colors(ColorMap).value
    PROVE  Len(v) = PaletteSize /\ SubSeq(v, 1, Len(Palette)) = Palette
<1> DEFINE n == PaletteSize
           u == ColorMap
           l == Len(Palette)
           S == [1 .. 3 -> Int]
           q == Power[2]
<1>1. /\ n \in Nat \ {0} /\ Palette \in Seq([1 .. 3 -> 0 .. q - 1]) /\ l <= n /\ l \in Nat
  BY PaletteAssumption
<1>2. /\ u \in Seq(Nat) /\ Len(u) = 3 * n
      /\ \A i \in 1 .. l : \A c \in 1 .. 3 : u[(c - 1) * n + i] = Palette[i][c]
  BY ColorMapIs
<1>3. Len(u) \div 3 = n /\ Len(u) % 3 = 0 /\ u # <<>>
  <2> DEFINE w == 3 * n
  <2>1. w = 3 * n + 0 /\ w \in Int
    BY <1>1
  <2>2. w \div 3 = n /\ w % 3 = 0
    BY <1>1, <2>1, OnlyQuotient
  <2>3. w # 0
    BY <1>1
  <2> HIDE DEF w, u
  <2>4. Len(u) = w
    BY <1>2 DEF w
  <2>5. Len(u) # 0
    BY <2>3, <2>4
  <2>6. u # <<>>
    BY <2>5
  <2> QED
    BY <2>2, <2>4, <2>6
<1> DEFINE level(k) == u[k] % q
           colour(i) == <<level(i), level(n + i), level(2 * n + i)>>
           w == [i \in 1 .. n |-> colour(i)]
<1>4. v = w
  <2>1. Colors(u) = Answer([i \in 1 .. (Len(u) \div 3) |->
                         <<level(i), level((Len(u) \div 3) + i), level(2 * (Len(u) \div 3) + i)>>])
    BY <1>3, Zenon DEF Colors
  <2> HIDE DEF n, level
  <2>2. Colors(u) = Answer([i \in 1 .. n |-> <<level(i), level(n + i), level(2 * n + i)>>])
    BY <1>3, <2>1, Zenon
  <2> QED
    BY <2>2, Answered
<1>5. ASSUME NEW i \in 1 .. l PROVE colour(i) = Palette[i]
  <2> DEFINE c == Palette[i]
  <2>1. c \in [1 .. 3 -> 0 .. q - 1]
    BY <1>1
  <2>2. 1 \in 1 .. 3 /\ 2 \in 1 .. 3 /\ 3 \in 1 .. 3
    OBVIOUS
  <2>3. u[(1 - 1) * n + i] = c[1] /\ u[(2 - 1) * n + i] = c[2] /\ u[(3 - 1) * n + i] = c[3]
    BY <1>2, <2>2
  <2>4. (1 - 1) * n + i = i /\ (2 - 1) * n + i = n + i /\ (3 - 1) * n + i = 2 * n + i
    BY <1>1
  <2> HIDE DEF u, n
  <2>5. u[i] = c[1] /\ u[n + i] = c[2] /\ u[2 * n + i] = c[3]
    BY <2>3, <2>4
  <2>6. ASSUME NEW x \in 0 .. q - 1 PROVE x % q = x
    <3> DEFINE two == 2
    <3>1. two \in Widths /\ Power[two] \in Nat
      BY Powers DEF Widths
    <3>2. x \in Nat /\ x < Power[two]
      BY <2>6, <3>1
    <3> HIDE DEF two
    <3>3. x % Power[two] = x
      BY <3>1, <3>2, Fits
    <3> QED
      BY <3>3 DEF two
  <2> HIDE DEF c
  <2>7. level(i) = c[1] /\ level(n + i) = c[2] /\ level(2 * n + i) = c[3]
    <3>1. c[1] \in 0 .. q - 1 /\ c[2] \in 0 .. q - 1 /\ c[3] \in 0 .. q - 1
      BY <2>1, <2>2
    <3> HIDE DEF q
    <3> QED
      BY <2>5, <2>6, <3>1
  <2> HIDE DEF level
  <2>8. c = <<c[1], c[2], c[3]>>
    BY <2>1
  <2> QED
    BY <2>7, <2>8 DEF c
<1>6. Len(w) = n /\ \A i \in 1 .. n : w[i] = colour(i)
  BY <1>1
<1> HIDE DEF level, colour, w, n, u
<1>7. SubSeq(w, 1, l) = [i \in 1 .. l |-> w[i]]
  <2>1. SubSeq(w, 1, l) = [i \in 1 .. (1 + l - 1) |-> w[i + 1 - 1]]
    BY <1>1
  <2> QED
    BY <1>1, <2>1
<1>8. \A i \in 1 .. l : w[i] = Palette[i]
  BY <1>1, <1>5, <1>6
<1>9. Palette = [i \in 1 .. l |-> Palette[i]]
  BY <1>1
<1> QED
  BY <1>4, <1>6, <1>7, <1>8, <1>9 DEF n

LEMMA RowsAre ==
    ASSUME NEW m \in Images, NEW depth, depth = IF m.type \in Deep THEN 16 ELSE 8
    PROVE  RowsText(m) = LET swap == depth = 16
                             row(r) == IF swap THEN SwappedPairs(PixRow(m, r)) ELSE PixRow(m, r)
                         IN  FlattenSeq([r \in 1 .. m.dy |-> row(r - 1)])
<1> DEFINE swap == depth = 16
           row(r) == IF swap THEN SwappedPairs(PixRow(m, r)) ELSE PixRow(m, r)
<1>1. swap <=> m.type \in Deep
  OBVIOUS
<1>2. \A r : RowWritten(m, r) = row(r)
  BY <1>1, Zenon DEF RowWritten, Row16
<1> HIDE DEF row
<1>3. RowTexts(m) = [r \in 1 .. m.dy |-> row(r - 1)]
  BY <1>2 DEF RowTexts
<1>4. RowsText(m) = FlattenSeq([r \in 1 .. m.dy |-> row(r - 1)])
  BY <1>3 DEF RowsText
<1> QED
  BY <1>4, Zenon DEF row

(* What Encode wrote Decode reads: the tags give the size of the image and the type of its Go   *)
(* image, the strip holds the rows of the image, sample by sample, and nothing of the image it  *)
(* was cut from, and the palette is the one it had.                                             *)
THEOREM EncodedReadsBackThm == Spec => []EncodedReadsBack
<1>1. RowsInv /\ TextInv /\ SavedInv => EncodedReadsBack
  <2> SUFFICES ASSUME RowsInv, TextInv, SavedInv, EncodedAndRead, OffsetsFit, img.dx < Power[2], img.dy < Power[2]
               PROVE
        /\ head.ok /\ ifd.ok
        /\ Got("ImageWidth") = Answer(<<img.dx>>) /\ Got("ImageLength") = Answer(<<img.dy>>)
        /\ Got("RowsPerStrip") = Answer(<<img.dy>>) /\ Got("Compression") = Answer(<<1>>)
        /\ Got("SamplesPerPixel").value = <<Channels(TagsRead)>>
        /\ NewImage(TagsRead) = IF img.type = "Other" THEN "RGBA" ELSE img.type
        /\ ImageConfig(TagsRead) = NewImage(TagsRead)
        /\ LET swap == Depth(TagsRead) = 16
               row(r) == IF swap THEN SwappedPairs(PixRow(img, r)) ELSE PixRow(img, r)
           IN  StripRead = FlattenSeq([r \in 1 .. img.dy |-> row(r - 1)])
        /\ img.type = "Paletted" =>
              /\ Len(Got("ColorMap").value) = PaletteSize
              /\ SubSeq(Got("ColorMap").value, 1, Len(Palette)) = Palette
    BY Zenon DEF EncodedReadsBack
  <2>1. ReadWhole(file, head, ifd, img)
    BY WholeRead
  <2>2. img \in Images /\ head.ok /\ ifd.ok
    BY <2>1 DEF ReadWhole, AsEncoded, Found
  <2>3. AllGot(head, ifd.entries, img)
    BY <2>1, AllAreGot
  <2>4. TagsOf(TagsRead, img)
    BY <2>1, <2>3, TagsAre
  <2>5. /\ Depth(TagsRead) = IF img.type \in Deep THEN 16 ELSE 8
        /\ Channels(TagsRead) = Len(Bits(img))
        /\ NewImage(TagsRead) = IF img.type = "Other" THEN "RGBA" ELSE img.type
        /\ ImageConfig(TagsRead) = NewImage(TagsRead)
    BY <2>2, <2>4, ImageOfTags
  <2>6. /\ Got("ImageWidth") = Answer(<<img.dx>>) /\ Got("ImageLength") = Answer(<<img.dy>>)
        /\ Got("RowsPerStrip") = Answer(<<img.dy>>) /\ Got("Compression") = Answer(<<1>>)
        /\ Got("SamplesPerPixel") = Answer(<<Len(Bits(img))>>)
        /\ img.type = "Paletted" => Got("ColorMap") = Colors(ColorMap)
    BY <2>3, Zenon DEF AllGot, Got
  <2>7. Got("SamplesPerPixel").value = <<Channels(TagsRead)>>
    BY <2>5, <2>6, Answered
  <2>8. LET swap == Depth(TagsRead) = 16
            row(r) == IF swap THEN SwappedPairs(PixRow(img, r)) ELSE PixRow(img, r)
        IN  StripRead = FlattenSeq([r \in 1 .. img.dy |-> row(r - 1)])
    <3> DEFINE depth == Depth(TagsRead)
    <3>1. depth = IF img.type \in Deep THEN 16 ELSE 8
      BY <2>5
    <3>2. StripRead = RowsText(img)
      BY <2>1, StripIs
    <3> HIDE DEF depth
    <3>3. RowsText(img) = LET swap == depth = 16
                              row(r) == IF swap THEN SwappedPairs(PixRow(img, r)) ELSE PixRow(img, r)
                          IN  FlattenSeq([r \in 1 .. img.dy |-> row(r - 1)])
      BY <2>2, <3>1, RowsAre
    <3> QED
      BY <3>2, <3>3, Zenon DEF depth
  <2>9. ASSUME img.type = "Paletted"
        PROVE  /\ Len(Got("ColorMap").value) = PaletteSize
               /\ SubSeq(Got("ColorMap").value, 1, Len(Palette)) = Palette
    <3> DEFINE v == Got("ColorMap").value
    <3>1. v = Colors(ColorMap).value
      BY <2>6, <2>9
    <3> HIDE DEF v
    <3>2. Len(v) = PaletteSize /\ SubSeq(v, 1, Len(Palette)) = Palette
      BY <3>1, PaletteIs
    <3> QED
      BY <3>2 DEF v
  <2> QED
    BY <2>2, <2>5, <2>6, <2>7, <2>8, <2>9, Zenon
<1> QED
  BY <1>1, RowsInvariant, TextInvariant, SavedInvariant, PTL

---------------------------------------------------------------------------
(* Where things lie in what Encode wrote.                                  *)

Interval(o, n) == [from |-> o, size |-> n]
Covers(p, k) == p.from <= k /\ k < p.from + p.size

ValuePlace(m, i) == Interval(Start(m) + Before(m, i), DataSize(m, i))
FarOnes(m) == {i \in 1 .. Count(m) : Far(m, i)}

PlacesOf(m) ==
    {Interval(0, 8), Interval(8, ImageLen(m)), Interval(ImageLen(m) + 8, 2 + 12 * Count(m) + 4)}
    \cup {ValuePlace(m, i) : i \in FarOnes(m)}

LEMMA DirectorySize ==
    ASSUME NEW f, NEW h, NEW d, NEW m, ReadWhole(f, h, d, m)
    PROVE  Cardinality(DOMAIN d.entries) = Count(m)
<1> DEFINE n == Count(m)
           D == DOMAIN d.entries
           g == [i \in 1 .. n |-> RowNo(m, i)]
<1>1. m \in Images /\ D = {RowNo(m, i) : i \in 1 .. n} /\ n \in Nat
  BY PlaceSizes DEF ReadWhole, Found
<1>2. ASSUME NEW i \in 1 .. n, NEW j \in 1 .. n, RowNo(m, i) = RowNo(m, j) PROVE i = j
  <2>1. RowNo(m, i) \in 1 .. 85 /\ RowNo(m, j) \in 1 .. 85
    BY <1>1, PlacesAre
  <2>2. i < j => RowNo(m, i) < RowNo(m, j)
    BY <1>1, PlacesAre
  <2>3. j < i => RowNo(m, j) < RowNo(m, i)
    BY <1>1, PlacesAre
  <2> QED
    BY <1>1, <1>2, <2>1, <2>2, <2>3
<1> HIDE DEF n, D
<1>3. g \in [1 .. n -> D] /\ (\A i, j \in 1 .. n : g[i] = g[j] => i = j) /\ \A k \in D : \E i \in 1 .. n : g[i] = k
  BY <1>1, <1>2
<1> HIDE DEF g
<1>4. g \in Bijection(1 .. n, D)
  BY <1>3 DEF Bijection, Injection, Surjection, IsInjective
<1>5. ExistsBijection(1 .. n, D)
  BY <1>4 DEF ExistsBijection
<1> QED
  BY <1>1, <1>5, FS_CountingElements DEF n, D

LEMMA PlacesKnown ==
    ASSUME NEW m, ReadWhole(file, head, ifd, m)
    PROVE  Places = PlacesOf(m)
<1> DEFINE n == Count(m)
           D == DOMAIN ifd.entries
           size(k) == ifd.entries[k].count * ByteSize(ifd.entries[k].type)
           long == {k \in D : size(k) > 4}
           strip == [from |-> Got("StripOffsets").value[1], size |-> Got("StripByteCounts").value[1]]
           c == Cardinality(D)
           vs == {[from |-> ifd.entries[k].offset, size |-> size(k)] : k \in long}
<1>1. Places = {[from |-> 0, size |-> 8], strip, [from |-> head.first, size |-> 2 + 12 * c + 4]} \cup vs
  BY Zenon DEF Places
<1>2. strip = Interval(8, ImageLen(m))
  <2>1. Got("StripOffsets").value[1] = 8 /\ Got("StripByteCounts").value[1] = ImageLen(m)
    BY StripIs
  <2> QED
    BY <2>1, Zenon DEF Interval
<1>3. c = n
  BY DirectorySize
<1>4. head.first = ImageLen(m) + 8 /\ D = {RowNo(m, i) : i \in 1 .. n}
  BY DEF ReadWhole, AsEncoded, Found
<1>5. ASSUME NEW i \in 1 .. n
      PROVE  size(RowNo(m, i)) = DataSize(m, i) /\ (Far(m, i) <=> DataSize(m, i) > 4)
             /\ (Far(m, i) => ifd.entries[RowNo(m, i)].offset = Start(m) + Before(m, i))
  <2>1. Far(m, i) <=> DataSize(m, i) > 4
    BY PlacesAre DEF ReadWhole
  <2> QED
    BY <2>1, ValueRead
<1> DEFINE place(k) == [from |-> ifd.entries[k].offset, size |-> size(k)]
<1>6. ASSUME NEW i \in FarOnes(m) PROVE RowNo(m, i) \in long /\ place(RowNo(m, i)) = ValuePlace(m, i)
  <2>1. i \in 1 .. n /\ Far(m, i)
    BY DEF FarOnes
  <2>2. size(RowNo(m, i)) = DataSize(m, i) /\ DataSize(m, i) > 4
        /\ ifd.entries[RowNo(m, i)].offset = Start(m) + Before(m, i)
    BY <1>5, <2>1
  <2>3. RowNo(m, i) \in D
    BY <1>4, <2>1
  <2> HIDE DEF size, D
  <2> QED
    BY <2>2, <2>3 DEF ValuePlace, Interval
<1>7. ASSUME NEW k \in long PROVE \E i \in FarOnes(m) : k = RowNo(m, i)
  <2>1. k \in D /\ size(k) > 4
    OBVIOUS
  <2>2. PICK i \in 1 .. n : k = RowNo(m, i)
    BY <1>4, <2>1
  <2>3. Far(m, i)
    BY <1>5, <2>1, <2>2
  <2> QED
    BY <2>2, <2>3 DEF FarOnes
<1>8. vs = {ValuePlace(m, i) : i \in FarOnes(m)}
  <2>1. vs = {place(k) : k \in long}
    OBVIOUS
  <2> HIDE DEF vs, place, long
  <2> QED
    BY <1>6, <1>7, <2>1
<1> HIDE DEF strip, vs, c
<1> QED
  BY <1>1, <1>2, <1>3, <1>4, <1>8, Zenon DEF PlacesOf, Interval

LEMMA OneCovers ==
    ASSUME NEW P, NEW k, NEW q \in P, Covers(q, k), \A p \in P : Covers(p, k) => p = q
    PROVE  Cardinality({p \in P : p.from <= k /\ k < p.from + p.size}) = 1
<1> DEFINE C == {p \in P : p.from <= k /\ k < p.from + p.size}
<1>1. C = {p \in P : Covers(p, k)}
  BY Zenon DEF Covers
<1> HIDE DEF C
<1>2. C = {q}
  BY <1>1
<1> QED
  BY <1>2, FS_Singleton DEF C

LEMMA NoneCovers ==
    ASSUME NEW P, NEW k, \A p \in P : ~ Covers(p, k)
    PROVE  Cardinality({p \in P : p.from <= k /\ k < p.from + p.size}) = 0
<1> DEFINE C == {p \in P : p.from <= k /\ k < p.from + p.size}
<1>1. C = {p \in P : Covers(p, k)}
  BY Zenon DEF Covers
<1> HIDE DEF C
<1>2. C = {}
  BY <1>1
<1> QED
  BY <1>2, FS_EmptySet DEF C

\* A byte past the directory belongs to the one value that has begun and not ended.
LEMMA ValueOver ==
    ASSUME NEW m \in Images, NEW x \in Nat, x < Before(m, Count(m) + 1)
    PROVE  \E j \in FarOnes(m) : Before(m, j) <= x /\ x < Before(m, j) + DataSize(m, j)
<1> DEFINE n == Count(m)
           T == {i \in 1 .. n : x < Before(m, i + 1)}
<1>1. n \in Nat /\ n >= 1 /\ n \in 1 .. n
  <2>1. n \in Nat /\ 0 < n
    BY PlaceSizes
  <2> QED
    BY <2>1
<1>2. T \in SUBSET Nat /\ T # {}
  BY <1>1
<1>3. PICK j \in T : \A i \in T : j <= i
  BY <1>2, Smallest
<1>4. j \in 1 .. n /\ x < Before(m, j + 1)
  BY <1>3
<1>5. Before(m, j) <= x
  <2>1. CASE j = 1
    <3>1. Before(m, j) = 0
      BY <2>1 DEF Before
    <3> QED
      BY <3>1
  <2>2. CASE j # 1
    <3> DEFINE i == j - 1
    <3>1. i \in 1 .. n /\ i + 1 = j /\ i < j
      BY <1>1, <1>4, <2>2
    <3>2. i \notin T
      <4>1. ASSUME i \in T PROVE FALSE
        <5>1. j <= i
          BY <1>3, <4>1
        <5> QED
          BY <1>1, <1>4, <3>1, <5>1
      <4> QED
        BY <4>1
    <3>3. ~ (x < Before(m, j))
      <4> HIDE DEF i
      <4> QED
        BY <3>1, <3>2
    <3>4. Before(m, j) \in Nat
      BY <1>4, PlacesAre
    <3> QED
      BY <3>3, <3>4
  <2> QED
    BY <2>1, <2>2
<1>6. /\ Before(m, j + 1) = Before(m, j) + (IF Far(m, j) THEN DataSize(m, j) ELSE 0)
      /\ Before(m, j) \in Nat
  BY <1>4, PlacesAre
<1>7. Far(m, j)
  BY <1>4, <1>5, <1>6
<1> QED
  BY <1>4, <1>5, <1>6, <1>7 DEF FarOnes

LEMMA ValuesApart ==
    ASSUME NEW m \in Images, NEW i \in FarOnes(m), NEW j \in FarOnes(m), NEW x \in Nat,
           Before(m, i) <= x, x < Before(m, i) + DataSize(m, i), Before(m, j) <= x, x < Before(m, j) + DataSize(m, j)
    PROVE  i = j
<1>1. i \in 1 .. Count(m) /\ j \in 1 .. Count(m) /\ Far(m, i) /\ Far(m, j) /\ i \in Int /\ j \in Int
  <2>1. Count(m) \in Nat
    BY PlaceSizes
  <2> QED
    BY <2>1 DEF FarOnes
<1>2. /\ Before(m, i + 1) = Before(m, i) + DataSize(m, i) /\ Before(m, i) \in Nat
      /\ Before(m, j + 1) = Before(m, j) + DataSize(m, j) /\ Before(m, j) \in Nat
  BY <1>1, PlacesAre
<1>3. ASSUME i < j PROVE FALSE
  <2>1. i + 1 <= j /\ i + 1 \in Int
    BY <1>1, <1>3
  <2>2. Before(m, i + 1) <= Before(m, j) /\ Before(m, i + 1) \in Nat
    BY <1>1, <2>1, BeforeGrows
  <2> QED
    BY <1>2, <2>2
<1>4. ASSUME j < i PROVE FALSE
  <2>1. j + 1 <= i /\ j + 1 \in Int
    BY <1>1, <1>4
  <2>2. Before(m, j + 1) <= Before(m, i) /\ Before(m, j + 1) \in Nat
    BY <1>1, <2>1, BeforeGrows
  <2> QED
    BY <1>2, <2>2
<1> QED
  BY <1>1, <1>3, <1>4

LEMMA CoversIs ==
    ASSUME NEW o, NEW n, NEW k
    PROVE  Covers(Interval(o, n), k) <=> o <= k /\ k < o + n
  BY DEF Covers, Interval

LEMMA EachCovered ==
    ASSUME NEW m \in Images, NEW end, end = Start(m) + Before(m, Count(m) + 1), NEW k \in 0 .. end,
           NEW P, P = PlacesOf(m)
    PROVE  Cardinality({p \in P : p.from <= k /\ k < p.from + p.size}) = IF k < end THEN 1 ELSE 0
<1> DEFINE l == ImageLen(m)
           n == Count(m)
           s == Start(m)
           H == Interval(0, 8)
           S == Interval(8, l)
           D == Interval(l + 8, 2 + 12 * n + 4)
           V(i) == ValuePlace(m, i)
           F == FarOnes(m)
<1>1. l \in Nat /\ n \in Nat /\ s = l + 14 + 12 * n /\ s \in Nat
  BY PlaceSizes
<1>2. \A i \in F : i \in 1 .. n /\ i \in Int
  BY <1>1 DEF FarOnes
<1>3. ASSUME NEW i \in F
      PROVE  Before(m, i) \in Nat /\ DataSize(m, i) \in Nat /\ Before(m, i) + DataSize(m, i) <= Before(m, n + 1)
  <2>1. i \in 1 .. n /\ Far(m, i)
    BY DEF FarOnes
  <2>2. Before(m, i + 1) = Before(m, i) + DataSize(m, i) /\ Before(m, i) \in Nat /\ DataSize(m, i) \in Nat
    BY <2>1, PlacesAre
  <2>3. i + 1 \in Int /\ n + 1 \in Int /\ i + 1 <= n + 1
    BY <1>1, <2>1
  <2>4. Before(m, i + 1) <= Before(m, n + 1)
    BY <2>3, BeforeGrows
  <2> QED
    BY <2>2, <2>4
<1>4. Before(m, n + 1) \in Nat /\ k \in Nat /\ end \in Nat
  <2>1. n + 1 \in Int /\ n + 1 <= n + 1
    BY <1>1
  <2>2. Before(m, n + 1) \in Nat
    BY <2>1, BeforeGrows
  <2> QED
    BY <1>1, <2>2
<1>5. P = {H, S, D} \cup {V(i) : i \in F}
  BY Zenon DEF PlacesOf
<1>6. Covers(H, k) <=> k < 8
  <2> DEFINE zero == 0
             eight == 8
  <2>1. Covers(Interval(zero, eight), k) <=> zero <= k /\ k < zero + eight
    <3> HIDE DEF zero, eight
    <3> QED
      BY CoversIs
  <2> QED
    BY <1>4, <2>1
<1>7. Covers(S, k) <=> 8 <= k /\ k < 8 + l
  <2> DEFINE eight == 8
  <2>1. Covers(Interval(eight, l), k) <=> eight <= k /\ k < eight + l
    <3> HIDE DEF eight, l
    <3> QED
      BY CoversIs
  <2> QED
    BY <2>1
<1>8. Covers(D, k) <=> l + 8 <= k /\ k < s
  <2> DEFINE o == l + 8
             z == 2 + 12 * n + 4
  <2>1. Covers(Interval(o, z), k) <=> o <= k /\ k < o + z
    <3> HIDE DEF o, z
    <3> QED
      BY CoversIs
  <2>2. o + z = s
    BY <1>1
  <2> HIDE DEF s
  <2> QED
    BY <2>1, <2>2
<1>9. \A i \in F : Covers(V(i), k) <=> s + Before(m, i) <= k /\ k < (s + Before(m, i)) + DataSize(m, i)
  BY CoversIs DEF ValuePlace
<1> HIDE DEF H, S, D, V, l, n, s, F
<1>10. ASSUME NEW i \in F, Covers(V(i), k) PROVE s <= k /\ k < end /\ Before(m, i) <= k - s /\ k - s < Before(m, i) + DataSize(m, i)
  <2>1. s + Before(m, i) <= k /\ k < (s + Before(m, i)) + DataSize(m, i)
    BY <1>9, <1>10
  <2>2. Before(m, i) \in Nat /\ DataSize(m, i) \in Nat /\ Before(m, i) + DataSize(m, i) <= Before(m, n + 1)
    BY <1>3
  <2>3. end = s + Before(m, n + 1)
    BY DEF s, n
  <2> QED
    BY <1>1, <1>4, <2>1, <2>2, <2>3
<1>11. CASE k < 8
  <2>1. H \in P /\ Covers(H, k)
    BY <1>5, <1>6, <1>11
  <2>2. ASSUME NEW p \in P, Covers(p, k) PROVE p = H
    <3>1. CASE p = S
      BY <1>7, <1>11, <2>2, <3>1, <1>4
    <3>2. CASE p = D
      BY <1>1, <1>4, <1>8, <1>11, <2>2, <3>2
    <3>3. CASE \E i \in F : p = V(i)
      BY <1>1, <1>4, <1>10, <1>11, <2>2, <3>3
    <3> QED
      BY <1>5, <3>1, <3>2, <3>3
  <2>3. Cardinality({p \in P : p.from <= k /\ k < p.from + p.size}) = 1
    BY <2>1, <2>2, OneCovers
  <2>4. k < end
    BY <1>1, <1>4, <1>11 DEF s, n
  <2> QED
    BY <2>3, <2>4
<1>12. CASE 8 <= k /\ k < 8 + l
  <2>1. S \in P /\ Covers(S, k)
    BY <1>5, <1>7, <1>12
  <2>2. ASSUME NEW p \in P, Covers(p, k) PROVE p = S
    <3>1. CASE p = H
      BY <1>4, <1>6, <1>12, <2>2, <3>1
    <3>2. CASE p = D
      BY <1>1, <1>4, <1>8, <1>12, <2>2, <3>2
    <3>3. CASE \E i \in F : p = V(i)
      BY <1>1, <1>4, <1>10, <1>12, <2>2, <3>3
    <3> QED
      BY <1>5, <3>1, <3>2, <3>3
  <2>3. Cardinality({p \in P : p.from <= k /\ k < p.from + p.size}) = 1
    BY <2>1, <2>2, OneCovers
  <2>4. k < end
    BY <1>1, <1>4, <1>12 DEF s, n
  <2> QED
    BY <2>3, <2>4
<1>13. CASE 8 + l <= k /\ k < s
  <2>1. D \in P /\ Covers(D, k)
    BY <1>1, <1>5, <1>8, <1>13
  <2>2. ASSUME NEW p \in P, Covers(p, k) PROVE p = D
    <3>1. CASE p = H
      BY <1>1, <1>4, <1>6, <1>13, <2>2, <3>1
    <3>2. CASE p = S
      BY <1>1, <1>4, <1>7, <1>13, <2>2, <3>2
    <3>3. CASE \E i \in F : p = V(i)
      BY <1>1, <1>4, <1>10, <1>13, <2>2, <3>3
    <3> QED
      BY <1>5, <3>1, <3>2, <3>3
  <2>3. Cardinality({p \in P : p.from <= k /\ k < p.from + p.size}) = 1
    BY <2>1, <2>2, OneCovers
  <2>4. k < end
    BY <1>1, <1>4, <1>13 DEF s, n
  <2> QED
    BY <2>3, <2>4
<1>14. CASE s <= k /\ k < end
  <2> DEFINE x == k - s
  <2>1. x \in Nat /\ x < Before(m, Count(m) + 1)
    BY <1>1, <1>4, <1>14 DEF s, n
  <2> HIDE DEF x
  <2>2. PICK j \in FarOnes(m) : Before(m, j) <= x /\ x < Before(m, j) + DataSize(m, j)
    BY <2>1, ValueOver
  <2>3. j \in F
    BY DEF F
  <2>4. V(j) \in P
    BY <1>5, <2>3
  <2>5. Covers(V(j), k)
    <3>1. Before(m, j) \in Nat /\ DataSize(m, j) \in Nat
      BY <1>3, <2>3
    <3>2. s + Before(m, j) <= k /\ k < (s + Before(m, j)) + DataSize(m, j)
      BY <1>1, <1>4, <2>2, <3>1 DEF x
    <3> QED
      BY <1>9, <2>3, <3>2
  <2>6. ASSUME NEW p \in P, Covers(p, k) PROVE p = V(j)
    <3>1. CASE p = H
      BY <1>1, <1>4, <1>6, <1>14, <2>6, <3>1
    <3>2. CASE p = S
      BY <1>1, <1>4, <1>7, <1>14, <2>6, <3>2
    <3>3. CASE p = D
      BY <1>1, <1>4, <1>8, <1>14, <2>6, <3>3
    <3>4. ASSUME NEW i \in F, p = V(i) PROVE p = V(j)
      <4>1. Before(m, i) <= x /\ x < Before(m, i) + DataSize(m, i)
        BY <1>10, <2>6, <3>4 DEF x
      <4>2. i \in FarOnes(m)
        BY DEF F
      <4>3. i = j
        BY <2>1, <2>2, <4>1, <4>2, ValuesApart
      <4> QED
        BY <3>4, <4>3
    <3> QED
      BY <1>5, <3>1, <3>2, <3>3, <3>4
  <2>7. Cardinality({p \in P : p.from <= k /\ k < p.from + p.size}) = 1
    BY <2>4, <2>5, <2>6, OneCovers
  <2> QED
    BY <1>14, <2>7
<1>15. CASE k = end
  <2>1. s <= k
    BY <1>1, <1>4, <1>15 DEF s, n
  <2>2. ASSUME NEW p \in P, Covers(p, k) PROVE FALSE
    <3>1. CASE p = H
      BY <1>1, <1>4, <1>6, <2>1, <2>2, <3>1
    <3>2. CASE p = S
      BY <1>1, <1>4, <1>7, <2>1, <2>2, <3>2
    <3>3. CASE p = D
      BY <1>1, <1>4, <1>8, <2>1, <2>2, <3>3
    <3>4. CASE \E i \in F : p = V(i)
      BY <1>4, <1>10, <1>15, <2>2, <3>4
    <3> QED
      BY <1>5, <3>1, <3>2, <3>3, <3>4
  <2>3. Cardinality({p \in P : p.from <= k /\ k < p.from + p.size}) = 0
    BY <2>2, NoneCovers
  <2>4. ~ (k < end)
    BY <1>4, <1>15
  <2> QED
    BY <2>3, <2>4
<1> QED
  BY <1>1, <1>4, <1>11, <1>12, <1>13, <1>14, <1>15

(* Of what Encode wrote every byte belongs to the header, the strip, the directory or one of    *)
(* the values that the directory has outside itself, and to one of them only.                   *)
THEOREM LayoutApartThm == Spec => []LayoutApart
<1>1. RowsInv /\ TextInv /\ SavedInv => LayoutApart
  <2> SUFFICES ASSUME RowsInv, TextInv, SavedInv, EncodedAndRead, OffsetsFit, NEW k \in 0 .. Len(file)
               PROVE  Cardinality({p \in Places : p.from <= k /\ k < p.from + p.size})
                      = IF k < Len(file) THEN 1 ELSE 0
    BY Zenon DEF LayoutApart
  <2> DEFINE m == img
             end == Len(file)
             n == Count(m)
  <2>1. ReadWhole(file, head, ifd, m)
    BY WholeRead
  <2>2. m \in Images /\ end = Start(m) + Len(Values(m))
    BY <2>1 DEF ReadWhole
  <2>3. Len(Values(m)) = Before(m, Count(m) + 1)
    <3>1. n \in 0 .. n
      BY <2>2, PlaceSizes
    <3> QED
      BY <2>2, <3>1, AreaIs DEF Values
  <2>4. end = Start(m) + Before(m, Count(m) + 1) /\ k \in 0 .. end
    BY <2>2, <2>3
  <2> DEFINE P == Places
  <2>5. P = PlacesOf(m)
    BY <2>1, PlacesKnown
  <2> HIDE DEF m, end, P
  <2>6. Cardinality({p \in P : p.from <= k /\ k < p.from + p.size}) = IF k < end THEN 1 ELSE 0
    BY <2>2, <2>4, <2>5, EachCovered
  <2> QED
    BY <2>6, Zenon DEF end, P
<1> QED
  BY <1>1, RowsInvariant, TextInvariant, SavedInvariant, PTL
=============================================================================
