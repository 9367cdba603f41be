------------------------ MODULE BlockDecoderProofs ------------------------
(***************************************************************************)
(* The blocks of an image tile it; no pixel is written by two of them, a   *)
(* call without an error has written them all, what goes wrong has the     *)
(* causes it should have, and every pixel is made from its own samples.    *)
(***************************************************************************)
EXTENDS BlockDecoder, FiniteSetTheorems, NaturalsInduction, WellFoundedInduction, TLAPS

(***************************************************************************)
(* Geometry: every pixel lies in a block, and in no other.                 *)
(***************************************************************************)
\* Division rounds down.
LEMMA DivBounds ==
    ASSUME NEW x \in Nat, NEW d \in Nat \ {0}
    PROVE  /\ x \div d \in Nat
           /\ (x \div d) * d <= x
           /\ x < (x \div d) * d + d
  <1>1. x \div d \in Nat /\ x % d \in 0 .. d - 1
    BY SMT
  <1>2. x = (x \div d) * d + (x % d)
    BY SMT
  <1>3. (x \div d) * d \in Nat
    BY <1>1, SMT
  <1> QED
    BY <1>1, <1>2, <1>3, SMT

\* A multiple of d and what lies before the next one.
LEMMA NextMultiple ==
    ASSUME NEW a \in Nat, NEW b \in Nat, NEW d \in Nat, a < b
    PROVE  a * d + d <= b * d
  BY SMT

\* As many blocks of size d as DivUp says hold n pixels.
LEMMA DivUpHolds ==
    ASSUME NEW n \in Nat, NEW d \in Nat \ {0}, NEW x \in 0 .. n - 1
    PROVE  DivUp(n, d) \in Nat /\ x \div d \in 0 .. DivUp(n, d) - 1
  <1> DEFINE q == x \div d
             u == DivUp(n, d)
  <1>1. q \in Nat /\ q * d <= x
    BY DivBounds
  <1>2. u \in Nat /\ n + d - 1 < u * d + d
    BY DivBounds DEF DivUp
  <1>3. u * d \in Nat
    BY <1>2, SMT
  <1>4. x < u * d
    BY <1>2, <1>3, SMT
  <1>5. ~ u <= q
    <2> SUFFICES ASSUME u <= q PROVE FALSE
      OBVIOUS
    <2>1. u * d <= q * d
      BY <1>1, <1>2, SMT
    <2> QED
      BY <2>1, <1>1, <1>3, <1>4, SMT
  <1> HIDE DEF q, u
  <1>6. q \in 0 .. u - 1
    BY <1>1, <1>2, <1>5, SMT
  <1> QED
    BY <1>6, <1>2 DEF q, u

\* x lies between two neighbouring multiples of d in one way only.
LEMMA OneMultiple ==
    ASSUME NEW a \in Nat, NEW b \in Nat, NEW d \in Nat, NEW x \in Nat,
           a * d <= x, x < a * d + d, b * d <= x, x < b * d + d
    PROVE  a = b
  <1>1. ~ a < b
    BY NextMultiple, SMT
  <1>2. ~ b < a
    BY NextMultiple, SMT
  <1> QED
    BY <1>1, <1>2, SMT

\* How high a strip is that is not cut off.
StripRows(p) == IF p.rowsPerStrip = 0 THEN p.height ELSE p.rowsPerStrip

\* What is left below the full strips fills the last one.
LEMMA LastStrip ==
    ASSUME NEW h \in Nat \ {0}, NEW d \in Nat \ {0}, h % d # 0
    PROVE  /\ DivUp(h, d) = (h \div d) + 1
           /\ h = (h \div d) * d + (h % d)
  <1> DEFINE q == h \div d
             m == h % d
             u == DivUp(h, d)
  <1>1. q \in Nat /\ m \in 1 .. d - 1 /\ h = q * d + m
    BY SMT
  <1>2. u \in Nat /\ u * d <= h + d - 1 /\ h + d - 1 < u * d + d
    BY DivBounds DEF DivUp
  <1>3. q * d \in Nat /\ u * d \in Nat /\ (q + 1) * d = q * d + d
    BY <1>1, <1>2, SMT
  <1>4. (q + 1) * d <= h + d - 1 /\ h + d - 1 < (q + 1) * d + d
    BY <1>1, <1>3, SMT
  <1> HIDE DEF q, m, u
  <1>5. u = q + 1
    BY <1>1, <1>2, <1>4, OneMultiple, SMT
  <1> QED
    BY <1>1, <1>5 DEF q, m, u

\* A division without remainder needs no further block.
LEMMA WholeStrips ==
    ASSUME NEW h \in Nat \ {0}, NEW d \in Nat \ {0}, h % d = 0
    PROVE  DivUp(h, d) = h \div d /\ h = (h \div d) * d
  <1> DEFINE q == h \div d
             u == DivUp(h, d)
  <1>1. q \in Nat /\ h = q * d
    BY SMT
  <1>2. u \in Nat /\ u * d <= h + d - 1 /\ h + d - 1 < u * d + d
    BY DivBounds DEF DivUp
  <1>3. q * d <= h + d - 1 /\ h + d - 1 < q * d + d
    BY <1>1, SMT
  <1> HIDE DEF q, u
  <1>4. u = q
    BY <1>1, <1>2, <1>3, OneMultiple, SMT
  <1> QED
    BY <1>1, <1>4 DEF q, u

\* A strip b in this row is as high as the others, the last ends with the image.
Spans(p, b, row, s) ==
    /\ s \in Nat \ {0}
    /\ BlocksDown(p) \in Nat
    /\ b.minY = row * s
    /\ b.maxY \in Nat
    /\ b.maxY <= row * s + s
    /\ b.maxY <= p.height
    /\ row < BlocksDown(p) - 1 => b.maxY = row * s + s
    /\ row = BlocksDown(p) - 1 => b.maxY = p.height

LEMMA StripSpan ==
    ASSUME NEW p, IsLayout(p), p.height > 0, ~ p.tiled, Consistent(p),
           NEW col \in Int, NEW row \in 0 .. BlocksDown(p) - 1
    PROVE  Spans(p, StripBounds(p, col, row), row, StripRows(p))
  <1> DEFINE b == StripBounds(p, col, row)
             s == StripRows(p)
             h == p.height
  <1> SUFFICES Spans(p, b, row, s)
    OBVIOUS
  <1>1. h \in Nat \ {0} /\ p.rowsPerStrip \in Nat /\ p.tileLength = 0 /\ p.width \in Nat
    BY DEF IsLayout, Consistent
  <1>2. s \in Nat \ {0}
    BY <1>1 DEF StripRows
  <1>3. CASE p.rowsPerStrip = 0
    <2>1. BlocksDown(p) = 1 /\ row = 0 /\ s = h
      BY <1>1, <1>3 DEF BlocksDown, StripRows
    <2>2. h % h = 0
      BY <1>1, SMT
    <2>3. b.minY = 0 /\ b.maxY = h
      BY <1>1, <1>3, <2>1, <2>2, SMT DEF StripBounds, Rect
    <2> HIDE DEF b, s
    <2> QED
      BY <1>1, <1>2, <2>1, <2>3, SMT DEF Spans
  <1>4. CASE p.rowsPerStrip > h
    <2>1. BlocksDown(p) = 1 /\ row = 0 /\ s = p.rowsPerStrip
      BY <1>1, <1>4 DEF BlocksDown, StripRows
    <2>2. h % s = h
      BY <1>1, <1>2, <1>4, <2>1, SMT
    <2>3. b.minY = 0 /\ b.maxY = h
      BY <1>1, <1>2, <1>4, <2>1, <2>2, SMT DEF StripBounds, Rect
    <2> HIDE DEF b, s
    <2> QED
      BY <1>1, <1>2, <1>4, <2>1, <2>3, SMT DEF Spans
  <1>5. CASE p.rowsPerStrip > 0 /\ p.rowsPerStrip <= h
    <2>1. BlocksDown(p) = DivUp(h, s) /\ s = p.rowsPerStrip
      BY <1>1, <1>5 DEF BlocksDown, StripRows
    <2>2. b.minY = row * s
      BY <1>5, <2>1 DEF StripBounds, Rect
    <2>3. s = p.rowsPerStrip /\ b = StripBounds(p, col, row) /\ h = p.height
      BY <2>1
    <2> DEFINE q == h \div s
               m == h % s
    <2> HIDE DEF b, s, h
    <2>4. /\ q \in Nat /\ m \in 0 .. s - 1
          /\ row * s \in Nat /\ q * s \in Nat /\ row \in Nat
      BY <1>1, <1>2, SMT
    <2> HIDE DEF q, m
    <2>5. row < q => row * s + s <= q * s
      BY <1>2, <2>4, NextMultiple
    <2>6. CASE m # 0
      <3>1. BlocksDown(p) = q + 1 /\ h = q * s + m
        BY <1>1, <1>2, <2>1, <2>6, LastStrip DEF q, m
      <3>2. row = BlocksDown(p) - 1 => b.maxY = row * s + m
        BY <1>5, <2>3, <2>6 DEF StripBounds, Rect, m
      <3>3. row # BlocksDown(p) - 1 => b.maxY = row * s + s
        BY <1>5, <2>3, <2>6 DEF StripBounds, Rect, m
      <3>4. row = BlocksDown(p) - 1 => row = q
        BY <2>4, <3>1, SMT
      <3>5. row # BlocksDown(p) - 1 => row < q
        BY <2>4, <3>1, SMT
      <3>6. CASE row = BlocksDown(p) - 1
        <4>1. b.maxY = h
          BY <3>1, <3>2, <3>4, <3>6
        <4>2. h <= row * s + s /\ BlocksDown(p) \in Nat
          BY <1>2, <2>4, <3>1, <3>4, <3>6, SMT
        <4> QED
          BY <1>1, <1>2, <2>2, <2>3, <3>6, <4>1, <4>2, SMT DEF Spans
      <3>7. CASE row # BlocksDown(p) - 1
        <4>1. row * s + s <= h /\ BlocksDown(p) \in Nat /\ row * s + s \in Nat
          BY <1>2, <2>4, <2>5, <3>1, <3>5, <3>7, SMT
        <4> QED
          BY <1>1, <1>2, <2>2, <2>3, <3>3, <3>7, <4>1, SMT DEF Spans
      <3> QED
        BY <3>6, <3>7
    <2>7. CASE m = 0
      <3>1. BlocksDown(p) = q /\ h = q * s
        BY <1>1, <1>2, <2>1, <2>7, WholeStrips DEF q, m
      <3>2. b.maxY = row * s + s
        BY <1>5, <2>3, <2>7 DEF StripBounds, Rect, m
      <3>3. row + 1 = BlocksDown(p) => row * s + s = h
        <4>1. (row + 1) * s = row * s + s
          BY <1>2, <2>4, SMT
        <4> QED
          BY <3>1, <4>1
      <3>4. row < q
        BY <2>4, <3>1, SMT
      <3>5. row * s + s <= h /\ BlocksDown(p) \in Nat /\ row * s + s \in Nat
        BY <1>2, <2>4, <2>5, <3>1, <3>4, SMT
      <3>6. row = BlocksDown(p) - 1 => row * s + s = h
        BY <2>4, <3>3, <3>5, SMT
      <3> QED
        BY <1>1, <1>2, <2>2, <2>3, <3>2, <3>5, <3>6, SMT DEF Spans
    <2> QED
      BY <2>6, <2>7
  <1> QED
    BY <1>1, <1>3, <1>4, <1>5, SMT

\* The rows of the strips follow each other down to the last row of the image.
LEMMA StripOfRow ==
    ASSUME NEW p, IsLayout(p), p.height > 0, ~ p.tiled, Consistent(p),
           NEW v \in 0 .. p.height - 1
    PROVE  /\ StripRows(p) \in Nat \ {0}
           /\ v \div StripRows(p) \in 0 .. BlocksDown(p) - 1
  <1> DEFINE s == StripRows(p)
             h == p.height
  <1>1. h \in Nat \ {0} /\ p.rowsPerStrip \in Nat /\ p.tileLength = 0 /\ s \in Nat \ {0}
    BY DEF IsLayout, Consistent, StripRows
  <1>2. CASE p.rowsPerStrip = 0 \/ p.rowsPerStrip > h
    <2>1. BlocksDown(p) = 1 /\ v < s
      BY <1>1, <1>2 DEF BlocksDown, StripRows
    <2>2. v \div s = 0
      <3> HIDE DEF s
      <3> QED
        BY <1>1, <2>1, SMT
    <2> QED
      BY <1>1, <2>1, <2>2
  <1>3. CASE ~ (p.rowsPerStrip = 0 \/ p.rowsPerStrip > h)
    <2>1. BlocksDown(p) = DivUp(h, s)
      BY <1>1, <1>3 DEF BlocksDown, StripRows
    <2> QED
      BY <1>1, <2>1, DivUpHolds
  <1> QED
    BY <1>2, <1>3

\* Every pixel of the image lies in a block (BlockBounds, BlocksAcross, BlocksDown).
THEOREM BlocksCover ==
    ASSUME NEW p, IsLayout(p), Proper(p), Consistent(p),
           NEW x \in 0 .. p.width - 1, NEW v \in 0 .. p.height - 1
    PROVE  \E col, row \in Nat :
              IsBlock(p, col, row) /\ Within(BlockBounds(p, col, row), x, v)
  <1>1. p.width \in Nat \ {0} /\ p.height \in Nat \ {0} /\ x \in Nat /\ v \in Nat
    BY DEF IsLayout
  <1>2. CASE p.tiled
    <2> DEFINE w == p.tileWidth
               l == p.tileLength
               col == x \div w
               row == v \div l
    <2>1. w \in Nat \ {0} /\ l \in Nat \ {0}
      BY <1>2 DEF IsLayout, Proper
    <2>2. BlocksAcross(p) = DivUp(p.width, w) /\ BlocksDown(p) = DivUp(p.height, l)
      BY <1>1, <2>1 DEF BlocksAcross, BlocksDown
    <2>3. col \in 0 .. BlocksAcross(p) - 1 /\ row \in 0 .. BlocksDown(p) - 1
      BY <1>1, <2>1, <2>2, DivUpHolds
    <2>4. BlockBounds(p, col, row) = Rect(col * w, row * l, col * w + w, row * l + l)
      BY <1>2, <2>3 DEF BlockBounds, IsBlock, TileBounds
    <2>5. /\ col \in Nat /\ col * w <= x /\ x < col * w + w
          /\ row \in Nat /\ row * l <= v /\ v < row * l + l
      BY <1>1, <2>1, DivBounds
    <2> HIDE DEF col, row, w, l
    <2>6. col * w \in Nat /\ row * l \in Nat
      BY <2>1, <2>5, SMT
    <2>7. Within(BlockBounds(p, col, row), x, v)
      BY <1>1, <2>1, <2>4, <2>5, <2>6, SMT DEF Within, Rect
    <2> QED
      BY <2>3, <2>5, <2>7 DEF IsBlock
  <1>3. CASE ~ p.tiled
    <2> DEFINE s == StripRows(p)
               row == v \div s
               b == StripBounds(p, 0, row)
    <2>1. s \in Nat \ {0} /\ row \in 0 .. BlocksDown(p) - 1
      BY <1>1, <1>3, StripOfRow
    <2>2. row \in Nat /\ row * s <= v /\ v < row * s + s
      BY <1>1, <2>1, DivBounds
    <2>3. BlocksAcross(p) = 1
      BY <1>1, <1>3 DEF BlocksAcross, Consistent
    <2>4. IsBlock(p, 0, row) /\ BlockBounds(p, 0, row) = b
      BY <1>3, <2>1, <2>3 DEF IsBlock, BlockBounds
    <2>5. Spans(p, b, row, s)
      BY <1>1, <1>3, <2>1, StripSpan
    <2>6. b.minX = 0 /\ b.maxX = p.width
      BY <1>1 DEF StripBounds, Rect
    <2> HIDE DEF b, s, row
    <2>7. row * s \in Nat
      BY <2>1, <2>2, SMT
    <2>8. v < b.maxY
      BY <1>1, <2>1, <2>2, <2>5, <2>7, SMT DEF Spans
    <2>9. Within(b, x, v)
      BY <1>1, <2>2, <2>5, <2>6, <2>7, <2>8, SMT DEF Within, Spans
    <2> QED
      BY <2>2, <2>4, <2>9
  <1> QED
    BY <1>2, <1>3

\* No pixel lies in two blocks, so none is decoded twice.
THEOREM BlocksApart ==
    ASSUME NEW p, IsLayout(p), Consistent(p),
           NEW x \in Int, NEW v \in Int,
           NEW c1 \in Nat, NEW r1 \in Nat, NEW c2 \in Nat, NEW r2 \in Nat,
           IsBlock(p, c1, r1), Within(BlockBounds(p, c1, r1), x, v),
           IsBlock(p, c2, r2), Within(BlockBounds(p, c2, r2), x, v)
    PROVE  c1 = c2 /\ r1 = r2
  <1>1. CASE p.tiled
    <2> DEFINE w == p.tileWidth
               l == p.tileLength
    <2>1. w \in Nat /\ l \in Nat
      BY DEF IsLayout
    <2>2. \A c, r \in Nat : IsBlock(p, c, r) /\ Within(BlockBounds(p, c, r), x, v)
             => /\ c * w <= x /\ x < c * w + w /\ x \in Nat
                /\ r * l <= v /\ v < r * l + l /\ v \in Nat
      <3> SUFFICES ASSUME NEW c \in Nat, NEW r \in Nat,
                          IsBlock(p, c, r), Within(BlockBounds(p, c, r), x, v)
                   PROVE  /\ c * w <= x /\ x < c * w + w /\ x \in Nat
                          /\ r * l <= v /\ v < r * l + l /\ v \in Nat
        OBVIOUS
      <3>1. BlockBounds(p, c, r) = Rect(c * w, r * l, c * w + w, r * l + l)
        BY <1>1 DEF BlockBounds, TileBounds
      <3> HIDE DEF w, l
      <3>2. c * w \in Nat /\ r * l \in Nat
        BY <2>1, SMT
      <3> QED
        BY <2>1, <3>1, <3>2, SMT DEF Within, Rect
    <2> HIDE DEF w, l
    <2>3. /\ x \in Nat /\ c1 * w <= x /\ x < c1 * w + w /\ c2 * w <= x /\ x < c2 * w + w
          /\ v \in Nat /\ r1 * l <= v /\ v < r1 * l + l /\ r2 * l <= v /\ v < r2 * l + l
      BY <2>2, Zenon
    <2>4. c1 = c2
      BY <2>1, <2>3, OneMultiple
    <2>5. r1 = r2
      BY <2>1, <2>3, OneMultiple
    <2> QED
      BY <2>4, <2>5
  <1>2. CASE ~ p.tiled
    <2> DEFINE s == StripRows(p)
    <2>1. c1 = 0 /\ c2 = 0 /\ p.height > 0
      BY <1>2 DEF IsBlock, BlocksAcross, BlocksDown, Consistent, IsLayout
    <2>2. \A r \in Nat : IsBlock(p, 0, r) /\ Within(BlockBounds(p, 0, r), x, v)
             => r * s <= v /\ v < r * s + s /\ s \in Nat /\ v \in Nat
      <3> SUFFICES ASSUME NEW r \in Nat,
                          IsBlock(p, 0, r), Within(BlockBounds(p, 0, r), x, v)
                   PROVE  r * s <= v /\ v < r * s + s /\ s \in Nat /\ v \in Nat
        OBVIOUS
      <3> DEFINE b == StripBounds(p, 0, r)
      <3>1. r \in 0 .. BlocksDown(p) - 1 /\ BlockBounds(p, 0, r) = b
        BY <1>2 DEF IsBlock, BlockBounds
      <3>2. Spans(p, b, r, s)
        BY <1>2, <2>1, <3>1, StripSpan
      <3> HIDE DEF b, s
      <3>3. r * s \in Nat
        BY <3>2, SMT DEF Spans
      <3> QED
        BY <3>1, <3>2, <3>3, SMT DEF Within, Spans
    <2> HIDE DEF s
    <2> QED
      BY <2>1, <2>2, OneMultiple
  <1> QED
    BY <1>1, <1>2

\* The numbers of blocks are natural numbers.
LEMMA BlocksNat ==
    ASSUME NEW p, IsLayout(p)
    PROVE  BlocksAcross(p) \in Nat /\ BlocksDown(p) \in Nat
  <1>1. \A n \in Nat, d \in Nat : d > 0 => DivUp(n, d) \in Nat
    BY SMT DEF DivUp
  <1> QED
    BY <1>1 DEF BlocksAcross, BlocksDown, IsLayout

\* The blocks are numbered by natural numbers.
LEMMA BlockNat ==
    ASSUME NEW p, IsLayout(p), NEW col, NEW row, IsBlock(p, col, row)
    PROVE  col \in Nat /\ row \in Nat
  BY BlocksNat DEF IsBlock

\* The bounds of a block are integers.
LEMMA BoundsInt ==
    ASSUME NEW p, IsLayout(p), NEW col, NEW row
    PROVE  LET b == BlockBounds(p, col, row)
           IN  b.minX \in Int /\ b.minY \in Int /\ b.maxX \in Int /\ b.maxY \in Int
  <1>1. CASE ~ IsBlock(p, col, row)
    BY <1>1 DEF BlockBounds, Rect
  <1>2. CASE IsBlock(p, col, row)
    <2>1. col \in Nat /\ row \in Nat
      BY <1>2, BlockNat
    <2>2. CASE p.tiled
      <3>1. BlockBounds(p, col, row) = TileBounds(p, col, row)
        BY <1>2, <2>2 DEF BlockBounds
      <3> QED
        BY <2>1, <3>1, SMT DEF IsLayout, TileBounds, Rect
    <2>3. CASE ~ p.tiled
      <3> DEFINE s == StripRows(p)
      <3>1. s \in Nat \ {0} /\ p.width \in Nat /\ p.height \in Nat
        BY <1>2 DEF IsLayout, StripRows, IsBlock, BlocksDown
      <3>2. p.height % s \in Int
        BY <3>1, SMT
      <3>3. BlockBounds(p, col, row) =
              Rect(col * p.width, row * s, col * p.width + p.width,
                   row * s + (IF row = BlocksDown(p) - 1 /\ p.height % s # 0 THEN p.height % s ELSE s))
        BY <1>2, <2>3 DEF BlockBounds, StripBounds, StripRows
      <3> HIDE DEF s
      <3> QED
        BY <2>1, <3>1, <3>2, <3>3, SMT DEF Rect
    <2> QED
      BY <2>2, <2>3
  <1> QED
    BY <1>1, <1>2

(***************************************************************************)
(* No pixel is written by two blocks, whatever the layout of the image.    *)
(***************************************************************************)
\* Columns outside, rows inside.
Before(b, c) == b[1] < c[1] \/ (b[1] = c[1] /\ b[2] < c[2])

InBlock(at, col, row) ==
    IsBlock(ifd, col, row) /\ Within(BlockBounds(ifd, col, row), at[1], at[2])

\* The pixel lies in a block that was decoded before the present one.
DecodedBefore(at) ==
    /\ request = WholeImage
    /\ \E col, row \in Nat : Before(<<col, row>>, block) /\ InBlock(at, col, row)

Written(at) == pixels[at] # Blank

\* The inductive invariant: what is written lies in a block before, or above the next row.
OnceInv ==
    /\ ifd \in Ifds
    /\ DOMAIN pixels \subseteq Int \X Int
    /\ image.bounds.maxX \in Int /\ image.bounds.maxY \in Int
    /\ pc = "open" => \A at \in DOMAIN pixels : ~ Written(at)
    /\ pc \in {"block", "rows"} => Consistent(ifd)
    /\ pc = "block" /\ request = WholeImage => IsBlock(ifd, block[1], block[2])
    /\ pc = "block" => \A at \in DOMAIN pixels : Written(at) => DecodedBefore(at)
    /\ pc = "rows" =>
          /\ IsBlock(ifd, block[1], block[2])
          /\ y \in Int /\ y >= Bounds.minY
          /\ \A at \in DOMAIN pixels : Written(at) =>
                DecodedBefore(at) \/ (InBlock(at, block[1], block[2]) /\ at[2] < y)

\* An image is allocated only where the tile tags come together.
LEMMA AllocatedIsConsistent ==
    ASSUME NEW p \in Ifds, NewImage(p) # "error"
    PROVE  IsLayout(p) /\ Consistent(p)
  <1>1. HasTags(p)
    <2> SUFFICES ASSUME ~ HasTags(p) PROVE FALSE
      OBVIOUS
    <2>1. ImageType(p) = "Nil"
      BY DEF ImageType
    <2> QED
      BY <2>1 DEF NewImage, Grays
  <1>2. ~ p.tiled => "TileWidth" \notin p.tags /\ "TileLength" \notin p.tags
    BY <1>1, IfdAssumption DEF HasTags, TileTags
  <1> QED
    BY <1>2, IfdAssumption DEF Consistent

LEMMA BlankIsBlank ==
    ASSUME NEW r
    PROVE  /\ DOMAIN AllBlank(r) \subseteq Int \X Int
           /\ \A at \in DOMAIN AllBlank(r) : AllBlank(r)[at] = Blank
  BY DEF AllBlank

\* The block at work and where its rows end.
LEMMA RowsEnd ==
    ASSUME OnceInv, pc = "rows"
    PROVE  /\ IsLayout(ifd) /\ Consistent(ifd)
           /\ block[1] \in Nat /\ block[2] \in Nat
           /\ Bounds.minX \in Int /\ Bounds.minY \in Int
           /\ Bounds.maxX \in Int /\ Bounds.maxY \in Int
           /\ RMaxX \in Int /\ RMaxX <= Bounds.maxX
           /\ RMaxY \in Int /\ RMaxY <= Bounds.maxY
  <1>1. IsLayout(ifd) /\ Consistent(ifd) /\ IsBlock(ifd, block[1], block[2])
    BY IfdAssumption DEF OnceInv
  <1>2. block[1] \in Nat /\ block[2] \in Nat
    BY <1>1, BlockNat
  <1>3. /\ Bounds.minX \in Int /\ Bounds.minY \in Int
        /\ Bounds.maxX \in Int /\ Bounds.maxY \in Int
    BY <1>1, BoundsInt DEF Bounds
  <1>4. /\ image.bounds.maxX \in Int /\ image.bounds.maxY \in Int
        /\ ifd.width \in Int /\ ifd.height \in Int
    BY <1>1 DEF OnceInv, IsLayout
  <1> HIDE DEF Bounds
  <1> QED
    BY <1>1, <1>2, <1>3, <1>4 DEF RMaxX, RMaxY, Lesser

\* The pixels of a row lie in the block.
LEMMA RowInBlock ==
    ASSUME OnceInv, AtRow, NEW at \in DOMAIN pixels,
           at[2] = y, at[1] + 1 - Bounds.minX \in Readable
    PROVE  InBlock(at, block[1], block[2])
  <1>1. pc = "rows" /\ y < RMaxY /\ y \in Int /\ y >= Bounds.minY
        /\ IsBlock(ifd, block[1], block[2])
    BY DEF OnceInv, AtRow
  <1>2. at[1] \in Int
    BY DEF OnceInv
  <1>3. at[1] + 1 - Bounds.minX \in 1 .. RMaxX - Bounds.minX
    BY DEF Readable, RowWidth
  <1>4. Within(Bounds, at[1], at[2])
    <2> HIDE DEF Bounds, RMaxX, RMaxY
    <2> QED
      BY <1>1, <1>2, <1>3, RowsEnd DEF Within
  <1> QED
    BY <1>1, <1>4 DEF InBlock, Bounds

\* A row that is written was blank.
LEMMA RowWasBlank ==
    ASSUME OnceInv, AtRow, NEW at \in DOMAIN pixels, Written(at)
    PROVE  RowWritten[at] = pixels[at]
  <1> SUFFICES ASSUME at[2] = y, at[1] + 1 - Bounds.minX \in Readable
               PROVE  FALSE
    BY DEF RowWritten
  <1>1. pc = "rows" /\ y \in Int /\ at[1] \in Int /\ at[2] \in Int
    BY DEF OnceInv, AtRow
  <1>2. InBlock(at, block[1], block[2])
    BY RowInBlock
  <1>3. DecodedBefore(at)
    BY <1>1 DEF OnceInv
  <1>4. PICK col \in Nat, row \in Nat : Before(<<col, row>>, block) /\ InBlock(at, col, row)
    BY <1>3 DEF DecodedBefore
  <1>5. col = block[1] /\ row = block[2]
    <2> DEFINE x1 == at[1]
               y1 == at[2]
               c2 == block[1]
               r2 == block[2]
    <2>1. /\ IsLayout(ifd) /\ Consistent(ifd)
          /\ x1 \in Int /\ y1 \in Int /\ c2 \in Nat /\ r2 \in Nat
      BY <1>1, RowsEnd
    <2>2. /\ IsBlock(ifd, col, row) /\ Within(BlockBounds(ifd, col, row), x1, y1)
          /\ IsBlock(ifd, c2, r2) /\ Within(BlockBounds(ifd, c2, r2), x1, y1)
      BY <1>2, <1>4 DEF InBlock
    <2> HIDE DEF x1, y1, c2, r2
    <2>3. col = c2 /\ row = r2
      BY <2>1, <2>2, BlocksApart
    <2> QED
      BY <2>3 DEF c2, r2
  <1> QED
    BY <1>1, <1>4, <1>5, RowsEnd DEF Before

\* What has been written after a row lies before or above the next one.
LEMMA RowKeepsOnce ==
    ASSUME OnceInv, AtRow, pixels' = RowWritten, UNCHANGED <<ifd, request, block>>
    PROVE  /\ DOMAIN pixels' = DOMAIN pixels
           /\ \A at \in DOMAIN pixels : Written(at)' =>
                DecodedBefore(at) \/ (InBlock(at, block[1], block[2]) /\ at[2] < y + 1)
  <1>1. DOMAIN pixels' = DOMAIN pixels
    BY DEF RowWritten
  <1>2. ASSUME NEW at \in DOMAIN pixels, Written(at)'
        PROVE  DecodedBefore(at) \/ (InBlock(at, block[1], block[2]) /\ at[2] < y + 1)
    <2>1. y \in Int /\ at[2] \in Int /\ pc = "rows"
      BY DEF OnceInv, AtRow
    <2>2. CASE at[2] = y /\ at[1] + 1 - Bounds.minX \in Readable
      BY <2>1, <2>2, RowInBlock
    <2>3. CASE ~ (at[2] = y /\ at[1] + 1 - Bounds.minX \in Readable)
      <3>1. Written(at)
        BY <1>2, <2>3 DEF Written, RowWritten
      <3> QED
        BY <2>1, <3>1 DEF OnceInv
    <2> QED
      BY <2>2, <2>3
  <1> QED
    BY <1>1, <1>2

LEMMA OnceInit == Init => OnceInv
  BY BlankIsBlank DEF Init, OnceInv, Written, Rect

\* An image that was just allocated is blank.
LEMMA AllocateOnce ==
    ASSUME OnceInv, pc = "open", NewImage(ifd) # "error",
           NEW r, r.maxX \in Int, r.maxY \in Int, NEW first, NEW next,
           next \in {"block", "done"}, Allocate(r, first, next),
           next = "block" /\ request = WholeImage => IsBlock(ifd, first[1], first[2])
    PROVE  OnceInv'
  <1>1. /\ ifd' = ifd /\ request' = request /\ pc' = next /\ block' = first
        /\ pixels' = AllBlank(r) /\ image'.bounds = r
    BY DEF Allocate
  <1>2. \A at \in DOMAIN pixels' : ~ Written(at)'
    BY <1>1, BlankIsBlank DEF Written
  <1>3. DOMAIN pixels' \subseteq Int \X Int
    BY <1>1, BlankIsBlank
  <1>4. ifd \in Ifds /\ Consistent(ifd)
    BY AllocatedIsConsistent DEF OnceInv
  <1> QED
    BY <1>1, <1>2, <1>3, <1>4 DEF OnceInv

\* The next block comes after all that were decoded.
LEMMA NextBlockOnce ==
    ASSUME OnceInv, NextBlock
    PROVE  OnceInv'
  <1>1. /\ pc = "rows" /\ ifd' = ifd /\ request' = request
        /\ image' = image /\ pixels' = pixels
    BY DEF NextBlock
  <1>2. CASE pc' = "done"
    BY <1>1, <1>2 DEF OnceInv
  <1>3. CASE pc' # "done"
    <2>1. /\ pc' = "block" /\ request = WholeImage
          /\ \/ block' = <<block[1], block[2] + 1>> /\ block[2] + 1 < BlocksDown(ifd)
             \/ block' = <<block[1] + 1, 0>> /\ block[1] + 1 < BlocksAcross(ifd)
      BY <1>3 DEF NextBlock
    <2>2. /\ block[1] \in Nat /\ block[2] \in Nat /\ IsBlock(ifd, block[1], block[2])
          /\ BlocksAcross(ifd) \in Nat /\ BlocksDown(ifd) \in Nat
      BY <1>1, RowsEnd, BlocksNat DEF OnceInv
    <2>3. IsBlock(ifd, block'[1], block'[2]) /\ Before(block, block')
      BY <2>1, <2>2 DEF IsBlock, Before
    <2>4. ASSUME NEW at \in DOMAIN pixels, Written(at) PROVE DecodedBefore(at)'
      <3>1. CASE DecodedBefore(at)
        <4>1. PICK col \in Nat, row \in Nat : Before(<<col, row>>, block) /\ InBlock(at, col, row)
          BY <3>1 DEF DecodedBefore
        <4>2. Before(<<col, row>>, block')
          BY <2>1, <2>2, <4>1 DEF Before
        <4> QED
          BY <1>1, <2>1, <4>1, <4>2 DEF DecodedBefore, InBlock
      <3>2. CASE InBlock(at, block[1], block[2])
        <4>1. Before(<<block[1], block[2]>>, block')
          BY <2>3 DEF Before
        <4> QED
          BY <1>1, <2>1, <2>2, <3>2, <4>1 DEF DecodedBefore, InBlock
      <3> QED
        BY <1>1, <2>4, <3>1, <3>2 DEF OnceInv
    <2>5. \A at \in DOMAIN pixels' : Written(at)' => DecodedBefore(at)'
      BY <1>1, <2>4 DEF Written
    <2> QED
      BY <1>1, <2>1, <2>3, <2>5 DEF OnceInv
  <1> QED
    BY <1>2, <1>3

LEMMA OnceNext ==
    ASSUME OnceInv, [Next]_vars
    PROVE  OnceInv'
  <1>1. CASE DecodeImage
    <2>1. CASE ImageConfig(ifd) = "error" \/ NewImage(ifd) = "error"
      BY <1>1, <2>1 DEF DecodeImage, Fail, OnceInv
    <2>2. CASE ~ (ImageConfig(ifd) = "error" \/ NewImage(ifd) = "error")
      <3> DEFINE r    == Rect(0, 0, ifd.width, ifd.height)
                 next == IF BlocksAcross(ifd) > 0 /\ BlocksDown(ifd) > 0 THEN "block" ELSE "done"
      <3>1. pc = "open" /\ NewImage(ifd) # "error" /\ Allocate(r, <<0, 0>>, next)
        BY <1>1, <2>2 DEF DecodeImage
      <3>2. IsLayout(ifd) /\ r.maxX \in Int /\ r.maxY \in Int
        BY IfdAssumption DEF OnceInv, IsLayout, Rect
      <3>3. next \in {"block", "done"} /\ (next = "block" => IsBlock(ifd, 0, 0))
        BY <3>2, BlocksNat DEF IsBlock
      <3> HIDE DEF r, next
      <3> QED
        BY <3>1, <3>2, <3>3, AllocateOnce
    <2> QED
      BY <2>1, <2>2
  <1>2. CASE DecodeImageBlock
    <2>1. CASE NewImage(ifd) = "error"
      BY <1>2, <2>1 DEF DecodeImageBlock, Fail, OnceInv
    <2>2. CASE NewImage(ifd) # "error"
      <3> DEFINE r == BlockBounds(ifd, request[1], request[2])
      <3>1. /\ pc = "open" /\ NewImage(ifd) # "error" /\ request # WholeImage
            /\ Allocate(r, request, "block")
        BY <1>2, <2>2 DEF DecodeImageBlock
      <3>2. r.maxX \in Int /\ r.maxY \in Int
        BY IfdAssumption, BoundsInt DEF OnceInv
      <3> HIDE DEF r
      <3> QED
        BY <3>1, <3>2, AllocateOnce
    <2> QED
      BY <2>1, <2>2
  <1>3. CASE DecodeBlock
    <2>1. /\ pc = "block" /\ IsBlock(ifd, block[1], block[2])
          /\ UNCHANGED <<ifd, request, image, pixels, block>>
          /\ pc' \in {"error", "panic"} \/ (pc' = "rows" /\ y' = Bounds.minY)
      BY <1>3 DEF DecodeBlock, Fail
    <2>2. Bounds.minY \in Int /\ Bounds' = Bounds
      BY <2>1, IfdAssumption, BoundsInt DEF OnceInv, Bounds
    <2>3. \A at : (Written(at)' <=> Written(at)) /\ (DecodedBefore(at)' <=> DecodedBefore(at))
      BY <2>1 DEF Written, DecodedBefore, InBlock
    <2> QED
      BY <2>1, <2>2, <2>3 DEF OnceInv
  <1>4. CASE DecodeBlockFails
    BY <1>4 DEF DecodeBlockFails, Fail, OnceInv
  <1>5. CASE DecodeRow
    <2>1. /\ AtRow /\ pixels' = RowWritten /\ y' = y + 1
          /\ UNCHANGED <<ifd, request, pc, image, block>>
      BY <1>5 DEF DecodeRow
    <2>2. /\ DOMAIN pixels' = DOMAIN pixels
          /\ \A at \in DOMAIN pixels : Written(at)' =>
               DecodedBefore(at) \/ (InBlock(at, block[1], block[2]) /\ at[2] < y + 1)
      BY <2>1, RowKeepsOnce
    <2>3. y' \in Int /\ y' >= Bounds.minY /\ Bounds' = Bounds
      BY <2>1, RowsEnd DEF OnceInv, AtRow, Bounds
    <2>4. \A at : (DecodedBefore(at)' <=> DecodedBefore(at))
               /\ (InBlock(at, block[1], block[2])' <=> InBlock(at, block[1], block[2]))
      BY <2>1 DEF DecodedBefore, InBlock
    <2> QED
      BY <2>1, <2>2, <2>3, <2>4 DEF OnceInv, AtRow
  <1>6. CASE RowTooShort
    <2>1. /\ AtRow /\ pixels' = RowWritten /\ pc' \in {"panic", "short"}
          /\ UNCHANGED <<ifd, request, image, block>>
      BY <1>6 DEF RowTooShort
    <2>2. DOMAIN pixels' = DOMAIN pixels
      BY <2>1, RowKeepsOnce
    <2> QED
      BY <2>1, <2>2 DEF OnceInv
  <1>7. CASE DivideByZero
    BY <1>7 DEF DivideByZero, Fail, OnceInv
  <1>8. CASE NextBlock
    BY <1>8, NextBlockOnce
  <1>9. CASE UNCHANGED vars
    BY <1>9 DEF vars, OnceInv, Written, DecodedBefore, InBlock, Bounds
  <1> QED
    BY <1>1, <1>2, <1>3, <1>4, <1>5, <1>6, <1>7, <1>8, <1>9 DEF Next

\* A step overwrites no pixel.
LEMMA StepWritesOnce ==
    ASSUME OnceInv, [Next]_vars
    PROVE  [\A at \in DOMAIN pixels : pixels[at] # Blank => pixels'[at] = pixels[at]]_vars
  <1> SUFFICES ASSUME Next, NEW at \in DOMAIN pixels, Written(at)
               PROVE  pixels'[at] = pixels[at]
    BY DEF Written
  <1>1. pc # "open"
    BY DEF OnceInv
  <1>2. CASE DecodeRow \/ RowTooShort
    BY <1>2, RowWasBlank DEF DecodeRow, RowTooShort
  <1>3. CASE DecodeBlock \/ DecodeBlockFails \/ DivideByZero \/ NextBlock
    BY <1>3 DEF DecodeBlock, DecodeBlockFails, DivideByZero, NextBlock, Fail
  <1> QED
    BY <1>1, <1>2, <1>3 DEF Next, DecodeImage, DecodeImageBlock

\* DecodeImage, DecodeImageBlock: a pixel that one block has written is written by no other,
\* for every layout of tiles or strips, every format and all data.
THEOREM WritesOnceThm == Spec => WritesOnce
  <1>1. Init => OnceInv
    BY OnceInit
  <1>2. OnceInv /\ [Next]_vars => OnceInv'
    BY OnceNext
  <1>3. OnceInv /\ [Next]_vars
        => [\A at \in DOMAIN pixels : pixels[at] # Blank => pixels'[at] = pixels[at]]_vars
    BY StepWritesOnce
  <1> QED
    BY <1>1, <1>2, <1>3, PTL DEF Spec, WritesOnce

(***************************************************************************)
(* Errors and panics.                                                      *)
(***************************************************************************)
\* The image that is allocated is the one that decodeBlock asserts.
LEMMA FormatsAgree ==
    ASSUME NEW p, p.bits \in Seq(Nat), NewImage(p) # "error"
    PROVE  AssertedImage(p) = NewImage(p)
  <1>1. ImageType(p) \in Grays \cup {"Paletted", "NRGBA", "RGB", "RGBA"}
    BY DEF NewImage
  <1>2. CASE ImageType(p) \in Grays
    <2>1. NewImage(p) = NewGray(p)
      BY <1>2 DEF NewImage, Grays
    <2>2. AssertedImage(p) = IF FaxPixels(p) THEN "Gray" ELSE Sized(p, "Gray", "Gray16")
      BY <1>2 DEF AssertedImage, Grays
    <2>3. FaxPixels(p) => Depth(p) # 16
      BY DEF FaxPixels
    <2>4. ImageType(p) \in {"Bilevel", "BilevelInvert"} => Depth(p) # 16
      <3> SUFFICES ASSUME ImageType(p) \in {"Bilevel", "BilevelInvert"} PROVE Depth(p) # 16
        OBVIOUS
      <3>1. IsBilevel(p)
        BY DEF ImageType
      <3>2. Len(p.bits) = 1 /\ p.bits[1] < 8 /\ p.bits[1] \in Nat
        BY <3>1 DEF IsBilevel, Channels
      <3> QED
        BY <3>2 DEF Depth
    <2> QED
      BY <2>1, <2>2, <2>3, <2>4 DEF NewGray, Sized
  <1>3. CASE ImageType(p) \in {"Paletted", "NRGBA", "RGB", "RGBA"}
    BY <1>3 DEF AssertedImage, NewImage, Grays
  <1> QED
    BY <1>1, <1>2, <1>3

\* What ImageConfig announces is allocated, if the samples have a common depth.
LEMMA ConfigAgrees ==
    ASSUME NEW p, p.bits \in Seq(Nat), NewImage(p) # "error", ImageConfig(p) # "error",
           ~ DividesByDepth(p)
    PROVE  ImageConfig(p) = NewImage(p)
  <1> DEFINE bits == p.bits
             deep == bits[1] = 16
             even == \A i \in 1 .. Len(bits) : bits[i] = IF deep THEN 16 ELSE 8
  <1>1. ImageType(p) \in Grays \cup {"Paletted", "NRGBA", "RGB", "RGBA"}
    BY DEF NewImage
  <1>2. CASE ImageType(p) \in Grays
    <2>1. p.photometric \in {"WhiteIsZero", "BlackIsZero"}
      BY <1>2 DEF ImageType, Grays
    <2>2. bits # <<>> /\ ImageConfig(p) = IF deep THEN "Gray16" ELSE "Gray"
      BY <2>1 DEF ImageConfig
    <2>3. Depth(p) # 0
      BY <1>2 DEF DividesByDepth, FaxPixels
    <2>4. Depth(p) = bits[1]
      BY <2>3 DEF Depth
    <2>5. ImageType(p) \in {"Bilevel", "BilevelInvert"} => ~ deep
      <3>1. ImageType(p) \in {"Bilevel", "BilevelInvert"} => IsBilevel(p)
        BY DEF ImageType
      <3> QED
        BY <3>1 DEF IsBilevel
    <2>6. NewImage(p) = NewGray(p)
      BY <1>2 DEF NewImage, Grays
    <2> QED
      BY <2>2, <2>4, <2>5, <2>6 DEF NewGray, Sized
  <1>3. CASE ImageType(p) = "Paletted"
    <2>1. p.photometric = "Paletted"
      BY <1>3 DEF ImageType
    <2> QED
      BY <1>3, <2>1 DEF ImageConfig, NewImage, Grays
  <1>4. CASE ImageType(p) \in {"RGB", "RGBA", "NRGBA"}
    <2>1. p.photometric = "RGB"
      BY <1>4 DEF ImageType
    <2>2. bits # <<>> /\ even /\ Len(bits) \in {3, 4}
      BY <2>1 DEF ImageConfig, Premultiplied, Straight, Channels
    <2>3. Depth(p) = bits[1]
      BY <2>2 DEF Depth
    <2>4. /\ ImageType(p) = "NRGBA" => ~ Premultiplied(p) /\ Straight(p)
          /\ ImageType(p) \in {"RGB", "RGBA"} => Premultiplied(p)
      BY <1>4, <2>1 DEF ImageType, Premultiplied, Straight, Channels
    <2>5. CASE ImageType(p) = "NRGBA"
      <3>1. ImageConfig(p) = IF deep THEN "NRGBA64" ELSE "NRGBA"
        BY <2>1, <2>2, <2>4, <2>5 DEF ImageConfig
      <3> QED
        BY <2>3, <2>5, <3>1 DEF NewImage, Sized, Grays
    <2>6. CASE ImageType(p) \in {"RGB", "RGBA"}
      <3>1. ImageConfig(p) = IF deep THEN "RGBA64" ELSE "RGBA"
        BY <2>1, <2>2, <2>4, <2>6 DEF ImageConfig
      <3> QED
        BY <2>3, <2>6, <3>1 DEF NewImage, Sized, Grays
    <2> QED
      BY <1>4, <2>5, <2>6
  <1> QED
    BY <1>1, <1>2, <1>3, <1>4

\* BlockBounds places the blocks where TIFF 6.0 does.
LEMMA BlocksAsInFile ==
    ASSUME NEW p, IsLayout(p), Consistent(p), NEW col, NEW row, IsBlock(p, col, row)
    PROVE  BlockBounds(p, col, row) = FileBlock(p, col, row)
  <1>1. /\ p.width \in Nat /\ p.height \in Nat /\ p.rowsPerStrip \in Nat
        /\ p.tileWidth \in Nat /\ p.tileLength \in Nat
        /\ col \in Nat /\ row \in Nat
    BY BlockNat DEF IsLayout
  <1>2. CASE p.tiled
    <2>1. BlockBounds(p, col, row) = TileBounds(p, col, row)
      BY <1>2 DEF BlockBounds
    <2>2. \A n, d \in Nat : (n + 1) * d = n * d + d
      BY SMT
    <2> QED
      BY <1>1, <1>2, <2>1, <2>2 DEF TileBounds, FileBlock
  <1>3. CASE ~ p.tiled
    <2> DEFINE b == StripBounds(p, col, row)
               s == StripRows(p)
               h == p.height
               f == IF p.rowsPerStrip \in 1 .. h THEN p.rowsPerStrip ELSE h
    <2>1. h > 0 /\ col = 0 /\ row \in 0 .. BlocksDown(p) - 1 /\ BlockBounds(p, col, row) = b
      BY <1>1, <1>3 DEF IsBlock, BlocksAcross, BlocksDown, Consistent, BlockBounds
    <2>2. Spans(p, b, row, s)
      BY <1>3, <2>1, StripSpan
    <2>3. FileBlock(p, col, row)
            = Rect(0, row * f, p.width, IF (row + 1) * f < h THEN (row + 1) * f ELSE h)
      BY <1>3 DEF FileBlock
    <2>4. b.minY = row * f /\ b.maxY = IF (row + 1) * f < h THEN (row + 1) * f ELSE h
      <3>1. CASE p.rowsPerStrip \in 1 .. h
        <4>1. f = s /\ s \in Nat \ {0}
          BY <1>1, <2>1, <3>1 DEF StripRows
        <4>2. (row + 1) * s = row * s + s /\ row * s \in Nat
          BY <1>1, <4>1, SMT
        <4> HIDE DEF b, f, s
        <4> QED
          BY <1>1, <2>1, <2>2, <4>1, <4>2, SMT DEF Spans
      <3>2. CASE p.rowsPerStrip \notin 1 .. h
        <4>1. p.rowsPerStrip = 0 \/ p.rowsPerStrip > h
          BY <1>1, <3>2
        <4>2. BlocksDown(p) = 1 /\ row = 0 /\ f = h
          BY <1>3, <2>1, <3>2, <4>1 DEF BlocksDown, Consistent
        <4>3. b.minY = 0 /\ b.maxY = h
          <5>1. row * s = 0
            BY <2>2, <4>2 DEF Spans
          <5> HIDE DEF b, s
          <5> QED
            BY <2>2, <4>2, <5>1 DEF Spans
        <4>4. (row + 1) * f = h /\ row * f = 0
          BY <2>1, <4>2, <1>1
        <4> HIDE DEF b, f
        <4> QED
          BY <1>1, <4>2, <4>3, <4>4
      <3> QED
        BY <3>1, <3>2
    <2>5. b = Rect(0, b.minY, p.width, b.maxY)
      BY <1>1, <2>1 DEF StripBounds, Rect
    <2> HIDE DEF b, f
    <2> QED
      BY <2>1, <2>3, <2>4, <2>5
  <1> QED
    BY <1>2, <1>3

\* Numbers of bits.
LEMMA BitsNat ==
    ASSUME NEW p, p.bits \in Seq(Nat)
    PROVE  /\ Depth(p) \in Nat /\ Channels(p) \in Nat
           /\ BitsRead(p) \in Nat /\ SamplesRead(p) \in {1, 3, 4} /\ PixelBits(p) \in Nat
           /\ FileDepth(p) \in Nat /\ FileChannels(p) \in Nat
  <1>1. Depth(p) \in Nat
    <2>1. p.bits # <<>> => p.bits[1] \in Nat
      OBVIOUS
    <2> QED
      BY <2>1 DEF Depth
  <1>2. Channels(p) \in Nat
    BY DEF Channels
  <1>3. BitsRead(p) \in Nat
    BY <1>1 DEF BitsRead
  <1>4. SamplesRead(p) \in {1, 3, 4}
    BY DEF SamplesRead
  <1>5. \A a, b \in Nat : a * b \in Nat
    BY SMT
  <1>6. PixelBits(p) \in Nat
    BY <1>3, <1>4, <1>5 DEF PixelBits
  <1> QED
    BY <1>1, <1>2, <1>3, <1>4, <1>6 DEF FileDepth, FileChannels

\* Rows start on a byte: as many bytes as DivUp says hold n bits, and no fewer do.
LEMMA BytesHold ==
    ASSUME NEW n \in Int
    PROVE  /\ DivUp(n, 8) \in Int /\ n <= 8 * DivUp(n, 8)
           /\ \A k \in Int : n <= 8 * k => 8 * DivUp(n, 8) <= 8 * k
  BY SMT DEF DivUp

\* The rows of the block at work in the file, in whole bytes.
LEMMA RowBits ==
    ASSUME OnceInv, pc = "rows"
    PROVE  /\ InFile = Bounds
           /\ \E r \in Int :
                /\ FileRowBits(ifd, InFile) = 8 * r
                /\ FileBits(ifd, InFile) = (Bounds.maxY - Bounds.minY) * (8 * r)
                /\ SamplesFit => (Bounds.maxX - Bounds.minX) * PixelBits(ifd) <= 8 * r
  <1>1. /\ IsLayout(ifd) /\ Consistent(ifd) /\ IsBlock(ifd, block[1], block[2])
        /\ ifd.bits \in Seq(Nat)
    BY IfdAssumption DEF OnceInv
  <1>2. InFile = Bounds
    BY <1>1, BlocksAsInFile DEF InFile, Bounds
  <1> DEFINE w == Bounds.maxX - Bounds.minX
             c == FileChannels(ifd)
             d == FileDepth(ifd)
             r == DivUp(w * c * d, 8)
  <1>3. w \in Int /\ c \in Nat /\ d \in Nat
    <2>1. Bounds.minX \in Int /\ Bounds.maxX \in Int
      BY RowsEnd
    <2> HIDE DEF Bounds
    <2> QED
      BY <1>1, <2>1, BitsNat
  <1>4. FileRowBits(ifd, InFile) = 8 * r
    BY <1>2 DEF FileRowBits
  <1>5. FileBits(ifd, InFile) = (Bounds.maxY - Bounds.minY) * (8 * r)
    BY <1>2, <1>4 DEF FileBits
  <1>6. SamplesFit => PixelBits(ifd) = c * d
    BY DEF SamplesFit, PixelBits
  <1> HIDE DEF c, d, w
  <1>7. w * c * d \in Int /\ w * c * d = w * (c * d)
    BY <1>3, SMT
  <1>8. r \in Int /\ w * c * d <= 8 * r
    BY <1>7, BytesHold
  <1>9. SamplesFit => w * PixelBits(ifd) <= 8 * r
    BY <1>6, <1>7, <1>8
  <1> HIDE DEF r
  <1> QED
    BY <1>2, <1>4, <1>5, <1>8, <1>9 DEF w

\* Where the data is read on, no more of it is behind than the rows above have in the file.
CursorFits ==
    SamplesFit /\ ~ Addressed(ifd) => cursor <= (y - Bounds.minY) * FileRowBits(ifd, InFile)

\* A pixel of the next row that is not there lies beyond data that are too short.
LEMMA MissingIsShort ==
    ASSUME OnceInv, AtRow, SamplesFit, size \in Int, cursor \in Int, CursorFits,
           NEW i \in 1 .. RowWidth, ~ Room(i)
    PROVE  size < FileBits(ifd, InFile)
  <1> DEFINE w == Bounds.maxX - Bounds.minX
             h == Bounds.maxY - Bounds.minY
             d == y - Bounds.minY
             b == PixelBits(ifd)
             j == IF CopiesRows(ifd) THEN w ELSE i
             n == RowWidth
  <1>1. pc = "rows" /\ IfdAssumption
    BY IfdAssumption DEF AtRow, OnceInv
  <1>2. /\ w \in Int /\ h \in Int /\ d \in Nat /\ d < h /\ n \in Int /\ n <= w
    <2>1. /\ Bounds.minX \in Int /\ Bounds.minY \in Int
          /\ Bounds.maxX \in Int /\ Bounds.maxY \in Int
          /\ RMaxX \in Int /\ RMaxX <= Bounds.maxX
          /\ RMaxY \in Int /\ RMaxY <= Bounds.maxY
      BY <1>1, RowsEnd
    <2>2. y \in Int /\ y >= Bounds.minY /\ y < RMaxY
      BY <1>1 DEF OnceInv, AtRow
    <2> HIDE DEF Bounds, RMaxX, RMaxY
    <2> QED
      BY <2>1, <2>2 DEF RowWidth
  <1>3. b \in Nat
    BY BitsNat, IfdAssumption DEF OnceInv
  <1>4. PICK r \in Int : /\ FileRowBits(ifd, InFile) = 8 * r
                         /\ FileBits(ifd, InFile) = h * (8 * r)
                         /\ w * b <= 8 * r
    BY <1>1, RowBits
  <1>5. i \in Int /\ 1 <= i /\ i <= n
    BY <1>2
  <1>6. j \in Int /\ 0 <= j /\ j <= w
    BY <1>2, <1>5
  <1>7. RowStart = IF Addressed(ifd) THEN d * w * b ELSE cursor
    BY DEF RowStart
  <1>8. ~ Addressed(ifd) => cursor <= d * (8 * r)
    BY <1>4 DEF CursorFits
  <1>9. ~ (RowStart + j * b <= size)
    BY DEF Room, PixelEnd
  <1> HIDE DEF w, h, d, b, j, n
  <1>10. w >= 1 /\ j * b <= w * b /\ 0 <= w * b /\ 0 <= 8 * r
    BY <1>2, <1>3, <1>4, <1>5, <1>6, SMT
  <1>11. d * w * b <= d * (8 * r)
    <2>1. d * w * b = d * (w * b) /\ w * b \in Int
      BY <1>2, <1>3, SMT
    <2>2. \A m, k \in Int : m <= k => d * m <= d * k
      BY <1>2, SMT
    <2> QED
      BY <1>4, <2>1, <2>2
  <1>12. d * (8 * r) + 8 * r <= h * (8 * r)
    <2> DEFINE q == 8 * r
    <2>1. q \in Int /\ 0 <= q
      BY <1>4, <1>10
    <2> HIDE DEF q
    <2>2. d * q + q <= h * q
      <3>1. (d + 1) * q <= h * q
        BY <1>2, <2>1, SMT
      <3>2. (d + 1) * q = d * q + q
        BY <1>2, <2>1, SMT
      <3> QED
        BY <3>1, <3>2
    <2> QED
      BY <2>2 DEF q
  <1>13. RowStart \in Int /\ RowStart <= d * (8 * r)
    BY <1>2, <1>3, <1>7, <1>8, <1>11, SMT
  <1>14. /\ j * b \in Int /\ d * (8 * r) \in Int /\ h * (8 * r) \in Int
    BY <1>2, <1>3, <1>4, <1>6, SMT
  <1> DEFINE jb == j * b
             wb == w * b
             above == d * (8 * r)
             all == h * (8 * r)
  <1>15. /\ jb \in Int /\ wb \in Int /\ above \in Int /\ all \in Int /\ RowStart \in Int
         /\ jb <= wb /\ wb <= 8 * r /\ RowStart <= above /\ above + 8 * r <= all
         /\ ~ (RowStart + jb <= size)
         /\ FileBits(ifd, InFile) = all
    BY <1>2, <1>3, <1>4, <1>9, <1>10, <1>12, <1>13, <1>14, SMT
  <1> HIDE DEF jb, wb, above, all
  <1> QED
    BY <1>15, SMT

\* The row is there as a whole, or one of its pixels is not.
LEMMA RowThere ==
    ASSUME OnceInv, pc = "rows"
    PROVE  /\ RowWidth \in Int
           /\ Cardinality(Readable) = RowWidth => Readable = 1 .. RowWidth
           /\ Cardinality(Readable) < RowWidth => \E i \in 1 .. RowWidth : ~ Room(i)
  <1>1. RowWidth \in Int
    <2>1. Bounds.minX \in Int /\ RMaxX \in Int
      BY RowsEnd
    <2> HIDE DEF Bounds, RMaxX
    <2> QED
      BY <2>1 DEF RowWidth
  <1> DEFINE n == RowWidth
             all == 1 .. n
  <1>2. n \in Int /\ Readable \subseteq all
    BY <1>1 DEF Readable
  <1> HIDE DEF n
  <1>3. IsFiniteSet(all) /\ Cardinality(all) = IF 1 > n THEN 0 ELSE n - 1 + 1
    BY <1>2, FS_Interval
  <1>4. IsFiniteSet(Readable) /\ Cardinality(Readable) \in Nat
    BY <1>2, <1>3, FS_Subset, FS_CardinalityType
  <1>5. Cardinality(Readable) = n => Readable = all
    <2> SUFFICES ASSUME Cardinality(Readable) = n PROVE Readable = all
      OBVIOUS
    <2>1. Cardinality(Readable) = Cardinality(all)
      BY <1>2, <1>3, <1>4
    <2> QED
      BY <1>2, <1>3, <2>1, FS_Subset
  <1>6. Cardinality(Readable) < n => Readable # all
    BY <1>2, <1>3, <1>4
  <1>7. Readable # all => \E i \in all : ~ Room(i)
    BY DEF Readable, n
  <1> QED
    BY <1>1, <1>5, <1>6, <1>7 DEF n

\* Group 4 pixels are read as the file holds them.
LEMMA FaxFits ==
    ASSUME NEW p, FaxPixels(p)
    PROVE  /\ SamplesRead(p) = FileChannels(p)
           /\ BitsRead(p) = FileDepth(p) /\ FileDepth(p) > 0
  BY DEF FaxPixels, SamplesRead, BitsRead, FileChannels, FileDepth, Grays

\* The inductive invariant: the image is the one the tags ask for, and the data is read no
\* further than the rows that have been decoded reach in the file.
CauseInv ==
    /\ OnceInv
    /\ pc \in {"block", "rows", "done"} => image.type = NewImage(ifd) /\ NewImage(ifd) # "error"
    /\ pc = "rows" => size \in Int /\ cursor \in Int /\ CursorFits
    /\ PanicOnlyUnchecked
    /\ ErrorOnlyWhenShort

LEMMA CauseInit == Init => CauseInv
  BY OnceInit DEF Init, CauseInv, PanicOnlyUnchecked, ErrorOnlyWhenShort

LEMMA CauseBlock ==
    ASSUME CauseInv, DecodeBlock
    PROVE  CauseInv'
  <1>1. OnceInv'
    BY OnceNext DEF CauseInv, Next
  <1>2. /\ pc = "block" /\ IsBlock(ifd, block[1], block[2])
        /\ ifd' = ifd /\ image' = image /\ block' = block
    BY DEF DecodeBlock, Fail
  <1>3. /\ IsLayout(ifd) /\ Consistent(ifd) /\ ifd.bits \in Seq(Nat)
        /\ image.type = NewImage(ifd) /\ NewImage(ifd) # "error"
    BY <1>2, IfdAssumption DEF CauseInv, OnceInv
  <1>4. AssertedImage(ifd) = image.type
    BY <1>3, FormatsAgree
  <1>5. CASE pc' = "error"
    BY <1>1, <1>5 DEF CauseInv, PanicOnlyUnchecked, ErrorOnlyWhenShort
  <1>6. CASE pc' # "error"
    <2>1. PICK cut \in Cuts :
            /\ pc' = "rows" /\ y' = Bounds.minY /\ cursor' = 0
            /\ size' = BitsInFile(IF FileBits(ifd, InFile) > 8 * cut
                                  THEN FileBits(ifd, InFile) - 8 * cut ELSE 0)
      BY <1>4, <1>6 DEF DecodeBlock, Fail
    <2>2. Bounds' = Bounds /\ InFile' = InFile
      BY <1>2 DEF Bounds, InFile
    <2>3. Bounds'.minY \in Int
      BY <1>3, <2>2, BoundsInt DEF Bounds
    <2>4. \E r \in Int : FileRowBits(ifd, InFile)' = 8 * r
                         /\ FileBits(ifd, InFile)' = (Bounds'.maxY - Bounds'.minY) * (8 * r)
      <3>1. InFile = Bounds
        BY <1>2, <1>3, BlocksAsInFile DEF InFile, Bounds
      <3>2. Bounds.minX \in Int /\ Bounds.maxX \in Int
        BY <1>3, BoundsInt DEF Bounds
      <3>3. FileChannels(ifd) \in Nat /\ FileDepth(ifd) \in Nat
        BY <1>3, BitsNat
      <3> DEFINE n == (Bounds.maxX - Bounds.minX) * FileChannels(ifd) * FileDepth(ifd)
      <3>4. n \in Int
        <4> HIDE DEF Bounds
        <4> QED
          BY <3>2, <3>3, SMT
      <3>5. FileRowBits(ifd, InFile) = 8 * DivUp(n, 8)
        BY <3>1 DEF FileRowBits
      <3> HIDE DEF n
      <3>6. DivUp(n, 8) \in Int
        BY <3>4, BytesHold
      <3>7. FileBits(ifd, InFile) = (Bounds.maxY - Bounds.minY) * (8 * DivUp(n, 8))
        BY <3>1, <3>5 DEF FileBits
      <3>8. FileRowBits(ifd, InFile)' = FileRowBits(ifd, InFile)
            /\ FileBits(ifd, InFile)' = FileBits(ifd, InFile)
        BY <1>2, <2>2
      <3> QED
        BY <2>2, <3>5, <3>6, <3>7, <3>8
    <2>5. CursorFits'
      <3>1. PICK r \in Int : FileRowBits(ifd, InFile)' = 8 * r
        BY <2>4
      <3>2. (y' - Bounds'.minY) * (8 * r) = 0
        BY <2>1, <2>2, <2>3
      <3> QED
        BY <2>1, <3>1, <3>2 DEF CursorFits
    <2>6. size' \in Int
      <3>1. Bounds.minY \in Int /\ Bounds.maxY \in Int
        BY <1>3, BoundsInt DEF Bounds
      <3>2. FileBits(ifd, InFile) \in Int
        <4>1. PICK r \in Int : FileBits(ifd, InFile)' = (Bounds'.maxY - Bounds'.minY) * (8 * r)
          BY <2>4
        <4>2. FileBits(ifd, InFile) = (Bounds.maxY - Bounds.minY) * (8 * r)
          BY <1>2, <2>2, <4>1
        <4> HIDE DEF Bounds, InFile
        <4> QED
          BY <3>1, <4>2, SMT
      <3>3. cut \in Nat
        BY CutsAssumption
      <3> DEFINE f == FileBits(ifd, InFile)
      <3>4. f \in Int
        BY <3>2
      <3>5. size' = 0 \/ size' = f - 8 * cut
        BY <2>1 DEF BitsInFile
      <3> HIDE DEF f
      <3> QED
        BY <3>3, <3>4, <3>5
    <2> QED
      BY <1>1, <1>2, <1>3, <2>1, <2>5, <2>6 DEF CauseInv, PanicOnlyUnchecked, ErrorOnlyWhenShort
  <1> QED
    BY <1>5, <1>6

LEMMA CauseRow ==
    ASSUME CauseInv, DecodeRow
    PROVE  CauseInv'
  <1>1. OnceInv'
    BY OnceNext DEF CauseInv, Next
  <1>2. /\ OnceInv /\ AtRow /\ pc = "rows" /\ y' = y + 1
        /\ UNCHANGED <<ifd, pc, image, block, size>>
        /\ cursor' = IF Addressed(ifd) THEN cursor ELSE 8 * DivUp(PixelEnd(RowWidth), 8)
        /\ size \in Int /\ cursor \in Int /\ CursorFits
    BY DEF DecodeRow, CauseInv, AtRow
  <1> DEFINE w == Bounds.maxX - Bounds.minX
             d == y - Bounds.minY
             b == PixelBits(ifd)
             n == RowWidth
  <1>3. /\ w \in Int /\ d \in Nat /\ n \in Int /\ n <= w
    <2>1. /\ Bounds.minX \in Int /\ Bounds.minY \in Int /\ Bounds.maxX \in Int
          /\ RMaxX \in Int /\ RMaxX <= Bounds.maxX
      BY <1>2, RowsEnd
    <2>2. y \in Int /\ y >= Bounds.minY
      BY <1>2 DEF OnceInv
    <2> HIDE DEF Bounds, RMaxX
    <2> QED
      BY <2>1, <2>2 DEF RowWidth
  <1>4. b \in Nat
    BY BitsNat, IfdAssumption, <1>2 DEF OnceInv
  <1>5. PICK r \in Int : /\ FileRowBits(ifd, InFile) = 8 * r
                         /\ SamplesFit => w * b <= 8 * r
    BY <1>2, RowBits
  <1>6. y' - Bounds'.minY = d + 1 /\ FileRowBits(ifd, InFile)' = 8 * r
    <2>1. Bounds' = Bounds /\ InFile' = InFile
      BY <1>2 DEF Bounds, InFile
    <2>2. Bounds.minY \in Int /\ y \in Int
      BY <1>2, RowsEnd DEF OnceInv
    <2>3. FileRowBits(ifd, InFile)' = FileRowBits(ifd, InFile)
      BY <1>2, <2>1
    <2> HIDE DEF Bounds, InFile
    <2> QED
      BY <1>2, <1>5, <2>1, <2>2, <2>3
  <1>7. SamplesFit /\ ~ Addressed(ifd) => cursor <= d * (8 * r)
    BY <1>2, <1>5 DEF CursorFits
  <1>8. ~ Addressed(ifd) => cursor' = 8 * DivUp(cursor + n * b, 8)
    BY <1>2 DEF PixelEnd, RowStart
  <1>9. Addressed(ifd) => cursor' = cursor
    BY <1>2
  <1> HIDE DEF w, d, b, n
  <1>10. n * b \in Int /\ d * (8 * r) \in Int /\ (d + 1) * (8 * r) = d * (8 * r) + 8 * r
         /\ (d + 1) * (8 * r) = 8 * ((d + 1) * r) /\ (d + 1) * r \in Int
    BY <1>3, <1>4, <1>5, SMT
  <1>11. n * b <= w * b
    BY <1>3, <1>4, SMT
  <1>12. cursor' \in Int
    BY <1>2, <1>8, <1>9, <1>10, BytesHold
  <1>13. SamplesFit /\ ~ Addressed(ifd) => cursor' <= (d + 1) * (8 * r)
    <2> SUFFICES ASSUME SamplesFit, ~ Addressed(ifd) PROVE cursor' <= (d + 1) * (8 * r)
      OBVIOUS
    <2>1. cursor + n * b \in Int
      BY <1>2, <1>10
    <2> DEFINE nb == n * b
               wb == w * b
               u  == d * (8 * r)
    <2>2. /\ nb \in Int /\ wb \in Int /\ u \in Int /\ nb <= wb /\ wb <= 8 * r
          /\ cursor <= u /\ cursor \in Int
      BY <1>2, <1>3, <1>4, <1>5, <1>7, <1>10, <1>11, SMT
    <2>3. cursor + nb <= u + 8 * r
      <3> HIDE DEF nb, wb, u
      <3> QED
        BY <2>2
    <2>4. cursor + n * b <= 8 * ((d + 1) * r)
      BY <1>10, <2>3
    <2>5. 8 * DivUp(cursor + n * b, 8) <= 8 * ((d + 1) * r)
      BY <1>10, <2>1, <2>4, BytesHold
    <2> QED
      BY <1>8, <1>10, <2>5
  <1>14. CursorFits'
    BY <1>2, <1>6, <1>13 DEF CursorFits, SamplesFit, Addressed
  <1> QED
    BY <1>1, <1>2, <1>12, <1>14 DEF CauseInv, PanicOnlyUnchecked, ErrorOnlyWhenShort

LEMMA CauseShort ==
    ASSUME CauseInv, RowTooShort
    PROVE  CauseInv'
  <1>1. OnceInv'
    BY OnceNext DEF CauseInv, Next
  <1>2. /\ OnceInv /\ AtRow /\ pc = "rows" /\ Cardinality(Readable) < RowWidth
        /\ pc' = IF FaxPixels(ifd) THEN "panic" ELSE "short"
        /\ UNCHANGED <<ifd, block, size>>
        /\ size \in Int /\ cursor \in Int /\ CursorFits
    BY DEF RowTooShort, CauseInv, AtRow
  <1>3. SamplesFit => size < FileBits(ifd, InFile)
    BY <1>2, RowThere, MissingIsShort
  <1>4. FaxPixels(ifd) => SamplesFit
    BY FaxFits DEF SamplesFit
  <1>5. InFile' = InFile /\ SamplesFit' = SamplesFit
    BY <1>2 DEF InFile, SamplesFit
  <1>6. FileBits(ifd, InFile)' = FileBits(ifd, InFile)
    BY <1>2, <1>5
  <1>7. PanicOnlyUnchecked'
    BY <1>2, <1>3, <1>4, <1>6 DEF PanicOnlyUnchecked
  <1>8. ErrorOnlyWhenShort'
    BY <1>2, <1>3, <1>5, <1>6 DEF ErrorOnlyWhenShort
  <1> QED
    BY <1>1, <1>2, <1>7, <1>8 DEF CauseInv

LEMMA CauseNext ==
    ASSUME CauseInv, [Next]_vars
    PROVE  CauseInv'
  <1>1. OnceInv'
    BY OnceNext DEF CauseInv
  <1>2. CASE DecodeImage \/ DecodeImageBlock
    <2>1. ifd' = ifd /\ pc' \in {"error", "block", "done"}
      BY <1>2 DEF DecodeImage, DecodeImageBlock, Fail, Allocate
    <2>2. pc' # "error" => image'.type = NewImage(ifd) /\ NewImage(ifd) # "error"
      BY <1>2 DEF DecodeImage, DecodeImageBlock, Fail, Allocate
    <2> QED
      BY <1>1, <2>1, <2>2 DEF CauseInv, PanicOnlyUnchecked, ErrorOnlyWhenShort
  <1>3. CASE DecodeBlock
    BY <1>3, CauseBlock
  <1>4. CASE DecodeBlockFails
    BY <1>1, <1>4 DEF DecodeBlockFails, Fail, CauseInv, PanicOnlyUnchecked, ErrorOnlyWhenShort
  <1>5. CASE DecodeRow
    BY <1>5, CauseRow
  <1>6. CASE RowTooShort
    BY <1>6, CauseShort
  <1>7. CASE DivideByZero
    <2>1. pc' = "panic" /\ ifd' = ifd /\ DividesByDepth(ifd)
      BY <1>7 DEF DivideByZero, Fail
    <2> QED
      BY <1>1, <2>1 DEF CauseInv, PanicOnlyUnchecked, ErrorOnlyWhenShort
  <1>8. CASE NextBlock
    <2>1. /\ pc = "rows" /\ pc' \in {"block", "done"} /\ ifd' = ifd /\ image' = image
      BY <1>8 DEF NextBlock
    <2> QED
      BY <1>1, <2>1 DEF CauseInv, PanicOnlyUnchecked, ErrorOnlyWhenShort
  <1>9. CASE UNCHANGED vars
    <2>1. Bounds' = Bounds /\ InFile' = InFile /\ UNCHANGED <<ifd, pc, image, size, y, cursor>>
      BY <1>9 DEF vars, Bounds, InFile
    <2> QED
      BY <1>1, <2>1 DEF CauseInv, PanicOnlyUnchecked, ErrorOnlyWhenShort, CursorFits,
                        SamplesFit, Addressed
  <1> QED
    BY <1>2, <1>3, <1>4, <1>5, <1>6, <1>7, <1>8, <1>9 DEF Next

\* decodeBlock panics over gray samples without a common depth and over Group 4 data that end
\* early, never over the image type or an index of another format: for every format and size.
THEOREM PanicOnlyUncheckedThm == Spec => []PanicOnlyUnchecked
  <1>1. Init => CauseInv
    BY CauseInit
  <1>2. CauseInv /\ [Next]_vars => CauseInv'
    BY CauseNext
  <1>3. CauseInv => PanicOnlyUnchecked
    BY DEF CauseInv
  <1> QED
    BY <1>1, <1>2, <1>3, PTL DEF Spec

\* decodeBlock: "not enough pixel data" is said only of a block that is shorter than its rows,
\* wherever the block lies and however its rows are read.
THEOREM ErrorOnlyWhenShortThm == Spec => []ErrorOnlyWhenShort
  <1>1. Init => CauseInv
    BY CauseInit
  <1>2. CauseInv /\ [Next]_vars => CauseInv'
    BY CauseNext
  <1>3. CauseInv => ErrorOnlyWhenShort
    BY DEF CauseInv
  <1> QED
    BY <1>1, <1>2, <1>3, PTL DEF Spec

(***************************************************************************)
(* A call that returns without an error has written the whole image.       *)
(***************************************************************************)
Points(r) == (r.minX .. r.maxX - 1) \X (r.minY .. r.maxY - 1)

InImage(at) == at[1] < ifd.width /\ at[2] < ifd.height

\* The pixel lies in the block at work, above the next row.
DecodedAbove(at) == InBlock(at, block[1], block[2]) /\ at[2] < y

\* The inductive invariant: of the pixels of the image, those that lie in a block decoded
\* before, or above the next row in the present one, have been written.
FullInv ==
    /\ CauseInv
    /\ pc \in {"block", "rows", "done"} =>
          /\ DOMAIN pixels = Points(image.bounds)
          /\ request = WholeImage =>
                /\ image.bounds = Rect(0, 0, ifd.width, ifd.height)
                /\ ImageConfig(ifd) # "error"
          /\ DividesByDepth(ifd) => \A at \in DOMAIN pixels : ~ Written(at)
    /\ pc \in {"block", "rows"} /\ request # WholeImage => image.bounds = Bounds
    /\ pc = "block" => \A at \in DOMAIN pixels : InImage(at) /\ DecodedBefore(at) => Written(at)
    /\ pc = "rows" =>
          \A at \in DOMAIN pixels :
             InImage(at) /\ (DecodedBefore(at) \/ DecodedAbove(at)) => Written(at)
    /\ CompleteOrError

\* A pixel that is made of samples is not blank.
LEMMA PixelNotBlank ==
    ASSUME NEW i
    PROVE  PixelAt(i) # Blank
  <1> DEFINE s == PixelAt(i).samples
  <1>1. DOMAIN s = 1 .. SamplesRead(ifd)
    BY DEF PixelAt
  <1>2. 1 \in DOMAIN s
    BY <1>1 DEF SamplesRead
  <1>3. s # << >>
    BY <1>2
  <1> QED
    BY <1>3 DEF Blank

LEMMA FullInit == Init => FullInv
  BY CauseInit DEF Init, FullInv, CompleteOrError

\* Nothing is decoded before the first block.
LEMMA NothingBefore ==
    ASSUME NEW at, block = <<0, 0>> \/ request # WholeImage
    PROVE  ~ DecodedBefore(at)
  BY DEF DecodedBefore, Before

LEMMA FullImage ==
    ASSUME FullInv, DecodeImage
    PROVE  FullInv'
  <1>1. CauseInv'
    BY CauseNext DEF FullInv, Next
  <1>2. pc = "open" /\ request = WholeImage /\ ifd' = ifd /\ request' = request /\ ifd \in Ifds
    BY DEF DecodeImage, Fail, Allocate, FullInv, CauseInv, OnceInv
  <1>3. CASE ImageConfig(ifd) = "error" \/ NewImage(ifd) = "error"
    <2>1. pc' = "error"
      BY <1>3 DEF DecodeImage, Fail
    <2> QED
      BY <1>1, <2>1 DEF FullInv, CompleteOrError
  <1>4. CASE ~ (ImageConfig(ifd) = "error" \/ NewImage(ifd) = "error")
    <2> DEFINE r == Rect(0, 0, ifd.width, ifd.height)
    <2>1. /\ image'.bounds = r /\ pixels' = AllBlank(r) /\ block' = <<0, 0>>
          /\ pc' = IF BlocksAcross(ifd) > 0 /\ BlocksDown(ifd) > 0 THEN "block" ELSE "done"
      BY <1>4 DEF DecodeImage, Allocate
    <2>2. DOMAIN pixels' = Points(r)
      BY <2>1 DEF AllBlank, Points
    <2>3. \A at \in DOMAIN pixels' : ~ Written(at)'
      BY <2>1, BlankIsBlank DEF Written
    <2>4. \A at : ~ DecodedBefore(at)'
      BY <2>1 DEF DecodedBefore, Before
    <2>5. IsLayout(ifd) /\ Consistent(ifd)
      BY <1>2, <1>4, AllocatedIsConsistent
    <2>6. ASSUME pc' = "done", Proper(ifd), NEW at \in DOMAIN pixels' PROVE FALSE
      <3>1. at[1] \in 0 .. ifd.width - 1 /\ at[2] \in 0 .. ifd.height - 1
        BY <2>2, <2>6 DEF Points, Rect
      <3>2. PICK col \in Nat, row \in Nat : IsBlock(ifd, col, row)
        BY <2>5, <2>6, <3>1, BlocksCover
      <3>3. BlocksAcross(ifd) > 0 /\ BlocksDown(ifd) > 0
        BY <2>5, <3>2, BlocksNat DEF IsBlock
      <3> QED
        BY <2>1, <2>6, <3>3
    <2>7. CompleteOrError'
      BY <1>2, <2>6 DEF CompleteOrError
    <2> QED
      BY <1>1, <1>2, <1>4, <2>1, <2>2, <2>3, <2>4, <2>7 DEF FullInv
  <1> QED
    BY <1>3, <1>4

LEMMA FullImageBlock ==
    ASSUME FullInv, DecodeImageBlock
    PROVE  FullInv'
  <1>1. CauseInv'
    BY CauseNext DEF FullInv, Next
  <1>2. pc = "open" /\ request # WholeImage
    BY DEF DecodeImageBlock
  <1>3. CASE NewImage(ifd) = "error"
    <2>1. pc' = "error"
      BY <1>3 DEF DecodeImageBlock, Fail
    <2> QED
      BY <1>1, <2>1 DEF FullInv, CompleteOrError
  <1>4. CASE NewImage(ifd) # "error"
    <2> DEFINE r == BlockBounds(ifd, request[1], request[2])
    <2>1. /\ image'.bounds = r /\ pixels' = AllBlank(r) /\ block' = request
          /\ pc' = "block" /\ ifd' = ifd /\ request' = request
      BY <1>4 DEF DecodeImageBlock, Allocate
    <2>2. DOMAIN pixels' = Points(r)
      BY <2>1 DEF AllBlank, Points
    <2>3. \A at \in DOMAIN pixels' : ~ Written(at)'
      BY <2>1, BlankIsBlank DEF Written
    <2>4. \A at : ~ DecodedBefore(at)'
      BY <1>2, <2>1 DEF DecodedBefore
    <2>5. Bounds' = r
      BY <2>1 DEF Bounds
    <2> QED
      BY <1>1, <1>2, <2>1, <2>2, <2>3, <2>4, <2>5 DEF FullInv, CompleteOrError
  <1> QED
    BY <1>3, <1>4

LEMMA FullBlock ==
    ASSUME FullInv, DecodeBlock
    PROVE  FullInv'
  <1>1. CauseInv'
    BY CauseNext DEF FullInv, Next
  <1>2. /\ pc = "block" /\ UNCHANGED <<ifd, request, image, pixels, block>>
        /\ pc' \in {"error", "panic"} \/ (pc' = "rows" /\ y' = Bounds.minY)
    BY DEF DecodeBlock, Fail
  <1>3. Bounds' = Bounds
    BY <1>2 DEF Bounds
  <1>4. \A at : /\ Written(at)' = Written(at) /\ InImage(at)' = InImage(at)
                /\ DecodedBefore(at)' = DecodedBefore(at)
    BY <1>2 DEF Written, InImage, DecodedBefore, InBlock
  <1>5. ASSUME pc' = "rows", NEW at \in DOMAIN pixels PROVE ~ DecodedAbove(at)'
    <2>1. at[2] \in Int
      BY DEF FullInv, CauseInv, OnceInv
    <2>2. Bounds.minY \in Int /\ Bounds.maxY \in Int
      BY <1>2, IfdAssumption, BoundsInt DEF FullInv, CauseInv, OnceInv, Bounds
    <2> SUFFICES ASSUME Within(Bounds, at[1], at[2]), at[2] < y' PROVE FALSE
      BY <1>2 DEF DecodedAbove, InBlock, Bounds
    <2> HIDE DEF Bounds
    <2> QED
      BY <1>2, <1>5, <2>1, <2>2 DEF Within
  <1> QED
    BY <1>1, <1>2, <1>3, <1>4, <1>5 DEF FullInv, CompleteOrError

LEMMA FullRow ==
    ASSUME FullInv, DecodeRow
    PROVE  FullInv'
  <1>1. CauseInv'
    BY CauseNext DEF FullInv, Next
  <1>2. /\ OnceInv /\ AtRow /\ pc = "rows" /\ y' = y + 1 /\ pixels' = RowWritten
        /\ UNCHANGED <<ifd, request, pc, image, block>>
        /\ Cardinality(Readable) = RowWidth /\ ~ (DividesByDepth(ifd) /\ RowWidth > 0)
        /\ DOMAIN pixels = Points(image.bounds)
    BY DEF DecodeRow, FullInv, CauseInv, AtRow
  <1>3. Readable = 1 .. RowWidth /\ RowWidth \in Int
    BY <1>2, RowThere
  <1>4. DOMAIN pixels' = DOMAIN pixels /\ Bounds' = Bounds
    BY <1>2 DEF RowWritten, Bounds
  <1>5. \A at : InImage(at)' = InImage(at) /\ DecodedBefore(at)' = DecodedBefore(at)
    BY <1>2 DEF InImage, DecodedBefore, InBlock
  <1>6. ASSUME NEW at \in DOMAIN pixels, Written(at) PROVE Written(at)'
    BY <1>2, <1>6, PixelNotBlank DEF Written, RowWritten
  <1>7. ASSUME DividesByDepth(ifd), NEW at \in DOMAIN pixels PROVE ~ Written(at)'
    <2>1. Readable = {}
      BY <1>2, <1>3, <1>7
    <2>2. ~ Written(at)
      BY <1>2, <1>7 DEF FullInv
    <2> QED
      BY <1>2, <2>1, <2>2 DEF Written, RowWritten
  <1>8. ASSUME NEW at \in DOMAIN pixels, InImage(at), DecodedAbove(at)'
        PROVE  Written(at)'
    <2>1. at[1] \in Int /\ at[2] \in Int /\ y \in Int
      BY <1>2 DEF OnceInv
    <2>2. InBlock(at, block[1], block[2]) /\ at[2] < y + 1
      BY <1>2, <1>8 DEF DecodedAbove, InBlock
    <2>3. CASE at[2] < y
      BY <1>2, <1>6, <1>8, <2>2, <2>3 DEF FullInv, DecodedAbove
    <2>4. CASE at[2] = y
      <3>1. Within(Bounds, at[1], at[2])
        BY <2>2 DEF InBlock, Bounds
      <3>2. at[1] < image.bounds.maxX /\ image.bounds.maxX \in Int
        <4>1. at \in Points(image.bounds) /\ image.bounds.maxX \in Int
          BY <1>2, <1>8 DEF OnceInv
        <4> QED
          BY <2>1, <4>1 DEF Points
      <3>3. at[1] < ifd.width /\ ifd.width \in Int
        BY <1>2, <1>8, IfdAssumption DEF InImage, OnceInv, IsLayout
      <3>4. Bounds.minX \in Int /\ Bounds.maxX \in Int
        BY <1>2, RowsEnd
      <3>5. at[1] + 1 - Bounds.minX \in Readable
        <4>1. Bounds.minX <= at[1] /\ at[1] < Bounds.maxX
          BY <2>1, <3>1, <3>4 DEF Within
        <4>2. at[1] < RMaxX /\ RMaxX \in Int
          <5> HIDE DEF Bounds
          <5> QED
            BY <2>1, <3>2, <3>3, <3>4, <4>1 DEF RMaxX, Lesser
        <4>3. at[1] + 1 - Bounds.minX \in 1 .. RMaxX - Bounds.minX
          <5> HIDE DEF Bounds, RMaxX
          <5> QED
            BY <2>1, <3>4, <4>1, <4>2
        <4> QED
          BY <1>3, <4>3 DEF RowWidth
      <3>6. pixels'[at] = PixelAt(at[1] + 1 - Bounds.minX)
        BY <1>2, <1>8, <2>4, <3>5 DEF RowWritten
      <3> QED
        BY <3>6, PixelNotBlank DEF Written
    <2> QED
      BY <2>1, <2>2, <2>3, <2>4
  <1>9. \A at \in DOMAIN pixels' :
           InImage(at)' /\ (DecodedBefore(at)' \/ DecodedAbove(at)') => Written(at)'
    BY <1>2, <1>4, <1>5, <1>6, <1>8 DEF FullInv
  <1> QED
    BY <1>1, <1>2, <1>4, <1>7, <1>9 DEF FullInv, CompleteOrError

\* At the end of a block, its pixels in the image and those of the blocks before are written.
LEMMA BlockWritten ==
    ASSUME FullInv, pc = "rows", y >= RMaxY,
           NEW at \in DOMAIN pixels, InImage(at),
           DecodedBefore(at) \/ InBlock(at, block[1], block[2])
    PROVE  Written(at)
  <1>1. OnceInv /\ y \in Int /\ at[2] \in Int /\ DOMAIN pixels = Points(image.bounds)
    BY DEF FullInv, CauseInv, OnceInv
  <1>2. CASE DecodedBefore(at)
    BY <1>2 DEF FullInv
  <1>3. CASE InBlock(at, block[1], block[2])
    <2>1. at[2] < image.bounds.maxY /\ image.bounds.maxY \in Int
      <3>1. at \in Points(image.bounds) /\ image.bounds.maxY \in Int
        BY <1>1 DEF OnceInv
      <3> QED
        BY <1>1, <3>1 DEF Points
    <2>2. at[2] < ifd.height /\ ifd.height \in Int
      BY <1>1, IfdAssumption DEF InImage, OnceInv, IsLayout
    <2>3. Within(Bounds, at[1], at[2])
      BY <1>3 DEF InBlock, Bounds
    <2>4. Bounds.minY \in Int /\ Bounds.maxY \in Int
      BY <1>1, RowsEnd
    <2>5. at[2] < RMaxY /\ RMaxY \in Int
      <3> HIDE DEF Bounds
      <3> QED
        BY <1>1, <2>1, <2>2, <2>3, <2>4 DEF Within, RMaxY, Lesser
    <2>6. at[2] < y
      <3> HIDE DEF RMaxY
      <3> QED
        BY <1>1, <2>5
    <2> QED
      BY <1>3, <2>6 DEF FullInv, DecodedAbove
  <1> QED
    BY <1>2, <1>3

\* What lies before the next block was decoded, and when there is none, every block was.
LEMMA BeforeNext ==
    ASSUME FullInv, NextBlock, request = WholeImage,
           NEW col \in Nat, NEW row \in Nat, IsBlock(ifd, col, row),
           pc' = "done" \/ Before(<<col, row>>, block')
    PROVE  Before(<<col, row>>, block) \/ (col = block[1] /\ row = block[2])
  <1>1. /\ OnceInv /\ pc = "rows" /\ block[1] \in Nat /\ block[2] \in Nat
        /\ BlocksAcross(ifd) \in Nat /\ BlocksDown(ifd) \in Nat
    <2>1. OnceInv /\ pc = "rows"
      BY DEF NextBlock, FullInv, CauseInv
    <2> QED
      BY <2>1, RowsEnd, BlocksNat
  <1>2. col <= BlocksAcross(ifd) - 1 /\ row <= BlocksDown(ifd) - 1
    BY <1>1 DEF IsBlock
  <1>3. CASE block[2] + 1 < BlocksDown(ifd)
    <2>1. pc' = "block" /\ block' = <<block[1], block[2] + 1>>
      BY <1>3 DEF NextBlock
    <2> QED
      BY <1>1, <2>1 DEF Before
  <1>4. CASE ~ (block[2] + 1 < BlocksDown(ifd)) /\ block[1] + 1 < BlocksAcross(ifd)
    <2>1. pc' = "block" /\ block' = <<block[1] + 1, 0>>
      BY <1>4 DEF NextBlock
    <2> QED
      BY <1>1, <1>2, <1>4, <2>1 DEF Before
  <1>5. CASE ~ (block[2] + 1 < BlocksDown(ifd)) /\ ~ (block[1] + 1 < BlocksAcross(ifd))
    BY <1>1, <1>2, <1>5 DEF Before
  <1> QED
    BY <1>3, <1>4, <1>5

LEMMA FullNextBlock ==
    ASSUME FullInv, NextBlock
    PROVE  FullInv'
  <1>1. CauseInv'
    BY CauseNext DEF FullInv, Next
  <1>2. /\ OnceInv /\ pc = "rows" /\ y >= RMaxY
        /\ UNCHANGED <<ifd, request, image, pixels>> /\ pc' \in {"block", "done"}
        /\ DOMAIN pixels = Points(image.bounds)
        /\ request # WholeImage => pc' = "done"
    BY DEF NextBlock, FullInv, CauseInv
  <1>3. \A at : Written(at)' = Written(at) /\ InImage(at)' = InImage(at)
    BY <1>2 DEF Written, InImage
  <1>4. ASSUME pc' = "block", NEW at \in DOMAIN pixels, InImage(at), DecodedBefore(at)'
        PROVE  Written(at)
    <2>1. PICK col \in Nat, row \in Nat :
             Before(<<col, row>>, block') /\ InBlock(at, col, row)
      BY <1>2, <1>4 DEF DecodedBefore, InBlock
    <2>2. request = WholeImage /\ IsBlock(ifd, col, row)
      BY <1>2, <1>4, <2>1 DEF InBlock
    <2>3. Before(<<col, row>>, block) \/ (col = block[1] /\ row = block[2])
      BY <2>1, <2>2, BeforeNext
    <2>4. DecodedBefore(at) \/ InBlock(at, block[1], block[2])
      BY <2>1, <2>2, <2>3 DEF DecodedBefore
    <2> QED
      BY <1>2, <1>4, <2>4, BlockWritten
  <1>5. ASSUME pc' = "done", Proper(ifd), NEW at \in DOMAIN pixels, InImage(at)
        PROVE  Written(at)
    <2>1. CASE request = WholeImage
      <3>1. at[1] \in 0 .. ifd.width - 1 /\ at[2] \in 0 .. ifd.height - 1
        BY <1>2, <1>5, <2>1 DEF FullInv, Points, Rect
      <3>2. IsLayout(ifd) /\ Consistent(ifd)
        BY <1>2, RowsEnd
      <3>3. PICK col \in Nat, row \in Nat :
               IsBlock(ifd, col, row) /\ Within(BlockBounds(ifd, col, row), at[1], at[2])
        BY <1>5, <3>1, <3>2, BlocksCover
      <3>4. Before(<<col, row>>, block) \/ (col = block[1] /\ row = block[2])
        BY <1>5, <2>1, <3>3, BeforeNext
      <3>5. DecodedBefore(at) \/ InBlock(at, block[1], block[2])
        BY <2>1, <3>3, <3>4 DEF DecodedBefore, InBlock
      <3> QED
        BY <1>2, <1>5, <3>5, BlockWritten
    <2>2. CASE request # WholeImage
      <3>1. IsBlock(ifd, block[1], block[2]) /\ image.bounds = Bounds
        BY <1>2, <2>2 DEF FullInv, OnceInv
      <3>2. Within(Bounds, at[1], at[2])
        BY <1>2, <3>1 DEF Points, Within
      <3>3. InBlock(at, block[1], block[2])
        BY <3>1, <3>2 DEF InBlock, Bounds
      <3> QED
        BY <1>2, <1>5, <3>3, BlockWritten
    <2> QED
      BY <2>1, <2>2
  <1>6. CompleteOrError'
    BY <1>2, <1>5 DEF CompleteOrError, InImage, Written
  <1>7. pc' = "block" => request = WholeImage
    BY <1>2
  <1> QED
    BY <1>1, <1>2, <1>3, <1>4, <1>6, <1>7 DEF FullInv

LEMMA FullNext ==
    ASSUME FullInv, [Next]_vars
    PROVE  FullInv'
  <1>1. CauseInv'
    BY CauseNext DEF FullInv
  <1>2. CASE DecodeBlockFails \/ DivideByZero \/ RowTooShort
    <2>1. pc' \in {"error", "panic", "short"}
      BY <1>2 DEF DecodeBlockFails, DivideByZero, RowTooShort, Fail
    <2> QED
      BY <1>1, <2>1 DEF FullInv, CompleteOrError
  <1>3. CASE UNCHANGED vars
    <2>1. Bounds' = Bounds /\ UNCHANGED <<ifd, request, pc, image, pixels, block, y>>
      BY <1>3 DEF vars, Bounds
    <2>2. \A at : /\ Written(at)' = Written(at) /\ InImage(at)' = InImage(at)
                  /\ DecodedBefore(at)' = DecodedBefore(at) /\ DecodedAbove(at)' = DecodedAbove(at)
      BY <2>1 DEF Written, InImage, DecodedBefore, DecodedAbove, InBlock
    <2> QED
      BY <1>1, <2>1, <2>2 DEF FullInv, CompleteOrError
  <1> QED
    BY <1>2, <1>3, FullImage, FullImageBlock, FullBlock, FullRow, FullNextBlock DEF Next

\* DecodeImage, DecodeImageBlock: without an error every pixel of the image has been written,
\* for every layout in which a tile has a size, every format and all data.
THEOREM CompleteOrErrorThm == Spec => []CompleteOrError
  <1>1. Init => FullInv
    BY FullInit
  <1>2. FullInv /\ [Next]_vars => FullInv'
    BY FullNext
  <1>3. FullInv => CompleteOrError
    BY DEF FullInv
  <1> QED
    BY <1>1, <1>2, <1>3, PTL DEF Spec

\* ImageConfig, newImageWithIFD: DecodeConfig announces the type of the image that Decode
\* returns, for every image with pixels: what they would judge differently does not decode.
THEOREM ConfigForetellsThm == Spec => []ConfigForetells
  <1>1. Init => FullInv
    BY FullInit
  <1>2. FullInv /\ [Next]_vars => FullInv'
    BY FullNext
  <1>3. FullInv => ConfigForetells
    <2> SUFFICES ASSUME FullInv, pc = "done", request = WholeImage, Proper(ifd),
                        NEW at \in DOMAIN pixels
                 PROVE  ImageConfig(ifd) = image.type
      BY DEF ConfigForetells
    <2>1. /\ ImageConfig(ifd) # "error" /\ NewImage(ifd) # "error"
          /\ image.type = NewImage(ifd)
          /\ DOMAIN pixels = Points(Rect(0, 0, ifd.width, ifd.height))
          /\ ifd \in Ifds
      BY DEF FullInv, CauseInv, OnceInv
    <2>2. at[1] < ifd.width /\ at[2] < ifd.height
      <3>1. ifd.width \in Int /\ ifd.height \in Int
        BY <2>1, IfdAssumption DEF IsLayout
      <3> QED
        BY <2>1, <3>1 DEF Points, Rect
    <2>3. Written(at)
      BY <2>2 DEF FullInv, CompleteOrError, Written
    <2>4. ~ DividesByDepth(ifd)
      BY <2>3 DEF FullInv
    <2> QED
      BY <2>1, <2>4, ConfigAgrees, IfdAssumption
  <1> QED
    BY <1>1, <1>2, <1>3, PTL DEF Spec

(***************************************************************************)
(* Every pixel is made from its own samples: where the samples lie in the  *)
(* data, what the predictor's sums are, and where the rows are read.       *)
(***************************************************************************)
\* How far a number lies from the lower end of its interval.
LEMMA Offset ==
    ASSUME NEW lo \in Int, NEW hi \in Int, NEW x \in lo .. hi - 1
    PROVE  /\ hi - lo \in Nat \ {0} /\ x - lo \in Nat /\ x - lo \in 0 .. (hi - lo) - 1
           /\ x = lo + (x - lo) /\ lo <= hi
  OBVIOUS

\* There is one way to divide with remainder.
LEMMA DivModUnique ==
    ASSUME NEW q \in Nat, NEW d \in Nat \ {0}, NEW r \in 0 .. d - 1
    PROVE  /\ q * d + r \in Nat
           /\ (q * d + r) \div d = q
           /\ (q * d + r) % d = r
  <1> DEFINE n == q * d + r
             a == n \div d
  <1>1. q * d \in Nat
    BY SMT
  <1>2. n \in Nat /\ q * d <= n /\ n < q * d + d
    BY <1>1, SMT
  <1>3. a \in Nat /\ a * d <= n /\ n < a * d + d
    BY <1>2, DivBounds
  <1>4. n % d = n - a * d
    BY <1>2, SMT
  <1> HIDE DEF a
  <1>5. a = q
    BY <1>2, <1>3, OneMultiple
  <1>6. n % d = r
    BY <1>1, <1>4, <1>5, SMT
  <1> QED
    BY <1>2, <1>5, <1>6 DEF a

\* A number is its quotient times the divisor and the remainder.
LEMMA DivModOf ==
    ASSUME NEW n \in Nat, NEW d \in Nat \ {0}
    PROVE  /\ n \div d \in Nat /\ n % d \in 0 .. d - 1
           /\ n = (n \div d) * d + (n % d)
  BY SMT

\* The n-th sample of the q-th row, of d bits, starts at k.
Starts(k, q, n, d, rowLen) ==
    /\ k \div rowLen = q /\ k % rowLen = n * d
    /\ (k % rowLen) \div d = n /\ (k % rowLen) % d = 0

\* The n-th of the samples of a row starts where row and sample say.
LEMMA PlaceOfSample ==
    ASSUME NEW q \in Nat, NEW n \in Nat, NEW d \in Nat \ {0}, NEW rowLen \in Nat,
           NEW k \in Nat, k = q * rowLen + n * d, n * d + d <= rowLen
    PROVE  Starts(k, q, n, d, rowLen)
  <1>1. n * d \in Nat
    BY SMT
  <1>2. rowLen \in Nat \ {0} /\ n * d \in 0 .. rowLen - 1
    BY <1>1
  <1> DEFINE r == n * d
  <1>3. r \in 0 .. rowLen - 1
    BY <1>2
  <1>4. r \div d = n /\ r % d = 0
    <2>1. n * d + 0 = r
      BY <1>1
    <2> QED
      BY <2>1, DivModUnique
  <1>6. k = q * rowLen + r
    OBVIOUS
  <1> HIDE DEF r
  <1>5. k \div rowLen = q /\ k % rowLen = r
    <2>1. (q * rowLen + r) \div rowLen = q /\ (q * rowLen + r) % rowLen = r
      BY <1>2, <1>3, DivModUnique
    <2> QED
      BY <1>6, <2>1, Zenon
  <1> QED
    BY <1>4, <1>5 DEF r, Starts

\* Samples of a row: before the last one lie fewer than there are in the row.
LEMMA SampleInRow ==
    ASSUME NEW w \in Nat, NEW c \in Nat \ {0}, NEW i \in 0 .. w - 1, NEW j \in 0 .. c - 1
    PROVE  i * c + j \in 0 .. w * c - 1
  <1>1. i * c \in Nat /\ w * c \in Nat /\ i * c + c <= w * c
    BY NextMultiple, SMT
  <1> DEFINE ic == i * c
             wc == w * c
  <1> HIDE DEF ic, wc
  <1>2. ic \in Nat /\ wc \in Nat /\ ic + c <= wc
    BY <1>1 DEF ic, wc
  <1>3. ic + j \in 0 .. wc - 1
    BY <1>2
  <1> QED
    BY <1>3 DEF ic, wc

\* Multiplying keeps the order.
LEMMA TimesMonotone ==
    ASSUME NEW a \in Int, NEW b \in Int, NEW d \in Nat, a <= b
    PROVE  a * d <= b * d
  BY SMT

\* Where the samples of a block start in its data.
SampleStart(p, b, x, v, c) ==
    (v - b.minY) * FileRowBits(p, b) + ((x - b.minX) * FileChannels(p) + (c - 1)) * FileDepth(p)

IsRect(b) == b.minX \in Int /\ b.minY \in Int /\ b.maxX \in Int /\ b.maxY \in Int

\* The n-th sample of the q-th row of a block, and what the file holds of it: with the
\* predictor, a difference from the pixel at its left.
NthSample(p, b, q, n) ==
    Sample(b.minX + n \div FileChannels(p), b.minY + q, 1 + (n % FileChannels(p)))

NthStored(p, b, q, n) ==
    [NthSample(p, b, q, n) EXCEPT !.diff = p.predictor /\ b.minX + n \div FileChannels(p) > b.minX]

\* The samples of a row fit into its whole bytes.
LEMMA RowHolds ==
    ASSUME NEW p, p.bits \in Seq(Nat), NEW b, IsRect(b), b.minX <= b.maxX
    PROVE  /\ FileRowBits(p, b) \in Nat
           /\ (b.maxX - b.minX) * FileChannels(p) \in Nat
           /\ (b.maxX - b.minX) * FileChannels(p) * FileDepth(p) \in Nat
           /\ (b.maxX - b.minX) * FileChannels(p) * FileDepth(p) <= FileRowBits(p, b)
  <1> DEFINE w == b.maxX - b.minX
             f == FileChannels(p)
             d == FileDepth(p)
             u == w * f * d
  <1>1. w \in Nat
    BY DEF IsRect
  <1>2. f \in Nat /\ d \in Nat
    BY BitsNat
  <1> HIDE DEF w, f, d
  <1>3. w * f \in Nat
    BY <1>1, <1>2, SMT
  <1>4. u \in Nat
    BY <1>2, <1>3, SMT
  <1> HIDE DEF u
  <1>5. DivUp(u, 8) \in Int /\ u <= 8 * DivUp(u, 8)
    <2>1. u \in Int
      BY <1>4
    <2> QED
      BY <2>1, BytesHold
  <1>6. 8 * DivUp(u, 8) \in Nat
    BY <1>4, <1>5
  <1> QED
    BY <1>3, <1>4, <1>5, <1>6 DEF FileRowBits, u, w, f, d

\* The data of a block, as far as they reach, hold its samples at their places.
LEMMA FileSampleAt ==
    ASSUME NEW p, p.bits \in Seq(Nat), NEW b, NEW bits \in Int, FileDepth(p) > 0,
           NEW k \in Nat, NEW q \in Nat, NEW n \in Nat,
           Starts(k, q, n, FileDepth(p), FileRowBits(p, b)),
           n * FileDepth(p) < (b.maxX - b.minX) * FileChannels(p) * FileDepth(p),
           k + FileDepth(p) <= bits
    PROVE  /\ k \in DOMAIN FileSamples(p, b, bits)
           /\ FileSamples(p, b, bits)[k] = NthStored(p, b, q, n)
  <1> DEFINE f == FileChannels(p)
             d == FileDepth(p)
             r == FileRowBits(p, b)
             u == (b.maxX - b.minX) * f * d
             samples == FileSamples(p, b, bits)
             at(j) == LET x == b.minX + ((j % r) \div d) \div f
                      IN  [Sample(x, b.minY + j \div r, 1 + (((j % r) \div d) % f)) EXCEPT
                              !.diff = p.predictor /\ x > b.minX]
  <1>1. d # 0 /\ u # 0 => samples =
          [j \in {j \in 0 .. bits - d : (j % r) < u /\ (j % r) % d = 0} |-> at(j)]
    BY DEF FileSamples
  <1>2. d \in Nat \ {0} /\ n * d < u /\ k + d <= bits
    BY BitsNat
  <1>3. k \div r = q /\ k % r = n * d /\ (k % r) \div d = n /\ (k % r) % d = 0
    BY DEF Starts
  <1>4. at(k) = NthStored(p, b, q, n)
    BY <1>3 DEF NthStored, NthSample
  <1> HIDE DEF d, r, u, samples, at
  <1>5. n * d \in Nat
    BY <1>2, SMT
  <1>6. u # 0 /\ (k % r) < u
    BY <1>2, <1>3, <1>5
  <1>7. k \in 0 .. bits - d
    BY <1>2
  <1>8. k \in DOMAIN samples /\ samples[k] = at(k)
    BY <1>1, <1>2, <1>3, <1>6, <1>7
  <1> QED
    BY <1>4, <1>8 DEF samples

\* The n-th sample of the q-th row is channel c of the pixel at x, v.
IsSample(p, b, x, v, c, q, n) ==
    LET k == SampleStart(p, b, x, v, c)
    IN  /\ q \in Nat /\ q < b.maxY - b.minY
        /\ n \in Nat /\ n < (b.maxX - b.minX) * FileChannels(p)
        /\ NthSample(p, b, q, n) = Sample(x, v, c)
        /\ k \in Nat /\ k = q * FileRowBits(p, b) + n * FileDepth(p)
        /\ Starts(k, q, n, FileDepth(p), FileRowBits(p, b))
        /\ n * FileDepth(p) < (b.maxX - b.minX) * FileChannels(p) * FileDepth(p)

\* Every sample of a pixel of the block is one of a row.
LEMMA SampleIsNth ==
    ASSUME NEW p, p.bits \in Seq(Nat), NEW b, IsRect(b), FileDepth(p) > 0,
           NEW x \in b.minX .. b.maxX - 1, NEW v \in b.minY .. b.maxY - 1,
           NEW c \in 1 .. FileChannels(p)
    PROVE  \E q, n : IsSample(p, b, x, v, c, q, n)
  <1> DEFINE w == b.maxX - b.minX
             f == FileChannels(p)
             d == FileDepth(p)
             r == FileRowBits(p, b)
             u == w * f * d
             q == v - b.minY
             i == x - b.minX
             j == c - 1
             n == i * f + j
             k == SampleStart(p, b, x, v, c)
  <1>1. /\ w \in Nat \ {0} /\ i \in 0 .. w - 1 /\ i \in Nat /\ x = b.minX + i /\ b.minX <= b.maxX
        /\ q \in Nat /\ v = b.minY + q /\ q < b.maxY - b.minY
    <2>1. b.minX \in Int /\ b.minY \in Int /\ b.maxX \in Int /\ b.maxY \in Int
      BY DEF IsRect
    <2>2. w \in Nat \ {0} /\ i \in 0 .. w - 1 /\ x = b.minX + i /\ b.minX <= b.maxX
      BY <2>1, Offset
    <2>3. q \in Nat /\ v = b.minY + q /\ q \in 0 .. (b.maxY - b.minY) - 1
      BY <2>1, Offset
    <2>4. q < b.maxY - b.minY
      BY <2>1
    <2> QED
      BY <2>2, <2>3, <2>4
  <1>2. f \in Nat /\ d \in Nat
    BY BitsNat
  <1>3. f \in Nat \ {0} /\ d \in Nat \ {0} /\ j \in 0 .. f - 1 /\ c = 1 + j
    BY <1>2
  <1>4. r \in Nat /\ u \in Nat /\ w * f \in Nat /\ u <= r
    BY <1>1, RowHolds
  <1>5. k = q * r + n * d
    BY DEF SampleStart
  <1> HIDE DEF w, f, d, r, q, i, j, k
  <1>6. n \in 0 .. w * f - 1
    BY <1>1, <1>3, SampleInRow
  <1>7. n \div f = i /\ n % f = j
    BY <1>1, <1>3, DivModUnique
  <1> HIDE DEF n
  <1>8. n \in Nat /\ n * d \in Nat /\ n * d + d <= u
    <2> DEFINE wf == w * f
    <2>1. wf \in Nat /\ n \in Nat /\ n < wf /\ u = wf * d
      BY <1>4, <1>6
    <2> HIDE DEF wf, u
    <2>2. n * d + d <= wf * d
      BY <1>3, <2>1, NextMultiple
    <2>3. n * d \in Nat
      BY <1>3, <2>1, SMT
    <2> QED
      BY <2>1, <2>2, <2>3
  <1>9. n * d + d <= r /\ n * d < u /\ n < w * f
    <2> DEFINE nd == n * d
               wf == w * f
    <2>1. nd \in Nat /\ nd + d <= u /\ wf \in Nat /\ n \in 0 .. wf - 1
      BY <1>4, <1>6, <1>8
    <2> HIDE DEF nd, u, wf
    <2>2. nd + d <= r /\ nd < u /\ n < wf
      BY <2>1, <1>3, <1>4
    <2> QED
      BY <2>2 DEF nd, wf
  <1> HIDE DEF u
  <1>10. k \in Nat
    <2>1. q * r \in Nat
      BY <1>1, <1>4, SMT
    <2> QED
      BY <1>5, <1>8, <2>1
  <1>11. Starts(k, q, n, d, r)
    BY <1>1, <1>3, <1>4, <1>5, <1>8, <1>9, <1>10, PlaceOfSample
  <1>12. NthSample(p, b, q, n) = Sample(x, v, c)
    BY <1>1, <1>3, <1>7 DEF NthSample, f
  <1>13. IsSample(p, b, x, v, c, q, n)
    BY <1>1, <1>5, <1>8, <1>9, <1>10, <1>11, <1>12 DEF IsSample, k, d, r, u, w, f
  <1> QED
    BY <1>13

\* The data of a block without predictor, as far as they reach, hold its samples.
LEMMA FileSamplesHold ==
    ASSUME NEW p, p.bits \in Seq(Nat), NEW b, IsRect(b), NEW bits \in Int, FileDepth(p) > 0,
           NEW x \in b.minX .. b.maxX - 1, NEW v \in b.minY .. b.maxY - 1,
           NEW c \in 1 .. FileChannels(p), ~ p.predictor,
           SampleStart(p, b, x, v, c) + FileDepth(p) <= bits
    PROVE  /\ SampleStart(p, b, x, v, c) \in DOMAIN FileSamples(p, b, bits)
           /\ FileSamples(p, b, bits)[SampleStart(p, b, x, v, c)] = Sample(x, v, c)
  <1> DEFINE k == SampleStart(p, b, x, v, c)
  <1>1. PICK q, n : IsSample(p, b, x, v, c, q, n)
    BY SampleIsNth
  <1>2. k + FileDepth(p) <= bits
    OBVIOUS
  <1>3. /\ q \in Nat /\ n \in Nat /\ k \in Nat
        /\ NthSample(p, b, q, n) = Sample(x, v, c)
        /\ Starts(k, q, n, FileDepth(p), FileRowBits(p, b))
        /\ n * FileDepth(p) < (b.maxX - b.minX) * FileChannels(p) * FileDepth(p)
    BY <1>1 DEF IsSample
  <1> HIDE DEF k
  <1>4. /\ k \in DOMAIN FileSamples(p, b, bits)
        /\ FileSamples(p, b, bits)[k] = NthStored(p, b, q, n)
    BY <1>2, <1>3, FileSampleAt
  <1>5. NthStored(p, b, q, n) = Sample(x, v, c)
    <2> DEFINE diff == p.predictor /\ b.minX + n \div FileChannels(p) > b.minX
    <2>1. diff = FALSE
      OBVIOUS
    <2>2. NthStored(p, b, q, n) = [Sample(x, v, c) EXCEPT !.diff = diff]
      BY <1>3 DEF NthStored
    <2> QED
      BY <2>1, <2>2 DEF Sample
  <1> QED
    BY <1>4, <1>5 DEF k

(***************************************************************************)
(* The predictor's sums: a function that is defined by itself, at a sample *)
(* of the same channel one pixel to the left.                              *)
(***************************************************************************)
\* Where the sums are taken: whole samples of one or two bytes, and rows without a gap.
Summable(p, b) ==
    /\ p.bits \in Seq(Nat) /\ IsRect(b) /\ b.minX < b.maxX /\ b.minY < b.maxY
    /\ p.predictor = TRUE /\ Depth(p) \in {8, 16} /\ Depth(p) = FileDepth(p)
    /\ Channels(p) = FileChannels(p) /\ Channels(p) > 0

Line(p, b) == (b.maxX - b.minX) * FileChannels(p)

\* The m-th sample of a block.
MthSample(p, b, m) == NthSample(p, b, m \div Line(p, b), m % Line(p, b))

\* A row of sums has no gap at its end.
LEMMA LineOf ==
    ASSUME NEW p, NEW b, Summable(p, b)
    PROVE  /\ Line(p, b) \in Nat \ {0}
           /\ FileRowBits(p, b) = Line(p, b) * Depth(p)
           /\ FileChannels(p) \in Nat \ {0} /\ FileChannels(p) <= Line(p, b)
           /\ Summed(p, b) = {k \in 0 .. (b.maxY - b.minY) * Line(p, b) - 1 :
                                 (k % Line(p, b)) >= FileChannels(p)}
           /\ b.minX \in Int /\ b.minY \in Int /\ b.maxX \in Int /\ b.maxY \in Int
           /\ b.maxY - b.minY \in Nat
  <1> DEFINE w == b.maxX - b.minX
             f == FileChannels(p)
             l == Line(p, b)
  <1>1. b.minX \in Int /\ b.minY \in Int /\ b.maxX \in Int /\ b.maxY \in Int
    BY DEF Summable, IsRect
  <1>2. w \in Nat \ {0} /\ b.maxY - b.minY \in Nat
    BY <1>1 DEF Summable
  <1>3. f \in Nat \ {0}
    BY BitsNat DEF Summable
  <1>4. l = w * f
    BY DEF Line
  <1> HIDE DEF w, f, l
  <1>5. w * f \in Nat \ {0} /\ f <= w * f
    BY <1>2, <1>3, SMT
  <1>6. FileRowBits(p, b) = 8 * DivUp(l * Depth(p), 8)
    BY <1>4 DEF FileRowBits, Summable, w, f
  <1>7. 8 * DivUp(l * Depth(p), 8) = l * Depth(p)
    <2>1. l \in Nat
      BY <1>4, <1>5
    <2>2. Depth(p) \in {8, 16}
      BY DEF Summable
    <2> QED
      BY <2>1, <2>2, SMT DEF DivUp
  <1>8. Summed(p, b) = {k \in 0 .. (b.maxY - b.minY) * l - 1 : (k % l) >= f}
    BY <1>4 DEF Summed, Summable, w, f
  <1> QED
    BY <1>1, <1>2, <1>3, <1>4, <1>5, <1>6, <1>7, <1>8 DEF f, l

\* The m-th sample of the data is a difference unless it belongs to the first pixel of a row.
LEMMA MthStored ==
    ASSUME NEW p, NEW b, Summable(p, b), NEW bits \in Int,
           NEW m \in Nat, m * Depth(p) + Depth(p) <= bits
    PROVE  /\ m * Depth(p) \in DOMAIN FileSamples(p, b, bits)
           /\ FileSamples(p, b, bits)[m * Depth(p)]
                = [MthSample(p, b, m) EXCEPT !.diff = (m % Line(p, b)) >= FileChannels(p)]
  <1> DEFINE l == Line(p, b)
             f == FileChannels(p)
             d == Depth(p)
             q == m \div l
             n == m % l
             k == m * d
             r == FileRowBits(p, b)
  <1>1. l \in Nat \ {0} /\ r = l * d /\ f \in Nat \ {0} /\ f <= l /\ d \in {8, 16}
    BY LineOf DEF Summable
  <1>2. d = FileDepth(p) /\ p.bits \in Seq(Nat) /\ p.predictor = TRUE
    BY DEF Summable
  <1>3. l = (b.maxX - b.minX) * FileChannels(p)
    BY DEF Line
  <1>4. k + d <= bits
    OBVIOUS
  <1> HIDE DEF l, f, d, r
  <1>5. q \in Nat /\ n \in 0 .. l - 1 /\ n \in Nat /\ m = q * l + n
    <2>1. q \in Nat /\ n \in 0 .. l - 1
      BY <1>1, DivModOf
    <2>2. m = q * l + n
      BY <1>1, DivModOf
    <2> QED
      BY <1>1, <2>1, <2>2
  <1> HIDE DEF q, n
  <1>6. q * r \in Nat /\ n * d \in Nat /\ r \in Nat /\ k \in Nat
    BY <1>1, <1>5, SMT
  <1>7. k = q * r + n * d
    <2>1. q * l \in Nat /\ (q * l) * d = q * (l * d)
      BY <1>1, <1>5, SMT
    <2>2. (q * l + n) * d = (q * l) * d + n * d
      BY <1>1, <1>5, <2>1, SMT
    <2> QED
      BY <1>1, <1>5, <2>1, <2>2
  <1>8. n * d + d <= l * d
    BY <1>1, <1>5, NextMultiple
  <1>9. n * d < l * d
    BY <1>1, <1>6, <1>8
  <1> HIDE DEF k
  <1>10. Starts(k, q, n, d, r)
    BY <1>1, <1>5, <1>6, <1>7, <1>8, PlaceOfSample
  <1>11. /\ k \in DOMAIN FileSamples(p, b, bits)
         /\ FileSamples(p, b, bits)[k] = NthStored(p, b, q, n)
    <2>1. Starts(k, q, n, FileDepth(p), FileRowBits(p, b))
      BY <1>2, <1>10 DEF r
    <2>2. n * FileDepth(p) < (b.maxX - b.minX) * FileChannels(p) * FileDepth(p)
      BY <1>2, <1>3, <1>9
    <2>3. FileDepth(p) > 0 /\ k + FileDepth(p) <= bits
      BY <1>1, <1>2, <1>4
    <2> QED
      BY <1>2, <1>5, <1>6, <2>1, <2>2, <2>3, FileSampleAt
  <1>12. NthStored(p, b, q, n) = [MthSample(p, b, m) EXCEPT !.diff = n >= f]
    <2>1. (b.minX + n \div f > b.minX) = (n >= f)
      <3>1. b.minX \in Int
        BY LineOf
      <3> DEFINE a == n \div f
      <3>2. a \in Nat /\ a * f <= n /\ n < a * f + f
        BY <1>1, <1>5, DivBounds
      <3>3. a > 0 <=> n >= f
        <4> HIDE DEF a
        <4> QED
          BY <1>1, <1>5, <3>2, SMT
      <3>4. (b.minX + a > b.minX) <=> (n >= f)
        <4> HIDE DEF a
        <4> QED
          BY <3>1, <3>2, <3>3
      <3> QED
        BY <3>4
    <2>2. (p.predictor /\ b.minX + n \div FileChannels(p) > b.minX) = (n >= f)
      BY <1>2, <2>1 DEF f
    <2>3. NthSample(p, b, q, n) = MthSample(p, b, m)
      BY DEF MthSample, q, n, l
    <2> QED
      BY <2>2, <2>3 DEF NthStored
  <1> QED
    BY <1>11, <1>12 DEF k, d, n, f, l

\* One pixel to the left lies the same channel of the same row.
LEMMA LeftSample ==
    ASSUME NEW p, NEW b, Summable(p, b), NEW m \in Nat,
           (m % Line(p, b)) >= FileChannels(p)
    PROVE  LET s == MthSample(p, b, m)
           IN  /\ m - FileChannels(p) \in Nat
               /\ MthSample(p, b, m - FileChannels(p)) = Sample(s.x - 1, s.y, s.c)
  <1> DEFINE l == Line(p, b)
             f == FileChannels(p)
             q == m \div l
             n == m % l
             i == n - f
             a == n \div f
             e == n % f
  <1>1. l \in Nat \ {0} /\ f \in Nat \ {0} /\ n >= f /\ b.minX \in Int
    BY LineOf
  <1> HIDE DEF l, f
  <1>2. q \in Nat /\ n \in 0 .. l - 1 /\ m = q * l + n
    BY <1>1, DivModOf
  <1> HIDE DEF q, n
  <1>3. i \in 0 .. l - 1 /\ n \in Nat /\ i \in Nat
    BY <1>1, <1>2
  <1>4. q * l \in Nat
    BY <1>1, <1>2, SMT
  <1>5. m - f = q * l + i
    BY <1>1, <1>2, <1>3, <1>4
  <1>6. a \in Nat /\ e \in 0 .. f - 1 /\ n = a * f + e
    BY <1>1, <1>3, DivModOf
  <1>7. a >= 1
    <2> HIDE DEF a, e
    <2> QED
      BY <1>1, <1>6, SMT
  <1> HIDE DEF i, a, e
  <1>8. (m - f) \div l = q /\ (m - f) % l = i
    BY <1>1, <1>2, <1>3, <1>5, DivModUnique
  <1>9. i \div f = a - 1 /\ i % f = e
    <2>1. a - 1 \in Nat /\ (a - 1) * f = a * f - f /\ a * f \in Nat
      BY <1>1, <1>6, <1>7, SMT
    <2>2. i = (a - 1) * f + e
      BY <1>1, <1>3, <1>6, <2>1 DEF i
    <2> QED
      BY <1>1, <1>6, <2>1, <2>2, DivModUnique
  <1>10. m - f \in Nat
    BY <1>3, <1>4, <1>5
  <1>11. MthSample(p, b, m) = Sample(b.minX + a, b.minY + q, 1 + e)
    BY DEF MthSample, NthSample, a, e, n, q, l, f
  <1>12. MthSample(p, b, m - f) = Sample(b.minX + (a - 1), b.minY + q, 1 + e)
    BY <1>8, <1>9 DEF MthSample, NthSample, l, f
  <1>13. b.minX + (a - 1) = b.minX + a - 1
    BY <1>1, <1>6 DEF a
  <1> DEFINE s == MthSample(p, b, m)
  <1>14. s.x = b.minX + a /\ s.y = b.minY + q /\ s.c = 1 + e
    BY <1>11 DEF Sample
  <1>15. MthSample(p, b, m - f) = Sample(s.x - 1, s.y, s.c)
    <2> HIDE DEF s
    <2>1. s.x - 1 = b.minX + (a - 1)
      BY <1>1, <1>6, <1>14
    <2> QED
      BY <1>12, <1>14, <2>1
  <1> QED
    BY <1>10, <1>15 DEF f

\* The samples that are there as a whole, and what the code makes of one of them.
Whole(p, bits) == {m \in Nat : m * Depth(p) + Depth(p) <= bits}

SumOf(p, b, raw, f, m) ==
    IF m \in Summed(p, b)
    THEN Added(f[m - Channels(p)], raw[m * Depth(p)]) ELSE raw[m * Depth(p)]

\* If the sum at the left is right, the next one is.
LEMMA NextSum ==
    ASSUME NEW p, NEW b, Summable(p, b), NEW bits \in Int, bits <= FileBits(p, b),
           NEW m \in Whole(p, bits), NEW f,
           m \in Summed(p, b) =>
              f[m - Channels(p)] = MthSample(p, b, m - Channels(p))
    PROVE  SumOf(p, b, FileSamples(p, b, bits), f, m) = MthSample(p, b, m)
  <1> DEFINE raw == FileSamples(p, b, bits)
             d == Depth(p)
             l == Line(p, b)
             c == FileChannels(p)
             h == b.maxY - b.minY
             s == MthSample(p, b, m)
  <1>1. m \in Nat /\ m * d + d <= bits
    BY DEF Whole
  <1>2. l \in Nat \ {0} /\ c \in Nat \ {0} /\ d \in {8, 16} /\ h \in Nat /\ Channels(p) = c
    BY LineOf DEF Summable
  <1>3. raw[m * d] = [s EXCEPT !.diff = (m % l) >= c]
    BY <1>1, MthStored
  <1>4. s = Sample(s.x, s.y, s.c) /\ s.diff = FALSE
    BY DEF MthSample, NthSample, Sample
  <1>5. m \in Summed(p, b) <=> (m % l) >= c
    <2>1. Summed(p, b) = {k \in 0 .. h * l - 1 : (k % l) >= c}
      BY LineOf
    <2>2. FileBits(p, b) = h * (l * d)
      BY LineOf DEF FileBits
    <2> HIDE DEF d, l, c, h
    <2>3. m * d \in Nat /\ h * l \in Nat /\ h * (l * d) = (h * l) * d
      BY <1>1, <1>2, SMT
    <2> DEFINE hl == h * l
               md == m * d
    <2>4. hl \in Nat /\ md \in Nat /\ md + d <= hl * d
      BY <1>1, <1>2, <2>2, <2>3
    <2>5. m < hl
      <3> SUFFICES ASSUME hl <= m PROVE FALSE
        BY <1>1, <2>4
      <3>1. hl * d <= m * d
        BY <1>1, <1>2, <2>4, TimesMonotone
      <3>2. hl * d \in Int
        BY <1>2, <2>4
      <3> HIDE DEF hl
      <3> QED
        BY <1>2, <2>4, <3>1, <3>2
    <2> QED
      BY <1>1, <2>1, <2>4, <2>5
  <1>6. CASE (m % l) >= c
    <2>1. f[m - Channels(p)] = Sample(s.x - 1, s.y, s.c)
      BY <1>1, <1>2, <1>5, <1>6, LeftSample
    <2>2. raw[m * d] = [s EXCEPT !.diff = TRUE]
      BY <1>3, <1>6
    <2>3. /\ raw[m * d].diff = TRUE /\ raw[m * d].x = s.x /\ raw[m * d].y = s.y
          /\ raw[m * d].c = s.c /\ [raw[m * d] EXCEPT !.diff = FALSE] = s
      <3> HIDE DEF s, raw, d
      <3> QED
        BY <1>4, <2>2 DEF Sample
    <2>4. Added(f[m - Channels(p)], raw[m * d]) = s
      BY <2>1, <2>3 DEF Added
    <2> QED
      BY <1>5, <1>6, <2>4 DEF SumOf
  <1>7. CASE ~ ((m % l) >= c)
    <2>1. raw[m * d] = [s EXCEPT !.diff = FALSE]
      <3>1. ((m % l) >= c) = FALSE
        BY <1>7
      <3> HIDE DEF s, raw, d, l, c
      <3> QED
        BY <1>3, <3>1
    <2>2. raw[m * d] = s
      <3> HIDE DEF s, raw, d
      <3> QED
        BY <1>4, <2>1 DEF Sample
    <2> QED
      BY <1>5, <1>7, <2>2 DEF SumOf
  <1> QED
    BY <1>6, <1>7

\* The sums are the samples themselves, wherever the data reach: the recursion has one solution.
LEMMA SumsAreSamples ==
    ASSUME NEW p, NEW b, Summable(p, b), NEW bits \in Int, bits <= FileBits(p, b),
           NEW k \in DOMAIN FileSamples(p, b, bits)
    PROVE  /\ k \in DOMAIN PredictorSums(p, b, FileSamples(p, b, bits))
           /\ PredictorSums(p, b, FileSamples(p, b, bits))[k] = MthSample(p, b, k \div Depth(p))
  <1> DEFINE raw == FileSamples(p, b, bits)
             d == Depth(p)
             c == Channels(p)
             places == {n \div d : n \in DOMAIN raw}
             Solves(f) == f = [m \in places |-> SumOf(p, b, raw, f, m)]
             g == [m \in places |-> MthSample(p, b, m)]
             sum == CHOOSE f : Solves(f)
  <1>1. d \in {8, 16} /\ c \in Nat \ {0} /\ c = FileChannels(p) /\ Line(p, b) \in Nat \ {0}
    BY LineOf DEF Summable
  <1>2. places = Whole(p, bits)
    <2>1. ASSUME NEW n \in DOMAIN raw PROVE n \div d \in Whole(p, bits)
      <3>1. n \in 0 .. bits - d
        <4>1. raw = << >> \/ \A j \in DOMAIN raw : j \in 0 .. bits - d
          BY DEF FileSamples, Summable
        <4> QED
          BY <2>1, <4>1
      <3> DEFINE a == n \div d
      <3>2. n \in Nat /\ n + d <= bits
        BY <1>1, <3>1
      <3>3. a \in Nat /\ a * d <= n
        BY <1>1, <3>2, DivBounds
      <3>4. a * d + d <= bits
        <4>1. a * d \in Int
          BY <1>1, <3>3, SMT
        <4> HIDE DEF a, d
        <4> QED
          BY <1>1, <3>2, <3>3, <4>1
      <3> QED
        BY <3>3, <3>4 DEF Whole
    <2>2. ASSUME NEW m \in Whole(p, bits) PROVE m \in places
      <3>1. m \in Nat /\ m * d + d <= bits
        BY DEF Whole
      <3>2. m * d \in DOMAIN raw
        BY <3>1, MthStored
      <3>3. (m * d) \div d = m
        <4>1. (m * d + 0) \div d = m
          BY <1>1, <3>1, DivModUnique
        <4>2. m * d + 0 = m * d
          BY <1>1, <3>1, SMT
        <4> QED
          BY <4>1, <4>2
      <3> QED
        BY <3>2, <3>3
    <2> QED
      BY <2>1, <2>2
  <1>3. ASSUME NEW m \in Whole(p, bits), m \in Summed(p, b)
        PROVE  m - c \in Whole(p, bits) /\ m - c < m
    <2>1. m \in Nat /\ m * d + d <= bits /\ (m % Line(p, b)) >= c
      BY <1>1, <1>3, LineOf DEF Whole
    <2>2. m - c \in Nat
      BY <1>1, <2>1, LeftSample
    <2>3. (m - c) * d + d <= bits
      BY <1>1, <2>1, <2>2
    <2> QED
      BY <1>1, <2>1, <2>2, <2>3 DEF Whole
  <1>4. PredictorSums(p, b, raw) = [n \in DOMAIN raw |-> sum[n \div d]]
    BY DEF PredictorSums, SumOf
  <1> HIDE DEF raw, d, c, places, sum
  <1>5. Solves(g)
    <2>1. ASSUME NEW m \in places PROVE SumOf(p, b, raw, g, m) = MthSample(p, b, m)
      <3>1. m \in Summed(p, b) => g[m - c] = MthSample(p, b, m - c)
        BY <1>2, <1>3
      <3> HIDE DEF g
      <3> QED
        BY <1>2, <3>1, NextSum DEF raw, c
    <2> QED
      BY <2>1
  <1>6. Solves(sum)
    BY <1>5 DEF sum
  <1>7. \A m \in places : sum[m] = MthSample(p, b, m)
    <2> DEFINE wrong == {m \in places : sum[m] # MthSample(p, b, m)}
    <2> SUFFICES ASSUME wrong # {} PROVE FALSE
      OBVIOUS
    <2>1. wrong \subseteq Nat
      BY <1>2 DEF Whole
    <2>2. PICK m \in wrong : \A n \in wrong : ~ (<<n, m>> \in OpToRel(<, Nat))
      BY <2>1, NatLessThanWellFounded, WFMin
    <2>3. m \in places /\ m \in Nat /\ \A n \in wrong : ~ (n < m)
      BY <2>1, <2>2 DEF OpToRel
    <2>4. m \in Summed(p, b) => sum[m - c] = MthSample(p, b, m - c)
      <3> SUFFICES ASSUME m \in Summed(p, b) PROVE sum[m - c] = MthSample(p, b, m - c)
        OBVIOUS
      <3>1. m - c \in places /\ m - c < m
        BY <1>2, <1>3, <2>3
      <3> QED
        BY <2>3, <3>1
    <2>5. SumOf(p, b, raw, sum, m) = MthSample(p, b, m)
      BY <1>2, <2>3, <2>4, NextSum DEF raw, c
    <2>6. sum[m] = SumOf(p, b, raw, sum, m)
      BY <1>6, <2>3
    <2> QED
      BY <2>5, <2>6
  <1>8. k \in DOMAIN raw /\ k \div d \in places
    BY DEF raw, places
  <1> QED
    BY <1>4, <1>7, <1>8 DEF raw, d

\* The sums of a block, as far as they reach, are its samples at their places.
LEMMA SumsHold ==
    ASSUME NEW p, NEW b, Summable(p, b), NEW bits \in Int, bits <= FileBits(p, b),
           NEW x \in b.minX .. b.maxX - 1, NEW v \in b.minY .. b.maxY - 1,
           NEW c \in 1 .. FileChannels(p),
           SampleStart(p, b, x, v, c) + FileDepth(p) <= bits
    PROVE  LET sums == PredictorSums(p, b, FileSamples(p, b, bits))
           IN  /\ SampleStart(p, b, x, v, c) \in DOMAIN sums
               /\ sums[SampleStart(p, b, x, v, c)] = Sample(x, v, c)
  <1> DEFINE k == SampleStart(p, b, x, v, c)
             l == Line(p, b)
             d == Depth(p)
             raw == FileSamples(p, b, bits)
  <1>1. /\ p.bits \in Seq(Nat) /\ IsRect(b) /\ FileDepth(p) > 0 /\ FileDepth(p) = d
        /\ d \in {8, 16} /\ l \in Nat \ {0} /\ FileRowBits(p, b) = l * d
        /\ l = (b.maxX - b.minX) * FileChannels(p)
    <2>1. l \in Nat \ {0} /\ FileRowBits(p, b) = l * d
      BY LineOf
    <2>2. l = (b.maxX - b.minX) * FileChannels(p)
      BY DEF Line
    <2>3. /\ p.bits \in Seq(Nat) /\ IsRect(b) /\ FileDepth(p) > 0 /\ FileDepth(p) = d
          /\ d \in {8, 16}
      BY DEF Summable
    <2> QED
      BY <2>1, <2>2, <2>3
  <1>2. PICK q, n : IsSample(p, b, x, v, c, q, n)
    BY <1>1, SampleIsNth
  <1>3. /\ q \in Nat /\ n \in Nat /\ n < l /\ k \in Nat /\ k = q * (l * d) + n * d
        /\ NthSample(p, b, q, n) = Sample(x, v, c)
        /\ Starts(k, q, n, FileDepth(p), FileRowBits(p, b))
        /\ n * FileDepth(p) < (b.maxX - b.minX) * FileChannels(p) * FileDepth(p)
    BY <1>1, <1>2 DEF IsSample
  <1>4. k + FileDepth(p) <= bits
    OBVIOUS
  <1> HIDE DEF k
  <1>5. k \in DOMAIN raw
    BY <1>1, <1>3, <1>4, FileSampleAt
  <1> DEFINE m == q * l + n
  <1> HIDE DEF l, d
  <1>6. m \in Nat /\ m \div l = q /\ m % l = n
    <2>1. n \in 0 .. l - 1
      BY <1>1, <1>3
    <2> QED
      BY <1>1, <1>3, <2>1, DivModUnique
  <1>7. k = m * d + 0
    <2>1. q \in Nat /\ l \in Nat /\ d \in Nat /\ n \in Nat
      BY <1>1, <1>3
    <2>2. q * l \in Nat /\ (q * l) * d = q * (l * d) /\ (q * l) * d \in Nat /\ n * d \in Nat
      BY <2>1, SMT
    <2>3. (q * l + n) * d = (q * l) * d + n * d
      BY <2>1, <2>2, SMT
    <2> QED
      BY <1>3, <2>2, <2>3
  <1> HIDE DEF m
  <1>8. k \div d = m
    <2>1. (m * d + 0) \div d = m
      BY <1>1, <1>6, DivModUnique
    <2> QED
      BY <1>7, <2>1
  <1>9. MthSample(p, b, m) = Sample(x, v, c)
    BY <1>3, <1>6 DEF MthSample, l
  <1> QED
    BY <1>5, <1>8, <1>9, SumsAreSamples DEF k, d, raw

(***************************************************************************)
(* Every pixel is made from its own samples.                               *)
(***************************************************************************)
DataFits == SamplesFit /\ SumsFit /\ ifd.offsets = Blocks(ifd)

\* The data of the block at work holds its samples at their places, as far as it reaches.
HoldsSamples ==
    \A x \in Bounds.minX .. Bounds.maxX - 1, v \in Bounds.minY .. Bounds.maxY - 1,
       c \in 1 .. FileChannels(ifd) :
          LET k == SampleStart(ifd, InFile, x, v, c)
          IN  k + FileDepth(ifd) <= size => k \in DOMAIN data /\ data[k] = Sample(x, v, c)

\* Where no row is lost, the data is read on at the row at work.
ReadsOn ==
    ~ Addressed(ifd) /\ RowsFit(InFile) =>
        cursor = (y - Bounds.minY) * FileRowBits(ifd, InFile)

\* The pixel was made from its samples, as far as the rows of its block fit.
FromItsBlock(at) ==
    \E col \in 0 .. BlocksAcross(ifd) - 1, row \in 0 .. BlocksDown(ifd) - 1 :
        LET b == FileBlock(ifd, col, row)
        IN  Within(b, at[1], at[2]) /\ (RowsFit(b) => pixels[at] = FromSamples(at))

\* The inductive invariant.
SampleInv ==
    /\ FullInv
    /\ pc = "rows" /\ DataFits => HoldsSamples /\ ReadsOn
    /\ DataFits => \A at \in DOMAIN pixels : Written(at) => FromItsBlock(at)

\* What is read as one sample is one in the file.
LEMMA DepthsAgree ==
    ASSUME NEW p, NewImage(p) # "error", p.bits \in Seq(Nat),
           SamplesRead(p) = FileChannels(p), BitsRead(p) = FileDepth(p), FileDepth(p) > 0
    PROVE  /\ Depth(p) \in {8, 16} => Depth(p) = FileDepth(p)
           /\ Inverts(p) = (p.photometric = "WhiteIsZero" /\ Depth(p) >= 8)
           /\ Addressed(p) => BitsRead(p) = 8
  <1>1. ImageType(p) \in Grays \cup {"Paletted", "NRGBA", "RGB", "RGBA"}
    BY DEF NewImage
  <1>2. p.fax => ImageType(p) \notin {"NRGBA", "RGB", "RGBA"}
    BY DEF SamplesRead, FileChannels
  <1>3. Depth(p) \in {8, 16} => Depth(p) = FileDepth(p)
    <2>1. CASE ~ p.fax
      BY <2>1 DEF FileDepth
    <2>2. CASE p.fax
      <3>1. ImageType(p) \in Grays \cup {"Paletted"}
        BY <1>1, <1>2, <2>2
      <3> QED
        BY <2>2, <3>1 DEF BitsRead, FaxPixels
    <2> QED
      BY <2>1, <2>2
  <1>4. Addressed(p) => BitsRead(p) = 8
    BY DEF Addressed, BitsRead, Grays
  <1>5. Inverts(p) <=> p.photometric = "WhiteIsZero" /\ Depth(p) >= 8
    <2>1. CASE p.photometric # "WhiteIsZero"
      <3>1. ImageType(p) # "GrayInvert"
        BY <2>1 DEF ImageType
      <3> QED
        BY <2>1, <3>1 DEF Inverts
    <2>2. CASE p.photometric = "WhiteIsZero"
      <3>1. HasTags(p)
        <4> SUFFICES ASSUME ~ HasTags(p) PROVE FALSE
          OBVIOUS
        <4>1. ImageType(p) = "Nil"
          BY DEF ImageType
        <4> QED
          BY <1>1, <4>1 DEF Grays
      <3>2. ImageType(p) = IF IsBilevel(p) THEN "BilevelInvert" ELSE "GrayInvert"
        BY <2>2, <3>1 DEF ImageType
      <3>3. CASE IsBilevel(p)
        <4>1. Len(p.bits) = 1 /\ p.bits[1] < 8 /\ p.bits[1] \in Nat
          BY <3>3 DEF IsBilevel, Channels
        <4>2. Depth(p) = p.bits[1] \/ Depth(p) = 0
          BY DEF Depth
        <4> QED
          BY <3>2, <3>3, <4>1, <4>2 DEF Inverts
      <3>4. CASE ~ IsBilevel(p)
        <4>1. ImageType(p) = "GrayInvert" /\ ImageType(p) \in Grays
          BY <3>2, <3>4 DEF Grays
        <4>2. FaxPixels(p) => Depth(p) = 1
          BY DEF FaxPixels
        <4>3. ~ FaxPixels(p) => BitsRead(p) = Depth(p)
          BY <4>1 DEF BitsRead
        <4>4. ~ FaxPixels(p) => Depth(p) >= 8
          <5>1. CASE p.fax
            BY <4>3, <5>1 DEF FileDepth
          <5>2. CASE ~ p.fax
            <6>1. Channels(p) = 1
              BY <4>1, <5>2 DEF FileChannels, SamplesRead
            <6>2. Len(p.bits) = 1 /\ p.bits[1] \in Nat /\ ~ (p.bits[1] < 8)
              BY <3>4, <6>1 DEF IsBilevel, Channels
            <6>3. Depth(p) = p.bits[1]
              BY <6>2 DEF Depth
            <6> QED
              BY <6>2, <6>3
          <5> QED
            BY <5>1, <5>2
        <4> QED
          BY <2>2, <4>1, <4>2, <4>4 DEF Inverts
      <3> QED
        BY <3>3, <3>4
    <2> QED
      BY <2>1, <2>2
  <1>6. Inverts(p) = (p.photometric = "WhiteIsZero" /\ Depth(p) >= 8)
    BY <1>5 DEF Inverts
  <1> QED
    BY <1>3, <1>4, <1>6

\* decodePredictor and DecodeBlockData leave the samples of the block at their places.
LEMMA BlockHolds ==
    ASSUME NEW p, p.bits \in Seq(Nat), NewImage(p) # "error", p.predictor \in BOOLEAN,
           SamplesRead(p) = FileChannels(p), BitsRead(p) = FileDepth(p), FileDepth(p) > 0,
           p.predictor => Channels(p) = FileChannels(p),
           NEW b, IsRect(b), NEW bits \in Int,
           bits <= FileBits(p, b) \/ bits = 0,
           p.predictor => ~ PredictorFails(p, b, bits),
           NEW x \in b.minX .. b.maxX - 1, NEW v \in b.minY .. b.maxY - 1,
           NEW c \in 1 .. FileChannels(p),
           SampleStart(p, b, x, v, c) + FileDepth(p) <= bits
    PROVE  LET raw  == FileSamples(p, b, bits)
               held == IF p.predictor THEN PredictorSums(p, b, raw) ELSE raw
           IN  /\ SampleStart(p, b, x, v, c) \in DOMAIN held
               /\ held[SampleStart(p, b, x, v, c)] = Sample(x, v, c)
  <1>1. CASE ~ p.predictor
    BY <1>1, FileSamplesHold
  <1>2. CASE p.predictor = TRUE
    <2>1. Depth(p) \in {8, 16} /\ Depth(p) = FileDepth(p)
      BY <1>2, DepthsAgree DEF PredictorFails
    <2>2. Channels(p) > 0
      BY <1>2 DEF SamplesRead
    <2>3. b.minX < b.maxX /\ b.minY < b.maxY
      BY DEF IsRect
    <2>4. Summable(p, b)
      BY <1>2, <2>1, <2>2, <2>3 DEF Summable
    <2>5. bits <= FileBits(p, b)
      <3> SUFFICES ASSUME bits = 0 PROVE FALSE
        OBVIOUS
      <3>1. \E q, n : IsSample(p, b, x, v, c, q, n)
        BY SampleIsNth
      <3>2. SampleStart(p, b, x, v, c) \in Nat /\ FileDepth(p) \in Nat
        BY <3>1, BitsNat DEF IsSample
      <3> QED
        BY <3>2
    <2> QED
      BY <1>2, <2>4, <2>5, SumsHold
  <1> QED
    BY <1>1, <1>2

\* Where the row at work starts in the file, unless the code has lost it.
LEMMA RowBegins ==
    ASSUME SampleInv, pc = "rows", DataFits, RowsFit(InFile)
    PROVE  RowStart = (y - Bounds.minY) * FileRowBits(ifd, InFile)
  <1> DEFINE w == Bounds.maxX - Bounds.minX
             d == y - Bounds.minY
             f == FileChannels(ifd)
  <1>1. OnceInv /\ ifd.bits \in Seq(Nat) /\ NewImage(ifd) # "error"
    BY IfdAssumption DEF SampleInv, FullInv, CauseInv, OnceInv
  <1>2. InFile = Bounds
    BY <1>1, RowBits
  <1>3. w \in Int /\ d \in Int /\ f \in Nat
    <2>1. Bounds.minX \in Int /\ Bounds.maxX \in Int /\ Bounds.minY \in Int /\ y \in Int
      BY <1>1, RowsEnd DEF OnceInv
    <2> HIDE DEF Bounds
    <2> QED
      BY <1>1, <2>1, BitsNat
  <1>4. CASE ~ Addressed(ifd)
    BY <1>4 DEF SampleInv, ReadsOn, RowStart
  <1>5. CASE Addressed(ifd)
    <2>1. FileDepth(ifd) = 8 /\ PixelBits(ifd) = f * 8
      BY <1>1, <1>5, DepthsAgree DEF DataFits, SamplesFit, PixelBits
    <2>2. FileRowBits(ifd, InFile) = 8 * DivUp(w * f * 8, 8)
      BY <1>2, <2>1 DEF FileRowBits
    <2>3. RowStart = d * w * (f * 8)
      BY <1>5, <2>1 DEF RowStart
    <2> HIDE DEF w, d, f
    <2>4. w * f \in Int
      BY <1>3, SMT
    <2>5. 8 * DivUp((w * f) * 8, 8) = (w * f) * 8
      BY <2>4, SMT DEF DivUp
    <2>6. d * w * (f * 8) = d * ((w * f) * 8)
      BY <1>3, SMT
    <2> QED
      BY <2>2, <2>3, <2>5, <2>6 DEF d
  <1> QED
    BY <1>4, <1>5

\* A pixel that is read is made from its samples.
LEMMA PixelRight ==
    ASSUME SampleInv, AtRow, DataFits, RowsFit(InFile), NEW at \in DOMAIN pixels,
           at[2] = y, at[1] + 1 - Bounds.minX \in Readable
    PROVE  PixelAt(at[1] + 1 - Bounds.minX) = FromSamples(at)
  <1> DEFINE i == at[1] + 1 - Bounds.minX
             f == FileChannels(ifd)
             d == FileDepth(ifd)
             w == Bounds.maxX - Bounds.minX
             from(c) == PixelEnd(i - 1) + (c - 1) * BitsRead(ifd)
  <1>1. /\ pc = "rows" /\ OnceInv /\ ifd.bits \in Seq(Nat) /\ NewImage(ifd) # "error"
        /\ y < RMaxY /\ y \in Int /\ y >= Bounds.minY /\ HoldsSamples /\ size \in Int
        /\ at[1] \in Int
    BY IfdAssumption DEF SampleInv, FullInv, CauseInv, OnceInv, AtRow
  <1>2. SamplesRead(ifd) = f /\ BitsRead(ifd) = d /\ PixelBits(ifd) = f * d
    BY DEF DataFits, SamplesFit, PixelBits
  <1>3. f \in Nat /\ d \in Nat
    BY <1>1, BitsNat
  <1>4. InFile = Bounds
    BY <1>1, RowBits
  <1>5. /\ Bounds.minX \in Int /\ Bounds.minY \in Int /\ Bounds.maxX \in Int /\ Bounds.maxY \in Int
        /\ RMaxX \in Int /\ RMaxX <= Bounds.maxX /\ RMaxY \in Int /\ RMaxY <= Bounds.maxY
    BY <1>1, RowsEnd
  <1>6. /\ i \in 1 .. RMaxX - Bounds.minX /\ Room(i)
    BY DEF Readable, RowWidth
  <1>7. /\ i \in Nat /\ 1 <= i /\ i <= w /\ w \in Nat /\ i - 1 = at[1] - Bounds.minX
        /\ at[1] \in Bounds.minX .. Bounds.maxX - 1 /\ y \in Bounds.minY .. Bounds.maxY - 1
    <2> DEFINE lo == Bounds.minX
               hi == Bounds.maxX
               x == at[1]
    <2>1. /\ lo \in Int /\ hi \in Int /\ RMaxX \in Int /\ RMaxX <= hi /\ x \in Int
          /\ i = x + 1 - lo /\ i \in 1 .. RMaxX - lo /\ w = hi - lo
      BY <1>1, <1>5, <1>6
    <2>2. y \in Bounds.minY .. Bounds.maxY - 1
      <3> HIDE DEF Bounds, RMaxY
      <3> QED
        BY <1>1, <1>5
    <2> HIDE DEF lo, hi, x, i, w, RMaxX
    <2>3. i \in Nat /\ 1 <= i /\ i <= w /\ w \in Nat /\ i - 1 = x - lo /\ x \in lo .. hi - 1
      BY <2>1
    <2> QED
      BY <2>2, <2>3 DEF x, lo, hi
  <1> DEFINE s == RowStart
             r == FileRowBits(ifd, InFile)
  <1>8. s = (y - Bounds.minY) * r
    BY <1>1, RowBegins
  <1>9. s \in Int
    <2>1. PICK z \in Int : FileRowBits(ifd, InFile) = 8 * z
      BY <1>1, RowBits
    <2>2. y - Bounds.minY \in Int
      <3> HIDE DEF Bounds
      <3> QED
        BY <1>1, <1>5
    <2> DEFINE e == y - Bounds.minY
    <2> HIDE DEF e
    <2>3. e * (8 * z) \in Int
      BY <2>2, SMT DEF e
    <2> QED
      BY <1>8, <2>1, <2>3 DEF e
  <1>10. s + i * (f * d) <= size
    <2>1. s + (IF CopiesRows(ifd) THEN w ELSE i) * (f * d) <= size
      BY <1>2, <1>6 DEF Room, PixelEnd
    <2> HIDE DEF i, w, f, d, s
    <2>2. f * d \in Nat
      BY <1>3, SMT
    <2> DEFINE fd == f * d
    <2> HIDE DEF fd
    <2>3. fd \in Nat
      BY <2>2 DEF fd
    <2>4. i * fd <= w * fd /\ i * fd \in Int /\ w * fd \in Int
      BY <1>7, <2>3, SMT
    <2> DEFINE ifd1 == i * fd
               wfd == w * fd
    <2>5. ifd1 <= wfd /\ ifd1 \in Int /\ wfd \in Int
      BY <2>4
    <2>6. s + wfd <= size \/ s + ifd1 <= size
      BY <2>1 DEF fd
    <2>7. s + ifd1 <= size
      <3> HIDE DEF ifd1, wfd
      <3> QED
        BY <1>1, <1>9, <2>5, <2>6
    <2> QED
      BY <2>7 DEF fd
  <1>11. ASSUME NEW c \in 1 .. f
         PROVE  from(c) \in DOMAIN data /\ data[from(c)] = Sample(at[1], at[2], c)
    <2> DEFINE k == SampleStart(ifd, InFile, at[1], y, c)
               a == at[1] - Bounds.minX
               j == c - 1
    <2>1. from(c) = s + (i - 1) * (f * d) + (c - 1) * d
      BY <1>2 DEF PixelEnd
    <2>2. k = s + (a * f + j) * d
      BY <1>4, <1>8 DEF SampleStart
    <2>3. i - 1 = a /\ a \in Nat /\ j \in Nat /\ c \in Nat /\ c <= f /\ c = j + 1 /\ i = a + 1
      BY <1>3, <1>7
    <2>4. from(c) = s + a * (f * d) + j * d
      BY <2>1, <2>3
    <2> HIDE DEF i, f, d, s, a, j, k, from
    <2>5. (a * f + j) * d = a * (f * d) + j * d /\ a * (f * d) \in Nat /\ j * d \in Nat
      BY <1>3, <2>3, SMT
    <2>6. j * d + d <= f * d /\ f * d \in Nat
      <3>1. j * d + d <= f * d
        BY <1>3, <2>3, NextMultiple
      <3> QED
        BY <1>3, <3>1, SMT
    <2>7. i * (f * d) = a * (f * d) + f * d
      BY <1>3, <2>3, SMT
    <2>8. from(c) = k
      BY <1>9, <2>2, <2>4, <2>5
    <2>9. k + d <= size
      <3> DEFINE fd == f * d
                 afd == a * (f * d)
                 jd == j * d
      <3>1. /\ fd \in Nat /\ afd \in Nat /\ jd \in Nat /\ jd + d <= fd
            /\ s + (afd + fd) <= size /\ k = s + (afd + jd)
        BY <1>10, <2>2, <2>5, <2>6, <2>7
      <3> HIDE DEF fd, afd, jd
      <3> QED
        BY <1>1, <1>3, <1>9, <3>1
    <2>10. k \in DOMAIN data /\ data[k] = Sample(at[1], y, c)
      <3>1. c \in 1 .. FileChannels(ifd)
        BY DEF f
      <3> QED
        BY <1>1, <1>7, <2>9, <3>1 DEF HoldsSamples, k, d
    <2> QED
      BY <2>8, <2>10
  <1>12. Inverts(ifd) = (ifd.photometric = "WhiteIsZero" /\ Depth(ifd) >= 8)
    BY <1>1, DepthsAgree DEF DataFits, SamplesFit
  <1>13. PixelAt(i).samples = [c \in 1 .. f |-> Sample(at[1], at[2], c)]
    <2>1. PixelAt(i).samples =
             [c \in 1 .. f |-> IF from(c) \in DOMAIN data /\ BitsRead(ifd) = d
                               THEN data[from(c)] ELSE Garbage]
      BY <1>2 DEF PixelAt
    <2> HIDE DEF from, i, f, d
    <2> QED
      BY <1>2, <1>11, <2>1
  <1> QED
    BY <1>2, <1>12, <1>13 DEF PixelAt, FromSamples

\* Lengths in the file are integers.
LEMMA FileBitsInt ==
    ASSUME NEW p, p.bits \in Seq(Nat), NEW b, IsRect(b)
    PROVE  FileRowBits(p, b) \in Int /\ FileBits(p, b) \in Int
  <1> DEFINE w == b.maxX - b.minX
             h == b.maxY - b.minY
             n == w * FileChannels(p) * FileDepth(p)
             r == DivUp(n, 8)
  <1>1. w \in Int /\ h \in Int
    BY DEF IsRect
  <1>2. FileRowBits(p, b) = 8 * r /\ FileBits(p, b) = h * (8 * r)
    BY DEF FileRowBits, FileBits
  <1> HIDE DEF w, h
  <1>3. n \in Int
    <2>1. FileChannels(p) \in Int /\ FileDepth(p) \in Int
      BY BitsNat
    <2> QED
      BY <1>1, <2>1, SMT
  <1> HIDE DEF n
  <1>4. r \in Int
    BY <1>3, BytesHold
  <1> HIDE DEF r
  <1> QED
    BY <1>1, <1>2, <1>4, SMT

LEMMA SampleInit == Init => SampleInv
  BY FullInit, BlankIsBlank DEF Init, SampleInv, Written

\* The image that was just allocated is blank, and no block has been read.
LEMMA SampleAllocate ==
    ASSUME SampleInv, DecodeImage \/ DecodeImageBlock
    PROVE  SampleInv'
  <1>1. FullInv'
    BY FullNext DEF SampleInv, Next
  <1>2. pc = "open" /\ pc' # "rows" /\ ifd' = ifd
    BY DEF DecodeImage, DecodeImageBlock, Fail, Allocate
  <1>3. \A at \in DOMAIN pixels' : ~ Written(at)'
    <2>1. CASE pixels' = pixels
      BY <1>2, <2>1 DEF SampleInv, FullInv, CauseInv, OnceInv, Written
    <2>2. CASE pixels' # pixels
      <3>1. \E r : pixels' = AllBlank(r)
        BY <2>2 DEF DecodeImage, DecodeImageBlock, Fail, Allocate
      <3> QED
        BY <3>1, BlankIsBlank DEF Written
    <2> QED
      BY <2>1, <2>2
  <1> QED
    BY <1>1, <1>2, <1>3 DEF SampleInv

\* As long as pixels and tags stay the same, so does what has been said of the pixels.
LEMMA PixelsStay ==
    ASSUME SampleInv, ifd' = ifd, pixels' = pixels
    PROVE  (DataFits => \A at \in DOMAIN pixels : Written(at) => FromItsBlock(at))'
  BY DEF SampleInv, DataFits, SamplesFit, SumsFit, Written, FromItsBlock, RowsFit, Addressed,
         FromSamples

\* The block that was read holds its samples.
LEMMA SampleBlock ==
    ASSUME SampleInv, DecodeBlock
    PROVE  SampleInv'
  <1>1. FullInv'
    BY FullNext DEF SampleInv, Next
  <1>2. /\ pc = "block" /\ IsBlock(ifd, block[1], block[2])
        /\ UNCHANGED <<ifd, request, image, pixels, block>>
    BY DEF DecodeBlock, Fail
  <1>3. (DataFits => \A at \in DOMAIN pixels : Written(at) => FromItsBlock(at))'
    BY <1>2, PixelsStay
  <1>4. Bounds' = Bounds /\ InFile' = InFile
    BY <1>2 DEF Bounds, InFile
  <1>5. ASSUME pc' = "rows", DataFits PROVE HoldsSamples' /\ ReadsOn'
    <2>1. /\ IsLayout(ifd) /\ Consistent(ifd) /\ ifd.bits \in Seq(Nat) /\ ifd.predictor \in BOOLEAN
          /\ NewImage(ifd) # "error"
      BY <1>2, IfdAssumption DEF SampleInv, FullInv, CauseInv, OnceInv
    <2>2. InFile = Bounds
      BY <1>2, <2>1, BlocksAsInFile DEF InFile, Bounds
    <2>3. IsRect(Bounds)
      BY <2>1, BoundsInt DEF IsRect, Bounds
    <2> DEFINE full == FileBits(ifd, InFile)
               Taken(cut) == BitsInFile(IF full > 8 * cut THEN full - 8 * cut ELSE 0)
    <2>4. PICK cut \in Cuts :
            LET bits == Taken(cut)
                raw  == FileSamples(ifd, Bounds, bits)
            IN  /\ ~ (ifd.predictor /\ PredictorFails(ifd, Bounds, bits))
                /\ data' = IF ifd.predictor THEN PredictorSums(ifd, Bounds, raw) ELSE raw
                /\ size' = bits /\ y' = Bounds.minY /\ cursor' = 0
      <3>1. ifd.offsets = Blocks(ifd)
        BY <1>5 DEF DataFits
      <3> QED
        BY <1>5, <2>2, <3>1 DEF DecodeBlock, Fail
    <2>5. size' \in Int /\ (size' <= FileBits(ifd, Bounds) \/ size' = 0)
      <3>1. size' \in Int
        BY <1>1, <1>5 DEF FullInv, CauseInv
      <3>2. size' = 0 \/ size' = full - 8 * cut
        BY <2>4 DEF BitsInFile
      <3>3. full \in Int
        BY <2>1, <2>2, <2>3, FileBitsInt
      <3>4. cut \in Nat
        BY CutsAssumption
      <3>5. full = FileBits(ifd, Bounds)
        BY <2>2
      <3> HIDE DEF full
      <3> QED
        BY <3>1, <3>2, <3>3, <3>4, <3>5
    <2>6. HoldsSamples'
      <3> SUFFICES ASSUME NEW x \in Bounds.minX .. Bounds.maxX - 1,
                          NEW v \in Bounds.minY .. Bounds.maxY - 1,
                          NEW c \in 1 .. FileChannels(ifd),
                          SampleStart(ifd, InFile, x, v, c) + FileDepth(ifd) <= size'
                   PROVE  /\ SampleStart(ifd, InFile, x, v, c) \in DOMAIN data'
                          /\ data'[SampleStart(ifd, InFile, x, v, c)] = Sample(x, v, c)
        BY <1>2, <1>4 DEF HoldsSamples
      <3> DEFINE k == SampleStart(ifd, Bounds, x, v, c)
                 raw == FileSamples(ifd, Bounds, size')
                 held == IF ifd.predictor THEN PredictorSums(ifd, Bounds, raw) ELSE raw
      <3>1. k + FileDepth(ifd) <= size'
        BY <2>2
      <3>2. data' = held /\ (ifd.predictor => ~ PredictorFails(ifd, Bounds, size'))
        BY <2>4
      <3>3. /\ SamplesRead(ifd) = FileChannels(ifd) /\ BitsRead(ifd) = FileDepth(ifd)
            /\ FileDepth(ifd) > 0 /\ (ifd.predictor => Channels(ifd) = FileChannels(ifd))
        BY <1>5 DEF DataFits, SamplesFit, SumsFit
      <3> DEFINE b == Bounds
                 bits == size'
      <3>4. x \in b.minX .. b.maxX - 1 /\ v \in b.minY .. b.maxY - 1
        OBVIOUS
      <3>5. k \in DOMAIN held /\ held[k] = Sample(x, v, c)
        <4> HIDE DEF b, bits
        <4> QED
          BY <2>1, <2>3, <2>5, <3>1, <3>2, <3>3, <3>4, BlockHolds DEF b, bits
      <3> QED
        BY <2>2, <3>2, <3>5
    <2>7. ReadsOn'
      <3>1. (y' - Bounds'.minY) * FileRowBits(ifd, InFile)' = 0
        <4>1. y' - Bounds'.minY = 0
          <5>1. y' = Bounds'.minY /\ Bounds'.minY \in Int
            BY <1>4, <2>3, <2>4 DEF IsRect
          <5> QED
            BY <5>1
        <4>2. FileRowBits(ifd, InFile)' \in Int
          <5>1. FileRowBits(ifd, InFile) \in Int
            BY <2>1, <2>2, <2>3, FileBitsInt
          <5> QED
            BY <1>2, <1>4, <5>1
        <4> QED
          BY <4>1, <4>2
      <3> QED
        BY <2>4, <3>1 DEF ReadsOn
    <2> QED
      BY <2>6, <2>7
  <1>6. DataFits' = DataFits
    BY <1>2 DEF DataFits, SamplesFit, SumsFit
  <1> QED
    BY <1>1, <1>3, <1>5, <1>6 DEF SampleInv

\* What a row writes was made from its samples, and what was written before stays.
LEMMA RowFromItsBlock ==
    ASSUME SampleInv, AtRow, DataFits, pixels' = RowWritten, UNCHANGED <<ifd, request, block>>,
           NEW at \in DOMAIN pixels, Written(at)'
    PROVE  FromItsBlock(at)'
  <1>1. OnceInv /\ pc = "rows"
    BY DEF SampleInv, FullInv, CauseInv, AtRow
  <1>2. CASE at[2] = y /\ at[1] + 1 - Bounds.minX \in Readable
    <2>1. pixels'[at] = PixelAt(at[1] + 1 - Bounds.minX)
      BY <1>2 DEF RowWritten
    <2>2. IsBlock(ifd, block[1], block[2]) /\ Within(InFile, at[1], at[2])
      <3>1. InBlock(at, block[1], block[2]) /\ InFile = Bounds
        BY <1>1, <1>2, RowInBlock, RowBits
      <3> QED
        BY <3>1 DEF InBlock, Bounds
    <2>3. RowsFit(InFile) => pixels'[at] = FromSamples(at)
      BY <1>2, <2>1, PixelRight
    <2>4. /\ RowsFit(FileBlock(ifd, block[1], block[2]))' = RowsFit(InFile)
          /\ FromSamples(at)' = FromSamples(at)
      BY DEF RowsFit, InFile, Addressed, FromSamples
    <2> QED
      BY <2>2, <2>3, <2>4 DEF FromItsBlock, IsBlock, InFile
  <1>3. CASE ~ (at[2] = y /\ at[1] + 1 - Bounds.minX \in Readable)
    <2>1. pixels'[at] = pixels[at]
      BY <1>3 DEF RowWritten
    <2>2. FromItsBlock(at)
      BY <2>1 DEF SampleInv, Written
    <2>3. FromSamples(at)' = FromSamples(at) /\ \A b : RowsFit(b)' = RowsFit(b)
      BY DEF FromSamples, RowsFit, Addressed
    <2> QED
      BY <2>1, <2>2, <2>3 DEF FromItsBlock
  <1> QED
    BY <1>2, <1>3

\* No byte of a row is lost: the next row begins where this one ends.
LEMMA RowReadsOn ==
    ASSUME SampleInv, DecodeRow, DataFits
    PROVE  ReadsOn'
  <1>1. /\ OnceInv /\ FullInv /\ AtRow /\ pc = "rows" /\ y' = y + 1
        /\ UNCHANGED <<ifd, request, image, block>> /\ cursor \in Int
        /\ cursor' = IF Addressed(ifd) THEN cursor ELSE 8 * DivUp(PixelEnd(RowWidth), 8)
    BY DEF DecodeRow, SampleInv, FullInv, CauseInv, AtRow
  <1>2. Bounds' = Bounds /\ InFile' = InFile /\ InFile = Bounds
    BY <1>1, RowBits DEF Bounds, InFile
  <1>3. /\ Bounds.minX \in Int /\ Bounds.minY \in Int /\ Bounds.maxX \in Int
        /\ ifd.width \in Int /\ y \in Int /\ ifd.bits \in Seq(Nat)
    BY <1>1, IfdAssumption, RowsEnd DEF OnceInv, IsLayout
  <1> DEFINE lo == Bounds.minX
             hi == Bounds.maxX
             b == PixelBits(ifd)
             d == y - Bounds.minY
             n == RowWidth
             right == Lesser(hi, ifd.width)
  <1>4. n = right - lo
    <2>1. image.bounds.maxX = ifd.width \/ image.bounds.maxX = hi
      <3>1. request = WholeImage => image.bounds = Rect(0, 0, ifd.width, ifd.height)
        BY <1>1 DEF FullInv
      <3>2. request # WholeImage => image.bounds = Bounds
        BY <1>1 DEF FullInv
      <3> QED
        BY <3>1, <3>2 DEF Rect
    <2>2. n = Lesser(Lesser(hi, image.bounds.maxX), ifd.width) - lo
      BY DEF RowWidth, RMaxX
    <2> HIDE DEF hi, lo, n
    <2>3. hi \in Int
      BY <1>3 DEF hi
    <2>4. Lesser(Lesser(hi, image.bounds.maxX), ifd.width) = Lesser(hi, ifd.width)
      BY <1>3, <2>1, <2>3 DEF Lesser
    <2> QED
      BY <2>2, <2>4
  <1> SUFFICES ASSUME ~ Addressed(ifd), RowsFit(InFile)
               PROVE  cursor' = (y' - Bounds.minY) * FileRowBits(ifd, InFile)
    BY <1>1, <1>2 DEF ReadsOn, RowsFit, Addressed
  <1>5. cursor = d * FileRowBits(ifd, InFile)
    BY <1>1 DEF SampleInv, ReadsOn
  <1> DEFINE r == DivUp((hi - lo) * b, 8)
  <1>6. FileRowBits(ifd, InFile) = 8 * r /\ DivUp(n * b, 8) = r
    <2>1. DivUp((right - lo) * b, 8) = DivUp((hi - lo) * b, 8)
      BY <1>2 DEF RowsFit
    <2>2. (hi - lo) * FileChannels(ifd) * FileDepth(ifd) = (hi - lo) * b
      <3>1. FileChannels(ifd) \in Int /\ FileDepth(ifd) \in Int /\ hi - lo \in Int
        BY <1>3, BitsNat
      <3>2. b = FileChannels(ifd) * FileDepth(ifd)
        BY DEF DataFits, SamplesFit, PixelBits
      <3>3. \A u, v, w \in Int : u * v * w = u * (v * w)
        BY SMT
      <3> HIDE DEF hi, lo, b
      <3> QED
        BY <3>1, <3>2, <3>3
    <2>3. FileRowBits(ifd, InFile) = 8 * DivUp((hi - lo) * b, 8)
      BY <1>2, <2>2 DEF FileRowBits
    <2> QED
      BY <1>4, <2>1, <2>3
  <1>7. cursor' = 8 * DivUp(d * (8 * r) + n * b, 8)
    BY <1>1, <1>5, <1>6 DEF PixelEnd, RowStart
  <1>8. d \in Int /\ y' - Bounds.minY = d + 1
    <2> HIDE DEF Bounds
    <2> QED
      BY <1>1, <1>3
  <1>9. n * b \in Int /\ (hi - lo) * b \in Int
    <2>1. b \in Int /\ n \in Int /\ hi - lo \in Int
      BY <1>1, <1>3, BitsNat, RowThere
    <2> HIDE DEF hi, lo, b, n
    <2> QED
      BY <2>1, SMT
  <1>10. r \in Int
    BY <1>9, BytesHold
  <1> DEFINE nb == n * b
  <1> HIDE DEF r, d, n, b, nb
  <1>11. DivUp(d * (8 * r) + nb, 8) = d * r + DivUp(nb, 8)
    <2>1. nb \in Int /\ d * r \in Int /\ d * (8 * r) = 8 * (d * r)
      BY <1>8, <1>9, <1>10, SMT DEF nb
    <2>2. \A u, v \in Int : DivUp(8 * u + v, 8) = u + DivUp(v, 8)
      BY SMT DEF DivUp
    <2> QED
      BY <2>1, <2>2
  <1>12. cursor' = 8 * (d * r + r)
    BY <1>6, <1>7, <1>11 DEF nb
  <1>13. 8 * (d * r + r) = (d + 1) * (8 * r)
    BY <1>8, <1>10, SMT
  <1> QED
    BY <1>6, <1>8, <1>12, <1>13

\* A row that is there as a whole.
LEMMA SampleRow ==
    ASSUME SampleInv, DecodeRow
    PROVE  SampleInv'
  <1>1. FullInv'
    BY FullNext DEF SampleInv, Next
  <1>2. /\ AtRow /\ pc = "rows" /\ pixels' = RowWritten
        /\ UNCHANGED <<ifd, request, pc, image, block, data, size>>
    BY DEF DecodeRow, AtRow
  <1>3. DataFits' = DataFits /\ DOMAIN pixels' = DOMAIN pixels
    BY <1>2 DEF DataFits, SamplesFit, SumsFit, RowWritten
  <1>4. DataFits => HoldsSamples'
    BY <1>2 DEF SampleInv, HoldsSamples, Bounds, InFile
  <1>5. DataFits => ReadsOn'
    BY RowReadsOn
  <1>6. DataFits => \A at \in DOMAIN pixels : Written(at)' => FromItsBlock(at)'
    BY <1>2, RowFromItsBlock
  <1> QED
    BY <1>1, <1>3, <1>4, <1>5, <1>6 DEF SampleInv

LEMMA SampleNext ==
    ASSUME SampleInv, [Next]_vars
    PROVE  SampleInv'
  <1>1. FullInv'
    BY FullNext DEF SampleInv
  <1>2. CASE DecodeImage \/ DecodeImageBlock
    BY <1>2, SampleAllocate
  <1>3. CASE DecodeBlock
    BY <1>3, SampleBlock
  <1>4. CASE DecodeRow
    BY <1>4, SampleRow
  <1>5. CASE RowTooShort
    <2>1. /\ AtRow /\ pixels' = RowWritten /\ pc' # "rows" /\ UNCHANGED <<ifd, request, block>>
      BY <1>5 DEF RowTooShort
    <2>2. DataFits' = DataFits /\ DOMAIN pixels' = DOMAIN pixels
      BY <2>1 DEF DataFits, SamplesFit, SumsFit, RowWritten
    <2>3. DataFits => \A at \in DOMAIN pixels : Written(at)' => FromItsBlock(at)'
      BY <2>1, RowFromItsBlock
    <2> QED
      BY <1>1, <2>1, <2>2, <2>3 DEF SampleInv
  <1>6. CASE DecodeBlockFails \/ DivideByZero \/ NextBlock
    <2>1. pc' # "rows" /\ ifd' = ifd /\ pixels' = pixels
      BY <1>6 DEF DecodeBlockFails, DivideByZero, NextBlock, Fail
    <2> QED
      BY <1>1, <2>1, PixelsStay DEF SampleInv
  <1>7. CASE UNCHANGED vars
    <2>1. /\ ifd' = ifd /\ pixels' = pixels
          /\ UNCHANGED <<pc, block, data, size, y, cursor>>
      BY <1>7 DEF vars
    <2>2. DataFits' = DataFits /\ HoldsSamples' = HoldsSamples /\ ReadsOn' = ReadsOn
      BY <2>1 DEF DataFits, SamplesFit, SumsFit, HoldsSamples, ReadsOn, RowsFit, Addressed,
                  Bounds, InFile
    <2> QED
      BY <1>1, <2>1, <2>2, PixelsStay DEF SampleInv
  <1> QED
    BY <1>2, <1>3, <1>4, <1>5, <1>6, <1>7 DEF Next

\* decodeBlock, decodePredictor, BlockBounds: every pixel that is written is made from its own
\* samples, whole, in their order and undone of the predictor, for every size of image, tile and
\* strip, every format and data of any length, except where the code loses the rows of a block.
THEOREM PixelsFromTheirSamplesThm == Spec => []PixelsFromTheirSamples
  <1>1. Init => SampleInv
    BY SampleInit
  <1>2. SampleInv /\ [Next]_vars => SampleInv'
    BY SampleNext
  <1>3. SampleInv => PixelsFromTheirSamples
    BY DEF SampleInv, DataFits, Written, FromItsBlock, PixelsFromTheirSamples
  <1> QED
    BY <1>1, <1>2, <1>3, PTL DEF Spec
=============================================================================
