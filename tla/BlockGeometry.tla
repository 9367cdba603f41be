---------------------------- MODULE BlockGeometry ----------------------------
(***************************************************************************)
(* Where the blocks of an image lie (tiff_ifd_block.go): the tiles, all of *)
(* one size and reaching over the right and the lower edge, or the strips, *)
(* as wide as the image, the last one cut off at the lower edge.           *)
(*                                                                         *)
(* A layout holds what the tag getters return for the tags these functions *)
(* look at: zero for a tag that is missing, "tiled" whether TileWidth is   *)
(* there.  Rectangles are half open, like Go's.                            *)
(***************************************************************************)
EXTENDS Integers

IsLayout(p) ==
    /\ p.width \in Nat /\ p.height \in Nat /\ p.tiled \in BOOLEAN
    /\ p.tileWidth \in Nat /\ p.tileLength \in Nat /\ p.rowsPerStrip \in Nat

Rect(x0, y0, x1, y1) == [minX |-> x0, minY |-> y0, maxX |-> x1, maxY |-> y1]

Within(b, x, y) == x \in b.minX .. b.maxX - 1 /\ y \in b.minY .. b.maxY - 1

DivUp(n, d) == (n + d - 1) \div d

BlocksAcross(p) ==
    IF p.width = 0 THEN 0
    ELSE IF p.tileWidth > 0 THEN DivUp(p.width, p.tileWidth) ELSE 1

\* Mutant: the rows that do not fill a block are forgotten.
BlocksDownFloor(p) ==
    IF p.height = 0 THEN 0
    ELSE IF p.tileLength > 0 THEN p.height \div p.tileLength
    ELSE IF p.rowsPerStrip = 0 \/ p.rowsPerStrip > p.height THEN 1
    ELSE p.height \div p.rowsPerStrip

BlocksDown(p) ==
    IF p.height = 0 THEN 0
    ELSE IF p.tileLength > 0 THEN DivUp(p.height, p.tileLength)
    ELSE IF p.rowsPerStrip = 0 \/ p.rowsPerStrip > p.height THEN 1
    ELSE DivUp(p.height, p.rowsPerStrip)

IsBlock(p, col, row) == col \in 0 .. BlocksAcross(p) - 1 /\ row \in 0 .. BlocksDown(p) - 1

TileBounds(p, col, row) ==
    Rect(col * p.tileWidth, row * p.tileLength,
         col * p.tileWidth + p.tileWidth, row * p.tileLength + p.tileLength)

StripBounds(p, col, row) ==
    LET strip == IF p.rowsPerStrip = 0 THEN p.height ELSE p.rowsPerStrip
        last  == row = BlocksDown(p) - 1 /\ p.height % strip # 0
        rows  == IF last THEN p.height % strip ELSE strip
    IN  Rect(col * p.width, row * strip, col * p.width + p.width, row * strip + rows)

\* Mutant: the blocks after the first reach a row into their predecessors.
BlockBoundsOverlap(p, col, row) ==
    LET b == IF p.tiled THEN TileBounds(p, col, row) ELSE StripBounds(p, col, row)
    IN  IF row > 0 THEN [b EXCEPT !.minY = @ - 1] ELSE b

BlockBounds(p, col, row) ==
    IF ~ IsBlock(p, col, row) THEN Rect(0, 0, 0, 0)
    ELSE IF p.tiled THEN TileBounds(p, col, row)
    ELSE StripBounds(p, col, row)

\* The blocks can be used: a tile has a size in both directions.
Proper(p) == p.tiled => p.tileWidth > 0 /\ p.tileLength > 0

\* As ImageType insists, the tile tags come together.
Consistent(p) == ~ p.tiled => p.tileWidth = 0 /\ p.tileLength = 0
=============================================================================
