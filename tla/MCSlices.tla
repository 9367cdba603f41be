------------------------------ MODULE MCSlices ------------------------------
(***************************************************************************)
(* What is stored in Go slices that grow, move or are shared: the buffer of*)
(* the buffering writer, given short and longer writes of bytes that can be*)
(* told apart, and the pixels of images of up to two by two pixels, some   *)
(* off the origin.  A behaviour is one of the two.                         *)
(***************************************************************************)
EXTENDS SeekWriter, MemPImage

VARIABLE what    \* "writer" or "images"

MCData == {<<1>>, <<2>>, <<1, 2>>, <<2, 2, 1>>}

Rectangle(x0, y0, x1, y1) == [x0 |-> x0, y0 |-> y0, x1 |-> x1, y1 |-> y1]

MCRects == {Rectangle(0, 0, 2, 2), Rectangle(1, 0, 2, 2)}

\* The lower right pixel, the last row, and a rectangle outside.
MCCuts == {Rectangle(1, 1, 3, 3), Rectangle(0, 1, 2, 2), Rectangle(4, 0, 5, 1)}

MCKinds == {<<1, 1>>, <<2, 1>>, <<4, 1>>, <<1, 2>>, <<2, 2>>, <<4, 2>>}

\* A gray, one whose bytes all differ, and one that fits into bytes.
MCColours ==
    {[r |-> <<1, 2>>, g |-> <<1, 2>>, b |-> <<1, 2>>, a |-> <<255, 255>>],
     [r |-> <<1, 2>>, g |-> <<3, 4>>, b |-> <<5, 6>>, a |-> <<7, 8>>],
     [r |-> <<0, 2>>, g |-> <<0, 4>>, b |-> <<0, 6>>, a |-> <<0, 8>>]}

slices == <<wvars, ivars, what>>

SlicesInit == WInit /\ IInit /\ what \in {"writer", "images"}

SlicesNext ==
    /\ \/ what = "writer" /\ WNext /\ UNCHANGED ivars
       \/ what = "images" /\ INext /\ UNCHANGED wvars
    /\ UNCHANGED what

SlicesSpec == SlicesInit /\ [][SlicesNext]_slices
=============================================================================
