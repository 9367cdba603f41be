------------------------------- MODULE FaxG4 -------------------------------
(***************************************************************************)
(* The Group 4 decoder of internal/fax.  A row is coded by where its       *)
(* colours change, relative to the row before it: the decoder keeps only   *)
(* the pixels so far and what it takes the next pixel's colour to be.  The *)
(* encoder is external: one that follows ITU-T T.6, except that it may     *)
(* take any mode that applies.  The stream is a string of bits; a step of  *)
(* the decoder is one mode.                                                *)
(***************************************************************************)
EXTENDS CodedStream, FaxRuns

VARIABLES
    columns,    \* the width of a row
    pixels,     \* the rows decoded, after an imaginary white one
    atNewLine,  \* a0 is before the beginning of a line
    color,      \* the colour at a0
    fresh       \* the encoder's a0 is before the beginning of a line

faxVars == <<columns, pixels, atNewLine, color, fresh>>

WhiteRow(w) == [i \in 1 .. w |-> White]

FaxInit(w) ==
    /\ columns = w /\ pixels = WhiteRow(w)
    /\ atNewLine = TRUE /\ color = White /\ fresh = TRUE

\* The codes of the modes, vertical ones by how far right of b1 they are.
PassCode       == <<0, 0, 0, 1>>
HorizontalCode == <<0, 0, 1>>
VerticalCode(d) ==
    CASE d = 0  -> <<1>>
      [] d = 1  -> <<0, 1, 1>>             [] d = -1 -> <<0, 1, 0>>
      [] d = 2  -> <<0, 0, 0, 0, 1, 1>>    [] d = -2 -> <<0, 0, 0, 0, 1, 0>>
      [] d = 3  -> <<0, 0, 0, 0, 0, 1, 1>> [] d = -3 -> <<0, 0, 0, 0, 0, 1, 0>>
ExtensionCode  == <<0, 0, 0, 0, 0, 0, 1>>
EndOfFacsimile == ToBits(1, 12) \o ToBits(1, 12)

\* The first of the places from .. to - 1 in row with that colour, or to.
FirstOf(row, from, to, c) ==
    LET scan[b \in 0 .. to] == IF b = to \/ row[b + 1] = c THEN b ELSE scan[b + 1] IN scan[from]

-----------------------------------------------------------------------------
\* The modes that apply at place a0 of a row, with the place each leads to; over is the row
\* above, and the first colour is shade.
ModesAt(row, over, a0, shade) ==
    LET a1 == FirstOf(row, a0, columns, Flip(shade))
        a2 == FirstOf(row, a1, columns, shade)
        b0 == IF fresh THEN a0 ELSE FirstOf(over, a0, columns, shade)
        b1 == FirstOf(over, b0, columns, Flip(shade))
        b2 == FirstOf(over, b1, columns, shade)
    IN  IF b2 < a1 THEN {<<b2, PassCode>>}
        ELSE {<<a1, VerticalCode(d)>> : d \in {a1 - b1} \cap -3 .. 3}
             \cup {<<a2, HorizontalCode \o RunBits(a1 - a0, shade) \o RunBits(a2 - a1, Flip(shade))>>}

EncodeMode ==
    /\ todo # <<>> /\ Encoding
    /\ LET all   == WhiteRow(columns) \o input
           start == ((Len(input) - Len(todo)) \div columns) * columns
           a0    == Len(input) - Len(todo) - start
           over  == SubSeq(all, start + 1, start + columns)
           row   == SubSeq(input, start + 1, start + columns)
       IN  \E mode \in ModesAt(row, over, a0, IF fresh THEN White ELSE row[a0 + 1]) :
               /\ todo' = SubSeq(todo, mode[1] - a0 + 1, Len(todo))
               /\ fresh' = (mode[1] = columns)
               /\ stream' = stream \o mode[2]
    /\ UNCHANGED <<closed, lost, columns, pixels, atNewLine, color>>

EncodeEndOfFacsimile ==
    todo = <<>> /\ Close(stream \o EndOfFacsimile, 8) /\ UNCHANGED faxVars

-----------------------------------------------------------------------------
\* The pixels that are returned: all but the imaginary row.
Stripped(p) == SubSeq(p, columns + 1, Len(p))

\* pop drops n bits, if a whole end-of-facsimile block, 24 bits, is left after them.
CanPop(n) == Len(stream) - n >= 24
Drop(n)   == SubSeq(stream, n + 1, Len(stream))

\* What becomes of the stream and of Decode when a mode ends with or without an error.
Proceed(rest) == stream' = rest /\ UNCHANGED <<received, result>>
Fail          == result' = "error" /\ received' = Stripped(pixels') /\ UNCHANGED stream

\* Here is the place of the next pixel; B1 and B2 are looked for in the row above it.
Here      == Len(pixels)
LineStart == (Here \div columns) * columns

\* Mutant: b1 is looked for as at the beginning of a line.
B1AtLineStart == FirstOf(pixels, Here - columns, LineStart, Flip(color))

\* The first changing place above, right of a0 and of the other colour, and the next one.
B1 ==
    LET from == IF atNewLine THEN Here - columns
                ELSE FirstOf(pixels, Here - columns, LineStart, color)
    IN  FirstOf(pixels, from, LineStart, Flip(color))

B2 == FirstOf(pixels, B1, LineStart, color)

Paint(n, c) == pixels' = pixels \o [i \in 1 .. n |-> c]

\* a0 is now below b, of colour c unless that is the end of the row.
GoTo(b, c) ==
    IF b >= LineStart THEN atNewLine' = TRUE /\ color' = White
    ELSE atNewLine' = FALSE /\ color' = c

Upcoming(code) == IsPrefix(code, stream)

\* parsePixels goes on as long as one of the next seven bits is set.
Parsing == Reading /\ columns > 0 /\ Len(stream) >= 24 /\ ~ Upcoming(ToBits(0, 7))

Pass ==
    /\ Parsing /\ Upcoming(PassCode)
    /\ IF CanPop(4)
       THEN GoTo(B2, color) /\ Paint(B2 - Here + columns, color) /\ Proceed(Drop(4))
       ELSE UNCHANGED <<pixels, atNewLine, color>> /\ Fail

Vertical(d) ==
    /\ Parsing /\ Upcoming(VerticalCode(d))
    /\ LET b     == IF B1 + d > LineStart THEN LineStart ELSE B1 + d
           count == b - Here + columns
       IN  GoTo(b, Flip(color)) /\ Paint(IF count > 0 THEN count ELSE 0, color)
    /\ LET n == Len(VerticalCode(d)) IN IF CanPop(n) THEN Proceed(Drop(n)) ELSE Fail

\* Mutant: a second run that just fills the row does not end it.
FillsStrictly(run, remaining) == run > remaining

\* The second run reaches the end of the row.
Fills(run, remaining) == run >= remaining

Horizontal ==
    /\ Parsing /\ Upcoming(HorizontalCode)
    /\ IF ~ CanPop(3) THEN UNCHANGED <<pixels, atNewLine, color>> /\ Fail
       ELSE \E one \in {RunLength(stream, 3, color)} :
            \E two \in {IF one.ok THEN RunLength(stream, one.at, Flip(color)) ELSE [one EXCEPT !.count = 0]} :
            LET remaining == columns - (Here % columns)
                rl1       == IF one.count > remaining THEN remaining ELSE one.count
                rl2       == IF Fills(two.count, remaining - rl1) THEN remaining - rl1 ELSE two.count
            IN  /\ pixels' = pixels \o [i \in 1 .. rl1 + rl2 |-> IF i <= rl1 THEN color ELSE Flip(color)]
                /\ IF Fills(two.count, remaining - rl1) THEN atNewLine' = TRUE /\ color' = White
                   ELSE atNewLine' = FALSE /\ UNCHANGED color
                /\ IF two.ok THEN Proceed(Drop(two.at)) ELSE Fail

\* Uncompressed mode and every other extension: there is none that is supported.
Extension ==
    Parsing /\ Upcoming(ExtensionCode) /\ UNCHANGED <<pixels, atNewLine, color>> /\ Fail

\* DecodeG4Pixels: too little data for an end-of-facsimile block, or a width that is not positive.
NothingToParse ==
    /\ Reading /\ UNCHANGED <<pixels, atNewLine, color, stream, received>>
    /\ \/ columns = 0 /\ result' = "ok"
       \/ columns < 0 /\ result' = "error"
       \/ columns > 0 /\ Len(stream) < 24 /\ result' = "error"

EndOfParsing ==
    /\ Reading /\ columns > 0 /\ Len(stream) >= 24 /\ Upcoming(ToBits(0, 7))
    /\ result' = "ok" /\ received' = Stripped(pixels)
    /\ UNCHANGED <<pixels, atNewLine, color, stream>>

FaxStep ==
    \/ Pass \/ Horizontal \/ Extension \/ (\E d \in -3 .. 3 : Vertical(d))
    \/ NothingToParse \/ EndOfParsing

FaxNext == EncodeMode \/ EncodeEndOfFacsimile \/ (FaxStep /\ UNCHANGED <<columns, fresh>>)

-----------------------------------------------------------------------------
\* Whatever the data, rows stay aligned: no mode paints across the end of a row, one that
\* completes it puts a0 before a new white line, and a0 is there only between rows.
FaxRowsAligned ==
    /\ [](atNewLine => color = White /\ (columns > 0 => Len(pixels) % columns = 0))
    /\ [][columns > 0 /\ Len(pixels') >= LineStart + columns
            => atNewLine' /\ Len(pixels') = LineStart + columns]_<<columns, pixels, atNewLine, color>>
=============================================================================
