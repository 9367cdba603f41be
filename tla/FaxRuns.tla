------------------------------ MODULE FaxRuns ------------------------------
(***************************************************************************)
(* The codes of run lengths in Group 4 data, as the lookup tables of       *)
(* internal/fax/read.go hold them: each is a pair of length and value, in  *)
(* the order of the runs 0, 1, ..., 63, 64, 128, 192, ...                  *)
(***************************************************************************)
EXTENDS Integers, Sequences, SequencesExt

WhiteRuns == <<
    <<8, 53>>, <<6, 7>>, <<4, 7>>, <<4, 8>>, <<4, 11>>, <<4, 12>>, <<4, 14>>, <<4, 15>>,
    <<5, 19>>, <<5, 20>>, <<5, 7>>, <<5, 8>>, <<6, 8>>, <<6, 3>>, <<6, 52>>, <<6, 53>>, <<6, 42>>,
    <<6, 43>>, <<7, 39>>, <<7, 12>>, <<7, 8>>, <<7, 23>>, <<7, 3>>, <<7, 4>>, <<7, 40>>,
    <<7, 43>>, <<7, 19>>, <<7, 36>>, <<7, 24>>, <<8, 2>>, <<8, 3>>, <<8, 26>>, <<8, 27>>,
    <<8, 18>>, <<8, 19>>, <<8, 20>>, <<8, 21>>, <<8, 22>>, <<8, 23>>, <<8, 40>>, <<8, 41>>,
    <<8, 42>>, <<8, 43>>, <<8, 44>>, <<8, 45>>, <<8, 4>>, <<8, 5>>, <<8, 10>>, <<8, 11>>,
    <<8, 82>>, <<8, 83>>, <<8, 84>>, <<8, 85>>, <<8, 36>>, <<8, 37>>, <<8, 88>>, <<8, 89>>,
    <<8, 90>>, <<8, 91>>, <<8, 74>>, <<8, 75>>, <<8, 50>>, <<8, 51>>, <<8, 52>>, <<5, 27>>,
    <<5, 18>>, <<6, 23>>, <<7, 55>>, <<8, 54>>, <<8, 55>>, <<8, 100>>, <<8, 101>>, <<8, 104>>,
    <<8, 103>>, <<9, 204>>, <<9, 205>>, <<9, 210>>, <<9, 211>>, <<9, 212>>, <<9, 213>>,
    <<9, 214>>, <<9, 215>>, <<9, 216>>, <<9, 217>>, <<9, 218>>, <<9, 219>>, <<9, 152>>,
    <<9, 153>>, <<9, 154>>, <<6, 24>>, <<9, 155>> >>

BlackRuns == <<
    <<10, 55>>, <<3, 2>>, <<2, 3>>, <<2, 2>>, <<3, 3>>, <<4, 3>>, <<4, 2>>, <<5, 3>>, <<6, 5>>,
    <<6, 4>>, <<7, 4>>, <<7, 5>>, <<7, 7>>, <<8, 4>>, <<8, 7>>, <<9, 24>>, <<10, 23>>, <<10, 24>>,
    <<10, 8>>, <<11, 103>>, <<11, 104>>, <<11, 108>>, <<11, 55>>, <<11, 40>>, <<11, 23>>,
    <<11, 24>>, <<12, 202>>, <<12, 203>>, <<12, 204>>, <<12, 205>>, <<12, 104>>, <<12, 105>>,
    <<12, 106>>, <<12, 107>>, <<12, 210>>, <<12, 211>>, <<12, 212>>, <<12, 213>>, <<12, 214>>,
    <<12, 215>>, <<12, 108>>, <<12, 109>>, <<12, 218>>, <<12, 219>>, <<12, 84>>, <<12, 85>>,
    <<12, 86>>, <<12, 87>>, <<12, 100>>, <<12, 101>>, <<12, 82>>, <<12, 83>>, <<12, 36>>,
    <<12, 55>>, <<12, 56>>, <<12, 39>>, <<12, 40>>, <<12, 88>>, <<12, 89>>, <<12, 43>>,
    <<12, 44>>, <<12, 90>>, <<12, 102>>, <<12, 103>>, <<10, 15>>, <<12, 200>>, <<12, 201>>,
    <<12, 91>>, <<12, 51>>, <<12, 52>>, <<12, 53>>, <<13, 108>>, <<13, 109>>, <<13, 74>>,
    <<13, 75>>, <<13, 76>>, <<13, 77>>, <<13, 114>>, <<13, 115>>, <<13, 116>>, <<13, 117>>,
    <<13, 118>>, <<13, 119>>, <<13, 82>>, <<13, 83>>, <<13, 84>>, <<13, 85>>, <<13, 90>>,
    <<13, 91>>, <<13, 100>>, <<13, 101>> >>

LongRuns == <<
    <<11, 8>>, <<11, 12>>, <<11, 13>>, <<12, 18>>, <<12, 19>>, <<12, 20>>, <<12, 21>>, <<12, 22>>,
    <<12, 23>>, <<12, 28>>, <<12, 29>>, <<12, 30>>, <<12, 31>> >>

White == 1
Black == 0
Flip(color) == 1 - color

\* A code as w bits, the most significant one first, and back.
ToBits(code, w) == LET first[i \in 0 .. w] == IF i = w THEN code ELSE first[i + 1] \div 2
                   IN  [i \in 1 .. w |-> first[i] % 2]
FromBits(bits)  == LET first[i \in 0 .. Len(bits)] == IF i = 0 THEN 0 ELSE 2 * first[i - 1] + bits[i]
                   IN  first[Len(bits)]

\* The codes that runLength looks for, the i-th of which is for a run of RunAt(i).
WhiteCodes == WhiteRuns \o LongRuns
BlackCodes == BlackRuns \o LongRuns
RunAt(i)   == IF i <= 64 THEN i - 1 ELSE 64 * (i - 64)
CodeOf(n, color) ==
    LET i == IF n < 64 THEN n + 1 ELSE n \div 64 + 64
        c == IF color = White THEN WhiteCodes[i] ELSE BlackCodes[i]
    IN  ToBits(c[2], c[1])

\* Which code the bits go on with after the first i, of which 13 or more are left; 0 if none.
CodeAt(bits, i, codes) ==
    LET value[n \in 0 .. 13] == IF n = 0 THEN 0 ELSE 2 * value[n - 1] + bits[i + n]
    IN  CHOOSE k \in 0 .. Len(codes) :
            IF k = 0 THEN \A j \in DOMAIN codes : codes[j][2] # value[codes[j][1]]
            ELSE codes[k][2] = value[codes[k][1]]

\* runLength, after the first i bits, 24 or more before the end: makeup codes up to a
\* terminating one; a code that is not in the table counts nothing and ends it.  After every
\* code a whole end-of-facsimile block must be left, 24 bits; else it is not popped, though
\* it counts.
RunLength(bits, i, color) ==
    LET codes == IF color = White THEN WhiteCodes ELSE BlackCodes
        from[at \in 0 .. Len(bits)] ==
            LET k    == CodeAt(bits, at, codes)
                next == at + codes[k][1]
            IN  IF k = 0 THEN [count |-> 0, at |-> at, ok |-> TRUE]
                ELSE IF Len(bits) - next < 24 THEN [count |-> RunAt(k), at |-> at, ok |-> FALSE]
                ELSE IF RunAt(k) < 64 THEN [count |-> RunAt(k), at |-> next, ok |-> TRUE]
                ELSE [from[next] EXCEPT !.count = @ + RunAt(k)]
    IN  from[i]

\* What an encoder writes for a run: 2560 as often as it fits, a makeup code, and the rest.
RunBits(run, color) ==
    LET from[n \in 0 .. run] ==
            IF n < 64 THEN CodeOf(n, color)
            ELSE LET most == IF n > 2560 THEN 2560 ELSE 64 * (n \div 64)
                 IN  CodeOf(most, color) \o from[n - most]
    IN  from[run]
=============================================================================
