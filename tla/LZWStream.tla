----------------------------- MODULE LZWStream -----------------------------
(***************************************************************************)
(* The decoder of lzw_reader.go on the streams it is written for: those of *)
(* a TIFF encoder "off by one" as libtiff's is (lzw_reader.go:18-36).  The *)
(* encoder is external; what is in between is a string of bits, which the  *)
(* decoder cuts into codes at the width it believes in (readMSB).          *)
(***************************************************************************)
EXTENDS LZWDecoder, CodedStream, FaxRuns

\* An encoder that clears its table one entry before the last needs one that holds a few.
ASSUME EncoderAssumption == LitWidth + 2 <= MaxWidth

VARIABLES
    strings,    \* the encoder's table: the strings of the codes Eof + 1, Eof + 2, ...
    ewidth      \* the width it writes codes in

lzwEncoder == <<strings, ewidth>>

\* The codes whose strings the rest of the input starts with; the encoder takes the longest.
StringOf(code)   == IF code < Clear THEN <<code>> ELSE strings[code - Eof]
Candidates       == {todo[1]} \cup {c \in Eof + 1 .. Eof + Len(strings) : IsPrefix(StringOf(c), todo)}
Longest          == CHOOSE c \in Candidates :
                        \A d \in Candidates : Len(StringOf(d)) <= Len(StringOf(c))

\* newLzwReader; a stream starts with a clear code.
LZWInit == DInit /\ strings = <<>> /\ ewidth = LitWidth + 1

LZWBegin == ToBits(Clear, LitWidth + 1)

\* The table is cleared one entry before the last; else the width grows as soon as the
\* next entry needs it.
EncodeString ==
    /\ todo # <<>> /\ Encoding
    /\ LET string == StringOf(Longest)
           rest   == SubSeq(todo, Len(string) + 1, Len(todo))
           grown  == Append(strings, IF rest = <<>> THEN string ELSE Append(string, rest[1]))
           next   == Eof + Len(grown) + 1
           coded  == stream \o ToBits(Longest, ewidth)
       IN  /\ todo' = rest
           /\ IF next = TableSize - 2
              THEN strings' = <<>> /\ ewidth' = LitWidth + 1 /\ stream' = coded \o ToBits(Clear, ewidth)
              ELSE strings' = grown /\ stream' = coded
                   /\ ewidth' = IF next >= Pow2[ewidth] THEN ewidth + 1 ELSE ewidth
    /\ UNCHANGED <<dvars, closed, lost>>

\* The EOF code.
EncodeEnd == todo = <<>> /\ Close(stream \o ToBits(Eof, ewidth), ByteSize) /\ UNCHANGED <<dvars, lzwEncoder>>

\* readMSB takes the next width bits for a code.
ReadCode ==
    /\ Reading /\ Len(stream) >= width
    /\ Decode(FromBits(SubSeq(stream, 1, width)))
    /\ stream' = SubSeq(stream, width + 1, Len(stream))
    /\ UNCHANGED <<lzwEncoder, received, result>>

\* ... and fails when the bytes run out first.
ReadPastEnd ==
    /\ Reading /\ Len(stream) < width
    /\ EndOfInput
    /\ UNCHANGED <<lzwEncoder, stream, received, result>>

\* ReadAll calls Read with some room or other.
Receive ==
    /\ Reading
    /\ \E n \in RoomSizes :
           LET k == IF n < Len(toRead) THEN n ELSE Len(toRead)
           IN  Read(k) /\ received' = received \o SubSeq(toRead, 1, k)
    /\ UNCHANGED <<lzwEncoder, stream, result>>

\* An empty buffer and an error end it; the error io.EOF is none.
ReadAllEnds ==
    /\ Reading /\ toRead = <<>> /\ derr # "none"
    /\ result' = IF derr = "eof" THEN "ok" ELSE "error"
    /\ UNCHANGED <<dvars, lzwEncoder, stream, received>>

LZWNext == EncodeString \/ EncodeEnd \/ ReadCode \/ ReadPastEnd \/ Receive \/ ReadAllEnds
=============================================================================
