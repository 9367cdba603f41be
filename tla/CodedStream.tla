----------------------------- MODULE CodedStream -----------------------------
(***************************************************************************)
(* Data on its way through an encoder, which is external, and a decoder of *)
(* compress.go.  The encoder writes the whole stream, of which the end may *)
(* get lost; then Decode reads it.                                         *)
(***************************************************************************)
EXTENDS Integers, Sequences, SequencesExt

CONSTANTS
    ByteSize,   \* bits in a byte
    Cuts        \* how many bytes of the stream may be missing

ASSUME CutsAssumption == Cuts \subseteq Nat
ASSUME ByteSizeAssumption == ByteSize \in Nat \ {0}

VARIABLES
    method,     \* the TagValue_CompressionType
    input,      \* what the encoder was given
    todo,       \* what it has not encoded yet
    closed,     \* it is done
    lost,       \* the bytes missing at the end of the stream
    stream,     \* written and not yet read: bits, or bytes where the coding has none shorter
    received,   \* the data that Decode returns
    result      \* "none" as long as Decode works; then "ok", or "error"

codedVars == <<method, input, todo, closed, lost, stream, received, result>>

CodedInit(how, what, begin, whole) ==
    /\ method = how /\ input = what /\ todo = what
    /\ closed = whole /\ lost = 0 /\ stream = begin
    /\ received = <<>> /\ result = "none"

\* The encoder's part of a step, and the decoder's.
Encoding == UNCHANGED <<method, input, received, result>>
Reading  == closed /\ result = "none" /\ UNCHANGED <<method, input, todo, closed, lost>>

\* The last of the stream is written, units at a byte; some bytes of it may get lost.
Close(all, units) ==
    /\ ~ closed /\ closed' = TRUE
    /\ \E cut \in Cuts :
           LET bytes == (Len(all) + units - 1) \div units
               whole == all \o [i \in 1 .. bytes * units - Len(all) |-> 0]
           IN  cut <= bytes /\ lost' = cut /\ stream' = SubSeq(whole, 1, (bytes - cut) * units)
    /\ UNCHANGED todo
    /\ Encoding
=============================================================================
