----------------------------- MODULE LZWDecoder -----------------------------
(***************************************************************************)
(* The LZW decoder of lzw_reader.go: what decode() does with one code, and *)
(* the buffer it hands to Read.  Codes arrive whole; that they are cut from*)
(* the bit stream at the right width is the business of LZWStream.         *)
(***************************************************************************)
EXTENDS Integers, Sequences, FiniteSets

CONSTANTS
    LitWidth,    \* litWidth, 8 in a TIFF
    MaxWidth,    \* lzwMaxWidth, 12 in the code
    Pow2,        \* powers of two
    HiModulus    \* hi, last and overflow are uint16: 65536 in the code

ASSUME LZWAssumption ==
    /\ LitWidth \in Nat \ {0} /\ MaxWidth \in Nat /\ LitWidth < MaxWidth
    /\ Pow2 \in [0 .. MaxWidth -> Nat \ {0}]
    /\ \A w \in 0 .. MaxWidth - 1 : Pow2[w + 1] = 2 * Pow2[w]
    /\ \A v, w \in 0 .. MaxWidth : v <= w => Pow2[v] <= Pow2[w]
    /\ Pow2[0] = 1
    /\ Pow2[MaxWidth] >= Pow2[LitWidth] + 2
    /\ HiModulus \in Nat /\ HiModulus > Pow2[MaxWidth] + 1

Clear     == Pow2[LitWidth]
Eof       == Clear + 1
TableSize == Pow2[MaxWidth]
Codes     == 0 .. TableSize - 1
Invalid   == HiModulus - 1     \* lzwDecoderInvalidCode

VARIABLES
    width, hi, overflow, last,
    suffix, prefix,   \* the code table
    output,           \* d.output[:d.o]
    toRead,
    derr,             \* d.err: "none", "eof", "unexpectedEOF" or "invalidCode"
    dpc,              \* "run", or "panic" after an index out of range
    full              \* history: the table has filled up since the last clear code

codec  == <<width, hi, overflow, last>>
table  == <<suffix, prefix>>
buffer == <<output, toRead>>
dvars  == <<codec, table, buffer, derr, dpc, full>>

DInit ==
    /\ width = LitWidth + 1 /\ hi = Eof /\ overflow = Pow2[LitWidth + 1] /\ last = Invalid
    /\ suffix = [c \in Codes |-> 0] /\ prefix = [c \in Codes |-> 0]
    /\ output = <<>> /\ toRead = <<>>
    /\ derr = "none" /\ dpc = "run" /\ full = FALSE

\* Read calls decode only when it has nothing left to hand out.
Decoding == dpc = "run" /\ derr = "none" /\ toRead = <<>>

\* The bytes a code stands for, by the chain of its prefixes.
Expansion(c) ==
    LET e[d \in Codes] == IF d < Clear THEN <<d>> ELSE Append(e[prefix[d]], suffix[d])
    IN  e[c]

\* The bytes that a code c in (eof, hi] is decoded to.
Decoded(c) ==
    IF c = hi THEN Append(Expansion(last), Expansion(last)[1]) ELSE Expansion(c)

\* Mutant: only a full buffer is handed out.
StoredLate(bytes) ==
    IF Len(bytes) >= 2 * TableSize
    THEN toRead' = bytes /\ output' = <<>>
    ELSE toRead' = toRead /\ output' = bytes

\* d.output[:d.o] is handed out once it holds a table-full of bytes.
Stored(bytes) ==
    IF Len(bytes) >= TableSize
    THEN toRead' = bytes /\ output' = <<>>
    ELSE toRead' = toRead /\ output' = bytes

\* The off-by-one of TIFF: the width grows one code early.
Advance(code) ==
    /\ hi' = (hi + 1) % HiModulus
    /\ IF (hi' + 1) % HiModulus >= overflow
       THEN IF width = MaxWidth
            THEN last' = Invalid /\ full' = TRUE /\ UNCHANGED <<width, overflow>>
            ELSE last' = code /\ width' = width + 1
                 /\ overflow' = 2 * overflow /\ UNCHANGED full
       ELSE last' = code /\ UNCHANGED <<width, overflow, full>>

\* Save what the hi code expands to: the last code and the first byte of this one.
Save(code, first) ==
    IF last = Invalid THEN UNCHANGED table
    ELSE /\ hi < TableSize
         /\ suffix' = [suffix EXCEPT ![hi] = first]
         /\ prefix' = [prefix EXCEPT ![hi] = last]

LiteralCode(code) ==
    /\ Decoding /\ code < Clear
    /\ Save(code, code)
    /\ Advance(code)
    /\ Stored(Append(output, code))
    /\ UNCHANGED <<derr, dpc>>

\* Mutant: last survives a clear code.
ClearKeepsLast(code) ==
    /\ Decoding /\ code = Clear
    /\ width' = LitWidth + 1 /\ hi' = Eof /\ overflow' = Pow2[LitWidth + 1]
    /\ full' = FALSE
    /\ UNCHANGED <<last, table, buffer, derr, dpc>>

\* Mutant: the first code after a clear code is taken to make an entry.
ClearCountsFirst(code) ==
    /\ Decoding /\ code = Clear
    /\ width' = LitWidth + 1 /\ hi' = Eof + 1 /\ overflow' = Pow2[LitWidth + 1]
    /\ last' = Invalid
    /\ full' = FALSE
    /\ UNCHANGED <<table, buffer, derr, dpc>>

\* The table itself is not wiped.
ClearCode(code) ==
    /\ Decoding /\ code = Clear
    /\ width' = LitWidth + 1 /\ hi' = Eof /\ overflow' = Pow2[LitWidth + 1]
    /\ last' = Invalid
    /\ full' = FALSE
    /\ UNCHANGED <<table, buffer, derr, dpc>>

TableCode(code) ==
    /\ Decoding /\ code > Eof /\ code <= hi
    /\ code = hi => last # Invalid
    /\ LET bytes == Decoded(code)
       IN  Save(code, bytes[1]) /\ Stored(output \o bytes)
    /\ Advance(code)
    /\ UNCHANGED <<derr, dpc>>

\* An array is indexed with hi or with the invalid code: the decoder panics.
IndexOutOfRange(code) ==
    /\ Decoding /\ code # Clear /\ code # Eof /\ code <= hi
    /\ \/ code = hi /\ last = Invalid
       \/ last # Invalid /\ hi >= TableSize
    /\ dpc' = "panic"
    /\ UNCHANGED <<codec, table, buffer, derr, full>>

\* flush() and an error: at the EOF code, at a code beyond hi, at the end of the input.
Flush(e) ==
    /\ toRead' = output /\ output' = <<>>
    /\ derr' = e
    /\ UNCHANGED <<codec, table, dpc, full>>

EofCode(code)     == Decoding /\ code = Eof /\ Flush("eof")
InvalidCode(code) == Decoding /\ code > Eof /\ code > hi /\ Flush("invalidCode")
EndOfInput        == Decoding /\ Flush("unexpectedEOF")

Decode(code) ==
    \/ LiteralCode(code) \/ ClearCode(code) \/ TableCode(code)
    \/ IndexOutOfRange(code) \/ EofCode(code) \/ InvalidCode(code)

\* Read copies out as much as the caller has room for.
Read(n) ==
    /\ toRead # <<>> /\ n \in 1 .. Len(toRead)
    /\ toRead' = SubSeq(toRead, n + 1, Len(toRead))
    /\ UNCHANGED <<codec, table, output, derr, dpc, full>>

CONSTANTS
    Offered,    \* the codes that a stream may contain
    RoomSizes   \* how much room callers of Read have

ASSUME OfferedAssumption == Offered \subseteq Nat

DNext ==
    \/ \E code \in Offered : code < Pow2[width] /\ Decode(code)
    \/ EndOfInput
    \/ \E n \in RoomSizes : Read(IF n < Len(toRead) THEN n ELSE Len(toRead))

DecoderSpec == DInit /\ [][DNext]_dvars

-----------------------------------------------------------------------------
\* "prefix[c] can either be a literal code or another code in [lo, c)": the prefix chain of
\* every code descends, also through entries left from before a clear code, so the loops
\* that walk it end for every stream of codes.
PrefixesDescend == \A c \in Codes : prefix[c] < Clear \/ (prefix[c] > Eof /\ prefix[c] < c)

\* "so that there is always room to decode an entire code": the bytes of any code that may
\* come next fit into what the output buffer of twice the table size has left.
RoomForEveryCode ==
    Decoding => \A c \in Eof + 1 .. TableSize - 1 :
        c <= hi /\ (c = hi => last # Invalid)
            => Len(output) + Len(Decoded(c)) <= 2 * TableSize

\* No stream makes the decoder panic unless it goes on, without a clear code, after the
\* table is full.
PanicOnlyWhenFull == dpc = "panic" => full
=============================================================================
