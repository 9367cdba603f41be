----------------------------- MODULE SeekWriter -----------------------------
(***************************************************************************)
(* The seekioWriter of seekio.go over a writer that cannot seek: Write and *)
(* Seek work on a buffer, Close hands it over.  A Go slice is its backing  *)
(* array (mem, as long as its capacity) and its length.                    *)
(***************************************************************************)
EXTENDS Integers, Sequences, FiniteSets

CONSTANTS
    Bytes,      \* the values of a byte
    Data,       \* what is written, non-empty byte strings
    Blank,      \* the zero byte
    MaxOffset   \* bound: calls stay below this offset

ASSUME SeekWriterAssumption ==
    /\ Blank \in Bytes
    /\ \A d \in Data : d \in Seq(Bytes) /\ Len(d) > 0 /\ \A i \in 1 .. Len(d) : d[i] # Blank
    /\ MaxOffset \in Nat

VARIABLES
    mem, len,    \* p.buf
    off,         \* p.off
    wpc,         \* "open", "closed", or "panic" after a slice out of range
    delivered,   \* what Close gave to the underlying writer
    accepted     \* history: the bytes that Write said it took, by offset

writer == <<mem, len, off>>
wvars  == <<writer, wpc, delivered, accepted>>

WInit ==
    /\ mem = <<>> /\ len = 0 /\ off = 0
    /\ wpc = "open" /\ delivered = <<>>
    /\ accepted = [o \in 0 .. MaxOffset - 1 |-> Blank]

\* grow copies the first off bytes into a larger array; the new slice is n long.  Within
\* the capacity it leaves the length alone.
Grows(n) == n > Len(mem)

\* Mutant: the larger array starts out blank.
GrownBlank(n) == [i \in 1 .. 2 * Len(mem) + n |-> Blank]

Grown(n) == [i \in 1 .. 2 * Len(mem) + n |-> IF i <= off /\ i <= n THEN mem[i] ELSE Blank]

Panic == wpc' = "panic" /\ UNCHANGED <<writer, delivered, accepted>>

\* p.buf[p.off:] is cut at the length; copy takes what fits, and n is returned without an
\* error even when it is short.
Write(d) ==
    /\ wpc = "open" /\ off + Len(d) <= MaxOffset
    /\ LET n     == off + Len(d)
           mem1  == IF Grows(n) THEN Grown(n) ELSE mem
           len1  == IF Grows(n) THEN n ELSE len
           taken == IF Len(d) < len1 - off THEN Len(d) ELSE len1 - off
       IN  IF off > len1
           THEN Panic
           ELSE /\ mem' = [i \in 1 .. Len(mem1) |->
                              IF i \in off + 1 .. off + taken THEN d[i - off] ELSE mem1[i]]
                /\ len' = len1 /\ off' = off + taken
                /\ accepted' = [o \in 0 .. MaxOffset - 1 |->
                                   IF o \in off .. off + taken - 1 THEN d[o - off + 1] ELSE accepted[o]]
                /\ UNCHANGED <<wpc, delivered>>

\* Seek moves first and grows then, copying up to the new offset: beyond the capacity that
\* is out of range.  Before the start it fails and changes nothing.
Seek(base, offset) ==
    /\ wpc = "open" /\ base + offset \in 0 .. MaxOffset
    /\ IF Grows(base + offset)
       THEN Panic
       ELSE off' = base + offset /\ UNCHANGED <<mem, len, wpc, delivered, accepted>>

\* Close writes what lies before the offset.
Close ==
    /\ wpc = "open"
    /\ delivered' = SubSeq(mem, 1, off)
    /\ wpc' = "closed"
    /\ UNCHANGED <<writer, accepted>>

CloseFails == wpc = "open" /\ UNCHANGED wvars

WNext ==
    \/ \E d \in Data : Write(d)
    \/ \E base \in {0, off, len}, offset \in 0 - MaxOffset .. MaxOffset : Seek(base, offset)
    \/ Close \/ CloseFails

WriterSpec == WInit /\ [][WNext]_wvars

-----------------------------------------------------------------------------
\* The buffer holds at each offset the byte that Write last said it took there and nothing
\* else, whatever seeks and grows came between; and what Close has handed over is that, up to
\* the offset: bytes accepted behind an offset that was moved back are not delivered.
AcceptedIsKept ==
    /\ \A o \in 0 .. MaxOffset - 1 : accepted[o] = IF o < Len(mem) THEN mem[o + 1] ELSE Blank
    /\ wpc = "closed" =>
          /\ Len(delivered) = off
          /\ \A o \in 0 .. off - 1 : delivered[o + 1] = accepted[o]
=============================================================================
