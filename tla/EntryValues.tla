----------------------------- MODULE EntryValues -----------------------------
(***************************************************************************)
(* IFD entries: the values that IFDEntry's Set methods turn into bytes and *)
(* its Get methods make of them again (tiff_ifd_entry.go), and entries and *)
(* directories as the bytes of a file (header.go, tiff_ifd.go).            *)
(*                                                                         *)
(* A byte is a digit in base Base, 256 in the program: Power[n] stands for *)
(* what n bytes can count, half of it for where signed values begin.       *)
(* A header is [order, big]: "II" or "MM", BigTIFF or classic.  An entry   *)
(* is [tag, type, count, offset, data], its data a sequence of bytes.      *)
(***************************************************************************)
EXTENDS Integers, Sequences, FiniteSets, SequencesExt

CONSTANT Base

\* Two bytes hold every tag, type and version.
ASSUME BaseAssumption == Base \in Nat /\ Base >= 10 /\ Base % 2 = 0

\* The powers of Base, as a function that has laws; no value has more than eight bytes.
Power[n \in 0 .. 8] == IF n = 0 THEN 1 ELSE Base * Power[n - 1]

---------------------------------------------------------------------------
(* encoding/binary.                                                        *)

InOrder(order, digits) == IF order = "II" THEN digits ELSE Reverse(digits)

\* n bytes of v: the low ones, of a negative v as two's complement has them.
Encoded(order, v, n) == InOrder(order, [k \in 1 .. n |-> (v \div Power[k - 1]) % Base])

Decoded(order, bytes) ==
    FoldRight(LAMBDA digit, high : digit + Base * high, InOrder(order, bytes), 0)

Signed(v, n) == IF v < Power[n] \div 2 THEN v ELSE v - Power[n]

EncodedAll(order, vs, n) == FlattenSeq([i \in DOMAIN vs |-> Encoded(order, vs[i], n)])

Nth(bytes, i, n) == SubSeq(bytes, (i - 1) * n + 1, i * n)

---------------------------------------------------------------------------
(* Data types (tiff_types.go, tiff_types_helper.go).                       *)

TypeCode == [ Nil |-> 0, Byte |-> 1, ASCII |-> 2, Short |-> 3, Long |-> 4, Rational |-> 5,
              SByte |-> 6, Undefined |-> 7, SShort |-> 8, SLong |-> 9, SRational |-> 10,
              Float |-> 11, Double |-> 12, IFD |-> 13, Long8 |-> 16, SLong8 |-> 17, IFD8 |-> 18 ]

DataTypes == DOMAIN TypeCode \ {"Nil"}

\* A code without a name is kept as it is, and is as good as none.
TypeOf(code) == IF \E t \in DataTypes : TypeCode[t] = code
                THEN CHOOSE t \in DataTypes : TypeCode[t] = code ELSE "Nil"

ByteSize(t) ==
    CASE t \in {"Byte", "ASCII", "SByte", "Undefined"}                      -> 1
      [] t \in {"Short", "SShort"}                                          -> 2
      [] t \in {"Long", "SLong", "Float", "IFD"}                            -> 4
      [] t \in {"Rational", "SRational", "Double", "Long8", "SLong8", "IFD8"} -> 8
      [] OTHER                                                              -> 0

---------------------------------------------------------------------------
(* The Get methods.  Where they return nil, so do these an empty sequence. *)

\* A BYTE goes through int8, an SBYTE through uint8.
ReadSigned == {"Byte", "SShort", "SLong", "Long8", "IFD8", "SLong8"}
IntTypes   == ReadSigned \cup {"SByte", "Short", "Long", "IFD"}

Whole(e) == e.count * ByteSize(e.type) <= Len(e.data)

Numbers(h, e, signed) ==
    LET n == ByteSize(e.type)
    IN  [i \in 1 .. IF Whole(e) THEN e.count ELSE 0 |->
            LET v == Decoded(h.order, Nth(e.data, i, n)) IN IF signed THEN Signed(v, n) ELSE v]

\* Mutant: a SHORT is read as a signed value.
GetIntsSignedShort(h, e) ==
    IF e.type \in IntTypes THEN Numbers(h, e, e.type \in ReadSigned \cup {"Short"}) ELSE << >>

GetInts(h, e) ==
    IF e.type \in IntTypes THEN Numbers(h, e, e.type \in ReadSigned) ELSE << >>

GetRationals(h, e) ==
    IF e.type \in {"Rational", "SRational"} /\ Whole(e)
    THEN [i \in 1 .. e.count |->
            LET part(k) == Decoded(h.order, Nth(e.data, 2 * (i - 1) + k, 4))
            IN  IF e.type = "Rational" THEN <<part(1), part(2)>>
                ELSE <<Signed(part(1), 4), Signed(part(2), 4)>>]
    ELSE << >>

\* A float is a fraction <<n, d>>.  Of the IEEE formats only this is kept: values both widths
\* hold exactly, whole ones, come back from them.
GetFloats(h, e) ==
    CASE e.type \in {"Float", "Double"} -> [i \in DOMAIN Numbers(h, e, TRUE) |-> <<Numbers(h, e, TRUE)[i], 1>>]
      [] e.type \in {"Rational", "SRational"} -> GetRationals(h, e)
      [] OTHER -> [i \in DOMAIN GetInts(h, e) |-> <<GetInts(h, e)[i], 1>>]

\* What comes before the first NUL.
CutAtNul(s) == LET nul == SelectInSeq(s, LAMBDA c : c = 0) IN IF nul = 0 THEN s ELSE SubSeq(s, 1, nul - 1)

GetString(e) == IF e.type = "ASCII" THEN CutAtNul(e.data) ELSE << >>

\* Into a value of n bytes.
GetUndefined(e, n) == IF e.type = "Undefined" /\ n <= Len(e.data) THEN SubSeq(e.data, 1, n) ELSE << >>

---------------------------------------------------------------------------
(* The Set methods: a type that is not the method's keeps its data.        *)

Typed(e, t) == IF e.type = "Nil" THEN [e EXCEPT !.type = t] ELSE e

Holding(e, data, count) == [e EXCEPT !.data = data, !.count = count]

SetInts(h, e, vs) ==
    LET t == Typed(e, IF h.big THEN "Long8" ELSE "Long")
    IN  IF t.type \in IntTypes THEN Holding(t, EncodedAll(h.order, vs, ByteSize(t.type)), Len(vs)) ELSE t

SetFloats(h, e, vs) ==
    LET t == Typed(e, "Double")
    IN  IF t.type \in {"Float", "Double"}
        THEN Holding(t, EncodedAll(h.order, vs, ByteSize(t.type)), Len(vs)) ELSE t

SetRationals(h, e, vs) ==
    LET t == Typed(e, "Rational")
    IN  IF t.type \in {"Rational", "SRational"}
        THEN Holding(t, EncodedAll(h.order, FlattenSeq(vs), 4), Len(vs)) ELSE t

SetString(e, s) ==
    LET t    == Typed(e, "ASCII")
        data == Append(CutAtNul(s), 0)
    IN  IF t.type = "ASCII" THEN Holding(t, data, Len(data) + 1) ELSE t

SetUndefined(e, bytes) ==
    LET t == Typed(e, "Undefined")
    IN  IF t.type = "Undefined" THEN Holding(t, bytes, Len(bytes)) ELSE t

---------------------------------------------------------------------------
(* Writing.                                                                *)

Word(h)     == IF h.big THEN 8 ELSE 4
HeadSize(h) == IF h.big THEN 16 ELSE 8

Padded(data, n) == [k \in 1 .. n |-> IF k <= Len(data) THEN data[k] ELSE 0]

\* Header.Bytes: sixteen bytes of a classic header, too.
ByteOrderMark(order) == IF order = "II" THEN <<1, 1>> ELSE <<2, 2>>
Version(h) == IF h.big THEN 43 ELSE 42

HeaderBytes(h, first) ==
    LET number(v, n) == Encoded(h.order, v, n)
    IN  Padded(ByteOrderMark(h.order) \o number(Version(h), 2)
               \o IF h.big THEN number(8, 2) \o number(0, 2) \o number(first, 8) ELSE number(first, 4),
               16)

\* Mutant: a value that fills the field goes elsewhere.
InlineStrictly(h, e) == Len(e.data) < Word(h)

Inline(h, e) == Len(e.data) <= Word(h)

\* IFDEntry.Bytes: the entry, and the data that has to be written at its offset.
EntryBytes(h, e) ==
    Encoded(h.order, e.tag, 2) \o Encoded(h.order, TypeCode[e.type], 2) \o Encoded(h.order, e.count, Word(h))
    \o IF Inline(h, e) THEN Padded(e.data, Word(h)) ELSE Encoded(h.order, e.offset, Word(h))

EntryRest(h, e) == IF Inline(h, e) THEN << >> ELSE e.data

---------------------------------------------------------------------------
(* Reading.  A file is a sequence of bytes; offsets count from zero.       *)

Stored(f, o, n) == SubSeq(f, o + 1, IF o + n <= Len(f) THEN o + n ELSE Len(f))
NumberAt(h, f, o, n) == Decoded(h.order, Stored(f, o, n))

\* ReadHeader: one Read of eight bytes, whose count is not looked at, and for BigTIFF one more
\* into the same array: what it does not reach keeps the bytes of the first.
HeadBytes(f) ==
    [k \in 1 .. 16 |-> IF k <= Len(f) THEN f[k] ELSE IF k > 8 /\ k - 8 <= Len(f) THEN f[k - 8] ELSE 0]

ReadHeader(f) ==
    LET head  == HeadBytes(f)
        order == IF SubSeq(head, 1, 2) = ByteOrderMark("II") THEN "II" ELSE "MM"
        at(o, n) == Decoded(order, SubSeq(head, o + 1, o + n))
        big   == at(2, 2) = 43
        first == IF big THEN at(8, 8) ELSE at(4, 4)
    IN  [ order |-> order, big |-> big, first |-> first,
          ok    |-> /\ f # <<>> /\ SubSeq(head, 1, 2) = ByteOrderMark(order)
                    /\ at(2, 2) \in {42, 43}
                    /\ big => at(4, 2) = 8 /\ at(6, 2) = 0 /\ Len(f) > 8
                    /\ first >= IF big THEN 16 ELSE 8 ]

\* readIFDEntryData: one Read, whose count is not looked at, unless there is nothing to read.
EntryData(h, f, e) ==
    LET size == e.count * ByteSize(e.type)
    IN  IF size <= Word(h) THEN Encoded(h.order, e.offset, Word(h))
        ELSE Padded(Stored(f, e.offset, size), size)

\* Mutant: a Read at the end of the file is as good as any other.
DataFailsInHeader(h, f, e) == e.count * ByteSize(e.type) > Word(h) /\ e.offset < HeadSize(h)

DataFails(h, f, e) ==
    e.count * ByteSize(e.type) > Word(h) /\ (e.offset < HeadSize(h) \/ e.offset >= Len(f))

EntryAt(h, f, o) ==
    [ tag    |-> NumberAt(h, f, o, 2),
      type   |-> TypeOf(NumberAt(h, f, o + 2, 2)),
      count  |-> NumberAt(h, f, o + 4, Word(h)),
      offset |-> NumberAt(h, f, o + 4 + Word(h), Word(h)),
      data   |-> << >> ]

CountSize(h) == IF h.big THEN 8 ELSE 2
EntrySize(h) == 4 + 2 * Word(h)

EntriesEnd(h, f, o) == o + CountSize(h) + NumberAt(h, f, o, CountSize(h)) * EntrySize(h)

\* binary.Read fails where the file ends: in the count, the entries, or the offset of the next IFD.
DirectoryThere(h, f, o) == o + CountSize(h) <= Len(f) /\ EntriesEnd(h, f, o) + Word(h) <= Len(f)

NoIFD == [ok |-> FALSE, entries |-> << >>, next |-> 0]

\* ReadIFD: the entries by tag, of two with one tag the last, and the offset of the next IFD.
ReadIFD(h, f, o) ==
    LET count == NumberAt(h, f, o, CountSize(h))
        read  == [i \in 1 .. count |-> EntryAt(h, f, o + CountSize(h) + (i - 1) * EntrySize(h))]
        last  == {i \in 1 .. count : \A j \in i + 1 .. count : read[j].tag # read[i].tag}
        entry(tag) == read[CHOOSE i \in last : read[i].tag = tag]
    IN  IF ~ DirectoryThere(h, f, o) \/ \E i \in last : DataFails(h, f, read[i])
        THEN NoIFD
        ELSE [ ok      |-> TRUE,
               entries |-> [tag \in {read[i].tag : i \in last} |->
                               [entry(tag) EXCEPT !.data = EntryData(h, f, entry(tag))]],
               next    |-> NumberAt(h, f, EntriesEnd(h, f, o), Word(h)) ]
=============================================================================
