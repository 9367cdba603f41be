------------------------------ MODULE TiffFile ------------------------------
(***************************************************************************)
(* The TIFF file as the readers see it, and what an IFD decodes to.        *)
(*                                                                         *)
(* The unit of length is one 4-byte word, the granularity of a classic     *)
(* TIFF: a header is two words (byte order and version, FirstIFD), an IFD  *)
(* is an entry count, three words per entry (tag and type, size of the     *)
(* value, offset or value) and the offset of the next IFD.  The one        *)
(* departure is that the entry count takes a whole word.  A value of at    *)
(* most one word is embedded in the entry; a longer one lies at the offset.*)
(* An entry's DataType and Count appear only as their product, the size.   *)
(*                                                                         *)
(* An "image" [len, word] is a run of words that starts at offset 0: the   *)
(* file itself, or the prefix and the patches of it that the optimized     *)
(* reader holds in memory.                                                 *)
(***************************************************************************)
EXTENDS Integers, Sequences, FiniteSets

CONSTANTS
    Magic,      \* the first word of a header with a known byte order and version
    SubIFDTag   \* the word of an entry whose value is the offsets of sub-IFDs

ASSUME TiffFileAssumption == Magic \in Nat \ {0} /\ SubIFDTag \in Nat \ {0}

HeadSize  == 2
EntrySize == 3
Threshold == 1

IsImage(b) ==
    /\ b = [len |-> b.len, word |-> b.word]
    /\ b.len \in Nat /\ b.word \in [0 .. b.len - 1 -> Nat]

\* Past the end of what was read the program's buffers hold zeros.
WordAt(b, k) == IF k \in 0 .. b.len - 1 THEN b.word[k] ELSE 0

HeaderValid(b) == WordAt(b, 0) = Magic /\ WordAt(b, 1) >= HeadSize

FirstIFD(b) == WordAt(b, 1)

EntryCount(b, o) == WordAt(b, o)

EntryPos(o, i) == o + 1 + EntrySize * (i - 1)

NextPos(b, o) == o + 1 + EntrySize * EntryCount(b, o)

Entry(b, o, i) == [ tag    |-> WordAt(b, EntryPos(o, i)),
                    size   |-> WordAt(b, EntryPos(o, i) + 1),
                    offset |-> WordAt(b, EntryPos(o, i) + 2) ]

Embedded(e) == e.size <= Threshold

\* The count, every entry and the next-IFD word of the IFD at o are all there.
DirectoryWithin(b, o) == o < b.len /\ NextPos(b, o) < b.len

\* IFD.EntryMap: of the entries with one tag, the last one read survives.
EntryMap(b, o) ==
    {i \in 1 .. EntryCount(b, o) :
        \A j \in i + 1 .. EntryCount(b, o) : Entry(b, o, j).tag # Entry(b, o, i).tag}

\* Mutant: the value is read one word after its offset.
EntryDataNextWord(b, e, n) ==
    IF Embedded(e)
    THEN <<e.offset>>
    ELSE [k \in 1 .. e.size |-> IF k <= n THEN WordAt(b, e.offset + k) ELSE 0]

\* The value of entry e when a read of it delivered n words: make() zeroes the rest.
EntryData(b, e, n) ==
    IF Embedded(e)
    THEN <<e.offset>>
    ELSE [k \in 1 .. e.size |-> IF k <= n THEN WordAt(b, e.offset + k - 1) ELSE 0]

(***************************************************************************)
(* A decoded IFD.  "whole" is FALSE for what ReadIFD leaves behind when it *)
(* fails: a nil pointer (this = 0) or a partly filled structure, whose     *)
(* contents are abstracted away.                                           *)
(***************************************************************************)
IFDs == [ this : Nat, next : Nat, entries : SUBSET (Nat \X Nat \X Seq(Nat)),
          whole : BOOLEAN ]

NilIFD == [this |-> 0, next |-> 0, entries |-> {}, whole |-> FALSE]

BrokenIFD(o) == [NilIFD EXCEPT !.this = o]

DecodeIFD(b, o, got) ==
    [ this    |-> o,
      next    |-> WordAt(b, NextPos(b, o)),
      entries |-> {<<Entry(b, o, i).tag, Entry(b, o, i).size,
                     EntryData(b, Entry(b, o, i), got[i])>> : i \in EntryMap(b, o)},
      whole   |-> TRUE ]

\* What a reader holds, with the several ways a sub-IFD can be missing made one.
Opened(lists) ==
    [n \in DOMAIN lists |->
        [k \in DOMAIN lists[n] |-> IF lists[n][k].whole THEN lists[n][k] ELSE NilIFD]]

\* TagGetter().GetSubIFD(): the offsets that the SubIFD entry's value lists.
GetSubIFD(ifd) ==
    IF \E e \in ifd.entries : e[1] = SubIFDTag
    THEN LET e == CHOOSE e \in ifd.entries : e[1] = SubIFDTag
         IN  SubSeq(e[3], 1, e[2])
    ELSE <<>>
=============================================================================
