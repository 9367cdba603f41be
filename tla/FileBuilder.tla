---------------------------- MODULE FileBuilder ----------------------------
(***************************************************************************)
(* Files for the model runs, built from a layout: where each IFD lies, what*)
(* its entries are and where their values lie.  The other words are        *)
(* distinct non-zero numbers, so that a word read from the wrong place or  *)
(* not read at all shows.                                                  *)
(***************************************************************************)
EXTENDS Integers, Sequences, FiniteSets

CONSTANTS BMagic, BSubIFDTag

\* IFDs to write: [at, entries, next], an entry being <<tag, size, offset>>.
DirectoryAt(d) ==
    [k \in d.at .. d.at + 1 + 3 * Len(d.entries) |->
        IF k = d.at THEN Len(d.entries)
        ELSE IF k = d.at + 1 + 3 * Len(d.entries) THEN d.next
        ELSE d.entries[((k - d.at - 1) \div 3) + 1][((k - d.at - 1) % 3) + 1]]

\* A file of len words with the header, the directories ds and the words of the function ws.
FileOf(len, first, ds, ws) ==
    [len  |-> len,
     word |-> [k \in 0 .. len - 1 |->
         IF k = 0 THEN BMagic
         ELSE IF k = 1 THEN first
         ELSE IF \E d \in ds : k \in DOMAIN DirectoryAt(d)
              THEN LET d == CHOOSE d \in ds : k \in DOMAIN DirectoryAt(d) IN DirectoryAt(d)[k]
         ELSE IF k \in DOMAIN ws THEN ws[k]
         ELSE 100 + k]]

Directory(at, entries, next) == [at |-> at, entries |-> entries, next |-> next]

\* Slot n of the body of a file whose blocks are w words apart.
Slot(n, w) == 2 + w * n

\* Placements of the blocks 1 .. b in distinct slots among s.
Placements(b, s) == {p \in [1 .. b -> 0 .. s - 1] : \A i, j \in 1 .. b : p[i] = p[j] => i = j}

(***************************************************************************)
(* Two linked IFDs of one entry each, whose values lie in blocks of their  *)
(* own.                                                                    *)
(***************************************************************************)
TwoWithValues(s, w, size, len) ==
    {LET at(i) == Slot(p[i], w)
     IN  FileOf(len, at(1),
                {Directory(at(1), << <<11, size, at(2)>> >>, at(3)),
                 Directory(at(3), << <<12, size, at(4)>> >>, 0)}, <<>>)
        : p \in Placements(4, s)}

\* Three linked IFDs with embedded values.
ThreeEmbedded(s, w, len) ==
    {LET at(i) == Slot(p[i], w)
     IN  FileOf(len, at(1),
                {Directory(at(1), << <<11, 1, 91>> >>, at(2)),
                 Directory(at(2), << <<12, 1, 92>> >>, at(3)),
                 Directory(at(3), << <<11, 1, 93>> >>, 0)}, <<>>)
        : p \in Placements(3, s)}

\* An IFD with two sub-IFDs whose offsets are a value of two words.
WithSubIFDs(s, w, len) ==
    {LET at(i) == Slot(p[i], w)
     IN  FileOf(len, at(1),
                {Directory(at(1), << <<BSubIFDTag, 2, at(2)>> >>, 0),
                 Directory(at(3), << <<11, 1, 91>> >>, 0),
                 Directory(at(4), << <<12, 1, 92>> >>, 0)},
                [k \in {at(2), at(2) + 1} |-> IF k = at(2) THEN at(3) ELSE at(4)])
        : p \in Placements(4, s)}

\* Two IFDs, the first with one sub-IFD embedded in its entry and a duplicate tag.
WithEmbeddedSubIFD(s, w, len) ==
    {LET at(i) == Slot(p[i], w)
     IN  FileOf(len, at(1),
                {Directory(at(1), << <<BSubIFDTag, 1, at(2)>> >>, at(3)),
                 Directory(at(2), << <<11, 1, 91>> >>, 0),
                 Directory(at(3), << <<12, 1, 92>> >>, 0)}, <<>>)
        : p \in Placements(3, s)}

\* The same with a value in the second IFD.
WithSubIFDAndValue(s, w, size, len) ==
    {LET at(i) == Slot(p[i], w)
     IN  FileOf(len, at(1),
                {Directory(at(1), << <<BSubIFDTag, 1, at(2)>> >>, at(3)),
                 Directory(at(2), << <<11, 1, 91>> >>, 0),
                 Directory(at(3), << <<12, size, at(4)>> >>, 0)}, <<>>)
        : p \in Placements(4, s)}

\* Every file cut off at each of the lengths.
Truncated(fs, lens) ==
    {[len |-> n, word |-> [k \in 0 .. n - 1 |-> f.word[k]]] :
        f \in {g \in fs : \A n \in lens : n <= g.len}, n \in lens}
=============================================================================
