---------------------------- MODULE TiffContents ----------------------------
(***************************************************************************)
(* What a file has to offer to a reader that can read all of it: the IFDs  *)
(* that the chain links, and the sub-IFDs each of them lists.              *)
(***************************************************************************)
EXTENDS TiffFile

Complete(f, o) == [i \in EntryMap(f, o) |-> f.len]

\* The IFD at o is a directory inside the file whose values start inside it.
Intact(f, o) ==
    /\ DirectoryWithin(f, o)
    /\ \A i \in EntryMap(f, o) :
         LET e == Entry(f, o, i)
         IN  Embedded(e) \/ e.offset \in HeadSize .. f.len - 1

\* The link out of the IFD at o; a chain stops at its end and where it breaks.
Link(f, o) == IF o # 0 /\ DirectoryWithin(f, o) THEN WordAt(f, NextPos(f, o)) ELSE 0

\* The offset after n links, zero past the end of the chain.
Links(f) == LET after[n \in Nat] == IF n = 0 THEN FirstIFD(f) ELSE Link(f, after[n - 1])
            IN  after

\* The number of IFDs; one more than there are words when the chain loops.
ChainLength(f) ==
    CHOOSE n \in 1 .. f.len + 1 :
        /\ n = f.len + 1 \/ Links(f)[n] = 0
        /\ \A k \in 1 .. n - 1 : Links(f)[k] # 0

\* The offsets of the chain's IFDs, in order.
Chain(f) == [n \in 1 .. ChainLength(f) |-> Links(f)[n - 1]]

\* A chain that revisits an IFD never ends; one that does not is shorter than the file.
Acyclic(f) == ChainLength(f) <= f.len

\* There is something in the way of reading the chain.
Broken(f) == ~ HeaderValid(f) \/ \E n \in DOMAIN Chain(f) : ~ Intact(f, Chain(f)[n])

Openable(f) == Acyclic(f) /\ ~ Broken(f)

\* A sub-IFD that cannot be read still takes its place in the list.
SubIFDAt(f, o) == IF o # 0 /\ Intact(f, o) THEN DecodeIFD(f, o, Complete(f, o)) ELSE NilIFD

IFDListAt(f, o) ==
    LET main == DecodeIFD(f, o, Complete(f, o))
        subs == GetSubIFD(main)
    IN  <<main>> \o [k \in DOMAIN subs |-> SubIFDAt(f, subs[k])]

OpenedIFDs(f) == [n \in DOMAIN Chain(f) |-> IFDListAt(f, Chain(f)[n])]
=============================================================================
