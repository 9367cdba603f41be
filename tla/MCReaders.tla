----------------------------- MODULE MCReaders -----------------------------
(***************************************************************************)
(* The optimized reader over families of small files.                      *)
(***************************************************************************)
EXTENDS ReaderProperties, FileBuilder

MCMagic == 999
MCSubIFDTag == 30

\* Five slots of six words: metadata in every order and at every distance, and a value
\* above the size limit, which may end with the file.
SpreadFiles ==
    TwoWithValues(5, 6, 2, 32) \cup ThreeEmbedded(5, 6, 32)
    \cup WithSubIFDs(5, 6, 32) \cup WithEmbeddedSubIFD(5, 6, 32)
    \cup WithSubIFDAndValue(5, 6, 5, 31)

\* The same kinds of file in four slots, cut in a directory, in a value and at the end;
\* a file too short for a header, and IFDs too far apart for one cluster.
CutFiles ==
    Truncated(TwoWithValues(4, 6, 2, 26) \cup WithEmbeddedSubIFD(4, 6, 26), {15, 22, 26})
    \cup Truncated(WithSubIFDs(4, 6, 26), {14, 20})
    \cup Truncated(ThreeEmbedded(4, 6, 26), {1})
    \cup ThreeEmbedded(3, 10, 32)

\* IFDs that follow one another, their values between them, as most writers lay them out.
PackedFiles ==
    {FileOf(Slot(2 * n + 2, 6), 2,
            {Directory(Slot(2 * i, 6), << <<11, size, Slot(2 * i + 1, 6)>> >>,
                       IF i < n THEN Slot(2 * (i + 1), 6) ELSE 0) : i \in 0 .. n},
            <<>>) : n \in 0 .. 2, size \in 1 .. 3}

\* What the batching is made for, and a file that ends before FirstIFD.
CompactFiles == PackedFiles \cup Truncated(PackedFiles, {1})

SpreadOrCompactFiles == SpreadFiles \cup CompactFiles

\* An IFD whose two sub-IFD offsets lie right behind a first buffer of 14 words: the first
\* sub-IFD is in the buffer, the second is behind its offset.
LateOffsetFiles ==
    {f \in WithSubIFDs(5, 6, 32) : f.word[1] = 2 /\ f.word[5] = 14 /\ f.word[14] = 8}

\* Two IFDs that lead to each other.
LoopFiles ==
    {FileOf(14, 2, {Directory(2, << <<11, 1, 91>> >>, 8), Directory(8, << <<12, 1, 92>> >>, n)},
            <<>>) : n \in {2, 8}}

-----------------------------------------------------------------------------
\* The optimized reader implements TiffOpen on compact files, unless a directory ends with
\* the first buffer (its next IFD is then looked for a word too far): from a reliable device
\* it returns what the chain links, or an error exactly for a broken file, whichever path it
\* took.  On scattered files it does not: OpenedParity.
CleanCut == \A o \in ChainOffsets(file) : NextPos(file, o) + 1 # config.buffer

ImplementsOpen ==
    /\ Promise!OpenInit
    /\ [][Vouched \/ (file \in CompactFiles /\ CleanCut) => Promise!OpenNext]_(Promise!openVars)
=============================================================================
