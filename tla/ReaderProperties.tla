-------------------------- MODULE ReaderProperties --------------------------
(***************************************************************************)
(* What opening a file with the optimized reader must and must not do.     *)
(***************************************************************************)
EXTENDS OptimizedReader

\* The promise of TiffOpen, kept by a call that returns from either path.
Promise == INSTANCE TiffOpen WITH
    openFile <- file,
    status <- CASE opc \in {"opened", "fellback"} -> "opened"
                [] opc = "refused"                -> "refused"
                [] OTHER                          -> "opening",
    ifds   <- IF opc \in {"opened", "fellback"} THEN Opened(oifd) ELSE <<>>

Final == {"opened", "fellback", "refused", "panic"}

\* Neither path has been left for the fallback.
OnBuffer == opc \notin {"failed", "fallback", "fellback", "refused", "panic"}

(***************************************************************************)
(* The words that the traditional reader looks at.                         *)
(***************************************************************************)
ValueWords(f, o) ==
    UNION {LET e == Entry(f, o, i)
           IN  IF Embedded(e) THEN {} ELSE e.offset .. e.offset + e.size - 1
           : i \in 1 .. EntryCount(f, o)}

IFDWords(f, o) == (o .. NextPos(f, o)) \cup ValueWords(f, o)

ChainOffsets(f) == LET at == Chain(f) IN {at[n] : n \in DOMAIN at}

SubIFDOffsets(f) ==
    UNION {LET subs == GetSubIFD(DecodeIFD(f, o, Complete(f, o)))
           IN  {subs[k] : k \in DOMAIN subs} : o \in ChainOffsets(f)}

MetadataWords(f) ==
    (0 .. HeadSize - 1) \cup UNION {IFDWords(f, o) : o \in ChainOffsets(f) \cup SubIFDOffsets(f)}

\* The file is sound: every link, also to a sub-IFD, leads to a readable IFD.
Sound(f) ==
    /\ Openable(f)
    /\ \A o \in SubIFDOffsets(f) : o # 0 /\ Intact(f, o)
    /\ \A k \in MetadataWords(f) : k < f.len

\* No IFD has a SubIFD entry, not even one that a later entry replaces.
Flat(f) ==
    \A o \in ChainOffsets(f) : \A i \in 1 .. EntryCount(f, o) : Entry(f, o, i).tag # SubIFDTag

\* The buffer has them all.
HoldsMetadata == \A k \in MetadataWords(file) : k < buf.len /\ buf.word[k] = WordAt(file, k)

\* Each of them lies in the first buffer-full or in a range of the batch.
Planned ==
    \A k \in MetadataWords(file) :
        \/ k < config.buffer
        \/ \E r \in ClusterRanges(ChainOffsets(file)) : k \in r.offset .. End(r) - 1

WithinLimits(f) ==
    /\ Len(Chain(f)) <= MaxIFDs
    /\ \A o \in ChainOffsets(f) \cup SubIFDOffsets(f) :
         /\ EntryCount(f, o) <= MaxEntries
         /\ \A i \in 1 .. EntryCount(f, o) : Entry(f, o, i).size <= MaxIFDEntrySize

-----------------------------------------------------------------------------
Statistics == [ioCalls : Nat, bytesRead : Nat, adaptiveCalls : Nat, metadataSize : Nat]

\* Every variable has its type.
OTypeOK ==
    /\ TTypeOK
    /\ config \in [buffer : BufferSizes, fallback : Fallbacks]
    /\ opc \in {"initial", "identify", "walk", "read", "parseHeader", "metadata", "parse",
                "subs", "failed", "fallback"} \cup Final
    /\ IsImage(buf)
    /\ off \in Nat /\ missing \subseteq Ranges /\ chain \subseteq Nat /\ count \in Nat
    /\ osubs \in Seq(Nat) /\ ocur \in Seq(IFDs) /\ oifd \in Seq(Seq(IFDs))
    /\ reads \in Nat
    /\ opc # "fellback" => stats \in Statistics

\* The buffer never holds a word that is not the file's at that offset: whatever the
\* number, order and length of the reads, a position holds the file's word or is still
\* the zero that make() left (readMissingRanges reads each range to its own place).
BufferMatchesFile == \A k \in 0 .. buf.len - 1 : buf.word[k] \in {0, WordAt(file, k)}

\* The circuit breaker bounds the adaptive reads, those made and those still planned, and
\* the reported counts agree with each other until the fallback replaces them.
ReadBudget ==
    OnBuffer =>
        /\ stats.ioCalls = stats.adaptiveCalls + (IF opc = "initial" THEN 0 ELSE 1)
        /\ stats.adaptiveCalls + (IF opc = "read" THEN Cardinality(missing) ELSE 0)
              <= MaxAdaptiveReads

\* The ranges of one batch do not overlap, neither the merged ones nor the clusters: no
\* word is fetched twice by the adaptive reads.
RangesDisjoint ==
    opc = "read" => \A r, q \in missing : r.offset < q.offset => End(r) <= q.offset

\* Parsing a buffer that holds every metadata word of a sound file within the limits never
\* gives up, and ends with exactly the IFDs that the traditional reader gives, whatever the
\* device and the phases before have done.
CompleteBufferParses ==
    [][/\ opc = "parse" /\ opc' \in {"opened", "failed"}
       /\ Sound(file) /\ WithinLimits(file) /\ HoldsMetadata
       => opc' = "opened" /\ oifd' = OpenedIFDs(file)]_vars

\* A chain whose IFDs were located on the device and fetched cluster by cluster comes back
\* with every IFD: no cluster is lost, and no next-IFD offset is taken from a hole, as long
\* as a directory fits in the padding behind the last IFD of a cluster.  When the values lie
\* in the clusters too, or in the first buffer-full, every one of them comes back, and every
\* sub-IFD.
BatchFindsEveryIFD ==
    /\ opc = "opened" /\ stats.adaptiveCalls > 0 /\ Reliable /\ Sound(file)
    /\ Len(Chain(file)) <= MaxChain
    /\ SmartBatch(ChainOffsets(file), Cardinality(ChainOffsets(file))) # {}
    /\ \A s \in ClusterStarts(ChainOffsets(file)) :
         MaxOf(Cluster(ChainOffsets(file), s)) - s + ClusterPadding <= MaxClusterSize
    /\ \A o \in ChainOffsets(file) : NextPos(file, o) - o < ClusterPadding
    => /\ Len(oifd) = Len(Chain(file))
       /\ WithinLimits(file) /\ Planned => oifd = OpenedIFDs(file)

\* With the fallback enabled and a reliable device, a call is as TiffOpen says: the fallback
\* returns what the chain links, an error is returned only for a broken file, and so does
\* the optimized path from a buffer with all the metadata of a sound file.
Vouched ==
    /\ config.fallback /\ Reliable
    /\ opc' = "opened" => Sound(file) /\ WithinLimits(file) /\ HoldsMetadata

KeepsPromise ==
    /\ Promise!OpenInit
    /\ [][Vouched => Promise!OpenNext]_(Promise!openVars)

\* A file whose metadata lies in the first buffer-full, and in which no entry speaks of
\* sub-IFDs, costs one Read of the device and nothing else.
OneReadForFrontMetadata ==
    /\ opc \in Final /\ Reliable /\ Sound(file) /\ WithinLimits(file) /\ Flat(file)
    /\ \A k \in MetadataWords(file) : k < config.buffer
    => opc = "opened" /\ reads = 1 /\ stats.ioCalls = 1 /\ oifd = OpenedIFDs(file)

\* Opening a file whose chain does not loop ends, on every path and with any device.
OpeningEnds == (HeaderValid(file) => Acyclic(file)) ~> opc \in Final

-----------------------------------------------------------------------------
(***************************************************************************)
(* What the documentation says and the code does not keep.                 *)
(***************************************************************************)

\* OPTIMIZED_READER_FLOW.md:4: the optimized reader has "100% correctness parity with the
\* traditional reader".
OpenedParity == opc = "opened" /\ Sound(file) => oifd = OpenedIFDs(file)

\* OPTIMIZED_READER_FLOW.md:203: loops in the chain of IFDs do not make the parsing
\* infinite.
LoopsAreBroken == <>(opc \in Final)

\* OPTIMIZED_READER_FLOW.md:245: the fallback costs more reads but always gets through; it
\* returns IFDs or an error.
FallbackReturns == opc # "panic"
=============================================================================
