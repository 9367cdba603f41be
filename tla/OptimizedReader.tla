--------------------------- MODULE OptimizedReader ---------------------------
(***************************************************************************)
(* OpenReaderOptimized (reader_optimized.go): one Read of BufferSize words,*)
(* a first walk over the IFDs in that buffer that collects the ranges of   *)
(* metadata missing from it, a walk over the chain on the device that      *)
(* groups the IFDs into a few large ranges, one Read per range into an     *)
(* expanded buffer, and a parse of the result; whatever fails on the way,  *)
(* the traditional reader takes over (TiffReader, on the same device).     *)
(*                                                                         *)
(* One step per Read and per IFD looked at.  Lengths are in words.         *)
(***************************************************************************)
EXTENDS TiffReader, DataRanges

LOCAL INSTANCE FiniteSetsExt

CONSTANTS
    BufferSizes,       \* values of WithBufferSize
    Fallbacks,         \* values of EnableFallback
    MaxAdaptiveReads,
    MaxIFDEntrySize,
    MaxEntries,        \* 10000 in the code
    MaxIFDs,           \* 1000: IFDs the final parse accepts
    MaxChain,          \* 100: IFDs after which the device walk stops
    RangePadding,      \* 2 KiB after an IFD that lies beyond the buffer
    EstimatedIFDSize,  \* estimateIFDSize
    SubIFDPadding,     \* 8 KiB
    ClusterPadding,    \* 2 KiB
    MaxClusterSize,    \* 1 MiB
    MaxBatchSize,      \* 10 MiB
    MetadataBound      \* model bound on the metadata size computed for a cyclic chain

ASSUME OptimizedReaderAssumption ==
    /\ BufferSizes \subseteq Nat /\ Fallbacks \subseteq BOOLEAN
    /\ {MaxAdaptiveReads, MaxIFDEntrySize, MaxEntries, MaxIFDs, MaxChain, RangePadding,
        SubIFDPadding, MaxClusterSize, MaxBatchSize,
        MetadataBound} \subseteq Nat
    /\ EstimatedIFDSize \in Nat \ {0} /\ ClusterPadding \in Nat \ {0}
    /\ Magic > MaxEntries   \* the header is no entry count

VARIABLES
    config,    \* [buffer, fallback]
    opc,       \* where OpenReaderOptimized is
    buf,       \* the buffer: an image of a prefix of the file
    off,       \* the local offset of the loop over IFDs that is running
    missing,   \* missingRanges; later the ranges still to be read
    chain,     \* ifdOffsets of the device walk, as a set
    count,     \* len(ifdOffsets), then ifdCount of the final parse
    osubs,     \* sub-IFD offsets of the current IFD still to be parsed
    ocur,      \* its ifdList
    oifd,      \* reader.Ifd
    stats,     \* IOCalls, BytesRead, AdaptiveCalls, MetadataSize
    reads      \* history: Reads made on the device, those of the chain walk when they deliver

walk  == <<off, missing, chain, count>>
parse == <<osubs, ocur, oifd>>
ovars == <<config, opc, buf, walk, parse, stats, reads>>

(***************************************************************************)
(* analyzeIFDForMissingData, for the IFD at o of a buffer b.               *)
(***************************************************************************)
EntryWithin(b, o, i) == EntryPos(o, i) + EntrySize <= b.len

\* The sub-IFD offsets that can be told from the buffer.
SubIFDsSeen(b, e) ==
    IF Embedded(e) THEN (IF e.size = 0 THEN {} ELSE {e.offset})
    ELSE IF e.offset + e.size <= b.len
         THEN {WordAt(b, e.offset + k) : k \in 0 .. e.size - 1}
         ELSE {}

SubIFDRange(S) == DataRange(MinOf(S), MaxOf(S) + EstimatedIFDSize + SubIFDPadding - MinOf(S))

\* Mutant: a value that ends with the buffer is taken for missing.
MissingForEntryInclusive(b, e) ==
    IF e.size > MaxIFDEntrySize THEN {}
    ELSE IF ~ Embedded(e) /\ e.offset + e.size >= b.len THEN {DataRange(e.offset, e.size)}
    ELSE {}

MissingForEntry(b, e) ==
    IF e.size > MaxIFDEntrySize THEN {}
    ELSE (IF ~ Embedded(e) /\ e.offset + e.size > b.len THEN {DataRange(e.offset, e.size)} ELSE {})
         \cup
         (IF e.tag = SubIFDTag /\ SubIFDsSeen(b, e) # {}
          THEN {r \in {SubIFDRange(SubIFDsSeen(b, e))} : End(r) > b.len}
          ELSE {})

MissingForIFD(b, o) ==
    UNION {IF EntryWithin(b, o, i) THEN MissingForEntry(b, Entry(b, o, i))
           ELSE {DataRange(EntryPos(o, i), EntrySize)} : i \in 1 .. EntryCount(b, o)}

\* Mutant: the walk does not advance when the offset is not in the buffer.
NextIFDSeenStuck(b, o) == IF NextPos(b, o) + 2 <= b.len THEN WordAt(b, NextPos(b, o)) ELSE o

\* The next-IFD offset is looked for in 8 bytes, two words, even in a classic TIFF.
NextIFDSeen(b, o) == IF NextPos(b, o) + 2 <= b.len THEN WordAt(b, NextPos(b, o)) ELSE 0

\* Mutant: the distance to the IFD with the wrong sign.
RangeToIFDBackward(b, o) == DataRange(b.len, (b.len - o) + EstimatedIFDSize + RangePadding)

\* An IFD beyond the buffer: one range from the end of the buffer to behind it.
RangeToIFD(b, o) == DataRange(b.len, (o - b.len) + EstimatedIFDSize + RangePadding)

(***************************************************************************)
(* calculateSmartIFDBatch: one range per cluster of nearby IFDs, in place  *)
(* of every range found missing before.                                    *)
(***************************************************************************)
\* Mutant: the cluster that is open when the loop ends is forgotten.
ClusterRangesNoLast(S) ==
    {r \in {DataRange(s, MaxOf(Cluster(S, s)) - s + ClusterPadding) :
              s \in ClusterStarts(S) \ {MaxOf(ClusterStarts(S))}} :
        r.size <= MaxClusterSize}

ClusterRanges(S) ==
    {r \in {DataRange(s, MaxOf(Cluster(S, s)) - s + ClusterPadding) : s \in ClusterStarts(S)} :
        r.size <= MaxClusterSize}

SmartBatch(S, n) ==
    IF n <= 1 \/ MapThenSumSet(LAMBDA r : r.size, ClusterRanges(S)) > MaxBatchSize
    THEN {}
    ELSE ClusterRanges(S)

\* The ranges that will be read.
Batch(R, S, n) == IF SmartBatch(S, n) = {} THEN R ELSE SmartBatch(S, n)

(***************************************************************************)
(* readMissingRanges: the zeroed buffer up to the end of the last range,   *)
(* and what one Read of n words at offset o puts into it.                  *)
(***************************************************************************)
Expanded(b, R) ==
    LET len == MaxOf({b.len} \cup {End(r) : r \in R})
    IN  [len |-> len, word |-> [k \in 0 .. len - 1 |-> WordAt(b, k)]]

\* Mutant: the words read are put at the front of the buffer.
PatchedAtFront(b, o, n) ==
    [len |-> b.len, word |-> [k \in 0 .. b.len - 1 |->
                                 IF k \in 0 .. n - 1 THEN WordAt(file, o + k) ELSE b.word[k]]]

Patched(b, o, n) ==
    [len |-> b.len, word |-> [k \in 0 .. b.len - 1 |->
                                 IF k \in o .. o + n - 1 THEN WordAt(file, k) ELSE b.word[k]]]

(***************************************************************************)
(* parseIFDFromBufferOptimized: here every entry counts, also one that a   *)
(* later entry with its tag replaces.                                      *)
(***************************************************************************)
\* Mutant: a value that ends with the buffer is refused.
ParseableStrict(b, o) ==
    /\ EntryCount(b, o) <= MaxEntries
    /\ DirectoryWithin(b, o)
    /\ \A i \in 1 .. EntryCount(b, o) :
         LET e == Entry(b, o, i)
         IN  /\ e.size <= MaxIFDEntrySize
             /\ Embedded(e) \/ e.offset + e.size < b.len

Parseable(b, o) ==
    /\ EntryCount(b, o) <= MaxEntries
    /\ DirectoryWithin(b, o)
    /\ \A i \in 1 .. EntryCount(b, o) :
         LET e == Entry(b, o, i)
         IN  /\ e.size <= MaxIFDEntrySize
             /\ Embedded(e) \/ e.offset + e.size <= b.len

ParsedIFD(b, o) == DecodeIFD(b, o, [i \in EntryMap(b, o) |-> b.len])

\* fallbackToTraditionalOptimized reports the reads it thinks were made.
EstimatedIOCalls(lists) ==
    LET ifdCalls(ifd) == 1 + Cardinality({e \in ifd.entries : e[2] > Threshold})
        listCalls(l)  == MapThenSumSet(LAMBDA k : ifdCalls(l[k]), DOMAIN l)
    IN  1 + MapThenSumSet(LAMBDA n : listCalls(lists[n]), DOMAIN lists)

HasNil(lists) == \E n \in DOMAIN lists : \E k \in DOMAIN lists[n] : lists[n][k] = NilIFD

\* One adaptive Read that delivered n words.
Counted(st, n) ==
    [ioCalls |-> st.ioCalls + 1, bytesRead |-> st.bytesRead + n,
     adaptiveCalls |-> st.adaptiveCalls + 1, metadataSize |-> st.metadataSize]

NoStats == [ioCalls |-> 0, bytesRead |-> 0, adaptiveCalls |-> 0, metadataSize |-> 0]

-----------------------------------------------------------------------------
OInit ==
    /\ TInit /\ tpc = "idle"
    /\ config \in [buffer : BufferSizes, fallback : Fallbacks]
    /\ opc = "initial"
    /\ buf = [len |-> 0, word |-> [k \in 0 .. -1 |-> 0]]
    /\ off = 0 /\ missing = {} /\ chain = {} /\ count = 0
    /\ osubs = <<>> /\ ocur = <<>> /\ oifd = <<>>
    /\ stats = NoStats /\ reads = 0

env == <<device, config>>

\* The initial Read; identifyMissingDataRanges then starts from the header in the buffer.
InitialRead ==
    /\ opc = "initial"
    /\ \E n \in ReadCounts(0, config.buffer) :
         /\ buf' = [len |-> n, word |-> [k \in 0 .. n - 1 |-> WordAt(file, k)]]
         /\ stats' = [stats EXCEPT !.ioCalls = 1, !.bytesRead = n]
    /\ reads' = reads + 1
    /\ IF HeaderValid(buf') THEN opc' = "identify" /\ off' = FirstIFD(buf')
       ELSE opc' = "failed" /\ UNCHANGED off
    /\ UNCHANGED <<env, missing, chain, count, parse, tvars>>

\* Any Read or Seek that the code checks may fail.
DeviceError ==
    /\ MayFail /\ opc \in {"initial", "read"}
    /\ opc' = "failed"
    /\ UNCHANGED <<env, buf, walk, parse, stats, reads, tvars>>

AnalyzeIFD ==
    /\ opc = "identify" /\ off # 0 /\ off < buf.len
    /\ IF EntryCount(buf, off) > MaxEntries
       THEN opc' = "failed" /\ UNCHANGED <<off, missing>>
       ELSE /\ missing' = missing \cup MissingForIFD(buf, off)
            /\ off' = NextIFDSeen(buf, off)
            /\ UNCHANGED opc
    /\ UNCHANGED <<env, buf, chain, count, parse, stats, reads, tvars>>

IFDBeyondBuffer ==
    /\ opc = "identify" /\ off # 0 /\ off >= buf.len
    /\ missing' = missing \cup {RangeToIFD(buf, off)}
    /\ off' = 0
    /\ UNCHANGED <<env, opc, buf, chain, count, parse, stats, reads, tvars>>

IdentifyDone ==
    /\ opc = "identify" /\ off = 0
    /\ missing' = MergeDataRanges(missing)
    /\ opc' = IF missing = {} THEN "parseHeader" ELSE "walk"
    /\ off' = FirstIFD(buf)
    /\ UNCHANGED <<env, buf, chain, count, parse, stats, reads, tvars>>

\* readNextIFDOffsetDirect: two small reads; an error ends the walk quietly.
WalkChain ==
    /\ opc = "walk" /\ off # 0
    /\ chain' = chain \cup {off}
    /\ count' = count + 1
    /\ IF count + 1 > MaxChain
       THEN off' = 0 /\ UNCHANGED reads
       ELSE \/ /\ off' = IF DirectoryWithin(file, off) THEN WordAt(file, NextPos(file, off)) ELSE 0
               /\ reads' = reads + Cardinality({k \in {off, NextPos(file, off)} : k < file.len})
            \/ MayFail /\ off' = 0 /\ UNCHANGED reads
    /\ UNCHANGED <<env, opc, buf, missing, parse, stats, tvars>>

\* Mutant: the circuit breaker looks at the ranges before they are batched.
PlanReadsEarlyBreaker ==
    /\ opc = "walk" /\ off = 0
    /\ LET R == Batch(missing, chain, count)
       IN  IF Cardinality(missing) > MaxAdaptiveReads
           THEN opc' = "failed" /\ UNCHANGED <<buf, missing>>
           ELSE opc' = "read" /\ missing' = R /\ buf' = Expanded(buf, R)
    /\ UNCHANGED <<env, off, chain, count, parse, stats, reads, tvars>>

\* The batch, the circuit breaker on its size, and the expanded buffer.
PlanReads ==
    /\ opc = "walk" /\ off = 0
    /\ LET R == Batch(missing, chain, count)
       IN  IF Cardinality(R) > MaxAdaptiveReads
           THEN opc' = "failed" /\ UNCHANGED <<buf, missing>>
           ELSE opc' = "read" /\ missing' = R /\ buf' = Expanded(buf, R)
    /\ UNCHANGED <<env, off, chain, count, parse, stats, reads, tvars>>

\* One Read per range, in the order of the offsets; how much it delivered is not checked.
ReadRange ==
    /\ opc = "read" /\ missing # {}
    /\ LET r == CHOOSE r \in missing : \A q \in missing : r.offset <= q.offset
       IN  IF source = "buffered" /\ r.offset >= file.len
           THEN opc' = "failed" /\ UNCHANGED <<buf, missing, stats, reads>>
           ELSE /\ \E n \in IF r.offset < file.len THEN ReadCounts(r.offset, r.size) ELSE {0} :
                     /\ buf' = Patched(buf, r.offset, n)
                     /\ stats' = Counted(stats, n)
                /\ missing' = missing \ {r}
                /\ reads' = reads + 1
                /\ UNCHANGED opc
    /\ UNCHANGED <<env, off, chain, count, parse, tvars>>

\* parseCompleteMetadataFromBufferOptimized up to calculateActualMetadataSize.
ParseHeader ==
    /\ opc = "parseHeader" \/ (opc = "read" /\ missing = {})
    /\ IF HeaderValid(buf)
       THEN /\ opc' = "metadata" /\ off' = FirstIFD(buf)
            /\ stats' = [stats EXCEPT !.metadataSize = HeadSize]
       ELSE opc' = "failed" /\ UNCHANGED <<off, stats>>
    /\ UNCHANGED <<env, buf, missing, chain, count, parse, reads, tvars>>

MetadataOfIFD ==
    /\ opc = "metadata" /\ off # 0 /\ off < buf.len
    /\ stats' = [stats EXCEPT !.metadataSize =
                   Least(MetadataBound, @ + 2 + EntrySize * EntryCount(buf, off))]
    /\ off' = NextIFDSeen(buf, off)
    /\ UNCHANGED <<env, opc, buf, missing, chain, count, parse, reads, tvars>>

MetadataDone ==
    /\ opc = "metadata" /\ (off = 0 \/ off >= buf.len)
    /\ opc' = "parse" /\ off' = FirstIFD(buf) /\ count' = 0
    /\ UNCHANGED <<env, buf, missing, chain, parse, stats, reads, tvars>>

ParseIFD ==
    /\ opc = "parse" /\ off # 0
    /\ count' = count + 1
    /\ IF count + 1 > MaxIFDs \/ (off < buf.len /\ ~ Parseable(buf, off))
       THEN opc' = "failed" /\ UNCHANGED <<off, osubs, ocur>>
       ELSE IF off >= buf.len
       THEN opc' = "opened" /\ UNCHANGED <<off, osubs, ocur>>
       ELSE LET ifd == ParsedIFD(buf, off)
            IN  /\ ocur' = <<ifd>>
                /\ osubs' = GetSubIFD(ifd)
                /\ off' = ifd.next
                /\ opc' = "subs"
    /\ UNCHANGED <<env, buf, missing, chain, oifd, stats, reads, tvars>>

ParseSubIFD ==
    /\ opc = "subs" /\ osubs # <<>>
    /\ ocur' = IF Parseable(buf, Head(osubs)) THEN Append(ocur, ParsedIFD(buf, Head(osubs)))
               ELSE ocur
    /\ osubs' = Tail(osubs)
    /\ UNCHANGED <<env, opc, buf, walk, oifd, stats, reads, tvars>>

ListParsed ==
    /\ opc = "subs" /\ osubs = <<>>
    /\ oifd' = Append(oifd, ocur)
    /\ ocur' = <<>>
    /\ opc' = "parse"
    /\ UNCHANGED <<env, buf, walk, osubs, stats, reads, tvars>>

ParseDone ==
    /\ opc = "parse" /\ off = 0
    /\ opc' = "opened"
    /\ UNCHANGED <<env, buf, walk, parse, stats, reads, tvars>>

\* The half-built OptimizedReader is dropped; OpenReader starts over on the same source.
Fallback ==
    /\ opc = "failed" /\ config.fallback
    /\ opc' = "fallback" /\ tpc' = "header"
    /\ oifd' = <<>> /\ ocur' = <<>> /\ osubs' = <<>> /\ stats' = NoStats
    /\ UNCHANGED <<env, buf, walk, reads, toff, tsubs, tcur, tifd>>

Refuse ==
    /\ \/ opc = "failed" /\ ~ config.fallback
       \/ opc = "fallback" /\ tpc = "err"
    /\ opc' = "refused"
    /\ UNCHANGED <<env, buf, walk, parse, stats, reads, tvars>>

\* Estimating the I/O calls dereferences every IFD, a nil sub-IFD included.
FallbackDone ==
    /\ opc = "fallback" /\ tpc = "done"
    /\ IF HasNil(tifd)
       THEN opc' = "panic" /\ UNCHANGED <<oifd, stats>>
       ELSE /\ opc' = "fellback" /\ oifd' = tifd
            /\ stats' = [stats EXCEPT !.ioCalls = EstimatedIOCalls(tifd)]
    /\ UNCHANGED <<env, buf, walk, osubs, ocur, reads, tvars>>

TraditionalStep == opc = "fallback" /\ TNext /\ UNCHANGED ovars

ONext ==
    \/ InitialRead \/ DeviceError \/ AnalyzeIFD \/ IFDBeyondBuffer \/ IdentifyDone
    \/ WalkChain \/ PlanReads \/ ReadRange \/ ParseHeader \/ MetadataOfIFD \/ MetadataDone
    \/ ParseIFD \/ ParseSubIFD \/ ListParsed \/ ParseDone
    \/ Fallback \/ Refuse \/ FallbackDone \/ TraditionalStep

vars == <<device, tvars, ovars>>

OptSpec == OInit /\ [][ONext]_vars /\ WF_vars(ONext)
=============================================================================
