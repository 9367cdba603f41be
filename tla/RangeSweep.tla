----------------------------- MODULE RangeSweep -----------------------------
(***************************************************************************)
(* The loops of mergeDataRanges and groupIFDsIntoClusters: sort, then one  *)
(* pass that either extends what is open or closes it and opens the next.  *)
(***************************************************************************)
EXTENDS DataRanges, Sequences

CONSTANTS
    RangeSlices,    \* inputs of mergeDataRanges
    OffsetSlices    \* inputs of groupIFDsIntoClusters

\* Both return at once what they are given when it is empty.
ASSUME SweepAssumption ==
    /\ RangeSlices \subseteq Seq(Ranges) \ {<<>>}
    /\ OffsetSlices \subseteq Seq(Nat) \ {<<>>}

VARIABLES
    input,    \* a slice of ranges, or of offsets
    rest,     \* what the sorted slice still holds
    current,  \* the range or cluster that is open
    closed,   \* merged, or clusters
    pc        \* "merge" then "merged", or "cluster" then "clustered"

sweepVars == <<input, rest, current, closed, pc>>

Elements(s) == {s[i] : i \in 1 .. Len(s)}

Shuffles(s) ==
    LET places == 1 .. Len(s)
        onto   == {p \in [places -> places] : \A k \in places : \E i \in places : p[i] = k}
    IN  {[i \in places |-> s[p[i]]] : p \in onto}

\* sort.Slice is not stable: elements with equal keys come in any order.
Orders(s, key) ==
    {t \in Shuffles(s) : \A i, j \in 1 .. Len(s) : i < j => key[t[i]] <= key[t[j]]}

MergeInit ==
    /\ pc = "merge" /\ input \in RangeSlices /\ closed = <<>>
    /\ \E s \in Orders(input, [r \in Elements(input) |-> r.offset]) :
          current = s[1] /\ rest = Tail(s)

ClusterInit ==
    /\ pc = "cluster" /\ input \in OffsetSlices /\ closed = <<>>
    /\ \E s \in Orders(input, [x \in Elements(input) |-> x]) :
          current = <<s[1]>> /\ rest = Tail(s)

SweepInit == MergeInit \/ ClusterInit

\* Mutant: the range is cut back to the end of the one that joins it.
JoinedToNext(r, next) == DataRange(r.offset, End(next) - r.offset)

Joined(r, next) ==
    DataRange(r.offset, (IF End(next) > End(r) THEN End(next) ELSE End(r)) - r.offset)

MergeStep ==
    /\ pc = "merge" /\ rest # <<>>
    /\ LET next == Head(rest)
       IN  IF next.offset <= End(current) + MaxBatchGap
           THEN current' = Joined(current, next) /\ UNCHANGED closed
           ELSE current' = next /\ closed' = Append(closed, current)
    /\ rest' = Tail(rest)
    /\ UNCHANGED <<input, pc>>

\* Mutant: the gap is measured from the first offset of the cluster.
NearFirst(cluster, x) == x - cluster[1] <= ClusterGap

Near(cluster, x) == x - cluster[Len(cluster)] <= ClusterGap

ClusterStep ==
    /\ pc = "cluster" /\ rest # <<>>
    /\ IF Near(current, Head(rest))
       THEN current' = Append(current, Head(rest)) /\ UNCHANGED closed
       ELSE current' = <<Head(rest)>> /\ closed' = Append(closed, current)
    /\ rest' = Tail(rest)
    /\ UNCHANGED <<input, pc>>

\* The one that is open when the slice is exhausted is added after the loop.
Finish ==
    /\ pc \in {"merge", "cluster"} /\ rest = <<>>
    /\ closed' = Append(closed, current)
    /\ pc' = IF pc = "merge" THEN "merged" ELSE "clustered"
    /\ UNCHANGED <<input, rest, current>>

SweepNext == MergeStep \/ ClusterStep \/ Finish

SweepSpec == SweepInit /\ [][SweepNext]_sweepVars

-----------------------------------------------------------------------------
\* The loop of mergeDataRanges returns the ranges MergeDataRanges defines, in ascending
\* order and each once, whatever the sort did with equal offsets.
MergeIsDefinition ==
    pc = "merged" =>
        /\ Elements(closed) = MergeDataRanges(Elements(input))
        /\ \A i \in 1 .. Len(closed) - 1 : End(closed[i]) + MaxBatchGap < closed[i + 1].offset

\* The loop of groupIFDsIntoClusters returns the clusters that Clusters defines.
ClustersAreDefinition ==
    pc = "clustered" =>
        {Elements(closed[i]) : i \in 1 .. Len(closed)} = Clusters(Elements(input))
=============================================================================
