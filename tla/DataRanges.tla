----------------------------- MODULE DataRanges -----------------------------
(***************************************************************************)
(* Ranges of a file and the two ways reader_optimized.go puts them         *)
(* together, defined by what they return: mergeDataRanges joins ranges     *)
(* that overlap or nearly touch, groupIFDsIntoClusters groups offsets.     *)
(* RangeSweep has the loops.                                               *)
(***************************************************************************)
EXTENDS Integers, FiniteSets

CONSTANTS
    MaxBatchGap,   \* 64 KiB: the largest gap that is read rather than skipped
    ClusterGap     \* 4 KiB: the largest gap between neighbours of a cluster

ASSUME DataRangesAssumption == MaxBatchGap \in Nat /\ ClusterGap \in Nat

DataRange(o, s) == [offset |-> o, size |-> s]
Ranges      == [offset : Nat, size : Nat \ {0}]
End(r)      == r.offset + r.size

MinOf(S) == CHOOSE x \in S : \A y \in S : x <= y
MaxOf(S) == CHOOSE x \in S : \A y \in S : x >= y

(***************************************************************************)
(* mergeDataRanges: sorted by offset, a range joins the one before it      *)
(* when it starts within MaxBatchGap of where everything before it ends.   *)
(***************************************************************************)
Starts(R) ==
    {s \in {r.offset : r \in R} : \A r \in R : r.offset < s => End(r) + MaxBatchGap < s}

Group(R, s) ==
    {r \in R : r.offset >= s /\ \A t \in Starts(R) : t > s => r.offset < t}

MergeDataRanges(R) ==
    {DataRange(s, MaxOf({End(r) : r \in Group(R, s)}) - s) : s \in Starts(R)}

(***************************************************************************)
(* groupIFDsIntoClusters: a cluster starts where the next smaller offset   *)
(* is more than ClusterGap away.                                           *)
(***************************************************************************)
\* Mutant: every offset starts a cluster.
ClusterStartsEvery(S) == {s \in S : \A t \in S : t < s => s - t > 0}

ClusterStarts(S) == {s \in S : \A t \in S : t < s => s - t > ClusterGap}

Cluster(S, s) == {t \in S : t >= s /\ \A u \in ClusterStarts(S) : u > s => t < u}

Clusters(S) == {Cluster(S, s) : s \in ClusterStarts(S)}
=============================================================================
