------------------------ MODULE OptimizedReaderProofs ------------------------
(***************************************************************************)
(* Theorems about the optimized reader, for every file, every device and   *)
(* every value of the limits; and before them, what merging and clustering *)
(* return, for every set of ranges or offsets, and that the loops of       *)
(* mergeDataRanges and groupIFDsIntoClusters return it, for slices of any  *)
(* length in any order.  The finite sets that the code sorts have a        *)
(* smallest and a largest element; all that DataRanges defines follows.    *)
(***************************************************************************)
EXTENDS ReaderProperties, RangeSweep, TiffReaderProofs

(***************************************************************************)
(* Ranges and clusters.                                                    *)
(***************************************************************************)

\* A non-empty set of naturals has a smallest element.
LEMMA MinOfNat ==
    ASSUME NEW S \in SUBSET Nat, S # {}
    PROVE  MinOf(S) \in S /\ \A y \in S : MinOf(S) <= y
<1>1. PICK x \in S : \A y \in S : ~ (<<y, x>> \in OpToRel(<, Nat))
  BY NatLessThanWellFounded, WFMin
<1>2. \A y \in S : x <= y
  <2> SUFFICES ASSUME NEW y \in S PROVE x <= y
    OBVIOUS
  <2>1. ~ (y < x)
    BY <1>1 DEF OpToRel
  <2> QED
    BY <2>1
<1> QED
  BY <1>2 DEF MinOf

\* A non-empty finite set of naturals has a largest element: a smallest finite set without
\* one would have one without any of its elements.
LEMMA MaxOfFinite ==
    ASSUME NEW S \in SUBSET Nat, IsFiniteSet(S), S # {}
    PROVE  MaxOf(S) \in S /\ \A y \in S : MaxOf(S) >= y
<1> DEFINE HasMax(T) == \E x \in T : \A y \in T : x >= y
           Bad == {T \in FiniteSubsetsOf(S) : T # {} /\ ~ HasMax(T)}
<1>1. Bad = {}
  <2> SUFFICES ASSUME Bad # {} PROVE FALSE
    OBVIOUS
  <2>1. PICK T \in Bad : \A U \in Bad : ~ (<<U, T>> \in StrictSubsetOrdering(S))
    BY FS_StrictSubsetOrderingWellFounded, WFMin
  <2>2. T \subseteq S /\ IsFiniteSet(T) /\ T # {} /\ ~ HasMax(T)
    BY DEF FiniteSubsetsOf
  <2>3. PICK x \in T : TRUE
    BY <2>2
  <2> DEFINE U == T \ {x}
  <2>4. U \notin Bad
    BY <2>1, <2>2, <2>3 DEF StrictSubsetOrdering
  <2>5. U = {} \/ HasMax(U)
    <3>1. IsFiniteSet(U)
      BY <2>2, FS_RemoveElement
    <3> QED
      BY <2>2, <2>4, <3>1 DEF FiniteSubsetsOf
  <2>6. HasMax(T)
    <3>1. CASE U = {}
      BY <2>2, <2>3, <3>1
    <3>2. CASE HasMax(U)
      BY <2>2, <2>3, <3>2
    <3> QED
      BY <2>5, <3>1, <3>2
  <2> QED
    BY <2>2, <2>6
<1>2. HasMax(S)
  BY <1>1 DEF FiniteSubsetsOf
<1> QED
  BY <1>2 DEF MaxOf

\* What a function takes a finite set to is finite.
LEMMA FiniteRange ==
    ASSUME NEW S, IsFiniteSet(S), NEW f, DOMAIN f = S
    PROVE  IsFiniteSet({f[x] : x \in S})
<1> DEFINE g == [x \in S |-> f[x]]
<1>1. g \in Surjection(S, {f[x] : x \in S})
  BY DEF Surjection
<1> QED
  BY <1>1, FS_Surjection

(***************************************************************************)
(* mergeDataRanges.                                                        *)
(***************************************************************************)
\* The offsets and the ends of finitely many ranges.
LEMMA OffsetsAndEnds ==
    ASSUME NEW R \in SUBSET Ranges, IsFiniteSet(R)
    PROVE  /\ {r.offset : r \in R} \in SUBSET Nat /\ IsFiniteSet({r.offset : r \in R})
           /\ {End(r) : r \in R} \in SUBSET Nat /\ IsFiniteSet({End(r) : r \in R})
           /\ \A r \in R : r.offset \in Nat /\ End(r) \in Nat /\ r.offset < End(r)
<1>1. \A r \in R : r.offset \in Nat /\ End(r) \in Nat /\ r.offset < End(r)
  BY DEF Ranges, End
<1> DEFINE offsets == [r \in R |-> r.offset]
           ends    == [r \in R |-> End(r)]
<1>2. IsFiniteSet({offsets[r] : r \in R}) /\ IsFiniteSet({ends[r] : r \in R})
  BY FiniteRange
<1>3. {offsets[r] : r \in R} = {r.offset : r \in R} /\ {ends[r] : r \in R} = {End(r) : r \in R}
  OBVIOUS
<1> QED
  BY <1>1, <1>2, <1>3

\* There is a range with the smallest offset.
LEMMA FirstRange ==
    ASSUME NEW R \in SUBSET Ranges, R # {}
    PROVE  \E r \in R : \A q \in R : r.offset <= q.offset
<1> DEFINE offsets == {q.offset : q \in R}
<1>1. offsets \in SUBSET Nat /\ offsets # {}
  BY DEF Ranges
<1>2. MinOf(offsets) \in offsets /\ \A x \in offsets : MinOf(offsets) <= x
  BY <1>1, MinOfNat
<1> QED
  BY <1>2

\* Every range belongs to the group of the last start at or before it.
LEMMA EveryRangeInGroup ==
    ASSUME NEW R \in SUBSET Ranges, IsFiniteSet(R), NEW r \in R
    PROVE  \E s \in Starts(R) : r \in Group(R, s)
<1> DEFINE offsets == {q.offset : q \in R}
           before  == {t \in Starts(R) : t <= r.offset}
<1>1. offsets \in SUBSET Nat /\ IsFiniteSet(offsets) /\ r.offset \in offsets
      /\ \A q \in R : q.offset \in Nat
  BY OffsetsAndEnds
<1>2. MinOf(offsets) \in offsets /\ \A x \in offsets : MinOf(offsets) <= x
  BY <1>1, MinOfNat
<1>3. MinOf(offsets) \in Starts(R)
  <2>1. \A q \in R : ~ (q.offset < MinOf(offsets))
    <3> SUFFICES ASSUME NEW q \in R PROVE ~ (q.offset < MinOf(offsets))
      OBVIOUS
    <3>1. q.offset \in offsets
      OBVIOUS
    <3>2. MinOf(offsets) <= q.offset /\ q.offset \in Nat /\ MinOf(offsets) \in Nat
      BY <1>1, <1>2, <3>1
    <3> HIDE DEF offsets
    <3> QED
      BY <3>2
  <2> QED
    BY <1>2, <2>1 DEF Starts
<1>4. before \in SUBSET Nat /\ IsFiniteSet(before) /\ before # {}
  <2>1. before \subseteq offsets
    BY DEF Starts
  <2>2. MinOf(offsets) \in before
    BY <1>1, <1>2, <1>3
  <2> QED
    BY <1>1, <2>1, <2>2, FS_Subset
<1>5. MaxOf(before) \in before /\ \A x \in before : MaxOf(before) >= x
  BY <1>4, MaxOfFinite
<1>6. \A t \in Starts(R) : t > MaxOf(before) => r.offset < t
  <2> SUFFICES ASSUME NEW t \in Starts(R), t > MaxOf(before), ~ (r.offset < t) PROVE FALSE
    OBVIOUS
  <2>1. t \in Nat /\ r.offset \in Nat
    BY <1>1 DEF Starts
  <2>2. t \in before
    BY <2>1
  <2> QED
    BY <1>4, <1>5, <2>1, <2>2
<1>7. MaxOf(before) \in Starts(R) /\ r.offset >= MaxOf(before)
  BY <1>1, <1>4, <1>5
<1> QED
  BY <1>6, <1>7 DEF Group

\* The range made for a start reaches from it to the largest end in its group.
MergedRange(R, s) == DataRange(s, MaxOf({End(r) : r \in Group(R, s)}) - s)

LEMMA MergedRangeSpans ==
    ASSUME NEW R \in SUBSET Ranges, IsFiniteSet(R), NEW s \in Starts(R)
    PROVE  /\ MergedRange(R, s) \in Ranges /\ MergedRange(R, s).offset = s
           /\ \A r \in Group(R, s) : s <= r.offset /\ End(r) <= End(MergedRange(R, s))
           /\ \E r \in Group(R, s) : End(r) = End(MergedRange(R, s))
<1> DEFINE ends == {End(r) : r \in Group(R, s)}
<1>1. Group(R, s) \in SUBSET Ranges /\ IsFiniteSet(Group(R, s)) /\ Group(R, s) \subseteq R
  <2>1. Group(R, s) \subseteq R
    BY DEF Group
  <2> QED
    BY <2>1, FS_Subset
<1>2. ends \in SUBSET Nat /\ IsFiniteSet(ends)
  BY <1>1, OffsetsAndEnds
<1>3. PICK r \in R : r.offset = s
  BY DEF Starts
<1>4. s \in Nat /\ s < End(r) /\ End(r) \in Nat
  BY <1>3, OffsetsAndEnds
<1>5. r \in Group(R, s)
  BY <1>3, <1>4 DEF Group, Starts
<1>6. MaxOf(ends) \in ends /\ \A x \in ends : MaxOf(ends) >= x
  <2>1. ends # {}
    BY <1>5
  <2> QED
    BY <1>2, <2>1, MaxOfFinite
<1>7. MaxOf(ends) \in Nat /\ MaxOf(ends) > s
  <2>1. End(r) \in ends
    BY <1>5
  <2>2. MaxOf(ends) \in Nat /\ MaxOf(ends) >= End(r)
    BY <1>2, <1>6, <2>1
  <2> QED
    BY <1>4, <2>2
<1>8. MergedRange(R, s) = [offset |-> s, size |-> MaxOf(ends) - s]
  BY DEF MergedRange, DataRange
<1>9. End(MergedRange(R, s)) = MaxOf(ends)
  <2> HIDE DEF ends
  <2> QED
    BY <1>4, <1>7, <1>8 DEF End
<1>10. MergedRange(R, s) \in Ranges /\ MergedRange(R, s).offset = s
  <2> HIDE DEF ends
  <2> QED
    BY <1>4, <1>7, <1>8 DEF Ranges
<1>11. \A q \in Group(R, s) : s <= q.offset /\ End(q) <= MaxOf(ends)
  <2> SUFFICES ASSUME NEW q \in Group(R, s) PROVE s <= q.offset /\ End(q) <= MaxOf(ends)
    OBVIOUS
  <2>1. End(q) \in ends /\ End(q) \in Nat /\ q.offset \in Nat /\ q.offset >= s
    BY <1>1, OffsetsAndEnds DEF Group
  <2>2. MaxOf(ends) >= End(q)
    BY <1>6, <2>1
  <2> HIDE DEF ends
  <2> QED
    BY <1>4, <1>7, <2>1, <2>2
<1>12. \E q \in Group(R, s) : End(q) = MaxOf(ends)
  BY <1>6
<1> QED
  BY <1>9, <1>10, <1>11, <1>12

LEMMA MergeIsMergedRanges ==
    ASSUME NEW R
    PROVE  MergeDataRanges(R) = {MergedRange(R, s) : s \in Starts(R)}
  BY DEF MergeDataRanges, MergedRange

\* What merging returns are finitely many non-empty ranges.
LEMMA MergeTyped ==
    ASSUME NEW R \in SUBSET Ranges, IsFiniteSet(R)
    PROVE  MergeDataRanges(R) \in SUBSET Ranges /\ IsFiniteSet(MergeDataRanges(R))
<1> DEFINE merged == [s \in Starts(R) |-> MergedRange(R, s)]
<1>1. IsFiniteSet(Starts(R))
  <2>1. Starts(R) \subseteq {r.offset : r \in R}
    BY DEF Starts
  <2> QED
    BY <2>1, OffsetsAndEnds, FS_Subset
<1>2. IsFiniteSet({merged[s] : s \in Starts(R)})
  BY <1>1, FiniteRange
<1> QED
  BY <1>2, MergedRangeSpans, MergeIsMergedRanges

\* mergeDataRanges loses nothing: every range that was asked for lies within one that is read.
THEOREM MergeCovers ==
    ASSUME NEW R \in SUBSET Ranges, IsFiniteSet(R)
    PROVE  \A r \in R : \E q \in MergeDataRanges(R) : q.offset <= r.offset /\ End(r) <= End(q)
<1> SUFFICES ASSUME NEW r \in R
             PROVE  \E q \in MergeDataRanges(R) : q.offset <= r.offset /\ End(r) <= End(q)
  OBVIOUS
<1>1. PICK s \in Starts(R) : r \in Group(R, s)
  BY EveryRangeInGroup
<1>2. MergedRange(R, s).offset <= r.offset /\ End(r) <= End(MergedRange(R, s))
  BY <1>1, MergedRangeSpans
<1> QED
  BY <1>2, MergeIsMergedRanges

\* mergeDataRanges leaves no two ranges closer than the gap it reads across.
THEOREM MergeSeparates ==
    ASSUME NEW R \in SUBSET Ranges, IsFiniteSet(R)
    PROVE  \A p, q \in MergeDataRanges(R) : p.offset < q.offset => End(p) + MaxBatchGap < q.offset
<1> SUFFICES ASSUME NEW s \in Starts(R), NEW t \in Starts(R), s < t
             PROVE  End(MergedRange(R, s)) + MaxBatchGap < t
  BY MergeIsMergedRanges, MergedRangeSpans
<1>1. PICK r \in Group(R, s) : End(r) = End(MergedRange(R, s))
  BY MergedRangeSpans
<1>2. r \in R /\ r.offset < t
  BY <1>1 DEF Group
<1> QED
  BY <1>1, <1>2 DEF Starts

(***************************************************************************)
(* groupIFDsIntoClusters.                                                  *)
(***************************************************************************)
\* A cluster is a finite set of offsets that starts with its first.
LEMMA ClusterBounds ==
    ASSUME NEW S \in SUBSET Nat, IsFiniteSet(S), NEW s \in ClusterStarts(S)
    PROVE  /\ s \in Nat /\ MaxOf(Cluster(S, s)) \in Cluster(S, s)
           /\ Cluster(S, s) \subseteq S
           /\ \A t \in Cluster(S, s) : s <= t /\ t <= MaxOf(Cluster(S, s))
<1>1. Cluster(S, s) \in SUBSET Nat /\ Cluster(S, s) \subseteq S
  BY DEF Cluster
<1>2. s \in Nat /\ s \in Cluster(S, s)
  BY DEF Cluster, ClusterStarts
<1>3. IsFiniteSet(Cluster(S, s))
  BY <1>1, FS_Subset
<1>4. MaxOf(Cluster(S, s)) \in Cluster(S, s) /\ \A t \in Cluster(S, s) : MaxOf(Cluster(S, s)) >= t
  BY <1>1, <1>2, <1>3, MaxOfFinite
<1>5. \A t \in Cluster(S, s) : s <= t /\ t <= MaxOf(Cluster(S, s))
  <2> SUFFICES ASSUME NEW t \in Cluster(S, s) PROVE s <= t /\ t <= MaxOf(Cluster(S, s))
    OBVIOUS
  <2>1. s <= t
    BY <1>1, <1>2 DEF Cluster
  <2>2. MaxOf(Cluster(S, s)) \in Nat /\ t \in Nat
    BY <1>1, <1>4
  <2> QED
    BY <1>4, <2>1, <2>2
<1> QED
  BY <1>1, <1>2, <1>4, <1>5

\* groupIFDsIntoClusters puts every IFD into a cluster, also the one after the last gap.
THEOREM EveryOffsetInCluster ==
    ASSUME NEW S \in SUBSET Nat, IsFiniteSet(S), NEW x \in S
    PROVE  \E s \in ClusterStarts(S) : x \in Cluster(S, s)
<1> DEFINE before == {t \in ClusterStarts(S) : t <= x}
<1>1. MinOf(S) \in S /\ \A y \in S : MinOf(S) <= y
  BY MinOfNat
<1>2. MinOf(S) \in before
  <2>1. \A t \in S : ~ (t < MinOf(S))
    <3> SUFFICES ASSUME NEW t \in S PROVE ~ (t < MinOf(S))
      OBVIOUS
    <3>1. t \in Nat /\ MinOf(S) \in Nat /\ MinOf(S) <= t
      BY <1>1
    <3> QED
      BY <3>1
  <2> QED
    BY <1>1, <2>1 DEF ClusterStarts
<1>3. before \in SUBSET Nat /\ before \subseteq S /\ before # {}
  BY <1>2 DEF ClusterStarts
<1>4. IsFiniteSet(before)
  BY <1>3, FS_Subset
<1>5. MaxOf(before) \in before /\ \A y \in before : MaxOf(before) >= y
  BY <1>3, <1>4, MaxOfFinite
<1>6. \A u \in ClusterStarts(S) : u > MaxOf(before) => x < u
  <2> SUFFICES ASSUME NEW u \in ClusterStarts(S), u > MaxOf(before), ~ (x < u) PROVE FALSE
    OBVIOUS
  <2>1. u \in Nat /\ x \in Nat
    BY DEF ClusterStarts
  <2>2. u \in before
    BY <2>1
  <2> QED
    BY <1>3, <1>5, <2>1, <2>2
<1>7. x >= MaxOf(before) /\ MaxOf(before) \in ClusterStarts(S)
  BY <1>3, <1>5
<1> HIDE DEF before
<1> QED
  BY <1>6, <1>7 DEF Cluster

\* Two clusters are farther apart than the gap.
THEOREM ClustersApart ==
    ASSUME NEW S \in SUBSET Nat, IsFiniteSet(S),
           NEW s \in ClusterStarts(S), NEW t \in ClusterStarts(S), s < t
    PROVE  MaxOf(Cluster(S, s)) + ClusterGap < t
<1>1. MaxOf(Cluster(S, s)) \in Cluster(S, s)
  BY ClusterBounds
<1>2. MaxOf(Cluster(S, s)) \in S /\ MaxOf(Cluster(S, s)) < t
  BY <1>1 DEF Cluster
<1>3. t \in S /\ t - MaxOf(Cluster(S, s)) > ClusterGap
  BY <1>2 DEF ClusterStarts
<1>4. MaxOf(Cluster(S, s)) \in Nat /\ t \in Nat
  BY <1>2, <1>3
<1> QED
  BY <1>3, <1>4, DataRangesAssumption
---------------------------------------------------------------------------

Covers(q, r) == q.offset <= r.offset /\ End(r) <= End(q)

\* The elements of R fall into the ranges of M, which lie apart, begin and end where an
\* element does, and leave no gap between the elements that would split them.
Holds(R, M) == \A r \in R : \E q \in M : Covers(q, r)

Begins(R, q) == \E r \in R : r.offset = q.offset
Ends(R, q)   == \E r \in R : Covers(q, r) /\ End(r) = End(q)

Follows(R, r) == \E p \in R : p.offset < r.offset /\ r.offset <= End(p) + MaxBatchGap

Linked(R, q) == \A r \in R : Covers(q, r) /\ r.offset > q.offset => Follows(R, r)

Apart(p, q) == End(p) + MaxBatchGap < q.offset

\* Such ranges are the ones that MergeDataRanges defines.
LEMMA MergedAreTheseRanges ==
    ASSUME NEW R \in SUBSET Ranges, NEW M \in SUBSET Ranges, Holds(R, M),
           \A q \in M : Begins(R, q) /\ Ends(R, q) /\ Linked(R, q),
           \A p, q \in M : p = q \/ Apart(p, q) \/ Apart(q, p)
    PROVE  M = MergeDataRanges(R)
  <1>1. /\ \A r \in R : r.offset \in Nat /\ End(r) \in Nat /\ r.offset < End(r)
        /\ \A q \in M : q.offset \in Nat /\ End(q) \in Nat /\ q.offset < End(q)
        /\ MaxBatchGap \in Nat
    BY DataRangesAssumption DEF Ranges, End
  <1>2. ASSUME NEW q \in M PROVE q.offset \in Starts(R)
    <2>1. q.offset \in {r.offset : r \in R}
      BY <1>2 DEF Begins
    <2>2. ASSUME NEW r \in R, r.offset < q.offset PROVE End(r) + MaxBatchGap < q.offset
      <3>1. PICK p \in M : Covers(p, r)
        BY DEF Holds
      <3>2. p = q \/ Apart(p, q) \/ Apart(q, p)
        BY <1>2
      <3> QED
        BY <1>1, <2>2, <3>1, <3>2 DEF Covers, Apart
    <2> QED
      BY <2>1, <2>2 DEF Starts
  <1>3. ASSUME NEW s \in Starts(R) PROVE \E q \in M : q.offset = s
    <2>1. PICK r \in R : r.offset = s
      BY DEF Starts
    <2>2. PICK q \in M : Covers(q, r)
      BY DEF Holds
    <2>3. ~ Follows(R, r)
      BY <1>1, <2>1 DEF Follows, Starts
    <2>4. ~ r.offset > q.offset
      BY <2>2, <2>3 DEF Linked
    <2> QED
      BY <1>1, <2>1, <2>2, <2>4 DEF Covers
  <1>4. ASSUME NEW q \in M PROVE \A r \in R : r \in Group(R, q.offset) <=> Covers(q, r)
    <2> SUFFICES ASSUME NEW r \in R PROVE r \in Group(R, q.offset) <=> Covers(q, r)
      OBVIOUS
    <2>1. PICK p \in M : Covers(p, r)
      BY DEF Holds
    <2>2. p = q \/ Apart(p, q) \/ Apart(q, p)
      BY <1>4
    <2>3. ASSUME Covers(q, r) PROVE r \in Group(R, q.offset)
      <3>1. ASSUME NEW t \in Starts(R), t > q.offset PROVE r.offset < t
        <4>1. PICK u \in M : u.offset = t
          BY <1>3
        <4>2. u = q \/ Apart(u, q) \/ Apart(q, u)
          BY <1>4
        <4> QED
          BY <1>1, <1>4, <2>3, <3>1, <4>1, <4>2 DEF Covers, Apart
      <3> QED
        BY <2>3, <3>1 DEF Group, Covers
    <2>4. ASSUME r \in Group(R, q.offset) PROVE Covers(q, r)
      <3>1. r.offset >= q.offset /\ \A t \in Starts(R) : t > q.offset => r.offset < t
        BY <2>4 DEF Group
      <3>2. ~ Apart(p, q)
        BY <1>1, <2>1, <3>1, <1>4 DEF Covers, Apart
      <3>3. ~ Apart(q, p)
        <4> SUFFICES ASSUME Apart(q, p) PROVE FALSE
          OBVIOUS
        <4>1. p.offset \in Starts(R) /\ p.offset > q.offset
          BY <1>1, <1>2, <1>4 DEF Apart
        <4> QED
          BY <1>1, <2>1, <3>1, <4>1 DEF Covers
      <3> QED
        BY <2>1, <2>2, <3>2, <3>3
    <2> QED
      BY <2>3, <2>4
  <1>5. ASSUME NEW q \in M
        PROVE  DataRange(q.offset, MaxOf({End(r) : r \in Group(R, q.offset)}) - q.offset) = q
    <2> DEFINE ends == {End(r) : r \in Group(R, q.offset)}
    <2>1. Group(R, q.offset) \subseteq R
      BY DEF Group
    <2>2. End(q) \in ends
      BY <1>4, <1>5 DEF Ends
    <2>3. \A e \in ends : e \in Nat /\ e <= End(q)
      BY <1>1, <1>4, <2>1 DEF Covers
    <2>4. MaxOf(ends) = End(q)
      <3>1. \E x \in ends : \A z \in ends : x >= z
        BY <1>1, <2>2, <2>3
      <3>2. MaxOf(ends) \in ends /\ \A z \in ends : MaxOf(ends) >= z
        BY <3>1 DEF MaxOf
      <3> HIDE DEF ends
      <3> QED
        BY <1>1, <2>2, <2>3, <3>2
    <2>5. q = [offset |-> q.offset, size |-> q.size] /\ q.size \in Nat /\ q.offset \in Nat
      BY DEF Ranges
    <2> QED
      BY <2>4, <2>5 DEF DataRange, End
  <1>6. M \subseteq MergeDataRanges(R)
    BY <1>2, <1>5 DEF MergeDataRanges
  <1>7. MergeDataRanges(R) \subseteq M
    BY <1>3, <1>5 DEF MergeDataRanges
  <1> QED
    BY <1>6, <1>7

-----------------------------------------------------------------------------
\* Taking the first element off a sequence.
LEMMA HeadAndTail ==
    ASSUME NEW T, NEW s \in Seq(T), s # <<>>
    PROVE  /\ Head(s) \in T /\ Head(s) = s[1] /\ Tail(s) \in Seq(T)
           /\ Elements(s) = {Head(s)} \cup Elements(Tail(s))
           /\ Len(s) \in Nat \ {0} /\ Len(Tail(s)) = Len(s) - 1
           /\ \A i \in 1 .. Len(Tail(s)) : Tail(s)[i] = s[i + 1] /\ i + 1 \in 1 .. Len(s)
  <1>1. /\ Head(s) = s[1] /\ Head(s) \in T /\ Tail(s) \in Seq(T)
        /\ Len(s) \in Nat \ {0} /\ Len(Tail(s)) = Len(s) - 1
    OBVIOUS
  <1>2. \A i \in 1 .. Len(Tail(s)) : Tail(s)[i] = s[i + 1] /\ i + 1 \in 1 .. Len(s)
    OBVIOUS
  <1>3. Elements(s) \subseteq {Head(s)} \cup Elements(Tail(s))
    <2> SUFFICES ASSUME NEW i \in 1 .. Len(s), i # 1 PROVE s[i] \in Elements(Tail(s))
      BY <1>1 DEF Elements
    <2>1. i - 1 \in 1 .. Len(Tail(s)) /\ i - 1 + 1 = i
      BY <1>1
    <2> QED
      BY <1>2, <2>1 DEF Elements
  <1>4. {Head(s)} \cup Elements(Tail(s)) \subseteq Elements(s)
    BY <1>1, <1>2 DEF Elements
  <1> QED
    BY <1>1, <1>2, <1>3, <1>4

\* Appending an element.
LEMMA Appended ==
    ASSUME NEW T, NEW s \in Seq(T), NEW e \in T
    PROVE  /\ Append(s, e) \in Seq(T) /\ Len(Append(s, e)) = Len(s) + 1 /\ Len(s) \in Nat
           /\ \A i \in 1 .. Len(s) : Append(s, e)[i] = s[i]
           /\ Append(s, e)[Len(s) + 1] = e
           /\ Elements(Append(s, e)) = Elements(s) \cup {e}
  <1>1. /\ Append(s, e) \in Seq(T) /\ Len(Append(s, e)) = Len(s) + 1 /\ Len(s) \in Nat
        /\ \A i \in 1 .. Len(s) : Append(s, e)[i] = s[i]
        /\ Append(s, e)[Len(s) + 1] = e
    OBVIOUS
  <1> DEFINE n == Len(s)
  <1>2. \A i \in 1 .. n + 1 : i \in 1 .. n \/ i = n + 1
    BY <1>1
  <1> QED
    BY <1>1, <1>2 DEF Elements

\* The sorted slice has the elements of the slice, in order.
LEMMA SortedSlice ==
    ASSUME NEW T, NEW s \in Seq(T), s # <<>>, NEW key, NEW t \in Orders(s, key)
    PROVE  /\ t \in Seq(T) /\ t # <<>> /\ Elements(t) = Elements(s)
           /\ \A i, j \in 1 .. Len(t) : i < j => key[t[i]] <= key[t[j]]
  <1> DEFINE places == 1 .. Len(s)
  <1>1. PICK p \in [places -> places] :
           /\ \A k \in places : \E i \in places : p[i] = k
           /\ t = [i \in places |-> s[p[i]]]
    BY DEF Orders, Shuffles
  <1>2. Len(s) \in Nat \ {0} /\ \A i \in places : s[i] \in T
    OBVIOUS
  <1>3. t \in Seq(T) /\ Len(t) = Len(s)
    <2>1. t \in [1 .. Len(s) -> T]
      BY <1>1, <1>2
    <2> QED
      BY <1>2, <2>1
  <1>4. Elements(t) = Elements(s)
    BY <1>1, <1>3 DEF Elements
  <1>5. \A i, j \in 1 .. Len(s) : i < j => key[t[i]] <= key[t[j]]
    BY DEF Orders
  <1>6. t # <<>>
    BY <1>2, <1>3
  <1> QED
    BY <1>3, <1>4, <1>5, <1>6

-----------------------------------------------------------------------------
(***************************************************************************)
(* The loop of mergeDataRanges.                                            *)
(***************************************************************************)
\* What the loop keeps, of the ranges R it was given, the slice s that is left of them, the
\* open range c and the closed ones m.
Slice(R, s) ==
    /\ R \in SUBSET Ranges /\ s \in Seq(Ranges) /\ Elements(s) \subseteq R
    /\ \A i, j \in 1 .. Len(s) : i < j => s[i].offset <= s[j].offset

EndsBefore(R, s, c) ==
    \E r \in R : Covers(c, r) /\ End(r) = End(c) /\ \A q \in Elements(s) : r.offset <= q.offset

AllCovered(R, s, M) == \A r \in R : r \in Elements(s) \/ \E q \in M : Covers(q, r)

Made(R, M) == \A q \in M : Begins(R, q) /\ Ends(R, q) /\ Linked(R, q)

InOrder(m, c) ==
    /\ \A i, j \in 1 .. Len(m) : i < j => Apart(m[i], m[j])
    /\ \A i \in 1 .. Len(m) : Apart(m[i], c)

MergeLoop(R, s, c, m) ==
    /\ Slice(R, s)
    /\ c \in Ranges /\ m \in Seq(Ranges)
    /\ EndsBefore(R, s, c)
    /\ AllCovered(R, s, Elements(m) \cup {c})
    /\ Made(R, Elements(m) \cup {c})
    /\ InOrder(m, c)

LEMMA RangeNumbers ==
    ASSUME NEW r \in Ranges
    PROVE  r.offset \in Nat /\ End(r) \in Nat /\ r.offset < End(r)
  BY DEF Ranges, End

\* The rest of a sorted slice comes after its first element.
LEMMA SliceTail ==
    ASSUME NEW R, NEW s, Slice(R, s), s # <<>>
    PROVE  /\ Head(s) \in R /\ Head(s) \in Ranges
           /\ Slice(R, Tail(s))
           /\ \A q \in Elements(s) : Head(s).offset <= q.offset
           /\ Elements(s) = {Head(s)} \cup Elements(Tail(s))
  <1>1. s \in Seq(Ranges) /\ Elements(s) \subseteq R /\ R \in SUBSET Ranges
    BY DEF Slice
  <1>2. /\ Head(s) \in Ranges /\ Head(s) = s[1] /\ Tail(s) \in Seq(Ranges)
        /\ Elements(s) = {Head(s)} \cup Elements(Tail(s))
        /\ Len(s) \in Nat \ {0} /\ Len(Tail(s)) = Len(s) - 1
        /\ \A i \in 1 .. Len(Tail(s)) : Tail(s)[i] = s[i + 1] /\ i + 1 \in 1 .. Len(s)
    BY <1>1, HeadAndTail
  <1>3. \A i, j \in 1 .. Len(Tail(s)) : i < j => Tail(s)[i].offset <= Tail(s)[j].offset
    BY <1>2 DEF Slice
  <1>4. ASSUME NEW q \in Elements(s) PROVE Head(s).offset <= q.offset
    <2>1. PICK i \in 1 .. Len(s) : q = s[i]
      BY DEF Elements
    <2>2. CASE i = 1
      BY <1>2, <2>1, <2>2, RangeNumbers
    <2>3. CASE i # 1
      BY <1>2, <2>1, <2>3 DEF Slice
    <2> QED
      BY <2>2, <2>3
  <1> QED
    BY <1>1, <1>2, <1>3, <1>4 DEF Slice

\* A range that opens is made of itself, and what it covers follows it.
LEMMA OpensAlone ==
    ASSUME NEW R, NEW s, Slice(R, s), s # <<>>
    PROVE  /\ EndsBefore(R, Tail(s), Head(s)) /\ Covers(Head(s), Head(s))
           /\ Begins(R, Head(s)) /\ Ends(R, Head(s)) /\ Linked(R, Head(s))
  <1> DEFINE c == Head(s)
  <1>1. c \in R /\ c \in Ranges /\ R \subseteq Ranges /\ \A q \in Elements(Tail(s)) : c.offset <= q.offset
    BY SliceTail DEF Slice
  <1>2. c.offset \in Nat /\ End(c) \in Nat /\ c.offset < End(c) /\ Covers(c, c)
    BY <1>1, RangeNumbers DEF Covers
  <1>3. ASSUME NEW r \in R, Covers(c, r), r.offset > c.offset PROVE Follows(R, r)
    <2>1. r.offset \in Nat /\ End(r) \in Nat /\ r.offset < End(r)
      BY <1>1, RangeNumbers
    <2>2. r.offset <= End(c) + MaxBatchGap
      BY <1>2, <1>3, <2>1, DataRangesAssumption DEF Covers
    <2> QED
      BY <1>1, <1>2, <1>3, <2>1, <2>2 DEF Follows
  <1> HIDE DEF c
  <1>4. EndsBefore(R, Tail(s), c) /\ Begins(R, c) /\ Ends(R, c) /\ Linked(R, c)
    BY <1>1, <1>2, <1>3 DEF EndsBefore, Begins, Ends, Linked
  <1> QED
    BY <1>2, <1>4 DEF c

LEMMA MergeLoopStarts ==
    ASSUME NEW R, NEW s, Slice(R, s), R = Elements(s), s # <<>>
    PROVE  MergeLoop(R, Tail(s), Head(s), <<>>)
  <1>1. Slice(R, Tail(s)) /\ Head(s) \in Ranges /\ R = {Head(s)} \cup Elements(Tail(s))
    BY SliceTail
  <1>2. Elements(<<>>) = {} /\ <<>> \in Seq(Ranges) /\ Len(<<>>) = 0
    BY DEF Elements
  <1>3. /\ EndsBefore(R, Tail(s), Head(s)) /\ Covers(Head(s), Head(s))
        /\ Made(R, {Head(s)})
    BY OpensAlone DEF Made
  <1>4. AllCovered(R, Tail(s), {Head(s)})
    BY <1>1, <1>3 DEF AllCovered
  <1>5. InOrder(<<>>, Head(s))
    BY <1>2 DEF InOrder
  <1> QED
    BY <1>1, <1>2, <1>3, <1>4, <1>5 DEF MergeLoop

\* A range that joins the open one leaves what the loop keeps.
LEMMA MergeLoopJoins ==
    ASSUME NEW R, NEW s, NEW c, NEW m, MergeLoop(R, s, c, m), s # <<>>,
           Head(s).offset <= End(c) + MaxBatchGap
    PROVE  MergeLoop(R, Tail(s), Joined(c, Head(s)), m)
  <1> DEFINE n == Head(s)
             j == Joined(c, n)
             rest1 == Elements(Tail(s))
  <1>1. /\ Slice(R, s) /\ c \in Ranges /\ m \in Seq(Ranges) /\ EndsBefore(R, s, c)
        /\ AllCovered(R, s, Elements(m) \cup {c}) /\ Made(R, Elements(m) \cup {c})
        /\ InOrder(m, c)
    BY DEF MergeLoop
  <1>2. /\ n \in R /\ n \in Ranges /\ Slice(R, Tail(s)) /\ Elements(s) = {n} \cup rest1
        /\ \A q \in Elements(s) : n.offset <= q.offset
    BY <1>1, SliceTail
  <1>3. /\ c.offset \in Nat /\ End(c) \in Nat /\ c.offset < End(c)
        /\ n.offset \in Nat /\ End(n) \in Nat /\ n.offset < End(n)
        /\ \A r \in R : r.offset \in Nat /\ End(r) \in Nat /\ r.offset < End(r)
        /\ MaxBatchGap \in Nat
    BY <1>1, <1>2, RangeNumbers, DataRangesAssumption DEF Slice
  <1>4. PICK w \in R : /\ Covers(c, w) /\ End(w) = End(c)
                       /\ \A q \in Elements(s) : w.offset <= q.offset
    BY <1>1 DEF EndsBefore
  <1>5. /\ c.offset <= w.offset /\ w.offset <= n.offset /\ n \in Elements(s)
        /\ n.offset <= End(c) + MaxBatchGap
    BY <1>2, <1>4 DEF Covers
  <1>6. /\ j \in Ranges /\ j.offset = c.offset
        /\ End(j) = IF End(n) > End(c) THEN End(n) ELSE End(c)
    <2> DEFINE e == IF End(n) > End(c) THEN End(n) ELSE End(c)
    <2>1. j = [offset |-> c.offset, size |-> e - c.offset]
      BY DEF Joined, DataRange
    <2>2. e \in Nat /\ e - c.offset \in Nat \ {0} /\ c.offset + (e - c.offset) = e
      BY <1>3
    <2> HIDE DEF e
    <2>3. j \in Ranges /\ j.offset = c.offset /\ j.size = e - c.offset
      BY <1>3, <2>1, <2>2 DEF Ranges
    <2> HIDE DEF j
    <2>4. End(j) = e
      BY <2>2, <2>3 DEF End
    <2> QED
      BY <2>3, <2>4 DEF e
  <1> HIDE DEF n, j, rest1
  <1>7. Covers(j, n) /\ Covers(j, c) /\ \A r \in R : Covers(c, r) => Covers(j, r)
    BY <1>3, <1>5, <1>6 DEF Covers
  <1>8. EndsBefore(R, Tail(s), j)
    <2>1. CASE End(n) > End(c)
      <3>1. End(n) = End(j) /\ \A q \in rest1 : n.offset <= q.offset
        BY <1>2, <1>6, <2>1
      <3> QED
        BY <1>2, <1>7, <3>1 DEF EndsBefore, rest1
    <2>2. CASE ~ (End(n) > End(c))
      <3>1. End(w) = End(j) /\ Covers(j, w) /\ \A q \in rest1 : w.offset <= q.offset
        BY <1>2, <1>4, <1>6, <1>7, <2>2
      <3> QED
        BY <3>1 DEF EndsBefore, rest1
    <2> QED
      BY <2>1, <2>2
  <1>9. AllCovered(R, Tail(s), Elements(m) \cup {j})
    <2> SUFFICES ASSUME NEW r \in R, r \notin rest1
                 PROVE  \E q \in Elements(m) \cup {j} : Covers(q, r)
      BY DEF AllCovered, rest1
    <2>1. CASE r = n
      BY <1>7, <2>1
    <2>2. CASE r # n
      <3>1. PICK q \in Elements(m) \cup {c} : Covers(q, r)
        BY <1>1, <1>2, <2>2 DEF AllCovered
      <3> QED
        BY <1>7, <3>1
    <2> QED
      BY <2>1, <2>2
  <1>10. Linked(R, j)
    <2> SUFFICES ASSUME NEW r \in R, Covers(j, r), r.offset > j.offset PROVE Follows(R, r)
      BY DEF Linked
    <2>1. Linked(R, c)
      BY <1>1 DEF Made
    <2>2. r.offset > c.offset /\ r.offset \in Nat
      BY <1>3, <1>6
    <2>3. CASE Covers(c, r)
      BY <2>1, <2>2, <2>3 DEF Linked
    <2>4. CASE ~ Covers(c, r) /\ r.offset > n.offset
      <3>1. r.offset <= End(n) + MaxBatchGap
        BY <1>3, <1>6, <2>2, <2>4 DEF Covers
      <3> QED
        BY <1>2, <2>4, <3>1 DEF Follows
    <2>5. CASE ~ Covers(c, r) /\ r.offset = n.offset
      <3>1. CASE w.offset < n.offset
        <4>1. r.offset <= End(w) + MaxBatchGap
          BY <1>4, <1>5, <2>5
        <4> QED
          BY <2>5, <3>1, <4>1 DEF Follows
      <3>2. CASE w.offset = n.offset
        <4>1. Follows(R, w)
          BY <1>4, <2>1, <2>2, <2>5, <3>2 DEF Linked
        <4> QED
          BY <2>5, <3>2, <4>1 DEF Follows
      <3> QED
        BY <1>3, <1>5, <3>1, <3>2
    <2>6. CASE ~ Covers(c, r) /\ r.offset < n.offset
      <3>1. r \notin Elements(s)
        BY <1>2, <1>3, <2>2, <2>6
      <3>2. PICK q \in Elements(m) : Covers(q, r)
        BY <1>1, <2>6, <3>1 DEF AllCovered
      <3>3. Apart(q, c) /\ q \in Ranges
        BY <1>1 DEF InOrder, Elements
      <3>4. End(q) \in Nat
        BY <3>3, RangeNumbers
      <3> QED
        BY <1>3, <2>2, <3>2, <3>3, <3>4 DEF Covers, Apart
    <2> QED
      BY <1>3, <2>2, <2>3, <2>4, <2>5, <2>6
  <1>11. Made(R, Elements(m) \cup {j})
    <2>1. Begins(R, j)
      BY <1>1, <1>6 DEF Made, Begins
    <2>2. Ends(R, j)
      BY <1>8 DEF EndsBefore, Ends
    <2> QED
      BY <1>1, <1>10, <2>1, <2>2 DEF Made
  <1>12. InOrder(m, j)
    BY <1>1, <1>6 DEF InOrder, Apart
  <1> QED
    BY <1>1, <1>2, <1>6, <1>8, <1>9, <1>11, <1>12 DEF MergeLoop, j, n

\* The open range is closed when the next one begins too far behind it.
LEMMA MergeLoopOpens ==
    ASSUME NEW R, NEW s, NEW c, NEW m, MergeLoop(R, s, c, m), s # <<>>,
           ~ Head(s).offset <= End(c) + MaxBatchGap
    PROVE  MergeLoop(R, Tail(s), Head(s), Append(m, c))
  <1> DEFINE n == Head(s)
             a == Append(m, c)
  <1>1. /\ Slice(R, s) /\ c \in Ranges /\ m \in Seq(Ranges)
        /\ AllCovered(R, s, Elements(m) \cup {c}) /\ Made(R, Elements(m) \cup {c})
        /\ InOrder(m, c)
    BY DEF MergeLoop
  <1>2. /\ n \in R /\ n \in Ranges /\ Slice(R, Tail(s))
        /\ Elements(s) = {n} \cup Elements(Tail(s))
    BY <1>1, SliceTail
  <1>3. /\ EndsBefore(R, Tail(s), n) /\ Covers(n, n)
        /\ Begins(R, n) /\ Ends(R, n) /\ Linked(R, n)
    BY <1>1, OpensAlone
  <1>4. /\ a \in Seq(Ranges) /\ Len(a) = Len(m) + 1 /\ Len(m) \in Nat
        /\ \A i \in 1 .. Len(m) : a[i] = m[i]
        /\ a[Len(m) + 1] = c /\ Elements(a) = Elements(m) \cup {c}
    BY <1>1, Appended
  <1>5. Apart(c, n)
    BY <1>1, <1>2, RangeNumbers, DataRangesAssumption DEF Apart
  <1>6. \A i \in 1 .. Len(m) : m[i] \in Ranges /\ Apart(m[i], c)
    BY <1>1 DEF InOrder
  <1> HIDE DEF n, a
  <1>7. AllCovered(R, Tail(s), Elements(a) \cup {n})
    BY <1>1, <1>2, <1>3, <1>4 DEF AllCovered
  <1>8. Made(R, Elements(a) \cup {n})
    BY <1>1, <1>3, <1>4 DEF Made
  <1>9. InOrder(a, n)
    <2>1. \A i \in 1 .. Len(a) : i \in 1 .. Len(m) \/ i = Len(m) + 1
      BY <1>4
    <2>2. \A i, k \in 1 .. Len(a) : i < k => Apart(a[i], a[k])
      <3> SUFFICES ASSUME NEW i \in 1 .. Len(a), NEW k \in 1 .. Len(a), i < k
                   PROVE  Apart(a[i], a[k])
        OBVIOUS
      <3>1. i \in 1 .. Len(m)
        BY <1>4, <2>1
      <3>2. CASE k \in 1 .. Len(m)
        BY <1>1, <1>4, <3>1, <3>2 DEF InOrder
      <3>3. CASE k = Len(m) + 1
        BY <1>4, <1>6, <3>1, <3>3
      <3> QED
        BY <2>1, <3>2, <3>3
    <2>3. \A i \in 1 .. Len(a) : Apart(a[i], n)
      <3> SUFFICES ASSUME NEW i \in 1 .. Len(a) PROVE Apart(a[i], n)
        OBVIOUS
      <3>1. CASE i = Len(m) + 1
        BY <1>4, <1>5, <3>1
      <3>2. CASE i \in 1 .. Len(m)
        <4>1. a[i] = m[i] /\ Apart(m[i], c) /\ m[i] \in Ranges
          BY <1>4, <1>6, <3>2
        <4>2. End(m[i]) \in Nat /\ c.offset \in Nat /\ End(c) \in Nat /\ c.offset < End(c)
              /\ n.offset \in Nat /\ MaxBatchGap \in Nat
          BY <1>1, <1>2, <4>1, RangeNumbers, DataRangesAssumption
        <4> QED
          BY <1>5, <4>1, <4>2 DEF Apart
      <3> QED
        BY <2>1, <3>1, <3>2
    <2> QED
      BY <2>2, <2>3 DEF InOrder
  <1> QED
    BY <1>2, <1>3, <1>4, <1>7, <1>8, <1>9 DEF MergeLoop, n, a

\* After the loop the closed ranges are those of the definition.
LEMMA MergeLoopEnds ==
    ASSUME NEW R, NEW c, NEW m, MergeLoop(R, <<>>, c, m)
    PROVE  /\ Elements(Append(m, c)) = MergeDataRanges(R)
           /\ \A i \in 1 .. Len(Append(m, c)) - 1 :
                 End(Append(m, c)[i]) + MaxBatchGap < Append(m, c)[i + 1].offset
  <1> DEFINE a == Append(m, c)
             M == Elements(m) \cup {c}
  <1>1. /\ R \in SUBSET Ranges /\ c \in Ranges /\ m \in Seq(Ranges)
        /\ AllCovered(R, <<>>, M) /\ Made(R, M) /\ InOrder(m, c)
    BY DEF MergeLoop, Slice
  <1>2. /\ Len(a) = Len(m) + 1 /\ Len(m) \in Nat
        /\ \A i \in 1 .. Len(m) : a[i] = m[i] /\ m[i] \in Ranges
        /\ a[Len(m) + 1] = c /\ Elements(a) = M
    BY <1>1, Appended
  <1>3. Elements(<<>>) = {}
    BY DEF Elements
  <1>4. Holds(R, M) /\ M \in SUBSET Ranges
    BY <1>1, <1>2, <1>3 DEF AllCovered, Holds, Elements
  <1>5. \A p, q \in M : p = q \/ Apart(p, q) \/ Apart(q, p)
    <2> SUFFICES ASSUME NEW p \in M, NEW q \in M PROVE p = q \/ Apart(p, q) \/ Apart(q, p)
      OBVIOUS
    <2>1. CASE p = c \/ q = c
      BY <1>1, <2>1 DEF InOrder, Elements
    <2>2. CASE p \in Elements(m) /\ q \in Elements(m)
      <3>1. PICK i \in 1 .. Len(m), k \in 1 .. Len(m) : p = m[i] /\ q = m[k]
        BY <2>2 DEF Elements
      <3>2. i < k \/ k < i \/ i = k
        BY <1>2
      <3> QED
        BY <1>1, <3>1, <3>2 DEF InOrder
    <2> QED
      BY <2>1, <2>2
  <1>6. M = MergeDataRanges(R)
    BY <1>1, <1>4, <1>5, MergedAreTheseRanges DEF Made
  <1>7. ASSUME NEW i \in 1 .. Len(a) - 1 PROVE Apart(a[i], a[i + 1])
    <2>1. i \in 1 .. Len(m) /\ (i = Len(m) \/ i + 1 \in 1 .. Len(m))
      BY <1>2
    <2>2. CASE i = Len(m)
      BY <1>1, <1>2, <2>1, <2>2 DEF InOrder
    <2>3. CASE i + 1 \in 1 .. Len(m)
      BY <1>1, <1>2, <2>1, <2>3 DEF InOrder
    <2> QED
      BY <2>1, <2>2, <2>3
  <1> QED
    BY <1>2, <1>6, <1>7 DEF Apart

-----------------------------------------------------------------------------
(***************************************************************************)
(* The loop of groupIFDsIntoClusters.                                      *)
(***************************************************************************)
\* Every offset of a cluster but the least has another within the gap below it.
Reached(S, x) == \E t \in S : t < x /\ x - t <= ClusterGap

Grown(S, C, first) ==
    /\ first \in C /\ C \subseteq S
    /\ \A x \in C : x = first \/ (first < x /\ Reached(S, x))

Below(C, D) == \A x \in C, z \in D : x + ClusterGap < z

\* Sets of offsets that hold all of S, each grown from its least, lying apart, are the
\* clusters that the definition finds.
LEMMA TheseAreTheClusters ==
    ASSUME NEW S \in SUBSET Nat, NEW K,
           \A x \in S : \E C \in K : x \in C,
           \A C \in K : \E first \in S : Grown(S, C, first),
           \A C, D \in K : C = D \/ Below(C, D) \/ Below(D, C)
    PROVE  K = Clusters(S)
  <1>1. ClusterGap \in Nat
    BY DataRangesAssumption
  <1>2. ASSUME NEW C \in K, NEW first \in S, Grown(S, C, first)
        PROVE  first \in ClusterStarts(S)
    <2>1. ASSUME NEW t \in S, t < first PROVE first - t > ClusterGap
      <3>1. PICK D \in K : t \in D
        OBVIOUS
      <3>2. C # D
        BY <1>2, <2>1, <3>1 DEF Grown
      <3>3. ~ Below(C, D)
        BY <1>1, <1>2, <2>1, <3>1 DEF Grown, Below
      <3>4. t + ClusterGap < first
        BY <1>2, <3>1, <3>2, <3>3 DEF Grown, Below
      <3> QED
        BY <1>1, <3>4
    <2> QED
      BY <2>1 DEF ClusterStarts
  <1>3. ASSUME NEW s \in ClusterStarts(S) PROVE \E C \in K : Grown(S, C, s)
    <2>1. s \in S /\ \A t \in S : t < s => s - t > ClusterGap
      BY DEF ClusterStarts
    <2>2. PICK C \in K : s \in C
      BY <2>1
    <2>3. PICK first \in S : Grown(S, C, first)
      OBVIOUS
    <2>4. ~ Reached(S, s)
      BY <1>1, <2>1 DEF Reached
    <2> QED
      BY <2>2, <2>3, <2>4 DEF Grown
  <1>4. ASSUME NEW C \in K, NEW first \in S, Grown(S, C, first)
        PROVE  C = Cluster(S, first)
    <2>1. ASSUME NEW t \in C PROVE t \in Cluster(S, first)
      <3>1. t \in S /\ t >= first
        BY <1>4, <2>1 DEF Grown
      <3>2. ASSUME NEW u \in ClusterStarts(S), u > first PROVE t < u
        <4>1. PICK D \in K : Grown(S, D, u)
          BY <1>3
        <4>2. u \in D /\ u \in S
          BY <4>1 DEF Grown
        <4>3. C # D
          BY <1>4, <3>2, <4>1, <4>2 DEF Grown
        <4>4. ~ Below(D, C)
          BY <1>1, <1>4, <3>2, <4>2 DEF Below, Grown
        <4>5. t + ClusterGap < u
          BY <4>2, <4>3, <4>4 DEF Below
        <4> QED
          BY <1>1, <3>1, <4>2, <4>5
      <3> QED
        BY <3>1, <3>2 DEF Cluster
    <2>2. ASSUME NEW t \in Cluster(S, first) PROVE t \in C
      <3>1. t \in S /\ t >= first /\ \A u \in ClusterStarts(S) : u > first => t < u
        BY DEF Cluster
      <3>2. PICK D \in K : t \in D
        BY <3>1
      <3>3. PICK u \in S : Grown(S, D, u)
        OBVIOUS
      <3>4. u \in ClusterStarts(S) /\ u \in D /\ u <= t
        BY <1>2, <3>1, <3>2, <3>3 DEF Grown
      <3>5. ~ Below(D, C)
        BY <1>1, <1>4, <3>1, <3>2 DEF Below, Grown
      <3>6. ~ Below(C, D)
        <4> SUFFICES ASSUME Below(C, D) PROVE FALSE
          OBVIOUS
        <4>1. first + ClusterGap < u
          BY <1>4, <3>4 DEF Below, Grown
        <4> QED
          BY <1>1, <3>1, <3>4, <4>1
      <3> QED
        BY <3>2, <3>5, <3>6
    <2> QED
      BY <2>1, <2>2
  <1>5. K \subseteq Clusters(S)
    BY <1>2, <1>4 DEF Clusters
  <1>6. Clusters(S) \subseteq K
    <2> SUFFICES ASSUME NEW s \in ClusterStarts(S) PROVE Cluster(S, s) \in K
      BY DEF Clusters
    <2>1. s \in S
      BY DEF ClusterStarts
    <2> QED
      BY <1>3, <1>4, <2>1
  <1> QED
    BY <1>5, <1>6

\* What the loop keeps, of the offsets S it was given, the slice s that is left of them, the
\* open cluster c and the closed ones m.
Offsets(S, s) ==
    /\ S \in SUBSET Nat /\ s \in Seq(Nat) /\ Elements(s) \subseteq S
    /\ \A i, j \in 1 .. Len(s) : i < j => s[i] <= s[j]

IsCluster(c) == c \in Seq(Nat) /\ c # <<>>

Open(S, s, c) ==
    /\ IsCluster(c) /\ Grown(S, Elements(c), c[1])
    /\ \A x \in Elements(c) : x <= c[Len(c)]
    /\ \A x \in Elements(s) : c[Len(c)] <= x

Apiece(S, m) == \A i \in 1 .. Len(m) : IsCluster(m[i]) /\ Grown(S, Elements(m[i]), m[i][1])

Ascending(m, c) ==
    /\ \A i, j \in 1 .. Len(m) : i < j => Below(Elements(m[i]), Elements(m[j]))
    /\ \A i \in 1 .. Len(m) : Below(Elements(m[i]), Elements(c))

AllGrouped(S, s, m, c) ==
    \A x \in S : x \in Elements(s) \/ x \in Elements(c) \/ \E i \in 1 .. Len(m) : x \in Elements(m[i])

ClusterLoop(S, s, c, m) ==
    /\ Offsets(S, s)
    /\ m \in Seq(Seq(Nat))
    /\ Open(S, s, c) /\ Apiece(S, m)
    /\ Ascending(m, c) /\ AllGrouped(S, s, m, c)

LEMMA OffsetsTail ==
    ASSUME NEW S, NEW s, Offsets(S, s), s # <<>>
    PROVE  /\ Head(s) \in S /\ Head(s) \in Nat
           /\ Offsets(S, Tail(s))
           /\ \A x \in Elements(s) : Head(s) <= x
           /\ Elements(s) = {Head(s)} \cup Elements(Tail(s))
  <1>1. s \in Seq(Nat) /\ Elements(s) \subseteq S /\ S \in SUBSET Nat
    BY DEF Offsets
  <1>2. /\ Head(s) \in Nat /\ Head(s) = s[1] /\ Tail(s) \in Seq(Nat)
        /\ Elements(s) = {Head(s)} \cup Elements(Tail(s))
        /\ Len(s) \in Nat \ {0} /\ Len(Tail(s)) = Len(s) - 1
        /\ \A i \in 1 .. Len(Tail(s)) : Tail(s)[i] = s[i + 1] /\ i + 1 \in 1 .. Len(s)
    BY <1>1, HeadAndTail
  <1>3. \A i, j \in 1 .. Len(Tail(s)) : i < j => Tail(s)[i] <= Tail(s)[j]
    BY <1>2 DEF Offsets
  <1>4. ASSUME NEW x \in Elements(s) PROVE Head(s) <= x
    <2>1. PICK i \in 1 .. Len(s) : x = s[i]
      BY DEF Elements
    <2>2. CASE i = 1
      BY <1>2, <2>1, <2>2
    <2>3. CASE i # 1
      BY <1>2, <2>1, <2>3 DEF Offsets
    <2> QED
      BY <2>2, <2>3
  <1> QED
    BY <1>1, <1>2, <1>3, <1>4 DEF Offsets

\* A cluster of one offset.
LEMMA OpensCluster ==
    ASSUME NEW S, NEW s, Offsets(S, s), s # <<>>
    PROVE  Open(S, Tail(s), <<Head(s)>>) /\ Elements(<<Head(s)>>) = {Head(s)}
  <1> DEFINE n == Head(s)
             c == <<n>>
  <1>1. n \in S /\ n \in Nat /\ \A x \in Elements(Tail(s)) : n <= x
    BY OffsetsTail
  <1> HIDE DEF n
  <1>2. c \in Seq(Nat) /\ c # <<>> /\ Len(c) = 1 /\ c[1] = n
    BY <1>1
  <1>3. Elements(c) = {n}
    BY <1>2 DEF Elements
  <1> HIDE DEF c
  <1>4. Open(S, Tail(s), c)
    BY <1>1, <1>2, <1>3 DEF Open, IsCluster, Grown
  <1> QED
    BY <1>3, <1>4 DEF c, n

LEMMA ClusterLoopStarts ==
    ASSUME NEW S, NEW s, Offsets(S, s), S = Elements(s), s # <<>>
    PROVE  ClusterLoop(S, Tail(s), <<Head(s)>>, <<>>)
  <1>1. Offsets(S, Tail(s)) /\ S = {Head(s)} \cup Elements(Tail(s))
    BY OffsetsTail
  <1>2. Open(S, Tail(s), <<Head(s)>>) /\ Elements(<<Head(s)>>) = {Head(s)}
    BY OpensCluster
  <1>3. <<>> \in Seq(Seq(Nat)) /\ Len(<<>>) = 0
    OBVIOUS
  <1>4. Apiece(S, <<>>) /\ Ascending(<<>>, <<Head(s)>>)
    BY <1>3 DEF Apiece, Ascending
  <1>5. AllGrouped(S, Tail(s), <<>>, <<Head(s)>>)
    BY <1>1, <1>2 DEF AllGrouped
  <1> QED
    BY <1>1, <1>2, <1>3, <1>4, <1>5 DEF ClusterLoop

\* What the open cluster says of its offsets, as plain numbers.
LEMMA OpenCluster ==
    ASSUME NEW S, NEW s, NEW c, Offsets(S, s), Open(S, s, c)
    PROVE  /\ c \in Seq(Nat) /\ Len(c) \in Nat \ {0}
           /\ c[1] \in Elements(c) /\ c[Len(c)] \in Elements(c)
           /\ Elements(c) \subseteq Nat /\ c[1] <= c[Len(c)]
  <1>1. c \in Seq(Nat) /\ Len(c) \in Nat \ {0}
    BY DEF Open, IsCluster
  <1>2. c[1] \in Elements(c) /\ c[Len(c)] \in Elements(c)
    BY <1>1 DEF Elements
  <1>3. Elements(c) \subseteq Nat
    BY <1>1 DEF Elements
  <1> QED
    BY <1>1, <1>2, <1>3 DEF Open

\* The open cluster takes in the next offset when it is near.
LEMMA ClusterLoopJoins ==
    ASSUME NEW S, NEW s, NEW c, NEW m, ClusterLoop(S, s, c, m), s # <<>>, Near(c, Head(s))
    PROVE  ClusterLoop(S, Tail(s), Append(c, Head(s)), m)
  <1> DEFINE n == Head(s)
             last == c[Len(c)]
             j == Append(c, n)
  <1>1. /\ Offsets(S, s) /\ m \in Seq(Seq(Nat)) /\ Open(S, s, c) /\ Apiece(S, m)
        /\ Ascending(m, c) /\ AllGrouped(S, s, m, c)
    BY DEF ClusterLoop
  <1>2. /\ n \in S /\ n \in Nat /\ Offsets(S, Tail(s)) /\ \A x \in Elements(s) : n <= x
        /\ Elements(s) = {n} \cup Elements(Tail(s))
    BY <1>1, OffsetsTail
  <1>3. /\ c \in Seq(Nat) /\ Len(c) \in Nat \ {0} /\ c[1] \in Elements(c)
        /\ last \in Elements(c) /\ Elements(c) \subseteq Nat /\ c[1] <= last
    BY <1>1, OpenCluster
  <1>4. /\ j \in Seq(Nat) /\ Len(j) = Len(c) + 1 /\ j[Len(c) + 1] = n /\ j[1] = c[1]
        /\ Elements(j) = Elements(c) \cup {n}
    BY <1>2, <1>3, Appended
  <1>5. last <= n /\ n - last <= ClusterGap /\ \A x \in Elements(c) : x <= last
    BY <1>1, <1>2 DEF Open, Near
  <1>6. Grown(S, Elements(c), c[1])
    BY <1>1 DEF Open
  <1>7. ClusterGap \in Nat /\ c[1] \in Nat /\ last \in Nat
    BY <1>3, DataRangesAssumption
  <1> HIDE DEF n, j, last
  <1>8. n = c[1] \/ (c[1] < n /\ Reached(S, n))
    <2>1. CASE last < n
      BY <1>3, <1>5, <1>6, <1>7, <1>2, <2>1 DEF Reached, Grown
    <2>2. CASE last = n
      BY <1>3, <1>6, <2>2 DEF Grown
    <2> QED
      BY <1>2, <1>5, <1>7, <2>1, <2>2
  <1>9. Grown(S, Elements(j), j[1])
    BY <1>2, <1>4, <1>6, <1>8 DEF Grown
  <1>10. Open(S, Tail(s), j)
    <2>1. j # <<>> /\ j[Len(j)] = n
      BY <1>3, <1>4
    <2>2. \A x \in Elements(c) : x <= n
      BY <1>2, <1>3, <1>5, <1>7
    <2> QED
      BY <1>2, <1>4, <1>9, <2>1, <2>2 DEF Open, IsCluster
  <1>11. Ascending(m, j)
    <2> SUFFICES ASSUME NEW i \in 1 .. Len(m) PROVE Below(Elements(m[i]), Elements(j))
      BY <1>1 DEF Ascending
    <2>1. Below(Elements(m[i]), Elements(c)) /\ Elements(m[i]) \subseteq Nat
      <3>1. m[i] \in Seq(Nat)
        BY <1>1
      <3>2. Elements(m[i]) \subseteq Nat
        BY <3>1 DEF Elements
      <3> QED
        BY <1>1, <3>2 DEF Ascending
    <2>2. ASSUME NEW x \in Elements(m[i]) PROVE x + ClusterGap < n
      <3>1. x + ClusterGap < c[1] /\ x \in Nat
        BY <1>3, <2>1, <2>2 DEF Below
      <3> QED
        BY <1>2, <1>3, <1>5, <1>7, <3>1
    <2> QED
      BY <1>4, <2>1, <2>2 DEF Below
  <1>12. AllGrouped(S, Tail(s), m, j)
    BY <1>1, <1>2, <1>4 DEF AllGrouped
  <1> QED
    BY <1>1, <1>2, <1>10, <1>11, <1>12 DEF ClusterLoop, j, n

\* It is closed when the next offset is too far behind its last.
LEMMA ClusterLoopOpens ==
    ASSUME NEW S, NEW s, NEW c, NEW m, ClusterLoop(S, s, c, m), s # <<>>, ~ Near(c, Head(s))
    PROVE  ClusterLoop(S, Tail(s), <<Head(s)>>, Append(m, c))
  <1> DEFINE n == Head(s)
             last == c[Len(c)]
             a == Append(m, c)
             d == <<Head(s)>>
  <1>1. /\ Offsets(S, s) /\ m \in Seq(Seq(Nat)) /\ Open(S, s, c) /\ Apiece(S, m)
        /\ Ascending(m, c) /\ AllGrouped(S, s, m, c)
    BY DEF ClusterLoop
  <1>2. /\ n \in S /\ n \in Nat /\ Offsets(S, Tail(s))
        /\ Elements(s) = {n} \cup Elements(Tail(s))
    BY <1>1, OffsetsTail
  <1>3. /\ c \in Seq(Nat) /\ Len(c) \in Nat \ {0} /\ c[1] \in Elements(c)
        /\ last \in Elements(c) /\ Elements(c) \subseteq Nat /\ c[1] <= last
    BY <1>1, OpenCluster
  <1>4. Open(S, Tail(s), d) /\ Elements(d) = {n}
    BY <1>1, OpensCluster
  <1>5. /\ a \in Seq(Seq(Nat)) /\ Len(a) = Len(m) + 1 /\ Len(m) \in Nat
        /\ \A i \in 1 .. Len(m) : a[i] = m[i]
        /\ a[Len(m) + 1] = c
    BY <1>1, <1>3, Appended
  <1>6. ~ n - last <= ClusterGap /\ \A x \in Elements(c) : x <= last
    BY <1>1 DEF Open, Near
  <1>7. ClusterGap \in Nat /\ c[1] \in Nat /\ last \in Nat
    BY <1>3, DataRangesAssumption
  <1>8. \A i \in 1 .. Len(a) : i \in 1 .. Len(m) \/ i = Len(m) + 1
    BY <1>5
  <1> HIDE DEF n, a, last, d
  <1>9. Apiece(S, a)
    BY <1>1, <1>5, <1>8 DEF Apiece, Open
  <1>10. Below(Elements(c), Elements(d))
    <2> SUFFICES ASSUME NEW x \in Elements(c) PROVE x + ClusterGap < n
      BY <1>4 DEF Below
    <2>1. x \in Nat /\ x <= last
      BY <1>3, <1>6
    <2> QED
      BY <1>2, <1>6, <1>7, <2>1
  <1>11. ASSUME NEW i \in 1 .. Len(m) PROVE Below(Elements(m[i]), Elements(d))
    <2> SUFFICES ASSUME NEW x \in Elements(m[i]) PROVE x + ClusterGap < n
      BY <1>4 DEF Below
    <2>1. m[i] \in Seq(Nat)
      BY <1>1
    <2>2. x \in Nat /\ x + ClusterGap < c[1]
      <3>1. Elements(m[i]) \subseteq Nat
        BY <2>1 DEF Elements
      <3>2. Below(Elements(m[i]), Elements(c))
        BY <1>1 DEF Ascending
      <3> QED
        BY <1>3, <3>1, <3>2 DEF Below
    <2>3. n > last
      BY <1>2, <1>6, <1>7
    <2> QED
      BY <1>2, <1>3, <1>7, <2>2, <2>3
  <1>12. Ascending(a, d)
    <2>1. \A i, k \in 1 .. Len(a) : i < k => Below(Elements(a[i]), Elements(a[k]))
      <3> SUFFICES ASSUME NEW i \in 1 .. Len(a), NEW k \in 1 .. Len(a), i < k
                   PROVE  Below(Elements(a[i]), Elements(a[k]))
        OBVIOUS
      <3>1. i \in 1 .. Len(m)
        BY <1>5, <1>8
      <3>2. CASE k \in 1 .. Len(m)
        BY <1>1, <1>5, <3>1, <3>2 DEF Ascending
      <3>3. CASE k = Len(m) + 1
        BY <1>1, <1>5, <3>1, <3>3 DEF Ascending
      <3> QED
        BY <1>8, <3>2, <3>3
    <2>2. \A i \in 1 .. Len(a) : Below(Elements(a[i]), Elements(d))
      BY <1>5, <1>8, <1>10, <1>11
    <2> QED
      BY <2>1, <2>2 DEF Ascending
  <1>13. AllGrouped(S, Tail(s), a, d)
    <2>1. Len(m) + 1 \in 1 .. Len(a) /\ \A i \in 1 .. Len(m) : i \in 1 .. Len(a)
      BY <1>5
    <2> QED
      BY <1>1, <1>2, <1>4, <1>5, <2>1 DEF AllGrouped
  <1> QED
    BY <1>2, <1>4, <1>5, <1>9, <1>12, <1>13 DEF ClusterLoop, a, n, d

\* After the loop the closed clusters are those of the definition.
LEMMA ClusterLoopEnds ==
    ASSUME NEW S, NEW c, NEW m, ClusterLoop(S, <<>>, c, m)
    PROVE  {Elements(Append(m, c)[i]) : i \in 1 .. Len(Append(m, c))} = Clusters(S)
  <1> DEFINE a == Append(m, c)
             K == {Elements(a[i]) : i \in 1 .. Len(a)}
  <1>1. /\ Offsets(S, <<>>) /\ m \in Seq(Seq(Nat)) /\ Open(S, <<>>, c) /\ Apiece(S, m)
        /\ Ascending(m, c) /\ AllGrouped(S, <<>>, m, c)
    BY DEF ClusterLoop
  <1>2. c \in Seq(Nat) /\ S \in SUBSET Nat
    BY <1>1 DEF Open, IsCluster, Offsets
  <1>3. /\ Len(a) = Len(m) + 1 /\ Len(m) \in Nat
        /\ \A i \in 1 .. Len(m) : a[i] = m[i]
        /\ a[Len(m) + 1] = c
    BY <1>1, <1>2, Appended
  <1>4. Elements(<<>>) = {}
    BY DEF Elements
  <1>5. /\ \A i \in 1 .. Len(a) : i \in 1 .. Len(m) \/ i = Len(m) + 1
        /\ Len(m) + 1 \in 1 .. Len(a) /\ \A i \in 1 .. Len(m) : i \in 1 .. Len(a)
    BY <1>3
  <1> HIDE DEF a
  <1>6. ASSUME NEW x \in S PROVE \E C \in K : x \in C
    BY <1>1, <1>3, <1>4, <1>5 DEF AllGrouped
  <1>7. ASSUME NEW C \in K PROVE \E first \in S : Grown(S, C, first)
    <2>1. PICK i \in 1 .. Len(a) : C = Elements(a[i])
      OBVIOUS
    <2>2. Grown(S, Elements(a[i]), a[i][1])
      BY <1>1, <1>3, <1>5 DEF Apiece, Open
    <2> QED
      BY <2>1, <2>2 DEF Grown
  <1>8. ASSUME NEW C \in K, NEW D \in K PROVE C = D \/ Below(C, D) \/ Below(D, C)
    <2>1. PICK i \in 1 .. Len(a), k \in 1 .. Len(a) : C = Elements(a[i]) /\ D = Elements(a[k])
      OBVIOUS
    <2>2. CASE i < k
      <3>1. i \in 1 .. Len(m)
        BY <1>3, <1>5, <2>2
      <3> QED
        BY <1>1, <1>3, <1>5, <2>1, <2>2, <3>1 DEF Ascending
    <2>3. CASE k < i
      <3>1. k \in 1 .. Len(m)
        BY <1>3, <1>5, <2>3
      <3> QED
        BY <1>1, <1>3, <1>5, <2>1, <2>3, <3>1 DEF Ascending
    <2>4. i < k \/ k < i \/ i = k
      BY <1>3
    <2> QED
      BY <2>1, <2>2, <2>3, <2>4
  <1> HIDE DEF K
  <1>9. K = Clusters(S)
    BY <1>2, <1>6, <1>7, <1>8, TheseAreTheClusters
  <1> QED
    BY <1>9 DEF K, a

-----------------------------------------------------------------------------
(***************************************************************************)
(* The program.                                                            *)
(***************************************************************************)
SweepInv ==
    /\ pc \in {"merge", "cluster", "merged", "clustered"}
    /\ pc = "merge" => MergeLoop(Elements(input), rest, current, closed)
    /\ pc = "cluster" => ClusterLoop(Elements(input), rest, current, closed)
    /\ MergeIsDefinition
    /\ ClustersAreDefinition

LEMMA SweepInvInit == SweepInit => SweepInv
  <1>1. ASSUME MergeInit PROVE SweepInv
    <2>1. input \in Seq(Ranges) /\ input # <<>> /\ pc = "merge" /\ closed = <<>>
      BY <1>1, SweepAssumption DEF MergeInit
    <2> DEFINE R == Elements(input)
               key == [r \in R |-> r.offset]
    <2>2. PICK t \in Orders(input, key) : current = t[1] /\ rest = Tail(t)
      BY <1>1 DEF MergeInit
    <2>3. /\ t \in Seq(Ranges) /\ t # <<>> /\ Elements(t) = R
          /\ \A i, j \in 1 .. Len(t) : i < j => key[t[i]] <= key[t[j]]
      <3> HIDE DEF key
      <3> QED
        BY <2>1, SortedSlice
    <2>4. \A i \in 1 .. Len(t) : t[i] \in R
      BY <2>3 DEF Elements
    <2>5. \A i, j \in 1 .. Len(t) : i < j => t[i].offset <= t[j].offset
      BY <2>3, <2>4
    <2>6. R \in SUBSET Ranges
      BY <2>1 DEF Elements
    <2>7. Slice(R, t)
      BY <2>3, <2>5, <2>6 DEF Slice
    <2>8. MergeLoop(R, Tail(t), Head(t), <<>>)
      <3> HIDE DEF R
      <3> QED
        BY <2>3, <2>7, MergeLoopStarts
    <2>9. Head(t) = t[1]
      BY <2>3
    <2> QED
      BY <2>1, <2>2, <2>8, <2>9 DEF SweepInv, MergeIsDefinition, ClustersAreDefinition
  <1>2. ASSUME ClusterInit PROVE SweepInv
    <2>1. input \in Seq(Nat) /\ input # <<>> /\ pc = "cluster" /\ closed = <<>>
      BY <1>2, SweepAssumption DEF ClusterInit
    <2> DEFINE S == Elements(input)
               key == [x \in S |-> x]
    <2>2. PICK t \in Orders(input, key) : current = <<t[1]>> /\ rest = Tail(t)
      BY <1>2 DEF ClusterInit
    <2>3. /\ t \in Seq(Nat) /\ t # <<>> /\ Elements(t) = S
          /\ \A i, j \in 1 .. Len(t) : i < j => key[t[i]] <= key[t[j]]
      <3> HIDE DEF key
      <3> QED
        BY <2>1, SortedSlice
    <2>4. \A i \in 1 .. Len(t) : t[i] \in S
      BY <2>3 DEF Elements
    <2>5. \A i, j \in 1 .. Len(t) : i < j => t[i] <= t[j]
      BY <2>3, <2>4
    <2>6. S \in SUBSET Nat
      BY <2>1 DEF Elements
    <2>7. Offsets(S, t)
      BY <2>3, <2>5, <2>6 DEF Offsets
    <2>8. ClusterLoop(S, Tail(t), <<Head(t)>>, <<>>)
      <3> HIDE DEF S
      <3> QED
        BY <2>3, <2>7, ClusterLoopStarts
    <2>9. Head(t) = t[1]
      BY <2>3
    <2> QED
      BY <2>1, <2>2, <2>8, <2>9 DEF SweepInv, MergeIsDefinition, ClustersAreDefinition
  <1> QED
    BY <1>1, <1>2 DEF SweepInit

LEMMA SweepInvNext == SweepInv /\ [SweepNext]_sweepVars => SweepInv'
  <1> SUFFICES ASSUME SweepInv, [SweepNext]_sweepVars PROVE SweepInv'
    OBVIOUS
  <1>1. CASE MergeStep
    <2>1. MergeLoop(Elements(input), rest, current, closed) /\ rest # <<>> /\ pc = "merge"
      BY <1>1 DEF MergeStep, SweepInv
    <2>2. rest' = Tail(rest) /\ pc' = "merge" /\ input' = input
      BY <1>1 DEF MergeStep
    <2>3. MergeLoop(Elements(input), Tail(rest), current', closed')
      <3>1. CASE Head(rest).offset <= End(current) + MaxBatchGap
        <4>1. current' = Joined(current, Head(rest)) /\ closed' = closed
          BY <1>1, <3>1 DEF MergeStep
        <4> QED
          BY <2>1, <3>1, <4>1, MergeLoopJoins
      <3>2. CASE ~ Head(rest).offset <= End(current) + MaxBatchGap
        <4>1. current' = Head(rest) /\ closed' = Append(closed, current)
          BY <1>1, <3>2 DEF MergeStep
        <4> QED
          BY <2>1, <3>2, <4>1, MergeLoopOpens
      <3> QED
        BY <3>1, <3>2
    <2> QED
      BY <2>2, <2>3 DEF SweepInv, MergeIsDefinition, ClustersAreDefinition
  <1>2. CASE ClusterStep
    <2>1. ClusterLoop(Elements(input), rest, current, closed) /\ rest # <<>> /\ pc = "cluster"
      BY <1>2 DEF ClusterStep, SweepInv
    <2>2. rest' = Tail(rest) /\ pc' = "cluster" /\ input' = input
      BY <1>2 DEF ClusterStep
    <2>3. ClusterLoop(Elements(input), Tail(rest), current', closed')
      <3>1. CASE Near(current, Head(rest))
        <4>1. current' = Append(current, Head(rest)) /\ closed' = closed
          BY <1>2, <3>1 DEF ClusterStep
        <4> QED
          BY <2>1, <3>1, <4>1, ClusterLoopJoins
      <3>2. CASE ~ Near(current, Head(rest))
        <4>1. current' = <<Head(rest)>> /\ closed' = Append(closed, current)
          BY <1>2, <3>2 DEF ClusterStep
        <4> QED
          BY <2>1, <3>2, <4>1, ClusterLoopOpens
      <3> QED
        BY <3>1, <3>2
    <2> QED
      BY <2>2, <2>3 DEF SweepInv, MergeIsDefinition, ClustersAreDefinition
  <1>3. CASE Finish
    <2>1. rest = <<>> /\ closed' = Append(closed, current) /\ input' = input
      BY <1>3 DEF Finish
    <2>2. CASE pc = "merge"
      <3>1. MergeLoop(Elements(input), <<>>, current, closed) /\ pc' = "merged"
        BY <1>3, <2>1, <2>2 DEF SweepInv, Finish
      <3>2. /\ Elements(closed') = MergeDataRanges(Elements(input))
            /\ \A i \in 1 .. Len(closed') - 1 :
                  End(closed'[i]) + MaxBatchGap < closed'[i + 1].offset
        BY <2>1, <3>1, MergeLoopEnds
      <3> QED
        BY <2>1, <3>1, <3>2 DEF SweepInv, MergeIsDefinition, ClustersAreDefinition
    <2>3. CASE pc = "cluster"
      <3>1. ClusterLoop(Elements(input), <<>>, current, closed) /\ pc' = "clustered"
        BY <1>3, <2>1, <2>3 DEF SweepInv, Finish
      <3>2. {Elements(closed'[i]) : i \in 1 .. Len(closed')} = Clusters(Elements(input))
        BY <2>1, <3>1, ClusterLoopEnds
      <3> QED
        BY <2>1, <3>1, <3>2 DEF SweepInv, MergeIsDefinition, ClustersAreDefinition
    <2> QED
      BY <1>3, <2>2, <2>3 DEF Finish
  <1>4. CASE UNCHANGED sweepVars
    BY <1>4 DEF SweepInv, sweepVars, MergeIsDefinition, ClustersAreDefinition
  <1> QED
    BY <1>1, <1>2, <1>3, <1>4 DEF SweepNext

\* What mergeDataRanges returns is what MergeDataRanges says of the set of its ranges: for
\* every slice, also with equal ranges in it, and every order the sort may leave them in.
THEOREM MergeIsDefinitionThm == SweepSpec => []MergeIsDefinition
  <1>1. SweepInv => MergeIsDefinition
    BY DEF SweepInv
  <1> QED
    BY <1>1, SweepInvInit, SweepInvNext, PTL DEF SweepSpec

\* What groupIFDsIntoClusters returns is what Clusters says of the set of its offsets.
THEOREM ClustersAreDefinitionThm == SweepSpec => []ClustersAreDefinition
  <1>1. SweepInv => ClustersAreDefinition
    BY DEF SweepInv
  <1> QED
    BY <1>1, SweepInvInit, SweepInvNext, PTL DEF SweepSpec

---------------------------------------------------------------------------
(***************************************************************************)
(* The buffer holds the file's words.                                      *)
(***************************************************************************)
Matching(b) == \A k \in 0 .. b.len - 1 : b.word[k] \in {0, WordAt(file, k)}

\* A word taken from a matching buffer is the file's word or zero, also past the end.
LEMMA MatchingWord ==
    ASSUME NEW b, Matching(b), NEW k
    PROVE  WordAt(b, k) \in {0, WordAt(file, k)}
  BY DEF Matching, WordAt

\* Growing a matching buffer keeps it matching.
LEMMA MatchingExpanded ==
    ASSUME NEW b, Matching(b), NEW R
    PROVE  Matching(Expanded(b, R))
  BY MatchingWord DEF Matching, Expanded

\* So does reading a range into it.
LEMMA MatchingPatched ==
    ASSUME NEW b, Matching(b), NEW o, NEW n
    PROVE  Matching(Patched(b, o, n))
  BY DEF Matching, Patched

LEMMA BufferMatchesInit == OInit => BufferMatchesFile
  BY DEF OInit, BufferMatchesFile, Matching

LEMMA BufferMatchesNext == BufferMatchesFile /\ [ONext]_vars => BufferMatchesFile'
<1> SUFFICES ASSUME BufferMatchesFile, [ONext]_vars PROVE BufferMatchesFile'
  OBVIOUS
<1>0. ASSUME file' = file, buf' = buf PROVE BufferMatchesFile'
  BY <1>0 DEF BufferMatchesFile, Matching, WordAt
<1>1. CASE InitialRead
  BY <1>1 DEF InitialRead, BufferMatchesFile, Matching, env, device, WordAt
<1>2. CASE PlanReads
  <2>1. file' = file
    BY <1>2 DEF PlanReads, env, device
  <2>2. CASE buf' = buf
    BY <2>1, <2>2, <1>0
  <2>3. CASE \E R : buf' = Expanded(buf, R)
    BY <2>1, <2>3, MatchingExpanded DEF BufferMatchesFile, Matching, Expanded, WordAt
  <2> QED
    BY <1>2, <2>2, <2>3 DEF PlanReads
<1>3. CASE ReadRange
  <2>1. file' = file
    BY <1>3 DEF ReadRange, env, device
  <2>2. CASE buf' = buf
    BY <2>1, <2>2, <1>0
  <2>3. CASE \E o, n : buf' = Patched(buf, o, n)
    <3>1. PICK o, n : buf' = Patched(buf, o, n)
      BY <2>3
    <3>2. Matching(buf)
      BY DEF BufferMatchesFile, Matching
    <3>3. Matching(Patched(buf, o, n))
      BY <3>2, MatchingPatched
    <3>4. Matching(buf')
      BY <3>1, <3>3
    <3> QED
      BY <2>1, <3>4 DEF BufferMatchesFile, Matching, WordAt
  <2> QED
    BY <1>3, <2>2, <2>3 DEF ReadRange
<1>4. CASE \/ DeviceError \/ AnalyzeIFD \/ IFDBeyondBuffer \/ IdentifyDone \/ WalkChain
           \/ ParseHeader \/ MetadataOfIFD \/ MetadataDone \/ ParseIFD \/ ParseSubIFD
           \/ ListParsed \/ ParseDone \/ Fallback \/ Refuse \/ FallbackDone
  BY <1>4, <1>0 DEF DeviceError, AnalyzeIFD, IFDBeyondBuffer, IdentifyDone, WalkChain,
     ParseHeader, MetadataOfIFD, MetadataDone, ParseIFD, ParseSubIFD, ListParsed, ParseDone,
     Fallback, Refuse, FallbackDone, env, device
<1>5. CASE TraditionalStep
  BY <1>5, <1>0 DEF TraditionalStep, TNext, ovars, device, ReadHeader, ReadChainIFD,
     ReadChainError, ReadSubIFD, AppendIFDList, ReturnReader
<1>6. CASE UNCHANGED vars
  BY <1>6, <1>0 DEF vars, device, ovars
<1> QED
  BY <1>1, <1>2, <1>3, <1>4, <1>5, <1>6 DEF ONext

\* However the device delivers, fails or falls short, the buffer of the optimized reader
\* holds at each offset the file's word or the zero that make() left there.
THEOREM BufferMatchesFileThm == OptSpec => []BufferMatchesFile
  BY BufferMatchesInit, BufferMatchesNext, PTL DEF OptSpec

(***************************************************************************)
(* Type correctness.  The sets of ranges and offsets are finite: that is   *)
(* what gives the largest of them a meaning.                               *)
(***************************************************************************)
LEMMA SubIFDsSeenTyped ==
    ASSUME NEW b, IsImage(b), NEW o, NEW i
    PROVE  /\ SubIFDsSeen(b, Entry(b, o, i)) \in SUBSET Nat
           /\ IsFiniteSet(SubIFDsSeen(b, Entry(b, o, i)))
<1> DEFINE e == Entry(b, o, i)
           words == [k \in 0 .. e.size - 1 |-> WordAt(b, e.offset + k)]
<1>1. e.size \in Nat /\ e.offset \in Nat
  BY EntryTyped
<1>2. {words[k] : k \in 0 .. e.size - 1} \in SUBSET Nat /\ IsFiniteSet({words[k] : k \in 0 .. e.size - 1})
  <2>1. IsFiniteSet(0 .. e.size - 1)
    BY <1>1, FS_Interval
  <2> QED
    BY <2>1, FiniteRange, WordTyped
<1>3. {words[k] : k \in 0 .. e.size - 1} = {WordAt(b, e.offset + k) : k \in 0 .. e.size - 1}
  OBVIOUS
<1>4. IsFiniteSet({e.offset}) /\ IsFiniteSet({})
  BY FS_Singleton, FS_EmptySet
<1> HIDE DEF words, e
<1> QED
  BY <1>1, <1>2, <1>3, <1>4 DEF SubIFDsSeen, e

LEMMA SubIFDRangeTyped ==
    ASSUME NEW S \in SUBSET Nat, IsFiniteSet(S), S # {}
    PROVE  SubIFDRange(S) \in Ranges
<1>1. MinOf(S) \in Nat /\ MaxOf(S) \in Nat /\ MinOf(S) <= MaxOf(S)
  BY MinOfNat, MaxOfFinite
<1>2. EstimatedIFDSize \in Nat \ {0} /\ SubIFDPadding \in Nat
  BY OptimizedReaderAssumption
<1> QED
  BY <1>1, <1>2 DEF SubIFDRange, DataRange, Ranges

LEMMA MissingForEntryTyped ==
    ASSUME NEW b, IsImage(b), NEW o, NEW i
    PROVE  /\ MissingForEntry(b, Entry(b, o, i)) \in SUBSET Ranges
           /\ IsFiniteSet(MissingForEntry(b, Entry(b, o, i)))
<1> DEFINE e == Entry(b, o, i)
           value == {DataRange(e.offset, e.size)}
           subs == {SubIFDRange(SubIFDsSeen(b, e))}
<1>1. ~ Embedded(e) => value \in SUBSET Ranges
  BY EntryTyped DEF DataRange, Ranges
<1>2. SubIFDsSeen(b, e) # {} => subs \in SUBSET Ranges
  BY SubIFDsSeenTyped, SubIFDRangeTyped
<1>3. MissingForEntry(b, e) \subseteq value \cup subs
  BY DEF MissingForEntry
<1>4. IsFiniteSet(value \cup subs)
  BY FS_Singleton, FS_Union
<1>5. MissingForEntry(b, e) \in SUBSET Ranges
  <2> HIDE DEF value, subs, e
  <2> QED
    BY <1>1, <1>2 DEF MissingForEntry, value, subs
<1> QED
  BY <1>3, <1>4, <1>5, FS_Subset

LEMMA MissingForIFDTyped ==
    ASSUME NEW b, IsImage(b), NEW o \in Nat
    PROVE  MissingForIFD(b, o) \in SUBSET Ranges /\ IsFiniteSet(MissingForIFD(b, o))
<1> DEFINE n == EntryCount(b, o)
           M == [i \in 1 .. n |-> IF EntryWithin(b, o, i) THEN MissingForEntry(b, Entry(b, o, i))
                                  ELSE {DataRange(EntryPos(o, i), EntrySize)}]
<1>1. n \in Nat
  BY WordTyped DEF EntryCount
<1>2. \A i \in 1 .. n : M[i] \in SUBSET Ranges /\ IsFiniteSet(M[i])
  <2> SUFFICES ASSUME NEW i \in 1 .. n PROVE M[i] \in SUBSET Ranges /\ IsFiniteSet(M[i])
    OBVIOUS
  <2>1. {DataRange(EntryPos(o, i), EntrySize)} \in SUBSET Ranges
    BY <1>1 DEF EntryPos, EntrySize, DataRange, Ranges
  <2>2. IsFiniteSet({DataRange(EntryPos(o, i), EntrySize)})
    BY FS_Singleton
  <2> QED
    BY <2>1, <2>2, MissingForEntryTyped
<1>3. IsFiniteSet({M[i] : i \in 1 .. n})
  <2>1. IsFiniteSet(1 .. n) /\ DOMAIN M = 1 .. n
    BY <1>1, FS_Interval
  <2> HIDE DEF M, n
  <2> QED
    BY <2>1, FiniteRange
<1>4. MissingForIFD(b, o) = UNION {M[i] : i \in 1 .. n}
  BY DEF MissingForIFD
<1> HIDE DEF M, n
<1> QED
  BY <1>2, <1>3, <1>4, FS_UNION

\* The ranges of a batch are finitely many.
LEMMA ClusterRangesTyped ==
    ASSUME NEW S \in SUBSET Nat, IsFiniteSet(S)
    PROVE  ClusterRanges(S) \in SUBSET Ranges /\ IsFiniteSet(ClusterRanges(S))
<1> DEFINE range == [s \in ClusterStarts(S) |-> DataRange(s, MaxOf(Cluster(S, s)) - s + ClusterPadding)]
           all == {range[s] : s \in ClusterStarts(S)}
<1>1. \A s \in ClusterStarts(S) : range[s] \in Ranges
  <2> SUFFICES ASSUME NEW s \in ClusterStarts(S) PROVE range[s] \in Ranges
    OBVIOUS
  <2>1. s \in Nat /\ MaxOf(Cluster(S, s)) \in Nat /\ s <= MaxOf(Cluster(S, s))
    BY ClusterBounds
  <2> QED
    BY <2>1, OptimizedReaderAssumption DEF DataRange, Ranges
<1>2. IsFiniteSet(ClusterStarts(S))
  BY FS_Subset DEF ClusterStarts
<1>3. IsFiniteSet(all)
  <2>1. DOMAIN range = ClusterStarts(S)
    OBVIOUS
  <2> HIDE DEF range
  <2> QED
    BY <1>2, <2>1, FiniteRange
<1>4. ClusterRanges(S) \subseteq all
  BY DEF ClusterRanges
<1>5. ClusterRanges(S) \in SUBSET Ranges
  BY <1>1, <1>4
<1> QED
  BY <1>3, <1>4, <1>5, FS_Subset

LEMMA BatchTyped ==
    ASSUME NEW R \in SUBSET Ranges, IsFiniteSet(R), NEW S \in SUBSET Nat, IsFiniteSet(S), NEW n
    PROVE  Batch(R, S, n) \in SUBSET Ranges /\ IsFiniteSet(Batch(R, S, n))
  BY ClusterRangesTyped DEF Batch, SmartBatch

\* The buffer stays an image.
LEMMA ExpandedTyped ==
    ASSUME NEW b, IsImage(b), NEW R \in SUBSET Ranges, IsFiniteSet(R)
    PROVE  IsImage(Expanded(b, R)) /\ Expanded(b, R).len >= b.len
           /\ \A r \in R : End(r) <= Expanded(b, R).len
<1> DEFINE ends == {End(r) : r \in R}
           len  == MaxOf({b.len} \cup ends)
           word == [k \in 0 .. len - 1 |-> WordAt(b, k)]
<1>1. {b.len} \cup ends \in SUBSET Nat /\ IsFiniteSet({b.len} \cup ends)
  BY OffsetsAndEnds, FS_Singleton, FS_Union DEF IsImage
<1>2. len \in {b.len} \cup ends /\ \A x \in {b.len} \cup ends : len >= x
  BY <1>1, MaxOfFinite
<1>3. word \in [0 .. len - 1 -> Nat]
  BY WordTyped
<1>4. Expanded(b, R) = [len |-> len, word |-> word]
  BY DEF Expanded
<1>5. len \in Nat /\ len >= b.len
  BY <1>1, <1>2
<1>6. \A r \in R : End(r) <= len
  <2> SUFFICES ASSUME NEW r \in R PROVE End(r) <= len
    OBVIOUS
  <2>1. End(r) \in ends /\ End(r) \in Nat
    BY <1>1
  <2>2. len >= End(r)
    BY <1>2, <2>1
  <2> HIDE DEF len
  <2> QED
    BY <1>5, <2>1, <2>2
<1> HIDE DEF word, len
<1> QED
  BY <1>3, <1>4, <1>5, <1>6 DEF IsImage

LEMMA PatchedTyped ==
    ASSUME NEW b, IsImage(b), IsImage(file), NEW o, NEW n
    PROVE  IsImage(Patched(b, o, n))
<1> DEFINE word == [k \in 0 .. b.len - 1 |->
                       IF k \in o .. o + n - 1 THEN WordAt(file, k) ELSE b.word[k]]
<1>1. b.len \in Nat /\ word \in [0 .. b.len - 1 -> Nat]
  BY WordTyped DEF IsImage
<1>2. Patched(b, o, n) = [len |-> b.len, word |-> word]
  BY DEF Patched
<1> HIDE DEF word
<1> QED
  BY <1>1, <1>2 DEF IsImage

TypeInv == OTypeOK /\ IsFiniteSet(missing) /\ IsFiniteSet(chain)

LEMMA TypeInit == OInit => TypeInv
<1> SUFFICES ASSUME OInit PROVE TypeInv
  OBVIOUS
<1>1. TTypeOK
  BY TTypeInit DEF OInit
<1>2. IsImage(buf)
  BY DEF OInit, IsImage
<1>3. stats \in Statistics
  BY DEF OInit, NoStats, Statistics
<1> QED
  BY <1>1, <1>2, <1>3, FS_EmptySet DEF OInit, TypeInv, OTypeOK, Final

\* The parse of an IFD that is in the buffer.
LEMMA ParsedTyped ==
    ASSUME NEW b, IsImage(b), NEW o \in Nat
    PROVE  /\ ParsedIFD(b, o) \in IFDs /\ ParsedIFD(b, o).next \in Nat
           /\ GetSubIFD(ParsedIFD(b, o)) \in Seq(Nat)
<1>1. ParsedIFD(b, o) \in IFDs /\ \A e \in ParsedIFD(b, o).entries : Len(e[3]) >= e[2]
  BY IFDTyped DEF ParsedIFD
<1>2. ParsedIFD(b, o).next \in Nat
  BY <1>1 DEF IFDs
<1> QED
  BY <1>1, <1>2, SubIFDOffsetsTyped

LEMMA CountedTyped ==
    ASSUME NEW st \in Statistics, NEW n \in Nat
    PROVE  Counted(st, n) \in Statistics
  BY DEF Counted, Statistics

\* The steps that read.
LEMMA TypeReading ==
    ASSUME TypeInv, InitialRead \/ DeviceError \/ PlanReads \/ ReadRange
    PROVE  TypeInv'
<1> USE DEF TypeInv, OTypeOK
<1>0. TTypeOK' /\ config' = config
  BY DEF InitialRead, DeviceError, PlanReads, ReadRange, env, device, tvars, TTypeOK
<1>1. CASE InitialRead
  <2>1. PICK n \in ReadCounts(0, config.buffer) :
            /\ buf' = [len |-> n, word |-> [k \in 0 .. n - 1 |-> WordAt(file, k)]]
            /\ stats' = [stats EXCEPT !.ioCalls = 1, !.bytesRead = n]
    BY <1>1 DEF InitialRead
  <2>2. n \in Nat
    <3>1. config.buffer \in Nat /\ 0 <= file.len
      BY OptimizedReaderAssumption DEF TTypeOK, IsImage
    <3> QED
      BY <3>1, ReadCountsTyped
  <2>3. IsImage(buf')
    <3>1. [k \in 0 .. n - 1 |-> WordAt(file, k)] \in [0 .. n - 1 -> Nat]
      BY WordTyped DEF TTypeOK
    <3> QED
      BY <2>1, <2>2, <3>1 DEF IsImage
  <2>4. stats' \in Statistics
    BY <1>1, <2>1, <2>2 DEF InitialRead, Statistics
  <2>5. opc' \in {"identify", "failed"} /\ off' \in Nat
    <3>1. WordAt(buf', 1) \in Nat
      BY <2>3, WordTyped
    <3>2. off' = WordAt(buf', 1) \/ off' = off
      BY <1>1 DEF InitialRead, FirstIFD
    <3> QED
      BY <1>1, <3>1, <3>2 DEF InitialRead
  <2>6. UNCHANGED <<missing, chain, count, osubs, ocur, oifd>> /\ reads' = reads + 1
    BY <1>1 DEF InitialRead, parse
  <2> QED
    BY <1>0, <2>3, <2>4, <2>5, <2>6
<1>2. CASE DeviceError
  BY <1>0, <1>2 DEF DeviceError, walk, parse
<1>3. CASE PlanReads
  <2>1. Batch(missing, chain, count) \in SUBSET Ranges /\ IsFiniteSet(Batch(missing, chain, count))
    BY BatchTyped
  <2>2. IsImage(buf') /\ missing' \in SUBSET Ranges /\ IsFiniteSet(missing')
    BY <1>3, <2>1, ExpandedTyped DEF PlanReads
  <2>3. opc' \in {"failed", "read"} /\ opc # "fellback"
    BY <1>3 DEF PlanReads
  <2> QED
    BY <1>0, <1>3, <2>2, <2>3 DEF PlanReads, parse
<1>4. CASE ReadRange
  <2> DEFINE r == CHOOSE r \in missing : \A q \in missing : r.offset <= q.offset
  <2>1. CASE UNCHANGED <<buf, missing, stats, reads>> /\ opc' = "failed"
    BY <1>0, <1>4, <2>1 DEF ReadRange, parse
  <2>2. CASE ~ (UNCHANGED <<buf, missing, stats, reads>> /\ opc' = "failed")
    <3>1. /\ \E n \in IF r.offset < file.len THEN ReadCounts(r.offset, r.size) ELSE {0} :
                buf' = Patched(buf, r.offset, n) /\ stats' = Counted(stats, n)
          /\ missing' = missing \ {r} /\ reads' = reads + 1 /\ opc' = opc /\ opc = "read"
      BY <1>4, <2>2 DEF ReadRange
    <3>2. PICK n \in IF r.offset < file.len THEN ReadCounts(r.offset, r.size) ELSE {0} :
                buf' = Patched(buf, r.offset, n) /\ stats' = Counted(stats, n)
      BY <3>1
    <3>3. r \in missing
      BY <1>4, FirstRange DEF ReadRange
    <3>4. n \in Nat
      <4>1. r.offset \in Nat /\ r.size \in Nat /\ file.len \in Nat
        <5>1. file.len \in Nat
          BY DEF TTypeOK, IsImage
        <5> HIDE DEF r
        <5> QED
          BY <3>3, <5>1 DEF Ranges
      <4> HIDE DEF r
      <4>2. CASE r.offset < file.len
        <5>1. n \in ReadCounts(r.offset, r.size) /\ r.offset <= file.len
          BY <3>2, <4>1, <4>2
        <5> QED
          BY <4>1, <5>1, ReadCountsTyped
      <4>3. CASE ~ (r.offset < file.len)
        BY <3>2, <4>3
      <4> QED
        BY <4>2, <4>3
    <3>5. IsImage(buf')
      BY <3>2, PatchedTyped DEF TTypeOK
    <3>6. stats' \in Statistics
      <4>1. stats \in Statistics
        BY <3>1
      <4>2. stats' = Counted(stats, n) /\ n \in Nat
        BY <3>2, <3>4
      <4> QED
        BY <4>1, <4>2, CountedTyped
    <3>7. missing' \in SUBSET Ranges /\ IsFiniteSet(missing')
      BY <3>1, FS_RemoveElement
    <3> QED
      BY <1>0, <1>4, <3>1, <3>5, <3>6, <3>7 DEF ReadRange, parse
  <2> QED
    BY <2>1, <2>2
<1> QED
  BY <1>1, <1>2, <1>3, <1>4

\* The steps that look for metadata.
LEMMA TypeWalking ==
    ASSUME TypeInv, AnalyzeIFD \/ IFDBeyondBuffer \/ IdentifyDone \/ WalkChain
    PROVE  TypeInv'
<1> USE DEF TypeInv, OTypeOK
<1>0. TTypeOK' /\ config' = config
  BY DEF AnalyzeIFD, IFDBeyondBuffer, IdentifyDone, WalkChain, env, device, tvars, TTypeOK
<1>1. CASE AnalyzeIFD
  <2>1. MissingForIFD(buf, off) \in SUBSET Ranges /\ IsFiniteSet(MissingForIFD(buf, off))
    BY MissingForIFDTyped
  <2>2. NextIFDSeen(buf, off) \in Nat
    BY WordTyped DEF NextIFDSeen
  <2>3. missing' \in SUBSET Ranges /\ IsFiniteSet(missing') /\ off' \in Nat
    <3>1. IsFiniteSet(missing \cup MissingForIFD(buf, off))
      BY <2>1, FS_Union
    <3>2. CASE UNCHANGED <<off, missing>>
      BY <3>2
    <3>3. CASE missing' = missing \cup MissingForIFD(buf, off) /\ off' = NextIFDSeen(buf, off)
      BY <2>1, <2>2, <3>1, <3>3
    <3> QED
      BY <1>1, <3>2, <3>3 DEF AnalyzeIFD
  <2>4. opc' \in {"identify", "failed"} /\ opc = "identify"
    BY <1>1 DEF AnalyzeIFD
  <2>5. UNCHANGED <<buf, chain, count, osubs, ocur, oifd, stats, reads>>
    BY <1>1 DEF AnalyzeIFD, parse
  <2> QED
    BY <1>0, <2>3, <2>4, <2>5
<1>2. CASE IFDBeyondBuffer
  <2>1. RangeToIFD(buf, off) \in Ranges
    <3>1. buf.len \in Nat /\ off - buf.len \in Nat
      <4>1. buf.len \in Nat /\ off \in Nat
        BY DEF IsImage
      <4>2. off >= buf.len
        BY <1>2 DEF IFDBeyondBuffer
      <4> HIDE DEF TypeInv, OTypeOK
      <4> QED
        BY <4>1, <4>2
    <3>2. EstimatedIFDSize \in Nat \ {0} /\ RangePadding \in Nat
      BY OptimizedReaderAssumption
    <3> DEFINE size == (off - buf.len) + EstimatedIFDSize + RangePadding
    <3>3. size \in Nat \ {0}
      <4> HIDE DEF TypeInv, OTypeOK
      <4> QED
        BY <3>1, <3>2
    <3>4. RangeToIFD(buf, off) = [offset |-> buf.len, size |-> size]
      BY DEF RangeToIFD, DataRange
    <3> HIDE DEF size
    <3> QED
      BY <3>1, <3>3, <3>4 DEF Ranges
  <2>2. missing' \in SUBSET Ranges /\ IsFiniteSet(missing') /\ off' \in Nat
    BY <1>2, <2>1, FS_AddElement DEF IFDBeyondBuffer
  <2>3. UNCHANGED <<opc, buf, chain, count, osubs, ocur, oifd, stats, reads>>
    BY <1>2 DEF IFDBeyondBuffer, parse
  <2> QED
    BY <1>0, <2>2, <2>3
<1>3. CASE IdentifyDone
  <2>1. MergeDataRanges(missing) \in SUBSET Ranges /\ IsFiniteSet(MergeDataRanges(missing))
    BY MergeTyped
  <2>2. off' \in Nat
    BY <1>3, WordTyped DEF IdentifyDone, FirstIFD
  <2>3. opc' \in {"parseHeader", "walk"} /\ opc = "identify"
        /\ missing' = MergeDataRanges(missing)
    BY <1>3 DEF IdentifyDone
  <2>4. UNCHANGED <<buf, chain, count, osubs, ocur, oifd, stats, reads>>
    BY <1>3 DEF IdentifyDone, parse
  <2> QED
    BY <1>0, <2>1, <2>2, <2>3, <2>4
<1>4. CASE WalkChain
  <2>1. chain' \in SUBSET Nat /\ IsFiniteSet(chain') /\ count' \in Nat
    <3>1. chain' = chain \cup {off} /\ count' = count + 1
      BY <1>4 DEF WalkChain
    <3>2. IsFiniteSet(chain \cup {off})
      BY FS_AddElement
    <3> QED
      BY <3>1, <3>2
  <2>2. off' \in Nat
    BY <1>4, WordTyped DEF WalkChain, TTypeOK
  <2>3. reads' \in Nat
    <3> DEFINE looked == {off} \cup {NextPos(file, off)}
               found == {k \in {off, NextPos(file, off)} : k < file.len}
    <3>1. found \subseteq looked /\ IsFiniteSet(looked)
      BY FS_Singleton, FS_AddElement
    <3>2. Cardinality(found) \in Nat
      BY <3>1, FS_Subset, FS_CardinalityType
    <3>3. reads' = reads \/ reads' = reads + Cardinality(found)
      BY <1>4 DEF WalkChain
    <3> HIDE DEF found
    <3> QED
      BY <3>2, <3>3
  <2>4. UNCHANGED <<opc, buf, missing, osubs, ocur, oifd, stats>>
    BY <1>4 DEF WalkChain, parse
  <2> QED
    BY <1>0, <2>1, <2>2, <2>3, <2>4
<1> QED
  BY <1>1, <1>2, <1>3, <1>4

\* The steps that parse the buffer.
LEMMA TypeParsing ==
    ASSUME TypeInv,
           ParseHeader \/ MetadataOfIFD \/ MetadataDone \/ ParseIFD \/ ParseSubIFD
           \/ ListParsed \/ ParseDone
    PROVE  TypeInv'
<1> USE DEF TypeInv, OTypeOK
<1>0. TTypeOK' /\ UNCHANGED <<config, buf, missing, chain, reads>>
  BY DEF ParseHeader, MetadataOfIFD, MetadataDone, ParseIFD, ParseSubIFD, ListParsed,
         ParseDone, env, device, tvars, walk, parse, TTypeOK
<1>1. CASE ParseHeader
  <2>1. off' \in Nat /\ opc' \in {"metadata", "failed"} /\ opc # "fellback"
    BY <1>1, WordTyped DEF ParseHeader, FirstIFD
  <2>2. stats' \in Statistics
    <3>1. stats \in Statistics
      BY <1>1 DEF ParseHeader
    <3>2. stats' = stats \/ stats' = [stats EXCEPT !.metadataSize = HeadSize]
      BY <1>1 DEF ParseHeader
    <3> QED
      BY <3>1, <3>2 DEF Statistics, HeadSize
  <2>3. UNCHANGED <<count, osubs, ocur, oifd>>
    BY <1>1 DEF ParseHeader, parse
  <2> QED
    BY <1>0, <2>1, <2>2, <2>3
<1>2. CASE MetadataOfIFD
  <2>1. off' \in Nat /\ opc' = opc /\ opc = "metadata"
    BY <1>2, WordTyped DEF MetadataOfIFD, NextIFDSeen
  <2>2. stats' \in Statistics
    <3>1. EntryCount(buf, off) \in Nat /\ MetadataBound \in Nat
      BY WordTyped, OptimizedReaderAssumption DEF EntryCount
    <3>2. stats \in Statistics
      BY <2>1
    <3> DEFINE size == Least(MetadataBound, stats.metadataSize + 2 + EntrySize * EntryCount(buf, off))
    <3>3. stats' = [stats EXCEPT !.metadataSize = size]
      BY <1>2 DEF MetadataOfIFD
    <3>4. size \in Nat
      <4>1. stats.metadataSize \in Nat
        BY <3>2 DEF Statistics
      <4> QED
        BY <3>1, <4>1 DEF Least, EntrySize
    <3> HIDE DEF size
    <3> QED
      BY <3>2, <3>3, <3>4 DEF Statistics
  <2>3. UNCHANGED <<count, osubs, ocur, oifd>>
    BY <1>2 DEF MetadataOfIFD, parse
  <2> QED
    BY <1>0, <2>1, <2>2, <2>3
<1>3. CASE MetadataDone
  <2>1. off' \in Nat /\ opc' = "parse" /\ opc = "metadata" /\ count' = 0
    BY <1>3, WordTyped DEF MetadataDone, FirstIFD
  <2>2. UNCHANGED <<stats, osubs, ocur, oifd>>
    BY <1>3 DEF MetadataDone, parse
  <2> QED
    BY <1>0, <2>1, <2>2
<1>4. CASE ParseIFD
  <2>1. ParsedIFD(buf, off) \in IFDs /\ ParsedIFD(buf, off).next \in Nat
        /\ GetSubIFD(ParsedIFD(buf, off)) \in Seq(Nat)
    BY ParsedTyped
  <2>2. off' \in Nat /\ osubs' \in Seq(Nat) /\ ocur' \in Seq(IFDs) /\ count' \in Nat
    <3>1. count' = count + 1
      BY <1>4 DEF ParseIFD
    <3>2. CASE UNCHANGED <<off, osubs, ocur>>
      BY <3>1, <3>2
    <3>3. CASE /\ ocur' = <<ParsedIFD(buf, off)>> /\ osubs' = GetSubIFD(ParsedIFD(buf, off))
               /\ off' = ParsedIFD(buf, off).next
      BY <2>1, <3>1, <3>3
    <3> QED
      BY <1>4, <3>2, <3>3 DEF ParseIFD
  <2>3. opc' \in {"failed", "opened", "subs"} /\ opc = "parse" /\ UNCHANGED <<oifd, stats>>
    BY <1>4 DEF ParseIFD
  <2> QED
    BY <1>0, <2>2, <2>3 DEF Final
<1>5. CASE ParseSubIFD
  <2>1. Head(osubs) \in Nat /\ Tail(osubs) \in Seq(Nat)
    BY <1>5 DEF ParseSubIFD
  <2>2. ocur' \in Seq(IFDs)
    <3>1. ParsedIFD(buf, Head(osubs)) \in IFDs
      BY <2>1, ParsedTyped
    <3>2. ocur' = ocur \/ ocur' = Append(ocur, ParsedIFD(buf, Head(osubs)))
      BY <1>5 DEF ParseSubIFD
    <3>3. ocur \in Seq(IFDs)
      OBVIOUS
    <3> HIDE DEF TypeInv, OTypeOK
    <3> DEFINE new == ParsedIFD(buf, Head(osubs))
    <3> HIDE DEF new
    <3>4. Append(ocur, new) \in Seq(IFDs)
      BY <3>1, <3>3 DEF new
    <3> QED
      BY <3>2, <3>3, <3>4 DEF new
  <2>3. osubs' = Tail(osubs) /\ UNCHANGED <<opc, off, count, oifd, stats>>
    BY <1>5 DEF ParseSubIFD, walk
  <2> QED
    BY <1>0, <2>1, <2>2, <2>3
<1>6. CASE ListParsed
  <2>1. oifd' \in Seq(Seq(IFDs)) /\ ocur' \in Seq(IFDs) /\ opc' = "parse" /\ opc = "subs"
    BY <1>6 DEF ListParsed
  <2>2. UNCHANGED <<off, count, osubs, stats>>
    BY <1>6 DEF ListParsed, walk
  <2> QED
    BY <1>0, <2>1, <2>2
<1>7. CASE ParseDone
  <2>1. opc' = "opened" /\ opc = "parse"
    BY <1>7 DEF ParseDone
  <2>2. UNCHANGED <<off, count, osubs, ocur, oifd, stats>>
    BY <1>7 DEF ParseDone, walk, parse
  <2> QED
    BY <1>0, <2>1, <2>2 DEF Final
<1> QED
  BY <1>1, <1>2, <1>3, <1>4, <1>5, <1>6, <1>7

\* The steps of the fallback.
LEMMA TypeFallback ==
    ASSUME TypeInv, Fallback \/ Refuse \/ FallbackDone \/ TraditionalStep
    PROVE  TypeInv'
<1> USE DEF TypeInv, OTypeOK
<1>1. CASE Fallback
  <2>1. TTypeOK'
    BY <1>1 DEF Fallback, env, device, TTypeOK
  <2>2. stats' \in Statistics
    BY <1>1 DEF Fallback, NoStats, Statistics
  <2>3. UNCHANGED <<config, buf, off, missing, chain, count, reads>> /\ opc' = "fallback"
        /\ oifd' = <<>> /\ ocur' = <<>> /\ osubs' = <<>>
    BY <1>1 DEF Fallback, env, walk
  <2> QED
    BY <2>1, <2>2, <2>3
<1>2. CASE Refuse
  <2>1. TTypeOK'
    BY <1>2 DEF Refuse, env, device, tvars, TTypeOK
  <2>2. UNCHANGED <<config, buf, off, missing, chain, count, reads, osubs, ocur, oifd, stats>>
        /\ opc' = "refused" /\ opc # "fellback"
    BY <1>2 DEF Refuse, env, walk, parse
  <2> QED
    BY <2>1, <2>2 DEF Final
<1>3. CASE FallbackDone
  <2>1. TTypeOK'
    BY <1>3 DEF FallbackDone, env, device, tvars, TTypeOK
  <2>2. UNCHANGED <<config, buf, off, missing, chain, count, reads, osubs, ocur>>
    BY <1>3 DEF FallbackDone, env, walk
  <2>3. \/ opc' = "panic" /\ opc # "fellback" /\ UNCHANGED <<oifd, stats>>
        \/ opc' = "fellback" /\ oifd' = tifd
    BY <1>3 DEF FallbackDone
  <2>4. tifd \in Seq(Seq(IFDs))
    BY DEF TTypeOK
  <2> QED
    BY <2>1, <2>2, <2>3, <2>4 DEF Final
<1>4. CASE TraditionalStep
  <2>1. TTypeOK'
    BY <1>4, TTypeNext DEF TraditionalStep
  <2>2. UNCHANGED <<config, opc, buf, off, missing, chain, count, reads, osubs, ocur, oifd, stats>>
    BY <1>4 DEF TraditionalStep, ovars, walk, parse
  <2> QED
    BY <2>1, <2>2
<1> QED
  BY <1>1, <1>2, <1>3, <1>4

LEMMA TypeNext == TypeInv /\ [ONext]_vars => TypeInv'
<1> SUFFICES ASSUME TypeInv, [ONext]_vars PROVE TypeInv'
  OBVIOUS
<1>1. CASE ONext
  BY <1>1, TypeReading, TypeWalking, TypeParsing, TypeFallback DEF ONext
<1>2. CASE UNCHANGED vars
  BY <1>2 DEF vars, device, tvars, ovars, walk, parse, TypeInv, OTypeOK, TTypeOK
<1> QED
  BY <1>1, <1>2

\* Every variable of the optimized reader keeps its type, for every file and device.
THEOREM OptTypeOK == OptSpec => []OTypeOK
<1>1. TypeInv => OTypeOK
  BY DEF TypeInv
<1> QED
  BY <1>1, TypeInit, TypeNext, PTL DEF OptSpec

(***************************************************************************)
(* The circuit breaker.  Before the ranges are planned no adaptive read    *)
(* was made, so what the breaker lets through is all there will be.        *)
(***************************************************************************)
BudgetInv ==
    /\ ReadBudget
    /\ opc \in {"initial", "identify", "walk"} => stats.adaptiveCalls = 0

LEMMA BudgetInit == OInit => BudgetInv
<1> SUFFICES ASSUME OInit PROVE BudgetInv
  OBVIOUS
<1>1. stats.ioCalls = 0 /\ stats.adaptiveCalls = 0 /\ opc = "initial" /\ 0 <= MaxAdaptiveReads
  BY OptimizedReaderAssumption DEF OInit, NoStats
<1> QED
  BY <1>1 DEF BudgetInv, ReadBudget

\* A step that counts no read and does not enter or stay among the reading steps keeps
\* the budget.
LEMMA BudgetKept ==
    ASSUME TypeInv, BudgetInv, OnBuffer, opc # "initial",
           stats'.ioCalls = stats.ioCalls, stats'.adaptiveCalls = stats.adaptiveCalls,
           opc' # "initial",
           opc' = "read" => opc = "read" /\ missing' = missing,
           opc' \in {"identify", "walk"} => opc \in {"identify", "walk"}
    PROVE  BudgetInv'
<1>1. stats.adaptiveCalls \in Nat /\ MaxAdaptiveReads \in Nat
  BY OptimizedReaderAssumption DEF TypeInv, OTypeOK, OnBuffer, Statistics
<1>2. Cardinality(missing) \in Nat
  BY FS_CardinalityType DEF TypeInv
<1> QED
  BY <1>1, <1>2 DEF BudgetInv, ReadBudget

LEMMA BudgetNext == TypeInv /\ BudgetInv /\ [ONext]_vars => BudgetInv'
<1> SUFFICES ASSUME TypeInv, BudgetInv, [ONext]_vars PROVE BudgetInv'
  OBVIOUS
<1>1. CASE InitialRead
  <2>1. PICK n \in ReadCounts(0, config.buffer) :
            stats' = [stats EXCEPT !.ioCalls = 1, !.bytesRead = n]
    BY <1>1 DEF InitialRead
  <2>2. stats \in Statistics /\ opc = "initial"
    BY <1>1 DEF InitialRead, TypeInv, OTypeOK
  <2>3. stats'.ioCalls = 1 /\ stats'.adaptiveCalls = 0
    BY <2>1, <2>2 DEF Statistics, BudgetInv
  <2>4. opc' \in {"identify", "failed"} /\ MaxAdaptiveReads \in Nat
    BY <1>1, OptimizedReaderAssumption DEF InitialRead
  <2> QED
    BY <2>3, <2>4 DEF BudgetInv, ReadBudget
<1>2. CASE PlanReads
  <2>1. opc = "walk" /\ stats' = stats /\ stats.adaptiveCalls = 0 /\ stats.ioCalls = 1
    BY <1>2 DEF PlanReads, BudgetInv, ReadBudget, OnBuffer
  <2>2. CASE opc' = "failed"
    BY <2>2 DEF BudgetInv, ReadBudget, OnBuffer
  <2>3. CASE opc' # "failed"
    <3>1. opc' = "read" /\ missing' = Batch(missing, chain, count)
          /\ ~ (Cardinality(Batch(missing, chain, count)) > MaxAdaptiveReads)
      BY <1>2, <2>3 DEF PlanReads
    <3>2. Cardinality(missing') \in Nat /\ MaxAdaptiveReads \in Nat
      BY <3>1, BatchTyped, FS_CardinalityType, OptimizedReaderAssumption DEF TypeInv, OTypeOK
    <3> QED
      BY <2>1, <3>1, <3>2 DEF BudgetInv, ReadBudget
  <2> QED
    BY <2>2, <2>3
<1>3. CASE ReadRange
  <2>1. CASE opc' = "failed"
    BY <2>1 DEF BudgetInv, ReadBudget, OnBuffer
  <2>2. CASE opc' # "failed"
    <3> DEFINE r == CHOOSE r \in missing : \A q \in missing : r.offset <= q.offset
    <3>1. /\ \E n : stats' = Counted(stats, n)
          /\ missing' = missing \ {r} /\ opc' = opc /\ opc = "read"
      BY <1>3, <2>2 DEF ReadRange
    <3>2. r \in missing
      BY <1>3, FirstRange DEF ReadRange, TypeInv, OTypeOK
    <3>3. Cardinality(missing') = Cardinality(missing) - 1 /\ Cardinality(missing) \in Nat
      BY <3>1, <3>2, FS_RemoveElement, FS_CardinalityType DEF TypeInv
    <3>4. stats'.ioCalls = stats.ioCalls + 1 /\ stats'.adaptiveCalls = stats.adaptiveCalls + 1
      BY <3>1 DEF Counted
    <3>5. stats.adaptiveCalls \in Nat /\ MaxAdaptiveReads \in Nat
      BY <3>1, OptimizedReaderAssumption DEF TypeInv, OTypeOK, Statistics
    <3> HIDE DEF r
    <3> QED
      BY <3>1, <3>3, <3>4, <3>5 DEF BudgetInv, ReadBudget, OnBuffer
  <2> QED
    BY <2>1, <2>2
<1>4. CASE AnalyzeIFD
  <2>1. opc = "identify" /\ opc' \in {"identify", "failed"} /\ stats' = stats
    BY <1>4 DEF AnalyzeIFD
  <2> QED
    BY <2>1, BudgetKept DEF OnBuffer
<1>5. CASE IFDBeyondBuffer
  <2>1. opc = "identify" /\ opc' = opc /\ stats' = stats
    BY <1>5 DEF IFDBeyondBuffer
  <2> QED
    BY <2>1, BudgetKept DEF OnBuffer
<1>6. CASE IdentifyDone
  <2>1. opc = "identify" /\ opc' \in {"parseHeader", "walk"} /\ stats' = stats
    BY <1>6 DEF IdentifyDone
  <2> QED
    BY <2>1, BudgetKept DEF OnBuffer
<1>7. CASE WalkChain
  <2>1. opc = "walk" /\ opc' = opc /\ stats' = stats
    BY <1>7 DEF WalkChain
  <2> QED
    BY <2>1, BudgetKept DEF OnBuffer
<1>8. CASE ParseHeader \/ MetadataOfIFD
  <2>1. opc \in {"parseHeader", "read", "metadata"} /\ opc' \in {"metadata", "failed"}
    BY <1>8 DEF ParseHeader, MetadataOfIFD
  <2>2. stats \in Statistics
    BY <2>1 DEF TypeInv, OTypeOK
  <2>3. \E size : stats' = stats \/ stats' = [stats EXCEPT !.metadataSize = size]
    BY <1>8 DEF ParseHeader, MetadataOfIFD
  <2>4. stats'.ioCalls = stats.ioCalls /\ stats'.adaptiveCalls = stats.adaptiveCalls
    BY <2>2, <2>3 DEF Statistics
  <2> QED
    BY <2>1, <2>4, BudgetKept DEF OnBuffer
<1>9. CASE MetadataDone \/ ParseIFD \/ ParseSubIFD \/ ListParsed \/ ParseDone
  <2>1. /\ opc \in {"metadata", "parse", "subs"} /\ stats' = stats
        /\ opc' \in {"parse", "failed", "opened", "subs"}
    BY <1>9 DEF MetadataDone, ParseIFD, ParseSubIFD, ListParsed, ParseDone
  <2> QED
    BY <2>1, BudgetKept DEF OnBuffer
<1>10. CASE DeviceError \/ Fallback \/ Refuse \/ FallbackDone \/ TraditionalStep
  <2>1. opc' \in {"failed", "fallback", "refused", "panic", "fellback"}
    BY <1>10 DEF DeviceError, Fallback, Refuse, FallbackDone, TraditionalStep, ovars
  <2> QED
    BY <2>1 DEF BudgetInv, ReadBudget, OnBuffer
<1>11. CASE UNCHANGED vars
  BY <1>11 DEF vars, ovars, walk, BudgetInv, ReadBudget, OnBuffer
<1> QED
  BY <1>1, <1>2, <1>3, <1>4, <1>5, <1>6, <1>7, <1>8, <1>9, <1>10, <1>11 DEF ONext

\* The reads made and those still planned never exceed the circuit breaker's limit, and
\* the counts reported agree with each other.
THEOREM ReadBudgetThm == OptSpec => []ReadBudget
<1>1. BudgetInv => ReadBudget
  BY DEF BudgetInv
<1> QED
  BY <1>1, TypeInit, TypeNext, BudgetInit, BudgetNext, PTL DEF OptSpec

(***************************************************************************)
(* The ranges of one batch.                                                *)
(***************************************************************************)
Disjoint(R) == \A r, q \in R : r.offset < q.offset => End(r) <= q.offset

\* Merging leaves a gap behind every range, clusters are a gap apart.
LEMMA BatchDisjoint ==
    ASSUME ClusterPadding <= ClusterGap + 1,
           NEW R \in SUBSET Ranges, Disjoint(R),
           NEW S \in SUBSET Nat, IsFiniteSet(S), NEW n
    PROVE  Disjoint(Batch(R, S, n))
<1>1. Disjoint(ClusterRanges(S))
  <2> DEFINE last(s) == MaxOf(Cluster(S, s))
             range(s) == DataRange(s, last(s) - s + ClusterPadding)
  <2>1. SUFFICES ASSUME NEW s \in ClusterStarts(S), NEW t \in ClusterStarts(S), s < t
                 PROVE  End(range(s)) <= t
    BY DEF Disjoint, ClusterRanges, DataRange
  <2>2. s \in Nat /\ t \in Nat /\ last(s) \in Nat
    BY ClusterBounds
  <2>3. last(s) + ClusterGap < t
    BY <2>1, ClustersApart
  <2>4. ClusterGap \in Nat /\ ClusterPadding \in Nat
    BY DataRangesAssumption, OptimizedReaderAssumption
  <2>5. End(range(s)) = s + (last(s) - s + ClusterPadding)
    BY DEF End, DataRange
  <2> HIDE DEF last, range
  <2> QED
    BY <2>2, <2>3, <2>4, <2>5
<1>2. Batch(R, S, n) \in {R, ClusterRanges(S)}
  BY DEF Batch, SmartBatch
<1> QED
  BY <1>1, <1>2

LEMMA MergeDisjoint ==
    ASSUME NEW R \in SUBSET Ranges, IsFiniteSet(R)
    PROVE  Disjoint(MergeDataRanges(R))
<1>1. SUFFICES ASSUME NEW r \in MergeDataRanges(R), NEW q \in MergeDataRanges(R), r.offset < q.offset
               PROVE  End(r) <= q.offset
  BY DEF Disjoint
<1>2. End(r) + MaxBatchGap < q.offset
  BY <1>1, MergeSeparates
<1>3. End(r) \in Nat /\ q.offset \in Nat
  BY MergeTyped DEF Ranges, End
<1> QED
  BY <1>2, <1>3, DataRangesAssumption

RangesInv == opc \in {"walk", "read"} => Disjoint(missing)

LEMMA RangesNext ==
    ASSUME ClusterPadding <= ClusterGap + 1, TypeInv, RangesInv, [ONext]_vars
    PROVE  RangesInv'
<1>1. CASE IdentifyDone
  BY <1>1, MergeDisjoint DEF IdentifyDone, RangesInv, TypeInv, OTypeOK
<1>2. CASE PlanReads
  <2>1. Disjoint(Batch(missing, chain, count))
    BY <1>2, BatchDisjoint DEF PlanReads, RangesInv, TypeInv, OTypeOK
  <2>2. opc' = "failed" \/ missing' = Batch(missing, chain, count)
    BY <1>2 DEF PlanReads
  <2> QED
    BY <2>1, <2>2 DEF RangesInv
<1>3. CASE ReadRange
  <2>1. opc = "read" /\ missing' \subseteq missing
    BY <1>3 DEF ReadRange
  <2> QED
    BY <2>1 DEF RangesInv, Disjoint
<1>4. CASE WalkChain
  BY <1>4 DEF WalkChain, RangesInv
<1>5. CASE \/ InitialRead \/ DeviceError \/ AnalyzeIFD \/ IFDBeyondBuffer \/ ParseHeader
           \/ MetadataOfIFD \/ MetadataDone \/ ParseIFD \/ ParseSubIFD \/ ListParsed
           \/ ParseDone \/ Fallback \/ Refuse \/ FallbackDone \/ TraditionalStep
  <2>1. opc' \notin {"walk", "read"}
    BY <1>5 DEF InitialRead, DeviceError, AnalyzeIFD, IFDBeyondBuffer, ParseHeader,
       MetadataOfIFD, MetadataDone, ParseIFD, ParseSubIFD, ListParsed, ParseDone, Fallback,
       Refuse, FallbackDone, TraditionalStep, ovars
  <2> QED
    BY <2>1 DEF RangesInv
<1>6. CASE UNCHANGED vars
  BY <1>6 DEF vars, ovars, walk, RangesInv
<1> QED
  BY <1>1, <1>2, <1>3, <1>4, <1>5, <1>6 DEF ONext

\* With a padding no larger than the gap between clusters (2 KiB and 4 KiB in the code) no
\* two ranges of a batch overlap, so no word is fetched twice by the adaptive reads.
THEOREM RangesDisjointThm ==
    ASSUME ClusterPadding <= ClusterGap + 1
    PROVE  OptSpec => []RangesDisjoint
<1>1. OInit => RangesInv
  BY DEF OInit, RangesInv
<1>2. TypeInv /\ RangesInv /\ [ONext]_vars => RangesInv'
  BY RangesNext
<1>3. RangesInv => RangesDisjoint
  BY DEF RangesInv, RangesDisjoint, Disjoint
<1> QED
  BY <1>1, <1>2, <1>3, TypeInit, TypeNext, PTL DEF OptSpec

(***************************************************************************)
(* The fallback.  The traditional reader is idle until it takes over, then *)
(* its invariants hold as if it had been called alone, and its outcome is  *)
(* the call's outcome.                                                     *)
(***************************************************************************)
FallbackInv ==
    /\ opc \notin {"fallback", "fellback", "refused", "panic"} => tpc = "idle"
    /\ opc = "fellback" => tpc = "done" /\ oifd = tifd
    /\ opc = "refused" /\ config.fallback => tpc = "err"
    /\ Reliable => OpenInv

LEMMA FallbackInit == OInit => FallbackInv
<1> SUFFICES ASSUME OInit PROVE FallbackInv
  OBVIOUS
<1>1. OpenInv
  BY OpenInvInit DEF OInit
<1> QED
  BY <1>1 DEF OInit, FallbackInv

LEMMA FallbackNext == TypeInv /\ FallbackInv /\ [ONext]_vars => FallbackInv'
<1> SUFFICES ASSUME TypeInv, FallbackInv, [ONext]_vars PROVE FallbackInv'
  OBVIOUS
<1>0. TTypeOK
  BY DEF TypeInv, OTypeOK
<1>1. ASSUME UNCHANGED <<device, tvars>>
      PROVE  (Reliable => OpenInv)'
  <2>1. Reliable' <=> Reliable
    BY <1>1 DEF device, Reliable
  <2>2. Reliable => OpenInv'
    BY <1>0, <1>1, OpenInvNext DEF FallbackInv
  <2> QED
    BY <2>1, <2>2
<1>2. CASE \/ InitialRead \/ DeviceError \/ AnalyzeIFD \/ IFDBeyondBuffer \/ IdentifyDone
           \/ WalkChain \/ PlanReads \/ ReadRange \/ ParseHeader \/ MetadataOfIFD
           \/ MetadataDone \/ ParseIFD \/ ParseSubIFD \/ ListParsed \/ ParseDone
  <2>1. /\ UNCHANGED <<device, tvars>>
        /\ opc \notin {"fallback", "fellback", "refused", "panic"}
        /\ opc' \notin {"fallback", "fellback", "refused", "panic"}
    BY <1>2 DEF InitialRead, DeviceError, AnalyzeIFD, IFDBeyondBuffer, IdentifyDone, WalkChain,
       PlanReads, ReadRange, ParseHeader, MetadataOfIFD, MetadataDone, ParseIFD, ParseSubIFD,
       ListParsed, ParseDone, env
  <2>2. tpc' = "idle"
    BY <2>1 DEF FallbackInv, tvars
  <2> QED
    BY <1>1, <2>1, <2>2 DEF FallbackInv
<1>3. CASE Fallback
  <2>1. /\ tpc = "idle" /\ tpc' = "header" /\ opc' = "fallback"
        /\ UNCHANGED <<device, toff, tsubs, tcur, tifd>>
    BY <1>3 DEF Fallback, FallbackInv, env
  <2>2. (Reliable => OpenInv)'
    BY <2>1 DEF FallbackInv, Reliable, OpenInv, Offered, device
  <2> QED
    BY <2>1, <2>2 DEF FallbackInv
<1>4. CASE Refuse
  <2>1. UNCHANGED <<device, tvars, config>> /\ opc' = "refused"
        /\ \/ opc = "failed" /\ ~ config.fallback
           \/ tpc = "err"
    BY <1>4 DEF Refuse, env
  <2> QED
    BY <1>1, <2>1 DEF FallbackInv, tvars
<1>5. CASE FallbackDone
  <2>1. UNCHANGED <<device, tvars>> /\ tpc = "done"
        /\ (opc' = "panic" \/ (opc' = "fellback" /\ oifd' = tifd))
    BY <1>5 DEF FallbackDone, env
  <2> QED
    BY <1>1, <2>1 DEF FallbackInv, tvars
<1>6. CASE TraditionalStep
  <2>1. opc = "fallback" /\ opc' = "fallback" /\ TNext
    BY <1>6 DEF TraditionalStep, ovars
  <2>2. Reliable' <=> Reliable
    BY <2>1 DEF Reliable, TNext, ReadHeader, ReadChainIFD, ReadChainError, ReadSubIFD,
       AppendIFDList, ReturnReader, device
  <2>3. Reliable => OpenInv'
    BY <1>0, <2>1, OpenInvNext DEF FallbackInv
  <2> QED
    BY <2>1, <2>2, <2>3 DEF FallbackInv
<1>7. CASE UNCHANGED vars
  BY <1>1, <1>7 DEF vars, tvars, ovars, parse, FallbackInv
<1> QED
  BY <1>2, <1>3, <1>4, <1>5, <1>6, <1>7 DEF ONext

(***************************************************************************)
(* The parse of a buffer that holds all the metadata.                      *)
(***************************************************************************)
\* The IFD at o, its values included, is the same in the image b as in the file f.
Copied(f, b, o) == \A k \in IFDWords(f, o) : k < b.len /\ b.word[k] = WordAt(f, k)

Limited(f, o) ==
    /\ EntryCount(f, o) <= MaxEntries
    /\ \A i \in 1 .. EntryCount(f, o) : Entry(f, o, i).size <= MaxIFDEntrySize

\* The words of a copied directory.
LEMMA CopiedDirectory ==
    ASSUME NEW f, IsImage(f), NEW b, IsImage(b), NEW o \in Nat, Copied(f, b, o)
    PROVE  /\ EntryCount(b, o) = EntryCount(f, o) /\ NextPos(b, o) = NextPos(f, o)
           /\ DirectoryWithin(b, o) /\ WordAt(b, NextPos(b, o)) = WordAt(f, NextPos(f, o))
           /\ \A i \in 1 .. EntryCount(f, o) : Entry(b, o, i) = Entry(f, o, i)
<1>1. EntryCount(f, o) \in Nat /\ b.len \in Nat
  BY WordTyped DEF EntryCount, IsImage
<1>2. NextPos(f, o) \in Nat /\ NextPos(f, o) = o + 1 + 3 * EntryCount(f, o)
  BY <1>1 DEF NextPos, EntrySize
<1>3. ASSUME NEW k \in o .. NextPos(f, o) PROVE k < b.len /\ WordAt(b, k) = WordAt(f, k)
  <2>1. k < b.len /\ b.word[k] = WordAt(f, k)
    BY DEF Copied, IFDWords
  <2>2. k \in 0 .. b.len - 1
    BY <1>1, <1>2, <2>1
  <2> QED
    BY <2>1, <2>2 DEF WordAt
<1>4. EntryCount(b, o) = EntryCount(f, o) /\ o < b.len
  BY <1>1, <1>2, <1>3 DEF EntryCount
<1>5. NextPos(b, o) = NextPos(f, o)
  BY <1>4 DEF NextPos
<1>6. NextPos(f, o) < b.len /\ WordAt(b, NextPos(f, o)) = WordAt(f, NextPos(f, o))
  BY <1>1, <1>2, <1>3
<1>7. ASSUME NEW i \in 1 .. EntryCount(f, o) PROVE Entry(b, o, i) = Entry(f, o, i)
  <2>1. /\ EntryPos(o, i) \in o .. NextPos(f, o) /\ EntryPos(o, i) + 1 \in o .. NextPos(f, o)
        /\ EntryPos(o, i) + 2 \in o .. NextPos(f, o)
    BY <1>1, <1>2 DEF EntryPos, EntrySize
  <2> QED
    BY <1>3, <2>1 DEF Entry
<1> QED
  BY <1>4, <1>5, <1>6, <1>7 DEF DirectoryWithin

\* The value of an entry of a copied directory.
LEMMA CopiedValue ==
    ASSUME NEW f, IsImage(f), NEW b, IsImage(b), NEW o \in Nat, Copied(f, b, o),
           NEW i \in 1 .. EntryCount(f, o)
    PROVE  LET e == Entry(f, o, i)
           IN  /\ Embedded(e) \/ e.offset + e.size <= b.len
               /\ EntryData(b, e, b.len) = EntryData(f, e, f.len)
<1> DEFINE e == Entry(f, o, i)
<1>1. /\ e.size \in Nat /\ e.offset \in Nat /\ b.len \in Nat /\ f.len \in Nat
      /\ ~ Embedded(e) => e.size > 1
  BY EntryTyped DEF IsImage
<1>2. CASE Embedded(e)
  BY <1>2 DEF EntryData
<1>3. CASE ~ Embedded(e)
  <2>1. ASSUME NEW k \in e.offset .. e.offset + e.size - 1
        PROVE  k < b.len /\ WordAt(b, k) = WordAt(f, k)
    <3>1. k \in IFDWords(f, o)
      BY <1>3 DEF IFDWords, ValueWords
    <3>2. k < b.len /\ b.word[k] = WordAt(f, k)
      BY <3>1 DEF Copied
    <3>3. k \in 0 .. b.len - 1
      <4> HIDE DEF e
      <4> QED
        BY <1>1, <3>2
    <3> QED
      BY <3>2, <3>3 DEF WordAt
  <2> HIDE DEF e
  <2>2. e.offset + e.size <= b.len
    <3>1. e.offset + e.size - 1 \in e.offset .. e.offset + e.size - 1
      BY <1>1, <1>3
    <3>2. e.offset + e.size - 1 < b.len
      BY <2>1, <3>1
    <3> QED
      BY <1>1, <3>2
  <2>3. ASSUME NEW k \in 1 .. e.size
        PROVE  (IF k <= b.len THEN WordAt(b, e.offset + k - 1) ELSE 0)
                 = IF k <= f.len THEN WordAt(f, e.offset + k - 1) ELSE 0
    <3>1. k <= b.len /\ WordAt(b, e.offset + k - 1) = WordAt(f, e.offset + k - 1)
      BY <1>1, <2>1, <2>2
    <3>2. k > f.len => WordAt(f, e.offset + k - 1) = 0
      BY <1>1 DEF WordAt
    <3> QED
      BY <1>1, <3>1, <3>2
  <2> QED
    BY <1>3, <2>2, <2>3 DEF EntryData, e
<1> QED
  BY <1>2, <1>3

LEMMA CopiedParses ==
    ASSUME NEW f, IsImage(f), NEW b, IsImage(b), NEW o \in Nat, Copied(f, b, o), Limited(f, o)
    PROVE  Parseable(b, o) /\ ParsedIFD(b, o) = MainIFD(f, o)
<1>1. EntryMap(b, o) = EntryMap(f, o)
  BY CopiedDirectory DEF EntryMap
<1>2. EntryMap(f, o) \subseteq 1 .. EntryCount(f, o)
  BY DEF EntryMap
<1>3. ASSUME NEW i \in EntryMap(f, o)
      PROVE  <<Entry(b, o, i).tag, Entry(b, o, i).size,
               EntryData(b, Entry(b, o, i), [j \in EntryMap(b, o) |-> b.len][i])>>
             = <<Entry(f, o, i).tag, Entry(f, o, i).size,
                 EntryData(f, Entry(f, o, i), Complete(f, o)[i])>>
  <2>1. [j \in EntryMap(b, o) |-> b.len][i] = b.len /\ Complete(f, o)[i] = f.len
    BY <1>1 DEF Complete
  <2>2. Entry(b, o, i) = Entry(f, o, i)
    BY <1>2, CopiedDirectory
  <2>3. EntryData(b, Entry(f, o, i), b.len) = EntryData(f, Entry(f, o, i), f.len)
    BY <1>2, CopiedValue
  <2> QED
    BY <2>1, <2>2, <2>3
<1>4. WordAt(b, NextPos(b, o)) = WordAt(f, NextPos(f, o))
  BY CopiedDirectory
<1>5. ParsedIFD(b, o) = MainIFD(f, o)
  BY <1>1, <1>3, <1>4 DEF ParsedIFD, MainIFD, DecodeIFD
<1>6. \A i \in 1 .. EntryCount(b, o) :
        LET e == Entry(b, o, i)
        IN  e.size <= MaxIFDEntrySize /\ (Embedded(e) \/ e.offset + e.size <= b.len)
  BY CopiedDirectory, CopiedValue DEF Limited
<1>7. EntryCount(b, o) <= MaxEntries /\ DirectoryWithin(b, o)
  BY CopiedDirectory DEF Limited
<1> QED
  BY <1>5, <1>6, <1>7 DEF Parseable

\* The chain of an openable file, as its offsets and its end.
LEMMA OpenableChain ==
    ASSUME NEW f, IsImage(f), Openable(f)
    PROVE  /\ ChainLength(f) \in Nat /\ ChainLength(f) >= 1 /\ Links(f)[ChainLength(f)] = 0
           /\ \A n \in Nat : n < ChainLength(f) =>
                /\ Good(f, Links(f)[n]) /\ Links(f)[n] \in ChainOffsets(f)
<1> DEFINE L == Links(f)
           n == ChainLength(f)
<1>1. /\ n \in 1 .. f.len + 1 /\ (n = f.len + 1 \/ L[n] = 0)
      /\ \A k \in 1 .. n - 1 : L[k] # 0
  BY ChainLengthExists
<1>2. f.len \in Nat /\ n <= f.len /\ HeaderValid(f)
      /\ \A m \in DOMAIN Chain(f) : Intact(f, Chain(f)[m])
  BY DEF Openable, Acyclic, Broken, IsImage
<1>3. Chain(f) = [m \in 1 .. n |-> L[m - 1]]
  BY DEF Chain
<1>4. L[0] # 0
  <2>1. L[0] = WordAt(f, 1) /\ WordAt(f, 1) >= 2 /\ WordAt(f, 1) \in Nat
    BY <1>2, LinksUnfold, WordTyped DEF FirstIFD, HeaderValid, HeadSize
  <2> HIDE DEF L
  <2> QED
    BY <2>1
<1> HIDE DEF n, L
<1>5. ASSUME NEW m \in Nat, m < n PROVE Good(f, L[m]) /\ L[m] \in ChainOffsets(f)
  <2>1. m + 1 \in DOMAIN Chain(f) /\ Chain(f)[m + 1] = L[m]
    BY <1>1, <1>2, <1>3, <1>5
  <2>2. L[m] # 0
    BY <1>1, <1>2, <1>4, <1>5
  <2>3. L[m] \in ChainOffsets(f)
    BY <2>1 DEF ChainOffsets
  <2> QED
    BY <1>2, <2>1, <2>2, <2>3 DEF Good
<1> QED
  BY <1>1, <1>2, <1>5 DEF n, L

\* Nothing stands in the way of a parse that gives what the file offers.
Ready == Sound(file) /\ WithinLimits(file) /\ HoldsMetadata

\* Then every IFD that the chain or an IFD of it lists is in the buffer.
LEMMA ReadyIFD ==
    ASSUME TypeInv, Ready, NEW o \in Nat, o \in ChainOffsets(file) \cup SubIFDOffsets(file)
    PROVE  o < buf.len /\ Parseable(buf, o) /\ ParsedIFD(buf, o) = MainIFD(file, o)
<1>1. IsImage(file) /\ IsImage(buf)
  BY DEF TypeInv, OTypeOK, TTypeOK
<1>2. Copied(file, buf, o)
  BY DEF Ready, HoldsMetadata, Copied, MetadataWords
<1>3. Limited(file, o)
  BY DEF Ready, WithinLimits, Limited
<1>4. Parseable(buf, o) /\ ParsedIFD(buf, o) = MainIFD(file, o)
  BY <1>1, <1>2, <1>3, CopiedParses
<1> QED
  BY <1>4 DEF Parseable, DirectoryWithin

\* The sub-IFD that is next in a list under construction.
LEMMA ReadySubIFD ==
    ASSUME TypeInv, Ready, NEW o \in Nat, o \in ChainOffsets(file),
           NEW list \in Seq(IFDs), NEW todo \in Seq(Nat), Building(file, o, list, todo), todo # <<>>
    PROVE  /\ Head(todo) \in Nat /\ Parseable(buf, Head(todo))
           /\ ParsedIFD(buf, Head(todo)) = SubIFDAt(file, Head(todo))
<1> DEFINE subs == GetSubIFD(MainIFD(file, o))
           s == Head(todo)
<1>1. subs \in Seq(Nat)
  BY MainTyped DEF TypeInv, OTypeOK, TTypeOK
<1>2. s \in Nat /\ s = todo[1] /\ Len(todo) \in Nat /\ Len(todo) >= 1 /\ Len(list) \in Nat
  OBVIOUS
<1>3. /\ Len(list) >= 1 /\ Len(list) + Len(todo) = 1 + Len(subs)
      /\ \A j \in 1 .. Len(todo) : todo[j] = subs[Len(list) - 1 + j]
  BY DEF Building
<1>4. subs = GetSubIFD(DecodeIFD(file, o, Complete(file, o)))
  BY DEF MainIFD
<1> HIDE DEF subs, s
<1>5. Len(list) \in DOMAIN subs /\ s = subs[Len(list)]
  <2>1. Len(list) - 1 + 1 = Len(list) /\ 1 \in 1 .. Len(todo)
    BY <1>2
  <2>2. Len(subs) \in Nat /\ DOMAIN subs = 1 .. Len(subs)
    BY <1>1
  <2>3. Len(list) >= 1 /\ Len(list) + Len(todo) = 1 + Len(subs)
    BY <1>3
  <2>4. Len(list) \in 1 .. Len(subs)
    BY <1>2, <2>2, <2>3
  <2> QED
    BY <1>2, <1>3, <2>1, <2>2, <2>4
<1>6. s \in SubIFDOffsets(file)
  BY <1>4, <1>5 DEF SubIFDOffsets
<1>7. s # 0 /\ Intact(file, s)
  BY <1>6 DEF Ready, Sound
<1>8. Parseable(buf, s) /\ ParsedIFD(buf, s) = MainIFD(file, s)
  BY <1>2, <1>6, ReadyIFD
<1>9. SubIFDAt(file, s) = MainIFD(file, s)
  BY <1>7 DEF SubIFDAt, MainIFD
<1> QED
  BY <1>2, <1>8, <1>9 DEF s

\* What has been parsed is what the file offers at the first places of the chain.
ParsedInv ==
    /\ \A n \in 1 .. Len(oifd) : oifd[n] = IFDListAt(file, Links(file)[n - 1])
    /\ opc = "parse" =>
         /\ count = Len(oifd) /\ Len(oifd) <= ChainLength(file)
         /\ off = Links(file)[Len(oifd)]
    /\ opc = "subs" =>
         /\ count = Len(oifd) + 1 /\ Len(oifd) < ChainLength(file)
         /\ off = Links(file)[Len(oifd) + 1]
         /\ Building(file, Links(file)[Len(oifd)], ocur, osubs)
         /\ \A k \in DOMAIN ocur : ocur[k].whole

Before == {"initial", "identify", "walk", "read", "parseHeader", "metadata"}

ParseInv ==
    /\ opc \in Before => oifd = <<>>
    /\ opc \in {"parse", "subs"} /\ Ready => ParsedInv

\* The chain as far as the parse has got.
LEMMA ParsedChain ==
    ASSUME TypeInv, Ready, NEW n \in Nat, n < ChainLength(file)
    PROVE  /\ Links(file)[n] \in Nat /\ Links(file)[n] # 0
           /\ Links(file)[n] \in ChainOffsets(file)
           /\ Links(file)[n + 1] = MainIFD(file, Links(file)[n]).next
<1>1. IsImage(file) /\ Openable(file)
  BY DEF TypeInv, OTypeOK, TTypeOK, Ready, Sound
<1>2. Good(file, Links(file)[n]) /\ Links(file)[n] \in ChainOffsets(file)
  BY <1>1, OpenableChain
<1>3. Links(file) \in [Nat -> Nat] /\ Links(file)[n + 1] = Link(file, Links(file)[n])
  BY <1>1, LinksUnfold
<1>4. \A o : Good(file, o) => Link(file, o) = MainIFD(file, o).next
  BY DEF Good, Intact, Link, MainIFD, DecodeIFD
<1> QED
  BY <1>2, <1>3, <1>4 DEF Good

LEMMA ParseStarts ==
    ASSUME TypeInv, ParseInv, MetadataDone
    PROVE  ParseInv'
<1>1. /\ opc' = "parse" /\ off' = FirstIFD(buf) /\ count' = 0 /\ oifd' = oifd /\ oifd = <<>>
      /\ file' = file /\ buf' = buf
  BY DEF MetadataDone, ParseInv, Before, parse, env, device
<1>2. Ready' <=> Ready
  BY <1>1 DEF Ready, HoldsMetadata
<1>3. ASSUME Ready PROVE ParsedInv'
  <2>1. IsImage(file) /\ IsImage(buf) /\ Openable(file)
    BY <1>3 DEF TypeInv, OTypeOK, TTypeOK, Ready, Sound
  <2>2. off' = Links(file)[0]
    <3>1. 1 \in MetadataWords(file)
      BY DEF MetadataWords, HeadSize
    <3>2. 1 < buf.len /\ buf.word[1] = WordAt(file, 1)
      BY <1>3, <3>1 DEF Ready, HoldsMetadata
    <3>3. WordAt(buf, 1) = WordAt(file, 1)
      BY <2>1, <3>2 DEF WordAt, IsImage
    <3> QED
      BY <1>1, <2>1, <3>3, LinksUnfold DEF FirstIFD
  <2>3. Len(oifd') = 0 /\ 0 <= ChainLength(file)
    BY <1>1, <2>1, OpenableChain
  <2> QED
    BY <1>1, <2>2, <2>3 DEF ParsedInv
<1> QED
  BY <1>1, <1>2, <1>3 DEF ParseInv, Before

LEMMA ParseGoesOn ==
    ASSUME TypeInv, ParseInv, ParseIFD
    PROVE  ParseInv' /\ (Ready => opc' = "subs")
<1>1. /\ opc = "parse" /\ off # 0 /\ opc' \in {"failed", "opened", "subs"} /\ count' = count + 1
      /\ oifd' = oifd /\ file' = file /\ buf' = buf
  BY DEF ParseIFD, env, device
<1>2. Ready' <=> Ready
  BY <1>1 DEF Ready, HoldsMetadata
<1>3. ASSUME Ready PROVE ParsedInv' /\ opc' = "subs"
  <2> DEFINE n == Len(oifd)
             N == ChainLength(file)
  <2>1. /\ IsImage(file) /\ Openable(file) /\ N <= MaxIFDs /\ n \in Nat
        /\ osubs \in Seq(Nat)
    <3>1. IsImage(file) /\ Openable(file) /\ oifd \in Seq(Seq(IFDs)) /\ osubs \in Seq(Nat)
      BY <1>3 DEF TypeInv, OTypeOK, TTypeOK, Ready, Sound
    <3>2. N \in Nat /\ Chain(file) = [m \in 1 .. N |-> Links(file)[m - 1]]
      BY <3>1, OpenableChain DEF Chain
    <3>3. Len(Chain(file)) = N
      <4> HIDE DEF N
      <4> QED
        BY <3>2
    <3> QED
      BY <1>3, <3>1, <3>3 DEF Ready, WithinLimits
  <2>2. count = n /\ n <= N /\ off = Links(file)[n] /\ N \in Nat /\ Links(file)[N] = 0
        /\ \A m \in 1 .. n : oifd[m] = IFDListAt(file, Links(file)[m - 1])
    BY <1>1, <1>3, <2>1, OpenableChain DEF ParseInv, ParsedInv
  <2> HIDE DEF n, N
  <2>3. n < N
    BY <1>1, <2>1, <2>2
  <2>4. /\ off \in Nat /\ off \in ChainOffsets(file)
        /\ Links(file)[n + 1] = MainIFD(file, off).next
    BY <1>3, <2>1, <2>2, <2>3, ParsedChain DEF N
  <2>5. off < buf.len /\ Parseable(buf, off) /\ ParsedIFD(buf, off) = MainIFD(file, off)
    BY <1>3, <2>4, ReadyIFD
  <2>6. ~ (count + 1 > MaxIFDs) /\ ~ (off >= buf.len)
    <3>1. MaxIFDs \in Nat /\ buf.len \in Nat
      BY OptimizedReaderAssumption DEF TypeInv, OTypeOK, IsImage
    <3> QED
      BY <2>1, <2>2, <2>3, <2>4, <2>5, <3>1
  <2>7. /\ ocur' = <<MainIFD(file, off)>> /\ osubs' = GetSubIFD(MainIFD(file, off))
        /\ off' = MainIFD(file, off).next /\ opc' = "subs"
    BY <2>5, <2>6 DEF ParseIFD
  <2>8. Building(file, off, ocur', osubs') /\ MainIFD(file, off).whole
    BY <2>1, <2>4, <2>7, BuildingStarts, MainTyped
  <2>9. \A k \in DOMAIN ocur' : ocur'[k].whole
    BY <2>7, <2>8
  <2> QED
    BY <1>1, <2>2, <2>3, <2>4, <2>7, <2>8, <2>9 DEF ParsedInv, n, N
<1> QED
  BY <1>1, <1>2, <1>3 DEF ParseInv, Before

LEMMA ParseGoesOnSub ==
    ASSUME TypeInv, ParseInv, ParseSubIFD
    PROVE  ParseInv'
<1>1. /\ opc = "subs" /\ opc' = "subs" /\ osubs # <<>> /\ osubs' = Tail(osubs)
      /\ UNCHANGED <<oifd, file, buf, count, off>>
  BY DEF ParseSubIFD, env, device, walk
<1>2. Ready' <=> Ready
  BY <1>1 DEF Ready, HoldsMetadata
<1>3. ASSUME Ready PROVE ParsedInv'
  <2> DEFINE o == Links(file)[Len(oifd)]
             s == Head(osubs)
             ifd == ParsedIFD(buf, s)
  <2>1. /\ ParsedInv /\ Len(oifd) \in Nat /\ Len(oifd) < ChainLength(file)
        /\ Building(file, o, ocur, osubs) /\ \A k \in DOMAIN ocur : ocur[k].whole
        /\ ocur \in Seq(IFDs) /\ osubs \in Seq(Nat) /\ IsImage(file) /\ IsImage(buf)
    BY <1>1, <1>3 DEF ParseInv, ParsedInv, TypeInv, OTypeOK, TTypeOK
  <2>2. o \in Nat /\ o \in ChainOffsets(file)
    BY <1>3, <2>1, ParsedChain
  <2> HIDE DEF o
  <2>3. s \in Nat /\ Parseable(buf, s) /\ ifd = SubIFDAt(file, s)
    BY <1>1, <1>3, <2>1, <2>2, ReadySubIFD
  <2>4. ifd \in IFDs
    BY <2>1, <2>3, ParsedTyped
  <2>5. ifd.whole /\ Settled(ifd) = ifd
    BY DEF ParsedIFD, DecodeIFD, Settled
  <2>6. ocur' = Append(ocur, ifd)
    BY <2>3 DEF ParseSubIFD
  <2> HIDE DEF ifd, s
  <2>7. Building(file, o, ocur', osubs')
    BY <1>1, <2>1, <2>2, <2>3, <2>4, <2>5, <2>6, BuildingGoesOn DEF s
  <2>8. \A k \in DOMAIN ocur' : ocur'[k].whole
    <3>1. \A k \in DOMAIN ocur' : ocur'[k] = ifd \/ (k \in DOMAIN ocur /\ ocur'[k] = ocur[k])
      BY <2>1, <2>4, <2>6
    <3> QED
      BY <2>1, <2>5, <3>1
  <2> QED
    BY <1>1, <2>1, <2>7, <2>8 DEF ParsedInv, o
<1> QED
  BY <1>1, <1>2, <1>3 DEF ParseInv, Before

LEMMA ParseAppends ==
    ASSUME TypeInv, ParseInv, ListParsed
    PROVE  ParseInv'
<1>1. /\ opc = "subs" /\ opc' = "parse" /\ osubs = <<>> /\ oifd' = Append(oifd, ocur)
      /\ UNCHANGED <<file, buf, count, off>>
  BY DEF ListParsed, env, device, walk
<1>2. Ready' <=> Ready
  BY <1>1 DEF Ready, HoldsMetadata
<1>3. ASSUME Ready PROVE ParsedInv'
  <2> DEFINE o == Links(file)[Len(oifd)]
  <2>1. /\ ParsedInv /\ Len(oifd) \in Nat /\ Len(oifd) < ChainLength(file)
        /\ count = Len(oifd) + 1 /\ off = Links(file)[Len(oifd) + 1]
        /\ Building(file, o, ocur, <<>>) /\ \A k \in DOMAIN ocur : ocur[k].whole
        /\ \A n \in 1 .. Len(oifd) : oifd[n] = IFDListAt(file, Links(file)[n - 1])
        /\ ocur \in Seq(IFDs) /\ oifd \in Seq(Seq(IFDs)) /\ IsImage(file) /\ Openable(file)
    BY <1>1, <1>3 DEF ParseInv, ParsedInv, TypeInv, OTypeOK, TTypeOK, Ready, Sound
  <2>2. o \in Nat
    BY <1>3, <2>1, ParsedChain
  <2> HIDE DEF o
  <2>3. ocur = IFDListAt(file, o)
    <3>1. [k \in DOMAIN ocur |-> Settled(ocur[k])] = IFDListAt(file, o)
      BY <2>1, <2>2, BuildingDone
    <3>2. ocur = [k \in DOMAIN ocur |-> Settled(ocur[k])]
      BY <2>1 DEF Settled
    <3> QED
      BY <3>1, <3>2
  <2>4. /\ Len(oifd') = Len(oifd) + 1 /\ oifd'[Len(oifd) + 1] = ocur
        /\ \A n \in 1 .. Len(oifd) : oifd'[n] = oifd[n]
    BY <1>1, <2>1
  <2>5. ASSUME NEW n \in 1 .. Len(oifd) + 1 PROVE oifd'[n] = IFDListAt(file, Links(file)[n - 1])
    <3>1. CASE n \in 1 .. Len(oifd)
      BY <2>1, <2>4, <3>1
    <3>2. CASE n = Len(oifd) + 1
      <4>1. n - 1 = Len(oifd)
        BY <2>1, <3>2
      <4> QED
        BY <2>3, <2>4, <3>2, <4>1 DEF o
    <3> QED
      BY <2>1, <3>1, <3>2
  <2>6. Len(oifd) + 1 <= ChainLength(file)
    <3>1. ChainLength(file) \in Nat
      BY <2>1, OpenableChain
    <3> QED
      BY <2>1, <3>1
  <2> QED
    BY <1>1, <2>1, <2>4, <2>5, <2>6 DEF ParsedInv
<1> QED
  BY <1>1, <1>2, <1>3 DEF ParseInv, Before

\* The parse has come to the end of the chain.
LEMMA ParseEnds ==
    ASSUME TypeInv, ParseInv, Ready, opc = "parse", off = 0
    PROVE  oifd = OpenedIFDs(file)
<1> DEFINE n == Len(oifd)
           N == ChainLength(file)
<1>1. /\ n \in Nat /\ n <= N /\ Links(file)[n] = 0 /\ oifd \in Seq(Seq(IFDs))
      /\ \A m \in 1 .. n : oifd[m] = IFDListAt(file, Links(file)[m - 1])
  BY DEF ParseInv, ParsedInv, TypeInv, OTypeOK
<1>2. N \in Nat
  BY OpenableChain DEF TypeInv, OTypeOK, TTypeOK, Ready, Sound
<1>3. ~ (n < N)
  BY <1>1, ParsedChain
<1>4. n = N
  BY <1>1, <1>2, <1>3
<1>5. OpenedIFDs(file) = [m \in 1 .. n |-> IFDListAt(file, Links(file)[m - 1])]
  BY <1>4 DEF OpenedIFDs, Chain
<1>6. oifd = [m \in 1 .. n |-> oifd[m]]
  BY <1>1
<1> QED
  BY <1>1, <1>5, <1>6

LEMMA ParseNext == TypeInv /\ ParseInv /\ [ONext]_vars => ParseInv'
<1> SUFFICES ASSUME TypeInv, ParseInv, [ONext]_vars PROVE ParseInv'
  OBVIOUS
<1>1. CASE \/ InitialRead \/ AnalyzeIFD \/ IFDBeyondBuffer \/ IdentifyDone \/ WalkChain
           \/ PlanReads \/ ReadRange \/ ParseHeader \/ MetadataOfIFD
  <2>1. opc \in Before /\ opc' \in Before \cup {"failed"} /\ oifd' = oifd
    BY <1>1 DEF InitialRead, AnalyzeIFD, IFDBeyondBuffer, IdentifyDone, WalkChain, PlanReads,
       ReadRange, ParseHeader, MetadataOfIFD, Before, parse
  <2> QED
    BY <2>1 DEF ParseInv, Before
<1>2. CASE ParseDone \/ DeviceError \/ Fallback \/ Refuse \/ FallbackDone \/ TraditionalStep
  <2>1. opc' \in {"opened", "failed", "fallback", "refused", "panic", "fellback"}
    BY <1>2 DEF ParseDone, DeviceError, Fallback, Refuse, FallbackDone, TraditionalStep, ovars
  <2> QED
    BY <2>1 DEF ParseInv, Before
<1>3. CASE UNCHANGED vars
  BY <1>3 DEF vars, device, ovars, walk, parse, ParseInv, ParsedInv, Ready, HoldsMetadata
<1> QED
  BY <1>1, <1>2, <1>3, ParseStarts, ParseGoesOn, ParseGoesOnSub, ParseAppends DEF ONext

LEMMA ParseLeaves ==
    ASSUME TypeInv, ParseInv, [ONext]_vars, opc = "parse", opc' \in {"opened", "failed"}, Ready
    PROVE  opc' = "opened" /\ oifd' = OpenedIFDs(file)
<1>1. CASE ParseIFD
  BY <1>1, ParseGoesOn
<1>2. CASE ParseDone
  BY <1>2, ParseEnds DEF ParseDone, parse
<1>3. CASE UNCHANGED vars
  BY <1>3 DEF vars, ovars
<1> QED
  BY <1>1, <1>2, <1>3
  DEF ONext, InitialRead, DeviceError, AnalyzeIFD, IFDBeyondBuffer, IdentifyDone, WalkChain,
      PlanReads, ReadRange, ParseHeader, MetadataOfIFD, MetadataDone, ParseSubIFD, ListParsed,
      Fallback, Refuse, FallbackDone, TraditionalStep

\* For every sound file within the limits, however its metadata got into the buffer: once
\* all of it is there the parse does not give up and gives every IFD with every sub-IFD and
\* every value that the traditional reader gives.
THEOREM CompleteBufferParsesThm == OptSpec => CompleteBufferParses
<1>1. OInit => ParseInv
  BY DEF OInit, ParseInv
<1>2. TypeInv /\ ParseInv /\ [ONext]_vars =>
        [/\ opc = "parse" /\ opc' \in {"opened", "failed"}
         /\ Sound(file) /\ WithinLimits(file) /\ HoldsMetadata
         => opc' = "opened" /\ oifd' = OpenedIFDs(file)]_vars
  BY ParseLeaves DEF Ready
<1> QED
  BY <1>1, <1>2, TypeInit, TypeNext, ParseNext, PTL DEF OptSpec, CompleteBufferParses

(***************************************************************************)
(* Metadata that the first Read brings whole: nothing is missing, so the   *)
(* call goes straight on to the parse.                                     *)
(***************************************************************************)
AtFront ==
    /\ Reliable /\ Sound(file) /\ WithinLimits(file) /\ Flat(file)
    /\ \A k \in MetadataWords(file) : k < config.buffer

FrontInv ==
    /\ opc \in {"initial", "identify", "parseHeader", "metadata", "parse", "subs", "opened"}
    /\ opc = "initial" => reads = 0
    /\ opc # "initial" => reads = 1 /\ stats.ioCalls = 1 /\ HoldsMetadata
    /\ opc \in {"initial", "identify"} => missing = {}
    /\ opc = "identify" => off \in {0} \cup ChainOffsets(file)
    /\ opc = "opened" => oifd = OpenedIFDs(file)

LEMMA MetadataTyped ==
    ASSUME TypeInv, Openable(file)
    PROVE  /\ ChainOffsets(file) \subseteq Nat /\ SubIFDOffsets(file) \subseteq Nat
           /\ MetadataWords(file) \subseteq Nat
<1>1. IsImage(file)
  BY DEF TypeInv, OTypeOK, TTypeOK
<1>2. ChainOffsets(file) \subseteq Nat
  <2>1. /\ Chain(file) = [n \in 1 .. ChainLength(file) |-> Links(file)[n - 1]]
        /\ Links(file) \in [Nat -> Nat] /\ ChainLength(file) \in Nat
    BY <1>1, LinksUnfold, OpenableChain DEF Chain
  <2>2. ASSUME NEW n \in DOMAIN Chain(file) PROVE Chain(file)[n] \in Nat
    <3>1. n \in 1 .. ChainLength(file) /\ Chain(file)[n] = Links(file)[n - 1]
      BY <2>1
    <3> DEFINE N == ChainLength(file)
    <3>2. N \in Nat /\ n \in 1 .. N
      BY <2>1, <3>1
    <3> HIDE DEF N
    <3>3. n - 1 \in Nat
      BY <3>2
    <3> QED
      BY <2>1, <3>1, <3>3
  <2> QED
    BY <2>2 DEF ChainOffsets
<1>3. SubIFDOffsets(file) \subseteq Nat
  <2> SUFFICES ASSUME NEW o \in ChainOffsets(file),
                      NEW k \in DOMAIN GetSubIFD(DecodeIFD(file, o, Complete(file, o)))
               PROVE  GetSubIFD(DecodeIFD(file, o, Complete(file, o)))[k] \in Nat
    BY DEF SubIFDOffsets
  <2>1. GetSubIFD(DecodeIFD(file, o, Complete(file, o))) \in Seq(Nat)
    BY <1>1, <1>2, MainTyped DEF MainIFD
  <2> QED
    BY <2>1
<1>4. \A o \in Nat : IFDWords(file, o) \subseteq Nat
  <2> SUFFICES ASSUME NEW o \in Nat PROVE IFDWords(file, o) \subseteq Nat
    OBVIOUS
  <2>1. NextPos(file, o) \in Nat /\ o .. NextPos(file, o) \subseteq Nat
    BY <1>1, WordTyped DEF NextPos, EntryCount, EntrySize
  <2>2. \A i : Entry(file, o, i).offset .. Entry(file, o, i).offset + Entry(file, o, i).size - 1
                 \subseteq Nat
    BY <1>1, EntryTyped
  <2> QED
    BY <2>1, <2>2 DEF IFDWords, ValueWords
<1> QED
  BY <1>2, <1>3, <1>4 DEF MetadataWords, HeadSize

\* With the metadata in the buffer nothing of an IFD is missing.
LEMMA NothingMissing ==
    ASSUME TypeInv, Ready, Flat(file), NEW o \in ChainOffsets(file)
    PROVE  /\ EntryCount(buf, o) <= MaxEntries /\ MissingForIFD(buf, o) = {}
           /\ NextIFDSeen(buf, o) \in {0} \cup ChainOffsets(file)
<1>1. IsImage(file) /\ IsImage(buf) /\ Openable(file) /\ o \in Nat
  BY MetadataTyped DEF TypeInv, OTypeOK, TTypeOK, Ready, Sound
<1>2. Copied(file, buf, o) /\ Limited(file, o)
  BY DEF Ready, HoldsMetadata, Copied, MetadataWords, WithinLimits, Limited
<1>3. /\ EntryCount(buf, o) = EntryCount(file, o) /\ NextPos(buf, o) = NextPos(file, o)
      /\ WordAt(buf, NextPos(buf, o)) = WordAt(file, NextPos(file, o))
      /\ \A i \in 1 .. EntryCount(file, o) : Entry(buf, o, i) = Entry(file, o, i)
      /\ DirectoryWithin(buf, o)
  BY <1>1, <1>2, CopiedDirectory
<1>4. ASSUME NEW i \in 1 .. EntryCount(file, o)
      PROVE  EntryWithin(buf, o, i) /\ MissingForEntry(buf, Entry(buf, o, i)) = {}
  <2>1. EntryWithin(buf, o, i)
    <3>1. EntryCount(file, o) \in Nat /\ buf.len \in Nat
      BY <1>1, WordTyped DEF EntryCount, IsImage
    <3>2. NextPos(file, o) < buf.len /\ NextPos(file, o) = o + 1 + 3 * EntryCount(file, o)
      BY <1>3 DEF DirectoryWithin, NextPos, EntrySize
    <3> QED
      BY <1>1, <3>1, <3>2 DEF EntryWithin, EntryPos, EntrySize
  <2> DEFINE e == Entry(file, o, i)
  <2>2. Embedded(e) \/ e.offset + e.size <= buf.len
    BY <1>1, <1>2, CopiedValue
  <2>3. e.tag # SubIFDTag
    BY DEF Flat
  <2>4. e.offset \in Nat /\ e.size \in Nat /\ buf.len \in Nat
    BY <1>1, EntryTyped DEF IsImage
  <2>5. Entry(buf, o, i) = e
    BY <1>3
  <2> HIDE DEF e
  <2>6. ~ (~ Embedded(e) /\ e.offset + e.size > buf.len)
    BY <2>2, <2>4
  <2> QED
    BY <2>1, <2>3, <2>5, <2>6 DEF MissingForEntry
<1>5. MissingForIFD(buf, o) = {}
  BY <1>3, <1>4 DEF MissingForIFD
<1>6. WordAt(file, NextPos(file, o)) \in {0} \cup ChainOffsets(file)
  <2>1. PICK n \in DOMAIN Chain(file) : o = Chain(file)[n]
    BY DEF ChainOffsets
  <2>2. /\ n \in 1 .. ChainLength(file) /\ o = Links(file)[n - 1] /\ ChainLength(file) \in Nat
        /\ Links(file)[ChainLength(file)] = 0
    BY <1>1, <2>1, OpenableChain DEF Chain
  <2>3. n - 1 \in Nat /\ n \in Nat /\ n - 1 < ChainLength(file) /\ (n - 1) + 1 = n
        /\ (n = ChainLength(file) \/ n < ChainLength(file))
    BY <2>2
  <2>4. Links(file)[n] = MainIFD(file, o).next
    BY <2>2, <2>3, ParsedChain
  <2>5. Links(file)[n] \in {0} \cup ChainOffsets(file)
    BY <2>2, <2>3, ParsedChain
  <2> QED
    BY <2>4, <2>5 DEF MainIFD, DecodeIFD
<1> QED
  BY <1>2, <1>3, <1>5, <1>6 DEF Limited, NextIFDSeen

\* The first Read brings everything.
LEMMA FrontRead ==
    ASSUME TypeInv, AtFront, FrontInv, InitialRead
    PROVE  FrontInv'
<1> DEFINE n == Least(config.buffer, file.len)
<1>1. /\ IsImage(file) /\ file.len \in Nat /\ config.buffer \in Nat /\ Openable(file)
      /\ stats \in Statistics
  BY OptimizedReaderAssumption DEF TypeInv, OTypeOK, TTypeOK, IsImage, AtFront, Sound, InitialRead
<1>2. \A k \in MetadataWords(file) : k \in 0 .. n - 1
  <2>1. \A k \in MetadataWords(file) : k \in Nat /\ k < file.len /\ k < config.buffer
    BY <1>1, MetadataTyped DEF AtFront, Sound
  <2> QED
    BY <1>1, <2>1 DEF Least
<1>3. ReadCounts(0, config.buffer) = {n}
  BY <1>1 DEF ReadCounts, AtFront, Reliable
<1> HIDE DEF n
<1>4. /\ buf' = [len |-> n, word |-> [k \in 0 .. n - 1 |-> WordAt(file, k)]]
      /\ stats' = [stats EXCEPT !.ioCalls = 1, !.bytesRead = n]
      /\ reads' = reads + 1 /\ opc = "initial" /\ UNCHANGED <<file, missing>>
  BY <1>3 DEF InitialRead, env, device
<1>5. \A k \in MetadataWords(file) : k < buf'.len /\ buf'.word[k] = WordAt(file, k)
  <2>1. n \in Nat
    BY <1>1 DEF Least, n
  <2> QED
    BY <1>2, <1>4, <2>1
<1>6. HoldsMetadata'
  BY <1>4, <1>5 DEF HoldsMetadata
<1>7. WordAt(buf', 0) = WordAt(file, 0) /\ WordAt(buf', 1) = WordAt(file, 1)
  <2>1. 0 \in MetadataWords(file) /\ 1 \in MetadataWords(file)
    BY DEF MetadataWords, HeadSize
  <2> QED
    BY <1>2, <1>4, <1>5, <2>1 DEF WordAt
<1>8. HeaderValid(buf')
  BY <1>1, <1>7 DEF HeaderValid, Openable, Broken
<1>9. opc' = "identify" /\ off' \in ChainOffsets(file)
  <2>1. opc' = "identify" /\ off' = WordAt(file, 1)
    BY <1>7, <1>8 DEF InitialRead, FirstIFD
  <2>2. Links(file)[0] \in ChainOffsets(file)
    <3>1. ChainLength(file) \in Nat /\ 0 < ChainLength(file)
      BY <1>1, OpenableChain
    <3> QED
      BY <1>1, <3>1, OpenableChain
  <2> QED
    BY <1>1, <2>1, <2>2, LinksUnfold DEF FirstIFD
<1>10. stats'.ioCalls = 1
  BY <1>1, <1>4 DEF Statistics
<1> QED
  BY <1>4, <1>6, <1>9, <1>10 DEF FrontInv

LEMMA FrontNext == TypeInv /\ ParseInv /\ AtFront /\ FrontInv /\ [ONext]_vars => FrontInv'
<1> SUFFICES ASSUME TypeInv, ParseInv, AtFront, FrontInv, [ONext]_vars PROVE FrontInv'
  OBVIOUS
<1> DEFINE Kept == UNCHANGED <<file, buf, reads>> /\ stats'.ioCalls = stats.ioCalls
<1>0. ASSUME opc # "initial" PROVE Ready
  BY <1>0 DEF FrontInv, AtFront, Ready
<1>1. CASE InitialRead
  BY <1>1, FrontRead
<1>2. CASE AnalyzeIFD
  <2>1. opc = "identify" /\ off # 0 /\ off \in ChainOffsets(file) /\ missing = {}
    BY <1>2 DEF AnalyzeIFD, FrontInv
  <2>2. /\ EntryCount(buf, off) <= MaxEntries /\ MissingForIFD(buf, off) = {}
        /\ NextIFDSeen(buf, off) \in {0} \cup ChainOffsets(file)
    BY <1>0, <2>1, NothingMissing DEF AtFront
  <2>3. ~ (EntryCount(buf, off) > MaxEntries)
    BY <2>2, WordTyped, OptimizedReaderAssumption DEF EntryCount, TypeInv, OTypeOK
  <2>4. opc' = "identify" /\ missing' = {} /\ off' \in {0} \cup ChainOffsets(file)
    BY <1>2, <2>1, <2>2, <2>3 DEF AnalyzeIFD
  <2> QED
    BY <1>2, <2>1, <2>4 DEF AnalyzeIFD, FrontInv, HoldsMetadata, env, device
<1>3. CASE IFDBeyondBuffer
  <2>1. opc = "identify" /\ off # 0 /\ off >= buf.len /\ off \in ChainOffsets(file)
    BY <1>3 DEF IFDBeyondBuffer, FrontInv
  <2>2. off \in Nat /\ buf.len \in Nat
    BY DEF TypeInv, OTypeOK, IsImage
  <2>3. off < buf.len
    BY <1>0, <2>1, <2>2, ReadyIFD
  <2> QED
    BY <2>1, <2>2, <2>3
<1>4. CASE IdentifyDone
  BY <1>4 DEF IdentifyDone, FrontInv, HoldsMetadata, env, device
<1>5. CASE ParseHeader
  <2>1. opc = "parseHeader" /\ UNCHANGED <<file, buf, reads>>
    BY <1>5 DEF ParseHeader, FrontInv, env, device
  <2>2. HeaderValid(buf)
    <3>1. 0 \in MetadataWords(file) /\ 1 \in MetadataWords(file)
      BY DEF MetadataWords, HeadSize
    <3>2. /\ 0 < buf.len /\ buf.word[0] = WordAt(file, 0)
          /\ 1 < buf.len /\ buf.word[1] = WordAt(file, 1) /\ HeaderValid(file)
      BY <2>1, <3>1 DEF FrontInv, HoldsMetadata, AtFront, Sound, Openable, Broken
    <3>3. buf.len \in Nat
      BY DEF TypeInv, OTypeOK, IsImage
    <3> QED
      BY <3>2, <3>3 DEF HeaderValid, WordAt
  <2>3. opc' = "metadata" /\ stats' = [stats EXCEPT !.metadataSize = HeadSize]
    BY <1>5, <2>2 DEF ParseHeader
  <2>4. stats'.ioCalls = stats.ioCalls
    BY <2>1, <2>3 DEF TypeInv, OTypeOK, Statistics
  <2> QED
    BY <2>1, <2>3, <2>4 DEF FrontInv, HoldsMetadata
<1>6. CASE MetadataOfIFD
  <2>1. /\ opc = "metadata" /\ opc' = opc /\ UNCHANGED <<file, buf, reads>>
        /\ \E size : stats' = [stats EXCEPT !.metadataSize = size]
    BY <1>6 DEF MetadataOfIFD, env, device
  <2>2. stats'.ioCalls = stats.ioCalls
    BY <2>1 DEF TypeInv, OTypeOK, Statistics
  <2> QED
    BY <2>1, <2>2 DEF FrontInv, HoldsMetadata
<1>7. CASE MetadataDone \/ ParseSubIFD \/ ListParsed
  <2>1. /\ opc \in {"metadata", "subs"} /\ opc' \in {"parse", "subs"}
        /\ UNCHANGED <<file, buf, reads, stats>>
    BY <1>7 DEF MetadataDone, ParseSubIFD, ListParsed, env, device
  <2> QED
    BY <2>1 DEF FrontInv, HoldsMetadata
<1>8. CASE ParseIFD
  <2>1. opc = "parse" /\ UNCHANGED <<file, buf, reads, stats>>
    BY <1>8 DEF ParseIFD, env, device
  <2>2. opc' = "subs"
    BY <1>0, <1>8, <2>1, ParseGoesOn
  <2> QED
    BY <2>1, <2>2 DEF FrontInv, HoldsMetadata
<1>9. CASE ParseDone
  <2>1. /\ opc = "parse" /\ off = 0 /\ opc' = "opened"
        /\ UNCHANGED <<file, buf, reads, stats, oifd>>
    BY <1>9 DEF ParseDone, parse, env, device
  <2>2. oifd = OpenedIFDs(file)
    BY <1>0, <2>1, ParseEnds
  <2> QED
    BY <2>1, <2>2 DEF FrontInv, HoldsMetadata
<1>10. CASE UNCHANGED vars
  BY <1>10 DEF vars, device, ovars, walk, parse, FrontInv, HoldsMetadata
<1>11. ~ (DeviceError \/ WalkChain \/ PlanReads \/ ReadRange \/ Fallback \/ Refuse
          \/ FallbackDone \/ TraditionalStep)
  BY DEF DeviceError, WalkChain, PlanReads, ReadRange, Fallback, Refuse, FallbackDone,
     TraditionalStep, FrontInv, AtFront, Reliable, MayFail
<1> QED
  BY <1>1, <1>2, <1>3, <1>4, <1>5, <1>6, <1>7, <1>8, <1>9, <1>10, <1>11 DEF ONext

\* A sound file within the limits whose metadata lies in the first buffer-full is opened
\* with one Read, whatever the size of the buffer and the limits, and completely.
THEOREM OneReadThm == OptSpec => []OneReadForFrontMetadata
<1>1. OInit => (AtFront => FrontInv)
  BY DEF OInit, FrontInv
<1>2. TypeInv /\ ParseInv /\ (AtFront => FrontInv) /\ [ONext]_vars => (AtFront => FrontInv)'
  <2>1. [ONext]_vars => UNCHANGED <<file, source, config>>
    BY DEF ONext, InitialRead, DeviceError, AnalyzeIFD, IFDBeyondBuffer, IdentifyDone,
       WalkChain, PlanReads, ReadRange, ParseHeader, MetadataOfIFD, MetadataDone, ParseIFD,
       ParseSubIFD, ListParsed, ParseDone, Fallback, Refuse, FallbackDone, TraditionalStep,
       TNext, ReadHeader, ReadChainIFD, ReadChainError, ReadSubIFD, AppendIFDList,
       ReturnReader, env, device, vars, ovars
  <2> QED
    BY <2>1, FrontNext DEF AtFront, Reliable
<1>3. (AtFront => FrontInv) => OneReadForFrontMetadata
  BY DEF OneReadForFrontMetadata, AtFront, FrontInv, Final
<1>4. OInit => ParseInv
  BY DEF OInit, ParseInv
<1> QED
  BY <1>1, <1>2, <1>3, <1>4, TypeInit, TypeNext, ParseNext, PTL DEF OptSpec

(***************************************************************************)
(* The batch.  The walk over the chain finds every IFD, the clusters cover *)
(* them, and what is read of a cluster holds the directories of its IFDs.  *)
(***************************************************************************)
\* The file is of the kind that the property is about.
Gathered ==
    /\ Reliable /\ Sound(file)
    /\ Len(Chain(file)) <= MaxChain
    /\ SmartBatch(ChainOffsets(file), Cardinality(ChainOffsets(file))) # {}
    /\ \A s \in ClusterStarts(ChainOffsets(file)) :
         MaxOf(Cluster(ChainOffsets(file), s)) - s + ClusterPadding <= MaxClusterSize
    /\ \A o \in ChainOffsets(file) : NextPos(file, o) - o < ClusterPadding

\* The words of a range are the file's; a directory's are.
Fetched(f, b, r) == \A k \in r.offset .. End(r) - 1 : k < f.len => b.word[k] = WordAt(f, k)
InBuffer(f, b, o) == \A k \in o .. NextPos(f, o) : k < b.len /\ b.word[k] = WordAt(f, k)

WalkedTo(n) ==
    /\ n <= ChainLength(file) /\ off = Links(file)[n]
    /\ chain = {Links(file)[i] : i \in 0 .. n - 1}

\* Of a planned set of ranges, those in R are still to be read and the others have been.
Progress(f, b, plan, R) ==
    R \subseteq plan /\ \A r \in plan : End(r) <= b.len /\ (r \in R \/ Fetched(f, b, r))

BatchInv ==
    /\ opc \in {"initial", "identify"} => chain = {} /\ count = 0
    /\ opc \in {"identify", "metadata"} => FirstIFD(buf) = FirstIFD(file)
    /\ opc = "walk" => WalkedTo(count)
    /\ opc = "read" => Progress(file, buf, ClusterRanges(ChainOffsets(file)), missing)
    /\ opc = "parseHeader" => stats.adaptiveCalls = 0
    /\ opc \in {"metadata", "parse", "subs"} /\ stats.adaptiveCalls > 0
         => \A o \in ChainOffsets(file) : InBuffer(file, buf, o)
    /\ opc = "parse" /\ stats.adaptiveCalls > 0
         => Len(oifd) <= ChainLength(file) /\ off = Links(file)[Len(oifd)]
    /\ opc = "subs" /\ stats.adaptiveCalls > 0
         => Len(oifd) < ChainLength(file) /\ off = Links(file)[Len(oifd) + 1]
    /\ opc = "opened" /\ stats.adaptiveCalls > 0 => Len(oifd) = Len(Chain(file))

\* The chain of a sound file, by its links.
LEMMA SoundChain ==
    ASSUME TypeInv, Sound(file)
    PROVE  /\ ChainLength(file) \in Nat /\ ChainLength(file) >= 1
           /\ Links(file)[ChainLength(file)] = 0 /\ Links(file)[0] = FirstIFD(file)
           /\ Len(Chain(file)) = ChainLength(file)
           /\ ChainOffsets(file) = {Links(file)[i] : i \in 0 .. ChainLength(file) - 1}
           /\ ChainOffsets(file) \subseteq Nat
           /\ \A i \in Nat : i < ChainLength(file) =>
                /\ Links(file)[i] # 0 /\ Links(file)[i] \in ChainOffsets(file)
                /\ DirectoryWithin(file, Links(file)[i])
                /\ Links(file)[i + 1] = WordAt(file, NextPos(file, Links(file)[i]))
<1> DEFINE n == ChainLength(file)
           L == Links(file)
<1>1. IsImage(file) /\ Openable(file)
  BY DEF TypeInv, OTypeOK, TTypeOK, Sound
<1>2. /\ n \in Nat /\ n >= 1 /\ L[n] = 0
      /\ \A i \in Nat : i < n => Good(file, L[i]) /\ L[i] \in ChainOffsets(file)
  BY <1>1, OpenableChain
<1>3. L[0] = FirstIFD(file) /\ \A i \in Nat : L[i + 1] = Link(file, L[i])
  BY <1>1, LinksUnfold
<1>4. Chain(file) = [m \in 1 .. n |-> L[m - 1]]
  BY DEF Chain
<1> HIDE DEF n, L
<1>5. Len(Chain(file)) = n
  BY <1>2, <1>4
<1>6. ChainOffsets(file) = {L[i] : i \in 0 .. n - 1}
  <2>1. ChainOffsets(file) = {L[m - 1] : m \in 1 .. n}
    BY <1>4 DEF ChainOffsets
  <2>2. {L[m - 1] : m \in 1 .. n} \subseteq {L[i] : i \in 0 .. n - 1}
    BY <1>2
  <2>3. ASSUME NEW i \in 0 .. n - 1 PROVE L[i] \in {L[m - 1] : m \in 1 .. n}
    <3>1. i + 1 \in 1 .. n /\ (i + 1) - 1 = i
      BY <1>2
    <3> QED
      BY <3>1
  <2> QED
    BY <2>1, <2>2, <2>3
<1>7. ChainOffsets(file) \subseteq Nat
  BY <1>1, MetadataTyped
<1>8. \A o : Good(file, o) => /\ o # 0 /\ DirectoryWithin(file, o)
                             /\ Link(file, o) = WordAt(file, NextPos(file, o))
  BY DEF Good, Intact, Link
<1> QED
  BY <1>2, <1>3, <1>5, <1>6, <1>7, <1>8 DEF n, L

\* The IFDs of the chain are finitely many.
LEMMA ChainFinite ==
    ASSUME TypeInv, Sound(file)
    PROVE  ChainOffsets(file) \in SUBSET Nat /\ IsFiniteSet(ChainOffsets(file))
<1> DEFINE n == ChainLength(file)
           at == [m \in 1 .. n |-> Links(file)[m - 1]]
<1>1. n \in Nat /\ ChainOffsets(file) \subseteq Nat
  BY SoundChain
<1>2. IsFiniteSet(1 .. n)
  BY <1>1, FS_Interval
<1>3. ChainOffsets(file) = {at[m] : m \in 1 .. n}
  BY DEF ChainOffsets, Chain
<1> HIDE DEF n
<1>4. DOMAIN at = 1 .. n
  OBVIOUS
<1> HIDE DEF at
<1> QED
  BY <1>1, <1>2, <1>3, <1>4, FiniteRange

\* A header that is valid in a matching buffer is the file's.
LEMMA HeaderFromFile ==
    ASSUME NEW b, Matching(b), HeaderValid(b)
    PROVE  FirstIFD(b) = FirstIFD(file)
<1>1. WordAt(b, 1) \in {0, WordAt(file, 1)}
  BY MatchingWord
<1>2. WordAt(b, 1) # 0
  BY DEF HeaderValid, HeadSize
<1> QED
  BY <1>1, <1>2 DEF FirstIFD

LEMMA BatchWalk ==
    ASSUME TypeInv, Gathered, BatchInv, WalkChain
    PROVE  BatchInv'
<1> DEFINE n == count
           N == ChainLength(file)
           L == Links(file)
<1>1. /\ opc = "walk" /\ opc' = "walk" /\ off # 0 /\ chain' = chain \cup {off} /\ count' = n + 1
      /\ file' = file /\ n \in Nat
  BY DEF WalkChain, env, device, TypeInv, OTypeOK
<1>2. n <= N /\ off = L[n] /\ chain = {L[i] : i \in 0 .. n - 1}
  BY <1>1 DEF BatchInv, WalkedTo
<1>3. N \in Nat /\ L[N] = 0 /\ N <= MaxChain /\ MaxChain \in Nat
  BY SoundChain, OptimizedReaderAssumption DEF Gathered
<1>4. \A i \in Nat : i < N => /\ DirectoryWithin(file, L[i])
                             /\ L[i + 1] = WordAt(file, NextPos(file, L[i]))
  BY SoundChain DEF Gathered
<1>5. ~ MayFail
  BY DEF Gathered, Reliable, MayFail
<1>6. ~ (n + 1 > MaxChain) /\ n + 1 <= N
  <2> HIDE DEF n, N, L
  <2> QED
    BY <1>1, <1>2, <1>3
<1>7. off' = WordAt(file, NextPos(file, off))
  BY <1>2, <1>4, <1>5, <1>6, <1>1, <1>3 DEF WalkChain
<1> HIDE DEF n, N, L
<1>8. off' = L[n + 1]
  <2>1. n < N
    BY <1>1, <1>3, <1>6
  <2>2. L[n + 1] = WordAt(file, NextPos(file, L[n]))
    BY <1>1, <1>4, <2>1
  <2> QED
    BY <1>2, <1>7, <2>2
<1>9. chain' = {L[i] : i \in 0 .. (n + 1) - 1}
  <2>1. 0 .. (n + 1) - 1 = (0 .. n - 1) \cup {n}
    BY <1>1
  <2> QED
    BY <1>1, <1>2, <2>1
<1> QED
  BY <1>1, <1>6, <1>8, <1>9 DEF BatchInv, WalkedTo, N, L

LEMMA BatchPlan ==
    ASSUME TypeInv, Gathered, BatchInv, PlanReads
    PROVE  BatchInv'
<1> DEFINE S == ChainOffsets(file)
           N == ChainLength(file)
           plan == ClusterRanges(S)
<1>1. opc = "walk" /\ off = 0 /\ file' = file /\ WalkedTo(count) /\ count \in Nat
  BY DEF PlanReads, BatchInv, env, device, TypeInv, OTypeOK
<1>2. N \in Nat /\ N >= 1 /\ \A i \in Nat : i < N => Links(file)[i] # 0
  BY SoundChain DEF Gathered
<1>3. S = {Links(file)[i] : i \in 0 .. N - 1}
  BY SoundChain DEF Gathered
<1>4. count = N
  BY <1>1, <1>2 DEF WalkedTo
<1>5. chain = S
  BY <1>1, <1>3, <1>4 DEF WalkedTo
<1> HIDE DEF S, N
<1>6. N > 1
  <2> SUFFICES ASSUME N = 1 PROVE FALSE
    BY <1>2
  <2>1. 0 .. N - 1 = {0}
    BY <1>2
  <2>2. S = {Links(file)[0]}
    BY <1>3, <2>1
  <2>3. Cardinality(S) = 1
    BY <2>2, FS_Singleton
  <2>4. SmartBatch(S, Cardinality(S)) = {}
    BY <2>3 DEF SmartBatch
  <2> QED
    BY <2>4 DEF Gathered, S
<1>7. SmartBatch(S, N) = plan /\ plan # {}
  <2>1. SmartBatch(S, Cardinality(S)) # {}
    BY DEF Gathered, S
  <2>2. SmartBatch(S, Cardinality(S)) = plan
    BY <2>1 DEF SmartBatch
  <2>3. SmartBatch(S, N) = SmartBatch(S, Cardinality(S))
    BY <1>2, <1>6, <2>1 DEF SmartBatch
  <2> QED
    BY <2>1, <2>2, <2>3
<1>8. Batch(missing, chain, count) = plan
  BY <1>4, <1>5, <1>7 DEF Batch
<1> HIDE DEF plan
<1>9. CASE opc' = "failed"
  BY <1>9 DEF BatchInv
<1>10. CASE opc' # "failed"
  <2>1. opc' = "read" /\ missing' = plan /\ buf' = Expanded(buf, plan)
    BY <1>8, <1>10 DEF PlanReads
  <2>2. IsImage(buf) /\ chain \in SUBSET Nat /\ IsFiniteSet(chain)
    BY DEF TypeInv, OTypeOK
  <2>3. plan \in SUBSET Ranges /\ IsFiniteSet(plan)
    BY <1>5, <2>2, ClusterRangesTyped DEF plan
  <2>4. \A r \in plan : End(r) <= buf'.len
    BY <2>1, <2>2, <2>3, ExpandedTyped
  <2> QED
    BY <1>1, <2>1, <2>4 DEF BatchInv, Progress, plan, S
<1> QED
  BY <1>9, <1>10

LEMMA BatchRead ==
    ASSUME TypeInv, Gathered, BatchInv, ReadRange
    PROVE  BatchInv'
<1> DEFINE S == ChainOffsets(file)
           plan == ClusterRanges(S)
           r == CHOOSE r \in missing : \A q \in missing : r.offset <= q.offset
<1>1. /\ opc = "read" /\ file' = file /\ missing \subseteq plan
      /\ \A q \in plan : End(q) <= buf.len /\ (q \in missing \/ Fetched(file, buf, q))
      /\ IsImage(buf) /\ IsImage(file)
  BY DEF ReadRange, BatchInv, Progress, env, device, TypeInv, OTypeOK, TTypeOK
<1>2. r \in missing /\ r \in Ranges
  BY FirstRange DEF ReadRange, TypeInv, OTypeOK
<1>3. r.offset \in S /\ r.offset < file.len
  <2>1. r \in ClusterRanges(S)
    BY <1>1, <1>2
  <2>2. r.offset \in S
    <3> HIDE DEF r, S
    <3>1. PICK s \in ClusterStarts(S) : r = DataRange(s, MaxOf(Cluster(S, s)) - s + ClusterPadding)
      BY <2>1 DEF ClusterRanges
    <3>2. r.offset = s /\ s \in S
      BY <3>1 DEF DataRange, ClusterStarts
    <3> QED
      BY <3>2
  <2>3. \A k \in MetadataWords(file) : k < file.len
    BY DEF Gathered, Sound
  <2>4. r.offset \in MetadataWords(file)
    <3> DEFINE x == r.offset
               y == NextPos(file, r.offset)
    <3>1. x \in Nat /\ y \in Nat /\ x <= y
      BY <1>1, <1>2, WordTyped DEF Ranges, EntryCount, NextPos, EntrySize
    <3>2. x \in IFDWords(file, x)
      <4> HIDE DEF x
      <4>1. x .. NextPos(file, x) \subseteq IFDWords(file, x)
        BY DEF IFDWords
      <4> QED
        BY <3>1, <4>1 DEF x
    <3> HIDE DEF x, y
    <3>3. x \in ChainOffsets(file)
      BY <2>2 DEF x
    <3>4. x \in MetadataWords(file)
      BY <3>2, <3>3 DEF MetadataWords
    <3> QED
      BY <3>4 DEF x
  <2> QED
    BY <2>2, <2>3, <2>4
<1> HIDE DEF r
<1> DEFINE n == Least(r.size, file.len - r.offset)
<1>4. /\ buf' = Patched(buf, r.offset, n) /\ missing' = missing \ {r} /\ opc' = "read"
  <2>1. ReadCounts(r.offset, r.size) = {n}
    BY DEF ReadCounts, Gathered, Reliable
  <2>2. file.len \in Nat /\ r.offset \in Nat /\ ~ (r.offset >= file.len)
    BY <1>1, <1>2, <1>3 DEF IsImage, Ranges
  <2> QED
    BY <1>1, <1>3, <2>1, <2>2 DEF ReadRange, r
<1>5. buf'.len = buf.len
      /\ \A k \in 0 .. buf.len - 1 : buf'.word[k] = IF k \in r.offset .. r.offset + n - 1
                                                   THEN WordAt(file, k) ELSE buf.word[k]
  BY <1>4 DEF Patched
<1>6. /\ r.offset \in Nat /\ r.size \in Nat /\ file.len \in Nat /\ buf.len \in Nat
      /\ n = IF r.size <= file.len - r.offset THEN r.size ELSE file.len - r.offset
  BY <1>1, <1>2 DEF Ranges, IsImage, Least
<1> HIDE DEF n
<1>7. ASSUME NEW q \in plan PROVE End(q) <= buf'.len /\ (q \in missing' \/ Fetched(file, buf', q))
  <2>1. q \in Ranges
    <3>1. S \in SUBSET Nat /\ IsFiniteSet(S)
      BY ChainFinite DEF Gathered
    <3> QED
      BY <3>1, ClusterRangesTyped
  <2>2. q.offset \in Nat /\ q.size \in Nat /\ End(q) = q.offset + q.size
    BY <2>1 DEF Ranges, End
  <2>3. End(q) <= buf.len
    BY <1>1
  <2>4. ASSUME q = r PROVE Fetched(file, buf', q)
    <3>1. ASSUME NEW k \in q.offset .. End(q) - 1, k < file.len
          PROVE  buf'.word[k] = WordAt(file, k)
      <4>1. k \in 0 .. buf.len - 1 /\ k \in r.offset .. r.offset + n - 1
        BY <1>6, <2>2, <2>3, <2>4, <3>1
      <4> QED
        BY <1>5, <4>1
    <3> QED
      BY <3>1, <1>4 DEF Fetched
  <2>5. ASSUME q # r, q \notin missing PROVE Fetched(file, buf', q)
    <3>1. ASSUME NEW k \in q.offset .. End(q) - 1, k < file.len
          PROVE  buf'.word[k] = WordAt(file, k)
      <4>1. k \in 0 .. buf.len - 1
        BY <1>6, <2>2, <2>3, <3>1
      <4>2. buf.word[k] = WordAt(file, k)
        BY <1>1, <2>5, <3>1 DEF Fetched
      <4> QED
        BY <1>5, <4>1, <4>2
    <3> QED
      BY <3>1 DEF Fetched
  <2> QED
    BY <1>4, <1>5, <2>3, <2>4, <2>5
<1>8. Progress(file, buf', plan, missing')
  <2> HIDE DEF plan
  <2> QED
    BY <1>1, <1>4, <1>7 DEF Progress
<1>9. Progress(file', buf', ClusterRanges(ChainOffsets(file')), missing')
  BY <1>1, <1>8
<1> QED
  BY <1>4, <1>9 DEF BatchInv

\* What a directory in the buffer says is what it says in the file.
LEMMA DirectoryInBuffer ==
    ASSUME NEW f, IsImage(f), NEW b, IsImage(b), NEW o \in Nat, InBuffer(f, b, o)
    PROVE  /\ o < b.len /\ NextPos(b, o) = NextPos(f, o)
           /\ WordAt(b, NextPos(b, o)) = WordAt(f, NextPos(f, o))
<1> DEFINE y == NextPos(f, o)
<1>1. y \in Nat /\ o <= y /\ b.len \in Nat
  BY WordTyped DEF NextPos, EntryCount, EntrySize, IsImage
<1>2. \A k \in o .. y : k < b.len /\ b.word[k] = WordAt(f, k)
  BY DEF InBuffer
<1> HIDE DEF y
<1>3. o < b.len /\ b.word[o] = WordAt(f, o) /\ y < b.len /\ b.word[y] = WordAt(f, y)
  BY <1>1, <1>2
<1>4. WordAt(b, o) = WordAt(f, o) /\ WordAt(b, y) = WordAt(f, y)
  BY <1>1, <1>3 DEF WordAt
<1>5. NextPos(b, o) = y
  BY <1>4 DEF NextPos, EntryCount, y
<1> QED
  BY <1>3, <1>4, <1>5 DEF y

\* Once every planned range is read, each directory of the chain is in the buffer.
LEMMA ChainFetched ==
    ASSUME TypeInv, Gathered, BatchInv, opc = "read", missing = {}, NEW o \in ChainOffsets(file)
    PROVE  InBuffer(file, buf, o)
<1> DEFINE S == ChainOffsets(file)
<1>1. S \in SUBSET Nat /\ IsFiniteSet(S)
  BY ChainFinite DEF Gathered
<1> HIDE DEF S
<1>2. PICK s \in ClusterStarts(S) : o \in Cluster(S, s)
  BY <1>1, EveryOffsetInCluster DEF S
<1> DEFINE M == MaxOf(Cluster(S, s))
           r == DataRange(s, M - s + ClusterPadding)
           y == NextPos(file, o)
<1>3. s \in Nat /\ M \in Nat /\ s <= o /\ o <= M /\ o \in Nat
  BY <1>1, <1>2, ClusterBounds
<1>4. r \in ClusterRanges(S)
  <2>1. r.size <= MaxClusterSize
    BY DEF Gathered, DataRange, S
  <2> QED
    BY <2>1 DEF ClusterRanges
<1>5. End(r) <= buf.len /\ Fetched(file, buf, r)
  BY <1>4 DEF BatchInv, Progress, S
<1>6. r.offset = s /\ End(r) = s + (M - s + ClusterPadding)
  BY DEF DataRange, End
<1>7. y - o < ClusterPadding /\ y \in Nat
  <2>1. IsImage(file)
    BY DEF TypeInv, OTypeOK, TTypeOK
  <2> QED
    BY <1>3, <2>1, WordTyped DEF Gathered, NextPos, EntryCount, EntrySize
<1>8. ClusterPadding \in Nat /\ buf.len \in Nat /\ file.len \in Nat
  BY OptimizedReaderAssumption DEF TypeInv, OTypeOK, TTypeOK, IsImage
<1> HIDE DEF M, r, y
<1>9. ASSUME NEW k \in o .. y PROVE k < buf.len /\ buf.word[k] = WordAt(file, k)
  <2>1. k \in r.offset .. End(r) - 1 /\ k < buf.len
    BY <1>3, <1>5, <1>6, <1>7, <1>8
  <2>2. k < file.len
    <3>1. k \in MetadataWords(file)
      BY DEF MetadataWords, IFDWords, y
    <3> QED
      BY <3>1 DEF Gathered, Sound
  <2> QED
    BY <1>5, <2>1, <2>2 DEF Fetched
<1> QED
  BY <1>9 DEF InBuffer, y

\* The steps before the walk, and the header of the buffer after it.
LEMMA BatchIdentify ==
    ASSUME TypeInv, BufferMatchesFile, BufferMatchesFile', BudgetInv, Gathered, BatchInv,
           InitialRead \/ AnalyzeIFD \/ IFDBeyondBuffer \/ IdentifyDone
    PROVE  BatchInv'
<1>0. file' = file
  BY DEF InitialRead, AnalyzeIFD, IFDBeyondBuffer, IdentifyDone, env, device
<1>1. CASE InitialRead
  <2>1. /\ opc = "initial" /\ chain' = chain /\ count' = count
        /\ opc' = "failed" \/ (opc' = "identify" /\ HeaderValid(buf'))
    BY <1>1 DEF InitialRead
  <2>2. Matching(buf')
    BY <1>0 DEF BufferMatchesFile, Matching
  <2>3. HeaderValid(buf') => FirstIFD(buf') = FirstIFD(file')
    BY <1>0, <2>2, HeaderFromFile
  <2>4. chain' = {} /\ count' = 0
    BY <2>1 DEF BatchInv
  <2> QED
    BY <2>1, <2>3, <2>4 DEF BatchInv
<1>2. CASE AnalyzeIFD \/ IFDBeyondBuffer
  <2>1. /\ opc = "identify" /\ opc' \in {"identify", "failed"}
        /\ UNCHANGED <<buf, chain, count>>
    BY <1>2 DEF AnalyzeIFD, IFDBeyondBuffer
  <2>2. chain' = {} /\ count' = 0 /\ FirstIFD(buf') = FirstIFD(file')
    BY <1>0, <2>1 DEF BatchInv
  <2> QED
    BY <2>1, <2>2 DEF BatchInv
<1>3. CASE IdentifyDone
  <2>1. /\ opc = "identify" /\ opc' \in {"parseHeader", "walk"} /\ off' = FirstIFD(buf)
        /\ UNCHANGED <<chain, count, stats>>
    BY <1>3 DEF IdentifyDone
  <2>2. chain' = {} /\ count' = 0 /\ off' = FirstIFD(file) /\ stats'.adaptiveCalls = 0
    BY <2>1 DEF BatchInv, BudgetInv
  <2>3. WalkedTo(count)'
    <3>1. /\ ChainLength(file) \in Nat /\ Links(file)[0] = FirstIFD(file)
          /\ 0 .. 0 - 1 = {}
      BY SoundChain DEF Gathered
    <3>2. {Links(file)[i] : i \in 0 .. 0 - 1} = {}
      BY <3>1
    <3>3. 0 <= ChainLength(file)
      BY <3>1
    <3> QED
      BY <1>0, <2>2, <3>1, <3>2, <3>3 DEF WalkedTo
  <2> QED
    BY <2>1, <2>2, <2>3 DEF BatchInv
<1> QED
  BY <1>1, <1>2, <1>3

LEMMA BatchHeader ==
    ASSUME TypeInv, BufferMatchesFile, Gathered, BatchInv, ParseHeader
    PROVE  BatchInv'
<1>1. /\ file' = file /\ buf' = buf
      /\ opc' = "failed" \/ (opc' = "metadata" /\ HeaderValid(buf))
      /\ opc = "parseHeader" \/ (opc = "read" /\ missing = {})
      /\ stats \in Statistics
  BY DEF ParseHeader, env, device, TypeInv, OTypeOK
<1>2. stats'.adaptiveCalls = stats.adaptiveCalls \/ opc' = "failed"
  BY <1>1 DEF ParseHeader, Statistics
<1>3. HeaderValid(buf) => FirstIFD(buf) = FirstIFD(file)
  BY HeaderFromFile DEF BufferMatchesFile, Matching
<1>4. opc = "parseHeader" => stats.adaptiveCalls = 0
  BY DEF BatchInv
<1>5. opc = "read" => \A o \in ChainOffsets(file) : InBuffer(file, buf, o)
  BY <1>1, ChainFetched
<1> QED
  BY <1>1, <1>2, <1>3, <1>4, <1>5 DEF BatchInv

\* The final parse.
LEMMA BatchParse ==
    ASSUME TypeInv, ParseInv, Gathered, BatchInv,
           NEW N, N = ChainLength(file), NEW L, L = Links(file),
           MetadataOfIFD \/ MetadataDone \/ ParseIFD \/ ParseSubIFD \/ ListParsed \/ ParseDone
    PROVE  BatchInv'
<1> DEFINE n == Len(oifd)
<1>1. N \in Nat /\ N >= 1 /\ L[N] = 0 /\ L[0] = FirstIFD(file) /\ Len(Chain(file)) = N
  BY SoundChain DEF Gathered
<1>2. \A i \in Nat : i < N => /\ L[i] # 0 /\ L[i] \in ChainOffsets(file)
                             /\ L[i + 1] = WordAt(file, NextPos(file, L[i]))
  BY SoundChain DEF Gathered
<1>3. /\ IsImage(file) /\ IsImage(buf) /\ ChainOffsets(file) \subseteq Nat
      /\ oifd \in Seq(Seq(IFDs))
  <2>1. ChainOffsets(file) \subseteq Nat
    BY SoundChain DEF Gathered
  <2> QED
    BY <2>1 DEF TypeInv, OTypeOK, TTypeOK
<1>4. file' = file /\ buf' = buf
  BY DEF MetadataOfIFD, MetadataDone, ParseIFD, ParseSubIFD, ListParsed, ParseDone, env, device
<1>5. n \in Nat
  BY <1>3
<1>6. CASE MetadataOfIFD
  <2>1. opc = "metadata" /\ opc' = "metadata" /\ \E z : stats' = [stats EXCEPT !.metadataSize = z]
    BY <1>6 DEF MetadataOfIFD
  <2>2. stats'.adaptiveCalls = stats.adaptiveCalls
    BY <2>1 DEF Statistics, TypeInv, OTypeOK
  <2>3. FirstIFD(buf) = FirstIFD(file)
    BY <2>1 DEF BatchInv
  <2>4. stats.adaptiveCalls > 0 => \A o \in ChainOffsets(file) : InBuffer(file, buf, o)
    BY <2>1 DEF BatchInv
  <2> QED
    BY <1>4, <2>1, <2>2, <2>3, <2>4 DEF BatchInv
<1>7. CASE MetadataDone
  <2>1. /\ opc = "metadata" /\ opc' = "parse" /\ off' = FirstIFD(buf) /\ stats' = stats
        /\ oifd' = oifd
    BY <1>7 DEF MetadataDone, parse
  <2>2. oifd = <<>>
    BY <2>1 DEF ParseInv, Before
  <2>3. off' = L[0] /\ Len(oifd') = 0 /\ Len(oifd') <= N
    BY <1>1, <2>1, <2>2 DEF BatchInv
  <2>4. stats.adaptiveCalls > 0 => \A o \in ChainOffsets(file) : InBuffer(file, buf, o)
    BY <2>1 DEF BatchInv
  <2> QED
    BY <1>4, <2>1, <2>3, <2>4 DEF BatchInv
<1>8. CASE ParseIFD
  <2>1. /\ opc = "parse" /\ off # 0 /\ opc' \in {"failed", "opened", "subs"}
        /\ opc' = "opened" => off >= buf.len
        /\ opc' = "subs" => off' = WordAt(buf, NextPos(buf, off))
        /\ UNCHANGED <<stats, oifd>>
    BY <1>8 DEF ParseIFD, ParsedIFD, DecodeIFD
  <2>2. ASSUME stats.adaptiveCalls > 0
        PROVE  /\ off < buf.len /\ n < N /\ (opc' = "subs" => off' = L[n + 1])
               /\ \A o \in ChainOffsets(file) : InBuffer(file, buf, o)
    <3>1. \A o \in ChainOffsets(file) : InBuffer(file, buf, o)
      BY <2>1, <2>2 DEF BatchInv
    <3>2. n <= N /\ off = L[n]
      BY <2>1, <2>2 DEF BatchInv
    <3>3. n < N
      <4> HIDE DEF n
      <4> QED
        BY <1>1, <1>5, <2>1, <3>2
    <3>4. off \in ChainOffsets(file) /\ off \in Nat /\ L[n + 1] = WordAt(file, NextPos(file, off))
      BY <1>2, <1>3, <1>5, <3>2, <3>3
    <3>5. InBuffer(file, buf, off)
      BY <3>1, <3>4
    <3>6. off < buf.len /\ WordAt(buf, NextPos(buf, off)) = WordAt(file, NextPos(file, off))
      BY <1>3, <3>4, <3>5, DirectoryInBuffer
    <3> QED
      BY <2>1, <3>1, <3>3, <3>4, <3>6
  <2>3. opc' = "opened" => ~ (stats.adaptiveCalls > 0)
    <3>1. off \in Nat /\ buf.len \in Nat
      BY <1>3 DEF TypeInv, OTypeOK, IsImage
    <3> QED
      BY <2>1, <2>2, <3>1
  <2> QED
    BY <1>4, <2>1, <2>2, <2>3 DEF BatchInv
<1>9. CASE ParseSubIFD
  <2>1. opc = "subs" /\ opc' = "subs" /\ UNCHANGED <<off, stats, oifd>>
    BY <1>9 DEF ParseSubIFD, walk
  <2> QED
    BY <1>4, <2>1 DEF BatchInv
<1>10. CASE ListParsed
  <2>1. /\ opc = "subs" /\ opc' = "parse" /\ UNCHANGED <<off, stats>>
        /\ oifd' = Append(oifd, ocur)
    BY <1>10 DEF ListParsed, walk
  <2>2. Len(oifd') = n + 1
    BY <1>3, <2>1
  <2>3. stats.adaptiveCalls > 0 => n < N /\ off = L[n + 1]
    BY <2>1 DEF BatchInv
  <2>4. stats.adaptiveCalls > 0 => Len(oifd') <= N /\ off' = L[Len(oifd')]
    <3> DEFINE m == Len(oifd')
    <3> HIDE DEF m, n
    <3>1. m = n + 1
      BY <2>2 DEF m
    <3>2. stats.adaptiveCalls > 0 => m <= N
      BY <1>1, <1>5, <2>3, <3>1
    <3> QED
      BY <2>1, <2>3, <3>1, <3>2 DEF m
  <2>5. stats.adaptiveCalls > 0 => \A o \in ChainOffsets(file) : InBuffer(file, buf, o)
    BY <2>1 DEF BatchInv
  <2> QED
    BY <1>4, <2>1, <2>4, <2>5 DEF BatchInv
<1>11. CASE ParseDone
  <2>1. opc = "parse" /\ off = 0 /\ opc' = "opened" /\ UNCHANGED <<stats, oifd>>
    BY <1>11 DEF ParseDone, parse
  <2>2. stats.adaptiveCalls > 0 => n <= N /\ L[n] = 0
    BY <2>1 DEF BatchInv
  <2>3. stats.adaptiveCalls > 0 => n = N
    <3> HIDE DEF n
    <3>1. ~ (n < N) \/ L[n] # 0
      BY <1>2, <1>5
    <3> QED
      BY <1>1, <1>5, <2>2, <3>1
  <2> QED
    BY <1>1, <1>4, <2>1, <2>3 DEF BatchInv
<1> QED
  BY <1>6, <1>7, <1>8, <1>9, <1>10, <1>11

LEMMA BatchNext ==
    /\ TypeInv /\ BufferMatchesFile /\ BufferMatchesFile' /\ BudgetInv /\ ParseInv
    /\ Gathered /\ BatchInv /\ [ONext]_vars
    => BatchInv'
<1> SUFFICES ASSUME TypeInv, BufferMatchesFile, BufferMatchesFile', BudgetInv, ParseInv, Gathered,
                    BatchInv, [ONext]_vars
             PROVE  BatchInv'
  OBVIOUS
<1>1. CASE DeviceError \/ Fallback \/ Refuse \/ FallbackDone \/ TraditionalStep
  <2>1. opc' \in {"failed", "fallback", "refused", "panic", "fellback"}
    BY <1>1 DEF DeviceError, Fallback, Refuse, FallbackDone, TraditionalStep, ovars
  <2> QED
    BY <2>1 DEF BatchInv
<1>2. CASE UNCHANGED vars
  BY <1>2 DEF vars, device, ovars, walk, parse, BatchInv, WalkedTo
<1>3. CASE MetadataOfIFD \/ MetadataDone \/ ParseIFD \/ ParseSubIFD \/ ListParsed \/ ParseDone
  BY <1>3, BatchParse
<1> QED
  BY <1>1, <1>2, <1>3, BatchIdentify, BatchWalk, BatchPlan, BatchRead, BatchHeader DEF ONext

(***************************************************************************)
(* What the batch fetches besides the directories: every word in one of    *)
(* its ranges, next to the words of the first buffer-full, which no later  *)
(* step loses.                                                             *)
(***************************************************************************)
\* The first m words are in the buffer, as far as the file has them.
HeadIn(f, b, m) == \A k \in Nat : k < m /\ k < f.len => k < b.len /\ b.word[k] = WordAt(f, k)

\* What is fetched beyond the directories: with the first buffer-full, all of the metadata.
FetchInv ==
    /\ opc \in {"identify", "walk", "read", "parseHeader"} => HeadIn(file, buf, config.buffer)
    /\ opc \in {"metadata", "parse", "subs"} /\ stats.adaptiveCalls > 0 /\ Planned
         => HoldsMetadata
    /\ opc = "opened" /\ stats.adaptiveCalls > 0 /\ Planned /\ WithinLimits(file)
         => oifd = OpenedIFDs(file)

\* The words of the first buffer-full stay when the buffer grows and when it is read into.
LEMMA HeadExpanded ==
    ASSUME NEW f, NEW m, NEW b, IsImage(b), NEW R \in SUBSET Ranges, IsFiniteSet(R), HeadIn(f, b, m)
    PROVE  HeadIn(f, Expanded(b, R), m)
<1>1. IsImage(Expanded(b, R)) /\ Expanded(b, R).len >= b.len
  BY ExpandedTyped
<1>2. \A k \in 0 .. Expanded(b, R).len - 1 : Expanded(b, R).word[k] = WordAt(b, k)
  BY DEF Expanded
<1> DEFINE c == Expanded(b, R)
<1> HIDE DEF c
<1>3. c.len \in Nat /\ b.len \in Nat /\ c.len >= b.len
      /\ \A k \in 0 .. c.len - 1 : c.word[k] = WordAt(b, k)
  BY <1>1, <1>2 DEF IsImage, c
<1>4. ASSUME NEW k \in Nat, k < m, k < f.len PROVE k < c.len /\ c.word[k] = WordAt(f, k)
  <2>1. k < b.len /\ b.word[k] = WordAt(f, k)
    BY <1>4 DEF HeadIn
  <2>2. WordAt(b, k) = b.word[k]
    BY <1>3, <2>1 DEF WordAt
  <2>3. k \in 0 .. c.len - 1
    BY <1>3, <2>1
  <2> QED
    BY <1>3, <2>1, <2>2, <2>3
<1> QED
  BY <1>4 DEF HeadIn, c

LEMMA HeadPatched ==
    ASSUME NEW m, NEW b, IsImage(b), NEW o, NEW n, HeadIn(file, b, m)
    PROVE  HeadIn(file, Patched(b, o, n), m)
<1>1. /\ Patched(b, o, n).len = b.len /\ b.len \in Nat
      /\ \A k \in 0 .. b.len - 1 : Patched(b, o, n).word[k] \in {WordAt(file, k), b.word[k]}
  BY DEF Patched, IsImage
<1> DEFINE c == Patched(b, o, n)
<1> HIDE DEF c
<1>2. ASSUME NEW k \in Nat, k < m, k < file.len PROVE k < c.len /\ c.word[k] = WordAt(file, k)
  <2>1. k < b.len /\ b.word[k] = WordAt(file, k) /\ k \in 0 .. b.len - 1
    BY <1>1, <1>2 DEF HeadIn
  <2> QED
    BY <1>1, <2>1 DEF c
<1> QED
  BY <1>2 DEF HeadIn, c

LEMMA FetchInitialRead ==
    ASSUME TypeInv, Gathered, InitialRead
    PROVE  HeadIn(file, buf', config.buffer)
<1> DEFINE n == Least(config.buffer, file.len)
<1>1. file.len \in Nat /\ config.buffer \in Nat
  BY OptimizedReaderAssumption DEF TypeInv, OTypeOK, TTypeOK, IsImage
<1>2. ReadCounts(0, config.buffer) = {n}
  BY <1>1 DEF ReadCounts, Gathered, Reliable
<1>3. n \in Nat /\ \A k \in Nat : k < config.buffer /\ k < file.len => k \in 0 .. n - 1
  BY <1>1 DEF Least
<1> HIDE DEF n
<1>4. buf' = [len |-> n, word |-> [k \in 0 .. n - 1 |-> WordAt(file, k)]]
  BY <1>2 DEF InitialRead
<1>5. buf'.len = n /\ \A k \in 0 .. n - 1 : buf'.word[k] = WordAt(file, k)
  BY <1>4
<1> QED
  BY <1>3, <1>5 DEF HeadIn

\* With every planned range read, all the metadata is there.
LEMMA MetadataFetched ==
    ASSUME TypeInv, Gathered, BatchInv, FetchInv, Planned, opc = "read", missing = {}
    PROVE  HoldsMetadata
<1>1. HeadIn(file, buf, config.buffer)
  BY DEF FetchInv
<1>2. \A r \in ClusterRanges(ChainOffsets(file)) : End(r) <= buf.len /\ Fetched(file, buf, r)
  BY DEF BatchInv, Progress
<1>3. /\ ClusterRanges(ChainOffsets(file)) \in SUBSET Ranges
      /\ buf.len \in Nat
  <2>1. ChainOffsets(file) \in SUBSET Nat /\ IsFiniteSet(ChainOffsets(file))
    BY ChainFinite DEF Gathered
  <2> QED
    BY <2>1, ClusterRangesTyped DEF TypeInv, OTypeOK, IsImage
<1>4. ASSUME NEW k \in MetadataWords(file) PROVE k < buf.len /\ buf.word[k] = WordAt(file, k)
  <2>1. k \in Nat /\ k < file.len
    BY MetadataTyped DEF Gathered, Sound
  <2>2. CASE k < config.buffer
    BY <1>1, <2>1, <2>2 DEF HeadIn
  <2>3. CASE \E r \in ClusterRanges(ChainOffsets(file)) : k \in r.offset .. End(r) - 1
    <3>1. PICK r \in ClusterRanges(ChainOffsets(file)) : k \in r.offset .. End(r) - 1
      BY <2>3
    <3>2. r \in Ranges /\ End(r) <= buf.len /\ Fetched(file, buf, r)
      BY <1>2, <1>3
    <3>3. End(r) \in Nat
      BY <3>2 DEF Ranges, End
    <3>4. k < buf.len
      BY <1>3, <2>1, <3>1, <3>2, <3>3
    <3> QED
      BY <2>1, <3>1, <3>2, <3>4 DEF Fetched
  <2> QED
    BY <2>2, <2>3 DEF Planned
<1> QED
  BY <1>4 DEF HoldsMetadata

LEMMA FetchReading ==
    ASSUME TypeInv, TypeInv', Gathered, FetchInv,
           \/ InitialRead \/ AnalyzeIFD \/ IFDBeyondBuffer \/ IdentifyDone \/ WalkChain
           \/ PlanReads \/ ReadRange
    PROVE  FetchInv'
<1>1. /\ opc' \in {"identify", "walk", "read", "parseHeader", "failed"}
      /\ UNCHANGED <<file, config>>
  BY DEF InitialRead, AnalyzeIFD, IFDBeyondBuffer, IdentifyDone, WalkChain, PlanReads, ReadRange,
     env, device, TypeInv, OTypeOK
<1> SUFFICES ASSUME opc' # "failed" PROVE HeadIn(file, buf', config.buffer)
  <2>1. HeadIn(file, buf', config.buffer) => HeadIn(file', buf', config'.buffer)
    BY <1>1
  <2> QED
    BY <1>1, <2>1 DEF FetchInv
<1>2. IsImage(buf)
  BY DEF TypeInv, OTypeOK
<1>3. CASE InitialRead
  BY <1>3, FetchInitialRead
<1>4. CASE AnalyzeIFD \/ IFDBeyondBuffer \/ IdentifyDone \/ WalkChain
  BY <1>4 DEF FetchInv, AnalyzeIFD, IFDBeyondBuffer, IdentifyDone, WalkChain
<1>5. CASE PlanReads
  <2>1. opc = "walk" /\ buf' = Expanded(buf, missing')
    BY <1>5 DEF PlanReads
  <2>2. missing' \in SUBSET Ranges /\ IsFiniteSet(missing')
    BY DEF TypeInv, OTypeOK
  <2> QED
    BY <1>2, <2>1, <2>2, HeadExpanded DEF FetchInv
<1>6. CASE ReadRange
  <2>1. opc = "read" /\ \E o, n : buf' = Patched(buf, o, n)
    BY <1>6 DEF ReadRange
  <2> QED
    BY <1>2, <2>1, HeadPatched DEF FetchInv
<1> QED
  BY <1>3, <1>4, <1>5, <1>6

LEMMA FetchParsing ==
    ASSUME TypeInv, ParseInv, Gathered, BatchInv, FetchInv, [ONext]_vars,
           \/ ParseHeader \/ MetadataOfIFD \/ MetadataDone \/ ParseIFD \/ ParseSubIFD
           \/ ListParsed \/ ParseDone
    PROVE  FetchInv'
<1>1. /\ UNCHANGED <<file, buf, config>> /\ stats \in Statistics
      /\ opc' \in {"metadata", "parse", "subs", "opened", "failed"}
  BY DEF ParseHeader, MetadataOfIFD, MetadataDone, ParseIFD, ParseSubIFD, ListParsed, ParseDone,
     env, device, TypeInv, OTypeOK
<1>2. (Planned' <=> Planned) /\ (HoldsMetadata' <=> HoldsMetadata)
  BY <1>1 DEF Planned, HoldsMetadata
<1>3. stats'.adaptiveCalls = stats.adaptiveCalls \/ opc' = "failed"
  BY <1>1 DEF ParseHeader, MetadataOfIFD, MetadataDone, ParseIFD, ParseSubIFD, ListParsed,
     ParseDone, Statistics
<1>4. opc' \in {"metadata", "parse", "subs", "opened"} /\ stats.adaptiveCalls > 0 /\ Planned
        => HoldsMetadata
  <2>1. CASE ParseHeader
    <3>1. (opc = "read" /\ missing = {}) \/ opc = "parseHeader"
      BY <2>1 DEF ParseHeader
    <3>2. opc = "parseHeader" => ~ (stats.adaptiveCalls > 0)
      BY DEF BatchInv
    <3> QED
      BY <3>1, <3>2, MetadataFetched
  <2>2. CASE ~ ParseHeader
    <3>1. opc \in {"metadata", "parse", "subs"}
      BY <2>2 DEF MetadataOfIFD, MetadataDone, ParseIFD, ParseSubIFD, ListParsed, ParseDone
    <3> QED
      BY <3>1 DEF FetchInv
  <2> QED
    BY <2>1, <2>2
<1>5. ASSUME opc' = "opened", stats.adaptiveCalls > 0, Planned, WithinLimits(file)
      PROVE  oifd' = OpenedIFDs(file)
  <2>1. opc = "parse"
    BY <1>5 DEF ParseHeader, MetadataOfIFD, MetadataDone, ParseIFD, ParseSubIFD, ListParsed,
       ParseDone
  <2>2. Ready
    BY <1>4, <1>5 DEF Ready, Gathered
  <2> QED
    BY <1>5, <2>1, <2>2, ParseLeaves
<1>6. ASSUME opc' = "opened", stats'.adaptiveCalls > 0, Planned', WithinLimits(file')
      PROVE  oifd' = OpenedIFDs(file')
  BY <1>1, <1>2, <1>3, <1>5, <1>6
<1>7. ASSUME opc' \in {"metadata", "parse", "subs"}, stats'.adaptiveCalls > 0, Planned'
      PROVE  HoldsMetadata'
  BY <1>2, <1>3, <1>4, <1>7
<1> QED
  BY <1>1, <1>6, <1>7 DEF FetchInv

LEMMA FetchNext ==
    TypeInv /\ TypeInv' /\ ParseInv /\ Gathered /\ BatchInv /\ FetchInv /\ [ONext]_vars => FetchInv'
<1> SUFFICES ASSUME TypeInv, TypeInv', ParseInv, Gathered, BatchInv, FetchInv, [ONext]_vars
             PROVE  FetchInv'
  OBVIOUS
<1>1. CASE DeviceError \/ Fallback \/ Refuse \/ FallbackDone \/ TraditionalStep
  <2>1. opc' \in {"failed", "fallback", "refused", "panic", "fellback"}
    BY <1>1 DEF DeviceError, Fallback, Refuse, FallbackDone, TraditionalStep, ovars
  <2> QED
    BY <2>1 DEF FetchInv
<1>2. CASE UNCHANGED vars
  BY <1>2 DEF vars, device, ovars, walk, parse, FetchInv, HeadIn, Planned, HoldsMetadata
<1> QED
  BY <1>1, <1>2, FetchReading, FetchParsing DEF ONext

\* For every sound file whose IFDs the walk finds and the clusters cover: what the batch
\* reads, in however many ranges, makes the parse return as many IFDs as the chain has; and
\* where the values and sub-IFDs lie in the ranges or in the first buffer-full too, exactly
\* what the file offers.
THEOREM BatchFindsEveryIFDThm == OptSpec => []BatchFindsEveryIFD
<1>1. OInit => (Gathered => BatchInv /\ FetchInv)
  BY DEF OInit, BatchInv, FetchInv
<1>2. /\ TypeInv /\ TypeInv' /\ BufferMatchesFile /\ BufferMatchesFile' /\ BudgetInv /\ ParseInv
      /\ (Gathered => BatchInv /\ FetchInv) /\ [ONext]_vars
      => (Gathered => BatchInv /\ FetchInv)'
  <2>1. [ONext]_vars => UNCHANGED <<file, source>>
    BY DEF ONext, InitialRead, DeviceError, AnalyzeIFD, IFDBeyondBuffer, IdentifyDone,
       WalkChain, PlanReads, ReadRange, ParseHeader, MetadataOfIFD, MetadataDone, ParseIFD,
       ParseSubIFD, ListParsed, ParseDone, Fallback, Refuse, FallbackDone, TraditionalStep,
       TNext, ReadHeader, ReadChainIFD, ReadChainError, ReadSubIFD, AppendIFDList,
       ReturnReader, env, device, vars, ovars
  <2>2. [ONext]_vars => (Gathered' => Gathered)
    BY <2>1 DEF Gathered, Reliable
  <2> QED
    BY <2>2, BatchNext, FetchNext
<1>3. (Gathered => BatchInv /\ FetchInv) => BatchFindsEveryIFD
  BY DEF BatchFindsEveryIFD, Gathered, BatchInv, FetchInv
<1>4. OInit => ParseInv
  BY DEF OInit, ParseInv
<1> QED
  BY <1>1, <1>2, <1>3, <1>4, TypeInit, TypeNext, BufferMatchesInit, BufferMatchesNext, BudgetInit,
     BudgetNext, ParseNext, PTL DEF OptSpec

(***************************************************************************)
(* The promise.  Its copy of the definitions says the same of the file as  *)
(* the readers', and an outcome of the call that it speaks of is reached   *)
(* by one of three steps.                                                  *)
(***************************************************************************)
LEMMA PromiseLinks ==
    ASSUME NEW f
    PROVE  Promise!Links(f) = Links(f)
  BY DEF Links, Promise!Links, Promise!FirstIFD, FirstIFD, Promise!WordAt, WordAt, Promise!Link,
     Link, Promise!DirectoryWithin, DirectoryWithin, Promise!NextPos, NextPos,
     Promise!EntryCount, EntryCount, Promise!EntrySize, EntrySize

LEMMA PromiseEntry ==
    ASSUME NEW b, NEW o, NEW i
    PROVE  Promise!Entry(b, o, i) = Entry(b, o, i)
  BY DEF Promise!Entry, Entry, Promise!EntryPos, EntryPos, Promise!WordAt, WordAt,
     Promise!EntrySize, EntrySize

LEMMA PromiseIntact ==
    ASSUME NEW f, NEW o
    PROVE  Promise!Intact(f, o) = Intact(f, o)
  BY PromiseEntry
  DEF Intact, Promise!Intact, Promise!WordAt, WordAt, Promise!DirectoryWithin,
      DirectoryWithin, Promise!NextPos, NextPos, Promise!EntryCount, EntryCount,
      Promise!EntrySize, EntrySize, Promise!EntryMap, EntryMap, Promise!Embedded, Embedded,
      Promise!Threshold, Threshold, HeadSize, Promise!HeadSize

LEMMA PromiseChain ==
    ASSUME NEW f
    PROVE  Promise!Chain(f) = Chain(f) /\ Promise!Acyclic(f) = Acyclic(f)
  BY PromiseLinks
  DEF Chain, Promise!Chain, ChainLength, Promise!ChainLength, Acyclic, Promise!Acyclic

LEMMA PromiseBroken ==
    ASSUME NEW f
    PROVE  Promise!Broken(f) = Broken(f) /\ Promise!Openable(f) = Openable(f)
<1>1. Promise!HeaderValid(f) = HeaderValid(f)
  BY DEF Promise!HeaderValid, HeaderValid, Promise!WordAt, WordAt, HeadSize, Promise!HeadSize
<1>2. Promise!Broken(f) = Broken(f)
  BY <1>1, PromiseChain, PromiseIntact DEF Broken, Promise!Broken
<1> QED
  BY <1>2, PromiseChain DEF Openable, Promise!Openable

LEMMA PromiseDecode ==
    ASSUME NEW b, NEW o, NEW got
    PROVE  Promise!DecodeIFD(b, o, got) = DecodeIFD(b, o, got)
  BY DEF Promise!Entry, Entry, Promise!EntryPos, EntryPos, DecodeIFD, Promise!DecodeIFD,
     Promise!EntryMap, EntryMap, Promise!WordAt, WordAt, Promise!EntryData, EntryData,
     Promise!NextPos, NextPos, Promise!EntryCount, EntryCount, Promise!EntrySize, EntrySize,
     Promise!Embedded, Embedded, Promise!Threshold, Threshold

LEMMA PromiseIFDs ==
    ASSUME NEW f
    PROVE  Promise!OpenedIFDs(f) = OpenedIFDs(f)
<1>1. \A o : Promise!Complete(f, o) = Complete(f, o)
  BY PromiseEntry
  DEF Complete, Promise!Complete, Promise!EntryMap, EntryMap, Promise!EntryCount, EntryCount,
      Promise!WordAt, WordAt
<1>2. \A o : Promise!SubIFDAt(f, o) = SubIFDAt(f, o)
  BY <1>1, PromiseDecode, PromiseIntact DEF SubIFDAt, Promise!SubIFDAt, NilIFD, Promise!NilIFD
<1>3. \A ifd : Promise!GetSubIFD(ifd) = GetSubIFD(ifd)
  BY DEF GetSubIFD, Promise!GetSubIFD
<1>4. \A o : Promise!IFDListAt(f, o) = IFDListAt(f, o)
  BY <1>1, <1>2, <1>3, PromiseDecode DEF IFDListAt, Promise!IFDListAt
<1> QED
  BY <1>4, PromiseChain DEF OpenedIFDs, Promise!OpenedIFDs

\* What a file offers has a missing sub-IFD as a nil one already.
LEMMA SettledList ==
    ASSUME NEW f, IsImage(f), NEW o \in Nat, NEW list, list = IFDListAt(f, o)
    PROVE  [k \in DOMAIN list |-> Settled(list[k])] = list
<1> DEFINE main == MainIFD(f, o)
           subs == GetSubIFD(main)
           later == [k \in DOMAIN subs |-> SubIFDAt(f, subs[k])]
<1>1. main \in IFDs /\ main.whole /\ subs \in Seq(Nat)
  BY MainTyped
<1>2. list = <<main>> \o later
  BY DEF IFDListAt, MainIFD
<1>3. ASSUME NEW s \in Nat
      PROVE  SubIFDAt(f, s) \in IFDs /\ Settled(SubIFDAt(f, s)) = SubIFDAt(f, s)
  <2>1. SubIFDAt(f, s) \in {MainIFD(f, s), NilIFD}
    BY DEF SubIFDAt, MainIFD
  <2>2. MainIFD(f, s) \in IFDs /\ MainIFD(f, s).whole /\ NilIFD \in IFDs
    BY MainTyped, FailedTyped
  <2> QED
    BY <2>1, <2>2 DEF Settled
<1>4. Settled(main) = main
  BY <1>1 DEF Settled
<1> HIDE DEF main
<1>5. later \in Seq(IFDs) /\ \A k \in 1 .. Len(later) : Settled(later[k]) = later[k]
  <2>1. later = [k \in 1 .. Len(subs) |-> SubIFDAt(f, subs[k])] /\ Len(subs) \in Nat
    BY <1>1
  <2>2. \A k \in 1 .. Len(subs) : subs[k] \in Nat
    BY <1>1
  <2>3. \A k \in 1 .. Len(subs) : /\ SubIFDAt(f, subs[k]) \in IFDs
                                  /\ Settled(SubIFDAt(f, subs[k])) = SubIFDAt(f, subs[k])
    BY <1>3, <2>2
  <2> HIDE DEF subs
  <2> QED
    BY <2>1, <2>3
<1> HIDE DEF later
<1>6. /\ list \in Seq(IFDs) /\ DOMAIN list = 1 .. 1 + Len(later) /\ list[1] = main
      /\ \A k \in 2 .. 1 + Len(later) : list[k] = later[k - 1] /\ k - 1 \in 1 .. Len(later)
  BY <1>1, <1>2, <1>5
<1>7. ASSUME NEW k \in DOMAIN list PROVE Settled(list[k]) = list[k]
  <2>1. k = 1 \/ k \in 2 .. 1 + Len(later)
    BY <1>5, <1>6
  <2> QED
    BY <1>4, <1>5, <1>6, <2>1
<1>8. list = [k \in DOMAIN list |-> list[k]]
  BY <1>6
<1> QED
  BY <1>7, <1>8

LEMMA OpenedAlready ==
    ASSUME NEW f, IsImage(f)
    PROVE  Opened(OpenedIFDs(f)) = OpenedIFDs(f)
<1>1. \A n \in DOMAIN Chain(f) : Chain(f)[n] \in Nat
  <2>1. Links(f) \in [Nat -> Nat]
    BY LinksUnfold
  <2>2. ChainLength(f) \in Nat /\ Chain(f) = [n \in 1 .. ChainLength(f) |-> Links(f)[n - 1]]
    <3>1. ChainLength(f) \in 1 .. f.len + 1 /\ f.len \in Nat
      BY ChainLengthExists DEF IsImage
    <3> QED
      BY <3>1 DEF Chain
  <2> QED
    BY <2>1, <2>2
<1> DEFINE list(n) == IFDListAt(f, Chain(f)[n])
<1>2. \A n \in DOMAIN Chain(f) : [k \in DOMAIN list(n) |-> Settled(list(n)[k])] = list(n)
  BY <1>1, SettledList
<1>3. OpenedIFDs(f) = [n \in DOMAIN Chain(f) |-> list(n)]
  BY DEF OpenedIFDs
<1> HIDE DEF list
<1>4. Opened(OpenedIFDs(f)) =
        [n \in DOMAIN Chain(f) |-> [k \in DOMAIN list(n) |-> Settled(list(n)[k])]]
  BY <1>3 DEF Opened, Settled
<1> QED
  BY <1>2, <1>3, <1>4

Returned == {"opened", "fellback", "refused"}

\* The steps that end a call, and what they return.
LEMMA StepReturns ==
    ASSUME TypeInv, ParseInv, FallbackInv, FallbackInv', [ONext]_vars, Vouched,
           opc \notin Returned, opc' \in Returned
    PROVE  /\ file' = file
           /\ opc' = "refused" => Broken(file)
           /\ opc' \in {"opened", "fellback"} => Openable(file) /\ Opened(oifd') = OpenedIFDs(file)
<1>1. CASE opc' = "opened"
  <2>1. opc = "parse" /\ file' = file
    BY <1>1 DEF Returned, ONext, InitialRead, DeviceError, AnalyzeIFD, IFDBeyondBuffer,
       IdentifyDone, WalkChain, PlanReads, ReadRange, ParseHeader, MetadataOfIFD, MetadataDone,
       ParseIFD, ParseSubIFD, ListParsed, ParseDone, Fallback, Refuse, FallbackDone,
       TraditionalStep, env, device, vars, ovars
  <2>2. Ready /\ IsImage(file)
    BY <1>1 DEF Vouched, Ready, TypeInv, OTypeOK, TTypeOK
  <2>3. oifd' = OpenedIFDs(file)
    BY <1>1, <2>1, <2>2, ParseLeaves
  <2> QED
    BY <1>1, <2>1, <2>2, <2>3, OpenedAlready DEF Ready, Sound
<1>2. CASE opc' = "fellback"
  <2>1. FallbackDone
    BY <1>2 DEF Returned, ONext, InitialRead, DeviceError, AnalyzeIFD, IFDBeyondBuffer,
       IdentifyDone, WalkChain, PlanReads, ReadRange, ParseHeader, MetadataOfIFD, MetadataDone,
       ParseIFD, ParseSubIFD, ListParsed, ParseDone, Fallback, Refuse,
       TraditionalStep, vars, ovars
  <2>2. file' = file /\ tpc = "done" /\ oifd' = tifd
    BY <1>2, <2>1 DEF FallbackDone, env, device
  <2>3. TTypeOK /\ OpenInv
    BY DEF TypeInv, OTypeOK, FallbackInv, Vouched
  <2>4. Openable(file) /\ Opened(tifd) = OpenedIFDs(file)
    BY <2>2, <2>3, WalkEnds DEF OpenInv
  <2> QED
    BY <1>2, <2>2, <2>4
<1>3. CASE opc' = "refused"
  <2>1. Refuse
    BY <1>3 DEF Returned, ONext, InitialRead, DeviceError, AnalyzeIFD, IFDBeyondBuffer,
       IdentifyDone, WalkChain, PlanReads, ReadRange, ParseHeader, MetadataOfIFD, MetadataDone,
       ParseIFD, ParseSubIFD, ListParsed, ParseDone, Fallback, FallbackDone,
       TraditionalStep, vars, ovars
  <2>2. file' = file /\ tpc = "err"
    BY <2>1 DEF Refuse, env, device, Vouched
  <2> QED
    BY <1>3, <2>2 DEF FallbackInv, OpenInv, Vouched
<1> QED
  BY <1>1, <1>2, <1>3 DEF Returned

\* Before a call returns there is nothing to be seen of it, and after that nothing changes.
LEMMA StepStutters ==
    ASSUME TypeInv, [ONext]_vars, opc \in Returned \/ opc' \notin Returned
    PROVE  file' = file /\ (opc \in Returned => opc' = opc /\ oifd' = oifd)
<1>1. file' = file
  BY DEF ONext, InitialRead, DeviceError, AnalyzeIFD, IFDBeyondBuffer,
     IdentifyDone, WalkChain, PlanReads, ReadRange, ParseHeader, MetadataOfIFD, MetadataDone,
     ParseIFD, ParseSubIFD, ListParsed, ParseDone, Fallback, Refuse, FallbackDone,
     TraditionalStep, env, device, vars, ovars, TNext, ReadHeader, ReadChainIFD,
     ReadChainError, ReadSubIFD, AppendIFDList, ReturnReader
<1>2. ASSUME opc \in Returned PROVE opc' = opc /\ oifd' = oifd
  BY <1>2 DEF Returned, ONext, InitialRead, DeviceError, AnalyzeIFD, IFDBeyondBuffer,
     IdentifyDone, WalkChain, PlanReads, ReadRange, ParseHeader, MetadataOfIFD, MetadataDone,
     ParseIFD, ParseSubIFD, ListParsed, ParseDone, Fallback, Refuse, FallbackDone,
     TraditionalStep, vars, ovars, parse
<1> QED
  BY <1>1, <1>2

LEMMA StepKeepsPromise ==
    ASSUME TypeInv, ParseInv, FallbackInv, FallbackInv', [ONext]_vars, Vouched
    PROVE  Promise!OpenNext \/ UNCHANGED Promise!openVars
<1> USE DEF Promise!openVars, Returned
<1>1. CASE opc \in Returned \/ opc' \notin Returned
  <2>1. file' = file /\ (opc \in Returned => opc' = opc /\ oifd' = oifd)
    BY <1>1, StepStutters
  <2>2. CASE opc \in Returned
    <3>1. opc' = opc /\ Opened(oifd)' = Opened(oifd)
      BY <2>1, <2>2
    <3> QED
      BY <2>1, <3>1
  <2>3. CASE opc \notin Returned
    BY <1>1, <2>1, <2>3
  <2> QED
    BY <2>2, <2>3
<1>2. CASE opc \notin Returned /\ opc' \in Returned
  <2>1. /\ file' = file
        /\ opc' = "refused" => Promise!Broken(file)
        /\ opc' \in {"opened", "fellback"} =>
             Promise!Openable(file) /\ Opened(oifd)' = Promise!OpenedIFDs(file)
    BY <1>2, StepReturns, PromiseBroken, PromiseIFDs
  <2>2. CASE opc' = "refused"
    BY <1>2, <2>1, <2>2 DEF Promise!OpenNext, Promise!Refuse
  <2>3. CASE opc' \in {"opened", "fellback"}
    BY <1>2, <2>1, <2>3 DEF Promise!OpenNext, Promise!Open
  <2> QED
    BY <1>2, <2>2, <2>3
<1> QED
  BY <1>1, <1>2

\* OpenReaderOptimized with its fallback implements TiffOpen, for every file, every device
\* that delivers and every value of the limits, but for what its own parse makes of a buffer
\* that lacks some of the metadata.
THEOREM KeepsPromiseThm == OptSpec => KeepsPromise
<1>1. OInit => Promise!OpenInit
  BY TiffReaderAssumption DEF OInit, TInit, Promise!OpenInit, Promise!IsImage, IsImage
<1>2. OInit => ParseInv
  BY DEF OInit, ParseInv
<1>3. TypeInv /\ ParseInv /\ FallbackInv /\ FallbackInv' /\ [ONext]_vars
        => [Vouched => Promise!OpenNext]_(Promise!openVars)
  BY StepKeepsPromise
<1> QED
  BY <1>1, <1>2, <1>3, TypeInit, TypeNext, ParseNext, FallbackInit, FallbackNext, PTL
  DEF OptSpec, KeepsPromise
=============================================================================
