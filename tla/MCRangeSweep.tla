---------------------------- MODULE MCRangeSweep ----------------------------
(***************************************************************************)
(* Every slice of up to three ranges, and every slice of up to four        *)
(* offsets, over a file of a few words, also with repetitions.             *)
(***************************************************************************)
EXTENDS RangeSweep

SmallRanges == {DataRange(o, s) : o \in 0 .. 6, s \in 1 .. 3}

MCRangeSlices  == UNION {[1 .. n -> SmallRanges] : n \in 1 .. 3}
MCOffsetSlices == UNION {[1 .. n -> 2 .. 11] : n \in 1 .. 4}
=============================================================================
