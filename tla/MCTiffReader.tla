---------------------------- MODULE MCTiffReader ----------------------------
(***************************************************************************)
(* The traditional reader over whole and truncated files, on its own and   *)
(* under the entry points that decode all it has opened.                   *)
(***************************************************************************)
EXTENDS DecodeAll, FileBuilder

MCMagic == 999
MCSubIFDTag == 30

WholeFiles ==
    TwoWithValues(4, 6, 2, 26) \cup ThreeEmbedded(4, 6, 26)
    \cup WithSubIFDs(4, 6, 26) \cup WithEmbeddedSubIFD(4, 6, 26)

CutFiles == WholeFiles \cup Truncated(WholeFiles, {1, 9, 15, 21})

\* OpenReader returns, with IFDs or an error, also from a device that fails.
OpenReaderReturns == <>(tpc \in {"done", "err"})
=============================================================================
