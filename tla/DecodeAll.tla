----------------------------- MODULE DecodeAll -----------------------------
(***************************************************************************)
(* The entry points of decoder.go: Decode, DecodeAll and the two for       *)
(* configurations, each an OpenReader followed by DecodeImage or           *)
(* ImageConfig on what it opened.  Whether the tags and the blocks of an   *)
(* IFD give an image, an error or a panic is the business of BlockDecoder  *)
(* and LZW: either call may end in any of the three here (ImageConfig too, *)
(* as GetInts indexes the data an entry of a broken sub-IFD has not got),  *)
(* and nothing recovers.  On a nil IFD either call dereferences it.        *)
(***************************************************************************)
EXTENDS TiffReader

VARIABLES
    call,     \* the entry point, once OpenReader has returned to it
    apc,      \* "open", "loop", "returned" or "panic"
    i, j,     \* the loops' counters from 1 on; j = 0 before the row is allocated
    m,        \* the results: rows of "nil" and "image"
    errors,   \* rows of TRUE for an error
    err       \* whether the error returned is one

results == <<call, apc, i, j, m, errors, err>>

AllInit ==
    /\ ReaderInit
    /\ call = "none" /\ apc = "open" /\ i = 1 /\ j = 0
    /\ m = <<>> /\ errors = <<>> /\ err = FALSE

\* What comes back of DecodeImage: an image may have been allocated when a block of it fails;
\* of ImageConfig, an error or none.
Outcomes == {<<"image", FALSE>>, <<"image", TRUE>>, <<"nil", TRUE>>}

OpenFails ==
    /\ apc = "open" /\ tpc = "err"
    /\ call' \in {"Decode", "DecodeConfig", "DecodeAll", "DecodeConfigAll"}
    /\ apc' = "returned" /\ err' = TRUE
    /\ UNCHANGED <<device, tvars, i, j, m, errors>>

\* Decode and DecodeConfig go for the first IFD.
DecodeFirst ==
    /\ apc = "open" /\ tpc = "done"
    /\ call' \in {"Decode", "DecodeConfig"}
    /\ \/ /\ \E r \in Outcomes : m' = <<<<r[1]>>>> /\ err' = r[2]
          /\ apc' = "returned"
       \/ apc' = "panic" /\ UNCHANGED <<m, err>>
    /\ UNCHANGED <<device, tvars, i, j, errors>>

\* The outer slices.
Begin ==
    /\ apc = "open" /\ tpc = "done"
    /\ call' \in {"DecodeAll", "DecodeConfigAll"}
    /\ m' = [k \in DOMAIN tifd |-> <<>>] /\ errors' = [k \in DOMAIN tifd |-> <<>>]
    /\ apc' = "loop"
    /\ UNCHANGED <<device, tvars, i, j, err>>

\* The slices of row i; DecodeConfigAll makes none for the configurations.
AllocateRow ==
    /\ apc = "loop" /\ i <= Len(tifd) /\ j = 0
    /\ errors' = [errors EXCEPT ![i] = [k \in DOMAIN tifd[i] |-> FALSE]]
    /\ m' = IF call = "DecodeAll" THEN [m EXCEPT ![i] = [k \in DOMAIN tifd[i] |-> "nil"]] ELSE m
    /\ j' = 1
    /\ UNCHANGED <<device, tvars, call, apc, i, err>>

\* Mutant: an error ends the row, not the loops.
AfterSlotRow(failed) == IF failed THEN i' = i + 1 /\ j' = 0 ELSE j' = j + 1 /\ UNCHANGED i

\* break Loop at an error.
AfterSlot(failed) == IF failed THEN i' = Len(tifd) + 1 /\ UNCHANGED j ELSE j' = j + 1 /\ UNCHANGED i

DecodeSlot ==
    /\ apc = "loop" /\ i <= Len(tifd) /\ j \in DOMAIN tifd[i]
    /\ j \in DOMAIN m[i] /\ tifd[i][j] # NilIFD
    /\ \E r \in Outcomes :
         /\ m' = [m EXCEPT ![i][j] = r[1]] /\ errors' = [errors EXCEPT ![i][j] = r[2]]
         /\ AfterSlot(r[2])
    /\ UNCHANGED <<device, tvars, call, apc, err>>

\* The call panics, which on a nil IFD it must, or a slot is assigned that does not exist.
Panic ==
    /\ apc = "loop" /\ i <= Len(tifd) /\ j \in DOMAIN tifd[i]
    /\ apc' = "panic"
    /\ UNCHANGED <<device, tvars, call, i, j, m, errors, err>>

NextRow ==
    /\ apc = "loop" /\ i <= Len(tifd) /\ j > Len(tifd[i])
    /\ i' = i + 1 /\ j' = 0
    /\ UNCHANGED <<device, tvars, call, apc, m, errors, err>>

\* The first error found is returned as well.
Return ==
    /\ apc = "loop" /\ i > Len(tifd)
    /\ err' = (\E k \in DOMAIN errors : \E l \in DOMAIN errors[k] : errors[k][l])
    /\ apc' = "returned"
    /\ UNCHANGED <<device, tvars, call, i, j, m, errors>>

AllNext ==
    \/ TNext /\ UNCHANGED results
    \/ OpenFails \/ DecodeFirst \/ Begin \/ AllocateRow \/ DecodeSlot \/ Panic \/ NextRow \/ Return

AllSpec == AllInit /\ [][AllNext]_<<device, tvars, results>> /\ WF_<<device, tvars, results>>(AllNext)

-----------------------------------------------------------------------------
Slots        == UNION {{k} \X DOMAIN tifd[k] : k \in DOMAIN tifd}
Before(s, t) == s[1] < t[1] \/ (s[1] = t[1] /\ s[2] < t[2])
Failed       == {s \in Slots : s[2] \in DOMAIN errors[s[1]] /\ errors[s[1]][s[2]]}
Shown        == {s \in Slots : s[2] \in DOMAIN m[s[1]] /\ m[s[1]][s[2]] = "image"}

\* DecodeAll, DecodeConfigAll: what comes back accounts for every IFD that was opened.  The
\* error is the first one in the order of the file's IFDs, there is no other, everything
\* before it is an image and nothing after it is; without an error, everything is.  A sub-IFD
\* that OpenReader left nil is neither an image nor an error, so that DecodeAll can return
\* from such a file only by an error before it.  A panic takes with it images alone: at that
\* point no error was there to be reported.  DecodeConfigAll, which makes no row for its
\* configurations, panics at the first IFD of every file that opens.
DecodeAllAccounts ==
    /\ apc = "returned" /\ call = "DecodeAll" /\ tpc = "done" =>
          /\ err = (Failed # {}) /\ Cardinality(Failed) <= 1
          /\ \A s \in Slots : (\A f \in Failed : Before(s, f)) => s \in Shown
          /\ \A s \in Slots : (\E f \in Failed : Before(f, s)) => s \notin Shown
          /\ \A s \in Failed \cup Shown : tifd[s[1]][s[2]] # NilIFD
    /\ apc = "panic" /\ call = "DecodeAll" =>
          Failed = {} /\ \A s \in Slots : s \in Shown <=> Before(s, <<i, j>>)
    /\ apc = "panic" /\ call = "DecodeConfigAll" => i = 1 /\ j = 1
    /\ apc = "returned" /\ call = "DecodeConfigAll" => tpc = "err"
=============================================================================
