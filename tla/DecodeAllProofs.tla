-------------------------- MODULE DecodeAllProofs --------------------------
(***************************************************************************)
(* DecodeAll and DecodeConfigAll account for every IFD, for every file and *)
(* device, and whatever the decoding of its images ends in.                *)
(***************************************************************************)
EXTENDS DecodeAll, TiffReaderProofs

allVars == <<device, tvars, results>>

\* An open file has a first IFD, as the header's offset is not zero, and no list is empty.
HasFirst ==
    /\ tpc = "ifd" /\ tifd = <<>> => toff # 0
    /\ tpc = "done" => tifd # <<>>
    /\ \A k \in DOMAIN tifd : tifd[k] # <<>>

\* The entry points begin when OpenReader has returned.
AfterOpen == tpc \in {"done", "err"} \/ apc = "open"

\* The slices made so far: one row for each list of IFDs, as long as the list once the loop
\* has reached it.
Shaped ==
    /\ DOMAIN m = DOMAIN tifd /\ DOMAIN errors = DOMAIN tifd
    /\ \A k \in DOMAIN tifd :
          /\ DOMAIN errors[k] \subseteq DOMAIN tifd[k]
          /\ \A l \in DOMAIN errors[k] : errors[k][l] \in BOOLEAN

RowMade == i \in DOMAIN tifd /\ j # 0 => DOMAIN errors[i] = DOMAIN tifd[i] /\ DOMAIN m[i] = DOMAIN tifd[i]

\* The loops have come to a slot without an error, or an error has ended them.
Running == Failed = {} /\ \A s \in Slots : s \in Shown <=> Before(s, <<i, j>>)

Stopped ==
    /\ i = Len(tifd) + 1
    /\ \E f \in Slots :
          /\ Failed = {f}
          /\ \A s \in Slots : (Before(s, f) => s \in Shown) /\ (Before(f, s) => s \notin Shown)

\* What a nil IFD has given: nothing.
NilApart == \A s \in Failed \cup Shown : tifd[s[1]][s[2]] # NilIFD

Counters == apc = "open" => i = 1 /\ j = 0

LoopInv ==
    apc = "loop" =>
        /\ tpc = "done" /\ call \in {"DecodeAll", "DecodeConfigAll"}
        /\ i \in 1 .. Len(tifd) + 1 /\ j \in Nat
        /\ call = "DecodeAll" => Shaped /\ RowMade /\ NilApart /\ (Running \/ Stopped)
        /\ call = "DecodeConfigAll" => i = 1 /\ j \in {0, 1} /\ m = [k \in DOMAIN tifd |-> <<>>]

AllInv == TTypeOK /\ PlacesInv /\ HasFirst /\ AfterOpen /\ Counters /\ LoopInv /\ DecodeAllAccounts

-----------------------------------------------------------------------------
LEMMA HasFirstInit == AllInit => HasFirst
  BY DEF AllInit, ReaderInit, TInit, HasFirst

LEMMA HasFirstNext == TTypeOK /\ PlacesInv /\ HasFirst /\ [TNext]_<<device, tvars>> => HasFirst'
  <1> SUFFICES ASSUME TTypeOK, PlacesInv, HasFirst, [TNext]_<<device, tvars>> PROVE HasFirst'
    OBVIOUS
  <1>1. CASE AppendIFDList
    <2>1. tifd' = Append(tifd, tcur) /\ tcur # <<>> /\ tpc' = "ifd"
      BY <1>1 DEF AppendIFDList, PlacesInv, ListBuilt
    <2>2. tifd \in Seq(Seq(IFDs)) /\ tcur \in Seq(IFDs)
      BY DEF TTypeOK
    <2>3. \A k \in DOMAIN tifd' : tifd'[k] = tcur \/ (k \in DOMAIN tifd /\ tifd'[k] = tifd[k])
      <3>1. DOMAIN tifd = 1 .. Len(tifd) /\ DOMAIN tifd' = 1 .. Len(tifd) + 1 /\ Len(tifd) \in Nat
        BY <2>1, <2>2
      <3> QED
        BY <2>1, <2>2, <3>1
    <2>4. tifd' # <<>>
      BY <2>1, <2>2
    <2> QED
      BY <2>1, <2>3, <2>4 DEF HasFirst
  <1>2. CASE ReadHeader
    <2>1. HeaderValid(file) => FirstIFD(file) # 0
      BY DEF HeaderValid, FirstIFD, HeadSize
    <2> QED
      BY <1>2, <2>1 DEF ReadHeader, HasFirst
  <1>3. CASE ReadChainIFD \/ ReadSubIFD \/ ReadChainError \/ ReturnReader
    BY <1>3 DEF ReadChainIFD, ReadSubIFD, ReadChainError, ReturnReader, HasFirst
  <1>4. CASE UNCHANGED <<device, tvars>>
    BY <1>4 DEF device, tvars, HasFirst
  <1> QED
    BY <1>1, <1>2, <1>3, <1>4 DEF TNext

\* What is opened, as sequences.
LEMMA OpenedLists ==
    ASSUME TTypeOK, HasFirst
    PROVE  /\ Len(tifd) \in Nat /\ DOMAIN tifd = 1 .. Len(tifd)
           /\ \A k \in DOMAIN tifd : /\ Len(tifd[k]) \in Nat \ {0}
                                     /\ DOMAIN tifd[k] = 1 .. Len(tifd[k])
           /\ \A s \in Slots : /\ s = <<s[1], s[2]>> /\ s[1] \in DOMAIN tifd
                               /\ s[2] \in DOMAIN tifd[s[1]]
                               /\ s[1] \in Nat /\ s[2] \in Nat \ {0}
           /\ \A k \in DOMAIN tifd : \A l \in DOMAIN tifd[k] : <<k, l>> \in Slots
  <1>1. tifd \in Seq(Seq(IFDs))
    BY DEF TTypeOK
  <1>2. Len(tifd) \in Nat /\ DOMAIN tifd = 1 .. Len(tifd)
    BY <1>1
  <1>3. ASSUME NEW k \in DOMAIN tifd
        PROVE  Len(tifd[k]) \in Nat \ {0} /\ DOMAIN tifd[k] = 1 .. Len(tifd[k])
    <2>1. tifd[k] \in Seq(IFDs) /\ tifd[k] # <<>>
      BY <1>1 DEF HasFirst
    <2> QED
      BY <2>1
  <1>4. ASSUME NEW s \in Slots
        PROVE  /\ s = <<s[1], s[2]>> /\ s[1] \in DOMAIN tifd /\ s[2] \in DOMAIN tifd[s[1]]
               /\ s[1] \in Nat /\ s[2] \in Nat \ {0}
    <2>1. PICK k \in DOMAIN tifd : s \in {k} \X DOMAIN tifd[k]
      BY DEF Slots
    <2> QED
      BY <1>2, <1>3, <2>1
  <1>5. \A k \in DOMAIN tifd : \A l \in DOMAIN tifd[k] : <<k, l>> \in Slots
    BY DEF Slots
  <1> QED
    BY <1>2, <1>3, <1>4, <1>5

\* The loops of DecodeAll.
LEMMA RowAllocated ==
    ASSUME AllInv, AllocateRow, call = "DecodeAll"
    PROVE  Shaped' /\ RowMade' /\ NilApart' /\ (Running \/ Stopped)'
  <1>1. /\ TTypeOK /\ HasFirst /\ Shaped /\ RowMade /\ NilApart /\ (Running \/ Stopped)
        /\ i \in DOMAIN tifd /\ i \in Nat
    BY OpenedLists DEF AllInv, LoopInv, AllocateRow
  <1>2. /\ errors' = [errors EXCEPT ![i] = [k \in DOMAIN tifd[i] |-> FALSE]]
        /\ m' = [m EXCEPT ![i] = [k \in DOMAIN tifd[i] |-> "nil"]]
        /\ i <= Len(tifd) /\ j = 0 /\ j' = 1 /\ i' = i /\ tifd' = tifd
    BY DEF AllocateRow, tvars
  <1>3. /\ errors'[i] = [k \in DOMAIN tifd[i] |-> FALSE]
        /\ m'[i] = [k \in DOMAIN tifd[i] |-> "nil"]
        /\ \A k \in DOMAIN tifd : k # i => errors'[k] = errors[k] /\ m'[k] = m[k]
        /\ DOMAIN m' = DOMAIN tifd /\ DOMAIN errors' = DOMAIN tifd
    BY <1>1, <1>2 DEF Shaped
  <1>4. Shaped' /\ RowMade'
    BY <1>1, <1>2, <1>3 DEF Shaped, RowMade
  <1>5. Running
    <2>1. Len(tifd) \in Nat
      BY <1>1, OpenedLists
    <2> QED
      BY <1>1, <1>2, <2>1 DEF Stopped
  <1>6. Slots' = Slots
    BY <1>2 DEF Slots
  <1>7. ASSUME NEW s \in Slots
        PROVE  /\ s \notin Failed' /\ (s \in Shown' <=> Before(s, <<i, 1>>))
               /\ s \in Shown' => s \in Shown
    <2>1. s[1] \in DOMAIN tifd /\ s[1] \in Nat /\ s[2] \in Nat \ {0} /\ s[2] \in DOMAIN tifd[s[1]]
      BY <1>1, OpenedLists
    <2>2. s \notin Failed /\ (s \in Shown <=> Before(s, <<i, 0>>))
      BY <1>2, <1>5 DEF Running
    <2>3. Before(s, <<i, 1>>) <=> s[1] < i
      BY <1>1, <2>1 DEF Before
    <2>4. Before(s, <<i, 0>>) <=> s[1] < i
      BY <1>1, <2>1 DEF Before
    <2>5. CASE s[1] = i
      <3>1. ~ s[1] < i
        BY <1>1, <2>5
      <3>2. errors'[s[1]][s[2]] = FALSE /\ m'[s[1]][s[2]] = "nil"
        BY <1>3, <2>1, <2>5
      <3> QED
        BY <2>3, <3>1, <3>2 DEF Failed, Shown
    <2>6. CASE s[1] # i
      <3>1. errors'[s[1]] = errors[s[1]] /\ m'[s[1]] = m[s[1]]
        BY <1>3, <2>1, <2>6
      <3>2. (s \in Failed' <=> s \in Failed) /\ (s \in Shown' <=> s \in Shown)
        BY <1>6, <3>1 DEF Failed, Shown
      <3> QED
        BY <2>2, <2>3, <2>4, <3>2
    <2> QED
      BY <2>5, <2>6
  <1>8. Failed' \subseteq Slots /\ Shown' \subseteq Slots
    BY <1>6 DEF Failed, Shown
  <1>9. Running'
    BY <1>2, <1>6, <1>7, <1>8 DEF Running
  <1>10. NilApart'
    BY <1>1, <1>2, <1>7, <1>8 DEF NilApart
  <1> QED
    BY <1>4, <1>9, <1>10

LEMMA SlotDecoded ==
    ASSUME AllInv, DecodeSlot, call = "DecodeAll"
    PROVE  /\ Shaped' /\ RowMade' /\ NilApart' /\ (Running \/ Stopped)'
           /\ i' \in 1 .. Len(tifd) + 1 /\ j' \in Nat
  <1>1. /\ TTypeOK /\ HasFirst /\ Shaped /\ RowMade /\ NilApart /\ (Running \/ Stopped)
        /\ i \in DOMAIN tifd /\ i \in Nat /\ j \in DOMAIN tifd[i] /\ j \in Nat \ {0}
        /\ Len(tifd) \in Nat /\ i <= Len(tifd)
    BY OpenedLists DEF AllInv, LoopInv, DecodeSlot
  <1>2. PICK r \in Outcomes :
           /\ m' = [m EXCEPT ![i][j] = r[1]] /\ errors' = [errors EXCEPT ![i][j] = r[2]]
           /\ AfterSlot(r[2])
    BY DEF DecodeSlot
  <1>3. /\ r[2] \in BOOLEAN /\ (~ r[2] => r[1] = "image") /\ tifd' = tifd
    <2>1. CASE r = <<"image", FALSE>>
      BY <2>1 DEF DecodeSlot, tvars
    <2>2. CASE r = <<"image", TRUE>> \/ r = <<"nil", TRUE>>
      <3>1. r[2] = TRUE
        <4>1. \A a, b : <<a, b>>[2] = b
          OBVIOUS
        <4> QED
          BY <2>2, <4>1, Zenon
      <3> QED
        BY <3>1 DEF DecodeSlot, tvars
    <2> QED
      BY <2>1, <2>2 DEF Outcomes
  <1>4. DOMAIN errors[i] = DOMAIN tifd[i] /\ DOMAIN m[i] = DOMAIN tifd[i]
    BY <1>1 DEF RowMade
  <1>5. /\ \A k \in DOMAIN tifd : k # i => errors'[k] = errors[k] /\ m'[k] = m[k]
        /\ DOMAIN m' = DOMAIN tifd /\ DOMAIN errors' = DOMAIN tifd
        /\ errors'[i] = [errors[i] EXCEPT ![j] = r[2]]
        /\ m'[i] = [m[i] EXCEPT ![j] = r[1]]
    BY <1>1, <1>2 DEF Shaped
  <1>6. /\ DOMAIN errors'[i] = DOMAIN tifd[i] /\ DOMAIN m'[i] = DOMAIN tifd[i]
        /\ errors'[i][j] = r[2] /\ m'[i][j] = r[1]
        /\ \A l \in DOMAIN tifd[i] : l # j => errors'[i][l] = errors[i][l] /\ m'[i][l] = m[i][l]
    BY <1>1, <1>4, <1>5
  <1>7. Shaped'
    <2> SUFFICES ASSUME NEW k \in DOMAIN tifd
                 PROVE  /\ DOMAIN errors'[k] \subseteq DOMAIN tifd[k]
                        /\ \A l \in DOMAIN errors'[k] : errors'[k][l] \in BOOLEAN
      BY <1>3, <1>5 DEF Shaped
    <2>1. CASE k = i
      BY <1>1, <1>3, <1>4, <1>6, <2>1 DEF Shaped
    <2>2. CASE k # i
      BY <1>1, <1>5, <2>2 DEF Shaped
    <2> QED
      BY <2>1, <2>2
  <1>8. Running
    BY <1>1 DEF Stopped
  <1>9. Slots' = Slots
    BY <1>3 DEF Slots
  <1>10. ASSUME NEW s \in Slots
         PROVE  /\ s # <<i, j>> => s \notin Failed' /\ (s \in Shown' <=> Before(s, <<i, j>>))
                /\ s = <<i, j>> => (s \in Failed' <=> r[2]) /\ (r[1] = "image" => s \in Shown')
    <2>1. /\ s = <<s[1], s[2]>> /\ s[1] \in DOMAIN tifd /\ s[1] \in Nat /\ s[2] \in Nat \ {0}
          /\ s[2] \in DOMAIN tifd[s[1]]
      BY <1>1, OpenedLists
    <2>2. s \notin Failed /\ (s \in Shown <=> Before(s, <<i, j>>))
      BY <1>8 DEF Running
    <2>3. CASE s = <<i, j>>
      <3>1. s[1] = i /\ s[2] = j
        BY <2>3
      <3> QED
        BY <1>1, <1>3, <1>6, <1>9, <2>3, <3>1 DEF Failed, Shown
    <2>4. CASE s # <<i, j>>
      <3>1. /\ s[2] \in DOMAIN errors'[s[1]] <=> s[2] \in DOMAIN errors[s[1]]
            /\ s[2] \in DOMAIN m'[s[1]] <=> s[2] \in DOMAIN m[s[1]]
            /\ errors'[s[1]][s[2]] = errors[s[1]][s[2]] /\ m'[s[1]][s[2]] = m[s[1]][s[2]]
        <4>1. CASE s[1] = i
          BY <1>4, <1>6, <2>1, <2>4, <4>1
        <4>2. CASE s[1] # i
          BY <1>5, <2>1, <4>2
        <4> QED
          BY <4>1, <4>2
      <3> QED
        BY <1>9, <2>2, <2>4, <3>1 DEF Failed, Shown
    <2> QED
      BY <2>3, <2>4
  <1>11. <<i, j>> \in Slots /\ Failed' \subseteq Slots
    BY <1>1, <1>9, OpenedLists DEF Failed
  <1>12. NilApart'
    <2>1. Failed' \subseteq Slots /\ Shown' \subseteq Slots
      BY <1>9 DEF Failed, Shown
    <2>2. ASSUME NEW s \in Failed' \cup Shown' PROVE tifd[s[1]][s[2]] # NilIFD
      <3>1. CASE s = <<i, j>>
        <4>1. s[1] = i /\ s[2] = j
          BY <3>1
        <4> QED
          BY <4>1 DEF DecodeSlot
      <3>2. CASE s # <<i, j>>
        <4>1. s \in Shown
          BY <1>8, <1>10, <2>1, <2>2, <3>2 DEF Running
        <4> QED
          BY <1>1, <4>1 DEF NilApart
      <3> QED
        BY <3>1, <3>2
    <2> QED
      BY <1>3, <2>2 DEF NilApart
  <1>13. CASE ~ r[2]
    <2>1. j' = j + 1 /\ i' = i
      BY <1>2, <1>13 DEF AfterSlot
    <2>2. Failed' = {}
      BY <1>10, <1>11, <1>13
    <2>3. ASSUME NEW s \in Slots PROVE s \in Shown' <=> Before(s, <<i, j + 1>>)
      <3>1. s = <<s[1], s[2]>> /\ s[1] \in Nat /\ s[2] \in Nat
        BY <1>1, OpenedLists
      <3>2. Before(s, <<i, j + 1>>) <=> s = <<i, j>> \/ Before(s, <<i, j>>)
        BY <1>1, <3>1 DEF Before
      <3>3. ~ Before(<<i, j>>, <<i, j>>)
        BY <1>1 DEF Before
      <3> QED
        BY <1>3, <1>10, <1>13, <3>2, <3>3
    <2>4. Running'
      BY <1>9, <2>1, <2>2, <2>3 DEF Running
    <2>5. RowMade'
      BY <1>3, <1>6, <2>1 DEF RowMade
    <2> QED
      BY <1>1, <1>7, <1>12, <2>1, <2>4, <2>5
  <1>14. CASE r[2]
    <2>1. i' = Len(tifd) + 1 /\ j' = j
      BY <1>2, <1>14 DEF AfterSlot
    <2>2. Failed' = {<<i, j>>}
      BY <1>10, <1>11, <1>14
    <2>3. ASSUME NEW s \in Slots
          PROVE  (Before(s, <<i, j>>) => s \in Shown') /\ (Before(<<i, j>>, s) => s \notin Shown')
      <3>1. s[1] \in Nat /\ s[2] \in Nat
        BY <1>1, OpenedLists
      <3>2. Before(s, <<i, j>>) => s # <<i, j>>
        BY <1>1 DEF Before
      <3>3. Before(<<i, j>>, s) => s # <<i, j>> /\ ~ Before(s, <<i, j>>)
        BY <1>1, <3>1 DEF Before
      <3> QED
        BY <1>10, <3>2, <3>3
    <2>4. Stopped'
      BY <1>3, <1>9, <1>11, <2>1, <2>2, <2>3 DEF Stopped
    <2>5. RowMade'
      <3>1. i' \notin DOMAIN tifd'
        BY <1>1, <1>3, <2>1, OpenedLists
      <3> QED
        BY <3>1 DEF RowMade
    <2> QED
      BY <1>1, <1>7, <1>12, <2>1, <2>4, <2>5
  <1> QED
    BY <1>3, <1>13, <1>14, <1>12

LEMMA RowEnds ==
    ASSUME AllInv, NextRow, call = "DecodeAll"
    PROVE  Shaped' /\ RowMade' /\ NilApart' /\ (Running \/ Stopped)'
  <1>1. /\ TTypeOK /\ HasFirst /\ Shaped /\ RowMade /\ NilApart /\ (Running \/ Stopped)
        /\ i \in DOMAIN tifd /\ i \in Nat /\ j \in Nat
        /\ Len(tifd) \in Nat /\ i <= Len(tifd) /\ j > Len(tifd[i])
        /\ i' = i + 1 /\ j' = 0 /\ m' = m /\ errors' = errors /\ tifd' = tifd
    BY OpenedLists DEF AllInv, LoopInv, NextRow, tvars
  <1>2. Shaped' /\ RowMade'
    BY <1>1 DEF Shaped, RowMade
  <1>3. Running
    BY <1>1 DEF Stopped
  <1>4. ASSUME NEW s \in Slots PROVE Before(s, <<i, j>>) <=> Before(s, <<i + 1, 0>>)
    <2>1. s[1] \in Nat /\ s[2] \in Nat \ {0} /\ s[2] \in DOMAIN tifd[s[1]]
      BY <1>1, OpenedLists
    <2>2. s[1] = i => s[2] < j
      BY <1>1, <2>1, OpenedLists
    <2> QED
      BY <1>1, <2>1, <2>2 DEF Before
  <1>5. Slots' = Slots /\ Failed' = Failed /\ Shown' = Shown
    BY <1>1 DEF Slots, Failed, Shown
  <1>6. Running'
    BY <1>1, <1>3, <1>4, <1>5 DEF Running
  <1>7. NilApart'
    BY <1>1, <1>5 DEF NilApart
  <1> QED
    BY <1>2, <1>6, <1>7

\* What DecodeAll returns.
LEMMA AllReturned ==
    ASSUME AllInv, Return
    PROVE  DecodeAllAccounts'
  <1>1. /\ TTypeOK /\ HasFirst /\ tpc = "done" /\ i > Len(tifd) /\ i \in 1 .. Len(tifd) + 1
        /\ Len(tifd) \in Nat /\ tifd # <<>>
    BY OpenedLists DEF AllInv, LoopInv, Return, HasFirst
  <1>2. call # "DecodeConfigAll"
    <2>1. Len(tifd) # 0
      BY <1>1 DEF TTypeOK
    <2> QED
      BY <1>1, <2>1 DEF AllInv, LoopInv, Return
  <1>3. /\ call = "DecodeAll" /\ Shaped /\ NilApart /\ (Running \/ Stopped)
        /\ call' = call /\ apc' = "returned" /\ tpc' = tpc /\ tifd' = tifd /\ m' = m
        /\ errors' = errors
        /\ err' = (\E k \in DOMAIN errors : \E l \in DOMAIN errors[k] : errors[k][l])
    BY <1>2 DEF AllInv, LoopInv, Return, tvars
  <1>4. Slots' = Slots /\ Failed' = Failed /\ Shown' = Shown
    BY <1>3 DEF Slots, Failed, Shown
  <1>5. err' = (Failed # {})
    <2>1. ASSUME NEW k \in DOMAIN errors, NEW l \in DOMAIN errors[k], errors[k][l]
          PROVE  <<k, l>> \in Failed
      <3>1. <<k, l>> \in Slots
        BY <1>1, <1>3, OpenedLists DEF Shaped
      <3> QED
        BY <2>1, <3>1 DEF Failed
    <2>2. ASSUME NEW f \in Failed
          PROVE  \E k \in DOMAIN errors : \E l \in DOMAIN errors[k] : errors[k][l]
      <3>1. f \in Slots /\ f[2] \in DOMAIN errors[f[1]] /\ errors[f[1]][f[2]]
        BY DEF Failed
      <3>2. f[1] \in DOMAIN errors
        BY <1>1, <1>3, <3>1, OpenedLists DEF Shaped
      <3> QED
        BY <3>1, <3>2
    <2> QED
      BY <1>3, <2>1, <2>2
  <1>6. /\ Cardinality(Failed) <= 1
        /\ \A s \in Slots : (\A f \in Failed : Before(s, f)) => s \in Shown
        /\ \A s \in Slots : (\E f \in Failed : Before(f, s)) => s \notin Shown
    <2>1. CASE Running
      <3>1. Failed = {} /\ Cardinality(Failed) = 0
        BY <2>1, FS_EmptySet DEF Running
      <3>2. ASSUME NEW s \in Slots PROVE Before(s, <<i, j>>)
        <4>1. s[1] \in DOMAIN tifd /\ DOMAIN tifd = 1 .. Len(tifd)
          BY <1>1, OpenedLists
        <4> QED
          BY <1>1, <4>1 DEF Before
      <3> QED
        BY <2>1, <3>1, <3>2 DEF Running
    <2>2. CASE Stopped
      <3>1. PICK f \in Slots :
               /\ Failed = {f}
               /\ \A s \in Slots : (Before(s, f) => s \in Shown) /\ (Before(f, s) => s \notin Shown)
        BY <2>2 DEF Stopped
      <3>2. Cardinality(Failed) = 1
        BY <3>1, FS_Singleton
      <3> QED
        BY <3>1, <3>2
    <2> QED
      BY <1>3, <2>1, <2>2
  <1> QED
    BY <1>3, <1>4, <1>5, <1>6 DEF DecodeAllAccounts, NilApart

-----------------------------------------------------------------------------
LEMMA AllInvInit == AllInit => AllInv
  <1> SUFFICES ASSUME AllInit PROVE AllInv
    OBVIOUS
  <1>1. ReaderInit /\ apc = "open"
    BY DEF AllInit
  <1>2. TTypeOK /\ PlacesInv /\ HasFirst
    BY <1>1, TTypeInit, PlacesInit, HasFirstInit DEF ReaderInit
  <1> QED
    BY <1>1, <1>2 DEF AllInit, AllInv, AfterOpen, Counters, LoopInv, DecodeAllAccounts

LEMMA AllInvNext == AllInv /\ [AllNext]_allVars => AllInv'
  <1> SUFFICES ASSUME AllInv, [AllNext]_allVars PROVE AllInv'
    OBVIOUS
  <1>1. [TNext]_<<device, tvars>>
    BY DEF AllNext, allVars, OpenFails, DecodeFirst, Begin, AllocateRow, DecodeSlot, Panic, NextRow,
           Return
  <1>2. TTypeOK' /\ PlacesInv' /\ HasFirst'
    BY <1>1, TTypeNext, PlacesNext, HasFirstNext DEF AllInv
  <1>3. Counters'
    BY DEF AllInv, Counters, AllNext, allVars, results, OpenFails, DecodeFirst, Begin, AllocateRow,
           DecodeSlot, Panic, NextRow, Return
  <1> SUFFICES AfterOpen' /\ LoopInv' /\ DecodeAllAccounts'
    BY <1>2, <1>3 DEF AllInv
  <1>4. CASE TNext /\ UNCHANGED results
    <2>1. tpc \notin {"done", "err"}
      BY <1>4 DEF TNext, ReadHeader, ReadChainIFD, ReadChainError, ReadSubIFD, AppendIFDList,
                  ReturnReader
    <2>2. apc = "open" /\ apc' = "open"
      BY <1>4, <2>1 DEF AllInv, AfterOpen, results
    <2> QED
      BY <2>2 DEF AfterOpen, LoopInv, DecodeAllAccounts
  <1>5. CASE OpenFails
    BY <1>5 DEF OpenFails, tvars, AfterOpen, LoopInv, DecodeAllAccounts
  <1>6. CASE DecodeFirst
    BY <1>6 DEF DecodeFirst, tvars, AfterOpen, LoopInv, DecodeAllAccounts, AllInv
  <1>7. CASE Begin
    <2>1. /\ call' \in {"DecodeAll", "DecodeConfigAll"} /\ apc' = "loop" /\ tpc' = "done"
          /\ m' = [k \in DOMAIN tifd |-> <<>>] /\ errors' = [k \in DOMAIN tifd |-> <<>>]
          /\ tifd' = tifd
      BY <1>7 DEF Begin, tvars
    <2>2. i = 1 /\ j = 0 /\ i' = 1 /\ j' = 0
      BY <1>7 DEF AllInv, Counters, Begin
    <2>3. Slots' = Slots /\ Failed' = {} /\ Shown' = {}
      BY <2>1 DEF Slots, Failed, Shown
    <2>4. Shaped' /\ RowMade' /\ NilApart'
      BY <2>1, <2>2, <2>3 DEF Shaped, RowMade, NilApart
    <2>5. ASSUME NEW s \in Slots PROVE ~ Before(s, <<1, 0>>)
      <3>1. s[1] \in 1 .. Len(tifd) /\ s[2] \in Nat \ {0}
        BY OpenedLists DEF AllInv
      <3> QED
        BY <3>1 DEF Before
    <2>6. Running'
      BY <2>2, <2>3, <2>5 DEF Running
    <2>7. Len(tifd) \in Nat
      BY OpenedLists DEF AllInv
    <2> QED
      BY <2>1, <2>2, <2>4, <2>6, <2>7 DEF AfterOpen, LoopInv, DecodeAllAccounts
  <1>8. CASE AllocateRow
    <2>1. /\ apc = "loop" /\ apc' = "loop" /\ tpc = "done" /\ tpc' = "done" /\ call' = call
          /\ i' = i /\ j' = 1 /\ tifd' = tifd
          /\ call # "DecodeAll" => m' = m
      BY <1>8 DEF AllocateRow, tvars, AllInv, LoopInv
    <2>2. call = "DecodeAll" => Shaped' /\ RowMade' /\ NilApart' /\ (Running \/ Stopped)'
      BY <1>8, RowAllocated
    <2> QED
      BY <2>1, <2>2 DEF AllInv, AfterOpen, LoopInv, DecodeAllAccounts
  <1>9. CASE DecodeSlot
    <2>1. /\ apc = "loop" /\ apc' = "loop" /\ tpc = "done" /\ tpc' = "done" /\ call' = call
          /\ tifd' = tifd /\ j \in DOMAIN m[i]
      BY <1>9 DEF DecodeSlot, tvars, AllInv, LoopInv
    <2>2. call = "DecodeAll"
      <3>1. i \in DOMAIN tifd
        BY <1>9, OpenedLists DEF DecodeSlot, AllInv, LoopInv
      <3>2. call = "DecodeConfigAll" => m[i] = <<>>
        BY <2>1, <3>1 DEF AllInv, LoopInv
      <3> QED
        BY <2>1, <3>2 DEF AllInv, LoopInv
    <2>3. /\ Shaped' /\ RowMade' /\ NilApart' /\ (Running \/ Stopped)'
          /\ i' \in 1 .. Len(tifd) + 1 /\ j' \in Nat
      BY <1>9, <2>2, SlotDecoded
    <2> QED
      BY <2>1, <2>2, <2>3 DEF AfterOpen, LoopInv, DecodeAllAccounts
  <1>10. CASE Panic
    <2>1. /\ apc = "loop" /\ apc' = "panic" /\ tpc = "done" /\ tpc' = "done" /\ call' = call
          /\ tifd' = tifd /\ i' = i /\ j' = j /\ m' = m /\ errors' = errors
          /\ i \in DOMAIN tifd /\ j \in DOMAIN tifd[i] /\ i \in Nat /\ Len(tifd) \in Nat
      BY <1>10, OpenedLists DEF Panic, tvars, AllInv, LoopInv
    <2>2. j # 0 /\ i # Len(tifd) + 1
      BY <2>1, OpenedLists DEF AllInv
    <2>3. call = "DecodeAll" => Running
      BY <2>1, <2>2 DEF AllInv, LoopInv, Stopped
    <2>4. call = "DecodeConfigAll" => i = 1 /\ j = 1
      BY <2>1, <2>2 DEF AllInv, LoopInv
    <2>5. Slots' = Slots /\ Failed' = Failed /\ Shown' = Shown
      BY <2>1 DEF Slots, Failed, Shown
    <2> QED
      BY <2>1, <2>3, <2>4, <2>5 DEF AfterOpen, LoopInv, DecodeAllAccounts, Running
  <1>11. CASE NextRow
    <2>1. /\ apc = "loop" /\ apc' = "loop" /\ tpc = "done" /\ tpc' = "done" /\ call' = call
          /\ tifd' = tifd /\ m' = m /\ i' = i + 1 /\ j' = 0 /\ i <= Len(tifd) /\ j > Len(tifd[i])
          /\ i \in 1 .. Len(tifd) + 1
      BY <1>11 DEF NextRow, tvars, AllInv, LoopInv
    <2>2. Len(tifd) \in Nat /\ \A k \in 1 .. Len(tifd) : Len(tifd[k]) \in Nat \ {0}
      BY OpenedLists DEF AllInv
    <2>3. call = "DecodeAll"
      BY <2>1, <2>2 DEF AllInv, LoopInv
    <2>4. Shaped' /\ RowMade' /\ NilApart' /\ (Running \/ Stopped)'
      BY <1>11, <2>3, RowEnds
    <2>5. i' \in 1 .. Len(tifd) + 1
      BY <2>1, <2>2
    <2> QED
      BY <2>1, <2>3, <2>4, <2>5 DEF AfterOpen, LoopInv, DecodeAllAccounts
  <1>12. CASE Return
    <2>1. DecodeAllAccounts'
      BY <1>12, AllReturned
    <2> QED
      BY <1>12, <2>1 DEF Return, tvars, AfterOpen, LoopInv, AllInv
  <1>13. CASE UNCHANGED allVars
    BY <1>13 DEF allVars, device, tvars, results, AllInv, AfterOpen, LoopInv, Shaped, RowMade, Running,
                 Stopped, NilApart, Slots, Failed, Shown, DecodeAllAccounts
  <1> QED
    BY <1>4, <1>5, <1>6, <1>7, <1>8, <1>9, <1>10, <1>11, <1>12, <1>13 DEF AllNext

\* DecodeAll accounts for every IFD that was opened, DecodeConfigAll for none: for every file,
\* every device and every outcome of the images' blocks.
THEOREM DecodeAllAccountsThm == AllSpec => []DecodeAllAccounts
  <1>1. AllInv => DecodeAllAccounts
    BY DEF AllInv
  <1> QED
    BY <1>1, AllInvInit, AllInvNext, PTL DEF AllSpec, allVars
=============================================================================
