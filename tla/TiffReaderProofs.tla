-------------------------- MODULE TiffReaderProofs --------------------------
(***************************************************************************)
(* Theorems about the traditional reader, for every file and device: type  *)
(* correctness, the places of the sub-IFDs, where values come from, and    *)
(* that OpenReader implements TiffOpen.                                    *)
(***************************************************************************)
EXTENDS TiffReader, SequenceTheorems, FiniteSetTheorems, FunctionTheorems,
        WellFoundedInduction, TLAPS

(***************************************************************************)
(* What an image decodes to.                                               *)
(***************************************************************************)
LEMMA WordTyped ==
    ASSUME NEW b, IsImage(b), NEW k
    PROVE  WordAt(b, k) \in Nat
  BY DEF IsImage, WordAt

LEMMA EntryTyped ==
    ASSUME NEW b, IsImage(b), NEW o, NEW i
    PROVE  /\ Entry(b, o, i).tag \in Nat /\ Entry(b, o, i).size \in Nat
           /\ Entry(b, o, i).offset \in Nat
           /\ Embedded(Entry(b, o, i)) => Entry(b, o, i).size <= 1
           /\ ~ Embedded(Entry(b, o, i)) => Entry(b, o, i).size > 1
  BY WordTyped DEF Entry, Embedded, Threshold

\* The value of an entry is a sequence of words, at least as long as the entry's size.
LEMMA EntryDataTyped ==
    ASSUME NEW b, IsImage(b), NEW o, NEW i, NEW n
    PROVE  /\ EntryData(b, Entry(b, o, i), n) \in Seq(Nat)
           /\ Len(EntryData(b, Entry(b, o, i), n)) >= Entry(b, o, i).size
<1> DEFINE e == Entry(b, o, i)
           value == [k \in 1 .. e.size |-> IF k <= n THEN WordAt(b, e.offset + k - 1) ELSE 0]
<1>1. e.size \in Nat /\ e.offset \in Nat /\ (Embedded(e) => e.size <= 1)
  BY EntryTyped
<1>2. \A k \in 1 .. e.size : (IF k <= n THEN WordAt(b, e.offset + k - 1) ELSE 0) \in Nat
  BY WordTyped
<1>3. value \in Seq(Nat) /\ Len(value) = e.size
  BY <1>1, <1>2
<1> HIDE DEF value, e
<1>4. EntryData(b, e, n) = IF Embedded(e) THEN <<e.offset>> ELSE value
  BY DEF EntryData, value
<1> QED
  BY <1>1, <1>3, <1>4 DEF e

LEMMA IFDTyped ==
    ASSUME NEW b, IsImage(b), NEW o \in Nat, NEW got
    PROVE  /\ DecodeIFD(b, o, got) \in IFDs
           /\ \A e \in DecodeIFD(b, o, got).entries : Len(e[3]) >= e[2]
<1> DEFINE entry(i) == <<Entry(b, o, i).tag, Entry(b, o, i).size,
                         EntryData(b, Entry(b, o, i), got[i])>>
           entries == {entry(i) : i \in EntryMap(b, o)}
<1>1. \A i : entry(i) \in Nat \X Nat \X Seq(Nat) /\ Len(entry(i)[3]) >= entry(i)[2]
  BY EntryTyped, EntryDataTyped
<1>2. entries \in SUBSET (Nat \X Nat \X Seq(Nat)) /\ \A e \in entries : Len(e[3]) >= e[2]
  BY <1>1
<1>3. WordAt(b, NextPos(b, o)) \in Nat
  BY WordTyped
<1>4. DecodeIFD(b, o, got) = [this |-> o, next |-> WordAt(b, NextPos(b, o)),
                              entries |-> entries, whole |-> TRUE]
  BY DEF DecodeIFD
<1> HIDE DEF entries
<1> QED
  BY <1>2, <1>3, <1>4 DEF IFDs

LEMMA FailedTyped ==
    ASSUME NEW o \in Nat
    PROVE  NilIFD \in IFDs /\ BrokenIFD(o) \in IFDs
  BY DEF NilIFD, BrokenIFD, IFDs

LEMMA FailedCases ==
    ASSUME NEW o, NEW ifd \in FailedIFDs(o)
    PROVE  ifd = NilIFD \/ ifd = BrokenIFD(o)
  BY DEF FailedIFDs

\* The sub-IFD offsets of a decoded IFD are words.
LEMMA SubIFDOffsetsTyped ==
    ASSUME NEW ifd \in IFDs, \A e \in ifd.entries : Len(e[3]) >= e[2]
    PROVE  GetSubIFD(ifd) \in Seq(Nat)
<1>1. CASE ~ \E e \in ifd.entries : e[1] = SubIFDTag
  BY <1>1 DEF GetSubIFD
<1>2. CASE \E e \in ifd.entries : e[1] = SubIFDTag
  <2> DEFINE e == CHOOSE e \in ifd.entries : e[1] = SubIFDTag
  <2>1. e \in ifd.entries
    BY <1>2
  <2>2. e[2] \in Nat /\ e[3] \in Seq(Nat) /\ Len(e[3]) >= e[2]
    BY <2>1 DEF IFDs
  <2>3. GetSubIFD(ifd) = SubSeq(e[3], 1, e[2])
    BY <1>2 DEF GetSubIFD
  <2> HIDE DEF e
  <2>4. \A k \in 1 .. e[2] : e[3][k] \in Nat
    BY <2>2
  <2> QED
    BY <2>2, <2>3, <2>4, SubSeqProperties
<1> QED
  BY <1>1, <1>2

(***************************************************************************)
(* Type correctness.                                                       *)
(***************************************************************************)
LEMMA ReadCountsTyped ==
    ASSUME TTypeOK, NEW o \in Nat, NEW size \in Nat, o <= file.len, NEW n \in ReadCounts(o, size)
    PROVE  n \in Nat /\ n <= size /\ o + n <= file.len
<1>1. file.len \in Nat /\ ShortCounts \subseteq Nat
  BY TiffReaderAssumption DEF TTypeOK, IsImage
<1> QED
  BY <1>1 DEF ReadCounts, Least

LEMMA DecodedTyped ==
    ASSUME TTypeOK, NEW o \in Nat, NEW got
    PROVE  /\ DecodeIFD(file, o, got) \in IFDs /\ DecodeIFD(file, o, got).next \in Nat
           /\ GetSubIFD(DecodeIFD(file, o, got)) \in Seq(Nat)
<1>1. IsImage(file)
  BY DEF TTypeOK
<1>2. DecodeIFD(file, o, got) \in IFDs /\ \A e \in DecodeIFD(file, o, got).entries : Len(e[3]) >= e[2]
  BY <1>1, IFDTyped
<1>3. DecodeIFD(file, o, got).next \in Nat
  BY <1>2 DEF IFDs
<1> QED
  BY <1>2, <1>3, SubIFDOffsetsTyped

LEMMA TTypeInit == TInit /\ tpc \in {"idle", "header"} => TTypeOK
  BY TiffReaderAssumption DEF TInit, TTypeOK

LEMMA TTypeNext == TTypeOK /\ [TNext]_<<device, tvars>> => TTypeOK'
<1> SUFFICES ASSUME TTypeOK, [TNext]_<<device, tvars>> PROVE TTypeOK'
  OBVIOUS
<1> USE DEF TTypeOK
<1>1. CASE ReadHeader
  <2>1. FirstIFD(file) \in Nat
    BY WordTyped DEF FirstIFD
  <2> QED
    BY <1>1, <2>1 DEF ReadHeader, device
<1>2. CASE ReadChainIFD
  <2>1. PICK got \in Deliveries(toff) : /\ tcur' = <<DecodeIFD(file, toff, got)>>
                                        /\ toff' = DecodeIFD(file, toff, got).next
                                        /\ tsubs' = GetSubIFD(DecodeIFD(file, toff, got))
    BY <1>2 DEF ReadChainIFD
  <2>2. tcur' \in Seq(IFDs) /\ toff' \in Nat /\ tsubs' \in Seq(Nat)
    BY <2>1, DecodedTyped
  <2> QED
    BY <1>2, <2>2 DEF ReadChainIFD, device
<1>3. CASE ReadChainError
  BY <1>3 DEF ReadChainError, device
<1>4. CASE ReadSubIFD
  <2>1. Head(tsubs) \in Nat /\ Tail(tsubs) \in Seq(Nat)
    BY <1>4 DEF ReadSubIFD
  <2>2. PICK ifd : tcur' = Append(tcur, ifd) /\ ifd \in IFDs
    BY <1>4, <2>1, DecodedTyped, FailedTyped, FailedCases DEF ReadSubIFD
  <2>3. tcur' \in Seq(IFDs)
    BY <2>2
  <2> QED
    BY <1>4, <2>1, <2>3 DEF ReadSubIFD, device
<1>5. CASE AppendIFDList
  BY <1>5 DEF AppendIFDList, device
<1>6. CASE ReturnReader
  BY <1>6 DEF ReturnReader, device
<1>7. CASE UNCHANGED <<device, tvars>>
  BY <1>7 DEF device, tvars
<1> QED
  BY <1>1, <1>2, <1>3, <1>4, <1>5, <1>6, <1>7 DEF TNext

\* The traditional reader's variables have their types: a list of decoded IFDs, the chain's
\* and the sub-IFDs' offsets all words of the file, whatever the device delivers.
THEOREM ReaderTypeOK == ReaderSpec => []TTypeOK
<1>1. ReaderInit => TTypeOK
  BY TTypeInit DEF ReaderInit
<1> QED
  BY <1>1, TTypeNext, PTL DEF ReaderSpec

(***************************************************************************)
(* The places of the sub-IFDs.  While the list of an IFD is being built,   *)
(* what is in it and what is still to be read make up the SubIFD entry.    *)
(***************************************************************************)
InPlace(list, subs) == \A k \in 2 .. Len(list) : list[k].this \in {0, subs[k - 1]}

ListBuilt ==
    /\ tcur # <<>> /\ GetSubIFD(tcur[1]) \in Seq(Nat)
    /\ Len(tcur) + Len(tsubs) = 1 + Len(GetSubIFD(tcur[1]))
    /\ InPlace(tcur, GetSubIFD(tcur[1]))
    /\ \A j \in 1 .. Len(tsubs) : tsubs[j] = GetSubIFD(tcur[1])[Len(tcur) - 1 + j]

PlacesInv == SubIFDsKeepPlaces /\ (tpc = "subs" => ListBuilt)

LEMMA PlacesInit == ReaderInit => PlacesInv
  BY DEF ReaderInit, TInit, PlacesInv, SubIFDsKeepPlaces

\* One sub-IFD more.
LEMMA PlacesReadSubIFD ==
    ASSUME TTypeOK, PlacesInv, ReadSubIFD
    PROVE  PlacesInv'
<1> DEFINE o == Head(tsubs)
           subs == GetSubIFD(tcur[1])
<1>1. /\ tpc' = "subs" /\ tifd' = tifd /\ tsubs' = Tail(tsubs)
      /\ tcur \in Seq(IFDs) /\ tsubs \in Seq(Nat) /\ tsubs # <<>> /\ ListBuilt
  BY DEF ReadSubIFD, PlacesInv, TTypeOK
<1>2. PICK ifd : tcur' = Append(tcur, ifd) /\ ifd \in IFDs /\ ifd.this \in {0, o}
  <2>1. o \in Nat
    BY <1>1
  <2>2. \A got : DecodeIFD(file, o, got).this = o
    BY DEF DecodeIFD
  <2>3. NilIFD.this = 0 /\ BrokenIFD(o).this = o
    BY DEF NilIFD, BrokenIFD
  <2> HIDE DEF o
  <2> QED
    BY <2>1, <2>2, <2>3, DecodedTyped, FailedTyped, FailedCases DEF ReadSubIFD, o
<1>3. o = subs[Len(tcur)] /\ subs \in Seq(Nat) /\ Len(tcur) \in Nat \ {0}
  BY <1>1 DEF ListBuilt
<1>4. tcur' \in Seq(IFDs) /\ tcur'[1] = tcur[1] /\ Len(tcur') = Len(tcur) + 1
      /\ tcur'[Len(tcur) + 1] = ifd /\ \A k \in 1 .. Len(tcur) : tcur'[k] = tcur[k]
  BY <1>1, <1>2, <1>3
<1>5. Tail(tsubs) \in Seq(Nat) /\ Len(Tail(tsubs)) = Len(tsubs) - 1
      /\ \A j \in 1 .. Len(tsubs) - 1 : Tail(tsubs)[j] = tsubs[j + 1]
  BY <1>1
<1>6. GetSubIFD(tcur[1])' = subs
  BY <1>4
<1>7. InPlace(tcur', subs)
  <2> SUFFICES ASSUME NEW k \in 2 .. Len(tcur) + 1 PROVE tcur'[k].this \in {0, subs[k - 1]}
    BY <1>4 DEF InPlace
  <2>1. CASE k \in 2 .. Len(tcur)
    <3>1. tcur[k].this \in {0, subs[k - 1]}
      BY <1>1, <2>1 DEF ListBuilt, InPlace
    <3>2. tcur'[k] = tcur[k]
      BY <1>3, <1>4, <2>1
    <3> QED
      BY <3>1, <3>2
  <2>2. CASE k = Len(tcur) + 1
    <3>1. k - 1 = Len(tcur) /\ tcur'[k] = ifd
      BY <1>3, <1>4, <2>2
    <3> QED
      BY <1>2, <1>3, <3>1
  <2> QED
    BY <1>3, <2>1, <2>2
<1>8. \A j \in 1 .. Len(tsubs') : tsubs'[j] = subs[Len(tcur') - 1 + j]
  <2>0. Len(tsubs') = Len(tsubs) - 1 /\ \A j : Len(tcur') - 1 + j = Len(tcur) + 1 - 1 + j
    BY <1>1, <1>4, <1>5
  <2> SUFFICES ASSUME NEW j \in 1 .. Len(tsubs) - 1
               PROVE  tsubs'[j] = subs[Len(tcur) + 1 - 1 + j]
    BY <2>0
  <2>1. Tail(tsubs)[j] = tsubs[j + 1] /\ j + 1 \in 1 .. Len(tsubs)
    BY <1>5, <1>1
  <2>2. tsubs[j + 1] = subs[Len(tcur) - 1 + (j + 1)]
    BY <1>1, <2>1 DEF ListBuilt
  <2>3. Len(tcur) - 1 + (j + 1) = Len(tcur) + 1 - 1 + j
    BY <1>3
  <2> QED
    BY <1>1, <2>1, <2>2, <2>3
<1>9. Len(tcur') + Len(tsubs') = 1 + Len(subs)
  <2>1. Len(tcur) + Len(tsubs) = 1 + Len(subs)
    BY <1>1 DEF ListBuilt
  <2>2. Len(tcur') = Len(tcur) + 1 /\ Len(tsubs') = Len(tsubs) - 1 /\ Len(tsubs) \in Nat
    BY <1>1, <1>4, <1>5
  <2>3. Len(subs) \in Nat /\ Len(tcur) \in Nat
    BY <1>3
  <2> HIDE DEF subs, o
  <2> QED
    BY <2>1, <2>2, <2>3
<1>10. ListBuilt'
  BY <1>1, <1>3, <1>4, <1>6, <1>7, <1>8, <1>9 DEF ListBuilt, InPlace
<1> QED
  BY <1>1, <1>10 DEF PlacesInv, SubIFDsKeepPlaces

\* A list with nothing left to read goes to the end of the result.
LEMMA PlacesAppend ==
    ASSUME TTypeOK, PlacesInv, AppendIFDList
    PROVE  PlacesInv'
<1>1. tifd' = Append(tifd, tcur) /\ tifd \in Seq(Seq(IFDs)) /\ tcur \in Seq(IFDs)
      /\ tsubs = <<>> /\ tpc' = "ifd" /\ ListBuilt
  BY DEF AppendIFDList, PlacesInv, TTypeOK
<1>2. \A n \in DOMAIN tifd' : tifd'[n] = tcur \/ (n \in DOMAIN tifd /\ tifd'[n] = tifd[n])
  <2>1. DOMAIN tifd = 1 .. Len(tifd) /\ DOMAIN tifd' = 1 .. Len(tifd) + 1 /\ Len(tifd) \in Nat
    BY <1>1
  <2> QED
    BY <1>1, <2>1
<1>3. Len(tcur) = 1 + Len(GetSubIFD(tcur[1]))
  BY <1>1 DEF ListBuilt
<1>4. InPlace(tcur, GetSubIFD(tcur[1]))
  BY <1>1 DEF ListBuilt
<1> QED
  BY <1>1, <1>2, <1>3, <1>4 DEF PlacesInv, SubIFDsKeepPlaces, InPlace

LEMMA PlacesNext == TTypeOK /\ PlacesInv /\ [TNext]_<<device, tvars>> => PlacesInv'
<1> SUFFICES ASSUME TTypeOK, PlacesInv, [TNext]_<<device, tvars>> PROVE PlacesInv'
  OBVIOUS
<1>0. ASSUME tifd' = tifd, tpc' # "subs" PROVE PlacesInv'
  BY <1>0 DEF PlacesInv, SubIFDsKeepPlaces
<1>1. CASE ReadChainIFD
  <2>1. PICK got \in Deliveries(toff) : /\ tcur' = <<DecodeIFD(file, toff, got)>>
                                        /\ tsubs' = GetSubIFD(DecodeIFD(file, toff, got))
    BY <1>1 DEF ReadChainIFD
  <2> DEFINE ifd == DecodeIFD(file, toff, got)
  <2>2. GetSubIFD(ifd) \in Seq(Nat)
    BY DecodedTyped DEF TTypeOK
  <2> HIDE DEF ifd
  <2>3. tcur' = <<ifd>> /\ tsubs' = GetSubIFD(ifd) /\ tcur'[1] = ifd /\ Len(tcur') = 1
    BY <2>1 DEF ifd
  <2>4. GetSubIFD(tcur[1])' = GetSubIFD(ifd)
    BY <2>3
  <2>5. ListBuilt'
    BY <2>2, <2>3, <2>4 DEF ListBuilt, InPlace
  <2> QED
    BY <1>1, <2>5 DEF ReadChainIFD, PlacesInv, SubIFDsKeepPlaces
<1>2. CASE ReadSubIFD
  BY <1>2, PlacesReadSubIFD
<1>3. CASE AppendIFDList
  BY <1>3, PlacesAppend
<1>4. CASE ReadHeader \/ ReadChainError \/ ReturnReader
  BY <1>4, <1>0 DEF ReadHeader, ReadChainError, ReturnReader
<1>5. CASE UNCHANGED <<device, tvars>>
  BY <1>5 DEF device, tvars, PlacesInv, ListBuilt, InPlace, SubIFDsKeepPlaces
<1> QED
  BY <1>1, <1>2, <1>3, <1>4, <1>5 DEF TNext

\* The k-th sub-IFD of a list is the one that the k-th word of the SubIFD entry names, or
\* nothing, for every file and whatever reads fail: a failure never shifts the others.
THEOREM SubIFDsKeepPlacesThm == ReaderSpec => []SubIFDsKeepPlaces
<1>1. PlacesInv => SubIFDsKeepPlaces
  BY DEF PlacesInv
<1> QED
  BY PlacesInit, PlacesNext, ReaderTypeOK, <1>1, PTL DEF ReaderSpec

(***************************************************************************)
(* Where values come from.  An IFD is decoded in one step and moved about  *)
(* as it is, so that it is enough to look at what DecodeIFD returns and to *)
(* follow it into the list under construction and into the result.         *)
(***************************************************************************)
FromFile(b, o, e) ==
    \E i \in 1 .. EntryCount(b, o) :
        /\ e[1] = Entry(b, o, i).tag /\ e[2] = Entry(b, o, i).size
        /\ \A w \in 1 .. Len(e[3]) :
              e[3][w] \in IF Embedded(Entry(b, o, i)) THEN {Entry(b, o, i).offset}
                          ELSE {0, WordAt(b, Entry(b, o, i).offset + w - 1)}

IFDFromFile(b, ifd) == ifd.whole => \A e \in ifd.entries : FromFile(b, ifd.this, e)

ValuesInv ==
    /\ \A k \in DOMAIN tcur : IFDFromFile(file, tcur[k])
    /\ \A n \in DOMAIN tifd : \A k \in DOMAIN tifd[n] : IFDFromFile(file, tifd[n][k])

\* The words of one value.
LEMMA DataFromFile ==
    ASSUME NEW b, IsImage(b), NEW o, NEW i, NEW n,
           NEW w \in 1 .. Len(EntryData(b, Entry(b, o, i), n))
    PROVE  EntryData(b, Entry(b, o, i), n)[w] \in
             IF Embedded(Entry(b, o, i)) THEN {Entry(b, o, i).offset}
             ELSE {0, WordAt(b, Entry(b, o, i).offset + w - 1)}
<1> DEFINE e == Entry(b, o, i)
<1>1. e.size \in Nat
  BY EntryTyped
<1> HIDE DEF e
<1>2. CASE Embedded(e)
  BY <1>2 DEF EntryData, e
<1>3. CASE ~ Embedded(e)
  <2>1. EntryData(b, e, n) = [k \in 1 .. e.size |-> IF k <= n THEN WordAt(b, e.offset + k - 1) ELSE 0]
    BY <1>3 DEF EntryData
  <2>2. Len(EntryData(b, e, n)) = e.size
    BY <2>1, <1>1
  <2>3. w \in 1 .. e.size
    BY <2>2 DEF e
  <2> QED
    BY <1>3, <2>1, <2>3 DEF e
<1> QED
  BY <1>2, <1>3

LEMMA DecodedFromFile ==
    ASSUME NEW b, IsImage(b), NEW o, NEW got
    PROVE  IFDFromFile(b, DecodeIFD(b, o, got))
<1> DEFINE ifd == DecodeIFD(b, o, got)
<1>1. ifd.this = o
      /\ ifd.entries = {<<Entry(b, o, i).tag, Entry(b, o, i).size,
                          EntryData(b, Entry(b, o, i), got[i])>> : i \in EntryMap(b, o)}
  BY DEF DecodeIFD
<1> HIDE DEF ifd
<1>2. ASSUME NEW e \in ifd.entries PROVE FromFile(b, o, e)
  <2>1. PICK i \in EntryMap(b, o) :
          e = <<Entry(b, o, i).tag, Entry(b, o, i).size, EntryData(b, Entry(b, o, i), got[i])>>
    BY <1>1
  <2>2. i \in 1 .. EntryCount(b, o)
    BY DEF EntryMap
  <2>3. e[1] = Entry(b, o, i).tag /\ e[2] = Entry(b, o, i).size
        /\ e[3] = EntryData(b, Entry(b, o, i), got[i])
    BY <2>1
  <2>4. \A w \in 1 .. Len(e[3]) :
          e[3][w] \in IF Embedded(Entry(b, o, i)) THEN {Entry(b, o, i).offset}
                      ELSE {0, WordAt(b, Entry(b, o, i).offset + w - 1)}
    BY <2>3, DataFromFile
  <2> QED
    BY <2>2, <2>3, <2>4 DEF FromFile
<1> QED
  BY <1>1, <1>2 DEF IFDFromFile, ifd

LEMMA FailedFromFile ==
    ASSUME NEW b, NEW o
    PROVE  IFDFromFile(b, NilIFD) /\ IFDFromFile(b, BrokenIFD(o))
  BY DEF IFDFromFile, NilIFD, BrokenIFD

LEMMA ValuesInit == ReaderInit => ValuesInv
  BY DEF ReaderInit, TInit, ValuesInv

LEMMA ValuesNext == TTypeOK /\ ValuesInv /\ [TNext]_<<device, tvars>> => ValuesInv'
<1> SUFFICES ASSUME TTypeOK, ValuesInv, [TNext]_<<device, tvars>> PROVE ValuesInv'
  OBVIOUS
<1>0. IsImage(file) /\ tcur \in Seq(IFDs) /\ tifd \in Seq(Seq(IFDs))
  BY DEF TTypeOK
<1>1. CASE ReadChainIFD
  <2>1. PICK got : tcur' = <<DecodeIFD(file, toff, got)>>
    BY <1>1 DEF ReadChainIFD
  <2>2. IFDFromFile(file, DecodeIFD(file, toff, got))
    BY <1>0, DecodedFromFile
  <2>3. \A k \in DOMAIN tcur' : IFDFromFile(file, tcur'[k])
    BY <2>1, <2>2
  <2> QED
    BY <1>1, <2>3 DEF ReadChainIFD, ValuesInv, device
<1>2. CASE ReadSubIFD
  <2>1. PICK ifd : tcur' = Append(tcur, ifd) /\ IFDFromFile(file, ifd)
    BY <1>2, <1>0, DecodedFromFile, FailedFromFile, FailedCases DEF ReadSubIFD
  <2>2. \A k \in DOMAIN tcur' : tcur'[k] = ifd \/ (k \in DOMAIN tcur /\ tcur'[k] = tcur[k])
    BY <2>1, <1>0
  <2>3. \A k \in DOMAIN tcur' : IFDFromFile(file, tcur'[k])
    BY <2>1, <2>2 DEF ValuesInv
  <2> QED
    BY <1>2, <2>3 DEF ReadSubIFD, ValuesInv, device
<1>3. CASE AppendIFDList
  <2>1. \A n \in DOMAIN tifd' : tifd'[n] = tcur \/ (n \in DOMAIN tifd /\ tifd'[n] = tifd[n])
    BY <1>3, <1>0 DEF AppendIFDList
  <2>2. \A n \in DOMAIN tifd' : \A k \in DOMAIN tifd'[n] : IFDFromFile(file, tifd'[n][k])
    BY <2>1 DEF ValuesInv
  <2> QED
    BY <1>3, <2>2 DEF AppendIFDList, ValuesInv, device
<1>4. CASE ReadHeader \/ ReadChainError \/ ReturnReader
  BY <1>4 DEF ReadHeader, ReadChainError, ReturnReader, ValuesInv, device
<1>5. CASE UNCHANGED <<device, tvars>>
  BY <1>5 DEF device, tvars, ValuesInv
<1> QED
  BY <1>1, <1>2, <1>3, <1>4, <1>5 DEF TNext

\* Every word of a decoded value is the file's word at that place of the value, or a zero
\* that a short read left, for every file and whatever the device delivers.
THEOREM ValuesFromFileThm == ReaderSpec => []ValuesFromFile
<1>1. ValuesInv => ValuesFromFile
  BY DEF ValuesInv, ValuesFromFile, IFDFromFile, FromFile
<1> QED
  BY ValuesInit, ValuesNext, ReaderTypeOK, <1>1, PTL DEF ReaderSpec

(***************************************************************************)
(* Induction.  A set of naturals that holds zero and is closed under       *)
(* counting up is all of them; with it a function can be iterated, which   *)
(* is what the recursion that defines a chain needs to have a meaning.     *)
(***************************************************************************)
LEMMA SetInduction ==
    ASSUME NEW T \in SUBSET Nat, 0 \in T, \A n \in T : n + 1 \in T
    PROVE  T = Nat
<1> DEFINE M == Nat \ T
<1> SUFFICES ASSUME M # {} PROVE FALSE
  OBVIOUS
<1>1. PICK x \in M : \A y \in M : ~ (<<y, x>> \in OpToRel(<, Nat))
  <2>1. M \subseteq Nat
    OBVIOUS
  <2> HIDE DEF M
  <2> QED
    BY <2>1, NatLessThanWellFounded, WFMin
<1>2. \A y \in M : ~ (y < x)
  BY <1>1 DEF OpToRel
<1>3. x \in Nat /\ x # 0 /\ x - 1 \in Nat
  OBVIOUS
<1>4. x - 1 \in T
  BY <1>2, <1>3
<1> QED
  BY <1>3, <1>4

\* The first n steps of an iteration of F from a.
Iterates(S, F, a, n) ==
    {h \in [0 .. n -> S] : h[0] = a /\ \A k \in 0 .. n - 1 : h[k + 1] = F[h[k]]}

LEMMA IteratesExist ==
    ASSUME NEW S, NEW F \in [S -> S], NEW a \in S, NEW n \in Nat
    PROVE  \E h : h \in Iterates(S, F, a, n)
<1> DEFINE T == {m \in Nat : \E h : h \in Iterates(S, F, a, m)}
<1>1. 0 \in T
  <2>1. [k \in 0 .. 0 |-> a] \in Iterates(S, F, a, 0)
    BY DEF Iterates
  <2> QED
    BY <2>1
<1>2. ASSUME NEW m \in T PROVE m + 1 \in T
  <2>1. PICK h : h \in Iterates(S, F, a, m)
    OBVIOUS
  <2> DEFINE h1 == [k \in 0 .. m + 1 |-> IF k = m + 1 THEN F[h[m]] ELSE h[k]]
  <2>2. m \in Nat /\ h \in [0 .. m -> S] /\ h[0] = a /\ \A k \in 0 .. m - 1 : h[k + 1] = F[h[k]]
    BY <2>1 DEF Iterates
  <2>3. h1 \in [0 .. m + 1 -> S] /\ h1[0] = a
    BY <2>2
  <2>4. ASSUME NEW k \in 0 .. m + 1 - 1 PROVE h1[k + 1] = F[h1[k]]
    <3>1. CASE k = m
      BY <2>2, <3>1
    <3>2. CASE k # m
      BY <2>2, <3>2
    <3> QED
      BY <3>1, <3>2
  <2> HIDE DEF h1
  <2>5. h1 \in Iterates(S, F, a, m + 1)
    BY <2>3, <2>4 DEF Iterates
  <2> QED
    BY <2>2, <2>5
<1>3. T = Nat
  <2>1. T \in SUBSET Nat
    OBVIOUS
  <2> HIDE DEF T
  <2> QED
    BY <1>1, <1>2, <2>1, SetInduction
<1> QED
  BY <1>3

LEMMA IteratesAgree ==
    ASSUME NEW S, NEW F \in [S -> S], NEW a \in S, NEW n \in Nat, NEW m \in Nat,
           NEW h \in Iterates(S, F, a, n), NEW k \in Iterates(S, F, a, m),
           NEW i \in Nat, i <= n, i <= m
    PROVE  h[i] = k[i]
<1> DEFINE A == {j \in Nat : j <= n /\ j <= m => h[j] = k[j]}
<1>0. /\ h[0] = a /\ \A j \in 0 .. n - 1 : h[j + 1] = F[h[j]]
      /\ k[0] = a /\ \A j \in 0 .. m - 1 : k[j + 1] = F[k[j]]
  BY DEF Iterates
<1>1. 0 \in A
  BY <1>0
<1>2. ASSUME NEW j \in A PROVE j + 1 \in A
  BY <1>0
<1>3. A = Nat
  <2>1. A \in SUBSET Nat
    OBVIOUS
  <2> HIDE DEF A
  <2> QED
    BY <1>1, <1>2, <2>1, SetInduction
<1> QED
  BY <1>3

IterationOf(g, S, F, a) == g \in [Nat -> S] /\ g[0] = a /\ \A n \in Nat : g[n + 1] = F[g[n]]

\* A function can be iterated as often as one likes.
LEMMA IterationExists ==
    ASSUME NEW S, NEW F \in [S -> S], NEW a \in S
    PROVE  \E g : IterationOf(g, S, F, a)
<1> DEFINE upTo(n) == CHOOSE h : h \in Iterates(S, F, a, n)
           g == [n \in Nat |-> upTo(n)[n]]
<1>1. \A n \in Nat : upTo(n) \in Iterates(S, F, a, n)
  BY IteratesExist
<1> HIDE DEF upTo
<1>2. \A n \in Nat : upTo(n)[n] \in S
  BY <1>1 DEF Iterates
<1>3. upTo(0)[0] = a
  BY <1>1 DEF Iterates
<1>4. ASSUME NEW n \in Nat PROVE upTo(n + 1)[n + 1] = F[upTo(n)[n]]
  <2>1. upTo(n) \in Iterates(S, F, a, n) /\ upTo(n + 1) \in Iterates(S, F, a, n + 1)
    BY <1>1
  <2>2. upTo(n)[n] = upTo(n + 1)[n]
    BY <2>1, IteratesAgree
  <2>3. upTo(n + 1)[n + 1] = F[upTo(n + 1)[n]]
    BY <2>1 DEF Iterates
  <2> QED
    BY <2>2, <2>3
<1>5. IterationOf(g, S, F, a)
  BY <1>2, <1>3, <1>4 DEF IterationOf
<1> HIDE DEF g
<1> QED
  BY <1>5

(***************************************************************************)
(* The chain of a file.  Where it is good it visits different IFDs, so it  *)
(* has at most as many as the file has words before it ends or breaks.     *)
(***************************************************************************)
LEMMA LinkTyped ==
    ASSUME NEW f, IsImage(f), NEW o
    PROVE  Link(f, o) \in Nat
  BY WordTyped DEF Link

\* The chain's recursion.
LEMMA LinksUnfold ==
    ASSUME NEW f, IsImage(f)
    PROVE  /\ Links(f) \in [Nat -> Nat]
           /\ Links(f)[0] = FirstIFD(f)
           /\ \A n \in Nat : Links(f)[n + 1] = Link(f, Links(f)[n])
<1> DEFINE Step(g) == [n \in Nat |-> IF n = 0 THEN FirstIFD(f) ELSE Link(f, g[n - 1])]
           F == [o \in Nat |-> Link(f, o)]
<1>1. FirstIFD(f) \in Nat /\ F \in [Nat -> Nat]
  BY WordTyped, LinkTyped DEF FirstIFD
<1>2. PICK g : IterationOf(g, Nat, F, FirstIFD(f))
  <2> HIDE DEF F
  <2> QED
    BY <1>1, IterationExists
<1>3. /\ g \in [Nat -> Nat] /\ g[0] = FirstIFD(f)
       /\ \A n \in Nat : g[n + 1] = Link(f, g[n])
  BY <1>2 DEF IterationOf
<1>4. g = Step(g)
  <2>1. ASSUME NEW n \in Nat PROVE g[n] = Step(g)[n]
    <3>1. CASE n = 0
      BY <1>3, <3>1
    <3>2. CASE n # 0
      <4>1. n - 1 \in Nat /\ n = (n - 1) + 1
        BY <3>2
      <4>2. g[n] = Link(f, g[n - 1])
        BY <1>3, <4>1
      <4> QED
        BY <3>2, <4>2
    <3> QED
      BY <3>1, <3>2
  <2> QED
    BY <1>3, <2>1
<1>5. Links(f) = CHOOSE h : h = Step(h)
  BY DEF Links
<1>6. Links(f) = Step(Links(f))
  BY <1>4, <1>5
<1>7. \A n \in Nat : Links(f)[n] = IF n = 0 THEN FirstIFD(f) ELSE Link(f, Links(f)[n - 1])
  BY <1>6
<1>8. \A n \in Nat : Links(f)[n] \in Nat
  BY <1>1, <1>7, LinkTyped
<1>9. DOMAIN Links(f) = Nat /\ Links(f) = [n \in DOMAIN Links(f) |-> Links(f)[n]]
  BY <1>6
<1>10. Links(f) \in [Nat -> Nat]
  BY <1>8, <1>9
<1> QED
  BY <1>7, <1>10

\* A non-empty set of naturals has a smallest element.
LEMMA Smallest ==
    ASSUME NEW T \in SUBSET Nat, T # {}
    PROVE  \E x \in T : \A y \in T : x <= y
<1>1. PICK x \in T : \A y \in T : ~ (<<y, x>> \in OpToRel(<, Nat))
  BY NatLessThanWellFounded, WFMin
<1>2. \A y \in T : x <= y
  <2> SUFFICES ASSUME NEW y \in T PROVE x <= y
    OBVIOUS
  <2>1. ~ (y < x)
    BY <1>1 DEF OpToRel
  <2> QED
    BY <2>1
<1> QED
  BY <1>2

\* From two places with the same offset on, the chain is the same.
LEMMA SameFromHere ==
    ASSUME NEW f, IsImage(f), NEW i \in Nat, NEW j \in Nat, Links(f)[i] = Links(f)[j]
    PROVE  \A d \in Nat : Links(f)[i + d] = Links(f)[j + d]
<1> DEFINE L == Links(f)
           T == {d \in Nat : L[i + d] = L[j + d]}
<1>1. \A n \in Nat : L[n + 1] = Link(f, L[n])
  BY LinksUnfold
<1> HIDE DEF L
<1>2. 0 \in T
  BY DEF L
<1>3. ASSUME NEW d \in T PROVE d + 1 \in T
  <2>1. i + d \in Nat /\ j + d \in Nat /\ d \in Nat
    OBVIOUS
  <2>2. L[(i + d) + 1] = Link(f, L[i + d]) /\ L[(j + d) + 1] = Link(f, L[j + d])
    BY <1>1, <2>1
  <2>3. (i + d) + 1 = i + (d + 1) /\ (j + d) + 1 = j + (d + 1)
    BY <2>1
  <2> QED
    BY <2>2, <2>3
<1>4. T = Nat
  <2>1. T \in SUBSET Nat
    OBVIOUS
  <2> HIDE DEF T
  <2> QED
    BY <1>2, <1>3, <2>1, SetInduction
<1> QED
  BY <1>4 DEF L

Good(f, o) == o # 0 /\ Intact(f, o)

\* Good IFDs before one that is not are all different, and there are no more than words.
LEMMA GoodRun ==
    ASSUME NEW f, IsImage(f), NEW k \in Nat,
           \A i \in 0 .. k - 1 : Good(f, Links(f)[i]), ~ Good(f, Links(f)[k])
    PROVE  k <= f.len
<1> DEFINE L == Links(f)
           g == [i \in 0 .. k - 1 |-> L[i]]
<1> SUFFICES ASSUME f.len < k PROVE FALSE
  BY DEF IsImage
<1>1. f.len \in Nat /\ L \in [Nat -> Nat]
  BY LinksUnfold DEF IsImage
<1>2. \A i \in 0 .. k - 1 : L[i] \in 0 .. f.len - 1
  BY <1>1 DEF Good, Intact, DirectoryWithin
<1>3. /\ IsFiniteSet(0 .. k - 1) /\ Cardinality(0 .. k - 1) = k
      /\ IsFiniteSet(0 .. f.len - 1) /\ Cardinality(0 .. f.len - 1) = f.len
  <2>1. \A n \in Nat : IsFiniteSet(0 .. n - 1) /\ Cardinality(0 .. n - 1) = n
    <3> SUFFICES ASSUME NEW n \in Nat PROVE IsFiniteSet(0 .. n - 1) /\ Cardinality(0 .. n - 1) = n
      OBVIOUS
    <3>1. 0 \in Int /\ n - 1 \in Int
      OBVIOUS
    <3>2. /\ IsFiniteSet(0 .. n - 1)
          /\ Cardinality(0 .. n - 1) = IF 0 > n - 1 THEN 0 ELSE (n - 1) - 0 + 1
      BY <3>1, FS_Interval
    <3> QED
      BY <3>2
  <2> QED
    BY <1>1, <2>1
<1>4. g \in [0 .. k - 1 -> 0 .. f.len - 1]
  BY <1>2
<1>5. PICK x, y \in 0 .. k - 1 : x # y /\ g[x] = g[y]
  <2> HIDE DEF g
  <2> QED
    BY <1>3, <1>4, FS_PigeonHole
<1>6. PICK i, j \in 0 .. k - 1 : i < j /\ L[i] = L[j]
  BY <1>5
<1>7. L[i + (k - j)] = L[j + (k - j)]
  <2>1. i \in Nat /\ j \in Nat /\ k - j \in Nat
    OBVIOUS
  <2>2. \A d \in Nat : L[i + d] = L[j + d]
    BY <1>6, <2>1, SameFromHere
  <2> QED
    BY <2>1, <2>2
<1>8. i + (k - j) \in 0 .. k - 1 /\ j + (k - j) = k
  BY <1>6
<1> QED
  BY <1>7, <1>8

LEMMA ChainLengthExists ==
    ASSUME NEW f, IsImage(f)
    PROVE  LET n == ChainLength(f)
           IN  /\ n \in 1 .. f.len + 1
               /\ n = f.len + 1 \/ Links(f)[n] = 0
               /\ \A k \in 1 .. n - 1 : Links(f)[k] # 0
<1> DEFINE L == Links(f)
           T == {n \in 1 .. f.len + 1 : n = f.len + 1 \/ L[n] = 0}
           Is(n) == (n = f.len + 1 \/ L[n] = 0) /\ \A k \in 1 .. n - 1 : L[k] # 0
<1>1. f.len \in Nat
  BY DEF IsImage
<1>2. PICK n \in T : \A m \in T : n <= m
  <2>1. T \in SUBSET Nat /\ f.len + 1 \in T
    BY <1>1
  <2> HIDE DEF T
  <2> QED
    BY <2>1, Smallest
<1> HIDE DEF L
<1>3. n \in 1 .. f.len + 1 /\ Is(n)
  BY <1>1, <1>2
<1>4. ChainLength(f) = CHOOSE m \in 1 .. f.len + 1 : Is(m)
  BY DEF ChainLength, L
<1> HIDE DEF Is
<1>5. ChainLength(f) \in 1 .. f.len + 1 /\ Is(ChainLength(f))
  BY <1>3, <1>4
<1> QED
  BY <1>5 DEF Is, L

\* A chain of good IFDs that ends.
LEMMA ChainThatEnds ==
    ASSUME NEW f, IsImage(f), HeaderValid(f), NEW k \in Nat, Links(f)[k] = 0,
           \A i \in 0 .. k - 1 : Good(f, Links(f)[i])
    PROVE  ChainLength(f) = k /\ Openable(f)
<1> DEFINE L == Links(f)
           n == ChainLength(f)
<1>1. f.len \in Nat /\ L[0] # 0 /\ L \in [Nat -> Nat]
  <2>1. L \in [Nat -> Nat] /\ L[0] = WordAt(f, 1)
    BY LinksUnfold DEF FirstIFD
  <2>2. WordAt(f, 1) >= 2 /\ WordAt(f, 1) \in Nat
    BY WordTyped DEF HeaderValid, HeadSize
  <2>3. L[0] # 0
    <3> HIDE DEF L
    <3> QED
      BY <2>1, <2>2
  <2> QED
    BY <2>1, <2>3 DEF IsImage
<1>2. k <= f.len /\ k # 0
  BY <1>1, GoodRun DEF Good
<1>3. /\ n \in 1 .. f.len + 1 /\ (n = f.len + 1 \/ L[n] = 0)
      /\ \A j \in 1 .. n - 1 : L[j] # 0
  BY ChainLengthExists
<1> HIDE DEF n
<1>4. n = k
  <2>1. ~ n < k
    BY <1>1, <1>2, <1>3 DEF Good
  <2>2. ~ k < n
    BY <1>1, <1>2, <1>3
  <2> QED
    BY <1>3, <2>1, <2>2
<1>5. Acyclic(f)
  BY <1>2, <1>4 DEF Acyclic, n
<1>6. ~ Broken(f)
  <2> SUFFICES ASSUME NEW m \in DOMAIN Chain(f) PROVE Intact(f, Chain(f)[m])
    BY DEF Broken
  <2>1. m \in 1 .. k /\ Chain(f)[m] = L[m - 1]
    BY <1>4 DEF Chain, n
  <2>2. m - 1 \in 0 .. k - 1
    BY <2>1
  <2> QED
    BY <2>1, <2>2 DEF Good
<1> QED
  BY <1>4, <1>5, <1>6 DEF Openable, n

\* A chain that leads to a broken IFD.
LEMMA ChainThatBreaks ==
    ASSUME NEW f, IsImage(f), HeaderValid(f), NEW k \in Nat, 
           Links(f)[k] # 0, ~ Intact(f, Links(f)[k]),
           \A i \in 0 .. k - 1 : Good(f, Links(f)[i])
    PROVE  Broken(f)
<1> DEFINE L == Links(f)
           n == ChainLength(f)
<1>1. f.len \in Nat /\ L \in [Nat -> Nat]
  BY LinksUnfold DEF IsImage
<1>2. k <= f.len
  BY GoodRun DEF Good
<1>3. n \in 1 .. f.len + 1 /\ (n = f.len + 1 \/ L[n] = 0)
  BY ChainLengthExists
<1> HIDE DEF n
<1>4. k + 1 \in 1 .. n
  <2> SUFFICES ASSUME n <= k PROVE FALSE
    BY <1>3
  <2>1. n \in Nat /\ L[n] = 0
    BY <1>1, <1>2, <1>3
  <2>2. n = k \/ n \in 0 .. k - 1
    BY <2>1
  <2> QED
    BY <2>1, <2>2 DEF Good
<1>5. Chain(f) = [m \in 1 .. n |-> L[m - 1]]
  BY DEF Chain, n
<1>6. k + 1 \in DOMAIN Chain(f) /\ Chain(f)[k + 1] = L[k]
  BY <1>4, <1>5
<1> QED
  BY <1>6 DEF Broken

(***************************************************************************)
(* The abstract specification's own copy of the definitions says the same  *)
(* of the file as the reader's.                                            *)
(***************************************************************************)
LEMMA OpeningLinks ==
    ASSUME NEW f
    PROVE  Opening!Links(f) = Links(f)
  BY DEF Links, Opening!Links, Opening!FirstIFD, FirstIFD, Opening!WordAt, WordAt, Opening!Link,
     Link, Opening!DirectoryWithin, DirectoryWithin, Opening!NextPos, NextPos,
     Opening!EntryCount, EntryCount, Opening!EntrySize, EntrySize

LEMMA OpeningEntry ==
    ASSUME NEW b, NEW o, NEW i
    PROVE  Opening!Entry(b, o, i) = Entry(b, o, i)
  BY DEF Opening!Entry, Entry, Opening!EntryPos, EntryPos, Opening!WordAt, WordAt,
     Opening!EntrySize, EntrySize

LEMMA OpeningIntact ==
    ASSUME NEW f, NEW o
    PROVE  Opening!Intact(f, o) = Intact(f, o)
  BY OpeningEntry
  DEF Intact, Opening!Intact, Opening!WordAt, WordAt, Opening!DirectoryWithin,
      DirectoryWithin, Opening!NextPos, NextPos, Opening!EntryCount, EntryCount,
      Opening!EntrySize, EntrySize, Opening!EntryMap, EntryMap, Opening!Embedded, Embedded,
      Opening!Threshold, Threshold, HeadSize, Opening!HeadSize

LEMMA OpeningChain ==
    ASSUME NEW f
    PROVE  Opening!Chain(f) = Chain(f) /\ Opening!Acyclic(f) = Acyclic(f)
  BY OpeningLinks
  DEF Chain, Opening!Chain, ChainLength, Opening!ChainLength, Acyclic, Opening!Acyclic

LEMMA OpeningBroken ==
    ASSUME NEW f
    PROVE  Opening!Broken(f) = Broken(f) /\ Opening!Openable(f) = Openable(f)
<1>1. Opening!HeaderValid(f) = HeaderValid(f)
  BY DEF Opening!HeaderValid, HeaderValid, Opening!WordAt, WordAt, HeadSize, Opening!HeadSize
<1>2. Opening!Broken(f) = Broken(f)
  BY <1>1, OpeningChain, OpeningIntact DEF Broken, Opening!Broken
<1> QED
  BY <1>2, OpeningChain DEF Openable, Opening!Openable

LEMMA OpeningDecode ==
    ASSUME NEW b, NEW o, NEW got
    PROVE  Opening!DecodeIFD(b, o, got) = DecodeIFD(b, o, got)
  BY DEF Opening!Entry, Entry, Opening!EntryPos, EntryPos, DecodeIFD, Opening!DecodeIFD,
     Opening!EntryMap, EntryMap, Opening!WordAt, WordAt, Opening!EntryData, EntryData,
     Opening!NextPos, NextPos, Opening!EntryCount, EntryCount, Opening!EntrySize, EntrySize,
     Opening!Embedded, Embedded, Opening!Threshold, Threshold

LEMMA OpeningIFDs ==
    ASSUME NEW f
    PROVE  Opening!OpenedIFDs(f) = OpenedIFDs(f)
<1>1. \A o : Opening!Complete(f, o) = Complete(f, o)
  BY OpeningEntry
  DEF Complete, Opening!Complete, Opening!EntryMap, EntryMap, Opening!EntryCount, EntryCount,
      Opening!WordAt, WordAt
<1>2. \A o : Opening!SubIFDAt(f, o) = SubIFDAt(f, o)
  BY <1>1, OpeningDecode, OpeningIntact DEF SubIFDAt, Opening!SubIFDAt, NilIFD, Opening!NilIFD
<1>3. \A ifd : Opening!GetSubIFD(ifd) = GetSubIFD(ifd)
  BY DEF GetSubIFD, Opening!GetSubIFD
<1>4. \A o : Opening!IFDListAt(f, o) = IFDListAt(f, o)
  BY <1>1, <1>2, <1>3, OpeningDecode DEF IFDListAt, Opening!IFDListAt
<1> QED
  BY <1>4, OpeningChain DEF OpenedIFDs, Opening!OpenedIFDs

(***************************************************************************)
(* A reliable device: what is read is what the file holds.                 *)
(***************************************************************************)
LEMMA CompleteDelivery ==
    ASSUME TTypeOK, Reliable, NEW o \in Nat, NEW got \in Deliveries(o)
    PROVE  DecodeIFD(file, o, got) = DecodeIFD(file, o, Complete(file, o))
<1> DEFINE e(i) == Entry(file, o, i)
<1>0. IsImage(file) /\ file.len \in Nat
  BY DEF TTypeOK, IsImage
<1>1. ASSUME NEW i \in EntryMap(file, o)
      PROVE  EntryData(file, e(i), got[i]) = EntryData(file, e(i), file.len)
  <2>1. e(i).size \in Nat /\ e(i).offset \in Nat
    BY <1>0, EntryTyped
  <2> HIDE DEF e
  <2>2. CASE Embedded(e(i))
    BY <2>2 DEF EntryData
  <2>3. CASE ~ Embedded(e(i)) /\ got[i] = file.len
    BY <2>3
  <2>4. CASE ~ Embedded(e(i)) /\ got[i] \in ReadCounts(e(i).offset, e(i).size)
    <3>1. got[i] = Least(e(i).size, file.len - e(i).offset)
      BY <2>4 DEF ReadCounts, Reliable
    <3>2. ASSUME NEW k \in 1 .. e(i).size
          PROVE  (IF k <= got[i] THEN WordAt(file, e(i).offset + k - 1) ELSE 0)
                   = IF k <= file.len THEN WordAt(file, e(i).offset + k - 1) ELSE 0
      <4>1. CASE k <= got[i]
        BY <4>1, <3>1, <2>1, <1>0 DEF Least
      <4>2. CASE ~ k <= got[i]
        <5>1. e(i).offset + k - 1 >= file.len
          BY <4>2, <3>1, <2>1, <1>0 DEF Least
        <5>2. WordAt(file, e(i).offset + k - 1) = 0
          BY <5>1, <2>1, <1>0 DEF WordAt
        <5> QED
          BY <4>2, <5>2
      <4> QED
        BY <4>1, <4>2
    <3> QED
      BY <2>4, <3>2 DEF EntryData
  <2>5. Embedded(e(i)) \/ got[i] = file.len \/ got[i] \in ReadCounts(e(i).offset, e(i).size)
    BY DEF Deliveries, e
  <2> QED
    BY <2>2, <2>3, <2>4, <2>5
<1>2. \A i \in EntryMap(file, o) : Complete(file, o)[i] = file.len
  BY DEF Complete
<1> QED
  BY <1>1, <1>2 DEF DecodeIFD

LEMMA ReadableIsIntact ==
    ASSUME TTypeOK, NEW o
    PROVE  Readable(o) <=> Intact(file, o)
<1>1. IsImage(file) /\ file.len \in Nat
  BY DEF TTypeOK, IsImage
<1>2. \A i : Entry(file, o, i).offset \in Nat
  BY <1>1, EntryTyped
<1>3. \A i : LET e == Entry(file, o, i)
             IN  ValueReadable(e) <=> Embedded(e) \/ e.offset \in HeadSize .. file.len - 1
  BY <1>1, <1>2 DEF ValueReadable, HeadSize
<1> QED
  BY <1>3 DEF Readable, Intact

(***************************************************************************)
(* A list under construction: what it has so far is the beginning of what  *)
(* the file offers at o, with the gaps a reader leaves made one, and the   *)
(* offsets to do are the rest of the SubIFD entry.                         *)
(***************************************************************************)
Settled(ifd) == IF ifd.whole THEN ifd ELSE NilIFD

MainIFD(f, o) == DecodeIFD(f, o, Complete(f, o))

Building(f, o, list, todo) ==
    LET subs == GetSubIFD(MainIFD(f, o))
    IN  /\ Len(list) >= 1 /\ list[1] = MainIFD(f, o)
        /\ Len(list) + Len(todo) = 1 + Len(subs)
        /\ \A k \in 2 .. Len(list) : Settled(list[k]) = SubIFDAt(f, subs[k - 1])
        /\ \A j \in 1 .. Len(todo) : todo[j] = subs[Len(list) - 1 + j]

\* What an IFD lists are words of the file.
LEMMA MainTyped ==
    ASSUME NEW f, IsImage(f), NEW o \in Nat
    PROVE  /\ MainIFD(f, o) \in IFDs /\ MainIFD(f, o).whole
           /\ GetSubIFD(MainIFD(f, o)) \in Seq(Nat)
<1>1. MainIFD(f, o) \in IFDs /\ \A e \in MainIFD(f, o).entries : Len(e[3]) >= e[2]
  BY IFDTyped DEF MainIFD
<1>2. MainIFD(f, o).whole
  BY DEF MainIFD, DecodeIFD
<1> QED
  BY <1>1, <1>2, SubIFDOffsetsTyped

LEMMA BuildingStarts ==
    ASSUME NEW f, IsImage(f), NEW o \in Nat
    PROVE  Building(f, o, <<MainIFD(f, o)>>, GetSubIFD(MainIFD(f, o)))
<1>1. GetSubIFD(MainIFD(f, o)) \in Seq(Nat)
  BY MainTyped
<1> QED
  BY <1>1 DEF Building

\* The next sub-IFD, or the gap for it.
LEMMA BuildingGoesOn ==
    ASSUME NEW f, IsImage(f), NEW o \in Nat, NEW list \in Seq(IFDs), NEW todo \in Seq(Nat),
           Building(f, o, list, todo), todo # <<>>,
           NEW ifd \in IFDs, Settled(ifd) = SubIFDAt(f, Head(todo))
    PROVE  Building(f, o, Append(list, ifd), Tail(todo))
<1> DEFINE main == MainIFD(f, o)
           subs == GetSubIFD(main)
           more == Append(list, ifd)
           rest == Tail(todo)
           n    == Len(list)
           m    == Len(todo)
<1>1. Len(subs) \in Nat
  <2>1. subs \in Seq(Nat)
    BY MainTyped
  <2> HIDE DEF subs
  <2> QED
    BY <2>1
<1>2. /\ n >= 1 /\ list[1] = main /\ n + m = 1 + Len(subs)
      /\ \A k \in 2 .. n : Settled(list[k]) = SubIFDAt(f, subs[k - 1])
      /\ \A j \in 1 .. m : todo[j] = subs[n - 1 + j]
  BY DEF Building
<1>3. /\ n \in Nat /\ m \in Nat /\ m >= 1 /\ Head(todo) = todo[1] /\ Len(rest) = m - 1
      /\ \A j \in 1 .. m - 1 : rest[j] = todo[j + 1]
  OBVIOUS
<1>4. Len(more) = n + 1 /\ more[n + 1] = ifd /\ \A k \in 1 .. n : more[k] = list[k]
  OBVIOUS
<1>5. Building(f, o, more, rest) <=>
        /\ Len(more) >= 1 /\ more[1] = main /\ Len(more) + Len(rest) = 1 + Len(subs)
        /\ \A k \in 2 .. Len(more) : Settled(more[k]) = SubIFDAt(f, subs[k - 1])
        /\ \A j \in 1 .. Len(rest) : rest[j] = subs[Len(more) - 1 + j]
  BY DEF Building
<1> HIDE DEF main, subs, more, rest, n, m
<1>6. Head(todo) = subs[n]
  <2>1. 1 \in 1 .. m /\ n - 1 + 1 = n
    BY <1>3
  <2> QED
    BY <1>2, <1>3, <2>1
<1>7. ASSUME NEW k \in 2 .. n + 1 PROVE Settled(more[k]) = SubIFDAt(f, subs[k - 1])
  <2>1. CASE k \in 2 .. n
    BY <1>2, <1>3, <1>4, <2>1
  <2>2. CASE k = n + 1
    <3>1. k - 1 = n /\ more[k] = ifd
      BY <1>3, <1>4, <2>2
    <3> QED
      BY <1>6, <3>1
  <2> QED
    BY <1>3, <2>1, <2>2
<1>8. ASSUME NEW j \in 1 .. m - 1 PROVE rest[j] = subs[n + 1 - 1 + j]
  <2>1. j + 1 \in 1 .. m /\ n - 1 + (j + 1) = n + 1 - 1 + j
    BY <1>3
  <2>2. todo[j + 1] = subs[n - 1 + (j + 1)]
    BY <1>2, <2>1
  <2> QED
    BY <1>3, <2>1, <2>2
<1>9. more[1] = main
  BY <1>2, <1>3, <1>4
<1>10. (n + 1) + (m - 1) = 1 + Len(subs)
  <2>1. n + m = 1 + Len(subs) /\ n \in Nat /\ m \in Nat
    BY <1>2, <1>3
  <2> QED
    BY <1>1, <2>1
<1>11. Building(f, o, more, rest)
  BY <1>3, <1>4, <1>5, <1>7, <1>8, <1>9, <1>10
<1> QED
  BY <1>11 DEF more, rest

\* A list with nothing left to do is what the file offers.
LEMMA BuildingDone ==
    ASSUME NEW f, IsImage(f), NEW o \in Nat, NEW list \in Seq(IFDs), Building(f, o, list, <<>>)
    PROVE  [k \in DOMAIN list |-> Settled(list[k])] = IFDListAt(f, o)
<1> DEFINE main == MainIFD(f, o)
           subs == GetSubIFD(main)
           rest == [k \in DOMAIN subs |-> SubIFDAt(f, subs[k])]
<1>1. main.whole /\ subs \in Seq(Nat) /\ list[1] = main /\ Len(list) = 1 + Len(subs)
  BY MainTyped DEF Building
<1>2. \A k \in 2 .. Len(list) : Settled(list[k]) = SubIFDAt(f, subs[k - 1])
  BY DEF Building
<1>3. IFDListAt(f, o) = <<main>> \o rest
  BY DEF IFDListAt, MainIFD
<1>4. Settled(main) = main
  BY <1>1 DEF Settled
<1> HIDE DEF main
<1>5. Len(rest) = Len(subs) /\ DOMAIN rest = 1 .. Len(subs)
  BY <1>1
<1>6. \A k \in 1 .. Len(subs) : rest[k] = SubIFDAt(f, subs[k])
  BY <1>1
<1>7. rest \in Seq({rest[k] : k \in 1 .. Len(subs)})
  <2>1. rest = [k \in 1 .. Len(subs) |-> rest[k]] /\ Len(subs) \in Nat
    BY <1>1, <1>5
  <2> QED
    BY <2>1
<1> HIDE DEF subs, rest
<1>8. /\ DOMAIN (<<main>> \o rest) = 1 .. 1 + Len(subs)
      /\ (<<main>> \o rest)[1] = main
      /\ \A k \in 2 .. 1 + Len(subs) : (<<main>> \o rest)[k] = rest[k - 1]
  BY <1>1, <1>5, <1>7
<1>9. ASSUME NEW k \in 1 .. Len(list) PROVE Settled(list[k]) = (<<main>> \o rest)[k]
  <2>1. CASE k = 1
    BY <2>1, <1>1, <1>4, <1>8
  <2>2. CASE k # 1
    <3>1. k \in 2 .. Len(list) /\ k - 1 \in 1 .. Len(subs)
      BY <1>1, <2>2
    <3> QED
      BY <3>1, <1>1, <1>2, <1>6, <1>8
  <2> QED
    BY <2>1, <2>2
<1>10. DOMAIN list = 1 .. Len(list) /\ Len(list) = 1 + Len(subs)
  BY <1>1
<1>11. [k \in DOMAIN list |-> Settled(list[k])] = <<main>> \o rest
  <2>1. <<main>> \o rest = [k \in 1 .. 1 + Len(subs) |-> (<<main>> \o rest)[k]]
    BY <1>1, <1>5, <1>7
  <2> QED
    BY <2>1, <1>9, <1>10
<1> QED
  BY <1>3, <1>11

(***************************************************************************)
(* The inductive invariant: the result so far is what the file offers at   *)
(* the first places of the chain.                                          *)
(***************************************************************************)
Offered(o, list) ==
    /\ Good(file, o)
    /\ [k \in DOMAIN list |-> Settled(list[k])] = IFDListAt(file, o)

ListInv(o) == Good(file, o) /\ Building(file, o, tcur, tsubs)

OpenInv ==
    /\ tpc \in {"idle", "header"} => tifd = <<>>
    /\ tpc \in {"ifd", "subs", "done"} => HeaderValid(file)
    /\ \A n \in 1 .. Len(tifd) : Offered(Links(file)[n - 1], tifd[n])
    /\ tpc \in {"ifd", "done"} => toff = Links(file)[Len(tifd)]
    /\ tpc = "done" => toff = 0
    /\ tpc = "subs" => toff = Links(file)[Len(tifd) + 1] /\ ListInv(Links(file)[Len(tifd)])
    /\ tpc = "err" => Broken(file)

\* Where the walk has got to, all links before are to good IFDs.
LEMMA WalkedGood ==
    ASSUME TTypeOK, OpenInv
    PROVE  /\ Len(tifd) \in Nat
           /\ \A i \in 0 .. Len(tifd) - 1 : Good(file, Links(file)[i])
<1>1. Len(tifd) \in Nat
  BY DEF TTypeOK
<1>2. ASSUME NEW i \in 0 .. Len(tifd) - 1 PROVE Good(file, Links(file)[i])
  <2>1. i + 1 \in 1 .. Len(tifd) /\ (i + 1) - 1 = i
    BY <1>1
  <2> QED
    BY <2>1 DEF OpenInv, Offered
<1> QED
  BY <1>1, <1>2

LEMMA OpenInvInit == TInit /\ tpc \in {"idle", "header"} => OpenInv
  BY DEF TInit, OpenInv

LEMMA OpenReadHeader ==
    ASSUME TTypeOK, Reliable, OpenInv, ReadHeader
    PROVE  OpenInv'
<1>1. PICK n \in ReadCounts(0, HeadSize) :
        IF HeaderValid(file) /\ n = HeadSize
        THEN tpc' = "ifd" /\ toff' = FirstIFD(file)
        ELSE tpc' = "err" /\ UNCHANGED toff
  BY DEF ReadHeader
<1>2. tifd' = <<>> /\ file' = file /\ IsImage(file) /\ file.len \in Nat
  BY DEF ReadHeader, OpenInv, device, TTypeOK, IsImage
<1>3. CASE HeaderValid(file) /\ n = HeadSize
  <2>1. toff' = Links(file)[0]
    BY <1>1, <1>2, <1>3, LinksUnfold
  <2> QED
    BY <1>1, <1>2, <1>3, <2>1 DEF OpenInv
<1>4. CASE ~ (HeaderValid(file) /\ n = HeadSize)
  <2>1. n = Least(HeadSize, file.len - 0)
    BY DEF ReadCounts, Reliable
  <2>2. ~ HeaderValid(file)
    BY <1>2, <1>4, <2>1 DEF Least, HeaderValid, WordAt, HeadSize
  <2> QED
    BY <1>1, <1>2, <1>4, <2>2 DEF OpenInv, Broken
<1> QED
  BY <1>3, <1>4

LEMMA OpenReadChainIFD ==
    ASSUME TTypeOK, Reliable, OpenInv, ReadChainIFD
    PROVE  OpenInv'
<1> DEFINE ifd == MainIFD(file, toff)
<1>1. /\ IsImage(file) /\ file' = file /\ tifd' = tifd /\ tpc' = "subs" /\ HeaderValid(file)
      /\ toff \in Nat /\ toff = Links(file)[Len(tifd)] /\ Len(tifd) \in Nat
      /\ \A n \in 1 .. Len(tifd) : Offered(Links(file)[n - 1], tifd[n])
  BY DEF ReadChainIFD, OpenInv, device, TTypeOK
<1>2. tcur' = <<ifd>> /\ toff' = ifd.next /\ tsubs' = GetSubIFD(ifd)
  BY <1>1, CompleteDelivery DEF ReadChainIFD, MainIFD
<1>3. Good(file, toff)
  BY ReadableIsIntact DEF ReadChainIFD, Good
<1>4. ifd.next = Link(file, toff)
  BY <1>3 DEF MainIFD, DecodeIFD, Link, Good, Intact
<1>5. toff' = Links(file)[Len(tifd) + 1]
  BY <1>1, <1>2, <1>4, LinksUnfold
<1>6. Building(file, toff, tcur', tsubs')
  BY <1>1, <1>2, BuildingStarts
<1> HIDE DEF ifd
<1> QED
  BY <1>1, <1>3, <1>5, <1>6 DEF OpenInv, ListInv, Offered

LEMMA OpenReadSubIFD ==
    ASSUME TTypeOK, Reliable, OpenInv, ReadSubIFD
    PROVE  OpenInv'
<1> DEFINE o    == Head(tsubs)
           from == Links(file)[Len(tifd)]
<1>1. /\ IsImage(file) /\ file' = file /\ tifd' = tifd /\ tpc' = "subs" /\ tpc = "subs"
      /\ toff' = toff /\ tcur \in Seq(IFDs) /\ tsubs \in Seq(Nat) /\ tsubs # <<>>
      /\ tsubs' = Tail(tsubs) /\ ListInv(from) /\ Len(tifd) \in Nat
  BY DEF ReadSubIFD, OpenInv, device, TTypeOK
<1>2. o \in Nat /\ from \in Nat
  <2>1. from \in Nat
    <3>1. Links(file) \in [Nat -> Nat]
      BY <1>1, LinksUnfold
    <3> QED
      BY <1>1, <3>1
  <2>2. Head(tsubs) \in Nat
    <3>1. tsubs \in Seq(Nat) /\ tsubs # <<>>
      BY <1>1
    <3> QED
      BY <3>1
  <2> QED
    BY <2>1, <2>2
<1>3. PICK ifd \in IFDs : tcur' = Append(tcur, ifd) /\ Settled(ifd) = SubIFDAt(file, o)
  <2>1. CASE o # 0 /\ Readable(o)
    <3>1. PICK got \in Deliveries(o) : tcur' = Append(tcur, DecodeIFD(file, o, got))
      BY <2>1 DEF ReadSubIFD, MayFail, Reliable
    <3>2. DecodeIFD(file, o, got) = MainIFD(file, o)
      BY <1>2, CompleteDelivery DEF MainIFD
    <3>3. MainIFD(file, o) \in IFDs /\ Settled(MainIFD(file, o)) = MainIFD(file, o)
      BY <1>1, <1>2, MainTyped DEF Settled
    <3>4. SubIFDAt(file, o) = MainIFD(file, o)
      BY <2>1, ReadableIsIntact DEF SubIFDAt, MainIFD
    <3> QED
      BY <3>1, <3>2, <3>3, <3>4
  <2>2. CASE ~ (o # 0 /\ Readable(o))
    <3>1. tcur' = Append(tcur, BrokenIFD(o)) \/ tcur' = Append(tcur, NilIFD)
      BY <2>2, FailedCases DEF ReadSubIFD
    <3>2. SubIFDAt(file, o) = NilIFD
      BY <2>2, ReadableIsIntact DEF SubIFDAt
    <3>3. Settled(BrokenIFD(o)) = NilIFD /\ Settled(NilIFD) = NilIFD
      BY DEF Settled, NilIFD, BrokenIFD
    <3>4. BrokenIFD(o) \in IFDs /\ NilIFD \in IFDs
      BY <1>2, FailedTyped
    <3> QED
      BY <3>1, <3>2, <3>3, <3>4
  <2> QED
    BY <2>1, <2>2
<1>4. ListInv(from)'
  <2>1. Building(file, from, tcur', tsubs')
    BY <1>1, <1>2, <1>3, BuildingGoesOn DEF ListInv
  <2> QED
    BY <1>1, <2>1 DEF ListInv
<1>5. /\ HeaderValid(file) /\ toff = Links(file)[Len(tifd) + 1]
      /\ \A n \in 1 .. Len(tifd) : Offered(Links(file)[n - 1], tifd[n])
  BY <1>1 DEF OpenInv
<1> HIDE DEF from
<1> QED
  BY <1>1, <1>4, <1>5 DEF OpenInv, Offered, from

LEMMA OpenAppend ==
    ASSUME TTypeOK, OpenInv, AppendIFDList
    PROVE  OpenInv'
<1>1. /\ file' = file /\ tifd' = Append(tifd, tcur) /\ tpc' = "ifd" /\ toff' = toff
      /\ HeaderValid(file) /\ tsubs = <<>> /\ IsImage(file) /\ tifd \in Seq(Seq(IFDs))
      /\ tcur \in Seq(IFDs)
      /\ ListInv(Links(file)[Len(tifd)]) /\ toff = Links(file)[Len(tifd) + 1]
      /\ \A n \in 1 .. Len(tifd) : Offered(Links(file)[n - 1], tifd[n])
  BY DEF AppendIFDList, OpenInv, device, TTypeOK
<1>2. Offered(Links(file)[Len(tifd)], tcur)
  <2>1. Links(file)[Len(tifd)] \in Nat
    BY <1>1, LinksUnfold
  <2> QED
    BY <1>1, <2>1, BuildingDone DEF Offered, ListInv
<1>3. /\ Len(tifd) \in Nat /\ Len(tifd') = Len(tifd) + 1 /\ tifd'[Len(tifd) + 1] = tcur
      /\ \A n \in 1 .. Len(tifd) : tifd'[n] = tifd[n]
  BY <1>1
<1>4. \A n \in 1 .. Len(tifd') : Offered(Links(file)[n - 1], tifd'[n])
  <2> SUFFICES ASSUME NEW n \in 1 .. Len(tifd) + 1 PROVE Offered(Links(file)[n - 1], tifd'[n])
    BY <1>3
  <2>1. CASE n \in 1 .. Len(tifd)
    BY <1>1, <1>3, <2>1
  <2>2. CASE n = Len(tifd) + 1
    <3>1. n - 1 = Len(tifd)
      BY <1>3, <2>2
    <3> QED
      BY <1>2, <1>3, <2>2, <3>1
  <2> QED
    BY <1>3, <2>1, <2>2
<1> QED
  BY <1>1, <1>3, <1>4 DEF OpenInv, Offered

LEMMA OpenError ==
    ASSUME TTypeOK, Reliable, OpenInv, ReadChainError
    PROVE  OpenInv'
<1>1. /\ tpc = "ifd" /\ toff # 0 /\ ~ Readable(toff) /\ tpc' = "err"
      /\ file' = file /\ tifd' = tifd /\ IsImage(file)
  BY DEF ReadChainError, MayFail, Reliable, device, TTypeOK
<1>2. HeaderValid(file) /\ toff = Links(file)[Len(tifd)] /\ ~ Intact(file, toff)
  BY <1>1, ReadableIsIntact DEF OpenInv
<1>3. Broken(file)
  BY <1>1, <1>2, WalkedGood, ChainThatBreaks
<1> QED
  BY <1>1, <1>3 DEF OpenInv, Offered

LEMMA OpenInvNext ==
    ASSUME TTypeOK, Reliable, OpenInv, [TNext]_<<device, tvars>>
    PROVE  OpenInv'
<1>1. CASE ReturnReader
  BY <1>1 DEF ReturnReader, OpenInv, Offered, device
<1>2. CASE UNCHANGED <<device, tvars>>
  BY <1>2 DEF device, tvars, OpenInv, Offered, ListInv
<1> QED
  BY <1>1, <1>2, OpenReadHeader, OpenReadChainIFD, OpenReadSubIFD, OpenAppend, OpenError DEF TNext

(***************************************************************************)
(* Refinement.                                                             *)
(***************************************************************************)
\* The walk that ends has read the whole chain.
LEMMA WalkEnds ==
    ASSUME TTypeOK, OpenInv, tpc \in {"ifd", "done"}, toff = 0
    PROVE  Openable(file) /\ Opened(tifd) = OpenedIFDs(file)
<1>1. /\ IsImage(file) /\ HeaderValid(file) /\ Links(file)[Len(tifd)] = 0
      /\ tifd \in Seq(Seq(IFDs)) /\ Len(tifd) \in Nat
      /\ \A n \in 1 .. Len(tifd) : Offered(Links(file)[n - 1], tifd[n])
  BY DEF OpenInv, TTypeOK
<1>2. ChainLength(file) = Len(tifd) /\ Openable(file)
  BY <1>1, WalkedGood, ChainThatEnds
<1>3. Chain(file) = [n \in 1 .. Len(tifd) |-> Links(file)[n - 1]]
  BY <1>2 DEF Chain
<1>4. OpenedIFDs(file) = [n \in 1 .. Len(tifd) |-> IFDListAt(file, Links(file)[n - 1])]
  BY <1>3 DEF OpenedIFDs
<1>5. Opened(tifd) = [n \in 1 .. Len(tifd) |-> [k \in DOMAIN tifd[n] |-> Settled(tifd[n][k])]]
  BY <1>1 DEF Opened, Settled
<1> QED
  BY <1>1, <1>2, <1>4, <1>5 DEF Offered

\* A step of the reader is a step of the promise, or changes nothing the promise speaks of.
LEMMA StepOpens ==
    ASSUME TTypeOK, Reliable, OpenInv, [TNext]_<<device, tvars>>
    PROVE  Opening!OpenNext \/ UNCHANGED Opening!openVars
<1> DEFINE status == CASE tpc = "done" -> "opened" [] tpc = "err" -> "refused" [] OTHER -> "opening"
           ifds   == IF tpc = "done" THEN Opened(tifd) ELSE <<>>
<1> USE DEF Opening!openVars
<1>1. CASE ReturnReader
  <2>1. tpc = "ifd" /\ toff = 0 /\ tpc' = "done" /\ file' = file /\ tifd' = tifd
    BY <1>1 DEF ReturnReader, device
  <2>2. Openable(file) /\ Opened(tifd) = OpenedIFDs(file)
    BY <2>1, WalkEnds
  <2>3. Opening!Openable(file) /\ Opening!OpenedIFDs(file) = Opened(tifd)
    BY <2>2, OpeningBroken, OpeningIFDs
  <2>4. Opened(tifd)' = Opened(tifd)
    BY <2>1
  <2> QED
    BY <2>1, <2>3, <2>4 DEF Opening!OpenNext, Opening!Open
<1>2. ASSUME tpc \in {"header", "ifd"}, tpc' = "err", file' = file, OpenInv'
      PROVE  Opening!OpenNext
  <2>1. Opening!Broken(file)
    BY <1>2, OpeningBroken DEF OpenInv
  <2> QED
    BY <1>2, <2>1 DEF Opening!OpenNext, Opening!Refuse
<1>3. ASSUME tpc \notin {"done", "err"}, tpc' \notin {"done", "err"}, file' = file
      PROVE  UNCHANGED Opening!openVars
  BY <1>3
<1>4. CASE ReadHeader
  BY <1>2, <1>3, <1>4, OpenInvNext DEF ReadHeader, device
<1>5. CASE ReadChainIFD
  BY <1>3, <1>5 DEF ReadChainIFD, device
<1>6. CASE ReadChainError
  BY <1>2, <1>6, OpenInvNext DEF ReadChainError, device
<1>7. CASE ReadSubIFD
  BY <1>3, <1>7 DEF ReadSubIFD, device
<1>8. CASE AppendIFDList
  BY <1>3, <1>8 DEF AppendIFDList, device
<1>9. CASE UNCHANGED <<device, tvars>>
  BY <1>9 DEF device, tvars
<1> QED
  BY <1>1, <1>4, <1>5, <1>6, <1>7, <1>8, <1>9 DEF TNext

\* OpenReader implements TiffOpen, for every file and from every reliable device, a source
\* that cannot seek among them: the result is every IFD of the chain with its sub-IFDs in
\* their places and every value complete, or an error exactly when a link is broken.
THEOREM OpenReaderOpensThm == ReaderSpec => OpenReaderOpens
<1>1. ReaderInit => Opening!OpenInit
  BY TiffReaderAssumption DEF ReaderInit, TInit, Opening!OpenInit, Opening!IsImage, IsImage
<1>2. ReaderInit => OpenInv
  BY OpenInvInit DEF ReaderInit
<1>3. (Reliable => OpenInv) /\ TTypeOK /\ [TNext]_<<device, tvars>>
        => (Reliable => OpenInv)'
  <2>1. [TNext]_<<device, tvars>> => source' = source
    BY DEF TNext, ReadHeader, ReadChainIFD, ReadChainError, ReadSubIFD, AppendIFDList,
           ReturnReader, device, tvars
  <2> QED
    BY <2>1, OpenInvNext DEF Reliable
<1>4. (Reliable => OpenInv) /\ TTypeOK /\ [TNext]_<<device, tvars>>
        => [Reliable => Opening!OpenNext]_(Opening!openVars)
  BY StepOpens
<1> QED
  BY <1>1, <1>2, <1>3, <1>4, ReaderTypeOK, PTL DEF ReaderSpec, OpenReaderOpens
=============================================================================
