----------------------------- MODULE TiffReader -----------------------------
(***************************************************************************)
(* OpenReader (reader.go): the traditional reader.  It reads the header,   *)
(* then follows the chain of IFDs with one seek and one read per item, and *)
(* after each IFD reads the sub-IFDs it lists.  The environment is the     *)
(* device: a seekable source may deliver fewer words than asked for or     *)
(* fail, and a source that cannot seek has been read into memory whole     *)
(* (openSeekioReader), where a seek to or past the end is an error.        *)
(***************************************************************************)
EXTENDS TiffContents

CONSTANTS
    Files,        \* the files that may be opened
    Sources,      \* kinds of source: "seeker", "buffered"
    ShortCounts,  \* where a single short Read of a seekable source may stop
    IOErrors      \* whether a seekable source may fail

ASSUME TiffReaderAssumption ==
    /\ \A f \in Files : IsImage(f)
    /\ Sources \subseteq {"seeker", "buffered"}
    /\ ShortCounts \subseteq Nat \ {0}
    /\ IOErrors \in BOOLEAN

VARIABLES
    file,     \* the contents of the device
    source,   \* its kind
    tpc,      \* "idle", "header", "ifd", "subs", "done" or "err"
    toff,     \* the local offset: the next IFD of the chain, 0 at its end
    tsubs,    \* subIfdOffsets still to be read
    tcur,     \* ifdList
    tifd      \* p.Ifd

device == <<file, source>>
tvars  == <<tpc, toff, tsubs, tcur, tifd>>

(***************************************************************************)
(* One Read of size words at off, which lies inside the file, may deliver  *)
(* any n in ReadCounts(off, size).                                         *)
(***************************************************************************)
Least(x, y) == IF x <= y THEN x ELSE y

ReadCounts(off, size) ==
    LET avail == Least(size, file.len - off)
    IN  {avail} \cup (IF source = "seeker" THEN {n \in ShortCounts : n < avail} ELSE {})

MayFail == IOErrors /\ source = "seeker"

\* Every read delivers what there is.
Reliable == source = "buffered" \/ (~ IOErrors /\ ShortCounts = {})

(***************************************************************************)
(* readIFD: binary.Read insists on all of the directory, while a value is  *)
(* fetched by a single Read, which is an error only when it delivers       *)
(* nothing.                                                                *)
(***************************************************************************)
ValueReadable(e) == Embedded(e) \/ (e.offset >= HeadSize /\ e.offset < file.len)

Readable(o) ==
    /\ DirectoryWithin(file, o)
    /\ \A i \in EntryMap(file, o) : ValueReadable(Entry(file, o, i))

\* How many words of each value the reads of one ReadIFD deliver.
Deliveries(o) ==
    {got \in [EntryMap(file, o) -> {file.len} \cup ShortCounts] :
        \A i \in DOMAIN got :
            LET e == Entry(file, o, i)
            IN  IF Embedded(e) THEN got[i] = file.len
                ELSE got[i] = file.len \/ got[i] \in ReadCounts(e.offset, e.size)}

\* What a failed ReadIFD may return besides the error: nil when the seek has failed, before the
\* IFD is allocated.
FailedIFDs(o) ==
    LET pastEnd == source = "buffered" /\ o >= file.len
    IN  (IF pastEnd THEN {} ELSE {BrokenIFD(o)}) \cup (IF pastEnd \/ MayFail THEN {NilIFD} ELSE {})

-----------------------------------------------------------------------------
TInit ==
    /\ file \in Files
    /\ source \in Sources
    /\ toff = 0 /\ tsubs = <<>> /\ tcur = <<>> /\ tifd = <<>>

\* ReadHeader; one Read of the header that comes back short leaves FirstIFD zero.
ReadHeader ==
    /\ tpc = "header"
    /\ \E n \in ReadCounts(0, HeadSize) :
         IF HeaderValid(file) /\ n = HeadSize
         THEN tpc' = "ifd" /\ toff' = FirstIFD(file)
         ELSE tpc' = "err" /\ UNCHANGED toff
    /\ UNCHANGED <<device, tsubs, tcur, tifd>>

\* An IFD of the chain: any error ends OpenReader.
ReadChainIFD ==
    /\ tpc = "ifd" /\ toff # 0 /\ Readable(toff)
    /\ \E got \in Deliveries(toff) :
         LET ifd == DecodeIFD(file, toff, got)
         IN  /\ tcur' = <<ifd>>
             /\ toff' = ifd.next
             /\ tsubs' = GetSubIFD(ifd)
    /\ tpc' = "subs"
    /\ UNCHANGED <<device, tifd>>

\* Mutant: an IFD that cannot be read is tried again.
ReadChainErrorRetries ==
    /\ MayFail /\ ((tpc = "ifd" /\ toff # 0) \/ tpc = "header")
    /\ tpc' = "err"
    /\ UNCHANGED <<device, toff, tsubs, tcur, tifd>>

ReadChainError ==
    /\ \/ tpc = "ifd" /\ toff # 0 /\ (MayFail \/ ~ Readable(toff))
       \/ tpc = "header" /\ MayFail
    /\ tpc' = "err"
    /\ UNCHANGED <<device, toff, tsubs, tcur, tifd>>

\* Mutant: the loop variable ifd is reused before its NextIFD was saved.
ReadSubIFDClobber ==
    /\ tpc = "subs" /\ tsubs # <<>>
    /\ \E got \in Deliveries(Head(tsubs)) :
         LET sub == DecodeIFD(file, Head(tsubs), got)
         IN  tcur' = Append(tcur, sub) /\ toff' = sub.next
    /\ tsubs' = Tail(tsubs)
    /\ UNCHANGED <<device, tpc, tifd>>

\* Mutant: a sub-IFD that cannot be read is left out.
ReadSubIFDSkips ==
    /\ tpc = "subs" /\ tsubs # <<>>
    /\ LET o == Head(tsubs)
       IN  \/ /\ o # 0 /\ Readable(o)
              /\ \E got \in Deliveries(o) : tcur' = Append(tcur, DecodeIFD(file, o, got))
           \/ /\ (o = 0 \/ MayFail \/ ~ Readable(o))
              /\ UNCHANGED tcur
    /\ tsubs' = Tail(tsubs)
    /\ UNCHANGED <<device, tpc, toff, tifd>>

\* A sub-IFD: the error is dropped and whatever ReadIFD returned is appended.
ReadSubIFD ==
    /\ tpc = "subs" /\ tsubs # <<>>
    /\ LET o == Head(tsubs)
       IN  \/ /\ o # 0 /\ Readable(o)
              /\ \E got \in Deliveries(o) : tcur' = Append(tcur, DecodeIFD(file, o, got))
           \/ /\ o # 0 /\ (MayFail \/ ~ Readable(o))
              /\ \E ifd \in FailedIFDs(o) : tcur' = Append(tcur, ifd)
           \/ /\ o = 0
              /\ tcur' = Append(tcur, NilIFD)
    /\ tsubs' = Tail(tsubs)
    /\ UNCHANGED <<device, tpc, toff, tifd>>

AppendIFDList ==
    /\ tpc = "subs" /\ tsubs = <<>>
    /\ tifd' = Append(tifd, tcur)
    /\ tcur' = <<>>
    /\ tpc' = "ifd"
    /\ UNCHANGED <<device, toff, tsubs>>

ReturnReader ==
    /\ tpc = "ifd" /\ toff = 0
    /\ tpc' = "done"
    /\ UNCHANGED <<device, toff, tsubs, tcur, tifd>>

TNext == ReadHeader \/ ReadChainIFD \/ ReadChainError \/ ReadSubIFD \/ AppendIFDList \/ ReturnReader

\* OpenReader on its own.
ReaderInit == TInit /\ tpc = "header"
ReaderSpec == ReaderInit /\ [][TNext]_<<device, tvars>> /\ WF_<<device, tvars>>(TNext)

-----------------------------------------------------------------------------
\* Every variable of the reader and its device has its type.
TTypeOK ==
    /\ IsImage(file) /\ source \in Sources
    /\ tpc \in {"idle", "header", "ifd", "subs", "done", "err"}
    /\ toff \in Nat /\ tsubs \in Seq(Nat)
    /\ tcur \in Seq(IFDs) /\ tifd \in Seq(Seq(IFDs))

\* Whatever a failing or slow device delivers, a decoded value holds words from the value's
\* place in the file or zeros, never words from elsewhere.
ValuesFromFile ==
    \A n \in DOMAIN tifd : \A k \in DOMAIN tifd[n] : tifd[n][k].whole =>
        LET o == tifd[n][k].this
        IN  \A e \in tifd[n][k].entries : \E i \in 1 .. EntryCount(file, o) :
              /\ e[1] = Entry(file, o, i).tag /\ e[2] = Entry(file, o, i).size
              /\ \A w \in 1 .. Len(e[3]) :
                    e[3][w] \in IF Embedded(Entry(file, o, i)) THEN {Entry(file, o, i).offset}
                                ELSE {0, WordAt(file, Entry(file, o, i).offset + w - 1)}

\* Sub-IFDs keep their places: the list of an IFD is as long as its SubIFD entry says, with
\* a gap, not a shift, where one could not be read.
SubIFDsKeepPlaces ==
    \A n \in DOMAIN tifd :
        /\ Len(tifd[n]) = 1 + Len(GetSubIFD(tifd[n][1]))
        /\ \A k \in 2 .. Len(tifd[n]) :
              tifd[n][k].this \in {0, GetSubIFD(tifd[n][1])[k - 1]}

Opening == INSTANCE TiffOpen WITH
    openFile <- file,
    status <- CASE tpc = "done" -> "opened" [] tpc = "err" -> "refused" [] OTHER -> "opening",
    ifds   <- IF tpc = "done" THEN Opened(tifd) ELSE <<>>

\* OpenReader implements TiffOpen: from a reliable device, which a buffered source is, the
\* result is every IFD of the chain with its sub-IFDs in their places, or an error exactly
\* when a link is broken.
OpenReaderOpens ==
    /\ Opening!OpenInit
    /\ [][Reliable => Opening!OpenNext]_(Opening!openVars)
=============================================================================
