----------------------------- MODULE Directories -----------------------------
(***************************************************************************)
(* A directory from one side of a file to the other: Encode writes it, or  *)
(* a caller puts it together from Header.Bytes and IFDEntry.Bytes, and     *)
(* ReadHeader, ReadIFD and the tag getters read it back.                   *)
(***************************************************************************)
EXTENDS EntryObject, Encoder

VARIABLES
    writer,     \* who writes the file
    file,       \* the file, once it is written
    head,       \* the header that was read back
    ifd         \* the directory that was read back

NoHeader == ReadHeader(<<>>)

vars == <<entryVars, encoderVars, writer, file, head, ifd>>

Init ==
    /\ writer \in {"caller", "Encode"}
    /\ IF writer = "caller"
       THEN EntryInit /\ EncoderInit /\ img = CHOOSE m \in Images : TRUE
       ELSE /\ EncoderInit
            /\ hdr = Classic /\ entry = NewEntry("ImageWidth", "Nil")
            /\ given = [kind |-> "none", values |-> <<>>] /\ sets = 0
    /\ file = <<>> /\ head = NoHeader /\ ifd = NoIFD

\* The file a caller makes of one entry, its value where the entry's offset says: external.
FileOf(e) ==
    LET first  == 16
        number(v, n) == Encoded(hdr.order, v, n)
        end    == first + CountSize(hdr) + EntrySize(hdr) + Word(hdr)
    IN  HeaderBytes(hdr, first) \o number(1, CountSize(hdr)) \o EntryBytes(hdr, [e EXCEPT !.offset = end])
        \o number(0, Word(hdr)) \o EntryRest(hdr, e)

Save ==
    /\ file = <<>>
    /\ IF writer = "caller" THEN file' = FileOf(entry) ELSE pc \in {"done", "error"} /\ file' = out
    /\ UNCHANGED <<entryVars, encoderVars, writer, head, ifd>>

ReadBack ==
    /\ file # <<>> /\ head = NoHeader
    /\ head' = ReadHeader(file)
    /\ ifd' = IF head'.ok THEN ReadIFD(head', file, head'.first) ELSE NoIFD
    /\ UNCHANGED <<entryVars, encoderVars, writer, file>>

Next ==
    \/ writer = "caller" /\ file = <<>> /\ EntryNext /\ UNCHANGED <<encoderVars, writer, file, head, ifd>>
    \/ writer = "Encode" /\ EncoderNext /\ UNCHANGED <<entryVars, writer, file, head, ifd>>
    \/ Save \/ ReadBack

Spec == Init /\ [][Next]_vars

ReadByCaller   == writer = "caller" /\ head # NoHeader
EncodedAndRead == writer = "Encode" /\ pc = "done" /\ head # NoHeader

Got(tag) == Get(head, ifd.entries, tag)

---------------------------------------------------------------------------
(* Properties.                                                             *)

\* Its data fits the value field, the value that its count promises does not.
StringTakenForOffset == entry.type = "ASCII" /\ Len(entry.data) = Word(hdr)

\* More values than the count of an entry can say: only its low bytes are written.
CountIsCut == entry.count >= Power[Word(hdr)]

\* Header.Bytes and ReadHeader, IFDEntry.Bytes and ReadIFD are inverse: in either byte order and
\* either kind of TIFF, every Get method gives of the entry that was read what it gives of the
\* one that was written.  Excepted are a string whose bytes just fill the value field, of which
\* SetString counts one more, so that the reader looks for it elsewhere, and a count that is cut.
WrittenReadsBack ==
    ReadByCaller /\ ~ StringTakenForOffset /\ ~ CountIsCut =>
        /\ head.ok /\ head.order = hdr.order /\ head.big = hdr.big /\ ifd.ok /\ ifd.next = 0
        /\ DOMAIN ifd.entries = {entry.tag}
        /\ LET read == ifd.entries[entry.tag]
           IN  /\ GetInts(head, read) = GetInts(hdr, entry)
               /\ GetFloats(head, read) = GetFloats(hdr, entry)
               /\ GetRationals(head, read) = GetRationals(hdr, entry)
               /\ GetString(read) = GetString(entry)
               /\ GetUndefined(read, Len(entry.data)) = GetUndefined(entry, Len(entry.data))

\* A value as _TagType_TypesTable and _TagType_NumsTable ask for it.
AsTheTablesSay ==
    LET tag == TagOf(entry)
    IN  /\ Accepts(tag, entry.type) /\ given.kind # "none"
        /\ CASE Form(tag) = "date"   -> GetString(entry) = Letters(Nums(tag) - 1)
             [] Form(tag) = "colors" -> entry.count % 3 = 0 /\ entry.count > 0
             [] OTHER                -> Nums(tag) \in {0, entry.count}

ValueOf(e, tag) ==
    CASE Form(tag) = "string"    -> GetString(e)
      [] Form(tag) = "rationals" -> GetRationals(hdr, e)
      [] Form(tag) = "floats"    -> GetFloats(hdr, e)
      [] Form(tag) = "colors"    -> Colors(GetInts(hdr, e)).value
      [] OTHER                   -> GetInts(hdr, e)

\* The getter of a tag answers with the value of an entry that is as the code's own tables say;
\* one that must be single is refused when it is not; and every other getter answers as if
\* there were no entry.  Excepted are the four RATIONAL tags that GetInts is asked for, which
\* nothing answers, and the date, which panics; and entries as WrittenReadsBack excepts them.
GettersReadTheirTags ==
    ReadByCaller /\ ~ StringTakenForOffset /\ ~ CountIsCut =>
        LET tag == TagOf(entry)
        IN  /\ AsTheTablesSay =>
                  Got(tag) = CASE Form(tag) = "two"  -> NoAnswer
                               [] Form(tag) = "date" -> Panic
                               [] OTHER              -> Answer(ValueOf(entry, tag))
            /\ Form(tag) = "one" /\ entry.count # 1 => ~ Got(tag).ok
            /\ \A other \in Tags \ {tag} : Got(other) = IF Default(other) = <<>> THEN NoAnswer ELSE Answer(Default(other))

\* Four bytes can name every place of what is written; of a larger size or offset they keep the
\* low bytes.
OffsetsFit == AreaStart + Len(area) < Power[4]

\* The tags as BlockDecoder has them.
TagsRead ==
    [ tags        |-> {Getters[k][1] : k \in DOMAIN ifd.entries},
      bits        |-> Got("BitsPerSample").value,
      extra       |-> IF Got("ExtraSamples").ok THEN Got("ExtraSamples").value[1] ELSE 0,
      photometric |-> LET v == Got("PhotometricInterpretation").value[1]
                      IN  CASE v = 1 -> "BlackIsZero" [] v = 2 -> "RGB" [] v = 3 -> "Paletted" ]

StripRead == Stored(file, Got("StripOffsets").value[1], Got("StripByteCounts").value[1])

\* Encode and then Decode: the directory that Encode wrote says the size of the image, the type
\* of Go image that Decode allocates is the one that was encoded (RGBA for types of others), its
\* strip holds the rows of the image and of nothing around it, and its palette the colours.
\* Excepted are images of 2^16 rows or columns and more, whose size is cut to 16 bits, and those
\* whose file needs offsets of more than 32.
EncodedReadsBack ==
    EncodedAndRead /\ OffsetsFit /\ img.dx < Power[2] /\ img.dy < Power[2] =>
        /\ head.ok /\ ifd.ok
        /\ Got("ImageWidth") = Answer(<<img.dx>>) /\ Got("ImageLength") = Answer(<<img.dy>>)
        /\ Got("RowsPerStrip") = Answer(<<img.dy>>) /\ Got("Compression") = Answer(<<1>>)
        /\ Got("SamplesPerPixel").value = <<Channels(TagsRead)>>
        /\ NewImage(TagsRead) = IF img.type = "Other" THEN "RGBA" ELSE img.type
        /\ ImageConfig(TagsRead) = NewImage(TagsRead)
        /\ LET swap == Depth(TagsRead) = 16
               row(r) == IF swap THEN SwappedPairs(PixRow(img, r)) ELSE PixRow(img, r)
           IN  StripRead = FlattenSeq([r \in 1 .. img.dy |-> row(r - 1)])
        /\ img.type = "Paletted" =>
              /\ Len(Got("ColorMap").value) = PaletteSize
              /\ SubSeq(Got("ColorMap").value, 1, Len(Palette)) = Palette

\* Places of the file that its directory gives to a value, or to itself.
Places ==
    LET strip == [from |-> Got("StripOffsets").value[1], size |-> Got("StripByteCounts").value[1]]
        n     == Cardinality(DOMAIN ifd.entries)
        long  == {k \in DOMAIN ifd.entries : ifd.entries[k].count * ByteSize(ifd.entries[k].type) > 4}
    IN  {[from |-> 0, size |-> 8], strip, [from |-> head.first, size |-> 2 + 12 * n + 4]}
        \cup {[from |-> ifd.entries[k].offset, size |-> ifd.entries[k].count * ByteSize(ifd.entries[k].type)] : k \in long}

\* writeIFD: the header, the strip, the directory and the values outside it take the whole file
\* and nothing past it, and none of them a byte of another.
LayoutApart ==
    EncodedAndRead /\ OffsetsFit =>
        \A k \in 0 .. Len(file) :
            Cardinality({p \in Places : p.from <= k /\ k < p.from + p.size}) = IF k < Len(file) THEN 1 ELSE 0

\* Where the last of the values outside the directory starts.
LastValueAt ==
    LET es   == Sorted[img]
        long == {i \in DOMAIN es : Len(PutData(es[i])) > 4}
        last == CHOOSE i \in long : \A j \in long : j <= i
    IN  AreaStart + Len(FlattenSeq([i \in 1 .. last - 1 |-> IF i \in long THEN PutData(es[i]) ELSE <<>>]))

\* The directory comes last and its values after it: what an Encode that failed leaves behind is
\* refused by ReadIFD, but for a file of which only a part of the last value is missing.
CutFileFails ==
    writer = "Encode" /\ pc = "error" /\ head # NoHeader /\ OffsetsFit =>
        (ifd.ok <=> Len(file) > LastValueAt)

\* Encode panics only on the sub-image that ends with its parent and starts right of it, and
\* then only when every pixel of it is written.
PanicOnlyOnCutImages ==
    pc = "panic" => /\ ByBytes(img) /\ img.x0 > 0 /\ img.below = 0
                    /\ y = img.dy /\ Len(out) = 8 + ImageLen(img)
=============================================================================
