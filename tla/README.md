# A TLA+ model of the tiff library

The library reads (and, in part, writes) TIFF and BigTIFF files in Go. It starts no
goroutine: every call is a sequential program over an `io.Reader` or `io.ReadSeeker`. What
makes it hard is elsewhere: a file is a graph of offsets that a reader follows through a
buffer that holds only some of it, with a device that may deliver less than was asked for;
two readers that are meant to agree; decoders whose state has to stay in step with a
stream written by somebody else; setters, getters and an encoder that must be each other's
inverse; and images that share their pixels. This directory models those parts, checks them with TLC
on small instances and proves some of the results for all instances with TLAPS.

Contents: 1 inventory, 2 modules, 3 runs, 4 bounds and fairness, 5 proofs,
6 disagreements with the documentation, 7 not modelled, 8 plan.

## 1. Inventory

| component | source | state | operations | what makes it correct |
|---|---|---|---|---|
| header | `header.go` | byte order, type, FirstIFD | `ReadHeader`, `Bytes`, `Valid` | a short or odd header is refused |
| traditional reader | `reader.go`, `tiff_ifd.go` | device position, offset of the next IFD, IFD lists | `OpenReader`, `ReadIFD`, image accessors | returns every IFD of the chain with its sub-IFDs in their places, or an error |
| optimized reader | `reader_optimized.go`, `OPTIMIZED_READER_FLOW.md` | buffer, missing ranges, statistics, IFD lists | `OpenReaderOptimized` and its phases | the same result as the traditional reader with few, bounded reads |
| ranges and clusters | `reader_optimized.go:594`, `:1226` | a sorted slice, what is open | `mergeDataRanges`, `groupIFDsIntoClusters` | nothing asked for is lost, nothing is read twice |
| buffering reader, writer | `seekio.go` | buffer, offset | `Read`, `Write`, `Seek`, `Close` | a stream behaves like a file |
| LZW decoder | `lzw_reader.go` | width, table, output buffer | `decode`, `Read` | inverse of the encoder, bounded buffers, ends |
| blocks and pixels | `tiff_ifd_block.go`, `tiff_ifd_helper.go`, `image_utils.go`, `reader.go:96` | image, block, row, offset in the data | `DecodeImage`, `DecodeImageBlock`, `DecodeBlock`, `BlockBounds`, `ImageConfig` | blocks tile the image, every pixel comes from its sample |
| compression dispatch, PackBits, bits | `compress.go`, `bits_io.go` | bit window | `Decode`, `ReadBits` | inverse of the encoding, ends with its input |
| CCITT G4 | `internal/fax` | reference row, position, colour | `DecodeG4` | rows of the right width, ends |
| entries | `tiff_ifd_entry.go` | data type, count, bytes | `GetInts`, `SetInts`, ..., `Bytes` | setters and getters are inverse |
| encoder | `encoder.go` | output position, entries | `Encode`, `EncodeAll`, `writeIFD` | the readers open what it writes |
| decoder entry points | `decoder.go` | results per IFD | `DecodeAll`, `DecodeConfigAll` | errors stay with their image |
| tag getters | `tiff_ifd_tag_getter.go`, `z_tiff_types_string.go` | the entries of an IFD | 80 getters | each answers for its own tag, in the type and number its tables allow |
| image and colour types | `image.go`, `image_color.go`, `image_pix_slice.go` | a slice of an array that several images may share | `NewMemPImage`, `NewMemPImageFrom`, `Clone`, `SubImage`, `StdImage`, `Set`, `At` | an image shows what was painted on it, a copy does not |
| types and names, tools | rest | - | accessors, generated `String` methods, programs | - |

How they interact: `OpenReaderOptimized` and `OpenReader` wrap the source with
`openSeekioReader`, which reads a source that cannot seek into memory. The optimized
reader drops its half-built result and calls `OpenReader` on the same source whenever a
phase fails. `DecodeImage` asks the IFD for its blocks; a block is read, decompressed (LZW,
PackBits, G4, deflate), un-predicted and copied into the image. The encoder writes header,
pixels and one IFD by itself, with Go's images for its input and without `IFDEntry`; what it
writes is read with `ReadIFD` and the tag getters, which `ImageType` and the blocks ask.
`Decode` and its siblings in `decoder.go` are an `OpenReader` and a `DecodeImage` or
`ImageConfig` for each IFD. `seekioWriter` is written for an encoder; nothing in the package
opens one yet, and `MemPImage` is for callers: decoding makes Go's own images.

Hard behaviours: the same offset looked at in several phases with a different part of the
file in memory each time; ranges replaced by other ranges; zeros of a fresh buffer that
parse; short reads; links that loop or break; a fallback on a source that has moved;
off-by-one code widths; table and buffer limits; boundaries of ranges, clusters, strips and
edge tiles; widths, signs and byte orders that two sides must agree on; sums of sizes that
place values in a file; arrays seen through several slices. PROJECT.json lists each of them at its line under "hazards".

## 2. Modules

`TiffFile` is the file format and what an IFD decodes to. The unit is one 4-byte word: a
header is two words, an IFD an entry count, three words per entry and the next-IFD offset.
The code's 2-byte count is widened to a word, and data type and count of an entry appear as
their product, the size of the value. A BigTIFF differs in the widths only; the models have
one width.  What an abstraction must keep, it keeps: embedded and remote values, duplicate
tags (`EntryMap`), zeros past the end of what was read, sub-IFD offsets that are a value
themselves and thus may be missing or wrong.

`TiffReader` is `OpenReader` as a state machine: `ReadHeader`, one step per IFD of the chain
(`ReadChainIFD`, `ReadChainError`), one per sub-IFD (`ReadSubIFD`), the end of a list
(`AppendIFDList`) and the return. The device is the environment: `source` is "seeker" or
"buffered" (`openSeekioReader`), a seekable one may deliver fewer words (`ReadCounts`) or
fail (`MayFail`). `binary.Read` in `readIFD` insists on all bytes of a directory, while a
value is one `Read` whose count is ignored (`tiff_ifd.go:207`), hence `Deliveries`.

`TiffContents` says what a file has to offer to whoever can read all of it: the chain that its
links make (`Links`, `Chain`), the IFDs and sub-IFDs on it (`OpenedIFDs`), and whether a link
or the header is `Broken`. `TiffOpen` is the abstract promise of opening a file: from a reliable
device, the IFDs that the chain links with complete values, or an error exactly for a broken
file. It says nothing of how the file is read. Both readers are checked against it: the
traditional one as `OpenReaderOpens`, which is also proved, the optimized one as `KeepsPromise`,
proved too, and on files laid out for it as `ImplementsOpen`, which asks for more.

`DataRanges` defines what `mergeDataRanges` and `groupIFDsIntoClusters` return for a set, and
`RangeSweep` has their loops over slices, which may hold the same range or offset more than
once, with the unstable sort as a choice of order.

`OptimizedReader` extends `TiffReader` and `DataRanges`. Its `opc` names the function that
is running:

| opc | code | steps |
|---|---|---|
| initial | `readTIFFMetadataAdaptive` | `InitialRead`, `DeviceError` |
| identify | `identifyMissingDataRanges`, `analyzeIFDForMissingData` | `AnalyzeIFD`, `IFDBeyondBuffer`, `IdentifyDone` |
| walk | `calculateSmartIFDBatch`, `readNextIFDOffsetDirect` | `WalkChain`, then `PlanReads` (batch, circuit breaker, `readMissingRanges` up to its loop) |
| read | the loop of `readMissingRanges` | `ReadRange`, `DeviceError` |
| parseHeader, metadata, parse, subs | `parseCompleteMetadataFromBufferOptimized`, `calculateActualMetadataSize` | `ParseHeader`, `MetadataOfIFD`, `MetadataDone`, `ParseIFD`, `ParseSubIFD`, `ListParsed`, `ParseDone` |
| failed, fallback | `OpenReaderOptimized`, `fallbackToTraditionalOptimized` | `Fallback`, `TraditionalStep` (every action of `TiffReader`), `FallbackDone`, `Refuse` |
| opened, fellback, refused, panic | the call has returned, or hit a nil pointer | - |

`reads` is a history variable, the reads the device has seen. `ReaderProperties` states the
properties, `FileBuilder` and `MCReaders` make the files.

`DecodeAll` puts the four entry points of `decoder.go` on top of `TiffReader`: `OpenFails` and
`DecodeFirst` (`Decode`, `DecodeConfig`), `Begin`, `AllocateRow`, `DecodeSlot`, `NextRow` and
`Return` for the two loops. The outcome of decoding one image is a choice: an image, an error, both
(`Outcomes`), or a panic, which nothing recovers. `BlockDecoder` and the LZW decoder say when
`DecodeImage` panics; that it may is all that is needed here. `Panic` is also where the loops dereference a nil
IFD or store into a row that is not there.

Decompression is a composition. `CodedStream` has what all methods share: an external encoder
that writes the whole stream, of which the end may get lost (`Close`), and then the decoder
that reads it. `LZWDecoder` is `decode` and `Read` of `lzw_reader.go` for a stream of codes;
`LZWStream` puts it behind a string of bits. `PackBits` is `decode_PackBits`, packet by
packet. `FaxRuns` holds the run codes as the tables of `internal/fax/read.go` do, and `FaxG4` is the
Group 4 decoder, a mode a step (`Pass`, `Vertical`, `Horizontal`, `Extension`,
`EndOfParsing`), with an encoder that may take any mode that applies. `Decompress` is
`TagValue_CompressionType.Decode`: it chooses the method and adds the ones without a codec of
the package's own. It also feeds the LZW decoder with codes in any order (`AnyCodes`) and the Group 4
decoder with any bits.

`EntryValues` has entries as bytes: the `Set` and `Get` methods of `IFDEntry`, `Header.Bytes` and
`IFDEntry.Bytes`, `ReadHeader` and `ReadIFD`, for both byte orders and both kinds of TIFF. A
byte is a digit in base `Base`, so that widths and signs are exact. `TagGetters` is the table of
all tag getters, a row each: the tag, the form of its answer and its default; `MadeOf` is what
a form makes of an entry, `AcceptedTypes` and `Nums` are the tables that `gen.go` generates.
`EntryObject` is an entry in a caller's hands: `CallSetInts` and its siblings in any order.
`Encoder` is `Encode`, a step per `Write` to a writer that may fail; a byte of the image is
named by its place in `Pix`. `Directories` composes them: `Save` is a caller's file of one
entry, `ReadBack` reads it, or what the encoder wrote, or what was left of it.

`SeekWriter` is `seekioWriter`, a Go slice being its array and its length. `MemPImage` has the
images of `image.go` as slices of arrays on a heap: an operation appends a slice of the same
array (`Shares`) or a new array (`Copies`). `painted` is a history variable, what was painted
at each point of a picture; images that are meant to share have one picture.

`BlockGeometry` has the operators `BlocksAcross`, `BlocksDown` and `BlockBounds` over a
layout, the values of the tags they look at. `ImageTags` says what the tags make of an image
(`ImageType`, `ImageConfig`, `NewImage`). `BlockDecoder` builds on both: `DecodeImage` and
`DecodeImageBlock` allocate an image after asking for its type; `DecodeBlock` reads the
samples of a block and undoes the predictor; `DecodeRow` copies one
row of `decodeBlock`; `RowTooShort` and `DivideByZero` are its ways out; `NextBlock` is the
double loop of `DecodeImage`. The code has a loop per image type. What tells them apart is
how many samples of how many bits they read (`SamplesRead`, `BitsRead`), whether they
compute the offset of a row or read on from a running one (`Addressed`), and whether they
check the length by pixel or by row (`CopiesRows`). A sample is the triple of its column,
row and channel in the file, so that every pixel tells which samples it was made from.
`FileBlock` and `FileSamples` say where TIFF 6.0 puts a sample, independently of
`BlockBounds`. Blocks that decompress to fewer bytes, arrays of offsets or counts of the wrong
length (offset 0, count 0) and failing decompression are choices.

`TiffReaderProofs`, `OptimizedReaderProofs` (ranges and clusters, defined and looped, and the reader that uses
them), `DecodeAllProofs`, `BlockDecoderProofs`, `DecompressProofs` (the decoders
on any stream, and on one of an encoder), `SlicesProofs` (the buffering writer and the images), `DirectoriesProofs` (entries and
getters) and `EncoderProofs` (the file that `Encode` writes) hold the theorems.
An operator whose comment begins with "Mutant" is a deliberately wrong variant of the
definition after it; no specification uses it. Each says what kind of mistake the
properties would notice.

## 3. Runs

| run | what it asks |
|---|---|
| `readers_spread` | every placement of IFDs, sub-IFDs and values in five slots, every interesting buffer size, a reliable device: types; ranges of a batch never overlap; parsing a buffer that holds all metadata gives the traditional result (`CompleteBufferParses`); what the call returns, by either path or as an error, is what `TiffOpen` promises (`ImplementsOpen`); no IFD lost by clustering; one read for metadata at the front of a file without sub-IFDs |
| `readers_faults` | files cut in a directory, in a value and in the header; short and failing reads: no wrong word in the buffer, the read budget, and the call returns |
| `reader` | the traditional reader on whole and cut files, buffered and seekable with short and failing reads: from a reliable one it implements `TiffOpen` (`OpenReaderOpens`), values come from their place, sub-IFDs keep theirs, the call returns; `DecodeAll` on top of it: the one error is the first, what is before it is an image and what is after it is nothing; a nil sub-IFD is neither, and a panic leaves exactly the images before it (`DecodeAllAccounts`) |
| `range_sweep` | the loops against the definitions (`MergeIsDefinition`, `ClustersAreDefinition`), all slices of up to three ranges and four offsets, with repetitions |
| `decompress` | every method on the streams of its encoder, whole and cut: what comes back is a first part of the data (`RoundTrip`), all of it when nothing is lost, and decoding ends (`DecodesAll`). LZW on codes in any order: prefix chains are acyclic, across clear codes too (`PrefixesDescend`), the bytes of a code fit into the buffer (`RoomForEveryCode`), the table is overrun only by a stream that goes on after filling it (`PanicOnlyWhenFull`). Group 4 on any bits: a mode never leaves a row half-way into the next (`FaxRowsAligned`) |
| `directories` | the Set and Get methods are inverse within the range of their type (`SetThenGet`); an entry and its header come back from a file (`WrittenReadsBack`), each getter answers for its tag and no other (`GettersReadTheirTags`); what `Encode` writes says what the image is and holds its rows (`EncodedReadsBack`), with its parts apart and nothing between them (`LayoutApart`), and what a failed `Encode` leaves is refused (`CutFileFails`); it panics on one kind of sub-image (`PanicOnlyOnCutImages`) |
| `slices` | all sequences of writes and seeks up to four bytes keep what was accepted, and `Close` delivers what of it lies before the offset (`AcceptedIsKept`); four calls on up to three images: every image shows what was painted through any image of its picture, 16-bit colours of the library with their bytes exchanged (`SeenAsPainted`), and making an image from a 16-bit one of the library panics only off column 0 (`PanicOnlyOffColumnZero`) |
| `blocks` | images of 3 by 3 pixels in strips and tiles that divide them or not, in every format and some odd ones, with short data: every pixel comes from its own samples, is written once, and is there when no error is returned; errors and panics have their causes; `ImageConfig` announces the type of the image |
| `readers_parity`, `readers_loop`, `readers_nilsub`, `blocks_padding` | one statement each of the documentation or the tests, which TLC refutes (section 6) |

`readers_spread` checks `ImplementsOpen`, the refinement of `TiffOpen` by the optimized reader.
On every file it asks for `KeepsPromise`: what the fallback returns, what is refused, and what the
optimized path returns from a buffer that holds the metadata of a sound file, all as `TiffOpen`
has it (`Vouched`). For files laid out IFD after IFD (`CompactFiles`), and not cut where the
next-IFD word is missed (`CleanCut`), it asks for that without a word on the buffer;
`readers_parity` shows a file on which this fails. When the buffer does hold everything is what
`OneReadForFrontMetadata` and `BatchFindsEveryIFD` say: metadata in the first buffer-full, or in it
and the ranges of the batch together (`Planned`). `CompleteBufferParses` adds to the promise that the
parse of such a buffer does not give up, so that the fallback is not needed. `OneReadForFrontMetadata` asks for a file that is `Flat`, in which no entry, not even one
that a later entry replaces, names sub-IFDs: the reader looks at each entry by itself, and
reads once more for the first of two SubIFD entries although the second is empty. `reader`
checks `OpenReaderOpens` for the files and sources that deliver what they have; a device that
falls short is outside the promise.

## 4. Bounds and fairness

The limits of the code are constants scaled to the unit of the model, with their order kept
as far as the cases need it: gap < cluster padding and cluster gap, IFD < estimate, so that
"within the gap", "just beyond" and "far" all occur with five slots of six words. Files have
up to three IFDs or two IFDs and two sub-IFDs: enough for a cluster of one, of two, two
clusters, and a middle one; for sub-IFDs before and after their parent; for a value in or
out of each cluster. The buffer sizes include zero, cuts inside the header, inside an IFD, at
its end, and all of the file. `MaxEntries` stays above every count in a file, and `Magic`
above `MaxEntries`, so that a word of the header read as a count is refused as in the code.
`MaxChain` and `MaxIFDs` are three and four, so that a walk ends early. `MetadataBound` caps
the computed metadata size, which a looping chain would let grow.

For LZW, `LitWidth` is 2 and `MaxWidth` 4 (8 and 12 in the code): the decoder's arithmetic only
uses powers of two, and the small table fills within a few codes, which is what the hazards are
about. `HiModulus` is 64 for 2^16. The codes that come in any order are a literal, clear, EOF, one
in the middle of the table and its last (`Offered`); the properties do not look at values of literals.
Inputs are all strings of two symbols up to nine, and longer ones that fill the table with and
without repeats. `Int8Max` is 2 for 127, so that packets of PackBits reach their limits and no-op
bytes occur between them. Group 4 images are all of 1 by 3, 2 by 3 and 4 by 2 pixels and rows
of 65, 130 and 200 with makeup codes; its noise is every string of up to ten bits, followed
by the zeros that keep the decoder's window full. `Cuts` takes zero, one or two bytes off a stream.

A byte has ten values (`Base`) in `directories`: eight of them fit TLC's integers, and two hold
every tag; `Power` is then at most 10^8. `Ints` lie at and beyond both ends of one, two and four bytes. Images are two by two
with a margin on any side, without pixels, flat, narrow and one of 101 columns, which takes two
digits; `PaletteSize` is 3 for 256.

In `slices`, `SeekWriter` bounds offsets with `MaxOffset` in the guards of `Write` and `Seek`.
Images are at most two by two, off the origin and at it; three of them (`MaxImages`) are a
picture, what is made of it and what is made of that, and the fourth call (`MaxCalls`) paints.
`Overflow` is what a compiler may make of a number too large for a byte besides its low byte, which
Go leaves open: the low byte and 255 stand for wrapping and saturating. One colour fits into bytes, two do not.

In `readers_parity` the files are the two of `LateOffsetFiles`, so that the counterexample is always the one
of section 6; the other files of `SpreadFiles` have more.

For the blocks, 3 by 3 pixels with tiles of 2 by 2, 3 by 1 and 4 by 2, and strips of one, two,
three and five rows, give blocks that fit, that the right or the lower edge cuts, that are
larger than the image, and a last strip shorter than the others. A 4-bit row of three or two
pixels ends inside or at the end of a byte. Blocks may lack no, one or six bytes. The odd
formats have samples that differ in depth, no depth, a depth of zero, an unexpected second
sample, or a depth the loop does not read; the odd layouts tiles of no height or width.

Fairness is weak fairness on the whole next-state relation of the one sequential call, in
`OptSpec`, `AllSpec` and the `Spec` of `Decompress`: a call that can go on does go on. Devices are not assumed to be fair: they may be short at
every read, and fail at any. `CHECK_DEADLOCK FALSE` is set because the call returns.

## 5. Proofs

All for arbitrary files, sizes and limits under the named assumptions of the modules. Those of
`TiffFile`, `TiffReader`, `DataRanges`, `OptimizedReader`, `RangeSweep`, `BlockDecoder` (`CutsAssumption`) and
`DecodeAll` only give the constants their types, and say that an estimate is positive and the magic
number is no entry count; where others say more, it is told below. TLC evaluates all of them.

Readers:

* `ReaderTypeOK` and `SubIFDsKeepPlacesThm`: `PlacesInv` relates the list under construction and the
  offsets still to be read to the SubIFD entry, phase by phase.
* `ValuesFromFileThm`: `ValuesInv` says the same of the list under construction, since an IFD is decoded
  there and moved into the result later. What `DecodeIFD` returns satisfies it at once
  (`DecodedFromFile`), whatever the reads of the values deliver.
* `OpenReaderOpensThm`: the traditional reader implements `TiffOpen` from every reliable device.
  `OpenInv` says that the lists so far are what the file offers at the first places of the chain
  (`Offered`), that the next offset is the link after them, and that an error means a broken link.
  The chain is a recursive function; its length is the least number without a link, and a walk of
  good IFDs that arrives at zero has walked it all (`WalkEnds`).
* `DecodeAllAccountsThm`: the two loops are `Running`, with an image in every slot before theirs and no
  error, or `Stopped` by the one error, with images before it and nothing behind; a panic finds them
  `Running`. `NilApart` says that a nil IFD got neither. That an opened
  file has a first IFD (`HasFirst`) keeps the loops from an empty list.
* `BufferMatchesFileThm`: the property is inductive by itself, because the initial prefix,
  the expansion and each patch put the file's words in their own places and everything else
  leaves the buffer alone.
* `OptTypeOK`: `OTypeOK` is not inductive, since `MaxOf` of an infinite set of ranges is
  nothing in particular. `TypeInv` adds that `missing` and `chain` are finite. The proof goes
  phase by phase (`TypeReading`, `TypeWalking`, `TypeParsing`, `TypeFallback`).
* `ReadBudgetThm`: `BudgetInv` adds that no adaptive read happened before `PlanReads` and what
  each phase implies for the counts; the breaker's test then starts the reading loop with at
  most `MaxAdaptiveReads` ranges, and each read moves one from planned to made.
* `RangesDisjointThm`: merged ranges are apart by `MergeSeparates`; clusters by `ClustersApart`
  are more than `ClusterGap` apart, so padding that exceeds the gap by at most one keeps
  them disjoint. The hypothesis `ClusterPadding <= ClusterGap + 1` holds in the code (2 KiB and
  4 KiB). Without it TLC finds overlapping reads.
* `CompleteBufferParsesThm`: with all metadata words in the buffer (`Ready`), a directory and its values
  read the same there as in the file (`CopiedParses`), so what has been parsed is what the file
  offers at the first places of the chain (`ParsedInv`) and the loop ends where the chain does.
* `OneReadThm`: `FrontInv` says that only the phases without a read are visited. That nothing is ever
  missing (`NothingMissing`) needs the file to be `Flat`, see section 3.
* `BatchFindsEveryIFDThm`: `BatchInv` follows the file's chain through the phases: the walk has collected
  the first `count` links (`WalkedTo`), so the clusters are those of the chain; of the planned ranges each
  is still to be read or holds the file's words (`Progress`); with none left every directory, which
  its cluster and the padding cover (`ChainFetched`), is in the buffer, and the parse reads each link
  where the file has it. Where the header comes from the buffer, `BufferMatchesFile` makes it the file's.
  `FetchInv` adds the words of the first buffer-full, which growing and patching keep; with those of the
  ranges they are all the metadata of a file that is `Planned`, and `ParseLeaves` does the rest.
* `KeepsPromiseThm`: the optimized reader with its fallback implements `TiffOpen` as far as `Vouched` goes.
  `FallbackInv` says that the traditional reader is idle until it takes over, that its outcome is the
  call's, and that from a reliable device `OpenInv` holds of it meanwhile.
  A call ends in one of three steps (`StepReturns`): a parse that is `Ready`, a fallback whose
  walk has ended (`WalkEnds`), or an error that `OpenInv` puts down to a broken link. Every
  other step changes nothing that the promise speaks of (`StepStutters`).

Ranges:

* `MergeCovers`, `MergeSeparates`, `EveryOffsetInCluster`, `ClustersApart`: for every finite set.
* `MergeIsDefinitionThm` and `ClustersAreDefinitionThm`: the loops compute the definitions, for every slice,
  equal elements included, and every order that an unstable sort may leave. `MergeLoop` says that
  each range taken so far lies in a range made, each range made begins and ends as one taken and
  is linked without a gap, and those made are apart, in order; ranges with these properties for
  all of a set are the defined ones (`MergedAreTheseRanges`). `ClusterLoop` says the same of offsets.

Blocks:

* `BlocksCover` and `BlocksApart`: blocks tile the image. A tile's number is the pixel's
  coordinate divided by the tile's size (`DivBounds`, `DivUpHolds`), and a number lies between
  two neighbouring multiples in one way only (`OneMultiple`). For strips `StripSpan` first shows,
  by cases over what RowsPerStrip may be and whether it divides the height, that the last strip
  ends with the image. The hypotheses are that the tile tags come together (`Consistent`) and,
  to cover, that a tile has a size (`Proper`).
* `WritesOnceThm`: that a step overwrites nothing is not inductive. `OnceInv` adds where the
  written pixels lie: in a block decoded before, or above the next row in the present one.
  With `BlocksApart` the pixels of the next row are then blank. `Consistent` follows from the
  tags `ImageType` insists on, by `IfdAssumption`: a getter returns zero for a tag that is missing,
  depths are a slice of unsigned numbers, and the predictor is used or not.
* `PanicOnlyUncheckedThm` and `ErrorOnlyWhenShortThm`: `CauseInv` adds that the image has the type the
  switch of `decodeBlock` asks for (`FormatsAgree`), and that rows read on from a running offset are no
  farther in the data than they would be in the file (`CursorFits`).
* `CompleteOrErrorThm`: `FullInv` adds that what lies in the blocks decoded before and in the rows above
  is written; `BlocksCover` closes the argument at the end of the loops.
* `ConfigForetellsThm`: from `FullInv` and the formats of `ImageTags`. Without pixels it is false: gray samples
  of different depths make `ImageConfig` fail, while no row is there to divide by their depth.
* `PixelsFromTheirSamplesThm`: `SampleInv` adds that the data of the block hold its samples at their
  places as far as they reach, after undoing the predictor (`HoldsSamples`), and that the next row
  is read where it begins (`ReadsOn`). The sums of the predictor are a recursive function; that
  the samples themselves solve its equation, and nothing else does, is shown by taking the first
  place where another solution would differ (`SumsAreSamples`). Two exceptions of the property were
  found by the attempt to prove it: `SumsFit`, and gray levels below 8 bits, which are not inverted.

Slices (`SlicesProofs`):

* `AcceptedIsKeptThm`: `WInv` adds that the slice and the offset stay within the array and the bound. grow keeps
  only what lies before the offset, which is all there is: it is called only when the bytes to be
  written reach past the array. `SeekWriterAssumption` says that data have no zero bytes, which
  `accepted` uses for "nothing yet".
* `SeenAsPaintedThm` and `PanicOnlyOffColumnZeroThm`: one inductive invariant, `IInv`, gives both. All
  images of an array are cut out of the first one made on it, with its stride (`Rooted`), so that a
  point has one place in the array through each of them (`SameSpot`) and two points share no byte
  (`SpotsApart`); every image has room in its array (`ImageFits`) and shows what was painted
  (`AllShown`). `Set` writes through one image and `PaintKeeps` carries it to the others; a copy is a new
  array with a root of its own (`CopiesKeeps`, `RowsShow`); the conversions that swap the bytes of a
  channel also turn the order they are read in (`SwappedShows`). Where `Set` or `NewMemPImageFrom` store
  the high byte first, the pixel is that of the `Turned` colour (`TurnedPixel`, `NativeIsTurned`); what
  `byte()` leaves of a number that fits is the number (`NarrowedPixel`). `RectsAssumption` says that rectangles
  have their corners in order, as `image.Rect` makes them, and that images do not begin left of
  column 0: there, whether copying a row panics depends on the capacity that `append` chose.

Decompression (`DecompressProofs`). What a recursive function of a model computes is known to the provers only once
the recursion is shown to have a solution: `Recursion` gives one for every recursion to arguments that
measure less, and `Descent` carries a fact along it.

* `PrefixesDescendThm`, `PanicOnlyWhenFullThm` and `RoomForEveryCodeThm`: one inductive invariant, `DInv`,
  gives all three. It says where `hi` is relative to `overflow` and to the table, when `last` is a
  code of the table and came before `hi`, that entries only ever point below themselves, also those
  left from before a clear code, and that less than a table-full of bytes waits in the buffer.
  `Expansion` is a recursive function along the chains; because they descend it has a solution
  (`ExpansionSolves`), and an expansion has no more bytes
  than its code is above the literals (`ChainsGood`), so that it fits (`DecodedFits`). The theorems
  are of the decoder for any codes offered below the current width (`OfferedAssumption`, and
  `LZWAssumption`, which has the powers of two ascend).
* `FaxRowsAlignedThm`: `FaxInv` says that the pixels are at least the imaginary row (`RowsOK`), so that
  a row above is there to look for `B1` and `B2` in, which lie in it (`Above`, from `FirstOfBetween`),
  and that the stream is a sequence (`FaxData`), so that `RunLength` counts some number of pixels and
  leaves a place in it (`RunLengthTyped`), whatever the bits. A pass or vertical mode goes to a
  place in the row above and paints up to it (`GoneTo`); `Painted` is the arithmetic of rows. For the
  stream to be a sequence the encoder's run codes have to be (`RunBitsTyped`), down to the tables
  (`TablesTyped`). `FaxAssumption` says that an encoder is given whole rows of a width above zero; what is
  decoded may claim any. `CutsAssumption` says that what is lost is not negative.
* `RoundTripThm`: that what comes back is a first part of the data is not inductive, since it says nothing of
  what is still in the stream. `StreamInv` has an invariant for each method. Data as it is and zlib's lie at
  their place in the stream (`PlainInv`). For the others the stream of an encoder is a path: a set of points
  from the beginning to where the encoder is, with a packet, code or mode from each to the next (`Packets`,
  `CodesTo`, `ModesTo`). An encoder's step adds a point (`PacketAdded`, `CodeAdded`, `ModeAdded`); closing the
  stream puts the end behind the last one and cuts from there (`CloseIs`). The decoder is always at a point:
  what is left of the stream lies where that point is, and what it holds is the data before it. A step takes
  it to the next point or, when the stream does not go that far, to an error.
  - PackBits: a point is a place in the stream and one in the data.
  - LZW: a point has the width of the next code and the strings that the codes since the last clear code
    have made. The decoder's table is one entry behind (`AtPoint`); the one missing is the entry being made,
    which a code may already name (`DecodesCode`). Both sides widen at the same code (`AdvancedTo`), a number comes
    back from its bits (`CodeReadsBack`), and entries from the one on that is saved next leave the bytes of
    the codes below alone (`ChainKept`).
  - Group 4: a point has the place in the image and whether a row begins there. The changing places that the
    encoder finds in its row and the decoder in the pixels painted so far are those of the image (`PlacesInRow`,
    `DecoderSees`), because the pixels are its first part. The modes are told apart by their first bits
    (`ModeAhead`), and no code of a run begins another, which is shown for all pairs of a
    table (`WhiteApart`, `BlackApart`, `LongApart`, `TablesApart`), so that the code found is the one written
    (`CodeFound`). Runs cut by the end of the data are counted short, never long (`RunsCounted`).

  `InputsAssumption` says that data are bytes, for LZW below the clear code; `ByteSizeAssumption` and
  `Int8Assumption` that a byte has bits and that its largest number is not negative. `EncoderAssumption` asks for two bits more
  in the widest code than in a literal: an encoder that clears the table before its last entries would
  otherwise have none to use (the code has four more).

Entries, getters (`DirectoriesProofs`) and the encoder (`EncoderProofs`):

* Bytes are the digits of a number. `Power` is a recursive function with laws (`Powers`), what a
  sequence of digits counts satisfies Horner's rule (`NumberHorner`), and each of encoding and
  decoding undoes the other (`DecodedEncoded`, `EncodedDecoded`), in both byte orders. Below 10, a
  `Base` would not hold the tags and types in two bytes (`BaseAssumption`).
* `SetThenGetThm`: that a Get method answers what was set is not inductive, since a Set method that the
  entry's type does not let through leaves the entry alone. `EntryInv` says what the last one let through
  has left (`Filled`). The bytes of a list are pieces of one length, and the i-th piece is found at its
  place (`FlattenEven`, `NthEven`); a number keeps what its bytes can count (`KeptNumber`), with a sign
  or without. `ArgumentsAssumption`: callers pass lists of integers and strings of bytes.
* `WrittenReadsBackThm`: `Lies` says that a piece lies at a place of a file. `FileInv` says that
  the file is `FileOf` the entry, and the header and directory what the two readers make of it. The five
  parts of the file lie one behind another (`FileIs`), so the header reads its
  mark, version and offset (`HeaderRead`), the directory one entry and no next one (`DirectoryIs`), the
  entry its tag, type and count (`EntryRead`), and its value where it was put: in the entry when it fits
  there, else where the offset says (`DataRead`), padded or not. The Get methods look at no more
  of the data than count and type promise (`AllTheSame`). The attempt to prove it found an exception that no run
  of TLC meets, `CountIsCut`: a classic TIFF writes the low four bytes of a count, so 2^32 values
  or more would come back as their number modulo 2^32.
* `GettersReadTheirTagsThm`: `TagInv` says that the tag of the entry is one of the table. The tables of forms,
  types and counts fit together (`RowsFit`), and the form makes of an entry that was read what the Get
  method made of the one written (`MadeIs`); other getters find no entry.
* `CutFileFailsThm`, `EncodedReadsBackThm` and `LayoutApartThm`: `Encoding` is all that `Encode` writes of an
  image, said at once: header, rows, count, entries, link and values (`EncodingIs`). `Buffers`, the value field
  and the values kept for later as each entry leaves them, solve a recursion. `TextInv` says that what was
  written is a beginning of `Encoding`, as long as `pc` tells, and that the two buffers are those of the entry
  that is next. It is proved a `Write` at a time (`MagicStep` to `AreaStep`): each brings the bytes that lie
  next in `Encoding`, or the first of them and an error (`Writing`). `SavedInv` says that the file is what was
  written, and `head` and `ifd` what the two readers make of it.
  - A cut file: an entry is found if the file is long enough (`EntryFound`), its value if the file goes on past
    the place where the value begins (`RawIs`); values follow each other in the order of the entries,
    so the last one decides (`CutFileRead`).
  - The whole file: an entry that was written answers for its tag with its values (`SaidIsGot`), a tag
    that was not answers nothing (`UnsaidIsNot`). So the tags read are of the image's type (`ImageOfTags`),
    the strip holds its rows (`StripIs`) and the colour map its palette (`PaletteIs`).
  - The layout: a byte of the file is of the header, the strip, the directory or one value (`ValueOver`), since
    no value begins before the one in front of it has ended (`ValuesApart`).

  Sorting leaves the entries as `Encode` lists them (`SortedIs`), each tag once and in ascending order.
  `PaletteAssumption`: a palette has no more colours than a byte can tell apart, and a level has 16 bits;
  `ImagesAssumption` lists the types of Go images. The attempt to prove the three found an exception,
  `OffsetsFit`: `Encode` computes with ints and writes the low 32 bits of each size and offset
  (`encoder.go:262`, `:324`, `:409`), so that those of a file of 4 GiB or more point elsewhere.
* `PanicOnlyOnCutImagesThm`: `RowsInv` says how many bytes are out when row `y` is next. The row that is cut
  out of the rest of `Pix` reaches past its end only for the last row of an image that ends with
  its parent and starts right of it (`CutImage`), which is arithmetic of strides.
  `ImagesAssumption` says that margins are not negative, and that an image without pixels has none:
  `SubImage` of an empty rectangle is the zero image.

Only model-checked: liveness (`OpeningEnds`, `OpenReaderReturns`, `DecodesAll`) and anything with ENABLED; and
of `ImplementsOpen` what goes beyond `KeepsPromise`, that the buffer holds what it must for compact files. Induction over data is possible where a set
of counterexamples has a least element (`WFMin` with `NatLessThanWellFounded`), as done for `Links`, `MaxOf`, the
sums of the predictor, the expansion of LZW codes and the runs of Group 4; the library's theorems that take an operator as a parameter cannot be used.

## 6. Disagreements with the documentation

Each is a run that checks one statement and is refuted by what the code does.

| run | statement | code |
|---|---|---|
| `readers_parity` | "100% correctness parity with the traditional reader" (`OPTIMIZED_READER_FLOW.md:4`) | sub-IFD offsets stored beyond the first buffer are fetched but not followed (`reader_optimized.go:446-465`); what they lead to is dropped when it is not in the buffer (`:708`) |
| `readers_loop` | "Prevent infinite loops in parsing" (`:203`) | no breaker in `identifyMissingDataRanges` (`:282`) |
| `readers_nilsub` | "guaranteed success" of the fallback (`:245`) | nil IFDs are dereferenced (`:1061`) |
| `blocks_padding` | an image in tiles decodes to the same pixels (`decoder_test.go:119`, `:134`) | loops with a running offset do not skip the padding of a tile the right edge cuts (`tiff_ifd_block.go:254`); the test's format, RGB of 8 bits, computes its offsets |

Seen while modelling, without a run of their own:

* the smart batch replaces the ranges of values and sub-IFDs that were found missing before it
  (`reader_optimized.go:246`), and those that no cluster takes in read as zeros (`:541`);
  `BatchFindsEveryIFD` and `ImplementsOpen` say for which files this cannot be;
* an entry of a sub-IFD that could not be read whole has a count and no data, which the getters index
  (`tiff_ifd_entry.go:93`), so that `ImageConfig` may panic on it as well;
* a colour set on two channels of one byte is stored as `byte()` of 16 bits (`image_pix_slice.go:205`)
  and not as its high byte, which the other numbers of channels store (`image_color.go:169-211`);
* the 8-byte probe for the next IFD (`reader_optimized.go:508`) misses a link at the end of
  the buffer, which "should be after smart batching" in it (`:683`);
* "I/O Calls: 2-6" (`OPTIMIZED_READER_FLOW.md:60`) leaves out two reads per IFD of the chain
  (`reader_optimized.go:1174`);
* "Partial reads: retry once, then fallback" (`:215`): the count of the read is ignored (`:571`);
* "Truncated files: fallback" (`:188`): zeros that no read filled end a chain (`:541`);
* the LZW decoder indexes out of range when no clear code comes (`lzw_reader.go:165-204`, against
  the comment at `:80`), which `PanicOnlyWhenFull` delimits;
* `seekioWriter.Close` writes the bytes before the offset only (`seekio.go:165`);
* bilevel images where white is zero are not inverted, while gray ones are (`tiff_ifd_block.go:280`);
* gray samples of different depths divide by zero, and Group 4 data that ends early indexes
  out of range (`:279`, `:243`): `PanicOnlyUnchecked`;
* tiles without a height or width leave the image blank without an error, and an array of offsets
  of the wrong length makes the header of the file the data of every block (`:94`);
* a gray image with a second sample per pixel takes that sample for the next pixel.

* `BYTE` is read as signed and `SBYTE` as unsigned (`tiff_ifd_entry.go:93`, `:99`);
* `SetString` counts a byte more than it stores (`:444`), so that a string that just fills the
  value field is written there and looked for elsewhere;
* `GetXResolution`, `GetYResolution`, `GetXPosition` and `GetYPosition` ask for integers where the tag
  is a `RATIONAL` (`tiff_ifd_tag_getter.go:289`) and never answer; `GetDateTime` passes a nil location
  to `time.Date` and panics (`:485`); the table asks for `ExtraSamples` in bytes, the encoder writes
  shorts;
* `Encode` ignores its options (against `encoder.go:282`), cuts width and height to 16 bits (`:401`) and
  sizes and offsets to 32 (`:324`), and
  panics on a sub-image that touches the lower edge of its parent and begins right of it (`:218`);
  `EncodeAll` does nothing;
* `DecodeConfigAll` panics for every file that opens (`decoder.go:38`);
* `decode_G3` takes Group 3 data for Group 4, and data without an end of their own (none, PackBits)
  come back short without an error when the stream is cut;
* 16-bit colours are stored with the high byte first by `Set` and `NewMemPImageFrom` (`image_color.go:175`,
  `image.go:194`) and read in the order of the machine, which `image.go:31` promises; colours of other
  channel types are not scaled; a colour that `At` returns is a view of the pixel that changes with it;
* `NewMemPImageFrom` copies the rows of 16-bit images from column 0 (`image.go:130`) and panics when the
  image begins elsewhere; `DepthOf` multiplies a kind by eight instead of its size (`:389`);
  `SubImage` leaves the magic name out.

`WrittenReadsBack`, `GettersReadTheirTags`, `EncodedReadsBack`, `LayoutApart`, `CutFileFails` and `SeenAsPainted`
except these cases by name, in the comments above them. `PixelsFromTheirSamples` excepts the padding by `RowsFit`, a second sample by `SamplesFit`, sums over
channels that Group 4 data do not have by `SumsFit`, and a wrong number of offsets; `ConfigForetells`
excepts images without pixels; `CompleteOrError` excepts tiles without a size by `Proper`.

## 7. Not modelled

In the readers: byte order, data types, exact byte widths and the two-byte entry count, which are
one word unit (`EntryValues` has them exactly, for one directory); `BufferUsed`, `Efficiency` and
logging; sub-IFDs of sub-IFDs, which neither reader follows; the contents of an IFD whose
reading failed half-way (`BrokenIFD`); `NewReader` and the image accessors, which forward a
call. `seekioReader.Seek` accepts offsets from the other origins and negative ones, which no reader
here uses.

In the blocks: the scaling of gray levels to 8 bits, alpha that is set to opaque, the colour map,
more than one plane (the code ignores PlanarConfiguration), and `DecodeBlockData`, which is
`DecodeBlock` up to the predictor; `EncodeBlock` is empty. `ReadBits` appears as a position in bits.
`IFD.Bytes` (`tiff_ifd_helper.go:278`), which nothing calls: it writes the count of entries in four
bytes and leaves values outside the directory out.

In the codecs: the least-significant-bit-first order of the LZW reader, which TIFF does not use;
deflate and JPEG, which belong to other libraries. In the entries: fractions of IEEE numbers, and
`NewIFDEntry`, `SetValue` and `GetValue`, which panic with "TODO"; tag setters have no methods. In the
encoder: the predictor and Deflate branches, which no call reaches. In the images: channels of
more than two bytes, signed and floating-point ones, the luminance of colours that are not gray, and
`SizeofImage`, `ChannelsOf` and `DepthOf`, which report sizes.

Names of tags (`z_tiff_types_string.go` in the main), the generator behind them (`gen.go`,
`gen_helper.go`), `writer.go` and `options.go`, which have no working operation, and the programs under
`apps`, `debug` and `examples` have no state to model.

## 8. Plan

1. Done: the readers, the entry points, ranges, all decompression, entries, getters, the encoder, the
   buffering writer, blocks and pixels, shared images; the theorems of section 5.
2. A proof to come: which files, other than those of `OneReadForFrontMetadata` and `BatchFindsEveryIFD`,
   are laid out so that the buffer always holds their metadata, so that `ImplementsOpen` holds of them.
