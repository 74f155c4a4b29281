# dzip-archive: specification, model checking and proofs

TLA+ modules for the `dzip` crate: reading, packing, extracting and copying
Marmalade DZIP archives.  The modules are translated from the source under
`src/src/`; PROJECT.json names, for each definition, the lines it stands for.

## 1. The system

| Component | Source | State it keeps | Operations |
|---|---|---|---|
| Compatibility rules, physical layout | `compat/original.rs`, `format/layout.rs`, `codec/flags.rs` | none (pure) | what flag bits mean; resolving stored records into byte spans |
| Metadata parser | `archive/metadata.rs`, `reader.rs` | read position, limits used up | `parse_metadata` |
| Archive reader | `archive.rs`, `reader.rs`, `volume.rs` | parsed metadata, `resolved_chunks`, `volume_sizes`, `dz_context`, codec limits, two reused buffers, open volume handles | open, `read_entry*`, `resolve_volume`, `resolve_all_volumes`, `MemoryVolumeSource::insert` |
| Archive builder | `builder.rs`, `builder/plan.rs`, `builder/volume.rs` | entries added; during a build: the plan, a handle and a position per volume, the chunk table | `add_bytes`, `add_path`, `write_to`, `write_to_path`, `write_to_directory`, `write_to_sink` |
| Metadata writer | `writer.rs` | the output position | one call per header section |
| Archive image | `image.rs` | all volumes, undecoded | `from_volumes`, `open_path`, `write_to_path` |
| Extraction | `extract.rs`, `path.rs` | the output directory, the entry being extracted | `extract_to` |
| Codec dispatch | `codec/` | none | `encode`, `decode` with limits, the DZ decode context |
| Codecs | `codecs/{dz,zlib,bzip,lzma}` | coder state per chunk | encode and decode one chunk; DZ also one archive |

How they interact.  The builder plans an archive, asks the codecs for payloads
(in parallel batches, DZ all at once), writes them through a `VolumeSink`, and
writes the header last.  A chunk record may hold a placeholder (the decoded
length) where its encoded length should be; the reader finds the real span from
the next record's offset or from the end of the volume.  For auxiliary volumes it
does so lazily, through a `VolumeSource`, the first time a chunk of the volume is
read.  DZ chunks share one dictionary, the common-buffer chunks, which is loaded on
first need and then taken off the workspace every decoder may use.  Extraction
drives the reader entry by entry.  An image goes round both: it keeps and rewrites
the volumes as they are.

What is hard.  Calls on an archive take `&mut self`, so one runs at a time, but the
volumes' files belong to the outside and may appear or grow between any two steps;
calls fail half-way and are tried again on the state they left; the builder's
workers finish in any order; source files change after they were opened; every
write may be the last; and the layout of an archive is implied by what is written
next to what.  PROJECT.json lists these hazards at their lines with the properties
that watch them.

What makes each part correct:

* layout: the volume-by-volume computation agrees with the one over the whole table;
* reader: a chunk is read by its real span, or not at all; limits hold for real
  spans too; the workspace is accounted for; reads deliver the entry in order;
* builder: once the header is there, the archive reads back; header and payload do
  not meet; the result does not depend on scheduling; a bad request touches nothing;
* image: what is written is what was loaded; a bad name touches nothing;
* extraction: others' files are left alone, nothing leaves the output directory,
  and at most one file is left incomplete;
* codecs: what a decoder returns for a span, whole, cut or too long, is what the reader
  counts on; the two sides keep the same adaptive state; the analysis of a DZ archive
  gives the chunk encoder references it can write.

## 2. Modules

| Module | Models | EXTENDS / INSTANCE |
|---|---|---|
| `DzipFormat` | flag words, coder selection, placeholder lengths, both layout functions | community modules |
| `DzipArchive` | a parsed archive, what `finish_open` admits, limits, what decoding a span gives | `DzipFormat` |
| `ArchiveReader` | the reader as a state machine | `DzipArchive` |
| `EntryStore` | abstract specification of the reader: every chunk judged afresh | `DzipArchive` |
| `ArchiveReaderProofs` | proofs: layout, limits and workspace of the reader, the dictionary, what a read delivers, and that the reader implements `EntryStore` | `ArchiveReader`, `Sums` |
| `Sums` | lemmas: sums over finite sets, places in an order, joined sequences | community modules, TLAPS |
| `ArchiveBuilder` | one build, from the request to the header | `DzipArchive` |
| `ArchiveBuilderProofs` | proofs about `ArchiveBuilder` | `ArchiveBuilder`, `Sums` |
| `ArchiveMetadata` | the metadata block: parser, limits, writer | community modules |
| `ArchiveMetadataProofs` | proofs about `ArchiveMetadata` | `ArchiveMetadata`, `Sums` |
| `ArchiveImage` | images, loaded and written file by file | |
| `ArchiveImageProofs` | proofs about `ArchiveImage` | `ArchiveImage`, TLAPS |
| `Extraction` | `extract_to` against a changing directory | |
| `ExtractionProofs` | proofs about `Extraction` | `Extraction`, TLAPS |
| `AdaptiveModel` | the symbol frequencies of the DZ coder and their Fenwick tree | community modules |
| `DzRangeCoder` | `RangeEncoder` and `RangeDecoder`, one stream | `AdaptiveModel` |
| `DzRangeCoderProofs` | proofs about `DzRangeCoder` | `DzRangeCoder`, `Sums` |
| `ReferenceSign` | the life of one adaptive model, with the constants of the code | `AdaptiveModel` |
| `DzChunk` | the DZ chunk format: literals, matches, references, and the two attempts to decode it | community modules |
| `DzReferences` | `find_common_references`: the scan of all inputs, trimming, roots and their order; then each chunk | `DzChunk` |
| `DzReferencesProofs` | proofs about `DzChunk`, and that the analysis gives it what it counts on | `DzReferences`, `Sums` |
| `CoderBits` | bit fields, packing, canonical Huffman codes | community modules |
| `ChunkCoder` | one chunk from a writer through storage to a decoder; dispatch and limits | `CoderBits` |
| `ZlibCoder`, `BzipCoder` | DEFLATE and BZip2, encoder and decoder | `ChunkCoder` |
| `LzmaRangeCoder` | the binary range coder of LZMA, both sides | community modules |
| `LzmaCoder` | LZMA-alone, encoder and decoder | `ChunkCoder`, `LzmaRangeCoder` |
| `ChunkCoders` | the three coders behind the dispatch, and what they promise the reader | the coders; `DzipArchive` |
| `MC...` | the instances TLC checks | |

`DzipFormat` and `DzipArchive` are shared: the builder's `ReadsBack` judges what was
packed with the very operators the reader uses (`Admissible`, `ResolveChunkLayout`,
`DecodeOutcomes`), which is how reader and builder are composed.  `ChunkCoders` instantiates
`DzipArchive` for the same reason: what the coders do with a span is held against
`DecodeOutcomes`, which `ArchiveReader` takes for granted.  `DzReferences` extends
`DzChunk`: the jobs that the chunk module assumes (`JobsAssumption`) are what the
analysis hands over (`HandsOverSoundJobs`, proved), both in the words of `SoundJob`.

### State and actions

**Flag words** are sets of bit names.  `"UNKNOWN"` stands for any bit the reader does
not know.  Two fields of a chunk are not on disk but describe the bytes it points
at: `need`, the bytes its stream takes, and `work`, the workspace its decoder wants.
`DecodeOutcomes` says what a decoder does with a span: with all bytes it is exact;
zlib and LZMA fail on fewer and ignore more; BZip2 also fails on more, because it
looks for another stream; DZ reads 0xff past the end, so fewer bytes may give
other data and no error.

**ArchiveReader.**  `phase`, `sizes`, `resolved`, `dz_context`, `retained`, `workspace`
are the fields of `Archive`; `pc`, `entry`, `part`, `todo`, `out` are where the running
call is.  `Open` is `finish_open`; `ResolveVolume` one call of `resolve_volume`;
`StartSweep`/`SweepVolume` are `resolve_all_volumes`; `StartRead`,
`ResolveChunkVolume`, `DeliverPayload`, `FinishRead` are `read_entry_to`, with
`ResolveCommonVolume`, `WeighCommonChunk` and `LoadContext` for `ensure_dz_context`.
`VolumeArrives` is the outside; it may happen between any two of these.
`ResolveVolumeLayout` keeps the order of the code: the layout is overwritten before
the limits are checked and the size is recorded after.
`decode_buffer` is the buffer that goes to a decoder and comes back with the chunk it
decoded: a decoder has to clear it first (`Refilled`), and `DeliverPayload` writes all it
holds.  It outlives the read; only a chunk that is refused, or a writer that refuses the bytes,
loses it.  The input buffer carries nothing over: it is resized to the length of the span and
`read_exact` overwrites all of it.

**ArchiveBuilder.**  A file's contents are the writes made to it, with their
positions, so a later write that covers an earlier one shows.  `Prepare` is
everything checked before the first volume is opened; `OpenVolume`, `LoadDz`,
`EncodeDz`, `PlaceHeader`, `PadVolume`, `WritePayload`, `WriteCommon`,
`PayloadsWritten`, `WriteHeader` follow `write_prepared`; `EncodeSegment` is one worker of
a batch.  `Fails` and `HeaderCut` end a build at any step; `SourceGrows` is the
outside.

**ArchiveMetadata.**  Bytes are numbers below `Base`, a u16 is two of them, so every
field keeps its width in bytes and the terminator of a chunk list is the largest u16.
One action per field group of `parse_metadata` (a string, a directory id, a chunk id,
a chunk record), each with the limit the code checks there; `Rename` and
`WriteMetadataTo` are a caller who edits the `RawArchive` and writes it back, after
which it is parsed again.

**ArchiveImage.**  A file's bytes are a value, `NamesIn` and `Declared` its metadata.
One action per file read or written, `Replaced` for the outside.

**Extraction.**  A tree of nodes below the output directory.  `CheckParent`, `MakeParent`,
`CheckTarget`, `OpenTarget` and `ReadEntry` are the file-system calls of `extract_to`, in
their order; `SomeoneCreates` may happen between any two.

**DzRangeCoder.**  The fields of `RangeEncoder`, then those of `RangeDecoder`; `Encode` and
`Decode` code a symbol, `ShiftOut` and `ShiftIn` are one turn of `renormalize` on either
side, `Finish` writes the terminator and starts the decoder with a model of its own,
`FinishedPosition` is what the decoder says when the stream is over.  The two
`renormalize` share the operators for their conditions, which are the same text in
the code; the mutants change one side only.  A u32 is four numbers below
`Base`.

**DzChunk.**  A stream here is the sequence of symbols that range coder carries, each with
the model it was coded with; the decoder is in step as long as it asks for the
symbols with those models.  `EncodeBoundary`, `EncodeReference` and `EncodeEnd` are those arms of
`compress_chunk_with_references`; `FindMatch`, `EncodeMatch`, `EncodeLiteral` and
`EncodeLastLiteral` are the paths through `LazyLzParser::next_bounded`, which keeps one match
pending while it looks at the next byte.  `DecodeLiteral` to `DecodeEnd` are the arms of
the decoder's `match`, each with its errors; an error leads through `GiveUp` to the second attempt that `decompress_chunk_with_output` makes when there is a
common buffer.  `Found` is the match finder: a match, at its full length, with any of the
positions in the chains, or none; which one is best is a matter of costs, and any
may be (as it may with chains cut to 10000 positions and a window shorter than the chunk).
The common buffer is a list of segments; each of their bytes is taken to be coded in
one byte, which matters only to where segments begin and references end.  A
target that is no segment's start fails or gives other bytes (`Stray`).

**DzReferences.**  `scans` holds the `CommonScanState` of every input; `PassOver`, `SkipMarked`,
`FindNothing` and `FindReference` are one turn of the inner loop, `AdvanceScans` the
end of a turn of the outer one, with the two error counters that keep inputs of
different lengths in step.  `flags` and the hash chains are derived: a byte is a target,
common or a start because of the selections made, a chain holds what the insert cursor
has passed.  Any candidate may score best, or none, except that a run of zeros is never
looked up.  `TrimSelections` is one turn of the loop of `trim_common_selections`;
`PlaceSeed`, `VisitCandidate` and `EndVisit` are `order_common_roots`, with `visits` for the
candidates of the calls of `visit` that wait.  What looks like an oversight is kept: inside a
run of one byte a match grows past `max_common_match`; the place of a candidate among
the distinct ones is used as a place among all; at most eight candidates; after a
candidate that is placed already the last one is dropped, not this one.  `HandOver` is
`compress_archive_slices` turning to one of the inputs; from there on it is `DzChunk`.
A common byte ahead of the walker makes the code wait; no input here leads there, as
no chain gets ahead of its walker (`Walker`, in the proofs).

**ChunkCoder.**  `phase` leads a chunk from the encoder (`"encode"`) through `"stored"` and
`ReadChunk`, which gives the decoder all of the stream, a part of it or a byte too many,
and asks for the right length or a wrong one, to `"decode"` and `"done"`.  `coder` holds the
locals of the function that runs.  `need` and `marks` are history: how many bytes a
decoder has to see, and the points in the stream that the encoder passed, with
its adaptive state there.  The writer is dzip's encoder or another program that makes
every choice the format allows, within a bound: two blocks or streams.

**ZlibCoder.**  `ZlibEncodeSymbol` is a turn of the encoder's loop: one block, fixed trees.  Other
writers (`ZlibForeign...`) use stored, fixed and dynamic blocks, gzip headers with optional
fields and the zlib framing.  The decoder has an action per block header, stored
block, code length, pair of trees, symbol and distance, and refuses where the code does:
Huffman codes are read with zeros past the end, and are consumed only if they are there.

**BzipCoder.**  The sort of the rotations goes in rounds that double the compared prefix
(`BzipRank`); a block is then written at once (`BzipWriteBlock`), from run-length
coding to selectors and code lengths.  The decoder has an action for each part of a
stream.  Other writers randomize blocks, mix trees and put streams behind one another.

**LzmaCoder.**  One action per packet on either side; a bit goes through `EncodeBit` and `DecodeBit` of
`LzmaRangeCoder`, whose `ShiftLow` keeps the cache and the bytes that wait for a
carry.  Contexts are named as the code indexes them: state, position bits, the bits of the
tree so far, for literals the byte before and the one at the last distance.

In these three a candidate of the encoder's hash chains may always be found or
missed, so what is shown does not rest on the matcher; the lazy and greedy choices
between candidates are those of the code.

## 3. Runs

All runs finish in half a minute or less.

| Run | What it asks | Distinct states |
|---|---|---|
| `reader` | the reader's invariants, while volumes appear and grow; it implements `EntryStore` when they arrive whole | 12550 |
| `builder` | the builder's properties over nineteen requests | 3164 |
| `image` | images, written and loaded, with replaced files | 50651 |
| `image_alias` (violation) | does `write_to_path` write *every* volume? | |
| `extraction` | repeated extractions into a directory others use | 5663 |
| `metadata` | the parser and the writer of the metadata block | 141876 |
| `metadata_nul` (violation) | do written names read back? | |
| `range_coder` | encoding and decoding of streams | 89590 |
| `dz_archive` | the references of small archives; every encoding of their chunks and of others, and its decoding | 306249 |
| `codecs` | chunks through Zlib, BZip2 and LZMA, stored, cut and read | 236274 |
| `dz_untrimmed` (violation) | is a chunk made without trimming decoded to its bytes? | |
| `reference_sign` (violation) | can a model always code its symbols? | |

**Reader.**  `ResolvedAgrees`: after any sequence of resolutions the layout is the one
`resolve_chunk_layout` would compute from the recorded sizes; only a volume refused
for its limits keeps a layout that is not recorded.  `RecordedVolumesWithinLimits`:
a recorded size means checked limits.  `WorkspaceAccounted` and `DictionaryWhole`: the
dictionary is weighed by resolved lengths and paid for once.  `PayloadPrepared`: no
payload is read by a stale length.  `DeliveredInOrder`: output is a prefix of the
entry without anything left in the decode buffer, and wrong bytes can only come from a DZ chunk in a volume that was resolved
while it was still growing (the code keeps the size of that moment; the property
pins down exactly this and no more).  `ResolutionIsFinal`: nothing resolved or loaded
ever changes.  `CallsReturn`: every call ends.

Bounds: volumes 0 to 2, lengths below ten, `MaxU32` = 9 (reached by one chunk, so the
clamp is exercised), at most six chunks.  This has two auxiliary volumes to resolve in
either order, a dictionary in a volume of its own and in the main one, a placeholder
record that is last in its volume and one that is not, two records at one offset,
a volume that never appears, and one that exceeds a limit only once it has grown.  Six
archives are there to be refused: an unknown flag bit, a DZ chunk that is marked as common
buffer, a metadata-only record in an entry, an entry whose chunk is missing, a volume
without a name, and an input longer than its limit.

**Entry store.**  `EntryStore` has no caches and no stages: a read fails exactly at a
chunk that could not be read, from all the volumes there were when the read began,
and succeeds otherwise.  `ImplementsEntryStore` says that the lazy reader refines it, with
`loaded <- dz_context` and `reading <- entry`.  With volumes that grow it does not, by
design: the code keeps the size of the moment it looked.  The refinement mapping
therefore shows the store an archive that is never opened unless it is `Promised`: its
volumes arrive in one piece (`ArrivesWhole`), and none of its DZ streams is longer than
the span its own volume gives it (`PackerLaid`; the decoder reads 0xff past such a span and
may return other data).  `DeliveredInOrder` speaks of the others.

**Builder.**  `ReadsBack` is the main property: as soon as the main file carries a
complete header, whether or not the call returns Ok, the reader admits the archive,
every payload is where its record says and covered by nothing, and the span the
reader resolves decodes to the bytes packed.  It assumes what the caller owes
(`Sound`): names of different files, nothing behind a borrowed writer's archive, no
raw flags the reader refuses; instances without each of these are among the jobs,
and each really breaks it.  `Sound` also leaves out an input whose encoding is longer than
`u32::MAX`: `write_chunk_payload` (builder.rs:501-506) checks the length it records, which for
Zlib, BZip2 and LZMA is the input's, and not how many bytes it wrote; the proof of
`ReadsBack` found that.  `HeaderFits`, `ChunkIdsBelowTerminator`,
`LayoutDeterministic` (offsets follow from the request, for every batch size and
completion order), `RefusalTouchesNothing`, `BuildReturns`.

Bounds: `MaxU16` = 5 and `MaxU32` = 400 stand for 65535 and 2^32-1: small enough that
requests run into each, and large enough for a header.  `MaxSource` = 3 stops growing
sources.  Batches of one to three workers over at most five segments give partial,
exact and several batches.

**Image.**  `WritesDistinctVolumes`, `BadNameTouchesNothing`.  The
second covers the names that do not resolve, those with `..` or a colon in a part.  An empty
name or `.` resolves to the directory itself (path.rs:127-131): writing it fails after
the main volume was rewritten, so here the comment in the code ("an invalid auxiliary path
cannot leave a partially rewritten archive behind") says more than it does; such a failure is one of
`WriteFails`.  The comment on
`write_to_path` promises "Write every retained volume without changing any byte."
`image_alias` shows that two names for one file break that promise while the call
returns Ok; with distinct files it holds.  Bounds: three files, main files naming two
volumes, one name twice, themselves, an unusable name, or miscounting.

**Extraction.**  `LeavesOthersAlone`: nothing that exists changes but the targets, and
without overwriting only what this call created, although the check and the
creation are two steps.  `ExtractedInOrder`: whatever happens, entries before the
current one are whole unless a later one has the same path, and Ok means all.
The type invariant includes that everything created is in a real directory.  Links exist from
the start only; others create files and directories, they do not remove any, and an
error while the target's own metadata is read counts as a failed call.

**Metadata.**  `HeldWithinLimits`: at every step of a parse, not only at its end, the
tables are within the limits.  `AcceptedIsSound`: what is accepted agrees with its own
counts and with every limit as a whole.  `AccountedExactly`: the size the limit is held
against, reckoned from the tables, is the number of bytes read.  `Lossless`: the writer
reproduces those bytes.  `ReadsBack`: what was written from consistent tables within
the limits is accepted and read back unchanged, after renaming too.  The streams are
four sound headers, all their prefixes, all their one-byte changes, and headers whose
counts and tables disagree; the limits are roomy, exactly those the largest header
needs, and one less in each.  Bytes of three values (u16 below 9) make the terminator,
the DZ bit and the nul turn up in every field.  `metadata_nul` is a disagreement:
`ArchiveString::new` refuses nuls, the conversions from Rust strings do not, and a name
made that way is written as one field too many, although `write_metadata_to` promises
the metadata "exactly as represented by this value".

**DZ range coder.**  `RoundTrip`: the decoder reads what the encoder wrote whatever bytes
follow, and no side fails.  `InLockstep`: before each symbol it has the encoder's
interval and model, so no sequence of symbols ends in a difference that is only seen
later.  `ModelsSound`: after any updates the symbols' intervals are adjacent, non-empty
and found by the tree.  `FinishesAtTheEnd`: the decoder finds the end of a stream it
was given too many bytes of, where the next one of a common buffer begins.  With
bytes of two bits and totals up to 16, four symbols are enough for several
halvings of the frequencies, for intervals cut to avoid a carry and for terminators of
more than one byte.

The models of that run have more symbols than their increment.  `reference_sign`
is about those that have not, with the real constants: `reference_sign` (2 symbols,
increment 16), `reference_base` (8), and small tables.  A frequency there can reach
65536 before the total exceeds it, and wraps.  After one negative reference and 12288
positive ones (or the reverse) the frequency of the sign in use is zero, its
interval is empty, and `RangeEncoder::renormalize` does not end.

**DZ archives.**  `HandsOverSoundJobs`: however the scan goes, whatever is trimmed and in
whatever order the roots come to stand, the references of a chunk follow one another,
none begins where a segment was taken from the chunk (the encoder would write a
literal in its place and pass it over), and the segment each names decodes, across the
restarts behind it, to its bytes.  The archives are every input of eight bytes of two values,
every pair of five and four, and a few that are longer or odder: a run of one byte, where
matches outgrow `MaxCommon`, roots that are candidates twice, a source inside another,
an input that is empty or too short, zeros, and bytes that matches within the chunk
cover.  References there are two bytes and more, so selections meet often;
8 * length and the factors 0, 1 and 10 have trimming keep all, drop single sources, and
take several rounds.  In these bounds every action is taken, also a candidate that was placed while
it waited.

**DZ chunks.**  `ParserFollows`: the parser keeps its own position and a match from the
call before, while segment starts and references move the encoder; the two stay one
byte apart at most, the pending match never crosses the next event, and no byte is
left out of the chains.  `InLockstep`: before each token the attempt that takes the bases as the
encoder did has its output position, recent distances and reference bases, and both
attempts ask for every symbol with the right model.  `RightAttemptRoundTrip`: that
attempt gives the bytes encoded, is made first where trimmed chains were used, and
is not disturbed by a failed one before it.  The chunks are all those of eleven bytes of
two values that begin alike, in which distances come back after three others, and
some of up to sixteen bytes with references that follow one another directly, start next to segment starts, run
through a segment's end into the next, and use one segment twice; groups of one
payload bit make most numbers take several groups; matches overlap themselves and
reach the longest length, `MaxMatch` = 4.

`dz_untrimmed` is a disagreement.  Without trimming the encoder's bases return to zero; a
decoder that starts with the other rule reads its second reference from another
place.  The code relies on that to fail.  In the run it hits the start of another
segment, and the chunk decodes to other bytes with Ok; `Stray` is {"fails"} there, so the
run does not rest on what a target inside a segment decodes to.

Groups of one bit, which the settings allow, are excluded by `SettingsAssumption`: they
carry no payload, and `encode_grouped` does not end for a number other than zero.

**Codecs.**  `OutcomesAsPromised` is the bridge to the reader: a chunk whose record
tells the truth decodes to its bytes or is refused, exactly as `DecodeOutcomes` says of
the bytes at hand; one exception is stated, `ChecksumMisplaced`, a chunk in the zlib
framing (which dzip does not write into archives) whose span is longer than its stream: its checksum is
looked for at the end of the span.  `NeverOtherBytes`: what a decoder has put out is at
every step a prefix of what was encoded, also when the stream is cut or the length
wrong, and Ok comes with the length asked for.  `InLockstep`: between two symbols the
decoder is at a point of the stream the encoder passed with as much input and with the
same state: recent distances and every probability of LZMA, the running CRC of
BZip2.  `RangeCoderSound`: a carry never reaches a byte already written, and the decoder stays in
its range.

The cuts of a stream include the bytes that do not matter: the LZMA decoder stops at the
expected length and never reads an end marker.  An
empty chunk has no span and is never decoded by Zlib or LZMA.  Bounds: bytes of four
bits (`ByteBits`), tables of the same shape with fewer entries, blocks of six bytes, groups of
two symbols; `MaxInputSize` = 41 and `MaxOutputSize` = 23 are each met exactly by a chunk
and exceeded by one.  The
inputs are all strings of up to five bytes (four for BZip2) over two values and one or more for
each case that needs length: a run longer than the longest match, a block that fills up
inside a run, a distance beyond the shared table, a carry through waiting bytes.

### Fairness

`ArchiveReader`: weak fairness of the steps of a running call.  A call runs in its
caller's thread and never waits for another; the outside and the start of calls have
no fairness.  `ArchiveBuilder`: weak fairness of `Work`, for the same reason (a batch
is joined by its own thread pool), none for failures.  Deadlock checking is off where
things end: a refused header or archive stays refused, and one build returns once.

## 4. Proofs

A theorem holds for every value of the constants its module's `ASSUME`s allow; a run shows
the same property on an instance.

| Module | Theorem | Property |
|---|---|---|
| `ArchiveReaderProofs` | `ReaderInvariant` | `IInv` |
| | `TypeCorrect` | `TypeOK` |
| | `LazyLayoutAgrees` | `ResolvedAgrees` |
| | `RecordedMeansChecked` | `RecordedVolumesWithinLimits` |
| | `WorkspaceIsAccounted` | `WorkspaceAccounted` |
| | `PayloadIsPrepared` | `PayloadPrepared` |
| | `ResolutionStaysFinal` | `ResolutionIsFinal` |
| | `DictionaryIsWhole` | `DictionaryWhole` |
| | `InOrderOrIncomplete` | `DeliveredInOrder` |
| | `ReaderImplementsStore` | `ImplementsEntryStore` |
| `ArchiveBuilderProofs` | `TypeCorrect` | `TypeOK` |
| | `HeaderAsPlanned` | `HeaderFits` |
| | `IdsBelowTerminator` | `ChunkIdsBelowTerminator` |
| | `RefusedUntouched` | `RefusalTouchesNothing` |
| | `LayoutFixed` | `LayoutDeterministic` |
| | `ReadsBackWhatItPacked` | `ReadsBack` |
| `ArchiveMetadataProofs` | `TypeCorrect` | `TypeOK` |
| | `ParseWithinLimits` | `HeldWithinLimits` |
| | `AcceptedSound` | `AcceptedIsSound` |
| | `SizeIsBytesRead` | `AccountedExactly` |
| | `WritesBackWhatItRead` | `Lossless` |
| | `ReadsBackWhatItWrote` | `ReadsBack` |
| `DzReferencesProofs` | `ParserFollowsTheEncoder` | `ParserFollows` |
| | `CInvHolds` | `CInv` |
| | `EncoderAndDecoderInStep` | `InLockstep` |
| | `RightAttemptDecodes` | `RightAttemptRoundTrip` |
| | `RecentIs`, `GroupsReadBack` | (a distance and a number are read back as they were written) |
| | `AnalysisHandsOverSoundJobs` | `HandsOverSoundJobs` |
| | `ParserFollowsInArchives` | `ParserFollows`, for every archive |
| | `ArchivesInStep` | `InLockstep`, for every archive |
| | `ArchivesDecode` | `RightAttemptRoundTrip`, for every archive |
| `DzRangeCoderProofs` | `ModelsStaySound` | `ModelsSound` |
| | `DecodesWhatWasSent` | `RoundTrip` |
| | `CodersInLockstep` | `InLockstep` |
| | `EndsWithTheStream` | `FinishesAtTheEnd` |
| `ExtractionProofs` | `TypeCorrect` | `TypeOK` |
| | `InOrder` | `ExtractedInOrder` |
| | `OthersLeftAlone` | `LeavesOthersAlone` |
| `ArchiveImageProofs` | `DistinctVolumesWritten` | `WritesDistinctVolumes` |
| | `BadNameIsHarmless` | `BadNameTouchesNothing` |
| | `RestingImageIsComplete` | (between calls an image has the volumes its settings announce) |
| `Sums` | `SumWith`, `SumWithout`, `SumCongruence`, `SumMonotone`, `FlattenJoins`, `PlacesFilled` | lemmas the others rest on |

The assumptions say what values there are, never how they are related: an archive, job,
path, header or limit is a well-formed record or sequence, names and files are disjoint
from the marks for "none", a byte has at least two values, a job names no more volumes than
`MaxVolume` allows, and no coder's stream is empty (each has a header or a first code word;
where a coder writes nothing for an empty input, `EncodedLength` says so).  `DzChunk` by
itself (`Spec`, with the chunks of `Jobs`) assumes more: that the references of a chunk are sound
(`SoundJob`).  `SoundJob` also says that bytes are bytes, and that a chunk with references has a
common buffer.  Of chunks that the analysis hands over nothing is assumed: the theorems on
`ArchiveSpec` prove it, for archives of which `ArchivesAssumption` says only that inputs are bytes
and that what `local_match_coverage` reports lies inside them.  Of the settings `DzChunk` assumes that the
tables are not empty, that a group holds more than its continuation bit, and that no match is longer
than 258 bytes, the longest there is a symbol for.  `DzRangeCoder` assumes of its models what their
constructors give (`Unused`: frequencies of at least one, their tree and their total) and
two things they do not check.  `RoomForUpdates`: more symbols than the increment plus one, and no more than
`MODEL_MAX_TOTAL` less the increment.  All models of the default settings have it but `reference_sign` and
`reference_base`; tables of few symbols, or so many tables of a context that the increment 32 + 4t exceeds their
symbols, have not, and `reference_sign` shows what becomes of such a model.  And a total within
`MODEL_MAX_TOTAL`: a static prefix of nearly equal counts scales each of 514 symbols up to 255, so
its total is up to 131070 until the first update halves it; such a table is left out.

**Sums and orders.**  The modules add with the community module's `MapThenSumSet` and
flatten with `FlattenSeq`, recursive functions over an order that `CHOOSE` picks.  The
library's induction theorems cannot be used, but for one set of numbers, or one set of
subsets, induction is the statement that a set with zero that is closed under successor has
all naturals, and that is first-order.  So `Sums` proves that a sum does not depend on the
order (`SumWithout` is the one step that needs it), and that `FlattenSeq` of a list with one
element more ends in that element; hence what a flattened list holds and in what order (`FlattenJoins`).  `PlacesFilled`: in a
strict order of a finite set each number below its size is the number of predecessors
of exactly one element.

**Reader.**  None of the properties is inductive alone.  `IInv` joins to them
`CallShape` (what `pc` implies: a running call has an open archive; inside
`ensure_dz_context` there is no dictionary yet, what is still to do are volumes or
common-buffer chunks; after the sum, loading follows) and `ChunkReady` (the chunk a
call has passed the volume check for has its volume's size recorded).
`WorkspaceAccounted` needs `CallShape` because a dictionary must not be loaded twice;
`PayloadPrepared` needs `ChunkReady` and `RecordedVolumesWithinLimits`, because the
bound on the read length comes from the limits checked at resolution.
`ResolvedAgrees` rests on three lemmas about the layout functions: resolving one
volume leaves the records of the others alone, a volume's layout asks for no
other volume's size, and both functions agree on the volume they share.
`DictionaryShape` follows a load step by step: the volumes of the chunks that are not
`todo` any more are resolved, and `retained` is their sum, so that at the end it is the sum
over all, whatever a load that failed before had left.  `ReadShape` says what is in
`out`; a garbled chunk leads back to a volume resolved before its file was complete,
because with `PackerLaid` the whole file would have given the stream all its bytes.

**Refinement.**  `ReaderImplementsStore` shows each action to be a step of the store, or none that
it sees.  The store judges a chunk from the files there were when the read began
(`since`); the reader from what it cached, perhaps in an earlier call.  `StoreShape` makes
the two meet: where volumes arrive whole, a recorded size and a length in `since` are both
the length of the file.  A success of the reader must be one the store allows, so
whatever `DeliverPayload` found must hold of `since`, and a failure must have a reason in it.
The awkward case is a dictionary that was loaded in an earlier call while `since` lacks one of
its volumes (it arrived during the read): `DictionaryAtMost` says that the store
then reckons with a dictionary at least as large, since a dictionary's records carry no
placeholder and never grow beyond the stored length.

**Builder.**  `IInv` is type correctness, the stages of a call (`Stages`: what is
valid, loaded and counted by the time a step is reached) and `HeaderLast` (the header is written when every
record of the chunk table is there, and not before).  The size of the header is reckoned
from the request before a byte is written; what is written is a sum over the chunk table in
another order.  They are equal because every order the builder works in (the DZ segments,
the groups by file, the write order) has each segment at exactly one place
(`PlacesFilled`).  `Placed` is what `LayoutDeterministic` needs: a handle stands behind
what was written through it, so the next record's offset is the sum of the payloads that
belong before it, in whatever batch and order they were finished.  `Disk` is what `ReadsBack`
needs.  The records hold placeholder lengths, so the reader takes a payload to run to the
next record's offset, or to the end of the volume.  `Disk` says that the pieces of a volume
are stacked behind the header's place, that a record is `Truthful` (its flags and lengths
tell whether it has bytes, and how many unless they are a placeholder), and that its bytes
end with the volume or where another record's begin (`Kept`).  Each write keeps that: what ended with
the volume now ends where the new record begins (`RecordGrows`), and padding is written
only before the first payload.  From there `SpanIsNeed` computes the reader's span, and
`HeaderAdmissible` what the reader demands, sums over the lists included.  In the first form of
the module the type invariant bounded `cursor` by the number of segments; it is not so for a
request that has more volumes than segments, and the invariant was corrected.

**Metadata.**  `IInv` says how far the tables have come at each `pc` and agree with the counts
read so far (`Shaped`), that the position and the two running totals are what the tables
take (`Reckoned`), and that what is held is within the limits (`Kept`).  `Mirrored` is
what `Lossless` needs: at every `pc` the bytes read are the bytes that would be written of
the tables so far, except that inside a chunk list the terminator is still to come.  `Agrees`
is what `ReadsBack` needs: of a header that was written from good tables, what has been read
is a beginning of what was written (`Begun`, `Partly`), so the bytes at the reader's
position are those of the next field, which the lemmas about digits and strings read back;
and a beginning adds up to no more than the whole, so no limit is met on the way.

**DZ chunks.**  `ParserFollows` is inductive once the chunk is known to be sound: an
encoder that passes a reference or a segment start must stay inside the chunk.  Two lemmas carry the
actions, one for those that leave nothing pending (`NothingPending`), one for those that leave
what was found at the search (`FoundPending`).  The second needs that the next event
stays the next one: a literal moves the encoder by one byte while the event it found
its match against is computed from where it stood before, so the step must not pass one
(`search < NextEvent` in `EncodeLiteral`).  It is proved of `Spec`, for any match finder that stays within
its chains.

`InLockstep` and `RightAttemptRoundTrip` follow from `CInv`, which is inductive together with
that invariant.  While the chunk is encoded, `Path` says that the entries of `trail` and the place
where the encoder stands lead from the start of the chunk, each to the next by a `Token`: a literal,
a match of bytes that equal those before them, or a reference.  A token fixes three things at once:
how many bytes of the chunk it stands for, how the recent distances and the bases change, and
which symbols the stream has there.  `EncodeEnd` makes the path `Whole`.  From there on the stream
does not change, and the decoder is `At` one of the entries: both attempts have read the symbols before it, and
the right one has produced the bytes before it and has the distances and bases of the encoder.
The first symbol tells which token follows (`WhichToken`); that reading it ends where
the next entry begins holds for the wrong attempt too, which is why that one never asks for a symbol
with another model than it was encoded with, whatever its bases are.  When it gives up, the
second one starts `At` the first entry.

The lemmas below are about data: `GroupsReadBack` (a number in groups of any width; `Groups` and
`Grouped` are recursive functions, and the quotients in between tie them together), `RecentIs`
(the two lists of recent distances change alike, a distance that is on the list twice included),
`Repeats` (a match that overlaps itself repeats its last bytes), `TargetsDiffer` (no two segments start at
one place, so a target decodes to one segment's bytes), `ConsumedIs` (the end of a reference is a number).
For these proofs the model states groups by their continuation, `1 << (bits - 1)`, and not by
their bits, and the two lists of distances are parameters of the two functions that
change them.

**DZ analysis.**  `HandsOverSoundJobs` speaks of the end of a long computation, so `ArchiveInv` follows it
from its start: `Analysis` while an archive is analysed, the two invariants above once a chunk is
handed over.

`Selects`: every selection has the bytes of its source, no target begins where a source in the same input
does, and targets do not meet.  A new selection begins at a walker, on a byte that is neither target nor
common; the targets there are begin no further on (`Walking`), so they end before it.  Nor does it begin where
its own source does.  That needs `Walker`: no chain gets ahead of its walker, though both have
an error counter of their own and the pace depends on the longest input.  `Pace` says what
the counters are after k rounds, linear in k and in how far each has come, so the cursor
never overtakes (`PaceStep`).  Hence the only candidate at the walker's own place is the
last of its chain, with none further on to take a length over from, and compared with
itself it has none.  Other candidates have the bytes at the walker, whether they were compared or taken over
inside a run (`Lengths`).  Trimming drops selections, and fewer of them are as sound
(`FewerSelected`).  `Placing`: while the roots are ordered, what is placed and what waits are
roots; that none is forgotten is the guard of `HandOver`, the loop over the seeds.

From there on it is about data.  Every source lies in one root (`RootOfStart`) and
begins at one of its boundaries, so it has a segment (`SegmentStartsAre`): the code's error
`internal COMBUF source boundary is missing` never comes up.  A segment holds the bytes up to the next
boundary and runs on into the following one unless it is the last of its root, so decoding from it gives
all bytes to the end of the root (`RunFrom`, `RestOf`), and those begin with the bytes of the reference.
References in the order of their positions do not meet because the targets do not.  For this proof
three sorts of the code are one operator, `InOrder`, whose elements `PlacesFilled` counts, and the candidates behind
references are a list for every reference, empty for those that end before the root.

**DZ range coder.**  The theorems hold for bytes of any size, words of four of them, any tails, and
any models that `CoderAssumption` admits.  `RangeInv` is inductive: `ModelsFit`, which is about the
models, and `CoderInv`, which is about the words.

*Models.*  `Fit`: every frequency is at least one, the total is their sum and at most
`MODEL_MAX_TOTAL`, and the tree is the one `TreeOf` describes, whose node i holds the sum over the symbols from
i - `LowBit(i)` below i.  `UpdateFits`: a turn keeps that.  The n - 1 other symbols keep at least one
each, so the frequency raised is below 2^16 when the increment is smaller than n - 1, and nothing
wraps; a total that is too large is halved, rounding up, to at most half of itself and half
of n.  `FitIsSound`: the tree gives what `ModelSound` asks for.  This is arithmetic
of powers of two.  `Covers`: the nodes a symbol climbs through in `add_fenwick` are the nodes whose
symbols it is one of, since i + `LowBit(i)` is the next node that has all of i's (so `AddFenwick`
leads from `TreeOf` of a list to `TreeOf` of the list raised, and `RebuildFenwick` gives `TreeOf`).
`prefix_sum` adds nodes that follow one another down to zero.  `symbol_for_count` stands,
after the turn of bit p, at the symbol without its bits below p (`Cut`), because the
sums below indices grow with them.  For these proofs the model says by divisors what a power of two is (no odd one above one),
and the walk of `symbol_for_count` is a function of the bit.

*Coders.*  The encoder goes through intervals, its *places*: one for each symbol and one for each byte that
`renormalize` shifts out.  A place says how many bytes stand before it, and which words (`Within`) the
next four bytes may form.  `Narrows`: at each later place fewer streams are left.  A symbol cuts
its slice out of the interval (`Coded`), which is not empty since a settled interval is at
least `BOTTOM` wide (or the high bytes of its ends differ, where cutting at a multiple of `BOTTOM` avoids the carry) and
a total is at most `BOTTOM`; a byte shifted out is the first of every word that is left (`Shifted`).
Nothing wraps: an interval's end is never above 2^32, which the code does not check.
`Terminator`: the midpoint, cut to the bytes that tell it from both ends, is followed by
bytes of any kind a word of the last interval.  So the input has, at every place, a word of
that place, and `CoderInv` follows: the decoder, at the place where the encoder was
(`ReadsAt`), finds by its count the symbol that was sent and goes to the next place.

**Extraction, image.**  `CallShape` and `OpenedFiles`: while an entry is at its d-th component,
the d - 1 above are real directories, whoever creates what in between, and each file of
this call was opened for an entry not after the current one.  `WrittenSoFar`: with distinct
targets, the volumes before the next one are in their files.

One lemma per action shows that it keeps the invariant; the temporal theorems follow.

### Model-checked only

* Liveness (`CallsReturn`, `BuildReturns`): a proof under fairness needs ENABLED,
  which this prover does not reason about.
* `ChunkCoders`: the modules it extends declare recursive operators (the sort of rotations,
  canonical codes), which TLAPS does not support.
* The four runs that expect a violation: they are refutations.

## 5. Not modelled

In the codecs: which candidate scores best (`common_match_score`, `estimated_cost`) and what
`local_match_coverage` finds, which are choices or parameters here; the
static tables that start the common buffer (`dz/model.rs`) and how a segment is
encoded into it, beyond its length; workspace limits inside Zlib, BZip2 and LZMA.  CRC-32 and
Adler-32 are smaller sums that still depend on every byte and its place.  Parsing and
validation of codec settings and flags outside of archives is left out, as are lookups by
name, formatting and parsing of coder names, error texts, the serde derives and the
platform's own file-name rules: they change no state the properties speak of.  The depth
of recursion in `order_common_roots` is unbounded in the model; how large a stack there is
is not in the code.

## 6. Plan

What a next step would be: in the DZ codec, the static prefix and the segments of the common
buffer, coded by the range coder of `DzRangeCoder` one after another.

Runs stay at a dozen, each for one question: a coder that is added joins a run that is
there, or replaces one that shows less.  Instances stay small enough to finish
in seconds.
