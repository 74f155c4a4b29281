--------------------------- MODULE ArchiveBuilder ---------------------------
(***************************************************************************)
(* ArchiveBuilder::write_to, write_to_path, write_to_directory and         *)
(* write_to_sink: packing segments into the volumes of a new archive.      *)
(*                                                                         *)
(* A job is what the caller asks for.                                      *)
(*   segments    in the order added: the logical file (`path`, equal for   *)
(*               segments whose archive paths differ only in case), the    *)
(*               file read (`source`, 0 for bytes in memory) or the number *)
(*               of bytes given (`size`), the effective flags, the volume, *)
(*               and how long a non-empty input gets encoded               *)
(*   names       the file each volume name denotes; names[1] is volume 0   *)
(*   sink        "files", "memory", or "writer" for one borrowed writer    *)
(*   existing    how long each file is before the call                     *)
(*   strings, volume_strings   bytes of the names in the header            *)
(*   alignment   PackOptions::alignment                                    *)
(*   common      length of the DZ common buffer, NoLength for none         *)
(*                                                                         *)
(* The contents of a file are the writes made to it, oldest first: a later *)
(* one covers an earlier one where they overlap.  Each volume has a handle *)
(* of its own, with its own position, even where two names denote one file.*)
(***************************************************************************)
EXTENDS DzipArchive, Functions

CONSTANTS
  Jobs,          \* the builds to run
  BatchSizes,    \* possible numbers of worker threads, hence batch lengths
  Files,         \* the files there may be
  MaxU16,        \* u16::MAX: the largest count, and the chunk map's terminator
  MaxSource      \* bound: how long a source may grow behind the builder's back

ASSUME BuilderAssumption ==
  /\ MaxU16 \in Nat /\ MaxSource \in Nat
  /\ BatchSizes \subseteq Nat \ {0}
  /\ Files \subseteq Nat \ {0}
  /\ Jobs \subseteq
       [segments : Seq([path : Nat, source : Files \cup {0}, size : Nat,
                        flags : SUBSET Flags, volume : Nat, encoded : Nat \ {0}]),
        names : Seq(Files), sink : {"files", "memory", "writer"}, existing : [Files -> Nat],
        strings : Nat, volume_strings : Nat, alignment : Nat, common : Nat \cup {NoLength}]
  /\ \A j \in Jobs : Len(j.names) <= MaxVolume + 1

VARIABLES
  job, batch,
  step,          \* what the call does next
  cursor,        \* the volume or segment it does it to
  content,       \* content[f]: the writes to file f
  position,      \* position[v]: of volume v's handle
  loaded,        \* loaded[i]: bytes segment i was encoded from, or NoLength
  chunks,        \* the chunk table
  result         \* "none", "ok" or "failed"

vars == <<job, batch, step, cursor, content, position, loaded, chunks, result>>

Steps == {"prepare", "open", "load", "encode_dz", "place", "pad", "payload", "header", "returned"}

-----------------------------------------------------------------------------
(* OriginalArchivePlan *)

Segments == DOMAIN job.segments
Count == Len(job.segments)
CompressionOf(i) == RegisteredCompression(job.segments[i].flags)
DzSegments == {i \in Segments : CompressionOf(i) = "DZ"}
HasDz == DzSegments # {}

\* Segments one after the other, as they were added.
InOrder(S) ==
  [k \in 1 .. Cardinality(S) |-> CHOOSE i \in S : Cardinality({j \in S : j < i}) = k - 1]

DzOrder == InOrder(DzSegments)

\* group_logical_files: the chunk ids of each logical file, in the order in which
\* the files first appear.
FileSegments(i) == {j \in Segments : job.segments[j].path = job.segments[i].path}
FirstSegments == {i \in Segments : \A j \in FileSegments(i) : i <= j}
LogicalFiles ==
  [k \in 1 .. Cardinality(FirstSegments) |-> InOrder(FileSegments(InOrder(FirstSegments)[k]))]

\* Payloads are written coder by coder, DZ last.
WrittenBefore(i, j) ==
  \/ Rank[CompressionOf(i)] < Rank[CompressionOf(j)]
  \/ Rank[CompressionOf(i)] = Rank[CompressionOf(j)] /\ i < j

WriteOrder ==
  [k \in 1 .. Count |->
     CHOOSE i \in Segments : Cardinality({j \in Segments : WrittenBefore(j, i)}) = k - 1]

NonDz == Count - Cardinality(DzSegments)

\* The segments that are encoded together with the one at place k of WriteOrder.
BatchAt(k) ==
  {WriteOrder[l] : l \in {m \in 1 .. NonDz : (m - 1) \div batch = (k - 1) \div batch}}

HasCommon == HasDz /\ job.common # NoLength
ChunkCount == Count + (IF HasCommon THEN 1 ELSE 0)

\* Mutant: the common buffer's record is forgotten.
HeaderSizePlanned ==
  9 + job.strings + 4 * Len(LogicalFiles) + 2 * Count + 4 + 16 * Count
    + job.volume_strings + (IF HasDz THEN 10 ELSE 0)

\* calculate_header_size, before anything is written.
HeaderSize ==
  9 + job.strings + 4 * Len(LogicalFiles) + 2 * Count + 4 + 16 * ChunkCount
    + job.volume_strings + (IF HasDz THEN 10 ELSE 0)

\* What DzipWriter then writes, section by section.
HeaderBytes ==
  LET archive_settings == 4 + 2 + 2 + 1
      file_chunk_map ==
        SumFunction([k \in DOMAIN LogicalFiles |-> 2 + 2 * Len(LogicalFiles[k]) + 2])
      chunk_settings == 2 + 2
      chunk_table == Len(chunks) * (4 + 4 + 4 + 2 + 2)
  IN  archive_settings + job.strings + file_chunk_map + chunk_settings + chunk_table
        + job.volume_strings + (IF HasDz THEN 10 ELSE 0)

-----------------------------------------------------------------------------
(* Files and sinks *)

VolumeIds == 0 .. Len(job.names) - 1
VolumeFile(v) == job.names[v + 1]

FileLength(f) == Max({0} \cup {content[f][k].to : k \in DOMAIN content[f]})

\* write_all of n bytes through volume v's handle: "old", "zeros", "header",
\* "common", or the payload of segment `index`.
Put(v, n, kind, index) ==
  LET at == [from |-> position[v], to |-> position[v] + n, kind |-> kind, index |-> index]
  IN  /\ content' = IF n = 0 THEN content
                    ELSE [content EXCEPT ![VolumeFile(v)] = Append(@, at)]
      /\ position' = [position EXCEPT ![v] = @ + n]

Contents(lengths) ==
  [f \in Files |-> IF lengths[f] = 0 THEN <<>>
                   ELSE <<[from |-> 0, to |-> lengths[f], kind |-> "old", index |-> 0]>>]

Blank == [offset |-> 0, compressed_length |-> 0, decompressed_length |-> 0,
          flags |-> {}, file |-> 0, need |-> 0, work |-> 0]

Init ==
  /\ job \in Jobs /\ batch \in BatchSizes
  /\ step = "prepare" /\ cursor = 1
  /\ content = Contents(job.existing)
  /\ position = [v \in VolumeIds |-> 0]
  /\ loaded = [i \in Segments |-> NoLength]
  /\ chunks = [i \in Segments |-> Blank]
  /\ result = "none"

-----------------------------------------------------------------------------
Return(r) == step' = "returned" /\ cursor' = 0 /\ result' = r
Fail == Return("failed")
Go(next, at) == step' = next /\ cursor' = at /\ UNCHANGED result

\* What write_to and prepare check, and the plan's counts.
Valid ==
  /\ job.sink = "writer" => Len(job.names) = 1
  /\ Len(job.names) \in 1 .. MaxU16
  /\ \A i \in Segments : CompressionOf(i) # "NONE" /\ job.segments[i].volume \in VolumeIds
  /\ Len(LogicalFiles) <= MaxU16

\* Mutant: the entries are looked at only when they are written.
PrepareLate ==
  /\ step = "prepare"
  /\ IF Len(job.names) \in 1 .. MaxU16 THEN Go("open", 1) ELSE Fail
  /\ UNCHANGED <<job, batch, content, position, loaded, chunks>>

Prepare ==
  /\ step = "prepare"
  /\ IF Valid THEN Go("open", 1) ELSE Fail
  /\ UNCHANGED <<job, batch, content, position, loaded, chunks>>

\* begin_archive and the first open_volume of each volume.  Files are created
\* or truncated, a borrowed writer keeps what it holds.
OpenVolume ==
  /\ step = "open"
  /\ IF cursor > Len(job.names) THEN Go("load", 1) /\ UNCHANGED content
     ELSE /\ content' = IF job.sink = "writer" THEN content
                        ELSE [content EXCEPT ![job.names[cursor]] = <<>>]
          /\ Go("open", cursor + 1)
  /\ UNCHANGED <<job, batch, position, loaded, chunks>>

\* PreparedSource::load: a file is read as it is now.
SourceLength(i) ==
  LET s == job.segments[i] IN IF s.source = 0 THEN s.size ELSE FileLength(s.source)

\* All DZ sources are loaded before any of them is encoded.
LoadDz ==
  /\ step = "load"
  /\ IF cursor > Len(DzOrder) THEN Go("encode_dz", 0) /\ UNCHANGED loaded
     ELSE LET i == DzOrder[cursor]
          IN  loaded' = [loaded EXCEPT ![i] = SourceLength(i)] /\ Go("load", cursor + 1)
  /\ UNCHANGED <<job, batch, content, position, chunks>>

EncodeDz ==
  /\ step = "encode_dz"
  /\ Go("place", 0)
  /\ UNCHANGED <<job, batch, content, position, loaded, chunks>>

\* Mutant: a count of one too many passes.
PlaceHeaderWide ==
  /\ step = "place"
  /\ IF ChunkCount > MaxU16 + 1 THEN Fail /\ UNCHANGED position
     ELSE position' = [position EXCEPT ![0] = HeaderSize] /\ Go("pad", 1)
  /\ UNCHANGED <<job, batch, content, loaded, chunks>>

\* The header's size is fixed before the first payload byte.
PlaceHeader ==
  /\ step = "place"
  /\ IF ChunkCount > MaxU16 THEN Fail /\ UNCHANGED position
     ELSE position' = [position EXCEPT ![0] = HeaderSize] /\ Go("pad", 1)
  /\ UNCHANGED <<job, batch, content, loaded, chunks>>

Padding(p) ==
  IF job.alignment <= 1 THEN 0
  ELSE (job.alignment - (p % job.alignment)) % job.alignment

PadVolume ==
  /\ step = "pad"
  /\ IF cursor > Len(job.names) THEN Go("payload", 1) /\ UNCHANGED <<content, position>>
     ELSE Put(cursor - 1, Padding(position[cursor - 1]), "zeros", 0) /\ Go("pad", cursor + 1)
  /\ UNCHANGED <<job, batch, loaded, chunks>>

-----------------------------------------------------------------------------
(* Payloads *)

\* A worker loads one segment of the current batch and encodes it; the workers
\* of a batch finish in any order.
EncodeSegment(i) ==
  /\ step = "payload" /\ cursor <= NonDz
  /\ i \in BatchAt(cursor) /\ loaded[i] = NoLength
  /\ loaded' = [loaded EXCEPT ![i] = SourceLength(i)]
  /\ UNCHANGED <<job, batch, step, cursor, content, position, chunks, result>>

\* Mutant: an empty input goes through the coder like any other.
EncodedLengthAlways(i) ==
  CASE CompressionOf(i) = "ZERO" -> 0
    [] CompressionOf(i) = "COPY" -> loaded[i]
    [] OTHER -> job.segments[i].encoded

\* Zero and copy write what they say; zlib and LZMA write nothing for nothing.
EncodedLength(i) ==
  CASE CompressionOf(i) = "ZERO" -> 0
    [] CompressionOf(i) = "COPY" -> loaded[i]
    [] CompressionOf(i) \in {"ZLIB", "LZMA"} /\ loaded[i] = 0 -> 0
    [] OTHER -> job.segments[i].encoded

StoredLength(i) ==
  IF CompressionOf(i) \in {"ZLIB", "BZIP", "LZMA"} THEN loaded[i] ELSE EncodedLength(i)

\* Mutant: nothing checks that the values fit the record's 32-bit fields.
WriteChunkUnchecked(i) ==
  LET s == job.segments[i]
  IN  /\ Put(s.volume, EncodedLength(i), "payload", i)
      /\ chunks' = [chunks EXCEPT ![i] =
           [offset |-> position[s.volume], compressed_length |-> StoredLength(i),
            decompressed_length |-> loaded[i], flags |-> s.flags, file |-> s.volume,
            need |-> EncodedLength(i), work |-> 0]]
      /\ Go("payload", cursor + 1)

\* write_chunk_payload.  The lengths are checked after the bytes are out.
WriteChunk(i) ==
  LET s == job.segments[i]
      c == [offset |-> position[s.volume], compressed_length |-> StoredLength(i),
            decompressed_length |-> loaded[i], flags |-> s.flags, file |-> s.volume,
            need |-> EncodedLength(i), work |-> 0]
  IN  IF c.offset > MaxU32 THEN Fail /\ UNCHANGED <<content, position, chunks>>
      ELSE /\ Put(s.volume, EncodedLength(i), "payload", i)
           /\ IF c.compressed_length > MaxU32 \/ c.decompressed_length > MaxU32
              THEN Fail /\ UNCHANGED chunks
              ELSE chunks' = [chunks EXCEPT ![i] = c] /\ Go("payload", cursor + 1)

CommonPending == HasCommon /\ Len(chunks) = Count

\* Mutant: whatever worker is done writes, the batch is not waited for.
WritePayloadAsDone ==
  /\ step = "payload" /\ cursor <= Count
  /\ cursor > NonDz => ~CommonPending
  /\ \E i \in IF cursor <= NonDz THEN BatchAt(cursor) ELSE {WriteOrder[cursor]} :
       loaded[i] # NoLength /\ chunks[i] = Blank /\ WriteChunk(i)
  /\ UNCHANGED <<job, batch, loaded>>

\* Mutant: every segment is waited for, not only those of the batch.
WritePayloadWaiting ==
  /\ step = "payload" /\ cursor <= Count
  /\ \A i \in Segments : loaded[i] # NoLength
  /\ cursor > NonDz => ~CommonPending
  /\ WriteChunk(WriteOrder[cursor])
  /\ UNCHANGED <<job, batch, loaded>>

\* The payloads of a batch are written in order once all of it is encoded, the
\* DZ payloads after the common buffer.
WritePayload ==
  /\ step = "payload" /\ cursor <= Count
  /\ IF cursor <= NonDz THEN \A i \in BatchAt(cursor) : loaded[i] # NoLength
                        ELSE ~CommonPending
  /\ WriteChunk(WriteOrder[cursor])
  /\ UNCHANGED <<job, batch, loaded>>

WriteCommon ==
  /\ step = "payload" /\ cursor = NonDz + 1 /\ CommonPending
  /\ IF position[0] > MaxU32 THEN Fail /\ UNCHANGED <<content, position, chunks>>
     ELSE /\ Put(0, job.common, "common", 0)
          /\ IF job.common > MaxU32 THEN Fail /\ UNCHANGED chunks
             ELSE /\ chunks' = Append(chunks,
                       [Blank EXCEPT !.offset = position[0], !.flags = {"COMBUF"},
                                     !.compressed_length = job.common, !.need = job.common])
                  /\ Go("payload", cursor)
  /\ UNCHANGED <<job, batch, loaded>>

PayloadsWritten ==
  /\ step = "payload" /\ cursor = Count + 1 /\ ~CommonPending
  /\ position' = [position EXCEPT ![0] = 0]
  /\ Go("header", 0)
  /\ UNCHANGED <<job, batch, content, loaded, chunks>>

\* The header comes last, at offset 0.
WriteHeader ==
  /\ step = "header"
  /\ Put(0, HeaderBytes, "header", 0)
  /\ Return("ok")
  /\ UNCHANGED <<job, batch, loaded, chunks>>

-----------------------------------------------------------------------------
\* A file cannot be opened, read, created or written, or an encoder refuses.
Fails ==
  /\ step # "returned"
  /\ Fail
  /\ UNCHANGED <<job, batch, content, position, loaded, chunks>>

\* The header is cut short.
HeaderCut ==
  /\ step = "header"
  /\ Put(0, HeaderBytes - 1, "header", 0)
  /\ Fail
  /\ UNCHANGED <<job, batch, loaded, chunks>>

\* Somebody else appends to a source.
SourceGrows(f) ==
  /\ step # "returned"
  /\ \E i \in Segments : job.segments[i].source = f
  /\ \A v \in VolumeIds : VolumeFile(v) # f
  /\ FileLength(f) < MaxSource
  /\ content' = [content EXCEPT ![f] =
       <<[from |-> 0, to |-> FileLength(f) + 1, kind |-> "old", index |-> 0]>>]
  /\ UNCHANGED <<job, batch, step, cursor, position, loaded, chunks, result>>

\* The steps of a build that meets no obstacle from outside.
Work ==
  \/ Prepare
  \/ OpenVolume
  \/ LoadDz
  \/ EncodeDz
  \/ PlaceHeader
  \/ PadVolume
  \/ \E i \in Segments : EncodeSegment(i)
  \/ WritePayload
  \/ WriteCommon
  \/ PayloadsWritten
  \/ WriteHeader

Next ==
  \/ Work
  \/ Fails
  \/ HeaderCut
  \/ \E f \in Files : SourceGrows(f)

\* A build runs on by itself: it waits for nobody, and nothing promises a failure.
Spec == Init /\ [][Next]_vars /\ WF_vars(Work)

-----------------------------------------------------------------------------
(* The archive on disk *)

Main == VolumeFile(0)

HeaderWritten ==
  \E f \in Files : \E k \in DOMAIN content[f] :
    content[f][k].kind = "header" /\ content[f][k].to = HeaderBytes

\* The archive a reader finds: the header's tables and the volumes' lengths now.
Packed ==
  [chunks |-> chunks, entries |-> LogicalFiles,
   volume_files |-> Len(job.names) - 1, range_valid |-> HasDz,
   limits |-> [input |-> MaxU32, output |-> MaxU32, workspace |-> 0,
               entry |-> MaxU32 * Count, total |-> MaxU32 * Count],
   lengths |-> [v \in Volumes |-> IF v \in VolumeIds THEN {FileLength(VolumeFile(v))} ELSE {}]]

\* The bytes of chunk i are where its record says and nothing covers them.
Intact(i) ==
  LET w == content[VolumeFile(chunks[i].file)]
  IN  chunks[i].need # 0 =>
        \E k \in DOMAIN w :
          /\ w[k].from = chunks[i].offset /\ w[k].to = chunks[i].offset + chunks[i].need
          /\ IF i <= Count THEN w[k].kind = "payload" /\ w[k].index = i
                           ELSE w[k].kind = "common"
          /\ \A l \in k + 1 .. Len(w) : w[l].to <= w[k].from \/ w[k].to <= w[l].from

\* What the caller owes: names that denote different files, a borrowed writer
\* with nothing behind the archive, no raw flags the reader refuses, and no
\* input whose encoding is longer than a u32 can say: the builder checks the
\* length it records, which for most coders is that of the input.
Sound ==
  /\ \A v, w \in VolumeIds : VolumeFile(v) = VolumeFile(w) => v = w
  /\ job.sink = "writer" => job.existing[Main] = 0
  /\ \A i \in Segments :
       LET flags == job.segments[i].flags
       IN  /\ SupportsFlags(flags) /\ job.segments[i].encoded <= MaxU32
           /\ "DZ" \in flags => CompressionOf(i) = "DZ" /\ "COMBUF" \notin flags

-----------------------------------------------------------------------------
(* Properties *)

\* Types, and the counts the header's u16 and u32 fields can hold.
TypeOK ==
  /\ job \in Jobs /\ batch \in BatchSizes
  /\ step \in Steps
  /\ cursor \in Nat
  /\ position \in [VolumeIds -> Nat]
  /\ loaded \in [Segments -> Nat \cup {NoLength}]
  /\ chunks \in Seq(Chunk)
  /\ \A i \in DOMAIN chunks :
       /\ chunks[i].offset <= MaxU32
       /\ chunks[i].compressed_length <= MaxU32 /\ chunks[i].decompressed_length <= MaxU32
  /\ result \in {"none", "ok", "failed"}

\* The size set aside for the header before any payload is known is the size
\* the header turns out to have: it neither covers payloads nor leaves a gap.
HeaderFits == HeaderWritten => HeaderBytes = HeaderSize

\* No chunk has the id that ends a chunk list (ids count from 0 on disk).
ChunkIdsBelowTerminator ==
  step \in {"pad", "payload", "header"} \/ result = "ok" =>
    \A k \in DOMAIN LogicalFiles : \A n \in DOMAIN LogicalFiles[k] :
      LogicalFiles[k][n] - 1 < MaxU16

\* The moment the main file carries a header, even before the call returns or if
\* it never does, the archive on disk is one the reader admits, and every chunk,
\* by the span the reader resolves for it, decodes to the bytes packed: records
\* hold placeholder lengths, so that hangs on what is written next to what.
ReadsBack ==
  HeaderWritten /\ Sound =>
    LET span == ResolveChunkLayout(chunks,
                  [v \in Volumes |-> IF v \in VolumeIds THEN FileLength(VolumeFile(v))
                                                        ELSE NoLength])
    IN  /\ Admissible(Packed)
        /\ \A i \in DOMAIN chunks :
             /\ Intact(i)
             /\ IF IsDedicatedCombuf(chunks[i].flags) THEN span[i] = job.common
                ELSE DecodeOutcomes(Packed, i, PayloadReadLength(chunks[i], span[i])) = {"exact"}

\* Where chunk i belongs, from the request and the lengths of its sources.
Belongs(i) ==
  LET v == job.segments[i].volume
      start == IF v = 0 THEN HeaderSize + Padding(HeaderSize) ELSE 0
      before == {j \in Segments : job.segments[j].volume = v /\ WrittenBefore(j, i)}
  IN  start + SumFunction([j \in before |-> EncodedLength(j)])
        + (IF v = 0 /\ CompressionOf(i) = "DZ" /\ HasCommon THEN job.common ELSE 0)

\* The layout does not depend on how many workers encode or which of them is
\* done first.
LayoutDeterministic ==
  result = "ok" => \A i \in Segments : chunks[i].offset = Belongs(i)

\* A request that is refused as such leaves every file as it was.
RefusalTouchesNothing ==
  ~Valid => \A v \in VolumeIds :
    content[VolumeFile(v)] = Contents(job.existing)[VolumeFile(v)]

\* Every build comes to an end.
BuildReturns == <>(step = "returned")
=============================================================================
