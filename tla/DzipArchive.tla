---------------------------- MODULE DzipArchive -----------------------------
(***************************************************************************)
(* An archive as the reader sees it once its metadata is parsed, and the   *)
(* pure decisions of the reader about it: which archives it admits, which  *)
(* limits a chunk must respect, and what decoding a byte span gives.       *)
(*                                                                         *)
(* An archive record holds                                                 *)
(*   chunks        the chunk table                                         *)
(*   entries       the file-chunk map: for each entry its chunk ids        *)
(*   volume_files  the number of named auxiliary volumes                   *)
(*   range_valid   whether the range settings on disk pass validation      *)
(*   limits        ReadLimits: input and output size of a chunk, codec     *)
(*                 workspace, size of an entry, total size of the output   *)
(*   lengths       for each volume the lengths its file has while it is    *)
(*                 being put in place; the largest is the whole volume     *)
(***************************************************************************)
EXTENDS DzipFormat

CONSTANT MaxVolume     \* the largest volume id an archive or a caller names

ASSUME MaxVolumeAssumption == MaxVolume \in Nat

Volumes    == 0 .. MaxVolume
AuxVolumes == 1 .. MaxVolume

Limits == [input : Nat, output : Nat, workspace : Nat, entry : Nat, total : Nat]

IsArchive(a) ==
  /\ a.chunks \in Seq(Chunk)
  /\ a.entries \in Seq(Seq(Nat))
  /\ a.volume_files \in Nat
  /\ a.range_valid \in BOOLEAN
  /\ a.limits \in Limits
  /\ a.lengths \in [Volumes -> SUBSET Nat]
  /\ a.lengths[0] # {}
  /\ \A i \in DOMAIN a.chunks : a.chunks[i].file \in Volumes

ChunkIds(a) == DOMAIN a.chunks
FileOf(a, i) == a.chunks[i].file
Compression(a, i) == RegisteredCompression(a.chunks[i].flags)

\* Volume 0 is the reader's own stream: whole from the start.
MainLength(a) == CHOOSE n \in a.lengths[0] : TRUE
MainOnly(a) == [v \in Volumes |-> IF v = 0 THEN MainLength(a) ELSE NoLength]

CommonChunks(a) == {i \in ChunkIds(a) : IsDedicatedCombuf(a.chunks[i].flags)}

\* validate_chunk_limits on one record, given its resolved physical length.
WithinChunkLimits(a, i, physical) ==
  /\ physical <= a.limits.input
  /\ a.chunks[i].decompressed_length <= a.limits.output

DecodedSize(a, ids) ==
  MapThenSumSet(LAMBDA k : a.chunks[ids[k]].decompressed_length, DOMAIN ids)

\* build_index on one entry of the file-chunk map.
EntryAdmissible(a, ids) ==
  /\ \A k \in DOMAIN ids :
       /\ ids[k] \in ChunkIds(a)
       /\ Compression(a, ids[k]) # "NONE"
       /\ ~("COMBUF" \in a.chunks[ids[k]].flags /\ Compression(a, ids[k]) = "DZ")
       /\ FileOf(a, ids[k]) <= a.volume_files
  /\ DecodedSize(a, ids) <= a.limits.entry

\* What finish_open demands before it hands out an archive.
Admissible(a) ==
  LET resolved == ResolveChunkLayout(a.chunks, MainOnly(a))
  IN  /\ \A i \in ChunkIds(a) : SupportsFlags(a.chunks[i].flags)
      /\ (\E i \in ChunkIds(a) : RequiresRangeSettings(a.chunks[i].flags)) => a.range_valid
      /\ \A i \in ChunkIds(a) : WithinChunkLimits(a, i, resolved[i])
      /\ \A e \in DOMAIN a.entries : EntryAdmissible(a, a.entries[e])
      /\ MapThenSumSet(LAMBDA e : DecodedSize(a, a.entries[e]), DOMAIN a.entries)
           <= a.limits.total

\* The per-volume limit check that follows resolve_volume_chunk_layout.
VolumeWithinLimits(a, v, resolved) ==
  \A i \in ChunkIds(a) : FileOf(a, i) = v => WithinChunkLimits(a, i, resolved[i])

\* read_exact of n bytes at a record's offset, from a volume of this length.
CanReadAt(a, i, n, length) == n = 0 \/ a.chunks[i].offset + n <= length

\* What a decoder makes of the first n bytes at a record's offset.  Zlib and
\* LZMA stop where their stream ends and miss a byte before it.  BZip2 takes
\* the rest for another stream.  Without bytes none of them runs for a chunk
\* that is empty.  DZ reads 0xff bytes past the end and carries no checksum, so
\* a stream cut short is an error or other bytes.
DecodeOutcomes(a, i, n) ==
  LET need  == a.chunks[i].need
      c     == Compression(a, i)
      empty == n = 0 /\ a.chunks[i].decompressed_length = 0
  IN  IF \/ c \in {"COPY", "ZERO"} \/ n = need
         \/ empty /\ c # "DZ"
         \/ n > need /\ c # "BZIP"
      THEN {"exact"}
      ELSE IF c = "DZ" THEN {"garbled", "error"} ELSE {"error"}

\* A common-buffer record is empty or holds at least its static prefix.
CommonChunkWellFormed(a, i, physical) == physical = 0 \/ physical >= a.chunks[i].need
=============================================================================
