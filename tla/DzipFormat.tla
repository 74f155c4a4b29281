----------------------------- MODULE DzipFormat -----------------------------
(***************************************************************************)
(* Chunk records and the compatibility rules that the packer and the       *)
(* reader share: what a set of flag bits means, and how stored records are *)
(* resolved into physical byte spans.                                      *)
(*                                                                         *)
(* A flag word is the set of the names of its bits.  "UNKNOWN" stands for  *)
(* any bit outside SEMANTIC_READER_FLAGS.  Two fields of a chunk are not   *)
(* on disk, they describe the bytes the record points at: `need` is how    *)
(* many bytes of the stream its decoder consumes, `work` the workspace the *)
(* decoder asks for.                                                       *)
(***************************************************************************)
EXTENDS Integers, Sequences, FiniteSets, FiniteSetsExt

CONSTANT MaxU32        \* u32::MAX: the largest physical length a record can hold

ASSUME MaxU32Assumption == MaxU32 \in Nat

NoLength == -1         \* the size of a volume that is absent or not yet asked for

-----------------------------------------------------------------------------
(* Flag words *)

StorageFlags == {"ZERO", "BZIP", "COPY", "ZLIB", "LZMA", "DZ"}
SemanticReaderFlags == StorageFlags \cup {"COMBUF", "MP3", "JPEG", "RANDOMACCESS"}
Flags == SemanticReaderFlags \cup {"UNKNOWN"}

Chunk == [offset : Nat, compressed_length : Nat, decompressed_length : Nat,
          flags : SUBSET Flags, file : Nat, need : Nat, work : Nat]

SupportsFlags(flags) == flags \subseteq SemanticReaderFlags

\* The archive-wide DZ dictionary: COMBUF without a storage bit.
IsDedicatedCombuf(flags) == "COMBUF" \in flags /\ flags \cap StorageFlags = {}

\* dzip.exe's coder order; the packer also writes its payloads in it.
Rank == [ZERO |-> 0, BZIP |-> 1, COPY |-> 2, ZLIB |-> 3, LZMA |-> 4, DZ |-> 5]

\* The coder that wins among the storage bits, "NONE" without a storage bit.
RegisteredCompression(flags) ==
  IF flags \cap StorageFlags = {} THEN "NONE"
  ELSE CHOOSE c \in flags \cap StorageFlags :
         \A d \in flags \cap StorageFlags : Rank[c] <= Rank[d]

\* The reader looks for range settings whenever the raw DZ bit is set.
RequiresRangeSettings(flags) == "DZ" \in flags

-----------------------------------------------------------------------------
(* Physical spans *)

IsPhysicalBoundary(chunk) ==
  /\ "ZERO" \notin chunk.flags
  /\ chunk.compressed_length # 0 \/ "BZIP" \in chunk.flags

HasPlaceholderLength(chunk) ==
  /\ chunk.flags \cap {"LZMA", "ZLIB", "BZIP", "DZ"} # {}
  /\ chunk.compressed_length = chunk.decompressed_length

PayloadReadLength(chunk, physical) ==
  IF RegisteredCompression(chunk.flags) = "COPY"
  THEN chunk.decompressed_length ELSE physical

\* Bytes a record occupies when its stream may run up to `end`.
SpanUpTo(chunk, end) ==
  LET room      == IF end > chunk.offset THEN end - chunk.offset ELSE 0
      available == IF room > MaxU32 THEN MaxU32 ELSE room
  IN  IF HasPlaceholderLength(chunk) \/ available < chunk.compressed_length
      THEN available ELSE chunk.compressed_length

\* The physical records of the same volume that a stable sort by offset puts
\* after record i.
Followers(chunks, i) ==
  {j \in DOMAIN chunks :
     /\ chunks[j].file = chunks[i].file
     /\ IsPhysicalBoundary(chunks[j])
     /\ \/ chunks[i].offset < chunks[j].offset
        \/ chunks[i].offset = chunks[j].offset /\ i < j}

NextOffset(chunks, i) == Min({chunks[j].offset : j \in Followers(chunks, i)})

\* resolve_chunk_layout: sizes[f] is NoLength where the volume's size is unknown.
ResolveChunkLayout(chunks, sizes) ==
  [i \in DOMAIN chunks |->
     IF ~IsPhysicalBoundary(chunks[i]) THEN 0
     ELSE IF Followers(chunks, i) # {} THEN SpanUpTo(chunks[i], NextOffset(chunks, i))
     ELSE IF sizes[chunks[i].file] # NoLength
          THEN SpanUpTo(chunks[i], sizes[chunks[i].file])
     ELSE chunks[i].compressed_length]

\* Mutant: the last record of the volume is not told from the others.
ResolveVolumeChunkLayoutToTheEnd(chunks, f, size, resolved) ==
  [i \in DOMAIN chunks |->
     IF chunks[i].file # f THEN resolved[i]
     ELSE IF ~IsPhysicalBoundary(chunks[i]) THEN 0
     ELSE SpanUpTo(chunks[i], size)]

\* resolve_volume_chunk_layout: only volume f, whose size is known by now.
ResolveVolumeChunkLayout(chunks, f, size, resolved) ==
  [i \in DOMAIN chunks |->
     IF chunks[i].file # f THEN resolved[i]
     ELSE IF ~IsPhysicalBoundary(chunks[i]) THEN 0
     ELSE SpanUpTo(chunks[i], IF Followers(chunks, i) # {}
                              THEN NextOffset(chunks, i) ELSE size)]
=============================================================================
