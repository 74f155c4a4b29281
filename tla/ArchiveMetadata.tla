--------------------------- MODULE ArchiveMetadata ---------------------------
(***************************************************************************)
(* The metadata block at the head of an archive: parse_metadata reads it   *)
(* field by field under the reader's limits into a RawArchive, a caller    *)
(* may change the names in it, and write_metadata_to writes it back.       *)
(*                                                                         *)
(* A byte is a number below Base, and a u16 is two of them: every field    *)
(* keeps its width in bytes, and the terminator of a chunk list is the     *)
(* largest u16.  With Base = 256 these are the widths of the code; the     *)
(* instances use a smaller Base.  Sums of lengths are usize and do not     *)
(* overflow on a 64-bit host.                                              *)
(***************************************************************************)
EXTENDS Integers, Sequences, SequencesExt, FiniteSetsExt

CONSTANTS
  Base,         \* the number of values of a byte
  Magic,        \* the header word "DTRZ"
  ChunkDz,      \* the flag bit CHUNK_DZ
  Headers,      \* RawArchives whose metadata somebody has written
  Streams,      \* other byte streams a reader may be opened on
  LimitSets,    \* the ReadLimits it may be opened with
  NewNames,     \* byte strings passed to ArchiveString::new
  FromNames     \* strings converted by From<&str>, which checks nothing

Byte  == 0 .. Base - 1
Words == Base * Base
U16 == 0 .. Words - 1
U32 == 0 .. Words * Words - 1
Terminator == Words - 1

ChunkRecord == [offset : U32, compressed_length : U32, decompressed_length : U32,
                flags : U16, file : U16]
FileRecord  == [directory_id : U16, chunk_ids : Seq(U16)]

\* range_settings is the ten bytes of Some, or <<>> for None.
RawArchive ==
  [header : U32, num_user_files : U16, num_directories : U16, version : Byte,
   strings : Seq(Seq(Byte)), files : Seq(FileRecord),
   num_archive_files : U16, num_chunks : U16, chunks : Seq(ChunkRecord),
   volume_files : Seq(Seq(Byte)), range_settings : {<<>>} \cup [1 .. 10 -> Byte]]

ReadLimits == [entries : Nat, chunks : Nat, references : Nat, string : Nat, metadata : Nat]

ASSUME MetadataAssumption ==
  /\ Base \in Nat \ {0, 1} /\ Magic \in U32 /\ ChunkDz \in Nat \ {0}
  /\ \A a \in Headers : a \in RawArchive
  /\ \A s \in Streams \cup NewNames \cup FromNames : s \in Seq(Byte)
  /\ LimitSets \subseteq ReadLimits

VARIABLES
  stream, pos,  \* the bytes to read, and how many are read
  limits,       \* [entries, chunks, references, string, metadata]
  pc,           \* the table being read; "parsed" or "refused" at the end
  raw,          \* the RawArchive, as far as it is read
  total,        \* total_length of the string table being read
  references,   \* total_chunks of the file-chunk map
  written       \* history: the RawArchive `stream` was written from, or None

vars == <<stream, pos, limits, pc, raw, total, references, written>>

None == [header |-> -1]

Blank ==
  [header |-> Magic, num_user_files |-> 0, num_directories |-> 0, version |-> 0,
   strings |-> <<>>, files |-> <<>>, num_archive_files |-> 0, num_chunks |-> 0,
   chunks |-> <<>>, volume_files |-> <<>>, range_settings |-> <<>>]

-----------------------------------------------------------------------------
(* Writing: DzipWriter and RawArchive::write_metadata_to *)

Bytes16(n) == <<n % Base, n \div Base>>
Bytes32(n) == Bytes16(n % Words) \o Bytes16(n \div Words)

Concat(s, Enc(_)) == FlattenSeq([i \in DOMAIN s |-> Enc(s[i])])

WriteArchiveSettings(a) ==
  Bytes32(a.header) \o Bytes16(a.num_user_files) \o Bytes16(a.num_directories)
    \o <<a.version>>

WriteRawStrings(strings) == Concat(strings, LAMBDA s : Append(s, 0))

\* Mutant: a file without chunks gets no terminator.
WriteRawFileChunkMapBare(files) ==
  Concat(files, LAMBDA f : Bytes16(f.directory_id) \o Concat(f.chunk_ids, Bytes16)
                             \o (IF f.chunk_ids = <<>> THEN <<>> ELSE Bytes16(Terminator)))

WriteRawFileChunkMap(files) ==
  Concat(files, LAMBDA f : Bytes16(f.directory_id) \o Concat(f.chunk_ids, Bytes16)
                             \o Bytes16(Terminator))

WriteChunks(chunks) ==
  Concat(chunks, LAMBDA c : Bytes32(c.offset) \o Bytes32(c.compressed_length)
                              \o Bytes32(c.decompressed_length)
                              \o Bytes16(c.flags) \o Bytes16(c.file))

WriteMetadata(a) ==
  WriteArchiveSettings(a) \o WriteRawStrings(a.strings) \o WriteRawFileChunkMap(a.files)
    \o Bytes16(a.num_archive_files) \o Bytes16(a.num_chunks) \o WriteChunks(a.chunks)
    \o WriteRawStrings(a.volume_files) \o a.range_settings

-----------------------------------------------------------------------------
(* Reading: DzipReader *)

Has(n) == pos + n <= Len(stream)
Read8(k) == stream[pos + k]
Read16(k) == Read8(k) + Base * Read8(k + 1)
Read32(k) == Read16(k) + Words * Read16(k + 2)

\* Mutant: the end of the stream ends a string too.
NulsOrEndInReach ==
  {i \in pos + 1 .. Len(stream) + 1 :
     i <= pos + limits.string + 1 /\ (i = Len(stream) + 1 \/ stream[i] = 0)}

\* read_null_terminated_bytes: where its nul is, if it is within the limit.
NulsInReach ==
  {i \in pos + 1 .. Len(stream) : i <= pos + limits.string + 1 /\ stream[i] = 0}
NextString == SubSeq(stream, pos + 1, Min(NulsInReach) - 1)

Refuse == pc' = "refused" /\ UNCHANGED <<pos, raw, total, references>>

\* read_raw_strings_with_limits, one string of it.
ReadString(field, budget) ==
  IF NulsInReach = {} \/ total + Len(NextString) + 1 > budget THEN Refuse
  ELSE /\ pos' = pos + Len(NextString) + 1
       /\ total' = total + Len(NextString) + 1
       /\ raw' = [raw EXCEPT ![field] = Append(@, NextString)]
       /\ UNCHANGED <<pc, references>>

Goto(p) == pc' = p /\ UNCHANGED <<pos, raw, references>>

\* DzipReader::read_archive_settings and the entry limit.
ReadArchiveSettings ==
  /\ pc = "settings"
  /\ IF /\ Has(9) /\ Read32(1) = Magic /\ Read8(9) = 0
        /\ Read16(5) \in 1 .. limits.entries /\ Read16(7) # 0
     THEN /\ raw' = [raw EXCEPT !.num_user_files = Read16(5), !.num_directories = Read16(7)]
          /\ pos' = pos + 9 /\ pc' = "strings" /\ UNCHANGED <<total, references>>
     ELSE Refuse
  /\ UNCHANGED <<stream, limits, written>>

\* The names of files and stored directories; the root is not stored.
ReadStrings ==
  /\ pc = "strings"
  /\ IF Len(raw.strings) < raw.num_user_files + raw.num_directories - 1
     THEN ReadString("strings", limits.metadata)
     ELSE Goto("files") /\ UNCHANGED total
  /\ UNCHANGED <<stream, limits, written>>

\* read_file_chunk_map_with_limits: a file's directory ...
ReadDirectoryId ==
  /\ pc = "files"
  /\ IF Len(raw.files) = raw.num_user_files THEN Goto("counts") /\ UNCHANGED total
     ELSE IF ~Has(2) THEN Refuse
     ELSE /\ raw' = [raw EXCEPT !.files =
                       Append(@, [directory_id |-> Read16(1), chunk_ids |-> <<>>])]
          /\ pos' = pos + 2 /\ pc' = "ids" /\ UNCHANGED <<total, references>>
  /\ UNCHANGED <<stream, limits, written>>

\* ... and its chunk ids up to the terminator.
ReadChunkId ==
  /\ pc = "ids"
  /\ LET f == Len(raw.files)
     IN  IF ~Has(2) THEN Refuse
         ELSE IF Read16(1) = Terminator
         THEN pc' = "files" /\ pos' = pos + 2 /\ UNCHANGED <<raw, total, references>>
         ELSE IF \/ Len(raw.files[f].chunk_ids) >= limits.chunks
                 \/ references + 1 > limits.references
         THEN Refuse
         ELSE /\ raw' = [raw EXCEPT !.files[f].chunk_ids = Append(@, Read16(1))]
              /\ pos' = pos + 2 /\ references' = references + 1 /\ UNCHANGED <<pc, total>>
  /\ UNCHANGED <<stream, limits, written>>

\* Mutant: the chunk limit is not checked before the table is read.
ReadChunkSettingsUnchecked ==
  /\ pc = "counts"
  /\ IF Has(4) /\ Read16(1) # 0
     THEN /\ raw' = [raw EXCEPT !.num_archive_files = Read16(1), !.num_chunks = Read16(3)]
          /\ pos' = pos + 4 /\ pc' = "chunks" /\ UNCHANGED <<total, references>>
     ELSE Refuse
  /\ UNCHANGED <<stream, limits, written>>

\* read_chunk_settings, the chunk limit and the volume count.
ReadChunkSettings ==
  /\ pc = "counts"
  /\ IF Has(4) /\ Read16(1) # 0 /\ Read16(3) <= limits.chunks
     THEN /\ raw' = [raw EXCEPT !.num_archive_files = Read16(1), !.num_chunks = Read16(3)]
          /\ pos' = pos + 4 /\ pc' = "chunks" /\ UNCHANGED <<total, references>>
     ELSE Refuse
  /\ UNCHANGED <<stream, limits, written>>

-----------------------------------------------------------------------------
(* What the metadata is reckoned to take *)

EncodedLength(strings) == SumFunction([i \in DOMAIN strings |-> Len(strings[i]) + 1])

References(a) == SumFunction([i \in DOMAIN a.files |-> Len(a.files[i].chunk_ids)])

\* Mutant: the terminators of the chunk lists are not counted.
MetadataSizeWithoutTerminators(a) ==
  9 + EncodedLength(a.strings)
    + SumFunction([i \in DOMAIN a.files |-> 2 + 2 * Len(a.files[i].chunk_ids)])
    + 4 + 16 * Len(a.chunks)

MetadataSizeBeforeVolumes(a) ==
  9 + EncodedLength(a.strings)
    + SumFunction([i \in DOMAIN a.files |-> 4 + 2 * Len(a.files[i].chunk_ids)])
    + 4 + 16 * Len(a.chunks)

MetadataBytes(a) ==
  MetadataSizeBeforeVolumes(a) + EncodedLength(a.volume_files) + Len(a.range_settings)

FlagsRequireRangeSettings(flags) == (flags \div ChunkDz) % 2 = 1
HasDz(a) == \E i \in DOMAIN a.chunks : FlagsRequireRangeSettings(a.chunks[i].flags)

-----------------------------------------------------------------------------
(* Reading the rest *)

\* read_chunks; after the last, the size so far is held against the limit.
ReadChunks ==
  /\ pc = "chunks"
  /\ IF Len(raw.chunks) = raw.num_chunks
     THEN IF MetadataSizeBeforeVolumes(raw) > limits.metadata THEN Refuse
          ELSE Goto("volumes") /\ total' = 0
     ELSE IF ~Has(16) THEN Refuse
     ELSE /\ raw' = [raw EXCEPT !.chunks = Append(@,
                       [offset |-> Read32(1), compressed_length |-> Read32(5),
                        decompressed_length |-> Read32(9), flags |-> Read16(13),
                        file |-> Read16(15)])]
          /\ pos' = pos + 16 /\ UNCHANGED <<pc, total, references>>
  /\ UNCHANGED <<stream, limits, written>>

\* Mutant: as many names as volumes.
ReadRawFileListOfAll ==
  /\ pc = "volumes"
  /\ IF Len(raw.volume_files) < raw.num_archive_files
     THEN ReadString("volume_files", limits.metadata - MetadataSizeBeforeVolumes(raw))
     ELSE Goto("range") /\ UNCHANGED total
  /\ UNCHANGED <<stream, limits, written>>

\* The names of the auxiliary volumes, within what the limit leaves.
ReadRawFileList ==
  /\ pc = "volumes"
  /\ IF Len(raw.volume_files) < raw.num_archive_files - 1
     THEN ReadString("volume_files", limits.metadata - MetadataSizeBeforeVolumes(raw))
     ELSE Goto("range") /\ UNCHANGED total
  /\ UNCHANGED <<stream, limits, written>>

\* Mutant: the whole size is not checked once the range settings are read.
ReadGlobalSettingsUnchecked ==
  /\ pc = "range"
  /\ IF HasDz(raw) /\ ~Has(10) THEN Refuse
     ELSE LET n == IF HasDz(raw) THEN 10 ELSE 0
          IN  /\ raw' = [raw EXCEPT !.range_settings = SubSeq(stream, pos + 1, pos + n)]
              /\ pos' = pos + n /\ pc' = "parsed" /\ UNCHANGED <<total, references>>
  /\ UNCHANGED <<stream, limits, written>>

\* The range settings, if a chunk asks for them, and the last check.
ReadGlobalSettings ==
  /\ pc = "range"
  /\ LET n        == IF HasDz(raw) THEN 10 ELSE 0
         complete == [raw EXCEPT !.range_settings = SubSeq(stream, pos + 1, pos + n)]
     IN  IF ~Has(n) \/ MetadataBytes(complete) > limits.metadata THEN Refuse
         ELSE /\ raw' = complete
              /\ pos' = pos + n /\ pc' = "parsed" /\ UNCHANGED <<total, references>>
  /\ UNCHANGED <<stream, limits, written>>

-----------------------------------------------------------------------------
(* The caller *)

Init ==
  /\ \/ stream \in Streams /\ written = None
     \/ \E a \in Headers : stream = WriteMetadata(a) /\ written = a
  /\ limits \in LimitSets
  /\ pos = 0 /\ pc = "settings" /\ raw = Blank /\ total = 0 /\ references = 0

\* A name is replaced by one made with ArchiveString::new, which refuses nuls,
\* or converted from a Rust string.
Rename(k, name) ==
  /\ pc \in {"parsed", "edited"}
  /\ name \in FromNames \/ \A i \in DOMAIN name : name[i] # 0
  /\ raw' = [raw EXCEPT !.strings[k] = name] /\ pc' = "edited"
  /\ UNCHANGED <<stream, pos, limits, total, references, written>>

\* write_metadata_to; what it wrote is read again.
WriteMetadataTo ==
  /\ pc \in {"parsed", "edited"}
  /\ stream' = WriteMetadata(raw) /\ written' = raw
  /\ pos' = 0 /\ pc' = "settings" /\ raw' = Blank /\ total' = 0 /\ references' = 0
  /\ UNCHANGED limits

Next ==
  \/ ReadArchiveSettings \/ ReadStrings \/ ReadDirectoryId \/ ReadChunkId
  \/ ReadChunkSettings \/ ReadChunks \/ ReadRawFileList \/ ReadGlobalSettings
  \/ \E k \in DOMAIN raw.strings, name \in NewNames \cup FromNames : Rename(k, name)
  \/ WriteMetadataTo

Spec == Init /\ [][Next]_vars

-----------------------------------------------------------------------------
(* Properties *)

\* The RawArchive has its fields' widths, and the reader is inside the stream.
TypeOK ==
  /\ pc \in {"settings", "strings", "files", "ids", "counts", "chunks", "volumes",
             "range", "parsed", "edited", "refused"}
  /\ stream \in Seq(Byte) /\ pos \in 0 .. Len(stream)
  /\ limits \in ReadLimits
  /\ raw \in RawArchive /\ written \in RawArchive \cup {None}
  /\ total \in Nat /\ references \in Nat

\* The counts of a RawArchive agree with its tables.
Consistent(a) ==
  /\ a.header = Magic /\ a.version = 0
  /\ a.num_user_files > 0 /\ a.num_directories > 0 /\ a.num_archive_files > 0
  /\ Len(a.strings) = a.num_user_files + a.num_directories - 1
  /\ Len(a.files) = a.num_user_files
  /\ Len(a.chunks) = a.num_chunks
  /\ Len(a.volume_files) = a.num_archive_files - 1
  /\ \A i \in DOMAIN a.files : Terminator \notin Range(a.files[i].chunk_ids)
  /\ \A s \in Range(a.strings \o a.volume_files) : 0 \notin Range(s)
  /\ Len(a.range_settings) = IF HasDz(a) THEN 10 ELSE 0

WithinLimits(a) ==
  /\ a.num_user_files <= limits.entries
  /\ a.num_chunks <= limits.chunks
  /\ \A i \in DOMAIN a.files : Len(a.files[i].chunk_ids) <= limits.chunks
  /\ References(a) <= limits.references
  /\ \A s \in Range(a.strings \o a.volume_files) : Len(s) <= limits.string
  /\ MetadataBytes(a) <= limits.metadata

\* At every moment of a parse, not only at its end, what the reader holds is
\* within the limits: no table is collected first and measured afterwards.
HeldWithinLimits ==
  pc \notin {"edited"} =>
    /\ Len(raw.files) <= limits.entries
    /\ Len(raw.chunks) <= limits.chunks
    /\ References(raw) <= limits.references
    /\ EncodedLength(raw.strings) <= limits.metadata
    /\ EncodedLength(raw.volume_files) <= limits.metadata

\* A header parse_metadata accepts has tables that agree with its counts, and
\* is within every limit as a whole.
AcceptedIsSound == pc = "parsed" => Consistent(raw) /\ WithinLimits(raw)

\* The size that the metadata limit is compared with, reckoned from the parsed
\* tables by metadata_size_before_volumes, is the number of bytes read.
AccountedExactly == pc = "parsed" => MetadataBytes(raw) = pos

\* write_metadata_to writes the very bytes the RawArchive was read from.
Lossless == pc = "parsed" => WriteMetadata(raw) = SubSeq(stream, 1, pos)

\* What was written from consistent tables within the limits is accepted, and
\* read back as it was, names changed in between included.
ReadsBack ==
  written # None /\ Consistent(written) /\ WithinLimits(written) =>
    /\ pc # "refused"
    /\ pc = "parsed" => raw = written

\* The names of a RawArchive that has been written are the names a reader finds.
\* writer.rs promises metadata "exactly as represented by this value", and
\* ArchiveString::new refuses the nul that would end a name early; the
\* conversions from Rust strings do not.
NamesReadBack == pc = "parsed" /\ written # None => raw.strings = written.strings
=============================================================================
