-------------------------- MODULE MCArchiveMetadata --------------------------
(***************************************************************************)
(* Small headers, with bytes of three values: a u16 is below nine and the  *)
(* terminator is 8.  From them, every stream cut short and every stream    *)
(* with one byte changed.                                                  *)
(***************************************************************************)
EXTENDS ArchiveMetadata

Record(offset, stored, decoded, flags, file) ==
  [offset |-> offset, compressed_length |-> stored, decompressed_length |-> decoded,
   flags |-> flags, file |-> file]

File(directory, ids) == [directory_id |-> directory, chunk_ids |-> ids]

\* One file, one chunk.
Small ==
  [Blank EXCEPT !.num_user_files = 1, !.num_directories = 1, !.strings = << <<1>> >>,
                !.files = <<File(0, <<0>>)>>, !.num_archive_files = 1, !.num_chunks = 1,
                !.chunks = <<Record(40, 3, 5, 1, 0)>>]

\* Two files, one of them empty and one without a name, a stored directory, a
\* second volume, DZ chunks and so range settings.
Full ==
  [Blank EXCEPT !.num_user_files = 2, !.num_directories = 2,
                !.strings = << <<1, 2>>, <<>>, <<2>> >>,
                !.files = <<File(1, <<0, 1>>), File(0, <<>>)>>,
                !.num_archive_files = 2, !.num_chunks = 2,
                !.chunks = <<Record(75, 80, 5, 4, 1), Record(9, 0, 1, 2, 0)>>,
                !.volume_files = << <<2>> >>,
                !.range_settings = <<2, 1, 2, 1, 1, 2, 1, 2, 0, 0>>]

\* One file, one chunk, and a dictionary that no file refers to.
Shared == [Small EXCEPT !.num_chunks = 2, !.chunks = Append(@, Record(43, 2, 0, 1, 0))]

\* No chunk at all, three volumes.
Bare ==
  [Blank EXCEPT !.num_user_files = 1, !.num_directories = 1, !.strings = << <<2>> >>,
                !.files = <<File(0, <<>>)>>, !.num_archive_files = 3,
                !.volume_files = << <<1>>, <<2>> >>]

\* Tables that do not agree with the counts, or hold what ends a field.
Odd == {[Small EXCEPT !.files[1].chunk_ids = <<0, 8>>], [Small EXCEPT !.num_chunks = 2],
        [Full EXCEPT !.range_settings = <<>>], [Full EXCEPT !.num_archive_files = 1],
        [Small EXCEPT !.strings[1] = <<1, 0, 2>>], [Bare EXCEPT !.header = 6]}

Sound == {Small, Shared, Full, Bare}
SomeHeaders == Sound \cup Odd

Cut(s) == {SubSeq(s, 1, n) : n \in 0 .. Len(s) - 1}
Changed(s) == {[s EXCEPT ![i] = b] : i \in DOMAIN s, b \in 0 .. Base - 1}
Damaged == UNION {Cut(WriteMetadata(a)) \cup Changed(WriteMetadata(a)) : a \in Sound}
WithPayload == {WriteMetadata(a) \o <<1, 0, 2>> : a \in Sound}
SomeStreams == Damaged \cup WithPayload

Roomy == [entries |-> 8, chunks |-> 8, references |-> 20, string |-> 9, metadata |-> 200]
\* Exactly what Full takes, and one less of each.
Exact == [entries |-> 2, chunks |-> 2, references |-> 2, string |-> 2, metadata |-> 75]
Less == {[Exact EXCEPT ![r] = @ - 1] : r \in DOMAIN Exact}
SomeLimits == {Roomy, Exact} \cup Less

PlainNames == {<<2, 1>>, <<1, 0>>}
NoNames == {}
NulNames == {<<1, 0, 2>>}
NoStreams == {}
RoomyOnly == {Roomy}
=============================================================================
