-------------------------- MODULE MCArchiveReader ---------------------------
(***************************************************************************)
(* Small archives for the reader.  Lengths are single digits; MaxU32 is    *)
(* reached by one volume.                                                  *)
(***************************************************************************)
EXTENDS ArchiveReader, TLC

C(offset, stored, decoded, flags, file, need, work) ==
  [offset |-> offset, compressed_length |-> stored, decompressed_length |-> decoded,
   flags |-> flags, file |-> file, need |-> need, work |-> work]

Roomy == [input |-> 9, output |-> 9, workspace |-> 9, entry |-> 99, total |-> 99]

A(chunks, entries, volumes, limits, l0, l1, l2) ==
  [chunks |-> chunks, entries |-> entries, volume_files |-> volumes,
   range_valid |-> TRUE, limits |-> limits,
   lengths |-> (0 :> {l0} @@ 1 :> l1 @@ 2 :> l2)]

\* One placeholder record per volume, an entry across all of them, a zero chunk.
Split(l1, l2) ==
  A(<<C(1, 3, 3, {"ZLIB"}, 0, 2, 1), C(0, 4, 4, {"LZMA"}, 1, 3, 2),
      C(3, 5, 5, {"BZIP"}, 1, 3, 1), C(0, 2, 2, {"COPY"}, 2, 2, 0),
      C(7, 3, 3, {"ZERO"}, 2, 0, 0), C(2, 6, 6, {"ZLIB", "MP3"}, 2, 3, 1)>>,
    <<<<1, 3>>, <<2, 4, 5>>, <<6>>, <<>> >>, 2, Roomy, 4, l1, l2)

\* DZ chunks and their dictionary, each in a volume of its own.  The second
\* entry reads an LZMA chunk that fits the workspace only without dictionary.
Common(budget, l1, l2) ==
  A(<<C(1, 2, 4, {"DZ"}, 0, 2, 2), C(0, 3, 3, {"DZ", "RANDOMACCESS"}, 1, 3, 2),
      C(0, 3, 2, {"LZMA"}, 2, 3, 4), C(3, 2, 0, {"COMBUF"}, 2, 1, 0),
      C(3, 1, 0, {"COMBUF"}, 0, 1, 0)>>,
    <<<<1>>, <<3, 2>>>>, 2, [Roomy EXCEPT !.workspace = budget], 4, l1, l2)

\* The layout of volume 1 exceeds the input limit once it has grown; its record
\* sizes respect it, so the archive opens.  Volume 2 does not exist at all.
Tight(l1) ==
  A(<<C(1, 2, 2, {"COPY"}, 0, 2, 0), C(0, 2, 2, {"ZLIB"}, 1, 2, 1),
      C(1, 2, 2, {"LZMA", "COMBUF"}, 1, 2, 1), C(0, 1, 1, {"COPY"}, 2, 1, 0)>>,
    <<<<1, 2>>, <<3>>, <<4>>>>, 2, [Roomy EXCEPT !.input = 3], 3, l1, {})

\* Two records at one offset, a stored length beyond the end of the volume, and a
\* stream longer than a record can say.
Odd(l1) ==
  A(<<C(1, 3, 3, {"ZLIB"}, 0, 2, 1), C(1, 3, 3, {"COPY", "LZMA"}, 0, 3, 0),
      C(4, 9, 9, {"DZ"}, 1, 9, 1), C(0, 5, 4, {"BZIP"}, 1, 4, 1)>>,
    <<<<1>>, <<2, 4>>, <<3>>>>, 1, [Roomy EXCEPT !.input = 10, !.output = 10], 4, l1, {})

\* Archives that are refused: an unknown bit, DZ with COMBUF, a metadata-only
\* record in an entry, a missing chunk, a volume without a name, too long.
Refused ==
  LET one(flags, file, ids) ==
        A(<<C(1, 2, 2, flags, file, 2, 1)>>, <<ids>>, 1, Roomy, 4, {3}, {})
  IN  {one({"COPY", "UNKNOWN"}, 0, <<1>>), one({"DZ", "COMBUF"}, 0, <<1>>),
       one({"MP3"}, 0, <<1>>), one({"COPY"}, 0, <<2>>), one({"COPY"}, 2, <<1>>),
       A(<<C(1, 9, 9, {"ZLIB"}, 0, 9, 1)>>, <<<<1>>>>, 0,
         [Roomy EXCEPT !.input = 5], 9, {}, {})}

\* With files that grow.
GrowingArchives ==
  {Split({5, 7}, {6}), Common(8, {2, 3}, {4, 5}), Common(2, {3}, {5}),
   Tight({3, 5}), Odd({8, 14})}

WholeArchives ==
  {Split({7}, {6}), Split({5}, {6}), Common(8, {3}, {5}), Common(7, {3}, {5}),
   Common(4, {3}, {5}), Common(2, {3}, {5}), Tight({3}), Tight({5})}

SmallArchives == GrowingArchives \cup WholeArchives \cup Refused
=============================================================================
