-------------------------- MODULE MCArchiveBuilder --------------------------
(***************************************************************************)
(* Small builds.  Files 1 and 2 are volumes, 3 and 4 are sources; file 1   *)
(* is also a source once.                                                  *)
(***************************************************************************)
EXTENDS ArchiveBuilder, TLC

S(path, source, size, flags, volume, encoded) ==
  [path |-> path, source |-> source, size |-> size, flags |-> flags, volume |-> volume,
   encoded |-> encoded]

J(segments, names, sink, alignment, common) ==
  [segments |-> segments, names |-> names, sink |-> sink, alignment |-> alignment,
   common |-> common, strings |-> 5, volume_strings |-> 3 * (Len(names) - 1),
   existing |-> (1 :> 0 @@ 2 :> 4 @@ 3 :> 0 @@ 4 :> 2)]

\* Every coder; two segments of one file; empty inputs between the others.
Mixed ==
  J(<<S(1, 0, 0, {"ZLIB"}, 0, 12), S(2, 0, 3, {"BZIP"}, 0, 6), S(1, 3, 0, {"COPY"}, 0, 1),
      S(3, 0, 4, {"DZ", "MP3"}, 0, 4), S(2, 0, 2, {"LZMA", "COMBUF"}, 0, 7)>>,
    <<1>>, "files", 0, NoLength)

\* Two volumes, alignment, an empty common buffer, an empty bzip and DZ input.
Split(common) ==
  J(<<S(1, 4, 0, {"DZ"}, 1, 3), S(2, 0, 0, {"BZIP"}, 1, 5), S(3, 0, 9, {"ZERO"}, 1, 1),
      S(2, 4, 0, {"ZLIB"}, 1, 4)>>,
    <<1, 2>>, "files", 32, common)

\* A borrowed writer that is n bytes long; bits of several coders.
Borrowed(n) ==
  [J(<<S(1, 3, 0, {"COPY", "LZMA"}, 0, 1), S(2, 0, 2, {"BZIP"}, 0, 3)>>,
     <<1>>, "writer", 1, NoLength) EXCEPT !.existing = (1 :> n @@ 2 :> 0 @@ 3 :> 1 @@ 4 :> 0)]

\* The same with a bzip stream last, and more behind it than the archive takes.
Overlong ==
  [J(<<S(2, 0, 2, {"BZIP"}, 0, 3)>>, <<1>>, "writer", 1, NoLength)
     EXCEPT !.existing = (1 :> 200 @@ 2 :> 0 @@ 3 :> 0 @@ 4 :> 0)]

\* Two names of one file, a source that is the output, bits the reader refuses.
Alias == J(<<S(1, 0, 2, {"BZIP"}, 0, 3), S(2, 0, 2, {"COPY"}, 1, 1)>>, <<2, 2>>, "files", 0, NoLength)
Selfish == J(<<S(1, 2, 0, {"BZIP"}, 0, 3), S(2, 2, 0, {"LZMA"}, 0, 5)>>, <<2>>, "files", 0, NoLength)
Raw == J(<<S(1, 0, 2, {"ZLIB", "DZ"}, 0, 3)>>, <<1>>, "memory", 0, NoLength)

\* Refused: no volume, no coder, no such volume, two volumes for one writer, too many
\* chunks, an offset and a length that do not fit.
Refused ==
  {[J(<<S(1, 0, 1, {"COPY"}, 0, 1)>>, <<1>>, "memory", 0, NoLength) EXCEPT !.names = <<>>],
   J(<<S(1, 0, 1, {"MP3"}, 0, 1)>>, <<2>>, "files", 0, NoLength),
   J(<<S(1, 0, 1, {"COPY"}, 1, 1)>>, <<2>>, "memory", 0, NoLength),
   J(<<S(1, 0, 1, {"COPY"}, 0, 1)>>, <<1, 2>>, "writer", 0, NoLength),
   J([i \in 1 .. 5 |-> S(i, 0, 1, {"DZ"}, 0, 2)], <<1>>, "memory", 0, 6),
   J([i \in 1 .. 6 |-> S(1, 0, 1, {"COPY"}, 0, 1)], <<1>>, "memory", 0, NoLength),
   J(<<S(1, 0, 1, {"COPY"}, 0, 1)>>, <<1>>, "memory", 512, NoLength),
   J(<<S(1, 0, 1, {"DZ"}, 0, 1)>>, <<1>>, "memory", 512, 6),
   J(<<S(1, 0, 1, {"DZ"}, 0, 1)>>, <<1>>, "memory", 0, 401),
   J(<<S(1, 0, 401, {"ZLIB"}, 0, 2)>>, <<1>>, "memory", 0, NoLength)}

SmallJobs ==
  {Mixed, Split(0), Split(6), Split(NoLength), Borrowed(0), Borrowed(40), Overlong, Alias, Selfish, Raw}
    \cup Refused
=============================================================================
