--------------------------- MODULE MCChunkCoders ----------------------------
(***************************************************************************)
(* Chunks for the coders.  dzip's encoders get every short string over two *)
(* bytes and a few longer ones: a run longer than the longest match, a     *)
(* block that fills up in the middle of a run, a distance beyond the       *)
(* shared distance table, a carry through pending bytes.  The other        *)
(* writers get short strings and every choice they have.                   *)
(***************************************************************************)
EXTENDS ChunkCoders

Strings(bytes, n) == UNION {[1 .. k -> bytes] : k \in 0 .. n}
Chunks(codec, writer, inputs) == [codec : {codec}, writer : {writer}, input : inputs]

Run(byte, n) == [i \in 1 .. n |-> byte]
Rising(n)    == [i \in 1 .. n |-> i]

ZlibJobs ==
  Chunks("ZLIB", "dzip", Strings({0, 3}, 5) \cup {Run(0, 10), <<0, 1, 2, 3, 1, 2, 3, 0, 0, 1, 2>>})
    \cup Chunks("ZLIB", "external", {<<1>>, <<0, 1, 0, 1>>})

BzipJobs ==
  Chunks("BZIP", "dzip", Strings({3, 12}, 4) \cup {Run(0, 11), <<1, 2, 3, 4, 5, 2, 1>>})
    \cup Chunks("BZIP", "external", {<<>>, <<1>>, <<0, 1, 0, 0, 1, 1>>})

LzmaJobs ==
  Chunks("LZMA", "dzip", Strings({3, 12}, 5)
           \cup {Run(0, 11), Run(15, 7), <<1, 2, 3, 4, 9, 1, 2, 3, 4, 8, 1, 2, 3, 4, 9, 1>>,
                 Rising(15) \o <<0, 0, 0, 1, 2, 3, 4, 1>>})
    \cup Chunks("LZMA", "external", {<<1>>, <<3, 3, 3, 3>>, <<0, 1, 0, 1, 0>>})

ChunkJobs == ZlibJobs \cup BzipJobs \cup LzmaJobs

\* A header with every optional field.
LongHeader ==
  <<GzipMagic, <<1, 1, 1, 1>>, <<0, 0, 0, 0>>, <<1, 0, 0, 0>>, <<1, 1, 1, 1>>,
    <<1, 0, 0, 1>>, <<0, 0, 0, 0>>, <<0, 0, 0, 0>>, <<1, 1, 0, 1>>>>

Headers == {GzipHeader, LongHeader}

\* A tree with two distances; one without; one that repeats lengths and zeros.
Trees ==
  {[literal |-> <<2, 3, 0, 0, 2, 2, 3>>, distance |-> <<1, 1>>,
    runs |-> <<<<2, 0>>, <<3, 0>>, <<6, 0>>, <<2, 0>>, <<2, 0>>, <<3, 0>>, <<1, 0>>, <<1, 0>>>>],
   [literal |-> <<2, 2, 0, 0, 1>>, distance |-> <<0>>,
    runs |-> <<<<2, 0>>, <<2, 0>>, <<6, 0>>, <<1, 0>>, <<0, 0>>>>],
   [literal |-> <<3, 3, 3, 3, 3, 3>>, distance |-> <<3, 3, 3>>,
    runs |-> <<<<3, 0>>, <<5, 0>>, <<5, 1>>, <<5, 0>>, <<3, 0>>>>]}
=============================================================================
