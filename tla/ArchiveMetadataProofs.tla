------------------------ MODULE ArchiveMetadataProofs ------------------------
(***************************************************************************)
(* Proofs about ArchiveMetadata: whatever the stream and the limits, the   *)
(* parser holds no more than the limits allow, accepts only tables that    *)
(* agree with their counts, reckons their size to the byte, and writes     *)
(* them back as it read them; and a header written from tables that agree  *)
(* with their counts and keep to the limits is accepted, and the tables    *)
(* read are the tables written.                                            *)
(***************************************************************************)
EXTENDS ArchiveMetadata, Sums

-----------------------------------------------------------------------------
(* Numbers and their bytes *)

\* A number below the square of a base is two digits.
LEMMA TwoDigits ==
  ASSUME NEW b \in Nat \ {0}, NEW n \in 0 .. b * b - 1
  PROVE  n % b \in 0 .. b - 1 /\ n \div b \in 0 .. b - 1 /\ n = (n % b) + b * (n \div b)
<1> DEFINE q == n \div b
           r == n % b
<1>1. q \in Int /\ r \in 0 .. b - 1 /\ n = b * q + r
  OBVIOUS
<1> HIDE DEF q, r
<1>2. q >= 0
  <2>1. CASE q <= -1
    <3>1. b * q <= b * (-1)
      BY <1>1, <2>1
    <3>2. QED
      BY <1>1, <3>1
  <2>2. QED
    BY <1>1, <2>1
<1>3. q <= b - 1
  <2>1. CASE q >= b
    <3>1. b * q >= b * b
      BY <1>1, <2>1
    <3>2. QED
      BY <1>1, <3>1
  <2>2. QED
    BY <1>1, <2>1
<1>4. QED
  BY <1>1, <1>2, <1>3 DEF q, r

\* Two digits are a number below the square of the base, and its digits.
LEMMA OfDigits ==
  ASSUME NEW b \in Nat \ {0}, NEW lo \in 0 .. b - 1, NEW hi \in 0 .. b - 1
  PROVE  /\ lo + b * hi \in 0 .. b * b - 1
         /\ (lo + b * hi) % b = lo /\ (lo + b * hi) \div b = hi
<1>1. b * hi \in Nat /\ b * hi <= b * (b - 1) /\ b * (b - 1) = b * b - b
  OBVIOUS
<1>2. lo + b * hi \in 0 .. b * b - 1
  BY <1>1
<1> DEFINE n == lo + b * hi
           q == n \div b
           r == n % b
<1>3. q \in 0 .. b - 1 /\ r \in 0 .. b - 1 /\ n = r + b * q
  BY <1>2, TwoDigits
<1>4. lo + b * hi = r + b * q
  BY <1>3
<1> HIDE DEF n, q, r
<1>5. b * (hi - q) = r - lo
  <2>1. b * (hi - q) = b * hi - b * q
    BY <1>3
  <2>2. b * hi \in Int /\ b * q \in Int
    BY <1>3
  <2>3. QED
    BY <1>3, <1>4, <2>1, <2>2
<1>6. hi = q
  <2>1. CASE hi - q >= 1
    <3>1. b * (hi - q) >= b
      BY <1>3, <2>1
    <3>2. QED
      BY <1>3, <1>5, <3>1
  <2>2. CASE hi - q <= -1
    <3>1. b * (hi - q) <= -b
      BY <1>3, <2>2
    <3>2. QED
      BY <1>3, <1>5, <3>1
  <2>3. QED
    BY <1>3, <2>1, <2>2
<1>7. QED
  BY <1>2, <1>3, <1>4, <1>6 DEF n, q, r

-----------------------------------------------------------------------------
(* Sequences joined together *)

\* f, element by element.
Each(f, s) == [i \in DOMAIN s |-> f[s[i]]]
Maps(f, S, T) == f \in [S -> T]

\* There are as many results as there are elements ...
LEMMA EachTyped ==
  ASSUME NEW S, NEW T, NEW f, Maps(f, S, T), NEW s \in Seq(S)
  PROVE  Each(f, s) \in Seq(T) /\ (s = <<>> => Each(f, s) = <<>>)
<1> DEFINE e == [i \in DOMAIN s |-> f[s[i]]]
           n == Len(s)
<1>1. n \in Nat /\ DOMAIN s = 1 .. n /\ \A i \in DOMAIN s : s[i] \in S
  BY LenProperties
<1>2. e \in [1 .. n -> T]
  BY <1>1 DEF Maps
<1>3. e \in Seq(T)
  <2> HIDE DEF e, n
  <2>1. QED
    BY <1>1, <1>2
<1>4. QED
  BY <1>1, <1>3 DEF Each

\* ... and one more when one is appended.
LEMMA EachAppended ==
  ASSUME NEW S, NEW T, NEW f, Maps(f, S, T), NEW s \in Seq(S), NEW x \in S
  PROVE  Each(f, Append(s, x)) = Append(Each(f, s), f[x])
<1> DEFINE e == [i \in DOMAIN s |-> f[s[i]]]
           t == Append(s, x)
           g == [i \in DOMAIN t |-> f[t[i]]]
<1>1. Len(s) \in Nat /\ DOMAIN s = 1 .. Len(s) /\ \A i \in DOMAIN s : s[i] \in S
  BY LenProperties
<1>2. f \in [S -> T] /\ \A i \in DOMAIN s : f[s[i]] \in T
  BY <1>1 DEF Maps
<1>3. e \in Seq(T) /\ Len(e) = Len(s)
  <2> DEFINE n == Len(s)
  <2>1. e \in [1 .. n -> T] /\ n \in Nat
    BY <1>1, <1>2
  <2> HIDE DEF e, t, g, n
  <2>2. e \in Seq(T)
    BY <2>1
  <2>3. Len(e) = n
    BY <2>1, <2>2
  <2>4. QED
    BY <2>2, <2>3 DEF n
<1>4. t \in Seq(S) /\ Len(t) = Len(s) + 1 /\ t[Len(s) + 1] = x /\ \A i \in DOMAIN s : t[i] = s[i]
  BY <1>1, AppendProperties
<1>5. DOMAIN t = 1 .. Len(s) + 1
  BY <1>4, LenProperties
<1>6. g = Append(e, f[x])
  <2> DEFINE a == Append(e, f[x])
             n == Len(s)
  <2>1. f[x] \in T /\ n \in Nat
    BY <1>1, <1>2
  <2>2. a \in Seq(T) /\ Len(a) = n + 1 /\ a[n + 1] = f[x] /\ \A i \in 1 .. n : a[i] = e[i]
    <3> HIDE DEF e
    <3>1. QED
      BY <1>3, <2>1, AppendProperties
  <2>3. \A i \in 1 .. n : e[i] = f[s[i]] /\ t[i] = s[i]
    BY <1>1, <1>4
  <2>4. DOMAIN g = 1 .. n + 1 /\ \A i \in 1 .. n + 1 : g[i] = f[t[i]]
    BY <1>5
  <2>5. t[n + 1] = x
    BY <1>4
  <2>6. a = [i \in 1 .. n + 1 |-> a[i]] /\ g = [i \in 1 .. n + 1 |-> g[i]]
    <3>1. g = [i \in 1 .. n + 1 |-> g[i]]
      BY <1>5
    <3> HIDE DEF a, n
    <3>2. DOMAIN a = 1 .. n + 1 /\ a = [i \in DOMAIN a |-> a[i]]
      BY <2>2, LenProperties
    <3>3. QED
      BY <3>1, <3>2
  <2> HIDE DEF a, g, e, t, n
  <2>7. \A i \in 1 .. n + 1 : g[i] = a[i]
    <3> SUFFICES ASSUME NEW i \in 1 .. n + 1 PROVE g[i] = a[i]
      OBVIOUS
    <3>1. CASE i = n + 1
      BY <2>2, <2>4, <2>5, <3>1
    <3>2. CASE i # n + 1
      <4>1. i \in 1 .. n
        BY <2>1, <3>2
      <4>2. QED
        BY <2>2, <2>3, <2>4, <4>1
    <3>3. QED
      BY <3>1, <3>2
  <2>8. g = a
    BY <2>6, <2>7
  <2>9. QED
    BY <2>8 DEF a
<1>7. QED
  BY <1>6 DEF Each

-----------------------------------------------------------------------------
(* Fields and tables as bytes *)

\* The sizes of the fields.
LEMMA Widths ==
  /\ Base \in Nat \ {0, 1} /\ Words \in Nat \ {0} /\ Words = Base * Base
  /\ Byte = 0 .. Base - 1 /\ U16 = 0 .. Words - 1 /\ U32 = 0 .. Words * Words - 1
  /\ Terminator \in U16 /\ 0 \in Byte /\ 0 \in U16
<1>1. Base \in Nat \ {0, 1}
  BY MetadataAssumption
<1>2. Base * Base \in Nat \ {0}
  <2>1. Base * Base >= Base
    BY <1>1
  <2>2. QED
    BY <1>1, <2>1
<1>3. QED
  BY <1>1, <1>2 DEF Words, Byte, U16, U32, Terminator

\* A u16 is two bytes.
LEMMA Bytes16Typed ==
  ASSUME NEW n \in U16
  PROVE  Bytes16(n) \in Seq(Byte) /\ Len(Bytes16(n)) = 2
<1>1. n % Base \in Byte /\ n \div Base \in Byte
  BY Widths, TwoDigits
<1>2. QED
  BY <1>1 DEF Bytes16

\* A u32 is four.
LEMMA Bytes32Typed ==
  ASSUME NEW n \in U32
  PROVE  Bytes32(n) \in Seq(Byte) /\ Len(Bytes32(n)) = 4
<1>1. n % Words \in U16 /\ n \div Words \in U16
  BY Widths, TwoDigits
<1> DEFINE lo == Bytes16(n % Words)
           hi == Bytes16(n \div Words)
<1>2. lo \in Seq(Byte) /\ Len(lo) = 2 /\ hi \in Seq(Byte) /\ Len(hi) = 2
  BY <1>1, Bytes16Typed
<1> HIDE DEF lo, hi
<1>3. lo \o hi \in Seq(Byte) /\ Len(lo \o hi) = 4
  <2>1. lo \o hi \in Seq(Byte)
    BY <1>2, ConcatProperties
  <2>2. Len(lo \o hi) = Len(lo) + Len(hi)
    BY <1>2, ConcatProperties
  <2>3. QED
    BY <1>2, <2>1, <2>2
<1>4. QED
  BY <1>3 DEF Bytes32, lo, hi

Written(f, s) == FlattenSeq(Each(f, s))

\* What is written element by element is bytes ...
LEMMA WrittenTyped ==
  ASSUME NEW S, NEW B, NEW f, Maps(f, S, Seq(B)), NEW s \in Seq(S)
  PROVE  Written(f, s) \in Seq(B) /\ (s = <<>> => Written(f, s) = <<>>)
<1> DEFINE T == Seq(B)
           e == Each(f, s)
<1>1. e \in Seq(T) /\ (s = <<>> => e = <<>>)
  <2> HIDE DEF T
  <2>1. Maps(f, S, T)
    BY DEF T
  <2>2. QED
    BY <2>1, EachTyped
<1>2. e \in Seq(Seq(B))
  BY <1>1
<1> HIDE DEF e, T
<1>3. FlattenSeq(e) \in Seq(B) /\ (e = <<>> => FlattenSeq(e) = <<>>)
  <2>1. <<>> \in Seq(B)
    OBVIOUS
  <2>2. QED
    BY <1>2, <2>1, FlattenAppended
<1>4. QED
  BY <1>1, <1>3 DEF Written, e

\* ... and grows at its end.
LEMMA WrittenAppended ==
  ASSUME NEW S, NEW B, NEW f, Maps(f, S, Seq(B)), NEW s \in Seq(S), NEW x \in S
  PROVE  Written(f, Append(s, x)) = Written(f, s) \o f[x]
<1> DEFINE T == Seq(B)
           e == Each(f, s)
           y == f[x]
<1>1. e \in Seq(T) /\ y \in T /\ Each(f, Append(s, x)) = Append(e, y)
  <2> HIDE DEF T
  <2>1. Maps(f, S, T)
    BY DEF T
  <2>2. y \in T
    BY <2>1 DEF Maps
  <2>3. QED
    BY <2>1, <2>2, EachTyped, EachAppended
<1>2. e \in Seq(Seq(B)) /\ y \in Seq(B)
  BY <1>1
<1> HIDE DEF e, T, y
<1>3. FlattenSeq(Append(e, y)) = FlattenSeq(e) \o y
  BY <1>2, FlattenAppended
<1>4. QED
  BY <1>1, <1>3 DEF Written, e, y

-----------------------------------------------------------------------------
(* Tables as bytes *)

\* Strings are written one after the other, each with its nul.
LEMMA StringsWritten ==
  ASSUME NEW s \in Seq(Seq(Byte)), NEW x \in Seq(Byte)
  PROVE  /\ WriteRawStrings(s) \in Seq(Byte)
         /\ s = <<>> => WriteRawStrings(s) = <<>>
         /\ WriteRawStrings(Append(s, x)) = WriteRawStrings(s) \o (Append(x, 0))
<1> DEFINE T == Seq(Byte)
           f == [y \in T |-> Append(y, 0)]
           t == Append(s, x)
<1>1. s \in Seq(T) /\ x \in T /\ t \in Seq(T)
  <2> HIDE DEF T
  <2>1. QED
    BY AppendProperties DEF T
<1>2. Maps(f, T, Seq(Byte)) /\ f[x] = Append(x, 0)
  <2>1. \A y \in T : Append(y, 0) \in Seq(Byte)
    BY Widths
  <2>2. QED
    BY <2>1 DEF Maps
<1>3. \A r \in Seq(T) : WriteRawStrings(r) = Written(f, r)
  <2> SUFFICES ASSUME NEW r \in Seq(T)
               PROVE  [i \in DOMAIN r |-> Append(r[i], 0)] = [i \in DOMAIN r |-> f[r[i]]]
    BY DEF WriteRawStrings, Concat, Written, Each
  <2>1. \A i \in DOMAIN r : r[i] \in T
    <3> HIDE DEF T
    <3>1. QED
      BY LenProperties
  <2>2. QED
    BY <2>1
<1> HIDE DEF f, T, t
<1>4. Written(f, s) \in Seq(Byte) /\ (s = <<>> => Written(f, s) = <<>>)
  BY <1>1, <1>2, WrittenTyped
<1>5. Written(f, t) = Written(f, s) \o f[x]
  <2> DEFINE B == Byte
  <2>1. Maps(f, T, Seq(B)) /\ s \in Seq(T) /\ x \in T
    BY <1>1, <1>2
  <2> HIDE DEF B
  <2>2. QED
    BY <2>1, WrittenAppended DEF t
<1>6. QED
  BY <1>1, <1>2, <1>3, <1>4, <1>5 DEF t

\* The ids of a chunk list, without its terminator.
WriteIds(ids) == Concat(ids, Bytes16)

\* Ids are written one after the other.
LEMMA IdsWritten ==
  ASSUME NEW s \in Seq(U16), NEW x \in U16
  PROVE  /\ WriteIds(s) \in Seq(Byte)
         /\ s = <<>> => WriteIds(s) = <<>>
         /\ WriteIds(Append(s, x)) = WriteIds(s) \o (Bytes16(x))
<1> DEFINE T == U16
           f == [y \in T |-> Bytes16(y)]
           t == Append(s, x)
<1>1. s \in Seq(T) /\ x \in T /\ t \in Seq(T)
  <2> HIDE DEF T
  <2>1. QED
    BY AppendProperties DEF T
<1>2. Maps(f, T, Seq(Byte)) /\ f[x] = Bytes16(x)
  <2>1. \A y \in T : Bytes16(y) \in Seq(Byte)
    BY Bytes16Typed
  <2>2. QED
    BY <2>1 DEF Maps
<1>3. \A r \in Seq(T) : WriteIds(r) = Written(f, r)
  <2> SUFFICES ASSUME NEW r \in Seq(T)
               PROVE  [i \in DOMAIN r |-> Bytes16(r[i])] = [i \in DOMAIN r |-> f[r[i]]]
    BY DEF WriteIds, Concat, Written, Each
  <2>1. \A i \in DOMAIN r : r[i] \in T
    <3> HIDE DEF T
    <3>1. QED
      BY LenProperties
  <2>2. QED
    BY <2>1
<1> HIDE DEF f, T, t
<1>4. Written(f, s) \in Seq(Byte) /\ (s = <<>> => Written(f, s) = <<>>)
  BY <1>1, <1>2, WrittenTyped
<1>5. Written(f, t) = Written(f, s) \o f[x]
  <2> DEFINE B == Byte
  <2>1. Maps(f, T, Seq(B)) /\ s \in Seq(T) /\ x \in T
    BY <1>1, <1>2
  <2> HIDE DEF B
  <2>2. QED
    BY <2>1, WrittenAppended DEF t
<1>6. QED
  BY <1>1, <1>2, <1>3, <1>4, <1>5 DEF t

WriteFile(f) == Bytes16(f.directory_id) \o WriteIds(f.chunk_ids) \o Bytes16(Terminator)

\* A file is its directory, its ids and the terminator.
LEMMA FileTyped ==
  ASSUME NEW f \in FileRecord
  PROVE  WriteFile(f) \in Seq(Byte)
<1> DEFINE d == Bytes16(f.directory_id)
           c == WriteIds(f.chunk_ids)
           z == Bytes16(Terminator)
<1>1. d \in Seq(Byte)
  BY Bytes16Typed DEF FileRecord
<1>2. c \in Seq(Byte)
  <2>1. f.chunk_ids \in Seq(U16) /\ 0 \in U16
    BY Widths DEF FileRecord
  <2>2. QED
    BY <2>1, IdsWritten
<1>3. z \in Seq(Byte)
  BY Bytes16Typed, Widths
<1> HIDE DEF d, c, z
<1>4. d \o c \in Seq(Byte)
  BY <1>1, <1>2, ConcatProperties
<1>5. (d \o c) \o z \in Seq(Byte)
  BY <1>3, <1>4, ConcatProperties
<1>6. QED
  BY <1>5 DEF WriteFile, d, c, z

\* Files are written one after the other.
LEMMA FilesWritten ==
  ASSUME NEW s \in Seq(FileRecord), NEW x \in FileRecord
  PROVE  /\ WriteRawFileChunkMap(s) \in Seq(Byte)
         /\ s = <<>> => WriteRawFileChunkMap(s) = <<>>
         /\ WriteRawFileChunkMap(Append(s, x)) = WriteRawFileChunkMap(s) \o (WriteFile(x))
<1> DEFINE T == FileRecord
           f == [y \in T |-> WriteFile(y)]
           t == Append(s, x)
<1>1. s \in Seq(T) /\ x \in T /\ t \in Seq(T)
  <2> HIDE DEF T
  <2>1. QED
    BY AppendProperties DEF T
<1>2. Maps(f, T, Seq(Byte)) /\ f[x] = WriteFile(x)
  <2>1. \A y \in T : WriteFile(y) \in Seq(Byte)
    BY FileTyped
  <2>2. QED
    BY <2>1 DEF Maps
<1>3. \A r \in Seq(T) : WriteRawFileChunkMap(r) = Written(f, r)
  <2> SUFFICES ASSUME NEW r \in Seq(T)
               PROVE  [i \in DOMAIN r |-> WriteFile(r[i])] = [i \in DOMAIN r |-> f[r[i]]]
    BY DEF WriteRawFileChunkMap, WriteFile, WriteIds, Concat, Written, Each
  <2>1. \A i \in DOMAIN r : r[i] \in T
    <3> HIDE DEF T
    <3>1. QED
      BY LenProperties
  <2>2. QED
    BY <2>1
<1> HIDE DEF f, T, t
<1>4. Written(f, s) \in Seq(Byte) /\ (s = <<>> => Written(f, s) = <<>>)
  BY <1>1, <1>2, WrittenTyped
<1>5. Written(f, t) = Written(f, s) \o f[x]
  <2> DEFINE B == Byte
  <2>1. Maps(f, T, Seq(B)) /\ s \in Seq(T) /\ x \in T
    BY <1>1, <1>2
  <2> HIDE DEF B
  <2>2. QED
    BY <2>1, WrittenAppended DEF t
<1>6. QED
  BY <1>1, <1>2, <1>3, <1>4, <1>5 DEF t

WriteChunk(c) ==
  Bytes32(c.offset) \o Bytes32(c.compressed_length) \o Bytes32(c.decompressed_length)
    \o Bytes16(c.flags) \o Bytes16(c.file)

\* A record of the chunk table is its five fields.
LEMMA ChunkTyped ==
  ASSUME NEW c \in ChunkRecord
  PROVE  WriteChunk(c) \in Seq(Byte)
<1> DEFINE o == Bytes32(c.offset)
           l == Bytes32(c.compressed_length)
           d == Bytes32(c.decompressed_length)
           g == Bytes16(c.flags)
           v == Bytes16(c.file)
<1>1. o \in Seq(Byte) /\ l \in Seq(Byte) /\ d \in Seq(Byte)
  BY Bytes32Typed DEF ChunkRecord
<1>2. g \in Seq(Byte) /\ v \in Seq(Byte)
  BY Bytes16Typed DEF ChunkRecord
<1> HIDE DEF o, l, d, g, v
<1>3. (o \o l) \o d \in Seq(Byte)
  BY <1>1, ConcatProperties
<1>4. ((o \o l) \o d) \o g \in Seq(Byte)
  BY <1>2, <1>3, ConcatProperties
<1>5. (((o \o l) \o d) \o g) \o v \in Seq(Byte)
  BY <1>2, <1>4, ConcatProperties
<1>6. QED
  BY <1>5 DEF WriteChunk, o, l, d, g, v

\* The chunk table is written record by record.
LEMMA ChunksWritten ==
  ASSUME NEW s \in Seq(ChunkRecord), NEW x \in ChunkRecord
  PROVE  /\ WriteChunks(s) \in Seq(Byte)
         /\ s = <<>> => WriteChunks(s) = <<>>
         /\ WriteChunks(Append(s, x)) = WriteChunks(s) \o (WriteChunk(x))
<1> DEFINE T == ChunkRecord
           f == [y \in T |-> WriteChunk(y)]
           t == Append(s, x)
<1>1. s \in Seq(T) /\ x \in T /\ t \in Seq(T)
  <2> HIDE DEF T
  <2>1. QED
    BY AppendProperties DEF T
<1>2. Maps(f, T, Seq(Byte)) /\ f[x] = WriteChunk(x)
  <2>1. \A y \in T : WriteChunk(y) \in Seq(Byte)
    BY ChunkTyped
  <2>2. QED
    BY <2>1 DEF Maps
<1>3. \A r \in Seq(T) : WriteChunks(r) = Written(f, r)
  <2> SUFFICES ASSUME NEW r \in Seq(T)
               PROVE  [i \in DOMAIN r |-> WriteChunk(r[i])] = [i \in DOMAIN r |-> f[r[i]]]
    BY DEF WriteChunks, WriteChunk, Concat, Written, Each
  <2>1. \A i \in DOMAIN r : r[i] \in T
    <3> HIDE DEF T
    <3>1. QED
      BY LenProperties
  <2>2. QED
    BY <2>1
<1> HIDE DEF f, T, t
<1>4. Written(f, s) \in Seq(Byte) /\ (s = <<>> => Written(f, s) = <<>>)
  BY <1>1, <1>2, WrittenTyped
<1>5. Written(f, t) = Written(f, s) \o f[x]
  <2> DEFINE B == Byte
  <2>1. Maps(f, T, Seq(B)) /\ s \in Seq(T) /\ x \in T
    BY <1>1, <1>2
  <2> HIDE DEF B
  <2>2. QED
    BY <2>1, WrittenAppended DEF t
<1>6. QED
  BY <1>1, <1>2, <1>3, <1>4, <1>5 DEF t

\* The tables up to the names, to the files and to the chunks, as written.
ToNames(a) == WriteArchiveSettings(a) \o WriteRawStrings(a.strings)
ToFiles(a) == ToNames(a) \o WriteRawFileChunkMap(a.files)
ToChunks(a) ==
  ((ToFiles(a) \o Bytes16(a.num_archive_files)) \o Bytes16(a.num_chunks))
    \o WriteChunks(a.chunks)

\* Each part of a header is written in bytes, and so is the whole.
LEMMA PartsTyped ==
  ASSUME NEW a \in RawArchive
  PROVE  /\ WriteArchiveSettings(a) \in Seq(Byte) /\ WriteRawStrings(a.strings) \in Seq(Byte)
         /\ WriteRawFileChunkMap(a.files) \in Seq(Byte) /\ WriteChunks(a.chunks) \in Seq(Byte)
         /\ WriteRawStrings(a.volume_files) \in Seq(Byte) /\ a.range_settings \in Seq(Byte)
         /\ Bytes16(a.num_archive_files) \in Seq(Byte) /\ Bytes16(a.num_chunks) \in Seq(Byte)
         /\ ToNames(a) \in Seq(Byte) /\ ToFiles(a) \in Seq(Byte) /\ ToChunks(a) \in Seq(Byte)
         /\ WriteMetadata(a) \in Seq(Byte)
         /\ WriteMetadata(a)
              = (ToChunks(a) \o WriteRawStrings(a.volume_files)) \o a.range_settings
<1> DEFINE s == WriteArchiveSettings(a)
           n == WriteRawStrings(a.strings)
           f == WriteRawFileChunkMap(a.files)
           v == Bytes16(a.num_archive_files)
           k == Bytes16(a.num_chunks)
           c == WriteChunks(a.chunks)
           l == WriteRawStrings(a.volume_files)
           g == a.range_settings
<1>1. s \in Seq(Byte)
  <2> DEFINE h == Bytes32(a.header)
             u == Bytes16(a.num_user_files)
             d == Bytes16(a.num_directories)
             z == <<a.version>>
  <2>1. h \in Seq(Byte)
    BY Bytes32Typed DEF RawArchive
  <2>2. u \in Seq(Byte) /\ d \in Seq(Byte)
    BY Bytes16Typed DEF RawArchive
  <2>3. z \in Seq(Byte)
    <3>1. a.version \in Byte
      BY DEF RawArchive
    <3>2. QED
      BY <3>1
  <2> HIDE DEF h, u, d, z
  <2>4. (h \o u) \o d \in Seq(Byte)
    BY <2>1, <2>2, ConcatProperties
  <2>5. ((h \o u) \o d) \o z \in Seq(Byte)
    BY <2>3, <2>4, ConcatProperties
  <2>6. QED
    BY <2>5 DEF WriteArchiveSettings, h, u, d, z
<1>2. n \in Seq(Byte) /\ l \in Seq(Byte)
  <2>1. a.strings \in Seq(Seq(Byte)) /\ a.volume_files \in Seq(Seq(Byte)) /\ <<>> \in Seq(Byte)
    BY DEF RawArchive
  <2>2. QED
    BY <2>1, StringsWritten
<1>3. f \in Seq(Byte)
  <2>1. a.files \in Seq(FileRecord)
    BY DEF RawArchive
  <2>2. [directory_id |-> 0, chunk_ids |-> <<>>] \in FileRecord
    BY Widths DEF FileRecord
  <2>3. QED
    BY <2>1, <2>2, FilesWritten
<1>4. c \in Seq(Byte)
  <2>1. a.chunks \in Seq(ChunkRecord)
    BY DEF RawArchive
  <2>2. 0 \in U32
    <3>1. Words * Words >= 1
      <4>1. Words * Words >= Words
        BY Widths
      <4>2. QED
        BY <4>1, Widths
    <3>2. Words * Words \in Nat
      BY Widths
    <3>3. QED
      BY <3>1, <3>2, Widths
  <2>3. [offset |-> 0, compressed_length |-> 0, decompressed_length |-> 0, flags |-> 0, file |-> 0]
          \in ChunkRecord
    BY <2>2, Widths DEF ChunkRecord
  <2>4. QED
    BY <2>1, <2>3, ChunksWritten
<1>5. v \in Seq(Byte) /\ k \in Seq(Byte)
  BY Bytes16Typed DEF RawArchive
<1>6. g \in Seq(Byte)
  <2> DEFINE m == 10
  <2>1. g = <<>> \/ g \in [1 .. m -> Byte]
    BY DEF RawArchive
  <2>2. m \in Nat
    OBVIOUS
  <2> HIDE DEF g, m, s, n, f, v, k, c, l
  <2>3. CASE g = <<>>
    BY <2>3
  <2>4. CASE g \in [1 .. m -> Byte]
    BY <2>2, <2>4
  <2>5. QED
    BY <2>1, <2>3, <2>4
<1> HIDE DEF s, n, f, v, k, c, l, g
<1>7. s \o n \in Seq(Byte) /\ (s \o n) \o f \in Seq(Byte)
  BY <1>1, <1>2, <1>3, ConcatProperties
<1>8. (((s \o n) \o f) \o v) \o k \in Seq(Byte)
  BY <1>5, <1>7, ConcatProperties
<1>9. /\ ((((s \o n) \o f) \o v) \o k) \o c \in Seq(Byte)
      /\ (((((s \o n) \o f) \o v) \o k) \o c) \o l \in Seq(Byte)
  BY <1>2, <1>4, <1>8, ConcatProperties
<1>10. ((((((s \o n) \o f) \o v) \o k) \o c) \o l) \o g \in Seq(Byte)
  BY <1>6, <1>9, ConcatProperties
<1>11. /\ ToNames(a) = s \o n /\ ToFiles(a) = (s \o n) \o f
       /\ ToChunks(a) = ((((s \o n) \o f) \o v) \o k) \o c
       /\ WriteMetadata(a) = ((((((s \o n) \o f) \o v) \o k) \o c) \o l) \o g
  BY DEF WriteMetadata, ToNames, ToFiles, ToChunks, s, n, f, v, k, c, l, g
<1>12. QED
  BY <1>1, <1>2, <1>3, <1>4, <1>5, <1>6, <1>7, <1>9, <1>10, <1>11 DEF s, n, f, v, k, c, l, g

\* A header is written in bytes.
LEMMA MetadataTyped ==
  ASSUME NEW a \in RawArchive
  PROVE  WriteMetadata(a) \in Seq(Byte)
BY PartsTyped

-----------------------------------------------------------------------------
(* The sizes the reader reckons with *)

\* The sum over a table, by the value of each element.
SumEach(f, s) == SumFunction(Each(f, s))

\* It is a number ...
LEMMA SumEachTyped ==
  ASSUME NEW S, NEW f, Maps(f, S, Nat), NEW s \in Seq(S)
  PROVE  SumEach(f, s) \in Nat /\ (s = <<>> => SumEach(f, s) = 0)
<1>1. Each(f, s) \in Seq(Nat) /\ (s = <<>> => Each(f, s) = <<>>)
  BY EachTyped
<1>2. QED
  BY <1>1, SumOfSequence DEF SumEach

\* ... that grows with what is appended.
LEMMA SumEachAppended ==
  ASSUME NEW S, NEW f, Maps(f, S, Nat), NEW s \in Seq(S), NEW x \in S
  PROVE  SumEach(f, Append(s, x)) = SumEach(f, s) + f[x]
<1>1. Each(f, s) \in Seq(Nat) /\ Each(f, Append(s, x)) = Append(Each(f, s), f[x])
  BY EachTyped, EachAppended
<1>2. f[x] \in Nat
  BY DEF Maps
<1>3. QED
  BY <1>1, <1>2, SumAppended DEF SumEach

\* ... and changes with an element.
LEMMA SumEachReplaced ==
  ASSUME NEW S, NEW f, Maps(f, S, Nat), NEW s \in Seq(S), NEW k \in DOMAIN s, NEW x \in S
  PROVE  SumEach(f, [s EXCEPT ![k] = x]) + f[s[k]] = SumEach(f, s) + f[x]
<1> DEFINE e == Each(f, s)
           n == f[x]
           t == [s EXCEPT ![k] = x]
<1>1. e \in Seq(Nat) /\ k \in DOMAIN e /\ e[k] = f[s[k]] /\ n \in Nat
  BY EachTyped DEF Each, Maps
<1>2. Each(f, t) = [e EXCEPT ![k] = n]
  BY DEF Each
<1> HIDE DEF e, n, t
<1>3. SumFunction([e EXCEPT ![k] = n]) + e[k] = SumFunction(e) + n
  BY <1>1, SumReplaced
<1>4. QED
  BY <1>1, <1>2, <1>3 DEF SumEach, e, n, t

FileBytes(files)    == SumFunction([i \in DOMAIN files |-> 4 + 2 * Len(files[i].chunk_ids)])
ReferencesIn(files) == SumFunction([i \in DOMAIN files |-> Len(files[i].chunk_ids)])

\* A string takes its bytes and a nul.
LEMMA StringSizes ==
  ASSUME NEW s \in Seq(Seq(Byte)), NEW x \in Seq(Byte)
  PROVE  /\ EncodedLength(s) \in Nat
         /\ s = <<>> => EncodedLength(s) = 0
         /\ EncodedLength(Append(s, x)) = EncodedLength(s) + (Len(x) + 1)
<1> DEFINE T == Seq(Byte)
           f == [y \in T |-> Len(y) + 1]
           t == Append(s, x)
<1>1. s \in Seq(T) /\ x \in T /\ t \in Seq(T)
  <2> HIDE DEF T
  <2>1. QED
    BY AppendProperties DEF T
<1>2. Maps(f, T, Nat) /\ f[x] = Len(x) + 1
  <2>1. \A y \in T : Len(y) + 1 \in Nat
    BY LenProperties
  <2>2. QED
    BY <2>1 DEF Maps
<1>3. \A r \in Seq(T) : EncodedLength(r) = SumEach(f, r)
  <2> SUFFICES ASSUME NEW r \in Seq(T)
               PROVE  [i \in DOMAIN r |-> Len(r[i]) + 1] = [i \in DOMAIN r |-> f[r[i]]]
    BY DEF EncodedLength, SumEach, Each
  <2>1. \A i \in DOMAIN r : r[i] \in T
    <3> HIDE DEF T
    <3>1. QED
      BY LenProperties
  <2>2. QED
    BY <2>1
<1> HIDE DEF f, T, t
<1>4. SumEach(f, s) \in Nat /\ (s = <<>> => SumEach(f, s) = 0)
  BY <1>1, <1>2, SumEachTyped
<1>5. SumEach(f, t) = SumEach(f, s) + f[x]
  BY <1>1, <1>2, SumEachAppended DEF t
<1>6. QED
  BY <1>1, <1>2, <1>3, <1>4, <1>5 DEF t

\* What the two sums over the files add up, file by file.
LEMMA FileSums ==
  \E f, g :
    /\ Maps(f, FileRecord, Nat) /\ Maps(g, FileRecord, Nat)
    /\ \A r \in FileRecord :
         f[r] = 4 + 2 * Len(r.chunk_ids) /\ g[r] = Len(r.chunk_ids) /\ Len(r.chunk_ids) \in Nat
    /\ \A s \in Seq(FileRecord) :
         FileBytes(s) = SumEach(f, s) /\ ReferencesIn(s) = SumEach(g, s)
<1> DEFINE T == FileRecord
           f == [r \in T |-> 4 + 2 * Len(r.chunk_ids)]
           g == [r \in T |-> Len(r.chunk_ids)]
<1>1. \A r \in T : Len(r.chunk_ids) \in Nat
  BY LenProperties DEF FileRecord
<1>2. Maps(f, T, Nat) /\ Maps(g, T, Nat)
  BY <1>1 DEF Maps
<1>3. \A s \in Seq(T) : FileBytes(s) = SumEach(f, s) /\ ReferencesIn(s) = SumEach(g, s)
  <2> SUFFICES ASSUME NEW s \in Seq(T)
               PROVE  /\ [i \in DOMAIN s |-> 4 + 2 * Len(s[i].chunk_ids)] = Each(f, s)
                      /\ [i \in DOMAIN s |-> Len(s[i].chunk_ids)] = Each(g, s)
    BY DEF FileBytes, ReferencesIn, SumEach
  <2>1. \A i \in DOMAIN s : s[i] \in T
    <3> HIDE DEF T
    <3>1. QED
      BY LenProperties
  <2>2. QED
    BY <2>1 DEF Each
<1>4. \A r \in T : f[r] = 4 + 2 * Len(r.chunk_ids) /\ g[r] = Len(r.chunk_ids)
  OBVIOUS
<1> HIDE DEF f, g
<1>5. QED
  BY <1>1, <1>2, <1>3, <1>4

\* A file takes its directory, its ids and a terminator.
LEMMA FileSizes ==
  ASSUME NEW s \in Seq(FileRecord), NEW x \in FileRecord
  PROVE  /\ FileBytes(s) \in Nat /\ ReferencesIn(s) \in Nat
         /\ s = <<>> => FileBytes(s) = 0 /\ ReferencesIn(s) = 0
         /\ FileBytes(Append(s, x)) = FileBytes(s) + (4 + 2 * Len(x.chunk_ids))
         /\ ReferencesIn(Append(s, x)) = ReferencesIn(s) + Len(x.chunk_ids)
<1>1. PICK f, g :
    /\ Maps(f, FileRecord, Nat) /\ Maps(g, FileRecord, Nat)
    /\ \A r \in FileRecord :
         f[r] = 4 + 2 * Len(r.chunk_ids) /\ g[r] = Len(r.chunk_ids) /\ Len(r.chunk_ids) \in Nat
    /\ \A r \in Seq(FileRecord) :
         FileBytes(r) = SumEach(f, r) /\ ReferencesIn(r) = SumEach(g, r)
  BY FileSums
<1>2. Append(s, x) \in Seq(FileRecord)
  BY AppendProperties
<1>3. /\ SumEach(f, s) \in Nat /\ SumEach(g, s) \in Nat
      /\ s = <<>> => SumEach(f, s) = 0 /\ SumEach(g, s) = 0
  BY <1>1, SumEachTyped
<1>4. SumEach(f, Append(s, x)) = SumEach(f, s) + f[x]
  BY <1>1, SumEachAppended
<1>5. SumEach(g, Append(s, x)) = SumEach(g, s) + g[x]
  BY <1>1, SumEachAppended
<1>6. QED
  BY <1>1, <1>2, <1>3, <1>4, <1>5

\* A file with one id more.
Grown(s, k, id) == [s EXCEPT ![k].chunk_ids = Append(@, id)]

\* An id takes two bytes and is one reference.
LEMMA FileGrows ==
  ASSUME NEW s \in Seq(FileRecord), NEW k \in DOMAIN s, NEW id \in U16
  PROVE  /\ Grown(s, k, id) \in Seq(FileRecord) /\ DOMAIN Grown(s, k, id) = DOMAIN s
         /\ Len(Grown(s, k, id)) = Len(s)
         /\ FileBytes(Grown(s, k, id)) = FileBytes(s) + 2
         /\ ReferencesIn(Grown(s, k, id)) = ReferencesIn(s) + 1
         /\ Grown(s, k, id)[k].chunk_ids = Append(s[k].chunk_ids, id)
         /\ \A i \in DOMAIN s \ {k} : Grown(s, k, id)[i] = s[i]
<1>1. PICK f, g :
    /\ Maps(f, FileRecord, Nat) /\ Maps(g, FileRecord, Nat)
    /\ \A r \in FileRecord :
         f[r] = 4 + 2 * Len(r.chunk_ids) /\ g[r] = Len(r.chunk_ids) /\ Len(r.chunk_ids) \in Nat
    /\ \A r \in Seq(FileRecord) :
         FileBytes(r) = SumEach(f, r) /\ ReferencesIn(r) = SumEach(g, r)
  BY FileSums
<1> DEFINE T == FileRecord
           x == [s[k] EXCEPT !.chunk_ids = Append(@, id)]
           t == [s EXCEPT ![k] = x]
<1>2. s[k] \in T /\ k \in DOMAIN s
  <2> HIDE DEF T
  <2>1. s \in Seq(T)
    BY DEF T
  <2>2. QED
    BY <2>1, LenProperties
<1>3. x \in T /\ x.chunk_ids = Append(s[k].chunk_ids, id)
      /\ Len(x.chunk_ids) = Len(s[k].chunk_ids) + 1
  <2>1. s[k].chunk_ids \in Seq(U16)
    BY <1>2 DEF FileRecord
  <2> DEFINE c == s[k].chunk_ids
             d == Append(c, id)
  <2>2. d \in Seq(U16) /\ Len(d) = Len(c) + 1
    <3>1. c \in Seq(U16)
      BY <2>1
    <3> HIDE DEF c
    <3>2. QED
      BY <3>1, AppendProperties
  <2> HIDE DEF d
  <2>3. x = [s[k] EXCEPT !.chunk_ids = d]
    BY DEF d
  <2> HIDE DEF x, c
  <2>4. x \in T /\ x.chunk_ids = d
    BY <1>2, <2>2, <2>3 DEF FileRecord
  <2>5. QED
    BY <2>2, <2>4 DEF c, d
<1>4. Grown(s, k, id) = t
  BY DEF Grown
<1> HIDE DEF x
<1>5. t \in Seq(T) /\ DOMAIN t = DOMAIN s /\ Len(t) = Len(s) /\ t[k] = x
      /\ \A i \in DOMAIN s \ {k} : t[i] = s[i]
  <2> DEFINE n == Len(s)
  <2>1. s \in [1 .. n -> T] /\ n \in Nat
    <3> HIDE DEF T
    <3>1. s \in Seq(T)
      BY DEF T
    <3>2. QED
      BY <3>1, LenProperties
  <2> HIDE DEF n, T
  <2>2. t \in [1 .. n -> T]
    BY <1>3, <2>1
  <2>3. DOMAIN t = DOMAIN s /\ t[k] = x /\ \A i \in DOMAIN s \ {k} : t[i] = s[i]
    BY <1>2, <2>1
  <2> HIDE DEF t
  <2>4. t \in Seq(T) /\ Len(t) = n
    BY <2>1, <2>2
  <2>5. QED
    BY <2>3, <2>4 DEF n
<1>6. SumEach(f, t) + f[s[k]] = SumEach(f, s) + f[x]
  BY <1>1, <1>2, <1>3, SumEachReplaced
<1>7. SumEach(g, t) + g[s[k]] = SumEach(g, s) + g[x]
  BY <1>1, <1>2, <1>3, SumEachReplaced
<1>8. SumEach(f, s) \in Nat /\ SumEach(g, s) \in Nat /\ SumEach(f, t) \in Nat /\ SumEach(g, t) \in Nat
  BY <1>1, <1>5, SumEachTyped
<1> HIDE DEF t
<1>9. FileBytes(t) = FileBytes(s) + 2 /\ ReferencesIn(t) = ReferencesIn(s) + 1
  <2> DEFINE m == Len(s[k].chunk_ids)
             n == Len(x.chunk_ids)
  <2>1. m \in Nat /\ n = m + 1 /\ f[s[k]] = 4 + 2 * m /\ g[s[k]] = m
        /\ f[x] = 4 + 2 * n /\ g[x] = n
    BY <1>1, <1>2, <1>3
  <2> HIDE DEF m, n
  <2>2. SumEach(f, t) = SumEach(f, s) + 2
    BY <1>6, <1>8, <2>1
  <2>3. SumEach(g, t) = SumEach(g, s) + 1
    BY <1>7, <1>8, <2>1
  <2>4. FileBytes(t) = SumEach(f, t) /\ FileBytes(s) = SumEach(f, s)
        /\ ReferencesIn(t) = SumEach(g, t) /\ ReferencesIn(s) = SumEach(g, s)
    BY <1>1, <1>5
  <2>5. QED
    BY <2>2, <2>3, <2>4
<1>10. QED
  BY <1>3, <1>4, <1>5, <1>9

-----------------------------------------------------------------------------
(* What is read from the stream *)

\* A u16 is read from two bytes, and would be written as them.
LEMMA Reading16 ==
  ASSUME TypeOK, NEW k \in Nat \ {0}, pos + k + 1 <= Len(stream)
  PROVE  /\ Read16(k) \in U16
         /\ Bytes16(Read16(k)) = <<stream[pos + k], stream[pos + k + 1]>>
<1> DEFINE lo == stream[pos + k]
           hi == stream[pos + k + 1]
<1>1. stream \in Seq(Byte) /\ pos \in 0 .. Len(stream) /\ Len(stream) \in Nat
  BY LenProperties DEF TypeOK
<1>2. lo \in Byte /\ hi \in Byte
  <2>1. pos + k \in 1 .. Len(stream) /\ pos + k + 1 \in 1 .. Len(stream)
    BY <1>1
  <2>2. QED
    BY <1>1, <2>1
<1>3. Read16(k) = lo + Base * hi
  <2>1. pos + (k + 1) = pos + k + 1
    BY <1>1
  <2>2. QED
    BY <2>1 DEF Read16, Read8
<1> HIDE DEF lo, hi
<1>4. /\ lo + Base * hi \in U16
      /\ (lo + Base * hi) % Base = lo /\ (lo + Base * hi) \div Base = hi
  BY <1>2, Widths, OfDigits
<1>5. QED
  BY <1>3, <1>4 DEF Bytes16, lo, hi

\* A u32 is read from four.
LEMMA Reading32 ==
  ASSUME TypeOK, NEW k \in Nat \ {0}, pos + k + 3 <= Len(stream)
  PROVE  /\ Read32(k) \in U32
         /\ Bytes32(Read32(k)) = Bytes16(Read16(k)) \o Bytes16(Read16(k + 2))
<1>1. pos \in Nat /\ Len(stream) \in Nat
  BY LenProperties DEF TypeOK
<1>2. Read16(k) \in U16
  BY <1>1, Reading16
<1>3. Read16(k + 2) \in U16
  BY <1>1, Reading16
<1> DEFINE lo == Read16(k)
           hi == Read16(k + 2)
           n == lo + Words * hi
<1>4. Read32(k) = n
  BY DEF Read32
<1> HIDE DEF lo, hi
<1>5. n \in U32 /\ n % Words = lo /\ n \div Words = hi
  BY <1>2, <1>3, Widths, OfDigits DEF lo, hi
<1> HIDE DEF n
<1>6. QED
  BY <1>4, <1>5 DEF Bytes32, lo, hi

\* A string ends before the first nul, which is within the limit.
LEMMA ReadingString ==
  ASSUME TypeOK, NulsInReach # {}
  PROVE  /\ NextString \in Seq(Byte)
         /\ Len(NextString) <= limits.string
         /\ pos + Len(NextString) + 1 \in 1 .. Len(stream)
         /\ stream[pos + Len(NextString) + 1] = 0
         /\ 0 \notin Range(NextString)
         /\ \A i \in 1 .. Len(NextString) : NextString[i] = stream[pos + i]
<1> DEFINE n == Min(NulsInReach)
           s == NextString
<1>1. stream \in Seq(Byte) /\ pos \in 0 .. Len(stream) /\ Len(stream) \in Nat
  BY LenProperties DEF TypeOK
<1>2. NulsInReach \subseteq Nat
  BY <1>1 DEF NulsInReach
<1>3. n \in NulsInReach /\ \A i \in NulsInReach : n <= i
  BY <1>2, LeastNatural DEF Min
<1> HIDE DEF n
<1>4. /\ n \in pos + 1 .. Len(stream) /\ n <= pos + limits.string + 1 /\ stream[n] = 0
      /\ \A i \in pos + 1 .. n - 1 : stream[i] # 0
  <2>1. n \in pos + 1 .. Len(stream) /\ n <= pos + limits.string + 1 /\ stream[n] = 0
    BY <1>3 DEF NulsInReach
  <2>2. limits.string \in Nat
    BY DEF TypeOK, ReadLimits
  <2>3. ASSUME NEW i \in pos + 1 .. n - 1, stream[i] = 0 PROVE FALSE
    <3>1. i \in pos + 1 .. Len(stream) /\ i <= pos + limits.string + 1
      BY <1>1, <2>1, <2>2
    <3>2. i \in NulsInReach
      BY <2>3, <3>1 DEF NulsInReach
    <3>3. n <= i
      BY <1>3, <3>2
    <3>4. QED
      BY <1>1, <2>1, <3>3
  <2>4. QED
    BY <2>1, <2>3
<1>5. s = SubSeq(stream, pos + 1, n - 1)
  BY DEF NextString, n
<1> HIDE DEF s
<1>6. s \in Seq(Byte) /\ Len(s) = n - 1 - pos /\ \A i \in 1 .. n - 1 - pos : s[i] = stream[pos + i]
  <2> DEFINE b == n - 1
             B == Byte
  <2>1. b \in Nat /\ b <= Len(stream) /\ pos + 1 >= 1 /\ pos + 1 <= b + 1 /\ pos \in Nat
    BY <1>1, <1>4
  <2>2. stream \in Seq(B)
    BY <1>1
  <2> HIDE DEF b, B
  <2>3. SubSeq(stream, pos + 1, b) \in Seq(B)
    BY <2>1, <2>2
  <2>4. Len(SubSeq(stream, pos + 1, b)) = b - pos
    BY <2>1, <2>2
  <2>5. \A i \in 1 .. b - pos : SubSeq(stream, pos + 1, b)[i] = stream[pos + i]
    BY <2>1, <2>2
  <2>6. QED
    BY <1>5, <2>1, <2>3, <2>4, <2>5 DEF b, B
<1>7. 0 \notin Range(s)
  <2>1. \A i \in DOMAIN s : s[i] # 0
    <3> SUFFICES ASSUME NEW i \in DOMAIN s PROVE s[i] # 0
      OBVIOUS
    <3>1. i \in 1 .. n - 1 - pos
      BY <1>6, LenProperties
    <3>2. pos + i \in pos + 1 .. n - 1
      BY <1>1, <1>4, <3>1
    <3>3. QED
      BY <1>4, <1>6, <3>1, <3>2
  <2>2. QED
    BY <2>1 DEF Range
<1>8. limits.string \in Nat
  BY DEF TypeOK, ReadLimits
<1>9. pos + Len(s) + 1 = n /\ Len(s) <= limits.string
  BY <1>1, <1>4, <1>6, <1>8
<1>10. n \in 1 .. Len(stream)
  BY <1>1, <1>4
<1>11. QED
  BY <1>4, <1>6, <1>7, <1>9, <1>10 DEF s

-----------------------------------------------------------------------------
(* The inductive invariant *)

Reading == {"settings", "strings", "files", "ids", "counts", "chunks", "volumes", "range"}
Counted == Reading \ {"settings"}      \* the settings are read
Mapped  == {"counts", "chunks", "volumes", "range"}   \* so is the map of the files
Tabled  == {"volumes", "range"}        \* and so are the chunks

\* How far the tables have come, reckoned from the counts.
Shaped ==
  /\ raw.header = Magic /\ raw.version = 0
  /\ pc = "settings" => raw = Blank /\ pos = 0 /\ total = 0
  /\ pc = "strings" => raw.files = <<>>
  /\ pc \in {"strings", "files", "ids", "counts"} => raw.chunks = <<>>
  /\ pc \in {"strings", "files", "ids", "counts", "chunks"} => raw.volume_files = <<>>
  /\ pc \in Reading => raw.range_settings = <<>>
  /\ pc \in Counted =>
       /\ raw.num_user_files \in 1 .. limits.entries /\ raw.num_directories > 0
       /\ Len(raw.strings) <= raw.num_user_files + raw.num_directories - 1
       /\ Len(raw.files) <= raw.num_user_files
  /\ pc \in Counted \ {"strings"} =>
       Len(raw.strings) = raw.num_user_files + raw.num_directories - 1
  /\ pc = "ids" => raw.files # <<>>
  /\ pc \in Mapped => Len(raw.files) = raw.num_user_files
  /\ pc \in Mapped \ {"counts"} =>
       /\ raw.num_archive_files > 0 /\ raw.num_chunks <= limits.chunks
       /\ Len(raw.chunks) <= raw.num_chunks
  /\ pc \in Tabled =>
       /\ Len(raw.chunks) = raw.num_chunks
       /\ Len(raw.volume_files) <= raw.num_archive_files - 1
  /\ pc = "range" => Len(raw.volume_files) = raw.num_archive_files - 1

\* What the reader keeps count of is what the tables hold, and what the tables
\* are reckoned to take is what has been read.
Reckoned ==
  /\ references = References(raw)
  /\ pc = "strings" => total = EncodedLength(raw.strings)
  /\ pc = "volumes" => total = EncodedLength(raw.volume_files)
  /\ pc \in {"strings", "files", "counts"} => pos + 4 = MetadataSizeBeforeVolumes(raw)
  /\ pc = "ids" => pos + 6 = MetadataSizeBeforeVolumes(raw)
  /\ pc = "chunks" => pos = MetadataSizeBeforeVolumes(raw)
  /\ pc \in Tabled =>
       /\ pos = MetadataSizeBeforeVolumes(raw) + EncodedLength(raw.volume_files)
       /\ MetadataSizeBeforeVolumes(raw) <= limits.metadata

FileKept(f) == Len(f.chunk_ids) <= limits.chunks /\ Terminator \notin Range(f.chunk_ids)
NameKept(s) == Len(s) <= limits.string /\ 0 \notin Range(s)

\* What the reader has taken in was checked.
Kept ==
  /\ HeldWithinLimits
  /\ pc # "edited" =>
       /\ \A i \in DOMAIN raw.files : FileKept(raw.files[i])
       /\ \A i \in DOMAIN raw.strings : NameKept(raw.strings[i])
       /\ \A i \in DOMAIN raw.volume_files : NameKept(raw.volume_files[i])

IInv == TypeOK /\ Shaped /\ Reckoned /\ Kept /\ AcceptedIsSound /\ AccountedExactly

\* The fields of the RawArchive have their types.
LEMMA RawTyped ==
  ASSUME TypeOK
  PROVE  /\ raw.header \in U32 /\ raw.version \in Byte
         /\ raw.num_user_files \in Nat /\ raw.num_directories \in Nat
         /\ raw.num_archive_files \in Nat /\ raw.num_chunks \in Nat
         /\ raw.strings \in Seq(Seq(Byte)) /\ raw.volume_files \in Seq(Seq(Byte))
         /\ raw.files \in Seq(FileRecord) /\ raw.chunks \in Seq(ChunkRecord)
         /\ Len(raw.strings) \in Nat /\ Len(raw.files) \in Nat
         /\ Len(raw.chunks) \in Nat /\ Len(raw.volume_files) \in Nat
<1>1. /\ raw.header \in U32 /\ raw.version \in Byte
      /\ raw.num_user_files \in U16 /\ raw.num_directories \in U16
      /\ raw.num_archive_files \in U16 /\ raw.num_chunks \in U16
      /\ raw.strings \in Seq(Seq(Byte)) /\ raw.volume_files \in Seq(Seq(Byte))
      /\ raw.files \in Seq(FileRecord) /\ raw.chunks \in Seq(ChunkRecord)
  BY DEF TypeOK, RawArchive
<1>2. U16 \subseteq Nat
  BY Widths
<1>3. Len(raw.strings) \in Nat /\ Len(raw.volume_files) \in Nat
  <2> DEFINE S == Seq(Byte)
  <2>1. raw.strings \in Seq(S) /\ raw.volume_files \in Seq(S)
    BY <1>1
  <2> HIDE DEF S
  <2>2. QED
    BY <2>1, LenProperties
<1>4. Len(raw.files) \in Nat /\ Len(raw.chunks) \in Nat
  BY <1>1, LenProperties
<1>5. QED
  BY <1>1, <1>2, <1>3, <1>4

\* The sizes the reader reckons are sums of numbers.
LEMMA Sizes ==
  ASSUME NEW a, a.strings \in Seq(Seq(Byte)), a.volume_files \in Seq(Seq(Byte)),
         a.files \in Seq(FileRecord), Len(a.chunks) \in Nat
  PROVE  /\ MetadataSizeBeforeVolumes(a)
              = 9 + EncodedLength(a.strings) + FileBytes(a.files) + 4 + 16 * Len(a.chunks)
         /\ References(a) = ReferencesIn(a.files)
         /\ EncodedLength(a.strings) \in Nat /\ EncodedLength(a.volume_files) \in Nat
         /\ FileBytes(a.files) \in Nat /\ References(a) \in Nat
         /\ MetadataSizeBeforeVolumes(a) \in Nat
<1>1. <<>> \in Seq(Byte) /\ [directory_id |-> 0, chunk_ids |-> <<>>] \in FileRecord
  BY Widths DEF FileRecord
<1>2. EncodedLength(a.strings) \in Nat /\ EncodedLength(a.volume_files) \in Nat
  BY <1>1, StringSizes
<1>3. FileBytes(a.files) \in Nat /\ ReferencesIn(a.files) \in Nat
  BY <1>1, FileSizes
<1>4. /\ References(a) = ReferencesIn(a.files)
      /\ MetadataSizeBeforeVolumes(a)
           = 9 + EncodedLength(a.strings) + FileBytes(a.files) + 4 + 16 * Len(a.chunks)
  BY DEF References, ReferencesIn, MetadataSizeBeforeVolumes, FileBytes
<1>5. QED
  BY <1>2, <1>3, <1>4

\* With nothing read the tables are empty, and take what the counts take.
LEMMA BlankFacts ==
  /\ Blank \in RawArchive /\ Blank.header = Magic /\ Blank.version = 0
  /\ References(Blank) = 0 /\ MetadataSizeBeforeVolumes(Blank) = 13
  /\ EncodedLength(Blank.strings) = 0 /\ EncodedLength(Blank.volume_files) = 0
<1>1. /\ Blank.header = Magic /\ Blank.version = 0 /\ Blank.strings = <<>>
      /\ Blank.volume_files = <<>> /\ Blank.files = <<>> /\ Blank.chunks = <<>>
  BY DEF Blank
<1>2. Blank \in RawArchive
  BY Widths, MetadataAssumption DEF Blank, RawArchive
<1>3. EncodedLength(<<>>) = 0
  <2>1. <<>> \in Seq(Byte) /\ <<>> \in Seq(Seq(Byte))
    OBVIOUS
  <2>2. QED
    BY <2>1, StringSizes
<1>4. FileBytes(<<>>) = 0 /\ ReferencesIn(<<>>) = 0
  <2>1. <<>> \in Seq(FileRecord) /\ [directory_id |-> 0, chunk_ids |-> <<>>] \in FileRecord
    BY Widths DEF FileRecord
  <2>2. QED
    BY <2>1, FileSizes
<1>5. References(Blank) = ReferencesIn(Blank.files)
  BY DEF References, ReferencesIn
<1>6. MetadataSizeBeforeVolumes(Blank)
        = 9 + EncodedLength(Blank.strings) + FileBytes(Blank.files) + 4 + 16 * Len(Blank.chunks)
  BY DEF MetadataSizeBeforeVolumes, FileBytes
<1>7. Len(<<>>) = 0
  OBVIOUS
<1>8. QED
  BY <1>1, <1>2, <1>3, <1>4, <1>5, <1>6, <1>7

\* Nothing is read yet.
Start ==
  /\ stream \in Seq(Byte) /\ limits \in ReadLimits /\ written \in RawArchive \cup {None}
  /\ pos = 0 /\ pc = "settings" /\ raw = Blank /\ total = 0 /\ references = 0

\* A parse starts so.
LEMMA StartIInv == Start => IInv
<1> SUFFICES ASSUME Start PROVE IInv
  OBVIOUS
<1> USE DEF Start
<1>1. TypeOK
  <2>1. Len(stream) \in Nat
    BY LenProperties
  <2>2. QED
    BY <2>1, BlankFacts DEF TypeOK
<1>2. Shaped
  BY BlankFacts DEF Shaped, Counted, Mapped, Tabled, Blank
<1>3. Reckoned
  BY BlankFacts DEF Reckoned, Tabled
<1>4. Kept
  <2>1. /\ limits.entries \in Nat /\ limits.chunks \in Nat /\ limits.references \in Nat
        /\ limits.metadata \in Nat
    BY DEF ReadLimits
  <2>2. /\ raw.files = <<>> /\ raw.chunks = <<>> /\ raw.strings = <<>> /\ raw.volume_files = <<>>
    BY DEF Blank
  <2>3. Len(<<>>) = 0 /\ DOMAIN <<>> = {}
    OBVIOUS
  <2>4. QED
    BY <2>1, <2>2, <2>3, BlankFacts DEF Kept, HeldWithinLimits
<1>5. AcceptedIsSound /\ AccountedExactly
  BY DEF AcceptedIsSound, AccountedExactly
<1>6. QED
  BY <1>1, <1>2, <1>3, <1>4, <1>5 DEF IInv

\* An archive is opened.
LEMMA InitIInv == Init => IInv
<1> SUFFICES ASSUME Init PROVE IInv
  OBVIOUS
<1>1. stream \in Seq(Byte) /\ written \in RawArchive \cup {None}
  <2>1. CASE stream \in Streams /\ written = None
    BY <2>1, MetadataAssumption
  <2>2. CASE \E a \in Headers : stream = WriteMetadata(a) /\ written = a
    BY <2>2, MetadataAssumption, MetadataTyped
  <2>3. QED
    BY <2>1, <2>2 DEF Init
<1>2. limits \in ReadLimits
  BY MetadataAssumption DEF Init
<1>3. QED
  BY <1>1, <1>2, StartIInv DEF Init, Start

\* A header that is refused stays as it was read so far.
LEMMA RefuseIInv ==
  ASSUME IInv, pc \in Reading, Refuse, UNCHANGED <<stream, limits, written>>
  PROVE  IInv'
<1>1. pc' = "refused" /\ UNCHANGED <<stream, limits, written, pos, raw, total, references>>
  BY DEF Refuse
<1>2. TypeOK'
  BY <1>1 DEF IInv, TypeOK
<1>3. Shaped'
  BY <1>1 DEF IInv, Shaped, Reading, Counted, Mapped, Tabled
<1>4. Reckoned'
  BY <1>1 DEF IInv, Reckoned, References, Tabled
<1>5. Kept'
  <2>1. pc # "edited"
    BY DEF Reading
  <2>2. QED
    BY <1>1, <2>1 DEF IInv, Kept, HeldWithinLimits, References, FileKept, NameKept
<1>6. (AcceptedIsSound /\ AccountedExactly)'
  BY <1>1 DEF AcceptedIsSound, AccountedExactly
<1>7. QED
  BY <1>2, <1>3, <1>4, <1>5, <1>6 DEF IInv

-----------------------------------------------------------------------------
(* The steps of a parse *)

\* ReadArchiveSettings takes counts that the limits allow.
LEMMA ReadArchiveSettingsIInv ==
  ASSUME IInv, ReadArchiveSettings
  PROVE  IInv'
<1> DEFINE ok == /\ Has(9) /\ Read32(1) = Magic /\ Read8(9) = 0
                 /\ Read16(5) \in 1 .. limits.entries /\ Read16(7) # 0
<1>1. /\ pc = "settings" /\ UNCHANGED <<stream, limits, written>>
      /\ TypeOK /\ Shaped /\ Reckoned /\ Kept
  BY DEF ReadArchiveSettings, IInv
<1>2. CASE ~ok
  BY <1>1, <1>2, RefuseIInv DEF ReadArchiveSettings, Reading
<1>3. CASE ok
  <2>1. /\ raw = Blank /\ pos = 0 /\ total = 0 /\ references = 0
    BY <1>1, BlankFacts DEF Shaped, Reckoned
  <2>2. /\ raw' = [raw EXCEPT !.num_user_files = Read16(5), !.num_directories = Read16(7)]
        /\ pos' = pos + 9 /\ pc' = "strings" /\ total' = total /\ references' = references
    BY <1>3 DEF ReadArchiveSettings
  <2> HIDE DEF ok
  <2>3. Len(stream) \in Nat /\ pos + 9 <= Len(stream)
    BY <1>1, <1>3, LenProperties DEF TypeOK, Has, ok
  <2>4. Read16(5) \in U16 /\ Read16(7) \in U16
    <3>1. Read16(5) \in U16
      BY <1>1, <2>1, <2>3, Reading16
    <3>2. Read16(7) \in U16
      BY <1>1, <2>1, <2>3, Reading16
    <3>3. QED
      BY <3>1, <3>2
  <2> DEFINE u == Read16(5)
             d == Read16(7)
  <2>5. u \in U16 /\ d \in U16 /\ u \in 1 .. limits.entries /\ d # 0
    BY <1>3, <2>4 DEF ok
  <2> HIDE DEF u, d
  <2>6. raw' = [Blank EXCEPT !.num_user_files = u, !.num_directories = d]
    BY <2>1, <2>2 DEF u, d
  <2>7. /\ raw'.header = Magic /\ raw'.version = 0 /\ raw'.num_user_files = u
        /\ raw'.num_directories = d /\ raw'.strings = <<>> /\ raw'.files = <<>>
        /\ raw'.chunks = <<>> /\ raw'.volume_files = <<>> /\ raw'.range_settings = <<>>
        /\ raw' \in RawArchive
    <3>1. raw' \in RawArchive
      BY <2>5, <2>6, BlankFacts DEF RawArchive
    <3>2. QED
      BY <2>6, <3>1 DEF Blank
  <2>8. d \in Nat /\ u \in Nat /\ d > 0
    BY <2>5, Widths
  <2>9. TypeOK'
    BY <1>1, <2>1, <2>2, <2>3, <2>7 DEF TypeOK
  <2>10. Len(<<>>) = 0 /\ DOMAIN <<>> = {}
    OBVIOUS
  <2>11. Shaped'
    BY <1>1, <2>2, <2>5, <2>7, <2>8, <2>10 DEF Shaped, Counted, Mapped, Tabled
  <2>12. /\ References(raw') = References(Blank)
         /\ MetadataSizeBeforeVolumes(raw') = MetadataSizeBeforeVolumes(Blank)
         /\ EncodedLength(raw'.strings) = 0 /\ EncodedLength(raw'.volume_files) = 0
    <3>1. /\ Blank.strings = <<>> /\ Blank.files = <<>> /\ Blank.chunks = <<>>
          /\ Blank.volume_files = <<>>
      BY DEF Blank
    <3>2. QED
      BY <2>7, <3>1, BlankFacts DEF References, MetadataSizeBeforeVolumes
  <2>13. Reckoned'
    BY <2>1, <2>2, <2>12, BlankFacts DEF Reckoned, Tabled
  <2>14. Kept'
    <3>1. /\ limits.entries \in Nat /\ limits.chunks \in Nat /\ limits.references \in Nat
          /\ limits.metadata \in Nat /\ limits' = limits
      BY <1>1 DEF TypeOK, ReadLimits
    <3>2. QED
      BY <2>2, <2>7, <2>10, <2>12, <3>1, BlankFacts DEF Kept, HeldWithinLimits
  <2>15. (AcceptedIsSound /\ AccountedExactly)'
    BY <2>2 DEF AcceptedIsSound, AccountedExactly
  <2>16. QED
    BY <2>9, <2>11, <2>13, <2>14, <2>15 DEF IInv
<1>4. QED
  BY <1>2, <1>3

\* What one more name does to a table of names.
LEMMA NameAppended ==
  ASSUME NEW s \in Seq(Seq(Byte)), NEW x \in Seq(Byte), NameKept(x),
         \A i \in DOMAIN s : NameKept(s[i])
  PROVE  /\ Append(s, x) \in Seq(Seq(Byte)) /\ Len(Append(s, x)) = Len(s) + 1
         /\ \A i \in DOMAIN Append(s, x) : NameKept(Append(s, x)[i])
<1> DEFINE S == Seq(Byte)
           t == Append(s, x)
           n == Len(s)
<1>1. s \in Seq(S) /\ x \in S
  OBVIOUS
<1> HIDE DEF S
<1>2. t \in Seq(S) /\ Len(t) = n + 1 /\ t[n + 1] = x /\ \A i \in 1 .. n : t[i] = s[i]
  BY <1>1, AppendProperties
<1>3. n \in Nat /\ DOMAIN s = 1 .. n /\ DOMAIN t = 1 .. n + 1
  <2> HIDE DEF t
  <2>1. DOMAIN t = 1 .. Len(t)
    BY <1>2, LenProperties
  <2>2. n \in Nat /\ DOMAIN s = 1 .. n
    BY <1>1, LenProperties
  <2>3. QED
    BY <1>2, <2>1, <2>2
<1> HIDE DEF t, n
<1>4. \A i \in DOMAIN t : NameKept(t[i])
  <2> SUFFICES ASSUME NEW i \in DOMAIN t PROVE NameKept(t[i])
    OBVIOUS
  <2>1. i = n + 1 \/ i \in 1 .. n
    BY <1>3
  <2>2. QED
    BY <1>2, <1>3, <2>1
<1>5. QED
  BY <1>2, <1>4 DEF t, n, S

\* ReadStrings takes one name more, within the metadata limit, or goes on.
LEMMA ReadStringsIInv ==
  ASSUME IInv, ReadStrings
  PROVE  IInv'
<1> DEFINE all == raw.num_user_files + raw.num_directories - 1
           x == NextString
<1>1. /\ pc = "strings" /\ UNCHANGED <<stream, limits, written>>
      /\ TypeOK /\ Shaped /\ Reckoned /\ Kept
  BY DEF ReadStrings, IInv
<1>2. CASE ~(Len(raw.strings) < all)
  <2>1. pc' = "files" /\ UNCHANGED <<stream, limits, written, pos, raw, references, total>>
    BY <1>1, <1>2 DEF ReadStrings, Goto
  <2>2. Len(raw.strings) = all
    <3>1. Len(raw.strings) <= raw.num_user_files + raw.num_directories - 1
      BY <1>1 DEF Shaped, Reading, Counted
    <3> DEFINE n == Len(raw.strings)
    <3>2. n \in Nat /\ all \in Int /\ n <= all /\ ~(n < all)
      BY <1>1, <1>2, <3>1, RawTyped
    <3> HIDE DEF n, all
    <3>3. n = all
      BY <3>2
    <3>4. QED
      BY <3>3 DEF n
  <2> HIDE DEF all
  <2>3. TypeOK'
    BY <1>1, <2>1 DEF TypeOK
  <2>4. Shaped'
    BY <1>1, <2>1, <2>2, RawTyped DEF Shaped, Reading, Counted, Mapped, Tabled, all
  <2>5. Reckoned'
    BY <1>1, <2>1 DEF Reckoned, References, MetadataSizeBeforeVolumes, Tabled
  <2>6. Kept'
    BY <1>1, <2>1 DEF Kept, HeldWithinLimits, References, FileKept, NameKept
  <2>7. (AcceptedIsSound /\ AccountedExactly)'
    BY <2>1 DEF AcceptedIsSound, AccountedExactly
  <2>8. QED
    BY <2>3, <2>4, <2>5, <2>6, <2>7 DEF IInv
<1>3. CASE Len(raw.strings) < all /\ (NulsInReach = {} \/ total + Len(x) + 1 > limits.metadata)
  BY <1>1, <1>3, RefuseIInv DEF ReadStrings, ReadString, Reading
<1>4. CASE Len(raw.strings) < all /\ NulsInReach # {} /\ ~(total + Len(x) + 1 > limits.metadata)
  <2>1. /\ pos' = pos + Len(x) + 1 /\ total' = total + Len(x) + 1 /\ pc' = pc
        /\ raw' = [raw EXCEPT !.strings = Append(@, x)] /\ references' = references
    BY <1>4 DEF ReadStrings, ReadString
  <2>2. /\ x \in Seq(Byte) /\ NameKept(x) /\ Len(x) \in Nat
        /\ pos + Len(x) + 1 \in 0 .. Len(stream)
    <3>1. x \in Seq(Byte) /\ NameKept(x) /\ pos + Len(x) + 1 \in 1 .. Len(stream)
      BY <1>1, <1>4, ReadingString DEF NameKept
    <3>2. QED
      BY <3>1, LenProperties
  <2> HIDE DEF x
  <2> DEFINE t == Append(raw.strings, x)
  <2>3. /\ t \in Seq(Seq(Byte)) /\ Len(t) = Len(raw.strings) + 1
        /\ \A i \in DOMAIN t : NameKept(t[i])
    BY <1>1, <2>2, RawTyped, NameAppended DEF Kept
  <2>4. EncodedLength(t) = EncodedLength(raw.strings) + (Len(x) + 1)
    BY <1>1, <2>2, RawTyped, StringSizes
  <2> HIDE DEF t
  <2>5. raw' = [raw EXCEPT !.strings = t]
    BY <2>1 DEF t
  <2>6. /\ raw' \in RawArchive /\ raw'.strings = t /\ raw'.files = raw.files
        /\ raw'.chunks = raw.chunks /\ raw'.volume_files = raw.volume_files
        /\ raw'.header = raw.header /\ raw'.version = raw.version
        /\ raw'.num_user_files = raw.num_user_files
        /\ raw'.num_directories = raw.num_directories
        /\ raw'.range_settings = raw.range_settings
    BY <1>1, <2>3, <2>5 DEF TypeOK, RawArchive
  <2>7. total \in Nat /\ pos \in Nat /\ limits.metadata \in Nat
    BY <1>1 DEF TypeOK, ReadLimits
  <2>8. TypeOK'
    BY <1>1, <2>1, <2>2, <2>6, <2>7 DEF TypeOK
  <2>9. Shaped'
    <3>1. /\ raw.header = Magic /\ raw.version = 0 /\ raw.files = <<>> /\ raw.chunks = <<>>
          /\ raw.volume_files = <<>> /\ raw.range_settings = <<>>
          /\ raw.num_user_files \in 1 .. limits.entries /\ raw.num_directories > 0
          /\ Len(raw.files) <= raw.num_user_files
      BY <1>1 DEF Shaped, Reading, Counted
    <3>2. Len(t) <= all
      BY <1>1, <1>4, <2>3, RawTyped, SMTT(40)
    <3>3. pc' = "strings" /\ limits' = limits
      BY <1>1, <2>1
    <3>4. QED
      BY <2>6, <3>1, <3>2, <3>3 DEF Shaped, Reading, Counted, Mapped, Tabled
  <2>10. /\ References(raw') = References(raw)
         /\ MetadataSizeBeforeVolumes(raw') = MetadataSizeBeforeVolumes(raw) + (Len(x) + 1)
         /\ MetadataSizeBeforeVolumes(raw) \in Nat
    <3>1. Len(raw'.chunks) \in Nat /\ Len(raw.chunks) \in Nat
      BY <1>1, <2>6, RawTyped
    <3>2. MetadataSizeBeforeVolumes(raw')
            = 9 + EncodedLength(t) + FileBytes(raw.files) + 4 + 16 * Len(raw.chunks)
      BY <2>6 DEF MetadataSizeBeforeVolumes, FileBytes
    <3>3. /\ MetadataSizeBeforeVolumes(raw)
               = 9 + EncodedLength(raw.strings) + FileBytes(raw.files) + 4 + 16 * Len(raw.chunks)
          /\ EncodedLength(raw.strings) \in Nat /\ FileBytes(raw.files) \in Nat
          /\ MetadataSizeBeforeVolumes(raw) \in Nat
      BY <1>1, <3>1, RawTyped, Sizes
    <3>4. References(raw') = References(raw)
      BY <2>6 DEF References
    <3> DEFINE e == EncodedLength(raw.strings)
               b == FileBytes(raw.files)
               c == Len(raw.chunks)
               l == Len(x)
    <3>5. e \in Nat /\ b \in Nat /\ c \in Nat /\ l \in Nat
      BY <2>2, <3>1, <3>3
    <3>6. /\ MetadataSizeBeforeVolumes(raw') = 9 + (e + (l + 1)) + b + 4 + 16 * c
          /\ MetadataSizeBeforeVolumes(raw) = 9 + e + b + 4 + 16 * c
      BY <2>4, <3>2, <3>3
    <3> HIDE DEF e, b, c, l
    <3>7. MetadataSizeBeforeVolumes(raw') = MetadataSizeBeforeVolumes(raw) + (l + 1)
      BY <3>5, <3>6
    <3>8. QED
      BY <3>3, <3>4, <3>7 DEF l
  <2>11. Reckoned'
    <3> DEFINE m == MetadataSizeBeforeVolumes(raw)
               l == Len(x)
    <3>1. /\ references = References(raw) /\ total = EncodedLength(raw.strings) /\ pos + 4 = m
      BY <1>1 DEF Reckoned
    <3>2. references' = References(raw') /\ total' = EncodedLength((raw').strings)
      <4>1. references' = References(raw')
        BY <2>1, <2>10, <3>1
      <4> DEFINE e == EncodedLength(raw.strings)
                 n == EncodedLength(t)
      <4>2. n = e + (l + 1) /\ total = e /\ total' = total + l + 1 /\ l \in Nat /\ total \in Nat
        BY <2>1, <2>2, <2>4, <2>7, <3>1
      <4> HIDE DEF e, n, l
      <4>3. total' = n
        BY <4>2
      <4>4. QED
        BY <2>6, <4>1, <4>3 DEF n
    <3>3. m \in Nat /\ l \in Nat /\ pos' = pos + l + 1 /\ MetadataSizeBeforeVolumes(raw') = m + (l + 1)
      BY <2>1, <2>2, <2>10
    <3> HIDE DEF m, l
    <3>4. pos' + 4 = MetadataSizeBeforeVolumes(raw')
      BY <2>7, <3>1, <3>3
    <3>5. pc' = "strings"
      BY <1>1, <2>1
    <3>6. QED
      BY <3>2, <3>4, <3>5 DEF Reckoned, Tabled
  <2>12. Kept'
    <3>1. EncodedLength(t) <= limits.metadata
      BY <1>1, <1>4, <2>2, <2>4, <2>7 DEF Reckoned
    <3>2. QED
      BY <1>1, <2>1, <2>3, <2>6, <2>10, <3>1 DEF Kept, HeldWithinLimits, FileKept, NameKept
  <2>13. (AcceptedIsSound /\ AccountedExactly)'
    BY <1>1, <2>1 DEF AcceptedIsSound, AccountedExactly
  <2>14. QED
    BY <2>8, <2>9, <2>11, <2>12, <2>13 DEF IInv
<1>5. QED
  BY <1>2, <1>3, <1>4

\* What one more file does to a table of files.
LEMMA FileAppended ==
  ASSUME NEW s \in Seq(FileRecord), NEW x \in FileRecord, FileKept(x),
         \A i \in DOMAIN s : FileKept(s[i])
  PROVE  /\ Append(s, x) \in Seq(FileRecord) /\ Len(Append(s, x)) = Len(s) + 1
         /\ Append(s, x) # <<>>
         /\ \A i \in DOMAIN Append(s, x) : FileKept(Append(s, x)[i])
<1> DEFINE T == FileRecord
           t == Append(s, x)
           n == Len(s)
<1>1. s \in Seq(T) /\ x \in T
  OBVIOUS
<1> HIDE DEF T
<1>2. t \in Seq(T) /\ Len(t) = n + 1 /\ t[n + 1] = x /\ \A i \in 1 .. n : t[i] = s[i]
  BY <1>1, AppendProperties
<1>3. n \in Nat /\ DOMAIN s = 1 .. n /\ DOMAIN t = 1 .. n + 1
  <2> HIDE DEF t
  <2>1. DOMAIN t = 1 .. Len(t)
    BY <1>2, LenProperties
  <2>2. n \in Nat /\ DOMAIN s = 1 .. n
    BY <1>1, LenProperties
  <2>3. QED
    BY <1>2, <2>1, <2>2
<1> HIDE DEF t, n
<1>4. \A i \in DOMAIN t : FileKept(t[i])
  <2> SUFFICES ASSUME NEW i \in DOMAIN t PROVE FileKept(t[i])
    OBVIOUS
  <2>1. i = n + 1 \/ i \in 1 .. n
    BY <1>3
  <2>2. QED
    BY <1>2, <1>3, <2>1
<1>5. t # <<>>
  BY <1>2, <1>3
<1>6. QED
  BY <1>2, <1>4, <1>5 DEF t, n, T

\* ReadDirectoryId opens one file more, or goes on when all are read.
LEMMA ReadDirectoryIdIInv ==
  ASSUME IInv, ReadDirectoryId
  PROVE  IInv'
<1> DEFINE x == [directory_id |-> Read16(1), chunk_ids |-> <<>>]
<1>1. /\ pc = "files" /\ UNCHANGED <<stream, limits, written>>
      /\ TypeOK /\ Shaped /\ Reckoned /\ Kept
  BY DEF ReadDirectoryId, IInv
<1>2. CASE Len(raw.files) = raw.num_user_files
  <2>1. pc' = "counts" /\ UNCHANGED <<stream, limits, written, pos, raw, references, total>>
    BY <1>1, <1>2 DEF ReadDirectoryId, Goto
  <2>2. TypeOK'
    BY <1>1, <2>1 DEF TypeOK
  <2>3. Shaped'
    BY <1>1, <1>2, <2>1 DEF Shaped, Reading, Counted, Mapped, Tabled
  <2>4. Reckoned'
    BY <1>1, <2>1 DEF Reckoned, References, MetadataSizeBeforeVolumes, Tabled
  <2>5. Kept'
    BY <1>1, <2>1 DEF Kept, HeldWithinLimits, References, FileKept, NameKept
  <2>6. (AcceptedIsSound /\ AccountedExactly)'
    BY <2>1 DEF AcceptedIsSound, AccountedExactly
  <2>7. QED
    BY <2>2, <2>3, <2>4, <2>5, <2>6 DEF IInv
<1>3. CASE Len(raw.files) # raw.num_user_files /\ ~Has(2)
  BY <1>1, <1>3, RefuseIInv DEF ReadDirectoryId, Reading
<1>4. CASE Len(raw.files) # raw.num_user_files /\ Has(2)
  <2>1. /\ pos' = pos + 2 /\ pc' = "ids" /\ total' = total /\ references' = references
        /\ raw' = [raw EXCEPT !.files = Append(@, x)]
    BY <1>4 DEF ReadDirectoryId
  <2>2. pos \in Nat /\ Len(stream) \in Nat /\ pos + 2 <= Len(stream)
        /\ limits.chunks \in Nat /\ limits.entries \in Nat
    BY <1>1, <1>4, LenProperties DEF TypeOK, Has, ReadLimits
  <2>3. x \in FileRecord /\ FileKept(x) /\ Len(x.chunk_ids) = 0
    <3>1. Read16(1) \in U16
      BY <1>1, <2>2, Reading16
    <3> DEFINE d == Read16(1)
    <3> HIDE DEF d
    <3>2. x = [directory_id |-> d, chunk_ids |-> <<>>] /\ d \in U16
      BY <3>1 DEF d
    <3>3. <<>> \in Seq(U16) /\ Len(<<>>) = 0 /\ DOMAIN <<>> = {}
      OBVIOUS
    <3>4. Terminator \notin Range(<<>>)
      BY <3>3 DEF Range
    <3> HIDE DEF x
    <3>5. x \in FileRecord /\ x.chunk_ids = <<>>
      BY <3>2, <3>3 DEF FileRecord
    <3>6. QED
      BY <2>2, <3>3, <3>4, <3>5 DEF FileKept
  <2> HIDE DEF x
  <2> DEFINE t == Append(raw.files, x)
  <2>4. /\ t \in Seq(FileRecord) /\ Len(t) = Len(raw.files) + 1 /\ t # <<>>
        /\ \A i \in DOMAIN t : FileKept(t[i])
    <3>1. pc # "edited"
      BY <1>1
    <3>2. QED
      BY <1>1, <2>3, <3>1, RawTyped, FileAppended DEF Kept
  <2>5. /\ FileBytes(t) = FileBytes(raw.files) + 4
        /\ ReferencesIn(t) = ReferencesIn(raw.files)
    <3>1. raw.files \in Seq(FileRecord)
      BY <1>1, RawTyped
    <3>2. /\ FileBytes(t) = FileBytes(raw.files) + (4 + 2 * Len(x.chunk_ids))
          /\ ReferencesIn(t) = ReferencesIn(raw.files) + Len(x.chunk_ids)
          /\ FileBytes(raw.files) \in Nat /\ ReferencesIn(raw.files) \in Nat
      BY <2>3, <3>1, FileSizes
    <3> HIDE DEF t
    <3>3. QED
      BY <2>3, <3>2
  <2> HIDE DEF t
  <2>6. raw' = [raw EXCEPT !.files = t]
    BY <2>1 DEF t
  <2>7. /\ raw' \in RawArchive /\ raw'.files = t /\ raw'.strings = raw.strings
        /\ raw'.chunks = raw.chunks /\ raw'.volume_files = raw.volume_files
        /\ raw'.header = raw.header /\ raw'.version = raw.version
        /\ raw'.num_user_files = raw.num_user_files
        /\ raw'.num_directories = raw.num_directories
        /\ raw'.range_settings = raw.range_settings
    BY <1>1, <2>4, <2>6 DEF TypeOK, RawArchive
  <2>8. TypeOK'
    BY <1>1, <2>1, <2>2, <2>7 DEF TypeOK
  <2>9. Len(t) <= raw.num_user_files /\ Len(t) <= limits.entries
    <3> DEFINE n == Len(raw.files)
               m == raw.num_user_files
    <3>1. n <= m /\ m \in 1 .. limits.entries
      BY <1>1 DEF Shaped, Reading, Counted
    <3>2. n \in Nat /\ m \in Nat /\ n # m /\ Len(t) = n + 1
      BY <1>1, <1>4, <2>4, RawTyped
    <3> HIDE DEF n, m
    <3>3. Len(t) <= m /\ Len(t) <= limits.entries
      BY <2>2, <3>1, <3>2
    <3>4. QED
      BY <3>3 DEF m
  <2>10. Shaped'
    <3>1. /\ raw.header = Magic /\ raw.version = 0 /\ raw.chunks = <<>>
          /\ raw.volume_files = <<>> /\ raw.range_settings = <<>>
          /\ raw.num_user_files \in 1 .. limits.entries /\ raw.num_directories > 0
          /\ Len(raw.strings) = raw.num_user_files + raw.num_directories - 1
          /\ Len(raw.strings) <= raw.num_user_files + raw.num_directories - 1
      BY <1>1 DEF Shaped, Reading, Counted
    <3>2. pc' = "ids" /\ limits' = limits
      BY <1>1, <2>1
    <3>3. QED
      BY <2>4, <2>7, <2>9, <3>1, <3>2 DEF Shaped, Reading, Counted, Mapped, Tabled
  <2>11. /\ References(raw') = References(raw)
         /\ MetadataSizeBeforeVolumes(raw') = MetadataSizeBeforeVolumes(raw) + 4
         /\ MetadataSizeBeforeVolumes(raw) \in Nat
    <3>1. Len(raw.chunks) \in Nat
      BY <1>1, RawTyped
    <3>2. /\ MetadataSizeBeforeVolumes(raw')
               = 9 + EncodedLength(raw.strings) + FileBytes(t) + 4 + 16 * Len(raw.chunks)
          /\ References(raw') = ReferencesIn(t)
      BY <2>7 DEF MetadataSizeBeforeVolumes, FileBytes, References, ReferencesIn
    <3>3. /\ MetadataSizeBeforeVolumes(raw)
               = 9 + EncodedLength(raw.strings) + FileBytes(raw.files) + 4 + 16 * Len(raw.chunks)
          /\ EncodedLength(raw.strings) \in Nat /\ FileBytes(raw.files) \in Nat
          /\ MetadataSizeBeforeVolumes(raw) \in Nat
          /\ References(raw) = ReferencesIn(raw.files)
      BY <1>1, <3>1, RawTyped, Sizes
    <3> DEFINE e == EncodedLength(raw.strings)
               b == FileBytes(raw.files)
               c == Len(raw.chunks)
    <3>4. e \in Nat /\ b \in Nat /\ c \in Nat
      BY <3>1, <3>3
    <3>5. /\ MetadataSizeBeforeVolumes(raw') = 9 + e + (b + 4) + 4 + 16 * c
          /\ MetadataSizeBeforeVolumes(raw) = 9 + e + b + 4 + 16 * c
      BY <2>5, <3>2, <3>3
    <3> HIDE DEF e, b, c
    <3>6. MetadataSizeBeforeVolumes(raw') = MetadataSizeBeforeVolumes(raw) + 4
      BY <3>4, <3>5
    <3>7. QED
      BY <2>5, <3>2, <3>3, <3>6
  <2>12. Reckoned'
    <3> DEFINE m == MetadataSizeBeforeVolumes(raw)
    <3>1. references = References(raw) /\ pos + 4 = m
      BY <1>1 DEF Reckoned
    <3>2. references' = References(raw')
      BY <2>1, <2>11, <3>1
    <3>3. m \in Nat /\ pos' = pos + 2 /\ MetadataSizeBeforeVolumes(raw') = m + 4
      BY <2>1, <2>11
    <3> HIDE DEF m
    <3>4. pos' + 6 = MetadataSizeBeforeVolumes(raw')
      BY <2>2, <3>1, <3>3
    <3>5. pc' = "ids"
      BY <2>1
    <3>6. QED
      BY <3>2, <3>4, <3>5 DEF Reckoned, Tabled
  <2>13. Kept'
    BY <1>1, <2>1, <2>4, <2>7, <2>9, <2>11 DEF Kept, HeldWithinLimits, FileKept, NameKept
  <2>14. (AcceptedIsSound /\ AccountedExactly)'
    BY <2>1 DEF AcceptedIsSound, AccountedExactly
  <2>15. QED
    BY <2>8, <2>10, <2>12, <2>13, <2>14 DEF IInv
<1>5. QED
  BY <1>2, <1>3, <1>4

\* What one more id does to the list of a file.
LEMMA IdAppended ==
  ASSUME NEW c \in Seq(U16), NEW id \in U16, id # Terminator, Terminator \notin Range(c)
  PROVE  /\ Append(c, id) \in Seq(U16) /\ Len(Append(c, id)) = Len(c) + 1
         /\ Terminator \notin Range(Append(c, id))
<1> DEFINE B == U16
           t == Append(c, id)
           n == Len(c)
           last == Terminator
<1>1. c \in Seq(B) /\ id \in B
  OBVIOUS
<1> HIDE DEF B
<1>2. t \in Seq(B) /\ Len(t) = n + 1 /\ t[n + 1] = id /\ \A i \in 1 .. n : t[i] = c[i]
  BY <1>1, AppendProperties
<1>3. n \in Nat /\ DOMAIN c = 1 .. n /\ DOMAIN t = 1 .. n + 1
  <2> HIDE DEF t
  <2>1. DOMAIN t = 1 .. Len(t)
    BY <1>2, LenProperties
  <2>2. n \in Nat /\ DOMAIN c = 1 .. n
    BY <1>1, LenProperties
  <2>3. QED
    BY <1>2, <2>1, <2>2
<1>4. last # id /\ \A i \in DOMAIN c : c[i] # last
  BY DEF Range
<1> HIDE DEF t, n, last
<1>5. \A i \in DOMAIN t : t[i] # last
  <2> SUFFICES ASSUME NEW i \in DOMAIN t PROVE t[i] # last
    OBVIOUS
  <2>1. i = n + 1 \/ i \in 1 .. n
    BY <1>3
  <2>2. QED
    BY <1>2, <1>3, <1>4, <2>1
<1>6. last \notin Range(t)
  BY <1>5 DEF Range
<1>7. QED
  BY <1>2, <1>6 DEF t, n, B, last

\* ReadChunkId takes one reference more, within both limits, or ends the list.
LEMMA ReadChunkIdIInv ==
  ASSUME IInv, ReadChunkId
  PROVE  IInv'
<1> DEFINE k == Len(raw.files)
           id == Read16(1)
           ids == raw.files[k].chunk_ids
           many == Len(ids) >= limits.chunks \/ references + 1 > limits.references
<1>1. /\ pc = "ids" /\ UNCHANGED <<stream, limits, written>>
      /\ TypeOK /\ Shaped /\ Reckoned /\ Kept
  BY DEF ReadChunkId, IInv
<1>2. CASE ~Has(2)
  BY <1>1, <1>2, RefuseIInv DEF ReadChunkId, Reading
<1>3. /\ pos \in Nat /\ limits.chunks \in Nat /\ limits.references \in Nat /\ references \in Nat
      /\ Len(stream) \in Nat
  BY <1>1, LenProperties DEF TypeOK, ReadLimits
<1>4. CASE Has(2) /\ id = Terminator
  <2>1. pos' = pos + 2 /\ pc' = "files"
        /\ UNCHANGED <<stream, limits, written, raw, references, total>>
    BY <1>1, <1>4 DEF ReadChunkId
  <2>2. pos + 2 <= Len(stream)
    BY <1>4 DEF Has
  <2>3. TypeOK'
    BY <1>1, <1>3, <2>1, <2>2 DEF TypeOK
  <2>4. Shaped'
    BY <1>1, <2>1 DEF Shaped, Reading, Counted, Mapped, Tabled
  <2>5. Reckoned'
    <3> DEFINE m == MetadataSizeBeforeVolumes(raw)
    <3>1. pos + 6 = m /\ references = References(raw)
      BY <1>1 DEF Reckoned
    <3>2. (MetadataSizeBeforeVolumes(raw))' = m
      BY <2>1 DEF MetadataSizeBeforeVolumes
    <3> HIDE DEF m
    <3>3. pos' + 4 = m
      BY <1>3, <2>1, <3>1
    <3>4. QED
      BY <2>1, <3>1, <3>2, <3>3 DEF Reckoned, Tabled, References
  <2>6. Kept'
    BY <1>1, <2>1 DEF Kept, HeldWithinLimits, References, FileKept, NameKept
  <2>7. (AcceptedIsSound /\ AccountedExactly)'
    BY <2>1 DEF AcceptedIsSound, AccountedExactly
  <2>8. QED
    BY <2>3, <2>4, <2>5, <2>6, <2>7 DEF IInv
<1>5. CASE Has(2) /\ id # Terminator /\ many
  BY <1>1, <1>5, RefuseIInv DEF ReadChunkId, Reading
<1>6. CASE Has(2) /\ id # Terminator /\ ~many
  <2>1. /\ pos' = pos + 2 /\ pc' = pc /\ total' = total /\ references' = references + 1
        /\ raw' = [raw EXCEPT !.files[k].chunk_ids = Append(@, id)]
    BY <1>6 DEF ReadChunkId
  <2>2. pos + 2 <= Len(stream)
    BY <1>6 DEF Has
  <2>3. id \in U16
    BY <1>1, <1>3, <2>2, Reading16
  <2>4. raw.files \in Seq(FileRecord) /\ raw.files # <<>> /\ k \in DOMAIN raw.files
    <3>1. raw.files \in Seq(FileRecord) /\ raw.files # <<>>
      BY <1>1, RawTyped DEF Shaped
    <3> DEFINE s == raw.files
               T == FileRecord
    <3> HIDE DEF s, T
    <3>2. s \in Seq(T) /\ s # <<>>
      BY <3>1 DEF s, T
    <3>3. Len(s) \in DOMAIN s
      BY <3>2, LenProperties, EmptySeq
    <3>4. QED
      BY <3>1, <3>3 DEF s
  <2> DEFINE t == Grown(raw.files, k, id)
  <2>5. /\ t \in Seq(FileRecord) /\ DOMAIN t = DOMAIN raw.files /\ Len(t) = Len(raw.files)
        /\ FileBytes(t) = FileBytes(raw.files) + 2
        /\ ReferencesIn(t) = ReferencesIn(raw.files) + 1
        /\ t[k].chunk_ids = Append(ids, id)
        /\ \A i \in DOMAIN raw.files \ {k} : t[i] = raw.files[i]
    BY <2>3, <2>4, FileGrows
  <2>6. raw' = [raw EXCEPT !.files = t]
    BY <2>1 DEF Grown
  <2> HIDE DEF t
  <2>7. FileKept(t[k])
    <3>1. FileKept(raw.files[k]) /\ ids \in Seq(U16)
      <4>1. FileKept(raw.files[k])
        BY <1>1, <2>4 DEF Kept
      <4>2. raw.files[k] \in FileRecord
        <5> DEFINE s == raw.files
                   T == FileRecord
        <5>1. s \in Seq(T) /\ k \in DOMAIN s
          BY <2>4
        <5> HIDE DEF s, T, k
        <5>2. s[k] \in T
          BY <5>1, LenProperties
        <5>3. QED
          BY <5>2 DEF s, T
      <4>3. QED
        BY <4>1, <4>2 DEF FileRecord
    <3>2. /\ Len(Append(ids, id)) = Len(ids) + 1 /\ Terminator \notin Range(Append(ids, id))
      BY <1>6, <2>3, <3>1, IdAppended DEF FileKept
    <3>3. Len(ids) \in Nat
      BY <3>1, LenProperties
    <3> DEFINE n == Len(ids)
    <3>4. n \in Nat /\ ~(n >= limits.chunks) /\ Len(Append(ids, id)) = n + 1
      BY <1>6, <3>2, <3>3
    <3> HIDE DEF n
    <3>5. Len(Append(ids, id)) <= limits.chunks
      BY <1>3, <3>4
    <3> HIDE DEF k, id, ids
    <3>6. QED
      BY <2>5, <3>2, <3>5 DEF FileKept
  <2> HIDE DEF id, ids, many
  <2>8. \A i \in DOMAIN t : FileKept(t[i])
    <3> SUFFICES ASSUME NEW i \in DOMAIN t PROVE FileKept(t[i])
      OBVIOUS
    <3>1. CASE i = k
      BY <2>7, <3>1
    <3>2. CASE i # k
      BY <1>1, <2>5, <3>2 DEF Kept
    <3>3. QED
      BY <3>1, <3>2
  <2> HIDE DEF k
  <2>9. /\ raw' \in RawArchive /\ raw'.files = t /\ raw'.strings = raw.strings
        /\ raw'.chunks = raw.chunks /\ raw'.volume_files = raw.volume_files
        /\ raw'.header = raw.header /\ raw'.version = raw.version
        /\ raw'.num_user_files = raw.num_user_files
        /\ raw'.num_directories = raw.num_directories
        /\ raw'.range_settings = raw.range_settings
    BY <1>1, <2>5, <2>6 DEF TypeOK, RawArchive
  <2>10. TypeOK'
    BY <1>1, <1>3, <2>1, <2>2, <2>9 DEF TypeOK
  <2>11. t # <<>>
    BY <2>4, <2>5 DEF k
  <2>12. Shaped'
    <3>1. /\ raw.header = Magic /\ raw.version = 0 /\ raw.chunks = <<>>
          /\ raw.volume_files = <<>> /\ raw.range_settings = <<>>
          /\ raw.num_user_files \in 1 .. limits.entries /\ raw.num_directories > 0
          /\ Len(raw.strings) = raw.num_user_files + raw.num_directories - 1
          /\ Len(raw.strings) <= raw.num_user_files + raw.num_directories - 1
          /\ Len(raw.files) <= raw.num_user_files
      BY <1>1 DEF Shaped, Reading, Counted
    <3>2. pc' = "ids" /\ limits' = limits
      BY <1>1, <2>1
    <3>3. QED
      BY <2>5, <2>9, <2>11, <3>1, <3>2 DEF Shaped, Reading, Counted, Mapped, Tabled
  <2>13. /\ References(raw') = References(raw) + 1
         /\ MetadataSizeBeforeVolumes(raw') = MetadataSizeBeforeVolumes(raw) + 2
         /\ MetadataSizeBeforeVolumes(raw) \in Nat
    <3>1. Len(raw.chunks) \in Nat
      BY <1>1, RawTyped
    <3>2. /\ MetadataSizeBeforeVolumes(raw')
               = 9 + EncodedLength(raw.strings) + FileBytes(t) + 4 + 16 * Len(raw.chunks)
          /\ References(raw') = ReferencesIn(t)
      BY <2>9 DEF MetadataSizeBeforeVolumes, FileBytes, References, ReferencesIn
    <3>3. /\ MetadataSizeBeforeVolumes(raw)
               = 9 + EncodedLength(raw.strings) + FileBytes(raw.files) + 4 + 16 * Len(raw.chunks)
          /\ EncodedLength(raw.strings) \in Nat /\ FileBytes(raw.files) \in Nat
          /\ MetadataSizeBeforeVolumes(raw) \in Nat
          /\ References(raw) = ReferencesIn(raw.files)
      BY <1>1, <3>1, RawTyped, Sizes
    <3> DEFINE e == EncodedLength(raw.strings)
               b == FileBytes(raw.files)
               c == Len(raw.chunks)
    <3>4. e \in Nat /\ b \in Nat /\ c \in Nat
      BY <3>1, <3>3
    <3>5. /\ MetadataSizeBeforeVolumes(raw') = 9 + e + (b + 2) + 4 + 16 * c
          /\ MetadataSizeBeforeVolumes(raw) = 9 + e + b + 4 + 16 * c
      BY <2>5, <3>2, <3>3
    <3> HIDE DEF e, b, c
    <3>6. MetadataSizeBeforeVolumes(raw') = MetadataSizeBeforeVolumes(raw) + 2
      BY <3>4, <3>5
    <3>7. QED
      BY <2>5, <3>2, <3>3, <3>6
  <2>14. references = References(raw)
    BY <1>1 DEF Reckoned
  <2>15. Reckoned'
    <3> DEFINE m == MetadataSizeBeforeVolumes(raw)
    <3>1. pos + 6 = m
      BY <1>1 DEF Reckoned
    <3>2. references' = References(raw')
      BY <2>1, <2>13, <2>14
    <3>3. m \in Nat /\ pos' = pos + 2 /\ MetadataSizeBeforeVolumes(raw') = m + 2
      BY <2>1, <2>13
    <3> HIDE DEF m
    <3>4. pos' + 6 = MetadataSizeBeforeVolumes(raw')
      BY <1>3, <3>1, <3>3
    <3>5. pc' = "ids"
      BY <1>1, <2>1
    <3>6. QED
      BY <3>2, <3>4, <3>5 DEF Reckoned, Tabled
  <2>16. Kept'
    <3>1. References(raw') <= limits.references
      BY <1>3, <1>6, <2>13, <2>14 DEF many
    <3>2. QED
      BY <1>1, <2>1, <2>5, <2>8, <2>9, <3>1 DEF Kept, HeldWithinLimits, FileKept, NameKept
  <2>17. (AcceptedIsSound /\ AccountedExactly)'
    BY <1>1, <2>1 DEF AcceptedIsSound, AccountedExactly
  <2>18. QED
    BY <2>10, <2>12, <2>15, <2>16, <2>17 DEF IInv
<1>7. QED
  BY <1>2, <1>4, <1>5, <1>6

\* ReadChunkSettings takes the counts of the chunk table, within the limit.
LEMMA ReadChunkSettingsIInv ==
  ASSUME IInv, ReadChunkSettings
  PROVE  IInv'
<1> DEFINE ok == Has(4) /\ Read16(1) # 0 /\ Read16(3) <= limits.chunks
           v == Read16(1)
           c == Read16(3)
<1>1. /\ pc = "counts" /\ UNCHANGED <<stream, limits, written>>
      /\ TypeOK /\ Shaped /\ Reckoned /\ Kept
  BY DEF ReadChunkSettings, IInv
<1>2. CASE ~ok
  BY <1>1, <1>2, RefuseIInv DEF ReadChunkSettings, Reading
<1>3. CASE ok
  <2>1. /\ pos' = pos + 4 /\ pc' = "chunks" /\ total' = total /\ references' = references
        /\ raw' = [raw EXCEPT !.num_archive_files = v, !.num_chunks = c]
    BY <1>3 DEF ReadChunkSettings
  <2> HIDE DEF ok
  <2>2. pos \in Nat /\ Len(stream) \in Nat /\ pos + 4 <= Len(stream) /\ limits.chunks \in Nat
    BY <1>1, <1>3, LenProperties DEF TypeOK, Has, ok, ReadLimits
  <2>3. v \in U16 /\ c \in U16
    <3>1. Read16(1) \in U16
      BY <1>1, <2>2, Reading16
    <3>2. Read16(3) \in U16
      BY <1>1, <2>2, Reading16
    <3>3. QED
      BY <3>1, <3>2
  <2>4. v \in Nat /\ v > 0 /\ c \in Nat /\ c <= limits.chunks
    <3>1. v # 0 /\ c <= limits.chunks
      BY <1>3 DEF ok
    <3> HIDE DEF v, c
    <3>2. QED
      BY <2>3, <3>1, Widths
  <2> HIDE DEF v, c
  <2>5. /\ raw' \in RawArchive /\ raw'.files = raw.files /\ raw'.strings = raw.strings
        /\ raw'.chunks = raw.chunks /\ raw'.volume_files = raw.volume_files
        /\ raw'.header = raw.header /\ raw'.version = raw.version
        /\ raw'.num_user_files = raw.num_user_files
        /\ raw'.num_directories = raw.num_directories
        /\ raw'.range_settings = raw.range_settings
        /\ raw'.num_archive_files = v /\ raw'.num_chunks = c
    BY <1>1, <2>1, <2>3 DEF TypeOK, RawArchive
  <2>6. TypeOK'
    BY <1>1, <2>1, <2>2, <2>5 DEF TypeOK
  <2>7. Len(raw.chunks) = 0
    BY <1>1 DEF Shaped
  <2>8. Shaped'
    <3>1. /\ raw.header = Magic /\ raw.version = 0
          /\ raw.volume_files = <<>> /\ raw.range_settings = <<>>
          /\ raw.num_user_files \in 1 .. limits.entries /\ raw.num_directories > 0
          /\ Len(raw.strings) = raw.num_user_files + raw.num_directories - 1
          /\ Len(raw.strings) <= raw.num_user_files + raw.num_directories - 1
          /\ Len(raw.files) <= raw.num_user_files /\ Len(raw.files) = raw.num_user_files
      BY <1>1 DEF Shaped, Reading, Counted, Mapped
    <3>2. pc' = "chunks" /\ limits' = limits
      BY <1>1, <2>1
    <3>3. QED
      BY <2>4, <2>5, <2>7, <3>1, <3>2 DEF Shaped, Reading, Counted, Mapped, Tabled
  <2>9. /\ References(raw') = References(raw)
        /\ MetadataSizeBeforeVolumes(raw') = MetadataSizeBeforeVolumes(raw)
    BY <2>5 DEF References, MetadataSizeBeforeVolumes
  <2>10. Reckoned'
    BY <1>1, <2>1, <2>9 DEF Reckoned, Tabled
  <2>11. Kept'
    BY <1>1, <2>1, <2>5, <2>9 DEF Kept, HeldWithinLimits, FileKept, NameKept
  <2>12. (AcceptedIsSound /\ AccountedExactly)'
    BY <2>1 DEF AcceptedIsSound, AccountedExactly
  <2>13. QED
    BY <2>6, <2>8, <2>10, <2>11, <2>12 DEF IInv
<1>4. QED
  BY <1>2, <1>3

\* The chunk record read from sixteen bytes.
NextChunk ==
  [offset |-> Read32(1), compressed_length |-> Read32(5), decompressed_length |-> Read32(9),
   flags |-> Read16(13), file |-> Read16(15)]

\* It has its fields' widths.
LEMMA ReadingChunk ==
  ASSUME TypeOK, Has(16)
  PROVE  NextChunk \in ChunkRecord
<1>1. pos \in Nat /\ Len(stream) \in Nat /\ pos + 16 <= Len(stream)
  BY LenProperties DEF TypeOK, Has
<1>2. Read32(1) \in U32
  BY <1>1, Reading32
<1>3. Read32(5) \in U32
  BY <1>1, Reading32
<1>4. Read32(9) \in U32
  BY <1>1, Reading32
<1>5. Read16(13) \in U16
  BY <1>1, Reading16
<1>6. Read16(15) \in U16
  BY <1>1, Reading16
<1>7. QED
  BY <1>2, <1>3, <1>4, <1>5, <1>6 DEF NextChunk, ChunkRecord

\* ReadChunks takes one record more, or goes on within the metadata limit.
LEMMA ReadChunksIInv ==
  ASSUME IInv, ReadChunks
  PROVE  IInv'
<1> DEFINE all == Len(raw.chunks) = raw.num_chunks
           over == MetadataSizeBeforeVolumes(raw) > limits.metadata
<1>1. /\ pc = "chunks" /\ UNCHANGED <<stream, limits, written>>
      /\ TypeOK /\ Shaped /\ Reckoned /\ Kept
  BY DEF ReadChunks, IInv
<1>2. CASE (all /\ over) \/ (~all /\ ~Has(16))
  BY <1>1, <1>2, RefuseIInv DEF ReadChunks, Reading
<1>3. CASE all /\ ~over
  <2>1. /\ pc' = "volumes" /\ total' = 0
        /\ UNCHANGED <<stream, limits, written, pos, raw, references>>
    BY <1>1, <1>3 DEF ReadChunks, Goto
  <2> HIDE DEF all, over
  <2>2. TypeOK'
    BY <1>1, <2>1 DEF TypeOK
  <2>3. raw.num_archive_files \in Nat /\ raw.num_archive_files > 0 /\ raw.volume_files = <<>>
        /\ Len(raw.volume_files) = 0
    <3>1. raw.num_archive_files > 0 /\ raw.volume_files = <<>>
      BY <1>1 DEF Shaped, Mapped
    <3>2. QED
      BY <1>1, <3>1, RawTyped
  <2>4. Len(raw.volume_files) <= raw.num_archive_files - 1
    BY <2>3
  <2>5. Shaped'
    BY <1>1, <1>3, <2>1, <2>4 DEF Shaped, Reading, Counted, Mapped, Tabled, all
  <2>6. Reckoned'
    <3> DEFINE m == MetadataSizeBeforeVolumes(raw)
    <3>1. pos = m /\ references = References(raw) /\ pos \in Nat
      BY <1>1 DEF Reckoned, TypeOK
    <3>2. m <= limits.metadata
      BY <1>1, <1>3, <3>1 DEF over, TypeOK, ReadLimits
    <3>3. EncodedLength(raw.volume_files) = 0
      <4>1. <<>> \in Seq(Byte) /\ <<>> \in Seq(Seq(Byte))
        OBVIOUS
      <4>2. QED
        BY <2>3, <4>1, StringSizes
    <3>4. (MetadataSizeBeforeVolumes(raw))' = m /\ (References(raw))' = References(raw)
          /\ (EncodedLength(raw.volume_files))' = 0
      BY <2>1, <3>3 DEF MetadataSizeBeforeVolumes, References
    <3> HIDE DEF m
    <3>5. pos' = m + 0
      BY <2>1, <3>1
    <3>6. limits' = limits
      BY <2>1
    <3>7. QED
      BY <2>1, <3>1, <3>2, <3>4, <3>5, <3>6 DEF Reckoned, Tabled
  <2>7. Kept'
    BY <1>1, <2>1 DEF Kept, HeldWithinLimits, References, FileKept, NameKept
  <2>8. (AcceptedIsSound /\ AccountedExactly)'
    BY <2>1 DEF AcceptedIsSound, AccountedExactly
  <2>9. QED
    BY <2>2, <2>5, <2>6, <2>7, <2>8 DEF IInv
<1>4. CASE ~all /\ Has(16)
  <2> DEFINE t == Append(raw.chunks, NextChunk)
  <2>1. /\ pos' = pos + 16 /\ pc' = pc /\ total' = total /\ references' = references
        /\ raw' = [raw EXCEPT !.chunks = t]
    BY <1>4 DEF ReadChunks, NextChunk
  <2>2. pos \in Nat /\ Len(stream) \in Nat /\ pos + 16 <= Len(stream)
        /\ limits.chunks \in Nat
    BY <1>1, <1>4, LenProperties DEF TypeOK, Has, ReadLimits
  <2>3. t \in Seq(ChunkRecord) /\ Len(t) = Len(raw.chunks) + 1
    <3> DEFINE s == raw.chunks
               T == ChunkRecord
               x == NextChunk
    <3>1. s \in Seq(T) /\ x \in T
      BY <1>1, <1>4, RawTyped, ReadingChunk
    <3> HIDE DEF s, T, x
    <3>2. Append(s, x) \in Seq(T) /\ Len(Append(s, x)) = Len(s) + 1
      BY <3>1, AppendProperties
    <3>3. QED
      BY <3>2 DEF s, T, x
  <2> HIDE DEF t
  <2>4. /\ raw' \in RawArchive /\ raw'.files = raw.files /\ raw'.strings = raw.strings
        /\ raw'.chunks = t /\ raw'.volume_files = raw.volume_files
        /\ raw'.header = raw.header /\ raw'.version = raw.version
        /\ raw'.num_user_files = raw.num_user_files
        /\ raw'.num_directories = raw.num_directories
        /\ raw'.range_settings = raw.range_settings
        /\ raw'.num_archive_files = raw.num_archive_files /\ raw'.num_chunks = raw.num_chunks
    BY <1>1, <2>1, <2>3 DEF TypeOK, RawArchive
  <2>5. TypeOK'
    BY <1>1, <2>1, <2>2, <2>4 DEF TypeOK
  <2>6. Len(t) <= raw.num_chunks /\ Len(t) <= limits.chunks
    <3> DEFINE n == Len(raw.chunks)
               m == raw.num_chunks
    <3>1. n <= m /\ m <= limits.chunks
      BY <1>1 DEF Shaped, Mapped
    <3>2. n \in Nat /\ m \in Nat /\ n # m /\ Len(t) = n + 1
      BY <1>1, <1>4, <2>3, RawTyped
    <3> HIDE DEF n, m
    <3>3. Len(t) <= m /\ Len(t) <= limits.chunks
      BY <2>2, <3>1, <3>2
    <3>4. QED
      BY <3>3 DEF m
  <2> HIDE DEF all
  <2>7. Shaped'
    <3>1. /\ raw.header = Magic /\ raw.version = 0
          /\ raw.volume_files = <<>> /\ raw.range_settings = <<>>
          /\ raw.num_user_files \in 1 .. limits.entries /\ raw.num_directories > 0
          /\ Len(raw.strings) = raw.num_user_files + raw.num_directories - 1
          /\ Len(raw.strings) <= raw.num_user_files + raw.num_directories - 1
          /\ Len(raw.files) <= raw.num_user_files /\ Len(raw.files) = raw.num_user_files
          /\ raw.num_archive_files > 0 /\ raw.num_chunks <= limits.chunks
      BY <1>1 DEF Shaped, Reading, Counted, Mapped
    <3>2. pc' = "chunks" /\ limits' = limits
      BY <1>1, <2>1
    <3>3. QED
      BY <2>4, <2>6, <3>1, <3>2 DEF Shaped, Reading, Counted, Mapped, Tabled
  <2>8. /\ References(raw') = References(raw)
        /\ MetadataSizeBeforeVolumes(raw') = MetadataSizeBeforeVolumes(raw) + 16
        /\ MetadataSizeBeforeVolumes(raw) \in Nat
    <3>1. Len(raw.chunks) \in Nat
      BY <1>1, RawTyped
    <3>2. /\ MetadataSizeBeforeVolumes(raw')
               = 9 + EncodedLength(raw.strings) + FileBytes(raw.files) + 4 + 16 * Len(t)
          /\ References(raw') = References(raw)
      BY <2>4 DEF MetadataSizeBeforeVolumes, FileBytes, References
    <3>3. /\ MetadataSizeBeforeVolumes(raw)
               = 9 + EncodedLength(raw.strings) + FileBytes(raw.files) + 4 + 16 * Len(raw.chunks)
          /\ EncodedLength(raw.strings) \in Nat /\ FileBytes(raw.files) \in Nat
          /\ MetadataSizeBeforeVolumes(raw) \in Nat
      BY <1>1, <3>1, RawTyped, Sizes
    <3> DEFINE e == EncodedLength(raw.strings)
               b == FileBytes(raw.files)
               c == Len(raw.chunks)
    <3>4. e \in Nat /\ b \in Nat /\ c \in Nat
      BY <3>1, <3>3
    <3>5. /\ MetadataSizeBeforeVolumes(raw') = 9 + e + b + 4 + 16 * (c + 1)
          /\ MetadataSizeBeforeVolumes(raw) = 9 + e + b + 4 + 16 * c
      BY <2>3, <3>2, <3>3
    <3> HIDE DEF e, b, c
    <3>6. MetadataSizeBeforeVolumes(raw') = MetadataSizeBeforeVolumes(raw) + 16
      BY <3>4, <3>5
    <3>7. QED
      BY <3>2, <3>3, <3>6
  <2>9. Reckoned'
    <3> DEFINE m == MetadataSizeBeforeVolumes(raw)
    <3>1. references = References(raw) /\ pos = m
      BY <1>1 DEF Reckoned
    <3>2. references' = References(raw')
      BY <2>1, <2>8, <3>1
    <3>3. pos' = pos + 16 /\ MetadataSizeBeforeVolumes(raw') = m + 16
      BY <2>1, <2>8
    <3> HIDE DEF m
    <3>4. pos' = MetadataSizeBeforeVolumes(raw')
      BY <3>1, <3>3
    <3>5. pc' = "chunks"
      BY <1>1, <2>1
    <3>6. QED
      BY <3>2, <3>4, <3>5 DEF Reckoned, Tabled
  <2>10. Kept'
    BY <1>1, <2>1, <2>4, <2>6, <2>8 DEF Kept, HeldWithinLimits, FileKept, NameKept
  <2>11. (AcceptedIsSound /\ AccountedExactly)'
    BY <1>1, <2>1 DEF AcceptedIsSound, AccountedExactly
  <2>12. QED
    BY <2>5, <2>7, <2>9, <2>10, <2>11 DEF IInv
<1>5. QED
  BY <1>2, <1>3, <1>4

\* Rename changes one name and no count.
LEMMA RenameIInv ==
  ASSUME IInv, NEW k \in DOMAIN raw.strings, NEW name \in NewNames \cup FromNames,
         Rename(k, name)
  PROVE  IInv'
<1>1. /\ UNCHANGED <<stream, pos, limits, total, references, written>> /\ pc' = "edited"
      /\ TypeOK /\ Shaped /\ Reckoned /\ Kept
  BY DEF Rename, IInv
<1> DEFINE t == [raw.strings EXCEPT ![k] = name]
<1>2. raw' = [raw EXCEPT !.strings = t]
  BY DEF Rename
<1>3. t \in Seq(Seq(Byte))
  <2> DEFINE S == Seq(Byte)
             s == raw.strings
  <2>1. s \in Seq(S) /\ name \in S /\ k \in DOMAIN s
    BY <1>1, RawTyped, MetadataAssumption
  <2> HIDE DEF S, s
  <2> DEFINE u == [s EXCEPT ![k] = name]
             n == Len(s)
  <2>2. s \in [1 .. n -> S] /\ n \in Nat
    BY <2>1, LenProperties
  <2> HIDE DEF n
  <2>3. u \in [1 .. n -> S]
    BY <2>1, <2>2
  <2> HIDE DEF u
  <2>4. u \in Seq(S)
    BY <2>2, <2>3
  <2>5. QED
    BY <2>4 DEF u, s, S
<1> HIDE DEF t
<1>4. /\ raw' \in RawArchive /\ raw'.files = raw.files
      /\ raw'.header = raw.header /\ raw'.version = raw.version
  BY <1>1, <1>2, <1>3 DEF TypeOK, RawArchive
<1>5. TypeOK'
  BY <1>1, <1>4 DEF TypeOK
<1>6. Shaped'
  BY <1>1, <1>4 DEF Shaped, Reading, Counted, Mapped, Tabled
<1>7. Reckoned'
  <2>1. References(raw') = References(raw)
    BY <1>4 DEF References
  <2>2. QED
    BY <1>1, <2>1 DEF Reckoned, Tabled
<1>8. Kept'
  BY <1>1 DEF Kept, HeldWithinLimits
<1>9. (AcceptedIsSound /\ AccountedExactly)'
  BY <1>1 DEF AcceptedIsSound, AccountedExactly
<1>10. QED
  BY <1>5, <1>6, <1>7, <1>8, <1>9 DEF IInv

\* A parse starts so after a step, too.
LEMMA StartsAgain == Start' => IInv'
  BY StartIInv, PTL

\* WriteMetadataTo writes bytes, and a parse of them starts.
LEMMA WriteMetadataToIInv ==
  ASSUME IInv, WriteMetadataTo
  PROVE  IInv'
<1>1. raw \in RawArchive /\ limits \in ReadLimits
  BY DEF IInv, TypeOK
<1>2. WriteMetadata(raw) \in Seq(Byte)
  BY <1>1, MetadataTyped
<1>3. Start'
  BY <1>1, <1>2 DEF Start, WriteMetadataTo
<1>4. QED
  BY <1>3, StartsAgain

\* ReadRawFileList takes one name more, within what the limit leaves, or goes on.
LEMMA ReadRawFileListIInv ==
  ASSUME IInv, ReadRawFileList
  PROVE  IInv'
<1> DEFINE all == raw.num_archive_files - 1
           x == NextString
           m == MetadataSizeBeforeVolumes(raw)
           over == total + Len(x) + 1 > limits.metadata - m
<1>1. /\ pc = "volumes" /\ UNCHANGED <<stream, limits, written>>
      /\ TypeOK /\ Shaped /\ Reckoned /\ Kept
  BY DEF ReadRawFileList, IInv
<1>2. CASE ~(Len(raw.volume_files) < all)
  <2>1. pc' = "range" /\ UNCHANGED <<stream, limits, written, pos, raw, references, total>>
    BY <1>1, <1>2 DEF ReadRawFileList, Goto
  <2>2. Len(raw.volume_files) = all
    <3>1. Len(raw.volume_files) <= raw.num_archive_files - 1
      BY <1>1 DEF Shaped, Tabled
    <3> DEFINE n == Len(raw.volume_files)
    <3>2. n \in Nat /\ all \in Int /\ n <= all /\ ~(n < all)
      BY <1>1, <1>2, <3>1, RawTyped
    <3> HIDE DEF n, all
    <3>3. n = all
      BY <3>2
    <3>4. QED
      BY <3>3 DEF n
  <2>3. TypeOK'
    BY <1>1, <2>1 DEF TypeOK
  <2>4. Shaped'
    BY <1>1, <2>1, <2>2 DEF Shaped, Reading, Counted, Mapped, Tabled
  <2>5. Reckoned'
    BY <1>1, <2>1 DEF Reckoned, References, MetadataSizeBeforeVolumes, Tabled
  <2>6. Kept'
    BY <1>1, <2>1 DEF Kept, HeldWithinLimits, References, FileKept, NameKept
  <2>7. (AcceptedIsSound /\ AccountedExactly)'
    BY <2>1 DEF AcceptedIsSound, AccountedExactly
  <2>8. QED
    BY <2>3, <2>4, <2>5, <2>6, <2>7 DEF IInv
<1>3. CASE Len(raw.volume_files) < all /\ (NulsInReach = {} \/ over)
  BY <1>1, <1>3, RefuseIInv DEF ReadRawFileList, ReadString, Reading
<1>4. CASE Len(raw.volume_files) < all /\ NulsInReach # {} /\ ~over
  <2>1. /\ pos' = pos + Len(x) + 1 /\ total' = total + Len(x) + 1 /\ pc' = pc
        /\ raw' = [raw EXCEPT !.volume_files = Append(@, x)] /\ references' = references
    BY <1>4 DEF ReadRawFileList, ReadString
  <2>2. /\ x \in Seq(Byte) /\ NameKept(x) /\ Len(x) \in Nat
        /\ pos + Len(x) + 1 \in 0 .. Len(stream)
    <3>1. x \in Seq(Byte) /\ NameKept(x) /\ pos + Len(x) + 1 \in 1 .. Len(stream)
      BY <1>1, <1>4, ReadingString DEF NameKept
    <3>2. QED
      BY <3>1, LenProperties
  <2>3. total \in Nat /\ pos \in Nat /\ limits.metadata \in Nat
    BY <1>1 DEF TypeOK, ReadLimits
  <2>4. m \in Nat /\ Len(raw.chunks) \in Nat
    <3>1. Len(raw.chunks) \in Nat
      BY <1>1, RawTyped
    <3>2. QED
      BY <1>1, <3>1, RawTyped, Sizes
  <2> HIDE DEF m
  <2>5. total + Len(x) + 1 <= limits.metadata
    <3> DEFINE l == Len(x)
               most == limits.metadata
    <3>1. l \in Nat /\ most \in Nat /\ ~(total + l + 1 > most - m)
      BY <1>4, <2>2, <2>3
    <3> HIDE DEF l, most
    <3>2. total + l + 1 <= most
      BY <2>3, <2>4, <3>1
    <3>3. QED
      BY <3>2 DEF l, most
  <2> HIDE DEF x, over
  <2> DEFINE t == Append(raw.volume_files, x)
  <2>6. /\ t \in Seq(Seq(Byte)) /\ Len(t) = Len(raw.volume_files) + 1
        /\ \A i \in DOMAIN t : NameKept(t[i])
    BY <1>1, <2>2, RawTyped, NameAppended DEF Kept
  <2>7. EncodedLength(t) = EncodedLength(raw.volume_files) + (Len(x) + 1)
    BY <1>1, <2>2, RawTyped, StringSizes
  <2> HIDE DEF t
  <2>8. raw' = [raw EXCEPT !.volume_files = t]
    BY <2>1 DEF t
  <2>9. /\ raw' \in RawArchive /\ raw'.volume_files = t /\ raw'.files = raw.files
        /\ raw'.chunks = raw.chunks /\ raw'.strings = raw.strings
        /\ raw'.header = raw.header /\ raw'.version = raw.version
        /\ raw'.num_user_files = raw.num_user_files
        /\ raw'.num_directories = raw.num_directories
        /\ raw'.range_settings = raw.range_settings
        /\ raw'.num_archive_files = raw.num_archive_files /\ raw'.num_chunks = raw.num_chunks
    BY <1>1, <2>6, <2>8 DEF TypeOK, RawArchive
  <2>10. TypeOK'
    BY <1>1, <2>1, <2>2, <2>3, <2>9 DEF TypeOK
  <2>11. Shaped'
    <3>1. /\ raw.header = Magic /\ raw.version = 0 /\ raw.range_settings = <<>>
          /\ raw.num_user_files \in 1 .. limits.entries /\ raw.num_directories > 0
          /\ Len(raw.strings) = raw.num_user_files + raw.num_directories - 1
          /\ Len(raw.strings) <= raw.num_user_files + raw.num_directories - 1
          /\ Len(raw.files) <= raw.num_user_files /\ Len(raw.files) = raw.num_user_files
          /\ raw.num_archive_files > 0 /\ raw.num_chunks <= limits.chunks
          /\ Len(raw.chunks) <= raw.num_chunks /\ Len(raw.chunks) = raw.num_chunks
      BY <1>1 DEF Shaped, Reading, Counted, Mapped, Tabled
    <3>2. Len(t) <= all
      BY <1>1, <1>4, <2>6, RawTyped
    <3>3. pc' = "volumes" /\ limits' = limits
      BY <1>1, <2>1
    <3>4. QED
      BY <2>9, <3>1, <3>2, <3>3 DEF Shaped, Reading, Counted, Mapped, Tabled
  <2>12. /\ References(raw') = References(raw)
         /\ MetadataSizeBeforeVolumes(raw') = m
    BY <2>9 DEF References, MetadataSizeBeforeVolumes, m
  <2>13. Reckoned'
    <3> DEFINE l == Len(x)
               e == EncodedLength(raw.volume_files)
               n == EncodedLength(t)
    <3>1. references = References(raw) /\ total = e /\ pos = m + e /\ m <= limits.metadata
      BY <1>1 DEF Reckoned, Tabled, m
    <3>2. l \in Nat /\ n = e + (l + 1) /\ total' = total + l + 1 /\ pos' = pos + l + 1
      BY <2>1, <2>2, <2>7
    <3>3. /\ references' = References(raw') /\ EncodedLength((raw').volume_files) = n
          /\ pc' = "volumes" /\ limits' = limits
      BY <1>1, <2>1, <2>9, <2>12, <3>1
    <3> HIDE DEF l, e, n
    <3>4. total' = n /\ pos' = m + n
      BY <2>3, <2>4, <3>1, <3>2
    <3>5. QED
      BY <2>12, <3>1, <3>3, <3>4 DEF Reckoned, Tabled
  <2>14. Kept'
    <3> DEFINE l == Len(x)
               e == EncodedLength(raw.volume_files)
    <3>1. total = e /\ l \in Nat /\ total + l + 1 <= limits.metadata /\ EncodedLength(t) = e + (l + 1)
      BY <1>1, <2>2, <2>5, <2>7 DEF Reckoned
    <3> HIDE DEF l, e
    <3>2. EncodedLength(t) <= limits.metadata
      BY <2>3, <3>1
    <3>3. QED
      BY <1>1, <2>1, <2>6, <2>9, <2>12, <3>2 DEF Kept, HeldWithinLimits, FileKept, NameKept
  <2>15. (AcceptedIsSound /\ AccountedExactly)'
    BY <1>1, <2>1 DEF AcceptedIsSound, AccountedExactly
  <2>16. QED
    BY <2>10, <2>11, <2>13, <2>14, <2>15 DEF IInv
<1>5. QED
  BY <1>2, <1>3, <1>4

\* Every name of two tables is a name of one of them.
LEMMA NamesOfBoth ==
  ASSUME NEW s \in Seq(Seq(Byte)), NEW t \in Seq(Seq(Byte)),
         \A i \in DOMAIN s : NameKept(s[i]), \A i \in DOMAIN t : NameKept(t[i])
  PROVE  \A x \in Range(s \o t) : NameKept(x)
<1> DEFINE S == Seq(Byte)
           m == Len(s)
           n == Len(t)
           u == s \o t
<1>1. s \in Seq(S) /\ t \in Seq(S)
  OBVIOUS
<1> HIDE DEF S
<1>2. /\ u \in Seq(S) /\ Len(u) = m + n
      /\ \A i \in 1 .. m + n : u[i] = IF i <= m THEN s[i] ELSE t[i - m]
  BY <1>1, ConcatProperties
<1>3. m \in Nat /\ n \in Nat /\ DOMAIN s = 1 .. m /\ DOMAIN t = 1 .. n
  BY <1>1, LenProperties
<1> HIDE DEF u
<1>4. DOMAIN u = 1 .. m + n
  BY <1>2, LenProperties
<1> HIDE DEF m, n
<1>5. ASSUME NEW i \in DOMAIN u PROVE NameKept(u[i])
  <2>1. CASE i <= m
    <3>1. i \in 1 .. m
      BY <1>3, <1>4, <2>1
    <3>2. QED
      BY <1>2, <1>3, <1>4, <2>1, <3>1
  <2>2. CASE ~(i <= m)
    <3>1. i - m \in 1 .. n
      BY <1>3, <1>4, <2>2
    <3>2. QED
      BY <1>2, <1>3, <1>4, <2>2, <3>1
  <2>3. QED
    BY <2>1, <2>2
<1>6. QED
  BY <1>5 DEF Range, u

\* ReadGlobalSettings accepts what is within the limits as a whole.
LEMMA ReadGlobalSettingsIInv ==
  ASSUME IInv, ReadGlobalSettings
  PROVE  IInv'
<1> DEFINE n == IF HasDz(raw) THEN 10 ELSE 0
           r == SubSeq(stream, pos + 1, pos + n)
           complete == [raw EXCEPT !.range_settings = r]
           m == MetadataSizeBeforeVolumes(raw)
           e == EncodedLength(raw.volume_files)
<1>1. /\ pc = "range" /\ UNCHANGED <<stream, limits, written>>
      /\ TypeOK /\ Shaped /\ Reckoned /\ Kept
  BY DEF ReadGlobalSettings, IInv
<1>2. CASE ~Has(n) \/ MetadataBytes(complete) > limits.metadata
  BY <1>1, <1>2, RefuseIInv DEF ReadGlobalSettings, Reading
<1>3. CASE Has(n) /\ ~(MetadataBytes(complete) > limits.metadata)
  <2>1. /\ pos' = pos + n /\ pc' = "parsed" /\ total' = total /\ references' = references
        /\ raw' = complete
    BY <1>3 DEF ReadGlobalSettings
  <2>2. n \in {0, 10}
    OBVIOUS
  <2>3. pos \in Nat /\ Len(stream) \in Nat /\ pos + n <= Len(stream) /\ stream \in Seq(Byte)
    BY <1>1, <1>3, LenProperties DEF TypeOK, Has
  <2>4. r \in {<<>>} \cup [1 .. 10 -> Byte] /\ Len(r) = n
    <3> DEFINE B == Byte
    <3>1. stream \in Seq(B)
      BY <2>3
    <3> HIDE DEF B, n
    <3>2. r \in Seq(B)
      BY <2>2, <2>3, <3>1
    <3>3. Len(r) = n
      BY <2>2, <2>3, <3>1
    <3> HIDE DEF r
    <3>4. CASE n = 0
      <4>1. r = <<>>
        BY <3>2, <3>3, <3>4, EmptySeq
      <4>2. QED
        BY <3>3, <4>1
    <3>5. CASE n = 10
      <4>1. r \in [1 .. 10 -> B]
        BY <3>2, <3>3, <3>5, LenProperties
      <4>2. QED
        BY <3>3, <4>1 DEF B
    <3>6. QED
      BY <2>2, <3>4, <3>5
  <2> HIDE DEF r
  <2>5. /\ raw' \in RawArchive /\ raw'.range_settings = r /\ raw'.files = raw.files
        /\ raw'.chunks = raw.chunks /\ raw'.strings = raw.strings
        /\ raw'.volume_files = raw.volume_files
        /\ raw'.header = raw.header /\ raw'.version = raw.version
        /\ raw'.num_user_files = raw.num_user_files
        /\ raw'.num_directories = raw.num_directories
        /\ raw'.num_archive_files = raw.num_archive_files /\ raw'.num_chunks = raw.num_chunks
    BY <1>1, <2>1, <2>4 DEF TypeOK, RawArchive
  <2>6. /\ References(raw') = References(raw) /\ HasDz(raw') = HasDz(raw)
        /\ MetadataBytes(raw') = m + e + Len(r)
    BY <2>5 DEF References, MetadataSizeBeforeVolumes, MetadataBytes, HasDz
  <2>7. ~(MetadataBytes(raw') > limits.metadata)
    BY <1>3, <2>1
  <2> HIDE DEF complete
  <2>8. Len(r) = IF HasDz(raw') THEN 10 ELSE 0
    BY <2>4, <2>6
  <2> HIDE DEF n
  <2>9. TypeOK'
    <3>1. pos + n \in 0 .. Len(stream)
      BY <2>2, <2>3
    <3>2. QED
      BY <1>1, <2>1, <2>5, <3>1 DEF TypeOK
  <2>10. Shaped'
    BY <1>1, <2>1, <2>5 DEF Shaped, Reading, Counted, Mapped, Tabled
  <2>11. Reckoned'
    BY <1>1, <2>1, <2>6 DEF Reckoned, Tabled
  <2>12. Kept'
    BY <1>1, <2>1, <2>5, <2>6 DEF Kept, HeldWithinLimits, FileKept, NameKept
  <2>13. pos = m + e
    BY <1>1 DEF Reckoned, Tabled
  <2> HIDE DEF m, e
  <2>14. MetadataBytes(raw') = pos + n
    BY <2>4, <2>6, <2>13
  <2>15. AccountedExactly'
    BY <2>1, <2>14 DEF AccountedExactly
  <2>16. /\ raw.num_user_files \in 1 .. limits.entries /\ raw.num_directories > 0
         /\ Len(raw.strings) = raw.num_user_files + raw.num_directories - 1
         /\ Len(raw.files) = raw.num_user_files
         /\ raw.num_archive_files > 0 /\ raw.num_chunks <= limits.chunks
         /\ Len(raw.chunks) = raw.num_chunks
         /\ Len(raw.volume_files) = raw.num_archive_files - 1
         /\ raw.header = Magic /\ raw.version = 0
    BY <1>1 DEF Shaped, Reading, Counted, Mapped, Tabled
  <2>17. raw.num_user_files > 0 /\ raw.num_user_files <= limits.entries
    <3>1. limits.entries \in Nat
      BY <1>1 DEF TypeOK, ReadLimits
    <3>2. QED
      BY <2>16, <3>1
  <2>18. \A x \in Range(raw.strings \o raw.volume_files) : NameKept(x)
    BY <1>1, RawTyped, NamesOfBoth DEF Kept
  <2>19. Consistent(raw')
    <3>1. \A i \in DOMAIN raw.files : Terminator \notin Range(raw.files[i].chunk_ids)
      BY <1>1 DEF Kept, FileKept
    <3>2. \A x \in Range(raw.strings \o raw.volume_files) : 0 \notin Range(x)
      BY <2>18 DEF NameKept
    <3>3. QED
      BY <2>5, <2>8, <2>16, <2>17, <3>1, <3>2 DEF Consistent
  <2>20. (WithinLimits(raw))'
    <3>1. \A i \in DOMAIN raw.files : Len(raw.files[i].chunk_ids) <= limits.chunks
      BY <1>1 DEF Kept, FileKept
    <3>2. \A x \in Range(raw.strings \o raw.volume_files) : Len(x) <= limits.string
      BY <2>18 DEF NameKept
    <3>3. References(raw') <= limits.references
      BY <1>1, <2>6 DEF Kept, HeldWithinLimits
    <3>4. MetadataBytes(raw') <= limits.metadata
      <4>1. limits.metadata \in Nat
        BY <1>1 DEF TypeOK, ReadLimits
      <4>2. QED
        BY <2>2, <2>3, <2>7, <2>14, <4>1
    <3>5. limits' = limits
      BY <1>1
    <3>6. QED
      BY <2>5, <2>16, <2>17, <3>1, <3>2, <3>3, <3>4, <3>5 DEF WithinLimits
  <2>21. QED
    BY <2>1, <2>9, <2>10, <2>11, <2>12, <2>15, <2>19, <2>20 DEF IInv, AcceptedIsSound
<1>4. QED
  BY <1>2, <1>3

-----------------------------------------------------------------------------
(* The theorems *)

\* Every step of a parse, of a caller or of a writer keeps the invariant.
LEMMA NextIInv == IInv /\ [Next]_vars => IInv'
<1> SUFFICES ASSUME IInv, [Next]_vars PROVE IInv'
  OBVIOUS
<1>1. CASE ReadArchiveSettings
  BY <1>1, ReadArchiveSettingsIInv
<1>2. CASE ReadStrings
  BY <1>2, ReadStringsIInv
<1>3. CASE ReadDirectoryId
  BY <1>3, ReadDirectoryIdIInv
<1>4. CASE ReadChunkId
  BY <1>4, ReadChunkIdIInv
<1>5. CASE ReadChunkSettings
  BY <1>5, ReadChunkSettingsIInv
<1>6. CASE ReadChunks
  BY <1>6, ReadChunksIInv
<1>7. CASE ReadRawFileList
  BY <1>7, ReadRawFileListIInv
<1>8. CASE ReadGlobalSettings
  BY <1>8, ReadGlobalSettingsIInv
<1>9. CASE \E k \in DOMAIN raw.strings, name \in NewNames \cup FromNames : Rename(k, name)
  BY <1>9, RenameIInv
<1>10. CASE WriteMetadataTo
  BY <1>10, WriteMetadataToIInv
<1>11. CASE UNCHANGED vars
  <2>1. UNCHANGED <<stream, pos, limits, pc, raw, total, references, written>>
    BY <1>11 DEF vars
  <2>2. TypeOK'
    BY <2>1 DEF IInv, TypeOK
  <2>3. Shaped'
    BY <2>1 DEF IInv, Shaped
  <2>4. Reckoned'
    BY <2>1 DEF IInv, Reckoned, References, MetadataSizeBeforeVolumes
  <2>5. Kept'
    BY <2>1 DEF IInv, Kept, HeldWithinLimits, References, FileKept, NameKept
  <2>6. AcceptedIsSound'
    BY <2>1 DEF IInv, AcceptedIsSound, Consistent, HasDz, WithinLimits, References,
                MetadataBytes, MetadataSizeBeforeVolumes
  <2>7. AccountedExactly'
    BY <2>1 DEF IInv, AccountedExactly, MetadataBytes, MetadataSizeBeforeVolumes
  <2>8. QED
    BY <2>2, <2>3, <2>4, <2>5, <2>6, <2>7 DEF IInv
<1>12. QED
  BY <1>1, <1>2, <1>3, <1>4, <1>5, <1>6, <1>7, <1>8, <1>9, <1>10, <1>11 DEF Next

\* The invariant holds of every run.
THEOREM Invariance == Spec => []IInv
BY InitIInv, NextIInv, PTL DEF Spec

\* A RawArchive has its fields' widths at every moment of every parse, and the
\* reader never runs past the end of its stream.
THEOREM TypeCorrect == Spec => []TypeOK
<1>1. IInv => TypeOK
  BY DEF IInv
<1>2. QED
  BY <1>1, Invariance, PTL

\* What a parse holds is within the limits at every moment of it.
THEOREM ParseWithinLimits == Spec => []HeldWithinLimits
<1>1. IInv => HeldWithinLimits
  BY DEF IInv, Kept
<1>2. QED
  BY <1>1, Invariance, PTL

\* A header that is accepted has tables that agree with its counts, and is
\* within every limit as a whole.
THEOREM AcceptedSound == Spec => []AcceptedIsSound
<1>1. IInv => AcceptedIsSound
  BY DEF IInv
<1>2. QED
  BY <1>1, Invariance, PTL

\* The size the metadata limit is held against is the number of bytes read.
THEOREM SizeIsBytesRead == Spec => []AccountedExactly
<1>1. IInv => AccountedExactly
  BY DEF IInv
<1>2. QED
  BY <1>1, Invariance, PTL

-----------------------------------------------------------------------------
(* What is read is what would be written *)

\* The first n bytes of the stream.
Pre(n) == SubSeq(stream, 1, n)

\* They are bytes.
LEMMA PreTyped ==
  ASSUME TypeOK, NEW n \in 0 .. Len(stream)
  PROVE  Pre(n) \in Seq(Byte) /\ Len(Pre(n)) = n
<1> DEFINE B == Byte
<1>1. stream \in Seq(B) /\ Len(stream) \in Nat
  BY LenProperties DEF TypeOK
<1> HIDE DEF B
<1>2. \A i \in 1 .. n : stream[i] \in B
  BY <1>1
<1>3. SubSeq(stream, 1, n) \in Seq(B)
  BY <1>2, SubSeqProperties
<1>4. Len(SubSeq(stream, 1, n)) = n
  <2>1. Len(SubSeq(stream, 1, n)) = IF 1 <= n THEN n - 1 + 1 ELSE 0
    BY <1>2, SubSeqProperties
  <2>2. QED
    BY <1>1, <2>1
<1>5. QED
  BY <1>3, <1>4 DEF Pre, B

\* One byte more.
LEMMA Pre8 ==
  ASSUME TypeOK, NEW n \in Nat, n + 1 <= Len(stream)
  PROVE  stream[n + 1] \in Byte /\ Pre(n + 1) = Pre(n) \o <<stream[n + 1]>>
<1> DEFINE B == Byte
           m == n + 1
<1>1. stream \in Seq(B) /\ Len(stream) \in Nat
  BY LenProperties DEF TypeOK
<1> HIDE DEF B
<1>2. m \in 1 .. Len(stream) /\ m - 1 = n /\ 1 \in 1 .. Len(stream) /\ m \in 1 .. Len(stream)
  BY <1>1
<1> HIDE DEF m
<1>3. stream[m] \in B
  BY <1>1, <1>2, ElementOfSeq
<1>4. SubSeq(stream, 1, m) = SubSeq(stream, 1, m - 1) \o <<stream[m]>>
  BY <1>1, <1>2, SubSeqRecursiveSecond
<1>5. QED
  BY <1>2, <1>3, <1>4 DEF Pre, B, m

\* Two bytes more are a u16.
LEMMA Pre16 ==
  ASSUME TypeOK, NEW k \in Nat \ {0}, pos + k + 1 <= Len(stream)
  PROVE  /\ Pre(pos + k + 1) = Pre(pos + k - 1) \o Bytes16(Read16(k))
         /\ Pre(pos + k - 1) \in Seq(Byte) /\ Bytes16(Read16(k)) \in Seq(Byte)
<1> DEFINE n == pos + k - 1
           x == stream[pos + k]
           y == stream[pos + k + 1]
<1>1. pos \in Nat /\ Len(stream) \in Nat
  BY LenProperties DEF TypeOK
<1>2. n \in Nat /\ n + 1 = pos + k /\ pos + k \in Nat /\ n \in 0 .. Len(stream)
      /\ (n + 1) + 1 = pos + k + 1 /\ n + 1 <= Len(stream)
  BY <1>1
<1> HIDE DEF n
<1>3. x \in Byte /\ Pre(pos + k) = Pre(n) \o <<x>>
  BY <1>2, Pre8
<1>4. y \in Byte /\ Pre(pos + k + 1) = Pre(pos + k) \o <<y>>
  BY <1>2, Pre8
<1>5. Bytes16(Read16(k)) = <<x, y>>
  BY Reading16
<1>6. Pre(n) \in Seq(Byte)
  BY <1>2, PreTyped
<1> DEFINE p == Pre(n)
           B == Byte
<1> HIDE DEF x, y, p, B
<1>7. x \in B /\ y \in B /\ p \in Seq(B)
  BY <1>3, <1>4, <1>6 DEF p, B
<1>8. <<x>> \in Seq(B) /\ <<y>> \in Seq(B) /\ <<x, y>> \in Seq(B) /\ <<x>> \o <<y>> = <<x, y>>
  <2> DEFINE s == <<x>>
             t == <<y>>
             u == <<x, y>>
  <2>1. s \in Seq(B) /\ t \in Seq(B) /\ u \in Seq(B)
    BY <1>7
  <2>2. Len(s) = 1 /\ Len(t) = 1 /\ Len(u) = 2 /\ s[1] = x /\ t[1] = y /\ u[1] = x /\ u[2] = y
    OBVIOUS
  <2> HIDE DEF s, t, u
  <2>3. /\ s \o t \in Seq(B) /\ Len(s \o t) = Len(s) + Len(t)
        /\ \A i \in 1 .. Len(s) + Len(t) :
             (s \o t)[i] = IF i <= Len(s) THEN s[i] ELSE t[i - Len(s)]
    BY <2>1, ConcatProperties
  <2> DEFINE v == s \o t
  <2> HIDE DEF v
  <2>4. /\ v \in Seq(B) /\ Len(v) = 2
        /\ \A i \in 1 .. 2 : v[i] = u[i]
    <3>1. Len(s) + Len(t) = 2
      BY <2>2
    <3>2. \A i \in 1 .. 2 : v[i] = IF i <= 1 THEN s[i] ELSE t[i - 1]
      BY <2>2, <2>3, <3>1 DEF v
    <3>3. v[1] = u[1] /\ v[2] = u[2]
      BY <2>2, <3>2
    <3>4. QED
      BY <2>3, <3>1, <3>3 DEF v
  <2>5. v = u
    BY <2>1, <2>2, <2>4, SeqEqual
  <2>6. QED
    BY <2>1, <2>5 DEF s, t, u, v
<1>9. (p \o <<x>>) \o <<y>> = p \o (<<x>> \o <<y>>)
  BY <1>7, <1>8, ConcatAssociative
<1>10. Pre(pos + k + 1) = p \o <<x, y>>
  BY <1>3, <1>4, <1>8, <1>9 DEF p
<1>11. QED
  BY <1>5, <1>6, <1>8, <1>10 DEF p, n, B

\* Four are a u32.
LEMMA Pre32 ==
  ASSUME TypeOK, NEW k \in Nat \ {0}, pos + k + 3 <= Len(stream)
  PROVE  /\ Pre(pos + k + 3) = Pre(pos + k - 1) \o Bytes32(Read32(k))
         /\ Pre(pos + k - 1) \in Seq(Byte) /\ Bytes32(Read32(k)) \in Seq(Byte)
<1>1. pos \in Nat /\ Len(stream) \in Nat
  BY LenProperties DEF TypeOK
<1> DEFINE j == k + 2
           x == Bytes16(Read16(k))
           y == Bytes16(Read16(j))
           p == Pre(pos + k - 1)
           B == Byte
<1>2. j \in Nat \ {0} /\ pos + j + 1 <= Len(stream) /\ pos + j + 1 = pos + k + 3
      /\ pos + j - 1 = pos + k + 1 /\ pos + k + 1 <= Len(stream)
  BY <1>1
<1> HIDE DEF j
<1>3. Pre(pos + k + 1) = p \o x /\ p \in Seq(B) /\ x \in Seq(B)
  BY <1>2, Pre16
<1>4. Pre(pos + j + 1) = Pre(pos + j - 1) \o y /\ y \in Seq(B)
  BY <1>2, Pre16
<1>5. Bytes32(Read32(k)) = x \o y
  BY Reading32 DEF j
<1> HIDE DEF x, y, p, B
<1>6. Pre(pos + k + 3) = (p \o x) \o y
  BY <1>2, <1>3, <1>4
<1>7. (p \o x) \o y = p \o (x \o y)
  <2>1. p \in Seq(B) /\ x \in Seq(B) /\ y \in Seq(B)
    BY <1>3, <1>4
  <2>2. QED
    BY <2>1, ConcatAssociative, SMTT(40)
<1>8. x \o y \in Seq(B)
  <2>1. x \in Seq(B) /\ y \in Seq(B)
    BY <1>3, <1>4
  <2>2. QED
    BY <2>1, ConcatProperties
<1>9. QED
  BY <1>3, <1>5, <1>6, <1>7, <1>8 DEF p, B

\* A string and its nul.
LEMMA PreString ==
  ASSUME TypeOK, NulsInReach # {}
  PROVE  Pre(pos + Len(NextString) + 1) = Pre(pos) \o Append(NextString, 0)
<1> DEFINE x == NextString
           l == Len(NextString)
           t == Append(x, 0)
           m == pos + l + 1
           B == Byte
           u == SubSeq(stream, pos + 1, m)
<1>1. /\ x \in Seq(B) /\ m \in 1 .. Len(stream) /\ stream[m] = 0
      /\ \A i \in 1 .. l : x[i] = stream[pos + i]
  BY ReadingString
<1>2. stream \in Seq(B) /\ Len(stream) \in Nat /\ pos \in Nat /\ l \in Nat /\ 0 \in B
  BY <1>1, LenProperties, Widths DEF TypeOK
<1> HIDE DEF x, B
<1>3. t \in Seq(B) /\ Len(t) = l + 1 /\ t[l + 1] = 0 /\ \A i \in 1 .. l : t[i] = x[i]
  BY <1>1, <1>2, AppendProperties DEF x
<1> HIDE DEF l
<1>4. u \in Seq(B) /\ Len(u) = l + 1 /\ \A i \in 1 .. l + 1 : u[i] = stream[pos + i]
  <2>1. \A i \in pos + 1 .. m : stream[i] \in B
    BY <1>1, <1>2
  <2>2. pos + 1 \in Int /\ m \in Int /\ m - (pos + 1) + 1 = l + 1 /\ pos + 1 <= m
    BY <1>2
  <2>3. u \in Seq(B)
    BY <2>1, <2>2, SubSeqProperties
  <2>4. Len(u) = l + 1
    BY <2>1, <2>2, SubSeqProperties
  <2>5. \A i \in 1 .. l + 1 : u[i] = stream[(pos + 1) + i - 1]
    BY <2>1, <2>2, SubSeqProperties
  <2>6. \A i \in 1 .. l + 1 : (pos + 1) + i - 1 = pos + i
    BY <1>2
  <2>7. QED
    BY <2>3, <2>4, <2>5, <2>6
<1> HIDE DEF t, u
<1>5. \A i \in 1 .. l + 1 : t[i] = u[i]
  <2> SUFFICES ASSUME NEW i \in 1 .. l + 1 PROVE t[i] = u[i]
    OBVIOUS
  <2>1. i = l + 1 \/ i \in 1 .. l
    BY <1>2
  <2>2. pos + (l + 1) = m
    BY <1>2
  <2>3. QED
    BY <1>1, <1>3, <1>4, <2>1, <2>2
<1>6. t = u
  BY <1>3, <1>4, <1>5, SeqEqual
<1>7. SubSeq(stream, 1, pos) \o u = SubSeq(stream, 1, m)
  <2>1. 1 \in 1 .. Len(stream) + 1 /\ pos \in 1 - 1 .. Len(stream) /\ m \in pos .. Len(stream)
    BY <1>1, <1>2
  <2>2. QED
    BY <1>2, <2>1, ConcatAdjacentSubSeq DEF u
<1>8. QED
  BY <1>6, <1>7 DEF Pre, t, x, l

\* A byte string, and two of them joined, with nothing else known of them.
Raw(s) == s \in Seq(Byte)
Join(s, t) == s \o t

\* Byte strings may be grouped as one likes.
LEMMA Regroup ==
  ASSUME NEW s, NEW t, NEW u, Raw(s), Raw(t), Raw(u)
  PROVE  Join(Join(s, t), u) = Join(s, Join(t, u))
<1> DEFINE B == Byte
<1>1. s \in Seq(B) /\ t \in Seq(B) /\ u \in Seq(B)
  BY DEF Raw
<1> HIDE DEF B
<1>2. (s \o t) \o u = s \o (t \o u)
  BY <1>1, ConcatAssociative
<1>3. QED
  BY <1>2 DEF Join

\* Two of them are one.
LEMMA Joined ==
  ASSUME NEW s, NEW t, Raw(s), Raw(t)
  PROVE  /\ Raw(Join(s, t)) /\ Raw(s \o t)
         /\ s \o <<>> = s /\ <<>> \o s = s
<1> DEFINE B == Byte
<1>1. s \in Seq(B) /\ t \in Seq(B)
  BY DEF Raw
<1> HIDE DEF B
<1>2. s \o t \in Seq(B)
  BY <1>1, ConcatProperties
<1>3. s \o <<>> = s /\ <<>> \o s = s
  BY <1>1, ConcatEmptySeq
<1>4. Raw(s \o t)
  BY <1>2 DEF B, Raw
<1>5. QED
  BY <1>3, <1>4 DEF Join

\* What two of them end in alike may be left off.
LEMMA Cancelled ==
  ASSUME NEW s, NEW t, NEW u, Raw(s), Raw(t), Raw(u), Join(s, u) = Join(t, u)
  PROVE  s = t
<1> DEFINE B == Byte
           m == Len(s)
           n == Len(t)
           k == Len(u)
           v == s \o u
           w == t \o u
<1>1. s \in Seq(B) /\ t \in Seq(B) /\ u \in Seq(B)
  BY DEF Raw
<1>2. v = w
  BY DEF Join
<1> HIDE DEF B
<1>3. /\ Len(v) = m + k /\ \A i \in 1 .. m + k : v[i] = IF i <= m THEN s[i] ELSE u[i - m]
      /\ Len(w) = n + k /\ \A i \in 1 .. n + k : w[i] = IF i <= n THEN t[i] ELSE u[i - n]
  BY <1>1, ConcatProperties
<1>4. m \in Nat /\ n \in Nat /\ k \in Nat
  BY <1>1, LenProperties
<1> HIDE DEF v, w, m, n, k
<1>5. m = n
  BY <1>2, <1>3, <1>4
<1>6. \A i \in 1 .. m : s[i] = t[i]
  <2> SUFFICES ASSUME NEW i \in 1 .. m PROVE s[i] = t[i]
    OBVIOUS
  <2>1. i \in 1 .. m + k /\ i \in 1 .. n + k /\ i <= m /\ i <= n
    BY <1>4, <1>5
  <2>2. v[i] = s[i] /\ w[i] = t[i]
    BY <1>3, <2>1
  <2>3. QED
    BY <1>2, <2>2
<1>7. QED
  BY <1>1, <1>5, <1>6, SeqEqual DEF m, n

\* What has been read of the stream is what would be written of the tables.
Mirrored ==
  /\ pc = "strings" => Pre(pos) = ToNames(raw)
  /\ pc \in {"files", "counts"} => Pre(pos) = ToFiles(raw)
  /\ pc = "ids" => Pre(pos) \o Bytes16(Terminator) = ToFiles(raw)
  /\ pc = "chunks" => Pre(pos) = ToChunks(raw)
  /\ pc \in Tabled => Pre(pos) = ToChunks(raw) \o WriteRawStrings(raw.volume_files)
  /\ pc = "parsed" => Pre(pos) = WriteMetadata(raw)

\* Nothing is said of a header that is refused.
LEMMA RefuseMirrored ==
  ASSUME Refuse
  PROVE  Mirrored'
BY DEF Refuse, Mirrored, Tabled

\* Nothing is read, and nothing would be written.
LEMMA PreNothing == Pre(0) = <<>>
BY SubSeqEmpty DEF Pre

\* The settings, field by field.
LEMMA ReadArchiveSettingsMirrored ==
  ASSUME IInv, IInv', ReadArchiveSettings
  PROVE  Mirrored'
<1> DEFINE ok == /\ Has(9) /\ Read32(1) = Magic /\ Read8(9) = 0
                 /\ Read16(5) \in 1 .. limits.entries /\ Read16(7) # 0
<1>1. pc = "settings" /\ stream' = stream /\ TypeOK /\ Shaped /\ raw' \in RawArchive
  BY DEF ReadArchiveSettings, IInv, TypeOK
<1>2. CASE ~ok
  BY <1>2, RefuseMirrored DEF ReadArchiveSettings
<1>3. CASE ok
  <2> DEFINE u == Read16(5)
             d == Read16(7)
             m == Bytes32(Magic)
             v == Bytes16(u)
             w == Bytes16(d)
  <2>1. raw = Blank /\ pos = 0 /\ Len(stream) \in Nat /\ 9 <= Len(stream)
    BY <1>1, <1>3, LenProperties DEF Shaped, Has, TypeOK
  <2>2. /\ raw' = [raw EXCEPT !.num_user_files = u, !.num_directories = d]
        /\ pos' = pos + 9 /\ pc' = "strings"
    BY <1>3 DEF ReadArchiveSettings
  <2>3. Pre(4) = Pre(0) \o m /\ m \in Seq(Byte)
    <3>1. 1 \in Nat \ {0} /\ pos + 1 + 3 = 4 /\ pos + 1 - 1 = 0 /\ pos + 1 + 3 <= Len(stream)
      BY <2>1
    <3>2. /\ Pre(pos + 1 + 3) = Pre(pos + 1 - 1) \o Bytes32(Read32(1))
          /\ Bytes32(Read32(1)) \in Seq(Byte)
      BY <1>1, <3>1, Pre32
    <3>3. Read32(1) = Magic
      BY <1>3
    <3>4. QED
      BY <3>1, <3>2, <3>3
  <2>4. Pre(6) = Pre(4) \o v /\ v \in Seq(Byte)
    <3>1. 5 \in Nat \ {0} /\ pos + 5 + 1 = 6 /\ pos + 5 - 1 = 4 /\ pos + 5 + 1 <= Len(stream)
      BY <2>1
    <3>2. Pre(pos + 5 + 1) = Pre(pos + 5 - 1) \o Bytes16(Read16(5)) /\ Bytes16(Read16(5)) \in Seq(Byte)
      BY <1>1, <3>1, Pre16
    <3>3. QED
      BY <3>1, <3>2
  <2>5. Pre(8) = Pre(6) \o w /\ w \in Seq(Byte)
    <3>1. 7 \in Nat \ {0} /\ pos + 7 + 1 = 8 /\ pos + 7 - 1 = 6 /\ pos + 7 + 1 <= Len(stream)
      BY <2>1
    <3>2. Pre(pos + 7 + 1) = Pre(pos + 7 - 1) \o Bytes16(Read16(7)) /\ Bytes16(Read16(7)) \in Seq(Byte)
      BY <1>1, <3>1, Pre16
    <3>3. QED
      BY <3>1, <3>2
  <2>6. Pre(9) = Pre(8) \o <<0>>
    <3>1. 8 \in Nat /\ 8 + 1 = 9 /\ 8 + 1 <= Len(stream)
      BY <2>1
    <3>2. Pre(8 + 1) = Pre(8) \o <<stream[8 + 1]>>
      BY <1>1, <3>1, Pre8
    <3>3. stream[9] = 0
      <4>1. stream[pos + 9] = 0 /\ pos + 9 = 9
        BY <1>3, <2>1 DEF Read8
      <4>2. QED
        BY <4>1
    <3>4. QED
      BY <3>1, <3>2, <3>3
  <2> HIDE DEF ok, u, d
  <2>7. /\ (raw').header = Magic /\ (raw').version = 0 /\ (raw').num_user_files = u
        /\ (raw').num_directories = d /\ (raw').strings = <<>>
    BY <2>1, <2>2 DEF Blank
  <2>8. WriteArchiveSettings(raw') = ((m \o v) \o w) \o <<0>>
    BY <2>7 DEF WriteArchiveSettings
  <2> HIDE DEF m, v, w
  <2>9. Pre(9) = ((m \o v) \o w) \o <<0>>
    <3>1. Pre(4) = m
      BY <2>3, PreNothing, Joined DEF Raw
    <3>2. QED
      BY <2>4, <2>5, <2>6, <3>1
  <2>10. WriteRawStrings((raw').strings) = <<>>
    <3>1. <<>> \in Seq(Byte) /\ <<>> \in Seq(Seq(Byte))
      OBVIOUS
    <3>2. QED
      BY <2>7, <3>1, StringsWritten
  <2>11. WriteArchiveSettings(raw') \in Seq(Byte)
    BY <1>1, PartsTyped
  <2>12. ToNames(raw') = WriteArchiveSettings(raw')
    BY <2>10, <2>11, Joined DEF ToNames, Raw
  <2>13. SubSeq(stream', 1, pos') = ToNames(raw')
    <3>1. pos' = 9
      BY <2>1, <2>2
    <3>2. QED
      BY <1>1, <2>8, <2>9, <2>12, <3>1 DEF Pre
  <2>14. QED
    BY <2>2, <2>13 DEF Mirrored, Tabled, Pre
<1>4. QED
  BY <1>2, <1>3

\* One name more, and its nul.
LEMMA ReadStringsMirrored ==
  ASSUME IInv, Mirrored, ReadStrings
  PROVE  Mirrored'
<1> DEFINE all == raw.num_user_files + raw.num_directories - 1
           x == NextString
           s == WriteArchiveSettings(raw)
           n == WriteRawStrings(raw.strings)
<1>1. pc = "strings" /\ stream' = stream /\ TypeOK /\ Shaped /\ raw \in RawArchive
  BY DEF ReadStrings, IInv, TypeOK
<1>2. /\ s \in Seq(Byte) /\ n \in Seq(Byte) /\ ToNames(raw) \in Seq(Byte)
      /\ raw.strings \in Seq(Seq(Byte))
  BY <1>1, PartsTyped, RawTyped
<1>3. Pre(pos) = s \o n
  BY <1>1 DEF Mirrored, ToNames
<1>4. CASE ~(Len(raw.strings) < all)
  <2>1. pc' = "files" /\ pos' = pos /\ raw' = raw
    BY <1>4 DEF ReadStrings, Goto
  <2>2. WriteRawFileChunkMap(raw.files) = <<>>
    <3>1. raw.files = <<>> /\ <<>> \in Seq(FileRecord)
          /\ [directory_id |-> 0, chunk_ids |-> <<>>] \in FileRecord
      BY <1>1, Widths DEF Shaped, FileRecord
    <3>2. QED
      BY <3>1, FilesWritten
  <2>3. ToFiles(raw) = ToNames(raw)
    BY <1>2, <2>2, Joined DEF ToFiles, Raw
  <2>4. SubSeq(stream', 1, pos') = ToFiles(raw')
    BY <1>1, <1>3, <2>1, <2>3 DEF Pre, ToNames
  <2>5. QED
    BY <2>1, <2>4 DEF Mirrored, Tabled, Pre
<1>5. CASE Len(raw.strings) < all /\ (NulsInReach = {} \/ total + Len(x) + 1 > limits.metadata)
  BY <1>5, RefuseMirrored DEF ReadStrings, ReadString
<1>6. CASE Len(raw.strings) < all /\ NulsInReach # {} /\ ~(total + Len(x) + 1 > limits.metadata)
  <2>1. /\ pos' = pos + Len(x) + 1 /\ pc' = pc
        /\ raw' = [raw EXCEPT !.strings = Append(@, x)]
    BY <1>6 DEF ReadStrings, ReadString
  <2>2. Pre(pos + Len(x) + 1) = Pre(pos) \o Append(x, 0)
    BY <1>1, <1>6, PreString
  <2>3. x \in Seq(Byte)
    BY <1>1, <1>6, ReadingString
  <2>4. Append(x, 0) \in Seq(Byte)
    <3> DEFINE B == Byte
    <3>1. x \in Seq(B) /\ 0 \in B
      BY <2>3, Widths
    <3> HIDE DEF x, B
    <3>2. Append(x, 0) \in Seq(B)
      BY <3>1, AppendProperties
    <3>3. QED
      BY <3>2 DEF B
  <2> HIDE DEF x
  <2> DEFINE t == Append(x, 0)
             q == Append(raw.strings, x)
  <2>5. WriteRawStrings(q) = n \o t
    BY <1>2, <2>3, StringsWritten
  <2>6. raw' = [raw EXCEPT !.strings = q]
    BY <2>1
  <2> HIDE DEF t, q
  <2>7. /\ (raw').strings = q /\ (raw').header = raw.header /\ (raw').version = raw.version
        /\ (raw').num_user_files = raw.num_user_files
        /\ (raw').num_directories = raw.num_directories
    BY <1>1, <2>6 DEF RawArchive
  <2>8. WriteArchiveSettings(raw') = s
    BY <2>7 DEF WriteArchiveSettings
  <2> HIDE DEF s, n
  <2>9. (s \o n) \o t = s \o (n \o t)
    <3>1. Raw(t) /\ Raw(s) /\ Raw(n)
      BY <1>2, <2>4 DEF t, Raw
    <3>2. Join(Join(s, n), t) = Join(s, Join(n, t))
      BY <3>1, Regroup
    <3>3. QED
      BY <3>2 DEF Join
  <2>10. SubSeq(stream', 1, pos') = ToNames(raw')
    BY <1>1, <1>3, <2>1, <2>2, <2>5, <2>7, <2>8, <2>9 DEF Pre, ToNames, t
  <2>11. QED
    BY <1>1, <2>1, <2>10 DEF Mirrored, Tabled, Pre
<1>7. QED
  BY <1>4, <1>5, <1>6

\* One file more: its directory, and the terminator to come.
LEMMA ReadDirectoryIdMirrored ==
  ASSUME IInv, Mirrored, ReadDirectoryId
  PROVE  Mirrored'
<1> DEFINE id == Read16(1)
           x == [directory_id |-> id, chunk_ids |-> <<>>]
           h == ToNames(raw)
           f == WriteRawFileChunkMap(raw.files)
           d == Bytes16(id)
           t == Bytes16(Terminator)
<1>1. pc = "files" /\ stream' = stream /\ TypeOK /\ raw \in RawArchive
      /\ raw.files \in Seq(FileRecord)
  BY RawTyped DEF ReadDirectoryId, IInv, TypeOK
<1>2. h \in Seq(Byte) /\ f \in Seq(Byte) /\ t \in Seq(Byte)
  BY <1>1, PartsTyped, Bytes16Typed, Widths
<1>3. Pre(pos) = h \o f
  BY <1>1 DEF Mirrored, ToFiles
<1>4. CASE Len(raw.files) = raw.num_user_files
  <2>1. pc' = "counts" /\ pos' = pos /\ raw' = raw
    BY <1>4 DEF ReadDirectoryId, Goto
  <2>2. SubSeq(stream', 1, pos') = ToFiles(raw')
    BY <1>1, <1>3, <2>1 DEF Pre, ToFiles
  <2>3. QED
    BY <2>1, <2>2 DEF Mirrored, Tabled, Pre
<1>5. CASE Len(raw.files) # raw.num_user_files /\ ~Has(2)
  BY <1>5, RefuseMirrored DEF ReadDirectoryId
<1>6. CASE Len(raw.files) # raw.num_user_files /\ Has(2)
  <2>1. /\ pos' = pos + 2 /\ pc' = "ids"
        /\ raw' = [raw EXCEPT !.files = Append(@, x)]
    BY <1>6 DEF ReadDirectoryId
  <2>2. pos \in Nat /\ Len(stream) \in Nat /\ pos + 2 <= Len(stream)
    BY <1>1, <1>6, LenProperties DEF TypeOK, Has
  <2>3. Pre(pos + 2) = Pre(pos) \o d /\ d \in Seq(Byte) /\ id \in U16
    <3>1. 1 \in Nat \ {0} /\ pos + 1 + 1 = pos + 2 /\ pos + 1 - 1 = pos /\ pos + 1 + 1 <= Len(stream)
      BY <2>2
    <3>2. Pre(pos + 1 + 1) = Pre(pos + 1 - 1) \o Bytes16(Read16(1)) /\ Bytes16(Read16(1)) \in Seq(Byte)
      BY <1>1, <3>1, Pre16
    <3>3. Read16(1) \in U16
      BY <1>1, <3>1, Reading16
    <3>4. QED
      BY <3>1, <3>2, <3>3
  <2> HIDE DEF id
  <2>4. x \in FileRecord /\ x.directory_id = id /\ x.chunk_ids = <<>>
    <3>1. <<>> \in Seq(U16)
      OBVIOUS
    <3>2. QED
      BY <2>3, <3>1 DEF FileRecord
  <2>5. WriteFile(x) = d \o t
    <3>1. <<>> \in Seq(U16) /\ 0 \in U16
      BY Widths
    <3>2. WriteIds(<<>>) = <<>>
      BY <3>1, IdsWritten
    <3>3. d \o <<>> = d
      BY <2>3, Joined DEF Raw
    <3>4. QED
      BY <2>4, <3>2, <3>3 DEF WriteFile
  <2> HIDE DEF x
  <2> DEFINE q == Append(raw.files, x)
  <2>6. WriteRawFileChunkMap(q) = f \o (d \o t)
    BY <1>1, <2>4, <2>5, FilesWritten
  <2> HIDE DEF q
  <2>7. raw' = [raw EXCEPT !.files = q]
    BY <2>1 DEF q
  <2>8. /\ (raw').files = q /\ (raw').strings = raw.strings /\ (raw').header = raw.header
        /\ (raw').version = raw.version /\ (raw').num_user_files = raw.num_user_files
        /\ (raw').num_directories = raw.num_directories
    BY <1>1, <2>7 DEF RawArchive
  <2>9. ToNames(raw') = h
    BY <2>8 DEF ToNames, WriteArchiveSettings
  <2> HIDE DEF h, f, d, t
  <2>10. ((h \o f) \o d) \o t = h \o (f \o (d \o t))
    <3>1. Raw(h) /\ Raw(f) /\ Raw(d) /\ Raw(t)
      BY <1>2, <2>3 DEF Raw
    <3>2. Raw(Join(h, f)) /\ Raw(Join(d, t))
      BY <3>1, Joined
    <3>3. Join(Join(Join(h, f), d), t) = Join(h, Join(f, Join(d, t)))
      BY <3>1, <3>2, Regroup
    <3>4. QED
      BY <3>3 DEF Join
  <2>11. Pre(pos + 2) \o t = h \o (f \o (d \o t))
    BY <1>3, <2>3, <2>10
  <2>12. SubSeq(stream', 1, pos') \o Bytes16(Terminator) = ToFiles(raw')
    BY <1>1, <2>1, <2>6, <2>8, <2>9, <2>11 DEF Pre, ToFiles, t
  <2>13. QED
    BY <2>1, <2>12 DEF Mirrored, Tabled, Pre
<1>7. QED
  BY <1>4, <1>5, <1>6

\* An id more of the last file stands before its terminator.
LEMMA ListGrows ==
  ASSUME NEW s \in Seq(FileRecord), s # <<>>, NEW id \in U16,
         NEW p \in Seq(Byte), NEW h \in Seq(Byte),
         p \o Bytes16(Terminator) = h \o WriteRawFileChunkMap(s)
  PROVE  (p \o Bytes16(id)) \o Bytes16(Terminator)
           = h \o WriteRawFileChunkMap(Grown(s, Len(s), id))
<1> DEFINE T == FileRecord
           k == Len(s)
           front == SubSeq(s, 1, k - 1)
           x == s[k]
           y == [x EXCEPT !.chunk_ids = Append(@, id)]
           g == Grown(s, k, id)
<1>1. s \in Seq(T) /\ k \in Nat \ {0} /\ k \in DOMAIN s
  <2> HIDE DEF T
  <2>1. s \in Seq(T)
    BY DEF T
  <2>2. QED
    BY <2>1, LenProperties, EmptySeq
<1>2. x \in T
  <2> HIDE DEF T
  <2>1. QED
    BY <1>1, LenProperties
<1>3. front \in Seq(T) /\ Len(front) = k - 1 /\ \A i \in 1 .. k - 1 : front[i] = s[i]
  <2> HIDE DEF T
  <2>1. \A i \in 1 .. k - 1 : s[i] \in T
    BY <1>1, ElementOfSeq
  <2>2. k - 1 \in Int /\ k - 1 \in Nat
    BY <1>1
  <2> DEFINE m == k - 1
  <2> HIDE DEF m
  <2>3. SubSeq(s, 1, m) \in Seq(T)
    BY <2>1, <2>2, SubSeqProperties DEF m
  <2>4. Len(SubSeq(s, 1, m)) = IF 1 <= m THEN m - 1 + 1 ELSE 0
    BY <2>1, <2>2, SubSeqProperties DEF m
  <2>5. \A i \in 1 .. m - 1 + 1 : SubSeq(s, 1, m)[i] = s[1 + i - 1]
    BY <2>1, <2>2, SubSeqProperties DEF m
  <2>6. Len(SubSeq(s, 1, m)) = m
    <3>1. m \in Nat
      BY <2>2 DEF m
    <3>2. QED
      BY <2>4, <3>1
  <2>7. \A i \in 1 .. m : SubSeq(s, 1, m)[i] = s[i]
    <3> SUFFICES ASSUME NEW i \in 1 .. m PROVE SubSeq(s, 1, m)[i] = s[i]
      OBVIOUS
    <3>1. i \in 1 .. m - 1 + 1 /\ 1 + i - 1 = i
      BY <2>2 DEF m
    <3>2. QED
      BY <2>5, <3>1
  <2>8. QED
    BY <2>3, <2>6, <2>7 DEF m
<1> HIDE DEF front
<1>4. g \in Seq(T) /\ Len(g) = k /\ y \in T /\ g[k] = y
      /\ y.directory_id = x.directory_id /\ y.chunk_ids = Append(x.chunk_ids, id)
      /\ \A i \in DOMAIN s \ {k} : g[i] = s[i]
  <2>1. g \in Seq(T) /\ Len(g) = k /\ \A i \in DOMAIN s \ {k} : g[i] = s[i]
    BY <1>1, FileGrows
  <2>2. g[k] = y
    <3> HIDE DEF T
    <3>1. s \in [1 .. k -> T]
      BY <1>1, LenProperties
    <3> HIDE DEF k
    <3>2. QED
      BY <1>1, <3>1 DEF Grown
  <2>3. y \in T
    <3> HIDE DEF y, T
    <3>1. g[k] \in T
      BY <1>1, <2>1, ElementOfSeq
    <3>2. QED
      BY <2>2, <3>1
  <2>4. y.directory_id = x.directory_id /\ y.chunk_ids = Append(x.chunk_ids, id)
    <3> HIDE DEF x
    <3>1. QED
      BY <1>2 DEF FileRecord
  <2>5. QED
    BY <2>1, <2>2, <2>3, <2>4
<1>5. x.chunk_ids \in Seq(U16) /\ x.directory_id \in U16
  BY <1>2 DEF FileRecord
<1> HIDE DEF T, x, y, g, k
<1>6. s = Append(front, x)
  <2> DEFINE u == Append(front, x)
  <2>1. u \in Seq(T) /\ Len(u) = Len(front) + 1 /\ u[Len(front) + 1] = x
        /\ \A i \in 1 .. Len(front) : u[i] = front[i]
    BY <1>2, <1>3, AppendProperties
  <2> HIDE DEF u
  <2>2. Len(front) + 1 = k /\ Len(s) = k
    BY <1>1, <1>3 DEF k
  <2>3. Len(u) = k /\ u[k] = s[k] /\ \A i \in 1 .. k - 1 : u[i] = s[i]
    BY <1>3, <2>1, <2>2 DEF x
  <2>4. \A i \in 1 .. k : u[i] = s[i]
    <3> SUFFICES ASSUME NEW i \in 1 .. k PROVE u[i] = s[i]
      OBVIOUS
    <3>1. i = k \/ i \in 1 .. k - 1
      BY <1>1
    <3>2. QED
      BY <2>3, <3>1
  <2>5. u = s
    BY <1>1, <2>1, <2>2, <2>3, <2>4, SeqEqual
  <2>6. QED
    BY <2>5 DEF u
<1>7. g = Append(front, y)
  <2> DEFINE u == Append(front, y)
  <2>1. u \in Seq(T) /\ Len(u) = Len(front) + 1 /\ u[Len(front) + 1] = y
        /\ \A i \in 1 .. Len(front) : u[i] = front[i]
    BY <1>3, <1>4, AppendProperties
  <2> HIDE DEF u
  <2>2. Len(front) + 1 = k
    BY <1>1, <1>3
  <2>3. Len(u) = k /\ u[k] = g[k]
    BY <1>4, <2>1, <2>2
  <2>4. ASSUME NEW i \in 1 .. k PROVE u[i] = g[i]
    <3>1. CASE i = k
      BY <2>3, <3>1
    <3>2. CASE i # k
      <4>1. i \in 1 .. k - 1 /\ i \in 1 .. Len(front)
        BY <1>1, <1>3, <3>2
      <4>2. DOMAIN s = 1 .. k
        BY <1>1, LenProperties DEF k
      <4>3. g[i] = s[i]
        BY <1>4, <3>2, <4>2
      <4>4. QED
        BY <1>3, <2>1, <4>1, <4>3
    <3>3. QED
      BY <3>1, <3>2
  <2>5. u = g
    BY <1>4, <2>1, <2>3, <2>4, SeqEqual
  <2>6. QED
    BY <2>5 DEF u
<1> DEFINE f == WriteRawFileChunkMap(front)
           d == Bytes16(x.directory_id)
           c == WriteIds(x.chunk_ids)
           t == Bytes16(Terminator)
           e == Bytes16(id)
<1>8. /\ f \in Seq(Byte) /\ d \in Seq(Byte) /\ c \in Seq(Byte) /\ t \in Seq(Byte) /\ e \in Seq(Byte)
  <2>1. f \in Seq(Byte)
    BY <1>2, <1>3, FilesWritten DEF T
  <2>2. c \in Seq(Byte)
    BY <1>5, IdsWritten
  <2>3. d \in Seq(Byte) /\ t \in Seq(Byte) /\ e \in Seq(Byte)
    BY <1>5, Bytes16Typed, Widths
  <2>4. QED
    BY <2>1, <2>2, <2>3
<1>9. WriteRawFileChunkMap(s) = f \o ((d \o c) \o t)
  BY <1>2, <1>3, <1>6, FilesWritten DEF T, WriteFile
<1>10. WriteRawFileChunkMap(g) = f \o ((d \o (c \o e)) \o t)
  <2>1. WriteIds(y.chunk_ids) = c \o e
    BY <1>4, <1>5, IdsWritten
  <2>2. WriteFile(y) = (d \o (c \o e)) \o t
    BY <1>4, <2>1 DEF WriteFile
  <2>3. WriteRawFileChunkMap(g) = f \o WriteFile(y)
    BY <1>3, <1>4, <1>7, FilesWritten DEF T
  <2>4. QED
    BY <2>2, <2>3
<1>11. p \o t = h \o WriteRawFileChunkMap(s)
  OBVIOUS
<1> HIDE DEF f, d, c, t, e
<1> DEFINE a == Join(d, c)
           w == Join(h, Join(f, a))
<1>12. /\ Raw(p) /\ Raw(h) /\ Raw(f) /\ Raw(d) /\ Raw(c) /\ Raw(t) /\ Raw(e)
       /\ Raw(a) /\ Raw(Join(f, a)) /\ Raw(w)
  <2>1. Raw(p) /\ Raw(h) /\ Raw(f) /\ Raw(d) /\ Raw(c) /\ Raw(t) /\ Raw(e)
    BY <1>8 DEF Raw
  <2>2. Raw(a)
    BY <2>1, Joined
  <2>3. Raw(Join(f, a))
    BY <2>1, <2>2, Joined
  <2>4. Raw(w)
    BY <2>1, <2>3, Joined
  <2>5. QED
    BY <2>1, <2>2, <2>3, <2>4
<1>13. p = w
  <2>1. Join(p, t) = Join(h, Join(f, Join(a, t)))
    BY <1>9, <1>11 DEF Join
  <2> HIDE DEF a
  <2>2. Join(w, t) = Join(h, Join(f, Join(a, t)))
    BY <1>12, Regroup
  <2> HIDE DEF w
  <2>3. QED
    BY <1>12, <2>1, <2>2, Cancelled
<1>14. Join(Join(w, e), t) = Join(h, Join(f, Join(Join(d, Join(c, e)), t)))
  <2>1. Join(d, Join(c, e)) = Join(a, e)
    BY <1>12, Regroup
  <2> HIDE DEF a
  <2>2. Raw(Join(a, e)) /\ Raw(Join(f, Join(a, e)))
    <3>1. Raw(Join(a, e))
      BY <1>12, Joined
    <3>2. QED
      BY <1>12, <3>1, Joined
  <2>3. Join(w, e) = Join(h, Join(f, Join(a, e)))
    BY <1>12, Regroup
  <2>4. Join(Join(h, Join(f, Join(a, e))), t) = Join(h, Join(f, Join(Join(a, e), t)))
    BY <1>12, <2>2, Regroup
  <2>5. QED
    BY <2>1, <2>3, <2>4
<1>15. Join(Join(p, e), t) = Join(h, WriteRawFileChunkMap(g))
  <2>1. WriteRawFileChunkMap(g) = Join(f, Join(Join(d, Join(c, e)), t))
    BY <1>10 DEF Join
  <2>2. QED
    BY <1>13, <1>14, <2>1
<1>16. QED
  BY <1>15 DEF Join, e, t, g, k

\* The next two bytes.
LEMMA PreNext16 ==
  ASSUME TypeOK, Has(2)
  PROVE  /\ Pre(pos + 2) = Pre(pos) \o Bytes16(Read16(1)) /\ Read16(1) \in U16
         /\ Pre(pos) \in Seq(Byte) /\ Bytes16(Read16(1)) \in Seq(Byte)
<1>1. pos \in Nat /\ Len(stream) \in Nat /\ pos + 2 <= Len(stream)
  BY LenProperties DEF TypeOK, Has
<1>2. 1 \in Nat \ {0} /\ pos + 1 + 1 = pos + 2 /\ pos + 1 - 1 = pos /\ pos + 1 + 1 <= Len(stream)
  BY <1>1
<1>3. /\ Pre(pos + 1 + 1) = Pre(pos + 1 - 1) \o Bytes16(Read16(1))
      /\ Pre(pos + 1 - 1) \in Seq(Byte) /\ Bytes16(Read16(1)) \in Seq(Byte)
  BY <1>2, Pre16
<1>4. Read16(1) \in U16
  BY <1>2, Reading16
<1>5. QED
  BY <1>2, <1>3, <1>4

\* One id more, or the terminator that was to come.
LEMMA ReadChunkIdMirrored ==
  ASSUME IInv, Mirrored, ReadChunkId
  PROVE  Mirrored'
<1> DEFINE k == Len(raw.files)
           id == Read16(1)
           many == \/ Len(raw.files[k].chunk_ids) >= limits.chunks
                   \/ references + 1 > limits.references
           h == ToNames(raw)
           t == Bytes16(Terminator)
<1>1. pc = "ids" /\ stream' = stream /\ TypeOK /\ raw \in RawArchive
      /\ raw.files \in Seq(FileRecord) /\ raw.files # <<>>
  BY RawTyped DEF ReadChunkId, IInv, TypeOK, Shaped
<1>2. Pre(pos) \o t = h \o WriteRawFileChunkMap(raw.files) /\ h \in Seq(Byte)
  BY <1>1, PartsTyped DEF Mirrored, ToFiles
<1>3. CASE ~Has(2) \/ (Has(2) /\ id # Terminator /\ many)
  BY <1>3, RefuseMirrored DEF ReadChunkId
<1>4. CASE Has(2) /\ id = Terminator
  <2>1. pos' = pos + 2 /\ pc' = "files" /\ raw' = raw
    BY <1>4 DEF ReadChunkId
  <2>2. Pre(pos + 2) = Pre(pos) \o t
    BY <1>1, <1>4, PreNext16
  <2>3. SubSeq(stream', 1, pos') = ToFiles(raw')
    BY <1>1, <1>2, <2>1, <2>2 DEF Pre, ToFiles
  <2>4. QED
    BY <2>1, <2>3 DEF Mirrored, Tabled, Pre
<1>5. CASE Has(2) /\ id # Terminator /\ ~many
  <2>1. /\ pos' = pos + 2 /\ pc' = "ids"
        /\ raw' = [raw EXCEPT !.files[k].chunk_ids = Append(@, id)]
    BY <1>1, <1>5 DEF ReadChunkId
  <2> DEFINE g == Grown(raw.files, k, id)
  <2>2. raw' = [raw EXCEPT !.files = g]
    BY <2>1 DEF Grown
  <2>3. /\ Pre(pos + 2) = Pre(pos) \o Bytes16(id) /\ id \in U16 /\ Pre(pos) \in Seq(Byte)
    BY <1>1, <1>5, PreNext16
  <2> HIDE DEF id
  <2>4. (Pre(pos) \o Bytes16(id)) \o t = h \o WriteRawFileChunkMap(g)
    BY <1>1, <1>2, <2>3, ListGrows
  <2> HIDE DEF g
  <2>5. /\ (raw').files = g /\ (raw').strings = raw.strings /\ (raw').header = raw.header
        /\ (raw').version = raw.version /\ (raw').num_user_files = raw.num_user_files
        /\ (raw').num_directories = raw.num_directories
    BY <1>1, <2>2 DEF RawArchive
  <2>6. ToNames(raw') = h
    BY <2>5 DEF ToNames, WriteArchiveSettings
  <2>7. SubSeq(stream', 1, pos') \o Bytes16(Terminator) = ToFiles(raw')
    BY <1>1, <2>1, <2>3, <2>4, <2>5, <2>6 DEF Pre, ToFiles
  <2>8. QED
    BY <2>1, <2>7 DEF Mirrored, Tabled, Pre
<1>6. QED
  BY <1>3, <1>4, <1>5

\* The counts of the chunk table.
LEMMA ReadChunkSettingsMirrored ==
  ASSUME IInv, IInv', Mirrored, ReadChunkSettings
  PROVE  Mirrored'
<1> DEFINE ok == Has(4) /\ Read16(1) # 0 /\ Read16(3) <= limits.chunks
           v == Read16(1)
           c == Read16(3)
           f == ToFiles(raw)
           w == WriteChunks(raw.chunks)
<1>1. pc = "counts" /\ stream' = stream /\ TypeOK /\ raw \in RawArchive /\ raw.chunks = <<>>
  BY DEF ReadChunkSettings, IInv, TypeOK, Shaped
<1>2. CASE ~ok
  BY <1>2, RefuseMirrored DEF ReadChunkSettings
<1>3. CASE ok
  <2>1. /\ pos' = pos + 4 /\ pc' = "chunks"
        /\ raw' = [raw EXCEPT !.num_archive_files = v, !.num_chunks = c]
    BY <1>3 DEF ReadChunkSettings
  <2>2. pos \in Nat /\ Len(stream) \in Nat /\ pos + 4 <= Len(stream)
    BY <1>1, <1>3, LenProperties DEF TypeOK, Has
  <2>3. Pre(pos + 2) = Pre(pos) \o Bytes16(v)
    <3>1. Has(2)
      BY <2>2 DEF Has
    <3>2. QED
      BY <1>1, <3>1, PreNext16
  <2>4. Pre(pos + 4) = Pre(pos + 2) \o Bytes16(c)
    <3>1. 3 \in Nat \ {0} /\ pos + 3 + 1 = pos + 4 /\ pos + 3 - 1 = pos + 2
          /\ pos + 3 + 1 <= Len(stream)
      BY <2>2
    <3>2. Pre(pos + 3 + 1) = Pre(pos + 3 - 1) \o Bytes16(Read16(3))
      BY <1>1, <3>1, Pre16
    <3>3. QED
      BY <3>1, <3>2
  <2> HIDE DEF v, c
  <2>5. /\ (raw').files = raw.files /\ (raw').strings = raw.strings
        /\ (raw').header = raw.header
        /\ (raw').version = raw.version /\ (raw').num_user_files = raw.num_user_files
        /\ (raw').num_directories = raw.num_directories /\ (raw').chunks = raw.chunks
        /\ (raw').num_archive_files = v /\ (raw').num_chunks = c
    BY <1>1, <2>1 DEF RawArchive
  <2>6. ToFiles(raw') = f
    BY <2>5 DEF ToFiles, ToNames, WriteArchiveSettings
  <2>7. w = <<>>
    <3>1. 0 \in U32
      <4>1. Magic \in U32
        BY MetadataAssumption
      <4>2. Words * Words \in Nat
        BY Widths
      <4>3. QED
        BY <4>1, <4>2, Widths
    <3>2. /\ <<>> \in Seq(ChunkRecord)
          /\ [offset |-> 0, compressed_length |-> 0, decompressed_length |-> 0, flags |-> 0,
              file |-> 0] \in ChunkRecord
      BY <3>1, Widths DEF ChunkRecord
    <3>3. QED
      BY <1>1, <3>2, ChunksWritten
  <2>8. (raw').num_archive_files \in U16 /\ (raw').num_chunks \in U16
    BY DEF IInv, TypeOK, RawArchive
  <2>9. Raw(f) /\ Raw(Bytes16(v)) /\ Raw(Bytes16(c))
    BY <1>1, <2>5, <2>8, PartsTyped, Bytes16Typed DEF Raw
  <2>10. ToChunks(raw') = (f \o Bytes16(v)) \o Bytes16(c)
    <3> DEFINE y == f \o Bytes16(v)
               z == y \o Bytes16(c)
    <3>1. ToChunks(raw') = z \o w
      BY <2>5, <2>6 DEF ToChunks
    <3>2. Raw(y)
      BY <2>9, Joined
    <3> HIDE DEF y
    <3>3. Raw(z)
      BY <2>9, <3>2, Joined
    <3> HIDE DEF z
    <3>4. z \o <<>> = z
      BY <3>3, Joined
    <3>5. QED
      BY <2>7, <3>1, <3>4 DEF z, y
  <2>11. Pre(pos) = f
    BY <1>1 DEF Mirrored
  <2>12. SubSeq(stream', 1, pos') = ToChunks(raw')
    BY <1>1, <2>1, <2>3, <2>4, <2>10, <2>11 DEF Pre
  <2>13. QED
    BY <2>1, <2>12 DEF Mirrored, Tabled, Pre
<1>4. QED
  BY <1>2, <1>3

\* The next sixteen bytes are a chunk record.
LEMMA PreChunk ==
  ASSUME TypeOK, Has(16)
  PROVE  Pre(pos + 16) = Pre(pos) \o WriteChunk(NextChunk) /\ Raw(WriteChunk(NextChunk)) /\ Raw(Pre(pos))
<1>1. pos \in Nat /\ Len(stream) \in Nat /\ pos + 16 <= Len(stream)
  BY LenProperties DEF TypeOK, Has
<1> DEFINE o == Bytes32(Read32(1))
           l == Bytes32(Read32(5))
           d == Bytes32(Read32(9))
           g == Bytes16(Read16(13))
           f == Bytes16(Read16(15))
           p == Pre(pos)
<1>2. Pre(pos + 4) = Join(p, o) /\ Raw(p) /\ Raw(o)
  <2>1. 1 \in Nat \ {0} /\ pos + 1 + 3 = pos + 4 /\ pos + 1 - 1 = pos /\ pos + 1 + 3 <= Len(stream)
    BY <1>1
  <2>2. /\ Pre(pos + 1 + 3) = Pre(pos + 1 - 1) \o Bytes32(Read32(1))
        /\ Pre(pos + 1 - 1) \in Seq(Byte) /\ Bytes32(Read32(1)) \in Seq(Byte)
    BY <2>1, Pre32
  <2>3. QED
    BY <2>1, <2>2 DEF Join, Raw
<1>3. Pre(pos + 8) = Join(Pre(pos + 4), l) /\ Raw(l)
  <2>1. 5 \in Nat \ {0} /\ pos + 5 + 3 = pos + 8 /\ pos + 5 - 1 = pos + 4 /\ pos + 5 + 3 <= Len(stream)
    BY <1>1
  <2>2. /\ Pre(pos + 5 + 3) = Pre(pos + 5 - 1) \o Bytes32(Read32(5))
        /\ Bytes32(Read32(5)) \in Seq(Byte)
    BY <2>1, Pre32
  <2>3. QED
    BY <2>1, <2>2 DEF Join, Raw
<1>4. Pre(pos + 12) = Join(Pre(pos + 8), d) /\ Raw(d)
  <2>1. 9 \in Nat \ {0} /\ pos + 9 + 3 = pos + 12 /\ pos + 9 - 1 = pos + 8 /\ pos + 9 + 3 <= Len(stream)
    BY <1>1
  <2>2. /\ Pre(pos + 9 + 3) = Pre(pos + 9 - 1) \o Bytes32(Read32(9))
        /\ Bytes32(Read32(9)) \in Seq(Byte)
    BY <2>1, Pre32
  <2>3. QED
    BY <2>1, <2>2 DEF Join, Raw
<1>5. Pre(pos + 14) = Join(Pre(pos + 12), g) /\ Raw(g)
  <2>1. 13 \in Nat \ {0} /\ pos + 13 + 1 = pos + 14 /\ pos + 13 - 1 = pos + 12 /\ pos + 13 + 1 <= Len(stream)
    BY <1>1
  <2>2. /\ Pre(pos + 13 + 1) = Pre(pos + 13 - 1) \o Bytes16(Read16(13))
        /\ Bytes16(Read16(13)) \in Seq(Byte)
    BY <2>1, Pre16
  <2>3. QED
    BY <2>1, <2>2 DEF Join, Raw
<1>6. Pre(pos + 16) = Join(Pre(pos + 14), f) /\ Raw(f)
  <2>1. 15 \in Nat \ {0} /\ pos + 15 + 1 = pos + 16 /\ pos + 15 - 1 = pos + 14 /\ pos + 15 + 1 <= Len(stream)
    BY <1>1
  <2>2. /\ Pre(pos + 15 + 1) = Pre(pos + 15 - 1) \o Bytes16(Read16(15))
        /\ Bytes16(Read16(15)) \in Seq(Byte)
    BY <2>1, Pre16
  <2>3. QED
    BY <2>1, <2>2 DEF Join, Raw
<1>7. WriteChunk(NextChunk) = Join(Join(Join(Join(o, l), d), g), f)
  BY DEF WriteChunk, NextChunk, Join
<1> HIDE DEF o, l, d, g, f, p
<1>8. Raw(Join(o, l)) /\ Raw(Join(Join(o, l), d)) /\ Raw(Join(Join(Join(o, l), d), g))
      /\ Raw(Join(Join(Join(Join(o, l), d), g), f))
  <2>1. Raw(Join(o, l))
    BY <1>2, <1>3, Joined
  <2>2. Raw(Join(Join(o, l), d))
    BY <1>4, <2>1, Joined
  <2>3. Raw(Join(Join(Join(o, l), d), g))
    BY <1>5, <2>2, Joined
  <2>4. Raw(Join(Join(Join(Join(o, l), d), g), f))
    BY <1>6, <2>3, Joined
  <2>5. QED
    BY <2>1, <2>2, <2>3, <2>4
<1>9. Pre(pos + 16) = Join(p, Join(Join(Join(Join(o, l), d), g), f))
  <2>1. Join(Join(p, o), l) = Join(p, Join(o, l))
    BY <1>2, <1>3, Regroup
  <2>2. Join(Join(p, Join(o, l)), d) = Join(p, Join(Join(o, l), d))
    BY <1>2, <1>4, <1>8, Regroup
  <2>3. Join(Join(p, Join(Join(o, l), d)), g) = Join(p, Join(Join(Join(o, l), d), g))
    BY <1>2, <1>5, <1>8, Regroup
  <2>4. Join(Join(p, Join(Join(Join(o, l), d), g)), f) = Join(p, Join(Join(Join(Join(o, l), d), g), f))
    BY <1>2, <1>6, <1>8, Regroup
  <2>5. QED
    BY <1>2, <1>3, <1>4, <1>5, <1>6, <2>1, <2>2, <2>3, <2>4
<1>10. Pre(pos + 16) = Join(p, WriteChunk(NextChunk))
  BY <1>7, <1>9
<1>11. QED
  BY <1>2, <1>7, <1>8, <1>10 DEF Join, p

\* One record more, or the table is whole and no volume is named yet.
LEMMA ReadChunksMirrored ==
  ASSUME IInv, IInv', Mirrored, ReadChunks
  PROVE  Mirrored'
<1> DEFINE all == Len(raw.chunks) = raw.num_chunks
           over == MetadataSizeBeforeVolumes(raw) > limits.metadata
           b == (ToFiles(raw) \o Bytes16(raw.num_archive_files)) \o Bytes16(raw.num_chunks)
           w == WriteChunks(raw.chunks)
           x == NextChunk
           y == WriteChunk(NextChunk)
<1>1. /\ pc = "chunks" /\ stream' = stream /\ TypeOK /\ raw \in RawArchive
      /\ raw.volume_files = <<>> /\ raw.chunks \in Seq(ChunkRecord)
  BY RawTyped DEF ReadChunks, IInv, TypeOK, Shaped
<1>2. Pre(pos) = b \o w /\ ToChunks(raw) = b \o w
  BY <1>1 DEF Mirrored, ToChunks
<1>3. Raw(b) /\ Raw(w) /\ Raw(ToChunks(raw))
  <2> DEFINE f == ToFiles(raw)
             v == Bytes16(raw.num_archive_files)
             k == Bytes16(raw.num_chunks)
  <2>1. Raw(f) /\ Raw(v) /\ Raw(k) /\ Raw(w) /\ Raw(ToChunks(raw))
    BY <1>1, PartsTyped DEF Raw
  <2> HIDE DEF f, v, k
  <2>2. Raw(f \o v)
    BY <2>1, Joined
  <2>3. Raw((f \o v) \o k)
    BY <2>1, <2>2, Joined
  <2>4. QED
    BY <2>1, <2>3 DEF f, v, k
<1>4. CASE (all /\ over) \/ (~all /\ ~Has(16))
  BY <1>4, RefuseMirrored DEF ReadChunks
<1>5. CASE all /\ ~over
  <2>1. pc' = "volumes" /\ pos' = pos /\ raw' = raw
    BY <1>1, <1>5 DEF ReadChunks, Goto
  <2>2. WriteRawStrings(raw.volume_files) = <<>>
    <3>1. <<>> \in Seq(Byte) /\ <<>> \in Seq(Seq(Byte))
      OBVIOUS
    <3>2. QED
      BY <1>1, <3>1, StringsWritten
  <2>3. ToChunks(raw) \o WriteRawStrings(raw.volume_files) = ToChunks(raw)
    BY <1>3, <2>2, Joined
  <2>4. SubSeq(stream', 1, pos') = ToChunks(raw') \o WriteRawStrings((raw').volume_files)
    BY <1>1, <1>2, <2>1, <2>3 DEF Pre
  <2>5. QED
    BY <2>1, <2>4 DEF Mirrored, Tabled, Pre
<1>6. CASE ~all /\ Has(16)
  <2> DEFINE q == Append(raw.chunks, x)
  <2>1. pos' = pos + 16 /\ pc' = "chunks" /\ raw' = [raw EXCEPT !.chunks = q]
    BY <1>1, <1>6 DEF ReadChunks, NextChunk
  <2>2. Pre(pos + 16) = Pre(pos) \o y /\ Raw(y)
    BY <1>1, <1>6, PreChunk
  <2>3. WriteChunks(q) = w \o y
    <3>1. x \in ChunkRecord
      BY <1>1, <1>6, ReadingChunk
    <3> HIDE DEF x
    <3>2. QED
      BY <1>1, <3>1, ChunksWritten DEF x
  <2> HIDE DEF q, x, y
  <2>4. /\ (raw').chunks = q /\ (raw').files = raw.files /\ (raw').strings = raw.strings
        /\ (raw').header = raw.header /\ (raw').version = raw.version
        /\ (raw').num_user_files = raw.num_user_files
        /\ (raw').num_directories = raw.num_directories
        /\ (raw').num_archive_files = raw.num_archive_files
        /\ (raw').num_chunks = raw.num_chunks
    BY <1>1, <2>1 DEF RawArchive
  <2>5. ToChunks(raw') = b \o WriteChunks(q)
    BY <2>4 DEF ToChunks, ToFiles, ToNames, WriteArchiveSettings
  <2> HIDE DEF b, w
  <2>6. (b \o w) \o y = b \o (w \o y)
    BY <1>3, <2>2, Regroup, SMTT(40) DEF Join
  <2>7. SubSeq(stream', 1, pos') = ToChunks(raw')
    BY <1>1, <1>2, <2>1, <2>2, <2>3, <2>5, <2>6 DEF Pre
  <2>8. QED
    BY <2>1, <2>7 DEF Mirrored, Tabled, Pre
<1>7. QED
  BY <1>4, <1>5, <1>6

\* The name of one volume more, and its nul.
LEMMA ReadRawFileListMirrored ==
  ASSUME IInv, Mirrored, ReadRawFileList
  PROVE  Mirrored'
<1> DEFINE all == raw.num_archive_files - 1
           x == NextString
           over == total + Len(x) + 1 > limits.metadata - MetadataSizeBeforeVolumes(raw)
           c == ToChunks(raw)
           n == WriteRawStrings(raw.volume_files)
<1>1. /\ pc = "volumes" /\ stream' = stream /\ TypeOK /\ raw \in RawArchive
      /\ raw.volume_files \in Seq(Seq(Byte))
  BY RawTyped DEF ReadRawFileList, IInv, TypeOK
<1>2. c \in Seq(Byte) /\ n \in Seq(Byte)
  BY <1>1, PartsTyped
<1>3. Pre(pos) = c \o n
  BY <1>1 DEF Mirrored, Tabled
<1>4. CASE ~(Len(raw.volume_files) < all)
  <2>1. pc' = "range" /\ pos' = pos /\ raw' = raw
    BY <1>4 DEF ReadRawFileList, Goto
  <2>2. SubSeq(stream', 1, pos') = ToChunks(raw') \o WriteRawStrings((raw').volume_files)
    BY <1>1, <1>3, <2>1 DEF Pre
  <2>3. QED
    BY <2>1, <2>2 DEF Mirrored, Tabled, Pre
<1>5. CASE Len(raw.volume_files) < all /\ (NulsInReach = {} \/ over)
  BY <1>5, RefuseMirrored DEF ReadRawFileList, ReadString
<1>6. CASE Len(raw.volume_files) < all /\ NulsInReach # {} /\ ~over
  <2>1. /\ pos' = pos + Len(x) + 1 /\ pc' = pc
        /\ raw' = [raw EXCEPT !.volume_files = Append(@, x)]
    BY <1>6 DEF ReadRawFileList, ReadString
  <2>2. Pre(pos + Len(x) + 1) = Pre(pos) \o Append(x, 0)
    BY <1>1, <1>6, PreString
  <2>3. x \in Seq(Byte)
    BY <1>1, <1>6, ReadingString
  <2>4. Append(x, 0) \in Seq(Byte)
    <3> DEFINE B == Byte
    <3>1. x \in Seq(B) /\ 0 \in B
      BY <2>3, Widths
    <3> HIDE DEF x, B
    <3>2. Append(x, 0) \in Seq(B)
      BY <3>1, AppendProperties
    <3>3. QED
      BY <3>2 DEF B
  <2> HIDE DEF x
  <2> DEFINE t == Append(x, 0)
             q == Append(raw.volume_files, x)
  <2>5. WriteRawStrings(q) = n \o t
    BY <1>1, <2>3, StringsWritten
  <2>6. raw' = [raw EXCEPT !.volume_files = q]
    BY <2>1
  <2> HIDE DEF t, q
  <2>7. /\ (raw').volume_files = q /\ (raw').chunks = raw.chunks /\ (raw').files = raw.files
        /\ (raw').strings = raw.strings
        /\ (raw').header = raw.header /\ (raw').version = raw.version
        /\ (raw').num_user_files = raw.num_user_files
        /\ (raw').num_directories = raw.num_directories
        /\ (raw').num_archive_files = raw.num_archive_files
        /\ (raw').num_chunks = raw.num_chunks
    BY <1>1, <2>6 DEF RawArchive
  <2>8. ToChunks(raw') = c
    BY <2>7 DEF ToChunks, ToFiles, ToNames, WriteArchiveSettings
  <2> HIDE DEF c, n
  <2>9. (c \o n) \o t = c \o (n \o t)
    <3>1. Raw(t) /\ Raw(c) /\ Raw(n)
      BY <1>2, <2>4 DEF t, Raw
    <3>2. Join(Join(c, n), t) = Join(c, Join(n, t))
      BY <3>1, Regroup
    <3>3. QED
      BY <3>2 DEF Join
  <2>10. SubSeq(stream', 1, pos') = ToChunks(raw') \o WriteRawStrings((raw').volume_files)
    BY <1>1, <1>3, <2>1, <2>2, <2>5, <2>7, <2>8, <2>9 DEF Pre, t
  <2>11. QED
    BY <1>1, <2>1, <2>10 DEF Mirrored, Tabled, Pre
<1>7. QED
  BY <1>4, <1>5, <1>6

\* The range settings are the last of it.
LEMMA ReadGlobalSettingsMirrored ==
  ASSUME IInv, IInv', Mirrored, ReadGlobalSettings
  PROVE  Mirrored'
<1> DEFINE n == IF HasDz(raw) THEN 10 ELSE 0
           r == SubSeq(stream, pos + 1, pos + n)
           complete == [raw EXCEPT !.range_settings = r]
           l == WriteRawStrings(raw.volume_files)
<1>1. /\ pc = "range" /\ stream' = stream /\ TypeOK /\ raw \in RawArchive /\ raw' \in RawArchive
  BY DEF ReadGlobalSettings, IInv, TypeOK
<1>2. CASE ~Has(n) \/ MetadataBytes(complete) > limits.metadata
  BY <1>2, RefuseMirrored DEF ReadGlobalSettings
<1>3. CASE Has(n) /\ ~(MetadataBytes(complete) > limits.metadata)
  <2>1. pos' = pos + n /\ pc' = "parsed" /\ raw' = complete
    BY <1>3 DEF ReadGlobalSettings
  <2>2. pos \in Nat /\ Len(stream) \in Nat /\ pos + n <= Len(stream) /\ n \in Nat
    BY <1>1, <1>3, LenProperties DEF TypeOK, Has
  <2> HIDE DEF n
  <2>3. Pre(pos + n) = Pre(pos) \o r
    <3> DEFINE B == Byte
    <3>1. stream \in Seq(B)
      BY <1>1 DEF TypeOK
    <3> HIDE DEF B
    <3>2. /\ 1 \in 1 .. Len(stream) + 1 /\ pos \in 1 - 1 .. Len(stream)
          /\ pos + n \in pos .. Len(stream)
      BY <2>2
    <3>3. QED
      BY <3>1, <3>2, ConcatAdjacentSubSeq DEF Pre
  <2> HIDE DEF r
  <2>4. /\ (raw').range_settings = r /\ (raw').volume_files = raw.volume_files
        /\ (raw').chunks = raw.chunks /\ (raw').files = raw.files
        /\ (raw').strings = raw.strings
        /\ (raw').header = raw.header /\ (raw').version = raw.version
        /\ (raw').num_user_files = raw.num_user_files
        /\ (raw').num_directories = raw.num_directories
        /\ (raw').num_archive_files = raw.num_archive_files
        /\ (raw').num_chunks = raw.num_chunks
    BY <1>1, <2>1 DEF RawArchive
  <2>5. ToChunks(raw') = ToChunks(raw)
    BY <2>4 DEF ToChunks, ToFiles, ToNames, WriteArchiveSettings
  <2>6. WriteMetadata(raw')
          = (ToChunks(raw') \o WriteRawStrings((raw').volume_files)) \o (raw').range_settings
    BY <1>1, PartsTyped
  <2>7. Pre(pos) = ToChunks(raw) \o l
    BY <1>1 DEF Mirrored, Tabled
  <2>8. SubSeq(stream', 1, pos') = WriteMetadata(raw')
    BY <1>1, <2>1, <2>3, <2>4, <2>5, <2>6, <2>7 DEF Pre
  <2>9. QED
    BY <2>1, <2>8 DEF Mirrored, Tabled, Pre
<1>4. QED
  BY <1>2, <1>3

\* Every step keeps what is read the mirror of what would be written; a
\* renamed header is no longer compared, and a written one is read afresh.
LEMMA NextMirrored == IInv /\ IInv' /\ Mirrored /\ [Next]_vars => Mirrored'
<1> SUFFICES ASSUME IInv, IInv', Mirrored, [Next]_vars PROVE Mirrored'
  OBVIOUS
<1>1. CASE ReadArchiveSettings
  BY <1>1, ReadArchiveSettingsMirrored
<1>2. CASE ReadStrings
  BY <1>2, ReadStringsMirrored
<1>3. CASE ReadDirectoryId
  BY <1>3, ReadDirectoryIdMirrored
<1>4. CASE ReadChunkId
  BY <1>4, ReadChunkIdMirrored
<1>5. CASE ReadChunkSettings
  BY <1>5, ReadChunkSettingsMirrored
<1>6. CASE ReadChunks
  BY <1>6, ReadChunksMirrored
<1>7. CASE ReadRawFileList
  BY <1>7, ReadRawFileListMirrored
<1>8. CASE ReadGlobalSettings
  BY <1>8, ReadGlobalSettingsMirrored
<1>9. CASE \E k \in DOMAIN raw.strings, name \in NewNames \cup FromNames : Rename(k, name)
  BY <1>9 DEF Rename, Mirrored, Tabled
<1>10. CASE WriteMetadataTo
  BY <1>10 DEF WriteMetadataTo, Mirrored, Tabled
<1>11. CASE UNCHANGED vars
  <2>1. stream' = stream /\ pos' = pos /\ pc' = pc /\ raw' = raw
    BY <1>11 DEF vars
  <2>2. QED
    BY <2>1 DEF Mirrored, Tabled, Pre
<1>12. QED
  BY <1>1, <1>2, <1>3, <1>4, <1>5, <1>6, <1>7, <1>8, <1>9, <1>10, <1>11 DEF Next

\* A header that is accepted is written back byte for byte as it was read,
\* whatever stream it was read from and whatever the limits.
THEOREM WritesBackWhatItRead == Spec => []Lossless
<1>1. Init => Mirrored
  BY DEF Init, Mirrored, Tabled
<1>2. Mirrored => Lossless
  BY DEF Mirrored, Lossless, Pre
<1>3. QED
  BY <1>1, <1>2, InitIInv, NextIInv, NextMirrored, PTL DEF Spec

-----------------------------------------------------------------------------
(* Beginnings *)

\* The list s is a beginning of the list t.
Begun(s, t) == Len(s) <= Len(t) /\ \A i \in 1 .. Len(s) : s[i] = t[i]

\* A beginning is all of the list, or goes on with the next element.
LEMMA BegunGoesOn ==
  ASSUME NEW S, NEW s \in Seq(S), NEW t \in Seq(S), Begun(s, t)
  PROVE  /\ Len(s) \in Nat /\ Len(t) \in Nat /\ Len(s) <= Len(t)
         /\ Len(s) = Len(t) => s = t
         /\ Len(s) # Len(t) =>
              /\ Len(s) + 1 \in 1 .. Len(t) /\ t[Len(s) + 1] \in S
              /\ Append(s, t[Len(s) + 1]) \in Seq(S)
              /\ Begun(Append(s, t[Len(s) + 1]), t)
              /\ Len(Append(s, t[Len(s) + 1])) = Len(s) + 1
<1> DEFINE m == Len(s)
           n == Len(t)
<1>1. m \in Nat /\ n \in Nat /\ m <= n /\ \A i \in 1 .. m : s[i] = t[i]
  BY LenProperties DEF Begun
<1>2. ASSUME m = n PROVE s = t
  BY <1>1, <1>2, SeqEqual
<1>3. ASSUME m # n
      PROVE  /\ m + 1 \in 1 .. n /\ t[m + 1] \in S
             /\ Append(s, t[m + 1]) \in Seq(S) /\ Begun(Append(s, t[m + 1]), t)
             /\ Len(Append(s, t[m + 1])) = m + 1
  <2> DEFINE x == t[m + 1]
             u == Append(s, x)
  <2>1. m + 1 \in 1 .. n
    BY <1>1, <1>3
  <2>2. x \in S
    BY <2>1, ElementOfSeq
  <2> HIDE DEF x
  <2>3. /\ u \in Seq(S) /\ Len(u) = m + 1 /\ u[m + 1] = x
        /\ \A i \in 1 .. m : u[i] = s[i]
    BY <2>2, AppendProperties
  <2> HIDE DEF u
  <2>4. ASSUME NEW i \in 1 .. m + 1 PROVE u[i] = t[i]
    <3>1. i = m + 1 \/ i \in 1 .. m
      BY <1>1
    <3>2. QED
      BY <1>1, <2>3, <3>1 DEF x
  <2>5. Begun(u, t)
    BY <2>1, <2>3, <2>4, SMTT(40) DEF Begun
  <2>6. QED
    BY <2>1, <2>2, <2>3, <2>5 DEF u, x
<1>4. QED
  BY <1>1, <1>2, <1>3

\* What is written of a beginning is a beginning of what is written.
LEMMA WrittenBegun ==
  ASSUME NEW S, NEW B, NEW f, Maps(f, S, Seq(B)),
         NEW s \in Seq(S), NEW t \in Seq(S), Begun(s, t)
  PROVE  \E r \in Seq(B) : Written(f, t) = Written(f, s) \o r
<1> DEFINE w(u) == Written(f, u)
           From(u) == \E r \in Seq(B) : w(t) = w(u) \o r
           G == {n \in Nat : \A u \in Seq(S) : Begun(u, t) /\ Len(t) = Len(u) + n => From(u)}
<1>1. \A u \in Seq(S) : w(u) \in Seq(B)
  BY WrittenTyped
<1>2. 0 \in G
  <2> SUFFICES ASSUME NEW u \in Seq(S), Begun(u, t), Len(t) = Len(u) + 0 PROVE From(u)
    OBVIOUS
  <2>1. u = t
    BY BegunGoesOn
  <2>2. w(t) \o <<>> = w(t) /\ <<>> \in Seq(B)
    BY <1>1, ConcatEmptySeq
  <2>3. QED
    BY <2>1, <2>2
<1>3. ASSUME NEW n \in Nat, n \in G PROVE n + 1 \in G
  <2> HIDE DEF From
  <2> SUFFICES ASSUME NEW u \in Seq(S), Begun(u, t), Len(t) = Len(u) + (n + 1) PROVE From(u)
    OBVIOUS
  <2> DEFINE x == t[Len(u) + 1]
             v == Append(u, x)
  <2>1. x \in S /\ v \in Seq(S) /\ Begun(v, t) /\ Len(t) = Len(v) + n
    <3>1. Len(u) \in Nat /\ Len(t) \in Nat
      BY LenProperties
    <3>2. Len(u) # Len(t)
      BY <3>1
    <3>3. x \in S /\ v \in Seq(S) /\ Begun(v, t) /\ Len(v) = Len(u) + 1
      BY <3>2, BegunGoesOn
    <3>4. QED
      BY <3>1, <3>3
  <2> HIDE DEF x
  <2>2. PICK r \in Seq(B) : w(t) = w(v) \o r
    BY <1>3, <2>1 DEF From
  <2>3. w(v) = w(u) \o f[x] /\ f[x] \in Seq(B)
    <3>1. f[x] \in Seq(B)
      BY <2>1 DEF Maps
    <3>2. QED
      BY <2>1, <3>1, WrittenAppended
  <2> DEFINE p == w(u)
             y == f[x]
  <2>4. p \in Seq(B) /\ y \in Seq(B)
    BY <1>1, <2>3
  <2> HIDE DEF p, y, v
  <2>5. (p \o y) \o r = p \o (y \o r) /\ y \o r \in Seq(B)
    <3>1. p \in Seq(B) /\ y \in Seq(B) /\ r \in Seq(B)
      BY <2>2, <2>4
    <3>2. y \o r \in Seq(B)
      BY <3>1, ConcatProperties
    <3>3. (p \o y) \o r = p \o (y \o r)
      BY <3>1, ConcatAssociative, SMTT(40)
    <3>4. QED
      BY <3>2, <3>3
  <2>6. w(t) = p \o (y \o r)
    BY <2>2, <2>3, <2>5 DEF p, y
  <2>7. QED
    BY <2>5, <2>6 DEF p, From
<1> HIDE DEF G
<1>4. Nat \subseteq G
  BY <1>2, <1>3, NaturalSteps
<1>5. Len(t) - Len(s) \in Nat /\ Len(t) = Len(s) + (Len(t) - Len(s))
  BY BegunGoesOn, SMTT(40)
<1>6. QED
  BY <1>4, <1>5 DEF G, From

\* A beginning adds up to no more.
LEMMA SumBegun ==
  ASSUME NEW S, NEW f, Maps(f, S, Nat), NEW s \in Seq(S), NEW t \in Seq(S), Begun(s, t)
  PROVE  SumEach(f, s) <= SumEach(f, t)
<1> DEFINE w(u) == SumEach(f, u)
           G == {n \in Nat : \A u \in Seq(S) : Begun(u, t) /\ Len(t) = Len(u) + n => w(u) <= w(t)}
<1>1. \A u \in Seq(S) : w(u) \in Nat
  BY SumEachTyped
<1>2. 0 \in G
  <2> SUFFICES ASSUME NEW u \in Seq(S), Begun(u, t), Len(t) = Len(u) + 0 PROVE w(u) <= w(t)
    OBVIOUS
  <2>1. u = t
    BY BegunGoesOn
  <2>2. QED
    BY <1>1, <2>1
<1>3. ASSUME NEW n \in Nat, n \in G PROVE n + 1 \in G
  <2> SUFFICES ASSUME NEW u \in Seq(S), Begun(u, t), Len(t) = Len(u) + (n + 1) PROVE w(u) <= w(t)
    OBVIOUS
  <2> DEFINE x == t[Len(u) + 1]
             v == Append(u, x)
  <2>1. x \in S /\ v \in Seq(S) /\ Begun(v, t) /\ Len(t) = Len(v) + n
    <3>1. Len(u) \in Nat /\ Len(t) \in Nat
      BY LenProperties
    <3>2. Len(u) # Len(t)
      BY <3>1
    <3>3. x \in S /\ v \in Seq(S) /\ Begun(v, t) /\ Len(v) = Len(u) + 1
      BY <3>2, BegunGoesOn
    <3>4. QED
      BY <3>1, <3>3
  <2> HIDE DEF x
  <2>2. w(v) <= w(t)
    BY <1>3, <2>1
  <2>3. w(v) = w(u) + f[x] /\ f[x] \in Nat
    <3>1. f[x] \in Nat
      BY <2>1 DEF Maps
    <3>2. QED
      BY <2>1, <3>1, SumEachAppended
  <2> DEFINE a == w(u)
             b == w(v)
             c == w(t)
             d == f[x]
  <2>4. a \in Nat /\ c \in Nat
    BY <1>1
  <2> HIDE DEF a, b, c, d
  <2>5. a <= c
    BY <2>2, <2>3, <2>4 DEF a, b, c, d
  <2>6. QED
    BY <2>5 DEF a, c
<1> HIDE DEF G
<1>4. Nat \subseteq G
  BY <1>2, <1>3, NaturalSteps
<1>5. Len(t) - Len(s) \in Nat /\ Len(t) = Len(s) + (Len(t) - Len(s))
  BY BegunGoesOn
<1>6. QED
  BY <1>4, <1>5 DEF G

\* The bytes w begin with p and then x.
GoesOn(B, w, p, x) == \E r \in Seq(B) : w = (p \o x) \o r

\* What is written of a list goes on with the next element of it.
LEMMA WrittenGoesOn ==
  ASSUME NEW S, NEW B, NEW f, Maps(f, S, Seq(B)),
         NEW s \in Seq(S), NEW t \in Seq(S), Begun(s, t), Len(s) # Len(t)
  PROVE  /\ t[Len(s) + 1] \in S /\ f[t[Len(s) + 1]] \in Seq(B)
         /\ GoesOn(B, Written(f, t), Written(f, s), f[t[Len(s) + 1]])
<1> DEFINE x == t[Len(s) + 1]
           v == Append(s, x)
<1>1. x \in S /\ v \in Seq(S) /\ Begun(v, t)
  BY BegunGoesOn
<1> HIDE DEF x
<1>2. Written(f, v) = Written(f, s) \o f[x]
  BY <1>1, WrittenAppended
<1> HIDE DEF v
<1>3. PICK r \in Seq(B) : Written(f, t) = Written(f, v) \o r
  BY <1>1, WrittenBegun
<1>4. f[x] \in Seq(B)
  BY <1>1 DEF Maps
<1>5. QED
  BY <1>1, <1>2, <1>3, <1>4 DEF x, GoesOn

\* A list that is begun goes on with the next name and its nul.
LEMMA StringsGoOn ==
  ASSUME NEW s \in Seq(Seq(Byte)), NEW t \in Seq(Seq(Byte)), Begun(s, t), Len(s) # Len(t)
  PROVE  /\ t[Len(s) + 1] \in Seq(Byte) /\ Raw(Append(t[Len(s) + 1], 0))
         /\ \E r : /\ Raw(r)
                   /\ WriteRawStrings(t) = Join(Join(WriteRawStrings(s), Append(t[Len(s) + 1], 0)), r)
<1> DEFINE T == Seq(Byte)
           f == [y \in T |-> Append(y, 0)]
           x == t[Len(s) + 1]
           B == Byte
<1>1. Maps(f, T, Seq(B))
  <2>1. \A y \in T : Append(y, 0) \in Seq(Byte)
    BY Widths
  <2>2. QED
    BY <2>1 DEF Maps
<1>2. \A r \in Seq(T) : WriteRawStrings(r) = Written(f, r)
  <2> SUFFICES ASSUME NEW r \in Seq(T)
               PROVE  [i \in DOMAIN r |-> Append(r[i], 0)] = [i \in DOMAIN r |-> f[r[i]]]
    BY DEF WriteRawStrings, Concat, Written, Each
  <2>1. \A i \in DOMAIN r : r[i] \in T
    <3> HIDE DEF T
    <3>1. QED
      BY LenProperties
  <2>2. QED
    BY <2>1
<1>3. s \in Seq(T) /\ t \in Seq(T)
  OBVIOUS
<1> HIDE DEF x
<1>4. x \in T => f[x] = Append(x, 0)
  OBVIOUS
<1> HIDE DEF f, T, B
<1>5. /\ t[Len(s) + 1] \in T /\ f[t[Len(s) + 1]] \in Seq(B)
      /\ GoesOn(B, Written(f, t), Written(f, s), f[t[Len(s) + 1]])
  BY <1>1, <1>3, WrittenGoesOn
<1>6. x \in T /\ f[x] \in Seq(B) /\ GoesOn(B, Written(f, t), Written(f, s), f[x])
  BY <1>5 DEF x
<1>7. PICK r \in Seq(B) : Written(f, t) = (Written(f, s) \o f[x]) \o r
  BY <1>6 DEF GoesOn
<1>8. Raw(r) /\ Raw(Append(x, 0))
  BY <1>4, <1>6 DEF Raw, B
<1>9. WriteRawStrings(t) = Join(Join(WriteRawStrings(s), Append(x, 0)), r)
  BY <1>2, <1>3, <1>4, <1>6, <1>7 DEF Join
<1>10. QED
  BY <1>6, <1>8, <1>9 DEF x, T

\* A list that is begun goes on with the next id.
LEMMA IdsGoOn ==
  ASSUME NEW s \in Seq(U16), NEW t \in Seq(U16), Begun(s, t), Len(s) # Len(t)
  PROVE  /\ t[Len(s) + 1] \in U16 /\ Raw(Bytes16(t[Len(s) + 1]))
         /\ \E r : /\ Raw(r)
                   /\ WriteIds(t) = Join(Join(WriteIds(s), Bytes16(t[Len(s) + 1])), r)
<1> DEFINE T == U16
           f == [y \in T |-> Bytes16(y)]
           x == t[Len(s) + 1]
           B == Byte
<1>1. Maps(f, T, Seq(B))
  <2>1. \A y \in T : Bytes16(y) \in Seq(Byte)
    BY Bytes16Typed
  <2>2. QED
    BY <2>1 DEF Maps
<1>2. \A r \in Seq(T) : WriteIds(r) = Written(f, r)
  <2> SUFFICES ASSUME NEW r \in Seq(T)
               PROVE  [i \in DOMAIN r |-> Bytes16(r[i])] = [i \in DOMAIN r |-> f[r[i]]]
    BY DEF WriteIds, Concat, Written, Each
  <2>1. \A i \in DOMAIN r : r[i] \in T
    <3> HIDE DEF T
    <3>1. QED
      BY LenProperties
  <2>2. QED
    BY <2>1
<1>3. s \in Seq(T) /\ t \in Seq(T)
  OBVIOUS
<1> HIDE DEF x
<1>4. x \in T => f[x] = Bytes16(x)
  OBVIOUS
<1> HIDE DEF f, T, B
<1>5. /\ t[Len(s) + 1] \in T /\ f[t[Len(s) + 1]] \in Seq(B)
      /\ GoesOn(B, Written(f, t), Written(f, s), f[t[Len(s) + 1]])
  BY <1>1, <1>3, WrittenGoesOn
<1>6. x \in T /\ f[x] \in Seq(B) /\ GoesOn(B, Written(f, t), Written(f, s), f[x])
  BY <1>5 DEF x
<1>7. PICK r \in Seq(B) : Written(f, t) = (Written(f, s) \o f[x]) \o r
  BY <1>6 DEF GoesOn
<1>8. Raw(r) /\ Raw(Bytes16(x))
  BY <1>4, <1>6 DEF Raw, B
<1>9. WriteIds(t) = Join(Join(WriteIds(s), Bytes16(x)), r)
  BY <1>2, <1>3, <1>4, <1>6, <1>7 DEF Join
<1>10. QED
  BY <1>6, <1>8, <1>9 DEF x, T

\* A list that is begun goes on with the next file.
LEMMA FilesGoOn ==
  ASSUME NEW s \in Seq(FileRecord), NEW t \in Seq(FileRecord), Begun(s, t), Len(s) # Len(t)
  PROVE  /\ t[Len(s) + 1] \in FileRecord /\ Raw(WriteFile(t[Len(s) + 1]))
         /\ \E r : /\ Raw(r)
                   /\ WriteRawFileChunkMap(t) = Join(Join(WriteRawFileChunkMap(s), WriteFile(t[Len(s) + 1])), r)
<1> DEFINE T == FileRecord
           f == [y \in T |-> WriteFile(y)]
           x == t[Len(s) + 1]
           B == Byte
<1>1. Maps(f, T, Seq(B))
  <2>1. \A y \in T : WriteFile(y) \in Seq(Byte)
    BY FileTyped
  <2>2. QED
    BY <2>1 DEF Maps
<1>2. \A r \in Seq(T) : WriteRawFileChunkMap(r) = Written(f, r)
  <2> SUFFICES ASSUME NEW r \in Seq(T)
               PROVE  [i \in DOMAIN r |-> WriteFile(r[i])] = [i \in DOMAIN r |-> f[r[i]]]
    BY DEF WriteRawFileChunkMap, WriteFile, WriteIds, Concat, Written, Each
  <2>1. \A i \in DOMAIN r : r[i] \in T
    <3> HIDE DEF T
    <3>1. QED
      BY LenProperties
  <2>2. QED
    BY <2>1
<1>3. s \in Seq(T) /\ t \in Seq(T)
  OBVIOUS
<1> HIDE DEF x
<1>4. x \in T => f[x] = WriteFile(x)
  OBVIOUS
<1> HIDE DEF f, T, B
<1>5. /\ t[Len(s) + 1] \in T /\ f[t[Len(s) + 1]] \in Seq(B)
      /\ GoesOn(B, Written(f, t), Written(f, s), f[t[Len(s) + 1]])
  BY <1>1, <1>3, WrittenGoesOn
<1>6. x \in T /\ f[x] \in Seq(B) /\ GoesOn(B, Written(f, t), Written(f, s), f[x])
  BY <1>5 DEF x
<1>7. PICK r \in Seq(B) : Written(f, t) = (Written(f, s) \o f[x]) \o r
  BY <1>6 DEF GoesOn
<1>8. Raw(r) /\ Raw(WriteFile(x))
  BY <1>4, <1>6 DEF Raw, B
<1>9. WriteRawFileChunkMap(t) = Join(Join(WriteRawFileChunkMap(s), WriteFile(x)), r)
  BY <1>2, <1>3, <1>4, <1>6, <1>7 DEF Join
<1>10. QED
  BY <1>6, <1>8, <1>9 DEF x, T

\* A list that is begun goes on with the next record.
LEMMA ChunksGoOn ==
  ASSUME NEW s \in Seq(ChunkRecord), NEW t \in Seq(ChunkRecord), Begun(s, t), Len(s) # Len(t)
  PROVE  /\ t[Len(s) + 1] \in ChunkRecord /\ Raw(WriteChunk(t[Len(s) + 1]))
         /\ \E r : /\ Raw(r)
                   /\ WriteChunks(t) = Join(Join(WriteChunks(s), WriteChunk(t[Len(s) + 1])), r)
<1> DEFINE T == ChunkRecord
           f == [y \in T |-> WriteChunk(y)]
           x == t[Len(s) + 1]
           B == Byte
<1>1. Maps(f, T, Seq(B))
  <2>1. \A y \in T : WriteChunk(y) \in Seq(Byte)
    BY ChunkTyped
  <2>2. QED
    BY <2>1 DEF Maps
<1>2. \A r \in Seq(T) : WriteChunks(r) = Written(f, r)
  <2> SUFFICES ASSUME NEW r \in Seq(T)
               PROVE  [i \in DOMAIN r |-> WriteChunk(r[i])] = [i \in DOMAIN r |-> f[r[i]]]
    BY DEF WriteChunks, WriteChunk, Concat, Written, Each
  <2>1. \A i \in DOMAIN r : r[i] \in T
    <3> HIDE DEF T
    <3>1. QED
      BY LenProperties
  <2>2. QED
    BY <2>1
<1>3. s \in Seq(T) /\ t \in Seq(T)
  OBVIOUS
<1> HIDE DEF x
<1>4. x \in T => f[x] = WriteChunk(x)
  OBVIOUS
<1> HIDE DEF f, T, B
<1>5. /\ t[Len(s) + 1] \in T /\ f[t[Len(s) + 1]] \in Seq(B)
      /\ GoesOn(B, Written(f, t), Written(f, s), f[t[Len(s) + 1]])
  BY <1>1, <1>3, WrittenGoesOn
<1>6. x \in T /\ f[x] \in Seq(B) /\ GoesOn(B, Written(f, t), Written(f, s), f[x])
  BY <1>5 DEF x
<1>7. PICK r \in Seq(B) : Written(f, t) = (Written(f, s) \o f[x]) \o r
  BY <1>6 DEF GoesOn
<1>8. Raw(r) /\ Raw(WriteChunk(x))
  BY <1>4, <1>6 DEF Raw, B
<1>9. WriteChunks(t) = Join(Join(WriteChunks(s), WriteChunk(x)), r)
  BY <1>2, <1>3, <1>4, <1>6, <1>7 DEF Join
<1>10. QED
  BY <1>6, <1>8, <1>9 DEF x, T

-----------------------------------------------------------------------------
(* Reading what is known to come next *)

\* The stream goes on with the bytes x.
Ahead(x) == Raw(x) /\ \E r : Raw(r) /\ stream = Join(Join(Pre(pos), x), r)

\* The bytes x stand at place k, from the position on.
At(k, x) ==
  /\ pos + (k - 1) + Len(x) <= Len(stream)
  /\ \A i \in 1 .. Len(x) : stream[pos + (k - 1) + i] = x[i]

\* The bytes of two that are joined, by their places.
LEMMA JoinPlaces ==
  ASSUME NEW x, NEW y, Raw(x), Raw(y)
  PROVE  /\ Len(x) \in Nat /\ Len(y) \in Nat /\ Len(Join(x, y)) = Len(x) + Len(y)
         /\ \A i \in 1 .. Len(x) : Join(x, y)[i] = x[i]
         /\ \A i \in 1 .. Len(y) : Join(x, y)[Len(x) + i] = y[i]
<1> DEFINE B == Byte
           m == Len(x)
           n == Len(y)
           z == x \o y
<1>1. x \in Seq(B) /\ y \in Seq(B)
  BY DEF Raw
<1> HIDE DEF B
<1>2. m \in Nat /\ n \in Nat
  BY <1>1, LenProperties
<1>3. Len(z) = m + n /\ \A i \in 1 .. m + n : z[i] = IF i <= m THEN x[i] ELSE y[i - m]
  BY <1>1, ConcatProperties
<1> HIDE DEF m, n, z
<1>4. \A i \in 1 .. m : z[i] = x[i]
  BY <1>2, <1>3
<1>5. ASSUME NEW i \in 1 .. n PROVE z[m + i] = y[i]
  <2> DEFINE j == m + i
  <2>1. j \in 1 .. m + n /\ ~(j <= m) /\ j - m = i
    BY <1>2
  <2> HIDE DEF j
  <2>2. z[j] = y[j - m]
    BY <1>3, <2>1
  <2>3. QED
    BY <2>1, <2>2 DEF j
<1>6. QED
  BY <1>2, <1>3, <1>4, <1>5 DEF Join, m, n, z

\* Two that are joined are as long as both.
LEMMA JoinLength ==
  ASSUME NEW x, NEW y, Raw(x), Raw(y)
  PROVE  Raw(Join(x, y)) /\ Len(Join(x, y)) = Len(x) + Len(y)
BY Joined, JoinPlaces

\* What comes next stands at place 1.
LEMMA AheadAt ==
  ASSUME TypeOK, NEW x, Ahead(x)
  PROVE  At(1, x)
<1> DEFINE p == Pre(pos)
           m == Len(p)
           n == Len(x)
<1>1. Raw(p) /\ m = pos
  <2>1. pos \in 0 .. Len(stream)
    BY DEF TypeOK
  <2>2. QED
    BY <2>1, PreTyped DEF Raw
<1>2. PICK r : Raw(r) /\ stream = Join(Join(p, x), r)
  BY DEF Ahead
<1>3. Raw(x)
  BY DEF Ahead
<1> HIDE DEF p
<1> DEFINE q == Join(p, x)
<1>4. Raw(q)
  BY <1>1, <1>3, Joined
<1>5. /\ m \in Nat /\ n \in Nat /\ Len(q) = m + n
      /\ \A i \in 1 .. n : q[m + i] = x[i]
  BY <1>1, <1>3, JoinPlaces
<1> HIDE DEF q
<1>6. /\ Len(r) \in Nat /\ Len(stream) = Len(q) + Len(r)
      /\ \A i \in 1 .. Len(q) : stream[i] = q[i]
  <2>1. stream = Join(q, r)
    BY <1>2 DEF q
  <2>2. QED
    BY <1>2, <1>4, <2>1, JoinPlaces
<1> DEFINE l == Len(r)
           k == Len(q)
<1> HIDE DEF m, n, l, k
<1>7. m + n <= Len(stream)
  BY <1>5, <1>6 DEF l, k
<1>8. ASSUME NEW i \in 1 .. n PROVE stream[m + i] = x[i]
  <2>1. m + i \in 1 .. k
    BY <1>5 DEF k
  <2>2. QED
    BY <1>5, <1>6, <2>1 DEF k
<1>9. pos \in Nat /\ pos + (1 - 1) = pos
  BY <1>1, <1>5
<1>10. m = pos
  BY <1>1 DEF m
<1>11. QED
  BY <1>7, <1>8, <1>9, <1>10 DEF At, n

\* If two byte strings come next, the first of them does.
LEMMA AheadFirst ==
  ASSUME TypeOK, NEW x, NEW y, Raw(x), Raw(y), Ahead(Join(x, y))
  PROVE  Ahead(x)
<1> DEFINE p == Pre(pos)
<1>1. Raw(p)
  <2>1. pos \in 0 .. Len(stream)
    BY DEF TypeOK
  <2>2. QED
    BY <2>1, PreTyped DEF Raw
<1>2. PICK r : Raw(r) /\ stream = Join(Join(p, Join(x, y)), r)
  BY DEF Ahead
<1> HIDE DEF p
<1>3. Join(p, Join(x, y)) = Join(Join(p, x), y) /\ Raw(Join(p, x)) /\ Raw(Join(y, r))
  BY <1>1, <1>2, Regroup, Joined
<1>4. Join(Join(Join(p, x), y), r) = Join(Join(p, x), Join(y, r))
  BY <1>2, <1>3, Regroup
<1>5. QED
  BY <1>2, <1>3, <1>4 DEF Ahead, p

\* Two byte strings stand one after the other.
LEMMA AtParts ==
  ASSUME TypeOK, NEW k \in Nat \ {0}, NEW x, NEW y, Raw(x), Raw(y), At(k, Join(x, y))
  PROVE  At(k, x) /\ At(k + Len(x), y)
<1> DEFINE m == Len(x)
           n == Len(y)
           z == Join(x, y)
           l == Len(stream)
<1>1. pos \in Nat /\ l \in Nat
  BY LenProperties DEF TypeOK
<1>2. /\ m \in Nat /\ n \in Nat /\ Len(z) = m + n
      /\ \A i \in 1 .. m : z[i] = x[i]
      /\ \A i \in 1 .. n : z[m + i] = y[i]
  BY JoinPlaces
<1> HIDE DEF z, l
<1>3. pos + (k - 1) + (m + n) <= l /\ \A i \in 1 .. m + n : stream[pos + (k - 1) + i] = z[i]
  BY <1>2 DEF At, z, l
<1> HIDE DEF m, n
<1>4. pos + (k - 1) + m <= l /\ pos + ((k + m) - 1) + n <= l
  BY <1>1, <1>2, <1>3
<1>5. \A i \in 1 .. m : stream[pos + (k - 1) + i] = x[i]
  BY <1>2, <1>3
<1>6. ASSUME NEW i \in 1 .. n PROVE stream[pos + ((k + m) - 1) + i] = y[i]
  <2>1. m + i \in 1 .. m + n /\ pos + ((k + m) - 1) + i = pos + (k - 1) + (m + i)
    BY <1>1, <1>2
  <2>2. QED
    BY <1>2, <1>3, <2>1
<1>7. QED
  BY <1>4, <1>5, <1>6 DEF At, m, n, l

\* A u16 is read as it was written.
LEMMA At16 ==
  ASSUME TypeOK, NEW k \in Nat \ {0}, NEW v \in U16, At(k, Bytes16(v))
  PROVE  pos + k + 1 <= Len(stream) /\ Read16(k) = v
<1>1. pos \in Nat /\ Len(stream) \in Nat /\ pos + k \in Nat
  BY LenProperties DEF TypeOK
<1>2. Len(Bytes16(v)) = 2 /\ Bytes16(v)[1] = v % Base /\ Bytes16(v)[2] = v \div Base
  BY DEF Bytes16
<1>3. pos + (k - 1) + 2 = pos + k + 1 /\ pos + (k - 1) + 1 = pos + k
      /\ pos + (k + 1) = pos + k + 1
  BY <1>1
<1>4. pos + k + 1 <= Len(stream)
  BY <1>2, <1>3 DEF At
<1>5. 1 \in 1 .. 2 /\ 2 \in 1 .. 2
  OBVIOUS
<1>6. stream[pos + k] = v % Base /\ stream[pos + k + 1] = v \div Base
  BY <1>2, <1>3, <1>5 DEF At
<1>7. Read16(k) = (v % Base) + Base * (v \div Base)
  BY <1>3, <1>6 DEF Read16, Read8
<1>8. v = (v % Base) + Base * (v \div Base)
  <2>1. Base \in Nat \ {0} /\ v \in 0 .. Base * Base - 1
    BY Widths DEF U16, Words
  <2>2. QED
    BY <2>1, TwoDigits
<1>9. QED
  BY <1>4, <1>7, <1>8

\* So is a u32.
LEMMA At32 ==
  ASSUME TypeOK, NEW k \in Nat \ {0}, NEW v \in U32, At(k, Bytes32(v))
  PROVE  pos + k + 3 <= Len(stream) /\ Read32(k) = v
<1> DEFINE lo == v % Words
           hi == v \div Words
<1>1. Words \in Nat \ {0} /\ v \in 0 .. Words * Words - 1
  BY Widths
<1>2. lo \in 0 .. Words - 1 /\ hi \in 0 .. Words - 1 /\ v = lo + Words * hi
  BY <1>1, TwoDigits
<1>3. lo \in U16 /\ hi \in U16
  BY <1>2, Widths
<1>4. Bytes32(v) = Join(Bytes16(lo), Bytes16(hi))
  BY DEF Bytes32, Join
<1> HIDE DEF lo, hi
<1>5. Raw(Bytes16(lo)) /\ Raw(Bytes16(hi)) /\ Len(Bytes16(lo)) = 2
  BY <1>3, Bytes16Typed DEF Raw
<1>6. At(k, Bytes16(lo)) /\ At(k + 2, Bytes16(hi))
  BY <1>4, <1>5, AtParts
<1>7. k + 2 \in Nat \ {0} /\ pos \in Nat /\ pos + (k + 2) + 1 = pos + k + 3
  BY DEF TypeOK
<1>8. Read16(k) = lo
  BY <1>3, <1>6, At16
<1>9. pos + (k + 2) + 1 <= Len(stream) /\ Read16(k + 2) = hi
  BY <1>3, <1>6, <1>7, At16
<1>10. QED
  BY <1>2, <1>7, <1>8, <1>9 DEF Read32

\* A name without a nul, within the limit, is read up to the nul that ends it.
LEMMA AheadString ==
  ASSUME TypeOK, NEW x \in Seq(Byte), 0 \notin Range(x), Len(x) <= limits.string,
         Ahead(Append(x, 0))
  PROVE  NulsInReach # {} /\ NextString = x
<1> DEFINE B == Byte
           n == Len(x)
           z == Append(x, 0)
           at == pos + n + 1
<1>1. x \in Seq(B) /\ 0 \in B /\ stream \in Seq(B) /\ n \in Nat /\ pos \in Nat /\ Len(stream) \in Nat
      /\ limits.string \in Nat
  BY Widths, LenProperties DEF TypeOK, ReadLimits
<1>2. At(1, z)
  BY AheadAt
<1> HIDE DEF B
<1>3. Len(z) = n + 1 /\ z[n + 1] = 0 /\ \A i \in 1 .. n : z[i] = x[i]
  BY <1>1, AppendProperties
<1> HIDE DEF z
<1>4. pos + (1 - 1) = pos
  BY <1>1
<1>5. pos + (n + 1) <= Len(stream) /\ \A i \in 1 .. n + 1 : stream[pos + i] = z[i]
  BY <1>2, <1>3, <1>4 DEF At
<1>6. \A i \in 1 .. n : x[i] # 0
  <2>1. \A i \in 1 .. n : x[i] \in Range(x)
    BY <1>1, LenProperties DEF Range
  <2>2. QED
    BY <2>1
<1> HIDE DEF n
<1>7. at \in NulsInReach
  <2>1. at \in pos + 1 .. Len(stream) /\ at <= pos + limits.string + 1 /\ pos + (n + 1) = at
        /\ n + 1 \in 1 .. n + 1
    BY <1>1, <1>5 DEF n
  <2>2. stream[at] = 0
    BY <1>3, <1>5, <2>1
  <2>3. QED
    BY <2>1, <2>2 DEF NulsInReach
<1> DEFINE y == NextString
           m == Len(y)
<1>9. /\ y \in Seq(Byte) /\ pos + m + 1 \in 1 .. Len(stream) /\ stream[pos + m + 1] = 0
      /\ \A i \in 1 .. m : y[i] = stream[pos + i]
      /\ 0 \notin Range(y)
  BY <1>7, ReadingString
<1>10. m \in Nat
  BY <1>9, LenProperties
<1>11. \A i \in 1 .. m : y[i] # 0
  <2> HIDE DEF y
  <2>1. \A i \in 1 .. m : y[i] \in Range(y)
    BY <1>9, LenProperties DEF Range
  <2>2. QED
    BY <1>9, <2>1
<1> HIDE DEF y, m
<1>12. m = n
  <2>1. CASE m < n
    <3>1. m + 1 \in 1 .. n /\ m + 1 \in 1 .. n + 1 /\ pos + (m + 1) = pos + m + 1
      BY <1>1, <1>10, <2>1 DEF n
    <3>2. x[m + 1] = 0
      BY <1>3, <1>5, <1>9, <3>1
    <3>3. QED
      BY <1>6, <3>1, <3>2
  <2>2. CASE n < m
    <3>1. n + 1 \in 1 .. m /\ n + 1 \in 1 .. n + 1
      BY <1>1, <1>10, <2>2 DEF n
    <3>2. y[n + 1] = 0
      BY <1>3, <1>5, <1>9, <3>1
    <3>3. QED
      BY <1>11, <3>1, <3>2
  <2>3. QED
    BY <1>1, <1>10, <2>1, <2>2 DEF n
<1>13. \A i \in 1 .. n : y[i] = x[i]
  <2> SUFFICES ASSUME NEW i \in 1 .. n PROVE y[i] = x[i]
    OBVIOUS
  <2>1. i \in 1 .. n + 1 /\ i \in 1 .. m
    BY <1>1, <1>12 DEF n
  <2>2. QED
    BY <1>3, <1>5, <1>9, <2>1
<1>14. y = x
  <2>1. y \in Seq(B) /\ Len(y) = Len(x)
    BY <1>9, <1>12 DEF B, m, n
  <2>2. QED
    BY <1>1, <1>13, <2>1, SeqEqual DEF n
<1>15. QED
  BY <1>7, <1>14 DEF y

-----------------------------------------------------------------------------
(* What a header starts with *)

\* The bytes s start with the bytes p.
Starts(s, p) == Raw(p) /\ \E r : Raw(r) /\ s = Join(p, r)

\* What a start starts with, the whole starts with.
LEMMA StartsTransitive ==
  ASSUME NEW s, NEW p, NEW q, Starts(s, p), Starts(p, q)
  PROVE  Starts(s, q)
<1>1. PICK r : Raw(r) /\ s = Join(p, r)
  BY DEF Starts
<1>2. PICK u : Raw(u) /\ p = Join(q, u)
  BY DEF Starts
<1>3. Raw(q) /\ Raw(Join(u, r))
  BY <1>1, <1>2, Joined DEF Starts
<1>4. s = Join(q, Join(u, r))
  BY <1>1, <1>2, <1>3, Regroup
<1>5. QED
  BY <1>3, <1>4 DEF Starts

\* Two byte strings start with the first, and with whatever the second starts with.
LEMMA StartsInto ==
  ASSUME NEW p, NEW q, NEW x, Raw(p), Raw(q), Starts(q, x)
  PROVE  Starts(Join(p, q), p) /\ Starts(Join(p, q), Join(p, x))
<1>1. PICK r : Raw(r) /\ q = Join(x, r)
  BY DEF Starts
<1>2. Raw(x) /\ Raw(Join(p, x))
  BY Joined DEF Starts
<1>3. Join(p, q) = Join(Join(p, x), r)
  BY <1>1, <1>2, Regroup
<1>4. QED
  BY <1>1, <1>2, <1>3 DEF Starts

\* Every byte string starts with itself.
LEMMA StartsItself ==
  ASSUME NEW s, Raw(s)
  PROVE  Starts(s, s)
<1>1. Raw(<<>>) /\ Join(s, <<>>) = s
  BY Joined DEF Raw, Join
<1>2. QED
  BY <1>1 DEF Starts

\* A start that is followed by what begins with x is followed by x.
LEMMA StartsOn ==
  ASSUME NEW s, NEW p, NEW q, NEW x, Raw(p), Raw(q), Starts(s, Join(p, q)), Starts(q, x)
  PROVE  Starts(s, Join(p, x)) /\ Starts(s, p)
BY StartsInto, StartsTransitive

\* What comes next follows what has been read.
LEMMA AheadOf ==
  ASSUME TypeOK, NEW x, Raw(x), Starts(stream, Join(Pre(pos), x))
  PROVE  Ahead(x)
BY DEF Starts, Ahead

\* After p and a part d of a table comes e, if the table goes on with it.
LEMMA AheadNext ==
  ASSUME TypeOK, NEW p, NEW q, NEW d, NEW e, Raw(p), Raw(q), Raw(d), Raw(e),
         Starts(stream, Join(p, q)), Starts(q, Join(d, e)), Pre(pos) = Join(p, d)
  PROVE  Ahead(e)
<1>1. Starts(stream, Join(p, Join(d, e)))
  BY StartsOn
<1>2. Join(p, Join(d, e)) = Join(Join(p, d), e)
  BY Regroup
<1>3. QED
  BY <1>1, <1>2, AheadOf

\* A header starts with each of its parts after those before it.
LEMMA HeaderStarts ==
  ASSUME NEW a \in RawArchive
  PROVE  /\ Starts(WriteMetadata(a), WriteArchiveSettings(a))
         /\ Starts(WriteMetadata(a), Join(WriteArchiveSettings(a), WriteRawStrings(a.strings)))
         /\ Starts(WriteMetadata(a), Join(ToNames(a), WriteRawFileChunkMap(a.files)))
         /\ Starts(WriteMetadata(a),
                   Join(Join(ToFiles(a), Bytes16(a.num_archive_files)), Bytes16(a.num_chunks)))
         /\ Starts(WriteMetadata(a),
                   Join(Join(Join(ToFiles(a), Bytes16(a.num_archive_files)), Bytes16(a.num_chunks)),
                        WriteChunks(a.chunks)))
         /\ Starts(WriteMetadata(a), Join(ToChunks(a), WriteRawStrings(a.volume_files)))
         /\ Starts(WriteMetadata(a),
                   Join(Join(ToChunks(a), WriteRawStrings(a.volume_files)), a.range_settings))
<1> DEFINE s == WriteArchiveSettings(a)
           n == WriteRawStrings(a.strings)
           f == WriteRawFileChunkMap(a.files)
           v == Bytes16(a.num_archive_files)
           k == Bytes16(a.num_chunks)
           c == WriteChunks(a.chunks)
           l == WriteRawStrings(a.volume_files)
           g == a.range_settings
           w == WriteMetadata(a)
           s1 == Join(s, n)
           s2 == Join(s1, f)
           s3 == Join(s2, v)
           s4 == Join(s3, k)
           s5 == Join(s4, c)
           s6 == Join(s5, l)
           s7 == Join(s6, g)
<1>1. Raw(s) /\ Raw(n) /\ Raw(f) /\ Raw(v) /\ Raw(k) /\ Raw(c) /\ Raw(l) /\ Raw(g) /\ Raw(w)
  BY PartsTyped DEF Raw
<1>2. s1 = ToNames(a) /\ s2 = ToFiles(a) /\ s5 = ToChunks(a)
  BY DEF ToNames, ToFiles, ToChunks, Join
<1>3. w = s7
  BY PartsTyped, <1>2 DEF Join
<1> HIDE DEF s, n, f, v, k, c, l, g, w
<1>4. \A p, q : Raw(p) /\ Raw(q) => Raw(Join(p, q)) /\ Starts(Join(p, q), p)
  BY Joined, StartsInto, StartsItself
<1> HIDE DEF s1, s2, s3, s4, s5, s6, s7
<1>5. Raw(s1) /\ Starts(s1, s)
  BY <1>1, <1>4 DEF s1
<1>6. Raw(s2) /\ Starts(s2, s1)
  BY <1>1, <1>4, <1>5 DEF s2
<1>7. Raw(s3) /\ Starts(s3, s2)
  BY <1>1, <1>4, <1>6 DEF s3
<1>8. Raw(s4) /\ Starts(s4, s3)
  BY <1>1, <1>4, <1>7 DEF s4
<1>9. Raw(s5) /\ Starts(s5, s4)
  BY <1>1, <1>4, <1>8 DEF s5
<1>10. Raw(s6) /\ Starts(s6, s5)
  BY <1>1, <1>4, <1>9 DEF s6
<1>11. Starts(w, s7)
  BY <1>1, <1>3, StartsItself
<1>12. Starts(w, s6)
  BY <1>1, <1>3, <1>4, <1>10 DEF s7
<1>13. Starts(w, s5)
  BY <1>10, <1>12, StartsTransitive
<1>14. Starts(w, s4)
  BY <1>9, <1>13, StartsTransitive
<1>15. Starts(w, s3)
  BY <1>8, <1>14, StartsTransitive
<1>16. Starts(w, s2)
  BY <1>7, <1>15, StartsTransitive
<1>17. Starts(w, s1)
  BY <1>6, <1>16, StartsTransitive
<1>18. Starts(w, s)
  BY <1>5, <1>17, StartsTransitive
<1>19. QED
  BY <1>2, <1>11, <1>12, <1>13, <1>14, <1>16, <1>17, <1>18
     DEF s, n, f, v, k, c, l, g, w, s1, s2, s3, s4, s5, s6, s7

-----------------------------------------------------------------------------
(* The inductive invariant *)

\* What was written last agrees with its counts and keeps to the limits.
Good == written # None /\ Consistent(written) /\ WithinLimits(written)

\* The files s are a beginning of t, but for the ids of the last, which may be
\* a beginning of its ids.
Partly(s, t) ==
  /\ s # <<>> /\ Len(s) <= Len(t)
  /\ \A i \in 1 .. Len(s) - 1 : s[i] = t[i]
  /\ s[Len(s)].directory_id = t[Len(s)].directory_id
  /\ Begun(s[Len(s)].chunk_ids, t[Len(s)].chunk_ids)

\* What has been read is the beginning of what was written.
Follows ==
  /\ pc # "refused"
  /\ pc \in Counted => /\ raw.num_user_files = written.num_user_files
                       /\ raw.num_directories = written.num_directories
  /\ pc = "strings" => Begun(raw.strings, written.strings)
  /\ pc \in Counted \ {"strings"} => raw.strings = written.strings
  /\ pc = "files" => Begun(raw.files, written.files)
  /\ pc = "ids" => Partly(raw.files, written.files)
  /\ pc \in Mapped => raw.files = written.files
  /\ pc \in Mapped \ {"counts"} => /\ raw.num_archive_files = written.num_archive_files
                                   /\ raw.num_chunks = written.num_chunks
  /\ pc = "chunks" => Begun(raw.chunks, written.chunks)
  /\ pc \in Tabled => raw.chunks = written.chunks
  /\ pc = "volumes" => Begun(raw.volume_files, written.volume_files)
  /\ pc = "range" => raw.volume_files = written.volume_files
  /\ pc = "parsed" => raw = written

FromWritten == written # None => stream = WriteMetadata(written)

Agrees == FromWritten /\ (Good => Follows)

\* The fields of a header have their types.
LEMMA HeaderTyped ==
  ASSUME NEW a \in RawArchive
  PROVE  /\ a.header \in U32 /\ a.version \in Byte
         /\ a.num_user_files \in U16 /\ a.num_directories \in U16
         /\ a.num_archive_files \in U16 /\ a.num_chunks \in U16
         /\ a.strings \in Seq(Seq(Byte)) /\ a.volume_files \in Seq(Seq(Byte))
         /\ a.files \in Seq(FileRecord) /\ a.chunks \in Seq(ChunkRecord)
         /\ U16 \subseteq Nat
BY Widths DEF RawArchive

\* A good header keeps to the counts and the limits.
LEMMA GoodHeader ==
  ASSUME IInv, Good, FromWritten
  PROVE  /\ TypeOK /\ written \in RawArchive /\ stream = WriteMetadata(written)
         /\ written.header = Magic /\ written.version = 0
         /\ written.num_user_files \in 1 .. limits.entries
         /\ written.num_directories # 0 /\ written.num_archive_files # 0
         /\ written.num_chunks <= limits.chunks
         /\ Len(written.strings) = written.num_user_files + written.num_directories - 1
         /\ Len(written.files) = written.num_user_files
         /\ Len(written.chunks) = written.num_chunks
         /\ Len(written.volume_files) = written.num_archive_files - 1
         /\ Len(written.range_settings) = IF HasDz(written) THEN 10 ELSE 0
         /\ \A i \in DOMAIN written.files : FileKept(written.files[i])
         /\ References(written) <= limits.references
         /\ MetadataBytes(written) <= limits.metadata
<1>1. TypeOK /\ written \in RawArchive /\ stream = WriteMetadata(written)
  BY DEF IInv, TypeOK, Good, FromWritten
<1>2. written.num_user_files \in Nat /\ limits.entries \in Nat
  BY <1>1, HeaderTyped DEF TypeOK, ReadLimits
<1>3. Consistent(written) /\ WithinLimits(written)
  BY DEF Good
<1>4. written.num_user_files \in 1 .. limits.entries
  BY <1>2, <1>3 DEF Consistent, WithinLimits
<1>5. written.num_directories # 0 /\ written.num_archive_files # 0
  BY <1>3 DEF Consistent
<1>6. QED
  BY <1>1, <1>3, <1>4, <1>5 DEF Consistent, WithinLimits, FileKept

\* Its settings are read as they were written.
LEMMA ReadArchiveSettingsFollows ==
  ASSUME IInv, Good, FromWritten, ReadArchiveSettings
  PROVE  Follows'
<1> DEFINE u == written.num_user_files
           d == written.num_directories
           m == Bytes32(Magic)
           v == Bytes16(u)
           w == Bytes16(d)
           z == <<0>>
           mv == Join(m, v)
           mvw == Join(mv, w)
           all == Join(mvw, z)
<1>1. /\ pc = "settings" /\ pos = 0 /\ raw = Blank /\ TypeOK /\ written \in RawArchive
      /\ stream = WriteMetadata(written) /\ written' = written
  BY GoodHeader DEF ReadArchiveSettings, IInv, Shaped
<1>2. u \in U16 /\ d \in U16 /\ u \in 1 .. limits.entries /\ d # 0 /\ Magic \in U32
      /\ written.strings \in Seq(Seq(Byte))
  BY <1>1, GoodHeader, HeaderTyped, MetadataAssumption
<1>3. WriteArchiveSettings(written) = all
  BY GoodHeader DEF WriteArchiveSettings, Join
<1> HIDE DEF u, d
<1>4. /\ Raw(m) /\ Raw(v) /\ Raw(w) /\ Raw(z)
      /\ Len(m) = 4 /\ Len(v) = 2 /\ Len(w) = 2 /\ Len(z) = 1 /\ z[1] = 0
  <2>1. Raw(z) /\ Len(z) = 1 /\ z[1] = 0
    BY Widths DEF Raw
  <2>2. QED
    BY <1>2, <2>1, Bytes16Typed, Bytes32Typed DEF Raw
<1> HIDE DEF z
<1>5. At(1, all)
  <2>1. Starts(stream, all)
    BY <1>1, <1>3, HeaderStarts
  <2>2. Raw(all)
    BY <2>1 DEF Starts
  <2> HIDE DEF all
  <2>3. Join(Pre(pos), all) = all
    BY <1>1, <2>2, PreNothing, Joined DEF Join
  <2>4. QED
    BY <1>1, <2>1, <2>2, <2>3, AheadOf, AheadAt
<1> HIDE DEF m, v, w
<1>6. Raw(mv) /\ Raw(mvw) /\ Len(mv) = 6 /\ Len(mvw) = 8
  <2>1. Raw(mv) /\ Len(mv) = Len(m) + Len(v)
    BY <1>4, JoinLength
  <2> HIDE DEF mv
  <2>2. Raw(mvw) /\ Len(mvw) = Len(mv) + Len(w)
    BY <1>4, <2>1, JoinLength
  <2> HIDE DEF mvw
  <2>3. Len(mv) = 6
    BY <1>4, <2>1
  <2>4. Len(mvw) = 8
    BY <1>4, <2>2, <2>3
  <2>5. QED
    BY <2>1, <2>2, <2>3, <2>4
<1>7. 1 \in Nat \ {0} /\ 1 + 8 = 9 /\ 1 + 6 = 7 /\ 1 + 4 = 5
  OBVIOUS
<1> HIDE DEF mvw
<1>8. At(1, mvw) /\ At(9, z)
  <2>1. At(1, mvw) /\ At(1 + 8, z)
    BY <1>1, <1>4, <1>5, <1>6, <1>7, AtParts
  <2>2. QED
    BY <1>7, <2>1
<1> HIDE DEF mv
<1>9. At(1, mv) /\ At(7, w)
  <2>1. At(1, mv) /\ At(1 + 6, w)
    BY <1>1, <1>4, <1>6, <1>7, <1>8, AtParts DEF mvw
  <2>2. QED
    BY <1>7, <2>1
<1>10. At(1, m) /\ At(5, v)
  <2>1. At(1, m) /\ At(1 + 4, v)
    BY <1>1, <1>4, <1>7, <1>9, AtParts DEF mv
  <2>2. QED
    BY <1>7, <2>1
<1>11. Read32(1) = Magic
  BY <1>1, <1>2, <1>7, <1>10, At32 DEF m
<1>12. Read16(5) = u /\ Read16(7) = d
  <2>1. 5 \in Nat \ {0} /\ 7 \in Nat \ {0}
    OBVIOUS
  <2>2. Read16(5) = u
    BY <1>1, <1>2, <1>10, <2>1, At16 DEF v
  <2>3. Read16(7) = d
    BY <1>1, <1>2, <1>9, <2>1, At16 DEF w
  <2>4. QED
    BY <2>2, <2>3
<1>13. Has(9) /\ Read8(9) = 0
  <2>1. pos + (9 - 1) + 1 <= Len(stream) /\ stream[pos + (9 - 1) + 1] = 0
    BY <1>4, <1>8 DEF At
  <2>2. pos + (9 - 1) + 1 = pos + 9
    BY <1>1
  <2>3. QED
    BY <2>1, <2>2 DEF Has, Read8
<1>14. /\ raw' = [raw EXCEPT !.num_user_files = u, !.num_directories = d]
       /\ pc' = "strings"
  BY <1>2, <1>11, <1>12, <1>13 DEF ReadArchiveSettings
<1>15. (raw').num_user_files = u /\ (raw').num_directories = d /\ (raw').strings = <<>>
  BY <1>1, <1>14 DEF Blank
<1>16. Begun(<<>>, written.strings)
  <2> DEFINE n == Len(written.strings)
             S == Seq(Byte)
  <2>1. written.strings \in Seq(S)
    BY <1>2
  <2> HIDE DEF S
  <2>2. n \in Nat
    BY <2>1, LenProperties
  <2> HIDE DEF n
  <2>3. Len(<<>>) = 0 /\ 0 <= n
    BY <2>2
  <2>4. QED
    BY <2>3 DEF Begun, n
<1>17. QED
  BY <1>1, <1>14, <1>15, <1>16 DEF Follows, Reading, Counted, Mapped, Tabled, u, d

\* Each name of either table of a good header is within the limit, without a nul.
LEMMA GoodNames ==
  ASSUME IInv, Good, FromWritten
  PROVE  /\ \A i \in 1 .. Len(written.strings) : NameKept(written.strings[i])
         /\ \A i \in 1 .. Len(written.volume_files) : NameKept(written.volume_files[i])
<1> DEFINE S == Seq(Byte)
           s == written.strings
           t == written.volume_files
           m == Len(s)
           n == Len(t)
           u == s \o t
<1>1. s \in Seq(S) /\ t \in Seq(S)
  BY GoodHeader, HeaderTyped
<1>2. \A x \in Range(u) : NameKept(x)
  BY DEF Good, Consistent, WithinLimits, NameKept
<1> HIDE DEF S, s, t
<1>3. /\ m \in Nat /\ n \in Nat /\ u \in Seq(S) /\ Len(u) = m + n
      /\ \A i \in 1 .. m + n : u[i] = IF i <= m THEN s[i] ELSE t[i - m]
  BY <1>1, LenProperties, ConcatProperties
<1> HIDE DEF u
<1>4. DOMAIN u = 1 .. m + n
  BY <1>3, LenProperties
<1> HIDE DEF m, n
<1>5. \A i \in 1 .. m + n : NameKept(u[i])
  BY <1>2, <1>4 DEF Range
<1>6. ASSUME NEW i \in 1 .. m PROVE NameKept(s[i])
  <2>1. i \in 1 .. m + n /\ i <= m
    BY <1>3
  <2>2. u[i] = s[i]
    BY <1>3, <2>1
  <2>3. QED
    BY <1>5, <2>1, <2>2
<1>7. ASSUME NEW i \in 1 .. n PROVE NameKept(t[i])
  <2> DEFINE j == m + i
  <2>1. j \in 1 .. m + n /\ ~(j <= m) /\ j - m = i
    BY <1>3
  <2> HIDE DEF j
  <2>2. u[j] = t[j - m]
    BY <1>3, <2>1
  <2>3. QED
    BY <1>5, <2>1, <2>2
<1>8. QED
  BY <1>6, <1>7 DEF s, t, m, n

\* A beginning of a table of names takes no more than the table.
LEMMA EncodedBegun ==
  ASSUME NEW s \in Seq(Seq(Byte)), NEW t \in Seq(Seq(Byte)), Begun(s, t)
  PROVE  EncodedLength(s) <= EncodedLength(t)
<1> DEFINE T == Seq(Byte)
           f == [y \in T |-> Len(y) + 1]
<1>1. s \in Seq(T) /\ t \in Seq(T)
  OBVIOUS
<1>2. Maps(f, T, Nat)
  <2>1. \A y \in T : Len(y) + 1 \in Nat
    BY LenProperties
  <2>2. QED
    BY <2>1 DEF Maps
<1>3. \A r \in Seq(T) : EncodedLength(r) = SumEach(f, r)
  <2> SUFFICES ASSUME NEW r \in Seq(T)
               PROVE  [i \in DOMAIN r |-> Len(r[i]) + 1] = [i \in DOMAIN r |-> f[r[i]]]
    BY DEF EncodedLength, SumEach, Each
  <2>1. \A i \in DOMAIN r : r[i] \in T
    <3> HIDE DEF T
    <3>1. QED
      BY LenProperties
  <2>2. QED
    BY <2>1
<1> HIDE DEF f, T
<1>4. SumEach(f, s) <= SumEach(f, t)
  BY <1>1, <1>2, SumBegun
<1>5. QED
  BY <1>1, <1>3, <1>4

\* A beginning of a table of files has no more references than the table.
LEMMA ReferencesBegun ==
  ASSUME NEW s \in Seq(FileRecord), NEW t \in Seq(FileRecord), Begun(s, t)
  PROVE  ReferencesIn(s) <= ReferencesIn(t)
<1>1. PICK f, g :
    /\ Maps(f, FileRecord, Nat) /\ Maps(g, FileRecord, Nat)
    /\ \A r \in FileRecord :
         f[r] = 4 + 2 * Len(r.chunk_ids) /\ g[r] = Len(r.chunk_ids) /\ Len(r.chunk_ids) \in Nat
    /\ \A r \in Seq(FileRecord) :
         FileBytes(r) = SumEach(f, r) /\ ReferencesIn(r) = SumEach(g, r)
  BY FileSums
<1>2. SumEach(g, s) <= SumEach(g, t)
  BY <1>1, SumBegun
<1>3. QED
  BY <1>1, <1>2

\* The parts of the size of a good header are within the metadata limit.
LEMMA GoodSizes ==
  ASSUME IInv, Good, FromWritten
  PROVE  LET m == MetadataSizeBeforeVolumes(written)
             e == EncodedLength(written.strings)
             v == EncodedLength(written.volume_files)
         IN  /\ m \in Nat /\ e \in Nat /\ v \in Nat /\ limits.metadata \in Nat
             /\ e <= limits.metadata /\ m + v <= limits.metadata /\ m <= limits.metadata
<1> DEFINE m == MetadataSizeBeforeVolumes(written)
           e == EncodedLength(written.strings)
           v == EncodedLength(written.volume_files)
           b == FileBytes(written.files)
           c == Len(written.chunks)
           r == Len(written.range_settings)
           l == limits.metadata
<1>1. /\ TypeOK /\ written \in RawArchive /\ m + v + r <= l
  BY GoodHeader DEF MetadataBytes
<1>2. c \in Nat /\ r \in Nat
  <2>1. written.chunks \in Seq(ChunkRecord)
    BY <1>1, HeaderTyped
  <2>2. c \in Nat
    BY <2>1, LenProperties
  <2>3. r \in Nat
    BY GoodHeader
  <2>4. QED
    BY <2>2, <2>3
<1>3. m = 9 + e + b + 4 + 16 * c /\ m \in Nat /\ e \in Nat /\ v \in Nat /\ b \in Nat
  BY <1>1, <1>2, HeaderTyped, Sizes
<1>4. l \in Nat
  BY <1>1 DEF TypeOK, ReadLimits
<1> HIDE DEF m, e, v, b, c, r, l
<1>5. e <= l /\ m + v <= l /\ m <= l
  BY <1>1, <1>2, <1>3, <1>4
<1>6. QED
  BY <1>3, <1>4, <1>5 DEF m, e, v, l

\* A table of names that has been read up to s is read on to its end t.
LEMMA NextName ==
  ASSUME TypeOK, NEW s \in Seq(Seq(Byte)), NEW t \in Seq(Seq(Byte)), Begun(s, t),
         Len(s) # Len(t), \A i \in 1 .. Len(t) : NameKept(t[i]),
         NEW p, Raw(p), Starts(stream, Join(p, WriteRawStrings(t))),
         Pre(pos) = Join(p, WriteRawStrings(s))
  PROVE  /\ NulsInReach # {} /\ Begun(Append(s, NextString), t)
         /\ EncodedLength(s) + (Len(NextString) + 1) <= EncodedLength(t)
<1> DEFINE S == Seq(Byte)
           x == t[Len(s) + 1]
           q == WriteRawStrings(t)
           d == WriteRawStrings(s)
           e == Append(x, 0)
           u == Append(s, x)
<1>1. s \in Seq(S) /\ t \in Seq(S)
  OBVIOUS
<1>2. /\ x \in Seq(Byte) /\ Raw(e)
      /\ \E r : Raw(r) /\ q = Join(Join(d, e), r)
  BY StringsGoOn
<1>3. Len(s) + 1 \in 1 .. Len(t) /\ x \in S /\ u \in Seq(S) /\ Begun(u, t)
  <2> HIDE DEF S
  <2>1. QED
    BY <1>1, BegunGoesOn
<1> HIDE DEF x
<1>4. Raw(q) /\ Raw(d)
  BY <1>2, StringsWritten DEF Raw
<1>5. NameKept(x)
  BY <1>3 DEF x
<1> HIDE DEF q, d
<1>6. Starts(q, Join(d, e))
  BY <1>2, <1>4, Joined DEF Starts
<1>7. Ahead(e)
  <2> HIDE DEF e
  <2>1. Starts(stream, Join(p, q)) /\ Pre(pos) = Join(p, d)
    BY DEF q, d
  <2>2. QED
    BY <1>2, <1>4, <1>6, <2>1, AheadNext
<1>8. NulsInReach # {} /\ NextString = x
  BY <1>2, <1>5, <1>7, AheadString DEF NameKept
<1>9. EncodedLength(u) = EncodedLength(s) + (Len(x) + 1)
  BY <1>2, StringSizes
<1>10. EncodedLength(u) <= EncodedLength(t)
  BY <1>3, EncodedBegun DEF S
<1>11. QED
  BY <1>3, <1>8, <1>9, <1>10

\* Nothing is a beginning of every list.
LEMMA NothingBegun ==
  ASSUME NEW S, NEW t \in Seq(S)
  PROVE  Begun(<<>>, t)
<1>1. Len(t) \in Nat /\ Len(<<>>) = 0
  BY LenProperties
<1> DEFINE n == Len(t)
<1> HIDE DEF n
<1>2. QED
  BY <1>1 DEF Begun, n

\* With the same counts the settings are the same bytes.
LEMMA SameSettings ==
  ASSUME IInv, Good, FromWritten, Follows, pc \in Counted
  PROVE  WriteArchiveSettings(raw) = WriteArchiveSettings(written)
<1>1. raw.header = Magic /\ raw.version = 0
  BY DEF IInv, Shaped
<1>2. raw.num_user_files = written.num_user_files /\ raw.num_directories = written.num_directories
  BY DEF Follows
<1>3. QED
  BY <1>1, <1>2, GoodHeader DEF WriteArchiveSettings

\* Its names are read one by one.
LEMMA ReadStringsFollows ==
  ASSUME IInv, Mirrored, Good, FromWritten, Follows, ReadStrings
  PROVE  Follows'
<1> DEFINE s == raw.strings
           t == written.strings
           x == NextString
           all == raw.num_user_files + raw.num_directories - 1
<1>1. /\ pc = "strings" /\ UNCHANGED <<stream, limits, written>>
      /\ TypeOK /\ Shaped /\ Reckoned
  BY DEF ReadStrings, IInv
<1>2. /\ raw.num_user_files = written.num_user_files
      /\ raw.num_directories = written.num_directories /\ Begun(s, t)
  BY <1>1 DEF Follows, Reading, Counted
<1>3. /\ written \in RawArchive /\ s \in Seq(Seq(Byte)) /\ t \in Seq(Seq(Byte))
      /\ Len(t) = all
  BY <1>1, <1>2, GoodHeader, HeaderTyped, RawTyped
<1>4. Len(s) \in Nat /\ Len(t) \in Nat /\ Len(s) <= Len(t) /\ (Len(s) = Len(t) => s = t)
  <2> DEFINE S == Seq(Byte)
  <2>1. s \in Seq(S) /\ t \in Seq(S)
    BY <1>3
  <2> HIDE DEF S, s, t
  <2>2. QED
    BY <1>2, <2>1, BegunGoesOn
<1>5. CASE ~(Len(s) < all)
  <2>1. pc' = "files" /\ raw' = raw
    BY <1>5 DEF ReadStrings, Goto
  <2> DEFINE m == Len(s)
             n == Len(t)
  <2>2. m \in Nat /\ n \in Nat /\ m <= n /\ ~(m < n)
    BY <1>3, <1>4, <1>5
  <2> HIDE DEF m, n
  <2>3. m = n
    BY <2>2
  <2>4. s = t
    BY <1>4, <2>3 DEF m, n
  <2>5. Begun(raw.files, written.files)
    <3>1. raw.files = <<>>
      BY <1>1 DEF Shaped
    <3>2. written.files \in Seq(FileRecord)
      BY <1>3, HeaderTyped
    <3>3. QED
      BY <3>1, <3>2, NothingBegun
  <2>6. QED
    BY <1>1, <1>2, <2>1, <2>4, <2>5 DEF Follows, Reading, Counted, Mapped, Tabled
<1>6. CASE Len(s) < all
  <2>1. Len(s) # Len(t)
    BY <1>3, <1>4, <1>6
  <2> DEFINE p == WriteArchiveSettings(raw)
  <2>2. Raw(p) /\ Pre(pos) = Join(p, WriteRawStrings(s))
    <3>1. raw \in RawArchive
      BY <1>1 DEF TypeOK
    <3>2. QED
      BY <1>1, <3>1, PartsTyped DEF Raw, Mirrored, ToNames, Join
  <2>3. Starts(stream, Join(p, WriteRawStrings(t)))
    BY <1>1, <1>3, GoodHeader, HeaderStarts, SameSettings DEF Reading, Counted
  <2>4. \A i \in 1 .. Len(t) : NameKept(t[i])
    BY GoodNames
  <2> HIDE DEF p
  <2>5. /\ NulsInReach # {} /\ Begun(Append(s, x), t)
        /\ EncodedLength(s) + (Len(x) + 1) <= EncodedLength(t)
    <3> HIDE DEF s, t, x
    <3>1. QED
      BY <1>1, <1>2, <1>3, <2>1, <2>2, <2>3, <2>4, NextName DEF x
  <2>6. ~(total + Len(x) + 1 > limits.metadata)
    <3> DEFINE e == EncodedLength(s)
               l == Len(x)
               m == EncodedLength(t)
    <3>1. e + (l + 1) <= m /\ m <= limits.metadata /\ m \in Nat /\ limits.metadata \in Nat
      BY <2>5, GoodSizes
    <3>2. total = e /\ total \in Nat
      BY <1>1 DEF Reckoned, TypeOK
    <3>3. l \in Nat
      BY <1>1, <2>5, ReadingString, LenProperties
    <3> HIDE DEF e, l, m
    <3>4. ~(total + l + 1 > limits.metadata)
      BY <3>1, <3>2, <3>3
    <3>5. QED
      BY <3>4 DEF l
  <2>7. pc' = pc /\ raw' = [raw EXCEPT !.strings = Append(@, x)]
    BY <1>6, <2>5, <2>6 DEF ReadStrings, ReadString
  <2>8. /\ (raw').strings = Append(s, x) /\ (raw').num_user_files = raw.num_user_files
        /\ (raw').num_directories = raw.num_directories
    <3>1. raw \in RawArchive
      BY <1>1 DEF TypeOK
    <3> DEFINE u == Append(s, x)
    <3>2. raw' = [raw EXCEPT !.strings = u]
      BY <2>7
    <3> HIDE DEF u, x
    <3>3. QED
      BY <3>1, <3>2 DEF RawArchive, u
  <2>9. QED
    BY <1>1, <1>2, <2>5, <2>7, <2>8 DEF Follows, Reading, Counted, Mapped, Tabled
<1>7. QED
  BY <1>5, <1>6

\* A list that is not empty is its front and its last element.
LEMMA FrontAndLast ==
  ASSUME NEW S, NEW s \in Seq(S), s # <<>>
  PROVE  /\ Len(s) \in Nat \ {0} /\ s[Len(s)] \in S
         /\ \E h \in Seq(S) : /\ Len(h) = Len(s) - 1 /\ s = Append(h, s[Len(s)])
                              /\ \A i \in 1 .. Len(s) - 1 : h[i] = s[i]
<1> DEFINE k == Len(s)
           m == k - 1
           h == SubSeq(s, 1, m)
           x == s[k]
<1>1. k \in Nat \ {0} /\ m \in Nat
  BY LenProperties, EmptySeq
<1>2. x \in S
  BY <1>1, ElementOfSeq
<1>3. \A i \in 1 .. m : s[i] \in S
  BY <1>1, ElementOfSeq
<1> HIDE DEF m
<1>4. h \in Seq(S)
  BY <1>1, <1>3, SubSeqProperties
<1>5. Len(h) = (IF 1 <= m THEN m - 1 + 1 ELSE 0) /\ \A i \in 1 .. m - 1 + 1 : h[i] = s[1 + i - 1]
  BY <1>1, <1>3, SubSeqProperties
<1> HIDE DEF h
<1>6. Len(h) = m
  BY <1>1, <1>5
<1>7. ASSUME NEW i \in 1 .. m PROVE h[i] = s[i]
  <2>1. i \in 1 .. m - 1 + 1 /\ 1 + i - 1 = i
    BY <1>1
  <2>2. QED
    BY <1>5, <2>1
<1> DEFINE u == Append(h, x)
<1> HIDE DEF x
<1>8. /\ u \in Seq(S) /\ Len(u) = m + 1 /\ u[m + 1] = x
      /\ \A i \in 1 .. m : u[i] = h[i]
  BY <1>2, <1>4, <1>6, AppendProperties
<1> HIDE DEF u, k
<1>9. m + 1 = k
  BY <1>1 DEF m
<1>10. ASSUME NEW i \in 1 .. k PROVE u[i] = s[i]
  <2>1. i = k \/ i \in 1 .. m
    BY <1>1, <1>9
  <2>2. QED
    BY <1>7, <1>8, <1>9, <2>1 DEF x
<1>11. u = s
  BY <1>8, <1>9, <1>10, SeqEqual DEF k
<1>12. QED
  BY <1>1, <1>2, <1>4, <1>6, <1>7, <1>11 DEF k, m, x, u

\* A table of files goes on with a file that has none of its ids yet.
LEMMA PartlyBegins ==
  ASSUME NEW s \in Seq(FileRecord), NEW t \in Seq(FileRecord), Begun(s, t), Len(s) # Len(t),
         NEW y \in FileRecord, y.directory_id = t[Len(s) + 1].directory_id, y.chunk_ids = <<>>
  PROVE  Partly(Append(s, y), t)
<1> DEFINE T == FileRecord
           n == Len(s)
           u == Append(s, y)
           x == t[n + 1]
<1>1. /\ n \in Nat /\ Len(t) \in Nat /\ n <= Len(t) /\ n + 1 \in 1 .. Len(t) /\ x \in T
  <2> HIDE DEF T
  <2>1. s \in Seq(T) /\ t \in Seq(T)
    BY DEF T
  <2>2. QED
    BY <2>1, BegunGoesOn
<1>2. Begun(<<>>, x.chunk_ids)
  <2>1. x.chunk_ids \in Seq(U16)
    BY <1>1 DEF FileRecord
  <2>2. QED
    BY <2>1, NothingBegun
<1>3. s \in Seq(T) /\ y \in T
  OBVIOUS
<1> HIDE DEF T
<1>4. /\ u \in Seq(T) /\ Len(u) = n + 1 /\ u[n + 1] = y
      /\ \A i \in 1 .. n : u[i] = s[i]
  BY <1>3, AppendProperties
<1> HIDE DEF u
<1>5. u # <<>>
  <2>1. Len(<<>>) = 0
    OBVIOUS
  <2>2. QED
    BY <1>1, <1>4, <2>1
<1>6. \A i \in 1 .. n : s[i] = t[i]
  BY DEF Begun
<1>7. y.directory_id = x.directory_id /\ Begun(y.chunk_ids, x.chunk_ids)
  BY <1>2
<1> HIDE DEF n, x
<1>8. (n + 1) - 1 = n /\ n + 1 <= Len(t)
  BY <1>1
<1>9. Partly(u, t)
  BY <1>4, <1>5, <1>6, <1>7, <1>8 DEF Partly, x
<1>10. QED
  BY <1>9 DEF u

\* The files before the last of a table that has been read in part.
LEMMA PartlyFront ==
  ASSUME NEW s \in Seq(FileRecord), NEW t \in Seq(FileRecord), Partly(s, t)
  PROVE  /\ Len(s) \in 1 .. Len(t) /\ s[Len(s)] \in FileRecord /\ t[Len(s)] \in FileRecord
         /\ \E h \in Seq(FileRecord) :
              /\ Begun(h, t) /\ Len(h) # Len(t) /\ Len(h) + 1 = Len(s)
              /\ s = Append(h, s[Len(s)]) /\ Begun(Append(h, t[Len(s)]), t)
<1> DEFINE T == FileRecord
           k == Len(s)
           n == Len(t)
<1>1. s \in Seq(T) /\ t \in Seq(T) /\ s # <<>>
  BY DEF Partly
<1> HIDE DEF T
<1>2. /\ k \in Nat \ {0} /\ s[k] \in T
      /\ \E h \in Seq(T) : /\ Len(h) = k - 1 /\ s = Append(h, s[k])
                           /\ \A i \in 1 .. k - 1 : h[i] = s[i]
  BY <1>1, FrontAndLast
<1>3. PICK h \in Seq(T) : /\ Len(h) = k - 1 /\ s = Append(h, s[k])
                          /\ \A i \in 1 .. k - 1 : h[i] = s[i]
  BY <1>2
<1>4. n \in Nat /\ k <= n /\ \A i \in 1 .. k - 1 : s[i] = t[i]
  BY <1>1, LenProperties DEF Partly
<1> HIDE DEF k, n
<1>5. Len(h) <= n /\ Len(h) # n /\ Len(h) + 1 = k /\ k \in 1 .. n
  BY <1>2, <1>3, <1>4
<1>6. Begun(h, t)
  BY <1>3, <1>4, <1>5 DEF Begun, n
<1>7. t[k] \in T
  BY <1>1, <1>5, ElementOfSeq DEF n
<1>8. Begun(Append(h, t[Len(h) + 1]), t)
  BY <1>1, <1>5, <1>6, BegunGoesOn DEF n
<1>9. QED
  BY <1>2, <1>3, <1>5, <1>6, <1>7, <1>8 DEF T, k, n

\* A directory is followed by the ids, and the ids by the terminator.
LEMMA NextOfList ==
  ASSUME TypeOK, NEW s \in Seq(FileRecord), NEW t \in Seq(FileRecord), Partly(s, t),
         NEW p, Raw(p), Starts(stream, Join(p, WriteRawFileChunkMap(t))),
         Join(Pre(pos), Bytes16(Terminator)) = Join(p, WriteRawFileChunkMap(s))
  PROVE  LET c == s[Len(s)].chunk_ids
             z == t[Len(s)].chunk_ids
         IN  /\ Len(c) = Len(z) => Ahead(Bytes16(Terminator))
             /\ Len(c) # Len(z) => Ahead(Bytes16(z[Len(c) + 1]))
<1> DEFINE y == s[Len(s)]
           x == t[Len(s)]
           c == y.chunk_ids
           z == x.chunk_ids
<1>1. PICK h \in Seq(FileRecord) :
         /\ Begun(h, t) /\ Len(h) # Len(t) /\ Len(h) + 1 = Len(s)
         /\ s = Append(h, y)
  BY PartlyFront
<1>2. x \in FileRecord /\ y \in FileRecord
  BY PartlyFront
<1>3. y.directory_id = x.directory_id /\ Begun(c, z)
  BY DEF Partly
<1>4. t[Len(h) + 1] = x
  BY <1>1
<1> HIDE DEF x, y
<1>5. c \in Seq(U16) /\ z \in Seq(U16) /\ x.directory_id \in U16
  BY <1>2 DEF FileRecord
<1> DEFINE f == WriteRawFileChunkMap(h)
           d == Bytes16(x.directory_id)
           ci == WriteIds(c)
           zi == WriteIds(z)
           e == Bytes16(Terminator)
           g == WriteRawFileChunkMap(t)
           r == Pre(pos)
           xi == WriteFile(x)
<1>6. Raw(f) /\ Raw(d) /\ Raw(ci) /\ Raw(zi) /\ Raw(e) /\ Raw(g) /\ Raw(r) /\ Raw(xi)
  <2>1. Raw(f) /\ Raw(g)
    BY <1>2, FilesWritten DEF Raw
  <2>2. Raw(d) /\ Raw(e)
    BY <1>5, Widths, Bytes16Typed DEF Raw
  <2>3. Raw(ci) /\ Raw(zi)
    <3>1. 0 \in U16
      BY Widths
    <3>2. QED
      BY <1>5, <3>1, IdsWritten DEF Raw
  <2>4. Raw(r)
    <3>1. pos \in 0 .. Len(stream)
      BY DEF TypeOK
    <3>2. QED
      BY <3>1, PreTyped DEF Raw
  <2>5. Raw(xi)
    BY <1>2, FileTyped DEF Raw
  <2>6. QED
    BY <2>1, <2>2, <2>3, <2>4, <2>5
<1>7. WriteRawFileChunkMap(s) = Join(f, Join(Join(d, ci), e))
  BY <1>1, <1>2, <1>3, FilesWritten DEF WriteFile, Join
<1>8. xi = Join(Join(d, zi), e)
  BY DEF WriteFile, Join
<1>9. Starts(g, Join(f, xi))
  <2>1. \E u : Raw(u) /\ g = Join(Join(f, xi), u)
    BY <1>1, <1>4, FilesGoOn
  <2> HIDE DEF g, f, xi
  <2>2. QED
    BY <1>6, <2>1, Joined DEF Starts
<1>10. Len(c) # Len(z) => Starts(zi, Join(ci, Bytes16(z[Len(c) + 1]))) /\ Raw(Bytes16(z[Len(c) + 1]))
  <2> SUFFICES ASSUME Len(c) # Len(z)
               PROVE  /\ Starts(zi, Join(ci, Bytes16(z[Len(c) + 1])))
                      /\ Raw(Bytes16(z[Len(c) + 1]))
    OBVIOUS
  <2> DEFINE b == Bytes16(z[Len(c) + 1])
  <2> HIDE DEF c, z
  <2>1. Raw(b) /\ \E u : Raw(u) /\ zi = Join(Join(ci, b), u)
    BY <1>3, <1>5, IdsGoOn
  <2> HIDE DEF zi, ci, b
  <2>2. Starts(zi, Join(ci, b))
    BY <1>6, <2>1, Joined DEF Starts
  <2>3. QED
    BY <2>1, <2>2 DEF b
<1>11. Len(c) = Len(z) => ci = zi
  <2> HIDE DEF c, z
  <2>1. Len(c) = Len(z) => c = z
    BY <1>3, <1>5, BegunGoesOn
  <2>2. QED
    BY <2>1
<1>12. Starts(stream, Join(p, g)) /\ Join(r, e) = Join(p, WriteRawFileChunkMap(s))
  OBVIOUS
<1> HIDE DEF f, d, ci, zi, e, g, r, xi
<1> DEFINE fd == Join(f, d)
           a == Join(p, fd)
           q == Join(zi, e)
<1>13. Raw(fd) /\ Raw(q) /\ Raw(Join(d, ci)) /\ Raw(Join(fd, ci))
  <2>1. Raw(fd) /\ Raw(q) /\ Raw(Join(d, ci))
    BY <1>6, Joined
  <2> HIDE DEF fd
  <2>2. QED
    BY <1>6, <2>1, Joined
<1>14. Raw(a)
  <2> HIDE DEF fd
  <2>1. QED
    BY <1>13, Joined
<1>15. r = Join(a, ci)
  <2>1. Join(f, Join(Join(d, ci), e)) = Join(Join(fd, ci), e)
    <3>1. Join(Join(d, ci), e) = Join(d, Join(ci, e)) /\ Raw(Join(ci, e))
      BY <1>6, Regroup, Joined
    <3>2. Join(f, Join(d, Join(ci, e))) = Join(fd, Join(ci, e))
      BY <1>6, <3>1, Regroup
    <3> HIDE DEF fd
    <3>3. Join(fd, Join(ci, e)) = Join(Join(fd, ci), e)
      BY <1>6, <1>13, Regroup
    <3>4. QED
      BY <3>1, <3>2, <3>3
  <2> HIDE DEF fd
  <2>2. Join(p, Join(Join(fd, ci), e)) = Join(Join(p, Join(fd, ci)), e)
    BY <1>6, <1>13, Regroup
  <2>3. Join(p, Join(fd, ci)) = Join(a, ci)
    BY <1>6, <1>13, Regroup
  <2> HIDE DEF a
  <2>4. Join(r, e) = Join(Join(a, ci), e) /\ Raw(Join(a, ci))
    BY <1>6, <1>7, <1>12, <1>14, <2>1, <2>2, <2>3, Joined
  <2>5. QED
    BY <1>6, <2>4, Cancelled
<1>16. Starts(stream, Join(a, q))
  <2>1. Starts(stream, Join(p, Join(f, xi)))
    BY <1>6, <1>9, <1>12, StartsOn
  <2>2. xi = Join(d, q)
    BY <1>6, <1>8, Regroup
  <2> HIDE DEF q
  <2>3. Join(f, Join(d, q)) = Join(fd, q)
    BY <1>6, <1>13, Regroup
  <2> HIDE DEF fd
  <2>4. Join(p, Join(fd, q)) = Join(a, q)
    BY <1>13, Regroup
  <2>5. QED
    BY <2>1, <2>2, <2>3, <2>4
<1> HIDE DEF a
<1>17. ASSUME Len(c) = Len(z) PROVE Ahead(e)
  <2>1. Starts(q, Join(ci, e))
    BY <1>11, <1>13, <1>17, StartsItself
  <2> HIDE DEF q
  <2>2. QED
    BY <1>6, <1>13, <1>14, <1>15, <1>16, <2>1, AheadNext DEF r
<1>18. ASSUME Len(c) # Len(z) PROVE Ahead(Bytes16(z[Len(c) + 1]))
  <2> DEFINE b == Bytes16(z[Len(c) + 1])
  <2>1. Raw(b) /\ Starts(zi, Join(ci, b))
    BY <1>10, <1>18
  <2> HIDE DEF b
  <2>2. Starts(q, zi)
    BY <1>6, StartsItself, StartsInto
  <2>3. Starts(q, Join(ci, b))
    BY <2>1, <2>2, StartsTransitive
  <2> HIDE DEF q
  <2>4. Ahead(b)
    BY <1>6, <1>13, <1>14, <1>15, <1>16, <2>1, <2>3, AheadNext DEF r
  <2>5. QED
    BY <2>4 DEF b
<1>19. QED
  BY <1>17, <1>18 DEF c, z, x, y, e

\* A u16 that comes next is read.
LEMMA Ahead16 ==
  ASSUME TypeOK, NEW v \in U16, Ahead(Bytes16(v))
  PROVE  Has(2) /\ Read16(1) = v
<1>1. 1 \in Nat \ {0} /\ At(1, Bytes16(v))
  BY AheadAt
<1>2. pos + 1 + 1 <= Len(stream) /\ Read16(1) = v
  BY <1>1, At16
<1>3. pos \in Nat /\ pos + 1 + 1 = pos + 2
  BY DEF TypeOK
<1>4. QED
  BY <1>2, <1>3 DEF Has

\* With the same names the header is the same up to them.
LEMMA SameNames ==
  ASSUME IInv, Good, FromWritten, Follows, pc \in Counted \ {"strings"}
  PROVE  ToNames(raw) = ToNames(written) /\ Raw(ToNames(raw))
<1>1. raw.strings = written.strings /\ pc \in Counted
  BY DEF Follows
<1>2. raw \in RawArchive
  BY DEF IInv, TypeOK
<1>3. QED
  BY <1>1, <1>2, SameSettings, PartsTyped DEF ToNames, Raw

\* What is known while the files are read.
LEMMA FilesFacts ==
  ASSUME IInv, Good, FromWritten, Follows, pc \in {"files", "ids"}
  PROVE  /\ TypeOK /\ Shaped /\ Reckoned /\ written \in RawArchive
         /\ raw.files \in Seq(FileRecord) /\ written.files \in Seq(FileRecord)
         /\ raw.num_user_files = written.num_user_files
         /\ raw.num_directories = written.num_directories
         /\ raw.strings = written.strings
         /\ Len(written.files) = raw.num_user_files
         /\ Raw(ToNames(raw))
         /\ Starts(stream, Join(ToNames(raw), WriteRawFileChunkMap(written.files)))
<1>1. TypeOK /\ Shaped /\ Reckoned /\ written \in RawArchive
  BY GoodHeader DEF IInv
<1>2. /\ raw.num_user_files = written.num_user_files
      /\ raw.num_directories = written.num_directories
      /\ raw.strings = written.strings
  BY DEF Follows, Reading, Counted
<1>3. ToNames(raw) = ToNames(written) /\ Raw(ToNames(raw))
  BY SameNames DEF Reading, Counted
<1>4. QED
  BY <1>1, <1>2, <1>3, RawTyped, HeaderTyped, HeaderStarts, GoodHeader

\* Its files are read one by one, the directory first.
LEMMA ReadDirectoryIdFollows ==
  ASSUME IInv, Mirrored, Good, FromWritten, Follows, ReadDirectoryId
  PROVE  Follows'
<1> DEFINE s == raw.files
           t == written.files
           y == [directory_id |-> Read16(1), chunk_ids |-> <<>>]
<1>1. pc = "files" /\ UNCHANGED <<stream, limits, written>>
  BY DEF ReadDirectoryId
<1>2. /\ TypeOK /\ s \in Seq(FileRecord) /\ t \in Seq(FileRecord)
      /\ Len(t) = raw.num_user_files /\ Begun(s, t)
      /\ raw.num_user_files = written.num_user_files
      /\ raw.num_directories = written.num_directories
      /\ raw.strings = written.strings
  BY <1>1, FilesFacts DEF Follows
<1>3. CASE Len(s) = raw.num_user_files
  <2>1. pc' = "counts" /\ raw' = raw
    BY <1>3 DEF ReadDirectoryId, Goto
  <2>2. s = t
    <3> DEFINE T == FileRecord
    <3>1. s \in Seq(T) /\ t \in Seq(T) /\ Len(s) = Len(t)
      BY <1>2, <1>3
    <3> HIDE DEF T, s, t
    <3>2. QED
      BY <1>2, <3>1, BegunGoesOn
  <2>3. QED
    BY <1>1, <1>2, <2>1, <2>2 DEF Follows, Reading, Counted, Mapped, Tabled
<1>4. CASE Len(s) # raw.num_user_files
  <2> DEFINE p == ToNames(raw)
             x == t[Len(s) + 1]
             q == WriteRawFileChunkMap(t)
             d == WriteRawFileChunkMap(s)
             e == WriteFile(x)
  <2>1. Raw(p) /\ Starts(stream, Join(p, q)) /\ Pre(pos) = Join(p, d)
    BY <1>1, FilesFacts DEF Mirrored, ToFiles, Join
  <2>2. Len(s) # Len(t)
    BY <1>2, <1>4
  <2>3. x \in FileRecord /\ Raw(e) /\ \E r : Raw(r) /\ q = Join(Join(d, e), r)
    BY <1>2, <2>2, FilesGoOn
  <2>4. Raw(q) /\ Raw(d)
    BY <1>2, <2>3, FilesWritten DEF Raw
  <2>5. Ahead(e)
    <3> HIDE DEF p, q, d, e
    <3>1. Starts(q, Join(d, e))
      BY <2>3, <2>4, Joined DEF Starts
    <3>2. QED
      BY <1>2, <2>1, <2>3, <2>4, <3>1, AheadNext
  <2> HIDE DEF x
  <2>6. Ahead(Bytes16(x.directory_id)) /\ x.directory_id \in U16
    <3> DEFINE a == Bytes16(x.directory_id)
               b == WriteIds(x.chunk_ids)
               c == Bytes16(Terminator)
    <3>1. x.directory_id \in U16 /\ x.chunk_ids \in Seq(U16) /\ 0 \in U16 /\ Terminator \in U16
      BY <2>3, Widths DEF FileRecord
    <3>2. Raw(a) /\ Raw(b) /\ Raw(c)
      BY <3>1, Bytes16Typed, IdsWritten DEF Raw
    <3>3. e = Join(Join(a, b), c)
      BY DEF WriteFile, Join
    <3> HIDE DEF a, b, c, e
    <3>4. Raw(Join(a, b))
      BY <3>2, Joined
    <3>5. Ahead(Join(a, b))
      BY <1>2, <2>5, <3>2, <3>3, <3>4, AheadFirst
    <3>6. Ahead(a)
      BY <1>2, <3>2, <3>5, AheadFirst
    <3>7. QED
      BY <3>1, <3>6 DEF a
  <2>7. Has(2) /\ Read16(1) = x.directory_id
    BY <1>2, <2>6, Ahead16
  <2>8. raw' = [raw EXCEPT !.files = Append(@, y)] /\ pc' = "ids"
    BY <1>4, <2>7 DEF ReadDirectoryId
  <2>9. y \in FileRecord /\ y.directory_id = x.directory_id /\ y.chunk_ids = <<>>
    BY <2>6, <2>7 DEF FileRecord
  <2> HIDE DEF y
  <2> DEFINE u == Append(s, y)
  <2>10. Partly(u, t)
    BY <1>2, <2>2, <2>9, PartlyBegins DEF x
  <2>11. /\ (raw').files = u /\ (raw').num_user_files = raw.num_user_files
         /\ (raw').num_directories = raw.num_directories /\ (raw').strings = raw.strings
    <3>1. raw \in RawArchive
      BY <1>2 DEF TypeOK
    <3>2. raw' = [raw EXCEPT !.files = u]
      BY <2>8
    <3> HIDE DEF u
    <3>3. QED
      BY <3>1, <3>2 DEF RawArchive
  <2>12. QED
    BY <1>1, <1>2, <2>8, <2>10, <2>11 DEF Follows, Reading, Counted, Mapped, Tabled
<1>5. QED
  BY <1>3, <1>4

\* A file whose ids are all read is the file that was written.
LEMMA PartlyWhole ==
  ASSUME NEW s \in Seq(FileRecord), NEW t \in Seq(FileRecord), Partly(s, t),
         Len(s[Len(s)].chunk_ids) = Len(t[Len(s)].chunk_ids)
  PROVE  Begun(s, t)
<1> DEFINE y == s[Len(s)]
           x == t[Len(s)]
<1>1. /\ x \in FileRecord /\ y \in FileRecord
      /\ \E h \in Seq(FileRecord) : s = Append(h, y) /\ Begun(Append(h, x), t)
  BY PartlyFront
<1>2. y.directory_id = x.directory_id /\ Begun(y.chunk_ids, x.chunk_ids)
      /\ Len(y.chunk_ids) = Len(x.chunk_ids)
  BY DEF Partly
<1> HIDE DEF y, x
<1>3. y.chunk_ids = x.chunk_ids
  <2>1. y.chunk_ids \in Seq(U16) /\ x.chunk_ids \in Seq(U16)
    BY <1>1 DEF FileRecord
  <2>2. QED
    BY <1>2, <2>1, BegunGoesOn
<1>4. y = x
  <2>1. /\ y = [directory_id |-> y.directory_id, chunk_ids |-> y.chunk_ids]
        /\ x = [directory_id |-> x.directory_id, chunk_ids |-> x.chunk_ids]
    BY <1>1 DEF FileRecord
  <2>2. QED
    BY <1>2, <1>3, <2>1
<1>5. QED
  BY <1>1, <1>4

\* One id more of it keeps a beginning a beginning, and within the references.
LEMMA PartlyGoesOn ==
  ASSUME NEW s \in Seq(FileRecord), NEW t \in Seq(FileRecord), Partly(s, t),
         Len(s[Len(s)].chunk_ids) # Len(t[Len(s)].chunk_ids),
         NEW id, id = t[Len(s)].chunk_ids[Len(s[Len(s)].chunk_ids) + 1]
  PROVE  /\ id \in U16 /\ id \in Range(t[Len(s)].chunk_ids)
         /\ Len(s[Len(s)].chunk_ids) < Len(t[Len(s)].chunk_ids)
         /\ Partly(Grown(s, Len(s), id), t)
         /\ ReferencesIn(s) + 1 <= ReferencesIn(t)
<1> DEFINE k == Len(s)
           y == s[k]
           x == t[k]
           c == y.chunk_ids
           z == x.chunk_ids
           m == Len(c)
           n == Len(z)
           g == Grown(s, k, id)
<1>1. PICK h \in Seq(FileRecord) : s = Append(h, y) /\ Begun(Append(h, x), t)
  BY PartlyFront
<1>2. x \in FileRecord /\ y \in FileRecord /\ k \in 1 .. Len(t)
  BY PartlyFront
<1>3. y.directory_id = x.directory_id /\ Begun(c, z) /\ m # n /\ id = z[m + 1]
      /\ k <= Len(t) /\ s # <<>> /\ \A i \in 1 .. k - 1 : s[i] = t[i]
  BY DEF Partly
<1>4. k \in Nat \ {0} /\ k \in DOMAIN s /\ DOMAIN s = 1 .. k
  <2> DEFINE T == FileRecord
  <2>1. s \in Seq(T)
    OBVIOUS
  <2> HIDE DEF T
  <2>2. QED
    BY <1>3, <2>1, LenProperties, EmptySeq
<1> HIDE DEF k, x, y
<1>5. c \in Seq(U16) /\ z \in Seq(U16)
  BY <1>2 DEF FileRecord
<1> HIDE DEF c, z
<1>6. /\ m \in Nat /\ n \in Nat /\ m <= n /\ m + 1 \in 1 .. n /\ id \in U16
      /\ Begun(Append(c, id), z)
  BY <1>3, <1>5, BegunGoesOn
<1>7. id \in Range(z)
  <2>1. DOMAIN z = 1 .. n
    BY <1>5, LenProperties
  <2>2. QED
    BY <1>3, <1>6, <2>1 DEF Range
<1> HIDE DEF m, n
<1>8. m < n
  BY <1>3, <1>6
<1>9. ReferencesIn(s) + 1 <= ReferencesIn(t)
  <2> DEFINE rh == ReferencesIn(h)
             rs == ReferencesIn(s)
             rx == ReferencesIn(Append(h, x))
             rt == ReferencesIn(t)
  <2>1. rs = rh + m /\ rx = rh + n /\ rh \in Nat /\ rt \in Nat
    BY <1>1, <1>2, FileSizes DEF c, z, m, n
  <2>2. rx <= rt
    <3>1. Append(h, x) \in Seq(FileRecord)
      BY <1>2, AppendProperties
    <3>2. QED
      BY <1>1, <3>1, ReferencesBegun
  <2> HIDE DEF rh, rs, rx, rt
  <2>3. rs + 1 <= rt
    BY <1>6, <1>8, <2>1, <2>2
  <2>4. QED
    BY <2>3 DEF rs, rt
<1>10. Partly(g, t)
  <2>1. /\ g \in Seq(FileRecord) /\ Len(g) = k
        /\ \A i \in DOMAIN s \ {k} : g[i] = s[i]
    <3> HIDE DEF g
    <3>1. /\ g \in Seq(FileRecord) /\ Len(g) = Len(s)
          /\ \A i \in DOMAIN s \ {k} : g[i] = s[i]
      BY <1>4, <1>6, FileGrows DEF g
    <3>2. QED
      BY <3>1 DEF k
  <2>2. g[k].directory_id = y.directory_id /\ g[k].chunk_ids = Append(c, id)
    <3>1. s \in [1 .. k -> FileRecord]
      BY <1>4, LenProperties DEF k
    <3>2. g[k] = [y EXCEPT !.chunk_ids = Append(@, id)]
      BY <1>4, <3>1 DEF Grown, y
    <3> HIDE DEF g
    <3>3. g[k].directory_id = y.directory_id
      BY <1>2, <3>2 DEF FileRecord
    <3>4. g[k].chunk_ids = Append(y.chunk_ids, id)
      BY <1>2, <3>2 DEF FileRecord
    <3>5. QED
      BY <3>3, <3>4 DEF c
  <2>3. g # <<>>
    <3>1. Len(<<>>) = 0
      OBVIOUS
    <3>2. QED
      BY <1>4, <2>1, <3>1
  <2> HIDE DEF g
  <2>4. \A i \in 1 .. k - 1 : g[i] = t[i]
    <3> SUFFICES ASSUME NEW i \in 1 .. k - 1 PROVE g[i] = t[i]
      OBVIOUS
    <3>1. i \in DOMAIN s \ {k}
      BY <1>4
    <3>2. QED
      BY <1>3, <2>1, <3>1
  <2>5. QED
    BY <1>3, <1>6, <2>1, <2>2, <2>3, <2>4 DEF Partly, x, z
<1>11. QED
  BY <1>6, <1>7, <1>8, <1>9, <1>10 DEF k, x, y, c, z, m, n, g

\* Its ids are read one by one, and then the terminator.
LEMMA ReadChunkIdFollows ==
  ASSUME IInv, Mirrored, Good, FromWritten, Follows, ReadChunkId
  PROVE  Follows'
<1> DEFINE s == raw.files
           t == written.files
           k == Len(s)
           c == s[k].chunk_ids
           z == t[k].chunk_ids
           id == z[Len(c) + 1]
           p == ToNames(raw)
<1>1. pc = "ids" /\ UNCHANGED <<stream, limits, written>>
  BY DEF ReadChunkId
<1>2. /\ TypeOK /\ Reckoned /\ s \in Seq(FileRecord) /\ t \in Seq(FileRecord) /\ Partly(s, t)
      /\ raw.num_user_files = written.num_user_files
      /\ raw.num_directories = written.num_directories
      /\ raw.strings = written.strings
  BY <1>1, FilesFacts DEF Follows
<1>3. /\ Len(c) = Len(z) => Ahead(Bytes16(Terminator))
      /\ Len(c) # Len(z) => Ahead(Bytes16(id))
  <2>1. /\ Raw(p) /\ Starts(stream, Join(p, WriteRawFileChunkMap(t)))
        /\ Join(Pre(pos), Bytes16(Terminator)) = Join(p, WriteRawFileChunkMap(s))
    BY <1>1, FilesFacts DEF Mirrored, ToFiles, Join
  <2> HIDE DEF p, s, t
  <2>2. QED
    BY <1>2, <2>1, NextOfList
<1>4. CASE Len(c) = Len(z)
  <2>1. Has(2) /\ Read16(1) = Terminator
    BY <1>2, <1>3, <1>4, Ahead16, Widths
  <2>2. pc' = "files" /\ raw' = raw
    BY <2>1 DEF ReadChunkId
  <2>3. Begun(s, t)
    BY <1>2, <1>4, PartlyWhole
  <2>4. QED
    BY <1>1, <1>2, <2>2, <2>3 DEF Follows, Reading, Counted, Mapped, Tabled
<1>5. CASE Len(c) # Len(z)
  <2> HIDE DEF id
  <2>1. /\ id \in U16 /\ id \in Range(z) /\ Len(c) < Len(z)
        /\ Partly(Grown(s, k, id), t) /\ ReferencesIn(s) + 1 <= ReferencesIn(t)
    BY <1>2, <1>5, PartlyGoesOn DEF id
  <2>2. Has(2) /\ Read16(1) = id
    BY <1>2, <1>3, <1>5, <2>1, Ahead16
  <2>3. k \in 1 .. Len(t) /\ k \in DOMAIN t /\ k \in DOMAIN s
    <3> DEFINE T == FileRecord
    <3>1. s \in Seq(T) /\ t \in Seq(T) /\ s # <<>>
      BY <1>2 DEF Partly
    <3>2. k \in 1 .. Len(t)
      BY <1>2, PartlyFront
    <3> HIDE DEF T, s, t
    <3>3. k \in Nat \ {0} /\ DOMAIN s = 1 .. k /\ DOMAIN t = 1 .. Len(t)
      BY <3>1, LenProperties, EmptySeq
    <3>4. QED
      BY <3>2, <3>3
  <2>4. FileKept(t[k])
    BY <2>3, GoodHeader
  <2>5. id # Terminator
    BY <2>1, <2>4 DEF FileKept
  <2>6. ~(Len(c) >= limits.chunks)
    <3> DEFINE m == Len(c)
               n == Len(z)
    <3>1. s[k] \in FileRecord /\ t[k] \in FileRecord
      BY <1>2, PartlyFront
    <3>2. m \in Nat /\ n \in Nat
      BY <3>1, LenProperties DEF FileRecord
    <3>3. m < n /\ n <= limits.chunks /\ limits.chunks \in Nat
      BY <1>2, <2>1, <2>4 DEF FileKept, TypeOK, ReadLimits
    <3> HIDE DEF m, n
    <3>4. ~(m >= limits.chunks)
      BY <3>2, <3>3
    <3>5. QED
      BY <3>4 DEF m
  <2>7. ~(references + 1 > limits.references)
    <3> DEFINE a == ReferencesIn(s)
               b == ReferencesIn(t)
    <3>1. references = a /\ b <= limits.references
      BY <1>2, GoodHeader DEF Reckoned, References, ReferencesIn
    <3>2. b \in Nat
      <4>1. t[k] \in FileRecord
        BY <1>2, PartlyFront
      <4>2. QED
        BY <1>2, <4>1, FileSizes
    <3>3. references \in Nat /\ limits.references \in Nat /\ a + 1 <= b
      BY <1>2, <2>1 DEF TypeOK, ReadLimits
    <3> HIDE DEF a, b
    <3>4. QED
      BY <3>1, <3>2, <3>3
  <2>8. raw' = [raw EXCEPT !.files[k].chunk_ids = Append(@, id)] /\ pc' = pc
    BY <1>5, <2>2, <2>5, <2>6, <2>7 DEF ReadChunkId
  <2> DEFINE g == Grown(s, k, id)
  <2>9. raw' = [raw EXCEPT !.files = g]
    BY <2>8 DEF Grown
  <2>10. /\ (raw').files = g /\ (raw').num_user_files = raw.num_user_files
         /\ (raw').num_directories = raw.num_directories /\ (raw').strings = raw.strings
    <3>1. raw \in RawArchive
      BY <1>2 DEF TypeOK
    <3> HIDE DEF g
    <3>2. QED
      BY <2>9, <3>1 DEF RawArchive
  <2>11. QED
    BY <1>1, <1>2, <2>1, <2>8, <2>10 DEF Follows, Reading, Counted, Mapped, Tabled
<1>6. QED
  BY <1>4, <1>5

\* What is known once the files are read.
LEMMA MappedFacts ==
  ASSUME IInv, Good, FromWritten, Follows, pc \in Mapped
  PROVE  /\ TypeOK /\ Shaped /\ Reckoned /\ raw \in RawArchive /\ written \in RawArchive
         /\ raw.num_user_files = written.num_user_files
         /\ raw.num_directories = written.num_directories
         /\ raw.strings = written.strings /\ raw.files = written.files
         /\ raw.header = written.header /\ raw.version = written.version
         /\ ToFiles(raw) = ToFiles(written) /\ Raw(ToFiles(raw))
<1>1. TypeOK /\ Shaped /\ Reckoned /\ raw \in RawArchive /\ written \in RawArchive
  BY GoodHeader DEF IInv, TypeOK
<1>2. /\ raw.num_user_files = written.num_user_files
      /\ raw.num_directories = written.num_directories
      /\ raw.strings = written.strings /\ raw.files = written.files
  BY DEF Follows, Reading, Counted, Mapped
<1>3. ToFiles(raw) = ToFiles(written)
  BY <1>2, SameNames DEF Reading, Counted, Mapped, ToFiles
<1>4. raw.header = written.header /\ raw.version = written.version
  BY <1>1, GoodHeader DEF Shaped
<1>5. QED
  BY <1>1, <1>2, <1>3, <1>4, PartsTyped DEF Raw

\* The counts of its chunk table are read as they were written.
LEMMA ReadChunkSettingsFollows ==
  ASSUME IInv, Mirrored, Good, FromWritten, Follows, ReadChunkSettings
  PROVE  Follows'
<1> DEFINE n == written.num_archive_files
           m == written.num_chunks
           p == ToFiles(raw)
           v == Bytes16(n)
           k == Bytes16(m)
           vk == Join(v, k)
<1>1. pc = "counts" /\ pc \in Mapped /\ UNCHANGED <<stream, limits, written>>
  BY DEF ReadChunkSettings, Mapped
<1>2. /\ TypeOK /\ Shaped /\ raw \in RawArchive /\ written \in RawArchive
      /\ raw.num_user_files = written.num_user_files
      /\ raw.num_directories = written.num_directories
      /\ raw.strings = written.strings /\ raw.files = written.files
      /\ p = ToFiles(written) /\ Raw(p)
  BY <1>1, MappedFacts
<1>3. n \in U16 /\ m \in U16 /\ n # 0 /\ m <= limits.chunks
  BY <1>2, HeaderTyped, GoodHeader
<1>4. Pre(pos) = p
  BY <1>1 DEF Mirrored
<1>5. Starts(stream, Join(Join(p, v), k))
  BY <1>2, HeaderStarts, GoodHeader
<1> HIDE DEF n, m, p
<1>6. Raw(v) /\ Raw(k) /\ Len(v) = 2
  BY <1>3, Bytes16Typed DEF Raw
<1> HIDE DEF v, k
<1>7. Raw(vk) /\ Join(Join(p, v), k) = Join(p, vk)
  BY <1>2, <1>6, Joined, Regroup
<1>8. At(1, vk)
  <2> HIDE DEF vk
  <2>1. QED
    BY <1>2, <1>4, <1>5, <1>7, AheadOf, AheadAt
<1>9. At(1, v) /\ At(3, k) /\ 1 \in Nat \ {0} /\ 3 \in Nat \ {0}
  <2>1. 1 \in Nat \ {0} /\ 3 \in Nat \ {0} /\ 1 + 2 = 3
    OBVIOUS
  <2>2. At(1, v) /\ At(1 + Len(v), k)
    BY <1>2, <1>6, <1>8, <2>1, AtParts
  <2>3. QED
    BY <1>6, <2>1, <2>2
<1>10. Read16(1) = n
  BY <1>2, <1>3, <1>9, At16 DEF v
<1>11. pos + 3 + 1 <= Len(stream) /\ Read16(3) = m
  BY <1>2, <1>3, <1>9, At16 DEF k
<1>12. Has(4)
  <2>1. pos \in Nat /\ pos + 3 + 1 = pos + 4
    BY <1>2 DEF TypeOK
  <2>2. QED
    BY <1>11, <2>1 DEF Has
<1>13. /\ raw' = [raw EXCEPT !.num_archive_files = n, !.num_chunks = m]
       /\ pc' = "chunks"
  BY <1>3, <1>10, <1>11, <1>12 DEF ReadChunkSettings
<1>14. /\ (raw').num_archive_files = n /\ (raw').num_chunks = m
       /\ (raw').num_user_files = raw.num_user_files
       /\ (raw').num_directories = raw.num_directories /\ (raw').strings = raw.strings
       /\ (raw').files = raw.files /\ (raw').chunks = raw.chunks
  BY <1>2, <1>13 DEF RawArchive
<1>15. Begun(raw.chunks, written.chunks)
  <2>1. raw.chunks = <<>> /\ written.chunks \in Seq(ChunkRecord)
    BY <1>1, <1>2, HeaderTyped DEF Shaped
  <2>2. QED
    BY <2>1, NothingBegun
<1>16. QED
  BY <1>1, <1>2, <1>13, <1>14, <1>15 DEF Follows, Reading, Counted, Mapped, Tabled, n, m

\* A chunk record that comes next is read.
LEMMA AheadChunk ==
  ASSUME TypeOK, NEW x \in ChunkRecord, Ahead(WriteChunk(x))
  PROVE  Has(16) /\ NextChunk = x
<1> DEFINE o == Bytes32(x.offset)
           l == Bytes32(x.compressed_length)
           d == Bytes32(x.decompressed_length)
           g == Bytes16(x.flags)
           v == Bytes16(x.file)
           a == Join(o, l)
           b == Join(a, d)
           c == Join(b, g)
           e == Join(c, v)
<1>1. /\ x.offset \in U32 /\ x.compressed_length \in U32 /\ x.decompressed_length \in U32
      /\ x.flags \in U16 /\ x.file \in U16
  BY DEF ChunkRecord
<1>2. Raw(o) /\ Raw(l) /\ Raw(d) /\ Raw(g) /\ Raw(v)
      /\ Len(o) = 4 /\ Len(l) = 4 /\ Len(d) = 4 /\ Len(g) = 2 /\ Len(v) = 2
  BY <1>1, Bytes16Typed, Bytes32Typed DEF Raw
<1>3. At(1, e)
  <2>1. WriteChunk(x) = e
    BY DEF WriteChunk, Join
  <2> HIDE DEF e
  <2>2. QED
    BY <2>1, AheadAt
<1> HIDE DEF o, l, d, g, v
<1>4. /\ Raw(a) /\ Len(a) = Len(o) + Len(l)
  BY <1>2, JoinLength
<1> HIDE DEF a
<1>5. Raw(b) /\ Len(b) = Len(a) + Len(d)
  BY <1>2, <1>4, JoinLength
<1> HIDE DEF b
<1>6. Raw(c) /\ Len(c) = Len(b) + Len(g)
  BY <1>2, <1>5, JoinLength
<1> HIDE DEF c
<1>7. Len(a) = 8
  BY <1>2, <1>4
<1>8. Len(b) = 12
  BY <1>2, <1>5, <1>7
<1>9. Len(c) = 14
  BY <1>2, <1>6, <1>8
<1>10. /\ 1 \in Nat \ {0} /\ 5 \in Nat \ {0} /\ 9 \in Nat \ {0} /\ 13 \in Nat \ {0}
       /\ 15 \in Nat \ {0} /\ 1 + 14 = 15 /\ 1 + 12 = 13 /\ 1 + 8 = 9 /\ 1 + 4 = 5
  OBVIOUS
<1>11. At(1, c) /\ At(15, v)
  <2>1. At(1, c) /\ At(1 + Len(c), v)
    BY <1>2, <1>3, <1>6, <1>10, AtParts
  <2>2. QED
    BY <1>9, <1>10, <2>1
<1>12. At(1, b) /\ At(13, g)
  <2>1. At(1, b) /\ At(1 + Len(b), g)
    BY <1>2, <1>5, <1>10, <1>11, AtParts DEF c
  <2>2. QED
    BY <1>8, <1>10, <2>1
<1>13. At(1, a) /\ At(9, d)
  <2>1. At(1, a) /\ At(1 + Len(a), d)
    BY <1>2, <1>4, <1>10, <1>12, AtParts DEF b
  <2>2. QED
    BY <1>7, <1>10, <2>1
<1>14. At(1, o) /\ At(5, l)
  <2>1. At(1, o) /\ At(1 + Len(o), l)
    BY <1>2, <1>10, <1>13, AtParts DEF a
  <2>2. QED
    BY <1>2, <1>10, <2>1
<1>15. Read32(1) = x.offset
  BY <1>1, <1>10, <1>14, At32 DEF o
<1>16. Read32(5) = x.compressed_length
  BY <1>1, <1>10, <1>14, At32 DEF l
<1>17. Read32(9) = x.decompressed_length
  BY <1>1, <1>10, <1>13, At32 DEF d
<1>18. Read16(13) = x.flags
  BY <1>1, <1>10, <1>12, At16 DEF g
<1>19. pos + 15 + 1 <= Len(stream) /\ Read16(15) = x.file
  BY <1>1, <1>10, <1>11, At16 DEF v
<1>20. Has(16)
  <2>1. pos \in Nat /\ pos + 15 + 1 = pos + 16
    BY DEF TypeOK
  <2>2. QED
    BY <1>19, <2>1 DEF Has
<1>21. x = [offset |-> x.offset, compressed_length |-> x.compressed_length,
            decompressed_length |-> x.decompressed_length, flags |-> x.flags, file |-> x.file]
  BY DEF ChunkRecord
<1>22. QED
  BY <1>15, <1>16, <1>17, <1>18, <1>19, <1>20, <1>21 DEF NextChunk

\* Its chunk records are read one by one, and the table is within the limit.
LEMMA ReadChunksFollows ==
  ASSUME IInv, Mirrored, Good, FromWritten, Follows, ReadChunks
  PROVE  Follows'
<1> DEFINE s == raw.chunks
           t == written.chunks
<1>1. pc = "chunks" /\ pc \in Mapped /\ UNCHANGED <<stream, limits, written>>
  BY DEF ReadChunks, Mapped
<1>2. /\ TypeOK /\ Shaped /\ raw \in RawArchive /\ written \in RawArchive
      /\ raw.num_user_files = written.num_user_files
      /\ raw.num_directories = written.num_directories
      /\ raw.strings = written.strings /\ raw.files = written.files
      /\ ToFiles(raw) = ToFiles(written) /\ Raw(ToFiles(raw))
  BY <1>1, MappedFacts
<1>3. /\ raw.num_archive_files = written.num_archive_files
      /\ raw.num_chunks = written.num_chunks /\ Begun(s, t)
  BY <1>1 DEF Follows, Mapped
<1>4. s \in Seq(ChunkRecord) /\ t \in Seq(ChunkRecord) /\ Len(t) = raw.num_chunks
  BY <1>2, <1>3, RawTyped, HeaderTyped, GoodHeader
<1>5. CASE Len(s) = raw.num_chunks
  <2>1. s = t
    <3> DEFINE T == ChunkRecord
    <3>1. s \in Seq(T) /\ t \in Seq(T) /\ Len(s) = Len(t)
      BY <1>4, <1>5
    <3> HIDE DEF T, s, t
    <3>2. QED
      BY <1>3, <3>1, BegunGoesOn
  <2>2. MetadataSizeBeforeVolumes(raw) = MetadataSizeBeforeVolumes(written)
    BY <1>2, <2>1 DEF MetadataSizeBeforeVolumes
  <2>3. ~(MetadataSizeBeforeVolumes(raw) > limits.metadata)
    <3> DEFINE m == MetadataSizeBeforeVolumes(written)
    <3>1. m <= limits.metadata /\ m \in Nat /\ limits.metadata \in Nat
      BY GoodSizes
    <3> HIDE DEF m
    <3>2. ~(m > limits.metadata)
      BY <3>1
    <3>3. QED
      BY <2>2, <3>2 DEF m
  <2>4. pc' = "volumes" /\ raw' = raw
    BY <1>5, <2>3 DEF ReadChunks, Goto
  <2>5. Begun(raw.volume_files, written.volume_files)
    <3> DEFINE S == Seq(Byte)
               v == written.volume_files
    <3>1. raw.volume_files = <<>> /\ v \in Seq(S)
      BY <1>1, <1>2, HeaderTyped DEF Shaped
    <3> HIDE DEF S, v
    <3>2. Begun(raw.volume_files, v)
      BY <3>1, NothingBegun
    <3>3. QED
      BY <3>2 DEF v
  <2>6. QED
    BY <1>1, <1>2, <1>3, <2>1, <2>4, <2>5 DEF Follows, Reading, Counted, Mapped, Tabled
<1>6. CASE Len(s) # raw.num_chunks
  <2> DEFINE v == Bytes16(raw.num_archive_files)
             k == Bytes16(raw.num_chunks)
             p == Join(Join(ToFiles(raw), v), k)
             x == t[Len(s) + 1]
             q == WriteChunks(t)
             d == WriteChunks(s)
             e == WriteChunk(x)
  <2>1. Pre(pos) = Join(p, d)
    BY <1>1 DEF Mirrored, ToChunks, Join
  <2>2. Starts(stream, Join(p, q))
    BY <1>2, <1>3, HeaderStarts, GoodHeader
  <2>3. Raw(p)
    <3>1. Raw(v) /\ Raw(k)
      BY <1>2, PartsTyped DEF Raw
    <3> HIDE DEF v, k
    <3>2. Raw(Join(ToFiles(raw), v))
      BY <1>2, <3>1, Joined
    <3>3. QED
      BY <3>1, <3>2, Joined
  <2>4. Len(s) # Len(t)
    BY <1>4, <1>6
  <2>5. x \in ChunkRecord /\ Raw(e) /\ \E r : Raw(r) /\ q = Join(Join(d, e), r)
    BY <1>3, <1>4, <2>4, ChunksGoOn
  <2>6. Raw(q) /\ Raw(d)
    BY <1>4, <2>5, ChunksWritten DEF Raw
  <2>7. Ahead(e)
    <3> HIDE DEF p, q, d, e
    <3>1. Starts(q, Join(d, e))
      BY <2>5, <2>6, Joined DEF Starts
    <3>2. QED
      BY <1>2, <2>1, <2>2, <2>3, <2>5, <2>6, <3>1, AheadNext
  <2> HIDE DEF x
  <2>8. Has(16) /\ NextChunk = x
    BY <1>2, <2>5, <2>7, AheadChunk
  <2>9. raw' = [raw EXCEPT !.chunks = Append(@, NextChunk)] /\ pc' = pc
    BY <1>6, <2>8 DEF ReadChunks, NextChunk
  <2> DEFINE u == Append(s, x)
  <2>10. Begun(u, t)
    <3> DEFINE T == ChunkRecord
    <3>1. s \in Seq(T) /\ t \in Seq(T)
      BY <1>4
    <3> HIDE DEF T, s, t
    <3>2. QED
      BY <1>3, <2>4, <3>1, BegunGoesOn DEF x
  <2>11. /\ (raw').chunks = u /\ (raw').num_user_files = raw.num_user_files
         /\ (raw').num_directories = raw.num_directories /\ (raw').strings = raw.strings
         /\ (raw').files = raw.files /\ (raw').num_archive_files = raw.num_archive_files
         /\ (raw').num_chunks = raw.num_chunks
    <3>1. raw' = [raw EXCEPT !.chunks = u]
      BY <2>8, <2>9
    <3> HIDE DEF u
    <3>2. QED
      BY <1>2, <3>1 DEF RawArchive
  <2>12. QED
    BY <1>1, <1>2, <1>3, <2>9, <2>10, <2>11 DEF Follows, Reading, Counted, Mapped, Tabled
<1>7. QED
  BY <1>5, <1>6

\* What is known once the chunk table is read.
LEMMA TabledFacts ==
  ASSUME IInv, Good, FromWritten, Follows, pc \in Tabled
  PROVE  /\ TypeOK /\ Shaped /\ Reckoned /\ raw \in RawArchive /\ written \in RawArchive
         /\ raw.num_user_files = written.num_user_files
         /\ raw.num_directories = written.num_directories
         /\ raw.strings = written.strings /\ raw.files = written.files
         /\ raw.header = written.header /\ raw.version = written.version
         /\ raw.num_archive_files = written.num_archive_files
         /\ raw.num_chunks = written.num_chunks /\ raw.chunks = written.chunks
         /\ ToChunks(raw) = ToChunks(written) /\ Raw(ToChunks(raw))
         /\ MetadataSizeBeforeVolumes(raw) = MetadataSizeBeforeVolumes(written)
<1>1. pc \in Mapped /\ pc \in Mapped \ {"counts"}
  BY DEF Tabled, Mapped
<1>2. /\ TypeOK /\ Shaped /\ Reckoned /\ raw \in RawArchive /\ written \in RawArchive
      /\ raw.num_user_files = written.num_user_files
      /\ raw.num_directories = written.num_directories
      /\ raw.strings = written.strings /\ raw.files = written.files
      /\ raw.header = written.header /\ raw.version = written.version
      /\ ToFiles(raw) = ToFiles(written)
  BY <1>1, MappedFacts
<1>3. /\ raw.num_archive_files = written.num_archive_files
      /\ raw.num_chunks = written.num_chunks /\ raw.chunks = written.chunks
  BY <1>1 DEF Follows
<1>4. ToChunks(raw) = ToChunks(written)
  BY <1>2, <1>3 DEF ToChunks
<1>5. MetadataSizeBeforeVolumes(raw) = MetadataSizeBeforeVolumes(written)
  BY <1>2, <1>3 DEF MetadataSizeBeforeVolumes
<1>6. QED
  BY <1>2, <1>3, <1>4, <1>5, PartsTyped DEF Raw

\* The names of its volumes are read one by one.
LEMMA ReadRawFileListFollows ==
  ASSUME IInv, Mirrored, Good, FromWritten, Follows, ReadRawFileList
  PROVE  Follows'
<1> DEFINE s == raw.volume_files
           t == written.volume_files
           x == NextString
           all == raw.num_archive_files - 1
           before == MetadataSizeBeforeVolumes(raw)
<1>1. pc = "volumes" /\ pc \in Tabled /\ UNCHANGED <<stream, limits, written>>
  BY DEF ReadRawFileList, Tabled
<1>2. /\ TypeOK /\ Reckoned /\ raw \in RawArchive /\ written \in RawArchive
      /\ raw.num_user_files = written.num_user_files
      /\ raw.num_directories = written.num_directories
      /\ raw.strings = written.strings /\ raw.files = written.files
      /\ raw.num_archive_files = written.num_archive_files
      /\ raw.num_chunks = written.num_chunks /\ raw.chunks = written.chunks
      /\ ToChunks(raw) = ToChunks(written) /\ Raw(ToChunks(raw))
      /\ before = MetadataSizeBeforeVolumes(written)
  BY <1>1, TabledFacts
<1>3. Begun(s, t) /\ s \in Seq(Seq(Byte)) /\ t \in Seq(Seq(Byte)) /\ Len(t) = all
  BY <1>1, <1>2, GoodHeader, HeaderTyped, RawTyped DEF Follows
<1>4. Len(s) \in Nat /\ Len(t) \in Nat /\ Len(s) <= Len(t) /\ (Len(s) = Len(t) => s = t)
  <2> DEFINE S == Seq(Byte)
  <2>1. s \in Seq(S) /\ t \in Seq(S)
    BY <1>3
  <2> HIDE DEF S, s, t
  <2>2. QED
    BY <1>3, <2>1, BegunGoesOn
<1>5. CASE ~(Len(s) < all)
  <2>1. pc' = "range" /\ raw' = raw
    BY <1>5 DEF ReadRawFileList, Goto
  <2> DEFINE m == Len(s)
             n == Len(t)
  <2>2. m \in Nat /\ n \in Nat /\ m <= n /\ ~(m < n)
    BY <1>3, <1>4, <1>5
  <2> HIDE DEF m, n
  <2>3. m = n
    BY <2>2
  <2>4. s = t
    BY <1>4, <2>3 DEF m, n
  <2>5. QED
    BY <1>1, <1>2, <2>1, <2>4 DEF Follows, Reading, Counted, Mapped, Tabled
<1>6. CASE Len(s) < all
  <2>1. Len(s) # Len(t)
    BY <1>3, <1>4, <1>6
  <2> DEFINE p == ToChunks(raw)
  <2>2. Raw(p) /\ Pre(pos) = Join(p, WriteRawStrings(s))
    BY <1>1, <1>2 DEF Mirrored, Join
  <2>3. Starts(stream, Join(p, WriteRawStrings(t)))
    BY <1>2, GoodHeader, HeaderStarts
  <2>4. \A i \in 1 .. Len(t) : NameKept(t[i])
    BY GoodNames
  <2> HIDE DEF p
  <2>5. /\ NulsInReach # {} /\ Begun(Append(s, x), t)
        /\ EncodedLength(s) + (Len(x) + 1) <= EncodedLength(t)
    <3> HIDE DEF s, t, x
    <3>1. QED
      BY <1>2, <1>3, <2>1, <2>2, <2>3, <2>4, NextName DEF x
  <2>6. ~(total + Len(x) + 1 > limits.metadata - before)
    <3> DEFINE e == EncodedLength(s)
               l == Len(x)
               m == EncodedLength(t)
               b == before
    <3>1. e + (l + 1) <= m /\ b + m <= limits.metadata /\ m \in Nat /\ b \in Nat
          /\ limits.metadata \in Nat
      BY <1>2, <2>5, GoodSizes
    <3>2. total = e /\ total \in Nat
      BY <1>1, <1>2 DEF Reckoned, TypeOK
    <3>3. l \in Nat
      BY <1>2, <2>5, ReadingString, LenProperties
    <3> HIDE DEF e, l, m, b
    <3>4. ~(total + l + 1 > limits.metadata - b)
      BY <3>1, <3>2, <3>3
    <3>5. QED
      BY <3>4 DEF l, b
  <2>7. pc' = pc /\ raw' = [raw EXCEPT !.volume_files = Append(@, x)]
    BY <1>6, <2>5, <2>6 DEF ReadRawFileList, ReadString
  <2>8. /\ (raw').volume_files = Append(s, x) /\ (raw').num_user_files = raw.num_user_files
        /\ (raw').num_directories = raw.num_directories /\ (raw').strings = raw.strings
        /\ (raw').files = raw.files /\ (raw').num_archive_files = raw.num_archive_files
        /\ (raw').num_chunks = raw.num_chunks /\ (raw').chunks = raw.chunks
    <3> DEFINE u == Append(s, x)
    <3>1. raw' = [raw EXCEPT !.volume_files = u]
      BY <2>7
    <3> HIDE DEF u, x
    <3>2. QED
      BY <1>2, <3>1 DEF RawArchive, u
  <2>9. QED
    BY <1>1, <1>2, <2>5, <2>7, <2>8 DEF Follows, Reading, Counted, Mapped, Tabled
<1>7. QED
  BY <1>5, <1>6

\* Its range settings are the last of it, and then all of it is read.
LEMMA ReadGlobalSettingsFollows ==
  ASSUME IInv, Mirrored, Good, FromWritten, Follows, ReadGlobalSettings
  PROVE  Follows'
<1> DEFINE g == written.range_settings
           n == IF HasDz(raw) THEN 10 ELSE 0
           sub == SubSeq(stream, pos + 1, pos + n)
           complete == [raw EXCEPT !.range_settings = sub]
           p == Join(ToChunks(raw), WriteRawStrings(raw.volume_files))
<1>1. pc = "range" /\ pc \in Tabled /\ UNCHANGED <<stream, limits, written>>
  BY DEF ReadGlobalSettings, Tabled
<1>2. /\ TypeOK /\ raw \in RawArchive /\ written \in RawArchive
      /\ raw.num_user_files = written.num_user_files
      /\ raw.num_directories = written.num_directories
      /\ raw.strings = written.strings /\ raw.files = written.files
      /\ raw.header = written.header /\ raw.version = written.version
      /\ raw.num_archive_files = written.num_archive_files
      /\ raw.num_chunks = written.num_chunks /\ raw.chunks = written.chunks
      /\ ToChunks(raw) = ToChunks(written)
      /\ raw.volume_files = written.volume_files
  BY <1>1, TabledFacts DEF Follows
<1>3. n = Len(g) /\ n \in Nat
  <2>1. HasDz(raw) = HasDz(written)
    BY <1>2 DEF HasDz
  <2>2. QED
    BY <2>1, GoodHeader
<1>4. Pre(pos) = p /\ Raw(g)
  BY <1>1, <1>2, PartsTyped DEF Mirrored, Join, Raw
<1>5. Starts(stream, Join(p, g))
  BY <1>2, HeaderStarts, GoodHeader
<1>6. At(1, g)
  <2> HIDE DEF p, g
  <2>1. QED
    BY <1>2, <1>4, <1>5, AheadOf, AheadAt
<1> HIDE DEF n, p
<1>7. pos \in Nat /\ Len(stream) \in Nat /\ pos + (1 - 1) = pos
  BY <1>2, LenProperties DEF TypeOK
<1>8. pos + n <= Len(stream) /\ \A i \in 1 .. n : stream[pos + i] = g[i]
  BY <1>3, <1>6, <1>7 DEF At
<1>9. sub = g
  <2> DEFINE B == Byte
             a == pos + 1
             b == pos + n
  <2>1. stream \in Seq(B) /\ g \in Seq(B)
    BY <1>2, <1>4 DEF TypeOK, Raw
  <2>2. a \in Int /\ b \in Int /\ \A i \in a .. b : i \in 1 .. Len(stream)
    BY <1>3, <1>7, <1>8
  <2> HIDE DEF B, g
  <2>3. \A i \in a .. b : stream[i] \in B
    BY <2>1, <2>2, ElementOfSeq
  <2> DEFINE h == SubSeq(stream, a, b)
  <2> HIDE DEF a, b
  <2>4. /\ h \in Seq(B) /\ Len(h) = (IF a <= b THEN b - a + 1 ELSE 0)
        /\ \A i \in 1 .. b - a + 1 : h[i] = stream[a + i - 1]
    BY <2>2, <2>3, SubSeqProperties
  <2> HIDE DEF h
  <2>5. b - a + 1 = n
    BY <1>3, <1>7 DEF a, b
  <2>6. Len(h) = n
    BY <1>3, <1>7, <2>4, <2>5 DEF a, b
  <2>7. \A i \in 1 .. n : h[i] = g[i]
    <3> SUFFICES ASSUME NEW i \in 1 .. n PROVE h[i] = g[i]
      OBVIOUS
    <3>1. i \in 1 .. b - a + 1
      BY <2>5
    <3>2. a + i - 1 = pos + i
      BY <1>3, <1>7 DEF a
    <3>3. QED
      BY <1>8, <2>4, <3>1, <3>2
  <2>8. h = g
    BY <1>3, <2>1, <2>4, <2>6, <2>7, SeqEqual
  <2>9. QED
    BY <2>8 DEF h, a, b
<1>10. complete = written
  <2> HIDE DEF sub
  <2>1. complete = [raw EXCEPT !.range_settings = g]
    BY <1>9
  <2>2. /\ DOMAIN raw = DOMAIN written
        /\ DOMAIN raw = {"header", "num_user_files", "num_directories", "version", "strings",
                         "files", "num_archive_files", "num_chunks", "chunks",
                         "volume_files", "range_settings"}
    BY <1>2 DEF RawArchive
  <2>3. raw = [i \in DOMAIN raw |-> raw[i]] /\ written = [i \in DOMAIN written |-> written[i]]
    BY <1>2 DEF RawArchive
  <2>4. \A i \in DOMAIN written : [raw EXCEPT !.range_settings = g][i] = written[i]
    BY <1>2, <2>2
  <2>5. QED
    BY <2>1, <2>2, <2>3, <2>4
<1>11. Has(n)
  BY <1>8 DEF Has
<1>12. ~(MetadataBytes(written) > limits.metadata)
  <2> DEFINE m == MetadataBytes(written)
             r == Len(g)
             b == MetadataSizeBeforeVolumes(written)
             v == EncodedLength(written.volume_files)
  <2>1. m = b + v + r /\ b \in Nat /\ v \in Nat /\ r \in Nat /\ limits.metadata \in Nat
        /\ m <= limits.metadata
    BY <1>3, GoodSizes, GoodHeader DEF MetadataBytes
  <2> HIDE DEF m, r, b, v
  <2>2. ~(m > limits.metadata)
    BY <2>1
  <2>3. QED
    BY <2>2 DEF m
<1>13. raw' = written /\ pc' = "parsed"
  <2>1. ~(~Has(n) \/ MetadataBytes(complete) > limits.metadata)
    BY <1>10, <1>11, <1>12
  <2>2. raw' = complete /\ pc' = "parsed"
    BY <2>1 DEF ReadGlobalSettings, n
  <2>3. QED
    BY <1>10, <2>2
<1>14. QED
  BY <1>1, <1>13 DEF Follows, Reading, Counted, Mapped, Tabled

\* A parse that begins has read nothing amiss.
LEMMA StartAgrees ==
  ASSUME pc = "settings", FromWritten
  PROVE  Agrees
BY DEF Agrees, Follows, Reading, Counted, Mapped, Tabled

\* Every step of the reader keeps what is read a beginning of what was written.
LEMMA ReaderFollows ==
  ASSUME IInv, Mirrored, Good, FromWritten, Follows,
         ReadArchiveSettings \/ ReadStrings \/ ReadDirectoryId \/ ReadChunkId
           \/ ReadChunkSettings \/ ReadChunks \/ ReadRawFileList \/ ReadGlobalSettings
  PROVE  Follows'
<1>1. CASE ReadArchiveSettings
  BY <1>1, ReadArchiveSettingsFollows
<1>2. CASE ReadStrings
  BY <1>2, ReadStringsFollows
<1>3. CASE ReadDirectoryId
  BY <1>3, ReadDirectoryIdFollows
<1>4. CASE ReadChunkId
  BY <1>4, ReadChunkIdFollows
<1>5. CASE ReadChunkSettings
  BY <1>5, ReadChunkSettingsFollows
<1>6. CASE ReadChunks
  BY <1>6, ReadChunksFollows
<1>7. CASE ReadRawFileList
  BY <1>7, ReadRawFileListFollows
<1>8. CASE ReadGlobalSettings
  BY <1>8, ReadGlobalSettingsFollows
<1>9. QED
  BY <1>1, <1>2, <1>3, <1>4, <1>5, <1>6, <1>7, <1>8

\* So do the caller's steps: a renamed header is no longer compared, and what
\* is written is read from its beginning.
LEMMA NextAgrees == IInv /\ Mirrored /\ Agrees /\ [Next]_vars => Agrees'
<1> SUFFICES ASSUME IInv, Mirrored, Agrees, [Next]_vars PROVE Agrees'
  OBVIOUS
<1> DEFINE reads == \/ ReadArchiveSettings \/ ReadStrings \/ ReadDirectoryId \/ ReadChunkId
                    \/ ReadChunkSettings \/ ReadChunks \/ ReadRawFileList \/ ReadGlobalSettings
<1>1. CASE reads
  <2>1. UNCHANGED <<stream, limits, written>>
    BY <1>1 DEF ReadArchiveSettings, ReadStrings, ReadDirectoryId, ReadChunkId,
                ReadChunkSettings, ReadChunks, ReadRawFileList, ReadGlobalSettings
  <2>2. FromWritten' /\ (Good' => Good)
    BY <2>1 DEF Agrees, FromWritten, Good, WithinLimits
  <2>3. Good => Follows'
    BY <1>1, ReaderFollows DEF Agrees
  <2>4. QED
    BY <2>2, <2>3 DEF Agrees
<1>2. CASE \E k \in DOMAIN raw.strings, name \in NewNames \cup FromNames : Rename(k, name)
  <2>1. pc' = "edited" /\ UNCHANGED <<stream, written>>
    BY <1>2 DEF Rename
  <2>2. FromWritten'
    BY <2>1 DEF Agrees, FromWritten
  <2>3. QED
    BY <2>1, <2>2 DEF Agrees, Follows, Reading, Counted, Mapped, Tabled
<1>3. CASE WriteMetadataTo
  <2>1. pc' = "settings" /\ FromWritten'
    BY <1>3 DEF WriteMetadataTo, FromWritten
  <2>2. QED
    BY <2>1 DEF Agrees, Follows, Reading, Counted, Mapped, Tabled
<1>4. CASE UNCHANGED vars
  <2>1. UNCHANGED <<stream, limits, written>> /\ pc' = pc /\ raw' = raw
    BY <1>4 DEF vars
  <2>2. FromWritten' /\ (Good' => Good) /\ (Follows => Follows')
    BY <2>1 DEF Agrees, FromWritten, Good, WithinLimits, Follows
  <2>3. QED
    BY <2>2 DEF Agrees
<1>5. QED
  BY <1>1, <1>2, <1>3, <1>4 DEF Next

\* A header that was written from tables which agree with their counts and keep
\* to the limits is never refused, and what is read of it is what was written,
\* names that were changed in between included.
THEOREM ReadsBackWhatItWrote == Spec => []ReadsBack
<1>1. Init => Mirrored /\ Agrees
  <2> SUFFICES ASSUME Init PROVE Mirrored /\ Agrees
    OBVIOUS
  <2>1. pc = "settings" /\ FromWritten
    BY DEF Init, FromWritten
  <2>2. QED
    BY <2>1, StartAgrees DEF Mirrored, Tabled
<1>2. Agrees => ReadsBack
  BY DEF Agrees, Good, Follows, ReadsBack
<1>3. QED
  BY <1>1, <1>2, InitIInv, NextIInv, NextMirrored, NextAgrees, PTL DEF Spec
=============================================================================
