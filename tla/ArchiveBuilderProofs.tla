------------------------ MODULE ArchiveBuilderProofs ------------------------
(***************************************************************************)
(* What the builder guarantees for every job: any segments, volumes,       *)
(* settings, sinks and sources, written with any number of workers.        *)
(*                                                                         *)
(*  - The orders it works in (DZ segments, groups of segments, the write   *)
(*    order) have every segment once.  Each is a place in a strict order   *)
(*    of a finite set, so Sums!PlacesFilled says its places are filled.    *)
(*  - The size of the header, computed before a byte is written, is the    *)
(*    length of the header written last: both are sums over the segments,  *)
(*    taken in different orders.                                           *)
(*  - IInv follows the stages of a call and what is in the files.  Placed  *)
(*    adds where each handle stands and what each record holds: the sum of *)
(*    the payloads that belong before it, whatever order they finished in. *)
(*  - Disk adds what the volumes hold: pieces stacked one on the other, a  *)
(*    record for each payload among them that tells what its decoder       *)
(*    needs, and its bytes end where another record's begin or with the    *)
(*    volume.  So the reader, which has only the records, finds them.      *)
(***************************************************************************)
EXTENDS ArchiveBuilder, Sums

-----------------------------------------------------------------------------
(* What a job is *)

Segment ==
  [path : Nat, source : Files \cup {0}, size : Nat, flags : SUBSET Flags, volume : Nat,
   encoded : Nat \ {0}]

Requested == job \in Jobs

\* The parts of a job have the types the caller gives them.
LEMMA JobParts ==
  ASSUME Requested
  PROVE  /\ job.segments \in Seq(Segment)
         /\ job.names \in Seq(Files)
         /\ job.sink \in {"files", "memory", "writer"}
         /\ job.existing \in [Files -> Nat]
         /\ job.strings \in Nat /\ job.volume_strings \in Nat /\ job.alignment \in Nat
         /\ job.common \in Nat \cup {NoLength}
BY BuilderAssumption DEF Requested, Segment

\* The segments are numbered from 1, and each is one.
LEMMA SegmentParts ==
  ASSUME Requested
  PROVE  /\ Count \in Nat /\ Segments = 1 .. Count
         /\ IsFiniteSet(Segments) /\ Cardinality(Segments) = Count
         /\ \A i \in Segments : job.segments[i] \in Segment
<1> DEFINE S == Segment
           s == job.segments
<1>1. s \in Seq(S)
  BY JobParts
<1> HIDE DEF S, s
<1>2. Len(s) \in Nat /\ DOMAIN s = 1 .. Len(s) /\ \A i \in 1 .. Len(s) : s[i] \in S
  BY <1>1
<1>3. Count \in Nat /\ Segments = 1 .. Count /\ \A i \in Segments : job.segments[i] \in Segment
  BY <1>2 DEF Count, Segments, S, s
<1>4. IsFiniteSet(1 .. Count) /\ Cardinality(1 .. Count) = Count
  <2>1. 1 \in Int /\ Count \in Int
    BY <1>3
  <2>2. IsFiniteSet(1 .. Count) /\ Cardinality(1 .. Count) = IF 1 > Count THEN 0 ELSE Count - 1 + 1
    BY <2>1, FS_Interval
  <2>3. QED
    BY <1>3, <2>2
<1>5. QED
  BY <1>3, <1>4

\* The volumes are numbered from 0, and each name is a file.
LEMMA VolumeParts ==
  ASSUME Requested
  PROVE  /\ Len(job.names) \in Nat /\ DOMAIN job.names = 1 .. Len(job.names)
         /\ \A v \in VolumeIds : v \in Nat /\ v + 1 \in DOMAIN job.names /\ VolumeFile(v) \in Files
         /\ \A k \in 1 .. Len(job.names) : job.names[k] \in Files /\ k - 1 \in VolumeIds
<1>1. job.names \in Seq(Files)
  BY JobParts
<1>2. /\ Len(job.names) \in Nat /\ DOMAIN job.names = 1 .. Len(job.names)
      /\ \A k \in 1 .. Len(job.names) : job.names[k] \in Files
  BY <1>1
<1>3. QED
  BY <1>2 DEF VolumeIds, VolumeFile

\* A segment's coder is a storage bit of its flags, or none.
LEMMA CoderOf ==
  ASSUME NEW i
  PROVE  CompressionOf(i) \in StorageFlags \cup {"NONE"}
<1> DEFINE F == job.segments[i].flags \cap StorageFlags
<1>1. CASE F = {}
  BY <1>1 DEF CompressionOf, RegisteredCompression
<1>2. CASE F # {}
  <2>1. \E c \in F : \A d \in F : Rank[c] <= Rank[d]
    <3>1. \A c \in F : Rank[c] \in 0 .. 5
      BY DEF StorageFlags, Rank
    <3> DEFINE ranks == {Rank[c] : c \in F}
    <3>2. ranks \subseteq Nat /\ ranks # {}
      BY <1>2, <3>1
    <3>3. PICK m \in ranks : \A y \in ranks : m <= y
      BY <3>2, LeastNatural
    <3>4. QED
      BY <3>3
  <2>2. CompressionOf(i) \in F
    <3>1. CompressionOf(i) = CHOOSE c \in F : \A d \in F : Rank[c] <= Rank[d]
      BY <1>2 DEF CompressionOf, RegisteredCompression
    <3> HIDE DEF F
    <3>2. QED
      BY <2>1, <3>1
  <2>3. QED
    BY <2>2
<1>3. QED
  BY <1>1, <1>2

\* The ranks of the coders: DZ has the highest.
LEMMA RankOf ==
  ASSUME NEW c \in StorageFlags
  PROVE  /\ Rank[c] \in 0 .. 5
         /\ Rank[c] = 5 <=> c = "DZ"
BY DEF StorageFlags, Rank

-----------------------------------------------------------------------------
(* The orders of the plan *)

\* Segments listed in order are those of the set, each of them once.
LEMMA Listed ==
  ASSUME Requested, NEW S, S \subseteq Segments
  PROVE  /\ IsFiniteSet(S) /\ Cardinality(S) \in Nat
         /\ DOMAIN InOrder(S) = 1 .. Cardinality(S) /\ Len(InOrder(S)) = Cardinality(S)
         /\ \A k \in 1 .. Cardinality(S) : InOrder(S)[k] \in S
         /\ \A i \in S : \E k \in 1 .. Cardinality(S) : InOrder(S)[k] = i
         /\ \A k, l \in 1 .. Cardinality(S) : InOrder(S)[k] = InOrder(S)[l] => k = l
<1>1. S \subseteq Int /\ IsFiniteSet(S) /\ Cardinality(S) \in Nat
  <2>1. IsFiniteSet(S) /\ S \subseteq Int
    BY SegmentParts, FS_Subset
  <2>2. QED
    BY <2>1, FS_CardinalityType
<1> DEFINE R == {p \in S \X S : p[1] < p[2]}
           n == Cardinality(S)
<1>2. \A x, y \in S : <<x, y>> \in R <=> x < y
  OBVIOUS
<1>3. \A x \in S : Cardinality(Before(S, R, x)) = Cardinality({j \in S : j < x})
  <2>1. \A x \in S : Before(S, R, x) = {j \in S : j < x}
    BY DEF Before
  <2>2. QED
    BY <2>1
<1>4. StrictOrder(S, R)
  <2> HIDE DEF R
  <2>1. QED
    BY <1>1, <1>2 DEF StrictOrder
<1> HIDE DEF R
<1>5. /\ \A k \in 0 .. n - 1 : \E x \in S : Cardinality({j \in S : j < x}) = k
      /\ \A x \in S : Cardinality({j \in S : j < x}) \in 0 .. n - 1
      /\ \A x, y \in S : Cardinality({j \in S : j < x}) = Cardinality({j \in S : j < y}) => x = y
  <2>1. /\ \A k \in 0 .. n - 1 : \E x \in S : Cardinality(Before(S, R, x)) = k
        /\ \A x, y \in S :
             Cardinality(Before(S, R, x)) = Cardinality(Before(S, R, y)) => x = y
    BY <1>1, <1>4, PlacesFilled
  <2>2. \A x \in S : Cardinality(Before(S, R, x)) \in 0 .. n - 1
    BY <1>1, <1>4, PlacesOrdered
  <2> DEFINE place(x) == Cardinality({j \in S : j < x})
  <2>3. \A x \in S : Cardinality(Before(S, R, x)) = place(x)
    BY <1>3
  <2> HIDE DEF place, n
  <2>4. /\ \A k \in 0 .. n - 1 : \E x \in S : place(x) = k
        /\ \A x \in S : place(x) \in 0 .. n - 1
        /\ \A x, y \in S : place(x) = place(y) => x = y
    BY <2>1, <2>2, <2>3
  <2>5. QED
    BY <2>4 DEF place, n
<1>6. DOMAIN InOrder(S) = 1 .. n /\ Len(InOrder(S)) = n
  <2>1. InOrder(S) = [k \in 1 .. n |-> CHOOSE i \in S : Cardinality({j \in S : j < i}) = k - 1]
    BY DEF InOrder
  <2> HIDE DEF n
  <2>2. QED
    BY <1>1, <2>1 DEF n
<1>7. \A k \in 1 .. n : /\ InOrder(S)[k] \in S
                        /\ Cardinality({j \in S : j < InOrder(S)[k]}) = k - 1
  <2> TAKE k \in 1 .. n
  <2>1. k - 1 \in 0 .. n - 1
    BY <1>1
  <2>2. InOrder(S)[k] = CHOOSE i \in S : Cardinality({j \in S : j < i}) = k - 1
    BY DEF InOrder
  <2>3. \E i \in S : Cardinality({j \in S : j < i}) = k - 1
    BY <1>5, <2>1
  <2>4. QED
    BY <2>2, <2>3
<1>8. \A i \in S : \E k \in 1 .. n : InOrder(S)[k] = i
  <2> TAKE i \in S
  <2> DEFINE k == Cardinality({j \in S : j < i}) + 1
  <2>1. k \in 1 .. n
    BY <1>1, <1>5
  <2>2. Cardinality({j \in S : j < i}) = k - 1
    BY <1>1, <1>5
  <2>3. InOrder(S)[k] = i
    BY <1>5, <1>7, <2>1, <2>2
  <2>4. QED
    BY <2>1, <2>3
<1>9. ASSUME NEW k \in 1 .. n, NEW l \in 1 .. n, InOrder(S)[k] = InOrder(S)[l] PROVE k = l
  <2>1. k - 1 = l - 1
    BY <1>7, <1>9
  <2>2. QED
    BY <1>1, <2>1
<1>10. QED
  BY <1>1, <1>6, <1>7, <1>8, <1>9

\* What is written before i.
Earlier(i) == {j \in Segments : WrittenBefore(j, i)}

\* Segments are written in a strict order, whose k-th place WriteOrder gives.
LEMMA Scheduled ==
  ASSUME Requested, \A i \in Segments : CompressionOf(i) # "NONE"
  PROVE  /\ \A k \in 1 .. Count : WriteOrder[k] \in Segments /\ Cardinality(Earlier(WriteOrder[k])) = k - 1
         /\ \A i \in Segments : \E k \in 1 .. Count : WriteOrder[k] = i
         /\ \A k, l \in 1 .. Count : WrittenBefore(WriteOrder[k], WriteOrder[l]) <=> k < l
<1> DEFINE R == {p \in Segments \X Segments : WrittenBefore(p[1], p[2])}
<1>1. /\ Count \in Nat /\ Segments \subseteq Int
      /\ IsFiniteSet(Segments) /\ Cardinality(Segments) = Count
  BY SegmentParts
<1>2. \A i \in Segments : Rank[CompressionOf(i)] \in Int
  BY CoderOf, RankOf
<1>3. \A x, y \in Segments : <<x, y>> \in R <=> WrittenBefore(x, y)
  OBVIOUS
<1> HIDE DEF R
<1>4. StrictOrder(Segments, R)
  <2> DEFINE rank(i) == Rank[CompressionOf(i)]
  <2>1. \A x, y \in Segments : <<x, y>> \in R <=> rank(x) < rank(y) \/ (rank(x) = rank(y) /\ x < y)
    BY <1>3 DEF WrittenBefore
  <2>2. \A i \in Segments : rank(i) \in Int
    BY <1>2
  <2> HIDE DEF rank
  <2>3. QED
    BY <1>1, <2>1, <2>2 DEF StrictOrder
<1>5. \A x \in Segments : Before(Segments, R, x) = Earlier(x)
  BY <1>3 DEF Before, Earlier
<1>6. /\ \A k \in 0 .. Count - 1 : \E x \in Segments : Cardinality(Before(Segments, R, x)) = k
      /\ \A x, y \in Segments :
           Cardinality(Before(Segments, R, x)) = Cardinality(Before(Segments, R, y)) => x = y
  <2>1. /\ \A k \in 0 .. Cardinality(Segments) - 1 :
             \E x \in Segments : Cardinality(Before(Segments, R, x)) = k
        /\ \A x, y \in Segments :
             Cardinality(Before(Segments, R, x)) = Cardinality(Before(Segments, R, y)) => x = y
    BY <1>1, <1>4, PlacesFilled
  <2>2. QED
    BY <1>1, <2>1
<1>7. /\ \A x \in Segments : Cardinality(Before(Segments, R, x)) \in 0 .. Count - 1
      /\ \A x, y \in Segments :
           <<x, y>> \in R
             <=> Cardinality(Before(Segments, R, x)) < Cardinality(Before(Segments, R, y))
  BY <1>1, <1>4, PlacesOrdered
<1>8. \A k \in 1 .. Count :
        WriteOrder[k] \in Segments /\ Cardinality(Earlier(WriteOrder[k])) = k - 1
  <2> TAKE k \in 1 .. Count
  <2>1. WriteOrder[k] = CHOOSE i \in Segments : Cardinality(Earlier(i)) = k - 1
    BY DEF WriteOrder, Earlier
  <2>2. k - 1 \in 0 .. Count - 1
    BY <1>1
  <2>3. \E i \in Segments : Cardinality(Earlier(i)) = k - 1
    BY <1>5, <1>6, <2>2
  <2>4. QED
    BY <2>1, <2>3
<1>9. \A i \in Segments : \E k \in 1 .. Count : WriteOrder[k] = i
  <2> TAKE i \in Segments
  <2> DEFINE k == Cardinality(Earlier(i)) + 1
  <2>1. Cardinality(Earlier(i)) \in 0 .. Count - 1
    BY <1>5, <1>7
  <2>2. k \in 1 .. Count /\ Cardinality(Earlier(i)) = k - 1
    BY <1>1, <2>1
  <2> HIDE DEF k
  <2>3. WriteOrder[k] \in Segments /\ Cardinality(Earlier(WriteOrder[k])) = Cardinality(Earlier(i))
    BY <1>8, <2>2
  <2>4. WriteOrder[k] = i
    BY <1>5, <1>6, <2>3
  <2>5. QED
    BY <2>2, <2>4
<1>10. ASSUME NEW k \in 1 .. Count, NEW l \in 1 .. Count
       PROVE  WrittenBefore(WriteOrder[k], WriteOrder[l]) <=> k < l
  <2>1. /\ WriteOrder[k] \in Segments /\ Cardinality(Earlier(WriteOrder[k])) = k - 1
        /\ WriteOrder[l] \in Segments /\ Cardinality(Earlier(WriteOrder[l])) = l - 1
    BY <1>8
  <2>2. WrittenBefore(WriteOrder[k], WriteOrder[l]) <=> k - 1 < l - 1
    BY <1>3, <1>5, <1>7, <2>1
  <2>3. QED
    BY <2>2
<1>11. QED
  BY <1>8, <1>9, <1>10

\* The DZ segments are the last to be written.
LEMMA DzLast ==
  ASSUME Requested, \A i \in Segments : CompressionOf(i) # "NONE"
  PROVE  /\ NonDz \in 0 .. Count
         /\ \A k \in 1 .. Count : k > NonDz <=> WriteOrder[k] \in DzSegments
<1>1. /\ Count \in Nat /\ IsFiniteSet(Segments) /\ Cardinality(Segments) = Count
      /\ DzSegments \subseteq Segments
  BY SegmentParts DEF DzSegments
<1>2. Cardinality(DzSegments) \in 0 .. Count
  <2>1. IsFiniteSet(DzSegments) /\ Cardinality(DzSegments) <= Count
    BY <1>1, FS_Subset
  <2>2. QED
    BY <1>1, <2>1, FS_CardinalityType
<1>3. NonDz = Count - Cardinality(DzSegments) /\ NonDz \in 0 .. Count
  BY <1>1, <1>2 DEF NonDz
<1>4. Cardinality(Segments \ DzSegments) = NonDz /\ IsFiniteSet(Segments \ DzSegments)
  <2>1. Segments \cap DzSegments = DzSegments
    BY <1>1
  <2>2. QED
    BY <1>1, <1>3, <2>1, FS_Difference, ZenonT(60)
<1>5. ASSUME NEW k \in 1 .. Count, WriteOrder[k] \notin DzSegments PROVE k <= NonDz
  <2> DEFINE i == WriteOrder[k]
             T == Earlier(i) \cup {i}
  <2>1. i \in Segments /\ Cardinality(Earlier(i)) = k - 1
    BY Scheduled
  <2>2. Rank[CompressionOf(i)] \in 0 .. 4
    BY <1>5, <2>1, CoderOf, RankOf DEF DzSegments
  <2>3. ASSUME NEW j \in Earlier(i) PROVE j \in Segments \ DzSegments
    <3>1. j \in Segments /\ Rank[CompressionOf(j)] <= Rank[CompressionOf(i)]
          /\ Rank[CompressionOf(j)] \in 0 .. 5
      BY <2>2, CoderOf, RankOf DEF Earlier, WrittenBefore
    <3>2. CompressionOf(j) # "DZ"
      BY <2>2, <3>1 DEF Rank
    <3>3. QED
      BY <3>1, <3>2 DEF DzSegments
  <2>4. i \notin Earlier(i)
    BY <2>1, <2>2, SegmentParts DEF Earlier, WrittenBefore
  <2>5. T \subseteq Segments \ DzSegments
    BY <1>5, <2>1, <2>3
  <2>6. IsFiniteSet(Earlier(i))
    <3>1. Earlier(i) \subseteq Segments
      BY DEF Earlier
    <3>2. QED
      BY <1>1, <3>1, FS_Subset
  <2>7. Cardinality(T) = k
    <3>1. Cardinality(T) = Cardinality(Earlier(i)) + 1
      BY <2>4, <2>6, FS_AddElement
    <3>2. QED
      BY <2>1, <3>1
  <2>8. Cardinality(T) <= NonDz
    BY <1>4, <2>5, FS_Subset
  <2>9. QED
    BY <2>7, <2>8
<1>6. ASSUME NEW k \in 1 .. Count, WriteOrder[k] \in DzSegments PROVE k > NonDz
  <2> DEFINE i == WriteOrder[k]
  <2>1. i \in Segments /\ Cardinality(Earlier(i)) = k - 1
    BY Scheduled
  <2>2. Rank[CompressionOf(i)] = 5
    BY <1>6 DEF DzSegments, Rank
  <2>3. ASSUME NEW j \in Segments \ DzSegments PROVE j \in Earlier(i)
    <3>1. Rank[CompressionOf(j)] \in 0 .. 5 /\ Rank[CompressionOf(j)] # 5
      BY CoderOf, RankOf DEF DzSegments
    <3>2. Rank[CompressionOf(j)] < Rank[CompressionOf(i)]
      BY <2>2, <3>1
    <3>3. QED
      BY <3>2 DEF Earlier, WrittenBefore
  <2>4. IsFiniteSet(Earlier(i))
    <3>1. Earlier(i) \subseteq Segments
      BY DEF Earlier
    <3>2. QED
      BY <1>1, <3>1, FS_Subset
  <2>5. Cardinality(Segments \ DzSegments) <= Cardinality(Earlier(i))
    BY <2>3, <2>4, FS_Subset
  <2>6. QED
    BY <1>1, <1>3, <1>4, <2>1, <2>5
<1>7. QED
  BY <1>3, <1>5, <1>6

\* The chunk lists of the logical files: a class of segments each.
Class(k) == FileSegments(InOrder(FirstSegments)[k])

\* Every segment is in one of them, and no segment in two.
LEMMA Grouped ==
  ASSUME Requested
  PROVE  /\ Cardinality(FirstSegments) \in Nat
         /\ DOMAIN LogicalFiles = 1 .. Cardinality(FirstSegments)
         /\ Len(LogicalFiles) = Cardinality(FirstSegments)
         /\ \A k \in 1 .. Cardinality(FirstSegments) :
              Class(k) \subseteq Segments /\ LogicalFiles[k] = InOrder(Class(k))
         /\ \A k, l \in 1 .. Cardinality(FirstSegments) : k # l => Class(k) \cap Class(l) = {}
         /\ \A i \in Segments : \E k \in 1 .. Cardinality(FirstSegments) : i \in Class(k)
<1> DEFINE n == Cardinality(FirstSegments)
<1>1. FirstSegments \subseteq Segments /\ Segments \subseteq Nat
  BY SegmentParts DEF FirstSegments
<1>2. \A i : FileSegments(i) \subseteq Segments
  BY DEF FileSegments
<1>3. /\ n \in Nat
      /\ \A k \in 1 .. n : InOrder(FirstSegments)[k] \in FirstSegments
      /\ \A i \in FirstSegments : \E k \in 1 .. n : InOrder(FirstSegments)[k] = i
      /\ \A k, l \in 1 .. n : InOrder(FirstSegments)[k] = InOrder(FirstSegments)[l] => k = l
  BY <1>1, Listed
<1>4. LogicalFiles = [k \in 1 .. n |-> InOrder(Class(k))]
  BY DEF LogicalFiles, Class
<1>5. DOMAIN LogicalFiles = 1 .. n /\ Len(LogicalFiles) = n
  <2> HIDE DEF n
  <2>1. QED
    BY <1>3, <1>4
<1>6. \A k \in 1 .. n : Class(k) \subseteq Segments /\ LogicalFiles[k] = InOrder(Class(k))
  BY <1>2, <1>4 DEF Class
<1>7. ASSUME NEW i \in FirstSegments, NEW j \in FirstSegments, i # j
      PROVE  FileSegments(i) \cap FileSegments(j) = {}
  <2> SUFFICES ASSUME NEW x \in FileSegments(i), x \in FileSegments(j) PROVE FALSE
    OBVIOUS
  <2>1. job.segments[i].path = job.segments[j].path
    BY DEF FileSegments
  <2>2. i \in FileSegments(j) /\ j \in FileSegments(i)
    BY <1>1, <2>1 DEF FileSegments
  <2>3. i <= j /\ j <= i
    BY <2>2 DEF FirstSegments
  <2>4. QED
    BY <1>1, <1>7, <2>3
<1>8. \A k, l \in 1 .. n : k # l => Class(k) \cap Class(l) = {}
  BY <1>3, <1>7 DEF Class
<1>9. ASSUME NEW i \in Segments PROVE \E k \in 1 .. n : i \in Class(k)
  <2>1. i \in FileSegments(i) /\ FileSegments(i) \subseteq Nat
    BY <1>1, <1>2 DEF FileSegments
  <2>2. PICK m \in FileSegments(i) : \A y \in FileSegments(i) : m <= y
    BY <2>1, LeastNatural
  <2>3. FileSegments(m) = FileSegments(i)
    BY <2>2 DEF FileSegments
  <2>4. m \in FirstSegments
    BY <1>2, <2>2, <2>3 DEF FirstSegments
  <2>5. PICK k \in 1 .. n : InOrder(FirstSegments)[k] = m
    BY <1>3, <2>4
  <2>6. QED
    BY <2>1, <2>3, <2>5 DEF Class
<1>10. QED
  BY <1>3, <1>5, <1>6, <1>8, <1>9

\* The chunk lists of the files have as many ids together as there are segments.
LEMMA ListsAddUp ==
  ASSUME Requested, NEW a \in Nat, NEW b \in Nat, NEW f,
         \A k \in DOMAIN LogicalFiles : f[k] = a + b * Len(LogicalFiles[k])
  PROVE  SumOver(f, DOMAIN LogicalFiles) = a * Len(LogicalFiles) + b * Count
<1> DEFINE n == Cardinality(FirstSegments)
           Upto(k) == UNION {Class(l) : l \in 1 .. k}
           G == {k \in Nat : k <= n =>
                   SumOver(f, 1 .. k) = a * k + b * Cardinality(Upto(k))}
<1>1. /\ n \in Nat /\ DOMAIN LogicalFiles = 1 .. n /\ Len(LogicalFiles) = n
      /\ \A k \in 1 .. n : Class(k) \subseteq Segments /\ LogicalFiles[k] = InOrder(Class(k))
      /\ \A k, l \in 1 .. n : k # l => Class(k) \cap Class(l) = {}
      /\ \A i \in Segments : \E k \in 1 .. n : i \in Class(k)
  BY Grouped
<1>2. \A k \in 1 .. n : Len(LogicalFiles[k]) = Cardinality(Class(k)) /\ Cardinality(Class(k)) \in Nat
                        /\ IsFiniteSet(Class(k))
  BY <1>1, Listed
<1>3. \A k \in 1 .. n : f[k] = a + b * Cardinality(Class(k)) /\ f[k] \in Nat
  <2> TAKE k \in 1 .. n
  <2>1. f[k] = a + b * Cardinality(Class(k))
    BY <1>1, <1>2
  <2>2. Cardinality(Class(k)) \in Nat
    BY <1>2
  <2>3. QED
    BY <2>1, <2>2
<1>4. IsFiniteSet(Segments) /\ Cardinality(Segments) = Count
  BY SegmentParts
<1>5. 0 \in G
  <2>1. Upto(0) = {}
    OBVIOUS
  <2>2. Cardinality(Upto(0)) = 0
    BY <2>1, FS_EmptySet
  <2>3. 1 .. 0 = {} /\ SumOver(f, {}) = 0
    <3>1. IsFiniteSet({}) /\ \A x \in {} : f[x] \in Nat
      BY FS_EmptySet
    <3>2. SumOver(f, {}) = 0
      BY <3>1, SumStep
    <3>3. QED
      BY <3>2
  <2> HIDE DEF Upto, n
  <2>4. a * 0 = 0 /\ b * 0 = 0
    OBVIOUS
  <2>5. QED
    BY <2>2, <2>3, <2>4
<1>6. ASSUME NEW k \in Nat, k \in G PROVE k + 1 \in G
  <2> SUFFICES ASSUME k + 1 <= n
               PROVE  SumOver(f, 1 .. k + 1) = a * (k + 1) + b * Cardinality(Upto(k + 1))
    OBVIOUS
  <2>1. k <= n /\ k + 1 \in 1 .. n
    BY <1>1
  <2>2. SumOver(f, 1 .. k) = a * k + b * Cardinality(Upto(k))
    BY <1>6, <2>1
  <2> HIDE DEF G
  <2>3. SumOver(f, 1 .. k + 1) = SumOver(f, 1 .. k) + f[k + 1]
    <3>1. \A x \in 1 .. k + 1 : x \in 1 .. n
      BY <1>1, <2>1
    <3>2. \A x \in 1 .. k + 1 : f[x] \in Nat
      BY <1>3, <3>1
    <3>3. QED
      BY <3>2, SumUpto
  <2>4. Upto(k + 1) = Upto(k) \cup Class(k + 1)
    OBVIOUS
  <2>5. Upto(k) \cap Class(k + 1) = {}
    <3>1. \A l \in 1 .. k : Class(l) \cap Class(k + 1) = {}
      <4> TAKE l \in 1 .. k
      <4>1. l \in 1 .. n /\ l # k + 1
        BY <1>1, <2>1
      <4> HIDE DEF n
      <4>2. QED
        BY <1>1, <2>1, <4>1
    <3>2. QED
      BY <3>1
  <2>6. IsFiniteSet(Upto(k)) /\ Cardinality(Upto(k)) \in Nat
    <3>1. Upto(k) \subseteq Segments
      BY <1>1, <2>1
    <3> HIDE DEF Upto
    <3>2. IsFiniteSet(Upto(k))
      BY <1>4, <3>1, FS_Subset
    <3>3. QED
      BY <3>2, FS_CardinalityType
  <2> HIDE DEF Upto, n
  <2>7. Cardinality(Upto(k + 1)) = Cardinality(Upto(k)) + Cardinality(Class(k + 1))
    <3>1. Cardinality(Upto(k) \cup Class(k + 1))
            = Cardinality(Upto(k)) + Cardinality(Class(k + 1)) - Cardinality(Upto(k) \cap Class(k + 1))
      BY <1>2, <2>1, <2>6, FS_Union
    <3>2. Cardinality(Upto(k) \cap Class(k + 1)) = 0
      BY <2>5, FS_EmptySet
    <3>3. Cardinality(Class(k + 1)) \in Nat
      BY <1>2, <2>1
    <3> DEFINE u == Cardinality(Upto(k))
               c == Cardinality(Class(k + 1))
               d == Cardinality(Upto(k) \cap Class(k + 1))
    <3>4. u \in Nat /\ c \in Nat /\ d = 0 /\ Cardinality(Upto(k + 1)) = u + c - d
      BY <2>4, <2>6, <3>1, <3>2, <3>3
    <3> HIDE DEF u, c, d
    <3>5. Cardinality(Upto(k + 1)) = u + c
      BY <3>4
    <3>6. QED
      BY <3>5 DEF u, c
  <2>8. f[k + 1] = a + b * Cardinality(Class(k + 1)) /\ Cardinality(Class(k + 1)) \in Nat
    BY <1>2, <1>3, <2>1
  <2> DEFINE u == Cardinality(Upto(k))
             c == Cardinality(Class(k + 1))
  <2>9. u \in Nat /\ c \in Nat
    BY <2>6, <2>8
  <2>10. b * (u + c) = b * u + b * c /\ a * (k + 1) = a * k + a
    <3> HIDE DEF u, c
    <3>1. QED
      BY <2>9
  <2>11. SumOver(f, 1 .. k + 1) = a * k + b * u + (a + b * c)
    BY <2>2, <2>3, <2>8
  <2>12. Cardinality(Upto(k + 1)) = u + c
    BY <2>7
  <2> HIDE DEF u, c
  <2> DEFINE ak == a * k
             bu == b * u
             bc == b * c
  <2>13. ak \in Nat /\ bu \in Nat /\ bc \in Nat
    BY <2>9
  <2>14. SumOver(f, 1 .. k + 1) = ak + bu + (a + bc)
         /\ a * (k + 1) + b * Cardinality(Upto(k + 1)) = (ak + a) + (bu + bc)
    BY <2>10, <2>11, <2>12
  <2> HIDE DEF ak, bu, bc
  <2>15. QED
    BY <2>13, <2>14
<1>7. Upto(n) = Segments
  BY <1>1
<1> HIDE DEF G
<1>8. Nat \subseteq G
  BY <1>5, <1>6, NaturalSteps
<1>9. SumOver(f, 1 .. n) = a * n + b * Cardinality(Upto(n))
  <2>1. n \in G
    BY <1>1, <1>8
  <2> HIDE DEF n, Upto
  <2>2. QED
    BY <1>1, <2>1 DEF G
<1>10. QED
  BY <1>1, <1>4, <1>7, <1>9

\* The plan's sizes are natural numbers.
LEMMA PlanSizes ==
  ASSUME Requested
  PROVE  /\ HeaderSize \in Nat \ {0}
         /\ ChunkCount \in {Count, Count + 1}
         /\ HasCommon => job.common \in Nat
<1>1. HasCommon => job.common \in Nat
  BY JobParts DEF HasCommon
<1>2. ChunkCount \in {Count, Count + 1} /\ Count \in Nat
  BY SegmentParts DEF ChunkCount
<1>3. HeaderSize \in Nat \ {0}
  <2>1. Len(LogicalFiles) \in Nat
    BY Grouped
  <2>2. ChunkCount \in Nat /\ Count \in Nat /\ job.strings \in Nat /\ job.volume_strings \in Nat
    BY <1>2, JobParts
  <2> DEFINE lists == Len(LogicalFiles)
             range == IF HasDz THEN 10 ELSE 0
  <2>3. range \in Nat /\ lists \in Nat
    BY <2>1
  <2>4. HeaderSize = 9 + job.strings + 4 * lists + 2 * Count + 4 + 16 * ChunkCount
                       + job.volume_strings + range
    BY DEF HeaderSize
  <2> HIDE DEF lists, range
  <2>5. QED
    BY <2>2, <2>3, <2>4
<1>4. QED
  BY <1>1, <1>2, <1>3

\* With a record for every chunk the sections of the header have the size planned.
LEMMA SectionsAddUp ==
  ASSUME Requested, Len(chunks) = ChunkCount
  PROVE  HeaderBytes = HeaderSize
<1> DEFINE f == [k \in DOMAIN LogicalFiles |-> 2 + 2 * Len(LogicalFiles[k]) + 2]
<1>1. SumFunction(f) = 4 * Len(LogicalFiles) + 2 * Count
  <2>1. DOMAIN f = DOMAIN LogicalFiles
        /\ \A k \in DOMAIN LogicalFiles : f[k] = 2 + 2 * Len(LogicalFiles[k]) + 2
    OBVIOUS
  <2> HIDE DEF f
  <2>2. \A k \in DOMAIN LogicalFiles : f[k] = 4 + 2 * Len(LogicalFiles[k])
    <3> TAKE k \in DOMAIN LogicalFiles
    <3>1. Len(LogicalFiles[k]) \in Nat
      BY Grouped, Listed
    <3>2. QED
      BY <2>1, <3>1
  <2>3. SumOver(f, DOMAIN LogicalFiles) = 4 * Len(LogicalFiles) + 2 * Count
    <3>1. 4 \in Nat /\ 2 \in Nat
      OBVIOUS
    <3>2. QED
      BY <2>2, <3>1, ListsAddUp
  <2>4. QED
    BY <2>1, <2>3, SumFunctionIs
<1>2. HeaderBytes = 9 + job.strings + SumFunction(f) + 4 + Len(chunks) * 16 + job.volume_strings
                      + (IF HasDz THEN 10 ELSE 0)
  <2> HIDE DEF f
  <2>1. SumFunction(f) \in Int /\ Len(chunks) \in Int /\ job.strings \in Int /\ job.volume_strings \in Int
    BY <1>1, PlanSizes, Grouped, JobParts, SegmentParts, SMTT(40)
  <2>2. HeaderBytes = (4 + 2 + 2 + 1) + job.strings + SumFunction(f) + (2 + 2)
                        + Len(chunks) * (4 + 4 + 4 + 2 + 2) + job.volume_strings
                        + (IF HasDz THEN 10 ELSE 0)
    BY DEF HeaderBytes, f
  <2>3. QED
    BY <2>1, <2>2
<1> HIDE DEF f
<1>3. Count \in Nat /\ ChunkCount \in Nat /\ Len(LogicalFiles) \in Nat
      /\ job.strings \in Nat /\ job.volume_strings \in Nat
  BY PlanSizes, Grouped, JobParts, SegmentParts
<1>4. QED
  BY <1>1, <1>2, <1>3 DEF HeaderSize

-----------------------------------------------------------------------------
(* The inductive invariant *)

Kinds == {"old", "zeros", "header", "common", "payload"}
Piece == [from : Nat, to : Nat, kind : Kinds, index : Nat]

ContentTyped == content \in [Files -> Seq(Piece)]

\* What is done by the time a step is reached.
Stages ==
  /\ step \notin {"prepare", "returned"} => Valid
  /\ step \in {"open", "load", "pad", "payload"} => cursor >= 1
  /\ step = "payload" => cursor <= Count + 1
  /\ step = "load" =>
       \A k \in 1 .. Cardinality(DzSegments) : k < cursor => loaded[DzOrder[k]] # NoLength
  /\ step \in {"encode_dz", "place", "pad", "payload", "header"} =>
       \A i \in DzSegments : loaded[i] # NoLength
  /\ step \in {"pad", "payload", "header"} \/ result = "ok" => ChunkCount <= MaxU16
  /\ step # "returned" => result = "none"

NoHeaderYet == \A f \in Files : \A k \in DOMAIN content[f] : content[f][k].kind # "header"

\* The header comes last, when every record of the chunk table is there.
HeaderLast ==
  /\ Len(chunks) \in {Count, ChunkCount}
  /\ step = "header" => Len(chunks) = ChunkCount
  /\ step # "returned" => NoHeaderYet
  /\ ~NoHeaderYet => Len(chunks) = ChunkCount

IInv == TypeOK /\ ContentTyped /\ Stages /\ HeaderLast

\* The plan depends on the job alone, and the job stays.
LEMMA PlanStays ==
  ASSUME job' = job
  PROVE  /\ Segments' = Segments /\ Count' = Count /\ DzSegments' = DzSegments
         /\ DzOrder' = DzOrder /\ LogicalFiles' = LogicalFiles /\ NonDz' = NonDz
         /\ WriteOrder' = WriteOrder /\ HasCommon' = HasCommon /\ ChunkCount' = ChunkCount
         /\ HeaderSize' = HeaderSize /\ VolumeIds' = VolumeIds /\ (Valid' <=> Valid)
         /\ \A v : VolumeFile(v)' = VolumeFile(v)
         /\ \A i : CompressionOf(i)' = CompressionOf(i)
         /\ \A i, j : WrittenBefore(i, j)' = WrittenBefore(i, j)
<1>1. Segments' = Segments /\ Count' = Count /\ VolumeIds' = VolumeIds
  BY DEF Segments, Count, VolumeIds
<1>2. \A i : CompressionOf(i)' = CompressionOf(i)
  BY DEF CompressionOf
<1>3. DzSegments' = DzSegments
  BY <1>1, <1>2 DEF DzSegments
<1>4. DzOrder' = DzOrder
  BY <1>3 DEF DzOrder, InOrder
<1>5. \A i : FileSegments(i)' = FileSegments(i)
  BY <1>1 DEF FileSegments
<1>6. FirstSegments' = FirstSegments
  BY <1>1, <1>5 DEF FirstSegments
<1>7. LogicalFiles' = LogicalFiles
  BY <1>1, <1>6 DEF LogicalFiles, InOrder, FileSegments
<1>8. \A i, j : WrittenBefore(i, j)' = WrittenBefore(i, j)
  BY <1>2 DEF WrittenBefore
<1>9. WriteOrder' = WriteOrder
  BY <1>1, <1>8 DEF WriteOrder
<1>10. HasCommon' = HasCommon /\ NonDz' = NonDz /\ HasDz' = HasDz
  BY <1>1, <1>3 DEF HasCommon, HasDz, NonDz
<1>11. ChunkCount' = ChunkCount
  BY <1>1, <1>10 DEF ChunkCount
<1>12. HeaderSize' = HeaderSize
  BY <1>1, <1>7, <1>10, <1>11 DEF HeaderSize
<1>13. Valid' <=> Valid
  BY <1>1, <1>2, <1>7 DEF Valid
<1>14. \A v : VolumeFile(v)' = VolumeFile(v)
  BY DEF VolumeFile
<1>15. QED
  BY <1>1, <1>2, <1>3, <1>4, <1>7, <1>8, <1>9, <1>10, <1>11, <1>12, <1>13, <1>14

\* A file has a length: it is where the write that reaches furthest ends.
LEMMA FileLengthIs ==
  ASSUME ContentTyped, NEW f \in Files
  PROVE  /\ FileLength(f) \in Nat
         /\ \A k \in DOMAIN content[f] : content[f][k].to <= FileLength(f)
         /\ FileLength(f) = 0 \/ \E k \in DOMAIN content[f] : content[f][k].to = FileLength(f)
<1> DEFINE P == Piece
           c == content[f]
           ends == {0} \cup {c[k].to : k \in DOMAIN c}
<1>1. c \in Seq(P)
  BY DEF ContentTyped
<1>2. Len(c) \in Nat /\ DOMAIN c = 1 .. Len(c) /\ \A k \in DOMAIN c : c[k] \in P
  <2> HIDE DEF P, c
  <2>1. QED
    BY <1>1
<1>3. \A k \in DOMAIN c : c[k].to \in Nat
  BY <1>2 DEF Piece
<1>4. IsFiniteSet(ends) /\ ends \subseteq Nat /\ ends # {}
  <2> DEFINE T == {c[k].to : k \in DOMAIN c}
             last == [k \in DOMAIN c |-> c[k].to]
  <2>1. IsFiniteSet(DOMAIN c)
    <3> HIDE DEF c
    <3>1. 1 \in Int /\ Len(c) \in Int
      BY <1>2
    <3>2. IsFiniteSet(1 .. Len(c))
      BY <3>1, FS_Interval
    <3>3. QED
      BY <1>2, <3>2
  <2>2. last \in Surjection(DOMAIN c, T)
    BY DEF Surjection
  <2>3. IsFiniteSet(T)
    <3> HIDE DEF last, T, c
    <3>1. QED
      BY <2>1, <2>2, FS_Surjection
  <2>4. IsFiniteSet(T \cup {0})
    BY <2>3, FS_AddElement
  <2>5. ends = T \cup {0}
    OBVIOUS
  <2>6. QED
    BY <1>3, <2>4, <2>5
<1> HIDE DEF ends
<1>5. Max(ends) \in ends /\ \A n \in ends : n <= Max(ends)
  BY <1>4, GreatestNatural
<1>6. QED
  BY <1>4, <1>5 DEF FileLength, ends

\* Writing through a volume's handle keeps the types, and adds a piece of its kind.
LEMMA PutTyped ==
  ASSUME Requested, ContentTyped, position \in [VolumeIds -> Nat],
         NEW v \in VolumeIds, NEW n \in Nat, NEW kind \in Kinds, NEW index \in Nat,
         Put(v, n, kind, index)
  PROVE  /\ ContentTyped'
         /\ position' = [position EXCEPT ![v] = @ + n]
         /\ position' \in [VolumeIds -> Nat]
         /\ kind # "header" /\ NoHeaderYet => NoHeaderYet'
<1> DEFINE P == Piece
           f == VolumeFile(v)
           at == [from |-> position[v], to |-> position[v] + n, kind |-> kind, index |-> index]
           c == content[f]
<1>1. position' = [position EXCEPT ![v] = @ + n] /\ position' \in [VolumeIds -> Nat]
  BY DEF Put
<1>2. content' = content \/ content' = [content EXCEPT ![f] = Append(c, at)]
  BY DEF Put
<1>3. at \in P /\ f \in Files /\ at.kind = kind
  BY VolumeParts DEF Piece
<1>4. content \in [Files -> Seq(P)] /\ c \in Seq(P)
  BY <1>3 DEF ContentTyped
<1>5. /\ Append(c, at) \in Seq(P)
      /\ DOMAIN Append(c, at) = DOMAIN c \cup {Len(c) + 1}
      /\ \A k \in DOMAIN c : Append(c, at)[k] = c[k]
      /\ Append(c, at)[Len(c) + 1] = at
  <2> HIDE DEF P, c, at
  <2>1. QED
    BY <1>3, <1>4
<1>6. content' \in [Files -> Seq(P)]
  <2> HIDE DEF P, c, at, f
  <2>1. QED
    BY <1>2, <1>4, <1>5
<1>7. ASSUME kind # "header", NoHeaderYet, NEW g \in Files, NEW k \in DOMAIN content'[g]
      PROVE  content'[g][k].kind # "header"
  <2>1. CASE content' = content
    BY <1>7, <2>1 DEF NoHeaderYet
  <2>2. CASE content' = [content EXCEPT ![f] = Append(c, at)]
    <3>1. CASE g # f
      <4>1. content'[g] = content[g]
        BY <1>4, <2>2, <3>1
      <4>2. QED
        BY <1>7, <4>1 DEF NoHeaderYet
    <3>2. CASE g = f
      <4>1. content'[g] = Append(c, at)
        BY <1>3, <1>4, <2>2, <3>2
      <4>2. k \in DOMAIN c => content'[g][k].kind # "header"
        BY <1>3, <1>5, <1>7, <4>1 DEF NoHeaderYet
      <4>3. k = Len(c) + 1 => content'[g][k].kind # "header"
        BY <1>3, <1>5, <1>7, <4>1
      <4>4. QED
        BY <1>5, <1>7, <4>1, <4>2, <4>3
    <3>3. QED
      BY <3>1, <3>2
  <2>3. QED
    BY <1>2, <2>1, <2>2
<1>8. kind # "header" /\ NoHeaderYet => NoHeaderYet'
  BY <1>7 DEF NoHeaderYet
<1>9. QED
  BY <1>1, <1>6, <1>8 DEF ContentTyped

-----------------------------------------------------------------------------
(* It holds at first *)

\* A new build has touched nothing.
LEMMA InitIInv ==
  ASSUME Init
  PROVE  IInv
<1>1. Requested
  BY DEF Init, Requested
<1>2. Count \in Nat /\ Segments = 1 .. Count
  BY <1>1, SegmentParts
<1>3. TypeOK
  <2>1. position \in [VolumeIds -> Nat] /\ loaded \in [Segments -> Nat \cup {NoLength}]
    BY DEF Init
  <2>2. Blank \in Chunk
    BY DEF Blank, Chunk
  <2>3. chunks \in Seq(Chunk)
    <3> DEFINE C == Chunk
               b == Blank
    <3>1. chunks = [i \in 1 .. Count |-> b] /\ b \in C
      BY <1>2, <2>2 DEF Init
    <3> HIDE DEF C, b
    <3>2. chunks \in Seq(C)
      BY <1>2, <3>1
    <3>3. QED
      BY <3>2 DEF C
  <2>4. \A i \in DOMAIN chunks :
          /\ chunks[i].offset <= MaxU32
          /\ chunks[i].compressed_length <= MaxU32 /\ chunks[i].decompressed_length <= MaxU32
    BY MaxU32Assumption DEF Init, Blank
  <2>5. QED
    BY <2>1, <2>3, <2>4 DEF Init, TypeOK, Steps
<1>4. \A f \in Files : /\ content[f] \in Seq(Piece)
                       /\ \A k \in DOMAIN content[f] : content[f][k].kind # "header"
  <2> TAKE f \in Files
  <2> DEFINE at == [from |-> 0, to |-> job.existing[f], kind |-> "old", index |-> 0]
             P == Piece
  <2>1. content[f] = <<>> \/ content[f] = <<at>>
    BY DEF Init, Contents
  <2>2. at \in P /\ at.kind # "header"
    BY <1>1, JobParts DEF Piece, Kinds
  <2> HIDE DEF at, P
  <2>3. content[f] \in Seq(P) /\ \A k \in DOMAIN content[f] : content[f][k].kind # "header"
    <3>1. CASE content[f] = <<>>
      BY <3>1
    <3>2. CASE content[f] = <<at>>
      <4>1. content[f] \in Seq(P) /\ \A k \in DOMAIN content[f] : content[f][k] = at
        BY <2>2, <3>2
      <4>2. QED
        BY <2>2, <4>1
    <3>3. QED
      BY <2>1, <3>1, <3>2
  <2>4. QED
    BY <2>3 DEF P
<1>5. ContentTyped
  BY <1>4 DEF ContentTyped, Init, Contents
<1>6. Stages
  BY DEF Init, Stages
<1>7. HeaderLast
  <2>1. Len(chunks) = Count
    <3>1. chunks = [i \in 1 .. Count |-> Blank]
      BY <1>2 DEF Init
    <3>2. QED
      BY <1>2, <3>1
  <2>2. NoHeaderYet
    BY <1>4 DEF NoHeaderYet
  <2>3. QED
    BY <2>1, <2>2 DEF HeaderLast, Init
<1>8. QED
  BY <1>3, <1>5, <1>6, <1>7 DEF IInv

-----------------------------------------------------------------------------
(* Each step keeps it *)

\* Types while the chunk table stays.
LEMMA TypesStay ==
  ASSUME TypeOK, job' = job, batch' = batch, chunks' = chunks,
         step' \in Steps, cursor' \in Nat, result' \in {"none", "ok", "failed"},
         position' \in [VolumeIds -> Nat], loaded' \in [Segments -> Nat \cup {NoLength}]
  PROVE  TypeOK'
<1>1. VolumeIds' = VolumeIds /\ Segments' = Segments
  BY PlanStays
<1>2. QED
  BY <1>1 DEF TypeOK

\* What the invariant says of the contents while they stay.
LEMMA ContentStays ==
  ASSUME content' = content
  PROVE  /\ ContentTyped => ContentTyped'
         /\ NoHeaderYet' <=> NoHeaderYet
BY DEF ContentTyped, NoHeaderYet

\* A step ends the call without touching anything.
LEMMA FailIInv ==
  ASSUME IInv, step # "returned", Fail, UNCHANGED <<job, batch, content, position, loaded, chunks>>
  PROVE  IInv'
<1>1. step' = "returned" /\ cursor' = 0 /\ result' = "failed"
  BY DEF Fail, Return
<1>2. TypeOK'
  <2>1. position \in [VolumeIds -> Nat] /\ loaded \in [Segments -> Nat \cup {NoLength}]
    BY DEF IInv, TypeOK
  <2>2. QED
    BY <1>1, <2>1, TypesStay DEF IInv, Steps
<1>3. ContentTyped' /\ (NoHeaderYet' <=> NoHeaderYet)
  BY ContentStays DEF IInv
<1>4. Stages'
  BY <1>1 DEF Stages
<1>5. HeaderLast'
  BY <1>1, <1>3, PlanStays DEF IInv, HeaderLast
<1>6. QED
  BY <1>2, <1>3, <1>4, <1>5 DEF IInv

\* Prepare: a call refused here has touched nothing; an accepted one starts with every list empty.
LEMMA PrepareIInv ==
  ASSUME IInv, Prepare
  PROVE  IInv'
<1>1. CASE ~Valid
  <2>1. step # "returned" /\ Fail /\ UNCHANGED <<job, batch, content, position, loaded, chunks>>
    BY <1>1 DEF Prepare
  <2>2. QED
    BY <2>1, FailIInv
<1>2. CASE Valid
  <2>1. /\ step = "prepare" /\ step' = "open" /\ cursor' = 1 /\ result' = result
        /\ job' = job /\ batch' = batch /\ chunks' = chunks /\ content' = content
        /\ position' = position /\ loaded' = loaded
    BY <1>2 DEF Prepare, Go
  <2>2. TypeOK'
    <3>1. position \in [VolumeIds -> Nat] /\ loaded \in [Segments -> Nat \cup {NoLength}]
          /\ result \in {"none", "ok", "failed"}
      BY DEF IInv, TypeOK
    <3>2. QED
      BY <2>1, <3>1, TypesStay DEF IInv, Steps
  <2>3. ContentTyped' /\ (NoHeaderYet' <=> NoHeaderYet)
    BY <2>1, ContentStays DEF IInv
  <2>4. Stages'
    BY <1>2, <2>1, PlanStays DEF IInv, Stages
  <2>5. HeaderLast'
    BY <2>1, <2>3, PlanStays DEF IInv, HeaderLast
  <2>6. QED
    BY <2>2, <2>3, <2>4, <2>5 DEF IInv
<1>3. QED
  BY <1>1, <1>2

\* OpenVolume empties at most the file of the volume at the cursor.
LEMMA OpenVolumeIInv ==
  ASSUME IInv, OpenVolume
  PROVE  IInv'
<1>1. /\ step = "open" /\ result' = result
      /\ job' = job /\ batch' = batch /\ chunks' = chunks
      /\ position' = position /\ loaded' = loaded
  BY DEF OpenVolume, Go
<1>2. /\ position \in [VolumeIds -> Nat] /\ loaded \in [Segments -> Nat \cup {NoLength}]
      /\ result \in {"none", "ok", "failed"} /\ cursor \in Nat /\ Requested
      /\ Valid /\ cursor >= 1 /\ result = "none" /\ NoHeaderYet
  BY <1>1 DEF IInv, TypeOK, Stages, HeaderLast, Requested
<1>3. (step' = "load" /\ cursor' = 1) \/ (step' = "open" /\ cursor' = cursor + 1)
  BY DEF OpenVolume, Go
<1>4. TypeOK'
  <2>1. step' \in Steps /\ cursor' \in Nat
    BY <1>2, <1>3 DEF Steps
  <2>2. QED
    BY <1>1, <1>2, <2>1, TypesStay DEF IInv
<1>5. ContentTyped' /\ NoHeaderYet'
  <2>1. CASE content' = content
    BY <1>2, <2>1, ContentStays DEF IInv
  <2>2. CASE content' = [content EXCEPT ![job.names[cursor]] = <<>>]
    <3>1. content \in [Files -> Seq(Piece)]
      BY DEF IInv, ContentTyped
    <3>2. content' \in [Files -> Seq(Piece)]
      <4> DEFINE Q == Seq(Piece)
      <4>1. <<>> \in Q
        OBVIOUS
      <4> HIDE DEF Q
      <4>2. content' \in [Files -> Q]
        BY <2>2, <3>1, <4>1 DEF Q
      <4>3. QED
        BY <4>2 DEF Q
    <3>3. \A f \in Files : content'[f] = content[f] \/ content'[f] = <<>>
      BY <2>2, <3>1
    <3>4. QED
      BY <1>2, <3>2, <3>3 DEF ContentTyped, NoHeaderYet
  <2>3. QED
    BY <2>1, <2>2 DEF OpenVolume
<1>6. Stages'
  <2>1. Valid'
    BY <1>1, <1>2, PlanStays
  <2>2. step' = "load" => \A k \in 1 .. Cardinality(DzSegments) : ~(k < cursor')
    BY <1>3
  <2>3. DzSegments' = DzSegments
    BY <1>1, PlanStays
  <2>4. QED
    BY <1>1, <1>2, <1>3, <2>1, <2>2, <2>3 DEF Stages
<1>7. HeaderLast'
  BY <1>1, <1>3, <1>5, PlanStays DEF IInv, HeaderLast
<1>8. QED
  BY <1>4, <1>5, <1>6, <1>7 DEF IInv

\* A source has a length when it is read.
LEMMA SourceLengthIs ==
  ASSUME Requested, ContentTyped, NEW i \in Segments
  PROVE  SourceLength(i) \in Nat
<1>1. job.segments[i] \in Segment
  BY SegmentParts
<1>2. job.segments[i].source \in Files \cup {0} /\ job.segments[i].size \in Nat
  BY <1>1 DEF Segment
<1>3. job.segments[i].source # 0 => FileLength(job.segments[i].source) \in Nat
  BY <1>2, FileLengthIs
<1>4. QED
  BY <1>2, <1>3 DEF SourceLength

\* The list of the DZ segments has them all.
LEMMA DzListed ==
  ASSUME Requested
  PROVE  /\ Len(DzOrder) = Cardinality(DzSegments) /\ Cardinality(DzSegments) \in Nat
         /\ \A k \in 1 .. Cardinality(DzSegments) : DzOrder[k] \in DzSegments
         /\ \A i \in DzSegments : \E k \in 1 .. Cardinality(DzSegments) : DzOrder[k] = i
         /\ DzSegments \subseteq Segments
<1>1. DzSegments \subseteq Segments
  BY DEF DzSegments
<1>2. QED
  BY <1>1, Listed DEF DzOrder

\* LoadDz loads the next DZ source in the order of the layout, or fails.
LEMMA LoadDzIInv ==
  ASSUME IInv, LoadDz
  PROVE  IInv'
<1>1. /\ step = "load" /\ result' = result
      /\ job' = job /\ batch' = batch /\ chunks' = chunks /\ content' = content
      /\ position' = position
  BY DEF LoadDz, Go
<1>2. /\ position \in [VolumeIds -> Nat] /\ loaded \in [Segments -> Nat \cup {NoLength}]
      /\ result \in {"none", "ok", "failed"} /\ cursor \in Nat /\ Requested
      /\ Valid /\ cursor >= 1 /\ result = "none" /\ NoHeaderYet /\ ContentTyped
  BY <1>1 DEF IInv, TypeOK, Stages, HeaderLast, Requested
<1> DEFINE n == Cardinality(DzSegments)
<1>3. /\ Len(DzOrder) = n /\ n \in Nat /\ DzSegments \subseteq Segments
      /\ \A k \in 1 .. n : DzOrder[k] \in DzSegments
      /\ \A i \in DzSegments : \E k \in 1 .. n : DzOrder[k] = i
  BY <1>2, DzListed
<1>4. \A k \in 1 .. n : k < cursor => loaded[DzOrder[k]] # NoLength
  BY <1>1 DEF IInv, Stages
<1>5. ContentTyped' /\ NoHeaderYet'
  BY <1>1, <1>2, ContentStays
<1> HIDE DEF n
<1>6. CASE cursor > n
  <2>1. step' = "encode_dz" /\ cursor' = 0 /\ loaded' = loaded
    BY <1>3, <1>6 DEF LoadDz, Go
  <2>2. \A i \in DzSegments : loaded[i] # NoLength
    BY <1>2, <1>3, <1>4, <1>6
  <2>3. TypeOK'
    BY <1>1, <1>2, <2>1, TypesStay DEF IInv, Steps
  <2>4. Stages'
    BY <1>1, <1>2, <2>1, <2>2, PlanStays DEF Stages
  <2>5. HeaderLast'
    BY <1>1, <1>5, <2>1, PlanStays DEF IInv, HeaderLast
  <2>6. QED
    BY <1>5, <2>3, <2>4, <2>5 DEF IInv
<1>7. CASE ~(cursor > n)
  <2> DEFINE i == DzOrder[cursor]
             m == SourceLength(i)
  <2>1. step' = "load" /\ cursor' = cursor + 1 /\ loaded' = [loaded EXCEPT ![i] = m]
    BY <1>3, <1>7 DEF LoadDz, Go
  <2>2. cursor \in 1 .. n /\ i \in Segments
    BY <1>2, <1>3, <1>7
  <2>3. m \in Nat /\ m # NoLength
    <3>1. m \in Nat
      BY <1>2, <2>2, SourceLengthIs
    <3> HIDE DEF m
    <3>2. QED
      BY <3>1 DEF NoLength
  <2> HIDE DEF m
  <2>4. loaded' \in [Segments -> Nat \cup {NoLength}]
    BY <1>2, <2>1, <2>3
  <2>5. \A k \in 1 .. n : k < cursor + 1 => loaded'[DzOrder[k]] # NoLength
    <3> SUFFICES ASSUME NEW k \in 1 .. n, k < cursor + 1 PROVE loaded'[DzOrder[k]] # NoLength
      OBVIOUS
    <3>1. DzOrder[k] \in Segments
      BY <1>3
    <3>2. CASE DzOrder[k] = i
      BY <1>2, <2>1, <2>2, <2>3, <3>2
    <3>3. CASE DzOrder[k] # i
      <4>1. k < cursor
        BY <1>2, <3>3
      <4>2. loaded'[DzOrder[k]] = loaded[DzOrder[k]]
        BY <1>2, <2>1, <3>1, <3>3
      <4>3. QED
        BY <1>4, <4>1, <4>2
    <3>4. QED
      BY <3>2, <3>3
  <2>6. TypeOK'
    BY <1>1, <1>2, <2>1, <2>4, TypesStay DEF IInv, Steps
  <2>7. Stages'
    <3>1. DzSegments' = DzSegments /\ DzOrder' = DzOrder /\ Valid'
      BY <1>1, <1>2, PlanStays
    <3>2. QED
      BY <1>1, <1>2, <2>1, <2>5, <3>1 DEF Stages, n
  <2>8. HeaderLast'
    BY <1>1, <1>5, <2>1, PlanStays DEF IInv, HeaderLast
  <2>9. QED
    BY <1>5, <2>6, <2>7, <2>8 DEF IInv
<1>8. QED
  BY <1>6, <1>7

\* EncodeDz comes when every DZ segment is loaded, and keeps them so.
LEMMA EncodeDzIInv ==
  ASSUME IInv, EncodeDz
  PROVE  IInv'
<1>1. /\ step = "encode_dz" /\ step' = "place" /\ cursor' = 0 /\ result' = result
      /\ job' = job /\ batch' = batch /\ chunks' = chunks /\ content' = content
      /\ position' = position /\ loaded' = loaded
  BY DEF EncodeDz, Go
<1>2. /\ position \in [VolumeIds -> Nat] /\ loaded \in [Segments -> Nat \cup {NoLength}]
      /\ result \in {"none", "ok", "failed"}
  BY DEF IInv, TypeOK
<1>3. TypeOK'
  BY <1>1, <1>2, TypesStay DEF IInv, Steps
<1>4. ContentTyped' /\ (NoHeaderYet' <=> NoHeaderYet)
  BY <1>1, ContentStays DEF IInv
<1>5. Stages'
  BY <1>1, PlanStays DEF IInv, Stages
<1>6. HeaderLast'
  BY <1>1, <1>4, PlanStays DEF IInv, HeaderLast
<1>7. QED
  BY <1>3, <1>4, <1>5, <1>6 DEF IInv

\* PlaceHeader fixes the size of the header, with a count of chunks the header can hold.
LEMMA PlaceHeaderIInv ==
  ASSUME IInv, PlaceHeader
  PROVE  IInv'
<1>1. CASE ChunkCount > MaxU16
  <2>1. step # "returned" /\ Fail /\ UNCHANGED <<job, batch, content, position, loaded, chunks>>
    BY <1>1 DEF PlaceHeader
  <2>2. QED
    BY <2>1, FailIInv
<1>2. CASE ~(ChunkCount > MaxU16)
  <2>1. /\ step = "place" /\ step' = "pad" /\ cursor' = 1 /\ result' = result
        /\ job' = job /\ batch' = batch /\ chunks' = chunks /\ content' = content
        /\ position' = [position EXCEPT ![0] = HeaderSize] /\ loaded' = loaded
    BY <1>2 DEF PlaceHeader, Go
  <2>2. /\ position \in [VolumeIds -> Nat] /\ loaded \in [Segments -> Nat \cup {NoLength}]
        /\ result \in {"none", "ok", "failed"} /\ Requested
    BY DEF IInv, TypeOK, Requested
  <2>3. ChunkCount <= MaxU16 /\ HeaderSize \in Nat
    BY <1>2, <2>2, PlanSizes, SegmentParts, BuilderAssumption
  <2>4. TypeOK'
    BY <2>1, <2>2, <2>3, TypesStay DEF IInv, Steps
  <2>5. ContentTyped' /\ (NoHeaderYet' <=> NoHeaderYet)
    BY <2>1, ContentStays DEF IInv
  <2>6. Stages'
    BY <2>1, <2>3, PlanStays DEF IInv, Stages
  <2>7. HeaderLast'
    BY <2>1, <2>5, PlanStays DEF IInv, HeaderLast
  <2>8. QED
    BY <2>4, <2>5, <2>6, <2>7 DEF IInv
<1>3. QED
  BY <1>1, <1>2

\* Padding is a number of bytes.
LEMMA PaddingIs ==
  ASSUME Requested, NEW p \in Nat
  PROVE  Padding(p) \in Nat
<1>1. job.alignment \in Nat
  BY JobParts
<1>2. ASSUME NEW a \in Nat, a > 1 PROVE (a - (p % a)) % a \in Nat
  BY <1>2
<1>3. QED
  BY <1>1, <1>2 DEF Padding

\* PadVolume pads the volumes in their order, each once.
LEMMA PadVolumeIInv ==
  ASSUME IInv, PadVolume
  PROVE  IInv'
<1>1. /\ step = "pad" /\ result' = result
      /\ job' = job /\ batch' = batch /\ chunks' = chunks /\ loaded' = loaded
  BY DEF PadVolume, Go
<1>2. /\ position \in [VolumeIds -> Nat] /\ loaded \in [Segments -> Nat \cup {NoLength}]
      /\ result \in {"none", "ok", "failed"} /\ cursor \in Nat /\ Requested
      /\ cursor >= 1 /\ NoHeaderYet /\ ContentTyped
  BY <1>1 DEF IInv, TypeOK, Stages, HeaderLast, Requested
<1>3. Len(job.names) \in Nat /\ Count \in Nat
  BY <1>2, VolumeParts, SegmentParts
<1>4. (step' = "payload" /\ cursor' = 1) \/ (step' = "pad" /\ cursor' = cursor + 1)
  BY DEF PadVolume, Go
<1>5. position' \in [VolumeIds -> Nat] /\ ContentTyped' /\ NoHeaderYet'
  <2>1. CASE cursor > Len(job.names)
    <3>1. content' = content /\ position' = position
      BY <2>1 DEF PadVolume
    <3>2. QED
      BY <1>2, <3>1, ContentStays
  <2>2. CASE ~(cursor > Len(job.names))
    <3> DEFINE v == cursor - 1
               n == Padding(position[v])
    <3>1. Put(v, n, "zeros", 0)
      BY <2>2 DEF PadVolume
    <3>2. v \in VolumeIds
      BY <1>2, <1>3, <2>2 DEF VolumeIds
    <3>3. n \in Nat
      BY <1>2, <3>2, PaddingIs
    <3> HIDE DEF v, n
    <3>4. QED
      BY <1>2, <3>1, <3>2, <3>3, PutTyped DEF Kinds
  <2>3. QED
    BY <2>1, <2>2
<1>6. TypeOK'
  <2>1. step' \in Steps /\ cursor' \in Nat
    BY <1>2, <1>4 DEF Steps
  <2>2. QED
    BY <1>1, <1>2, <1>5, <2>1, TypesStay DEF IInv
<1>7. Stages'
  BY <1>1, <1>2, <1>3, <1>4, PlanStays DEF IInv, Stages
<1>8. HeaderLast'
  BY <1>1, <1>4, <1>5, PlanStays DEF IInv, HeaderLast
<1>9. QED
  BY <1>5, <1>6, <1>7, <1>8 DEF IInv

\* EncodeSegment gives one segment of the batch its length, and writes nothing.
LEMMA EncodeSegmentIInv ==
  ASSUME IInv, NEW i \in Segments, EncodeSegment(i)
  PROVE  IInv'
<1>1. /\ step = "payload" /\ step' = step /\ cursor' = cursor /\ result' = result
      /\ job' = job /\ batch' = batch /\ chunks' = chunks /\ content' = content
      /\ position' = position /\ loaded' = [loaded EXCEPT ![i] = SourceLength(i)]
  BY DEF EncodeSegment
<1>2. /\ position \in [VolumeIds -> Nat] /\ loaded \in [Segments -> Nat \cup {NoLength}]
      /\ result \in {"none", "ok", "failed"} /\ cursor \in Nat /\ Requested /\ ContentTyped
  BY DEF IInv, TypeOK, Requested
<1>3. SourceLength(i) \in Nat /\ SourceLength(i) # NoLength
  <2>1. SourceLength(i) \in Nat
    BY <1>2, SourceLengthIs
  <2>2. QED
    BY <2>1 DEF NoLength
<1>4. loaded' \in [Segments -> Nat \cup {NoLength}]
      /\ \A j \in Segments : loaded[j] # NoLength => loaded'[j] # NoLength
  BY <1>1, <1>2, <1>3
<1>5. TypeOK'
  BY <1>1, <1>2, <1>4, TypesStay DEF IInv, Steps
<1>6. ContentTyped' /\ (NoHeaderYet' <=> NoHeaderYet)
  BY <1>1, <1>2, ContentStays
<1>7. Stages'
  <2>1. DzSegments \subseteq Segments /\ DzSegments' = DzSegments
    BY <1>1, PlanStays DEF DzSegments
  <2>2. \A j \in DzSegments' : loaded'[j] # NoLength
    BY <1>1, <1>4, <2>1 DEF IInv, Stages
  <2>3. Valid' /\ ChunkCount' = ChunkCount /\ Count' = Count
    BY <1>1, PlanStays DEF IInv, Stages
  <2>4. QED
    BY <1>1, <2>2, <2>3 DEF IInv, Stages
<1>8. HeaderLast'
  BY <1>1, <1>6, PlanStays DEF IInv, HeaderLast
<1>9. QED
  BY <1>5, <1>6, <1>7, <1>8 DEF IInv

\* A payload is a number of bytes once its input is loaded.
LEMMA EncodedLengthIs ==
  ASSUME Requested, NEW i \in Segments, loaded[i] \in Nat
  PROVE  EncodedLength(i) \in Nat /\ StoredLength(i) \in Nat
<1>1. job.segments[i].encoded \in Nat
  BY SegmentParts DEF Segment
<1>2. EncodedLength(i) \in Nat
  BY <1>1 DEF EncodedLength
<1>3. QED
  BY <1>2 DEF StoredLength

\* Writing one chunk: the table keeps its length, and its values are checked.
LEMMA WriteChunkTyped ==
  ASSUME IInv, Valid, NEW i \in Segments, loaded[i] # NoLength, WriteChunk(i), cursor >= 1,
         step = "payload", UNCHANGED <<job, batch, loaded>>
  PROVE  /\ ContentTyped' /\ NoHeaderYet' /\ position' \in [VolumeIds -> Nat]
         /\ chunks' \in Seq(Chunk) /\ Len(chunks') = Len(chunks)
         /\ \A k \in DOMAIN chunks' :
              /\ chunks'[k].offset <= MaxU32
              /\ chunks'[k].compressed_length <= MaxU32
              /\ chunks'[k].decompressed_length <= MaxU32
         /\ \/ step' = "returned" /\ cursor' = 0 /\ result' = "failed"
            \/ step' = "payload" /\ cursor' = cursor + 1 /\ result' = result
<1> DEFINE v == job.segments[i].volume
           n == EncodedLength(i)
           c == [offset |-> position[v], compressed_length |-> StoredLength(i),
                 decompressed_length |-> loaded[i], flags |-> job.segments[i].flags, file |-> v,
                 need |-> n, work |-> 0]
           C == Chunk
           Fits(r) == /\ r.offset <= MaxU32
                      /\ r.compressed_length <= MaxU32 /\ r.decompressed_length <= MaxU32
<1>1. /\ position \in [VolumeIds -> Nat] /\ loaded \in [Segments -> Nat \cup {NoLength}]
      /\ Requested /\ ContentTyped /\ NoHeaderYet /\ chunks \in Seq(C)
      /\ \A k \in DOMAIN chunks : Fits(chunks[k])
      /\ Len(chunks) \in {Count, ChunkCount}
  BY DEF IInv, TypeOK, HeaderLast, Requested
<1>2. v \in VolumeIds /\ v \in Nat /\ job.segments[i].flags \in SUBSET Flags
  <2>1. job.segments[i] \in Segment
    BY <1>1, SegmentParts
  <2>2. QED
    BY <2>1 DEF Valid, Segment
<1>3. loaded[i] \in Nat /\ n \in Nat /\ StoredLength(i) \in Nat
  BY <1>1, EncodedLengthIs
<1>4. c \in C
  <2>1. position[v] \in Nat
    BY <1>1, <1>2
  <2> HIDE DEF n, v
  <2>2. QED
    BY <1>2, <1>3, <2>1 DEF Chunk
<1>5. i \in DOMAIN chunks
  <2> HIDE DEF C, c, n, v, Fits
  <2> DEFINE m == Len(chunks)
  <2>1. DOMAIN chunks = 1 .. m /\ m \in Nat
    BY <1>1
  <2>2. Count \in Nat /\ i \in 1 .. Count
    BY <1>1, SegmentParts
  <2>3. m \in {Count, ChunkCount} /\ ChunkCount \in {Count, Count + 1}
    BY <1>1, PlanSizes
  <2> HIDE DEF m
  <2>4. m = Count \/ m = Count + 1
    BY <2>3
  <2>5. i \in 1 .. m
    BY <2>1, <2>2, <2>4
  <2>6. QED
    BY <2>1, <2>5
<1>6. CASE Fail /\ UNCHANGED <<content, position, chunks>>
  <2>1. content' = content /\ position' = position /\ chunks' = chunks
    BY <1>6
  <2>2. ContentTyped' /\ NoHeaderYet'
    BY <1>1, <2>1, ContentStays
  <2>3. QED
    BY <1>1, <1>6, <2>1, <2>2 DEF Fail, Return
<1>7. CASE Put(v, n, "payload", i)
           /\ ((Fail /\ UNCHANGED chunks)
               \/ (/\ c.offset <= MaxU32
                   /\ c.compressed_length <= MaxU32 /\ c.decompressed_length <= MaxU32
                   /\ chunks' = [chunks EXCEPT ![i] = c] /\ Go("payload", cursor + 1)))
  <2>1. ContentTyped' /\ NoHeaderYet' /\ position' \in [VolumeIds -> Nat]
    <3>1. i \in Nat
      BY <1>1, SegmentParts
    <3> HIDE DEF v, n
    <3>2. QED
      BY <1>1, <1>2, <1>3, <1>7, <3>1, PutTyped DEF Kinds
  <2>2. CASE Fail /\ UNCHANGED chunks
    BY <1>1, <2>1, <2>2 DEF Fail, Return
  <2>3. CASE /\ Fits(c) /\ chunks' = [chunks EXCEPT ![i] = c] /\ Go("payload", cursor + 1)
    <3>1. step' = "payload" /\ cursor' = cursor + 1 /\ result' = result
      BY <2>3 DEF Go
    <3>2. /\ chunks' \in Seq(C) /\ Len(chunks') = Len(chunks) /\ DOMAIN chunks' = DOMAIN chunks
          /\ \A k \in DOMAIN chunks : chunks'[k] = IF k = i THEN c ELSE chunks[k]
      <4> HIDE DEF C, c, Fits
      <4>1. QED
        BY <1>1, <1>4, <1>5, <2>3
    <3>3. \A k \in DOMAIN chunks' : Fits(chunks'[k])
      <4> HIDE DEF C, c, Fits
      <4>1. QED
        BY <1>1, <2>3, <3>2
    <3>4. QED
      BY <2>1, <3>1, <3>2, <3>3
  <2>4. QED
    BY <1>7, <2>2, <2>3
<1>8. QED
  <2>1. c.offset \in Nat /\ c.compressed_length \in Nat /\ c.decompressed_length \in Nat
        /\ MaxU32 \in Nat
    BY <1>4, MaxU32Assumption DEF Chunk
  <2>2. \/ c.offset > MaxU32 /\ Fail /\ UNCHANGED <<content, position, chunks>>
        \/ /\ ~(c.offset > MaxU32) /\ Put(v, n, "payload", i)
           /\ \/ Fail /\ UNCHANGED chunks
              \/ /\ ~(c.compressed_length > MaxU32 \/ c.decompressed_length > MaxU32)
                 /\ chunks' = [chunks EXCEPT ![i] = c] /\ Go("payload", cursor + 1)
    BY DEF WriteChunk
  <2> HIDE DEF c, v, n
  <2>3. QED
    BY <1>6, <1>7, <2>1, <2>2

\* WritePayload writes one record, and no header.
LEMMA WritePayloadIInv ==
  ASSUME IInv, WritePayload
  PROVE  IInv'
<1> DEFINE i == WriteOrder[cursor]
<1>1. /\ step = "payload" /\ cursor <= Count /\ WriteChunk(i)
      /\ job' = job /\ batch' = batch /\ loaded' = loaded
      /\ IF cursor <= NonDz THEN \A j \in BatchAt(cursor) : loaded[j] # NoLength ELSE ~CommonPending
  BY DEF WritePayload
<1>2. /\ position \in [VolumeIds -> Nat] /\ loaded \in [Segments -> Nat \cup {NoLength}]
      /\ result \in {"none", "ok", "failed"} /\ cursor \in Nat /\ Requested /\ Valid
      /\ cursor >= 1 /\ batch \in Nat \ {0} /\ (\A j \in DzSegments : loaded[j] # NoLength)
      /\ ChunkCount <= MaxU16 /\ result = "none"
  BY <1>1, BuilderAssumption DEF IInv, TypeOK, Stages, Requested
<1>3. Count \in Nat /\ cursor \in 1 .. Count /\ NonDz \in 0 .. Count
      /\ \A k \in 1 .. Count : WriteOrder[k] \in Segments /\ (k > NonDz => WriteOrder[k] \in DzSegments)
  <2>1. \A j \in Segments : CompressionOf(j) # "NONE"
    BY <1>2 DEF Valid
  <2>2. Count \in Nat
    BY <1>2, SegmentParts
  <2>3. QED
    BY <1>1, <1>2, <2>1, <2>2, Scheduled, DzLast
<1>4. i \in Segments
  BY <1>3
<1>5. loaded[i] # NoLength
  <2>1. CASE cursor <= NonDz
    <3>1. i \in BatchAt(cursor)
      <4>1. cursor \in 1 .. NonDz
        BY <1>3, <2>1
      <4>2. QED
        BY <4>1 DEF BatchAt
    <3>2. QED
      BY <1>1, <2>1, <3>1
  <2>2. CASE ~(cursor <= NonDz)
    BY <1>2, <1>3, <2>2
  <2>3. QED
    BY <2>1, <2>2
<1> HIDE DEF i
<1>6. /\ ContentTyped' /\ NoHeaderYet' /\ position' \in [VolumeIds -> Nat]
      /\ chunks' \in Seq(Chunk) /\ Len(chunks') = Len(chunks)
      /\ \A k \in DOMAIN chunks' :
           /\ chunks'[k].offset <= MaxU32
           /\ chunks'[k].compressed_length <= MaxU32
           /\ chunks'[k].decompressed_length <= MaxU32
      /\ \/ step' = "returned" /\ cursor' = 0 /\ result' = "failed"
         \/ step' = "payload" /\ cursor' = cursor + 1 /\ result' = result
  BY <1>1, <1>2, <1>4, <1>5, WriteChunkTyped
<1>7. TypeOK'
  <2>1. VolumeIds' = VolumeIds /\ Segments' = Segments
    BY <1>1, PlanStays
  <2>2. job' \in Jobs /\ batch' \in BatchSizes
    BY <1>1 DEF IInv, TypeOK
  <2>3. step' \in Steps /\ cursor' \in Nat /\ result' \in {"none", "ok", "failed"}
    BY <1>2, <1>6 DEF Steps
  <2>4. position' \in [VolumeIds' -> Nat] /\ loaded' \in [Segments' -> Nat \cup {NoLength}]
    BY <1>1, <1>2, <1>6, <2>1
  <2>5. QED
    BY <1>6, <2>2, <2>3, <2>4 DEF TypeOK
<1>8. Stages'
  <2>1. Valid' /\ ChunkCount' = ChunkCount /\ Count' = Count /\ DzSegments' = DzSegments
    BY <1>1, <1>2, PlanStays
  <2>2. CASE step' = "returned" /\ result' = "failed"
    BY <2>2 DEF Stages
  <2>3. CASE step' = "payload" /\ cursor' = cursor + 1 /\ result' = result
    BY <1>1, <1>2, <1>3, <2>1, <2>3 DEF Stages
  <2>4. QED
    BY <1>6, <2>2, <2>3
<1>9. HeaderLast'
  BY <1>1, <1>6, PlanStays DEF IInv, HeaderLast
<1>10. QED
  BY <1>6, <1>7, <1>8, <1>9 DEF IInv

\* WriteCommon appends the one record of the dictionary, once.
LEMMA WriteCommonIInv ==
  ASSUME IInv, WriteCommon
  PROVE  IInv'
<1>1. /\ step = "payload" /\ cursor = NonDz + 1 /\ HasCommon /\ Len(chunks) = Count
      /\ job' = job /\ batch' = batch /\ loaded' = loaded
  BY DEF WriteCommon, CommonPending
<1>2. /\ position \in [VolumeIds -> Nat] /\ loaded \in [Segments -> Nat \cup {NoLength}]
      /\ result \in {"none", "ok", "failed"} /\ cursor \in Nat /\ Requested /\ Valid
      /\ cursor >= 1 /\ ContentTyped /\ NoHeaderYet /\ Stages
  BY <1>1 DEF IInv, TypeOK, Stages, HeaderLast, Requested
<1>3. 0 \in VolumeIds
  <2>1. Len(job.names) \in Nat
    BY <1>2, VolumeParts
  <2>2. QED
    BY <1>2, <2>1 DEF Valid, VolumeIds
<1>4. position[0] \in Nat /\ job.common \in Nat
  BY <1>1, <1>2, <1>3, PlanSizes
<1>5. CASE Fail /\ UNCHANGED <<content, position, chunks>>
  BY <1>1, <1>5, FailIInv
<1>6. CASE Put(0, job.common, "common", 0)
  <2>1. ContentTyped' /\ NoHeaderYet' /\ position' \in [VolumeIds -> Nat]
    BY <1>2, <1>3, <1>4, <1>6, PutTyped DEF Kinds
  <2>2. job' \in Jobs /\ batch' \in BatchSizes /\ VolumeIds' = VolumeIds /\ Segments' = Segments
    BY <1>1, PlanStays DEF IInv, TypeOK
  <2>3. Valid' /\ ChunkCount' = ChunkCount /\ Count' = Count /\ DzSegments' = DzSegments
        /\ Count \in Nat /\ ChunkCount = Count + 1
    BY <1>1, <1>2, PlanStays, SegmentParts DEF ChunkCount
  <2>4. CASE Fail /\ UNCHANGED chunks
    <3>1. step' = "returned" /\ cursor' = 0 /\ result' = "failed" /\ chunks' = chunks
      BY <2>4 DEF Fail, Return
    <3>2. TypeOK'
      <4>1. TypeOK
        BY DEF IInv
      <4>2. QED
        BY <1>1, <1>2, <2>1, <3>1, <4>1, TypesStay DEF Steps
    <3>3. Stages'
      BY <3>1 DEF Stages
    <3>4. HeaderLast'
      BY <1>1, <2>1, <2>3, <3>1 DEF HeaderLast
    <3>5. QED
      BY <2>1, <3>2, <3>3, <3>4 DEF IInv
  <2>5. CASE /\ ~(position[0] > MaxU32) /\ ~(job.common > MaxU32)
             /\ chunks' = Append(chunks,
                  [Blank EXCEPT !.offset = position[0], !.flags = {"COMBUF"},
                                !.compressed_length = job.common, !.need = job.common])
             /\ Go("payload", cursor)
    <3> DEFINE C == Chunk
               c == [Blank EXCEPT !.offset = position[0], !.flags = {"COMBUF"},
                                  !.compressed_length = job.common, !.need = job.common]
               Fits(r) == /\ r.offset <= MaxU32
                          /\ r.compressed_length <= MaxU32 /\ r.decompressed_length <= MaxU32
    <3>1. c \in C /\ Fits(c)
      <4>1. c = [offset |-> position[0], compressed_length |-> job.common, decompressed_length |-> 0,
                 flags |-> {"COMBUF"}, file |-> 0, need |-> job.common, work |-> 0]
        <5> DEFINE a == [Blank EXCEPT !.offset = position[0]]
                   b == [a EXCEPT !.flags = {"COMBUF"}]
                   d == [b EXCEPT !.compressed_length = job.common]
        <5>1. c = [d EXCEPT !.need = job.common]
          OBVIOUS
        <5>2. a = [offset |-> position[0], compressed_length |-> 0, decompressed_length |-> 0,
                   flags |-> {}, file |-> 0, need |-> 0, work |-> 0]
          BY DEF Blank
        <5> HIDE DEF a
        <5>3. b = [offset |-> position[0], compressed_length |-> 0, decompressed_length |-> 0,
                   flags |-> {"COMBUF"}, file |-> 0, need |-> 0, work |-> 0]
          BY <5>2
        <5> HIDE DEF b
        <5>4. d = [offset |-> position[0], compressed_length |-> job.common,
                   decompressed_length |-> 0,
                   flags |-> {"COMBUF"}, file |-> 0, need |-> 0, work |-> 0]
          BY <5>3
        <5> HIDE DEF c, d
        <5>5. QED
          BY <5>1, <5>4
      <4>2. {"COMBUF"} \in SUBSET Flags
        BY DEF Flags, SemanticReaderFlags
      <4>3. position[0] <= MaxU32 /\ job.common <= MaxU32 /\ 0 <= MaxU32
        BY <1>4, <2>5, MaxU32Assumption
      <4> HIDE DEF c
      <4>4. QED
        BY <1>4, <4>1, <4>2, <4>3 DEF Chunk
    <3>2. chunks \in Seq(C) /\ (\A k \in DOMAIN chunks : Fits(chunks[k])) /\ chunks' = Append(chunks, c)
      BY <2>5 DEF IInv, TypeOK
    <3>3. step' = "payload" /\ cursor' = cursor /\ result' = result
      BY <2>5 DEF Go
    <3> HIDE DEF C, c, Fits
    <3>4. chunks' \in Seq(C) /\ Len(chunks') = Count + 1
      BY <1>1, <3>1, <3>2
    <3>5. \A k \in DOMAIN chunks' : Fits(chunks'[k])
      <4>1. /\ DOMAIN chunks' = DOMAIN chunks \cup {Len(chunks) + 1}
            /\ \A k \in DOMAIN chunks : chunks'[k] = chunks[k]
            /\ chunks'[Len(chunks) + 1] = c
        BY <3>1, <3>2
      <4>2. QED
        BY <3>1, <3>2, <4>1
    <3>6. TypeOK'
      <4>1. step' \in Steps /\ cursor' \in Nat /\ result' \in {"none", "ok", "failed"}
        BY <1>2, <3>3 DEF Steps
      <4>2. position' \in [VolumeIds' -> Nat] /\ loaded' \in [Segments' -> Nat \cup {NoLength}]
        BY <1>1, <1>2, <2>1, <2>2
      <4>3. chunks' \in Seq(Chunk)
            /\ \A k \in DOMAIN chunks' :
                 /\ chunks'[k].offset <= MaxU32
                 /\ chunks'[k].compressed_length <= MaxU32 /\ chunks'[k].decompressed_length <= MaxU32
        BY <3>4, <3>5 DEF C, Fits
      <4>4. QED
        BY <2>2, <4>1, <4>2, <4>3 DEF TypeOK
    <3>7. Stages'
      BY <1>1, <1>2, <2>3, <3>3 DEF Stages
    <3>8. HeaderLast'
      BY <2>1, <2>3, <3>3, <3>4 DEF HeaderLast
    <3>9. QED
      BY <2>1, <3>6, <3>7, <3>8 DEF IInv
  <2>6. CASE Fail /\ UNCHANGED <<content, position, chunks>>
    BY <1>5, <2>6
  <2>7. QED
    BY <2>4, <2>5, <2>6 DEF WriteCommon
<1>7. QED
  BY <1>5, <1>6 DEF WriteCommon

\* PayloadsWritten leaves for the header with the dictionary written, if there is one.
LEMMA PayloadsWrittenIInv ==
  ASSUME IInv, PayloadsWritten
  PROVE  IInv'
<1>1. /\ step = "payload" /\ ~CommonPending
      /\ step' = "header" /\ cursor' = 0 /\ result' = result
      /\ job' = job /\ batch' = batch /\ chunks' = chunks /\ content' = content
      /\ loaded' = loaded /\ position' = [position EXCEPT ![0] = 0]
  BY DEF PayloadsWritten, Go
<1>2. /\ position \in [VolumeIds -> Nat] /\ loaded \in [Segments -> Nat \cup {NoLength}]
      /\ result \in {"none", "ok", "failed"}
  BY DEF IInv, TypeOK
<1>3. TypeOK'
  BY <1>1, <1>2, TypesStay DEF IInv, Steps
<1>4. ContentTyped' /\ (NoHeaderYet' <=> NoHeaderYet)
  BY <1>1, ContentStays DEF IInv
<1>5. Stages'
  BY <1>1, PlanStays DEF IInv, Stages
<1>6. Len(chunks) = ChunkCount
  <2>1. Len(chunks) \in {Count, ChunkCount}
    BY DEF IInv, HeaderLast
  <2>2. CASE HasCommon
    BY <1>1, <2>1, <2>2 DEF CommonPending
  <2>3. CASE ~HasCommon
    <3>1. Requested
      BY DEF IInv, TypeOK, Requested
    <3>2. ChunkCount = Count
      BY <2>3, <3>1, SegmentParts DEF ChunkCount
    <3>3. QED
      BY <2>1, <3>2
  <2>4. QED
    BY <2>2, <2>3
<1>7. HeaderLast'
  BY <1>1, <1>4, <1>6, PlanStays DEF IInv, HeaderLast
<1>8. QED
  BY <1>3, <1>4, <1>5, <1>7 DEF IInv

\* The header is written, or all of it but the last byte.
LEMMA HeaderIInv ==
  ASSUME IInv, step = "header", UNCHANGED <<job, batch, loaded, chunks>>,
         NEW n \in {HeaderBytes, HeaderBytes - 1}, Put(0, n, "header", 0),
         NEW r \in {"ok", "failed"}, Return(r)
  PROVE  IInv'
<1>1. /\ step' = "returned" /\ cursor' = 0 /\ result' = r
      /\ job' = job /\ batch' = batch /\ chunks' = chunks /\ loaded' = loaded
  BY DEF Return
<1>2. /\ position \in [VolumeIds -> Nat] /\ loaded \in [Segments -> Nat \cup {NoLength}]
      /\ Requested /\ Valid /\ ContentTyped /\ ChunkCount <= MaxU16 /\ Len(chunks) = ChunkCount
  BY DEF IInv, TypeOK, Requested, Stages, HeaderLast
<1>3. 0 \in VolumeIds
  <2>1. Len(job.names) \in Nat
    BY <1>2, VolumeParts
  <2>2. QED
    BY <1>2, <2>1 DEF Valid, VolumeIds
<1>4. n \in Nat
  <2>1. HeaderBytes \in Nat \ {0}
    BY <1>2, SectionsAddUp, PlanSizes
  <2>2. QED
    BY <2>1
<1>5. ContentTyped' /\ position' \in [VolumeIds -> Nat]
  BY <1>2, <1>3, <1>4, PutTyped DEF Kinds
<1>6. TypeOK'
  BY <1>1, <1>2, <1>5, TypesStay DEF IInv, Steps
<1>7. Stages'
  BY <1>1, <1>2, PlanStays DEF Stages
<1>8. HeaderLast'
  BY <1>1, <1>2, PlanStays DEF HeaderLast
<1>9. QED
  BY <1>5, <1>6, <1>7, <1>8 DEF IInv

\* SourceGrows: another process changes a source, and nothing of the call.
LEMMA SourceGrowsIInv ==
  ASSUME IInv, NEW f \in Files, SourceGrows(f)
  PROVE  IInv'
<1> DEFINE at == [from |-> 0, to |-> FileLength(f) + 1, kind |-> "old", index |-> 0]
           P == Piece
<1>1. /\ step # "returned" /\ step' = step /\ cursor' = cursor /\ result' = result
      /\ job' = job /\ batch' = batch /\ chunks' = chunks /\ loaded' = loaded
      /\ position' = position /\ content' = [content EXCEPT ![f] = <<at>>]
  BY DEF SourceGrows
<1>2. /\ position \in [VolumeIds -> Nat] /\ loaded \in [Segments -> Nat \cup {NoLength}]
      /\ result \in {"none", "ok", "failed"} /\ cursor \in Nat /\ step \in Steps
      /\ content \in [Files -> Seq(P)] /\ NoHeaderYet
  BY <1>1 DEF IInv, TypeOK, ContentTyped, HeaderLast
<1>3. at \in P /\ at.kind # "header"
  <2>1. FileLength(f) \in Nat
    BY FileLengthIs DEF IInv
  <2>2. QED
    BY <2>1 DEF Piece, Kinds
<1>4. <<at>> \in Seq(P) /\ \A k \in DOMAIN <<at>> : <<at>>[k] = at
  <2> HIDE DEF at, P
  <2>1. QED
    BY <1>3
<1>5. ContentTyped' /\ NoHeaderYet'
  <2> DEFINE Q == Seq(P)
             s == <<at>>
  <2>1. s \in Q /\ \A k \in DOMAIN s : s[k].kind # "header"
    BY <1>3, <1>4
  <2>2. content \in [Files -> Q] /\ content' = [content EXCEPT ![f] = s]
    BY <1>1, <1>2
  <2> HIDE DEF Q, s, at
  <2>3. content' \in [Files -> Q] /\ \A g \in Files : content'[g] = IF g = f THEN s ELSE content[g]
    BY <2>1, <2>2
  <2>4. NoHeaderYet'
    BY <1>2, <2>1, <2>3 DEF NoHeaderYet
  <2>5. QED
    BY <2>3, <2>4 DEF ContentTyped, Q
<1> HIDE DEF at
<1>6. TypeOK'
  BY <1>1, <1>2, TypesStay DEF IInv
<1>7. Stages'
  BY <1>1, PlanStays DEF IInv, Stages
<1>8. HeaderLast'
  BY <1>1, <1>5, PlanStays DEF IInv, HeaderLast
<1>9. QED
  BY <1>5, <1>6, <1>7, <1>8 DEF IInv

\* Every step keeps the invariant.
LEMMA NextIInv ==
  ASSUME IInv, [Next]_vars
  PROVE  IInv'
<1>1. CASE UNCHANGED vars
  <2>1. job' = job /\ batch' = batch /\ step' = step /\ cursor' = cursor /\ content' = content
        /\ position' = position /\ loaded' = loaded /\ chunks' = chunks /\ result' = result
    BY <1>1 DEF vars
  <2>2. TypeOK'
    BY <2>1, TypesStay DEF IInv, TypeOK
  <2>3. ContentTyped' /\ (NoHeaderYet' <=> NoHeaderYet)
    BY <2>1, ContentStays DEF IInv
  <2>4. Stages'
    BY <2>1, PlanStays DEF IInv, Stages
  <2>5. HeaderLast'
    BY <2>1, <2>3, PlanStays DEF IInv, HeaderLast
  <2>6. QED
    BY <2>2, <2>3, <2>4, <2>5 DEF IInv
<1>2. CASE Work
  <2>1. CASE Prepare
    BY <2>1, PrepareIInv
  <2>2. CASE OpenVolume
    BY <2>2, OpenVolumeIInv
  <2>3. CASE LoadDz
    BY <2>3, LoadDzIInv
  <2>4. CASE EncodeDz
    BY <2>4, EncodeDzIInv
  <2>5. CASE PlaceHeader
    BY <2>5, PlaceHeaderIInv
  <2>6. CASE PadVolume
    BY <2>6, PadVolumeIInv
  <2>7. CASE \E i \in Segments : EncodeSegment(i)
    BY <2>7, EncodeSegmentIInv
  <2>8. CASE WritePayload
    BY <2>8, WritePayloadIInv
  <2>9. CASE WriteCommon
    BY <2>9, WriteCommonIInv
  <2>10. CASE PayloadsWritten
    BY <2>10, PayloadsWrittenIInv
  <2>11. CASE WriteHeader
    <3>1. /\ step = "header" /\ UNCHANGED <<job, batch, loaded, chunks>>
          /\ Put(0, HeaderBytes, "header", 0) /\ Return("ok")
      BY <2>11 DEF WriteHeader
    <3>2. QED
      BY <3>1, HeaderIInv
  <2>12. QED
    BY <1>2, <2>1, <2>2, <2>3, <2>4, <2>5, <2>6, <2>7, <2>8, <2>9, <2>10, <2>11 DEF Work
<1>3. CASE Fails
  BY <1>3, FailIInv DEF Fails
<1>4. CASE HeaderCut
  <2>1. /\ step = "header" /\ UNCHANGED <<job, batch, loaded, chunks>>
        /\ Put(0, HeaderBytes - 1, "header", 0) /\ Return("failed")
    BY <1>4 DEF HeaderCut, Fail
  <2>2. QED
    BY <2>1, HeaderIInv
<1>5. CASE \E f \in Files : SourceGrows(f)
  BY <1>5, SourceGrowsIInv
<1>6. QED
  BY <1>1, <1>2, <1>3, <1>4, <1>5 DEF Next

\* It holds throughout.
LEMMA Invariance == Spec => []IInv
<1>1. Init => IInv
  BY InitIInv
<1>2. IInv /\ [Next]_vars => IInv'
  BY NextIInv
<1>3. QED
  BY <1>1, <1>2, PTL DEF Spec

-----------------------------------------------------------------------------
(* The theorems *)

\* The variables keep their types, and no record of the chunk table holds a
\* value its 32-bit fields cannot.
THEOREM TypeCorrect == Spec => []TypeOK
<1>1. IInv => TypeOK
  BY DEF IInv
<1>2. QED
  BY <1>1, Invariance, PTL

\* The header that write_prepared puts in front at the end has the size that
\* calculate_header_size set aside for it before the first payload.
THEOREM HeaderAsPlanned == Spec => []HeaderFits
<1>1. ASSUME IInv PROVE HeaderFits
  <2> SUFFICES ASSUME HeaderWritten PROVE HeaderBytes = HeaderSize
    BY DEF HeaderFits
  <2>1. ~NoHeaderYet
    BY DEF HeaderWritten, NoHeaderYet
  <2>2. Len(chunks) = ChunkCount /\ Requested
    BY <1>1, <2>1 DEF IInv, HeaderLast, TypeOK, Requested
  <2>3. QED
    BY <2>2, SectionsAddUp
<1>2. QED
  BY <1>1, Invariance, PTL

\* No chunk list of the header can hold the id that ends it.
THEOREM IdsBelowTerminator == Spec => []ChunkIdsBelowTerminator
<1>1. ASSUME IInv PROVE ChunkIdsBelowTerminator
  <2> SUFFICES ASSUME step \in {"pad", "payload", "header"} \/ result = "ok",
                      NEW k \in DOMAIN LogicalFiles, NEW n \in DOMAIN LogicalFiles[k]
               PROVE  LogicalFiles[k][n] - 1 < MaxU16
    BY DEF ChunkIdsBelowTerminator
  <2>1. Requested /\ ChunkCount <= MaxU16
    BY <1>1 DEF IInv, TypeOK, Stages, Requested
  <2>2. Class(k) \subseteq Segments /\ LogicalFiles[k] = InOrder(Class(k))
    BY <2>1, Grouped
  <2>3. LogicalFiles[k][n] \in Segments
    BY <2>1, <2>2, Listed
  <2>4. LogicalFiles[k][n] \in 1 .. Count /\ Count \in Nat /\ ChunkCount \in {Count, Count + 1}
    BY <2>1, <2>3, SegmentParts, PlanSizes
  <2>5. QED
    BY <2>1, <2>4, BuilderAssumption
<1>2. QED
  BY <1>1, Invariance, PTL

\* A request that write_to or prepare refuses never reaches begin_archive: the files
\* of its volumes stay as they were, whatever happens to its sources.
THEOREM RefusedUntouched == Spec => []RefusalTouchesNothing
<1>1. Init => RefusalTouchesNothing
  BY DEF Init, RefusalTouchesNothing
<1>2. ASSUME IInv, RefusalTouchesNothing, [Next]_vars PROVE RefusalTouchesNothing'
  <2>1. job' = job
    BY <1>2 DEF vars, Next, Work, Prepare, OpenVolume, LoadDz, EncodeDz, PlaceHeader, PadVolume,
                EncodeSegment, WritePayload, WriteCommon, PayloadsWritten, WriteHeader, Fails,
                HeaderCut, SourceGrows
  <2>2. /\ VolumeIds' = VolumeIds /\ (Valid' <=> Valid)
        /\ \A v : VolumeFile(v)' = VolumeFile(v)
    BY <2>1, PlanStays
  <2>3. \A v : Contents(job.existing)'[VolumeFile(v)] = Contents(job.existing)[VolumeFile(v)]
    BY <2>1 DEF Contents
  <2> SUFFICES ASSUME ~Valid, NEW v \in VolumeIds
               PROVE  content'[VolumeFile(v)] = Contents(job.existing)[VolumeFile(v)]
    BY <2>2, <2>3 DEF RefusalTouchesNothing
  <2>4. step \in {"prepare", "returned"}
    BY <1>2 DEF IInv, Stages
  <2>5. content' = content \/ \E f \in Files : SourceGrows(f)
    BY <1>2, <2>4 DEF vars, Next, Work, Prepare, OpenVolume, LoadDz, EncodeDz, PlaceHeader, PadVolume,
                EncodeSegment, WritePayload, WriteCommon, PayloadsWritten, WriteHeader, Fails,
                HeaderCut
  <2>6. content'[VolumeFile(v)] = content[VolumeFile(v)]
    <3>1. CASE content' = content
      BY <3>1
    <3>2. ASSUME NEW f \in Files, SourceGrows(f)
          PROVE  content'[VolumeFile(v)] = content[VolumeFile(v)]
      <4>1. VolumeFile(v) # f /\ VolumeFile(v) \in Files
        <5>1. Requested
          BY <1>2 DEF IInv, TypeOK, Requested
        <5>2. QED
          BY <3>2, <5>1, VolumeParts DEF SourceGrows
      <4>2. content \in [Files -> Seq(Piece)]
        BY <1>2 DEF IInv, ContentTyped
      <4>3. QED
        BY <3>2, <4>1, <4>2 DEF SourceGrows
    <3>3. QED
      BY <2>5, <3>1, <3>2
  <2>7. QED
    BY <1>2, <2>6 DEF RefusalTouchesNothing
<1>3. QED
  BY <1>1, <1>2, Invariance, PTL DEF Spec

-----------------------------------------------------------------------------
(* Where the chunks go *)

On(v, S) == {j \in S : job.segments[j].volume = v}

\* Where the first payload of a volume goes, and what is written of the others.
Start(v) == IF v = 0 THEN HeaderSize + Padding(HeaderSize) ELSE 0
Written == {WriteOrder[k] : k \in {m \in 1 .. Count : m < cursor}}
CommonWritten == HasCommon /\ Len(chunks) = Count + 1
Bytes == [j \in Segments |-> EncodedLength(j)]

BeforePayloads == {"prepare", "open", "load", "encode_dz", "place", "pad"}

\* A handle stands behind the header's place and what was written through it, and each
\* record points where its chunk belongs.
Placed ==
  /\ step \in BeforePayloads => Len(chunks) = Count
  /\ step \in BeforePayloads \ {"pad"} => \A v \in VolumeIds : position[v] = 0
  /\ step = "pad" =>
       \A v \in VolumeIds :
         position[v] = IF v + 1 < cursor THEN Start(v) ELSE IF v = 0 THEN HeaderSize ELSE 0
  /\ step = "payload" =>
       /\ CommonWritten => cursor > NonDz
       /\ \A v \in VolumeIds :
            position[v] = Start(v) + SumOver(Bytes, On(v, Written))
                            + (IF v = 0 /\ CommonWritten THEN job.common ELSE 0)
       /\ \A j \in Written : loaded[j] # NoLength /\ chunks[j].offset = Belongs(j)
  /\ step = "header" \/ result = "ok" => \A j \in Segments : chunks[j].offset = Belongs(j)

\* What belongs before the k-th chunk to be written are the k - 1 chunks before it.
LEMMA EarlierOnes ==
  ASSUME Requested, Valid, NEW k \in 1 .. Count
  PROVE  Earlier(WriteOrder[k]) = {WriteOrder[l] : l \in {m \in 1 .. Count : m < k}}
<1>1. /\ \A l \in 1 .. Count : WriteOrder[l] \in Segments
      /\ \A i \in Segments : \E l \in 1 .. Count : WriteOrder[l] = i
      /\ \A l \in 1 .. Count : WrittenBefore(WriteOrder[l], WriteOrder[k]) <=> l < k
  BY Scheduled DEF Valid
<1>2. QED
  BY <1>1 DEF Earlier

\* Chunks stay where they belong while the inputs before them stay.
LEMMA BelongsStays ==
  ASSUME job' = job, NEW i \in Segments, \A j \in Earlier(i) : loaded'[j] = loaded[j]
  PROVE  Belongs(i)' = Belongs(i)
<1> DEFINE v == job.segments[i].volume
           before == {j \in Segments : job.segments[j].volume = v /\ WrittenBefore(j, i)}
<1>1. /\ Segments' = Segments /\ HeaderSize' = HeaderSize /\ HasCommon' = HasCommon
      /\ CompressionOf(i)' = CompressionOf(i)
      /\ \A j : WrittenBefore(j, i)' = WrittenBefore(j, i)
      /\ \A j : CompressionOf(j)' = CompressionOf(j)
  BY PlanStays
<1>2. before' = before /\ before \subseteq Earlier(i)
  BY <1>1 DEF Earlier
<1>3. \A j \in before : EncodedLength(j)' = EncodedLength(j)
  BY <1>1, <1>2 DEF EncodedLength
<1> DEFINE f == [j \in before |-> EncodedLength(j)]
<1>4. f' = f
  BY <1>2, <1>3
<1>5. SumFunction(f)' = SumFunction(f)
  <2> HIDE DEF f
  <2>1. QED
    BY <1>4
<1>6. Padding(HeaderSize)' = Padding(HeaderSize)
  BY <1>1 DEF Padding
<1>7. QED
  BY <1>1, <1>5, <1>6 DEF Belongs

\* The chunk to be written next belongs behind the ones written.
LEMMA BelongsNext ==
  ASSUME Requested, Valid, cursor \in 1 .. Count, \A j \in Written : loaded[j] \in Nat,
         NEW i, i = WriteOrder[cursor], NEW v, v = job.segments[i].volume
  PROVE  Belongs(i) = Start(v) + SumOver(Bytes, On(v, Written))
                        + (IF v = 0 /\ i \in DzSegments /\ HasCommon THEN job.common ELSE 0)
<1> DEFINE before == {j \in Segments : job.segments[j].volume = v /\ WrittenBefore(j, i)}
           f == [j \in before |-> EncodedLength(j)]
<1>1. Earlier(i) = Written
  BY EarlierOnes DEF Written
<1>2. before = On(v, Written)
  BY <1>1 DEF Earlier, On
<1>3. before \subseteq Written /\ before \subseteq Segments /\ IsFiniteSet(before)
  <2>1. before \subseteq Segments /\ before \subseteq Written
    BY <1>1 DEF Earlier
  <2>2. QED
    BY <2>1, SegmentParts, FS_Subset
<1>4. \A j \in before : EncodedLength(j) \in Nat
  BY <1>3, EncodedLengthIs
<1>5. \A j \in before : f[j] \in Nat /\ Bytes[j] = f[j]
  BY <1>3, <1>4 DEF Bytes
<1>6. SumFunction(f) = SumOver(Bytes, On(v, Written))
  <2>1. DOMAIN f = before
    OBVIOUS
  <2> HIDE DEF f, before
  <2>2. SumFunction(f) = SumOver(f, before)
    BY <2>1, SumFunctionIs
  <2>3. SumOver(f, before) = SumOver(Bytes, before)
    BY <1>3, <1>5, SumCongruence
  <2>4. QED
    BY <1>2, <2>2, <2>3
<1>7. i \in DzSegments <=> CompressionOf(i) = "DZ"
  <2>1. i \in Segments
    BY Scheduled DEF Valid
  <2>2. QED
    BY <2>1 DEF DzSegments
<1>8. Belongs(i) = Start(v) + SumFunction(f)
                     + (IF v = 0 /\ CompressionOf(i) = "DZ" /\ HasCommon THEN job.common ELSE 0)
  BY DEF Belongs, Start
<1>9. QED
  BY <1>6, <1>7, <1>8

\* Where everything belongs stays while the inputs and the plan do.
LEMMA PlacesStay ==
  ASSUME Requested, job' = job, loaded' = loaded
  PROVE  /\ \A v : Start(v)' = Start(v)
         /\ Bytes' = Bytes
         /\ \A j \in Segments : Belongs(j)' = Belongs(j)
<1>1. HeaderSize' = HeaderSize /\ Segments' = Segments
      /\ \A i : CompressionOf(i)' = CompressionOf(i)
  BY PlanStays
<1>2. \A v : Start(v)' = Start(v)
  BY <1>1 DEF Start, Padding
<1>3. \A j : EncodedLength(j)' = EncodedLength(j)
  BY <1>1 DEF EncodedLength
<1>4. Bytes' = Bytes
  BY <1>1, <1>3 DEF Bytes
<1>5. \A j \in Segments : Belongs(j)' = Belongs(j)
  BY BelongsStays
<1>6. QED
  BY <1>2, <1>4, <1>5

\* Fail: a call that gives up places no chunk and forgets the ones it placed.
LEMMA FailPlaced ==
  ASSUME step' = "returned", result' = "failed"
  PROVE  Placed'
BY DEF Placed, BeforePayloads

\* Before the call there is no chunk to place.
LEMMA InitPlaced ==
  ASSUME Init
  PROVE  Placed
<1>1. Requested
  BY DEF Init, Requested
<1>2. Count \in Nat /\ Segments = 1 .. Count
  BY <1>1, SegmentParts
<1>3. Len(chunks) = Count
  <2>1. chunks = [i \in 1 .. Count |-> Blank]
    BY <1>2 DEF Init
  <2>2. QED
    BY <1>2, <2>1
<1>4. QED
  BY <1>3 DEF Init, Placed, BeforePayloads

\* Steps before the header is placed move no handle.
LEMMA EarlyPlaced ==
  ASSUME Placed, job' = job, chunks' = chunks, position' = position, result' = result, result = "none",
         step \in BeforePayloads \ {"pad"}, step' \in BeforePayloads \ {"pad"}
  PROVE  Placed'
<1>1. Count' = Count /\ VolumeIds' = VolumeIds
  BY PlanStays
<1>2. QED
  BY <1>1 DEF Placed, BeforePayloads

\* PlaceHeader moves the handle of the main volume behind the header, and no other.
LEMMA PlaceHeaderPlaced ==
  ASSUME IInv, Placed, PlaceHeader
  PROVE  Placed'
<1>1. CASE ChunkCount > MaxU16
  BY <1>1, FailPlaced DEF PlaceHeader, Fail, Return
<1>2. CASE ~(ChunkCount > MaxU16)
  <2>1. /\ step = "place" /\ step' = "pad" /\ cursor' = 1 /\ result' = result /\ result = "none"
        /\ job' = job /\ chunks' = chunks /\ position' = [position EXCEPT ![0] = HeaderSize]
    BY <1>2 DEF PlaceHeader, Go, IInv, Stages
  <2>2. /\ position \in [VolumeIds -> Nat] /\ Len(chunks) = Count
        /\ \A v \in VolumeIds : position[v] = 0 /\ v \in Nat
    BY <2>1, VolumeParts DEF IInv, TypeOK, Placed, BeforePayloads, Requested
  <2>3. Count' = Count /\ VolumeIds' = VolumeIds /\ HeaderSize' = HeaderSize
    BY <2>1, PlanStays
  <2>4. \A v \in VolumeIds : ~(v + 1 < 1) /\ position'[v] = IF v = 0 THEN HeaderSize ELSE 0
    BY <2>1, <2>2
  <2>5. QED
    BY <2>1, <2>2, <2>3, <2>4 DEF Placed, BeforePayloads
<1>3. QED
  BY <1>1, <1>2

\* Nothing pads the start of a volume.
LEMMA NoPaddingAtZero ==
  ASSUME Requested
  PROVE  Padding(0) = 0
<1>1. job.alignment \in Nat
  BY JobParts
<1>2. ASSUME NEW a \in Nat, a > 1 PROVE (a - (0 % a)) % a = 0
  <2>1. 0 % a = 0
    BY <1>2
  <2>2. a % a = 0
    BY <1>2
  <2>3. QED
    BY <1>2, <2>1, <2>2
<1>3. QED
  BY <1>1, <1>2 DEF Padding

\* PadVolume moves the end of one file and its handle together.
LEMMA PadVolumePlaced ==
  ASSUME IInv, Placed, PadVolume
  PROVE  Placed'
<1>1. /\ step = "pad" /\ result' = result /\ result = "none"
      /\ job' = job /\ chunks' = chunks /\ loaded' = loaded
  BY DEF PadVolume, Go, IInv, Stages
<1>2. /\ position \in [VolumeIds -> Nat] /\ Requested /\ cursor \in Nat /\ cursor >= 1
      /\ Len(chunks) = Count
      /\ \A v \in VolumeIds :
           position[v] = IF v + 1 < cursor THEN Start(v) ELSE IF v = 0 THEN HeaderSize ELSE 0
  BY <1>1 DEF IInv, TypeOK, Placed, BeforePayloads, Requested, Stages
<1>3. /\ Len(job.names) \in Nat /\ VolumeIds = 0 .. Len(job.names) - 1
  BY <1>2, VolumeParts DEF VolumeIds
<1>4. /\ Count' = Count /\ VolumeIds' = VolumeIds /\ HeaderSize' = HeaderSize
      /\ HasCommon' = HasCommon /\ NonDz' = NonDz /\ WriteOrder' = WriteOrder
      /\ Bytes' = Bytes /\ \A v : Start(v)' = Start(v)
  BY <1>1, <1>2, PlanStays, PlacesStay
<1>5. CASE cursor > Len(job.names)
  <2>1. step' = "payload" /\ cursor' = 1 /\ position' = position
    BY <1>5 DEF PadVolume, Go
  <2>2. Written' = {} /\ \A v : On(v, Written)' = {}
    <3>1. \A m \in 1 .. Count : ~(m < 1)
      OBVIOUS
    <3>2. Written' = {}
      BY <1>4, <2>1, <3>1 DEF Written
    <3>3. QED
      BY <3>2 DEF On
  <2>3. ~CommonWritten'
    <3>1. Count \in Nat
      BY <1>2, SegmentParts
    <3>2. QED
      BY <1>1, <1>2, <1>4, <3>1 DEF CommonWritten
  <2>4. SumOver(Bytes', {}) = 0
    <3>1. IsFiniteSet({}) /\ \A x \in {} : Bytes'[x] \in Nat
      BY FS_EmptySet
    <3>2. QED
      BY <3>1, SumStep
  <2>5. \A v \in VolumeIds : position[v] = Start(v) /\ Start(v) \in Nat
    <3> TAKE v \in VolumeIds
    <3>1. v + 1 < cursor
      BY <1>2, <1>3, <1>5
    <3>2. QED
      BY <1>2, <3>1
  <2>6. \A v \in VolumeIds' :
          position'[v] = Start(v)' + SumOver(Bytes', On(v, Written)')
                           + (IF v = 0 /\ CommonWritten' THEN job'.common ELSE 0)
    BY <1>4, <2>1, <2>2, <2>3, <2>4, <2>5
  <2>7. QED
    BY <1>1, <2>1, <2>2, <2>3, <2>6 DEF Placed, BeforePayloads
<1>6. CASE ~(cursor > Len(job.names))
  <2> DEFINE w == cursor - 1
             n == Padding(position[w])
  <2>1. step' = "pad" /\ cursor' = cursor + 1 /\ position' = [position EXCEPT ![w] = @ + n]
    BY <1>6 DEF PadVolume, Put, Go
  <2>2. w \in VolumeIds /\ position[w] = IF w = 0 THEN HeaderSize ELSE 0
    <3>1. w \in VolumeIds /\ ~(w + 1 < cursor)
      BY <1>2, <1>3, <1>6
    <3>2. QED
      BY <1>2, <3>1
  <2>3. position[w] + n = Start(w)
    <3>1. CASE w = 0
      BY <2>2, <3>1 DEF Start
    <3>2. CASE w # 0
      BY <1>2, <2>2, <3>2, NoPaddingAtZero DEF Start
    <3>3. QED
      BY <3>1, <3>2
  <2>4. ASSUME NEW v \in VolumeIds
        PROVE  position'[v] = IF v + 1 < cursor + 1 THEN Start(v) ELSE IF v = 0 THEN HeaderSize ELSE 0
    <3>1. v \in Nat
      BY <1>3
    <3>2. CASE v = w
      <4>1. position'[v] = Start(v) /\ v + 1 < cursor + 1
        BY <1>2, <2>1, <2>2, <2>3, <3>2
      <4>2. QED
        BY <4>1
    <3>3. CASE v # w
      <4>1. position'[v] = position[v] /\ (v + 1 < cursor + 1 <=> v + 1 < cursor)
        BY <1>2, <2>1, <3>1, <3>3
      <4>2. QED
        BY <1>2, <4>1
    <3>4. QED
      BY <3>2, <3>3
  <2>5. QED
    BY <1>1, <1>2, <1>4, <2>1, <2>4 DEF Placed, BeforePayloads
<1>7. QED
  BY <1>5, <1>6

\* The segments written are segments.
LEMMA WrittenOnes ==
  ASSUME Requested, Valid
  PROVE  /\ Written \subseteq Segments /\ IsFiniteSet(Written)
         /\ \A v : On(v, Written) \subseteq Written /\ IsFiniteSet(On(v, Written))
<1>1. Written \subseteq Segments
  BY Scheduled DEF Written, Valid
<1>2. IsFiniteSet(Written)
  BY <1>1, SegmentParts, FS_Subset
<1>3. \A v : On(v, Written) \subseteq Written
  BY DEF On
<1>4. \A v : IsFiniteSet(On(v, Written))
  BY <1>2, <1>3, FS_Subset
<1>5. QED
  BY <1>1, <1>2, <1>3, <1>4

\* A worker that is done changes nothing of what is written.
LEMMA EncodeSegmentPlaced ==
  ASSUME IInv, Placed, NEW i \in Segments, EncodeSegment(i)
  PROVE  Placed'
<1>1. /\ step = "payload" /\ step' = step /\ cursor' = cursor /\ result' = result /\ result = "none"
      /\ job' = job /\ chunks' = chunks /\ position' = position
      /\ loaded[i] = NoLength /\ loaded' = [loaded EXCEPT ![i] = SourceLength(i)]
  BY DEF EncodeSegment, IInv, Stages
<1>2. /\ loaded \in [Segments -> Nat \cup {NoLength}] /\ Requested /\ Valid /\ cursor \in Nat
      /\ cursor <= Count + 1 /\ cursor >= 1
  BY <1>1 DEF IInv, TypeOK, Requested, Stages
<1>3. /\ CommonWritten => cursor > NonDz
      /\ \A v \in VolumeIds :
           position[v] = Start(v) + SumOver(Bytes, On(v, Written))
                           + (IF v = 0 /\ CommonWritten THEN job.common ELSE 0)
      /\ \A j \in Written : loaded[j] # NoLength /\ chunks[j].offset = Belongs(j)
  BY <1>1 DEF Placed
<1>4. /\ Count' = Count /\ VolumeIds' = VolumeIds /\ HeaderSize' = HeaderSize /\ Segments' = Segments
      /\ HasCommon' = HasCommon /\ NonDz' = NonDz /\ WriteOrder' = WriteOrder
      /\ \A j : CompressionOf(j)' = CompressionOf(j)
  BY <1>1, PlanStays
<1>5. \A j \in Written : j \in Segments /\ j # i /\ loaded'[j] = loaded[j] /\ loaded[j] \in Nat
  BY <1>1, <1>2, <1>3, WrittenOnes
<1>6. Written' = Written /\ (CommonWritten' <=> CommonWritten)
      /\ \A v : On(v, Written)' = On(v, Written)
  <2>1. Written' = Written /\ (CommonWritten' <=> CommonWritten)
    BY <1>1, <1>4 DEF Written, CommonWritten
  <2>2. QED
    BY <1>1, <2>1 DEF On
<1>7. \A v : Start(v)' = Start(v)
  BY <1>1, <1>4 DEF Start, Padding
<1>8. ASSUME NEW v \in VolumeIds PROVE SumOver(Bytes', On(v, Written)) = SumOver(Bytes, On(v, Written))
  <2> DEFINE S == On(v, Written)
  <2>1. IsFiniteSet(S) /\ S \subseteq Written
    BY <1>2, WrittenOnes
  <2>2. \A j \in S : EncodedLength(j) \in Nat /\ EncodedLength(j)' = EncodedLength(j)
    <3> TAKE j \in S
    <3>1. j \in Segments /\ loaded[j] \in Nat /\ loaded'[j] = loaded[j]
      BY <1>5, <2>1
    <3>2. EncodedLength(j) \in Nat
      BY <1>2, <3>1, EncodedLengthIs
    <3>3. EncodedLength(j)' = EncodedLength(j)
      BY <1>1, <1>4, <3>1 DEF EncodedLength
    <3>4. QED
      BY <3>2, <3>3
  <2>3. \A j \in S : Bytes[j] \in Nat /\ Bytes'[j] = Bytes[j]
    BY <1>4, <1>5, <2>1, <2>2 DEF Bytes
  <2> HIDE DEF S
  <2>4. SumOver(Bytes, S) = SumOver(Bytes', S)
    BY <2>1, <2>3, SumCongruence
  <2>5. QED
    BY <2>4 DEF S
<1>9. \A j \in Written : Belongs(j)' = Belongs(j)
  <2> TAKE j \in Written
  <2>1. PICK k \in 1 .. Count : k < cursor /\ j = WriteOrder[k]
    BY DEF Written
  <2>2. Earlier(j) \subseteq Written
    <3>1. Count \in Nat
      BY <1>2, SegmentParts
    <3>2. Earlier(j) = {WriteOrder[l] : l \in {m \in 1 .. Count : m < k}}
      BY <1>2, <2>1, EarlierOnes
    <3>3. \A m \in 1 .. Count : m < k => m < cursor
      BY <1>2, <2>1, <3>1
    <3>4. QED
      BY <3>2, <3>3 DEF Written
  <2>3. QED
    BY <1>1, <1>5, <2>2, BelongsStays
<1>10. \A v \in VolumeIds' :
         position'[v] = Start(v)' + SumOver(Bytes', On(v, Written)')
                          + (IF v = 0 /\ CommonWritten' THEN job'.common ELSE 0)
  BY <1>1, <1>3, <1>4, <1>6, <1>7, <1>8
<1>11. \A j \in Written' : loaded'[j] # NoLength /\ chunks'[j].offset = Belongs(j)'
  BY <1>1, <1>3, <1>5, <1>6, <1>9
<1>12. CommonWritten' => cursor' > NonDz'
  BY <1>1, <1>3, <1>4, <1>6
<1>13. QED
  BY <1>1, <1>10, <1>11, <1>12 DEF Placed, BeforePayloads

\* The next chunk goes where it belongs, and its handle moves behind it.
LEMMA WritePayloadPlaced ==
  ASSUME IInv, Placed, WritePayload
  PROVE  Placed'
<1> DEFINE i == WriteOrder[cursor]
           w == job.segments[i].volume
           n == EncodedLength(i)
<1>1. /\ step = "payload" /\ cursor <= Count /\ WriteChunk(i) /\ result = "none"
      /\ job' = job /\ batch' = batch /\ loaded' = loaded
      /\ IF cursor <= NonDz THEN \A j \in BatchAt(cursor) : loaded[j] # NoLength ELSE ~CommonPending
  BY DEF WritePayload, IInv, Stages
<1>2. /\ position \in [VolumeIds -> Nat] /\ loaded \in [Segments -> Nat \cup {NoLength}]
      /\ cursor \in Nat /\ Requested /\ Valid /\ cursor >= 1
      /\ \A j \in DzSegments : loaded[j] # NoLength
      /\ chunks \in Seq(Chunk) /\ Len(chunks) \in {Count, ChunkCount}
  BY <1>1 DEF IInv, TypeOK, Stages, Requested, HeaderLast
<1>3. Count \in Nat /\ cursor \in 1 .. Count /\ NonDz \in 0 .. Count
      /\ \A k \in 1 .. Count : /\ WriteOrder[k] \in Segments
                               /\ k > NonDz <=> WriteOrder[k] \in DzSegments
                               /\ \A l \in 1 .. Count : WriteOrder[k] = WriteOrder[l] => k = l
  <2>1. \A j \in Segments : CompressionOf(j) # "NONE"
    BY <1>2 DEF Valid
  <2>2. Count \in Nat
    BY <1>2, SegmentParts
  <2>3. \A k, l \in 1 .. Count : WriteOrder[k] = WriteOrder[l] => k = l
    <3> SUFFICES ASSUME NEW k \in 1 .. Count, NEW l \in 1 .. Count, WriteOrder[k] = WriteOrder[l]
                 PROVE  k = l
      OBVIOUS
    <3>1. k - 1 = l - 1
      BY <1>2, <2>1, Scheduled
    <3>2. QED
      BY <2>2, <3>1
  <2>4. QED
    BY <1>1, <1>2, <2>1, <2>2, <2>3, Scheduled, DzLast
<1>4. i \in Segments /\ w \in VolumeIds /\ i \notin Written
  <2>1. i \in Segments
    BY <1>3
  <2>2. w \in VolumeIds
    BY <1>2, <2>1 DEF Valid
  <2>3. i \notin Written
    BY <1>2, <1>3 DEF Written
  <2>4. QED
    BY <2>1, <2>2, <2>3
<1>5. loaded[i] \in Nat /\ loaded[i] # NoLength
  <2>1. CASE cursor <= NonDz
    <3>1. i \in BatchAt(cursor)
      <4>1. cursor \in 1 .. NonDz
        BY <1>3, <2>1
      <4>2. QED
        BY <4>1 DEF BatchAt
    <3>2. QED
      BY <1>1, <1>2, <1>4, <2>1, <3>1
  <2>2. CASE ~(cursor <= NonDz)
    <3>1. i \in DzSegments
      BY <1>3, <2>2
    <3>2. QED
      BY <1>2, <1>4, <3>1
  <2>3. QED
    BY <2>1, <2>2
<1>6. /\ CommonWritten => cursor > NonDz
      /\ \A v \in VolumeIds :
           position[v] = Start(v) + SumOver(Bytes, On(v, Written))
                           + (IF v = 0 /\ CommonWritten THEN job.common ELSE 0)
      /\ \A j \in Written : loaded[j] # NoLength /\ chunks[j].offset = Belongs(j)
  BY <1>1 DEF Placed
<1>7. \A j \in Written : j \in Segments /\ loaded[j] \in Nat
  BY <1>2, <1>6, WrittenOnes
<1>8. i \in DzSegments /\ HasCommon <=> CommonWritten
  <2>1. i \in DzSegments <=> ~(cursor <= NonDz)
    BY <1>2, <1>3
  <2>2. CommonWritten => HasCommon /\ cursor > NonDz
    BY <1>6 DEF CommonWritten
  <2>3. ~(cursor <= NonDz) /\ HasCommon => CommonWritten
    <3>1. HasCommon => ChunkCount = Count + 1
      BY DEF ChunkCount
    <3>2. QED
      BY <1>1, <1>2, <3>1 DEF CommonPending, CommonWritten
  <2>4. QED
    BY <1>2, <1>3, <2>1, <2>2, <2>3
<1>9. position[w] = Belongs(i)
  <2>1. Belongs(i) = Start(w) + SumOver(Bytes, On(w, Written))
                       + (IF w = 0 /\ i \in DzSegments /\ HasCommon THEN job.common ELSE 0)
    BY <1>2, <1>3, <1>7, BelongsNext
  <2>2. QED
    BY <1>4, <1>6, <1>8, <2>1
<1>10. CASE Fail
  BY <1>10, FailPlaced DEF Fail, Return
<1>11. CASE /\ Put(w, n, "payload", i) /\ Go("payload", cursor + 1)
            /\ chunks' = [chunks EXCEPT ![i] =
                 [offset |-> position[w], compressed_length |-> StoredLength(i),
                  decompressed_length |-> loaded[i], flags |-> job.segments[i].flags, file |-> w,
                  need |-> n, work |-> 0]]
  <2>1. /\ step' = "payload" /\ cursor' = cursor + 1 /\ result' = "none"
        /\ position' = [position EXCEPT ![w] = @ + n]
    BY <1>1, <1>11 DEF Go, Put
  <2>2. n \in Nat
    BY <1>2, <1>4, <1>5, EncodedLengthIs
  <2>3. /\ Count' = Count /\ VolumeIds' = VolumeIds /\ HasCommon' = HasCommon /\ NonDz' = NonDz
        /\ WriteOrder' = WriteOrder /\ Bytes' = Bytes
        /\ (\A v : Start(v)' = Start(v)) /\ \A j \in Segments : Belongs(j)' = Belongs(j)
    BY <1>1, <1>2, PlanStays, PlacesStay
  <2>4. Written' = Written \cup {i}
    <3>1. \A m \in 1 .. Count : m < cursor + 1 <=> m < cursor \/ m = cursor
      BY <1>2
    <3>2. QED
      BY <1>3, <2>1, <2>3, <3>1 DEF Written
  <2>5. \A v : On(v, Written)' = IF v = w THEN On(v, Written) \cup {i} ELSE On(v, Written)
    BY <1>1, <2>4 DEF On
  <2>6. /\ \A j \in Written : chunks'[j] = chunks[j]
        /\ chunks'[i].offset = position[w]
        /\ Len(chunks') = Len(chunks)
    <3> DEFINE c == [offset |-> position[w], compressed_length |-> StoredLength(i),
                     decompressed_length |-> loaded[i], flags |-> job.segments[i].flags, file |-> w,
                     need |-> n, work |-> 0]
               C == Chunk
               m == Len(chunks)
    <3>1. chunks' = [chunks EXCEPT ![i] = c] /\ c.offset = position[w] /\ chunks \in Seq(C)
      BY <1>2, <1>11
    <3>2. i \in 1 .. m /\ (\A j \in Written : j \in 1 .. m) /\ DOMAIN chunks = 1 .. m /\ m \in Nat
      <4>1. DOMAIN chunks = 1 .. m /\ m \in Nat
        BY <1>2
      <4>2. m = Count \/ m = Count + 1
        BY <1>2, PlanSizes
      <4> HIDE DEF m
      <4>3. \A j \in Segments : j \in 1 .. m
        BY <1>2, <1>3, <4>1, <4>2, SegmentParts
      <4>4. QED
        BY <1>4, <1>7, <4>1, <4>3
    <3> HIDE DEF c, C
    <3>3. Len(chunks') = m
      BY <3>1, <3>2
    <3> HIDE DEF m
    <3>4. QED
      BY <1>4, <3>1, <3>2, <3>3 DEF m
  <2>7. CommonWritten' <=> CommonWritten
    BY <2>3, <2>6 DEF CommonWritten
  <2>8. ASSUME NEW v \in VolumeIds
        PROVE  position'[v] = Start(v) + SumOver(Bytes, On(v, Written)')
                                + (IF v = 0 /\ CommonWritten THEN job.common ELSE 0)
    <3>1. CASE v # w
      BY <1>2, <1>6, <2>1, <2>5, <3>1
    <3>2. CASE v = w
      <4> DEFINE S == On(v, Written)
                 extra == IF v = 0 /\ CommonWritten THEN job.common ELSE 0
                 sum == SumOver(Bytes, S)
      <4>1. IsFiniteSet(S) /\ i \notin S /\ \A j \in S : j \in Segments /\ loaded[j] \in Nat
        BY <1>2, <1>4, <1>7, WrittenOnes
      <4>2. \A j \in S \cup {i} : Bytes[j] \in Nat
        <5> TAKE j \in S \cup {i}
        <5>1. j \in Segments /\ loaded[j] \in Nat
          BY <1>4, <1>5, <4>1
        <5>2. EncodedLength(j) \in Nat
          BY <1>2, <5>1, EncodedLengthIs
        <5>3. QED
          BY <5>1, <5>2 DEF Bytes
      <4>3. Bytes[i] = n
        BY <1>4 DEF Bytes
      <4>4. SumOver(Bytes, S) \in Nat
        BY <4>1, <4>2, SumStep
      <4> HIDE DEF S, i
      <4>5. SumOver(Bytes, S \cup {i}) = SumOver(Bytes, S) + Bytes[i]
        BY <4>1, <4>2, SumWith
      <4>6. extra \in Nat
        BY <1>2, PlanSizes DEF CommonWritten
      <4>7. Start(v) \in Nat
        <5>1. HeaderSize \in Nat
          BY <1>2, PlanSizes
        <5>2. Padding(HeaderSize) \in Nat
          BY <1>2, <5>1, PaddingIs
        <5>3. QED
          BY <5>1, <5>2 DEF Start
      <4>8. position[v] = Start(v) + sum + extra
        BY <1>6 DEF S
      <4>9. position'[v] = position[v] + n
        BY <1>2, <2>1, <3>2
      <4>10. SumOver(Bytes, On(v, Written)') = sum + n
        BY <2>5, <3>2, <4>3, <4>5 DEF S
      <4>11. sum \in Nat
        BY <4>4
      <4> HIDE DEF sum, extra, n
      <4>12. position'[v] = Start(v) + SumOver(Bytes, On(v, Written)') + extra
        BY <2>2, <4>6, <4>7, <4>8, <4>9, <4>10, <4>11
      <4>13. QED
        BY <4>12 DEF extra
    <3>3. QED
      BY <3>1, <3>2
  <2>9. \A v \in VolumeIds' :
          position'[v] = Start(v)' + SumOver(Bytes', On(v, Written)')
                           + (IF v = 0 /\ CommonWritten' THEN job'.common ELSE 0)
    BY <1>1, <2>3, <2>7, <2>8
  <2>10. \A j \in Written' : loaded'[j] # NoLength /\ chunks'[j].offset = Belongs(j)'
    <3>1. \A j \in Written : loaded'[j] # NoLength /\ chunks'[j].offset = Belongs(j)'
      BY <1>1, <1>6, <1>7, <2>3, <2>6
    <3>2. ASSUME NEW j \in Segments, j = i
          PROVE  loaded'[j] # NoLength /\ chunks'[j].offset = Belongs(j)'
      <4>1. Belongs(j)' = Belongs(j)
        BY <2>3
      <4>2. loaded'[j] = loaded[i] /\ chunks'[j].offset = position[w] /\ Belongs(j) = Belongs(i)
        BY <1>1, <2>6, <3>2
      <4>3. QED
        BY <1>5, <1>9, <4>1, <4>2
    <3> HIDE DEF i
    <3>3. QED
      BY <1>4, <1>7, <2>4, <3>1, <3>2
  <2>11. CommonWritten' => cursor' > NonDz'
    BY <1>2, <1>3, <1>6, <2>1, <2>3, <2>7
  <2>12. QED
    BY <2>1, <2>9, <2>10, <2>11 DEF Placed, BeforePayloads
<1>12. QED
  BY <1>1, <1>10, <1>11 DEF WriteChunk

\* The common buffer goes in front of the DZ payloads.
LEMMA WriteCommonPlaced ==
  ASSUME IInv, Placed, WriteCommon
  PROVE  Placed'
<1>1. /\ step = "payload" /\ cursor = NonDz + 1 /\ HasCommon /\ Len(chunks) = Count
      /\ job' = job /\ loaded' = loaded /\ result = "none"
  BY DEF WriteCommon, CommonPending, IInv, Stages
<1>2. /\ position \in [VolumeIds -> Nat] /\ Requested /\ Valid /\ chunks \in Seq(Chunk)
      /\ Count \in Nat /\ NonDz \in 0 .. Count
  <2>1. Requested /\ Valid
    BY <1>1 DEF IInv, TypeOK, Requested, Stages
  <2>2. QED
    BY <2>1, SegmentParts, DzLast DEF IInv, TypeOK, Valid
<1>3. 0 \in VolumeIds
  <2>1. Len(job.names) \in Nat
    BY <1>2, VolumeParts
  <2>2. QED
    BY <1>2, <2>1 DEF Valid, VolumeIds
<1>4. CASE Fail
  BY <1>4, FailPlaced DEF Fail, Return
<1>5. CASE /\ Put(0, job.common, "common", 0) /\ Go("payload", cursor)
           /\ \E c : chunks' = Append(chunks, c)
  <2>1. /\ step' = "payload" /\ cursor' = cursor /\ result' = "none"
        /\ position' = [position EXCEPT ![0] = @ + job.common]
    BY <1>1, <1>5 DEF Go, Put
  <2>2. /\ Count' = Count /\ VolumeIds' = VolumeIds /\ HasCommon' = HasCommon /\ NonDz' = NonDz
        /\ WriteOrder' = WriteOrder /\ Bytes' = Bytes
        /\ (\A v : Start(v)' = Start(v)) /\ \A j \in Segments : Belongs(j)' = Belongs(j)
    BY <1>1, <1>2, PlanStays, PlacesStay
  <2>3. Written' = Written /\ \A v : On(v, Written)' = On(v, Written)
    <3>1. Written' = Written
      BY <2>1, <2>2 DEF Written
    <3>2. QED
      BY <1>1, <3>1 DEF On
  <2>4. Len(chunks') = Count + 1 /\ \A j \in 1 .. Count : chunks'[j] = chunks[j]
    <3> DEFINE C == Chunk
    <3>1. chunks \in Seq(C)
      BY <1>2
    <3> HIDE DEF C
    <3>2. QED
      BY <1>1, <1>2, <1>5, <3>1
  <2>5. CommonWritten' /\ ~CommonWritten
    BY <1>1, <1>2, <2>2, <2>4 DEF CommonWritten
  <2>6. /\ \A v \in VolumeIds : position[v] = Start(v) + SumOver(Bytes, On(v, Written)) + 0
        /\ \A j \in Written : loaded[j] # NoLength /\ chunks[j].offset = Belongs(j)
    BY <1>1, <2>5 DEF Placed
  <2>7. ASSUME NEW v \in VolumeIds
        PROVE  position'[v] = Start(v) + SumOver(Bytes, On(v, Written))
                                + (IF v = 0 THEN job.common ELSE 0)
    <3> DEFINE sum == Start(v) + SumOver(Bytes, On(v, Written))
    <3>1. position[v] \in Nat /\ position[v] = sum + 0
      BY <1>2, <2>6
    <3>2. sum \in Int => position[v] = sum
      BY <3>1
    <3>3. sum \in Int
      <4>1. \A j \in Written : j \in Segments /\ loaded[j] \in Nat
        <5>1. loaded \in [Segments -> Nat \cup {NoLength}]
          BY DEF IInv, TypeOK
        <5>2. QED
          BY <1>2, <2>6, <5>1, WrittenOnes
      <4>2. IsFiniteSet(On(v, Written)) /\ \A j \in On(v, Written) : Bytes[j] \in Nat
        <5>1. IsFiniteSet(On(v, Written)) /\ On(v, Written) \subseteq Written
          BY <1>2, WrittenOnes
        <5>2. ASSUME NEW j \in On(v, Written) PROVE Bytes[j] \in Nat
          <6>1. j \in Segments /\ loaded[j] \in Nat
            BY <4>1, <5>1
          <6>2. EncodedLength(j) \in Nat
            BY <1>2, <6>1, EncodedLengthIs
          <6>3. QED
            BY <6>1, <6>2 DEF Bytes
        <5>3. QED
          BY <5>1, <5>2
      <4>3. SumOver(Bytes, On(v, Written)) \in Nat
        BY <4>2, SumStep
      <4>4. Start(v) \in Nat
        <5>1. HeaderSize \in Nat
          BY <1>2, PlanSizes
        <5>2. Padding(HeaderSize) \in Nat
          BY <1>2, <5>1, PaddingIs
        <5>3. QED
          BY <5>1, <5>2 DEF Start
      <4>5. QED
        BY <4>3, <4>4
    <3> HIDE DEF sum
    <3>4. job.common \in Nat
      BY <1>1, <1>2, PlanSizes
    <3>5. position'[v] = sum + (IF v = 0 THEN job.common ELSE 0)
      BY <1>2, <1>3, <2>1, <3>1, <3>2, <3>3, <3>4
    <3>6. QED
      BY <3>5 DEF sum
  <2>8. \A v \in VolumeIds' :
          position'[v] = Start(v)' + SumOver(Bytes', On(v, Written)')
                           + (IF v = 0 /\ CommonWritten' THEN job'.common ELSE 0)
    BY <1>1, <2>2, <2>3, <2>5, <2>7
  <2>9. \A j \in Written' : loaded'[j] # NoLength /\ chunks'[j].offset = Belongs(j)'
    <3>1. \A j \in Written : j \in Segments /\ j \in 1 .. Count
      BY <1>2, WrittenOnes, SegmentParts
    <3>2. QED
      BY <1>1, <2>2, <2>3, <2>4, <2>6, <3>1
  <2>10. cursor' > NonDz'
    BY <1>1, <1>2, <2>1, <2>2
  <2>11. QED
    BY <2>1, <2>8, <2>9, <2>10 DEF Placed, BeforePayloads
<1>6. QED
  BY <1>4, <1>5 DEF WriteCommon

\* In the end every chunk is written.
LEMMA PayloadsWrittenPlaced ==
  ASSUME IInv, Placed, PayloadsWritten
  PROVE  Placed'
<1>1. /\ step = "payload" /\ cursor = Count + 1 /\ step' = "header" /\ result' = "none"
      /\ job' = job /\ chunks' = chunks /\ loaded' = loaded
  BY DEF PayloadsWritten, Go, IInv, Stages
<1>2. Requested /\ Valid
  BY <1>1 DEF IInv, TypeOK, Requested, Stages
<1>3. Written = Segments
  <2>1. Count \in Nat
    BY <1>2, SegmentParts
  <2>2. \A k \in 1 .. Count : k < cursor
    BY <1>1, <2>1
  <2>3. /\ \A k \in 1 .. Count : WriteOrder[k] \in Segments
        /\ \A i \in Segments : \E k \in 1 .. Count : WriteOrder[k] = i
    BY <1>2, Scheduled DEF Valid
  <2>4. QED
    BY <2>2, <2>3 DEF Written
<1>4. \A j \in Segments : chunks[j].offset = Belongs(j)
  BY <1>1, <1>3 DEF Placed
<1>5. Segments' = Segments /\ \A j \in Segments : Belongs(j)' = Belongs(j)
  BY <1>1, <1>2, PlanStays, PlacesStay
<1>6. QED
  BY <1>1, <1>4, <1>5 DEF Placed, BeforePayloads

\* WriteHeader writes into the main volume and leaves the records as they are.
LEMMA WriteHeaderPlaced ==
  ASSUME IInv, Placed, WriteHeader
  PROVE  Placed'
<1>1. /\ step = "header" /\ step' = "returned" /\ job' = job /\ chunks' = chunks /\ loaded' = loaded
  BY DEF WriteHeader, Return
<1>2. \A j \in Segments : chunks[j].offset = Belongs(j)
  BY <1>1 DEF Placed
<1>3. Segments' = Segments /\ \A j \in Segments : Belongs(j)' = Belongs(j)
  BY <1>1, PlanStays, PlacesStay DEF IInv, TypeOK, Requested
<1>4. QED
  BY <1>1, <1>2, <1>3 DEF Placed, BeforePayloads

\* Steps of others do not touch the plan.
LEMMA OthersPlaced ==
  ASSUME IInv, Placed, UNCHANGED <<job, step, cursor, position, loaded, chunks, result>>
  PROVE  Placed'
<1>1. /\ job' = job /\ step' = step /\ cursor' = cursor /\ position' = position
      /\ loaded' = loaded /\ chunks' = chunks /\ result' = result
  OBVIOUS
<1>2. Requested
  BY DEF IInv, TypeOK, Requested
<1>3. /\ Count' = Count /\ VolumeIds' = VolumeIds /\ HasCommon' = HasCommon /\ NonDz' = NonDz
      /\ WriteOrder' = WriteOrder /\ Bytes' = Bytes /\ Segments' = Segments
      /\ HeaderSize' = HeaderSize
      /\ (\A v : Start(v)' = Start(v)) /\ \A j \in Segments : Belongs(j)' = Belongs(j)
  BY <1>1, <1>2, PlanStays, PlacesStay
<1>4. Written' = Written /\ (CommonWritten' <=> CommonWritten)
  BY <1>1, <1>3 DEF Written, CommonWritten
<1>5. \A v : On(v, Written)' = On(v, Written)
  BY <1>1, <1>4 DEF On
<1>6. step = "payload" => /\ \A j \in Written : j \in Segments
  <2> SUFFICES ASSUME step = "payload" PROVE Written \subseteq Segments
    OBVIOUS
  <2>1. Valid
    BY DEF IInv, Stages
  <2>2. QED
    BY <1>2, <2>1, WrittenOnes
<1>7. CASE step = "payload"
  <2>1. \A v \in VolumeIds' :
          position'[v] = Start(v)' + SumOver(Bytes', On(v, Written)')
                           + (IF v = 0 /\ CommonWritten' THEN job'.common ELSE 0)
    BY <1>1, <1>3, <1>4, <1>5, <1>7 DEF Placed
  <2>2. \A j \in Written' : loaded'[j] # NoLength /\ chunks'[j].offset = Belongs(j)'
    BY <1>1, <1>3, <1>4, <1>6, <1>7 DEF Placed
  <2>3. CommonWritten' => cursor' > NonDz'
    BY <1>1, <1>3, <1>4, <1>7 DEF Placed
  <2>4. result = "none"
    BY <1>7 DEF IInv, Stages
  <2>5. QED
    BY <1>1, <1>7, <2>1, <2>2, <2>3, <2>4 DEF Placed, BeforePayloads
<1>8. CASE step # "payload"
  BY <1>1, <1>3, <1>8 DEF Placed
<1>9. QED
  BY <1>7, <1>8

\* Every step keeps the handles and the records in place.
LEMMA NextPlaced ==
  ASSUME IInv, Placed, [Next]_vars
  PROVE  Placed'
<1>1. CASE UNCHANGED vars
  BY <1>1, OthersPlaced DEF vars
<1>2. CASE Work
  <2>1. CASE Prepare \/ OpenVolume \/ LoadDz \/ EncodeDz
    <3>1. CASE Fail
      BY <3>1, FailPlaced DEF Fail, Return
    <3>2. CASE ~Fail
      <4>1. /\ job' = job /\ chunks' = chunks /\ position' = position /\ result' = result
            /\ step \in BeforePayloads \ {"pad"} /\ step' \in BeforePayloads \ {"pad"}
        BY <2>1, <3>2 DEF Prepare, OpenVolume, LoadDz, EncodeDz, Go, BeforePayloads
      <4>2. result = "none"
        BY <4>1 DEF IInv, Stages, BeforePayloads
      <4>3. QED
        BY <4>1, <4>2, EarlyPlaced
    <3>3. QED
      BY <3>1, <3>2
  <2>2. CASE PlaceHeader
    BY <2>2, PlaceHeaderPlaced
  <2>3. CASE PadVolume
    BY <2>3, PadVolumePlaced
  <2>4. CASE \E i \in Segments : EncodeSegment(i)
    BY <2>4, EncodeSegmentPlaced
  <2>5. CASE WritePayload
    BY <2>5, WritePayloadPlaced
  <2>6. CASE WriteCommon
    BY <2>6, WriteCommonPlaced
  <2>7. CASE PayloadsWritten
    BY <2>7, PayloadsWrittenPlaced
  <2>8. CASE WriteHeader
    BY <2>8, WriteHeaderPlaced
  <2>9. QED
    BY <1>2, <2>1, <2>2, <2>3, <2>4, <2>5, <2>6, <2>7, <2>8 DEF Work
<1>3. CASE Fails \/ HeaderCut
  BY <1>3, FailPlaced DEF Fails, HeaderCut, Fail, Return
<1>4. CASE \E f \in Files : SourceGrows(f)
  BY <1>4, OthersPlaced DEF SourceGrows
<1>5. QED
  BY <1>1, <1>2, <1>3, <1>4 DEF Next

\* However many workers encode, and whichever is done first: every record points where
\* the request and the lengths of the payloads before it put its chunk.
THEOREM LayoutFixed == Spec => []LayoutDeterministic
<1>1. Init => Placed
  BY InitPlaced
<1>2. IInv /\ Placed /\ [Next]_vars => Placed'
  BY NextPlaced
<1>3. Placed => LayoutDeterministic
  BY DEF Placed, LayoutDeterministic
<1>4. QED
  BY <1>1, <1>2, <1>3, Invariance, PTL DEF Spec

-----------------------------------------------------------------------------
(* What lies where *)

\* Pieces that lie one behind the other, none of them empty.
Stacked(w, floor) ==
  /\ \A k \in DOMAIN w : floor <= w[k].from /\ w[k].from < w[k].to
  /\ \A k, l \in DOMAIN w : k < l => w[k].to <= w[l].from

EndOf(w) == w[Len(w)].to

\* The archive's pieces of a volume begin behind the header's place.
Floor(v) == IF v = 0 THEN HeaderSize ELSE 0

\* The piece a record points at.
PieceOf(i) ==
  [from |-> chunks[i].offset, to |-> chunks[i].offset + chunks[i].need,
   kind |-> IF i <= Count THEN "payload" ELSE "common", index |-> IF i <= Count THEN i ELSE 0]

\* A record by whose lengths alone a reader that knows where the next one begins finds
\* the bytes its decoder needs.
Truthful(c) ==
  /\ IsPhysicalBoundary(c) <=> c.need # 0
  /\ c.need <= MaxU32
  /\ RegisteredCompression(c.flags) = "COPY" => c.decompressed_length = c.need
  /\ HasPlaceholderLength(c) \/ c.compressed_length = c.need

\* A record says of its chunk what the request says.
Describes(i) ==
  IF i <= Count
  THEN chunks[i].flags = job.segments[i].flags /\ chunks[i].file = job.segments[i].volume
  ELSE chunks[i].flags = {"COMBUF"} /\ chunks[i].file = 0 /\ chunks[i].need = job.common

\* Its bytes are among the pieces w, and end with them or where a record of R begins.
Kept(i, w, R) ==
  chunks[i].need # 0 =>
    /\ \E k \in DOMAIN w : w[k] = PieceOf(i)
    /\ \/ PieceOf(i).to = EndOf(w)
       \/ \E j \in R : /\ chunks[j].need # 0 /\ chunks[j].file = chunks[i].file
                       /\ chunks[j].offset = PieceOf(i).to

\* The records of R are as they should be, when the pieces of volume v are body[v].
Recorded(R, body) ==
  \A i \in R : /\ i \in DOMAIN chunks /\ chunks[i].file \in VolumeIds
               /\ Truthful(chunks[i]) /\ Describes(i)
               /\ Kept(i, body[chunks[i].file], R)

Body == [v \in VolumeIds |-> content[VolumeFile(v)]]

\* The records written so far.
WrittenSoFar == Written \cup {i \in {Count + 1} : CommonWritten}

\* The archive's pieces are stacked, and each handle stands behind the last of its volume.
Piled ==
  \A v \in VolumeIds :
    /\ Stacked(Body[v], Floor(v)) /\ Floor(v) <= position[v]
    /\ Body[v] # <<>> => EndOf(Body[v]) = position[v]

\* What the files hold at each step.
Disk ==
  Sound =>
    /\ step = "prepare" /\ Valid /\ job.sink = "writer" => content[Main] = <<>>
    /\ step \in {"open", "load", "encode_dz", "place"} =>
         \A v \in VolumeIds :
           step # "open" \/ job.sink = "writer" \/ v + 1 < cursor => Body[v] = <<>>
    /\ step \in {"pad", "payload"} => Piled
    /\ step = "pad" => \A v \in VolumeIds : v + 1 >= cursor => Body[v] = <<>>
    /\ step = "payload" => Recorded(WrittenSoFar, Body)
    /\ step = "header" => /\ position[0] = 0
                          /\ \A v \in VolumeIds : Stacked(Body[v], Floor(v))
                          /\ Recorded(DOMAIN chunks, Body)

\* Pieces that are stacked reach to the end of the last.
LEMMA StackedEnds ==
  ASSUME NEW w \in Seq(Piece), NEW floor \in Nat, Stacked(w, floor), w # <<>>
  PROVE  /\ Len(w) \in DOMAIN w /\ EndOf(w) \in Nat /\ floor < EndOf(w)
         /\ \A k \in DOMAIN w : w[k].to <= EndOf(w)
<1> DEFINE P == Piece
           n == Len(w)
<1>1. w \in Seq(P)
  OBVIOUS
<1>2. n \in Nat /\ DOMAIN w = 1 .. n /\ n # 0 /\ \A k \in DOMAIN w : w[k] \in P
  <2> HIDE DEF P
  <2>1. n \in Nat /\ DOMAIN w = 1 .. n /\ \A k \in DOMAIN w : w[k] \in P
    BY <1>1, LenProperties, ElementOfSeq
  <2>2. n # 0
    BY <1>1, EmptySeq
  <2>3. QED
    BY <2>1, <2>2
<1>3. \A k \in DOMAIN w : w[k].to \in Nat /\ w[k].from \in Nat
  BY <1>2 DEF Piece
<1> HIDE DEF n
<1>4. n \in DOMAIN w
  BY <1>2
<1>5. floor <= w[n].from /\ w[n].from < w[n].to
  BY <1>4 DEF Stacked
<1>6. ASSUME NEW k \in DOMAIN w PROVE w[k].to <= w[n].to
  <2>1. CASE k = n
    BY <1>3, <2>1
  <2>2. CASE k # n
    <3>1. k < n
      BY <1>2, <2>2
    <3>2. w[k].to <= w[n].from
      BY <1>4, <3>1 DEF Stacked
    <3>3. QED
      BY <1>3, <1>4, <1>5, <3>2
  <2>3. QED
    BY <2>1, <2>2
<1>7. floor < w[n].to
  BY <1>3, <1>4, <1>5
<1>8. QED
  BY <1>3, <1>4, <1>6, <1>7 DEF EndOf, n

\* A piece that begins where the others end, or above, is stacked upon them.
LEMMA StackedAppend ==
  ASSUME NEW w \in Seq(Piece), NEW floor \in Nat, Stacked(w, floor), NEW at \in Piece,
         floor <= at.from, at.from < at.to, w # <<>> => EndOf(w) <= at.from
  PROVE  /\ Append(w, at) \in Seq(Piece) /\ Stacked(Append(w, at), floor)
         /\ Append(w, at) # <<>> /\ EndOf(Append(w, at)) = at.to
         /\ DOMAIN Append(w, at) = DOMAIN w \cup {Len(w) + 1}
         /\ \A k \in DOMAIN w : Append(w, at)[k] = w[k]
         /\ Append(w, at)[Len(w) + 1] = at
<1> DEFINE P == Piece
           n == Len(w)
           u == Append(w, at)
<1>1. w \in Seq(P) /\ at \in P
  OBVIOUS
<1>2. /\ u \in Seq(P) /\ Len(u) = n + 1 /\ u # <<>> /\ n \in Nat
      /\ DOMAIN w = 1 .. n /\ DOMAIN u = 1 .. n + 1
      /\ (\A k \in 1 .. n : u[k] = w[k]) /\ u[n + 1] = at
      /\ \A k \in DOMAIN w : w[k] \in P
  <2> HIDE DEF P
  <2>1. u \in Seq(P) /\ Len(u) = n + 1 /\ (\A k \in 1 .. n : u[k] = w[k]) /\ u[n + 1] = at
    BY <1>1, AppendProperties
  <2>2. n \in Nat /\ DOMAIN w = 1 .. n /\ DOMAIN u = 1 .. n + 1 /\ \A k \in DOMAIN w : w[k] \in P
    BY <1>1, <2>1, LenProperties, ElementOfSeq
  <2>3. u # <<>>
    BY <1>1, AppendProperties
  <2>4. QED
    BY <2>1, <2>2, <2>3
<1>3. /\ \A k \in DOMAIN w : w[k].to \in Nat /\ w[k].from \in Nat
      /\ at.to \in Nat /\ at.from \in Nat
  BY <1>1, <1>2 DEF Piece
<1>4. \A k \in DOMAIN w : w[k].to <= at.from
  <2> SUFFICES ASSUME NEW k \in DOMAIN w PROVE w[k].to <= at.from
    OBVIOUS
  <2>1. w # <<>>
    BY <1>2
  <2>2. w[k].to <= EndOf(w) /\ EndOf(w) \in Nat /\ EndOf(w) <= at.from
    BY <2>1, StackedEnds
  <2>3. QED
    BY <1>3, <2>2
<1> HIDE DEF n, u, P
<1>5. \A k \in DOMAIN u : k \in DOMAIN w \/ k = n + 1
  BY <1>2
<1>6. \A k \in DOMAIN u : floor <= u[k].from /\ u[k].from < u[k].to
  BY <1>2, <1>5 DEF Stacked
<1>7. ASSUME NEW k \in DOMAIN u, NEW l \in DOMAIN u, k < l PROVE u[k].to <= u[l].from
  <2>1. k \in DOMAIN w
    BY <1>2, <1>7
  <2>2. CASE l \in DOMAIN w
    BY <1>2, <1>7, <2>1, <2>2 DEF Stacked
  <2>3. CASE l = n + 1
    BY <1>2, <1>4, <2>1, <2>3
  <2>4. QED
    BY <1>5, <2>2, <2>3
<1>8. EndOf(u) = at.to
  BY <1>2 DEF EndOf
<1>9. DOMAIN u = DOMAIN w \cup {n + 1}
  BY <1>2
<1>10. QED
  BY <1>2, <1>6, <1>7, <1>8, <1>9 DEF Stacked, P, n, u

\* The coder of some flags is the one of theirs that comes first.
LEMMA CoderWins ==
  ASSUME NEW flags \in SUBSET Flags
  PROVE  LET c == RegisteredCompression(flags)
         IN  /\ flags \cap StorageFlags = {} => c = "NONE"
             /\ flags \cap StorageFlags # {} =>
                  c \in flags \cap StorageFlags /\ \A d \in flags \cap StorageFlags : Rank[c] <= Rank[d]
<1> DEFINE F == flags \cap StorageFlags
<1>1. CASE F = {}
  BY <1>1 DEF RegisteredCompression
<1>2. CASE F # {}
  <2>1. \E c \in F : \A d \in F : Rank[c] <= Rank[d]
    <3>1. \A c \in F : Rank[c] \in 0 .. 5
      BY RankOf
    <3> DEFINE ranks == {Rank[c] : c \in F}
    <3>2. ranks \subseteq Nat /\ ranks # {}
      BY <1>2, <3>1
    <3>3. PICK m \in ranks : \A y \in ranks : m <= y
      BY <3>2, LeastNatural
    <3>4. QED
      BY <3>3
  <2>2. RegisteredCompression(flags) = CHOOSE c \in F : \A d \in F : Rank[c] <= Rank[d]
    BY <1>2 DEF RegisteredCompression
  <2> HIDE DEF F
  <2>3. QED
    BY <1>2, <2>1, <2>2 DEF F
<1>3. QED
  BY <1>1, <1>2

\* Which coders a coder wins against.
LEMMA WinnerFlags ==
  ASSUME NEW flags \in SUBSET Flags, NEW c, c = RegisteredCompression(flags), c # "NONE"
  PROVE  /\ c \in flags /\ c \in {"ZERO", "BZIP", "COPY", "ZLIB", "LZMA", "DZ"}
         /\ "ZERO" \in flags => c = "ZERO"
         /\ "BZIP" \in flags => c \in {"ZERO", "BZIP"}
<1>1. flags \cap StorageFlags # {}
  BY CoderWins
<1>2. c \in flags /\ c \in StorageFlags /\ \A d \in flags \cap StorageFlags : Rank[c] <= Rank[d]
  BY <1>1, CoderWins
<1>3. "ZERO" \in flags => Rank[c] <= 0
  BY <1>2 DEF StorageFlags, Rank
<1>4. "BZIP" \in flags => Rank[c] <= 1
  BY <1>2 DEF StorageFlags, Rank
<1>5. QED
  BY <1>2, <1>3, <1>4 DEF StorageFlags, Rank

\* What WriteChunk records of a chunk is truthful.
LEMMA TruthfulRecord ==
  ASSUME Requested, Valid, Sound, NEW i \in Segments, loaded[i] \in Nat, loaded[i] <= MaxU32,
         NEW p, NEW c, c = [offset |-> p, compressed_length |-> StoredLength(i),
                            decompressed_length |-> loaded[i], flags |-> job.segments[i].flags,
                            file |-> job.segments[i].volume, need |-> EncodedLength(i), work |-> 0]
  PROVE  Truthful(c)
<1> DEFINE n == loaded[i]
           flags == job.segments[i].flags
           coder == RegisteredCompression(flags)
           e == job.segments[i].encoded
<1>1. flags \in SUBSET Flags /\ e \in Nat \ {0} /\ e <= MaxU32 /\ coder # "NONE"
      /\ MaxU32 \in Nat
  BY SegmentParts, MaxU32Assumption DEF Segment, Sound, Valid, CompressionOf
<1>2. /\ coder \in flags /\ coder \in {"ZERO", "BZIP", "COPY", "ZLIB", "LZMA", "DZ"}
      /\ "ZERO" \in flags => coder = "ZERO"
      /\ "BZIP" \in flags => coder \in {"ZERO", "BZIP"}
  BY <1>1, WinnerFlags
<1>3. /\ c.flags = flags /\ c.decompressed_length = n
      /\ c.compressed_length = StoredLength(i) /\ c.need = EncodedLength(i)
  OBVIOUS
<1>4. CompressionOf(i) = coder
  BY DEF CompressionOf
<1>5. n \in Nat /\ n <= MaxU32
  OBVIOUS
<1> HIDE DEF flags, coder
<1>6. CASE coder = "ZERO"
  <2>1. c.need = 0 /\ "ZERO" \in c.flags
    BY <1>2, <1>3, <1>4, <1>6 DEF EncodedLength
  <2>2. c.compressed_length = c.need
    BY <1>3, <1>4, <1>6 DEF StoredLength
  <2>3. QED
    BY <1>1, <1>3, <1>6, <2>1, <2>2 DEF Truthful, IsPhysicalBoundary, coder
<1>7. CASE coder = "COPY"
  <2>1. c.need = n
    BY <1>3, <1>4, <1>7 DEF EncodedLength
  <2>2. c.compressed_length = c.need
    BY <1>3, <1>4, <1>7 DEF StoredLength
  <2>3. "ZERO" \notin c.flags /\ "BZIP" \notin c.flags
    BY <1>2, <1>3, <1>7
  <2>4. QED
    BY <1>3, <1>5, <2>1, <2>2, <2>3 DEF Truthful, IsPhysicalBoundary
<1>8. CASE coder = "DZ"
  <2>1. c.need = e
    BY <1>3, <1>4, <1>8 DEF EncodedLength
  <2>2. c.compressed_length = c.need
    BY <1>3, <1>4, <1>8 DEF StoredLength
  <2>3. "ZERO" \notin c.flags /\ "BZIP" \notin c.flags /\ RegisteredCompression(c.flags) # "COPY"
    BY <1>2, <1>3, <1>8 DEF coder
  <2>4. QED
    BY <1>1, <2>1, <2>2, <2>3 DEF Truthful, IsPhysicalBoundary
<1>9. CASE coder = "BZIP"
  <2>1. c.need = e
    BY <1>3, <1>4, <1>9 DEF EncodedLength
  <2>2. c.compressed_length = n
    BY <1>3, <1>4, <1>9 DEF StoredLength
  <2>3. "ZERO" \notin c.flags /\ "BZIP" \in c.flags /\ RegisteredCompression(c.flags) # "COPY"
    BY <1>2, <1>3, <1>9 DEF coder
  <2>4. HasPlaceholderLength(c)
    BY <1>3, <2>2, <2>3 DEF HasPlaceholderLength
  <2>5. QED
    BY <1>1, <2>1, <2>3, <2>4 DEF Truthful, IsPhysicalBoundary
<1>10. CASE coder \in {"ZLIB", "LZMA"}
  <2>1. HasPlaceholderLength(c)
    BY <1>2, <1>3, <1>4, <1>10 DEF StoredLength, HasPlaceholderLength
  <2>2. c.compressed_length = n
    BY <1>3, <1>4, <1>10 DEF StoredLength
  <2>3. "ZERO" \notin c.flags /\ "BZIP" \notin c.flags
    BY <1>2, <1>3, <1>10
  <2>4. c.need = IF n = 0 THEN 0 ELSE e
    BY <1>3, <1>4, <1>10 DEF EncodedLength
  <2>5. RegisteredCompression(c.flags) # "COPY"
    BY <1>3, <1>10 DEF coder
  <2>6. QED
    BY <1>1, <2>1, <2>2, <2>3, <2>4, <2>5 DEF Truthful, IsPhysicalBoundary
<1>11. QED
  BY <1>2, <1>6, <1>7, <1>8, <1>9, <1>10

\* A record that may run up to where its bytes end has just these.
LEMMA SpanToEnd ==
  ASSUME NEW c \in Chunk, Truthful(c)
  PROVE  SpanUpTo(c, c.offset + c.need) = c.need
<1>1. c.offset \in Nat /\ c.need \in Nat /\ c.need <= MaxU32 /\ c.compressed_length \in Nat
      /\ MaxU32 \in Nat /\ (HasPlaceholderLength(c) \/ c.compressed_length = c.need)
  BY MaxU32Assumption DEF Chunk, Truthful
<1> DEFINE end == c.offset + c.need
           room == IF end > c.offset THEN end - c.offset ELSE 0
           available == IF room > MaxU32 THEN MaxU32 ELSE room
<1>2. room = c.need
  BY <1>1
<1>3. available = c.need
  BY <1>1, <1>2
<1>4. SpanUpTo(c, end) = IF HasPlaceholderLength(c) \/ available < c.compressed_length
                         THEN available ELSE c.compressed_length
  BY DEF SpanUpTo
<1> HIDE DEF available, end
<1>5. SpanUpTo(c, end) = c.need
  BY <1>1, <1>3, <1>4
<1>6. QED
  BY <1>5 DEF end

\* Two records point at two pieces.
LEMMA PiecesApart ==
  ASSUME Requested, Len(chunks) \in {Count, ChunkCount}, chunks \in Seq(Chunk),
         NEW i \in DOMAIN chunks, NEW j \in DOMAIN chunks, i # j
  PROVE  PieceOf(i) # PieceOf(j)
<1> DEFINE C == Chunk
           m == Len(chunks)
<1>1. m \in Nat /\ DOMAIN chunks = 1 .. m
  <2>1. chunks \in Seq(C)
    OBVIOUS
  <2> HIDE DEF C
  <2>2. QED
    BY <2>1, LenProperties
<1> HIDE DEF m
<1>2. Count \in Nat /\ m \in {Count, Count + 1}
  BY SegmentParts, PlanSizes DEF m
<1>3. PieceOf(i).kind = (IF i <= Count THEN "payload" ELSE "common")
      /\ PieceOf(j).kind = (IF j <= Count THEN "payload" ELSE "common")
      /\ PieceOf(i).index = (IF i <= Count THEN i ELSE 0)
      /\ PieceOf(j).index = (IF j <= Count THEN j ELSE 0)
  BY DEF PieceOf
<1>4. CASE i <= Count /\ j <= Count
  BY <1>3, <1>4
<1>5. CASE (i <= Count /\ ~(j <= Count)) \/ (~(i <= Count) /\ j <= Count)
  BY <1>3, <1>5
<1>6. CASE ~(i <= Count) /\ ~(j <= Count)
  <2>1. i = Count + 1 /\ j = Count + 1
    BY <1>1, <1>2, <1>6
  <2>2. QED
    BY <2>1
<1>7. QED
  BY <1>4, <1>5, <1>6

\* Where a volume's pieces are stacked, every record resolves to the bytes its decoder needs.
LEMMA SpanIsNeed ==
  ASSUME Requested, Len(chunks) \in {Count, ChunkCount}, chunks \in Seq(Chunk), NEW body,
         \A v \in VolumeIds : body[v] \in Seq(Piece) /\ Stacked(body[v], Floor(v)),
         Recorded(DOMAIN chunks, body), NEW i \in DOMAIN chunks, NEW sizes,
         \A v \in VolumeIds : body[v] # <<>> => sizes[v] = EndOf(body[v])
  PROVE  ResolveChunkLayout(chunks, sizes)[i] = chunks[i].need
<1> DEFINE C == Chunk
           v == chunks[i].file
           w == body[v]
           F == Followers(chunks, i)
           end == chunks[i].offset + chunks[i].need
<1>1. \A j \in DOMAIN chunks : chunks[j] \in C
  <2>1. chunks \in Seq(C)
    OBVIOUS
  <2> HIDE DEF C
  <2>2. QED
    BY <2>1, ElementOfSeq
<1>2. \A j \in DOMAIN chunks :
        /\ chunks[j].file \in VolumeIds /\ Truthful(chunks[j])
        /\ Kept(j, body[chunks[j].file], DOMAIN chunks)
  BY DEF Recorded
<1>3. \A j \in DOMAIN chunks : chunks[j].offset \in Nat /\ chunks[j].need \in Nat
  BY <1>1 DEF Chunk
<1>4. ResolveChunkLayout(chunks, sizes)[i] =
        IF ~IsPhysicalBoundary(chunks[i]) THEN 0
        ELSE IF F # {} THEN SpanUpTo(chunks[i], NextOffset(chunks, i))
        ELSE IF sizes[v] # NoLength THEN SpanUpTo(chunks[i], sizes[v])
        ELSE chunks[i].compressed_length
  BY DEF ResolveChunkLayout
<1>5. IsPhysicalBoundary(chunks[i]) <=> chunks[i].need # 0
  BY <1>2 DEF Truthful
<1>6. CASE chunks[i].need = 0
  BY <1>4, <1>5, <1>6
<1>7. CASE chunks[i].need # 0
  <2>1. w \in Seq(Piece) /\ Stacked(w, Floor(v)) /\ v \in VolumeIds /\ Floor(v) \in Nat
    BY <1>2, PlanSizes DEF Floor
  <2>2. PICK k \in DOMAIN w : w[k] = PieceOf(i)
    BY <1>2, <1>7 DEF Kept
  <2>3. w[k].from = chunks[i].offset /\ w[k].to = end
    BY <2>2 DEF PieceOf
  <2>4. ASSUME NEW j \in DOMAIN chunks, chunks[j].file = v, chunks[j].need # 0, i # j,
               chunks[i].offset <= chunks[j].offset
        PROVE  /\ end <= chunks[j].offset
               /\ \E l \in DOMAIN w : w[l].to = chunks[j].offset + chunks[j].need
    <3>1. PICK l \in DOMAIN w : w[l] = PieceOf(j)
      BY <1>2, <2>4 DEF Kept
    <3>2. w[l].from = chunks[j].offset /\ w[l].to = chunks[j].offset + chunks[j].need
      BY <3>1 DEF PieceOf
    <3>3. k # l
      BY <2>2, <2>4, <3>1, PiecesApart
    <3>4. k < l \/ l < k
      <4> DEFINE P == Piece
      <4>1. w \in Seq(P)
        BY <2>1
      <4> HIDE DEF P, w
      <4>2. k \in Nat /\ l \in Nat
        BY <4>1, LenProperties
      <4>3. QED
        BY <3>3, <4>2
    <3>5. w[k].to <= w[l].from \/ w[l].to <= w[k].from
      BY <2>1, <3>4 DEF Stacked
    <3>6. end <= chunks[j].offset \/ chunks[j].offset + chunks[j].need <= chunks[i].offset
      BY <2>3, <3>2, <3>5
    <3>7. end \in Nat
      BY <1>3
    <3>8. end <= chunks[j].offset
      BY <1>3, <2>4, <3>6, <3>7
    <3>9. QED
      BY <3>2, <3>8
  <2>5. \A j \in F : /\ j \in DOMAIN chunks /\ chunks[j].file = v /\ chunks[j].need # 0 /\ i # j
                     /\ chunks[i].offset <= chunks[j].offset
    <3> SUFFICES ASSUME NEW j \in F
                 PROVE  /\ j \in DOMAIN chunks /\ chunks[j].file = v /\ chunks[j].need # 0 /\ i # j
                        /\ chunks[i].offset <= chunks[j].offset
      OBVIOUS
    <3>1. j \in DOMAIN chunks /\ chunks[j].file = v /\ IsPhysicalBoundary(chunks[j])
          /\ (chunks[i].offset < chunks[j].offset \/ (chunks[i].offset = chunks[j].offset /\ i < j))
      BY DEF Followers
    <3>2. chunks[j].need # 0
      BY <1>2, <3>1 DEF Truthful
    <3>3. i \in Nat
      <4>1. chunks \in Seq(C)
        OBVIOUS
      <4> HIDE DEF C
      <4>2. QED
        BY <4>1, LenProperties
    <3>4. QED
      BY <1>3, <3>1, <3>2, <3>3
  <2>6. SpanUpTo(chunks[i], end) = chunks[i].need
    BY <1>1, <1>2, SpanToEnd
  <2>7. CASE end = EndOf(w)
    <3>1. F = {}
      <4> SUFFICES ASSUME NEW j \in F PROVE FALSE
        OBVIOUS
      <4>1. end <= chunks[j].offset
            /\ \E l \in DOMAIN w : w[l].to = chunks[j].offset + chunks[j].need
        BY <2>4, <2>5
      <4>2. w # <<>>
        BY <2>2
      <4>3. chunks[j].offset + chunks[j].need <= end
        BY <2>1, <2>7, <4>1, <4>2, StackedEnds
      <4>4. chunks[j].need # 0 /\ j \in DOMAIN chunks
        BY <2>5
      <4>5. end \in Nat
        BY <1>3
      <4> HIDE DEF end
      <4>6. QED
        BY <1>3, <4>1, <4>3, <4>4, <4>5
    <3>2. w # <<>>
      BY <2>2
    <3>3. sizes[v] = end
      BY <2>1, <2>7, <3>2
    <3>4. end # NoLength
      <4>1. end \in Nat
        BY <1>3
      <4>2. QED
        BY <4>1 DEF NoLength
    <3>5. QED
      BY <1>4, <1>5, <1>7, <2>6, <3>1, <3>3, <3>4
  <2>8. CASE \E j \in DOMAIN chunks : chunks[j].need # 0 /\ chunks[j].file = v /\ chunks[j].offset = end
    <3>1. PICK j \in DOMAIN chunks : chunks[j].need # 0 /\ chunks[j].file = v /\ chunks[j].offset = end
      BY <2>8
    <3>2. chunks[i].offset < chunks[j].offset
      BY <1>3, <1>7, <3>1
    <3>3. j \in F
      <4>1. IsPhysicalBoundary(chunks[j])
        BY <1>2, <3>1 DEF Truthful
      <4>2. QED
        BY <3>1, <3>2, <4>1 DEF Followers
    <3> DEFINE S == {chunks[l].offset : l \in F}
    <3>4. end \in S
      BY <3>1, <3>3
    <3>5. \A n \in S : end <= n /\ n \in Nat
      BY <1>3, <2>4, <2>5
    <3>6. Min(S) = end
      <4> HIDE DEF S, end, F
      <4>1. \A n \in S : n <= end => n = end
        BY <3>4, <3>5
      <4>2. \E n \in S : \A y \in S : n <= y
        BY <3>4, <3>5
      <4>3. Min(S) \in S /\ \A y \in S : Min(S) <= y
        BY <4>2 DEF Min
      <4>4. QED
        BY <3>4, <4>1, <4>3
    <3>7. NextOffset(chunks, i) = end
      BY <3>6 DEF NextOffset
    <3>8. F # {}
      BY <3>3
    <3>9. QED
      BY <1>4, <1>5, <1>7, <2>6, <3>7, <3>8
  <2>9. QED
    <3>1. PieceOf(i).to = end
      BY DEF PieceOf
    <3>2. QED
      BY <1>2, <1>7, <2>7, <2>8, <3>1 DEF Kept
<1>8. QED
  BY <1>6, <1>7

-----------------------------------------------------------------------------
(* What the reader finds *)

\* What a record says its chunk decodes to.
PlainLength(a, i) == a.chunks[i].decompressed_length

\* An entry's decoded size is a sum over a function.
LEMMA DecodedSizeIs ==
  ASSUME NEW a, NEW ids, NEW f, IsFiniteSet(DOMAIN ids),
         \A k \in DOMAIN ids : f[k] = PlainLength(a, ids[k]) /\ f[k] \in Nat
  PROVE  DecodedSize(a, ids) = SumOver(f, DOMAIN ids)
<1> DEFINE S == DOMAIN ids
           Solves(h) ==
             h = [s \in SUBSET S |->
                    IF s = {} THEN 0
                    ELSE PlainLength(a, ids[CHOOSE x \in s : TRUE]) + h[s \ {CHOOSE x \in s : TRUE}]]
<1>1. DecodedSize(a, ids) = (CHOOSE h : Solves(h))[S]
  BY DEF DecodedSize, MapThenSumSet, MapThenFoldSet, PlainLength
<1>2. PICK k \in [SUBSET S -> Nat] : Sums(f, k, SUBSET S)
  BY SumsExist
<1>3. \A s \in SUBSET S : s # {} => f[CHOOSE x \in s : TRUE]
                                      = PlainLength(a, ids[CHOOSE x \in s : TRUE])
  OBVIOUS
<1>4. Solves(k)
  BY <1>2, <1>3 DEF Sums, Pick
<1>5. Solves(CHOOSE h : Solves(h))
  <2> HIDE DEF Solves
  <2>1. QED
    BY <1>4
<1> DEFINE h == CHOOSE h : Solves(h)
<1>6. Sums(f, h, SUBSET S)
  <2>1. Solves(h)
    BY <1>5
  <2> HIDE DEF h
  <2>2. QED
    BY <1>3, <2>1 DEF Sums, Pick
<1> HIDE DEF h
<1>7. SumOver(f, S) = h[S]
  BY <1>6, SumIsSolution
<1>8. QED
  BY <1>1, <1>7 DEF h

\* The decoded size of all entries.
TotalSize(a) == MapThenSumSet(LAMBDA e : DecodedSize(a, a.entries[e]), DOMAIN a.entries)

\* So is that.
LEMMA TotalSizeIs ==
  ASSUME NEW a, NEW f, IsFiniteSet(DOMAIN a.entries),
         \A e \in DOMAIN a.entries : f[e] = DecodedSize(a, a.entries[e]) /\ f[e] \in Nat
  PROVE  TotalSize(a) = SumOver(f, DOMAIN a.entries)
<1> DEFINE S == DOMAIN a.entries
           Solves(h) ==
             h = [s \in SUBSET S |->
                    IF s = {} THEN 0
                    ELSE DecodedSize(a, a.entries[CHOOSE x \in s : TRUE])
                           + h[s \ {CHOOSE x \in s : TRUE}]]
<1>1. TotalSize(a) = (CHOOSE h : Solves(h))[S]
  BY DEF TotalSize, MapThenSumSet, MapThenFoldSet
<1>2. PICK k \in [SUBSET S -> Nat] : Sums(f, k, SUBSET S)
  BY SumsExist
<1>3. \A s \in SUBSET S : s # {} => f[CHOOSE x \in s : TRUE]
                                      = DecodedSize(a, a.entries[CHOOSE x \in s : TRUE])
  OBVIOUS
<1>4. Solves(k)
  BY <1>2, <1>3 DEF Sums, Pick
<1>5. Solves(CHOOSE h : Solves(h))
  <2> HIDE DEF Solves
  <2>1. QED
    BY <1>4
<1> DEFINE h == CHOOSE h : Solves(h)
<1>6. Sums(f, h, SUBSET S)
  <2>1. Solves(h)
    BY <1>5
  <2> HIDE DEF h
  <2>2. QED
    BY <1>3, <2>1 DEF Sums, Pick
<1> HIDE DEF h
<1>7. SumOver(f, S) = h[S]
  BY <1>6, SumIsSolution
<1>8. QED
  BY <1>1, <1>7 DEF h

-----------------------------------------------------------------------------
(* A finished archive *)

HeaderPiece == [from |-> 0, to |-> HeaderSize, kind |-> "header", index |-> 0]

\* The volumes hold the pieces of `body`, and the main one the header over its place.
Complete(body) ==
  /\ Valid /\ Len(chunks) = ChunkCount
  /\ \A v \in VolumeIds : body[v] \in Seq(Piece) /\ Stacked(body[v], Floor(v))
  /\ \A v \in VolumeIds : content[VolumeFile(v)] = IF v = 0 THEN Append(body[0], HeaderPiece)
                                                           ELSE body[v]
  /\ Recorded(DOMAIN chunks, body)

Finished == \E body : Complete(body)

\* The sizes a reader finds.
Sizes == [v \in Volumes |-> IF v \in VolumeIds THEN FileLength(VolumeFile(v)) ELSE NoLength]

\* The pieces of a file are the ones of the body, and the header in front of them.
LEMMA PiecesOf ==
  ASSUME IInv, NEW body, Complete(body), NEW v \in VolumeIds
  PROVE  LET w == content[VolumeFile(v)]
         IN  /\ DOMAIN body[v] \subseteq DOMAIN w
             /\ \A k \in DOMAIN body[v] : w[k] = body[v][k]
             /\ \A k \in DOMAIN w \ DOMAIN body[v] :
                  v = 0 /\ w[k] = HeaderPiece /\ \A l \in DOMAIN body[v] : l < k
             /\ v = 0 => \E k \in DOMAIN w : w[k] = HeaderPiece
<1> DEFINE P == Piece
           w == content[VolumeFile(v)]
           b == body[v]
           n == Len(b)
<1>1. b \in Seq(P)
  BY DEF Complete
<1>2. HeaderPiece \in P
  <2>1. HeaderSize \in Nat
    BY PlanSizes DEF IInv, TypeOK, Requested
  <2>2. QED
    BY <2>1 DEF HeaderPiece, Piece, Kinds
<1>3. w = IF v = 0 THEN Append(b, HeaderPiece) ELSE b
  BY DEF Complete
<1>4. CASE v # 0
  BY <1>3, <1>4
<1>5. CASE v = 0
  <2>1. w = Append(b, HeaderPiece)
    BY <1>3, <1>5
  <2> DEFINE h == HeaderPiece
  <2> HIDE DEF P, b, w, h
  <2>2. /\ Len(w) = n + 1 /\ w \in Seq(P)
        /\ (\A k \in 1 .. n : w[k] = b[k]) /\ w[n + 1] = h
    BY <1>1, <1>2, <2>1, AppendProperties DEF h
  <2>3. n \in Nat /\ DOMAIN b = 1 .. n /\ DOMAIN w = 1 .. n + 1
    BY <1>1, <2>2, LenProperties
  <2> HIDE DEF n
  <2>4. /\ DOMAIN b \subseteq DOMAIN w
        /\ \A k \in DOMAIN b : w[k] = b[k]
        /\ \A k \in DOMAIN w \ DOMAIN b : w[k] = h /\ \A l \in DOMAIN b : l < k
        /\ \E k \in DOMAIN w : w[k] = h
    BY <2>2, <2>3
  <2>5. QED
    BY <1>5, <2>4 DEF b, w, h
<1>6. QED
  BY <1>4, <1>5

\* A volume with payloads ends with its last piece.
LEMMA VolumeEnds ==
  ASSUME IInv, NEW body, Complete(body), NEW v \in VolumeIds, body[v] # <<>>
  PROVE  FileLength(VolumeFile(v)) = EndOf(body[v])
<1> DEFINE f == VolumeFile(v)
           w == content[f]
           b == body[v]
           e == EndOf(b)
<1>1. f \in Files /\ Requested /\ ContentTyped
  BY VolumeParts DEF IInv, TypeOK, Requested
<1>2. /\ FileLength(f) \in Nat
      /\ \A k \in DOMAIN w : w[k].to <= FileLength(f)
      /\ FileLength(f) = 0 \/ \E k \in DOMAIN w : w[k].to = FileLength(f)
  BY <1>1, FileLengthIs
<1>3. b \in Seq(Piece) /\ Stacked(b, Floor(v)) /\ Floor(v) \in Nat
  BY <1>1, PlanSizes DEF Complete, Floor
<1>4. Len(b) \in DOMAIN b /\ e \in Nat /\ Floor(v) < e /\ \A k \in DOMAIN b : b[k].to <= e
  BY <1>3, StackedEnds
<1>5. /\ DOMAIN b \subseteq DOMAIN w /\ \A k \in DOMAIN b : w[k] = b[k]
      /\ \A k \in DOMAIN w \ DOMAIN b : v = 0 /\ w[k] = HeaderPiece
  BY PiecesOf
<1>6. w[Len(b)].to = e /\ Len(b) \in DOMAIN w
  BY <1>4, <1>5 DEF EndOf
<1>7. e <= FileLength(f)
  BY <1>2, <1>6
<1>8. ASSUME NEW k \in DOMAIN w PROVE w[k].to <= e
  <2>1. CASE k \in DOMAIN b
    BY <1>4, <1>5, <2>1
  <2>2. CASE k \notin DOMAIN b
    <3>1. v = 0 /\ w[k].to = HeaderSize
      BY <1>5, <2>2 DEF HeaderPiece
    <3>2. Floor(v) = HeaderSize
      BY <3>1 DEF Floor
    <3>3. QED
      BY <1>3, <1>4, <3>1, <3>2
  <2>3. QED
    BY <2>1, <2>2
<1> HIDE DEF e, w, b
<1>9. FileLength(f) <= e
  BY <1>2, <1>3, <1>4, <1>8
<1>10. FileLength(f) = e
  BY <1>2, <1>4, <1>7, <1>9
<1>11. QED
  BY <1>10 DEF e, b

\* What a record points at is there, and nothing covers it.
LEMMA PayloadsIntact ==
  ASSUME IInv, NEW body, Complete(body), NEW i \in DOMAIN chunks
  PROVE  Intact(i)
<1> SUFFICES ASSUME chunks[i].need # 0 PROVE Intact(i)
  BY DEF Intact
<1> DEFINE v == chunks[i].file
           w == content[VolumeFile(v)]
           b == body[v]
<1>1. v \in VolumeIds /\ Kept(i, b, DOMAIN chunks)
  BY DEF Complete, Recorded
<1>2. PICK k \in DOMAIN b : b[k] = PieceOf(i)
  BY <1>1 DEF Kept
<1>3. b \in Seq(Piece) /\ Stacked(b, Floor(v)) /\ Requested
  BY <1>1 DEF Complete, IInv, TypeOK, Requested
<1>4. /\ DOMAIN b \subseteq DOMAIN w /\ \A l \in DOMAIN b : w[l] = b[l]
      /\ \A l \in DOMAIN w \ DOMAIN b : v = 0 /\ w[l] = HeaderPiece
  BY <1>1, PiecesOf
<1>5. DOMAIN b \subseteq Nat /\ DOMAIN w = 1 .. Len(w)
  <2> DEFINE P == Piece
  <2>1. b \in Seq(P)
    BY <1>3
  <2>2. w \in Seq(P)
    BY <1>1, <1>3, VolumeParts DEF IInv, ContentTyped
  <2> HIDE DEF P, w, b
  <2>3. QED
    BY <2>1, <2>2, LenProperties
<1>6. ASSUME NEW l \in k + 1 .. Len(w) PROVE w[l].to <= w[k].from \/ w[k].to <= w[l].from
  <2>1. k \in Nat /\ l \in DOMAIN w /\ k < l
    BY <1>5, <1>6
  <2>2. CASE l \in DOMAIN b
    BY <1>3, <1>4, <2>1, <2>2 DEF Stacked
  <2>3. CASE l \notin DOMAIN b
    <3>1. v = 0 /\ w[l].to = HeaderSize
      BY <1>4, <2>1, <2>3 DEF HeaderPiece
    <3>2. Floor(v) <= b[k].from
      BY <1>3 DEF Stacked
    <3>3. QED
      BY <1>4, <3>1, <3>2 DEF Floor
  <2>4. QED
    BY <2>2, <2>3
<1>7. /\ w[k].from = chunks[i].offset /\ w[k].to = chunks[i].offset + chunks[i].need
      /\ IF i <= Count THEN w[k].kind = "payload" /\ w[k].index = i ELSE w[k].kind = "common"
  BY <1>2, <1>4 DEF PieceOf
<1>8. k \in DOMAIN w
  BY <1>4
<1>9. QED
  BY <1>6, <1>7, <1>8 DEF Intact

\* The reader resolves each record to the bytes its decoder needs.
LEMMA SpansExact ==
  ASSUME IInv, NEW body, Complete(body), NEW i \in DOMAIN chunks
  PROVE  ResolveChunkLayout(chunks, Sizes)[i] = chunks[i].need
<1>1. Requested /\ chunks \in Seq(Chunk) /\ Len(chunks) \in {Count, ChunkCount}
  BY DEF IInv, TypeOK, Requested, HeaderLast
<1>2. \A v \in VolumeIds : v \in Volumes
  <2> SUFFICES ASSUME NEW v \in VolumeIds PROVE v \in Volumes
    OBVIOUS
  <2>1. Len(job.names) <= MaxVolume + 1 /\ MaxVolume \in Nat
    BY <1>1, BuilderAssumption, MaxVolumeAssumption DEF Requested
  <2>2. Len(job.names) \in Nat
    BY <1>1, VolumeParts
  <2>3. QED
    BY <2>1, <2>2 DEF VolumeIds, Volumes
<1>3. \A v \in VolumeIds : body[v] # <<>> => Sizes[v] = EndOf(body[v])
  BY <1>2, VolumeEnds DEF Sizes
<1>4. /\ \A v \in VolumeIds : body[v] \in Seq(Piece) /\ Stacked(body[v], Floor(v))
      /\ Recorded(DOMAIN chunks, body)
  BY DEF Complete
<1> DEFINE sizes == Sizes
<1>5. \A v \in VolumeIds : body[v] # <<>> => sizes[v] = EndOf(body[v])
  BY <1>3
<1> HIDE DEF sizes
<1>6. ResolveChunkLayout(chunks, sizes)[i] = chunks[i].need
  BY <1>1, <1>4, <1>5, SpanIsNeed
<1>7. QED
  BY <1>6 DEF sizes

\* The table's records, one by one.
LEMMA RecordParts ==
  ASSUME IInv, NEW body, Complete(body), NEW i \in DOMAIN chunks
  PROVE  /\ chunks[i] \in Chunk /\ Truthful(chunks[i]) /\ Describes(i)
         /\ chunks[i].file \in VolumeIds
         /\ chunks[i].compressed_length <= MaxU32 /\ chunks[i].decompressed_length <= MaxU32
         /\ i <= Count => i \in Segments
<1> DEFINE C == Chunk
<1>1. chunks \in Seq(C)
  BY DEF IInv, TypeOK
<1>2. chunks[i] \in C /\ i \in Nat /\ i >= 1
  <2> HIDE DEF C
  <2>1. chunks[i] \in C
    BY <1>1, ElementOfSeq
  <2>2. i \in 1 .. Len(chunks) /\ Len(chunks) \in Nat
    BY <1>1, LenProperties
  <2>3. QED
    BY <2>1, <2>2
<1>3. Truthful(chunks[i]) /\ Describes(i) /\ chunks[i].file \in VolumeIds
  BY DEF Complete, Recorded
<1>4. Segments = 1 .. Count /\ Count \in Nat
  BY SegmentParts DEF IInv, TypeOK, Requested
<1>5. i <= Count => i \in Segments
  BY <1>2, <1>4
<1>6. QED
  BY <1>2, <1>3, <1>5 DEF IInv, TypeOK

\* Only the common buffer's record is one.
LEMMA CombufIsLast ==
  ASSUME IInv, NEW body, Complete(body), NEW i \in DOMAIN chunks
  PROVE  /\ i <= Count => RegisteredCompression(chunks[i].flags) = CompressionOf(i)
                          /\ CompressionOf(i) # "NONE" /\ ~IsDedicatedCombuf(chunks[i].flags)
         /\ ~(i <= Count) => IsDedicatedCombuf(chunks[i].flags) /\ chunks[i].need = job.common
<1>1. Describes(i) /\ chunks[i] \in Chunk /\ (i <= Count => i \in Segments)
  BY RecordParts
<1>2. CASE i <= Count
  <2>1. chunks[i].flags = job.segments[i].flags /\ i \in Segments
    BY <1>1, <1>2 DEF Describes
  <2>2. RegisteredCompression(chunks[i].flags) = CompressionOf(i) /\ CompressionOf(i) # "NONE"
    BY <2>1 DEF CompressionOf, Complete, Valid
  <2>3. chunks[i].flags \in SUBSET Flags
    BY <1>1 DEF Chunk
  <2>4. chunks[i].flags \cap StorageFlags # {}
    BY <2>2, <2>3, CoderWins
  <2>5. QED
    BY <1>2, <2>2, <2>4 DEF IsDedicatedCombuf
<1>3. CASE ~(i <= Count)
  <2>1. chunks[i].flags = {"COMBUF"} /\ chunks[i].need = job.common
    BY <1>1, <1>3 DEF Describes
  <2>2. QED
    BY <1>3, <2>1 DEF IsDedicatedCombuf, StorageFlags
<1>4. QED
  BY <1>2, <1>3

\* Each chunk decodes to its bytes from the span the reader finds.
LEMMA ChunksDecode ==
  ASSUME IInv, NEW body, Complete(body), NEW i \in DOMAIN chunks, NEW s, s = chunks[i].need
  PROVE  IF IsDedicatedCombuf(chunks[i].flags) THEN s = job.common
         ELSE DecodeOutcomes(Packed, i, PayloadReadLength(chunks[i], s)) = {"exact"}
<1> DEFINE n == PayloadReadLength(chunks[i], s)
<1>1. CASE IsDedicatedCombuf(chunks[i].flags)
  BY <1>1, CombufIsLast
<1>2. CASE ~IsDedicatedCombuf(chunks[i].flags)
  <2>1. Packed.chunks = chunks
    BY DEF Packed
  <2>2. Compression(Packed, i) = RegisteredCompression(chunks[i].flags)
    BY <2>1 DEF Compression
  <2>3. RegisteredCompression(chunks[i].flags) = "COPY" \/ n = Packed.chunks[i].need
    BY <2>1 DEF PayloadReadLength
  <2> HIDE DEF n
  <2>4. DecodeOutcomes(Packed, i, n) = {"exact"}
    BY <2>2, <2>3 DEF DecodeOutcomes
  <2>5. QED
    BY <1>2, <2>4 DEF n
<1>3. QED
  BY <1>1, <1>2

\* A resolved span fits 32 bits.
LEMMA SpanFits ==
  ASSUME chunks \in Seq(Chunk), NEW i \in DOMAIN chunks, chunks[i].compressed_length <= MaxU32,
         NEW sizes, sizes[chunks[i].file] \in Int
  PROVE  ResolveChunkLayout(chunks, sizes)[i] <= MaxU32
<1> DEFINE C == Chunk
           F == Followers(chunks, i)
           c == chunks[i]
<1>1. MaxU32 \in Nat /\ \A j \in DOMAIN chunks : chunks[j] \in C
  <2>1. chunks \in Seq(C) /\ MaxU32 \in Nat
    BY MaxU32Assumption
  <2> HIDE DEF C
  <2>2. QED
    BY <2>1, ElementOfSeq
<1>2. \A j \in DOMAIN chunks : chunks[j].offset \in Nat /\ chunks[j].compressed_length \in Nat
  BY <1>1 DEF Chunk
<1>3. ASSUME NEW end \in Int PROVE SpanUpTo(c, end) <= MaxU32
  <2> DEFINE room == IF end > c.offset THEN end - c.offset ELSE 0
             available == IF room > MaxU32 THEN MaxU32 ELSE room
  <2>1. room \in Nat
    BY <1>2
  <2>2. available \in Nat /\ available <= MaxU32
    BY <1>1, <2>1
  <2>3. SpanUpTo(c, end) = IF HasPlaceholderLength(c) \/ available < c.compressed_length
                           THEN available ELSE c.compressed_length
    BY DEF SpanUpTo
  <2> HIDE DEF available
  <2>4. QED
    BY <1>1, <1>2, <2>2, <2>3
<1>4. F # {} => NextOffset(chunks, i) \in Nat
  <2> DEFINE S == {chunks[j].offset : j \in F}
  <2> SUFFICES ASSUME F # {} PROVE NextOffset(chunks, i) \in Nat
    OBVIOUS
  <2>1. F \subseteq DOMAIN chunks
    BY DEF Followers
  <2>2. S \subseteq Nat /\ S # {}
    BY <1>2, <2>1
  <2> HIDE DEF S
  <2>3. \E n \in S : \A y \in S : n <= y
    BY <2>2, LeastNatural
  <2>4. Min(S) \in S
    BY <2>3 DEF Min
  <2>5. QED
    BY <2>2, <2>4 DEF NextOffset, S
<1>5. ResolveChunkLayout(chunks, sizes)[i] =
        IF ~IsPhysicalBoundary(c) THEN 0
        ELSE IF F # {} THEN SpanUpTo(c, NextOffset(chunks, i))
        ELSE IF sizes[c.file] # NoLength THEN SpanUpTo(c, sizes[c.file])
        ELSE c.compressed_length
  BY DEF ResolveChunkLayout
<1> HIDE DEF F, c
<1>6. SpanUpTo(c, sizes[c.file]) <= MaxU32
  BY <1>3 DEF c
<1>7. F # {} => SpanUpTo(c, NextOffset(chunks, i)) <= MaxU32
  BY <1>3, <1>4
<1>8. c.compressed_length <= MaxU32
  BY DEF c
<1>9. QED
  BY <1>1, <1>5, <1>6, <1>7, <1>8

\* Every segment has a record.
LEMMA ChunkDomain ==
  ASSUME IInv, NEW i \in Segments
  PROVE  i \in DOMAIN chunks
<1> DEFINE C == Chunk
           m == Len(chunks)
<1>1. chunks \in Seq(C) /\ m \in {Count, ChunkCount} /\ Requested
  BY DEF IInv, TypeOK, Requested, HeaderLast
<1>2. m \in Nat /\ DOMAIN chunks = 1 .. m
  <2> HIDE DEF C
  <2>1. QED
    BY <1>1, LenProperties
<1>3. Segments = 1 .. Count /\ Count \in Nat /\ ChunkCount \in {Count, Count + 1}
  BY <1>1, SegmentParts, PlanSizes
<1> HIDE DEF m
<1>4. QED
  BY <1>1, <1>2, <1>3

\* What an entry's list names.
LEMMA EntryLists ==
  ASSUME Requested, NEW e \in DOMAIN LogicalFiles
  PROVE  /\ Len(LogicalFiles[e]) \in Nat /\ DOMAIN LogicalFiles[e] = 1 .. Len(LogicalFiles[e])
         /\ Len(LogicalFiles[e]) <= Count
         /\ \A k \in DOMAIN LogicalFiles[e] : LogicalFiles[e][k] \in Segments
<1>1. /\ Class(e) \subseteq Segments /\ LogicalFiles[e] = InOrder(Class(e))
  BY Grouped
<1>2. /\ Cardinality(Class(e)) \in Nat
      /\ DOMAIN InOrder(Class(e)) = 1 .. Cardinality(Class(e))
      /\ Len(InOrder(Class(e))) = Cardinality(Class(e))
      /\ \A k \in 1 .. Cardinality(Class(e)) : InOrder(Class(e))[k] \in Class(e)
  BY <1>1, Listed
<1>3. Cardinality(Class(e)) <= Count
  BY <1>1, SegmentParts, FS_Subset
<1>4. QED
  BY <1>1, <1>2, <1>3

\* An entry decodes to at most as many bytes as its chunks can have.
LEMMA EntryFits ==
  ASSUME IInv, NEW body, Complete(body), NEW e \in DOMAIN LogicalFiles
  PROVE  /\ DecodedSize(Packed, LogicalFiles[e]) \in Nat
         /\ DecodedSize(Packed, LogicalFiles[e]) <= MaxU32 * Len(LogicalFiles[e])
<1> DEFINE ids == LogicalFiles[e]
           n == Len(ids)
           f == [k \in 1 .. n |-> PlainLength(Packed, ids[k])]
<1>1. /\ n \in Nat /\ DOMAIN ids = 1 .. n /\ MaxU32 \in Nat
      /\ \A k \in 1 .. n : ids[k] \in Segments
  BY EntryLists, MaxU32Assumption DEF IInv, TypeOK, Requested
<1>2. \A i \in Segments : i \in DOMAIN chunks
  BY ChunkDomain
<1>3. \A k \in 1 .. n : f[k] \in Nat /\ f[k] <= MaxU32 /\ f[k] = PlainLength(Packed, ids[k])
  <2> SUFFICES ASSUME NEW k \in 1 .. n
               PROVE  PlainLength(Packed, ids[k]) \in Nat /\ PlainLength(Packed, ids[k]) <= MaxU32
    OBVIOUS
  <2> DEFINE i == ids[k]
  <2>1. i \in DOMAIN chunks
    BY <1>1, <1>2
  <2> HIDE DEF i
  <2>2. chunks[i] \in Chunk /\ chunks[i].decompressed_length <= MaxU32
    BY <2>1, RecordParts
  <2>3. PlainLength(Packed, i) = chunks[i].decompressed_length
    BY DEF PlainLength, Packed
  <2>4. QED
    BY <2>2, <2>3 DEF Chunk, i
<1>4. IsFiniteSet(1 .. n)
  BY <1>1, FS_Interval
<1> HIDE DEF f, n, ids
<1>5. DecodedSize(Packed, ids) = SumOver(f, 1 .. n)
  BY <1>1, <1>3, <1>4, DecodedSizeIs
<1>6. SumOver(f, 1 .. n) \in Nat /\ SumOver(f, 1 .. n) <= MaxU32 * n
  BY <1>1, <1>3, SumBounded
<1>7. QED
  BY <1>5, <1>6 DEF ids, n

\* All of them decode to at most as many as all the segments can have.
LEMMA ArchiveFits ==
  ASSUME IInv, NEW body, Complete(body)
  PROVE  TotalSize(Packed) <= MaxU32 * Count
<1> DEFINE D == DOMAIN LogicalFiles
           f == [e \in D |-> DecodedSize(Packed, LogicalFiles[e])]
           g == [e \in D |-> 0 + MaxU32 * Len(LogicalFiles[e])]
<1>1. Requested /\ MaxU32 \in Nat
  BY MaxU32Assumption DEF IInv, TypeOK, Requested
<1>2. D = 1 .. Len(LogicalFiles) /\ Len(LogicalFiles) \in Nat
  BY <1>1, Grouped
<1>3. IsFiniteSet(D)
  BY <1>2, FS_Interval
<1>4. ASSUME NEW e \in D PROVE f[e] \in Nat /\ f[e] <= g[e] /\ g[e] \in Nat
  <2>1. /\ DecodedSize(Packed, LogicalFiles[e]) \in Nat
        /\ DecodedSize(Packed, LogicalFiles[e]) <= MaxU32 * Len(LogicalFiles[e])
    BY EntryFits
  <2>2. Len(LogicalFiles[e]) \in Nat
    BY <1>1, EntryLists
  <2>3. MaxU32 * Len(LogicalFiles[e]) \in Nat
    BY <1>1, <2>2
  <2> DEFINE m == MaxU32 * Len(LogicalFiles[e])
  <2>4. f[e] = DecodedSize(Packed, LogicalFiles[e]) /\ g[e] = 0 + m
    OBVIOUS
  <2> HIDE DEF m, f, g
  <2>5. QED
    BY <2>1, <2>3, <2>4 DEF m
<1>5. \A e \in D : f[e] = DecodedSize(Packed, Packed.entries[e])
  BY DEF Packed
<1>6. DOMAIN Packed.entries = D
  BY DEF Packed
<1>7. \A e \in D : g[e] = 0 + MaxU32 * Len(LogicalFiles[e])
  OBVIOUS
<1> HIDE DEF f, g
<1>8. TotalSize(Packed) = SumOver(f, DOMAIN Packed.entries)
  BY <1>3, <1>4, <1>5, <1>6, TotalSizeIs
<1>9. SumOver(f, D) <= SumOver(g, D)
  BY <1>3, <1>4, SumMonotone
<1>10. SumOver(g, D) = 0 * Len(LogicalFiles) + MaxU32 * Count
  BY <1>1, <1>7, ListsAddUp
<1>11. 0 * Len(LogicalFiles) = 0 /\ MaxU32 * Count \in Nat
  BY <1>1, <1>2, SegmentParts
<1> DEFINE m == MaxU32 * Count
<1> HIDE DEF m
<1>12. SumOver(f, D) <= m
  BY <1>9, <1>10, <1>11 DEF m
<1>13. QED
  BY <1>6, <1>8, <1>12 DEF m

\* What the header describes is an archive the reader opens.
LEMMA HeaderAdmissible ==
  ASSUME IInv, Sound, NEW body, Complete(body)
  PROVE  Admissible(Packed)
<1> DEFINE sizes == MainOnly(Packed)
           resolved == ResolveChunkLayout(chunks, sizes)
<1>1. Requested /\ chunks \in Seq(Chunk) /\ Valid
  BY DEF IInv, TypeOK, Requested, Complete
<1>2. /\ Packed.chunks = chunks /\ Packed.entries = LogicalFiles /\ Packed.range_valid = HasDz
      /\ Packed.volume_files = Len(job.names) - 1
      /\ Packed.limits.input = MaxU32 /\ Packed.limits.output = MaxU32
      /\ Packed.limits.entry = MaxU32 * Count /\ Packed.limits.total = MaxU32 * Count
  BY DEF Packed
<1>3. ChunkIds(Packed) = DOMAIN chunks
  BY <1>2 DEF ChunkIds
<1>4. \A i \in DOMAIN chunks : SupportsFlags(chunks[i].flags)
  <2> TAKE i \in DOMAIN chunks
  <2>1. Describes(i) /\ (i <= Count => i \in Segments)
    BY RecordParts
  <2>2. CASE i <= Count
    BY <2>1, <2>2 DEF Describes, Sound
  <2>3. CASE ~(i <= Count)
    BY <2>1, <2>3 DEF Describes, SupportsFlags, SemanticReaderFlags
  <2>4. QED
    BY <2>2, <2>3
<1>5. (\E i \in DOMAIN chunks : RequiresRangeSettings(chunks[i].flags)) => HasDz
  <2> SUFFICES ASSUME NEW i \in DOMAIN chunks, "DZ" \in chunks[i].flags PROVE HasDz
    BY DEF RequiresRangeSettings
  <2>1. Describes(i) /\ (i <= Count => i \in Segments)
    BY RecordParts
  <2>2. i \in Segments /\ "DZ" \in job.segments[i].flags
    BY <2>1 DEF Describes
  <2>3. CompressionOf(i) = "DZ"
    BY <2>2 DEF Sound
  <2>4. QED
    BY <2>2, <2>3 DEF HasDz, DzSegments
<1>6. \A i \in DOMAIN chunks : WithinChunkLimits(Packed, i, resolved[i])
  <2> TAKE i \in DOMAIN chunks
  <2>1. /\ chunks[i].compressed_length <= MaxU32 /\ chunks[i].decompressed_length <= MaxU32
        /\ chunks[i].file \in VolumeIds
    BY RecordParts
  <2>2. sizes[chunks[i].file] \in Int
    <3>1. chunks[i].file \in Volumes /\ 0 \in Volumes
      <4>1. Len(job.names) <= MaxVolume + 1 /\ MaxVolume \in Nat
        BY <1>1, BuilderAssumption, MaxVolumeAssumption DEF Requested
      <4>2. Len(job.names) \in Nat
        BY <1>1, VolumeParts
      <4>3. QED
        BY <2>1, <4>1, <4>2 DEF VolumeIds, Volumes
    <3>2. MainLength(Packed) \in Nat
      <4>1. 0 \in VolumeIds
        <5>1. Len(job.names) >= 1 /\ Len(job.names) \in Nat
          BY <1>1, VolumeParts DEF Valid
        <5>2. QED
          BY <5>1 DEF VolumeIds
      <4>2. Packed.lengths[0] = {FileLength(Main)}
        BY <3>1, <4>1 DEF Packed, Main
      <4>3. FileLength(Main) \in Nat
        BY <1>1, <4>1, VolumeParts, FileLengthIs DEF Main, IInv
      <4>4. QED
        BY <4>2, <4>3 DEF MainLength
    <3>3. sizes[chunks[i].file] \in {MainLength(Packed), NoLength}
      BY <3>1 DEF MainOnly
    <3>4. NoLength \in Int
      BY DEF NoLength
    <3> HIDE DEF sizes
    <3>5. QED
      BY <3>2, <3>3, <3>4
  <2> HIDE DEF sizes
  <2>3. resolved[i] <= MaxU32
    BY <1>1, <2>1, <2>2, SpanFits
  <2> HIDE DEF resolved
  <2>4. QED
    BY <1>2, <2>1, <2>3 DEF WithinChunkLimits
<1>7. ASSUME NEW e \in DOMAIN LogicalFiles PROVE EntryAdmissible(Packed, LogicalFiles[e])
  <2> DEFINE ids == LogicalFiles[e]
  <2>1. \A k \in DOMAIN ids : ids[k] \in Segments
    BY <1>1, EntryLists
  <2>2. ASSUME NEW k \in DOMAIN ids
        PROVE  /\ ids[k] \in DOMAIN chunks
               /\ Compression(Packed, ids[k]) # "NONE"
               /\ ~("COMBUF" \in chunks[ids[k]].flags /\ Compression(Packed, ids[k]) = "DZ")
               /\ FileOf(Packed, ids[k]) <= Packed.volume_files
    <3> DEFINE i == ids[k]
    <3>1. i \in Segments /\ i \in DOMAIN chunks
      BY <2>1, ChunkDomain
    <3> HIDE DEF i
    <3>2. i <= Count
      BY <1>1, <3>1, SegmentParts
    <3>3. Describes(i) /\ chunks[i].file \in VolumeIds
      BY <3>1, RecordParts
    <3>4. Compression(Packed, i) = CompressionOf(i) /\ CompressionOf(i) # "NONE"
      BY <1>2, <3>1, <3>2, CombufIsLast DEF Compression
    <3>5. ~("COMBUF" \in chunks[i].flags /\ CompressionOf(i) = "DZ")
      <4> SUFFICES ASSUME "COMBUF" \in chunks[i].flags, CompressionOf(i) = "DZ" PROVE FALSE
        OBVIOUS
      <4>1. chunks[i].flags = job.segments[i].flags
        BY <3>2, <3>3 DEF Describes
      <4>2. job.segments[i].flags \in SUBSET Flags
        BY <1>1, <3>1, SegmentParts DEF Segment
      <4>3. "DZ" \in job.segments[i].flags
        BY <4>2, WinnerFlags DEF CompressionOf
      <4>4. QED
        BY <3>1, <4>1, <4>3 DEF Sound
    <3>6. FileOf(Packed, i) <= Packed.volume_files
      <4>1. FileOf(Packed, i) = chunks[i].file
        BY <1>2 DEF FileOf
      <4>2. Len(job.names) \in Nat
        BY <1>1, VolumeParts
      <4>3. QED
        BY <1>2, <3>3, <4>1, <4>2 DEF VolumeIds
    <3>7. QED
      BY <3>1, <3>4, <3>5, <3>6 DEF i
  <2>3. DecodedSize(Packed, ids) <= MaxU32 * Count
    <3>1. /\ DecodedSize(Packed, ids) \in Nat
          /\ DecodedSize(Packed, ids) <= MaxU32 * Len(ids)
      BY EntryFits
    <3>2. Len(ids) \in Nat /\ Len(ids) <= Count /\ Count \in Nat /\ MaxU32 \in Nat
      BY <1>1, EntryLists, SegmentParts, MaxU32Assumption
    <3> DEFINE n == Len(ids)
               c == Count
               d == c - n
    <3> HIDE DEF n, c
    <3>3. d \in Nat /\ c = n + d /\ n \in Nat
      BY <3>2 DEF n, c
    <3> HIDE DEF d
    <3>4. MaxU32 * (n + d) = MaxU32 * n + MaxU32 * d /\ MaxU32 * d \in Nat /\ MaxU32 * n \in Nat
      BY <3>2, <3>3
    <3> DEFINE x == MaxU32 * n
               y == MaxU32 * d
               z == MaxU32 * c
    <3>5. z = x + y /\ y \in Nat /\ x \in Nat
      BY <3>3, <3>4
    <3> HIDE DEF x, y, z
    <3>6. x <= z
      BY <3>5
    <3>7. DecodedSize(Packed, ids) <= x /\ x \in Nat /\ z \in Nat
      BY <3>1, <3>5 DEF x, n
    <3>8. DecodedSize(Packed, ids) <= z
      BY <3>1, <3>6, <3>7
    <3>9. QED
      BY <3>8 DEF z, c
  <2> HIDE DEF ids
  <2>4. QED
    BY <1>2, <1>3, <2>2, <2>3 DEF EntryAdmissible, ids
<1>8. TotalSize(Packed) <= Packed.limits.total
  BY <1>2, ArchiveFits
<1> HIDE DEF resolved
<1>9. \A e \in DOMAIN Packed.entries : EntryAdmissible(Packed, Packed.entries[e])
  BY <1>2, <1>7
<1>10. resolved = ResolveChunkLayout(Packed.chunks, MainOnly(Packed))
  BY <1>2 DEF resolved
<1>11. QED
  BY <1>2, <1>3, <1>4, <1>5, <1>6, <1>8, <1>9, <1>10 DEF Admissible, TotalSize

\* A finished archive reads back.
LEMMA FinishedReads ==
  ASSUME IInv, Sound, Finished
  PROVE  ReadsBack
<1>1. PICK body : Complete(body)
  BY DEF Finished
<1> DEFINE span == ResolveChunkLayout(chunks, Sizes)
<1>2. Admissible(Packed)
  BY <1>1, HeaderAdmissible
<1>3. ASSUME NEW i \in DOMAIN chunks
      PROVE  /\ Intact(i)
             /\ IF IsDedicatedCombuf(chunks[i].flags) THEN span[i] = job.common
                ELSE DecodeOutcomes(Packed, i, PayloadReadLength(chunks[i], span[i])) = {"exact"}
  <2>1. Intact(i)
    BY <1>1, PayloadsIntact
  <2>2. span[i] = chunks[i].need
    BY <1>1, SpansExact
  <2> HIDE DEF span
  <2>3. QED
    BY <1>1, <2>1, <2>2, ChunksDecode
<1> HIDE DEF span
<1>4. QED
  BY <1>2, <1>3 DEF ReadsBack, span, Sizes

-----------------------------------------------------------------------------
(* Each step keeps the disk so *)

\* What depends on the job alone stays.
LEMMA BodyStays ==
  ASSUME job' = job
  PROVE  /\ Sound' <=> Sound
         /\ \A v : Floor(v)' = Floor(v)
         /\ VolumeIds' = VolumeIds
         /\ \A v \in VolumeIds : Body[v] = content[VolumeFile(v)] /\ Body'[v] = content'[VolumeFile(v)]
<1>1. /\ VolumeIds' = VolumeIds /\ HeaderSize' = HeaderSize /\ Segments' = Segments
      /\ \A v : VolumeFile(v)' = VolumeFile(v)
      /\ \A i : CompressionOf(i)' = CompressionOf(i)
  BY PlanStays
<1>2. Sound' <=> Sound
  BY <1>1 DEF Sound, Main
<1>3. \A v : Floor(v)' = Floor(v)
  BY <1>1 DEF Floor
<1>4. \A v \in VolumeIds : Body[v] = content[VolumeFile(v)] /\ Body'[v] = content'[VolumeFile(v)]
  BY <1>1 DEF Body
<1>5. QED
  BY <1>1, <1>2, <1>3, <1>4

\* What is written through a handle is put upon the volume's pieces, and no other's.
LEMMA PutPiled ==
  ASSUME Requested, ContentTyped, position \in [VolumeIds -> Nat], Sound, Piled, job' = job,
         NEW v \in VolumeIds, NEW n \in Nat, NEW kind \in Kinds, NEW index \in Nat,
         Put(v, n, kind, index),
         NEW at, at = [from |-> position[v], to |-> position[v] + n, kind |-> kind, index |-> index]
  PROVE  /\ Piled'
         /\ \A u \in VolumeIds : /\ Body[u] \in Seq(Piece)
                                 /\ Body'[u] = IF u = v /\ n # 0 THEN Append(Body[u], at) ELSE Body[u]
         /\ n # 0 => EndOf(Body'[v]) = at.to /\ \E k \in DOMAIN Body'[v] : Body'[v][k] = at
         /\ \A u \in VolumeIds : \A k \in DOMAIN Body[u] : k \in DOMAIN Body'[u] /\ Body'[u][k] = Body[u][k]
<1>1. /\ VolumeIds' = VolumeIds /\ \A u : Floor(u)' = Floor(u)
      /\ \A u \in VolumeIds : Body[u] = content[VolumeFile(u)] /\ Body'[u] = content'[VolumeFile(u)]
  BY BodyStays
<1>2. \A u \in VolumeIds : VolumeFile(u) \in Files /\ Body[u] \in Seq(Piece)
  BY <1>1, VolumeParts DEF ContentTyped
<1>3. \A u \in VolumeIds : Body'[u] = IF u = v /\ n # 0 THEN Append(Body[u], at) ELSE Body[u]
  <2> TAKE u \in VolumeIds
  <2>1. CASE n = 0
    BY <1>1, <2>1 DEF Put
  <2>2. CASE n # 0
    <3>1. content' = [content EXCEPT ![VolumeFile(v)] = Append(@, at)]
      BY <2>2 DEF Put
    <3>2. VolumeFile(u) \in DOMAIN content /\ VolumeFile(v) \in DOMAIN content
      BY <1>2 DEF ContentTyped
    <3>3. VolumeFile(u) = VolumeFile(v) => u = v
      BY DEF Sound
    <3>4. QED
      BY <1>1, <2>2, <3>1, <3>2, <3>3
  <2>3. QED
    BY <2>1, <2>2
<1>4. /\ position' = [position EXCEPT ![v] = @ + n] /\ \A u \in VolumeIds : position[u] \in Nat
      /\ at \in Piece /\ at.from = position[v] /\ at.to = position[v] + n
  BY DEF Put, Piece
<1>5. \A u \in VolumeIds : position'[u] = IF u = v THEN position[v] + n ELSE position[u]
  BY <1>4
<1>6. \A u \in VolumeIds : Floor(u) \in Nat
  BY PlanSizes DEF Floor
<1>7. ASSUME NEW u \in VolumeIds
      PROVE  /\ Stacked(Body'[u], Floor(u)) /\ Floor(u) <= position'[u]
             /\ Body'[u] # <<>> => EndOf(Body'[u]) = position'[u]
             /\ \A k \in DOMAIN Body[u] : k \in DOMAIN Body'[u] /\ Body'[u][k] = Body[u][k]
             /\ u = v /\ n # 0 => EndOf(Body'[u]) = at.to /\ \E k \in DOMAIN Body'[u] : Body'[u][k] = at
  <2> DEFINE w == Body[u]
             x == Body'[u]
             floor == Floor(u)
             p == position[u]
             q == position'[u]
  <2>1. /\ Stacked(w, floor) /\ floor <= p /\ (w # <<>> => EndOf(w) = p)
        /\ w \in Seq(Piece) /\ floor \in Nat /\ p \in Nat
    BY <1>2, <1>4, <1>6 DEF Piled
  <2>2. CASE u = v /\ n # 0
    <3>1. x = Append(w, at) /\ q = p + n /\ at.from = p /\ at.to = p + n /\ at \in Piece
      BY <1>3, <1>4, <1>5, <2>2
    <3>2. at.from < at.to /\ floor <= at.from /\ (w # <<>> => EndOf(w) <= at.from)
      BY <2>1, <2>2, <3>1
    <3> HIDE DEF w, x, floor, p, q
    <3>3. /\ Stacked(Append(w, at), floor)
          /\ Append(w, at) # <<>> /\ EndOf(Append(w, at)) = at.to
          /\ DOMAIN Append(w, at) = DOMAIN w \cup {Len(w) + 1}
          /\ \A k \in DOMAIN w : Append(w, at)[k] = w[k]
          /\ Append(w, at)[Len(w) + 1] = at
      BY <2>1, <3>1, <3>2, StackedAppend
    <3>4. /\ Stacked(x, floor) /\ EndOf(x) = at.to
          /\ \A k \in DOMAIN w : k \in DOMAIN x /\ x[k] = w[k]
          /\ \E k \in DOMAIN x : x[k] = at
      BY <3>1, <3>3
    <3>5. floor <= q /\ EndOf(x) = q
      BY <2>1, <3>1, <3>4
    <3>6. QED
      BY <3>4, <3>5 DEF w, x, floor, q
  <2>3. CASE ~(u = v /\ n # 0)
    <3>1. x = w /\ q = p
      BY <1>3, <1>4, <1>5, <2>3
    <3>2. QED
      BY <2>1, <2>3, <3>1
  <2>4. QED
    BY <2>2, <2>3
<1>8. Piled'
  BY <1>1, <1>7 DEF Piled
<1>9. QED
  BY <1>2, <1>3, <1>7, <1>8

\* A piece put down with its record keeps the records in order: the record before it,
\* if it ended with the volume, ends where this one begins.
LEMMA RecordGrows ==
  ASSUME Requested, ContentTyped, position \in [VolumeIds -> Nat], Sound, Piled, job' = job,
         NEW v \in VolumeIds, NEW n \in Nat, NEW kind \in Kinds, NEW index \in Nat,
         Put(v, n, kind, index), NEW R, Recorded(R, Body), NEW i, i \notin R,
         kind = (IF i <= Count THEN "payload" ELSE "common"), index = (IF i <= Count THEN i ELSE 0),
         i \in DOMAIN chunks', DOMAIN chunks \subseteq DOMAIN chunks',
         \A j \in R : chunks'[j] = chunks[j],
         chunks'[i].offset = position[v], chunks'[i].need = n, chunks'[i].file = v,
         Truthful(chunks'[i]), Describes(i)'
  PROVE  Recorded(R \cup {i}, Body)'
<1> DEFINE at == [from |-> position[v], to |-> position[v] + n, kind |-> kind, index |-> index]
<1>1. /\ Piled'
      /\ \A u \in VolumeIds : /\ Body[u] \in Seq(Piece)
                              /\ Body'[u] = IF u = v /\ n # 0 THEN Append(Body[u], at) ELSE Body[u]
      /\ n # 0 => EndOf(Body'[v]) = at.to /\ \E k \in DOMAIN Body'[v] : Body'[v][k] = at
      /\ \A u \in VolumeIds : \A k \in DOMAIN Body[u] : k \in DOMAIN Body'[u] /\ Body'[u][k] = Body[u][k]
  BY PutPiled
<1>2. VolumeIds' = VolumeIds /\ Count' = Count
  BY PlanStays
<1>3. ASSUME NEW j \in R
      PROVE  /\ PieceOf(j)' = PieceOf(j) /\ chunks'[j] = chunks[j] /\ j \in DOMAIN chunks'
             /\ (Describes(j)' <=> Describes(j))
  <2>1. chunks'[j] = chunks[j] /\ j \in DOMAIN chunks'
    BY DEF Recorded
  <2>2. PieceOf(j)' = PieceOf(j)
    BY <1>2, <2>1 DEF PieceOf
  <2>3. Describes(j)' <=> Describes(j)
    BY <1>2, <2>1 DEF Describes
  <2>4. QED
    BY <2>1, <2>2, <2>3
<1>4. PieceOf(i)' = at
  BY <1>2 DEF PieceOf
<1>5. \A j \in R : /\ chunks[j].file \in VolumeIds
                   /\ Truthful(chunks[j]) /\ Describes(j) /\ Kept(j, Body[chunks[j].file], R)
  BY DEF Recorded
<1> DEFINE Q == R \cup {i}
<1>6. ASSUME NEW j \in Q
      PROVE  LET c == chunks'[j]
                 w == Body'[c.file]
             IN  /\ j \in DOMAIN chunks' /\ c.file \in VolumeIds
                 /\ Truthful(c) /\ Describes(j)'
                 /\ c.need # 0 =>
                      /\ \E k \in DOMAIN w : w[k] = PieceOf(j)'
                      /\ \/ PieceOf(j)'.to = EndOf(w)
                         \/ \E l \in Q : /\ chunks'[l].need # 0 /\ chunks'[l].file = c.file
                                         /\ chunks'[l].offset = PieceOf(j)'.to
  <2>1. CASE j = i
    <3>1. chunks'[j].file = v /\ chunks'[j].need = n
      BY <2>1
    <3>2. n # 0 => EndOf(Body'[v]) = PieceOf(j)'.to /\ \E k \in DOMAIN Body'[v] : Body'[v][k] = PieceOf(j)'
      BY <1>1, <1>4, <2>1
    <3>3. QED
      BY <2>1, <3>1, <3>2
  <2>2. CASE j \in R
    <3> DEFINE u == chunks[j].file
    <3>1. /\ chunks'[j] = chunks[j] /\ j \in DOMAIN chunks' /\ PieceOf(j)' = PieceOf(j)
          /\ Describes(j)' /\ u \in VolumeIds /\ Truthful(chunks[j])
      BY <1>3, <1>5, <2>2
    <3>2. ASSUME chunks[j].need # 0
          PROVE  /\ \E k \in DOMAIN Body'[u] : Body'[u][k] = PieceOf(j)
                 /\ \/ PieceOf(j).to = EndOf(Body'[u])
                    \/ \E l \in Q : /\ chunks'[l].need # 0 /\ chunks'[l].file = u
                                    /\ chunks'[l].offset = PieceOf(j).to
      <4>1. /\ \E k \in DOMAIN Body[u] : Body[u][k] = PieceOf(j)
            /\ \/ PieceOf(j).to = EndOf(Body[u])
               \/ \E l \in R : /\ chunks[l].need # 0 /\ chunks[l].file = u
                               /\ chunks[l].offset = PieceOf(j).to
        BY <1>5, <2>2, <3>2 DEF Kept
      <4>2. \E k \in DOMAIN Body'[u] : Body'[u][k] = PieceOf(j)
        BY <1>1, <3>1, <4>1
      <4>3. CASE \E l \in R : /\ chunks[l].need # 0 /\ chunks[l].file = u
                              /\ chunks[l].offset = PieceOf(j).to
        BY <1>3, <4>2, <4>3
      <4>4. CASE PieceOf(j).to = EndOf(Body[u])
        <5>1. CASE u = v /\ n # 0
          <6>1. Body[u] # <<>>
            BY <4>1
          <6>2. EndOf(Body[u]) = position[v]
            BY <5>1, <6>1 DEF Piled
          <6>3. chunks'[i].need # 0 /\ chunks'[i].file = u /\ chunks'[i].offset = PieceOf(j).to
            BY <4>4, <5>1, <6>2
          <6>4. QED
            BY <4>2, <6>3
        <5>2. CASE ~(u = v /\ n # 0)
          <6>1. Body'[u] = Body[u]
            BY <1>1, <3>1, <5>2
          <6>2. QED
            BY <4>2, <4>4, <6>1
        <5>3. QED
          BY <5>1, <5>2
      <4>5. QED
        BY <4>1, <4>3, <4>4
    <3>3. QED
      BY <3>1, <3>2
  <2>3. QED
    BY <2>1, <2>2
<1> HIDE DEF Q
<1>7. \A j \in Q : Truthful(chunks'[j])
  BY <1>6
<1>8. \A j \in Q : Kept(j, Body[chunks[j].file], Q)'
  BY <1>6 DEF Kept
<1>9. Recorded(Q, Body)'
  BY <1>2, <1>6, <1>7, <1>8 DEF Recorded, Truthful, IsPhysicalBoundary, HasPlaceholderLength
<1>10. QED
  BY <1>9 DEF Q

\* The records stay while the table and the pieces do.
LEMMA RecordsStay ==
  ASSUME job' = job, chunks' = chunks, \A v \in VolumeIds : Body'[v] = Body[v], NEW R
  PROVE  Recorded(R, Body)' <=> Recorded(R, Body)
<1>1. VolumeIds' = VolumeIds /\ Count' = Count
  BY PlanStays
<1>2. \A j : PieceOf(j)' = PieceOf(j) /\ (Describes(j)' <=> Describes(j))
  BY <1>1 DEF PieceOf, Describes
<1>3. \A j \in R : chunks[j].file \in VolumeIds =>
        (Kept(j, Body[chunks[j].file], R)' <=> Kept(j, Body[chunks[j].file], R))
  <2> SUFFICES ASSUME NEW j \in R, chunks[j].file \in VolumeIds
               PROVE  Kept(j, Body[chunks[j].file], R)' <=> Kept(j, Body[chunks[j].file], R)
    OBVIOUS
  <2>1. Body'[chunks'[j].file] = Body[chunks[j].file]
    OBVIOUS
  <2>2. QED
    BY <1>2, <2>1 DEF Kept
<1>4. QED
  BY <1>1, <1>2, <1>3 DEF Recorded, Truthful, IsPhysicalBoundary, HasPlaceholderLength

\* So does all of it while the call stays where it is.
LEMMA QuietDisk ==
  ASSUME IInv, Disk, UNCHANGED <<job, step, cursor, position, chunks>>,
         \A v \in VolumeIds : Body'[v] = Body[v]
  PROVE  Disk'
<1> SUFFICES ASSUME Sound PROVE Disk'
  BY BodyStays DEF Disk
<1>1. /\ VolumeIds' = VolumeIds /\ Count' = Count /\ Main' = Main /\ HasCommon' = HasCommon
      /\ WriteOrder' = WriteOrder /\ \A v : Floor(v)' = Floor(v)
      /\ (Valid' <=> Valid) /\ (Sound' <=> Sound)
  BY PlanStays, BodyStays DEF Main
<1>2. WrittenSoFar' = WrittenSoFar
  BY <1>1 DEF WrittenSoFar, Written, CommonWritten
<1>3. step = "payload" => Recorded(WrittenSoFar, Body)'
  <2> DEFINE R == WrittenSoFar
  <2> SUFFICES ASSUME step = "payload" PROVE Recorded(WrittenSoFar, Body)'
    OBVIOUS
  <2>1. Recorded(R, Body)
    BY DEF Disk
  <2>2. Recorded(WrittenSoFar, Body)' <=> Recorded(R, Body)
    BY <1>2, RecordsStay
  <2>3. QED
    BY <2>1, <2>2
<1>4. step = "header" => Recorded(DOMAIN chunks, Body)'
  <2> SUFFICES ASSUME step = "header" PROVE Recorded(DOMAIN chunks, Body)'
    OBVIOUS
  <2>1. Recorded(DOMAIN chunks, Body)
    BY DEF Disk
  <2>2. QED
    BY <2>1, RecordsStay
<1>5. Piled => Piled'
  BY <1>1 DEF Piled
<1>6. Valid => content'[Main] = content[Main]
  <2> SUFFICES ASSUME Valid PROVE content'[Main] = content[Main]
    OBVIOUS
  <2>1. Len(job.names) \in Nat /\ Len(job.names) >= 1
    BY VolumeParts DEF Valid, IInv, TypeOK, Requested
  <2>2. 0 \in VolumeIds
    BY <2>1 DEF VolumeIds
  <2>3. QED
    BY <2>2, BodyStays DEF Main
<1>7. QED
  BY <1>1, <1>3, <1>4, <1>5, <1>6 DEF Disk

\* A call that has returned writes no more.
LEMMA ReturnedDisk ==
  ASSUME step' = "returned"
  PROVE  Disk'
BY DEF Disk

\* A borrowed writer has nothing behind the archive; files may be as they are.
LEMMA InitDisk ==
  ASSUME Init
  PROVE  Disk
<1> SUFFICES ASSUME Sound, Valid, job.sink = "writer" PROVE content[Main] = <<>>
  BY DEF Init, Disk
<1>1. Requested /\ content = Contents(job.existing) /\ Len(job.names) = 1
  BY DEF Init, Requested, Valid
<1>2. Main \in Files
  BY <1>1, VolumeParts DEF Main, VolumeIds
<1>3. job.existing[Main] = 0
  BY DEF Sound
<1>4. QED
  BY <1>1, <1>2, <1>3 DEF Contents

\* Prepare: an accepted call finds its files as they were.
LEMMA PrepareDisk ==
  ASSUME IInv, Disk, Prepare
  PROVE  Disk'
<1>1. CASE Valid
  <2>1. /\ step = "prepare" /\ step' = "open" /\ cursor' = 1 /\ job' = job /\ content' = content
    BY <1>1 DEF Prepare, Go
  <2> SUFFICES ASSUME Sound PROVE Disk'
    BY <2>1, BodyStays DEF Disk
  <2>2. Requested
    BY DEF IInv, TypeOK, Requested
  <2>3. ASSUME NEW v \in VolumeIds, job.sink = "writer" \/ v + 1 < 1 PROVE Body'[v] = <<>>
    <3>1. v \in Nat /\ Len(job.names) \in Nat
      BY <2>2, VolumeParts
    <3>2. job.sink = "writer"
      BY <2>3, <3>1
    <3>3. v = 0
      <4>1. Len(job.names) = 1
        BY <1>1, <3>2 DEF Valid
      <4>2. v \in 0 .. Len(job.names) - 1
        BY DEF VolumeIds
      <4>3. QED
        BY <3>1, <4>1, <4>2
    <3>4. content[Main] = <<>>
      BY <1>1, <2>1, <3>2 DEF Disk
    <3>5. QED
      BY <2>1, <3>3, <3>4, BodyStays DEF Main
  <2>4. VolumeIds' = VolumeIds
    BY <2>1, PlanStays
  <2>5. QED
    BY <2>1, <2>3, <2>4 DEF Disk
<1>2. CASE ~Valid
  BY <1>2, ReturnedDisk DEF Prepare, Fail, Return
<1>3. QED
  BY <1>1, <1>2

\* OpenVolume leaves the volumes empty, one after the other.
LEMMA OpenVolumeDisk ==
  ASSUME IInv, Disk, OpenVolume
  PROVE  Disk'
<1>1. step = "open" /\ job' = job
  BY DEF OpenVolume
<1> SUFFICES ASSUME Sound PROVE Disk'
  BY <1>1, BodyStays DEF Disk
<1>2. Requested /\ cursor \in Nat /\ cursor >= 1 /\ Len(job.names) \in Nat
      /\ (\A v \in VolumeIds : v \in Nat /\ VolumeFile(v) \in Files)
  BY <1>1, VolumeParts DEF IInv, TypeOK, Requested, Stages
<1>3. \A v \in VolumeIds : job.sink = "writer" \/ v + 1 < cursor => Body[v] = <<>>
  BY <1>1 DEF Disk
<1>4. /\ VolumeIds' = VolumeIds
      /\ \A v \in VolumeIds : Body[v] = content[VolumeFile(v)] /\ Body'[v] = content'[VolumeFile(v)]
  BY <1>1, BodyStays
<1>5. CASE cursor > Len(job.names)
  <2>1. step' = "load" /\ content' = content
    BY <1>5 DEF OpenVolume, Go
  <2>2. \A v \in VolumeIds : v + 1 < cursor
    BY <1>2, <1>5 DEF VolumeIds
  <2>3. \A v \in VolumeIds : Body'[v] = <<>>
    BY <1>3, <1>4, <2>1, <2>2
  <2>4. QED
    BY <1>1, <1>4, <2>1, <2>3 DEF Disk
<1>6. CASE ~(cursor > Len(job.names))
  <2>1. step' = "open" /\ cursor' = cursor + 1
        /\ content' = IF job.sink = "writer" THEN content
                      ELSE [content EXCEPT ![job.names[cursor]] = <<>>]
    BY <1>6 DEF OpenVolume, Go
  <2>2. ASSUME NEW v \in VolumeIds, job.sink = "writer" \/ v + 1 < cursor + 1
        PROVE  Body'[v] = <<>>
    <3>1. CASE job.sink = "writer"
      BY <1>3, <1>4, <2>1, <3>1
    <3>2. CASE job.sink # "writer"
      <4>1. content' = [content EXCEPT ![job.names[cursor]] = <<>>]
            /\ content \in [Files -> Seq(Piece)]
        BY <2>1, <3>2 DEF IInv, ContentTyped
      <4>2. v + 1 < cursor \/ v + 1 = cursor
        BY <1>2, <2>2, <3>2
      <4>3. v + 1 = cursor => VolumeFile(v) = job.names[cursor]
        BY DEF VolumeFile
      <4>4. v + 1 < cursor => content[VolumeFile(v)] = <<>>
        BY <1>3, <1>4
      <4>5. QED
        BY <1>2, <1>4, <4>1, <4>2, <4>3, <4>4
    <3>3. QED
      BY <3>1, <3>2
  <2>3. QED
    BY <1>1, <1>4, <2>1, <2>2 DEF Disk
<1>7. QED
  BY <1>5, <1>6

\* Before the header is placed the volumes stay empty.
LEMMA EarlyDisk ==
  ASSUME IInv, Disk, LoadDz \/ EncodeDz
  PROVE  Disk'
<1>1. /\ step \in {"load", "encode_dz"} /\ step' \in {"load", "encode_dz", "place"}
      /\ job' = job /\ content' = content
  BY DEF LoadDz, EncodeDz, Go
<1> SUFFICES ASSUME Sound PROVE Disk'
  BY <1>1, BodyStays DEF Disk
<1>2. VolumeIds' = VolumeIds /\ \A v \in VolumeIds : Body'[v] = Body[v]
  BY <1>1, BodyStays
<1>3. QED
  BY <1>1, <1>2 DEF Disk

\* PlaceHeader: the archive's pieces are to lie behind the header's place.
LEMMA PlaceHeaderDisk ==
  ASSUME IInv, Placed, Disk, PlaceHeader
  PROVE  Disk'
<1>1. CASE ChunkCount > MaxU16
  BY <1>1, ReturnedDisk DEF PlaceHeader, Fail, Return
<1>2. CASE ~(ChunkCount > MaxU16)
  <2>1. /\ step = "place" /\ step' = "pad" /\ cursor' = 1 /\ job' = job /\ content' = content
        /\ position' = [position EXCEPT ![0] = HeaderSize]
    BY <1>2 DEF PlaceHeader, Go
  <2> SUFFICES ASSUME Sound PROVE Disk'
    BY <2>1, BodyStays DEF Disk
  <2>2. /\ VolumeIds' = VolumeIds /\ (\A v : Floor(v)' = Floor(v))
        /\ \A v \in VolumeIds : Body'[v] = Body[v]
    BY <2>1, BodyStays
  <2>3. \A v \in VolumeIds : Body'[v] = <<>>
    BY <2>1, <2>2 DEF Disk
  <2>4. \A v \in VolumeIds : position[v] = 0
    BY <2>1 DEF Placed, BeforePayloads
  <2>5. HeaderSize \in Nat /\ position \in [VolumeIds -> Nat]
    BY PlanSizes DEF IInv, TypeOK, Requested
  <2>6. \A v \in VolumeIds : Floor(v) <= position'[v]
    BY <2>1, <2>4, <2>5 DEF Floor
  <2>7. \A v \in VolumeIds : Stacked(Body'[v], Floor(v))
    <3>1. DOMAIN <<>> = {}
      OBVIOUS
    <3>2. QED
      BY <2>3, <3>1 DEF Stacked
  <2>8. Piled'
    BY <2>2, <2>3, <2>6, <2>7 DEF Piled
  <2>9. QED
    BY <2>1, <2>2, <2>3, <2>8 DEF Disk
<1>3. QED
  BY <1>1, <1>2

\* PadVolume puts zeros upon an empty volume, and no other's.
LEMMA PadVolumeDisk ==
  ASSUME IInv, Placed, Disk, PadVolume
  PROVE  Disk'
<1>1. step = "pad" /\ job' = job /\ chunks' = chunks
  BY DEF PadVolume
<1> SUFFICES ASSUME Sound PROVE Disk'
  BY <1>1, BodyStays DEF Disk
<1>2. /\ Requested /\ ContentTyped /\ position \in [VolumeIds -> Nat] /\ cursor \in Nat /\ cursor >= 1
      /\ Len(job.names) \in Nat /\ \A v \in VolumeIds : v \in Nat
  BY <1>1, VolumeParts DEF IInv, TypeOK, Requested, Stages
<1>3. Piled /\ (\A v \in VolumeIds : v + 1 >= cursor => Body[v] = <<>>) /\ Len(chunks) = Count
  BY <1>1 DEF Disk, Placed, BeforePayloads
<1>4. /\ VolumeIds' = VolumeIds /\ (\A v : Floor(v)' = Floor(v)) /\ Count' = Count
  BY <1>1, BodyStays, PlanStays
<1>5. CASE cursor > Len(job.names)
  <2>1. step' = "payload" /\ cursor' = 1 /\ content' = content /\ position' = position
    BY <1>5 DEF PadVolume, Go
  <2>2. \A v \in VolumeIds : Body'[v] = Body[v]
    BY <1>1, <2>1, BodyStays
  <2>3. Piled'
    BY <1>3, <1>4, <2>1, <2>2 DEF Piled
  <2>4. WrittenSoFar' = {}
    <3>1. Count \in Nat
      BY <1>2, SegmentParts
    <3>2. Written' = {}
      BY <2>1 DEF Written
    <3>3. Len(chunks') # Count' + 1
      BY <1>1, <1>3, <1>4, <3>1
    <3>4. QED
      BY <3>2, <3>3 DEF WrittenSoFar, CommonWritten
  <2>5. Recorded(WrittenSoFar, Body)'
    BY <2>4 DEF Recorded
  <2>6. QED
    BY <2>1, <2>3, <2>5 DEF Disk
<1>6. CASE ~(cursor > Len(job.names))
  <2> DEFINE v == cursor - 1
             n == Padding(position[v])
  <2>1. step' = "pad" /\ cursor' = cursor + 1 /\ Put(v, n, "zeros", 0)
    BY <1>6 DEF PadVolume, Go
  <2>2. v \in VolumeIds
    BY <1>2, <1>6 DEF VolumeIds
  <2>3. n \in Nat /\ "zeros" \in Kinds /\ 0 \in Nat
    BY <1>2, <2>2, PaddingIs DEF Kinds
  <2> HIDE DEF n
  <2> DEFINE at == [from |-> position[v], to |-> position[v] + n, kind |-> "zeros", index |-> 0]
  <2>4. at = [from |-> position[v], to |-> position[v] + n, kind |-> "zeros", index |-> 0]
    OBVIOUS
  <2> HIDE DEF at
  <2>5. /\ Piled'
        /\ \A u \in VolumeIds : Body'[u] = IF u = v /\ n # 0 THEN Append(Body[u], at) ELSE Body[u]
    BY <1>1, <1>2, <1>3, <2>1, <2>2, <2>3, <2>4, PutPiled
  <2>6. \A u \in VolumeIds : u + 1 >= cursor' => Body'[u] = <<>>
    <3> SUFFICES ASSUME NEW u \in VolumeIds, u + 1 >= cursor' PROVE Body'[u] = <<>>
      OBVIOUS
    <3>1. u # v /\ u + 1 >= cursor
      BY <1>2, <2>1
    <3>2. QED
      BY <1>3, <2>5, <3>1
  <2>7. QED
    BY <1>4, <2>1, <2>5, <2>6 DEF Disk
<1>7. QED
  BY <1>5, <1>6

\* Where the next chunk goes among the ones written.
LEMMA NextWritten ==
  ASSUME Requested, Valid, cursor \in 1 .. Count, job' = job, cursor' = cursor + 1,
         NEW i, i = WriteOrder[cursor]
  PROVE  i \in Segments /\ i \notin Written /\ Written' = Written \cup {i}
<1>1. /\ \A k \in 1 .. Count : WriteOrder[k] \in Segments
                               /\ Cardinality(Earlier(WriteOrder[k])) = k - 1
  BY Scheduled DEF Valid
<1>2. Count' = Count /\ WriteOrder' = WriteOrder
  BY PlanStays
<1>3. i \notin Written
  <2> SUFFICES ASSUME NEW k \in 1 .. Count, k < cursor, i = WriteOrder[k] PROVE FALSE
    BY DEF Written
  <2>1. k - 1 = cursor - 1 /\ Count \in Nat
    BY <1>1, SegmentParts
  <2>2. QED
    BY <2>1
<1>4. Written' = Written \cup {i}
  <2>1. {m \in 1 .. Count : m < cursor + 1} = {m \in 1 .. Count : m < cursor} \cup {cursor}
    <3>1. Count \in Nat
      BY SegmentParts
    <3> DEFINE n == Count
    <3>2. n \in Nat /\ cursor \in 1 .. n
      BY <3>1
    <3> HIDE DEF n
    <3>3. {m \in 1 .. n : m < cursor + 1} = {m \in 1 .. n : m < cursor} \cup {cursor}
      BY <3>2
    <3>4. QED
      BY <3>3 DEF n
  <2>2. QED
    BY <1>2, <2>1 DEF Written
<1>5. QED
  BY <1>1, <1>3, <1>4

\* The next segment to be written is loaded: its batch is, or it is one of the DZ segments.
LEMMA NextLoaded ==
  ASSUME IInv, WritePayload
  PROVE  WriteOrder[cursor] \in Segments /\ loaded[WriteOrder[cursor]] \in Nat
<1> DEFINE i == WriteOrder[cursor]
<1>1. /\ step = "payload" /\ cursor <= Count
      /\ IF cursor <= NonDz THEN \A j \in BatchAt(cursor) : loaded[j] # NoLength ELSE ~CommonPending
  BY DEF WritePayload
<1>2. /\ Requested /\ Valid /\ loaded \in [Segments -> Nat \cup {NoLength}]
      /\ cursor \in Nat /\ cursor >= 1 /\ \A j \in DzSegments : loaded[j] # NoLength
  BY <1>1 DEF IInv, TypeOK, Requested, Stages
<1>3. /\ Count \in Nat /\ cursor \in 1 .. Count /\ i \in Segments
      /\ NonDz \in 0 .. Count /\ \A k \in 1 .. Count : k > NonDz <=> WriteOrder[k] \in DzSegments
  BY <1>1, <1>2, SegmentParts, Scheduled, DzLast DEF Valid
<1>4. loaded[i] # NoLength
  <2>1. CASE cursor <= NonDz
    <3>1. cursor \in 1 .. NonDz
      BY <1>3, <2>1
    <3>2. i \in BatchAt(cursor)
      BY <3>1 DEF BatchAt
    <3>3. QED
      BY <1>1, <2>1, <3>2
  <2>2. CASE ~(cursor <= NonDz)
    <3>1. i \in DzSegments
      BY <1>3, <2>2
    <3>2. QED
      BY <1>2, <3>1
  <2>3. QED
    BY <2>1, <2>2
<1>5. QED
  BY <1>2, <1>3, <1>4

\* WritePayload puts the bytes of one segment down with their record.
LEMMA WritePayloadDisk ==
  ASSUME IInv, Placed, Disk, WritePayload
  PROVE  Disk'
<1>0. PICK i : i = WriteOrder[cursor]
  OBVIOUS
<1> DEFINE s == job.segments[i]
           v == s.volume
           n == EncodedLength(i)
           c == [offset |-> position[v], compressed_length |-> StoredLength(i),
                 decompressed_length |-> loaded[i], flags |-> s.flags, file |-> v,
                 need |-> n, work |-> 0]
<1>1. /\ step = "payload" /\ cursor <= Count /\ WriteChunk(i) /\ job' = job /\ loaded' = loaded
      /\ IF cursor <= NonDz THEN \A j \in BatchAt(cursor) : loaded[j] # NoLength ELSE ~CommonPending
  BY <1>0 DEF WritePayload
<1> SUFFICES ASSUME Sound PROVE Disk'
  BY <1>1, BodyStays DEF Disk
<1>2. /\ Requested /\ ContentTyped /\ position \in [VolumeIds -> Nat] /\ Valid
      /\ loaded \in [Segments -> Nat \cup {NoLength}] /\ cursor \in Nat /\ cursor >= 1
      /\ chunks \in Seq(Chunk) /\ Len(chunks) \in {Count, ChunkCount}
      /\ \A j \in DzSegments : loaded[j] # NoLength
  BY <1>1 DEF IInv, TypeOK, Requested, Stages, HeaderLast
<1>3. Count \in Nat /\ cursor \in 1 .. Count
  BY <1>1, <1>2, SegmentParts
<1>4. Piled /\ Recorded(WrittenSoFar, Body)
  BY <1>1 DEF Disk
<1>5. CASE step' = "returned"
  BY <1>5, ReturnedDisk
<1>6. CASE step' # "returned"
  <2>1. /\ Put(v, n, "payload", i)
        /\ ~(c.compressed_length > MaxU32) /\ ~(c.decompressed_length > MaxU32)
        /\ chunks' = [chunks EXCEPT ![i] = c]
        /\ step' = "payload" /\ cursor' = cursor + 1
    BY <1>1, <1>6 DEF WriteChunk, Fail, Return, Go
  <2>2. i \in Segments /\ i \notin Written /\ Written' = Written \cup {i}
    BY <1>0, <1>1, <1>2, <1>3, <2>1, NextWritten
  <2>3. loaded[i] \in Nat
    BY <1>0, NextLoaded
  <2>4. n \in Nat /\ v \in VolumeIds /\ i \in Nat /\ i <= Count
    BY <1>2, <1>3, <2>2, <2>3, EncodedLengthIs, SegmentParts DEF Valid
  <2>5. MaxU32 \in Nat /\ c.decompressed_length = loaded[i]
    BY MaxU32Assumption
  <2>6. loaded[i] <= MaxU32
    BY <2>1, <2>3, <2>5
  <2>7. Truthful(c)
    BY <1>2, <2>2, <2>3, <2>6, TruthfulRecord
  <2>8. i \in DOMAIN chunks
    BY <2>2, ChunkDomain
  <2> DEFINE d == c
  <2>9. chunks'[i] = d /\ DOMAIN chunks' = DOMAIN chunks
        /\ \A j \in DOMAIN chunks : j # i => chunks'[j] = chunks[j]
    <3> HIDE DEF d
    <3>1. chunks' = [chunks EXCEPT ![i] = d]
      BY <2>1 DEF d
    <3> DEFINE C == Chunk
    <3>2. chunks \in Seq(C)
      BY <1>2
    <3> HIDE DEF C
    <3>3. chunks = [k \in DOMAIN chunks |-> chunks[k]]
      BY <3>2
    <3>4. QED
      BY <2>8, <3>1, <3>3
  <2>10. /\ d.offset = position[v] /\ d.need = n /\ d.file = v /\ d.flags = s.flags /\ Truthful(d)
    BY <2>7
  <2>11. Count' = Count /\ HasCommon' = HasCommon
    BY <1>1, PlanStays
  <2> HIDE DEF d, n
  <2>12. Describes(i)'
    BY <1>1, <2>4, <2>9, <2>10, <2>11 DEF Describes
  <2>21. PICK R : R = WrittenSoFar
    OBVIOUS
  <2>13. i \notin R /\ WrittenSoFar' = R \cup {i}
    <3>1. Len(chunks') = Len(chunks)
      <4> DEFINE C == Chunk
      <4>1. chunks \in Seq(C) /\ chunks' \in Seq(C)
        <5>1. chunks' \in Seq(Chunk)
          BY NextIInv DEF IInv, TypeOK, Next, Work
        <5>2. QED
          BY <1>2, <5>1
      <4> HIDE DEF C
      <4>2. QED
        BY <2>9, <4>1, LenProperties
    <3>2. i # Count + 1
      BY <1>3, <2>4
    <3>3. QED
      BY <2>2, <2>11, <2>21, <3>1, <3>2 DEF WrittenSoFar, CommonWritten
  <2>14. \A j \in R : j \in DOMAIN chunks /\ j # i
    BY <1>4, <2>13, <2>21 DEF Recorded
  <2>15. Recorded(R, Body)
    BY <1>4, <2>21
  <2>16. Truthful(chunks'[i]) /\ chunks'[i].offset = position[v] /\ chunks'[i].need = n
         /\ chunks'[i].file = v /\ \A j \in R : chunks'[j] = chunks[j]
    BY <2>9, <2>10, <2>14
  <2>17. "payload" \in Kinds
    BY DEF Kinds
  <2> HIDE DEF v
  <2>18. Recorded(R \cup {i}, Body)'
    BY <1>1, <1>2, <1>4, <2>1, <2>4, <2>8, <2>9, <2>12, <2>13, <2>15, <2>16, <2>17, RecordGrows
  <2>19. Piled'
    BY <1>1, <1>2, <1>4, <2>1, <2>4, <2>17, PutPiled
  <2>20. QED
    BY <2>1, <2>13, <2>18, <2>19 DEF Disk
<1>7. QED
  BY <1>5, <1>6

\* WriteCommon puts the common buffer down with its record.
LEMMA WriteCommonDisk ==
  ASSUME IInv, Disk, WriteCommon
  PROVE  Disk'
<1> DEFINE n == job.common
           c == [Blank EXCEPT !.offset = position[0], !.flags = {"COMBUF"},
                              !.compressed_length = job.common, !.need = job.common]
<1>1. /\ step = "payload" /\ cursor = NonDz + 1 /\ CommonPending /\ job' = job
  BY DEF WriteCommon
<1> SUFFICES ASSUME Sound PROVE Disk'
  BY <1>1, BodyStays DEF Disk
<1>2. /\ Requested /\ ContentTyped /\ position \in [VolumeIds -> Nat] /\ Valid
      /\ chunks \in Seq(Chunk) /\ Len(chunks) = Count /\ HasCommon
  BY <1>1 DEF IInv, TypeOK, Requested, Stages, CommonPending
<1>3. /\ Count \in Nat /\ n \in Nat /\ 0 \in VolumeIds
      /\ "common" \in Kinds /\ Written \subseteq Segments /\ Segments = 1 .. Count
  <2>1. Len(job.names) \in Nat /\ Len(job.names) >= 1
    BY <1>2, VolumeParts DEF Valid
  <2>2. 0 \in VolumeIds
    BY <2>1 DEF VolumeIds
  <2>3. QED
    BY <1>2, <2>2, SegmentParts, PlanSizes, WrittenOnes DEF Kinds
<1>4. Piled /\ Recorded(WrittenSoFar, Body)
  BY <1>1 DEF Disk
<1>5. CASE step' = "returned"
  BY <1>5, ReturnedDisk
<1>6. CASE step' # "returned"
  <2>1. /\ Put(0, n, "common", 0) /\ ~(job.common > MaxU32)
        /\ chunks' = Append(chunks, c) /\ step' = "payload" /\ cursor' = cursor
    BY <1>6 DEF WriteCommon, Fail, Return, Go
  <2> DEFINE i == Count + 1
  <2>2. /\ c.offset = position[0] /\ c.flags = {"COMBUF"} /\ c.compressed_length = n /\ c.need = n
        /\ c.file = 0 /\ c.decompressed_length = 0
    BY DEF Blank
  <2>3. c \in Chunk
    BY <1>2, <1>3 DEF Blank, Chunk, Flags, SemanticReaderFlags
  <2>4. n <= MaxU32 /\ MaxU32 \in Nat
    BY <1>3, <2>1, MaxU32Assumption
  <2>5. Truthful(c)
    <3>1. RegisteredCompression(c.flags) = "NONE"
      BY <2>2 DEF RegisteredCompression, StorageFlags
    <3>2. IsPhysicalBoundary(c) <=> c.need # 0
      BY <2>2 DEF IsPhysicalBoundary
    <3>3. QED
      BY <2>2, <2>4, <3>1, <3>2 DEF Truthful
  <2> DEFINE d == c
  <2>6. /\ d.offset = position[0] /\ d.flags = {"COMBUF"} /\ d.need = n /\ d.file = 0
        /\ Truthful(d) /\ d \in Chunk /\ chunks' = Append(chunks, d)
    BY <2>1, <2>2, <2>3, <2>5
  <2> HIDE DEF d, c
  <2>7. /\ chunks'[Count + 1] = d /\ Count + 1 \in DOMAIN chunks' /\ DOMAIN chunks \subseteq DOMAIN chunks'
        /\ Len(chunks') = Count + 1 /\ \A j \in DOMAIN chunks : chunks'[j] = chunks[j]
    <3> DEFINE C == Chunk
    <3>1. chunks \in Seq(C) /\ d \in C
      BY <1>2, <2>6
    <3> HIDE DEF C
    <3>2. /\ chunks' \in Seq(C) /\ Len(chunks') = Len(chunks) + 1
          /\ (\A k \in 1 .. Len(chunks) : chunks'[k] = chunks[k]) /\ chunks'[Len(chunks) + 1] = d
      BY <2>6, <3>1, AppendProperties
    <3>3. DOMAIN chunks = 1 .. Len(chunks) /\ DOMAIN chunks' = 1 .. Len(chunks')
      BY <3>1, <3>2, LenProperties
    <3> DEFINE m == Count
    <3>4. m \in Nat /\ Len(chunks) = m
      BY <1>2, <1>3
    <3> HIDE DEF m
    <3>5. QED
      BY <3>2, <3>3, <3>4 DEF m
  <2>8. /\ Count' = Count /\ HasCommon' = HasCommon /\ WriteOrder' = WriteOrder
    BY <1>1, PlanStays
  <2>9. PICK k : k = Count + 1
    OBVIOUS
  <2>10. ~(k <= Count) /\ k \in Nat
    BY <1>3, <2>9
  <2>11. Describes(k)'
    BY <1>1, <2>6, <2>7, <2>8, <2>9, <2>10 DEF Describes
  <2>12. PICK R : R = WrittenSoFar
    OBVIOUS
  <2>13. k \notin R /\ WrittenSoFar' = R \cup {k}
    <3>1. k \notin Written
      BY <1>3, <2>10
    <3>2. ~CommonWritten
      <4>1. Count # Count + 1
        BY <1>3
      <4>2. QED
        BY <1>2, <4>1 DEF CommonWritten
    <3>3. CommonWritten'
      BY <1>2, <2>7, <2>8 DEF CommonWritten
    <3>4. Written' = Written
      BY <2>1, <2>8 DEF Written
    <3>5. QED
      BY <2>8, <2>9, <2>12, <3>1, <3>2, <3>3, <3>4 DEF WrittenSoFar
  <2>14. Recorded(R, Body)
    BY <1>4, <2>12
  <2>15. \A j \in R : j \in DOMAIN chunks
    BY <2>14 DEF Recorded
  <2>16. /\ k \in DOMAIN chunks' /\ chunks'[k].offset = position[0] /\ chunks'[k].need = n
         /\ chunks'[k].file = 0 /\ Truthful(chunks'[k]) /\ \A j \in R : chunks'[j] = chunks[j]
    BY <2>6, <2>7, <2>9, <2>15
  <2>17. 0 \in Nat
    OBVIOUS
  <2> HIDE DEF n
  <2>18. Recorded(R \cup {k}, Body)'
    BY <1>1, <1>2, <1>3, <1>4, <2>1, <2>7, <2>10, <2>11, <2>13, <2>14, <2>16, <2>17, RecordGrows
  <2>19. Piled'
    BY <1>1, <1>2, <1>3, <1>4, <2>1, <2>17, PutPiled
  <2>20. QED
    BY <2>1, <2>13, <2>18, <2>19 DEF Disk
<1>7. QED
  BY <1>5, <1>6

\* PayloadsWritten: every record is written when the main volume's handle goes back.
LEMMA PayloadsWrittenDisk ==
  ASSUME IInv, Disk, PayloadsWritten
  PROVE  Disk'
<1>1. /\ step = "payload" /\ step' = "header" /\ cursor = Count + 1 /\ ~CommonPending
      /\ position' = [position EXCEPT ![0] = 0]
      /\ job' = job /\ content' = content /\ chunks' = chunks
  BY DEF PayloadsWritten, Go
<1> SUFFICES ASSUME Sound PROVE Disk'
  BY <1>1, BodyStays DEF Disk
<1>2. /\ Requested /\ position \in [VolumeIds -> Nat] /\ Valid /\ chunks \in Seq(Chunk)
      /\ Len(chunks) \in {Count, ChunkCount}
  BY <1>1 DEF IInv, TypeOK, Requested, Stages, HeaderLast
<1>3. /\ VolumeIds' = VolumeIds /\ (\A v : Floor(v)' = Floor(v))
      /\ \A v \in VolumeIds : Body'[v] = Body[v]
  BY <1>1, BodyStays
<1>4. Piled /\ Recorded(WrittenSoFar, Body)
  BY <1>1 DEF Disk
<1>5. \A v \in VolumeIds : Stacked(Body'[v], Floor(v)')
  BY <1>3, <1>4 DEF Piled
<1>6. position'[0] = 0
  <2>1. Len(job.names) \in Nat /\ Len(job.names) >= 1
    BY <1>2, VolumeParts DEF Valid
  <2>2. 0 \in VolumeIds
    BY <2>1 DEF VolumeIds
  <2>3. QED
    BY <1>1, <1>2, <2>2
<1>7. WrittenSoFar = DOMAIN chunks
  <2>1. Count \in Nat /\ Segments = 1 .. Count
    BY <1>2, SegmentParts
  <2>2. Written = Segments
    <3>1. /\ \A k \in 1 .. Count : WriteOrder[k] \in Segments
          /\ \A i \in Segments : \E k \in 1 .. Count : WriteOrder[k] = i
      BY <1>2, Scheduled DEF Valid
    <3>2. {m \in 1 .. Count : m < cursor} = 1 .. Count
      BY <1>1, <2>1
    <3>3. QED
      BY <3>1, <3>2 DEF Written
  <2>3. DOMAIN chunks = 1 .. Len(chunks)
    <3> DEFINE C == Chunk
    <3>1. chunks \in Seq(C)
      BY <1>2
    <3> HIDE DEF C
    <3>2. QED
      BY <3>1, LenProperties
  <2>4. CASE CommonWritten
    <3>1. Len(chunks) = Count + 1
      BY <2>4 DEF CommonWritten
    <3> DEFINE n == Count
    <3>2. n \in Nat /\ DOMAIN chunks = 1 .. n + 1 /\ Written = 1 .. n
      BY <2>1, <2>2, <2>3, <3>1
    <3>3. WrittenSoFar = Written \cup {n + 1}
      BY <2>4 DEF WrittenSoFar
    <3> HIDE DEF n
    <3>4. QED
      BY <3>2, <3>3
  <2>5. CASE ~CommonWritten
    <3>1. WrittenSoFar = Written
      BY <2>5 DEF WrittenSoFar
    <3>2. Len(chunks) = Count
      <4>1. CASE HasCommon
        <5>1. ChunkCount = Count + 1
          BY <4>1 DEF ChunkCount
        <5>2. QED
          BY <1>2, <2>5, <4>1, <5>1 DEF CommonWritten
      <4>2. CASE ~HasCommon
        <5>1. ChunkCount = Count
          BY <2>1, <4>2 DEF ChunkCount
        <5>2. QED
          BY <1>2, <5>1
      <4>3. QED
        BY <4>1, <4>2
    <3>3. QED
      BY <2>1, <2>2, <2>3, <3>1, <3>2
  <2>6. QED
    BY <2>4, <2>5
<1>8. Recorded(DOMAIN chunks, Body)'
  <2>1. Recorded(DOMAIN chunks, Body)
    BY <1>4, <1>7
  <2>2. QED
    BY <1>1, <1>3, <2>1, RecordsStay
<1>9. QED
  BY <1>1, <1>3, <1>5, <1>6, <1>8 DEF Disk

\* A source that grows is none of the volumes.
LEMMA SourceGrowsDisk ==
  ASSUME IInv, Disk, NEW f \in Files, SourceGrows(f)
  PROVE  Disk'
<1>1. /\ UNCHANGED <<job, step, cursor, position, chunks>>
      /\ \A v \in VolumeIds : VolumeFile(v) # f
      /\ content' = [content EXCEPT ![f] =
           <<[from |-> 0, to |-> FileLength(f) + 1, kind |-> "old", index |-> 0]>>]
  BY DEF SourceGrows
<1>2. \A v \in VolumeIds : Body'[v] = Body[v]
  <2> TAKE v \in VolumeIds
  <2>1. content'[VolumeFile(v)] = content[VolumeFile(v)]
    <3>1. VolumeFile(v) \in Files /\ DOMAIN content = Files
      BY VolumeParts DEF IInv, TypeOK, Requested, ContentTyped
    <3> DEFINE new == <<[from |-> 0, to |-> FileLength(f) + 1, kind |-> "old", index |-> 0]>>
    <3>2. content' = [content EXCEPT ![f] = new] /\ VolumeFile(v) # f
      BY <1>1
    <3> HIDE DEF new
    <3>3. QED
      BY <3>1, <3>2
  <2>2. QED
    BY <1>1, <2>1, BodyStays
<1>3. QED
  BY <1>1, <1>2, QuietDisk

\* Every step keeps the disk so.
LEMMA NextDisk ==
  ASSUME IInv, Placed, Disk, [Next]_vars
  PROVE  Disk'
<1>1. CASE Prepare
  BY <1>1, PrepareDisk
<1>2. CASE OpenVolume
  BY <1>2, OpenVolumeDisk
<1>3. CASE LoadDz \/ EncodeDz
  BY <1>3, EarlyDisk
<1>4. CASE PlaceHeader
  BY <1>4, PlaceHeaderDisk
<1>5. CASE PadVolume
  BY <1>5, PadVolumeDisk
<1>6. CASE \E i \in Segments : EncodeSegment(i)
  <2>1. UNCHANGED <<job, step, cursor, content, position, chunks>>
    BY <1>6 DEF EncodeSegment
  <2>2. \A v \in VolumeIds : Body'[v] = Body[v]
    BY <2>1, BodyStays
  <2>3. QED
    BY <2>1, <2>2, QuietDisk
<1>7. CASE WritePayload
  BY <1>7, WritePayloadDisk
<1>8. CASE WriteCommon
  BY <1>8, WriteCommonDisk
<1>9. CASE PayloadsWritten
  BY <1>9, PayloadsWrittenDisk
<1>10. CASE WriteHeader \/ Fails \/ HeaderCut
  BY <1>10, ReturnedDisk DEF WriteHeader, Fails, HeaderCut, Fail, Return
<1>11. CASE \E f \in Files : SourceGrows(f)
  BY <1>11, SourceGrowsDisk
<1>12. CASE UNCHANGED vars
  <2>1. UNCHANGED <<job, step, cursor, content, position, chunks>>
    BY <1>12 DEF vars
  <2>2. \A v \in VolumeIds : Body'[v] = Body[v]
    BY <2>1, BodyStays
  <2>3. QED
    BY <2>1, <2>2, QuietDisk
<1>13. QED
  BY <1>1, <1>2, <1>3, <1>4, <1>5, <1>6, <1>7, <1>8, <1>9, <1>10, <1>11, <1>12 DEF Next, Work

-----------------------------------------------------------------------------
(* The header on disk *)

\* A header on disk says the archive is complete.
Sealed == HeaderWritten /\ Sound => Finished

\* The header's length stays with the plan and the table.
LEMMA HeaderBytesStay ==
  ASSUME job' = job, chunks' = chunks
  PROVE  HeaderBytes' = HeaderBytes
<1>1. LogicalFiles' = LogicalFiles /\ DzSegments' = DzSegments
  BY PlanStays
<1>2. HasDz' <=> HasDz
  BY <1>1 DEF HasDz
<1>3. PICK lists : lists = LogicalFiles
  OBVIOUS
<1> DEFINE sum == SumFunction([k \in DOMAIN lists |-> 2 + 2 * Len(lists[k]) + 2])
<1>4. HeaderBytes = (4 + 2 + 2 + 1) + job.strings + sum + (2 + 2)
                      + Len(chunks) * (4 + 4 + 4 + 2 + 2) + job.volume_strings
                      + (IF HasDz THEN 10 ELSE 0)
  BY <1>3 DEF HeaderBytes
<1>5. lists = LogicalFiles'
  BY <1>1, <1>3
<1>6. HeaderBytes' = (4 + 2 + 2 + 1) + job'.strings + sum + (2 + 2)
                      + Len(chunks') * (4 + 4 + 4 + 2 + 2) + job'.volume_strings
                      + (IF HasDz' THEN 10 ELSE 0)
  BY <1>5 DEF HeaderBytes
<1> HIDE DEF sum
<1>7. QED
  BY <1>2, <1>4, <1>6

\* Until the header is written there is none, nor if it is cut short.
LEMMA NoOtherHeader ==
  ASSUME IInv, Disk, Sound, step # "returned", [Next]_vars, ~WriteHeader
  PROVE  ~HeaderWritten'
<1>1. NoHeaderYet /\ IInv'
  BY NextIInv DEF IInv, HeaderLast
<1>2. Requested /\ ContentTyped /\ position \in [VolumeIds -> Nat]
  BY DEF IInv, TypeOK, Requested
<1>3. NoHeaderYet' => ~HeaderWritten'
  BY DEF NoHeaderYet, HeaderWritten
<1>4. CASE step' # "returned"
  BY <1>1, <1>3, <1>4 DEF IInv, HeaderLast
<1>5. CASE content' = content
  BY <1>1, <1>3, <1>5, ContentStays
<1>6. CASE WritePayload
  <2> DEFINE i == WriteOrder[cursor]
  <2>1. i \in Segments /\ loaded[i] \in Nat
    BY <1>6, NextLoaded
  <2>2. loaded[i] # NoLength
    BY <2>1 DEF NoLength
  <2>3. /\ WriteChunk(i) /\ step = "payload" /\ Valid /\ cursor >= 1
        /\ UNCHANGED <<job, batch, loaded>>
    BY <1>6 DEF WritePayload, IInv, Stages
  <2> HIDE DEF i
  <2>4. NoHeaderYet'
    BY <2>1, <2>2, <2>3, WriteChunkTyped
  <2>5. QED
    BY <1>3, <2>4
<1>7. CASE WriteCommon
  <2>1. CASE content' = content
    BY <1>5, <2>1
  <2>2. CASE Put(0, job.common, "common", 0)
    <3>1. Valid /\ HasCommon
      BY <1>7 DEF WriteCommon, IInv, Stages, CommonPending
    <3>2. Len(job.names) \in Nat /\ Len(job.names) >= 1
      BY <1>2, <3>1, VolumeParts DEF Valid
    <3>3. 0 \in VolumeIds /\ job.common \in Nat /\ 0 \in Nat
      BY <1>2, <3>1, <3>2, PlanSizes DEF VolumeIds
    <3>4. NoHeaderYet'
      BY <1>1, <1>2, <2>2, <3>3, PutTyped DEF Kinds
    <3>5. QED
      BY <1>3, <3>4
  <2>3. QED
    BY <1>7, <2>1, <2>2 DEF WriteCommon
<1>8. CASE HeaderCut
  <2>1. /\ step = "header" /\ Put(0, HeaderBytes - 1, "header", 0) /\ job' = job /\ chunks' = chunks
    BY <1>8 DEF HeaderCut
  <2>2. Valid /\ Len(chunks) = ChunkCount
    BY <2>1 DEF IInv, Stages, HeaderLast
  <2>3. HeaderBytes = HeaderSize /\ HeaderSize \in Nat \ {0}
    BY <1>2, <2>2, SectionsAddUp, PlanSizes
  <2>4. Len(job.names) \in Nat /\ Len(job.names) >= 1
    BY <1>2, <2>2, VolumeParts DEF Valid
  <2>5. 0 \in VolumeIds /\ Main \in Files
    BY <1>2, <2>4, VolumeParts DEF VolumeIds, Main
  <2>6. HeaderBytes' = HeaderBytes
    BY <2>1, HeaderBytesStay
  <2>7. position[0] = 0
    BY <2>1 DEF Disk
  <2> DEFINE n == HeaderBytes - 1
             at == [from |-> position[0], to |-> position[0] + n, kind |-> "header", index |-> 0]
  <2>8. n \in Nat /\ at.to = n /\ n # HeaderBytes /\ at \in Piece
    BY <2>3, <2>7 DEF Piece, Kinds
  <2>9. CASE n = 0
    <3>1. content' = content
      BY <2>1, <2>9 DEF Put
    <3>2. QED
      BY <1>5, <3>1
  <2>10. CASE n # 0
    <3>1. content' = [content EXCEPT ![Main] = Append(@, at)]
      BY <2>1, <2>10 DEF Put, Main
    <3> HIDE DEF at, n
    <3>2. content \in [Files -> Seq(Piece)]
      BY <1>2 DEF ContentTyped
    <3>3. \A f \in Files : content'[f] = IF f = Main THEN Append(content[f], at) ELSE content[f]
      BY <3>1, <3>2
    <3>4. \A f \in Files : \A k \in DOMAIN content'[f] :
            content'[f][k].kind = "header" => content'[f][k] = at
      <4> SUFFICES ASSUME NEW f \in Files, NEW k \in DOMAIN content'[f],
                          content'[f][k].kind = "header"
                   PROVE  content'[f][k] = at
        OBVIOUS
      <4>1. CASE f # Main
        BY <1>1, <3>3, <4>1 DEF NoHeaderYet
      <4>2. CASE f = Main
        <5> DEFINE P == Piece
                   w == content[f]
        <5>1. w \in Seq(P) /\ at \in P /\ content'[f] = Append(w, at)
          BY <2>8, <3>2, <3>3, <4>2
        <5>2. \A l \in DOMAIN w : w[l].kind # "header"
          BY <1>1 DEF NoHeaderYet
        <5> HIDE DEF P, w
        <5>3. /\ Append(w, at) \in Seq(P) /\ Len(Append(w, at)) = Len(w) + 1
              /\ (\A l \in 1 .. Len(w) : Append(w, at)[l] = w[l]) /\ Append(w, at)[Len(w) + 1] = at
          BY <5>1, AppendProperties
        <5>4. /\ DOMAIN w = 1 .. Len(w) /\ Len(w) \in Nat
              /\ DOMAIN Append(w, at) = 1 .. Len(w) + 1
          BY <5>1, <5>3, LenProperties
        <5>5. k \in 1 .. Len(w) \/ k = Len(w) + 1
          BY <5>1, <5>4
        <5>6. k \notin 1 .. Len(w)
          BY <5>1, <5>2, <5>3, <5>4
        <5>7. QED
          BY <5>1, <5>3, <5>5, <5>6
      <4>3. QED
        BY <4>1, <4>2
    <3>5. QED
      BY <2>6, <2>8, <3>4 DEF HeaderWritten
  <2>11. QED
    BY <2>9, <2>10
<1>9. QED
  <2>1. CASE content' # content /\ step' = "returned"
    <3>1. WritePayload \/ WriteCommon \/ HeaderCut
      BY <2>1 DEF Next, Work, Prepare, OpenVolume, LoadDz, EncodeDz, PlaceHeader, PadVolume,
                  EncodeSegment, PayloadsWritten, Fails, SourceGrows, Go, vars
    <3>2. QED
      BY <1>6, <1>7, <1>8, <3>1
  <2>2. QED
    BY <1>4, <1>5, <2>1

\* The records stay while the table does, whatever the pieces are.
LEMMA TableStays ==
  ASSUME job' = job, chunks' = chunks, NEW R, NEW body
  PROVE  Recorded(R, body)' <=> Recorded(R, body)
<1>1. VolumeIds' = VolumeIds /\ Count' = Count
  BY PlanStays
<1>2. \A j : PieceOf(j)' = PieceOf(j) /\ (Describes(j)' <=> Describes(j))
  BY <1>1 DEF PieceOf, Describes
<1>3. \A j \in R : Kept(j, body[chunks[j].file], R)' <=> Kept(j, body[chunks[j].file], R)
  BY <1>2 DEF Kept
<1>4. QED
  BY <1>1, <1>2, <1>3 DEF Recorded, Truthful, IsPhysicalBoundary, HasPlaceholderLength

\* WriteHeader: the pieces put down so far are the archive's, and the header is in front of them.
LEMMA WriteHeaderSeals ==
  ASSUME IInv, Disk, Sound, WriteHeader
  PROVE  Finished'
<1>1. /\ step = "header" /\ Put(0, HeaderBytes, "header", 0) /\ job' = job /\ chunks' = chunks
  BY DEF WriteHeader
<1>2. /\ Requested /\ ContentTyped /\ position \in [VolumeIds -> Nat] /\ Valid
      /\ Len(chunks) = ChunkCount
  BY <1>1 DEF IInv, TypeOK, Requested, Stages, HeaderLast
<1>3. HeaderBytes = HeaderSize /\ HeaderSize \in Nat \ {0}
  BY <1>2, SectionsAddUp, PlanSizes
<1>4. position[0] = 0 /\ (\A v \in VolumeIds : Stacked(Body[v], Floor(v))) /\ Recorded(DOMAIN chunks, Body)
  BY <1>1 DEF Disk
<1>5. PICK body : body = Body
  OBVIOUS
<1>6. /\ VolumeIds' = VolumeIds /\ (\A v : Floor(v)' = Floor(v)) /\ (Valid' <=> Valid)
      /\ ChunkCount' = ChunkCount /\ HeaderPiece' = HeaderPiece
      /\ \A v : VolumeFile(v)' = VolumeFile(v)
  BY <1>1, PlanStays DEF Floor, HeaderPiece
<1>7. 0 \in VolumeIds /\ \A v \in VolumeIds : VolumeFile(v) \in Files
  <2>1. Len(job.names) \in Nat /\ Len(job.names) >= 1
    BY <1>2, VolumeParts DEF Valid
  <2>2. QED
    BY <1>2, <2>1, VolumeParts DEF VolumeIds
<1>8. content' = [content EXCEPT ![VolumeFile(0)] = Append(@, HeaderPiece)]
  <2> DEFINE at == [from |-> position[0], to |-> position[0] + HeaderBytes, kind |-> "header", index |-> 0]
  <2>1. at = HeaderPiece
    BY <1>3, <1>4 DEF HeaderPiece
  <2>2. content' = [content EXCEPT ![VolumeFile(0)] = Append(@, at)]
    BY <1>1, <1>3 DEF Put
  <2>3. QED
    BY <2>1, <2>2
<1>9. \A v \in VolumeIds : body[v] \in Seq(Piece) /\ body[v] = content[VolumeFile(v)]
  BY <1>2, <1>5, <1>7 DEF Body, ContentTyped
<1>10. \A v \in VolumeIds : content'[VolumeFile(v)] = IF v = 0 THEN Append(body[0], HeaderPiece)
                                                               ELSE body[v]
  <2> TAKE v \in VolumeIds
  <2>1. DOMAIN content = Files
    BY <1>2 DEF ContentTyped
  <2>2. VolumeFile(v) = VolumeFile(0) => v = 0
    BY <1>7 DEF Sound
  <2> DEFINE h == HeaderPiece
  <2>3. content' = [content EXCEPT ![VolumeFile(0)] = Append(@, h)]
    BY <1>8
  <2> HIDE DEF h
  <2>4. content'[VolumeFile(v)] = IF v = 0 THEN Append(content[VolumeFile(0)], h)
                                           ELSE content[VolumeFile(v)]
    BY <1>7, <2>1, <2>2, <2>3
  <2>5. QED
    BY <1>7, <1>9, <2>4 DEF h
<1>11. Recorded(DOMAIN chunks, body)'
  <2>1. PICK R : R = DOMAIN chunks
    OBVIOUS
  <2>2. Recorded(R, body)
    BY <1>4, <1>5, <2>1
  <2>3. Recorded(R, body)'
    BY <1>1, <2>2, TableStays
  <2>4. R = DOMAIN chunks'
    BY <1>1, <2>1
  <2>5. QED
    BY <2>3, <2>4 DEF Recorded, Kept
<1>12. \A v \in VolumeIds : Stacked(body[v], Floor(v))
  BY <1>4, <1>5
<1>13. Complete(body)'
  BY <1>1, <1>2, <1>6, <1>9, <1>10, <1>11, <1>12 DEF Complete, Stacked
<1>14. QED
  BY <1>13 DEF Finished

\* After the call nothing is written any more.
LEMMA ReturnedStays ==
  ASSUME step = "returned", [Next]_vars
  PROVE  UNCHANGED vars
BY DEF Next, Work, Prepare, OpenVolume, LoadDz, EncodeDz, PlaceHeader, PadVolume, EncodeSegment,
       WritePayload, WriteCommon, PayloadsWritten, WriteHeader, Fails, HeaderCut, SourceGrows

\* Every step keeps a header on disk the header of a complete archive.
LEMMA NextSealed ==
  ASSUME IInv, Disk, Sealed, [Next]_vars
  PROVE  Sealed'
<1>1. job' = job
  BY DEF Next, Work, Prepare, OpenVolume, LoadDz, EncodeDz, PlaceHeader, PadVolume, EncodeSegment,
         WritePayload, WriteCommon, PayloadsWritten, WriteHeader, Fails, HeaderCut, SourceGrows, vars
<1> SUFFICES ASSUME Sound PROVE HeaderWritten' => Finished'
  BY <1>1, BodyStays DEF Sealed
<1>2. CASE step # "returned" /\ WriteHeader
  BY <1>2, WriteHeaderSeals
<1>3. CASE step # "returned" /\ ~WriteHeader
  BY <1>3, NoOtherHeader
<1>4. CASE step = "returned"
  <2>1. content' = content /\ chunks' = chunks
    BY <1>4, ReturnedStays DEF vars
  <2>2. HeaderBytes' = HeaderBytes
    BY <1>1, <2>1, HeaderBytesStay
  <2>3. HeaderWritten' <=> HeaderWritten
    BY <2>1, <2>2 DEF HeaderWritten
  <2> SUFFICES ASSUME Finished PROVE Finished'
    BY <2>3 DEF Sealed
  <2>4. PICK body : Complete(body)
    BY DEF Finished
  <2>5. /\ VolumeIds' = VolumeIds /\ (\A v : Floor(v)' = Floor(v)) /\ (Valid' <=> Valid)
        /\ ChunkCount' = ChunkCount /\ HeaderPiece' = HeaderPiece
        /\ \A v : VolumeFile(v)' = VolumeFile(v)
    BY <1>1, PlanStays DEF Floor, HeaderPiece
  <2>6. Recorded(DOMAIN chunks, body)'
    <3>1. PICK R : R = DOMAIN chunks
      OBVIOUS
    <3>2. Recorded(R, body)
      BY <2>4, <3>1 DEF Complete
    <3>3. Recorded(R, body)'
      BY <1>1, <2>1, <3>2, TableStays
    <3>4. R = DOMAIN chunks'
      BY <2>1, <3>1
    <3>5. QED
      BY <3>3, <3>4 DEF Recorded, Kept
  <2>7. Complete(body)'
    BY <2>1, <2>4, <2>5, <2>6 DEF Complete, Stacked
  <2>8. QED
    BY <2>7 DEF Finished
<1>5. QED
  BY <1>2, <1>3, <1>4

\* For every request that is Sound: whoever finds a header in the main volume, even of a
\* call that was cut off right after it, finds an archive the reader opens, and every
\* chunk, by the span the reader resolves for it, decodes to what was packed.
THEOREM ReadsBackWhatItPacked == Spec => []ReadsBack
<1>1. Init => Placed /\ Disk /\ Sealed
  <2>1. Init => IInv
    BY InitIInv
  <2>2. Init => ~HeaderWritten
    <3> SUFFICES ASSUME Init PROVE ~HeaderWritten
      OBVIOUS
    <3>1. NoHeaderYet
      BY <2>1 DEF Init, IInv, HeaderLast
    <3>2. QED
      BY <3>1 DEF NoHeaderYet, HeaderWritten
  <2>3. QED
    BY <2>2, InitPlaced, InitDisk DEF Sealed
<1>2. IInv /\ Sealed => ReadsBack
  BY FinishedReads DEF Sealed, ReadsBack
<1>3. QED
  BY <1>1, <1>2, InitIInv, NextIInv, NextPlaced, NextDisk, NextSealed, PTL DEF Spec
=============================================================================
