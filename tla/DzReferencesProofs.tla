-------------------------- MODULE DzReferencesProofs --------------------------
(***************************************************************************)
(* What holds of the DZ chunk coder for every chunk whose references are   *)
(* sound, every choice of the match finder and every range settings: the   *)
(* parser follows the encoder, the decoder asks for each symbol with the   *)
(* model it was encoded with, and the right attempt gives back the chunk.  *)
(* Then, for every archive: the analysis hands over such chunks only.      *)
(***************************************************************************)
EXTENDS DzReferences, Sums

-----------------------------------------------------------------------------
(* Where the match finder must stop, and what it finds *)

EventsFrom(p) ==
  {Size} \cup {r.position : r \in {q \in Range(job.references) : q.position >= p}}
         \cup {b \in job.boundaries : b >= p}

\* The fields of a sound chunk.
LEMMA JobFields ==
  ASSUME SoundJob(job)
  PROVE  /\ Size \in Nat
         /\ \A i \in 1 .. Size : job.input[i] \in 0 .. 255
         /\ job.boundaries \subseteq 0 .. Size - 1
         /\ \A r \in Range(job.references) :
              /\ r.position \in Nat /\ r.length \in Nat /\ r.length > 0
              /\ r.position + r.length <= Size
<1>1. /\ job.input \in Seq(0 .. 255) /\ job.boundaries \subseteq 0 .. Len(job.input) - 1
      /\ job.references \in Seq([position : Nat, length : Nat, segment : Nat])
  BY DEF SoundJob
<1>2. Size \in Nat /\ \A i \in 1 .. Size : job.input[i] \in 0 .. 255
  <2> DEFINE s == job.input
             B == 0 .. 255
  <2>1. s \in Seq(B)
    BY <1>1
  <2> HIDE DEF s, B
  <2>2. Len(s) \in Nat /\ \A i \in 1 .. Len(s) : s[i] \in B
    BY <2>1, LenProperties, ElementOfSeq
  <2>3. QED
    BY <2>2 DEF Size, s, B
<1>3. ASSUME NEW r \in Range(job.references)
      PROVE  /\ r.position \in Nat /\ r.length \in Nat /\ r.length > 0
             /\ r.position + r.length <= Size
  <2>1. PICK i \in DOMAIN job.references : r = job.references[i]
    BY DEF Range
  <2>2. r \in [position : Nat, length : Nat, segment : Nat]
    <3> DEFINE s == job.references
               R == [position : Nat, length : Nat, segment : Nat]
    <3>1. s \in Seq(R) /\ i \in DOMAIN s /\ r = s[i]
      BY <1>1, <2>1
    <3> HIDE DEF s, R
    <3>2. s[i] \in R
      BY <3>1, LenProperties, ElementOfSeq
    <3>3. QED
      BY <3>1, <3>2 DEF R
  <2>3. r.length >= Settings.bigMinMatch /\ r.position + r.length <= Len(job.input)
    <3>1. \A k \in DOMAIN job.references :
            /\ job.references[k].length >= Settings.bigMinMatch
            /\ job.references[k].position + job.references[k].length <= Len(job.input)
      BY Zenon DEF SoundJob
    <3>2. QED
      BY <2>1, <3>1
  <2>4. Settings.bigMinMatch \in Nat \ {0}
    BY SettingsAssumption
  <2>5. QED
    BY <2>2, <2>3, <2>4 DEF Size
<1>4. QED
  BY <1>1, <1>2, <1>3 DEF Size

\* The next event is the least of them, and none is behind the chunk.
LEMMA NextEventIs ==
  ASSUME SoundJob(job), position \in 0 .. Size
  PROVE  /\ NextEvent \in EventsFrom(position) /\ NextEvent \in position .. Size
         /\ \A e \in EventsFrom(position) : NextEvent <= e
<1>1. EventsFrom(position) \subseteq position .. Size /\ Size \in EventsFrom(position)
  BY JobFields DEF EventsFrom
<1>2. PICK m \in EventsFrom(position) : \A e \in EventsFrom(position) : m <= e
  <2>1. EventsFrom(position) \subseteq Nat
    BY <1>1, JobFields
  <2>2. QED
    BY <1>1, <2>1, LeastNatural
<1>3. NextEvent = Min(EventsFrom(position))
  BY DEF NextEvent, EventsFrom
<1> HIDE DEF EventsFrom
<1>4. NextEvent \in EventsFrom(position) /\ \A e \in EventsFrom(position) : NextEvent <= e
  BY <1>2, <1>3 DEF Min
<1>5. QED
  BY <1>1, <1>4

\* The bytes that are found equal are equal.
LEMMA EqualBytesAre ==
  ASSUME SoundJob(job), NEW at \in 0 .. Size, NEW distance \in Int
  PROVE  /\ EqualBytes(at, distance) \in Nat /\ EqualBytes(at, distance) <= MaxMatch
         /\ \A i \in 1 .. EqualBytes(at, distance) :
              job.input[at + i] = job.input[at + i - distance]
<1> DEFINE M == {MaxMatch, Size - at}
           E == {n \in 0 .. Min(M) :
                   \A i \in 1 .. n : job.input[at + i] = job.input[at + i - distance]}
<1>1. MaxMatch \in Nat /\ Size - at \in Nat
  BY SettingsAssumption, JobFields DEF MinMatch
<1>2. Min(M) \in Nat /\ Min(M) <= MaxMatch
  <2>1. M \subseteq Nat /\ M # {} /\ MaxMatch \in M
    BY <1>1
  <2> HIDE DEF M
  <2>2. PICK m \in M : \A y \in M : m <= y
    BY <2>1, LeastNatural
  <2>3. QED
    BY <2>1, <2>2 DEF Min
<1> DEFINE top == Min(M)
<1>3. 0 \in E /\ E \subseteq 0 .. top /\ top \in Nat /\ top <= MaxMatch
  BY <1>2
<1>5. EqualBytes(at, distance) = Max(E)
  BY DEF EqualBytes
<1>6. Max(E) \in E
  <2> HIDE DEF E, top
  <2>1. E \subseteq Nat /\ E # {}
    BY <1>3
  <2>2. IsFiniteSet(0 .. top)
    BY <1>3, FS_Interval
  <2>3. IsFiniteSet(E)
    BY <1>3, <2>2, FS_Subset
  <2>4. QED
    BY <2>1, <2>3, GreatestNatural
<1>7. Max(E) \in Nat /\ Max(E) <= MaxMatch
  <2>1. PICK x : x = Max(E)
    BY Zenon
  <2> HIDE DEF E, top
  <2>2. x \in 0 .. top
    BY <1>3, <1>6, <2>1
  <2>3. QED
    BY <1>1, <1>3, <2>1, <2>2
<1>8. QED
  BY <1>5, <1>6, <1>7

\* A match that is found is of equal bytes, and ends before the next event.
LEMMA FoundIs ==
  ASSUME SoundJob(job), position \in 0 .. Size, chains \subseteq Nat,
         NEW at \in Nat, at < NextEvent, NEW m \in Found(at)
  PROVE  /\ m \in [length : Nat \ {0}, distance : Nat]
         /\ m.length >= MinMatch =>
              /\ m.length <= MaxMatch /\ m.distance \in 1 .. at /\ at + m.length <= NextEvent
              /\ \A i \in 1 .. m.length : job.input[at + i] = job.input[at + i - m.distance]
<1>1. NextEvent \in 0 .. Size /\ Size \in Nat
  BY NextEventIs, JobFields
<1>2. CASE m = NotFound
  BY <1>2 DEF NotFound, Match, MinMatch
<1>3. ASSUME NEW from \in chains, from < at, EqualBytes(at, at - from) >= MinMatch,
             m = Match(Min({EqualBytes(at, at - from), NextEvent - at}), at - from)
      PROVE  /\ m \in [length : Nat \ {0}, distance : Nat]
             /\ m.length <= MaxMatch /\ m.distance \in 1 .. at /\ at + m.length <= NextEvent
             /\ \A i \in 1 .. m.length : job.input[at + i] = job.input[at + i - m.distance]
  <2> DEFINE e == EqualBytes(at, at - from)
             M == {e, NextEvent - at}
  <2>1. at - from \in 1 .. at /\ at - from \in Nat /\ at \in 0 .. Size
    BY <1>1, <1>3
  <2>2. /\ e \in Nat /\ e >= 2 /\ e <= MaxMatch
        /\ \A i \in 1 .. e : job.input[at + i] = job.input[at + i - (at - from)]
    <3>1. /\ EqualBytes(at, at - from) \in Nat /\ EqualBytes(at, at - from) <= MaxMatch
          /\ \A i \in 1 .. EqualBytes(at, at - from) :
               job.input[at + i] = job.input[at + i - (at - from)]
      <4>1. PICK d : d = at - from
        BY Zenon
      <4>2. d \in Int
        BY <2>1, <4>1
      <4>3. QED
        BY <2>1, <4>1, <4>2, EqualBytesAre, Zenon
    <3>2. QED
      BY <1>3, <3>1 DEF MinMatch
  <2>3. NextEvent - at \in Nat \ {0}
    BY <1>1
  <2> HIDE DEF e
  <2>4. Min(M) \in Nat \ {0} /\ Min(M) <= e /\ Min(M) <= NextEvent - at
    <3>1. M \subseteq Nat \ {0} /\ M # {} /\ e \in M /\ NextEvent - at \in M
      BY <2>2, <2>3
    <3> HIDE DEF M
    <3>2. PICK k \in M : \A y \in M : k <= y
      BY <3>1, LeastNatural
    <3>3. Min(M) \in M /\ \A y \in M : Min(M) <= y
      BY <3>2 DEF Min
    <3>4. QED
      BY <3>1, <3>3
  <2>5. m = Match(Min(M), at - from)
    BY <1>3 DEF e
  <2> HIDE DEF M
  <2>6. m.length = Min(M) /\ m.distance = at - from /\ m \in [length : Nat \ {0}, distance : Nat]
    BY <2>1, <2>4, <2>5 DEF Match
  <2>7. m.length <= MaxMatch /\ m.distance \in 1 .. at /\ at + m.length <= NextEvent
    <3>1. MaxMatch \in Nat
      BY SettingsAssumption DEF MinMatch
    <3>2. QED
      BY <1>1, <2>1, <2>2, <2>4, <2>6, <3>1
  <2>8. \A i \in 1 .. m.length : job.input[at + i] = job.input[at + i - m.distance]
    BY <2>2, <2>4, <2>6
  <2>9. QED
    BY <2>6, <2>7, <2>8
<1>4. QED
  BY <1>2, <1>3 DEF Found

-----------------------------------------------------------------------------
(* The parser *)

\* Besides what ParserFollows says: the chunk is sound, and the counters count.
Encoding ==
  /\ SoundJob(job) /\ position \in 0 .. Size /\ search \in Nat
  /\ pending \in [length : Nat, distance : Nat]

\* The inductive invariant: ParserFollows of a chunk that is sound.
PInv == phase = "encode" => Encoding /\ ParserFollows

\* What is inserted next keeps the chains at what is behind the search.
LEMMA InsertedIs ==
  ASSUME Encoding, chains = {p \in 1 .. search - 1 : p + MinMatch <= Size},
         NEW from \in Nat, NEW to \in Nat, from <= search, search <= to + 1
  PROVE  Inserted(from .. to) = {p \in 1 .. to : p + MinMatch <= Size}
<1>1. Size \in Nat /\ search \in Nat
  BY JobFields DEF Encoding
<1>2. QED
  BY <1>1 DEF Inserted, MinMatch

\* A step after which nothing is pending.
LEMMA NothingPending ==
  ASSUME Encoding, job' = job, pending' = NoPending, search' = position', position' \in 0 .. Size,
         chains' = {p \in 1 .. search' - 1 : p + MinMatch <= Size}
  PROVE  PInv'
<1>1. Size \in Nat /\ Size' = Size
  BY JobFields DEF Encoding, Size
<1>2. Encoding'
  <2>1. SoundJob(job')
    BY DEF Encoding
  <2>2. position' \in 0 .. Size' /\ search' \in Nat
    BY <1>1
  <2>3. pending' \in [length : Nat, distance : Nat]
    BY DEF NoPending, Match
  <2>4. QED
    BY <2>1, <2>2, <2>3 DEF Encoding
<1>3. /\ position' = IF pending' = NoPending THEN search' ELSE search' - 1
      /\ chains' = {p \in 1 .. search' - 1 : p + MinMatch <= Size'}
  BY <1>1
<1>4. pending'.length = 0 /\ ~(pending'.length >= MinMatch)
  BY DEF NoPending, Match, MinMatch
<1>5. ParserFollows'
  BY <1>3, <1>4, Zenon DEF ParserFollows
<1>6. QED
  BY <1>2, <1>5 DEF PInv

\* A step after which what was found at the search, with no event passed, is pending.
LEMMA FoundPending ==
  ASSUME Encoding, job' = job, position' = search,
         NextEvent' = NextEvent, search < NextEvent, search' = search + 1,
         chains = {p \in 1 .. search - 1 : p + MinMatch <= Size},
         chains' = Inserted({search}), pending' \in Found(search)
  PROVE  PInv'
<1>1. Size \in Nat /\ Size' = Size /\ search \in Nat /\ NextEvent \in position .. Size /\ position \in Nat
  BY JobFields, NextEventIs DEF Encoding, Size
<1>2. chains \subseteq Nat
  OBVIOUS
<1>3. /\ pending' \in [length : Nat \ {0}, distance : Nat]
      /\ pending'.length >= MinMatch =>
           /\ search + pending'.length <= NextEvent
           /\ \A i \in 1 .. pending'.length :
                job.input[search + i] = job.input[search + i - pending'.distance]
  <2>1. PICK m : m = pending'
    BY Zenon
  <2>2. /\ m \in [length : Nat \ {0}, distance : Nat]
        /\ m.length >= MinMatch =>
             /\ search + m.length <= NextEvent
             /\ \A i \in 1 .. m.length :
                  job.input[search + i] = job.input[search + i - m.distance]
    BY <1>1, <1>2, <2>1, FoundIs DEF Encoding
  <2>3. QED
    BY <2>1, <2>2, Zenon
<1>4. position' = search' - 1 /\ position' \in 0 .. Size' /\ search' \in Nat
  <2>1. PICK k : k = search
    BY Zenon
  <2>2. position' = k /\ search' = k + 1 /\ k \in Nat /\ k \in 0 .. Size
    BY <1>1, <2>1
  <2>3. k = (k + 1) - 1 /\ k + 1 \in Nat
    BY <2>2
  <2>4. QED
    BY <1>1, <2>2, <2>3, Zenon
<1>5. Encoding'
  <2>1. SoundJob(job')
    BY DEF Encoding
  <2>2. position' \in 0 .. Size' /\ search' \in Nat
    BY <1>1, <1>4
  <2>3. pending' \in [length : Nat, distance : Nat]
    BY <1>3
  <2>4. QED
    BY <2>1, <2>2, <2>3 DEF Encoding
<1>6. pending' # NoPending
  BY <1>3 DEF NoPending, Match
<1>7. chains' = {p \in 1 .. search' - 1 : p + MinMatch <= Size'}
  <2>1. PICK k : k = search
    BY Zenon
  <2>2. k \in Nat /\ {k} = k .. k /\ k <= k /\ k <= k + 1 /\ search' - 1 = k
    BY <1>1, <2>1
  <2>3. Inserted(k .. k) = {p \in 1 .. k : p + MinMatch <= Size}
    BY <2>1, <2>2, InsertedIs
  <2>4. QED
    BY <1>1, <2>1, <2>2, <2>3
<1>8. pending'.length >= MinMatch =>
           /\ position' + pending'.length <= NextEvent'
           /\ \A i \in 1 .. pending'.length :
                job'.input[position' + i] = job'.input[position' + i - pending'.distance]
  BY <1>3, Zenon
<1>9. ParserFollows'
  BY <1>6, <1>7, <1>4, <1>8, Zenon DEF ParserFollows
<1>10. QED
  BY <1>5, <1>9 DEF PInv

\* EncodeBoundary writes the literal and moves past it.
LEMMA BoundaryStep ==
  ASSUME PInv, EncodeBoundary PROVE PInv'
<1>1. /\ Encoding /\ ParserFollows /\ position \in job.boundaries /\ job' = job
      /\ position' = position + 1 /\ search' = position + 1 /\ pending' = NoPending
      /\ chains' = Inserted({position}) /\ phase = "encode"
  BY DEF PInv, EncodeBoundary, AtBoundary, Emit
<1>2. /\ position \in Nat /\ position + 1 \in 0 .. Size /\ search \in Nat
      /\ position <= search /\ search <= position + 1
  BY <1>1, JobFields DEF Encoding, ParserFollows
<1>3. PICK k : k = position
  BY Zenon
<1>4. Inserted(k .. k) = {p \in 1 .. k : p + MinMatch <= Size}
  BY <1>1, <1>2, <1>3, InsertedIs DEF ParserFollows
<1>5. {k} = k .. k /\ k = search' - 1 /\ search' = position'
  BY <1>1, <1>2, <1>3
<1>6. chains' = {p \in 1 .. search' - 1 : p + MinMatch <= Size}
  BY <1>1, <1>3, <1>4, <1>5
<1>7. QED
  BY <1>1, <1>2, <1>6, NothingPending

\* FindMatch leaves a match of the bytes at the position, or none, pending.
LEMMA FindStep ==
  ASSUME PInv, FindMatch PROVE PInv'
<1>1. /\ Encoding /\ ParserFollows /\ pending = NoPending /\ search < NextEvent
      /\ pending' \in Found(search) /\ search' = search + 1 /\ chains' = Inserted({search})
      /\ job' = job /\ position' = position /\ phase = "encode"
  BY DEF PInv, FindMatch, Parsing
<1>2. search = position /\ chains = {p \in 1 .. search - 1 : p + MinMatch <= Size}
  BY <1>1 DEF ParserFollows
<1>3. NextEvent' = NextEvent
  BY <1>1 DEF NextEvent, Size
<1>4. QED
  BY <1>1, <1>2, <1>3, FoundPending

\* EncodeMatch moves by the length of the match.
LEMMA MatchStep ==
  ASSUME PInv, EncodeMatch PROVE PInv'
<1>1. /\ Encoding /\ ParserFollows /\ Parsing /\ pending.length >= MinMatch /\ phase = "encode"
      /\ position' = position + pending.length /\ search' = search + pending.length - 1
      /\ pending' = NoPending /\ job' = job
      /\ chains' = Inserted(search .. search + pending.length - 2)
  BY DEF PInv, EncodeMatch, Parsing, Emit
<1>2. PICK n : n = pending.length
  BY Zenon
<1>3. /\ n \in Nat /\ n >= 2 /\ search = position + 1 /\ position + n <= NextEvent
      /\ position \in Nat /\ search \in Nat /\ NextEvent \in 0 .. Size /\ Size \in Nat
  <2>1. position \in 0 .. Size /\ search \in Nat /\ pending.length \in Nat
    BY <1>1 DEF Encoding
  <2>2. Size \in Nat /\ NextEvent \in position .. Size
    BY <1>1, JobFields, NextEventIs DEF Encoding
  <2>3. pending # NoPending
    BY <1>1 DEF NoPending, Match, MinMatch
  <2>4. search - 1 = position /\ position + pending.length <= NextEvent
    BY <1>1, <2>3 DEF ParserFollows
  <2>5. pending.length >= 2
    BY <1>1 DEF MinMatch
  <2>6. QED
    BY <1>2, <2>1, <2>2, <2>4, <2>5
<1>4. PICK k : k = search + n - 2
  BY Zenon
<1>5. k \in Nat /\ search <= search /\ search <= k + 1
  BY <1>3, <1>4
<1>6. Inserted(search .. k) = {p \in 1 .. k : p + MinMatch <= Size}
  BY <1>1, <1>3, <1>5, InsertedIs DEF ParserFollows
<1>7. search' - 1 = k /\ search' = position' /\ position' \in 0 .. Size
  <2>1. PICK p : p = position
    BY Zenon
  <2>2. PICK s : s = search
    BY Zenon
  <2>3. s + n - 1 = p + n /\ (p + n) - 1 = s + n - 2 /\ p + n \in 0 .. Size
    BY <1>3, <2>1, <2>2
  <2>4. search' = s + n - 1 /\ position' = p + n /\ k = s + n - 2
    BY <1>1, <1>2, <1>4, <2>1, <2>2
  <2>5. QED
    BY <2>3, <2>4, Zenon
<1>8. chains' = {p \in 1 .. search' - 1 : p + MinMatch <= Size}
  BY <1>1, <1>2, <1>4, <1>6, <1>7
<1>9. QED
  BY <1>1, <1>7, <1>8, NothingPending

\* EncodeLiteral writes the byte before the search, and what is found there is pending.
LEMMA LiteralStep ==
  ASSUME PInv, EncodeLiteral PROVE PInv'
<1>1. /\ Encoding /\ ParserFollows /\ pending # NoPending /\ search < NextEvent
      /\ pending' \in Found(search) /\ search' = search + 1 /\ chains' = Inserted({search})
      /\ job' = job /\ position' = position + (search - position) /\ phase = "encode"
  BY DEF PInv, EncodeLiteral, Parsing, Emit
<1>2. search = position + 1 /\ chains = {p \in 1 .. search - 1 : p + MinMatch <= Size}
      /\ position \in Nat /\ search \in Nat
  BY <1>1 DEF ParserFollows, Encoding
<1>3. position' = search
  <2>1. PICK p : p = position
    BY Zenon
  <2>2. p + ((p + 1) - p) = p + 1
    BY <1>2, <2>1
  <2>3. QED
    BY <1>1, <1>2, <2>1, <2>2
<1>4. EventsFrom(search) = EventsFrom(position)
  <2>1. /\ \A e \in EventsFrom(position) : NextEvent <= e
        /\ NextEvent \in Nat /\ Size \in Nat
    BY <1>1, NextEventIs, JobFields DEF Encoding
  <2>2. ASSUME NEW e \in Int PROVE e >= position <=> e >= search \/ e = position
    BY <1>2
  <2>3. position \notin EventsFrom(position)
    BY <1>1, <1>2, <2>1
  <2>4. /\ \A r \in Range(job.references) : r.position \in Nat /\ r.position # position
        /\ \A b \in job.boundaries : b \in Nat /\ b # position
    BY <1>1, <1>2, <2>3, JobFields DEF Encoding, EventsFrom
  <2>5. /\ \A r \in Range(job.references) : r.position >= position <=> r.position >= search
        /\ \A b \in job.boundaries : b >= position <=> b >= search
    BY <1>2, <2>4
  <2>6. QED
    BY <2>5, Zenon DEF EventsFrom
<1>5. NextEvent' = NextEvent
  <2>1. NextEvent' = Min(EventsFrom(position)')
    BY DEF NextEvent, EventsFrom
  <2>2. EventsFrom(position)' = EventsFrom(search)
    BY <1>1, <1>3 DEF EventsFrom, Size
  <2>3. QED
    BY <1>4, <2>1, <2>2 DEF NextEvent, EventsFrom
<1>6. QED
  BY <1>1, <1>2, <1>3, <1>5, FoundPending

\* EncodeLastLiteral writes the byte before the search.
LEMMA LastLiteralStep ==
  ASSUME PInv, EncodeLastLiteral PROVE PInv'
<1>1. /\ Encoding /\ ParserFollows /\ pending # NoPending /\ position < Size /\ phase = "encode"
      /\ position' = position + (search - position) /\ search' = search /\ chains' = chains
      /\ pending' = NoPending /\ job' = job
  BY DEF PInv, EncodeLastLiteral, Parsing, Emit
<1>2. search = position + 1 /\ chains = {p \in 1 .. search - 1 : p + MinMatch <= Size}
      /\ position \in Nat /\ Size \in Nat
  BY <1>1, JobFields DEF ParserFollows, Encoding
<1>3. position' = search /\ search \in 0 .. Size
  <2>1. PICK p : p = position
    BY Zenon
  <2>2. p + ((p + 1) - p) = p + 1 /\ p + 1 \in 0 .. Size
    BY <1>1, <1>2, <2>1
  <2>3. QED
    BY <1>1, <1>2, <2>1, <2>2
<1>4. QED
  BY <1>1, <1>2, <1>3, NothingPending

\* EncodeReference moves past the reference.
LEMMA ReferenceStep ==
  ASSUME PInv, EncodeReference PROVE PInv'
<1>1. /\ Encoding /\ ParserFollows /\ phase = "encode"
  BY DEF PInv, EncodeReference, AtReference
<1>2. PICK r \in Range(job.references) :
        /\ r.position = position /\ position' = position + r.length
        /\ search' = position + r.length /\ pending' = NoPending /\ job' = job
        /\ chains' = Inserted(position .. position + r.length - 1)
  BY DEF EncodeReference, ReferencesHere, Emit
<1>3. PICK n : n = r.length
  BY Zenon
<1>4. /\ n \in Nat \ {0} /\ position \in Nat /\ position + n \in 0 .. Size /\ search \in Nat
      /\ position <= search /\ search <= position + 1
  <2>1. position \in 0 .. Size /\ search \in Nat /\ Size \in Nat
    BY <1>1, JobFields DEF Encoding
  <2>2. n \in Nat /\ n > 0 /\ position + n <= Size
    BY <1>1, <1>2, <1>3, JobFields DEF Encoding
  <2>3. position = search \/ position = search - 1
    BY <1>1 DEF ParserFollows
  <2>4. QED
    BY <2>1, <2>2, <2>3
<1>5. PICK k : k = position + n - 1
  BY Zenon
<1>6. k \in Nat /\ search <= k + 1 /\ (position + n) - 1 = k
  BY <1>4, <1>5
<1>7. Inserted(position .. k) = {p \in 1 .. k : p + MinMatch <= Size}
  BY <1>1, <1>4, <1>6, InsertedIs DEF ParserFollows
<1>8. search' = position' /\ position' \in 0 .. Size /\ search' - 1 = k
  BY <1>2, <1>3, <1>4, <1>6
<1>9. chains' = {p \in 1 .. search' - 1 : p + MinMatch <= Size}
  BY <1>2, <1>3, <1>5, <1>7, <1>8
<1>10. QED
  BY <1>1, <1>2, <1>8, <1>9, NothingPending

\* What decodes never encodes again.
LEMMA DecodingStep ==
  ASSUME PInv, EncodeEnd \/ DecodeLiteral \/ DecodeMatch \/ DecodeReference \/ DecodeEnd
  PROVE  PInv'
<1>1. CASE EncodeEnd
  BY <1>1 DEF EncodeEnd, PInv
<1>2. GiveUp /\ phase = "decode" => phase' # "encode"
  BY DEF GiveUp, EndAs
<1>3. CASE DecodeLiteral
  BY <1>2, <1>3 DEF DecodeLiteral, Reads, Produce, PInv
<1>4. CASE DecodeMatch
  BY <1>2, <1>4 DEF DecodeMatch, Reads, EndAs, Produce, PInv
<1>5. CASE DecodeReference
  <2>1. phase = "decode"
    BY <1>5, Zenon DEF DecodeReference, Reads
  <2>2. EndAs("out of step") \/ \E length, target : CopyReference(length, target)
    BY <1>5, Zenon DEF DecodeReference
  <2>3. ASSUME NEW length, NEW target, CopyReference(length, target)
        PROVE  GiveUp \/ phase' = phase
    BY <2>3 DEF CopyReference, Produce
  <2>4. QED
    BY <1>2, <2>1, <2>2, <2>3 DEF EndAs, PInv
<1>6. CASE DecodeEnd
  BY <1>2, <1>6 DEF DecodeEnd, Reads, EndAs, PInv
<1>7. QED
  BY <1>1, <1>3, <1>4, <1>5, <1>6

\* No byte of a chunk is encoded yet.
Fresh ==
  /\ attempt = 1 /\ position = 0 /\ recent = NoOffsets /\ bases = NoBases
  /\ search = 0 /\ pending = NoPending /\ chains = {}
  /\ stream = <<>> /\ cursor = 0 /\ output = <<>> /\ trail = <<>>

\* The invariant of a chunk that is sound and not begun.
LEMMA BegunPInv == Fresh /\ phase = "encode" /\ SoundJob(job) => PInv
<1> SUFFICES ASSUME Fresh, phase = "encode", SoundJob(job) PROVE PInv
  OBVIOUS
<1>1. Size \in Nat
  BY JobFields
<1>2. Encoding
  BY <1>1 DEF Fresh, Encoding, NoPending, Match
<1>3. ParserFollows
  BY DEF Fresh, ParserFollows, NoPending, Match, MinMatch
<1>4. QED
  BY <1>2, <1>3 DEF PInv

\* It holds before the first step.
LEMMA InitPInv == Init => PInv
<1> SUFFICES ASSUME Init PROVE PInv
  OBVIOUS
<1>1. Fresh /\ phase = "encode" /\ SoundJob(job)
  BY JobsAssumption DEF Init, Fresh
<1>2. QED
  BY <1>1, BegunPInv

\* Every step keeps it.
LEMMA PInvStep == PInv /\ [Next]_vars => PInv'
<1> SUFFICES ASSUME PInv, [Next]_vars PROVE PInv'
  OBVIOUS
<1>1. CASE EncodeBoundary
  BY <1>1, BoundaryStep
<1>2. CASE FindMatch
  BY <1>2, FindStep
<1>3. CASE EncodeMatch
  BY <1>3, MatchStep
<1>4. CASE EncodeLiteral
  BY <1>4, LiteralStep
<1>5. CASE EncodeLastLiteral
  BY <1>5, LastLiteralStep
<1>6. CASE EncodeReference
  BY <1>6, ReferenceStep
<1>7. CASE EncodeEnd \/ DecodeLiteral \/ DecodeMatch \/ DecodeReference \/ DecodeEnd
  BY <1>7, DecodingStep
<1>8. CASE UNCHANGED vars
  BY <1>8 DEF vars, parser, PInv, Encoding, ParserFollows, Size, NextEvent
<1>9. QED
  BY <1>1, <1>2, <1>3, <1>4, <1>5, <1>6, <1>7, <1>8 DEF Next

\* The lazy parser and the encoder stay together, and a pending match is always one of
\* equal bytes that ends before the next reference and the next segment start: for every
\* chunk with sound references, whatever the match finder picks from its chains.
THEOREM ParserFollowsTheEncoder == Spec => []ParserFollows
<1>1. PInv => ParserFollows
  BY DEF PInv, ParserFollows
<1>2. QED
  BY InitPInv, PInvStep, <1>1, PTL DEF Spec

-----------------------------------------------------------------------------
(* Numbers in groups *)

\* g is v in groups: q are the quotients, the first of them v, the last below c.
InGroups(v, c, g, q) ==
  /\ g \in Seq(Nat) /\ q \in Seq(Nat) /\ Len(g) = Len(q) /\ Len(q) > 0
  /\ q[1] = v /\ q[Len(q)] < c
  /\ \A n \in 1 .. Len(q) : g[n] = (q[n] % c) + (IF n < Len(q) THEN c ELSE 0)
  /\ \A n \in 1 .. Len(q) - 1 : q[n + 1] = q[n] \div c

\* What a quotient and a remainder are.
LEMMA Division ==
  ASSUME NEW c \in Nat \ {0, 1}, NEW v \in Nat
  PROVE  /\ v % c \in 0 .. c - 1 /\ v \div c \in Nat /\ v = c * (v \div c) + (v % c)
         /\ v < c => v % c = v
         /\ v >= c => v \div c < v
<1> DEFINE d == v \div c
           m == v % c
<1>1. m \in 0 .. c - 1 /\ d \in Nat /\ v = c * d + m
  OBVIOUS
<1> HIDE DEF d, m
<1>2. v < c => m = v
  <2>1. d > 0 => c * d >= c
    BY <1>1
  <2>2. d = 0 => c * d = 0
    BY <1>1
  <2>3. QED
    BY <1>1, <2>1, <2>2
<1>3. v >= c => d < v
  <2>1. d > 0 => c * d >= 2 * d
    BY <1>1, SMTT(40)
  <2>2. QED
    BY <1>1, <2>1
<1>4. QED
  BY <1>1, <1>2, <1>3 DEF d, m

\* The function in Groups.
GroupsOf(f, n, c) ==
  f = [v \in 0 .. n |-> IF v < c THEN <<v>> ELSE <<(v % c) + c>> \o f[v \div c]]

\* Groups is the value of a function that solves its recursion.
LEMMA GroupsSolve ==
  ASSUME NEW c \in Nat \ {0, 1}, NEW value \in Nat
  PROVE  \E f : GroupsOf(f, value, c) /\ Groups(value, c) = f[value]
<1> DEFINE G == {n \in Nat : \E f : GroupsOf(f, n, c)}
<1>1. 0 \in G
  <2> DEFINE f == [v \in 0 .. 0 |-> <<v>>]
  <2>1. \A v \in 0 .. 0 : v < c
    OBVIOUS
  <2>2. f = [v \in 0 .. 0 |-> IF v < c THEN <<v>> ELSE <<(v % c) + c>> \o f[v \div c]]
    BY <2>1
  <2>3. GroupsOf(f, 0, c)
    BY <2>2, Zenon DEF GroupsOf
  <2>4. QED
    BY <2>3
<1>2. ASSUME NEW n \in Nat, n \in G PROVE n + 1 \in G
  <2>1. PICK f : GroupsOf(f, n, c)
    BY <1>2
  <2> DEFINE m == n + 1
             h == [v \in 0 .. m |-> IF v < c THEN <<v>> ELSE <<(v % c) + c>> \o f[v \div c]]
  <2>2. \A v \in 0 .. n : h[v] = f[v]
    <3>1. \A v \in 0 .. n : v \in 0 .. m
      OBVIOUS
    <3>2. \A v \in 0 .. n : f[v] = IF v < c THEN <<v>> ELSE <<(v % c) + c>> \o f[v \div c]
      BY <2>1, Zenon DEF GroupsOf
    <3>3. QED
      BY <3>1, <3>2, Zenon
  <2>3. \A v \in 0 .. m : v >= c => v \div c \in 0 .. n
    BY Division
  <2>4. \A v \in 0 .. m : ~(v < c) => v >= c
    OBVIOUS
  <2> HIDE DEF m
  <2>5. \A v \in 0 .. m : h[v] = IF v < c THEN <<v>> ELSE <<(v % c) + c>> \o h[v \div c]
    BY <2>2, <2>3, <2>4, Zenon
  <2>6. h = [v \in 0 .. m |-> IF v < c THEN <<v>> ELSE <<(v % c) + c>> \o h[v \div c]]
    BY <2>5, Zenon
  <2>7. GroupsOf(h, m, c)
    BY <2>6, Zenon DEF GroupsOf
  <2>8. QED
    BY <2>7 DEF m
<1>3. value \in G
  BY <1>1, <1>2, NaturalSteps
<1> DEFINE S(f) == f = [v \in 0 .. value |->
                          IF v < c THEN <<v>> ELSE <<(v % c) + c>> \o f[v \div c]]
<1>4. PICK k : S(k)
  BY <1>3 DEF GroupsOf
<1>5. S(CHOOSE f : S(f))
  <2> HIDE DEF S
  <2>1. QED
    BY <1>4
<1>6. Groups(value, c) = (CHOOSE f : S(f))[value]
  BY DEF Groups
<1>7. QED
  BY <1>5, <1>6 DEF GroupsOf

\* One group more in front.
LEMMA OneGroupMore ==
  ASSUME NEW c \in Nat \ {0, 1}, NEW v \in Nat, v >= c, NEW g, NEW q, InGroups(v \div c, c, g, q)
  PROVE  InGroups(v, c, <<(v % c) + c>> \o g, <<v>> \o q)
<1> DEFINE a == <<(v % c) + c>>
           b == <<v>>
           first == (v % c) + c
<1>1. first \in Nat
  BY Division
<1>2. a \in Seq(Nat) /\ b \in Seq(Nat) /\ Len(a) = 1 /\ Len(b) = 1 /\ a[1] = first /\ b[1] = v
  BY <1>1
<1>3. g \in Seq(Nat) /\ q \in Seq(Nat) /\ Len(g) = Len(q) /\ Len(q) > 0 /\ Len(q) \in Nat
  BY LenProperties DEF InGroups
<1> HIDE DEF a, b, first
<1> DEFINE s == a \o g
           t == b \o q
           n == Len(q)
<1>4. /\ s \in Seq(Nat) /\ Len(s) = 1 + n
      /\ \A i \in 1 .. 1 + n : s[i] = IF i <= 1 THEN a[i] ELSE g[i - 1]
  <2>1. /\ s \in Seq(Nat) /\ Len(s) = Len(a) + Len(g)
        /\ \A i \in 1 .. Len(a) + Len(g) : s[i] = IF i <= Len(a) THEN a[i] ELSE g[i - Len(a)]
    BY <1>2, <1>3, ConcatProperties, ZenonT(60)
  <2> HIDE DEF s
  <2>2. QED
    BY <1>2, <1>3, <2>1
<1>5. /\ t \in Seq(Nat) /\ Len(t) = 1 + n
      /\ \A i \in 1 .. 1 + n : t[i] = IF i <= 1 THEN b[i] ELSE q[i - 1]
  <2>1. /\ t \in Seq(Nat) /\ Len(t) = Len(b) + Len(q)
        /\ \A i \in 1 .. Len(b) + Len(q) : t[i] = IF i <= Len(b) THEN b[i] ELSE q[i - Len(b)]
    BY <1>2, <1>3, ConcatProperties
  <2> HIDE DEF t
  <2>2. QED
    BY <1>2, <1>3, <2>1
<1> HIDE DEF s, t
<1>6. n \in Nat /\ n > 0
  BY <1>3
<1>7. /\ q[1] = v \div c /\ q[n] < c
      /\ \A i \in 1 .. n : g[i] = (q[i] % c) + (IF i < n THEN c ELSE 0)
      /\ \A i \in 1 .. n - 1 : q[i + 1] = q[i] \div c
  BY DEF InGroups
<1> HIDE DEF n
<1>8. t[1] = v /\ s[1] = (v % c) + c
  BY <1>2, <1>4, <1>5, <1>6 DEF first
<1>9. t[1 + n] < c
  BY <1>5, <1>6, <1>7
<1>10. \A i \in 1 .. 1 + n : s[i] = (t[i] % c) + (IF i < 1 + n THEN c ELSE 0)
  <2>1. ASSUME NEW i \in 1 .. 1 + n, i > 1 PROVE s[i] = (t[i] % c) + (IF i < 1 + n THEN c ELSE 0)
    <3> DEFINE j == i - 1
    <3>1. j \in 1 .. n /\ (j < n <=> i < 1 + n) /\ s[i] = g[j] /\ t[i] = q[j]
      BY <1>4, <1>5, <1>6, <2>1
    <3> HIDE DEF j
    <3>2. g[j] = (q[j] % c) + (IF j < n THEN c ELSE 0)
      BY <1>7, <3>1
    <3>3. QED
      BY <3>1, <3>2, Zenon
  <2>2. QED
    BY <1>6, <1>8, <2>1
<1>11. \A i \in 1 .. n : t[i + 1] = t[i] \div c
  <2>1. ASSUME NEW i \in 1 .. n, i > 1 PROVE t[i + 1] = t[i] \div c
    <3>1. PICK j \in 1 .. n - 1 : i = j + 1
      BY <1>6, <2>1
    <3>2. PICK k : k = i + 1
      BY Zenon
    <3>3. /\ i - 1 = j /\ k - 1 = j + 1 /\ i \in 1 .. 1 + n /\ k \in 1 .. 1 + n
          /\ ~(i <= 1) /\ ~(k <= 1)
      BY <1>6, <3>1, <3>2
    <3>4. t[i] = q[i - 1] /\ t[k] = q[k - 1]
      BY <1>5, <3>3, Zenon
    <3>5. t[i] = q[j] /\ t[k] = q[j + 1]
      BY <3>3, <3>4, Zenon
    <3>6. QED
      BY <1>7, <3>2, <3>5, Zenon
  <2>2. t[1 + 1] = t[1] \div c
    <3>1. t[1 + 1] = q[1]
      BY <1>5, <1>6
    <3>2. QED
      BY <1>7, <1>8, <3>1
  <2>3. QED
    BY <1>6, <2>1, <2>2
<1>12. InGroups(v, c, s, t)
  <2>1. Len(s) = Len(t) /\ Len(t) > 0 /\ Len(t) = 1 + n /\ Len(t) - 1 = n
    BY <1>4, <1>5, <1>6
  <2>2. QED
    BY <1>4, <1>5, <1>8, <1>9, <1>10, <1>11, <2>1 DEF InGroups
<1>13. QED
  BY <1>12 DEF s, t, a, b

\* Every number has its groups.
LEMMA GroupsAre ==
  ASSUME NEW c \in Nat \ {0, 1}, NEW value \in Nat
  PROVE  \E q : InGroups(value, c, Groups(value, c), q)
<1>1. PICK f : GroupsOf(f, value, c) /\ Groups(value, c) = f[value]
  BY GroupsSolve
<1>2. \A v \in 0 .. value : f[v] = IF v < c THEN <<v>> ELSE <<(v % c) + c>> \o f[v \div c]
  BY <1>1, Zenon DEF GroupsOf
<1> DEFINE G == {n \in Nat : \A v \in 0 .. n : v <= value => \E q : InGroups(v, c, f[v], q)}
<1>3. ASSUME NEW v \in 0 .. value, v < c PROVE \E q : InGroups(v, c, f[v], q)
  <2> DEFINE s == <<v>>
  <2>1. s \in Seq(Nat) /\ Len(s) = 1 /\ s[1] = v
    OBVIOUS
  <2>2. f[v] = s
    BY <1>2, <1>3
  <2> HIDE DEF s
  <2>3. InGroups(v, c, s, s)
    <3>1. v % c = v /\ v \in Nat
      BY <1>3, Division
    <3>2. s[1] = (s[1] % c) + 0
      BY <2>1, <3>1
    <3>3. \A n \in 1 .. 1 : n = 1 /\ ~(n < 1)
      OBVIOUS
    <3>4. \A n \in 1 .. 1 : s[n] = (s[n] % c) + (IF n < 1 THEN c ELSE 0)
      BY <3>2, <3>3, Zenon
    <3>5. QED
      BY <1>3, <2>1, <3>4 DEF InGroups
  <2>4. QED
    BY <2>2, <2>3
<1>4. 0 \in G
  BY <1>3
<1>5. ASSUME NEW n \in Nat, n \in G PROVE n + 1 \in G
  <2>1. ASSUME NEW v \in 0 .. n + 1, v <= value, ~(v < c) PROVE \E q : InGroups(v, c, f[v], q)
    <3>1. v \in Nat /\ v >= c /\ v \in 0 .. value
      BY <2>1
    <3>2. v \div c \in 0 .. n /\ v \div c <= value
      BY <2>1, <3>1, Division
    <3>3. PICK q : InGroups(v \div c, c, f[v \div c], q)
      BY <1>5, <3>2
    <3>4. f[v] = <<(v % c) + c>> \o f[v \div c]
      BY <1>2, <2>1, <3>1
    <3>5. QED
      BY <3>1, <3>3, <3>4, OneGroupMore, ZenonT(60)
  <2>2. ASSUME NEW v \in 0 .. n + 1, v <= value PROVE \E q : InGroups(v, c, f[v], q)
    <3>1. v \in 0 .. value
      BY <2>2
    <3>2. QED
      BY <1>3, <2>1, <2>2, <3>1
  <2>3. QED
    BY <2>2
<1>6. value \in G
  BY <1>4, <1>5, NaturalSteps
<1>7. QED
  BY <1>1, <1>6

\* A group is the last if it is below the continuation, and its payload is a remainder.
LEMMA GroupIs ==
  ASSUME NEW c \in Nat \ {0, 1}, NEW v, NEW g, NEW q, InGroups(v, c, g, q)
  PROVE  \A n \in 1 .. Len(q) :
           /\ g[n] \in Nat /\ q[n] \in Nat /\ (g[n] < c <=> n = Len(q)) /\ g[n] % c = q[n] % c
           /\ n < Len(q) => q[n] = (g[n] % c) + c * q[n + 1]
           /\ n = Len(q) => q[n] = g[n] % c
<1> SUFFICES
      ASSUME NEW n \in 1 .. Len(q)
      PROVE  /\ g[n] \in Nat /\ q[n] \in Nat /\ (g[n] < c <=> n = Len(q)) /\ g[n] % c = q[n] % c
             /\ n < Len(q) => q[n] = (g[n] % c) + c * q[n + 1]
             /\ n = Len(q) => q[n] = g[n] % c
  BY Zenon
<1>1. g \in Seq(Nat) /\ q \in Seq(Nat) /\ Len(g) = Len(q) /\ Len(q) \in Nat
  BY LenProperties DEF InGroups
<1>2. g[n] \in Nat /\ \A k \in 1 .. Len(q) : q[k] \in Nat
  BY <1>1, ElementOfSeq
<1>3. g[n] = (q[n] % c) + (IF n < Len(q) THEN c ELSE 0)
  BY DEF InGroups
<1>4. PICK m : m = q[n] % c
  BY Zenon
<1>5. m \in 0 .. c - 1 /\ q[n] = c * (q[n] \div c) + m
  BY <1>2, <1>4, Division
<1>6. CASE n < Len(q)
  <2>1. PICK s : s = m + c
    BY Zenon
  <2>2. s \in Nat /\ s = c * 1 + m /\ ~(s < c)
    BY <1>5, <2>1
  <2>3. s % c = m
    BY <1>5, <2>1, <2>2
  <2>4. g[n] = s
    BY <1>3, <1>4, <1>6, <2>1
  <2>5. q[n + 1] = q[n] \div c
    BY <1>1, <1>6 DEF InGroups
  <2>6. q[n] = m + c * q[n + 1]
    <3>1. PICK d : d = q[n + 1]
      BY Zenon
    <3>2. d = q[n] \div c /\ q[n] = c * d + m
      BY <1>5, <2>5, <3>1, Zenon
    <3>3. n + 1 \in 1 .. Len(q)
      BY <1>1, <1>6
    <3>4. d \in Nat
      BY <1>2, <3>1, <3>3
    <3>5. c * d + m = m + c * d
      BY <1>5, <3>4
    <3>6. QED
      BY <3>1, <3>2, <3>5, Zenon
  <2>7. ~(g[n] < c) /\ n # Len(q) /\ g[n] % c = m
    BY <1>1, <1>6, <2>2, <2>3, <2>4
  <2>8. QED
    BY <1>2, <1>4, <2>6, <2>7, Zenon
<1>7. CASE n = Len(q)
  <2>1. q[n] < c
    BY <1>7 DEF InGroups
  <2>2. m = q[n]
    BY <1>2, <1>4, <2>1, Division
  <2>3. g[n] = m
    BY <1>3, <1>4, <1>5, <1>7
  <2>4. QED
    BY <1>1, <1>2, <1>4, <1>7, <2>1, <2>2, <2>3
<1>8. QED
  BY <1>1, <1>6, <1>7

\* The function in Grouped.
ValuesOf(f, from, end, c) ==
  f = [i \in from .. end |-> (stream[i].symbol % c) + (IF i = end THEN 0 ELSE c * f[i + 1])]

\* decode_grouped reads v from the start on, up to the end.
ReadsAs(start, c, v, end) ==
  /\ GroupEnds(start, c) # {} /\ Min(GroupEnds(start, c)) = end
  /\ Grouped(start, c) = [value |-> v, end |-> end]

\* What decode_grouped reads of a number in groups is the number.
LEMMA GroupedIs ==
  ASSUME NEW c \in Nat \ {0, 1}, NEW v, NEW g, NEW q, InGroups(v, c, g, q),
         NEW from \in Nat, Len(stream) \in Nat, from + Len(g) <= Len(stream),
         \A n \in 1 .. Len(g) : stream[from + n].symbol = g[n],
         NEW start, start = from + 1
  PROVE  ReadsAs(start, c, v, from + Len(g))
<1>1. Len(g) = Len(q) /\ Len(q) \in Nat /\ Len(q) > 0 /\ q[1] = v
  BY LenProperties DEF InGroups
<1> DEFINE Read(k) == /\ g[k] \in Nat /\ q[k] \in Nat /\ (g[k] < c <=> k = Len(q))
                      /\ g[k] % c = q[k] % c
                      /\ k < Len(q) => q[k] = (g[k] % c) + c * q[k + 1]
                      /\ k = Len(q) => q[k] = g[k] % c
<1>0. \A k \in 1 .. Len(q) : Read(k)
  BY GroupIs
<1> HIDE DEF Read
<1>2. PICK n : n = Len(g)
  BY Zenon
<1>3. PICK end : end = from + n
  BY Zenon
<1>4. n \in Nat /\ n > 0 /\ end \in Nat /\ end <= Len(stream) /\ start \in Nat /\ start <= end
  BY <1>1, <1>2, <1>3
<1>5. ASSUME NEW i \in start .. end
      PROVE  /\ i - from \in 1 .. n /\ stream[i].symbol = g[i - from]
             /\ (i = end <=> i - from = n) /\ (i < end <=> i - from < n)
  <2>1. PICK k : k = i - from
    BY Zenon
  <2>2. k \in 1 .. n /\ from + k = i /\ (i = end <=> k = n) /\ (i < end <=> k < n)
    BY <1>3, <1>4, <2>1
  <2>3. stream[from + k].symbol = g[k]
    BY <1>2, <2>2
  <2>4. QED
    BY <2>1, <2>2, <2>3
<1>6. end \in GroupEnds(start, c) /\ \A i \in GroupEnds(start, c) : end <= i
  <2>1. ASSUME NEW i \in start .. end PROVE stream[i].symbol < c <=> i = end
    <3>1. PICK k : k = i - from
      BY Zenon
    <3>2. k \in 1 .. n /\ stream[i].symbol = g[k] /\ (i = end <=> k = n)
      BY <1>5, <3>1
    <3>3. g[k] < c <=> k = n
      BY <1>0, <1>1, <1>2, <3>2 DEF Read
    <3>4. QED
      BY <3>2, <3>3
  <2>2. end \in start .. Len(stream) /\ end \in start .. end
    BY <1>4
  <2>3. end \in GroupEnds(start, c)
    BY <2>1, <2>2 DEF GroupEnds
  <2>4. ASSUME NEW i \in GroupEnds(start, c) PROVE end <= i
    <3>1. i \in start .. Len(stream) /\ stream[i].symbol < c
      BY DEF GroupEnds
    <3>2. i < end => i \in start .. end
      BY <1>4, <3>1
    <3>3. QED
      BY <1>4, <2>1, <3>1, <3>2
  <2>5. QED
    BY <2>3, <2>4
<1>7. Min(GroupEnds(start, c)) = end
  <2>1. GroupEnds(start, c) \subseteq Int
    BY <1>4 DEF GroupEnds
  <2> DEFINE S == GroupEnds(start, c)
  <2>2. Min(S) \in S /\ \A y \in S : Min(S) <= y
    <3> HIDE DEF S
    <3>1. end \in S /\ \A y \in S : end <= y
      BY <1>6 DEF S
    <3>2. QED
      BY <3>1 DEF Min
  <2>3. QED
    BY <1>6, <2>1, <2>2
<1> DEFINE h == [i \in start .. end |-> q[i - from]]
           S(f) == f = [i \in start .. end |->
                          (stream[i].symbol % c) + (IF i = end THEN 0 ELSE c * f[i + 1])]
           x == CHOOSE f : S(f)
<1>8. ASSUME NEW i \in start .. end
      PROVE  /\ q[i - from] \in Nat
             /\ i = end => q[i - from] = stream[i].symbol % c
             /\ i < end => /\ i + 1 \in start .. end
                           /\ q[i - from] = (stream[i].symbol % c) + c * q[(i + 1) - from]
  <2>1. PICK k : k = i - from
    BY Zenon
  <2>2. k \in 1 .. n /\ stream[i].symbol = g[k] /\ (i = end <=> k = n) /\ (i < end <=> k < n)
    BY <1>5, <2>1
  <2>3. (i + 1) - from = k + 1
    BY <2>1, <1>4
  <2>4. /\ q[k] \in Nat
        /\ k < n => q[k] = (g[k] % c) + c * q[k + 1]
        /\ k = n => q[k] = g[k] % c
    <3>1. k \in 1 .. Len(q) /\ n = Len(q)
      BY <1>1, <1>2, <2>2
    <3>2. /\ q[k] \in Nat
          /\ k < Len(q) => q[k] = (g[k] % c) + c * q[k + 1]
          /\ k = Len(q) => q[k] = g[k] % c
      BY <1>0, <3>1, Zenon DEF Read
    <3>3. QED
      BY <3>1, <3>2, Zenon
  <2>5. i < end => i + 1 \in start .. end
    BY <1>4
  <2>6. QED
    BY <2>1, <2>2, <2>3, <2>4, <2>5, Zenon
<1>9. S(h)
  <2> DEFINE r == [i \in start .. end |->
                     (stream[i].symbol % c) + (IF i = end THEN 0 ELSE c * h[i + 1])]
  <2>1. ASSUME NEW i \in start .. end PROVE h[i] = r[i]
    <3>1. CASE i = end
      <4>1. PICK m : m = stream[i].symbol % c
        BY Zenon
      <4>2. m \in Nat /\ h[i] = m
        BY <1>8, <3>1, <4>1
      <4>3. m = m + 0
        BY <4>2
      <4>4. QED
        BY <3>1, <4>1, <4>2, <4>3, Zenon
    <3>2. CASE i # end
      <4>1. i < end
        BY <1>4, <3>2
      <4>2. /\ i + 1 \in start .. end
            /\ q[i - from] = (stream[i].symbol % c) + c * q[(i + 1) - from]
        BY <1>8, <4>1
      <4>3. h[i + 1] = q[(i + 1) - from]
        BY <4>2
      <4>4. QED
        BY <3>2, <4>2, <4>3, Zenon
    <3>3. QED
      BY <3>1, <3>2
  <2>2. h = r
    BY <2>1, Zenon
  <2>3. QED
    BY <2>2
<1>10. S(x)
  <2> HIDE DEF S, h
  <2>1. QED
    BY <1>9
<1> HIDE DEF x
<1>11. \A i \in start .. end :
         x[i] = (stream[i].symbol % c) + (IF i = end THEN 0 ELSE c * x[i + 1])
  BY <1>10, Zenon
<1> HIDE DEF S
<1> DEFINE G == {d \in Nat : \A i \in start .. end : i = end - d => x[i] = h[i]}
<1>12. 0 \in G
  <2>1. ASSUME NEW i \in start .. end, i = end PROVE x[i] = h[i]
    <3>1. PICK m : m = stream[i].symbol % c
      BY Zenon
    <3>2. q[i - from] = m /\ m \in Nat /\ m + 0 = m
      BY <1>8, <2>1, <3>1
    <3>3. x[i] = m + 0
      BY <1>11, <2>1, <3>1, Zenon
    <3>4. QED
      BY <3>2, <3>3
  <2>2. end - 0 = end
    BY <1>4
  <2>3. QED
    BY <2>1, <2>2
<1>13. ASSUME NEW d \in Nat, d \in G PROVE d + 1 \in G
  <2>1. ASSUME NEW i \in start .. end, i = end - (d + 1) PROVE x[i] = h[i]
    <3>1. i < end /\ i + 1 = end - d /\ i # end
      BY <1>4, <2>1
    <3>2. /\ i + 1 \in start .. end
          /\ q[i - from] = (stream[i].symbol % c) + c * q[(i + 1) - from]
      BY <1>8, <3>1
    <3>3. x[i + 1] = h[i + 1] /\ h[i + 1] = q[(i + 1) - from]
      BY <1>13, <3>1, <3>2
    <3>4. x[i] = (stream[i].symbol % c) + c * x[i + 1]
      BY <1>11, <3>1, Zenon
    <3>5. QED
      BY <3>2, <3>3, <3>4, Zenon
  <2>2. QED
    BY <2>1
<1>14. x[start] = v
  <2>1. \A d \in Nat : d \in G
    BY <1>12, <1>13, NaturalSteps
  <2>2. PICK d : d = end - start
    BY Zenon
  <2>3. d \in Nat /\ start = end - d /\ start \in start .. end /\ start - from = 1
    BY <1>4, <2>2
  <2>4. x[start] = h[start]
    BY <2>1, <2>3
  <2>5. QED
    BY <1>1, <2>3, <2>4
<1>15. Grouped(start, c) = [value |-> x[start], end |-> end]
  <2> DEFINE e == Min(GroupEnds(start, c))
             y == CHOOSE f : f = [i \in start .. e |->
                          (stream[i].symbol % c) + (IF i = e THEN 0 ELSE c * f[i + 1])]
  <2>1. Grouped(start, c) = [value |-> y[start], end |-> e]
    BY Zenon DEF Grouped
  <2>2. e = end
    BY <1>7
  <2> HIDE DEF e
  <2>3. y = x
    BY <2>2, Zenon DEF x, S
  <2>4. QED
    BY <2>1, <2>2, <2>3
<1>16. QED
  BY <1>2, <1>3, <1>6, <1>7, <1>14, <1>15 DEF ReadsAs

\* A number of one group is that group; one of more is what its other groups give.
LEMMA GroupsTail ==
  ASSUME NEW c \in Nat \ {0, 1}, NEW v, NEW g, NEW q, InGroups(v, c, g, q)
  PROVE  /\ v \in Nat /\ g[1] \in Nat
         /\ g[1] < c => Len(g) = 1 /\ v = g[1] % c
         /\ ~(g[1] < c) => /\ InGroups(v \div c, c, Tail(g), Tail(q))
                           /\ v = (g[1] % c) + c * (v \div c) /\ v \div c \in Nat
<1>1. /\ g \in Seq(Nat) /\ q \in Seq(Nat) /\ Len(g) = Len(q) /\ Len(q) \in Nat /\ Len(q) > 0
      /\ q[1] = v /\ q[Len(q)] < c
  BY LenProperties DEF InGroups
<1>2. 1 \in 1 .. Len(q)
  BY <1>1
<1> DEFINE Read(k) == /\ g[k] \in Nat /\ q[k] \in Nat /\ (g[k] < c <=> k = Len(q))
                      /\ g[k] % c = q[k] % c
                      /\ k < Len(q) => q[k] = (g[k] % c) + c * q[k + 1]
                      /\ k = Len(q) => q[k] = g[k] % c
<1>3. \A k \in 1 .. Len(q) : Read(k)
  BY GroupIs
<1>4. Read(1)
  BY <1>2, <1>3
<1>5. v \in Nat /\ g[1] \in Nat /\ (g[1] < c => Len(g) = 1 /\ v = g[1] % c)
  BY <1>1, <1>4
<1>6. ASSUME ~(g[1] < c)
      PROVE  InGroups(v \div c, c, Tail(g), Tail(q))
  <2> HIDE DEF Read
  <2>1. Len(q) > 1
    BY <1>1, <1>4, <1>6 DEF Read
  <2>2. PICK n : n = Len(q)
    BY Zenon
  <2>3. PICK m : m = n - 1
    BY Zenon
  <2>4. m \in Nat /\ m > 0 /\ n = m + 1 /\ n \in Nat
    BY <1>1, <2>1, <2>2, <2>3
  <2> DEFINE a == Tail(g)
             b == Tail(q)
  <2>5. /\ a \in Seq(Nat) /\ b \in Seq(Nat) /\ Len(a) = m /\ Len(b) = m
        /\ \A i \in 1 .. m : a[i] = g[i + 1] /\ b[i] = q[i + 1]
    <3>1. g # <<>> /\ q # <<>>
      BY <1>1
    <3>2. a \in Seq(Nat) /\ b \in Seq(Nat) /\ Len(a) = Len(g) - 1 /\ Len(b) = Len(q) - 1
      BY <1>1, <3>1, HeadTailProperties
    <3>3. /\ \A i \in 1 .. Len(g) - 1 : a[i] = g[i + 1]
          /\ \A i \in 1 .. Len(q) - 1 : b[i] = q[i + 1]
      BY <1>1, <3>1, HeadTailProperties
    <3>4. QED
      BY <1>1, <2>2, <2>3, <3>2, <3>3
  <2> HIDE DEF a, b
  <2>6. /\ \A i \in 1 .. n : g[i] = (q[i] % c) + (IF i < n THEN c ELSE 0)
        /\ \A i \in 1 .. n - 1 : q[i + 1] = q[i] \div c
    BY <2>2 DEF InGroups
  <2>7. b[1] = v \div c /\ b[m] < c
    <3>1. 1 \in 1 .. m /\ m \in 1 .. m /\ 1 \in 1 .. n - 1
      BY <2>4
    <3>2. b[1] = q[1 + 1] /\ b[m] = q[n] /\ q[1 + 1] = q[1] \div c
      BY <2>3, <2>4, <2>5, <2>6, <3>1
    <3>3. QED
      BY <1>1, <2>2, <3>2
  <2>8. \A i \in 1 .. m : a[i] = (b[i] % c) + (IF i < m THEN c ELSE 0)
    <3>1. ASSUME NEW i \in 1 .. m PROVE a[i] = (b[i] % c) + (IF i < m THEN c ELSE 0)
      <4>1. PICK j : j = i + 1
        BY Zenon
      <4>2. j \in 1 .. n /\ (i < m <=> j < n)
        BY <2>4, <4>1
      <4>3. g[j] = (q[j] % c) + (IF j < n THEN c ELSE 0)
        BY <2>6, <4>2, Zenon
      <4>4. a[i] = g[j] /\ b[i] = q[j]
        BY <2>5, <4>1, Zenon
      <4>5. QED
        BY <4>2, <4>3, <4>4, Zenon
    <3>2. QED
      BY <3>1
  <2>9. \A i \in 1 .. m - 1 : b[i + 1] = b[i] \div c
    <3>1. ASSUME NEW i \in 1 .. m - 1 PROVE b[i + 1] = b[i] \div c
      <4>1. PICK j : j = i + 1
        BY Zenon
      <4>2. j \in 1 .. n - 1 /\ i \in 1 .. m /\ j \in 1 .. m
        BY <2>4, <4>1
      <4>3. b[i] = q[j] /\ b[j] = q[j + 1] /\ q[j + 1] = q[j] \div c
        BY <2>5, <2>6, <4>1, <4>2, Zenon
      <4>4. QED
        BY <4>1, <4>3, Zenon
    <3>2. QED
      BY <3>1
  <2>10. InGroups(v \div c, c, a, b)
    BY <2>4, <2>5, <2>7, <2>8, <2>9 DEF InGroups
  <2>11. QED
    BY <2>10 DEF a, b
<1>7. ASSUME ~(g[1] < c) PROVE v = (g[1] % c) + c * (v \div c) /\ v \div c \in Nat
  <2>1. PICK m : m = v % c
    BY Zenon
  <2>2. PICK d : d = v \div c
    BY Zenon
  <2>3. m \in Nat /\ d \in Nat /\ v = c * d + m
    <3>1. v % c \in Nat /\ v \div c \in Nat /\ v = c * (v \div c) + (v % c)
      BY <1>5
    <3>2. QED
      BY <2>1, <2>2, <3>1, Zenon
  <2>4. c * d + m = m + c * d
    BY <2>3
  <2>5. g[1] % c = m
    BY <1>1, <1>4, <2>1
  <2>6. v = m + c * d
    BY <2>3, <2>4, Zenon
  <2>7. QED
    BY <2>2, <2>3, <2>5, <2>6, Zenon
<1>8. QED
  BY <1>5, <1>6, <1>7

-----------------------------------------------------------------------------
(* What the encoder leaves for the decoder *)

Start == [symbols |-> 0, position |-> 0, recent |-> NoOffsets, bases |-> NoBases]
Entry == [symbols : Nat, position : Nat, recent : [0 .. 3 -> Nat], bases : [0 .. 7 -> Int]]
Kinds == {"top", "offset", "length", "base", "sign", "target"}
Symbol == [model : Kinds \X Nat \X Nat, symbol : Nat]

\* The stream has the symbols from a place on.
Holds(from, symbols) ==
  /\ Len(symbols) \in Nat /\ from + Len(symbols) <= Len(stream)
  /\ \A n \in 1 .. Len(symbols) : stream[from + n] = symbols[n]

\* From one entry to the next the stream has the symbols of a token.
Follows(a, b, symbols) ==
  Holds(a.symbols, symbols) /\ b.symbols = a.symbols + Len(symbols)

LiteralToken(a, b) ==
  /\ a.position < Size /\ b.position = a.position + 1
  /\ b.recent = a.recent /\ b.bases = a.bases
  /\ Follows(a, b, LiteralAt(a.position))

\* A match of bytes that equal those before it.
MatchToken(a, b) ==
  \E length \in MinMatch .. MaxMatch, distance \in 1 .. a.position :
    /\ b.position = a.position + length /\ b.position <= Size
    /\ \A i \in 1 .. length :
         job.input[a.position + i] = job.input[a.position + i - distance]
    /\ b.recent = EncodeRecentDistance(a.recent, distance)[2] /\ b.bases = a.bases
    /\ Follows(a, b, MatchSymbols(length, EncodeRecentDistance(a.recent, distance)[1]))

ReferenceToken(a, b) ==
  \E r \in Range(job.references) :
    LET target == Target(r.segment)
        base   == NearestBase(a.bases, target)
    IN  /\ r.position = a.position /\ b.position = a.position + r.length
        /\ b.recent = a.recent /\ b.bases = [a.bases EXCEPT ![base] = NextBase(r)]
        /\ Follows(a, b, ReferenceSymbols(r.length, base, target - a.bases[base] + 3))

Token(a, b) == LiteralToken(a, b) \/ MatchToken(a, b) \/ ReferenceToken(a, b)

\* The entries lead from the start of the chunk, token by token.
Path(entries) ==
  /\ entries \in Seq(Entry) /\ Len(entries) > 0 /\ entries[1] = Start
  /\ \A k \in 1 .. Len(entries) - 1 : Token(entries[k], entries[k + 1])

\* They lead to the end of the chunk, where the stream has its end symbol.
Whole(entries) ==
  LET last == entries[Len(entries)]
  IN  /\ Path(entries) /\ last.position = Size
      /\ Holds(last.symbols, <<Coded("top", 0, 0, EndSymbol)>>)

\* The decoder stands where the encoder did, and the right attempt has what it had.
At(entry) ==
  /\ entry.symbols = cursor
  /\ RightAttempt => /\ entry.position = Len(output) /\ entry.recent = recent /\ entry.bases = bases
                     /\ output = SubSeq(job.input, 1, entry.position)

\* A match that is pending can be written as a token.
PendingIs ==
  pending.length >= MinMatch => pending.length <= MaxMatch /\ pending.distance \in 1 .. position

CInv ==
  /\ SoundJob(job) /\ phase \in {"encode", "decode", "ok"}
  /\ attempt \in {1, 2} /\ (attempt = 2 => ~job.trim /\ job.references # <<>>)
  /\ stream \in Seq(Symbol)
  /\ phase = "encode" => /\ cursor = 0 /\ output = <<>> /\ attempt = 1
                         /\ PendingIs
                         /\ trail \in Seq(Entry) /\ Here \in Entry /\ Path(Append(trail, Here))
  /\ phase = "decode" => Whole(trail) /\ \E k \in 1 .. Len(trail) : At(trail[k])
  /\ phase = "ok" /\ RightAttempt => output = job.input

-----------------------------------------------------------------------------
(* Symbols in the stream *)

\* The lesser of two numbers.
LEMMA LesserOf ==
  ASSUME NEW a \in Int, NEW b \in Int
  PROVE  Min({a, b}) = IF a <= b THEN a ELSE b
<1> DEFINE S == {a, b}
<1>0. PICK m : m = IF a <= b THEN a ELSE b
  BY Zenon
<1>1. m \in S /\ m \in Int /\ \A y \in S : y \in Int /\ m <= y
  <2>1. CASE a <= b
    BY <1>0, <2>1
  <2>2. CASE ~(a <= b)
    BY <1>0, <2>2
  <2>3. QED
    BY <2>1, <2>2
<1> HIDE DEF S
<1>2. Min(S) \in S /\ \A y \in S : Min(S) <= y
  BY <1>1 DEF Min
<1>3. Min(S) = m
  <2>1. PICK x : x = Min(S)
    BY Zenon
  <2>2. x \in Int /\ x <= m /\ m <= x
    BY <1>1, <1>2, <2>1
  <2>3. QED
    BY <1>1, <2>1, <2>2
<1>4. QED
  BY <1>0, <1>3 DEF S

\* The symbols of a number in groups.
LEMMA EncodeGroupedIs ==
  ASSUME NEW kind \in Kinds, NEW context \in Nat, NEW tables \in Nat \ {0},
         NEW g \in Seq(Nat)
  PROVE  /\ EncodeGrouped(kind, context, tables, g) \in Seq(Symbol)
         /\ Len(EncodeGrouped(kind, context, tables, g)) = Len(g)
         /\ \A n \in 1 .. Len(g) :
              EncodeGrouped(kind, context, tables, g)[n]
                = [model |-> <<kind, context, Min({n - 1, tables - 1})>>, symbol |-> g[n]]
<1> DEFINE s == EncodeGrouped(kind, context, tables, g)
<1>1. Len(g) \in Nat /\ DOMAIN g = 1 .. Len(g) /\ \A n \in 1 .. Len(g) : g[n] \in Nat
  BY LenProperties, ElementOfSeq
<1>2. s = [n \in 1 .. Len(g) |->
             [model |-> <<kind, context, Min({n, tables}) - 1>>, symbol |-> g[n]]]
  BY <1>1 DEF EncodeGrouped, Coded
<1>3. ASSUME NEW n \in 1 .. Len(g)
      PROVE  Min({n, tables}) - 1 \in Nat /\ Min({n, tables}) - 1 = Min({n - 1, tables - 1})
  <2>1. n \in Int /\ tables \in Int /\ n - 1 \in Int /\ tables - 1 \in Int
    BY <1>1
  <2>2. Min({n, tables}) = IF n <= tables THEN n ELSE tables
    BY <2>1, LesserOf, Zenon
  <2>3. Min({n - 1, tables - 1}) = IF n - 1 <= tables - 1 THEN n - 1 ELSE tables - 1
    BY <2>1, LesserOf, Zenon
  <2>4. QED
    BY <1>1, <2>2, <2>3
<1>4. \A n \in 1 .. Len(g) :
        [model |-> <<kind, context, Min({n, tables}) - 1>>, symbol |-> g[n]] \in Symbol
  BY <1>1, <1>3 DEF Symbol
<1> HIDE DEF s
<1>5. s \in [1 .. Len(g) -> Symbol]
  BY <1>2, <1>4
<1>6. s \in Seq(Symbol)
  BY <1>1, <1>5, IsASeq
<1>7. Len(s) = Len(g)
  BY <1>1, <1>5, <1>6, LenProperties
<1>8. \A n \in 1 .. Len(g) :
        s[n] = [model |-> <<kind, context, Min({n - 1, tables - 1})>>, symbol |-> g[n]]
  BY <1>2, <1>3
<1>9. QED
  BY <1>6, <1>7, <1>8 DEF s

\* As many as there are groups.
LEMMA EncodeGroupedSeq ==
  ASSUME NEW kind \in Kinds, NEW context \in Nat, NEW tables \in Nat \ {0},
         NEW g \in Seq(Nat)
  PROVE  /\ EncodeGrouped(kind, context, tables, g) \in Seq(Symbol)
         /\ Len(EncodeGrouped(kind, context, tables, g)) = Len(g)
BY EncodeGroupedIs, Zenon

\* Symbols that follow other symbols.
LEMMA HoldsBoth ==
  ASSUME NEW s \in Seq(Symbol), NEW t \in Seq(Symbol), NEW from \in Nat,
         Len(stream) \in Nat, Holds(from, s \o t)
  PROVE  /\ Holds(from, s) /\ Holds(from + Len(s), t)
         /\ s \o t \in Seq(Symbol) /\ Len(s \o t) = Len(s) + Len(t)
<1> DEFINE st == s \o t
<1>1. /\ st \in Seq(Symbol) /\ Len(st) = Len(s) + Len(t) /\ Len(s) \in Nat /\ Len(t) \in Nat
      /\ \A i \in 1 .. Len(s) + Len(t) : st[i] = IF i <= Len(s) THEN s[i] ELSE t[i - Len(s)]
  BY ConcatProperties, LenProperties
<1> HIDE DEF st
<1>2. PICK a : a = Len(s)
  BY Zenon
<1>3. PICK b : b = Len(t)
  BY Zenon
<1>4. /\ a \in Nat /\ b \in Nat /\ from + (a + b) <= Len(stream)
      /\ \A i \in 1 .. a + b : stream[from + i] = IF i <= a THEN s[i] ELSE t[i - a]
  BY <1>1, <1>2, <1>3 DEF Holds, st
<1>5. Holds(from, s)
  <2>1. ASSUME NEW n \in 1 .. a PROVE stream[from + n] = s[n]
    <3>1. n \in 1 .. a + b /\ n <= a
      BY <1>4
    <3>2. QED
      BY <1>4, <3>1
  <2>2. from + a <= Len(stream)
    BY <1>4
  <2>3. QED
    BY <1>2, <1>4, <2>1, <2>2 DEF Holds
<1>6. Holds(from + a, t)
  <2>1. ASSUME NEW n \in 1 .. b PROVE stream[(from + a) + n] = t[n]
    <3>1. PICK i : i = a + n
      BY Zenon
    <3>2. i \in 1 .. a + b /\ ~(i <= a) /\ i - a = n /\ from + i = (from + a) + n
      BY <1>4, <3>1
    <3>3. QED
      BY <1>4, <3>2
  <2>2. (from + a) + b <= Len(stream)
    BY <1>4
  <2>3. QED
    BY <1>3, <2>1, <2>2 DEF Holds
<1>7. QED
  BY <1>1, <1>2, <1>5, <1>6 DEF st

\* The stream has the groups of a number, coded with their models.
NumberAt(from, kind, context, tables, g) ==
  /\ from + Len(g) <= Len(stream)
  /\ \A n \in 1 .. Len(g) :
       /\ stream[from + n].symbol = g[n]
       /\ stream[from + n].model = <<kind, context, Min({n - 1, tables - 1})>>

\* encode_grouped writes them.
LEMMA NumberHolds ==
  ASSUME NEW kind \in Kinds, NEW context \in Nat, NEW tables \in Nat \ {0},
         NEW g \in Seq(Nat), NEW from \in Nat,
         Holds(from, EncodeGrouped(kind, context, tables, g))
  PROVE  NumberAt(from, kind, context, tables, g)
<1> DEFINE s == EncodeGrouped(kind, context, tables, g)
<1>1. /\ Len(s) = Len(g)
      /\ \A n \in 1 .. Len(g) :
           s[n] = [model |-> <<kind, context, Min({n - 1, tables - 1})>>, symbol |-> g[n]]
  BY EncodeGroupedIs, ZenonT(60)
<1>2. from + Len(g) <= Len(stream) /\ \A n \in 1 .. Len(g) : stream[from + n] = s[n]
  BY <1>1 DEF Holds
<1> HIDE DEF s
<1>3. ASSUME NEW n \in 1 .. Len(g), NEW e,
             stream[from + n] = [model |-> <<kind, context, e>>, symbol |-> g[n]]
      PROVE  stream[from + n].symbol = g[n] /\ stream[from + n].model = <<kind, context, e>>
  BY <1>3
<1>4. \A n \in 1 .. Len(g) :
        stream[from + n]
          = [model |-> <<kind, context, Min({n - 1, tables - 1})>>, symbol |-> g[n]]
  BY <1>1, <1>2, Zenon
<1>5. QED
  BY <1>2, <1>3, <1>4, Zenon DEF NumberAt

\* decode_grouped reads the number from them, with the same models.
LEMMA NumberRead ==
  ASSUME NEW kind, NEW context, NEW tables, NEW c \in Nat \ {0, 1},
         NEW v, NEW g, NEW q, InGroups(v, c, g, q), NEW from \in Nat, Len(stream) \in Nat,
         NumberAt(from, kind, context, tables, g), NEW start, start = from + 1
  PROVE  InStepFrom(start, kind, context, tables, c) /\ ReadsAs(start, c, v, from + Len(g))
<1>1. Len(g) \in Nat
  BY LenProperties DEF InGroups
<1>2. /\ from + Len(g) <= Len(stream)
      /\ \A n \in 1 .. Len(g) :
           /\ stream[from + n].symbol = g[n]
           /\ stream[from + n].model = <<kind, context, Min({n - 1, tables - 1})>>
  BY Zenon DEF NumberAt
<1>3. ReadsAs(start, c, v, from + Len(g))
  <2>1. \A n \in 1 .. Len(g) : stream[from + n].symbol = g[n]
    BY <1>2, Zenon
  <2>2. from + Len(g) <= Len(stream)
    BY <1>2, Zenon
  <2>3. QED
    BY <2>1, <2>2, GroupedIs
<1>4. ASSUME NEW i \in start .. from + Len(g)
      PROVE  stream[i].model = <<kind, context, Min({i - start, tables - 1})>>
  <2>1. PICK n : n = i - from
    BY Zenon
  <2>2. n \in 1 .. Len(g) /\ from + n = i /\ n - 1 = i - start
    BY <1>1, <2>1
  <2>3. stream[from + n].model = <<kind, context, Min({n - 1, tables - 1})>>
    BY <1>2, <2>2, Zenon
  <2>4. QED
    BY <2>2, <2>3, Zenon
<1>5. QED
  BY <1>3, <1>4 DEF InStepFrom, ReadsAs

\* What encode_grouped wrote of a number, with groups of any width, decode_grouped reads as
\* that number, from where it began to where it ended and with the same models.
THEOREM GroupsReadBack ==
  ASSUME NEW kind \in Kinds, NEW context \in Nat, NEW tables \in Nat \ {0},
         NEW c \in Nat \ {0, 1}, NEW v \in Nat, NEW from \in Nat, Len(stream) \in Nat,
         Holds(from, EncodeGrouped(kind, context, tables, Groups(v, c)))
  PROVE  /\ InStepFrom(from + 1, kind, context, tables, c)
         /\ Grouped(from + 1, c) = [value |-> v, end |-> from + Len(Groups(v, c))]
<1>1. PICK g : g = Groups(v, c)
  BY Zenon
<1>2. PICK q : InGroups(v, c, g, q)
  BY <1>1, GroupsAre
<1>3. g \in Seq(Nat)
  BY <1>2, Zenon DEF InGroups
<1>4. NumberAt(from, kind, context, tables, g)
  BY <1>1, <1>3, NumberHolds, Zenon
<1>5. PICK start : start = from + 1
  BY Zenon
<1>6. InStepFrom(start, kind, context, tables, c) /\ ReadsAs(start, c, v, from + Len(g))
  BY <1>2, <1>4, <1>5, NumberRead, Zenon
<1>7. QED
  BY <1>1, <1>5, <1>6, Zenon DEF ReadsAs

-----------------------------------------------------------------------------
(* The bases and the segments of references *)

\* The least of some natural numbers is one of them.
LEMMA LeastIs ==
  ASSUME NEW S, S \subseteq Nat, S # {}
  PROVE  Min(S) \in S /\ \A y \in S : Min(S) <= y
<1>1. PICK m \in S : \A y \in S : m <= y
  BY LeastNatural
<1>2. QED
  BY <1>1 DEF Min

\* There is a nearest base.
LEMMA NearestBaseIs ==
  ASSUME NEW list \in [0 .. 7 -> Int], NEW target \in Int
  PROVE  NearestBase(list, target) \in 0 .. 7
<1> DEFINE A(i) == Abs(target - list[i])
           S == {A(i) : i \in 0 .. 7}
           N == {i \in 0 .. 7 : \A j \in 0 .. 7 : A(i) <= A(j)}
<1>1. \A i \in 0 .. 7 : A(i) \in Nat
  BY DEF Abs
<1> HIDE DEF A
<1>2. S \subseteq Nat /\ S # {}
  <2>1. 0 \in 0 .. 7
    OBVIOUS
  <2>2. QED
    BY <1>1, <2>1
<1>3. PICK m \in S : \A y \in S : m <= y
  BY <1>2, LeastNatural
<1>4. N # {} /\ N \subseteq 0 .. 7
  BY <1>3
<1>5. Min(N) \in N
  <2>1. N \subseteq Nat
    BY <1>4
  <2> HIDE DEF N
  <2>2. QED
    BY <1>4, <2>1, LeastIs
<1>6. DOMAIN list = 0 .. 7
  OBVIOUS
<1>7. NearestBase(list, target) = Min(N)
  BY <1>6 DEF NearestBase, A
<1>8. QED
  BY <1>4, <1>5, <1>7

\* The segments of a sound chunk.
LEMMA SegmentFields ==
  ASSUME SoundJob(job)
  PROVE  /\ Len(job.segments) \in Nat /\ Segments = 1 .. Len(job.segments)
         /\ \A k \in Segments : /\ Len(job.segments[k].raw) \in Nat
                                /\ EncodedLength(k) \in Nat /\ EncodedLength(k) > 0
<1> DEFINE s == job.segments
           R == [raw : Seq(0 .. 255), emit_end : BOOLEAN]
<1>1. s \in Seq(R)
  BY DEF SoundJob
<1> HIDE DEF s, R
<1>2. Len(s) \in Nat /\ DOMAIN s = 1 .. Len(s) /\ \A k \in 1 .. Len(s) : s[k] \in R
  BY <1>1, LenProperties, ElementOfSeq
<1>3. \A k \in 1 .. Len(s) : Len(s[k].raw) \in Nat
  <2>1. ASSUME NEW k \in 1 .. Len(s) PROVE Len(s[k].raw) \in Nat
    <3>1. s[k].raw \in Seq(0 .. 255)
      BY <1>2 DEF R
    <3> DEFINE B == 0 .. 255
               x == s[k].raw
    <3>2. x \in Seq(B)
      BY <3>1
    <3> HIDE DEF B, x
    <3>3. Len(x) \in Nat
      BY <3>2, LenProperties
    <3>4. QED
      BY <3>3 DEF x
  <2>2. QED
    BY <2>1
<1>4. QED
  BY <1>2, <1>3 DEF Segments, EncodedLength, s

\* The function in Target.
TargetsOf(f, n) == f = [i \in 1 .. n |-> IF i = 1 THEN 1 ELSE f[i - 1] + EncodedLength(i - 1)]

\* There is one for all the segments up to any.
LEMMA TargetsExist == \A n \in Nat : \E f : TargetsOf(f, n)
<1> DEFINE G == {n \in Nat : \E f : TargetsOf(f, n)}
<1>1. 0 \in G
  <2> DEFINE f == [i \in 1 .. 0 |-> 1]
  <2>1. \A i \in 1 .. 0 : FALSE
    OBVIOUS
  <2>2. f = [i \in 1 .. 0 |-> IF i = 1 THEN 1 ELSE f[i - 1] + EncodedLength(i - 1)]
    BY <2>1, Zenon
  <2>3. QED
    BY <2>2 DEF TargetsOf
<1>2. ASSUME NEW n \in Nat, n \in G PROVE n + 1 \in G
  <2>1. PICK f : TargetsOf(f, n)
    BY <1>2
  <2>2. PICK m : m = n + 1
    BY Zenon
  <2> DEFINE h == [i \in 1 .. m |-> IF i = 1 THEN 1 ELSE f[i - 1] + EncodedLength(i - 1)]
  <2>3. \A i \in 1 .. n : h[i] = f[i]
    <3>1. \A i \in 1 .. n : i \in 1 .. m
      BY <2>2
    <3>2. \A i \in 1 .. n : f[i] = IF i = 1 THEN 1 ELSE f[i - 1] + EncodedLength(i - 1)
      BY <2>1, Zenon DEF TargetsOf
    <3>3. QED
      BY <3>1, <3>2, Zenon
  <2>4. \A i \in 1 .. m : i # 1 => i - 1 \in 1 .. n
    BY <2>2
  <2>5. \A i \in 1 .. m : h[i] = IF i = 1 THEN 1 ELSE h[i - 1] + EncodedLength(i - 1)
    BY <2>3, <2>4, Zenon
  <2>6. h = [i \in 1 .. m |-> IF i = 1 THEN 1 ELSE h[i - 1] + EncodedLength(i - 1)]
    BY <2>5, Zenon
  <2>7. TargetsOf(h, m)
    BY <2>6, Zenon DEF TargetsOf
  <2>8. QED
    BY <2>2, <2>7
<1>3. QED
  BY <1>1, <1>2, NaturalSteps

\* They agree where they overlap.
LEMMA TargetsAgree ==
  ASSUME NEW m \in Nat, NEW n \in Nat, m <= n, NEW f, NEW g, TargetsOf(f, m), TargetsOf(g, n)
  PROVE  \A i \in 1 .. m : f[i] = g[i]
<1> DEFINE G == {k \in Nat : \A i \in 1 .. m : i <= k => f[i] = g[i]}
<1>1. /\ \A i \in 1 .. m : f[i] = IF i = 1 THEN 1 ELSE f[i - 1] + EncodedLength(i - 1)
      /\ \A i \in 1 .. n : g[i] = IF i = 1 THEN 1 ELSE g[i - 1] + EncodedLength(i - 1)
      /\ \A i \in 1 .. m : i \in 1 .. n
  <2>1. /\ \A i \in 1 .. m : f[i] = IF i = 1 THEN 1 ELSE f[i - 1] + EncodedLength(i - 1)
        /\ \A i \in 1 .. n : g[i] = IF i = 1 THEN 1 ELSE g[i - 1] + EncodedLength(i - 1)
    BY Zenon DEF TargetsOf
  <2>2. QED
    BY <2>1
<1>2. 0 \in G
  OBVIOUS
<1>3. ASSUME NEW k \in Nat, k \in G PROVE k + 1 \in G
  <2>1. ASSUME NEW i \in 1 .. m, i <= k + 1 PROVE f[i] = g[i]
    <3>1. CASE i = 1
      BY <1>1, <3>1, Zenon
    <3>2. CASE i # 1
      <4>1. i - 1 \in 1 .. m /\ i - 1 <= k
        BY <2>1, <3>2
      <4>2. f[i - 1] = g[i - 1]
        BY <1>3, <4>1
      <4>3. f[i] = f[i - 1] + EncodedLength(i - 1)
        BY <1>1, <2>1, <3>2, Zenon
      <4>4. g[i] = g[i - 1] + EncodedLength(i - 1)
        BY <1>1, <2>1, <3>2, Zenon
      <4>5. QED
        BY <4>2, <4>3, <4>4, Zenon
    <3>3. QED
      BY <3>1, <3>2
  <2>2. QED
    BY <2>1
<1>4. \A k \in Nat : k \in G
  BY <1>2, <1>3, NaturalSteps
<1>5. QED
  BY <1>4

\* Target is the value of one.
LEMMA TargetSolves ==
  ASSUME NEW n \in Nat
  PROVE  \E f : TargetsOf(f, n) /\ Target(n) = f[n]
<1> DEFINE S(f) == f = [i \in 1 .. n |-> IF i = 1 THEN 1 ELSE f[i - 1] + EncodedLength(i - 1)]
<1>1. PICK k : S(k)
  BY TargetsExist DEF TargetsOf
<1>2. S(CHOOSE f : S(f))
  <2> HIDE DEF S
  <2>1. QED
    BY <1>1
<1>3. Target(n) = (CHOOSE f : S(f))[n]
  BY DEF Target
<1>4. QED
  BY <1>2, <1>3 DEF TargetsOf

\* Each segment starts where the one before it ends.
LEMMA TargetStep ==
  /\ Target(1) = 1
  /\ \A n \in Nat \ {0} : Target(n + 1) = Target(n) + EncodedLength(n)
<1>1. Target(1) = 1
  <2>1. PICK f : TargetsOf(f, 1) /\ Target(1) = f[1]
    BY TargetSolves
  <2>2. 1 \in 1 .. 1
    OBVIOUS
  <2>3. QED
    BY <2>1, <2>2, Zenon DEF TargetsOf
<1>2. ASSUME NEW n \in Nat \ {0} PROVE Target(n + 1) = Target(n) + EncodedLength(n)
  <2>1. PICK m : m = n + 1
    BY Zenon
  <2>2. PICK f : TargetsOf(f, n) /\ Target(n) = f[n]
    BY TargetSolves
  <2>3. PICK g : TargetsOf(g, m) /\ Target(m) = g[m]
    BY <2>1, TargetSolves
  <2>4. n \in 1 .. n /\ m \in 1 .. m /\ n <= m /\ m # 1 /\ m - 1 = n /\ n \in Nat /\ m \in Nat
    BY <2>1
  <2>5. f[n] = g[n]
    BY <2>2, <2>3, <2>4, TargetsAgree
  <2>6. g[m] = g[n] + EncodedLength(n)
    BY <2>3, <2>4, Zenon DEF TargetsOf
  <2>7. QED
    BY <2>1, <2>2, <2>3, <2>5, <2>6, Zenon
<1>3. QED
  BY <1>1, <1>2

\* No two segments start at the same place.
LEMMA TargetsDiffer ==
  ASSUME SoundJob(job)
  PROVE  /\ \A k \in Segments : Target(k) \in Nat
         /\ \A j, k \in Segments : Target(j) = Target(k) => j = k
<1> DEFINE G == {n \in Nat : n \in Segments => /\ Target(n) \in Nat
                                              /\ \A j \in Segments :
                                                   j < n => Target(j) \in Nat /\ Target(j) < Target(n)}
<1>1. /\ Len(job.segments) \in Nat /\ Segments = 1 .. Len(job.segments)
      /\ \A k \in Segments : EncodedLength(k) \in Nat /\ EncodedLength(k) > 0
  BY SegmentFields
<1>2. 0 \in G
  BY <1>1
<1>3. ASSUME NEW n \in Nat, n \in G PROVE n + 1 \in G
  <2>1. CASE n = 0
    <3>1. n + 1 = 1 /\ \A j \in Segments : ~(j < 1)
      BY <1>1, <2>1
    <3>2. QED
      BY <3>1, TargetStep
  <2>2. CASE n # 0 /\ n + 1 \in Segments
    <3>1. n \in Segments /\ n \in Nat \ {0}
      BY <1>1, <2>2
    <3>2. /\ Target(n) \in Nat /\ Target(n + 1) = Target(n) + EncodedLength(n)
          /\ \A j \in Segments : j < n => Target(j) \in Nat /\ Target(j) < Target(n)
          /\ EncodedLength(n) \in Nat /\ EncodedLength(n) > 0
      BY <1>1, <1>3, <3>1, TargetStep
    <3>3. \A j \in Segments : j < n + 1 => j < n \/ j = n
      BY <1>1
    <3>4. Target(n + 1) \in Nat /\ Target(n) < Target(n + 1)
      BY <3>2
    <3>5. ASSUME NEW j \in Segments, j < n + 1
          PROVE  Target(j) \in Nat /\ Target(j) < Target(n + 1)
      <4>1. CASE j = n
        BY <3>2, <3>4, <4>1
      <4>2. CASE j < n
        <5>1. PICK a : a = EncodedLength(n)
          BY Zenon
        <5>2. PICK b : b = Target(n)
          BY Zenon
        <5>3. Target(j) < b /\ Target(j) \in Nat /\ b \in Nat /\ a \in Nat /\ a > 0 /\ Target(n + 1) = b + a
          BY <3>2, <4>2, <5>1, <5>2
        <5>4. QED
          BY <5>3
      <4>3. QED
        BY <3>3, <3>5, <4>1, <4>2
    <3>6. QED
      BY <3>4, <3>5
  <2>3. QED
    BY <2>1, <2>2
<1>4. \A n \in Nat : n \in G
  BY <1>2, <1>3, NaturalSteps
<1>5. \A k \in Segments : k \in Nat
  BY <1>1
<1>6. ASSUME NEW j \in Segments, NEW k \in Segments, Target(j) = Target(k) PROVE j = k
  <2>1. /\ Target(j) \in Nat /\ Target(k) \in Nat
        /\ j < k => Target(j) < Target(k)
        /\ k < j => Target(k) < Target(j)
    BY <1>4, <1>5
  <2>2. QED
    BY <1>5, <1>6, <2>1
<1>7. QED
  BY <1>4, <1>5, <1>6

\* What is read of n bytes from segment i on, if f tells of the segments after it.
ReadOf(f, i, n) ==
  IF n <= Len(job.segments[i].raw) \/ i + 1 \notin Segments THEN n + LookAhead
  ELSE EncodedLength(i) + f[i + 1][n - Len(job.segments[i].raw)]

\* It is a number if f gives numbers.
LEMMA ReadOfIs ==
  ASSUME SoundJob(job), NEW length \in Nat, NEW f, NEW i \in Segments, NEW n \in 0 .. length,
         i + 1 \in Segments => f[i + 1] \in [0 .. length -> Nat]
  PROVE  ReadOf(f, i, n) \in Nat
<1>1. Len(job.segments[i].raw) \in Nat /\ EncodedLength(i) \in Nat
  BY SegmentFields
<1>2. CASE n <= Len(job.segments[i].raw) \/ i + 1 \notin Segments
  BY <1>2 DEF LookAhead, ReadOf
<1>3. CASE ~(n <= Len(job.segments[i].raw)) /\ i + 1 \in Segments
  <2>1. PICK m : m = n - Len(job.segments[i].raw)
    BY Zenon
  <2>2. m \in 0 .. length
    BY <1>1, <1>3, <2>1, SMTT(40)
  <2>3. PICK e : e = f[i + 1][m]
    BY Zenon
  <2>4. e \in Nat
    BY <1>3, <2>2, <2>3
  <2>5. ReadOf(f, i, n) = EncodedLength(i) + e
    BY <1>3, <2>1, <2>3 DEF ReadOf
  <2>6. QED
    BY <1>1, <2>4, <2>5
<1>4. QED
  BY <1>2, <1>3

\* The function in Consumed, as far as the last segments go.
ReadsOf(f, first, length) ==
  /\ f = [i \in Segments |-> f[i]]
  /\ \A i \in Segments : i >= first => /\ f[i] = [n \in 0 .. length |-> ReadOf(f, i, n)]
                                      /\ f[i] \in [0 .. length -> Nat]

\* There is one.
LEMMA ReadsExist ==
  ASSUME SoundJob(job), NEW length \in Nat
  PROVE  \E f : ReadsOf(f, 1, length)
<1>1. PICK last : last = Len(job.segments)
  BY Zenon
<1>2. last \in Nat /\ Segments = 1 .. last
  BY <1>1, SegmentFields
<1> DEFINE G == {d \in Nat : \E f : ReadsOf(f, (last + 1) - d, length)}
<1>3. 0 \in G
  <2> DEFINE f == [i \in Segments |-> 0]
  <2>1. \A i \in Segments : ~(i >= (last + 1) - 0)
    BY <1>2
  <2>2. f = [i \in Segments |-> f[i]]
    OBVIOUS
  <2> HIDE DEF f
  <2>3. ReadsOf(f, (last + 1) - 0, length)
    BY <2>1, <2>2, Zenon DEF ReadsOf
  <2>4. QED
    BY <2>3
<1>4. ASSUME NEW d \in Nat, d \in G PROVE d + 1 \in G
  <2>1. PICK first : first = (last + 1) - d
    BY Zenon
  <2>2. PICK f : ReadsOf(f, first, length)
    BY <1>4, <2>1
  <2> DEFINE h == [i \in Segments |-> IF i >= first THEN f[i]
                                       ELSE [n \in 0 .. length |-> ReadOf(f, i, n)]]
  <2>3. \A i \in Segments : i >= first => h[i] = f[i] /\ f[i] \in [0 .. length -> Nat]
    BY <2>2, Zenon DEF ReadsOf
  <2>4. h = [i \in Segments |-> h[i]]
    OBVIOUS
  <2>5. ASSUME NEW i \in Segments, ~(i >= first)
        PROVE  h[i] = [n \in 0 .. length |-> ReadOf(f, i, n)]
    BY <2>5, Zenon
  <2> HIDE DEF h
  <2>6. ASSUME NEW i \in Segments, i >= (last + 1) - (d + 1)
        PROVE  /\ h[i] = [n \in 0 .. length |-> ReadOf(h, i, n)]
               /\ h[i] \in [0 .. length -> Nat]
    <3>1. i + 1 \in Segments => i + 1 >= first
      BY <1>2, <2>1, <2>6
    <3>2. \A n \in 0 .. length : ReadOf(h, i, n) = ReadOf(f, i, n)
      BY <2>3, <3>1, Zenon DEF ReadOf
    <3>3. \A n \in 0 .. length : ReadOf(f, i, n) \in Nat
      <4>1. i + 1 \in Segments => f[i + 1] \in [0 .. length -> Nat]
        BY <2>3, <3>1, Zenon
      <4>2. QED
        BY <4>1, ReadOfIs
    <3>4. h[i] = [n \in 0 .. length |-> ReadOf(f, i, n)]
      <4>1. CASE i >= first
        <5>1. f[i] = [n \in 0 .. length |-> ReadOf(f, i, n)]
          BY <2>2, <4>1, Zenon DEF ReadsOf
        <5>2. QED
          BY <2>3, <4>1, <5>1, Zenon
      <4>2. QED
        BY <2>5, <4>1
    <3>5. h[i] = [n \in 0 .. length |-> ReadOf(h, i, n)]
      BY <3>2, <3>4, Zenon
    <3>6. QED
      BY <3>3, <3>4, <3>5
  <2>7. ReadsOf(h, (last + 1) - (d + 1), length)
    BY <2>4, <2>6, Zenon DEF ReadsOf
  <2>8. QED
    BY <2>7
<1>5. last \in G
  BY <1>2, <1>3, <1>4, NaturalSteps
<1>6. (last + 1) - last = 1
  BY <1>2
<1>7. QED
  BY <1>5, <1>6

\* Each such function gives numbers.
LEMMA ReadsAreNumbers ==
  ASSUME SoundJob(job), NEW length \in Nat, NEW x,
         \A i \in Segments : x[i] = [n \in 0 .. length |-> ReadOf(x, i, n)]
  PROVE  \A i \in Segments : x[i] \in [0 .. length -> Nat]
<1>1. PICK last : last = Len(job.segments)
  BY Zenon
<1>2. last \in Nat /\ Segments = 1 .. last
  BY <1>1, SegmentFields
<1> DEFINE G == {d \in Nat : \A i \in Segments : i >= (last + 1) - d => x[i] \in [0 .. length -> Nat]}
<1>3. 0 \in G
  BY <1>2
<1>4. ASSUME NEW d \in Nat, d \in G PROVE d + 1 \in G
  <2>1. ASSUME NEW i \in Segments, i >= (last + 1) - (d + 1) PROVE x[i] \in [0 .. length -> Nat]
    <3>1. i + 1 >= (last + 1) - d
      BY <1>2, <2>1
    <3>2. i + 1 \in Segments => x[i + 1] \in [0 .. length -> Nat]
      BY <1>4, <3>1
    <3>3. \A n \in 0 .. length : ReadOf(x, i, n) \in Nat
      BY <3>2, ReadOfIs
    <3>4. QED
      BY <3>3
  <2>2. QED
    BY <2>1
<1>5. last \in G
  BY <1>2, <1>3, <1>4, NaturalSteps
<1>6. \A i \in Segments : i >= (last + 1) - last
  BY <1>2
<1>7. QED
  BY <1>5, <1>6

\* What is consumed is a number.
LEMMA ConsumedIs ==
  ASSUME SoundJob(job), NEW k \in Segments, NEW length \in Nat
  PROVE  Consumed(k, length) \in Nat
<1> DEFINE S(f) == f = [i \in Segments |->
                     [n \in 0 .. length |->
                       IF n <= Len(job.segments[i].raw) \/ i + 1 \notin Segments THEN n + LookAhead
                       ELSE EncodedLength(i) + f[i + 1][n - Len(job.segments[i].raw)]]]
           x == CHOOSE f : S(f)
<1>1. PICK g : ReadsOf(g, 1, length)
  BY ReadsExist
<1>2. S(g)
  <2>1. \A i \in Segments : i >= 1
    BY SegmentFields
  <2>2. \A i \in Segments : g[i] = [n \in 0 .. length |-> ReadOf(g, i, n)]
    BY <1>1, <2>1, Zenon DEF ReadsOf
  <2> DEFINE h == [i \in Segments |-> [n \in 0 .. length |-> ReadOf(g, i, n)]]
  <2>3. g = h
    <3>1. DOMAIN h = Segments /\ \A i \in Segments : h[i] = g[i]
      BY <2>2, Zenon
    <3>2. g = [i \in Segments |-> g[i]]
      BY <1>1, Zenon DEF ReadsOf
    <3>3. QED
      BY <2>2, <3>2, Zenon
  <2>4. QED
    BY <2>3, Zenon DEF ReadOf
<1>3. S(x)
  <2> HIDE DEF S
  <2>1. QED
    BY <1>2
<1>4. Consumed(k, length) = x[k][length]
  BY DEF Consumed
<1> HIDE DEF x
<1>5. \A i \in Segments : x[i] = [n \in 0 .. length |-> ReadOf(x, i, n)]
  <2>1. PICK h : h = [i \in Segments |-> [n \in 0 .. length |-> ReadOf(x, i, n)]]
    BY Zenon
  <2>2. x = h
    BY <1>3, <2>1, Zenon DEF ReadOf
  <2>3. \A i \in Segments : h[i] = [n \in 0 .. length |-> ReadOf(x, i, n)]
    BY <2>1, Zenon
  <2> HIDE DEF S
  <2>4. QED
    BY <2>2, <2>3, Zenon
<1>6. x[k] \in [0 .. length -> Nat] /\ length \in 0 .. length
  <2>1. \A i \in Segments : x[i] \in [0 .. length -> Nat]
    BY <1>5, ReadsAreNumbers, Zenon
  <2>2. QED
    BY <2>1
<1>7. QED
  BY <1>4, <1>6

-----------------------------------------------------------------------------
(* Recent distances, and the bytes of a match *)

\* The decoder finds the distance that was encoded, and keeps the same list.
LEMMA RecentIs ==
  ASSUME NEW list \in [0 .. 3 -> Nat], NEW distance \in Nat \ {0}
  PROVE  /\ EncodeRecentDistance(list, distance)[1] \in Nat
         /\ EncodeRecentDistance(list, distance)[2] \in [0 .. 3 -> Nat]
         /\ DecodeRecentDistance(list, EncodeRecentDistance(list, distance)[1])[1] = distance
         /\ DecodeRecentDistance(list, EncodeRecentDistance(list, distance)[1])[2]
              = EncodeRecentDistance(list, distance)[2]
<1> DEFINE known == {i \in DOMAIN list : list[i] = distance}
           code == EncodeRecentDistance(list, distance)
<1>1. DOMAIN list = 0 .. 3
  OBVIOUS
<1>2. CASE known = {}
  <2>1. code = <<distance + 3, Shifted(list, distance)>>
    BY <1>2 DEF EncodeRecentDistance
  <2>2. distance + 3 \notin DOMAIN list /\ distance + 3 \in Nat /\ (distance + 3) - 3 = distance
    BY <1>1
  <2>3. Shifted(list, distance) \in [0 .. 3 -> Nat]
    <3>1. \A i \in 0 .. 3 : i = 0 \/ i - 1 \in 0 .. 3
      OBVIOUS
    <3>2. QED
      BY <1>1, <3>1 DEF Shifted
  <2>4. DecodeRecentDistance(list, distance + 3) = <<distance, Shifted(list, distance)>>
    BY <2>2, Zenon DEF DecodeRecentDistance
  <2>5. QED
    BY <2>1, <2>2, <2>3, <2>4
<1>3. CASE known # {}
  <2>1. PICK k : k = Min(known)
    BY Zenon
  <2>2. k \in 0 .. 3 /\ list[k] = distance
    <3>1. known \subseteq 0 .. 3 /\ 0 .. 3 \subseteq Nat
      OBVIOUS
    <3>2. known \subseteq Nat
      BY <3>1
    <3> DEFINE S == known
    <3>3. S # {} /\ S \subseteq Nat
      BY <1>3, <3>2
    <3> HIDE DEF S
    <3>4. Min(S) \in S
      BY <3>3, LeastIs
    <3>5. QED
      BY <2>1, <3>1, <3>4 DEF S
  <2>3. code = <<k, Swapped(list, k)>>
    BY <1>3, <2>1 DEF EncodeRecentDistance
  <2>4. Swapped(list, k) \in [0 .. 3 -> Nat]
    BY <2>2 DEF Swapped
  <2>5. DecodeRecentDistance(list, k) = <<distance, Swapped(list, k)>>
    BY <1>1, <2>2, Zenon DEF DecodeRecentDistance
  <2>6. QED
    BY <2>2, <2>3, <2>4, <2>5
<1>4. QED
  BY <1>2, <1>3

\* A period more does not change the remainder.
LEMMA Period ==
  ASSUME NEW d \in Nat \ {0}, NEW x \in Nat
  PROVE  /\ x < d => x % d = x
         /\ x >= d => (x - d) % d = x % d
         /\ x % d \in 0 .. d - 1
<1>1. CASE x < d
  BY <1>1
<1>2. CASE x >= d
  <2>1. PICK y : y = x - d
    BY Zenon
  <2>2. PICK m : m = y % d
    BY Zenon
  <2>3. PICK q : q = y \div d
    BY Zenon
  <2>4. y \in Nat /\ m \in 0 .. d - 1 /\ q \in Nat /\ y = d * q + m
    BY <1>2, <2>1, <2>2, <2>3
  <2>5. d * (q + 1) = d * q + d
    BY <2>4
  <2>6. x = d * (q + 1) + m
    BY <1>2, <2>1, <2>4, <2>5
  <2>7. x % d = m
    BY <2>4, <2>6
  <2>8. QED
    BY <1>2, <2>1, <2>2, <2>4, <2>7
<1>3. QED
  BY <1>1, <1>2

\* A match repeats the bytes of its distance.
LEMMA Repeats ==
  ASSUME NEW f, NEW p \in Nat, NEW d \in 1 .. p, NEW length \in Nat,
         \A i \in 1 .. length : f[p + i] = f[p + i - d]
  PROVE  \A i \in 1 .. length : f[p + i] = f[p - d + 1 + ((i - 1) % d)]
<1> DEFINE G == {n \in Nat : \A i \in 1 .. length : i <= n => f[p + i] = f[p - d + 1 + ((i - 1) % d)]}
<1>1. \A n \in Nat : (\A m \in 0 .. n - 1 : m \in G) => n \in G
  <2>1. ASSUME NEW n \in Nat, \A m \in 0 .. n - 1 : m \in G, NEW i \in 1 .. length, i <= n
        PROVE  f[p + i] = f[p - d + 1 + ((i - 1) % d)]
    <3>1. PICK x : x = i - 1
      BY Zenon
    <3>2. x \in Nat /\ d \in Nat \ {0}
      BY <3>1
    <3>3. CASE x < d
      <4>1. x % d = x
        BY <3>2, <3>3, Period
      <4>2. p - d + 1 + x = p + i - d
        BY <3>1, <3>2
      <4>3. QED
        BY <3>1, <4>1, <4>2
    <3>4. CASE ~(x < d)
      <4>1. PICK j : j = i - d
        BY Zenon
      <4>2. j \in 1 .. length /\ j <= n - 1 /\ n - 1 \in 0 .. n - 1 /\ j - 1 = x - d /\ p + i - d = p + j
        <5>1. i = x + 1 /\ i \in Nat /\ i <= n /\ i <= length
          BY <2>1, <3>1
        <5>2. x >= d /\ j = (x + 1) - d
          BY <3>2, <3>4, <4>1, <5>1
        <5>3. QED
          BY <3>2, <4>1, <5>1, <5>2
      <4>3. f[p + j] = f[p - d + 1 + ((j - 1) % d)]
        BY <2>1, <4>2
      <4>4. (x - d) % d = x % d
        <5>1. x >= d
          BY <3>2, <3>4
        <5>2. QED
          BY <3>2, <5>1, Period, Zenon
      <4>5. f[p + i] = f[p + j]
        BY <4>2
      <4>6. QED
        BY <3>1, <4>2, <4>3, <4>4, <4>5, Zenon
    <3>5. QED
      BY <3>3, <3>4
  <2>2. QED
    BY <2>1
<1>2. 0 \in G
  OBVIOUS
<1>3. \A n \in Nat : n \in G
  <2> DEFINE H == {n \in Nat : \A m \in 0 .. n : m \in G}
  <2> HIDE DEF G
  <2>1. 0 \in H
    BY <1>2
  <2>2. ASSUME NEW n \in Nat, n \in H PROVE n + 1 \in H
    <3>1. \A m \in 0 .. n + 1 : m \in 0 .. n \/ m = n + 1
      OBVIOUS
    <3>2. \A m \in 0 .. (n + 1) - 1 : m \in G
      BY <2>2
    <3>3. n + 1 \in G
      BY <1>1, <3>2
    <3>4. QED
      BY <2>2, <3>1, <3>3
  <2>3. \A n \in Nat : n \in H
    BY <2>1, <2>2, NaturalSteps
  <2>4. QED
    BY <2>3
<1>4. QED
  BY <1>3

\* The next bytes of the chunk after those there are.
LEMMA Extended ==
  ASSUME NEW B, NEW f \in Seq(B), NEW p \in Nat, NEW n \in Nat, p + n <= Len(f),
         NEW s \in Seq(B), Len(s) = n, \A i \in 1 .. n : s[i] = f[p + i]
  PROVE  SubSeq(f, 1, p) \o s = SubSeq(f, 1, p + n)
<1> DEFINE a == SubSeq(f, 1, p)
           b == SubSeq(f, 1, p + n)
           c == a \o s
<1>1. Len(f) \in Nat /\ \A i \in 1 .. Len(f) : f[i] \in B
  BY LenProperties, ElementOfSeq
<1>2. a \in Seq(B) /\ Len(a) = p /\ \A i \in 1 .. p : a[i] = f[i]
  <2>1. \A i \in 1 .. p : f[i] \in B /\ 1 + i - 1 = i
    BY <1>1
  <2>2. p - 1 + 1 = p /\ (IF 1 <= p THEN p - 1 + 1 ELSE 0) = p
    OBVIOUS
  <2>3. a \in Seq(B) /\ Len(a) = (IF 1 <= p THEN p - 1 + 1 ELSE 0)
        /\ \A i \in 1 .. p - 1 + 1 : a[i] = f[1 + i - 1]
    BY <2>1, SubSeqProperties
  <2> HIDE DEF a
  <2>4. QED
    BY <2>1, <2>2, <2>3
<1>3. b \in Seq(B) /\ Len(b) = p + n /\ \A i \in 1 .. p + n : b[i] = f[i]
  <2>0. PICK q : q = p + n
    BY Zenon
  <2>1. \A i \in 1 .. q : f[i] \in B /\ 1 + i - 1 = i
    BY <1>1, <2>0
  <2>2. q \in Nat /\ q - 1 + 1 = q /\ (IF 1 <= q THEN q - 1 + 1 ELSE 0) = q
    BY <2>0
  <2> DEFINE e == SubSeq(f, 1, q)
  <2>3. e \in Seq(B) /\ Len(e) = (IF 1 <= q THEN q - 1 + 1 ELSE 0)
        /\ \A i \in 1 .. q - 1 + 1 : e[i] = f[1 + i - 1]
    BY <2>1, <2>2, SubSeqProperties
  <2>4. b = e
    BY <2>0
  <2> HIDE DEF b, e
  <2>5. QED
    BY <2>0, <2>1, <2>2, <2>3, <2>4
<1> HIDE DEF a, b
<1>4. /\ c \in Seq(B) /\ Len(c) = p + n
      /\ \A i \in 1 .. p + n : c[i] = IF i <= p THEN a[i] ELSE s[i - p]
  BY <1>2, ConcatProperties
<1> HIDE DEF c
<1>5. \A i \in 1 .. p + n : c[i] = b[i]
  <2>1. ASSUME NEW i \in 1 .. p + n, ~(i <= p) PROVE s[i - p] = f[i]
    <3>1. PICK k : k = i - p
      BY Zenon
    <3>2. k \in 1 .. n /\ p + k = i
      BY <2>1, <3>1
    <3>3. QED
      BY <3>1, <3>2
  <2>2. \A i \in 1 .. p + n : i <= p => i \in 1 .. p
    OBVIOUS
  <2>3. QED
    BY <1>2, <1>3, <1>4, <2>1, <2>2, Zenon
<1>6. c = b
  BY <1>3, <1>4, <1>5, SeqEqual
<1>7. QED
  BY <1>6 DEF a, b, c

-----------------------------------------------------------------------------
(* The encoder writes tokens *)

\* What is written is in the stream, after what was there.
LEMMA Written ==
  ASSUME stream \in Seq(Symbol), NEW symbols \in Seq(Symbol), stream' = stream \o symbols
  PROVE  /\ stream' \in Seq(Symbol) /\ Len(stream') = Len(stream) + Len(symbols)
         /\ \A n : n = Len(stream) => Holds(n, symbols)'
         /\ \A from \in Nat : \A s : Holds(from, s) => Holds(from, s)'
<1> DEFINE t == stream \o symbols
<1>1. Len(stream) \in Nat /\ Len(symbols) \in Nat
  BY LenProperties
<1>2. /\ t \in Seq(Symbol) /\ Len(t) = Len(stream) + Len(symbols)
      /\ \A i \in 1 .. Len(stream) + Len(symbols) :
           t[i] = IF i <= Len(stream) THEN stream[i] ELSE symbols[i - Len(stream)]
  BY ConcatProperties
<1> HIDE DEF t
<1>3. stream' = t
  BY DEF t
<1>4. PICK n : n = Len(stream)
  BY Zenon
<1>5. PICK m : m = Len(symbols)
  BY Zenon
<1>6. n \in Nat /\ m \in Nat /\ Len(t) = n + m
  BY <1>1, <1>2, <1>4, <1>5
<1>7. \A i \in 1 .. n + m : t[i] = IF i <= n THEN stream[i] ELSE symbols[i - n]
  BY <1>2, <1>4, <1>5
<1>8. Holds(n, symbols)'
  <2>1. \A i \in 1 .. m : t[n + i] = symbols[i]
    <3>1. \A i \in 1 .. m : n + i \in 1 .. n + m /\ ~(n + i <= n) /\ (n + i) - n = i
      BY <1>6
    <3>2. QED
      BY <1>7, <3>1
  <2>2. n + m <= Len(t)
    BY <1>6
  <2>3. QED
    BY <1>3, <1>5, <1>6, <2>1, <2>2 DEF Holds
<1>9. ASSUME NEW from \in Nat, NEW s, Holds(from, s) PROVE Holds(from, s)'
  <2>1. PICK k : k = Len(s)
    BY Zenon
  <2>2. k \in Nat /\ from + k <= n /\ \A i \in 1 .. k : stream[from + i] = s[i]
    BY <1>4, <1>9, <2>1 DEF Holds
  <2>3. \A i \in 1 .. k : from + i \in 1 .. n + m /\ from + i <= n
    BY <1>6, <2>2
  <2>4. \A i \in 1 .. k : t[from + i] = s[i]
    BY <1>7, <2>2, <2>3
  <2>5. from + k <= Len(t)
    BY <1>6, <2>2
  <2>6. QED
    BY <1>3, <2>1, <2>2, <2>4, <2>5 DEF Holds
<1>10. QED
  BY <1>2, <1>3, <1>4, <1>8, <1>9

\* A coded symbol.
LEMMA CodedIs ==
  ASSUME NEW kind \in Kinds, NEW context \in Nat, NEW table \in Nat, NEW symbol \in Nat
  PROVE  /\ Coded(kind, context, table, symbol) \in Symbol
         /\ Coded(kind, context, table, symbol).model[1] = kind
         /\ Coded(kind, context, table, symbol).symbol = symbol
BY DEF Coded, Symbol

\* The first symbol of a token.
LEMMA TopIs ==
  ASSUME NEW symbol \in Nat
  PROVE  /\ Coded("top", 0, 0, symbol) \in Symbol
         /\ Coded("top", 0, 0, symbol).model[1] = "top"
         /\ Coded("top", 0, 0, symbol).symbol = symbol
BY DEF Coded, Symbol, Kinds

\* The kinds of models.
LEMMA KindsAre == {"top", "offset", "length", "base", "sign", "target"} \subseteq Kinds
BY DEF Kinds

\* A sequence of one symbol.
LEMMA OneSymbol ==
  ASSUME NEW x \in Symbol
  PROVE  <<x>> \in Seq(Symbol) /\ Len(<<x>>) = 1 /\ <<x>>[1] = x
OBVIOUS

\* The fields of a symbol.
LEMMA FieldsAre ==
  ASSUME NEW e, NEW kind, NEW symbol, e = Coded(kind, 0, 0, symbol)
  PROVE  e.model[1] = kind /\ e.symbol = symbol
BY DEF Coded

\* Symbols that are joined.
LEMMA JoinIs ==
  ASSUME NEW s \in Seq(Symbol), NEW t \in Seq(Symbol)
  PROVE  s \o t \in Seq(Symbol) /\ Len(s \o t) = Len(s) + Len(t)
BY ConcatProperties

\* The symbols of each kind of token.
LEMMA LiteralSymbols ==
  ASSUME SoundJob(job), NEW i \in Nat, i < Size
  PROVE  /\ LiteralAt(i) \in Seq(Symbol) /\ Len(LiteralAt(i)) = 1
         /\ LiteralAt(i)[1].model[1] = "top" /\ LiteralAt(i)[1].symbol = job.input[i + 1]
         /\ job.input[i + 1] \in 0 .. 255
<1>1. job.input[i + 1] \in 0 .. 255
  <2>1. i + 1 \in 1 .. Size
    BY JobFields
  <2>2. QED
    BY <2>1, JobFields
<1>2. PICK x : x = Coded("top", 0, 0, job.input[i + 1])
  BY Zenon
<1>3. x \in Symbol /\ x.model[1] = "top" /\ x.symbol = job.input[i + 1]
  <2>1. job.input[i + 1] \in Nat
    BY <1>1
  <2>2. QED
    BY <1>2, <2>1, TopIs
<1>4. QED
  BY <1>1, <1>2, <1>3, OneSymbol DEF LiteralAt

\* The settings count.
LEMMA SettingsAre ==
  /\ MaxMatch \in Nat /\ MaxMatch <= 258
  /\ Settings.offsetContinuation \in Nat \ {0, 1} /\ Settings.lengthContinuation \in Nat \ {0, 1}
  /\ Settings.baseContinuation \in Nat \ {0, 1}
  /\ Settings.offsetTables \in Nat \ {0} /\ Settings.contexts \in Nat \ {0}
  /\ Settings.lengthTables \in Nat \ {0} /\ Settings.baseTables \in Nat \ {0}
  /\ Settings.bigMinMatch \in Nat \ {0}
BY SettingsAssumption DEF MinMatch

\* The groups of a number are numbers.
LEMMA GroupsSeq ==
  ASSUME NEW c \in Nat \ {0, 1}, NEW v \in Nat
  PROVE  Groups(v, c) \in Seq(Nat) /\ Len(Groups(v, c)) \in Nat /\ Len(Groups(v, c)) > 0
<1>1. PICK q : InGroups(v, c, Groups(v, c), q)
  BY GroupsAre
<1>2. QED
  BY <1>1, LenProperties DEF InGroups

\* The context of the offset of a match is a number.
LEMMA OffsetContextIs ==
  ASSUME NEW length \in Nat, length >= MinMatch PROVE OffsetContext(length) \in Nat
<1>1. PICK a : a = length - MinMatch
  BY Zenon
<1>2. PICK b : b = Settings.contexts - 1
  BY Zenon
<1>3. a \in Nat /\ b \in Nat
  BY <1>1, <1>2, SettingsAre DEF MinMatch
<1>4. Min({a, b}) \in Nat
  BY <1>3, LesserOf
<1>5. QED
  BY <1>1, <1>2, <1>4 DEF OffsetContext

\* The symbols of a match: its length, then the code of its distance in groups.
LEMMA MatchSymbolsAre ==
  ASSUME NEW length \in Nat, length >= MinMatch, NEW code \in Nat
  PROVE  LET number == EncodeGrouped("offset", OffsetContext(length), Settings.offsetTables,
                                     Groups(code, Settings.offsetContinuation))
         IN  /\ MatchSymbols(length, code) \in Seq(Symbol)
             /\ MatchSymbols(length, code) = <<Coded("top", 0, 0, length + 254)>> \o number
             /\ number \in Seq(Symbol)
             /\ Len(number) = Len(Groups(code, Settings.offsetContinuation))
             /\ <<Coded("top", 0, 0, length + 254)>> \in Seq(Symbol)
<1>1. PICK g : g = Groups(code, Settings.offsetContinuation)
  BY Zenon
<1>2. PICK x : x = OffsetContext(length)
  BY Zenon
<1>3. g \in Seq(Nat) /\ x \in Nat
  BY <1>1, <1>2, GroupsSeq, SettingsAre, OffsetContextIs
<1>4. PICK number : number = EncodeGrouped("offset", x, Settings.offsetTables, g)
  BY Zenon
<1>5. number \in Seq(Symbol) /\ Len(number) = Len(g)
  <2>1. "offset" \in Kinds /\ Settings.offsetTables \in Nat \ {0}
    BY SettingsAre, KindsAre
  <2>2. QED
    BY <1>3, <1>4, <2>1, EncodeGroupedSeq, ZenonT(60)
<1>6. Coded("top", 0, 0, length + 254) \in Symbol
  <2>1. length + 254 \in Nat
    OBVIOUS
  <2>2. QED
    BY <2>1, TopIs
<1>7. PICK a : a = <<Coded("top", 0, 0, length + 254)>>
  BY Zenon
<1>8. a \in Seq(Symbol)
  BY <1>6, <1>7, OneSymbol, Zenon
<1>9. a \o number \in Seq(Symbol)
  BY <1>5, <1>8, ConcatProperties
<1>10. QED
  BY <1>1, <1>2, <1>4, <1>5, <1>7, <1>8, <1>9, Zenon DEF MatchSymbols

\* The magnitude a reference's distance from its base is written with.
Magnitude(delta) == IF delta < 0 THEN -1 - delta ELSE delta

\* The parts a reference is written in, with the groups of its length and its magnitude.
ReferenceParts(length, base, delta, g, n, top, rest, mid, number) ==
  /\ g \in Seq(Nat) /\ Len(g) > 0 /\ n \in Seq(Nat)
  /\ ReferenceSymbols(length, base, delta) = top \o rest \o mid \o number
  /\ ReferenceSymbols(length, base, delta) \in Seq(Symbol)
  /\ top = <<Coded("top", 0, 0, 514 + g[1])>>
  /\ rest = EncodeGrouped("length", 0, Settings.lengthTables, Tail(g))
  /\ Len(rest) = Len(g) - 1 /\ Tail(g) \in Seq(Nat)
  /\ mid = <<Coded("base", 0, 0, base), Coded("sign", 0, 0, IF delta < 0 THEN 1 ELSE 0)>>
  /\ number = EncodeGrouped("target", 0, Settings.baseTables, n) /\ Len(number) = Len(n)

\* The symbols of a reference are its parts, one after the other.
LEMMA ReferenceSymbolsAre ==
  ASSUME NEW length \in Nat, length >= Settings.bigMinMatch, NEW base \in 0 .. 7, NEW delta \in Int,
         NEW g, g = Groups(length - Settings.bigMinMatch, Settings.lengthContinuation),
         NEW n, n = Groups(Magnitude(delta), Settings.baseContinuation)
  PROVE  \E top \in Seq(Symbol), rest \in Seq(Symbol), mid \in Seq(Symbol), number \in Seq(Symbol) :
           ReferenceParts(length, base, delta, g, n, top, rest, mid, number)
<1>1. g \in Seq(Nat) /\ Len(g) \in Nat /\ Len(g) > 0
  <2>1. length - Settings.bigMinMatch \in Nat
    BY SettingsAre
  <2>2. QED
    BY <2>1, SettingsAre, GroupsSeq
<1>2. n \in Seq(Nat) /\ Len(n) \in Nat
  <2>1. Magnitude(delta) \in Nat
    BY DEF Magnitude
  <2>2. QED
    BY <2>1, SettingsAre, GroupsSeq
<1>3. PICK top : top = <<Coded("top", 0, 0, 514 + g[1])>>
  BY Zenon
<1>4. top \in Seq(Symbol)
  <2>1. 514 + g[1] \in Nat
    BY <1>1, ElementOfSeq
  <2>2. Coded("top", 0, 0, 514 + g[1]) \in Symbol
    BY <2>1, TopIs
  <2>3. QED
    BY <1>3, <2>2, OneSymbol, ZenonT(60)
<1>5. PICK u : u = Tail(g)
  BY Zenon
<1>6. u \in Seq(Nat) /\ Len(u) = Len(g) - 1
  <2>1. g # <<>>
    BY <1>1
  <2>2. QED
    BY <1>1, <1>5, <2>1, HeadTailProperties
<1>7. PICK rest : rest = EncodeGrouped("length", 0, Settings.lengthTables, u)
  BY Zenon
<1>8. rest \in Seq(Symbol) /\ Len(rest) = Len(u)
  <2>1. "length" \in Kinds /\ Settings.lengthTables \in Nat \ {0} /\ 0 \in Nat
    BY SettingsAre, KindsAre
  <2>2. /\ EncodeGrouped("length", 0, Settings.lengthTables, u) \in Seq(Symbol)
        /\ Len(EncodeGrouped("length", 0, Settings.lengthTables, u)) = Len(u)
    BY <1>6, <2>1, EncodeGroupedSeq, ZenonT(60)
  <2>3. QED
    BY <1>7, <2>2, Zenon
<1>9. PICK number : number = EncodeGrouped("target", 0, Settings.baseTables, n)
  BY Zenon
<1>10. number \in Seq(Symbol) /\ Len(number) = Len(n)
  <2>1. "target" \in Kinds /\ Settings.baseTables \in Nat \ {0} /\ 0 \in Nat
    BY SettingsAre, KindsAre
  <2>2. /\ EncodeGrouped("target", 0, Settings.baseTables, n) \in Seq(Symbol)
        /\ Len(EncodeGrouped("target", 0, Settings.baseTables, n)) = Len(n)
    BY <1>2, <2>1, EncodeGroupedSeq, ZenonT(60)
  <2>3. QED
    BY <1>9, <2>2, Zenon
<1>11. PICK sign : sign = IF delta < 0 THEN 1 ELSE 0
  BY Zenon
<1>12. PICK mid : mid = <<Coded("base", 0, 0, base), Coded("sign", 0, 0, sign)>>
  BY Zenon
<1>13. mid \in Seq(Symbol)
  <2>1. PICK a : a = Coded("base", 0, 0, base)
    BY Zenon
  <2>2. PICK b : b = Coded("sign", 0, 0, sign)
    BY Zenon
  <2>3. a \in Symbol
    BY <2>1 DEF Coded, Symbol, Kinds
  <2>4. b \in Symbol
    BY <1>11, <2>2 DEF Coded, Symbol, Kinds
  <2>5. mid = <<a, b>>
    BY <1>12, <2>1, <2>2
  <2>6. QED
    BY <2>3, <2>4, <2>5
<1>14. ReferenceSymbols(length, base, delta) = top \o rest \o mid \o number
  <2>1. n = Groups(IF delta < 0 THEN -1 - delta ELSE delta, Settings.baseContinuation)
    BY Zenon DEF Magnitude
  <2>2. ReferenceSymbols(length, base, delta)
          = <<Coded("top", 0, 0, 514 + g[1])>>
              \o EncodeGrouped("length", 0, Settings.lengthTables, Tail(g))
              \o <<Coded("base", 0, 0, base), Coded("sign", 0, 0, sign)>>
              \o EncodeGrouped("target", 0, Settings.baseTables, n)
    <3> DEFINE E(a, z, m) == <<Coded("top", 0, 0, 514 + a[1])>>
                               \o EncodeGrouped("length", 0, Settings.lengthTables, Tail(a))
                               \o <<Coded("base", 0, 0, base), Coded("sign", 0, 0, z)>>
                               \o EncodeGrouped("target", 0, Settings.baseTables, m)
    <3>1. ReferenceSymbols(length, base, delta)
            = E(Groups(length - Settings.bigMinMatch, Settings.lengthContinuation),
                IF delta < 0 THEN 1 ELSE 0,
                Groups(IF delta < 0 THEN -1 - delta ELSE delta, Settings.baseContinuation))
      BY Zenon DEF ReferenceSymbols
    <3>2. ReferenceSymbols(length, base, delta) = E(g, sign, n)
      <4> HIDE DEF E
      <4>1. QED
        BY <1>11, <2>1, <3>1, Zenon
    <3>3. QED
      BY <3>2, Zenon
  <2>3. QED
    BY <1>3, <1>5, <1>7, <1>9, <1>12, <2>2, ZenonT(60)
<1>15. top \o rest \o mid \o number \in Seq(Symbol)
  <2>1. top \o rest \in Seq(Symbol)
    BY <1>4, <1>8, ConcatProperties
  <2>2. PICK x : x = top \o rest
    BY Zenon
  <2>3. x \o mid \in Seq(Symbol)
    BY <2>1, <2>2, <1>13, ConcatProperties
  <2>4. PICK y : y = x \o mid
    BY Zenon
  <2>5. y \o number \in Seq(Symbol)
    BY <2>3, <2>4, <1>10, ConcatProperties
  <2>6. QED
    BY <2>2, <2>4, <2>5, Zenon
<1>16. Len(rest) = Len(g) - 1
  BY <1>6, <1>8
<1>17. ReferenceSymbols(length, base, delta) \in Seq(Symbol)
  BY <1>14, <1>15, Zenon
<1>18. rest = EncodeGrouped("length", 0, Settings.lengthTables, Tail(g)) /\ Tail(g) \in Seq(Nat)
  BY <1>5, <1>6, <1>7, Zenon
<1>19. mid = <<Coded("base", 0, 0, base), Coded("sign", 0, 0, IF delta < 0 THEN 1 ELSE 0)>>
  BY <1>11, <1>12, Zenon
<1>20. ReferenceParts(length, base, delta, g, n, top, rest, mid, number)
  BY <1>1, <1>2, <1>3, <1>9, <1>10, <1>14, <1>16, <1>17, <1>18, <1>19, Zenon DEF ReferenceParts
<1>21. QED
  BY <1>4, <1>8, <1>10, <1>13, <1>20, Zenon

-----------------------------------------------------------------------------
(* The decoder reads tokens *)

\* What it reads of a match.
LEMMA MatchRead ==
  ASSUME NEW length \in Nat, length >= MinMatch, NEW code \in Nat, cursor \in Nat,
         Len(stream) \in Nat, Holds(cursor, MatchSymbols(length, code)),
         NEW start, start = cursor + 2
  PROVE  /\ stream[cursor + 1] = Coded("top", 0, 0, length + 254)
         /\ InStepFrom(start, "offset", OffsetContext(length), Settings.offsetTables,
                       Settings.offsetContinuation)
         /\ ReadsAs(start, Settings.offsetContinuation, code,
                    cursor + Len(MatchSymbols(length, code)))
<1>1. PICK x : x = OffsetContext(length)
  BY Zenon
<1>2. PICK c : c = Settings.offsetContinuation
  BY Zenon
<1>3. PICK g : g = Groups(code, c)
  BY Zenon
<1>4. PICK q : InGroups(code, c, g, q)
  BY <1>2, <1>3, GroupsAre, SettingsAre
<1>5. x \in Nat /\ c \in Nat \ {0, 1} /\ g \in Seq(Nat) /\ Len(g) \in Nat
  BY <1>1, <1>2, <1>3, GroupsSeq, SettingsAre, OffsetContextIs
<1>6. PICK top : top = <<Coded("top", 0, 0, length + 254)>>
  BY Zenon
<1>7. PICK number : number = EncodeGrouped("offset", x, Settings.offsetTables, g)
  BY Zenon
<1>8. /\ MatchSymbols(length, code) = top \o number /\ number \in Seq(Symbol)
      /\ Len(number) = Len(g) /\ top \in Seq(Symbol)
  <2>1. number = EncodeGrouped("offset", OffsetContext(length), Settings.offsetTables,
                               Groups(code, Settings.offsetContinuation))
    BY <1>1, <1>2, <1>3, <1>7, Zenon
  <2>2. g = Groups(code, Settings.offsetContinuation)
    BY <1>2, <1>3, Zenon
  <2> DEFINE e == EncodeGrouped("offset", OffsetContext(length), Settings.offsetTables,
                                Groups(code, Settings.offsetContinuation))
  <2>3. /\ MatchSymbols(length, code) = <<Coded("top", 0, 0, length + 254)>> \o e
        /\ e \in Seq(Symbol) /\ Len(e) = Len(Groups(code, Settings.offsetContinuation))
        /\ <<Coded("top", 0, 0, length + 254)>> \in Seq(Symbol)
    BY MatchSymbolsAre, ZenonT(60)
  <2> HIDE DEF e
  <2>4. number = e
    BY <2>1, Zenon DEF e
  <2>5. QED
    BY <1>6, <2>2, <2>3, <2>4, Zenon
<1>9. Len(top) = 1 /\ top[1] = Coded("top", 0, 0, length + 254)
  BY <1>6
<1>10. /\ Holds(cursor, top) /\ Holds(cursor + 1, number)
       /\ Len(MatchSymbols(length, code)) = 1 + Len(g)
  <2>1. Holds(cursor, top \o number)
    BY <1>8, Zenon
  <2>2. Holds(cursor, top) /\ Holds(cursor + Len(top), number) /\ Len(top \o number) = Len(top) + Len(number)
    BY <1>8, <2>1, HoldsBoth, Zenon
  <2>3. QED
    BY <1>8, <1>9, <2>2, Zenon
<1>11. stream[cursor + 1] = Coded("top", 0, 0, length + 254)
  BY <1>9, <1>10 DEF Holds
<1>12. NumberAt(cursor + 1, "offset", x, Settings.offsetTables, g)
  <2>1. "offset" \in Kinds /\ Settings.offsetTables \in Nat \ {0} /\ cursor + 1 \in Nat
    BY SettingsAre, KindsAre
  <2>2. Holds(cursor + 1, EncodeGrouped("offset", x, Settings.offsetTables, g))
    BY <1>7, <1>10, Zenon
  <2>3. QED
    BY <1>5, <2>1, <2>2, NumberHolds, Zenon
<1>13. /\ InStepFrom(start, "offset", x, Settings.offsetTables, c)
       /\ ReadsAs(start, c, code, (cursor + 1) + Len(g))
  <2>1. start = (cursor + 1) + 1 /\ cursor + 1 \in Nat
    OBVIOUS
  <2>2. QED
    BY <1>4, <1>5, <1>12, <2>1, NumberRead, Zenon
<1>14. (cursor + 1) + Len(g) = cursor + (1 + Len(g))
  BY <1>5
<1>15. QED
  BY <1>1, <1>2, <1>10, <1>11, <1>13, <1>14, Zenon

\* What it reads of a reference.
LEMMA ReferenceRead ==
  ASSUME NEW length \in Nat, length >= Settings.bigMinMatch, NEW base \in 0 .. 7, NEW delta \in Int,
         Len(stream) \in Nat, cursor \in Nat,
         Holds(cursor, ReferenceSymbols(length, base, delta))
  PROVE  /\ NextSymbol.model[1] = "top" /\ NextSymbol.symbol > EndSymbol /\ NextSymbol.symbol \in Nat
         /\ ReferenceInStep
         /\ ReferenceLength.value = length
         /\ ReferenceTarget(ReferenceLength.end).base = base
         /\ bases[base] \in Int =>
              ReferenceTarget(ReferenceLength.end).value = bases[base] + delta - 3
         /\ ReferenceTarget(ReferenceLength.end).end
              = cursor + Len(ReferenceSymbols(length, base, delta))
<1>1. PICK v : v = length - Settings.bigMinMatch
  BY Zenon
<1>2. PICK c : c = Settings.lengthContinuation
  BY Zenon
<1>3. PICK d : d = Settings.baseContinuation
  BY Zenon
<1>4. PICK w : w = Magnitude(delta)
  BY Zenon
<1>5. /\ v \in Nat /\ c \in Nat \ {0, 1} /\ d \in Nat \ {0, 1} /\ w \in Nat
      /\ Settings.lengthTables \in Nat \ {0} /\ Settings.baseTables \in Nat \ {0}
      /\ Settings.bigMinMatch \in Nat /\ v + Settings.bigMinMatch = length
  <2>1. PICK m : m = Settings.bigMinMatch
    BY Zenon
  <2>2. m \in Nat /\ length >= m
    BY <2>1, SettingsAre
  <2>3. v \in Nat /\ v + m = length
    BY <1>1, <2>1, <2>2
  <2>4. w \in Nat
    BY <1>4 DEF Magnitude
  <2>5. QED
    BY <1>2, <1>3, <2>1, <2>2, <2>3, <2>4, SettingsAre, Zenon
<1>6. PICK g : g = Groups(v, c)
  BY Zenon
<1>7. PICK n : n = Groups(w, d)
  BY Zenon
<1>8. PICK q : InGroups(v, c, g, q)
  BY <1>5, <1>6, GroupsAre
<1>9. PICK p : InGroups(w, d, n, p)
  BY <1>5, <1>7, GroupsAre
<1>10. PICK top \in Seq(Symbol), rest \in Seq(Symbol), mid \in Seq(Symbol), number \in Seq(Symbol) :
           ReferenceParts(length, base, delta, g, n, top, rest, mid, number)
  <2>1. /\ g = Groups(length - Settings.bigMinMatch, Settings.lengthContinuation)
        /\ n = Groups(Magnitude(delta), Settings.baseContinuation)
    BY <1>1, <1>2, <1>3, <1>4, <1>6, <1>7, Zenon
  <2>2. QED
    BY <2>1, ReferenceSymbolsAre, Zenon
<1>groups. /\ g \in Seq(Nat) /\ Len(g) > 0 /\ n \in Seq(Nat)
      /\ ReferenceSymbols(length, base, delta) = top \o rest \o mid \o number
      /\ top = <<Coded("top", 0, 0, 514 + g[1])>>
      /\ rest = EncodeGrouped("length", 0, Settings.lengthTables, Tail(g))
      /\ Len(rest) = Len(g) - 1 /\ Tail(g) \in Seq(Nat)
      /\ mid = <<Coded("base", 0, 0, base), Coded("sign", 0, 0, IF delta < 0 THEN 1 ELSE 0)>>
      /\ number = EncodeGrouped("target", 0, Settings.baseTables, n) /\ Len(number) = Len(n)
  BY <1>10, Zenon DEF ReferenceParts
<1>11. PICK m : m = Len(g)
  BY Zenon
<1>12. m \in Nat /\ m > 0 /\ Len(rest) = m - 1 /\ Len(n) \in Nat
  BY <1>groups, <1>11, LenProperties
<1>13. PICK after : after = cursor + m
  BY Zenon
<1>14. after \in Nat
  BY <1>12, <1>13
<1>15. Len(top) = 1 /\ Len(mid) = 2
  BY <1>groups
<1>16. /\ Holds(cursor, top) /\ Holds(cursor + 1, rest) /\ Holds(after, mid) /\ Holds(after + 2, number)
       /\ Len(ReferenceSymbols(length, base, delta)) = m + 2 + Len(n)
  <2>1. PICK x : x = top \o rest
    BY Zenon
  <2>2. PICK y : y = x \o mid
    BY Zenon
  <2>0. top \in Seq(Symbol) /\ rest \in Seq(Symbol) /\ mid \in Seq(Symbol) /\ number \in Seq(Symbol)
    BY <1>10
  <2>3. x \in Seq(Symbol) /\ Len(x) = 1 + (m - 1)
    <3>1. x \in Seq(Symbol) /\ Len(x) = Len(top) + Len(rest)
      BY <2>0, <2>1, JoinIs, Zenon
    <3>2. QED
      BY <1>12, <1>15, <3>1, Zenon
  <2>4. y \in Seq(Symbol) /\ Len(y) = Len(x) + 2
    <3>1. y \in Seq(Symbol) /\ Len(y) = Len(x) + Len(mid)
      BY <2>0, <2>2, <2>3, JoinIs, Zenon
    <3>2. QED
      BY <1>15, <3>1, Zenon
  <2>5. Holds(cursor, y \o number)
    BY <1>groups, <2>1, <2>2, ZenonT(60)
  <2>6. Holds(cursor, y) /\ Holds(cursor + Len(y), number) /\ Len(y \o number) = Len(y) + Len(number)
    BY <2>0, <2>4, <2>5, HoldsBoth, Zenon
  <2>7. Holds(cursor, x) /\ Holds(cursor + Len(x), mid)
    BY <2>0, <2>2, <2>3, <2>6, HoldsBoth, Zenon
  <2>8. Holds(cursor, top) /\ Holds(cursor + Len(top), rest)
    BY <2>0, <2>1, <2>7, HoldsBoth, Zenon
  <2>9. cursor + Len(x) = after /\ cursor + Len(y) = after + 2 /\ Len(y) = m + 2
    BY <1>12, <1>13, <2>3, <2>4
  <2>10. Len(ReferenceSymbols(length, base, delta)) = m + 2 + Len(n)
    <3>1. ReferenceSymbols(length, base, delta) = y \o number /\ Len(number) = Len(n)
      BY <1>groups, <2>1, <2>2, Zenon
    <3>2. QED
      BY <2>6, <2>9, <3>1, Zenon
  <2>11. after + 2 = cursor + Len(y) /\ after = cursor + Len(x) /\ Len(top) = 1
    BY <1>15, <2>9
  <2>12. QED
    BY <2>6, <2>7, <2>8, <2>10, <2>11, Zenon
<1>17. g[1] \in Nat
  <2>1. 1 \in 1 .. Len(g)
    BY <1>groups, <1>11, <1>12
  <2>2. QED
    BY <1>groups, <2>1, ElementOfSeq, Zenon
<1>18. NextSymbol = Coded("top", 0, 0, 514 + g[1])
  <2>1. stream[cursor + 1] = top[1]
    <3>1. 1 \in 1 .. Len(top)
      BY <1>15
    <3>2. QED
      BY <1>16, <3>1, Zenon DEF Holds
  <2>2. top[1] = Coded("top", 0, 0, 514 + g[1])
    BY <1>groups
  <2>3. QED
    BY <2>1, <2>2 DEF NextSymbol
<1>19. /\ NextSymbol.model[1] = "top" /\ NextSymbol.symbol = 514 + g[1]
       /\ NextSymbol.symbol - 514 = g[1] /\ NextSymbol.symbol > EndSymbol /\ NextSymbol.symbol \in Nat
  <2>1. PICK e : e = g[1]
    BY Zenon
  <2>2. e \in Nat /\ 514 + e \in Nat /\ (514 + e) - 514 = e /\ 514 + e > 513
    BY <1>17, <2>1, SMTT(40)
  <2>3. NextSymbol = Coded("top", 0, 0, 514 + e)
    BY <1>18, <2>1
  <2>4. NextSymbol.model[1] = "top" /\ NextSymbol.symbol = 514 + e
    BY <2>3, FieldsAre
  <2>5. QED
    BY <2>1, <2>2, <2>4 DEF EndSymbol
<1>20. /\ stream[after + 1] = Coded("base", 0, 0, base)
       /\ stream[after + 2] = Coded("sign", 0, 0, IF delta < 0 THEN 1 ELSE 0)
  <2>1. 1 \in 1 .. Len(mid) /\ 2 \in 1 .. Len(mid)
    BY <1>15
  <2>2. stream[after + 1] = mid[1] /\ stream[after + 2] = mid[2]
    BY <1>16, <2>1, Zenon DEF Holds
  <2>3. PICK sign : sign = Coded("sign", 0, 0, IF delta < 0 THEN 1 ELSE 0)
    BY Zenon
  <2>4. mid = <<Coded("base", 0, 0, base), sign>>
    BY <1>groups, <2>3
  <2>5. QED
    BY <2>2, <2>3, <2>4
<1>21. /\ stream[after + 1].model[1] = "base" /\ stream[after + 1].symbol = base
       /\ stream[after + 2].model[1] = "sign"
       /\ stream[after + 2].symbol = IF delta < 0 THEN 1 ELSE 0
  <2>1. PICK z : z = IF delta < 0 THEN 1 ELSE 0
    BY Zenon
  <2>2. base \in Nat /\ z \in Nat /\ "base" \in Kinds /\ "sign" \in Kinds /\ 0 \in Nat
    BY <2>1, KindsAre
  <2>3. stream[after + 1] = Coded("base", 0, 0, base) /\ stream[after + 2] = Coded("sign", 0, 0, z)
    BY <1>20, <2>1
  <2>4. stream[after + 1].model[1] = "base" /\ stream[after + 1].symbol = base
    BY <2>3, FieldsAre
  <2>5. stream[after + 2].model[1] = "sign" /\ stream[after + 2].symbol = z
    BY <2>3, FieldsAre
  <2>6. QED
    BY <2>1, <2>4, <2>5, Zenon
<1>22. NumberAt(after + 2, "target", 0, Settings.baseTables, n)
  <2>1. "target" \in Kinds /\ after + 2 \in Nat /\ 0 \in Nat
    BY <1>14, KindsAre
  <2>2. Holds(after + 2, EncodeGrouped("target", 0, Settings.baseTables, n))
    BY <1>groups, <1>16, Zenon
  <2>3. QED
    BY <1>5, <1>groups, <2>1, <2>2, NumberHolds, Zenon
<1>23. /\ InStepFrom(after + 3, "target", 0, Settings.baseTables, d)
       /\ ReadsAs(after + 3, d, w, (after + 2) + Len(n))
  <2>1. after + 3 = (after + 2) + 1 /\ after + 2 \in Nat
    BY <1>14
  <2>2. QED
    BY <1>5, <1>9, <1>22, <2>1, NumberRead, Zenon
\* The length
<1>24. /\ g[1] < c => Len(g) = 1 /\ v = g[1] % c
       /\ ~(g[1] < c) => /\ InGroups(v \div c, c, Tail(g), Tail(q))
                         /\ v = (g[1] % c) + c * (v \div c) /\ v \div c \in Nat
  BY <1>5, <1>8, GroupsTail, Zenon
<1>25. ASSUME ~(g[1] < c)
       PROVE  /\ InStepFrom(cursor + 2, "length", 0, Settings.lengthTables, c)
              /\ ReadsAs(cursor + 2, c, v \div c, after)
  <2>1. NumberAt(cursor + 1, "length", 0, Settings.lengthTables, Tail(g))
    <3>1. "length" \in Kinds /\ cursor + 1 \in Nat /\ 0 \in Nat
      BY KindsAre
    <3>2. Holds(cursor + 1, EncodeGrouped("length", 0, Settings.lengthTables, Tail(g)))
      BY <1>groups, <1>16, Zenon
    <3>3. Settings.lengthTables \in Nat \ {0} /\ Tail(g) \in Seq(Nat)
      BY <1>5, <1>groups, Zenon
    <3>4. QED
      BY <3>1, <3>2, <3>3, NumberHolds, Zenon
  <2>2. cursor + 2 = (cursor + 1) + 1 /\ cursor + 1 \in Nat
    OBVIOUS
  <2>3. Len(Tail(g)) = m - 1
    <3>1. g # <<>>
      BY <1>groups
    <3>2. QED
      BY <1>groups, <1>11, <3>1, HeadTailProperties
  <2>4. (cursor + 1) + (m - 1) = after
    BY <1>12, <1>13
  <2>5. InGroups(v \div c, c, Tail(g), Tail(q))
    BY <1>24, <1>25, Zenon
  <2>6. /\ InStepFrom(cursor + 2, "length", 0, Settings.lengthTables, c)
        /\ ReadsAs(cursor + 2, c, v \div c, (cursor + 1) + Len(Tail(g)))
    BY <1>5, <2>1, <2>2, <2>5, NumberRead, Zenon
  <2>7. QED
    BY <2>3, <2>4, <2>6, Zenon
<1>26. ReferenceLength = [value |-> length, end |-> after]
  <2>1. PICK rem : rem = LengthRest(g[1])
    BY Zenon
  <2>2. ReferenceLength = [value |-> (g[1] % c) + c * rem.value + Settings.bigMinMatch,
                           end |-> rem.end]
    <3>1. PICK first : first = NextSymbol.symbol - 514
      BY Zenon
    <3>2. first = g[1]
      BY <1>19, <3>1
    <3>3. ReferenceLength
            = [value |-> (first % Settings.lengthContinuation)
                           + Settings.lengthContinuation * LengthRest(first).value + Settings.bigMinMatch,
               end |-> LengthRest(first).end]
      BY <3>1, ZenonT(60) DEF ReferenceLength
    <3>4. QED
      BY <1>2, <2>1, <3>2, <3>3, Zenon
  <2>3. CASE g[1] < c
    <3>1. rem = [value |-> 0, end |-> cursor + 1]
      BY <1>2, <2>1, <2>3, Zenon DEF LengthRest
    <3>2. m = 1 /\ v = g[1] % c
      BY <1>11, <1>24, <2>3
    <3>3. (g[1] % c) + c * 0 + Settings.bigMinMatch = length
      <4>1. v + c * 0 + Settings.bigMinMatch = v + Settings.bigMinMatch
        BY <1>5
      <4>2. QED
        BY <1>5, <3>2, <4>1, Zenon
    <3>4. rem.value = 0 /\ rem.end = after
      BY <1>13, <3>1, <3>2
    <3>5. QED
      BY <2>2, <3>3, <3>4, Zenon
  <2>4. CASE ~(g[1] < c)
    <3>1. rem = [value |-> v \div c, end |-> after]
      BY <1>2, <1>25, <2>1, <2>4, Zenon DEF LengthRest, ReadsAs
    <3>2. rem.value = v \div c /\ rem.end = after
      BY <3>1
    <3>3. (g[1] % c) + c * rem.value = v
      BY <1>24, <2>4, <3>2, Zenon
    <3>4. QED
      BY <1>5, <2>2, <3>2, <3>3, Zenon
  <2>5. QED
    BY <2>3, <2>4
<1>27. ReferenceLength.value = length /\ ReferenceLength.end = after
  BY <1>26
<1>28. ReferenceInStep
  <2>1. \/ NextSymbol.symbol - 514 < Settings.lengthContinuation
        \/ InStepFrom(cursor + 2, "length", 0, Settings.lengthTables, Settings.lengthContinuation)
    BY <1>2, <1>19, <1>25, Zenon
  <2>2. QED
    BY <1>3, <1>21, <1>23, <1>27, <2>1, Zenon DEF ReferenceInStep
<1>29. Grouped(after + 3, d) = [value |-> w, end |-> (after + 2) + Len(n)]
  BY <1>23, Zenon DEF ReadsAs
<1>30. /\ ReferenceTarget(after).base = base
       /\ bases[base] \in Int => ReferenceTarget(after).value = bases[base] + delta - 3
       /\ ReferenceTarget(after).end = (after + 2) + Len(n)
  <2>1. PICK offset : offset = Grouped(after + 3, d)
    BY Zenon
  <2>2. offset.value = w /\ offset.end = (after + 2) + Len(n)
    BY <1>29, <2>1
  <2>3. PICK e : e = IF stream[after + 2].symbol = 1 THEN -1 - offset.value ELSE offset.value
    BY Zenon
  <2>4. e = delta
    <3>1. e = IF delta < 0 THEN -1 - w ELSE w
      BY <1>21, <2>2, <2>3
    <3>2. QED
      BY <1>4, <3>1 DEF Magnitude
  <2>5. ReferenceTarget(after) = [base |-> base, value |-> bases[base] + e - 3, end |-> offset.end]
    BY <1>3, <1>21, <2>1, <2>3, Zenon DEF ReferenceTarget
  <2>6. QED
    BY <2>2, <2>4, <2>5
<1>31. (after + 2) + Len(n) = cursor + Len(ReferenceSymbols(length, base, delta))
  BY <1>12, <1>13, <1>16
<1>32. QED
  BY <1>19, <1>27, <1>28, <1>30, <1>31, Zenon

-----------------------------------------------------------------------------
(* The steps of the encoder *)

\* What only depends on the chunk.
LEMMA JobKept ==
  ASSUME job' = job
  PROVE  /\ Size' = Size /\ \A k : Target(k)' = Target(k)
         /\ \A r : NextBase(r)' = NextBase(r)
         /\ \A i : LiteralAt(i)' = LiteralAt(i)
<1>1. \A k : EncodedLength(k)' = EncodedLength(k)
  BY Zenon DEF EncodedLength
<1>2. \A k : Target(k)' = Target(k)
  BY Zenon DEF Target, EncodedLength
<1>3. \A k, length : Consumed(k, length)' = Consumed(k, length)
  BY DEF Consumed, Segments, EncodedLength
<1>4. \A r : NextBase(r)' = NextBase(r)
  BY <1>2, <1>3, Zenon DEF NextBase
<1>5. QED
  BY <1>2, <1>4, Zenon DEF Size, LiteralAt

\* A token that is in the stream stays in it.
LEMMA TokenKept ==
  ASSUME stream \in Seq(Symbol), NEW symbols \in Seq(Symbol), stream' = stream \o symbols,
         job' = job, NEW a \in Entry, NEW b \in Entry, Token(a, b)
  PROVE  Token(a, b)'
<1>1. a.symbols \in Nat
  BY DEF Entry
<1>2. \A s : Follows(a, b, s) => Follows(a, b, s)'
  <2>1. \A from \in Nat : \A s : Holds(from, s) => Holds(from, s)'
    BY Written, Zenon
  <2>2. QED
    BY <1>1, <2>1, Zenon DEF Follows
<1>3. /\ Size' = Size /\ \A k : Target(k)' = Target(k)
      /\ \A r : NextBase(r)' = NextBase(r)
      /\ \A i : LiteralAt(i)' = LiteralAt(i)
  BY JobKept
<1>4. CASE LiteralToken(a, b)
  BY <1>2, <1>3, <1>4, Zenon DEF LiteralToken, Token
<1>5. CASE MatchToken(a, b)
  BY <1>2, <1>3, <1>5, Zenon DEF MatchToken, Token
<1>6. CASE ReferenceToken(a, b)
  BY <1>2, <1>3, <1>6, Zenon DEF ReferenceToken, Token
<1>7. QED
  BY <1>4, <1>5, <1>6 DEF Token

\* A path goes on with a token.
LEMMA PathStep ==
  ASSUME stream \in Seq(Symbol), NEW symbols \in Seq(Symbol), stream' = stream \o symbols,
         job' = job, NEW p, Path(p), NEW h \in Entry, Token(p[Len(p)], h)',
         NEW q, q = Append(p, h)
  PROVE  Path(q)'
<1>1. /\ p \in Seq(Entry) /\ Len(p) > 0 /\ p[1] = Start
      /\ \A k \in 1 .. Len(p) - 1 : Token(p[k], p[k + 1])
  BY Zenon DEF Path
<1>2. PICK n : n = Len(p)
  BY Zenon
<1>3. n \in Nat /\ n > 0 /\ \A k \in 1 .. n : p[k] \in Entry
  BY <1>1, <1>2, LenProperties, ElementOfSeq
<1>4. /\ q \in Seq(Entry) /\ Len(q) = n + 1
      /\ \A i \in 1 .. n : q[i] = p[i]
      /\ q[n + 1] = h
  BY <1>1, <1>2, AppendProperties
<1>5. \A k \in 1 .. n - 1 : Token(p[k], p[k + 1])'
  <2>1. ASSUME NEW k \in 1 .. n - 1 PROVE Token(p[k], p[k + 1])'
    <3>1. k \in 1 .. n /\ k + 1 \in 1 .. n
      BY <1>3
    <3>2. p[k] \in Entry /\ p[k + 1] \in Entry /\ Token(p[k], p[k + 1])
      BY <1>1, <1>2, <1>3, <3>1, Zenon
    <3>3. QED
      BY <3>2, TokenKept, Zenon
  <2>2. QED
    BY <2>1
<1>6. ASSUME NEW k \in 1 .. n PROVE Token(q[k], q[k + 1])'
  <2>1. CASE k = n
    <3>1. q[k] = p[n] /\ q[k + 1] = h
      BY <1>3, <1>4, <2>1
    <3>2. Token(p[n], h)'
      BY <1>2, Zenon
    <3>3. QED
      BY <3>1, <3>2, Zenon
  <2>2. CASE k # n
    <3>1. k \in 1 .. n - 1 /\ k + 1 \in 1 .. n
      BY <1>3, <2>2
    <3>2. q[k] = p[k] /\ q[k + 1] = p[k + 1]
      BY <1>4, <3>1, Zenon
    <3>3. Token(p[k], p[k + 1])'
      BY <1>5, <3>1, Zenon
    <3>4. QED
      BY <3>2, <3>3, Zenon
  <2>3. QED
    BY <2>1, <2>2
<1>7. Len(q) > 0 /\ Len(q) - 1 = n /\ q[1] = Start /\ q \in Seq(Entry)
  BY <1>1, <1>3, <1>4
<1>8. QED
  BY <1>6, <1>7, Zenon DEF Path

\* Where the encoder stands.
LEMMA HereIs ==
  ASSUME trail \in Seq(Entry), Here \in Entry, NEW p, p = Append(trail, Here)
  PROVE  /\ p[Len(p)] = Here
         /\ recent \in [0 .. 3 -> Nat] /\ bases \in [0 .. 7 -> Int]
         /\ Len(stream) \in Nat /\ position \in Nat
<1>1. PICK h : h = Here
  BY Zenon
<1>2. p[Len(p)] = h
  BY <1>1, AppendProperties
<1>3. h = [symbols |-> Len(stream), position |-> position, recent |-> recent, bases |-> bases]
  BY <1>1 DEF Here
<1>4. h \in [symbols : Nat, position : Nat, recent : [0 .. 3 -> Nat], bases : [0 .. 7 -> Int]]
  BY <1>1 DEF Entry
<1>5. QED
  BY <1>1, <1>2, <1>3, <1>4

\* The fields of that place, and of the one after a step.
LEMMA HereFields ==
  /\ Here.symbols = Len(stream) /\ Here.position = position
  /\ Here.recent = recent /\ Here.bases = bases
BY DEF Here

\* The fields of the entry the next step will leave.
LEMMA HereNext ==
  /\ Here'.symbols = Len(stream') /\ Here'.position = position'
  /\ Here'.recent = recent' /\ Here'.bases = bases'
BY DEF Here

\* Where it stands after a token.
LEMMA EmitFollows ==
  ASSUME CInv, phase = "encode", NEW token \in Seq(Symbol), NEW length \in Nat,
         Emit(length, token), recent' \in [0 .. 3 -> Nat], bases' \in [0 .. 7 -> Int],
         NEW a, a = Here, NEW b, b = Here'
  PROVE  /\ a \in Entry /\ b \in Entry /\ Follows(a, b, token)'
         /\ a.position = position /\ a.recent = recent /\ a.bases = bases
         /\ b.position = position + length /\ b.recent = recent' /\ b.bases = bases'
<1>1. /\ trail \in Seq(Entry) /\ Here \in Entry /\ stream \in Seq(Symbol)
  BY DEF CInv
<1>2. a = [symbols |-> Len(stream), position |-> position, recent |-> recent, bases |-> bases]
  BY DEF Here
<1>3. b = [symbols |-> Len(stream'), position |-> position', recent |-> recent', bases |-> bases']
  BY DEF Here
<1>4. stream' = stream \o token /\ position' = position + length
  BY DEF Emit
<1>5. /\ stream' \in Seq(Symbol) /\ Len(stream') = Len(stream) + Len(token)
      /\ \A n : n = Len(stream) => Holds(n, token)'
  BY <1>1, <1>4, Written, Zenon
<1>6. Len(stream) \in Nat /\ Len(token) \in Nat /\ Len(stream') \in Nat /\ position \in Nat
  <2>1. Len(stream) \in Nat /\ Len(token) \in Nat /\ Len(stream') \in Nat
    BY <1>1, <1>5, LenProperties
  <2>2. position \in Nat
    BY <1>1, <1>2 DEF Entry
  <2>3. QED
    BY <2>1, <2>2
<1>7. /\ a.symbols = Len(stream) /\ a.position = position /\ a.recent = recent /\ a.bases = bases
  BY HereFields, Zenon
<1>8. /\ b.symbols = Len(stream') /\ b.position = position' /\ b.recent = recent' /\ b.bases = bases'
  BY HereNext, Zenon
<1>9. b \in Entry
  BY <1>3, <1>4, <1>6 DEF Entry
<1>10. Follows(a, b, token)'
  <2>1. Holds(a.symbols, token)'
    <3>1. PICK n : n = Len(stream)
      BY Zenon
    <3>2. a.symbols = n /\ Holds(n, token)'
      BY <1>5, <1>7, <3>1, Zenon
    <3>3. QED
      BY <3>2, Zenon
  <2>2. b.symbols = a.symbols + Len(token)
    BY <1>5, <1>7, <1>8, Zenon
  <2>3. QED
    BY <2>1, <2>2, Zenon DEF Follows
<1>11. QED
  BY <1>1, <1>4, <1>7, <1>8, <1>9, <1>10, Zenon

\* The step that writes a token.
LEMMA EmitStep ==
  ASSUME CInv, phase = "encode", NEW token \in Seq(Symbol), NEW length \in Nat,
         Emit(length, token), recent' \in [0 .. 3 -> Nat], bases' \in [0 .. 7 -> Int],
         NEW a, a = Here, NEW b, b = Here', Token(a, b)', PendingIs'
  PROVE  CInv'
<1>1. /\ SoundJob(job) /\ attempt = 1 /\ cursor = 0 /\ output = <<>> /\ stream \in Seq(Symbol)
      /\ trail \in Seq(Entry) /\ Here \in Entry /\ Path(Append(trail, Here))
  BY DEF CInv
<1>2. /\ phase' = "encode" /\ attempt' = 1 /\ job' = job /\ cursor' = 0 /\ output' = <<>>
      /\ stream' = stream \o token /\ trail' = Append(trail, Here)
  BY <1>1 DEF Emit
<1>3. /\ a \in Entry /\ b \in Entry
  BY EmitFollows, Zenon
<1>4. PICK p : p = Append(trail, Here)
  BY Zenon
<1>5. p[Len(p)] = Here
  BY <1>1, <1>4, HereIs, Zenon
<1>6. Token(p[Len(p)], b)'
  BY <1>5, Zenon
<1>7. PICK q : q = Append(p, b)
  BY Zenon
<1>8. Path(q)'
  BY <1>1, <1>2, <1>3, <1>4, <1>6, <1>7, PathStep, Zenon
<1>9. q = Append(trail', Here')
  BY <1>2, <1>4, <1>7, Zenon
<1>10. Path(Append(trail, Here))'
  BY <1>8, <1>9, Zenon
<1>11. p \in Seq(Entry)
  BY <1>1, <1>4 DEF Path
<1>12. trail' \in Seq(Entry) /\ Here' \in Entry
  BY <1>2, <1>3, <1>4, <1>11, Zenon
<1>13. stream' \in Seq(Symbol)
  BY <1>1, <1>2, Written, Zenon
<1>14. SoundJob(job')
  BY <1>1, <1>2
<1>15. QED
  BY <1>2, <1>10, <1>12, <1>13, <1>14 DEF CInv

\* A literal of the byte at the position.
LEMMA WriteLiteral ==
  ASSUME CInv, PInv, phase = "encode", position < Size, Emit(1, LiteralAt(position)),
         UNCHANGED <<recent, bases>>, PendingIs'
  PROVE  CInv'
<1>1. SoundJob(job) /\ trail \in Seq(Entry) /\ Here \in Entry
  BY DEF CInv
<1>2. position \in Nat /\ recent' \in [0 .. 3 -> Nat] /\ bases' \in [0 .. 7 -> Int]
  <2>1. PICK p : p = Append(trail, Here)
    BY Zenon
  <2>2. recent \in [0 .. 3 -> Nat] /\ bases \in [0 .. 7 -> Int] /\ position \in Nat
    BY <1>1, <2>1, HereIs, Zenon
  <2>3. QED
    BY <2>2
<1>3. PICK token : token = LiteralAt(position)
  BY Zenon
<1>4. token \in Seq(Symbol) /\ Emit(1, token) /\ 1 \in Nat
  BY <1>1, <1>2, <1>3, LiteralSymbols
<1>5. PICK a : a = Here
  BY Zenon
<1>6. PICK b : b = Here'
  BY Zenon
<1>7. /\ Follows(a, b, token)'
      /\ a.position = position /\ a.recent = recent /\ a.bases = bases
      /\ b.position = position + 1 /\ b.recent = recent' /\ b.bases = bases'
  BY <1>2, <1>4, <1>5, <1>6, EmitFollows, Zenon
<1>8. job' = job
  BY DEF Emit
<1>9. LiteralAt(a.position)' = token /\ Size' = Size
  BY <1>3, <1>7, <1>8, JobKept, Zenon
<1>10. LiteralToken(a, b)'
  <2>1. a.position < Size' /\ b.position = a.position + 1 /\ b.recent = a.recent /\ b.bases = a.bases
    BY <1>7, <1>9
  <2>2. Follows(a, b, LiteralAt(a.position))'
    BY <1>7, <1>9, Zenon
  <2>3. QED
    BY <2>1, <2>2, Zenon DEF LiteralToken
<1>11. Token(a, b)'
  BY <1>10, Zenon DEF Token
<1>12. QED
  BY <1>2, <1>4, <1>5, <1>6, <1>11, EmitStep, Zenon

\* What is found at a place can be written there.
LEMMA FoundCanBeWritten ==
  ASSUME PInv, phase = "encode", search < NextEvent, pending' \in Found(search), position' = search
  PROVE  PendingIs'
<1>1. /\ SoundJob(job) /\ position \in 0 .. Size /\ search \in Nat
      /\ chains = {p \in 1 .. search - 1 : p + MinMatch <= Size}
  BY DEF PInv, Encoding, ParserFollows
<1>2. chains \subseteq Nat
  BY <1>1
<1>3. PICK m : m = pending'
  BY Zenon
<1>4. m.length >= MinMatch => m.length <= MaxMatch /\ m.distance \in 1 .. search
  BY <1>1, <1>2, <1>3, FoundIs
<1>5. QED
  BY <1>3, <1>4, Zenon DEF PendingIs

\* Nothing that is pending is nothing to write.
LEMMA NothingToWrite == ASSUME pending' = NoPending PROVE PendingIs'
<1>1. pending'.length = 0 /\ ~(pending'.length >= MinMatch)
  BY DEF NoPending, Match, MinMatch
<1>2. QED
  BY <1>1, Zenon DEF PendingIs

\* EncodeBoundary writes the byte at the position.
LEMMA BoundaryWrites ==
  ASSUME CInv, PInv, EncodeBoundary PROVE CInv'
<1>1. /\ phase = "encode" /\ position \in job.boundaries /\ Emit(1, LiteralAt(position))
      /\ UNCHANGED <<recent, bases>> /\ pending' = NoPending
  BY DEF EncodeBoundary, AtBoundary
<1>2. position < Size
  <2>1. SoundJob(job)
    BY DEF CInv
  <2>2. job.boundaries \subseteq 0 .. Size - 1 /\ Size \in Nat
    BY <2>1, JobFields
  <2>3. QED
    BY <1>1, <2>2
<1>3. PendingIs'
  BY <1>1, NothingToWrite
<1>4. QED
  BY <1>1, <1>2, <1>3, WriteLiteral

\* FindMatch writes nothing.
LEMMA FindWrites ==
  ASSUME CInv, PInv, FindMatch PROVE CInv'
<1>1. /\ phase = "encode" /\ pending = NoPending /\ search < NextEvent
      /\ pending' \in Found(search)
      /\ UNCHANGED <<phase, attempt, job, position, recent, bases, stream, cursor, output, trail>>
  BY DEF FindMatch, Parsing
<1>2. position' = search
  BY <1>1 DEF PInv, ParserFollows
<1>3. PendingIs'
  BY <1>1, <1>2, FoundCanBeWritten
<1>4. Here' = Here
  BY <1>1 DEF Here
<1>5. /\ SoundJob(job) /\ attempt = 1 /\ cursor = 0 /\ output = <<>> /\ stream \in Seq(Symbol)
      /\ trail \in Seq(Entry) /\ Here \in Entry /\ Path(Append(trail, Here))
  BY <1>1 DEF CInv
<1>6. Path(Append(trail, Here))'
  <2>1. PICK p : p = Append(trail, Here)
    BY Zenon
  <2>2. p = Append(trail', Here')
    BY <1>1, <1>4, <2>1
  <2>3. /\ p \in Seq(Entry) /\ Len(p) > 0 /\ p[1] = Start
        /\ \A k \in 1 .. Len(p) - 1 : Token(p[k], p[k + 1])
    BY <1>5, <2>1, Zenon DEF Path
  <2>4. \A a, b : Token(a, b) => Token(a, b)'
    <3>1. \A a, b, s : Follows(a, b, s) => Follows(a, b, s)'
      BY <1>1, Zenon DEF Follows, Holds
    <3>2. /\ Size' = Size /\ \A k : Target(k)' = Target(k)
          /\ \A r : NextBase(r)' = NextBase(r)
          /\ \A i : LiteralAt(i)' = LiteralAt(i)
      BY <1>1, JobKept
    <3>3. \A a, b : LiteralToken(a, b) => LiteralToken(a, b)'
      BY <3>1, <3>2, Zenon DEF LiteralToken
    <3>4. ASSUME NEW a, NEW b, MatchToken(a, b) PROVE MatchToken(a, b)'
      <4>1. PICK length \in MinMatch .. MaxMatch, distance \in 1 .. a.position :
                /\ b.position = a.position + length /\ b.position <= Size
                /\ \A i \in 1 .. length :
                     job.input[a.position + i] = job.input[a.position + i - distance]
                /\ b.recent = EncodeRecentDistance(a.recent, distance)[2] /\ b.bases = a.bases
                /\ Follows(a, b, MatchSymbols(length, EncodeRecentDistance(a.recent, distance)[1]))
        BY <3>4, Zenon DEF MatchToken
      <4>2. /\ b.position <= Size'
            /\ \A i \in 1 .. length :
                 job.input[a.position + i]' = job.input[a.position + i - distance]'
            /\ Follows(a, b, MatchSymbols(length, EncodeRecentDistance(a.recent, distance)[1]))'
        BY <4>1, <1>1, <3>1, <3>2, Zenon
      <4>3. QED
        BY <4>1, <4>2, Zenon DEF MatchToken
    <3>5. ASSUME NEW a, NEW b, ReferenceToken(a, b) PROVE ReferenceToken(a, b)'
      <4> DEFINE base(r)  == NearestBase(a.bases, Target(r.segment))
                 coded(r) == ReferenceSymbols(r.length, base(r),
                                              Target(r.segment) - a.bases[base(r)] + 3)
      <4>1. PICK r \in Range(job.references) :
                /\ r.position = a.position /\ b.position = a.position + r.length
                /\ b.recent = a.recent /\ b.bases = [a.bases EXCEPT ![base(r)] = NextBase(r)]
                /\ Follows(a, b, coded(r))
        BY <3>5, Zenon DEF ReferenceToken
      <4>2. /\ r \in Range(job.references)'
            /\ base(r)' = base(r) /\ coded(r)' = coded(r)
        BY <1>1, <3>1, <3>2, Zenon
      <4>3. /\ b.bases = [a.bases EXCEPT ![base(r)] = NextBase(r)]'
            /\ Follows(a, b, coded(r))'
        BY <4>1, <4>2, <1>1, <3>1, <3>2, Zenon
      <4>4. QED
        BY <4>1, <4>2, <4>3, Zenon DEF ReferenceToken
    <3>6. QED
      BY <3>3, <3>4, <3>5, Zenon DEF Token
  <2>5. Path(p)'
    BY <2>3, <2>4, Zenon DEF Path
  <2>6. QED
    BY <2>2, <2>5, Zenon
<1>7. QED
  BY <1>1, <1>3, <1>4, <1>5, <1>6 DEF CInv

\* EncodeLiteral writes the byte before the search.
LEMMA LiteralWrites ==
  ASSUME CInv, PInv, EncodeLiteral PROVE CInv'
<1>1. /\ phase = "encode" /\ pending # NoPending /\ search < NextEvent /\ position < Size
      /\ pending' \in Found(search) /\ Emit(search - position, LiteralAt(search - 1))
      /\ UNCHANGED <<recent, bases>>
  BY DEF EncodeLiteral, Parsing
<1>2. search - position = 1 /\ search - 1 = position /\ position' = search
  <2>1. position \in Nat /\ search \in Nat /\ position = search - 1
    BY <1>1 DEF PInv, Encoding, ParserFollows
  <2>2. position' = position + (search - position)
    BY <1>1 DEF Emit
  <2>3. PICK p : p = position
    BY Zenon
  <2>4. QED
    BY <2>1, <2>2, <2>3
<1>3. PendingIs'
  BY <1>1, <1>2, FoundCanBeWritten
<1>4. Emit(1, LiteralAt(position))
  BY <1>1, <1>2
<1>5. QED
  BY <1>1, <1>3, <1>4, WriteLiteral

\* EncodeLastLiteral too.
LEMMA LastLiteralWrites ==
  ASSUME CInv, PInv, EncodeLastLiteral PROVE CInv'
<1>1. /\ phase = "encode" /\ pending # NoPending /\ position < Size
      /\ pending' = NoPending /\ Emit(search - position, LiteralAt(search - 1))
      /\ UNCHANGED <<recent, bases>>
  BY DEF EncodeLastLiteral, Parsing
<1>2. search - position = 1 /\ search - 1 = position
  <2>1. position \in Nat /\ search \in Nat /\ position = search - 1
    BY <1>1 DEF PInv, Encoding, ParserFollows
  <2>2. PICK p : p = position
    BY Zenon
  <2>3. QED
    BY <2>1, <2>2
<1>3. PendingIs'
  BY <1>1, NothingToWrite
<1>4. Emit(1, LiteralAt(position))
  BY <1>1, <1>2
<1>5. QED
  BY <1>1, <1>3, <1>4, WriteLiteral

\* EncodeMatch writes the match that is pending.
LEMMA MatchWrites ==
  ASSUME CInv, PInv, EncodeMatch PROVE CInv'
<1>1. PICK n : n = pending.length
  BY Zenon
<1>2. PICK d : d = pending.distance
  BY Zenon
<1>3. PICK code : code = EncodeRecentDistance(recent, d)
  BY Zenon
<1>4. PICK token : token = MatchSymbols(n, code[1])
  BY Zenon
<1>5. /\ phase = "encode" /\ n >= MinMatch /\ recent' = code[2] /\ bases' = bases
      /\ Emit(n, token) /\ pending' = NoPending
  BY <1>1, <1>2, <1>3, <1>4, Zenon DEF EncodeMatch, Parsing
<1>6. SoundJob(job) /\ trail \in Seq(Entry) /\ Here \in Entry /\ PendingIs
  BY <1>5 DEF CInv
<1>7. position \in Nat /\ recent \in [0 .. 3 -> Nat] /\ bases \in [0 .. 7 -> Int]
  <2>1. PICK p : p = Append(trail, Here)
    BY Zenon
  <2>2. QED
    BY <1>6, <2>1, HereIs, Zenon
<1>8. /\ n \in MinMatch .. MaxMatch /\ d \in 1 .. position /\ n \in Nat
      /\ position + n <= NextEvent /\ NextEvent <= Size
      /\ \A i \in 1 .. n : job.input[position + i] = job.input[position + i - d]
  <2>1. Encoding /\ ParserFollows
    BY <1>5 DEF PInv
  <2>2. n \in Nat /\ NextEvent \in position .. Size /\ Size \in Nat /\ MaxMatch \in Nat
    BY <1>1, <2>1, NextEventIs, JobFields, SettingsAre DEF Encoding
  <2>3. /\ position + n <= NextEvent
        /\ \A i \in 1 .. n : job.input[position + i] = job.input[position + i - d]
    BY <1>1, <1>2, <1>5, <2>1, Zenon DEF ParserFollows
  <2>4. n <= MaxMatch /\ d \in 1 .. position
    BY <1>1, <1>2, <1>5, <1>6, Zenon DEF PendingIs
  <2>5. QED
    BY <1>5, <2>2, <2>3, <2>4 DEF MinMatch
<1>9. code[1] \in Nat /\ recent' \in [0 .. 3 -> Nat] /\ bases' \in [0 .. 7 -> Int]
  <2>1. d \in Nat \ {0}
    BY <1>7, <1>8
  <2>2. code[1] \in Nat /\ code[2] \in [0 .. 3 -> Nat]
    BY <1>3, <1>7, <2>1, RecentIs, Zenon
  <2>3. QED
    BY <1>5, <1>7, <2>2, Zenon
<1>10. token \in Seq(Symbol)
  <2>1. MatchSymbols(n, code[1]) \in Seq(Symbol)
    BY <1>5, <1>8, <1>9, MatchSymbolsAre, Zenon
  <2>2. QED
    BY <1>4, <2>1, Zenon
<1>11. PICK a : a = Here
  BY Zenon
<1>12. PICK b : b = Here'
  BY Zenon
<1>13. /\ Follows(a, b, token)'
       /\ a.position = position /\ a.recent = recent /\ a.bases = bases
       /\ b.position = position + n /\ b.recent = recent' /\ b.bases = bases'
  BY <1>5, <1>8, <1>9, <1>10, <1>11, <1>12, EmitFollows, Zenon
<1>14. job' = job /\ Size' = Size /\ Size \in Nat
  BY <1>5, <1>6, JobFields DEF Emit, Size
<1>15. MatchToken(a, b)'
  <2>1. n \in MinMatch .. MaxMatch /\ d \in 1 .. a.position
    BY <1>8, <1>13, Zenon
  <2>2. b.position = a.position + n /\ b.position <= Size'
    <3>1. NextEvent \in Int
      <4>1. Encoding
        BY <1>5 DEF PInv
      <4>2. QED
        BY <1>14, <4>1, NextEventIs DEF Encoding
    <3>2. position + n <= Size
      BY <1>7, <1>8, <1>14, <3>1
    <3>3. QED
      BY <1>13, <1>14, <3>2, Zenon
  <2>3. \A i \in 1 .. n : job'.input[a.position + i] = job'.input[a.position + i - d]
    BY <1>8, <1>13, <1>14, Zenon
  <2>4. b.recent = EncodeRecentDistance(a.recent, d)[2] /\ b.bases = a.bases
    BY <1>3, <1>5, <1>13, Zenon
  <2>5. Follows(a, b, MatchSymbols(n, EncodeRecentDistance(a.recent, d)[1]))'
    <3>1. token = MatchSymbols(n, EncodeRecentDistance(a.recent, d)[1])
      BY <1>3, <1>4, <1>13, Zenon
    <3>2. QED
      BY <1>13, <3>1, Zenon
  <2>6. QED
    BY <2>1, <2>2, <2>3, <2>4, <2>5, Zenon DEF MatchToken
<1>16. Token(a, b)'
  BY <1>15, Zenon DEF Token
<1>17. PendingIs'
  BY <1>5, NothingToWrite
<1>18. QED
  BY <1>5, <1>8, <1>9, <1>10, <1>11, <1>12, <1>16, <1>17, EmitStep, Zenon

\* The segment of a reference, and the symbols it is written with.
LEMMA ReferenceIs ==
  ASSUME SoundJob(job), NEW r \in Range(job.references)
  PROVE  /\ r.position \in Nat /\ r.length \in Nat /\ r.length > 0 /\ r.position + r.length <= Size
         /\ r.length >= Settings.bigMinMatch
         /\ r.segment \in Segments /\ Target(r.segment) \in Nat
         /\ IsPrefix(SubSeq(job.input, r.position + 1, r.position + r.length), RawFrom(r.segment))
         /\ NextBase(r) \in Int
<1>1. PICK i \in DOMAIN job.references : r = job.references[i]
  BY DEF Range
<1>2. /\ r.length >= Settings.bigMinMatch /\ r.segment \in DOMAIN job.segments
      /\ IsPrefix(SubSeq(job.input, r.position + 1, r.position + r.length),
                  RunFrom(job.segments, r.segment))
  <2>1. \A k \in DOMAIN job.references :
          LET s == job.references[k]
          IN  /\ s.length >= Settings.bigMinMatch /\ s.segment \in DOMAIN job.segments
              /\ IsPrefix(SubSeq(job.input, s.position + 1, s.position + s.length),
                          RunFrom(job.segments, s.segment))
    BY Zenon DEF SoundJob
  <2>2. QED
    BY <1>1, <2>1, Zenon
<1>3. r.position \in Nat /\ r.length \in Nat /\ r.length > 0 /\ r.position + r.length <= Size
  BY JobFields
<1>4. r.segment \in Segments
  BY <1>2, Zenon DEF Segments
<1>5. Target(r.segment) \in Nat
  BY <1>4, TargetsDiffer, Zenon
<1>6. NextBase(r) \in Int
  <2>1. Consumed(r.segment, r.length) \in Nat
    BY <1>3, <1>4, ConsumedIs, Zenon
  <2>2. QED
    BY <1>5, <2>1 DEF NextBase
<1>7. QED
  BY <1>2, <1>3, <1>4, <1>5, <1>6, Zenon DEF RawFrom

\* EncodeReference writes the reference.
LEMMA ReferenceWrites ==
  ASSUME CInv, PInv, EncodeReference PROVE CInv'
<1>1. PICK r \in Range(job.references) :
        /\ phase = "encode" /\ r.position = position /\ recent' = recent /\ pending' = NoPending
        /\ bases' = [bases EXCEPT ![NearestBase(bases, Target(r.segment))] = NextBase(r)]
        /\ Emit(r.length, ReferenceSymbols(r.length, NearestBase(bases, Target(r.segment)),
                  Target(r.segment) - bases[NearestBase(bases, Target(r.segment))] + 3))
  BY Zenon DEF EncodeReference, AtReference, ReferencesHere
<1>2. PICK target : target = Target(r.segment)
  BY Zenon
<1>3. PICK base : base = NearestBase(bases, target)
  BY Zenon
<1>4. PICK delta : delta = target - bases[base] + 3
  BY Zenon
<1>5. PICK token : token = ReferenceSymbols(r.length, base, delta)
  BY Zenon
<1>6. PICK n : n = r.length
  BY Zenon
<1>7. /\ bases' = [bases EXCEPT ![base] = NextBase(r)] /\ Emit(n, token)
  BY <1>1, <1>2, <1>3, <1>4, <1>5, <1>6, Zenon
<1>8. SoundJob(job) /\ trail \in Seq(Entry) /\ Here \in Entry
  BY <1>1 DEF CInv
<1>9. position \in Nat /\ recent \in [0 .. 3 -> Nat] /\ bases \in [0 .. 7 -> Int]
  <2>1. PICK p : p = Append(trail, Here)
    BY Zenon
  <2>2. QED
    BY <1>8, <2>1, HereIs, Zenon
<1>10. /\ n \in Nat /\ n >= Settings.bigMinMatch /\ target \in Nat /\ NextBase(r) \in Int
  BY <1>2, <1>6, <1>8, ReferenceIs, Zenon
<1>11. base \in 0 .. 7
  <2>1. target \in Int
    BY <1>10
  <2>2. QED
    BY <1>3, <1>9, <2>1, NearestBaseIs, Zenon
<1>12. delta \in Int
  <2>1. bases[base] \in Int
    BY <1>9, <1>11
  <2>2. QED
    BY <1>4, <1>10, <2>1
<1>13. token \in Seq(Symbol)
  <2>1. PICK g : g = Groups(n - Settings.bigMinMatch, Settings.lengthContinuation)
    BY Zenon
  <2>2. PICK m : m = Groups(Magnitude(delta), Settings.baseContinuation)
    BY Zenon
  <2>3. PICK top \in Seq(Symbol), rest \in Seq(Symbol), mid \in Seq(Symbol), number \in Seq(Symbol) :
           ReferenceParts(n, base, delta, g, m, top, rest, mid, number)
    BY <1>10, <1>11, <1>12, <2>1, <2>2, ReferenceSymbolsAre, Zenon
  <2>4. ReferenceSymbols(n, base, delta) \in Seq(Symbol)
    BY <2>3, Zenon DEF ReferenceParts
  <2>5. QED
    BY <1>5, <1>6, <2>4, Zenon
<1>14. recent' \in [0 .. 3 -> Nat] /\ bases' \in [0 .. 7 -> Int]
  BY <1>1, <1>7, <1>9, <1>10, <1>11
<1>15. PICK a : a = Here
  BY Zenon
<1>16. PICK b : b = Here'
  BY Zenon
<1>17. /\ Follows(a, b, token)'
       /\ a.position = position /\ a.recent = recent /\ a.bases = bases
       /\ b.position = position + n /\ b.recent = recent' /\ b.bases = bases'
  BY <1>1, <1>7, <1>10, <1>13, <1>14, <1>15, <1>16, EmitFollows, Zenon
<1>18. job' = job
  BY <1>7 DEF Emit
<1>19. Target(r.segment)' = target /\ NextBase(r)' = NextBase(r) /\ r \in Range(job'.references)
  BY <1>2, <1>18, JobKept, Zenon
<1>20. ReferenceToken(a, b)'
  <2>1. r.position = a.position /\ b.position = a.position + r.length /\ b.recent = a.recent
    BY <1>1, <1>6, <1>17, Zenon
  <2>2. base = NearestBase(a.bases, Target(r.segment)')
    BY <1>3, <1>17, <1>19, Zenon
  <2>3. b.bases = [a.bases EXCEPT ![base] = NextBase(r)']
    BY <1>7, <1>17, <1>19, Zenon
  <2>4. token = ReferenceSymbols(r.length, base, Target(r.segment)' - a.bases[base] + 3)
    BY <1>4, <1>5, <1>17, <1>19, Zenon
  <2>5. Follows(a, b, ReferenceSymbols(r.length, base, Target(r.segment) - a.bases[base] + 3))'
    BY <1>17, <2>4, Zenon
  <2>6. QED
    BY <1>19, <2>1, <2>2, <2>3, <2>5, Zenon DEF ReferenceToken
<1>21. Token(a, b)'
  BY <1>20, Zenon DEF Token
<1>22. PendingIs'
  BY <1>1, NothingToWrite
<1>23. QED
  BY <1>1, <1>7, <1>10, <1>13, <1>14, <1>15, <1>16, <1>21, <1>22, EmitStep, Zenon

\* A path that is in the stream stays in it.
LEMMA PathKept ==
  ASSUME stream \in Seq(Symbol), NEW symbols \in Seq(Symbol), stream' = stream \o symbols,
         job' = job, NEW p, Path(p)
  PROVE  Path(p)'
<1>1. /\ p \in Seq(Entry) /\ Len(p) > 0 /\ p[1] = Start
      /\ \A k \in 1 .. Len(p) - 1 : Token(p[k], p[k + 1])
  BY Zenon DEF Path
<1>2. PICK n : n = Len(p)
  BY Zenon
<1>3. n \in Nat /\ n > 0 /\ \A k \in 1 .. n : p[k] \in Entry
  BY <1>1, <1>2, LenProperties, ElementOfSeq
<1>4. ASSUME NEW k \in 1 .. n - 1 PROVE Token(p[k], p[k + 1])'
  <2>1. k \in 1 .. n /\ k + 1 \in 1 .. n
    BY <1>3
  <2>2. p[k] \in Entry /\ p[k + 1] \in Entry /\ Token(p[k], p[k + 1])
    BY <1>1, <1>2, <1>3, <2>1, Zenon
  <2>3. QED
    BY <2>2, TokenKept, Zenon
<1>5. QED
  BY <1>1, <1>2, <1>4, Zenon DEF Path

\* What both attempts to decode start from.
LEMMA AtStart ==
  ASSUME SoundJob(job), NEW e, e = Start, cursor = 0, output = <<>>, recent = NoOffsets, bases = NoBases
  PROVE  At(e)
<1>1. e.symbols = 0 /\ e.position = 0 /\ e.recent = NoOffsets /\ e.bases = NoBases
  BY DEF Start
<1>2. SubSeq(job.input, 1, 0) = <<>>
  OBVIOUS
<1>3. Len(output) = 0
  OBVIOUS
<1>4. QED
  BY <1>1, <1>2, <1>3, Zenon DEF At

\* EncodeEnd writes the end symbol where the path ends.
LEMMA EndWrites ==
  ASSUME CInv, PInv, EncodeEnd PROVE CInv'
<1>1. /\ phase = "encode" /\ position >= Size /\ phase' = "decode"
      /\ stream' = Append(stream, Coded("top", 0, 0, EndSymbol)) /\ trail' = Append(trail, Here)
      /\ recent' = NoOffsets /\ bases' = NoBases
      /\ attempt' = attempt /\ job' = job /\ cursor' = cursor /\ output' = output
  BY DEF EncodeEnd
<1>2. /\ SoundJob(job) /\ attempt = 1 /\ cursor = 0 /\ output = <<>> /\ stream \in Seq(Symbol)
      /\ trail \in Seq(Entry) /\ Here \in Entry /\ Path(Append(trail, Here))
  BY <1>1 DEF CInv
<1>3. PICK end : end = <<Coded("top", 0, 0, EndSymbol)>>
  BY Zenon
<1>4. /\ end \in Seq(Symbol) /\ stream' = stream \o end
  <2>1. PICK e : e = Coded("top", 0, 0, EndSymbol)
    BY Zenon
  <2>2. e \in Symbol
    BY <2>1, TopIs DEF EndSymbol
  <2>3. end = <<e>> /\ stream' = Append(stream, e)
    BY <1>1, <1>3, <2>1, Zenon
  <2>4. QED
    BY <1>2, <2>2, <2>3, OneSymbol, AppendIsConcat
<1>5. PICK p : p = Append(trail, Here)
  BY Zenon
<1>6. PICK n : n = Len(p)
  BY Zenon
<1>7. Path(p)'
  <2>1. Path(p)
    BY <1>2, <1>5, Zenon
  <2>2. QED
    BY <1>1, <1>2, <1>4, <2>1, PathKept, Zenon
<1>8. /\ p[n] = Here /\ n \in Nat /\ n > 0 /\ p[1] = Start /\ p \in Seq(Entry)
  <2>1. p[n] = Here
    BY <1>2, <1>5, <1>6, HereIs, Zenon
  <2>2. p \in Seq(Entry) /\ Len(p) > 0 /\ p[1] = Start
    BY <1>2, <1>5, Zenon DEF Path
  <2>3. QED
    BY <1>6, <2>1, <2>2, LenProperties
<1>9. p[n].symbols = Len(stream) /\ p[n].position = position
  BY <1>8, HereFields, Zenon
<1>10. Holds(p[n].symbols, end)'
  <2>1. \A m : m = Len(stream) => Holds(m, end)'
    BY <1>2, <1>4, Written, Zenon
  <2>2. PICK m : m = Len(stream)
    BY Zenon
  <2>3. p[n].symbols = m /\ Holds(m, end)'
    BY <1>9, <2>1, <2>2, Zenon
  <2>4. QED
    BY <2>3, Zenon
<1>11. p[n].position = Size'
  <2>1. position \in 0 .. Size /\ Size \in Nat
    BY <1>1, <1>2, JobFields DEF PInv, Encoding
  <2>2. position = Size /\ Size' = Size
    BY <1>1, <2>1, JobKept
  <2>3. QED
    BY <1>9, <2>2, Zenon
<1>12. Whole(p)'
  BY <1>3, <1>6, <1>7, <1>10, <1>11, Zenon DEF Whole
<1>13. At(p[1])'
  BY <1>1, <1>2, <1>8, AtStart DEF At, NoOffsets, NoBases, RightAttempt, Start
<1>14. stream' \in Seq(Symbol)
  BY <1>2, <1>4, Written, Zenon
<1>15. Whole(trail)' /\ \E k \in 1 .. Len(trail') : At(trail[k])'
  <2>1. trail' = p
    BY <1>1, <1>5, Zenon
  <2>2. 1 \in 1 .. n
    BY <1>8
  <2>3. QED
    BY <1>6, <1>12, <1>13, <2>1, <2>2, Zenon
<1>16. SoundJob(job') /\ attempt' = 1
  BY <1>1, <1>2
<1>17. QED
  BY <1>1, <1>14, <1>15, <1>16 DEF CInv

\* What a decoder of the chunk has to go on.
LEMMA Decoding ==
  ASSUME CInv, phase = "decode"
  PROVE  /\ SoundJob(job) /\ attempt \in {1, 2} /\ stream \in Seq(Symbol) /\ Len(stream) \in Nat
         /\ attempt = 2 => ~job.trim /\ job.references # <<>>
         /\ Whole(trail) /\ Path(trail) /\ Len(trail) \in Nat /\ Len(trail) > 0
         /\ \A k \in 1 .. Len(trail) : trail[k] \in Entry
         /\ trail[1] = Start
<1>1. /\ SoundJob(job) /\ attempt \in {1, 2} /\ stream \in Seq(Symbol)
      /\ attempt = 2 => ~job.trim /\ job.references # <<>>
      /\ Whole(trail)
  BY DEF CInv
<1>2. Path(trail)
  BY <1>1, Zenon DEF Whole
<1>3. trail \in Seq(Entry) /\ Len(trail) > 0 /\ trail[1] = Start
  BY <1>2, Zenon DEF Path
<1>4. Len(stream) \in Nat /\ Len(trail) \in Nat /\ \A k \in 1 .. Len(trail) : trail[k] \in Entry
  BY <1>1, <1>3, LenProperties, ElementOfSeq
<1>5. QED
  BY <1>1, <1>2, <1>3, <1>4, Zenon

\* Nothing that is decoded changes what was encoded.
LEMMA WholeKept ==
  ASSUME Whole(trail), job' = job, stream' = stream, trail' = trail
  PROVE  Whole(trail)'
<1>1. \A a, b, s : Follows(a, b, s) => Follows(a, b, s)'
  BY Zenon DEF Follows, Holds
<1>2. \A from, s : Holds(from, s) => Holds(from, s)'
  BY Zenon DEF Holds
<1>3. /\ Size' = Size /\ \A k : Target(k)' = Target(k)
      /\ \A r : NextBase(r)' = NextBase(r)
      /\ \A i : LiteralAt(i)' = LiteralAt(i)
  BY JobKept
<1>4. \A a, b : LiteralToken(a, b) => LiteralToken(a, b)'
  BY <1>1, <1>3, Zenon DEF LiteralToken
<1>5. ASSUME NEW a, NEW b, MatchToken(a, b) PROVE MatchToken(a, b)'
  <2>1. PICK length \in MinMatch .. MaxMatch, distance \in 1 .. a.position :
            /\ b.position = a.position + length /\ b.position <= Size
            /\ \A i \in 1 .. length :
                 job.input[a.position + i] = job.input[a.position + i - distance]
            /\ b.recent = EncodeRecentDistance(a.recent, distance)[2] /\ b.bases = a.bases
            /\ Follows(a, b, MatchSymbols(length, EncodeRecentDistance(a.recent, distance)[1]))
    BY <1>5, Zenon DEF MatchToken
  <2>2. /\ b.position <= Size'
        /\ \A i \in 1 .. length :
             job.input[a.position + i]' = job.input[a.position + i - distance]'
        /\ Follows(a, b, MatchSymbols(length, EncodeRecentDistance(a.recent, distance)[1]))'
    BY <2>1, <1>1, <1>3, Zenon
  <2>3. QED
    BY <2>1, <2>2, Zenon DEF MatchToken
<1>6. ASSUME NEW a, NEW b, ReferenceToken(a, b) PROVE ReferenceToken(a, b)'
  <2> DEFINE base(r)  == NearestBase(a.bases, Target(r.segment))
             coded(r) == ReferenceSymbols(r.length, base(r),
                                          Target(r.segment) - a.bases[base(r)] + 3)
  <2>1. PICK r \in Range(job.references) :
            /\ r.position = a.position /\ b.position = a.position + r.length
            /\ b.recent = a.recent /\ b.bases = [a.bases EXCEPT ![base(r)] = NextBase(r)]
            /\ Follows(a, b, coded(r))
    BY <1>6, Zenon DEF ReferenceToken
  <2>2. /\ r \in Range(job.references)'
        /\ base(r)' = base(r) /\ coded(r)' = coded(r)
    BY <1>1, <1>3, Zenon
  <2>3. /\ b.bases = [a.bases EXCEPT ![base(r)] = NextBase(r)]'
        /\ Follows(a, b, coded(r))'
    BY <2>1, <2>2, <1>1, <1>3, Zenon
  <2>4. QED
    BY <2>1, <2>2, <2>3, Zenon DEF ReferenceToken
<1>7. \A a, b : Token(a, b) => Token(a, b)'
  BY <1>4, <1>5, <1>6, Zenon DEF Token
<1>8. \A p : Path(p) => Path(p)'
  BY <1>7, Zenon DEF Path
<1>9. QED
  BY <1>2, <1>3, <1>8, Zenon DEF Whole

\* A step of the decoder to where the encoder stood.
LEMMA DecodeGoesOn ==
  ASSUME CInv, phase = "decode", job' = job, stream' = stream, trail' = trail,
         phase' = "decode", attempt' \in {1, 2},
         attempt' = 2 => ~job.trim /\ job.references # <<>>,
         NEW k \in 1 .. Len(trail), At(trail[k])'
  PROVE  CInv'
<1>1. Whole(trail)'
  BY Decoding, WholeKept, Zenon
<1>2. SoundJob(job') /\ stream' \in Seq(Symbol)
  BY DEF CInv
<1>3. \E i \in 1 .. Len(trail') : At(trail[i])'
  <2>1. k \in 1 .. Len(trail')
    OBVIOUS
  <2>2. QED
    BY <2>1, Zenon
<1>4. attempt' = 2 => ~job'.trim /\ job'.references # <<>>
  OBVIOUS
<1>5. QED
  BY <1>1, <1>2, <1>3, <1>4 DEF CInv

\* An attempt that is not the right one is the first, and one that fails starts the second.
LEMMA SecondAttempt ==
  ASSUME CInv, phase = "decode", ~RightAttempt, GiveUp
  PROVE  CInv'
<1>1. /\ SoundJob(job) /\ attempt \in {1, 2} /\ (attempt = 2 => ~job.trim /\ job.references # <<>>)
      /\ Len(trail) \in Nat /\ Len(trail) > 0 /\ trail[1] = Start
  BY Decoding, Zenon
<1>2. attempt = 1 /\ ~job.trim /\ job.references # <<>>
  BY <1>1 DEF RightAttempt
<1>3. job.common
  BY <1>1, <1>2 DEF SoundJob
<1>4. /\ attempt' = 2 /\ recent' = NoOffsets /\ bases' = NoBases /\ cursor' = 0 /\ output' = <<>>
      /\ UNCHANGED <<phase, job, position, stream, trail>>
  BY <1>2, <1>3 DEF GiveUp
<1>5. 1 \in 1 .. Len(trail) /\ At(trail[1])'
  <2>1. 1 \in 1 .. Len(trail)
    BY <1>1
  <2>2. At(trail[1])'
    BY <1>1, <1>4 DEF At, Start, NoOffsets, NoBases
  <2>3. QED
    BY <2>1, <2>2
<1>6. QED
  BY <1>1, <1>2, <1>4, <1>5, DecodeGoesOn

-----------------------------------------------------------------------------
(* The steps of the decoder *)

\* The first symbols of the kinds of tokens differ.
IsLiteral(s)   == s \in 0 .. 255
IsMatch(s)     == s \in 256 .. 512
IsReference(s) == s \in Nat /\ s > EndSymbol
IsEnd(s)       == s = EndSymbol

\* No symbol begins tokens of two kinds.
LEMMA FirstSymbols ==
  ASSUME NEW s
  PROVE  /\ IsLiteral(s) => ~IsMatch(s) /\ ~IsReference(s) /\ ~IsEnd(s)
         /\ IsMatch(s) => ~IsLiteral(s) /\ ~IsReference(s) /\ ~IsEnd(s)
         /\ IsReference(s) => ~IsLiteral(s) /\ ~IsMatch(s) /\ ~IsEnd(s)
         /\ IsEnd(s) => ~IsLiteral(s) /\ ~IsMatch(s) /\ ~IsReference(s)
<1>1. s \in 0 .. 255 => s \in Nat /\ s <= 255
  OBVIOUS
<1>2. s \in 256 .. 512 => s \in Nat /\ s > 255 /\ s <= 512
  OBVIOUS
<1>3. s \in Nat /\ s <= 255 => ~(s > 255) /\ ~(s > 513) /\ s # 513
  OBVIOUS
<1>4. s \in Nat /\ s <= 512 => ~(s > 513) /\ s # 513
  OBVIOUS
<1>5. s = 513 => ~(s <= 255) /\ ~(s <= 512) /\ ~(s > 513)
  OBVIOUS
<1>6. QED
  BY <1>1, <1>2, <1>3, <1>4, <1>5 DEF IsLiteral, IsMatch, IsReference, IsEnd, EndSymbol

\* The symbol of a literal.
LEMMA LiteralNext ==
  ASSUME SoundJob(job), NEW a \in Entry, NEW b, a.symbols = cursor, LiteralToken(a, b)
  PROVE  /\ NextSymbol.symbol = job.input[a.position + 1] /\ IsLiteral(NextSymbol.symbol)
         /\ b.symbols = cursor + 1
<1>1. a.position \in Nat
  BY DEF Entry
<1>2. a.position < Size /\ Follows(a, b, LiteralAt(a.position))
  BY Zenon DEF LiteralToken
<1>3. PICK token : token = LiteralAt(a.position)
  BY Zenon
<1>4. /\ Len(token) = 1 /\ token[1].symbol = job.input[a.position + 1]
      /\ job.input[a.position + 1] \in 0 .. 255
  BY <1>1, <1>2, <1>3, LiteralSymbols, Zenon
<1>5. Holds(cursor, token) /\ b.symbols = cursor + Len(token)
  BY <1>2, <1>3, Zenon DEF Follows
<1>6. stream[cursor + 1] = token[1]
  <2>1. 1 \in 1 .. Len(token)
    BY <1>4
  <2>2. QED
    BY <1>5, <2>1, Zenon DEF Holds
<1>7. IsLiteral(job.input[a.position + 1])
  BY <1>4 DEF IsLiteral
<1>8. QED
  BY <1>4, <1>5, <1>6, <1>7, Zenon DEF NextSymbol

\* The symbols of a match.
MatchFits(a, b, length, distance) ==
  /\ length \in MinMatch .. MaxMatch /\ distance \in 1 .. a.position
  /\ b.position = a.position + length /\ b.position <= Size
  /\ \A i \in 1 .. length :
       job.input[a.position + i] = job.input[a.position + i - distance]
  /\ b.recent = EncodeRecentDistance(a.recent, distance)[2] /\ b.bases = a.bases
  /\ Follows(a, b, MatchSymbols(length, EncodeRecentDistance(a.recent, distance)[1]))

\* What the decoder reads of a match.
MatchReads(length, code, end) ==
  /\ NextSymbol.symbol = length + 254 /\ IsMatch(NextSymbol.symbol)
  /\ InStepFrom(cursor + 2, "offset", OffsetContext(length), Settings.offsetTables,
                Settings.offsetContinuation)
  /\ Grouped(cursor + 2, Settings.offsetContinuation) = [value |-> code, end |-> end]

\* The decoder reads the length of a match and the code of its distance.
LEMMA MatchNext ==
  ASSUME NEW a \in Entry, NEW b, a.symbols = cursor, cursor \in Nat, Len(stream) \in Nat,
         NEW length, NEW distance, MatchFits(a, b, length, distance)
  PROVE  MatchReads(length, EncodeRecentDistance(a.recent, distance)[1], b.symbols)
<1>0. PICK code : code = EncodeRecentDistance(a.recent, distance)[1]
  BY Zenon
<1>1. /\ length \in MinMatch .. MaxMatch /\ distance \in 1 .. a.position
      /\ Follows(a, b, MatchSymbols(length, EncodeRecentDistance(a.recent, distance)[1]))
  BY Zenon DEF MatchFits
<1>2. length \in Nat /\ length >= MinMatch /\ length + 254 \in 256 .. 512 /\ length + 254 \in Nat
  BY <1>1, SettingsAre DEF MinMatch
<1>3. code \in Nat
  <2>1. a.recent \in [0 .. 3 -> Nat] /\ distance \in Nat \ {0}
    BY <1>1 DEF Entry
  <2>2. QED
    BY <1>0, <2>1, RecentIs, Zenon
<1>4. Holds(cursor, MatchSymbols(length, code)) /\ b.symbols = cursor + Len(MatchSymbols(length, code))
  BY <1>0, <1>1, Zenon DEF Follows
<1>5. PICK start : start = cursor + 2
  BY Zenon
<1>6. /\ stream[cursor + 1] = Coded("top", 0, 0, length + 254)
      /\ InStepFrom(start, "offset", OffsetContext(length), Settings.offsetTables,
                    Settings.offsetContinuation)
      /\ ReadsAs(start, Settings.offsetContinuation, code,
                 cursor + Len(MatchSymbols(length, code)))
  BY <1>2, <1>3, <1>4, <1>5, MatchRead, Zenon
<1>7. NextSymbol.symbol = length + 254
  BY <1>6, FieldsAre DEF NextSymbol
<1>8. Grouped(start, Settings.offsetContinuation) = [value |-> code, end |-> b.symbols]
  BY <1>4, <1>6, Zenon DEF ReadsAs
<1>9. IsMatch(length + 254)
  BY <1>2 DEF IsMatch
<1>10. QED
  BY <1>0, <1>5, <1>6, <1>7, <1>8, <1>9, Zenon DEF MatchReads

\* The symbols of a reference.
ReferenceFits(a, b, r, target, base) ==
  /\ r \in Range(job.references) /\ target = Target(r.segment) /\ base = NearestBase(a.bases, target)
  /\ r.position = a.position /\ b.position = a.position + r.length
  /\ b.recent = a.recent /\ b.bases = [a.bases EXCEPT ![base] = NextBase(r)]
  /\ Follows(a, b, ReferenceSymbols(r.length, base, target - a.bases[base] + 3))

\* The decoder reads the length of a reference, its base and, with the bases of the
\* encoder, its target.
LEMMA ReferenceNext ==
  ASSUME SoundJob(job), NEW a \in Entry, NEW b, a.symbols = cursor, cursor \in Nat,
         Len(stream) \in Nat, NEW r, NEW target, NEW base, ReferenceFits(a, b, r, target, base)
  PROVE  /\ IsReference(NextSymbol.symbol)
         /\ ReferenceInStep
         /\ ReferenceLength.value = r.length
         /\ ReferenceTarget(ReferenceLength.end).base = base
         /\ bases = a.bases => ReferenceTarget(ReferenceLength.end).value = target
         /\ ReferenceTarget(ReferenceLength.end).end = b.symbols
         /\ base \in 0 .. 7
<1>1. /\ r \in Range(job.references) /\ target = Target(r.segment) /\ base = NearestBase(a.bases, target)
      /\ Follows(a, b, ReferenceSymbols(r.length, base, target - a.bases[base] + 3))
  BY Zenon DEF ReferenceFits
<1>2. PICK n : n = r.length
  BY Zenon
<1>3. n \in Nat /\ n >= Settings.bigMinMatch /\ target \in Nat
  BY <1>1, <1>2, ReferenceIs, Zenon
<1>4. a.bases \in [0 .. 7 -> Int]
  BY DEF Entry
<1>5. base \in 0 .. 7
  <2>1. target \in Int
    BY <1>3
  <2>2. QED
    BY <1>1, <1>4, <2>1, NearestBaseIs, Zenon
<1>6. PICK delta : delta = target - a.bases[base] + 3
  BY Zenon
<1>7. delta \in Int /\ a.bases[base] \in Int
  <2>1. a.bases[base] \in Int
    BY <1>4, <1>5
  <2>2. QED
    BY <1>3, <1>6, <2>1
<1>8. /\ Holds(cursor, ReferenceSymbols(n, base, delta))
      /\ b.symbols = cursor + Len(ReferenceSymbols(n, base, delta))
  BY <1>1, <1>2, <1>6, Zenon DEF Follows
<1>9. /\ NextSymbol.symbol > EndSymbol /\ NextSymbol.symbol \in Nat
      /\ ReferenceInStep
      /\ ReferenceLength.value = n
      /\ ReferenceTarget(ReferenceLength.end).base = base
      /\ bases[base] \in Int =>
           ReferenceTarget(ReferenceLength.end).value = bases[base] + delta - 3
      /\ ReferenceTarget(ReferenceLength.end).end
           = cursor + Len(ReferenceSymbols(n, base, delta))
  BY <1>3, <1>5, <1>7, <1>8, ReferenceRead, Zenon
<1>10. ASSUME bases = a.bases PROVE ReferenceTarget(ReferenceLength.end).value = target
  <2>1. PICK z : z = a.bases[base]
    BY Zenon
  <2>2. bases[base] = z /\ z \in Int /\ delta = target - z + 3
    BY <1>6, <1>7, <1>10, <2>1
  <2>3. z + delta - 3 = target
    BY <1>3, <2>2
  <2>4. QED
    BY <1>9, <2>2, <2>3, Zenon
<1>11. QED
  BY <1>2, <1>5, <1>8, <1>9, <1>10, Zenon DEF IsReference

\* Which token it is, by its first symbol.
LEMMA WhichToken ==
  ASSUME CInv, phase = "decode", NEW k \in 1 .. Len(trail), trail[k].symbols = cursor,
         NEW a, a = trail[k], NEW b, b = trail[k + 1]
  PROVE  /\ a \in Entry /\ cursor \in Nat /\ Len(stream) \in Nat /\ SoundJob(job)
         /\ \/ IsLiteral(NextSymbol.symbol) \/ IsMatch(NextSymbol.symbol)
            \/ IsReference(NextSymbol.symbol) \/ IsEnd(NextSymbol.symbol)
         /\ ~IsEnd(NextSymbol.symbol) => k + 1 \in 1 .. Len(trail) /\ b \in Entry
         /\ IsLiteral(NextSymbol.symbol) => LiteralToken(a, b)
         /\ IsMatch(NextSymbol.symbol) => \E length, distance : MatchFits(a, b, length, distance)
         /\ IsReference(NextSymbol.symbol) =>
              \E r, target, base : ReferenceFits(a, b, r, target, base)
         /\ IsEnd(NextSymbol.symbol) => a.position = Size
<1>1. /\ SoundJob(job) /\ Len(stream) \in Nat /\ Len(trail) \in Nat /\ Path(trail) /\ Whole(trail)
      /\ \A i \in 1 .. Len(trail) : trail[i] \in Entry
  BY Decoding, Zenon
<1>2. a \in Entry /\ cursor \in Nat
  BY <1>1 DEF Entry
<1>3. /\ a \in Entry /\ cursor \in Nat /\ Len(stream) \in Nat /\ SoundJob(job)
      /\ a.symbols = cursor
  BY <1>1, <1>2, Zenon
<1>4. PICK s : s = NextSymbol.symbol
  BY Zenon
<1>5. /\ IsLiteral(s) => ~IsMatch(s) /\ ~IsReference(s) /\ ~IsEnd(s)
      /\ IsMatch(s) => ~IsLiteral(s) /\ ~IsReference(s) /\ ~IsEnd(s)
      /\ IsReference(s) => ~IsLiteral(s) /\ ~IsMatch(s) /\ ~IsEnd(s)
      /\ IsEnd(s) => ~IsLiteral(s) /\ ~IsMatch(s) /\ ~IsReference(s)
  BY FirstSymbols, Zenon
<1>6. CASE k = Len(trail)
  <2>1. a.position = Size /\ Holds(cursor, <<Coded("top", 0, 0, EndSymbol)>>)
    BY <1>1, <1>6, Zenon DEF Whole
  <2>2. NextSymbol = Coded("top", 0, 0, EndSymbol)
    <3>1. PICK e : e = Coded("top", 0, 0, EndSymbol)
      BY Zenon
    <3>2. Holds(cursor, <<e>>)
      BY <2>1, <3>1
    <3>3. QED
      BY <3>1, <3>2 DEF Holds, NextSymbol
  <2>3. NextSymbol.symbol = EndSymbol
    BY <2>2, FieldsAre
  <2>4. IsEnd(s)
    BY <1>4, <2>3, Zenon DEF IsEnd
  <2>5. QED
    BY <1>3, <1>4, <1>5, <2>1, <2>4, Zenon
<1>7. CASE k # Len(trail)
  <2>1. k \in 1 .. Len(trail) - 1 /\ k + 1 \in 1 .. Len(trail)
    BY <1>1, <1>7
  <2>2. b \in Entry /\ Token(a, b)
    BY <1>1, <2>1, Zenon DEF Path
  <2>3. CASE LiteralToken(a, b)
    <3>1. IsLiteral(s)
      BY <1>3, <1>4, <2>3, LiteralNext, Zenon
    <3>2. QED
      BY <1>3, <1>4, <1>5, <2>1, <2>2, <2>3, <3>1, Zenon
  <2>4. CASE MatchToken(a, b)
    <3>1. PICK length \in MinMatch .. MaxMatch, distance \in 1 .. a.position :
            MatchFits(a, b, length, distance)
      BY <2>4, Zenon DEF MatchToken, MatchFits
    <3>2. IsMatch(s)
      <4>1. MatchReads(length, EncodeRecentDistance(a.recent, distance)[1], b.symbols)
        BY <1>3, <3>1, MatchNext, Zenon
      <4>2. QED
        BY <1>4, <4>1, Zenon DEF MatchReads
    <3>3. QED
      BY <1>3, <1>4, <1>5, <2>1, <2>2, <3>1, <3>2, Zenon
  <2>5. CASE ReferenceToken(a, b)
    <3>1. PICK r \in Range(job.references) :
            LET target == Target(r.segment)
                base   == NearestBase(a.bases, target)
            IN  /\ r.position = a.position /\ b.position = a.position + r.length
                /\ b.recent = a.recent /\ b.bases = [a.bases EXCEPT ![base] = NextBase(r)]
                /\ Follows(a, b, ReferenceSymbols(r.length, base, target - a.bases[base] + 3))
      BY <2>5, Zenon DEF ReferenceToken
    <3>2. PICK target : target = Target(r.segment)
      BY Zenon
    <3>3. PICK base : base = NearestBase(a.bases, target)
      BY Zenon
    <3>4. ReferenceFits(a, b, r, target, base)
      BY <3>1, <3>2, <3>3, Zenon DEF ReferenceFits
    <3>5. IsReference(s)
      BY <1>3, <1>4, <3>4, ReferenceNext, Zenon
    <3>6. QED
      BY <1>3, <1>4, <1>5, <2>1, <2>2, <3>4, <3>5, Zenon
  <2>6. QED
    BY <2>2, <2>3, <2>4, <2>5, Zenon DEF Token
<1>8. QED
  BY <1>6, <1>7

\* The n bytes of the chunk after the first p.
BytesAt(s, p, n) ==
  s \in Seq(0 .. 255) /\ Len(s) = n /\ \A i \in 1 .. n : s[i] = job.input[p + i]

\* The bytes that follow a prefix of the chunk make a longer one.
LEMMA InputExtended ==
  ASSUME SoundJob(job), NEW p \in Nat, NEW n \in Nat, p + n <= Size, NEW s, BytesAt(s, p, n)
  PROVE  SubSeq(job.input, 1, p) \o s = SubSeq(job.input, 1, p + n)
<1> DEFINE B == 0 .. 255
           f == job.input
<1>1. f \in Seq(B)
  BY DEF SoundJob
<1>2. s \in Seq(B) /\ Len(s) = n
  BY DEF BytesAt
<1>3. p + n <= Len(f)
  BY DEF Size
<1>4. \A i \in 1 .. n : s[i] = f[p + i]
  BY DEF BytesAt
<1> HIDE DEF B, f
<1>5. SubSeq(f, 1, p) \o s = SubSeq(f, 1, p + n)
  BY <1>1, <1>2, <1>3, <1>4, Extended
<1>6. QED
  BY <1>5, Zenon DEF f

\* A prefix of the chunk.
LEMMA PrefixIs ==
  ASSUME SoundJob(job), NEW p \in Nat, p <= Size
  PROVE  /\ Len(SubSeq(job.input, 1, p)) = p
         /\ \A i \in 1 .. p : SubSeq(job.input, 1, p)[i] = job.input[i]
<1> DEFINE B == 0 .. 255
           f == job.input
<1>1. f \in Seq(B)
  BY DEF SoundJob
<1>2. Len(f) \in Nat /\ p <= Len(f)
  BY JobFields DEF Size
<1> HIDE DEF B, f
<1>3. \A i \in 1 .. p : f[i] \in B
  <2>1. \A i \in 1 .. Len(f) : f[i] \in B
    BY <1>1, ElementOfSeq
  <2>2. QED
    BY <1>2, <2>1
<1>4. Len(SubSeq(f, 1, p)) = p /\ \A i \in 1 .. p : SubSeq(f, 1, p)[i] = f[i]
  <2>1. p \in 1 - 1 .. Len(f) /\ 1 \in 1 .. p + 1
    BY <1>2
  <2>2. \A i \in 1 .. p : f[1 + i - 1] = f[i]
    OBVIOUS
  <2>3. QED
    BY <1>1, <1>2, <1>3, <2>1, <2>2, SubSeqProperties
<1>5. QED
  BY <1>4 DEF f

\* A token that is decoded.
LEMMA ProducedTo ==
  ASSUME CInv, phase = "decode", NEW k, k + 1 \in 1 .. Len(trail), NEW b, b = trail[k + 1],
         NEW bytes, Produce(bytes, b.symbols),
         RightAttempt => /\ b.position <= Size /\ output \o bytes = SubSeq(job.input, 1, b.position)
                         /\ recent' = b.recent /\ bases' = b.bases
  PROVE  CInv'
<1>1. /\ output' = output \o bytes /\ cursor' = b.symbols
      /\ phase' = "decode" /\ attempt' = attempt /\ job' = job /\ stream' = stream /\ trail' = trail
  BY DEF Produce
<1>2. /\ SoundJob(job) /\ attempt \in {1, 2} /\ (attempt = 2 => ~job.trim /\ job.references # <<>>)
      /\ b \in Entry
  BY Decoding, Zenon
<1>3. RightAttempt' <=> RightAttempt
  BY <1>1, Zenon DEF RightAttempt
<1>4. ASSUME RightAttempt PROVE b.position = Len(output')
  <2>1. b.position \in Nat
    BY <1>2 DEF Entry
  <2>2. output' = SubSeq(job.input, 1, b.position)
    BY <1>1, <1>4, Zenon
  <2>3. QED
    BY <1>2, <1>4, <2>1, <2>2, PrefixIs, Zenon
<1>5. At(b)'
  BY <1>1, <1>3, <1>4, Zenon DEF At
<1>6. PICK i : i = k + 1
  BY Zenon
<1>7. i \in 1 .. Len(trail) /\ At(trail[i])'
  BY <1>1, <1>5, <1>6, Zenon
<1>8. attempt' \in {1, 2} /\ (attempt' = 2 => ~job.trim /\ job.references # <<>>)
  BY <1>1, <1>2, Zenon
<1>9. QED
  BY <1>1, <1>7, <1>8, DecodeGoesOn, Zenon

\* DecodeLiteral reads the literal.
LEMMA LiteralDecodes ==
  ASSUME CInv, DecodeLiteral PROVE CInv'
<1>1. phase = "decode" /\ NextSymbol.symbol \in 0 .. 255
  BY DEF DecodeLiteral, Reads
<1>2. PICK k \in 1 .. Len(trail) : At(trail[k])
  BY <1>1 DEF CInv
<1>3. PICK a : a = trail[k]
  BY Zenon
<1>4. PICK b : b = trail[k + 1]
  BY Zenon
<1>5. trail[k].symbols = cursor /\ a.symbols = cursor
  BY <1>2, <1>3, Zenon DEF At
<1>6. IsLiteral(NextSymbol.symbol) /\ ~IsEnd(NextSymbol.symbol)
  <2>1. IsLiteral(NextSymbol.symbol)
    BY <1>1 DEF IsLiteral
  <2>2. QED
    BY <2>1, FirstSymbols, Zenon
<1>7. /\ a \in Entry /\ SoundJob(job) /\ LiteralToken(a, b)
      /\ k + 1 \in 1 .. Len(trail) /\ b \in Entry
  BY <1>1, <1>2, <1>3, <1>4, <1>5, <1>6, WhichToken, Zenon
<1>8. PICK s : s = NextSymbol.symbol
  BY Zenon
<1>9. s = job.input[a.position + 1] /\ b.symbols = cursor + 1
  BY <1>5, <1>7, <1>8, LiteralNext, Zenon
<1>10. /\ a.position < Size /\ b.position = a.position + 1
       /\ b.recent = a.recent /\ b.bases = a.bases /\ a.position \in Nat /\ Size \in Nat
  BY <1>7, JobFields DEF LiteralToken, Entry
<1>11. CASE Len(output) >= Size /\ GiveUp
  <2>1. ~RightAttempt
    <3>1. ASSUME RightAttempt PROVE FALSE
      <4>1. Len(output) = a.position
        BY <1>2, <1>3, <3>1, Zenon DEF At
      <4>2. QED
        BY <1>10, <1>11, <4>1
    <3>2. QED
      BY <3>1
  <2>2. QED
    BY <1>1, <1>11, <2>1, SecondAttempt
<1>12. CASE Produce(<<s>>, cursor + 1) /\ UNCHANGED <<recent, bases>>
  <2>1. ASSUME RightAttempt
        PROVE  /\ b.position <= Size /\ output \o <<s>> = SubSeq(job.input, 1, b.position)
               /\ recent' = b.recent /\ bases' = b.bases
    <3>1. output = SubSeq(job.input, 1, a.position) /\ a.recent = recent /\ a.bases = bases
      BY <1>2, <1>3, <2>1, Zenon DEF At
    <3>2. PICK t : t = <<s>>
      BY Zenon
    <3>3. BytesAt(t, a.position, 1)
      BY <1>1, <1>8, <1>9, <3>2 DEF BytesAt
    <3>4. a.position + 1 <= Size
      BY <1>10
    <3>5. SubSeq(job.input, 1, a.position) \o t = SubSeq(job.input, 1, a.position + 1)
      BY <1>7, <1>10, <3>3, <3>4, InputExtended
    <3>6. recent' = recent /\ bases' = bases
      BY <1>12
    <3>7. QED
      BY <1>10, <3>1, <3>2, <3>4, <3>5, <3>6, Zenon
  <2>2. Produce(<<s>>, b.symbols)
    BY <1>9, <1>12, Zenon
  <2>3. QED
    BY <1>1, <1>4, <1>7, <2>1, <2>2, ProducedTo, Zenon
<1>13. QED
  BY <1>8, <1>11, <1>12 DEF DecodeLiteral

\* Bytes that equal those before them, and the ones they repeat.
Repeating(f, p, d, n) == \A i \in 1 .. n : f[p + i] = f[p + i - d]
Cycling(f, p, d, n)   == \A i \in 1 .. n : f[p + i] = f[p - d + 1 + ((i - 1) % d)]

\* Bytes that equal those d before them repeat the last d.
LEMMA RepeatingCycles ==
  ASSUME NEW f, NEW p \in Nat, NEW d \in 1 .. p, NEW n \in Nat, Repeating(f, p, d, n)
  PROVE  Cycling(f, p, d, n)
<1>1. \A i \in 1 .. n : f[p + i] = f[p + i - d]
  BY DEF Repeating
<1>2. \A i \in 1 .. n : f[p + i] = f[p - d + 1 + ((i - 1) % d)]
  BY <1>1, Repeats, ZenonT(60)
<1>3. QED
  BY <1>2 DEF Cycling

\* Copying from the output gives the bytes of a match.
LEMMA CopiedIs ==
  ASSUME SoundJob(job), NEW p \in Nat, NEW length \in Nat, NEW distance \in 1 .. p,
         p + length <= Size, output = SubSeq(job.input, 1, p), Len(output) = p,
         Repeating(job.input, p, distance, length)
  PROVE  BytesAt(Copied(distance, length), p, length)
<1> DEFINE s == Copied(distance, length)
           f == job.input
<1>1. p <= Size /\ Size \in Nat /\ \A i \in 1 .. Size : f[i] \in 0 .. 255
  BY JobFields
<1>2. \A i \in 1 .. p : output[i] = f[i]
  BY <1>1, PrefixIs
<1>3. ASSUME NEW i \in 1 .. length
      PROVE  /\ p - distance + 1 + ((i - 1) % distance) \in 1 .. p
             /\ p + i \in 1 .. Size
  <2>1. PICK x : x = i - 1
    BY Zenon
  <2>2. x \in Nat /\ distance \in Nat \ {0}
    BY <2>1
  <2>3. PICK y : y = x % distance
    BY Zenon
  <2>4. y \in 0 .. distance - 1
    BY <2>2, <2>3, Period
  <2>5. p - distance + 1 + y \in 1 .. p /\ p + i \in 1 .. Size
    BY <1>1, <2>4
  <2>6. QED
    BY <2>1, <2>3, <2>5
<1>4. \A i \in 1 .. length : f[p + i] = f[p - distance + 1 + ((i - 1) % distance)]
  <2>1. Cycling(job.input, p, distance, length)
    BY RepeatingCycles, Zenon
  <2>2. QED
    BY <2>1, Zenon DEF Cycling
<1>5. s = [i \in 1 .. length |-> output[p - distance + 1 + ((i - 1) % distance)]]
  BY DEF Copied
<1> HIDE DEF s, f
<1>6. ASSUME NEW i \in 1 .. length
      PROVE  s[i] = f[p + i] /\ s[i] \in 0 .. 255
  <2>1. PICK y : y = p - distance + 1 + ((i - 1) % distance)
    BY Zenon
  <2>2. s[i] = output[y]
    BY <1>5, <2>1
  <2>3. y \in 1 .. p /\ p + i \in 1 .. Size
    BY <1>3, <2>1, Zenon
  <2>4. output[y] = f[y] /\ f[p + i] = f[y]
    BY <1>2, <1>4, <2>1, <2>3, Zenon
  <2>5. s[i] = f[p + i]
    BY <2>2, <2>4, Zenon
  <2>6. f[p + i] \in 0 .. 255
    BY <1>1, <2>3
  <2>7. QED
    BY <2>5, <2>6
<1>7. s \in [1 .. length -> 0 .. 255]
  <2> DEFINE B == 0 .. 255
             g(i) == output[p - distance + 1 + ((i - 1) % distance)]
  <2> HIDE DEF B, g
  <2>1. s = [i \in 1 .. length |-> g(i)]
    BY <1>5, Zenon DEF g
  <2>2. \A i \in 1 .. length : s[i] \in B
    BY <1>6 DEF B
  <2>3. s \in [1 .. length -> B]
    BY <2>1, <2>2
  <2>4. QED
    BY <2>3 DEF B
<1>8. s \in Seq(0 .. 255)
  BY <1>7, IsASeq
<1>9. Len(s) = length
  BY <1>7, <1>8, LenProperties
<1>10. QED
  BY <1>6, <1>8, <1>9, Zenon DEF s, f, BytesAt

\* DecodeMatch reads the match.
LEMMA MatchDecodes ==
  ASSUME CInv, DecodeMatch PROVE CInv'
<1>1. phase = "decode" /\ NextSymbol.symbol \in 256 .. 512
  BY DEF DecodeMatch, Reads
<1>2. PICK k \in 1 .. Len(trail) : At(trail[k])
  BY <1>1 DEF CInv
<1>3. PICK a : a = trail[k]
  BY Zenon
<1>4. PICK b : b = trail[k + 1]
  BY Zenon
<1>5. trail[k].symbols = cursor /\ a.symbols = cursor
  BY <1>2, <1>3, Zenon DEF At
<1>6. IsMatch(NextSymbol.symbol) /\ ~IsEnd(NextSymbol.symbol)
  <2>1. IsMatch(NextSymbol.symbol)
    BY <1>1 DEF IsMatch
  <2>2. QED
    BY <2>1, FirstSymbols, Zenon
<1>7. /\ a \in Entry /\ SoundJob(job) /\ cursor \in Nat /\ Len(stream) \in Nat
      /\ \E length, distance : MatchFits(a, b, length, distance)
      /\ k + 1 \in 1 .. Len(trail) /\ b \in Entry
  BY <1>1, <1>2, <1>3, <1>4, <1>5, <1>6, WhichToken, Zenon
<1>8. PICK length, distance : MatchFits(a, b, length, distance)
  BY <1>7
<1>9. PICK code : code = EncodeRecentDistance(a.recent, distance)[1]
  BY Zenon
<1>10. /\ NextSymbol.symbol = length + 254
       /\ InStepFrom(cursor + 2, "offset", OffsetContext(length), Settings.offsetTables,
                     Settings.offsetContinuation)
       /\ Grouped(cursor + 2, Settings.offsetContinuation) = [value |-> code, end |-> b.symbols]
  <2>1. MatchReads(length, code, b.symbols)
    BY <1>5, <1>7, <1>8, <1>9, MatchNext, Zenon
  <2>2. QED
    BY <2>1, Zenon DEF MatchReads
<1>11. /\ length \in MinMatch .. MaxMatch /\ distance \in 1 .. a.position
       /\ b.position = a.position + length /\ b.position <= Size
       /\ Repeating(job.input, a.position, distance, length)
       /\ b.recent = EncodeRecentDistance(a.recent, distance)[2] /\ b.bases = a.bases
  BY <1>8, Zenon DEF MatchFits, Repeating
<1>12. /\ length \in Nat /\ a.position \in Nat /\ a.recent \in [0 .. 3 -> Nat] /\ Size \in Nat
       /\ distance \in Nat \ {0}
  <2>1. length \in Nat
    BY <1>11, SettingsAre DEF MinMatch
  <2>2. a.position \in Nat /\ a.recent \in [0 .. 3 -> Nat]
    BY <1>7 DEF Entry
  <2>3. distance \in Nat \ {0}
    BY <1>11, <2>2
  <2>4. Size \in Nat
    BY <1>7, JobFields, Zenon
  <2>5. QED
    BY <2>1, <2>2, <2>3, <2>4, Zenon
<1>13. NextSymbol.symbol - 254 = length
  BY <1>10, <1>12
<1>14. PICK d : d = DecodeRecentDistance(recent, code)
  BY Zenon
<1>15. \/ (d[1] \notin 1 .. Len(output) \/ Len(output) + length > Size) /\ GiveUp
       \/ /\ ~(d[1] \notin 1 .. Len(output) \/ Len(output) + length > Size)
          /\ Produce(Copied(d[1], length), b.symbols) /\ recent' = d[2] /\ bases' = bases
  <2>1. PICK g : g = Grouped(cursor + 2, Settings.offsetContinuation)
    BY Zenon
  <2>2. g.value = code /\ g.end = b.symbols
    BY <1>10, <2>1
  <2>3. LET decoded == DecodeRecentDistance(recent, g.value)
        IN  IF ~InStepFrom(cursor + 2, "offset", OffsetContext(length), Settings.offsetTables,
                           Settings.offsetContinuation)
            THEN EndAs("out of step")
            ELSE IF decoded[1] \notin 1 .. Len(output) \/ Len(output) + length > Size THEN GiveUp
            ELSE Produce(Copied(decoded[1], length), g.end)
                 /\ recent' = decoded[2] /\ UNCHANGED bases
    BY <1>13, <2>1, Zenon DEF DecodeMatch
  <2>4. QED
    BY <1>10, <1>14, <2>2, <2>3, Zenon
<1>16. ASSUME RightAttempt
       PROVE  /\ Len(output) = a.position /\ output = SubSeq(job.input, 1, a.position)
              /\ a.bases = bases /\ d[1] = distance /\ d[2] = b.recent
              /\ ~(d[1] \notin 1 .. Len(output) \/ Len(output) + length > Size)
  <2>1. /\ Len(output) = a.position /\ output = SubSeq(job.input, 1, a.position)
        /\ a.bases = bases /\ a.recent = recent
    BY <1>2, <1>3, <1>16, Zenon DEF At
  <2>2. d[1] = distance /\ d[2] = b.recent
    BY <1>9, <1>11, <1>12, <1>14, <2>1, RecentIs, Zenon
  <2>3. d[1] \in 1 .. Len(output) /\ ~(Len(output) + length > Size)
    BY <1>11, <1>12, <2>1, <2>2
  <2>4. QED
    BY <2>1, <2>2, <2>3, Zenon
<1>17. CASE (d[1] \notin 1 .. Len(output) \/ Len(output) + length > Size) /\ GiveUp
  <2>1. ~RightAttempt
    BY <1>16, <1>17, Zenon
  <2>2. QED
    BY <1>1, <1>17, <2>1, SecondAttempt, Zenon
<1>18. CASE Produce(Copied(d[1], length), b.symbols) /\ recent' = d[2] /\ bases' = bases
  <2>1. PICK s : s = Copied(d[1], length)
    BY Zenon
  <2>2. ASSUME RightAttempt
        PROVE  /\ b.position <= Size /\ output \o s = SubSeq(job.input, 1, b.position)
               /\ recent' = b.recent /\ bases' = b.bases
    <3>1. PICK p : p = a.position
      BY Zenon
    <3>2. p \in Nat /\ distance \in 1 .. p /\ p + length <= Size /\ b.position = p + length
      BY <1>11, <1>12, <3>1, Zenon
    <3>3. BytesAt(s, p, length)
      BY <1>7, <1>11, <1>12, <1>16, <2>1, <2>2, <3>1, <3>2, CopiedIs, Zenon
    <3>4. SubSeq(job.input, 1, p) \o s = SubSeq(job.input, 1, p + length)
      BY <1>7, <1>12, <3>2, <3>3, InputExtended, Zenon
    <3>5. QED
      BY <1>11, <1>16, <1>18, <2>2, <3>1, <3>2, <3>4, Zenon
  <2>3. Produce(s, b.symbols)
    BY <1>18, <2>1, Zenon
  <2>4. QED
    BY <1>1, <1>4, <1>7, <2>2, <2>3, ProducedTo, Zenon
<1>19. QED
  BY <1>15, <1>17, <1>18, Zenon

\* The bytes of a reference are those its segment starts with.
LEMMA SegmentHasThem ==
  ASSUME SoundJob(job), NEW r \in Range(job.references)
  PROVE  /\ r.length <= Len(RawFrom(r.segment))
         /\ BytesAt(SubSeq(RawFrom(r.segment), 1, r.length), r.position, r.length)
<1> DEFINE f == job.input
           B == 0 .. 255
<1>1. PICK p : p = r.position
  BY Zenon
<1>2. PICK n : n = r.length
  BY Zenon
<1>3. PICK raw : raw = RawFrom(r.segment)
  BY Zenon
<1>4. /\ p \in Nat /\ n \in Nat /\ p + n <= Size /\ Size \in Nat
      /\ IsPrefix(SubSeq(job.input, p + 1, p + n), raw)
  BY <1>1, <1>2, <1>3, ReferenceIs, JobFields, Zenon
<1>5. f \in Seq(B) /\ Len(f) = Size
  BY DEF SoundJob, Size
<1>6. \A i \in 1 .. Size : f[i] \in B
  BY JobFields
<1>7. PICK x : x = SubSeq(f, p + 1, p + n)
  BY Zenon
<1> HIDE DEF B, f
<1>8. x \in Seq(B) /\ Len(x) = n /\ \A i \in 1 .. n : x[i] = f[p + i]
  <2>1. \A i \in 1 .. n : f[p + i] \in B /\ (p + 1) + i - 1 = p + i
    BY <1>4, <1>6
  <2>2. (p + n) - (p + 1) + 1 = n /\ (IF p + 1 <= p + n THEN (p + n) - (p + 1) + 1 ELSE 0) = n
    BY <1>4
  <2>3. \A i \in p + 1 .. p + n : f[i] \in B
    BY <1>4, <1>6
  <2>4. p + 1 \in 1 .. Len(f) + 1 /\ p + n \in p + 1 - 1 .. Len(f)
    BY <1>4, <1>5
  <2>5. QED
    BY <1>5, <1>7, <2>1, <2>2, <2>3, <2>4, SubSeqProperties
<1>9. IsPrefix(x, raw)
  BY <1>4, <1>7, Zenon DEF f
<1>10. n <= Len(raw) /\ SubSeq(raw, 1, n) = SubSeq(x, 1, n)
  BY <1>8, <1>9, Zenon DEF IsPrefix
<1>11. SubSeq(x, 1, n) = x
  BY <1>4, <1>8
<1>12. BytesAt(x, p, n)
  BY <1>8 DEF BytesAt, f, B
<1>13. QED
  BY <1>1, <1>2, <1>3, <1>10, <1>11, <1>12, Zenon

\* Decoding at the start of its segment gives the bytes of a reference, and one end.
LEMMA TargetDecodes ==
  ASSUME SoundJob(job), NEW r \in Range(job.references), NEW d \in DecodeAt(Target(r.segment), r.length)
  PROVE  d = Decoded(SubSeq(RawFrom(r.segment), 1, r.length), Consumed(r.segment, r.length))
<1>1. PICK s : s = r.segment
  BY Zenon
<1>2. PICK n : n = r.length
  BY Zenon
<1>3. PICK t : t = Target(s)
  BY Zenon
<1>4. s \in Segments /\ n <= Len(RawFrom(s))
  BY <1>1, <1>2, ReferenceIs, SegmentHasThem, Zenon
<1>5. \A k \in Segments : t = Target(k) => k = s
  BY <1>3, <1>4, TargetsDiffer, Zenon
<1>6. {k \in Segments : Target(k) = t /\ n <= Len(RawFrom(k))} = {s}
  BY <1>3, <1>4, <1>5, Zenon
<1>7. d = Decoded(SubSeq(RawFrom(s), 1, n), Consumed(s, n))
  <2> DEFINE S == {k \in Segments : Target(k) = t /\ n <= Len(RawFrom(k))}
             D(k) == Decoded(SubSeq(RawFrom(k), 1, n), Consumed(k, n))
  <2> HIDE DEF D
  <2>1. S # {}
    BY <1>6
  <2>2. DecodeAt(t, n) = {D(k) : k \in S}
    BY <2>1, Zenon DEF DecodeAt, D
  <2>3. S = {s}
    BY <1>6, Zenon
  <2> HIDE DEF S
  <2>4. DecodeAt(t, n) = {D(k) : k \in {s}}
    BY <2>2, <2>3
  <2>5. d \in DecodeAt(t, n)
    BY <1>1, <1>2, <1>3, Zenon
  <2>6. d = D(s)
    BY <2>4, <2>5, Zenon
  <2>7. QED
    BY <2>6, Zenon DEF D
<1>8. QED
  BY <1>1, <1>2, <1>3, <1>7, Zenon

\* A symbol above the end symbol begins a reference.
LEMMA AboveTheEnd ==
  ASSUME NEW s, s > EndSymbol
  PROVE  ~IsLiteral(s) /\ ~IsMatch(s) /\ ~IsEnd(s)
<1>1. s \in 0 .. 255 => FALSE
  BY DEF EndSymbol
<1>2. s \in 256 .. 512 => FALSE
  BY DEF EndSymbol
<1>3. s = EndSymbol => FALSE
  BY DEF EndSymbol
<1>4. QED
  BY <1>1, <1>2, <1>3, Zenon DEF IsLiteral, IsMatch, IsEnd

\* DecodeReference reads the reference.
LEMMA ReferenceDecodes ==
  ASSUME CInv, DecodeReference PROVE CInv'
<1>1. phase = "decode" /\ NextSymbol.symbol > EndSymbol
  BY DEF DecodeReference, Reads
<1>2. PICK k \in 1 .. Len(trail) : At(trail[k])
  BY <1>1 DEF CInv
<1>3. PICK a : a = trail[k]
  BY Zenon
<1>4. PICK b : b = trail[k + 1]
  BY Zenon
<1>5. trail[k].symbols = cursor /\ a.symbols = cursor
  BY <1>2, <1>3, Zenon DEF At
<1>6. IsReference(NextSymbol.symbol) /\ ~IsEnd(NextSymbol.symbol)
  <2>1. PICK s : s = NextSymbol.symbol
    BY Zenon
  <2>2. \/ IsLiteral(s) \/ IsMatch(s) \/ IsReference(s) \/ IsEnd(s)
    BY <1>1, <1>3, <1>4, <1>5, <2>1, WhichToken, Zenon
  <2>3. IsReference(s)
    BY <1>1, <2>1, <2>2, AboveTheEnd, Zenon
  <2>4. QED
    BY <2>1, <2>3, FirstSymbols, Zenon
<1>7. /\ a \in Entry /\ SoundJob(job) /\ cursor \in Nat /\ Len(stream) \in Nat
      /\ \E r, target, base : ReferenceFits(a, b, r, target, base)
      /\ k + 1 \in 1 .. Len(trail) /\ b \in Entry
  BY <1>1, <1>2, <1>3, <1>4, <1>5, <1>6, WhichToken, Zenon
<1>8. PICK r, target, base : ReferenceFits(a, b, r, target, base)
  BY <1>7
<1>9. PICK t : t = ReferenceTarget(ReferenceLength.end)
  BY Zenon
<1>10. /\ ReferenceInStep /\ ReferenceLength.value = r.length
       /\ t.base = base /\ (bases = a.bases => t.value = target) /\ t.end = b.symbols
  BY <1>5, <1>7, <1>8, <1>9, ReferenceNext, ZenonT(60)
<1>11. /\ r \in Range(job.references) /\ target = Target(r.segment)
       /\ r.position = a.position /\ b.position = a.position + r.length
       /\ b.recent = a.recent /\ b.bases = [a.bases EXCEPT ![base] = NextBase(r)]
  BY <1>8, Zenon DEF ReferenceFits
<1>12. PICK n : n = r.length
  BY Zenon
<1>13. /\ n \in Nat /\ a.position \in Nat /\ a.position + n <= Size /\ b.position <= Size
  BY <1>7, <1>11, <1>12, ReferenceIs, ZenonT(60) DEF Entry
<1>14. job.common /\ job.references # <<>>
  <2>1. job.references # <<>>
    BY <1>11 DEF Range
  <2>2. QED
    BY <1>7, <2>1 DEF SoundJob
<1>15. CopyReference(n, t)
  BY <1>9, <1>10, <1>12, Zenon DEF DecodeReference
<1>16. \/ GiveUp /\ Len(output) + n > Size
       \/ \E d \in DecodeAt(t.value, n) : d.fails /\ GiveUp
       \/ \E d \in DecodeAt(t.value, n) :
            /\ Produce(d.bytes, t.end) /\ recent' = recent
            /\ bases' = [bases EXCEPT ![t.base] = IF attempt = 1 THEN t.value + d.consumed ELSE 0]
  BY <1>14, <1>15, Zenon DEF CopyReference
<1>17. ASSUME RightAttempt
       PROVE  /\ Len(output) = a.position /\ output = SubSeq(job.input, 1, a.position)
              /\ a.bases = bases /\ a.recent = recent /\ t.value = target
              /\ ~(Len(output) + n > Size)
              /\ \A d \in DecodeAt(t.value, n) :
                   d = Decoded(SubSeq(RawFrom(r.segment), 1, n), Consumed(r.segment, n))
  <2>1. /\ Len(output) = a.position /\ output = SubSeq(job.input, 1, a.position)
        /\ a.bases = bases /\ a.recent = recent
    BY <1>2, <1>3, <1>17, Zenon DEF At
  <2>2. t.value = target
    BY <1>10, <2>1, Zenon
  <2>3. ~(Len(output) + n > Size)
    <3>1. PICK p : p = a.position
      BY Zenon
    <3>2. PICK z : z = Size
      BY Zenon
    <3>3. p \in Nat /\ p + n <= z /\ z \in Nat
      BY <1>7, <1>13, <3>1, <3>2, JobFields, Zenon
    <3>4. ~(p + n > z)
      BY <1>13, <3>3
    <3>5. QED
      BY <2>1, <3>1, <3>2, <3>4, Zenon
  <2>4. \A d \in DecodeAt(t.value, n) :
          d = Decoded(SubSeq(RawFrom(r.segment), 1, n), Consumed(r.segment, n))
    BY <1>7, <1>11, <1>12, <2>2, TargetDecodes, Zenon
  <2>5. QED
    BY <2>1, <2>2, <2>3, <2>4, Zenon
<1>18. CASE GiveUp /\ Len(output) + n > Size
  BY <1>1, <1>17, <1>18, SecondAttempt, Zenon
<1>19. CASE \E d \in DecodeAt(t.value, n) : d.fails /\ GiveUp
  <2>1. PICK d \in DecodeAt(t.value, n) : d.fails /\ GiveUp
    BY <1>19
  <2>2. ASSUME RightAttempt PROVE FALSE
    <3>1. d = Decoded(SubSeq(RawFrom(r.segment), 1, n), Consumed(r.segment, n))
      BY <1>17, <2>1, <2>2, Zenon
    <3>2. \A x, y : Decoded(x, y).fails = FALSE
      BY DEF Decoded
    <3>3. QED
      BY <2>1, <3>1, <3>2, Zenon
  <2>3. QED
    BY <1>1, <2>1, <2>2, SecondAttempt, Zenon
<1>20. CASE \E d \in DecodeAt(t.value, n) :
            /\ Produce(d.bytes, t.end) /\ recent' = recent
            /\ bases' = [bases EXCEPT ![t.base] = IF attempt = 1 THEN t.value + d.consumed ELSE 0]
  <2>1. PICK d \in DecodeAt(t.value, n) :
          /\ Produce(d.bytes, t.end) /\ recent' = recent
          /\ bases' = [bases EXCEPT ![t.base] = IF attempt = 1 THEN t.value + d.consumed ELSE 0]
    BY <1>20
  <2>2. PICK bytes : bytes = d.bytes
    BY Zenon
  <2>3. ASSUME RightAttempt
        PROVE  /\ b.position <= Size /\ output \o bytes = SubSeq(job.input, 1, b.position)
               /\ recent' = b.recent /\ bases' = b.bases
    <3>1. PICK x : x = SubSeq(RawFrom(r.segment), 1, n)
      BY Zenon
    <3>2. PICK y : y = Consumed(r.segment, n)
      BY Zenon
    <3>3. d = Decoded(x, y)
      BY <1>17, <2>1, <2>3, <3>1, <3>2, Zenon
    <3>4. bytes = x /\ d.consumed = y
      BY <2>2, <3>3 DEF Decoded
    <3>5. BytesAt(x, a.position, n)
      BY <1>7, <1>11, <1>12, <3>1, SegmentHasThem, Zenon
    <3>6. SubSeq(job.input, 1, a.position) \o x = SubSeq(job.input, 1, a.position + n)
      BY <1>7, <1>13, <3>5, InputExtended, Zenon
    <3>7. NextBase(r) = IF attempt = 1 THEN target + y ELSE 0
      <4>1. attempt = IF job.trim THEN 1 ELSE 2
        BY <1>14, <2>3, Zenon DEF RightAttempt
      <4>2. attempt = 1 <=> job.trim
        BY <4>1
      <4>3. NextBase(r) = IF job.trim THEN target + y ELSE 0
        BY <1>11, <1>12, <3>2, Zenon DEF NextBase
      <4>4. QED
        BY <4>2, <4>3, Zenon
    <3>8. bases' = b.bases
      <4>1. PICK next : next = NextBase(r)
        BY Zenon
      <4>2. t.value = target /\ a.bases = bases
        BY <1>17, <2>3, Zenon
      <4>3. bases' = [a.bases EXCEPT ![base] = next]
        BY <1>10, <2>1, <3>4, <3>7, <4>1, <4>2, Zenon
      <4>4. QED
        BY <1>11, <4>1, <4>3, Zenon
    <3>9. recent' = b.recent
      BY <1>11, <1>17, <2>1, <2>3, Zenon
    <3>10. QED
      BY <1>11, <1>12, <1>13, <1>17, <2>3, <3>4, <3>6, <3>8, <3>9, Zenon
  <2>4. Produce(bytes, b.symbols)
    BY <1>10, <2>1, <2>2, Zenon
  <2>5. QED
    BY <1>1, <1>4, <1>7, <2>3, <2>4, ProducedTo, Zenon
<1>21. QED
  BY <1>16, <1>18, <1>19, <1>20, Zenon

\* DecodeEnd reads the end of the chunk.
LEMMA EndDecodes ==
  ASSUME CInv, DecodeEnd PROVE CInv'
<1>1. phase = "decode" /\ NextSymbol.symbol = EndSymbol
  BY DEF DecodeEnd, Reads
<1>2. PICK k \in 1 .. Len(trail) : At(trail[k])
  BY <1>1 DEF CInv
<1>3. PICK a : a = trail[k]
  BY Zenon
<1>4. PICK b : b = trail[k + 1]
  BY Zenon
<1>5. trail[k].symbols = cursor
  BY <1>2, Zenon DEF At
<1>6. a.position = Size
  <2>1. IsEnd(NextSymbol.symbol)
    BY <1>1 DEF IsEnd
  <2>2. QED
    BY <1>1, <1>3, <1>4, <1>5, <2>1, WhichToken, Zenon
<1>7. /\ SoundJob(job) /\ attempt \in {1, 2} /\ stream \in Seq(Symbol)
      /\ (attempt = 2 => ~job.trim /\ job.references # <<>>)
  BY <1>1, Decoding, Zenon
<1>8. ASSUME RightAttempt PROVE Len(output) = Size /\ output = job.input
  <2>1. Len(output) = Size /\ output = SubSeq(job.input, 1, Size)
    BY <1>2, <1>3, <1>6, <1>8, Zenon DEF At
  <2>2. SubSeq(job.input, 1, Size) = job.input
    BY <1>7 DEF SoundJob, Size
  <2>3. QED
    BY <2>1, <2>2, Zenon
<1>9. CASE Len(output) # Size /\ GiveUp
  BY <1>1, <1>8, <1>9, SecondAttempt, Zenon
<1>10. CASE EndAs("ok")
  <2>1. /\ phase' = "ok"
        /\ UNCHANGED <<attempt, job, position, recent, bases, parser, stream, cursor, output, trail>>
    BY <1>10 DEF EndAs
  <2>2. RightAttempt' => RightAttempt
    BY <2>1 DEF RightAttempt
  <2>3. QED
    BY <1>7, <1>8, <2>1, <2>2 DEF CInv
<1>11. QED
  BY <1>9, <1>10 DEF DecodeEnd

-----------------------------------------------------------------------------
(* Encoder and decoder together *)

\* The invariant of a chunk that is sound and not begun: its path is where it starts.
LEMMA BegunCInv == Fresh /\ phase = "encode" /\ SoundJob(job) => CInv
<1> SUFFICES ASSUME Fresh, phase = "encode", SoundJob(job) PROVE CInv
  OBVIOUS
<1>1. /\ attempt = 1 /\ position = 0 /\ recent = NoOffsets /\ bases = NoBases
      /\ pending = NoPending /\ stream = <<>> /\ cursor = 0 /\ output = <<>> /\ trail = <<>>
  BY DEF Fresh
<1>2. SoundJob(job) /\ phase = "encode"
  OBVIOUS
<1>3. Here = Start
  <2>1. Len(stream) = 0
    BY <1>1
  <2>2. QED
    BY <1>1, <2>1, Zenon DEF Here, Start
<1>4. Start \in Entry
  BY DEF Start, Entry, NoOffsets, NoBases
<1>5. PICK e : e = Here
  BY Zenon
<1>6. e \in Entry /\ e = Start
  BY <1>3, <1>4, <1>5
<1>7. PICK p : p = Append(trail, e)
  BY Zenon
<1>8. p = <<e>>
  BY <1>1, <1>7
<1>9. p \in Seq(Entry) /\ Len(p) = 1 /\ p[1] = e
  BY <1>6, <1>8
<1>10. Path(p)
  <2>1. \A k \in 1 .. Len(p) - 1 : FALSE
    BY <1>9
  <2>2. Len(p) > 0
    BY <1>9
  <2>3. QED
    BY <1>6, <1>9, <2>1, <2>2, Zenon DEF Path
<1>11. Path(Append(trail, Here)) /\ Here \in Entry
  BY <1>5, <1>6, <1>7, <1>10, Zenon
<1>12. PendingIs
  BY <1>1 DEF PendingIs, NoPending, Match, MinMatch
<1>13. trail \in Seq(Entry) /\ stream \in Seq(Symbol)
  BY <1>1
<1>14. QED
  BY <1>1, <1>2, <1>11, <1>12, <1>13 DEF CInv

\* It holds before the first step.
LEMMA InitCInv == Init => CInv
<1> SUFFICES ASSUME Init PROVE CInv
  OBVIOUS
<1>1. Fresh /\ phase = "encode" /\ SoundJob(job)
  BY JobsAssumption DEF Init, Fresh
<1>2. QED
  BY <1>1, BegunCInv

\* Nothing happens to it while nothing happens.
LEMMA StutterKeepsCInv ==
  ASSUME CInv, UNCHANGED vars PROVE CInv'
<1>1. /\ phase' = phase /\ attempt' = attempt /\ job' = job /\ position' = position
      /\ recent' = recent /\ bases' = bases /\ pending' = pending /\ stream' = stream
      /\ cursor' = cursor /\ output' = output /\ trail' = trail
  BY DEF vars, parser
<1>2. /\ SoundJob(job) /\ phase \in {"encode", "decode", "ok"} /\ attempt \in {1, 2}
      /\ (attempt = 2 => ~job.trim /\ job.references # <<>>) /\ stream \in Seq(Symbol)
  BY DEF CInv
<1>3. CASE phase = "encode"
  <2>1. /\ cursor = 0 /\ output = <<>> /\ attempt = 1 /\ PendingIs
        /\ trail \in Seq(Entry) /\ Here \in Entry /\ Path(Append(trail, Here))
    BY <1>3 DEF CInv
  <2>2. Here' = Here
    BY <1>1, Zenon DEF Here
  <2>3. PICK p : p = Append(trail, Here)
    BY Zenon
  <2>4. stream' = stream \o <<>>
    BY <1>1, <1>2
  <2>5. Path(p)'
    <3>1. <<>> \in Seq(Symbol)
      OBVIOUS
    <3>2. QED
      BY <1>1, <1>2, <2>1, <2>3, <2>4, <3>1, PathKept, Zenon
  <2>6. p = Append(trail, Here)'
    BY <1>1, <2>2, <2>3, Zenon
  <2>7. Path(Append(trail, Here))'
    BY <2>5, <2>6, Zenon
  <2>8. PendingIs'
    BY <1>1, <2>1, Zenon DEF PendingIs
  <2>9. phase' # "decode" /\ phase' # "ok"
    BY <1>1, <1>3
  <2>10. /\ SoundJob(job') /\ phase' \in {"encode", "decode", "ok"} /\ attempt' \in {1, 2}
         /\ (attempt' = 2 => ~job'.trim /\ job'.references # <<>>) /\ stream' \in Seq(Symbol)
         /\ cursor' = 0 /\ output' = <<>> /\ attempt' = 1 /\ trail' \in Seq(Entry)
    BY <1>1, <1>2, <2>1
  <2>11. Here' \in Entry
    BY <2>1, <2>2
  <2>12. QED
    BY <2>7, <2>8, <2>9, <2>10, <2>11, Zenon DEF CInv
<1>4. CASE phase = "decode"
  <2>1. PICK k \in 1 .. Len(trail) : At(trail[k])
    BY <1>4 DEF CInv
  <2>2. PICK e : e = trail[k]
    BY Zenon
  <2>3. At(e)'
    BY <1>1, <2>1, <2>2, Zenon DEF At, RightAttempt
  <2>4. At(trail[k])'
    BY <1>1, <2>2, <2>3, Zenon
  <2>5. phase' = "decode" /\ attempt' \in {1, 2} /\ (attempt' = 2 => ~job.trim /\ job.references # <<>>)
    BY <1>1, <1>2, <1>4
  <2>6. QED
    BY <1>1, <1>4, <2>1, <2>4, <2>5, DecodeGoesOn, Zenon
<1>5. CASE phase = "ok"
  <2>1. RightAttempt' <=> RightAttempt
    BY <1>1, Zenon DEF RightAttempt
  <2>2. RightAttempt => output = job.input
    BY <1>5 DEF CInv
  <2>3. QED
    BY <1>1, <1>2, <1>5, <2>1, <2>2 DEF CInv
<1>6. QED
  BY <1>2, <1>3, <1>4, <1>5

\* Every step keeps it.
LEMMA CInvStep == CInv /\ PInv /\ [Next]_vars => CInv'
<1> SUFFICES ASSUME CInv, PInv, [Next]_vars PROVE CInv'
  OBVIOUS
<1>1. CASE EncodeBoundary
  BY <1>1, BoundaryWrites
<1>2. CASE FindMatch
  BY <1>2, FindWrites
<1>3. CASE EncodeMatch
  BY <1>3, MatchWrites
<1>4. CASE EncodeLiteral
  BY <1>4, LiteralWrites
<1>5. CASE EncodeLastLiteral
  BY <1>5, LastLiteralWrites
<1>6. CASE EncodeReference
  BY <1>6, ReferenceWrites
<1>7. CASE EncodeEnd
  BY <1>7, EndWrites
<1>8. CASE DecodeLiteral
  BY <1>8, LiteralDecodes
<1>9. CASE DecodeMatch
  BY <1>9, MatchDecodes
<1>10. CASE DecodeReference
  BY <1>10, ReferenceDecodes
<1>11. CASE DecodeEnd
  BY <1>11, EndDecodes
<1>12. CASE UNCHANGED vars
  BY <1>12, StutterKeepsCInv
<1>13. QED
  BY <1>1, <1>2, <1>3, <1>4, <1>5, <1>6, <1>7, <1>8, <1>9, <1>10, <1>11, <1>12 DEF Next

\* Both together are inductive.
LEMMA CInvHolds == Spec => []CInv
<1> DEFINE Inv == PInv /\ CInv
<1>1. Init => Inv
  BY InitPInv, InitCInv
<1>2. Inv /\ [Next]_vars => Inv'
  BY PInvStep, CInvStep
<1>3. Inv => CInv
  OBVIOUS
<1> HIDE DEF Inv
<1>4. QED
  BY <1>1, <1>2, <1>3, PTL DEF Spec

\* What it says of the lockstep.
LEMMA CInvInLockstep == CInv => InLockstep
<1> SUFFICES ASSUME CInv PROVE InLockstep
  OBVIOUS
<1>1. phase # "out of step"
  BY DEF CInv
<1>2. ASSUME phase = "decode", RightAttempt
      PROVE  \E k \in DOMAIN trail :
               /\ trail[k].symbols = cursor /\ trail[k].position = Len(output)
               /\ trail[k].recent = recent /\ trail[k].bases = bases
  <2>1. PICK k \in 1 .. Len(trail) : At(trail[k])
    BY <1>2 DEF CInv
  <2>2. trail \in Seq(Entry)
    BY <1>2, Decoding, Zenon DEF Path
  <2>3. k \in DOMAIN trail
    BY <2>1, <2>2, LenProperties
  <2>4. QED
    BY <1>2, <2>1, <2>3, Zenon DEF At
<1>3. QED
  BY <1>1, <1>2, Zenon DEF InLockstep

\* And of the attempts.
LEMMA CInvRightAttempt == CInv => RightAttemptRoundTrip
<1> SUFFICES ASSUME CInv PROVE RightAttemptRoundTrip
  OBVIOUS
<1>1. phase # "failed" /\ (phase = "ok" /\ RightAttempt => output = job.input)
  BY DEF CInv
<1>2. attempt \in {1, 2} /\ (attempt = 2 => ~job.trim /\ job.references # <<>>)
  BY DEF CInv
<1>3. job.trim \/ job.references = <<>> => attempt = 1
  BY <1>2
<1>4. QED
  BY <1>1, <1>3, Zenon DEF RightAttemptRoundTrip

\* decompress_chunk_with_output never asks for a symbol with a model it was not encoded
\* with, and before each token the right attempt has the recent distances, the bases and
\* as much output as compress_chunk_with_references had there: for chunks, common buffers
\* and settings of any size.
THEOREM EncoderAndDecoderInStep == Spec => []InLockstep
BY CInvHolds, CInvInLockstep, PTL

\* decompress_chunk_with_output gives the chunk back when an attempt takes the bases as the
\* encoder did and reaches the end; it never ends in an error; and where trimmed chains were
\* used, or no references, there is no second attempt.
THEOREM RightAttemptDecodes == Spec => []RightAttemptRoundTrip
BY CInvHolds, CInvRightAttempt, PTL

-----------------------------------------------------------------------------
(* Sets in order *)

\* Every element has its place in the order, and what follows it comes next.
LEMMA InOrderIs ==
  ASSUME NEW S, IsFiniteSet(S), NEW R, StrictOrder(S, R)
  PROVE  /\ InOrder(S, R) \in Seq(S) /\ Len(InOrder(S, R)) = Cardinality(S)
         /\ \A x \in S : \E k \in DOMAIN InOrder(S, R) : InOrder(S, R)[k] = x
         /\ \A k \in DOMAIN InOrder(S, R), x \in S :
              <<InOrder(S, R)[k], x>> \in R =>
                /\ k < Len(InOrder(S, R)) /\ <<InOrder(S, R)[k], InOrder(S, R)[k + 1]>> \in R
                /\ x = InOrder(S, R)[k + 1] \/ <<InOrder(S, R)[k + 1], x>> \in R
         /\ \A k \in DOMAIN InOrder(S, R) :
              k < Len(InOrder(S, R)) => <<InOrder(S, R)[k], InOrder(S, R)[k + 1]>> \in R
<1> DEFINE n == Cardinality(S)
           P(x) == Cardinality(Before(S, R, x))
           q == InOrder(S, R)
<1>1. n \in Nat
  BY FS_CardinalityType
<1>2. q = [k \in 1 .. n |-> CHOOSE x \in S : P(x) = k - 1]
  BY DEF InOrder, Before
<1>3. /\ \A x \in S : P(x) \in 0 .. n - 1
      /\ \A x, y \in S : <<x, y>> \in R <=> P(x) < P(y)
  BY PlacesOrdered
<1>4. /\ \A k \in 0 .. n - 1 : \E x \in S : P(x) = k
      /\ \A x, y \in S : P(x) = P(y) => x = y
  BY PlacesFilled
<1> HIDE DEF n, P, q
<1>5. \A k \in 1 .. n : q[k] \in S /\ P(q[k]) = k - 1
  <2> SUFFICES ASSUME NEW k \in 1 .. n PROVE q[k] \in S /\ P(q[k]) = k - 1
    OBVIOUS
  <2>1. k - 1 \in 0 .. n - 1
    BY <1>1
  <2>2. \E x \in S : P(x) = k - 1
    BY <1>4, <2>1
  <2>3. q[k] = CHOOSE x \in S : P(x) = k - 1
    BY <1>2
  <2>4. QED
    BY <2>2, <2>3
<1>6. q \in Seq(S) /\ Len(q) = n /\ DOMAIN q = 1 .. n
  <2>1. q \in [1 .. n -> S]
    BY <1>2, <1>5
  <2>2. QED
    BY <1>1, <2>1
<1>7. ASSUME NEW x \in S PROVE \E k \in DOMAIN q : q[k] = x
  <2>1. P(x) + 1 \in 1 .. n /\ (P(x) + 1) - 1 = P(x)
    BY <1>1, <1>3
  <2>2. q[P(x) + 1] = x
    BY <1>4, <1>5, <2>1
  <2>3. QED
    BY <1>6, <2>1, <2>2
<1>8. ASSUME NEW k \in DOMAIN q, k < Len(q) PROVE k + 1 \in 1 .. n /\ <<q[k], q[k + 1]>> \in R
  <2>1. k \in 1 .. n /\ k + 1 \in 1 .. n
    BY <1>1, <1>6, <1>8
  <2>2. P(q[k]) = k - 1 /\ P(q[k + 1]) = (k + 1) - 1 /\ q[k] \in S /\ q[k + 1] \in S
    BY <1>5, <2>1
  <2>3. P(q[k]) < P(q[k + 1])
    BY <2>1, <2>2
  <2>4. QED
    BY <1>3, <2>1, <2>2, <2>3
<1>9. ASSUME NEW k \in DOMAIN q, NEW x \in S, <<q[k], x>> \in R
      PROVE  k < Len(q) /\ (x = q[k + 1] \/ <<q[k + 1], x>> \in R)
  <2>1. k \in 1 .. n /\ q[k] \in S /\ P(q[k]) = k - 1
    BY <1>5, <1>6
  <2>2. k - 1 < P(x) /\ P(x) \in 0 .. n - 1
    BY <1>3, <1>9, <2>1
  <2>3. k < n /\ k + 1 \in 1 .. n
    BY <1>1, <2>1, <2>2
  <2>4. q[k + 1] \in S /\ P(q[k + 1]) = (k + 1) - 1
    BY <1>5, <2>3
  <2>5. P(q[k + 1]) = P(x) \/ P(q[k + 1]) < P(x)
    BY <2>1, <2>2, <2>4
  <2>6. QED
    BY <1>3, <1>4, <1>6, <2>3, <2>4, <2>5
<1>10. QED
  BY <1>6, <1>7, <1>8, <1>9 DEF n, q

-----------------------------------------------------------------------------
(* Numbers *)

\* What a function makes of a finite set is finite.
LEMMA FiniteImage ==
  ASSUME NEW S, IsFiniteSet(S), NEW g, DOMAIN g = S
  PROVE  IsFiniteSet({g[x] : x \in S})
<1> DEFINE T == {g[x] : x \in S}
           h == [x \in S |-> g[x]]
<1>1. h \in Surjection(S, T)
  BY DEF Surjection
<1> HIDE DEF T, h
<1>2. IsFiniteSet(T)
  BY <1>1, FS_Surjection
<1>3. QED
  BY <1>2 DEF T

\* Max of a few integers with a natural among them.
LEMMA GreatestOf ==
  ASSUME NEW S, IsFiniteSet(S), S \subseteq Int, 0 \in S
  PROVE  Max(S) \in Nat /\ Max(S) \in S /\ \A y \in S : y <= Max(S)
<1> DEFINE T == S \cap Nat
<1>1. IsFiniteSet(T) /\ T \subseteq Nat /\ T # {}
  <2>1. T \subseteq S
    OBVIOUS
  <2>2. IsFiniteSet(T)
    BY <2>1, FS_Subset
  <2>3. QED
    BY <2>2
<1>2. Max(T) \in T /\ \A y \in T : y <= Max(T)
  <2> HIDE DEF T
  <2>1. QED
    BY <1>1, GreatestNatural
<1>3. \E m \in S : \A y \in S : m >= y
  <2>1. PICK m : m = Max(T)
    BY Zenon
  <2>2. m \in S /\ m \in Nat /\ \A y \in T : y <= m
    BY <1>2, <2>1
  <2>3. \A y \in S : m >= y
    BY <2>2
  <2>4. QED
    BY <2>2, <2>3
<1>4. Max(S) \in S /\ \A y \in S : Max(S) >= y
  BY <1>3 DEF Max
<1>5. PICK m : m = Max(S)
  BY Zenon
<1>6. m \in S /\ \A y \in S : m >= y
  BY <1>4, <1>5
<1>7. m \in Nat
  BY <1>6
<1>8. \A y \in S : y <= m
  BY <1>6, <1>7
<1>9. QED
  BY <1>5, <1>6, <1>7, <1>8

\* saturating_sub, of integers.
LEMMA MinusIs ==
  ASSUME NEW a \in Int, NEW b \in Int
  PROVE  Minus(a, b) = IF a >= b THEN a - b ELSE 0
<1> DEFINE S == {0, a - b}
<1>1. IsFiniteSet(S)
  <2>1. IsFiniteSet({0})
    BY FS_Singleton
  <2>2. S = {0} \cup {a - b}
    OBVIOUS
  <2>3. QED
    BY <2>1, <2>2, FS_AddElement
<1>2. Max(S) \in Nat /\ Max(S) \in S /\ \A y \in S : y <= Max(S)
  <2>1. S \subseteq Int /\ 0 \in S
    OBVIOUS
  <2> HIDE DEF S
  <2>2. QED
    BY <1>1, <2>1, GreatestOf
<1>3. PICK m : m = Max(S)
  BY Zenon
<1>4. m \in Nat /\ (m = 0 \/ m = a - b) /\ 0 <= m /\ a - b <= m
  BY <1>2, <1>3
<1>5. m = IF a >= b THEN a - b ELSE 0
  BY <1>4
<1>6. Minus(a, b) = m
  BY <1>3 DEF Minus
<1>7. QED
  BY <1>5, <1>6

-----------------------------------------------------------------------------
(* Archives *)

\* The inputs of an archive.
LEMMA FilesAre ==
  ASSUME archive \in Archives
  PROVE  /\ Len(archive.inputs) \in Nat /\ Files = 1 .. Len(archive.inputs)
         /\ \A f \in Files : /\ archive.inputs[f] \in Seq(0 .. 255) /\ Length(f) \in Nat
                             /\ \A i \in 0 .. Length(f) - 1 : Byte(f, i) \in 0 .. 255
         /\ MinCommon \in Nat \ {0} /\ Span \in Nat
<1> DEFINE T == Seq(0 .. 255)
<1>1. archive.inputs \in Seq(T)
  BY ArchivesAssumption
<1> HIDE DEF T
<1>2. Len(archive.inputs) \in Nat /\ Files = 1 .. Len(archive.inputs)
  BY <1>1, LenProperties DEF Files
<1>3. \A f \in Files : archive.inputs[f] \in T
  BY <1>1, <1>2, ElementOfSeq
<1>4. \A f \in Files : archive.inputs[f] \in Seq(0 .. 255) /\ Length(f) \in Nat
  BY <1>3, LenProperties DEF T, Length
<1>5. ASSUME NEW f \in Files, NEW i \in 0 .. Length(f) - 1 PROVE Byte(f, i) \in 0 .. 255
  <2>1. i + 1 \in 1 .. Len(archive.inputs[f])
    BY <1>4 DEF Length
  <2>2. QED
    BY <1>4, <2>1, ElementOfSeq DEF Byte
<1>6. MinCommon \in Nat \ {0}
  BY SettingsAssumption DEF MinCommon
<1>7. Span \in Nat
  <2> DEFINE S == {Length(f) - MinCommon : f \in Files}
             U == {0} \cup S
  <2>1. IsFiniteSet(Files)
    BY <1>2, FS_Interval
  <2>2. IsFiniteSet(S)
    <3> DEFINE g == [f \in Files |-> Length(f) - MinCommon]
    <3>1. S = {g[f] : f \in Files} /\ DOMAIN g = Files
      OBVIOUS
    <3> HIDE DEF g
    <3>2. IsFiniteSet({g[f] : f \in Files})
      BY <2>1, <3>1, FiniteImage
    <3>3. QED
      BY <3>1, <3>2
  <2>3. IsFiniteSet(U)
    <3> HIDE DEF S
    <3>1. {0} \cup S = S \cup {0}
      OBVIOUS
    <3>2. QED
      BY <2>2, <3>1, FS_AddElement
  <2>4. U \subseteq Int /\ 0 \in U
    BY <1>4, <1>6
  <2>5. Span = Max(U)
    BY DEF Span, GlobalSpan, Files, Length
  <2> HIDE DEF U
  <2>6. QED
    BY <2>3, <2>4, <2>5, GreatestOf
<1>8. QED
  BY <1>2, <1>4, <1>5, <1>6, <1>7

\* Bytes of an input.
LEMMA BytesAre ==
  ASSUME archive \in Archives, NEW f \in Files, NEW from \in Nat, NEW n \in Nat,
         from + n <= Length(f)
  PROVE  /\ Bytes(f, from, n) \in Seq(0 .. 255) /\ Len(Bytes(f, from, n)) = n
         /\ \A i \in 0 .. n - 1 : Bytes(f, from, n)[i + 1] = Byte(f, from + i)
<1> DEFINE B == 0 .. 255
           s == archive.inputs[f]
<1>1. s \in Seq(B) /\ Len(s) \in Nat /\ from + n <= Len(s)
  BY FilesAre DEF Length
<1> HIDE DEF B, s
<1>2. \A i \in from + 1 .. from + n : s[i] \in B
  <2>1. \A i \in from + 1 .. from + n : i \in 1 .. Len(s)
    BY <1>1
  <2>2. QED
    BY <1>1, <2>1, ElementOfSeq
<1>3. PICK t : t = SubSeq(s, from + 1, from + n)
  BY Zenon
<1>4. t \in Seq(B) /\ Len(t) = n /\ \A i \in 1 .. n : t[i] = s[from + i]
  <2>1. \A i \in 1 .. n : (from + 1) + i - 1 = from + i
    OBVIOUS
  <2>2. (from + n) - (from + 1) + 1 = n
        /\ (IF from + 1 <= from + n THEN (from + n) - (from + 1) + 1 ELSE 0) = n
    OBVIOUS
  <2>3. from + 1 \in 1 .. Len(s) + 1 /\ from + n \in from + 1 - 1 .. Len(s)
    BY <1>1
  <2>4. QED
    BY <1>1, <1>2, <1>3, <2>1, <2>2, <2>3, SubSeqProperties
<1>5. \A i \in 0 .. n - 1 : t[i + 1] = s[(from + i) + 1]
  <2> SUFFICES ASSUME NEW i \in 0 .. n - 1 PROVE t[i + 1] = s[(from + i) + 1]
    OBVIOUS
  <2>1. i + 1 \in 1 .. n /\ from + (i + 1) = (from + i) + 1
    OBVIOUS
  <2>2. QED
    BY <1>4, <2>1
<1>6. QED
  BY <1>3, <1>4, <1>5 DEF Bytes, Byte, s, B

-----------------------------------------------------------------------------
(* Selections *)

Selection == [file : Files, position : Nat, source : Files, from : Nat, length : Nat]

\* The bytes from p on in f are n bytes from q on in g.
SameAt(f, p, g, q, n) ==
  /\ p + n <= Length(f) /\ q + n <= Length(g)
  /\ \A i \in 0 .. n - 1 : Byte(f, p + i) = Byte(g, q + i)

\* Bytes that are the same, compared one by one.
LEMMA SameBytes ==
  ASSUME archive \in Archives, NEW f \in Files, NEW p \in Nat, NEW g \in Files, NEW q \in Nat,
         NEW n \in Nat, p + n <= Length(f), q + n <= Length(g), Bytes(f, p, n) = Bytes(g, q, n)
  PROVE  SameAt(f, p, g, q, n)
<1>1. \A i \in 0 .. n - 1 : Bytes(f, p, n)[i + 1] = Byte(f, p + i)
  BY BytesAre
<1>2. \A i \in 0 .. n - 1 : Bytes(g, q, n)[i + 1] = Byte(g, q + i)
  BY BytesAre
<1>3. QED
  BY <1>1, <1>2 DEF SameAt

\* A match that was compared is long enough or none; nothing matches at the position itself.
LEMMA ComparedIs ==
  ASSUME archive \in Archives, NEW f \in Files, NEW p \in Nat, p <= Length(f),
         NEW g \in Files, NEW q \in Nat, q <= Length(g)
  PROVE  LET n == ComparedLength(f, p, g, q)
         IN  /\ n \in Nat
             /\ n > 0 => n >= MinCommon /\ SameAt(f, p, g, q, n)
             /\ f = g /\ p = q => n = 0
<1> DEFINE U == {MaxCommon, Length(f) - p, Length(g) - q} \cup IF f = g THEN {Abs(p - q)} ELSE {}
           limit == Min(U)
           E == {n \in 0 .. limit : /\ Bytes(f, p, n) = Bytes(g, q, n)
                                    /\ \A i \in 0 .. n - 1 : q + i \notin Targets(g)}
           V == {0} \cup E
<1>1. /\ Length(f) \in Nat /\ Length(g) \in Nat /\ MinCommon \in Nat \ {0} /\ MaxCommon \in Nat
  BY FilesAre, ArchivesAssumption
<1>2. U \subseteq Nat /\ U # {}
  <2>1. Abs(p - q) \in Nat
    BY DEF Abs
  <2>2. QED
    BY <1>1, <2>1
<1>3. limit \in U /\ limit \in Nat /\ \A y \in U : limit <= y
  <2> HIDE DEF U
  <2>1. QED
    BY <1>2, LeastIs
<1>4. limit <= Length(f) - p /\ limit <= Length(g) - q
  <2>1. Length(f) - p \in U /\ Length(g) - q \in U
    OBVIOUS
  <2> HIDE DEF U
  <2>2. QED
    BY <1>3, <2>1
<1>5. f = g /\ p = q => limit = 0
  <2> SUFFICES ASSUME f = g, p = q PROVE limit = 0
    OBVIOUS
  <2>1. Abs(p - q) \in U /\ Abs(p - q) = 0
    BY DEF Abs
  <2> HIDE DEF U
  <2>2. limit <= 0
    BY <1>3, <2>1
  <2>3. QED
    BY <1>3, <2>2
<1>6. ComparedLength(f, p, g, q) = IF Max(V) < MinCommon THEN 0 ELSE Max(E)
  BY DEF ComparedLength
<1> HIDE DEF U, limit
<1>7. IsFiniteSet(E) /\ IsFiniteSet(V) /\ V \subseteq Nat /\ E \subseteq Nat
  <2>1. IsFiniteSet(0 .. limit)
    BY <1>3, FS_Interval
  <2>2. E \subseteq 0 .. limit /\ V \subseteq 0 .. limit
    BY <1>3
  <2>3. 0 .. limit \subseteq Nat
    BY <1>3
  <2> HIDE DEF E, V
  <2>4. QED
    BY <2>1, <2>2, <2>3, FS_Subset
<1>8. Max(V) \in V
  <2>1. V # {}
    OBVIOUS
  <2> HIDE DEF V, E
  <2>2. QED
    BY <1>7, <2>1, GreatestNatural
<1>9. CASE Max(V) < MinCommon
  BY <1>6, <1>9
<1>10. CASE ~(Max(V) < MinCommon)
  <2>1. Max(V) \in E
    <3> HIDE DEF E
    <3>1. Max(V) # 0
      BY <1>1, <1>10
    <3>2. QED
      BY <1>8, <3>1
  <2> DEFINE n == Max(E)
  <2> HIDE DEF n
  <2>2. n \in E /\ Max(V) <= n
    <3> HIDE DEF E
    <3>1. QED
      BY <1>7, <2>1, GreatestNatural DEF n
  <2>3. /\ n \in 0 .. limit /\ Bytes(f, p, n) = Bytes(g, q, n)
    BY <2>2
  <2>4. n \in Nat /\ n >= MinCommon /\ p + n <= Length(f) /\ q + n <= Length(g) /\ n <= limit
    <3>1. Max(V) \in Nat
      <4> HIDE DEF V, E
      <4>1. QED
        BY <1>7, <1>8
    <3> HIDE DEF V, E
    <3>2. QED
      BY <1>1, <1>3, <1>4, <1>10, <2>2, <2>3, <3>1
  <2>5. SameAt(f, p, g, q, n)
    BY <2>3, <2>4, SameBytes
  <2>6. ~(f = g /\ p = q)
    BY <1>1, <1>5, <2>4
  <2>7. ComparedLength(f, p, g, q) = n
    BY <1>6, <1>10 DEF n
  <2>8. QED
    BY <2>4, <2>5, <2>6, <2>7
<1>11. QED
  BY <1>9, <1>10

-----------------------------------------------------------------------------
(* The lengths of the candidates *)

\* The length at a candidate, given the one at the candidate one further on.
LengthFrom(f, p, g, q, above) ==
  IF above > 0 /\ \A i \in 2 .. above : Byte(g, q + i) = Byte(g, q + 1)
  THEN above + One(p + above < Length(f) /\ Byte(f, p + above) = Byte(f, p))
  ELSE ComparedLength(f, p, g, q)

Lengths(h, f, p, g, C) ==
  h = [q \in C |-> LengthFrom(f, p, g, q, IF q + 1 \in C THEN h[q + 1] ELSE 0)]

\* There are such lengths.
LEMMA LengthsExist ==
  ASSUME NEW f, NEW p, NEW g, NEW b \in Nat, NEW C, C \subseteq 0 .. b
  PROVE  \E h : Lengths(h, f, p, g, C)
<1> DEFINE D(n) == {q \in C : q + n > b}
           L(q, above) == LengthFrom(f, p, g, q, above)
           From(h, q) == IF q + 1 \in C THEN h[q + 1] ELSE 0
           G == {n \in Nat : \E h : /\ DOMAIN h = D(n)
                                    /\ \A q \in D(n) : h[q] = L(q, From(h, q))}
<1> HIDE DEF L
<1>0. \A q \in C : q \in Nat /\ q <= b
  OBVIOUS
<1>1. 0 \in G
  <2>1. D(0) = {}
    <3>1. \A q \in C : ~(q + 0 > b)
      BY <1>0
    <3>2. QED
      BY <3>1
  <2>2. DOMAIN [q \in D(0) |-> 0] = D(0)
    OBVIOUS
  <2>3. QED
    BY <2>1, <2>2
<1>2. ASSUME NEW n \in Nat, n \in G PROVE n + 1 \in G
  <2>1. PICK h : DOMAIN h = D(n) /\ \A q \in D(n) : h[q] = L(q, From(h, q))
    BY <1>2
  <2> DEFINE k == [q \in D(n + 1) |-> L(q, From(h, q))]
  <2>2. \A q \in D(n) : q \in D(n + 1) /\ k[q] = h[q]
    <3>1. \A q \in D(n) : q \in D(n + 1)
      OBVIOUS
    <3>2. \A q \in D(n + 1) : k[q] = L(q, From(h, q))
      OBVIOUS
    <3> HIDE DEF k, D
    <3>3. QED
      BY <2>1, <3>1, <3>2
  <2>3. \A q \in D(n + 1) : q + 1 \in C => q + 1 \in D(n)
    <3> HIDE DEF From, k
    <3>1. QED
      BY <1>0
  <2>4. \A q \in D(n + 1) : k[q] = L(q, From(k, q))
    <3> SUFFICES ASSUME NEW q \in D(n + 1) PROVE k[q] = L(q, From(k, q))
      OBVIOUS
    <3>1. k[q] = L(q, From(h, q))
      OBVIOUS
    <3>2. From(h, q) = From(k, q)
      <4> HIDE DEF k, D
      <4>1. q + 1 \in C => k[q + 1] = h[q + 1]
        BY <2>2, <2>3
      <4>2. QED
        BY <4>1
    <3> HIDE DEF k, From
    <3>3. QED
      BY <3>1, <3>2
  <2>5. DOMAIN k = D(n + 1)
    OBVIOUS
  <2> HIDE DEF k, D, From
  <2>6. QED
    BY <2>4, <2>5
<1> HIDE DEF G
<1>3. Nat \subseteq G
  BY <1>1, <1>2, NaturalSteps
<1>4. b + 1 \in Nat
  OBVIOUS
<1>5. PICK h : DOMAIN h = D(b + 1) /\ \A q \in D(b + 1) : h[q] = L(q, From(h, q))
  BY <1>3, <1>4 DEF G
<1>6. D(b + 1) = C
  <2>1. \A q \in C : q + (b + 1) > b
    BY <1>0
  <2>2. QED
    BY <2>1
<1> HIDE DEF D, From
<1>7. QED
  <2> DEFINE k == [q \in C |-> L(q, From(h, q))]
  <2>1. \A q \in C : k[q] = h[q]
    BY <1>5, <1>6
  <2>2. \A q \in C : From(k, q) = From(h, q)
    <3> HIDE DEF k
    <3>1. QED
      BY <2>1 DEF From
  <2>3. k = [q \in C |-> L(q, From(k, q))]
    <3>1. \A q \in C : L(q, From(k, q)) = L(q, From(h, q))
      BY <2>2
    <3> HIDE DEF L, From
    <3>2. QED
      BY <3>1
  <2> HIDE DEF k
  <2>4. QED
    BY <2>3 DEF Lengths, L, From

\* They are what MatchLengths gives.
LEMMA MatchLengthsAre ==
  ASSUME NEW f, NEW p, NEW g, NEW b \in Nat, Chained(f, p, g) \subseteq 0 .. b
  PROVE  Lengths(MatchLengths(f, p, g), f, p, g, Chained(f, p, g))
<1> DEFINE C == Chained(f, p, g)
           Solves(h) == Lengths(h, f, p, g, C)
<1>1. MatchLengths(f, p, g) = CHOOSE h : Solves(h)
  BY DEF MatchLengths, Lengths, LengthFrom
<1>2. \E h : Solves(h)
  BY LengthsExist
<1> HIDE DEF Solves
<1>3. Solves(CHOOSE h : Solves(h))
  BY <1>2
<1>4. QED
  BY <1>1, <1>3 DEF Solves

-----------------------------------------------------------------------------
(* What FindReference finds *)

\* A candidate whose length is taken over from the one further on.
LEMMA TakenOver ==
  ASSUME archive \in Archives, NEW f \in Files, NEW p \in Nat, p + MinCommon <= Length(f),
         NEW g \in Files, NEW q \in Nat, SameAt(f, p, g, q, MinCommon),
         NEW n \in Nat, n > 0, n >= MinCommon, SameAt(f, p, g, q + 1, n),
         \A i \in 2 .. n : Byte(g, q + i) = Byte(g, q + 1)
  PROVE  LET m == n + One(p + n < Length(f) /\ Byte(f, p + n) = Byte(f, p))
         IN  m \in Nat /\ m >= MinCommon /\ SameAt(f, p, g, q, m)
<1>1. PICK longer : longer = (p + n < Length(f) /\ Byte(f, p + n) = Byte(f, p))
  BY Zenon
<1>2. PICK m : m = n + One(longer)
  BY Zenon
<1>3. /\ Length(f) \in Nat /\ Length(g) \in Nat /\ MinCommon \in Nat \ {0}
  BY FilesAre
<1>4. PICK c : c = Byte(f, p)
  BY Zenon
<1>5. Byte(g, q) = c /\ Byte(g, q + 1) = c
  <2>1. 0 \in 0 .. MinCommon - 1 /\ 0 \in 0 .. n - 1 /\ p + 0 = p /\ q + 0 = q /\ (q + 1) + 0 = q + 1
    BY <1>3
  <2>2. Byte(f, p + 0) = Byte(g, q + 0) /\ Byte(f, p + 0) = Byte(g, (q + 1) + 0)
    BY <2>1 DEF SameAt
  <2>3. QED
    BY <1>4, <2>1, <2>2
<1>6. \A i \in 0 .. n : Byte(g, q + i) = c
  <2> SUFFICES ASSUME NEW i \in 0 .. n PROVE Byte(g, q + i) = c
    OBVIOUS
  <2>1. CASE i = 0
    BY <1>5, <2>1
  <2>2. CASE i = 1
    BY <1>5, <2>2
  <2>3. CASE i \notin {0, 1}
    <3>1. i \in 2 .. n
      BY <2>3
    <3>2. QED
      BY <1>5, <3>1
  <2>4. QED
    BY <2>1, <2>2, <2>3
<1>7. \A i \in 0 .. n - 1 : Byte(f, p + i) = c
  <2> SUFFICES ASSUME NEW i \in 0 .. n - 1 PROVE Byte(f, p + i) = c
    OBVIOUS
  <2>1. Byte(f, p + i) = Byte(g, (q + 1) + i)
    BY DEF SameAt
  <2>2. (q + 1) + i = q + (i + 1) /\ i + 1 \in 0 .. n
    OBVIOUS
  <2>3. QED
    BY <1>6, <2>1, <2>2
<1>8. p + n <= Length(f) /\ (q + 1) + n <= Length(g)
  BY DEF SameAt
<1>9. CASE longer
  <2>1. m = n + 1
    BY <1>2, <1>9 DEF One
  <2>2. p + n < Length(f) /\ Byte(f, p + n) = c
    BY <1>1, <1>4, <1>9
  <2>3. \A i \in 0 .. m - 1 : Byte(f, p + i) = Byte(g, q + i)
    <3> SUFFICES ASSUME NEW i \in 0 .. m - 1 PROVE Byte(f, p + i) = Byte(g, q + i)
      OBVIOUS
    <3>1. i \in 0 .. n /\ (i = n \/ i \in 0 .. n - 1)
      BY <2>1
    <3>2. QED
      BY <1>6, <1>7, <2>2, <3>1
  <2>4. m \in Nat /\ m >= MinCommon /\ p + m <= Length(f) /\ q + m <= Length(g)
    BY <1>3, <1>8, <2>1, <2>2
  <2>5. SameAt(f, p, g, q, m)
    BY <2>3, <2>4 DEF SameAt
  <2>6. QED
    BY <1>1, <1>2, <2>4, <2>5
<1>10. CASE ~longer
  <2>1. m = n
    BY <1>2, <1>10 DEF One
  <2>2. \A i \in 0 .. m - 1 : Byte(f, p + i) = Byte(g, q + i)
    <3> SUFFICES ASSUME NEW i \in 0 .. m - 1 PROVE Byte(f, p + i) = Byte(g, q + i)
      OBVIOUS
    <3>1. i \in 0 .. n /\ i \in 0 .. n - 1
      BY <2>1
    <3>2. QED
      BY <1>6, <1>7, <3>1
  <2>3. p + m <= Length(f) /\ q + m <= Length(g) /\ m \in Nat /\ m >= MinCommon
    BY <1>3, <1>8, <2>1
  <2>4. SameAt(f, p, g, q, m)
    BY <2>2, <2>3 DEF SameAt
  <2>5. QED
    BY <1>1, <1>2, <2>3, <2>4
<1>11. QED
  <2>1. longer \in BOOLEAN
    BY <1>1
  <2>2. QED
    BY <1>9, <1>10, <2>1

\* What the candidates are.
LEMMA ChainedIs ==
  ASSUME NEW f, NEW p, NEW g, scans[g].cursor \in Nat, MinCommon \in Nat \ {0},
         NEW q \in Chained(f, p, g)
  PROVE  /\ q \in Nat /\ q <= scans[g].cursor /\ q + MinCommon <= Length(g) /\ q \notin Targets(g)
         /\ q <= scans[g].cursor - MinCommon
         /\ Bytes(g, q, MinCommon) = Bytes(f, p, MinCommon)
BY DEF Chained, Chain

\* A candidate with a length repeats the bytes there; none does at the position itself.
LEMMA LengthsAre ==
  ASSUME archive \in Archives, NEW f \in Files, NEW p \in Nat, p + MinCommon <= Length(f),
         NEW g \in Files, scans[g].cursor \in Nat,
         f = g => scans[g].cursor - MinCommon <= p,
         NEW q \in DOMAIN MatchLengths(f, p, g)
  PROVE  LET n == MatchLengths(f, p, g)[q]
         IN  /\ q \in Chained(f, p, g) /\ n \in Nat
             /\ n > 0 => n >= MinCommon /\ SameAt(f, p, g, q, n) /\ (f = g => p # q)
<1> DEFINE C == Chained(f, p, g)
           h == MatchLengths(f, p, g)
           Good(r, n) == /\ n \in Nat
                         /\ n > 0 => n >= MinCommon /\ SameAt(f, p, g, r, n) /\ (f = g => p # r)
<1>1. PICK b : b = scans[g].cursor
  BY Zenon
<1>2. /\ Length(f) \in Nat /\ Length(g) \in Nat /\ MinCommon \in Nat \ {0}
  BY FilesAre
<1>3. \A r \in C : /\ r \in Nat /\ r <= b /\ r + MinCommon <= Length(g)
                   /\ r <= b - MinCommon
                   /\ Bytes(g, r, MinCommon) = Bytes(f, p, MinCommon)
  BY <1>1, <1>2, ChainedIs
<1>4. b \in Nat
  BY <1>1
<1> HIDE DEF C
<1>5. C \subseteq 0 .. b
  BY <1>3, <1>4
<1>6. DOMAIN h = C /\ \A r \in C : h[r] = LengthFrom(f, p, g, r, IF r + 1 \in C THEN h[r + 1] ELSE 0)
  <2>1. Lengths(h, f, p, g, C)
    BY <1>4, <1>5, MatchLengthsAre DEF C
  <2> HIDE DEF h
  <2>2. QED
    BY <2>1 DEF Lengths
<1> HIDE DEF h
<1> DEFINE G == {n \in Nat : \A r \in C : r + n > b => Good(r, h[r])}
<1>7. 0 \in G
  <2> HIDE DEF Good
  <2>1. \A r \in C : ~(r + 0 > b)
    BY <1>3, <1>4
  <2>2. QED
    BY <2>1
<1>8. ASSUME NEW k \in Nat, k \in G PROVE k + 1 \in G
  <2> SUFFICES ASSUME NEW r \in C, r + (k + 1) > b PROVE Good(r, h[r])
    OBVIOUS
  <2>1. PICK above : above = IF r + 1 \in C THEN h[r + 1] ELSE 0
    BY Zenon
  <2>2. h[r] = LengthFrom(f, p, g, r, above)
    BY <1>6, <2>1
  <2>3. /\ r \in Nat /\ r <= b /\ r + MinCommon <= Length(g)
        /\ Bytes(g, r, MinCommon) = Bytes(f, p, MinCommon) /\ r <= b - MinCommon
    BY <1>3
  <2>4. r + 1 \in C => Good(r + 1, above)
    <3> SUFFICES ASSUME r + 1 \in C PROVE Good(r + 1, above)
      OBVIOUS
    <3>1. (r + 1) + k > b
      BY <1>4, <2>3
    <3>2. Good(r + 1, h[r + 1])
      BY <1>8, <3>1
    <3>3. above = h[r + 1]
      BY <2>1
    <3> HIDE DEF Good
    <3>4. QED
      BY <3>2, <3>3
  <2>5. above \in Nat /\ (above > 0 => r + 1 \in C)
    BY <2>1, <2>4
  <2>6. CASE above > 0 /\ \A i \in 2 .. above : Byte(g, r + i) = Byte(g, r + 1)
    <3>1. r + 1 \in C /\ above >= MinCommon /\ SameAt(f, p, g, r + 1, above)
      BY <2>4, <2>5, <2>6
    <3>2. f = g => p # r
      <4> SUFFICES ASSUME f = g PROVE p # r
        OBVIOUS
      <4>1. r + 1 <= b - MinCommon /\ b - MinCommon <= p
        BY <1>1, <1>3, <3>1
      <4>2. QED
        BY <1>2, <1>4, <2>3, <4>1
    <3>3. SameAt(f, p, g, r, MinCommon)
      BY <1>2, <2>3, SameBytes
    <3>4. PICK m : m = above + One(p + above < Length(f) /\ Byte(f, p + above) = Byte(f, p))
      BY Zenon
    <3>5. h[r] = m
      BY <2>2, <2>6, <3>4 DEF LengthFrom
    <3>6. m \in Nat /\ m >= MinCommon /\ SameAt(f, p, g, r, m)
      BY <2>3, <2>5, <2>6, <3>1, <3>3, <3>4, TakenOver
    <3>7. QED
      BY <3>2, <3>5, <3>6
  <2>7. CASE ~(above > 0 /\ \A i \in 2 .. above : Byte(g, r + i) = Byte(g, r + 1))
    <3>1. PICK m : m = ComparedLength(f, p, g, r)
      BY Zenon
    <3>2. h[r] = m
      BY <2>2, <2>7, <3>1 DEF LengthFrom
    <3>3. p <= Length(f) /\ r <= Length(g)
      BY <1>2, <2>3
    <3>4. m \in Nat /\ (m > 0 => m >= MinCommon /\ SameAt(f, p, g, r, m)) /\ (f = g /\ p = r => m = 0)
      BY <2>3, <3>1, <3>3, ComparedIs
    <3>5. QED
      BY <3>2, <3>4
  <2>8. QED
    BY <2>6, <2>7
<1> HIDE DEF G
<1>9. Nat \subseteq G
  BY <1>7, <1>8, NaturalSteps
<1>10. q \in C
  BY <1>6 DEF h
<1>11. Good(q, h[q])
  <2>1. b + 1 \in Nat /\ q + (b + 1) > b
    BY <1>3, <1>4, <1>10
  <2> HIDE DEF Good
  <2>2. QED
    BY <1>9, <1>10, <2>1 DEF G
<1>12. QED
  BY <1>10, <1>11 DEF C, h

-----------------------------------------------------------------------------
(* Walkers and their chains *)

\* How far position and cursor have come after k rounds, and what is left over.
Pace(f, s, k) ==
  IF Length(f) >= MinCommon
  THEN /\ s.positionError = (2 * Length(f) - Span)
                              + 2 * (k * (Length(f) - MinCommon) - Span * s.position)
       /\ s.insertError = (2 * (Length(f) - MinCommon + 1) - Span)
                            + 2 * (k * (Length(f) - MinCommon + 1) - Span * (s.cursor - MinCommon + 1))
  ELSE s.cursor = MinCommon - 1 /\ s.insertError = -Span

\* No chain is ahead of its walker.
Walker(f, s, k) ==
  /\ s = [position |-> s.position, positionError |-> s.positionError, cursor |-> s.cursor,
          insertError |-> s.insertError, skip |-> s.skip, active |-> s.active]
  /\ s.position \in Nat /\ s.cursor \in Nat /\ s.positionError \in Int /\ s.insertError \in Int
  /\ s.cursor - MinCommon <= s.position
  /\ Pace(f, s, k)

\* One round more, for an input with a positions to look at.
LEMMA PaceStep ==
  ASSUME NEW a \in Nat, NEW m \in Nat \ {0}, NEW l, l = a + m, NEW s \in Nat, NEW k \in Nat, k < s,
         NEW p \in Nat, NEW c \in Int, c <= p + 1,
         NEW e, e = (2 * l - s) + 2 * (k * a - s * p),
         NEW i, i = (2 * (a + 1) - s) + 2 * (k * (a + 1) - s * c),
         NEW q, q = IF e >= 0 THEN 1 ELSE 0, NEW d, d = IF i >= 0 THEN 1 ELSE 0
  PROVE  /\ c + d <= (p + q) + 1
         /\ e + 2 * (a - q * s) = (2 * l - s) + 2 * ((k + 1) * a - s * (p + q))
         /\ i + 2 * ((a + 1) - d * s) = (2 * (a + 1) - s) + 2 * ((k + 1) * (a + 1) - s * (c + d))
<1>1. q = IF e >= 0 THEN 1 ELSE 0
  OBVIOUS
<1>2. d = IF i >= 0 THEN 1 ELSE 0
  OBVIOUS
<1>3. PICK ka : ka = k * a
  BY Zenon
<1>4. PICK sp : sp = s * p
  BY Zenon
<1>5. PICK sc : sc = s * c
  BY Zenon
<1>6. ka \in Int /\ sp \in Int /\ sc \in Int
  BY <1>3, <1>4, <1>5
<1>7. /\ k * (a + 1) = ka + k /\ (k + 1) * a = ka + a /\ (k + 1) * (a + 1) = ka + k + a + 1
  BY <1>3
<1>8. s * (p + 1) = sp + s /\ s * (c + 1) = sc + s
  BY <1>4, <1>5
<1>9. e = (2 * l - s) + 2 * (ka - sp) /\ i = (2 * (a + 1) - s) + 2 * ((ka + k) - sc)
  BY <1>3, <1>4, <1>5, <1>7
<1>10. e \in Int /\ i \in Int /\ l \in Int
  BY <1>6, <1>9
<1>11. e + 2 * (a - q * s) = (2 * l - s) + 2 * ((k + 1) * a - s * (p + q))
  <2>1. CASE e >= 0
    <3>1. q = 1 /\ q * s = s /\ s * (p + q) = sp + s
      BY <1>1, <1>8, <2>1
    <3>2. QED
      BY <1>6, <1>7, <1>9, <1>10, <3>1
  <2>2. CASE ~(e >= 0)
    <3>1. q = 0 /\ q * s = 0 /\ s * (p + q) = sp
      BY <1>1, <1>4, <2>2
    <3>2. QED
      BY <1>6, <1>7, <1>9, <1>10, <3>1
  <2>3. QED
    BY <2>1, <2>2
<1>12. i + 2 * ((a + 1) - d * s) = (2 * (a + 1) - s) + 2 * ((k + 1) * (a + 1) - s * (c + d))
  <2>1. CASE i >= 0
    <3>1. d = 1 /\ d * s = s /\ s * (c + d) = sc + s
      BY <1>2, <1>8, <2>1
    <3>2. QED
      BY <1>6, <1>7, <1>9, <1>10, <3>1
  <2>2. CASE ~(i >= 0)
    <3>1. d = 0 /\ d * s = 0 /\ s * (c + d) = sc
      BY <1>2, <1>5, <2>2
    <3>2. QED
      BY <1>6, <1>7, <1>9, <1>10, <3>1
  <2>3. QED
    BY <2>1, <2>2
<1>13. c + d <= (p + q) + 1
  <2>1. CASE c <= p
    BY <1>1, <1>2, <2>1
  <2>2. CASE c = p + 1
    <3>1. sc = sp + s
      BY <1>5, <1>8, <2>2
    <3>2. i - e = (2 - 2 * m) + 2 * (k - s)
      BY <1>6, <1>9, <3>1
    <3>3. i < e
      BY <1>10, <3>2
    <3>4. i >= 0 => e >= 0
      BY <1>10, <3>3
    <3>5. QED
      BY <1>1, <1>2, <2>2, <3>4
  <2>3. QED
    BY <2>1, <2>2
<1>14. QED
  BY <1>11, <1>12, <1>13

\* A walker at the start.
LEMMA NewWalker ==
  ASSUME archive \in Archives, NEW f \in Files
  PROVE  Walker(f, NewScan(archive, f), 0)
<1> DEFINE s == NewScan(archive, f)
<1>1. /\ Length(f) \in Nat /\ MinCommon \in Nat \ {0} /\ Span \in Nat
  BY FilesAre
<1>2. PICK w : w = Minus(Length(f), MinCommon - 1)
  BY Zenon
<1>3. w = IF Length(f) >= MinCommon - 1 THEN Length(f) - (MinCommon - 1) ELSE 0
  BY <1>1, <1>2, MinusIs
<1>4. s = [position |-> 0, positionError |-> 2 * Length(f) - Span, cursor |-> MinCommon - 1,
           insertError |-> 2 * w - Span, skip |-> 0, active |-> TRUE]
  BY <1>2 DEF NewScan, Length, Span
<1> HIDE DEF s
<1>5. /\ s.position = 0 /\ s.positionError = 2 * Length(f) - Span /\ s.cursor = MinCommon - 1
      /\ s.insertError = 2 * w - Span /\ s.skip = 0 /\ s.active = TRUE
  BY <1>4
<1>6. s = [position |-> s.position, positionError |-> s.positionError, cursor |-> s.cursor,
           insertError |-> s.insertError, skip |-> s.skip, active |-> s.active]
  BY <1>4, <1>5
<1>7. /\ s.position \in Nat /\ s.cursor \in Nat /\ s.positionError \in Int /\ s.insertError \in Int
      /\ s.cursor - MinCommon <= s.position
  BY <1>1, <1>3, <1>5
<1>8. Pace(f, s, 0)
  <2>1. CASE Length(f) >= MinCommon
    <3>1. w = Length(f) - MinCommon + 1
      BY <1>1, <1>3, <2>1
    <3>2. s.cursor - MinCommon + 1 = 0
      BY <1>1, <1>5
    <3>3. Span * s.position = 0 /\ Span * (s.cursor - MinCommon + 1) = 0
      BY <1>1, <1>5, <3>2
    <3>4. 0 * (Length(f) - MinCommon) = 0 /\ 0 * (Length(f) - MinCommon + 1) = 0
      BY <1>1
    <3>5. s.positionError = (2 * Length(f) - Span) + 2 * (0 * (Length(f) - MinCommon) - Span * s.position)
      BY <1>1, <1>5, <3>3, <3>4
    <3>6. s.insertError = (2 * (Length(f) - MinCommon + 1) - Span)
                            + 2 * (0 * (Length(f) - MinCommon + 1) - Span * (s.cursor - MinCommon + 1))
      BY <1>1, <1>5, <3>1, <3>3, <3>4
    <3>7. QED
      BY <2>1, <3>5, <3>6 DEF Pace
  <2>2. CASE ~(Length(f) >= MinCommon)
    <3>1. w = 0
      BY <1>1, <1>3, <2>2
    <3>2. QED
      BY <1>1, <1>5, <2>2, <3>1 DEF Pace
  <2>3. QED
    BY <2>1, <2>2
<1>9. QED
  BY <1>6, <1>7, <1>8 DEF Walker, s

\* A walker a round later is not behind where it was.
LEMMA WalkerAdvances ==
  ASSUME archive \in Archives, NEW f \in Files, NEW k \in Nat, k < Span, Walker(f, scans[f], k)
  PROVE  Walker(f, Advanced(f), k + 1) /\ scans[f].position <= Advanced(f).position
<1> DEFINE t == Advanced(f)
<1>1. PICK s : s = scans[f]
  BY Zenon
<1>2. /\ Length(f) \in Nat /\ MinCommon \in Nat \ {0} /\ Span \in Nat
  BY FilesAre
<1>3. /\ s.position \in Nat /\ s.cursor \in Nat /\ s.positionError \in Int /\ s.insertError \in Int
      /\ s.cursor - MinCommon <= s.position /\ Pace(f, s, k)
  BY <1>1 DEF Walker
<1>4. PICK q : q = One(s.positionError >= 0)
  BY Zenon
<1>5. PICK d : d = One(s.insertError >= 0)
  BY Zenon
<1>6. q = (IF s.positionError >= 0 THEN 1 ELSE 0) /\ d = IF s.insertError >= 0 THEN 1 ELSE 0
  BY <1>4, <1>5 DEF One
<1>7. PICK a : a = Minus(Length(f), MinCommon)
  BY Zenon
<1>8. PICK w : w = Minus(Length(f), MinCommon - 1)
  BY Zenon
<1>9. /\ a = IF Length(f) >= MinCommon THEN Length(f) - MinCommon ELSE 0
      /\ w = IF Length(f) >= MinCommon - 1 THEN Length(f) - (MinCommon - 1) ELSE 0
  <2>1. MinCommon - 1 \in Int
    BY <1>2
  <2>2. QED
    BY <1>2, <1>7, <1>8, <2>1, MinusIs
<1>10. /\ t.position = s.position + q /\ t.positionError = s.positionError + 2 * (a - q * Span)
       /\ t.cursor = s.cursor + d /\ t.insertError = s.insertError + 2 * (w - d * Span)
       /\ t = [position |-> t.position, positionError |-> t.positionError, cursor |-> t.cursor,
               insertError |-> t.insertError, skip |-> t.skip, active |-> t.active]
  BY <1>1, <1>4, <1>5, <1>7, <1>8 DEF Advanced
<1> HIDE DEF t
<1>11. q \in 0 .. 1 /\ d \in 0 .. 1 /\ a \in Nat /\ w \in Nat
  BY <1>2, <1>6, <1>9
<1>12. q * Span \in Int /\ d * Span \in Int
  BY <1>2, <1>11
<1>13. /\ t.position \in Nat /\ t.cursor \in Nat /\ t.positionError \in Int /\ t.insertError \in Int
       /\ s.position <= t.position
  BY <1>3, <1>10, <1>11, <1>12
<1>14. t.cursor - MinCommon <= t.position /\ Pace(f, t, k + 1)
  <2>1. CASE Length(f) >= MinCommon
    <3>1. a = Length(f) - MinCommon /\ w = a + 1 /\ Length(f) = a + MinCommon
      BY <1>2, <1>9, <2>1
    <3>2. PICK c : c = s.cursor - MinCommon + 1
      BY Zenon
    <3>3. c \in Int /\ c <= s.position + 1
      BY <1>2, <1>3, <3>2
    <3>4. /\ s.positionError = (2 * Length(f) - Span) + 2 * (k * a - Span * s.position)
          /\ s.insertError = (2 * (a + 1) - Span) + 2 * (k * (a + 1) - Span * c)
      BY <1>3, <2>1, <3>1, <3>2 DEF Pace
    <3>5. /\ c + d <= (s.position + q) + 1
          /\ s.positionError + 2 * (a - q * Span)
               = (2 * Length(f) - Span) + 2 * ((k + 1) * a - Span * (s.position + q))
          /\ s.insertError + 2 * ((a + 1) - d * Span)
               = (2 * (a + 1) - Span) + 2 * ((k + 1) * (a + 1) - Span * (c + d))
      <4>1. PICK e : e = s.positionError
        BY Zenon
      <4>2. PICK i : i = s.insertError
        BY Zenon
      <4>3. PICK p : p = s.position
        BY Zenon
      <4>4. PICK l : l = Length(f)
        BY Zenon
      <4>5. PICK m : m = MinCommon
        BY Zenon
      <4>6. PICK n : n = Span
        BY Zenon
      <4>7. /\ a \in Nat /\ m \in Nat \ {0} /\ l = a + m /\ n \in Nat /\ k \in Nat /\ k < n /\ p \in Nat
            /\ c \in Int /\ c <= p + 1
        BY <1>2, <1>3, <1>11, <3>1, <3>3, <4>3, <4>4, <4>5, <4>6
      <4>8. /\ e = (2 * l - n) + 2 * (k * a - n * p)
            /\ i = (2 * (a + 1) - n) + 2 * (k * (a + 1) - n * c)
        BY <3>4, <4>1, <4>2, <4>3, <4>4, <4>6, Zenon
      <4>9. q = (IF e >= 0 THEN 1 ELSE 0) /\ d = IF i >= 0 THEN 1 ELSE 0
        BY <1>6, <4>1, <4>2, Zenon
      <4>10. /\ c + d <= (p + q) + 1
             /\ e + 2 * (a - q * n) = (2 * l - n) + 2 * ((k + 1) * a - n * (p + q))
             /\ i + 2 * ((a + 1) - d * n) = (2 * (a + 1) - n) + 2 * ((k + 1) * (a + 1) - n * (c + d))
        BY <4>7, <4>8, <4>9, PaceStep
      <4>11. QED
        BY <4>1, <4>2, <4>3, <4>4, <4>6, <4>10, Zenon
    <3>6. t.cursor - MinCommon + 1 = c + d
      BY <1>2, <1>3, <1>10, <1>11, <3>2
    <3>7. t.cursor - MinCommon <= t.position
      BY <1>2, <1>10, <1>13, <3>5, <3>6
    <3>8. t.positionError = (2 * Length(f) - Span)
            + 2 * ((k + 1) * (Length(f) - MinCommon) - Span * t.position)
      BY <1>10, <3>1, <3>5
    <3>9. t.insertError = (2 * (Length(f) - MinCommon + 1) - Span)
            + 2 * ((k + 1) * (Length(f) - MinCommon + 1) - Span * (t.cursor - MinCommon + 1))
      BY <1>10, <3>1, <3>5, <3>6
    <3>10. QED
      BY <2>1, <3>7, <3>8, <3>9 DEF Pace
  <2>2. CASE ~(Length(f) >= MinCommon)
    <3>1. s.cursor = MinCommon - 1 /\ s.insertError = -Span
      BY <1>3, <2>2 DEF Pace
    <3>2. d = 0 /\ w = 0
      BY <1>2, <1>6, <1>9, <2>2, <3>1
    <3>3. t.cursor = MinCommon - 1 /\ t.insertError = -Span
      BY <1>2, <1>10, <3>1, <3>2
    <3>4. QED
      BY <1>2, <1>13, <2>2, <3>3 DEF Pace
  <2>3. QED
    BY <2>1, <2>2
<1>15. QED
  BY <1>1, <1>10, <1>13, <1>14 DEF Walker, t

\* What is skipped does not matter to a walker.
LEMMA WalkerSkips ==
  ASSUME NEW f, NEW s, NEW k, Walker(f, s, k), NEW n
  PROVE  /\ Walker(f, [s EXCEPT !.skip = n], k)
         /\ [s EXCEPT !.skip = n].position = s.position
         /\ [s EXCEPT !.skip = n].cursor = s.cursor
<1> DEFINE t == [s EXCEPT !.skip = n]
<1>1. s = [position |-> s.position, positionError |-> s.positionError, cursor |-> s.cursor,
           insertError |-> s.insertError, skip |-> s.skip, active |-> s.active]
  BY DEF Walker
<1>2. t = [position |-> s.position, positionError |-> s.positionError, cursor |-> s.cursor,
           insertError |-> s.insertError, skip |-> n, active |-> s.active]
  BY <1>1
<1> HIDE DEF t
<1>3. /\ t.position = s.position /\ t.positionError = s.positionError /\ t.cursor = s.cursor
      /\ t.insertError = s.insertError /\ t.skip = n /\ t.active = s.active
  BY <1>2
<1>4. t = [position |-> t.position, positionError |-> t.positionError, cursor |-> t.cursor,
           insertError |-> t.insertError, skip |-> t.skip, active |-> t.active]
  BY <1>2, <1>3
<1>5. Pace(f, t, k)
  BY <1>3 DEF Walker, Pace
<1>6. QED
  BY <1>3, <1>4, <1>5 DEF Walker, t

-----------------------------------------------------------------------------
(* The selections are sound *)

Apart(s, t) ==
  s = t \/ s.position + s.length <= t.position \/ t.position + t.length <= s.position

\* Selections have the bytes of their sources; no target begins where a source of the same
\* input does, and targets do not meet.
Selects(S) ==
  /\ S \subseteq Selection /\ IsFiniteSet(S)
  /\ \A s \in S : s.length >= MinCommon /\ SameAt(s.file, s.position, s.source, s.from, s.length)
  /\ \A s, t \in S : s.file = t.source => s.position # t.from
  /\ \A s, t \in S : s.file = t.file => Apart(s, t)

\* Fewer of them are as sound.
LEMMA FewerSelected ==
  ASSUME NEW S, Selects(S), NEW T, T \subseteq S
  PROVE  Selects(T)
<1>1. IsFiniteSet(T)
  BY FS_Subset DEF Selects
<1>2. QED
  BY <1>1 DEF Selects

\* So is one more that begins where nothing is marked, at or behind the others.
LEMMA OneMoreSelected ==
  ASSUME archive \in Archives, Selects(selections), NEW r \in Selection,
         r.length >= MinCommon, SameAt(r.file, r.position, r.source, r.from, r.length),
         r.position \notin Marked(r.file), r.from \notin Targets(r.source),
         r.file = r.source => r.position # r.from,
         \A s \in selections : s.file = r.file => s.position <= r.position
  PROVE  Selects(selections \cup {r})
<1> DEFINE S == selections
           T == S \cup {r}
<1>1. S \subseteq Selection /\ IsFiniteSet(S)
  BY DEF Selects
<1>2. /\ \A s \in S : s.length >= MinCommon /\ SameAt(s.file, s.position, s.source, s.from, s.length)
      /\ \A s, t \in S : s.file = t.source => s.position # t.from
      /\ \A s, t \in S : s.file = t.file => Apart(s, t)
  BY DEF Selects
<1>3. MinCommon \in Nat \ {0}
  BY FilesAre
<1>4. \A s \in T : s.position \in Nat /\ s.length \in Nat /\ s.from \in Nat
  <2>1. \A s \in Selection : s.position \in Nat /\ s.length \in Nat /\ s.from \in Nat
    BY DEF Selection
  <2>2. QED
    BY <1>1, <2>1
<1>5. T \subseteq Selection /\ IsFiniteSet(T)
  BY <1>1, FS_AddElement
<1>6. \A s \in S : /\ s.file = r.file => r.position \notin TargetRange(s)
                   /\ s.source = r.file => r.position \notin SourceRange(s)
                   /\ s.file = r.source => r.from \notin TargetRange(s)
  BY DEF Marked, Targets, Common
<1>7. \A s \in S : s.length >= 1
  BY <1>2, <1>3, <1>4
<1>8. ASSUME NEW s \in T, NEW t \in T, s.file = t.source PROVE s.position # t.from
  <2>1. CASE s \in S /\ t \in S
    BY <1>2, <1>8, <2>1
  <2>2. CASE s = r /\ t \in S
    <3>1. r.position \notin SourceRange(t)
      BY <1>6, <1>8, <2>2
    <3>2. t.from \in SourceRange(t)
      BY <1>4, <1>7, <2>2 DEF SourceRange
    <3>3. QED
      BY <2>2, <3>1, <3>2
  <2>3. CASE s \in S /\ t = r
    <3>1. r.from \notin TargetRange(s)
      BY <1>6, <1>8, <2>3
    <3>2. s.position \in TargetRange(s)
      BY <1>4, <1>7, <2>3 DEF TargetRange
    <3>3. QED
      BY <2>3, <3>1, <3>2
  <2>4. CASE s = r /\ t = r
    BY <1>8, <2>4
  <2>5. QED
    BY <2>1, <2>2, <2>3, <2>4
<1>9. ASSUME NEW s \in S, s.file = r.file PROVE s.position + s.length <= r.position
  <2>1. r.position \notin TargetRange(s) /\ s.position <= r.position
    BY <1>6, <1>9
  <2>2. PICK p : p = r.position
    BY Zenon
  <2>3. PICK q : q = s.position
    BY Zenon
  <2>4. PICK n : n = s.length
    BY Zenon
  <2>5. p \in Nat /\ q \in Nat /\ n \in Nat /\ q <= p /\ p \notin q .. q + n - 1
    BY <1>4, <2>1, <2>2, <2>3, <2>4 DEF TargetRange
  <2>6. q + n <= p
    BY <2>5
  <2>7. QED
    BY <2>2, <2>3, <2>4, <2>6
<1>10. ASSUME NEW s \in T, NEW t \in T, s.file = t.file PROVE Apart(s, t)
  <2>1. CASE s \in S /\ t \in S
    BY <1>2, <1>10, <2>1
  <2>2. CASE s = r /\ t \in S
    BY <1>9, <1>10, <2>2 DEF Apart
  <2>3. CASE s \in S /\ t = r
    BY <1>9, <1>10, <2>3 DEF Apart
  <2>4. CASE s = r /\ t = r
    BY <2>4 DEF Apart
  <2>5. QED
    BY <2>1, <2>2, <2>3, <2>4
<1>11. \A s \in T : s.length >= MinCommon /\ SameAt(s.file, s.position, s.source, s.from, s.length)
  BY <1>2
<1>12. QED
  BY <1>5, <1>8, <1>10, <1>11 DEF Selects

-----------------------------------------------------------------------------
(* The scan *)

\* Where the walkers are; no selection begins behind its walker.
Walking ==
  /\ round \in Nat /\ round <= Span /\ DOMAIN scans = Files
  /\ \A f \in Files : Walker(f, scans[f], round)
  /\ \A s \in selections : s.position <= scans[s.file].position

\* Skipping moves no walker.
LEMMA SkippingWalks ==
  ASSUME Walking, UNCHANGED <<archive, round>>, NEW n, NEW f \in Files,
         scans' = [scans EXCEPT ![f].skip = n],
         \A s \in selections' : s \in selections \/ s.position <= scans[s.file].position,
         selections' \subseteq Selection
  PROVE  Walking'
<1>1. Files' = Files /\ Span' = Span /\ \A g : Length(g)' = Length(g)
  BY DEF Files, Span, Length
<1>2. DOMAIN scans' = Files /\ DOMAIN scans = Files
  BY DEF Walking
<1>3. \A g \in Files : scans'[g] = IF g = f THEN [scans[g] EXCEPT !.skip = n] ELSE scans[g]
  BY <1>2
<1>4. \A g \in Files : Walker(g, scans[g], round)
  BY DEF Walking
<1>5. \A g \in Files : Walker(g, scans'[g], round) /\ scans'[g].position = scans[g].position
  BY <1>3, <1>4, WalkerSkips
<1>6. \A g \in Files : Walker(g, scans[g], round)'
  <2> SUFFICES ASSUME NEW g \in Files PROVE Walker(g, scans[g], round)'
    OBVIOUS
  <2>1. PICK t : t = scans'[g]
    BY Zenon
  <2>2. Walker(g, t, round)
    BY <1>5, <2>1
  <2>3. Walker(g, t, round)'
    BY <1>1, <2>2 DEF Walker, Pace
  <2>4. QED
    BY <2>1, <2>3 DEF Walker, Pace
<1>7. \A s \in selections' : s.position <= scans'[s.file].position
  <2>1. \A s \in selections' : s.file \in Files
    BY DEF Selection
  <2>2. \A s \in selections' : s.position <= scans[s.file].position
    BY DEF Walking
  <2>3. QED
    BY <1>5, <2>1, <2>2
<1>8. QED
  BY <1>1, <1>2, <1>6, <1>7 DEF Walking

-----------------------------------------------------------------------------
(* The inductive invariant of the analysis *)

\* Roots are placed, and candidates for it, when the selections are final.
Placing ==
  /\ IF stage = "order" THEN placed \in Seq(Roots) /\ visits \in Seq(Seq(Roots))
     ELSE placed = <<>> /\ visits = <<>>
  /\ next_file \in Files \cup {1}

Analysis ==
  /\ archive \in Archives /\ stage \in {"scan", "trim", "order"} /\ Fresh
  /\ Selects(selections) /\ (stage = "scan" => Walking) /\ Placing

-----------------------------------------------------------------------------
(* Its steps, up to the order of the roots *)

\* A chunk that is not begun stays so.
LEMMA FreshKept ==
  ASSUME Fresh, UNCHANGED vars
  PROVE  Fresh'
BY Zenon DEF Fresh, vars, parser, NoOffsets, NoBases, NoPending

\* Selections of the same archive.
LEMMA SelectsKept ==
  ASSUME UNCHANGED archive, Selects(selections')
  PROVE  Selects(selections)'
<1>1. Files' = Files /\ \A f : Length(f)' = Length(f)
  BY DEF Files, Length
<1>2. \A f, i : Byte(f, i)' = Byte(f, i)
  BY DEF Byte
<1>3. Selection' = Selection
  BY <1>1 DEF Selection
<1>4. \A f, p, g, q, n : SameAt(f, p, g, q, n)' <=> SameAt(f, p, g, q, n)
  BY <1>1, <1>2 DEF SameAt
<1>5. PICK S : S = selections'
  BY Zenon
<1>6. Selects(S)
  BY <1>5
<1>7. Selects(S)'
  BY <1>3, <1>4, <1>6 DEF Selects, Apart
<1>8. QED
  BY <1>5, <1>7 DEF Selects, Apart

\* A turn of the scan.
LEMMA ScanStep ==
  ASSUME Analysis, stage = "scan", UNCHANGED <<vars, archive, stage, orderVars>>,
         Selects(selections'), Walking'
  PROVE  Analysis'
<1>1. Fresh'
  BY FreshKept, Zenon DEF Analysis
<1>2. Selects(selections)'
  BY SelectsKept
<1>3. Placing'
  BY DEF Analysis, Placing, orderVars, Files
<1>4. QED
  BY <1>1, <1>2, <1>3 DEF Analysis

\* Nothing is selected, and no walker moves.
LEMMA NothingSelected ==
  ASSUME Analysis, stage = "scan", UNCHANGED <<vars, archive, stage, round, orderVars, selections>>,
         scans' = scans
  PROVE  Analysis'
<1>1. Selects(selections') /\ Walking
  BY DEF Analysis
<1>2. Walking'
  BY <1>1 DEF Walking, Files, Span, Length, Walker, Pace
<1>3. QED
  BY <1>1, <1>2, ScanStep, Zenon

\* PassOver and FindNothing.
LEMMA PassingOver ==
  ASSUME Analysis, PassOver \/ FindNothing
  PROVE  Analysis'
<1>1. /\ stage = "scan" /\ UNCHANGED <<vars, archive, stage, round, orderVars, selections>>
      /\ scans' = scans
  BY Zenon DEF PassOver, FindNothing, Free, Looking, Scanning
<1>2. QED
  BY <1>1, NothingSelected, Zenon

\* SkipMarked.
LEMMA SkippingMarked ==
  ASSUME Analysis, SkipMarked
  PROVE  Analysis'
<1>1. /\ stage = "scan" /\ file \in Files
      /\ UNCHANGED <<vars, archive, stage, round, orderVars, selections>>
  BY Zenon DEF SkipMarked, Looking, Scanning
<1>2. PICK n : scans' = [scans EXCEPT ![file].skip = n]
  BY Zenon DEF SkipMarked, SkipOver
<1>3. Walking /\ Selects(selections) /\ selections \subseteq Selection
  BY <1>1 DEF Analysis, Selects
<1>4. Selects(selections') /\ selections' \subseteq Selection
  BY <1>1, <1>3, Zenon
<1>5. Walking'
  BY <1>1, <1>2, <1>3, <1>4, SkippingWalks
<1>6. QED
  BY <1>1, <1>4, <1>5, ScanStep, Zenon

\* FindReference.
LEMMA FindingReference ==
  ASSUME Analysis, FindReference
  PROVE  Analysis'
<1>1. /\ stage = "scan" /\ file \in Files /\ UNCHANGED <<vars, archive, stage, round, orderVars>>
      /\ Position + MinCommon < Length(file) /\ Position \notin Marked(file)
  BY Zenon DEF FindReference, Free, Looking, Scanning
<1>2. Walking /\ Selects(selections) /\ selections \subseteq Selection /\ archive \in Archives
  BY <1>1 DEF Analysis, Selects
<1>3. PICK p : p = Position
  BY Zenon
<1>4. PICK g \in Files :
        \E q \in DOMAIN MatchLengths(file, p, g) :
          /\ MatchLengths(file, p, g)[q] > 0
          /\ \/ SkipOver(RunIn(archive.covered[file], p)) /\ UNCHANGED selections
             \/ /\ SkipOver(MatchLengths(file, p, g)[q])
                /\ selections' = selections \cup
                     {[file |-> file, position |-> p, source |-> g, from |-> q,
                       length |-> MatchLengths(file, p, g)[q]]}
  BY <1>3, Zenon DEF FindReference
<1>5. PICK q \in DOMAIN MatchLengths(file, p, g) :
        /\ MatchLengths(file, p, g)[q] > 0
        /\ \/ SkipOver(RunIn(archive.covered[file], p)) /\ UNCHANGED selections
           \/ /\ SkipOver(MatchLengths(file, p, g)[q])
              /\ selections' = selections \cup
                   {[file |-> file, position |-> p, source |-> g, from |-> q,
                     length |-> MatchLengths(file, p, g)[q]]}
  BY <1>4, Zenon
<1>6. PICK n : n = MatchLengths(file, p, g)[q]
  BY Zenon
<1>7. PICK skip : scans' = [scans EXCEPT ![file].skip = skip]
  BY <1>5, Zenon DEF SkipOver
<1>8. /\ Walker(file, scans[file], round) /\ Walker(g, scans[g], round)
      /\ \A s \in selections : s.position <= scans[s.file].position
  BY <1>1, <1>2, <1>4, Zenon DEF Walking
<1>9. /\ p \in Nat /\ p = scans[file].position /\ scans[g].cursor \in Nat
      /\ (file = g => scans[g].cursor - MinCommon <= p)
  BY <1>3, <1>8 DEF Walker, Position
<1>10. MinCommon \in Nat \ {0} /\ Length(file) \in Nat
  BY <1>1, <1>2, FilesAre
<1>11. p + MinCommon <= Length(file)
  BY <1>1, <1>3, <1>9, <1>10
<1>12. /\ q \in Chained(file, p, g) /\ n \in Nat /\ n >= MinCommon /\ SameAt(file, p, g, q, n)
       /\ (file = g => p # q)
  BY <1>1, <1>2, <1>5, <1>6, <1>9, <1>11, LengthsAre
<1>13. q \in Nat /\ q \notin Targets(g)
  BY <1>9, <1>10, <1>12, ChainedIs
<1>14. PICK r : r = [file |-> file, position |-> p, source |-> g, from |-> q, length |-> n]
  BY Zenon
<1>15. /\ r.file = file /\ r.position = p /\ r.source = g /\ r.from = q /\ r.length = n
       /\ r \in Selection
  BY <1>1, <1>4, <1>9, <1>12, <1>13, <1>14 DEF Selection
<1>16. \A s \in selections : s.file = r.file => s.position <= r.position
  BY <1>8, <1>9, <1>15
<1>17. Selects(selections \cup {r})
  BY <1>1, <1>2, <1>3, <1>12, <1>13, <1>15, <1>16, OneMoreSelected
<1>18. selections' = selections \/ selections' = selections \cup {r}
  BY <1>5, <1>6, <1>14, Zenon
<1>19. Selects(selections')
  BY <1>2, <1>17, <1>18, Zenon
<1>20. selections' \subseteq Selection
  BY <1>19 DEF Selects
<1>21. \A s \in selections' : s \in selections \/ s.position <= scans[s.file].position
  BY <1>9, <1>15, <1>18
<1>22. Walking'
  BY <1>1, <1>2, <1>7, <1>20, <1>21, SkippingWalks
<1>23. QED
  BY <1>1, <1>19, <1>22, ScanStep, Zenon

\* AdvanceScans.
LEMMA AdvancingScans ==
  ASSUME Analysis, AdvanceScans
  PROVE  Analysis'
<1>1. /\ stage = "scan" /\ UNCHANGED <<vars, archive, stage, orderVars, selections>>
      /\ round < Span /\ round' = round + 1 /\ scans' = [f \in Files |-> Advanced(f)]
  BY Zenon DEF AdvanceScans
<1>2. Walking /\ Selects(selections) /\ archive \in Archives
  BY <1>1 DEF Analysis
<1>3. round \in Nat /\ Span \in Nat /\ \A f \in Files : Walker(f, scans[f], round)
  BY <1>2, FilesAre DEF Walking
<1>4. \A f \in Files : /\ Walker(f, Advanced(f), round + 1)
                       /\ scans[f].position <= Advanced(f).position
  BY <1>1, <1>2, <1>3, WalkerAdvances
<1>5. Files' = Files /\ Span' = Span /\ \A g : Length(g)' = Length(g)
  BY <1>1 DEF Files, Span, Length
<1>6. DOMAIN scans' = Files /\ \A f \in Files : scans'[f] = Advanced(f)
  BY <1>1
<1>7. \A f \in Files : Walker(f, scans[f], round)'
  <2> SUFFICES ASSUME NEW f \in Files PROVE Walker(f, scans[f], round)'
    OBVIOUS
  <2>1. PICK t : t = scans'[f]
    BY Zenon
  <2>2. PICK k : k = round'
    BY Zenon
  <2>3. Walker(f, t, k)
    BY <1>1, <1>4, <1>6, <2>1, <2>2
  <2>4. Walker(f, t, k)'
    BY <1>5, <2>3 DEF Walker, Pace
  <2>5. QED
    BY <2>1, <2>2, <2>4 DEF Walker, Pace
<1>8. \A s \in selections' : s.position <= scans'[s.file].position
  <2> SUFFICES ASSUME NEW s \in selections PROVE s.position <= scans'[s.file].position
    BY <1>1
  <2>1. s \in Selection
    BY <1>2 DEF Selects
  <2>2. s.file \in Files /\ s.position \in Nat
    BY <2>1 DEF Selection
  <2>3. PICK a : a = scans[s.file].position
    BY Zenon
  <2>4. PICK b : b = scans'[s.file].position
    BY Zenon
  <2>5. s.position <= a /\ a <= b /\ a \in Nat
    BY <1>2, <1>3, <1>4, <1>6, <2>2, <2>3, <2>4 DEF Walking, Walker
  <2>6. b \in Nat
    BY <1>4, <1>6, <2>2, <2>4 DEF Walker
  <2>7. s.position <= b
    BY <2>2, <2>5, <2>6
  <2>8. QED
    BY <2>4, <2>7
<1>9. Walking'
  BY <1>1, <1>3, <1>5, <1>6, <1>7, <1>8 DEF Walking
<1>10. Selects(selections')
  BY <1>1, <1>2, Zenon
<1>11. QED
  BY <1>1, <1>9, <1>10, ScanStep, Zenon

\* EndScan and TrimSelections: the selections are as sound, and nothing is placed.
LEMMA SelectionsEnd ==
  ASSUME Analysis, EndScan \/ TrimSelections
  PROVE  Analysis'
<1>1. /\ UNCHANGED <<vars, archive, orderVars>> /\ stage \in {"scan", "trim"}
      /\ stage' \in {"trim", "order"}
  BY DEF EndScan, TrimSelections
<1>2. selections' \subseteq selections
  <2>1. CASE EndScan
    BY <2>1 DEF EndScan
  <2>2. CASE TrimSelections
    <3> DEFINE saving == {s \in selections : ReferenceScore(s) >= 0}
    <3>1. selections' = {s \in saving : SourceScore(s, saving) >= 0}
      BY <2>2, Zenon DEF TrimSelections
    <3>2. QED
      BY <3>1
  <2>3. QED
    BY <2>1, <2>2
<1>3. Selects(selections)'
  BY <1>1, <1>2, FewerSelected, SelectsKept DEF Analysis
<1>4. Fresh'
  BY <1>1, FreshKept, Zenon DEF Analysis
<1>5. placed' = <<>> /\ visits' = <<>> /\ next_file' \in Files' \cup {1}
  BY <1>1 DEF Analysis, Placing, orderVars, Files
<1>6. Placing'
  <2> DEFINE T == Seq(Roots')
  <2>1. <<>> \in T /\ <<>> \in Seq(T)
    <3>1. <<>> \in T
      OBVIOUS
    <3> HIDE DEF T
    <3>2. QED
      BY <3>1
  <2>2. placed' \in Seq(Roots') /\ visits' \in Seq(Seq(Roots'))
    BY <1>5, <2>1 DEF T
  <2> HIDE DEF T
  <2>3. QED
    BY <1>1, <1>5, <2>2 DEF Placing
<1>7. QED
  BY <1>1, <1>3, <1>4, <1>6 DEF Analysis

-----------------------------------------------------------------------------
(* Roots *)

\* The fields of a selection.
LEMMA SelectedIs ==
  ASSUME Selects(selections), NEW s \in selections
  PROVE  /\ s.file \in Files /\ s.source \in Files
         /\ s.position \in Nat /\ s.from \in Nat /\ s.length \in Nat /\ s.length >= MinCommon
         /\ s.position + s.length <= Length(s.file) /\ s.from + s.length <= Length(s.source)
<1>1. s \in Selection
  BY DEF Selects
<1>2. s.length >= MinCommon /\ SameAt(s.file, s.position, s.source, s.from, s.length)
  BY DEF Selects
<1>3. QED
  BY <1>1, <1>2 DEF Selection, SameAt

\* Sources lie in their input, and have bytes.
LEMMA SourcesAre ==
  ASSUME archive \in Archives, Selects(selections), NEW f \in Files
  PROVE  /\ IsFiniteSet(Sources(f)) /\ Starts(f) \subseteq Nat /\ RootStarts(f) \subseteq Starts(f)
         /\ \A r \in Sources(f) : /\ r[1] \in Starts(f) /\ r[2] \in Nat
                                  /\ r[1] < r[2] /\ r[2] <= Length(f)
         /\ \A b \in Starts(f) : \E r \in Sources(f) : r[1] = b
         /\ \A s \in selections : s.source = f => <<s.from, s.from + s.length>> \in Sources(f)
<1> DEFINE T == {t \in selections : t.source = f}
           g == [s \in T |-> <<s.from, s.from + s.length>>]
<1>1. IsFiniteSet(T)
  <2>1. T \subseteq selections
    OBVIOUS
  <2>2. QED
    BY <2>1, FS_Subset DEF Selects
<1>2. Sources(f) = {g[s] : s \in T}
  BY DEF Sources
<1>3. IsFiniteSet(Sources(f))
  <2>1. DOMAIN g = T
    OBVIOUS
  <2> HIDE DEF T, g
  <2>2. IsFiniteSet({g[s] : s \in T})
    BY <1>1, <2>1, FiniteImage
  <2>3. QED
    BY <1>2, <2>2
<1>4. MinCommon \in Nat \ {0}
  BY FilesAre
<1>5. \A s \in T : /\ s.from \in Nat /\ s.from + s.length \in Nat /\ s.from < s.from + s.length
                   /\ s.from + s.length <= Length(f)
  <2> SUFFICES ASSUME NEW s \in T PROVE /\ s.from \in Nat /\ s.from + s.length \in Nat
                                        /\ s.from < s.from + s.length
                                        /\ s.from + s.length <= Length(f)
    OBVIOUS
  <2>1. s \in selections /\ s.source = f
    OBVIOUS
  <2>2. /\ s.from \in Nat /\ s.length \in Nat /\ s.length >= MinCommon
        /\ s.from + s.length <= Length(f)
    BY <2>1, SelectedIs
  <2>3. QED
    BY <1>4, <2>2
<1>6. \A r \in Sources(f) : /\ r[1] \in Starts(f) /\ r[1] \in Nat /\ r[2] \in Nat
                            /\ r[1] < r[2] /\ r[2] <= Length(f)
  <2> SUFFICES ASSUME NEW r \in Sources(f)
               PROVE  /\ r[1] \in Starts(f) /\ r[1] \in Nat /\ r[2] \in Nat
                      /\ r[1] < r[2] /\ r[2] <= Length(f)
    OBVIOUS
  <2>1. PICK s \in T : r = <<s.from, s.from + s.length>>
    BY <1>2
  <2>2. r[1] = s.from /\ r[2] = s.from + s.length
    BY <2>1
  <2>3. r[1] \in Starts(f)
    BY DEF Starts
  <2>4. QED
    BY <1>5, <2>2, <2>3
<1>7. \A b \in Starts(f) : \E r \in Sources(f) : r[1] = b
  BY DEF Starts
<1>8. Starts(f) \subseteq Nat
  BY <1>6, <1>7
<1>9. \A s \in selections : s.source = f => <<s.from, s.from + s.length>> \in Sources(f)
  BY DEF Sources
<1>10. QED
  BY <1>3, <1>6, <1>7, <1>8, <1>9 DEF RootStarts

\* The starts of an input are a finite set.
LEMMA StartsFinite ==
  ASSUME archive \in Archives, Selects(selections), NEW f \in Files
  PROVE  IsFiniteSet(Starts(f))
<1> DEFINE S == Sources(f)
           g == [r \in S |-> r[1]]
<1>1. IsFiniteSet(S)
  BY SourcesAre
<1>2. Starts(f) = {g[r] : r \in S} /\ DOMAIN g = S
  BY DEF Starts
<1> HIDE DEF S, g
<1>3. IsFiniteSet({g[r] : r \in S})
  BY <1>1, <1>2, FiniteImage
<1>4. QED
  BY <1>2, <1>3

\* Every start belongs to a root that begins there or before.
LEMMA RootOfIs ==
  ASSUME archive \in Archives, Selects(selections), NEW f \in Files, NEW b \in Starts(f)
  PROVE  \E r \in RootStarts(f) : /\ RootOf(f, b) = <<f, r>> /\ r <= b
                                  /\ \A q \in RootStarts(f) : q <= b => q <= r
<1> DEFINE S == {r \in RootStarts(f) : r <= b}
<1>1. /\ Starts(f) \subseteq Nat /\ RootStarts(f) \subseteq Starts(f) /\ IsFiniteSet(Starts(f))
      /\ \A r \in Sources(f) : r[1] \in Starts(f)
  BY SourcesAre, StartsFinite
<1>2. PICK m \in Starts(f) : \A y \in Starts(f) : m <= y
  BY <1>1, LeastNatural
<1>3. m \in RootStarts(f)
  <2>1. \A r \in Sources(f) : ~(r[1] < m)
    BY <1>1, <1>2
  <2>2. QED
    BY <2>1 DEF RootStarts
<1>4. m \in S
  BY <1>1, <1>2, <1>3
<1>5. S \subseteq Nat /\ IsFiniteSet(S)
  <2>1. S \subseteq Starts(f)
    BY <1>1
  <2>2. QED
    BY <1>1, <2>1, FS_Subset
<1>6. Max(S) \in S /\ \A y \in S : y <= Max(S)
  <2> HIDE DEF S
  <2>1. QED
    BY <1>4, <1>5, GreatestNatural
<1>7. RootOf(f, b) = <<f, Max(S)>>
  BY DEF RootOf
<1>8. QED
  BY <1>6, <1>7

\* The root of a start is one of them, and the start is within its boundaries.
LEMMA RootOfStart ==
  ASSUME archive \in Archives, Selects(selections), NEW f \in Files, NEW b \in Starts(f)
  PROVE  /\ RootOf(f, b) \in Roots /\ RootOf(f, b)[1] = f /\ b \in Boundaries(RootOf(f, b))
<1>1. PICK r \in RootStarts(f) : RootOf(f, b) = <<f, r>>
  BY RootOfIs
<1>2. RootOf(f, b) \in Roots
  BY <1>1 DEF Roots
<1>3. RootOf(f, b)[1] = f
  BY <1>1
<1>4. b \in Boundaries(RootOf(f, b))
  BY <1>3 DEF Boundaries
<1>5. QED
  BY <1>2, <1>3, <1>4

\* A root begins at its first boundary and ends behind all of its sources, within its input.
LEMMA RootIs ==
  ASSUME archive \in Archives, Selects(selections), NEW root \in Roots
  PROVE  /\ root[1] \in Files /\ root = <<root[1], root[2]>>
         /\ root[2] \in Boundaries(root) /\ Boundaries(root) \subseteq Starts(root[1])
         /\ RootEnd(root) \in Nat /\ RootEnd(root) <= Length(root[1])
         /\ \A b \in Boundaries(root) : b \in Nat /\ b < RootEnd(root) /\ RootOf(root[1], b) = root
         /\ \A s \in selections : RootOf(s.source, s.from) = root => s.from + s.length <= RootEnd(root)
<1>1. PICK f \in Files : \E b \in RootStarts(f) : root = <<f, b>>
  BY DEF Roots
<1>2. PICK b \in RootStarts(f) : root = <<f, b>>
  BY <1>1
<1>3. root[1] = f /\ root[2] = b /\ root = <<root[1], root[2]>>
  BY <1>2
<1>4. /\ IsFiniteSet(Sources(f)) /\ Starts(f) \subseteq Nat /\ b \in Starts(f)
      /\ \A r \in Sources(f) : /\ r[1] \in Starts(f) /\ r[2] \in Nat
                               /\ r[1] < r[2] /\ r[2] <= Length(f)
      /\ \A c \in Starts(f) : \E r \in Sources(f) : r[1] = c
  BY SourcesAre
<1>5. RootOf(f, b) = root
  <2>1. PICK r \in RootStarts(f) : RootOf(f, b) = <<f, r>> /\ r <= b
                                   /\ \A q \in RootStarts(f) : q <= b => q <= r
    BY <1>4, RootOfIs
  <2>2. b \in Nat /\ r \in Nat
    BY <1>4 DEF RootStarts
  <2>3. b <= b
    BY <2>2
  <2>4. b <= r
    BY <2>1, <2>3
  <2>5. b = r
    BY <2>1, <2>2, <2>4
  <2>6. QED
    BY <1>2, <2>1, <2>5
<1>6. b \in Boundaries(root) /\ Boundaries(root) \subseteq Starts(f)
      /\ \A c \in Boundaries(root) : RootOf(f, c) = root
  BY <1>3, <1>4, <1>5 DEF Boundaries
<1> DEFINE Q == {q \in Sources(f) : q[1] \in Boundaries(root)}
           E == {r[2] : r \in Q}
           g == [r \in Q |-> r[2]]
<1>7. IsFiniteSet(E)
  <2>1. Q \subseteq Sources(f)
    OBVIOUS
  <2>2. IsFiniteSet(Q)
    BY <1>4, <2>1, FS_Subset
  <2>3. E = {g[r] : r \in Q} /\ DOMAIN g = Q
    OBVIOUS
  <2> HIDE DEF Q, E, g
  <2>4. IsFiniteSet({g[r] : r \in Q})
    BY <2>2, <2>3, FiniteImage
  <2>5. QED
    BY <2>3, <2>4
<1>8. E \subseteq Nat /\ \A r \in Q : r[2] \in E
  BY <1>4
<1>9. E # {}
  <2>1. PICK r \in Sources(f) : r[1] = b
    BY <1>4
  <2>2. r \in Q
    BY <1>6, <2>1
  <2>3. QED
    BY <1>8, <2>2
<1>10. RootEnd(root) = Max(E)
  BY <1>3 DEF RootEnd
<1>11. RootEnd(root) \in E /\ \A y \in E : y <= RootEnd(root)
  <2> HIDE DEF E
  <2>1. QED
    BY <1>7, <1>8, <1>9, <1>10, GreatestNatural
<1>12. RootEnd(root) \in Nat /\ RootEnd(root) <= Length(f)
  <2>1. PICK r \in Q : RootEnd(root) = r[2]
    BY <1>11
  <2>2. QED
    BY <1>4, <2>1
<1>13. ASSUME NEW c \in Boundaries(root) PROVE c \in Nat /\ c < RootEnd(root)
  <2>1. PICK r \in Sources(f) : r[1] = c
    BY <1>4, <1>6
  <2>2. r \in Q
    BY <2>1
  <2>3. r[2] <= RootEnd(root) /\ r[2] \in Nat /\ c < r[2] /\ c \in Nat
    BY <1>4, <1>8, <1>11, <2>1, <2>2
  <2>4. QED
    BY <1>12, <2>3
<1>14. ASSUME NEW s \in selections, RootOf(s.source, s.from) = root
       PROVE  s.from + s.length <= RootEnd(root)
  <2>1. s.source \in Files
    BY SelectedIs
  <2>2. PICK r : r = <<s.from, s.from + s.length>>
    BY Zenon
  <2>3. r \in Sources(s.source) /\ r[1] = s.from /\ r[2] = s.from + s.length
    BY <2>1, <2>2, SourcesAre
  <2>4. s.from \in Starts(s.source)
    BY <2>1, <2>3, SourcesAre
  <2>5. s.source = f /\ s.from \in Boundaries(root)
    BY <1>3, <1>14, <2>1, <2>4, RootOfStart
  <2>6. r \in Q
    BY <2>3, <2>5
  <2>7. QED
    BY <1>8, <1>11, <2>3, <2>6
<1>15. QED
  BY <1>3, <1>6, <1>12, <1>13, <1>14

-----------------------------------------------------------------------------
(* Candidates *)

\* A record is a place in its input, and stands for a root.
LEMMA RecordsAre ==
  ASSUME archive \in Archives, Selects(selections), NEW f \in Files, NEW p \in Records(f)
  PROVE  p \in Nat /\ RecordRoot(f, p) \in Roots
<1>1. CASE p \in Starts(f)
  <2>1. RecordRoot(f, p) = RootOf(f, p)
    BY <1>1 DEF RecordRoot
  <2>2. QED
    BY <1>1, <2>1, RootOfStart, SourcesAre
<1>2. CASE p \notin Starts(f)
  <2> DEFINE s == CHOOSE t \in selections : t.file = f /\ t.position = p
  <2>1. \E t \in selections : t.file = f /\ t.position = p
    BY <1>2 DEF Records, ReferencesIn
  <2>2. s \in selections /\ s.file = f /\ s.position = p
    BY <2>1
  <2>3. RecordRoot(f, p) = RootOf(s.source, s.from)
    BY <1>2 DEF RecordRoot
  <2> HIDE DEF s
  <2>4. s.source \in Files /\ p \in Nat
    BY <2>2, SelectedIs
  <2>5. PICK r : r = <<s.from, s.from + s.length>>
    BY Zenon
  <2>6. r \in Sources(s.source) /\ r[1] = s.from
    BY <2>2, <2>4, <2>5, SourcesAre
  <2>7. s.from \in Starts(s.source)
    BY <2>4, <2>6, SourcesAre
  <2>8. RootOf(s.source, s.from) \in Roots
    BY <2>4, <2>7, RootOfStart
  <2>9. QED
    BY <2>3, <2>4, <2>8
<1>3. QED
  BY <1>1, <1>2

\* The root of the first of some records.
LEMMA FirstRootIs ==
  ASSUME archive \in Archives, Selects(selections), NEW f \in Files,
         NEW records, records \subseteq Records(f), NEW done
  PROVE  FirstRoot(f, records, done) \in Seq(Roots)
<1>1. CASE records = {} \/ RecordRoot(f, Min(records)) \in done
  <2>1. FirstRoot(f, records, done) = <<>>
    BY <1>1 DEF FirstRoot
  <2>2. QED
    BY <2>1, EmptySeq
<1>2. CASE ~(records = {} \/ RecordRoot(f, Min(records)) \in done)
  <2>1. FirstRoot(f, records, done) = <<RecordRoot(f, Min(records))>>
    BY <1>2 DEF FirstRoot
  <2>2. records \subseteq Nat /\ records # {}
    BY <1>2, RecordsAre
  <2>3. Min(records) \in records
    BY <2>2, LeastIs
  <2>4. RecordRoot(f, Min(records)) \in Roots
    BY <2>3, RecordsAre
  <2>5. QED
    BY <2>1, <2>4
<1>3. QED
  BY <1>1, <1>2

\* What is attached to a root is some of the selections.
LEMMA AttachedIs ==
  ASSUME archive \in Archives, Selects(selections), NEW root \in Roots
  PROVE  Attached(root) \in Seq(selections)
<1> DEFINE before(s, t) ==
             \/ s.from < t.from
             \/ s.from = t.from /\ s.length > t.length
             \/ /\ s.from = t.from /\ s.length = t.length
                /\ s.file < t.file \/ (s.file = t.file /\ s.position < t.position)
           users == {s \in selections : RootOf(s.source, s.from) = root}
           R == {p \in users \X users : before(p[1], p[2])}
<1>1. IsFiniteSet(users)
  <2>1. users \subseteq selections
    OBVIOUS
  <2>2. QED
    BY <2>1, FS_Subset DEF Selects
<1>2. \A s \in users : /\ s \in selections /\ s \in Selection /\ s.source = root[1]
                       /\ s.file \in Nat /\ s.position \in Nat /\ s.from \in Nat /\ s.length \in Nat
  <2> SUFFICES ASSUME NEW s \in users
               PROVE  /\ s \in selections /\ s \in Selection /\ s.source = root[1]
                      /\ s.file \in Nat /\ s.position \in Nat /\ s.from \in Nat /\ s.length \in Nat
    OBVIOUS
  <2>1. s \in selections /\ s \in Selection /\ RootOf(s.source, s.from) = root
    BY DEF Selects
  <2>2. /\ s.source \in Files /\ s.file \in Files /\ s.position \in Nat /\ s.from \in Nat
        /\ s.length \in Nat
    BY <2>1, SelectedIs
  <2>3. root[1] = s.source
    BY <2>1 DEF RootOf
  <2>4. s.file \in Nat
    BY <2>2, FilesAre
  <2>5. QED
    BY <2>1, <2>2, <2>3, <2>4
<1>3. \A s, t \in users : <<s, t>> \in R <=> before(s, t)
  <2> HIDE DEF users
  <2>1. \A s, t \in users : <<s, t>>[1] = s /\ <<s, t>>[2] = t /\ <<s, t>> \in users \X users
    OBVIOUS
  <2>2. \A p \in users \X users : p \in R <=> before(p[1], p[2])
    BY Zenon
  <2> HIDE DEF R, before
  <2>3. QED
    BY <2>1, <2>2
<1> HIDE DEF R
<1>4. \A s \in users : ~before(s, s)
  BY <1>2
<1>5. \A s, t, u \in users : before(s, t) /\ before(t, u) => before(s, u)
  BY <1>2
<1>6. ASSUME NEW s \in users, NEW t \in users PROVE s = t \/ before(s, t) \/ before(t, s)
  <2>1. /\ s = [file |-> s.file, position |-> s.position, source |-> s.source, from |-> s.from,
                length |-> s.length]
        /\ t = [file |-> t.file, position |-> t.position, source |-> t.source, from |-> t.from,
                length |-> t.length]
    BY <1>2 DEF Selection
  <2>2. s.source = t.source
    BY <1>2
  <2>3. /\ s.file = t.file /\ s.position = t.position /\ s.from = t.from /\ s.length = t.length
        \/ before(s, t) \/ before(t, s)
    BY <1>2
  <2> HIDE DEF before, users
  <2>4. QED
    BY <2>1, <2>2, <2>3
<1>7. StrictOrder(users, R)
  <2> HIDE DEF before, users
  <2>1. QED
    BY <1>3, <1>4, <1>5, <1>6 DEF StrictOrder
<1>8. InOrder(users, R) \in Seq(users)
  <2> HIDE DEF users
  <2>1. QED
    BY <1>1, <1>7, InOrderIs
<1>9. Attached(root) = IF archive.trim = 0 THEN <<>> ELSE InOrder(users, R)
  BY DEF Attached, R
<1>10. Attached(root) \in Seq(users)
  <2> HIDE DEF users
  <2>1. QED
    BY <1>8, <1>9, EmptySeq
<1>11. QED
  <2>1. users \subseteq selections
    OBVIOUS
  <2> HIDE DEF users
  <2>2. QED
    BY <1>10, <2>1, SeqMonotonic

\* The candidates are roots.
LEMMA CandidatesAre ==
  ASSUME archive \in Archives, Selects(selections), NEW root \in Roots, NEW done
  PROVE  Candidates(root, done) \in Seq(Roots)
<1> DEFINE f == root[1]
           restarts == Starts(f) \ RootStarts(f)
           own == FirstRoot(f, {r \in Records(f) \ restarts : r > root[2]}, done)
           attached == Attached(root)
           behind(s) == IF s.from + s.length # RootEnd(root) THEN <<>>
                        ELSE FirstRoot(s.file, {r \in Records(s.file) : r > s.position}, done)
           parts == [i \in DOMAIN attached |-> behind(attached[i])]
           all == own \o FlattenSeq(parts)
           S == Roots
<1>1. own \in Seq(S)
  <2>1. f \in Files
    BY RootIs
  <2>2. {r \in Records(f) \ restarts : r > root[2]} \subseteq Records(f)
    OBVIOUS
  <2>3. QED
    BY <2>1, <2>2, FirstRootIs
<1>2. attached \in Seq(selections)
  BY AttachedIs
<1>3. \A s \in selections : behind(s) \in Seq(S)
  <2> SUFFICES ASSUME NEW s \in selections PROVE behind(s) \in Seq(S)
    OBVIOUS
  <2>1. s.file \in Files
    BY SelectedIs
  <2>2. {r \in Records(s.file) : r > s.position} \subseteq Records(s.file)
    OBVIOUS
  <2>3. FirstRoot(s.file, {r \in Records(s.file) : r > s.position}, done) \in Seq(S)
    BY <2>1, <2>2, FirstRootIs
  <2>4. <<>> \in Seq(S)
    BY EmptySeq
  <2>5. QED
    BY <2>3, <2>4
<1>4. parts \in Seq(Seq(S))
  <2> DEFINE T == Seq(S)
             n == Len(attached)
  <2> HIDE DEF behind, attached
  <2>1. n \in Nat /\ DOMAIN attached = 1 .. n
    BY <1>2, LenProperties
  <2>2. \A i \in 1 .. n : attached[i] \in selections
    BY <1>2, ElementOfSeq
  <2>3. \A i \in 1 .. n : parts[i] \in T
    BY <1>3, <2>1, <2>2
  <2>4. parts = [i \in 1 .. n |-> parts[i]]
    BY <2>1
  <2> HIDE DEF T, parts, n
  <2>5. parts \in [1 .. n -> T]
    BY <2>3, <2>4
  <2>6. parts \in Seq(T)
    BY <2>1, <2>5
  <2>7. QED
    BY <2>6 DEF T
<1>5. FlattenSeq(parts) \in Seq(S)
  <2> HIDE DEF parts, S
  <2>1. QED
    BY <1>4, FlattenJoins
<1>6. all \in Seq(S) /\ Len(all) \in Nat
  <2> HIDE DEF parts, S, own
  <2>1. QED
    BY <1>1, <1>5, ConcatProperties
<1>7. Candidates(root, done) = SubSeq(all, 1, Min({MostCandidates, Len(all)}))
  BY DEF Candidates
<1>8. Min({MostCandidates, Len(all)}) \in 0 .. Len(all)
  <2> DEFINE n == Len(all)
  <2>1. n \in Nat
    BY <1>6
  <2> HIDE DEF n
  <2>2. {MostCandidates, n} \subseteq Nat /\ {MostCandidates, n} # {}
    BY <2>1 DEF MostCandidates
  <2>3. Min({MostCandidates, n}) \in {MostCandidates, n} /\ Min({MostCandidates, n}) <= n
    BY <2>2, LeastIs
  <2>4. Min({MostCandidates, n}) \in 0 .. n
    BY <2>1, <2>2, <2>3
  <2>5. QED
    BY <2>4 DEF n
<1>9. QED
  <2>1. PICK a : a = all
    BY Zenon
  <2>2. PICK m : m = Min({MostCandidates, Len(all)})
    BY Zenon
  <2>3. a \in Seq(S) /\ Len(a) \in Nat /\ m \in 0 .. Len(a) /\ Candidates(root, done) = SubSeq(a, 1, m)
    BY <1>6, <1>7, <1>8, <2>1, <2>2
  <2> HIDE DEF all, S
  <2>4. \A i \in 1 .. m : a[i] \in S
    BY <2>3, ElementOfSeq
  <2>5. SubSeq(a, 1, m) \in Seq(S)
    BY <2>3, <2>4, SubSeqProperties
  <2>6. QED
    BY <2>3, <2>5 DEF S

-----------------------------------------------------------------------------
(* The chosen candidate *)

\* The one that is chosen is one of the candidates.
LEMMA ChosenIs ==
  ASSUME archive \in Archives, Selects(selections), NEW candidates \in Seq(Roots), candidates # <<>>
  PROVE  ChosenIndex(candidates) \in 1 .. Len(candidates)
<1> DEFINE D == DOMAIN candidates
           first(i)  == \A j \in 1 .. i - 1 : candidates[j] # candidates[i]
           firsts    == {i \in D : first(i)}
           place(i)  == Cardinality({j \in firsts : j <= i})
           seen(i)   == Cardinality({j \in 1 .. i : candidates[j] = candidates[i]})
           most      == Max({seen(i) : i \in D})
           winner    == candidates[Min({i \in D : seen(i) = most})]
           size(i)   == RootEnd(candidates[i]) - candidates[i][2]
           smallest  == {i \in firsts : \A j \in firsts : size(i) <= size(j)}
<1>1. Len(candidates) \in Nat \ {0} /\ D = 1 .. Len(candidates)
  BY LenProperties, EmptySeq
<1>2. ASSUME NEW i \in firsts PROVE place(i) \in 1 .. Len(candidates)
  <2> DEFINE P == {j \in firsts : j <= i}
  <2>1. i \in 1 .. Len(candidates) /\ i \in P /\ P \subseteq 1 .. i
    BY <1>1
  <2> HIDE DEF firsts, P
  <2>2. IsFiniteSet(1 .. i) /\ Cardinality(1 .. i) = i
    BY <2>1, FS_Interval
  <2>3. Cardinality(P) \in Nat /\ Cardinality(P) <= i /\ IsFiniteSet(P)
    BY <2>1, <2>2, FS_Subset, FS_CardinalityType
  <2>4. Cardinality(P) # 0
    BY <2>1, <2>3, FS_EmptySet
  <2>5. QED
    BY <1>1, <2>1, <2>3, <2>4 DEF P
<1>3. \A i \in D : size(i) \in Nat
  <2> SUFFICES ASSUME NEW i \in D PROVE size(i) \in Nat
    OBVIOUS
  <2>1. PICK root : root = candidates[i]
    BY Zenon
  <2>2. root \in Roots
    BY <1>1, <2>1, ElementOfSeq
  <2>3. /\ RootEnd(root) \in Nat /\ root[2] \in Boundaries(root)
        /\ \A b \in Boundaries(root) : b \in Nat /\ b < RootEnd(root)
    BY <2>2, RootIs
  <2>4. RootEnd(root) - root[2] \in Nat
    BY <2>3
  <2>5. QED
    BY <2>1, <2>4
<1>4. ASSUME NEW k \in D PROVE \E i \in firsts : candidates[i] = candidates[k]
  <2> DEFINE S == {i \in D : candidates[i] = candidates[k]}
  <2>1. S \subseteq Nat /\ S # {}
    BY <1>1
  <2>2. PICK i \in S : \A y \in S : i <= y
    <3> HIDE DEF S
    <3>1. QED
      BY <2>1, LeastNatural
  <2>3. i \in D /\ candidates[i] = candidates[k]
    BY <2>2
  <2>4. ASSUME NEW j \in 1 .. i - 1 PROVE candidates[j] # candidates[i]
    <3>1. j \in D /\ ~(i <= j)
      BY <1>1, <2>3
    <3>2. j \notin S
      BY <2>2, <3>1
    <3>3. QED
      BY <2>3, <3>1, <3>2
  <2>5. i \in firsts
    BY <2>3, <2>4
  <2>6. QED
    BY <2>3, <2>5
<1>5. smallest # {} /\ smallest \subseteq firsts /\ firsts \subseteq D
  <2> DEFINE T == {size(i) : i \in firsts}
  <2>1. \E i \in firsts : TRUE
    BY <1>1, <1>4
  <2>2. firsts \subseteq D
    OBVIOUS
  <2> HIDE DEF size, firsts
  <2>3. T \subseteq Nat /\ T # {}
    BY <1>3, <2>1, <2>2
  <2>4. PICK m \in T : \A y \in T : m <= y
    <3> HIDE DEF T
    <3>1. QED
      BY <2>3, LeastNatural
  <2>5. PICK i \in firsts : m = size(i)
    BY <2>4
  <2>6. \A j \in firsts : size(i) <= size(j)
    BY <2>4, <2>5
  <2>7. QED
    BY <2>2, <2>5, <2>6
<1>6. Min(smallest) \in firsts
  <2> HIDE DEF smallest, firsts
  <2>1. smallest \subseteq Nat
    BY <1>1, <1>5
  <2>2. QED
    BY <1>5, <2>1, LeastIs
<1>7. ASSUME most > 2 PROVE \E i \in firsts : candidates[i] = winner
  <2> DEFINE N == {seen(i) : i \in D}
             g == [i \in D |-> seen(i)]
             M == {i \in D : seen(i) = most}
  <2>1. \A i \in D : seen(i) \in Nat
    <3> SUFFICES ASSUME NEW i \in D PROVE seen(i) \in Nat
      OBVIOUS
    <3>1. i \in Nat /\ IsFiniteSet(1 .. i)
      BY <1>1, FS_Interval
    <3>2. {j \in 1 .. i : candidates[j] = candidates[i]} \subseteq 1 .. i
      OBVIOUS
    <3>3. QED
      BY <3>1, <3>2, FS_Subset, FS_CardinalityType
  <2> HIDE DEF seen
  <2>2. IsFiniteSet(D) /\ 1 \in D
    BY <1>1, FS_Interval
  <2>3. N = {g[i] : i \in D} /\ DOMAIN g = D
    OBVIOUS
  <2>4. N \subseteq Nat /\ N # {}
    BY <2>1, <2>2
  <2>5. IsFiniteSet(N)
    <3> HIDE DEF N, g, D
    <3>1. IsFiniteSet({g[i] : i \in D})
      BY <2>2, <2>3, FiniteImage
    <3>2. QED
      BY <2>3, <3>1
  <2>6. most \in N
    <3> HIDE DEF N
    <3>1. Max(N) \in N
      BY <2>4, <2>5, GreatestNatural
    <3>2. QED
      BY <3>1 DEF N
  <2>7. M # {} /\ M \subseteq Nat /\ M \subseteq D
    <3>1. PICK i \in D : most = seen(i)
      BY <2>6
    <3> HIDE DEF most
    <3>2. QED
      BY <1>1, <3>1
  <2>8. Min(M) \in D
    <3> HIDE DEF M, D
    <3>1. QED
      BY <2>7, LeastIs
  <2>9. winner = candidates[Min(M)]
    OBVIOUS
  <2> HIDE DEF winner, M, firsts
  <2>10. QED
    BY <1>4, <2>8, <2>9
<1>8. ChosenIndex(candidates) = IF most > 2 THEN place(CHOOSE i \in firsts : candidates[i] = winner)
                                ELSE place(Min(smallest))
  BY DEF ChosenIndex
<1> HIDE DEF place, winner, most, smallest, firsts
<1>9. QED
  BY <1>2, <1>6, <1>7, <1>8

-----------------------------------------------------------------------------
(* The inputs in turn *)

\* Every input has its turn.
LEMMA TurnsAre ==
  ASSUME NEW n \in Nat \ {0}, NEW at \in 1 .. n
  PROVE  /\ \A k \in Nat : ((at + k - 1) % n) + 1 \in 1 .. n
         /\ \A f \in 1 .. n : \E k \in 0 .. n - 1 : ((at + k - 1) % n) + 1 = f
<1>1. \A a \in Nat : a % n \in 0 .. n - 1
  OBVIOUS
<1>2. ASSUME NEW a \in 0 .. n - 1 PROVE a % n = a /\ (a + n) % n = a
  <2>1. a % n = a
    BY <1>2
  <2>2. (a + n) % n = a
    BY <1>2
  <2>3. QED
    BY <2>1, <2>2
<1>3. \A k \in Nat : ((at + k - 1) % n) + 1 \in 1 .. n
  <2> SUFFICES ASSUME NEW k \in Nat PROVE ((at + k - 1) % n) + 1 \in 1 .. n
    OBVIOUS
  <2>1. PICK a : a = at + k - 1
    BY Zenon
  <2>2. a \in Nat
    BY <2>1
  <2>3. a % n \in 0 .. n - 1
    BY <1>1, <2>2
  <2>4. QED
    BY <2>1, <2>3
<1>4. ASSUME NEW f \in 1 .. n PROVE \E k \in 0 .. n - 1 : ((at + k - 1) % n) + 1 = f
  <2>1. CASE f >= at
    <3>1. f - at \in 0 .. n - 1 /\ at + (f - at) - 1 = f - 1 /\ f - 1 \in 0 .. n - 1
      BY <2>1
    <3>2. (f - 1) % n = f - 1
      BY <1>2, <3>1
    <3>3. ((at + (f - at) - 1) % n) + 1 = f
      BY <3>1, <3>2
    <3>4. QED
      BY <3>1, <3>3
  <2>2. CASE f < at
    <3>1. /\ f - at + n \in 0 .. n - 1 /\ at + (f - at + n) - 1 = (f - 1) + n
          /\ f - 1 \in 0 .. n - 1
      BY <2>2
    <3>2. ((f - 1) + n) % n = f - 1
      BY <1>2, <3>1
    <3>3. ((at + (f - at + n) - 1) % n) + 1 = f
      BY <3>1, <3>2
    <3>4. QED
      BY <3>1, <3>3
  <2>3. QED
    BY <2>1, <2>2
<1>5. QED
  BY <1>3, <1>4

-----------------------------------------------------------------------------
(* The order of the roots *)

\* A step of the order: roots are placed and visited.
LEMMA OrderStep ==
  ASSUME Analysis, stage = "order", UNCHANGED <<vars, archive, stage, selections>>,
         placed' \in Seq(Roots), visits' \in Seq(Seq(Roots)), next_file' \in Files \cup {1}
  PROVE  Analysis'
<1>1. Fresh'
  BY FreshKept, Zenon DEF Analysis
<1>2. Selects(selections)'
  <2>1. Selects(selections')
    BY DEF Analysis
  <2>2. QED
    BY <2>1, SelectsKept
<1>3. Roots' = Roots /\ Files' = Files
  BY DEF Roots, RootStarts, Starts, Sources, Files
<1>4. Placing'
  BY <1>3 DEF Placing
<1>5. QED
  BY <1>1, <1>2, <1>4 DEF Analysis

\* What is known while roots are placed.
LEMMA OrderIs ==
  ASSUME Analysis, stage = "order"
  PROVE  /\ archive \in Archives /\ Selects(selections)
         /\ placed \in Seq(Roots) /\ visits \in Seq(Seq(Roots)) /\ next_file \in Files \cup {1}
BY DEF Analysis, Placing

\* A root is placed, and its candidates wait before those of the calls below.
LEMMA VisitKeeps ==
  ASSUME Analysis, Ordering, NEW root \in Roots, NEW calls \in Seq(Seq(Roots)), Visit(root, calls),
         next_file' \in Files \cup {1}
  PROVE  Analysis'
<1> DEFINE S == Roots
           T == Seq(S)
           c == Candidates(root, Range(placed) \cup {root})
<1>1. stage = "order" /\ UNCHANGED <<vars, archive, stage, selections>>
  BY DEF Ordering
<1>2. placed \in Seq(S) /\ c \in T
  BY <1>1, OrderIs, CandidatesAre
<1>3. placed' \in Seq(S)
  <2>1. placed' = Append(placed, root)
    BY DEF Visit
  <2> HIDE DEF S
  <2>2. QED
    BY <1>2, <2>1, AppendProperties DEF S
<1>4. visits' \in Seq(T)
  <2>1. visits' = <<c>> \o calls
    BY DEF Visit
  <2> HIDE DEF T, c
  <2>2. <<c>> \in Seq(T)
    BY <1>2
  <2>3. calls \in Seq(T)
    BY DEF T
  <2>4. QED
    BY <2>1, <2>2, <2>3, ConcatProperties
<1>5. QED
  BY <1>1, <1>3, <1>4, OrderStep

\* PlaceSeed.
LEMMA PlacingSeed ==
  ASSUME Analysis, PlaceSeed
  PROVE  Analysis'
<1> DEFINE L == Len(archive.inputs)
           turn(n) == ((next_file + n - 1) % L) + 1
           K == {k \in 0 .. L - 1 : \E r \in Unplaced : r[1] = turn(k)}
           n == Min(K)
           B == {r[2] : r \in {q \in Unplaced : q[1] = turn(n)}}
<1>1. /\ Ordering /\ Unplaced # {} /\ Visit(<<turn(n), Min(B)>>, <<>>) /\ next_file' = turn(n + 1)
  BY Zenon DEF PlaceSeed
<1>2. stage = "order" /\ archive \in Archives /\ Selects(selections) /\ next_file \in Files \cup {1}
  BY <1>1, OrderIs, Zenon DEF Ordering
<1>3. PICK seed \in Roots : seed \in Unplaced
  BY <1>1 DEF Unplaced
<1>4. L \in Nat \ {0} /\ Files = 1 .. L /\ next_file \in 1 .. L /\ seed[1] \in 1 .. L
  <2>1. seed[1] \in Files /\ Files = 1 .. L /\ L \in Nat
    BY <1>2, <1>3, RootIs, FilesAre
  <2> HIDE DEF L
  <2>2. QED
    BY <1>2, <2>1
<1> HIDE DEF L
<1>5. /\ \A k \in Nat : turn(k) \in 1 .. L
      /\ \A f \in 1 .. L : \E k \in 0 .. L - 1 : turn(k) = f
  BY <1>4, TurnsAre
<1> HIDE DEF turn
<1>6. K # {} /\ K \subseteq Nat
  <2>1. PICK k \in 0 .. L - 1 : turn(k) = seed[1]
    BY <1>4, <1>5
  <2>2. QED
    BY <1>3, <2>1
<1>7. n \in K
  <2> HIDE DEF K
  <2>1. QED
    BY <1>6, LeastIs
<1>8. n \in Nat /\ n + 1 \in Nat
  <2>1. PICK m : m = n
    BY Zenon
  <2>2. m \in Nat
    BY <1>6, <1>7, <2>1
  <2>3. QED
    BY <2>1, <2>2
<1>9. B # {} /\ B \subseteq Nat
  <2>1. \E r \in Unplaced : r[1] = turn(n)
    BY <1>7
  <2>2. \A r \in Unplaced : r[2] \in Nat
    <3> SUFFICES ASSUME NEW r \in Unplaced PROVE r[2] \in Nat
      OBVIOUS
    <3>1. r \in Roots
      BY DEF Unplaced
    <3>2. r[2] \in Boundaries(r) /\ \A b \in Boundaries(r) : b \in Nat
      BY <1>2, <3>1, RootIs
    <3>3. QED
      BY <3>2
  <2> HIDE DEF n
  <2>3. QED
    BY <2>1, <2>2
<1>10. Min(B) \in B
  <2> HIDE DEF B
  <2>1. QED
    BY <1>9, LeastIs
<1> HIDE DEF n
<1>11. <<turn(n), Min(B)>> \in Roots
  <2>1. PICK r \in Unplaced : r[1] = turn(n) /\ r[2] = Min(B)
    BY <1>10
  <2>2. r \in Roots
    BY <2>1 DEF Unplaced
  <2>3. r = <<r[1], r[2]>>
    BY <1>2, <2>2, RootIs
  <2> HIDE DEF B
  <2>4. <<turn(n), Min(B)>> = r
    BY <2>1, <2>3
  <2>5. QED
    BY <2>2, <2>4
<1>12. next_file' \in Files \cup {1}
  BY <1>1, <1>4, <1>5, <1>8
<1>13. PICK root : root = <<turn(n), Min(B)>>
  BY Zenon
<1>14. root \in Roots /\ Visit(root, <<>>)
  BY <1>1, <1>11, <1>13
<1>15. <<>> \in Seq(Seq(Roots))
  BY EmptySeq
<1>16. QED
  BY <1>1, <1>12, <1>14, <1>15, VisitKeeps

\* VisitCandidate: a candidate is dropped, or placed and taken out of the list.
LEMMA VisitingCandidate ==
  ASSUME Analysis, VisitCandidate
  PROVE  Analysis'
<1> DEFINE S == Roots
           T == Seq(S)
<1>1. Ordering /\ visits # <<>> /\ Head(visits) # <<>> /\ UNCHANGED next_file
  BY Zenon DEF VisitCandidate
<1>2. /\ stage = "order" /\ UNCHANGED <<vars, archive, stage, selections>>
      /\ archive \in Archives /\ Selects(selections) /\ placed \in Seq(S) /\ visits \in Seq(T)
      /\ next_file \in Files \cup {1}
  BY <1>1, OrderIs DEF Ordering
<1>3. Head(visits) \in T /\ Tail(visits) \in Seq(T)
  <2> HIDE DEF T
  <2>1. QED
    BY <1>1, <1>2, HeadTailProperties
<1>4. PICK c : c = Head(visits)
  BY Zenon
<1>5. PICK k : k = ChosenIndex(c)
  BY Zenon
<1>6. /\ c \in Seq(S) /\ c # <<>> /\ Len(c) \in Nat /\ k \in 1 .. Len(c)
      /\ \A i \in 1 .. Len(c) : c[i] \in S
  <2>1. c \in Seq(S) /\ c # <<>>
    BY <1>1, <1>3, <1>4
  <2>2. k \in 1 .. Len(c)
    BY <1>2, <1>5, <2>1, ChosenIs
  <2> HIDE DEF S
  <2>3. Len(c) \in Nat /\ \A i \in 1 .. Len(c) : c[i] \in S
    BY <2>1, LenProperties, ElementOfSeq
  <2>4. QED
    BY <2>1, <2>2, <2>3
<1>7. IF c[k] \in Range(placed)
      THEN visits' = <<Front(c)>> \o Tail(visits) /\ UNCHANGED placed
      ELSE Visit(c[k], <<RemoveAt(c, k)>> \o Tail(visits))
  BY <1>4, <1>5, Zenon DEF VisitCandidate
<1>8. Front(c) \in T /\ RemoveAt(c, k) \in T
  <2> DEFINE m == Len(c)
  <2>1. m \in Nat /\ k \in 1 .. m /\ \A i \in 1 .. m : c[i] \in S
    BY <1>6
  <2> HIDE DEF S, m
  <2>2. \A i \in 1 .. m - 1 : c[i] \in S
    BY <2>1
  <2>3. \A i \in 1 .. k - 1 : c[i] \in S
    BY <2>1
  <2>4. \A i \in k + 1 .. m : c[i] \in S
    BY <2>1
  <2>5. SubSeq(c, 1, m - 1) \in Seq(S)
    BY <2>1, <2>2, SubSeqProperties
  <2>6. SubSeq(c, 1, k - 1) \in Seq(S)
    BY <2>1, <2>3, SubSeqProperties
  <2>7. SubSeq(c, k + 1, m) \in Seq(S)
    BY <2>1, <2>4, SubSeqProperties
  <2>8. QED
    BY <2>5, <2>6, <2>7, ConcatProperties DEF Front, RemoveAt, m
<1>9. \A x \in T : <<x>> \o Tail(visits) \in Seq(T)
  <2> HIDE DEF T
  <2>1. \A x \in T : <<x>> \in Seq(T)
    OBVIOUS
  <2>2. QED
    BY <1>3, <2>1, ConcatProperties
<1>10. CASE c[k] \in Range(placed)
  <2>1. visits' \in Seq(T) /\ placed' \in Seq(S)
    BY <1>2, <1>7, <1>8, <1>9, <1>10
  <2>2. next_file' \in Files \cup {1}
    BY <1>1, <1>2
  <2>3. QED
    BY <1>2, <2>1, <2>2, OrderStep
<1>11. CASE c[k] \notin Range(placed)
  <2>1. PICK calls : calls = <<RemoveAt(c, k)>> \o Tail(visits)
    BY Zenon
  <2>2. calls \in Seq(T) /\ Visit(c[k], calls) /\ c[k] \in Roots
    BY <1>6, <1>7, <1>8, <1>9, <1>11, <2>1
  <2>3. next_file' \in Files \cup {1}
    BY <1>1, <1>2
  <2>4. QED
    BY <1>1, <2>2, <2>3, VisitKeeps
<1>12. QED
  BY <1>10, <1>11

\* EndVisit.
LEMMA EndingVisit ==
  ASSUME Analysis, EndVisit
  PROVE  Analysis'
<1> DEFINE S == Roots
           T == Seq(S)
<1>1. Ordering /\ visits # <<>> /\ visits' = Tail(visits) /\ UNCHANGED <<placed, next_file>>
  BY Zenon DEF EndVisit
<1>2. /\ stage = "order" /\ UNCHANGED <<vars, archive, stage, selections>>
      /\ placed \in Seq(S) /\ visits \in Seq(T) /\ next_file \in Files \cup {1}
  BY <1>1, OrderIs DEF Ordering
<1>3. visits' \in Seq(T)
  <2> HIDE DEF T
  <2>1. QED
    BY <1>1, <1>2, HeadTailProperties
<1>4. QED
  BY <1>1, <1>2, <1>3, OrderStep

-----------------------------------------------------------------------------
(* Segments *)

\* Numbers in ascending order: what comes after one of them is the next one.
Ascending(B, q) ==
  /\ q \in Seq(B) /\ \A b \in B : \E k \in DOMAIN q : q[k] = b
  /\ \A k \in DOMAIN q, c \in B :
       c > q[k] => k < Len(q) /\ q[k] < q[k + 1] /\ q[k + 1] <= c

\* InOrder puts a finite set of numbers so.
LEMMA AscendingIs ==
  ASSUME NEW B, B \subseteq Nat, IsFiniteSet(B)
  PROVE  Ascending(B, InOrder(B, {p \in B \X B : p[1] < p[2]}))
<1> DEFINE R == {p \in B \X B : p[1] < p[2]}
<1>1. \A b, c \in B : <<b, c>> \in R <=> b < c
  OBVIOUS
<1>2. StrictOrder(B, R)
  <2>1. \A b \in B : b \in Nat
    OBVIOUS
  <2> HIDE DEF R
  <2>2. QED
    BY <1>1, <2>1 DEF StrictOrder
<1> HIDE DEF R
<1>3. PICK q : q = InOrder(B, R)
  BY Zenon
<1>4. /\ q \in Seq(B)
      /\ \A x \in B : \E k \in DOMAIN q : q[k] = x
      /\ \A k \in DOMAIN q, x \in B :
           <<q[k], x>> \in R =>
             /\ k < Len(q) /\ <<q[k], q[k + 1]>> \in R
             /\ x = q[k + 1] \/ <<q[k + 1], x>> \in R
  <2>1. PICK o : o = InOrder(B, R)
    BY Zenon
  <2>2. /\ o \in Seq(B)
        /\ \A x \in B : \E k \in DOMAIN o : o[k] = x
        /\ \A k \in DOMAIN o, x \in B :
             <<o[k], x>> \in R =>
               /\ k < Len(o) /\ <<o[k], o[k + 1]>> \in R
               /\ x = o[k + 1] \/ <<o[k + 1], x>> \in R
    BY <1>2, <2>1, InOrderIs
  <2>3. q = o
    BY <1>3, <2>1
  <2>4. QED
    BY <2>2, <2>3, Zenon
<1>5. DOMAIN q = 1 .. Len(q) /\ Len(q) \in Nat /\ \A k \in DOMAIN q : q[k] \in B
  <2>1. q \in Seq(B)
    BY <1>4
  <2>2. QED
    BY <2>1, LenProperties, ElementOfSeq
<1>6. ASSUME NEW k \in DOMAIN q, NEW c \in B, c > q[k]
      PROVE  k < Len(q) /\ q[k] < q[k + 1] /\ q[k + 1] <= c
  <2>1. q[k] \in B /\ q[k] \in Nat /\ c \in Nat
    BY <1>5
  <2>2. <<q[k], c>> \in R
    BY <1>1, <1>6, <2>1
  <2>3. /\ k < Len(q) /\ <<q[k], q[k + 1]>> \in R
        /\ c = q[k + 1] \/ <<q[k + 1], c>> \in R
    BY <1>4, <2>2
  <2>4. q[k + 1] \in B /\ q[k + 1] \in Nat
    <3>1. k + 1 \in DOMAIN q
      BY <1>5, <2>3
    <3>2. QED
      BY <1>5, <3>1
  <2>5. <<q[k], q[k + 1]>> \in R <=> q[k] < q[k + 1]
    BY <1>1, <2>1, <2>4
  <2>6. <<q[k + 1], c>> \in R <=> q[k + 1] < c
    BY <1>1, <2>1, <2>4
  <2>7. c = q[k + 1] \/ q[k + 1] < c
    BY <2>3, <2>6
  <2>8. q[k + 1] <= c
    BY <2>1, <2>4, <2>7
  <2>9. QED
    BY <2>3, <2>5, <2>8
<1>7. Ascending(B, q)
  BY <1>4, <1>6 DEF Ascending
<1>8. QED
  BY <1>3, <1>7 DEF R

\* The boundaries of a root, as one starts a segment of the buffer.
StartsSegments(root, t) ==
  \A b \in Boundaries(root) : \E k \in DOMAIN t : t[k] = <<root[1], b>>

\* The segments start at the boundaries of the roots that are placed, and behind a boundary
\* comes the next one of the same root.
LEMMA SegmentStartsAre ==
  ASSUME archive \in Archives, Selects(selections), placed \in Seq(Roots)
  PROVE  /\ Len(SegmentStarts) \in Nat /\ DOMAIN SegmentStarts = 1 .. Len(SegmentStarts)
         /\ \A k \in DOMAIN SegmentStarts :
              /\ SegmentStarts[k] = <<SegmentStarts[k][1], SegmentStarts[k][2]>>
              /\ SegmentStarts[k][1] \in Files /\ SegmentStarts[k][2] \in Starts(SegmentStarts[k][1])
         /\ \A k \in DOMAIN SegmentStarts :
              \A c \in Boundaries(RootOf(SegmentStarts[k][1], SegmentStarts[k][2])) :
                c > SegmentStarts[k][2] =>
                  /\ k < Len(SegmentStarts)
                  /\ SegmentStarts[k + 1][1] = SegmentStarts[k][1]
                  /\ SegmentStarts[k][2] < SegmentStarts[k + 1][2] /\ SegmentStarts[k + 1][2] <= c
                  /\ RootOf(SegmentStarts[k + 1][1], SegmentStarts[k + 1][2])
                       = RootOf(SegmentStarts[k][1], SegmentStarts[k][2])
         /\ \A root \in Range(placed) : StartsSegments(root, SegmentStarts)
<1> DEFINE B(i) == Boundaries(placed[i])
           asc(i) == InOrder(B(i), {p \in B(i) \X B(i) : p[1] < p[2]})
           parts == [i \in DOMAIN placed |-> [k \in DOMAIN asc(i) |-> <<placed[i][1], asc(i)[k]>>]]
           P == Files \X Nat
           t == FlattenSeq(parts)
<1>1. SegmentStarts = t
  BY DEF SegmentStarts
<1>2. /\ Len(placed) \in Nat /\ DOMAIN placed = 1 .. Len(placed)
      /\ \A i \in 1 .. Len(placed) : placed[i] \in Roots
  <2> DEFINE S == Roots
  <2> HIDE DEF S
  <2>1. placed \in Seq(S)
    BY DEF S
  <2>2. /\ Len(placed) \in Nat /\ DOMAIN placed = 1 .. Len(placed)
        /\ \A i \in 1 .. Len(placed) : placed[i] \in S
    BY <2>1, LenProperties, ElementOfSeq
  <2>3. QED
    BY <2>2 DEF S
<1>3. ASSUME NEW i \in DOMAIN placed
      PROVE  /\ placed[i][1] \in Files /\ B(i) \subseteq Starts(placed[i][1]) /\ B(i) \subseteq Nat
             /\ IsFiniteSet(B(i)) /\ \A b \in B(i) : RootOf(placed[i][1], b) = placed[i]
  <2>1. PICK root \in Roots : root = placed[i]
    BY <1>2
  <2>2. /\ root[1] \in Files /\ Boundaries(root) \subseteq Starts(root[1])
        /\ \A b \in Boundaries(root) : b \in Nat /\ RootOf(root[1], b) = root
    BY <2>1, RootIs
  <2>3. IsFiniteSet(Boundaries(root))
    BY <2>2, StartsFinite, FS_Subset
  <2>4. QED
    BY <2>1, <2>2, <2>3
<1>4. ASSUME NEW i \in DOMAIN placed
      PROVE  /\ asc(i) \in Seq(B(i)) /\ \A b \in B(i) : \E k \in DOMAIN asc(i) : asc(i)[k] = b
             /\ \A k \in DOMAIN asc(i), c \in B(i) :
                  c > asc(i)[k] => /\ k < Len(asc(i)) /\ asc(i)[k] < asc(i)[k + 1]
                                   /\ asc(i)[k + 1] <= c
  <2>1. B(i) \subseteq Nat /\ IsFiniteSet(B(i))
    BY <1>3
  <2>2. Ascending(B(i), asc(i))
    <3> HIDE DEF B
    <3>1. QED
      BY <2>1, AscendingIs
  <2> HIDE DEF asc, B
  <2>3. QED
    BY <2>2 DEF Ascending
<1> HIDE DEF asc
<1>5. ASSUME NEW i \in DOMAIN placed
      PROVE  /\ Len(asc(i)) \in Nat /\ DOMAIN asc(i) = 1 .. Len(asc(i))
             /\ \A k \in DOMAIN asc(i) : asc(i)[k] \in B(i)
  <2> HIDE DEF B
  <2>1. QED
    BY <1>4, LenProperties, ElementOfSeq
<1>6. ASSUME NEW i \in DOMAIN placed
      PROVE  /\ parts[i] \in Seq(P) /\ Len(parts[i]) = Len(asc(i)) /\ DOMAIN parts[i] = DOMAIN asc(i)
             /\ \A k \in DOMAIN asc(i) : parts[i][k] = <<placed[i][1], asc(i)[k]>>
  <2>1. PICK q : q = asc(i)
    BY Zenon
  <2>2. PICK f : f = placed[i][1]
    BY Zenon
  <2>3. PICK n : n = Len(q)
    BY Zenon
  <2>4. n \in Nat /\ DOMAIN q = 1 .. n /\ f \in Files /\ \A k \in DOMAIN q : q[k] \in Nat
    BY <1>3, <1>5, <2>1, <2>2, <2>3
  <2>5. parts[i] = [k \in 1 .. n |-> <<f, q[k]>>]
    BY <2>1, <2>2, <2>4
  <2>6. parts[i] \in [1 .. n -> P]
    BY <2>4, <2>5
  <2> HIDE DEF P, parts
  <2>7. parts[i] \in Seq(P) /\ Len(parts[i]) = n
    BY <2>4, <2>6
  <2>8. QED
    BY <2>1, <2>2, <2>3, <2>4, <2>5, <2>7
<1>7. parts \in Seq(Seq(P)) /\ Len(parts) = Len(placed) /\ DOMAIN parts = DOMAIN placed
  <2> DEFINE T == Seq(P)
  <2>1. DOMAIN parts = DOMAIN placed
    OBVIOUS
  <2> HIDE DEF parts
  <2>2. \A i \in 1 .. Len(placed) : parts[i] \in T
    BY <1>2, <1>6
  <2>3. parts = [i \in 1 .. Len(placed) |-> parts[i]]
    <3>1. parts = [i \in DOMAIN placed |-> parts[i]]
      BY DEF parts
    <3>2. QED
      BY <1>2, <3>1
  <2> HIDE DEF T
  <2>4. parts \in [1 .. Len(placed) -> T]
    BY <2>2, <2>3
  <2>5. parts \in Seq(T) /\ Len(parts) = Len(placed)
    BY <1>2, <2>4
  <2>6. QED
    BY <2>1, <2>5 DEF T
<1> HIDE DEF parts
<1>8. t \in Seq(P) /\ Joins(t, parts, Len(placed))
  <2> HIDE DEF P
  <2>1. QED
    BY <1>7, FlattenJoins
<1> HIDE DEF t
<1>9. Len(t) \in Nat /\ DOMAIN t = 1 .. Len(t)
  <2> HIDE DEF P
  <2>1. QED
    BY <1>8, LenProperties
<1>10. ASSUME NEW k \in DOMAIN t
       PROVE  \E i \in DOMAIN placed : \E j \in DOMAIN asc(i) :
                /\ t[k] = <<placed[i][1], asc(i)[j]>>
                /\ j < Len(asc(i)) => k < Len(t) /\ t[k + 1] = <<placed[i][1], asc(i)[j + 1]>>
  <2>1. PICK i \in 1 .. Len(placed) : \E j \in DOMAIN parts[i] :
               /\ t[k] = parts[i][j]
               /\ j < Len(parts[i]) => k < Len(t) /\ t[k + 1] = parts[i][j + 1]
    BY <1>8 DEF Joins
  <2>2. PICK j \in DOMAIN parts[i] :
               /\ t[k] = parts[i][j]
               /\ j < Len(parts[i]) => k < Len(t) /\ t[k + 1] = parts[i][j + 1]
    BY <2>1
  <2>3. i \in DOMAIN placed /\ j \in DOMAIN asc(i)
    BY <1>2, <1>6, <2>2
  <2>4. j < Len(asc(i)) => j + 1 \in DOMAIN asc(i)
    BY <1>5, <2>3
  <2>5. QED
    BY <1>6, <2>2, <2>3, <2>4
<1>11. ASSUME NEW k \in DOMAIN t
       PROVE  /\ t[k] = <<t[k][1], t[k][2]>> /\ t[k][1] \in Files /\ t[k][2] \in Starts(t[k][1])
              /\ \A c \in Boundaries(RootOf(t[k][1], t[k][2])) :
                   c > t[k][2] =>
                     /\ k < Len(t) /\ t[k + 1][1] = t[k][1]
                     /\ t[k][2] < t[k + 1][2] /\ t[k + 1][2] <= c
                     /\ RootOf(t[k + 1][1], t[k + 1][2]) = RootOf(t[k][1], t[k][2])
  <2>1. PICK i \in DOMAIN placed : \E j \in DOMAIN asc(i) :
                /\ t[k] = <<placed[i][1], asc(i)[j]>>
                /\ j < Len(asc(i)) => k < Len(t) /\ t[k + 1] = <<placed[i][1], asc(i)[j + 1]>>
    BY <1>10
  <2>2. PICK j \in DOMAIN asc(i) :
                /\ t[k] = <<placed[i][1], asc(i)[j]>>
                /\ j < Len(asc(i)) => k < Len(t) /\ t[k + 1] = <<placed[i][1], asc(i)[j + 1]>>
    BY <2>1
  <2>3. t[k][1] = placed[i][1] /\ t[k][2] = asc(i)[j] /\ asc(i)[j] \in B(i)
    BY <1>5, <2>2
  <2>4. t[k][1] \in Files /\ t[k][2] \in Starts(t[k][1]) /\ RootOf(t[k][1], t[k][2]) = placed[i]
    BY <1>3, <2>3
  <2>5. ASSUME NEW c \in B(i), c > t[k][2]
        PROVE  /\ k < Len(t) /\ t[k + 1][1] = t[k][1]
               /\ t[k][2] < t[k + 1][2] /\ t[k + 1][2] <= c
               /\ RootOf(t[k + 1][1], t[k + 1][2]) = placed[i]
    <3>1. j < Len(asc(i)) /\ asc(i)[j] < asc(i)[j + 1] /\ asc(i)[j + 1] <= c
      BY <1>4, <2>3, <2>5
    <3>2. k < Len(t) /\ t[k + 1][1] = placed[i][1] /\ t[k + 1][2] = asc(i)[j + 1]
      BY <2>2, <3>1
    <3>3. asc(i)[j + 1] \in B(i)
      <4>1. j + 1 \in DOMAIN asc(i)
        BY <1>5, <3>1
      <4>2. QED
        BY <1>5, <4>1
    <3>4. RootOf(placed[i][1], asc(i)[j + 1]) = placed[i]
      BY <1>3, <3>3
    <3>5. QED
      BY <2>3, <3>1, <3>2, <3>4
  <2>6. t[k] = <<t[k][1], t[k][2]>>
    BY <2>2, <2>3
  <2>7. QED
    BY <2>4, <2>5, <2>6
<1>12. ASSUME NEW root \in Range(placed) PROVE StartsSegments(root, t)
  <2>1. PICK i \in DOMAIN placed : root = placed[i]
    BY DEF Range
  <2>2. SUFFICES ASSUME NEW b \in B(i) PROVE \E k \in DOMAIN t : t[k] = <<placed[i][1], b>>
    BY <2>1 DEF StartsSegments
  <2>3. PICK j \in DOMAIN asc(i) : asc(i)[j] = b
    BY <1>4
  <2>4. j \in DOMAIN parts[i] /\ parts[i][j] = <<placed[i][1], b>> /\ i \in 1 .. Len(placed)
    BY <1>2, <1>6, <2>3
  <2>5. \E k \in DOMAIN t : t[k] = parts[i][j]
    BY <1>8, <2>4 DEF Joins
  <2>6. QED
    BY <2>4, <2>5
<1>13. QED
  BY <1>1, <1>9, <1>11, <1>12

\* A segment ends at the next boundary, or with its root.
LEMMA SegmentEndIs ==
  ASSUME archive \in Archives, Selects(selections), NEW at, NEW f \in Files, NEW b \in Starts(f),
         at = <<f, b>>, NEW root, root = RootOf(f, b)
  PROVE  /\ SegmentEnd(at) \in Nat /\ b < SegmentEnd(at) /\ SegmentEnd(at) <= RootEnd(root)
         /\ \A c \in Boundaries(root) : c > b => SegmentEnd(at) <= c
         /\ SegmentEnd(at) = RootEnd(root) <=> \A c \in Boundaries(root) : ~(c > b)
         /\ SegmentEnd(at) # RootEnd(root) => SegmentEnd(at) \in Boundaries(root)
<1> DEFINE N == {c \in Boundaries(root) : c > b}
           S == {RootEnd(root)} \cup N
<1>1. root \in Roots /\ b \in Boundaries(root)
  BY RootOfStart
<1>2. /\ RootEnd(root) \in Nat /\ b \in Nat /\ b < RootEnd(root)
      /\ \A c \in Boundaries(root) : c \in Nat /\ c < RootEnd(root)
  BY <1>1, RootIs
<1>3. SegmentEnd(at) = Min(S)
  <2>1. at[1] = f /\ at[2] = b
    OBVIOUS
  <2>2. QED
    BY <2>1 DEF SegmentEnd
<1>4. S \subseteq Nat /\ S # {}
  BY <1>2
<1>5. PICK e : e = Min(S)
  BY Zenon
<1>6. e \in S /\ \A y \in S : e <= y
  <2> HIDE DEF S
  <2>1. QED
    BY <1>4, <1>5, LeastIs
<1>7. e \in Nat /\ b < e /\ e <= RootEnd(root) /\ \A c \in N : e <= c
  BY <1>2, <1>4, <1>6
<1>8. e # RootEnd(root) => e \in N
  BY <1>6
<1>9. N # {} => e # RootEnd(root)
  <2> SUFFICES ASSUME NEW c \in N, e = RootEnd(root) PROVE FALSE
    OBVIOUS
  <2>1. c \in Nat /\ c < RootEnd(root) /\ e <= c
    BY <1>2, <1>7
  <2>2. QED
    BY <1>2, <2>1
<1>10. QED
  BY <1>3, <1>5, <1>7, <1>8, <1>9

\* The bytes of adjacent stretches, one behind the other.
LEMMA BytesJoined ==
  ASSUME archive \in Archives, NEW f \in Files, NEW b \in Nat, NEW c \in Nat, NEW e \in Nat,
         b <= c, c <= e, e <= Length(f)
  PROVE  Bytes(f, b, c - b) \o Bytes(f, c, e - c) = Bytes(f, b, e - b)
<1> DEFINE B == 0 .. 255
           s == archive.inputs[f]
<1>1. s \in Seq(B) /\ Len(s) \in Nat /\ e <= Len(s)
  BY FilesAre DEF Length
<1>2. /\ Bytes(f, b, c - b) = SubSeq(s, b + 1, c) /\ Bytes(f, c, e - c) = SubSeq(s, c + 1, e)
      /\ Bytes(f, b, e - b) = SubSeq(s, b + 1, e)
  <2>1. b + (c - b) = c /\ c + (e - c) = e /\ b + (e - b) = e
    OBVIOUS
  <2>2. QED
    BY <2>1 DEF Bytes
<1> HIDE DEF B, s
<1>3. b + 1 \in 1 .. Len(s) + 1 /\ c \in (b + 1) - 1 .. Len(s) /\ e \in c .. Len(s)
  BY <1>1
<1>4. SubSeq(s, b + 1, c) \o SubSeq(s, c + 1, e) = SubSeq(s, b + 1, e)
  BY <1>1, <1>3, ConcatAdjacentSubSeq
<1>5. QED
  BY <1>2, <1>4

-----------------------------------------------------------------------------
(* What segments decode to *)

\* from is what each segment and those it runs on into decode to.
Runs(from, segments) ==
  from = [i \in DOMAIN segments |->
            IF segments[i].emit_end /\ i + 1 \in DOMAIN segments
            THEN segments[i].raw \o from[i + 1] ELSE segments[i].raw]

\* There is one such function.
LEMMA RunsUnique ==
  ASSUME NEW s, NEW n \in Nat, DOMAIN s = 1 .. n, NEW g, NEW h, Runs(g, s), Runs(h, s)
  PROVE  \A k \in 1 .. n : g[k] = h[k]
<1> DEFINE G == {m \in Nat : \A k \in 1 .. n : k + m > n => g[k] = h[k]}
<1>1. \A k \in 1 .. n : /\ g[k] = IF s[k].emit_end /\ k + 1 \in 1 .. n THEN s[k].raw \o g[k + 1]
                                  ELSE s[k].raw
                        /\ h[k] = IF s[k].emit_end /\ k + 1 \in 1 .. n THEN s[k].raw \o h[k + 1]
                                  ELSE s[k].raw
  BY Zenon DEF Runs
<1>2. 0 \in G
  OBVIOUS
<1>3. ASSUME NEW m \in Nat, m \in G PROVE m + 1 \in G
  <2> SUFFICES ASSUME NEW k \in 1 .. n, k + (m + 1) > n PROVE g[k] = h[k]
    OBVIOUS
  <2>1. k + 1 \in 1 .. n => g[k + 1] = h[k + 1]
    <3>1. \A j \in 1 .. n : j + m > n => g[j] = h[j]
      BY <1>3
    <3>2. (k + 1) + m > n
      OBVIOUS
    <3>3. QED
      BY <3>1, <3>2
  <2>2. QED
    BY <1>1, <2>1, Zenon
<1>4. Nat \subseteq G
  <2> HIDE DEF G
  <2>1. QED
    BY <1>2, <1>3, NaturalSteps
<1>5. n \in G
  BY <1>4
<1>6. \A k \in 1 .. n : k + n > n
  OBVIOUS
<1>7. QED
  BY <1>5, <1>6

\* RunFrom is it.
LEMMA RunFromIs ==
  ASSUME NEW s, NEW n \in Nat, DOMAIN s = 1 .. n, NEW g, Runs(g, s), NEW k \in 1 .. n
  PROVE  RunFrom(s, k) = g[k]
<1> DEFINE R(h) == Runs(h, s)
           from == CHOOSE h : R(h)
<1>1. RunFrom(s, k) = from[k]
  BY DEF RunFrom, Runs
<1>2. \E h : R(h)
  OBVIOUS
<1>3. R(from)
  <2> HIDE DEF R
  <2>1. QED
    BY <1>2
<1> HIDE DEF from
<1>4. from[k] = g[k]
  BY <1>3, RunsUnique
<1>5. QED
  BY <1>1, <1>4

\* What the root of a start holds from there on.
RestOf(at) == Bytes(at[1], at[2], RootEnd(RootOf(at[1], at[2])) - at[2])

\* Each segment of the common buffer, with the segments it runs on into, is the rest of its root.
LEMMA SegmentsAre ==
  ASSUME archive \in Archives, Selects(selections), placed \in Seq(Roots)
  PROVE  /\ CommonSegments \in Seq([raw : Seq(0 .. 255), emit_end : BOOLEAN])
         /\ DOMAIN CommonSegments = DOMAIN SegmentStarts
         /\ \A k \in DOMAIN SegmentStarts : RunFrom(CommonSegments, k) = RestOf(SegmentStarts[k])
<1> DEFINE t == SegmentStarts
           n == Len(t)
           End(k) == SegmentEnd(t[k])
           root(k) == RootOf(t[k][1], t[k][2])
           Raw(k) == Bytes(t[k][1], t[k][2], End(k) - t[k][2])
           RunsOn(k) == End(k) < RootEnd(root(k)) \/ k = n
           g == [k \in 1 .. n |-> RestOf(t[k])]
           c == CommonSegments
<1>1. /\ n \in Nat /\ DOMAIN t = 1 .. n
      /\ \A k \in 1 .. n : /\ t[k] = <<t[k][1], t[k][2]>> /\ t[k][1] \in Files
                           /\ t[k][2] \in Starts(t[k][1])
      /\ \A k \in 1 .. n : \A b \in Boundaries(root(k)) :
           b > t[k][2] => /\ k < n /\ t[k + 1][1] = t[k][1]
                          /\ t[k][2] < t[k + 1][2] /\ t[k + 1][2] <= b
                          /\ root(k + 1) = root(k)
  BY SegmentStartsAre
<1>2. c = [k \in 1 .. n |-> [raw |-> Raw(k), emit_end |-> RunsOn(k)]]
  BY <1>1 DEF CommonSegments
<1> HIDE DEF t, c
<1>3. ASSUME NEW k \in 1 .. n
      PROVE  /\ t[k][1] \in Files /\ t[k][2] \in Nat /\ t[k][2] < End(k) /\ End(k) \in Nat
             /\ End(k) <= RootEnd(root(k)) /\ root(k) \in Roots /\ t[k][2] \in Boundaries(root(k))
             /\ RootEnd(root(k)) \in Nat /\ RootEnd(root(k)) <= Length(t[k][1])
             /\ \A b \in Boundaries(root(k)) : b > t[k][2] => End(k) <= b
             /\ End(k) = RootEnd(root(k)) <=> \A b \in Boundaries(root(k)) : ~(b > t[k][2])
             /\ End(k) # RootEnd(root(k)) => End(k) \in Boundaries(root(k))
  <2>1. PICK at : at = t[k]
    BY Zenon
  <2>2. at = <<at[1], at[2]>> /\ at[1] \in Files /\ at[2] \in Starts(at[1])
    BY <1>1, <2>1
  <2>3. PICK r : r = RootOf(at[1], at[2])
    BY Zenon
  <2>4. r \in Roots /\ r[1] = at[1] /\ at[2] \in Boundaries(r)
    BY <2>2, <2>3, RootOfStart
  <2>5. RootEnd(r) \in Nat /\ RootEnd(r) <= Length(at[1]) /\ at[2] \in Nat
    BY <2>4, RootIs
  <2>6. /\ SegmentEnd(at) \in Nat /\ at[2] < SegmentEnd(at) /\ SegmentEnd(at) <= RootEnd(r)
        /\ \A b \in Boundaries(r) : b > at[2] => SegmentEnd(at) <= b
        /\ SegmentEnd(at) = RootEnd(r) <=> \A b \in Boundaries(r) : ~(b > at[2])
        /\ SegmentEnd(at) # RootEnd(r) => SegmentEnd(at) \in Boundaries(r)
    BY <2>2, <2>3, SegmentEndIs
  <2>7. QED
    BY <2>1, <2>2, <2>3, <2>4, <2>5, <2>6
<1>4. ASSUME NEW k \in 1 .. n PROVE Raw(k) \in Seq(0 .. 255)
  <2>1. PICK f : f = t[k][1]
    BY Zenon
  <2>2. PICK b : b = t[k][2]
    BY Zenon
  <2>3. PICK e : e = End(k)
    BY Zenon
  <2>4. PICK l : l = Length(f)
    BY Zenon
  <2>5. PICK r : r = RootEnd(root(k))
    BY Zenon
  <2>6. f \in Files /\ b \in Nat /\ e \in Nat /\ b < e /\ e <= r /\ r <= l /\ r \in Nat /\ l \in Nat
    BY <1>3, <2>1, <2>2, <2>3, <2>4, <2>5, FilesAre
  <2>7. e - b \in Nat /\ b + (e - b) <= l
    BY <2>6
  <2>8. Bytes(f, b, e - b) \in Seq(0 .. 255)
    BY <2>4, <2>6, <2>7, BytesAre
  <2>9. QED
    BY <2>1, <2>2, <2>3, <2>8
<1> HIDE DEF n
<1>5. c \in Seq([raw : Seq(0 .. 255), emit_end : BOOLEAN])
  <2> DEFINE A == Seq(0 .. 255)
             F == [raw : A, emit_end : BOOLEAN]
  <2>1. \A k \in 1 .. n : Raw(k) \in A /\ RunsOn(k) \in BOOLEAN
    BY <1>4
  <2> HIDE DEF A, Raw, RunsOn
  <2>2. \A k \in 1 .. n : [raw |-> Raw(k), emit_end |-> RunsOn(k)] \in F
    BY <2>1
  <2> HIDE DEF F
  <2>3. c \in [1 .. n -> F]
    BY <1>2, <2>2
  <2>4. c \in Seq(F)
    BY <1>1, <2>3
  <2>5. QED
    BY <2>4 DEF F, A
<1>6. DOMAIN c = 1 .. n /\ \A k \in 1 .. n : c[k].raw = Raw(k) /\ c[k].emit_end = RunsOn(k)
  <2> HIDE DEF Raw, RunsOn
  <2>1. QED
    BY <1>2
\* The segment runs on exactly when there is a next boundary, where the next one starts.
<1>7. ASSUME NEW k \in 1 .. n
      PROVE  g[k] = IF c[k].emit_end /\ k + 1 \in DOMAIN c THEN c[k].raw \o g[k + 1] ELSE c[k].raw
  <2>1. PICK f : f = t[k][1]
    BY Zenon
  <2>2. PICK b : b = t[k][2]
    BY Zenon
  <2>3. PICK e : e = End(k)
    BY Zenon
  <2>4. PICK r : r = RootEnd(root(k))
    BY Zenon
  <2>5. f \in Files /\ b \in Nat /\ e \in Nat /\ b < e /\ e <= r /\ r <= Length(f) /\ r \in Nat
    BY <1>3, <2>1, <2>2, <2>3, <2>4
  <2>6. g[k] = Bytes(f, b, r - b) /\ c[k].raw = Bytes(f, b, e - b)
    BY <1>6, <2>1, <2>2, <2>3, <2>4 DEF RestOf
  <2>7. c[k].emit_end <=> e < r \/ k = n
    BY <1>6, <2>3, <2>4
  <2>8. CASE e = r
    <3>1. ~(c[k].emit_end /\ k + 1 \in DOMAIN c)
      BY <1>1, <1>6, <2>5, <2>7, <2>8
    <3>2. QED
      BY <2>6, <2>8, <3>1
  <2>9. CASE e # r
    <3>1. e < r /\ c[k].emit_end
      BY <2>5, <2>7, <2>9
    <3>2. e \in Boundaries(root(k)) /\ e > b
      BY <1>3, <2>3, <2>4, <2>5, <2>9
    <3>3. /\ k < n /\ t[k + 1][1] = f /\ b < t[k + 1][2] /\ t[k + 1][2] <= e
          /\ root(k + 1) = root(k)
      BY <1>1, <2>1, <2>2, <3>2
    <3>4. k + 1 \in 1 .. n
      BY <1>1, <3>3
    <3>5. t[k + 1][2] \in Boundaries(root(k)) /\ t[k + 1][2] \in Nat
      BY <1>3, <3>3, <3>4
    <3>6. e <= t[k + 1][2]
      BY <1>3, <2>2, <2>3, <2>5, <3>3, <3>5
    <3>7. t[k + 1][2] = e
      BY <2>5, <3>3, <3>5, <3>6
    <3>8. g[k + 1] = Bytes(f, e, r - e)
      <4>1. g[k + 1] = RestOf(t[k + 1])
        BY <3>4
      <4>2. RestOf(t[k + 1]) = Bytes(f, e, RootEnd(root(k + 1)) - e)
        BY <3>3, <3>7, Zenon DEF RestOf
      <4>3. RootEnd(root(k + 1)) = r
        BY <2>4, <3>3, Zenon
      <4>4. QED
        BY <4>1, <4>2, <4>3
    <3>9. c[k].raw \o g[k + 1] = g[k]
      <4>1. b <= e
        BY <2>5
      <4>2. Bytes(f, b, e - b) \o Bytes(f, e, r - e) = Bytes(f, b, r - b)
        BY <2>5, <4>1, BytesJoined
      <4>3. QED
        BY <2>6, <3>8, <4>2, Zenon
    <3>10. QED
      BY <1>6, <3>1, <3>4, <3>9
  <2>10. QED
    BY <2>8, <2>9
<1>8. Runs(g, c)
  <2>1. g = [k \in 1 .. n |-> g[k]]
    OBVIOUS
  <2> HIDE DEF g
  <2>2. g = [k \in DOMAIN c |-> IF c[k].emit_end /\ k + 1 \in DOMAIN c
                                THEN c[k].raw \o g[k + 1] ELSE c[k].raw]
    BY <1>6, <1>7, <2>1
  <2>3. QED
    BY <2>2 DEF Runs
<1>9. \A k \in 1 .. n : RunFrom(c, k) = g[k]
  <2> HIDE DEF g
  <2>1. QED
    BY <1>1, <1>6, <1>8, RunFromIs
<1>10. QED
  BY <1>1, <1>5, <1>6, <1>9 DEF c, t

-----------------------------------------------------------------------------
(* The job of an input *)

\* The segment that a selection refers to, and the reference that comes of it.
SegmentOf(s) == CHOOSE k \in DOMAIN SegmentStarts : SegmentStarts[k] = <<s.source, s.from>>
ReferenceOf(s) == [position |-> s.position, length |-> s.length, segment |-> SegmentOf(s)]

\* Each selection's segment is there, and decodes to bytes that the selection begins with.
LEMMA SegmentOfIs ==
  ASSUME archive \in Archives, Selects(selections), placed \in Seq(Roots), Unplaced = {},
         NEW s \in selections
  PROVE  /\ SegmentOf(s) \in DOMAIN CommonSegments /\ SegmentOf(s) \in Nat
         /\ IsPrefix(SubSeq(archive.inputs[s.file], s.position + 1, s.position + s.length),
                     RunFrom(CommonSegments, SegmentOf(s)))
<1>1. /\ s.file \in Files /\ s.source \in Files
      /\ s.position \in Nat /\ s.from \in Nat /\ s.length \in Nat
      /\ s.position + s.length <= Length(s.file) /\ s.from + s.length <= Length(s.source)
      /\ SameAt(s.file, s.position, s.source, s.from, s.length)
  <2>1. SameAt(s.file, s.position, s.source, s.from, s.length)
    BY DEF Selects
  <2>2. QED
    BY <2>1, SelectedIs
<1>2. PICK f : f = s.file
  BY Zenon
<1>3. PICK p : p = s.position
  BY Zenon
<1>4. PICK g : g = s.source
  BY Zenon
<1>5. PICK b : b = s.from
  BY Zenon
<1>6. PICK n : n = s.length
  BY Zenon
<1>7. /\ f \in Files /\ g \in Files /\ p \in Nat /\ b \in Nat /\ n \in Nat
      /\ p + n <= Length(f) /\ b + n <= Length(g) /\ SameAt(f, p, g, b, n)
  BY <1>1, <1>2, <1>3, <1>4, <1>5, <1>6
<1>8. b \in Starts(g)
  <2>1. PICK r : r = <<b, b + n>>
    BY Zenon
  <2>2. r \in Sources(g) /\ r[1] = b
    BY <1>4, <1>5, <1>6, <1>7, <2>1, SourcesAre
  <2>3. QED
    BY <1>7, <2>2, SourcesAre
<1>9. PICK root : root = RootOf(g, b)
  BY Zenon
<1>10. root \in Roots /\ root[1] = g /\ b \in Boundaries(root)
  BY <1>7, <1>8, <1>9, RootOfStart
<1>11. /\ RootEnd(root) \in Nat /\ RootEnd(root) <= Length(g) /\ b < RootEnd(root)
       /\ b + n <= RootEnd(root)
  BY <1>4, <1>5, <1>6, <1>9, <1>10, RootIs
<1>12. root \in Range(placed)
  BY <1>10 DEF Unplaced
<1>13. \E k \in DOMAIN SegmentStarts : SegmentStarts[k] = <<g, b>>
  <2>1. StartsSegments(root, SegmentStarts)
    BY <1>12, SegmentStartsAre
  <2>2. QED
    BY <1>10, <2>1 DEF StartsSegments
<1>14. SegmentOf(s) \in DOMAIN SegmentStarts /\ SegmentStarts[SegmentOf(s)] = <<g, b>>
  BY <1>4, <1>5, <1>13 DEF SegmentOf
<1>15. PICK k : k = SegmentOf(s)
  BY Zenon
<1>16. /\ k \in DOMAIN CommonSegments /\ k \in Nat
       /\ RunFrom(CommonSegments, k) = Bytes(g, b, RootEnd(root) - b)
  <2>1. k \in DOMAIN SegmentStarts /\ SegmentStarts[k] = <<g, b>>
    BY <1>14, <1>15
  <2>2. k \in Nat
    <3>1. DOMAIN SegmentStarts = 1 .. Len(SegmentStarts)
      BY SegmentStartsAre
    <3>2. QED
      BY <2>1, <3>1
  <2>3. k \in DOMAIN CommonSegments /\ RunFrom(CommonSegments, k) = RestOf(SegmentStarts[k])
    BY <2>1, SegmentsAre
  <2>4. RestOf(SegmentStarts[k]) = Bytes(g, b, RootEnd(root) - b)
    BY <1>9, <2>1 DEF RestOf
  <2>5. QED
    BY <2>2, <2>3, <2>4
<1>17. PICK m : m = RootEnd(root) - b
  BY Zenon
<1>18. m \in Nat /\ n <= m /\ b + m <= Length(g)
  <2>1. PICK e : e = RootEnd(root)
    BY Zenon
  <2>2. e \in Nat /\ b < e /\ b + n <= e /\ m = e - b /\ b \in Nat /\ n \in Nat
    BY <1>7, <1>11, <1>17, <2>1, Zenon
  <2>3. m \in Nat /\ n <= m /\ b + m = e
    BY <2>2
  <2>4. QED
    BY <1>11, <2>1, <2>3, Zenon
<1>19. PICK x : x = Bytes(f, p, n)
  BY Zenon
<1>20. PICK y : y = Bytes(g, b, m)
  BY Zenon
<1>21. x \in Seq(0 .. 255) /\ Len(x) = n /\ \A i \in 0 .. n - 1 : x[i + 1] = Byte(f, p + i)
  BY <1>7, <1>19, BytesAre
<1>22. y \in Seq(0 .. 255) /\ Len(y) = m /\ \A i \in 0 .. m - 1 : y[i + 1] = Byte(g, b + i)
  BY <1>7, <1>18, <1>20, BytesAre
<1>23. \A i \in 1 .. n : x[i] = y[i]
  <2> SUFFICES ASSUME NEW i \in 1 .. n PROVE x[i] = y[i]
    OBVIOUS
  <2>1. i - 1 \in 0 .. n - 1 /\ i - 1 \in 0 .. m - 1 /\ (i - 1) + 1 = i
    BY <1>7, <1>18
  <2>2. x[(i - 1) + 1] = Byte(f, p + (i - 1)) /\ y[(i - 1) + 1] = Byte(g, b + (i - 1))
    BY <1>21, <1>22, <2>1
  <2>3. Byte(f, p + (i - 1)) = Byte(g, b + (i - 1))
    BY <1>7, <2>1 DEF SameAt
  <2>4. QED
    BY <2>1, <2>2, <2>3
<1>24. SubSeq(x, 1, n) = SubSeq(y, 1, n)
  <2> DEFINE B == 0 .. 255
  <2>1. x \in Seq(B) /\ y \in Seq(B)
    BY <1>21, <1>22
  <2> HIDE DEF B
  <2>2. (\A i \in 1 .. n : x[i] \in B) /\ (\A i \in 1 .. n : y[i] \in B)
    BY <1>7, <1>18, <1>21, <1>22, <2>1, ElementOfSeq
  <2>3. /\ SubSeq(x, 1, n) \in Seq(B) /\ Len(SubSeq(x, 1, n)) = IF 1 <= n THEN n - 1 + 1 ELSE 0
        /\ \A i \in 1 .. n - 1 + 1 : SubSeq(x, 1, n)[i] = x[1 + i - 1]
    BY <1>7, <2>2, SubSeqProperties
  <2>4. /\ SubSeq(y, 1, n) \in Seq(B) /\ Len(SubSeq(y, 1, n)) = IF 1 <= n THEN n - 1 + 1 ELSE 0
        /\ \A i \in 1 .. n - 1 + 1 : SubSeq(y, 1, n)[i] = y[1 + i - 1]
    BY <1>7, <2>2, SubSeqProperties
  <2>5. PICK v : v = SubSeq(x, 1, n)
    BY Zenon
  <2>6. PICK w : w = SubSeq(y, 1, n)
    BY Zenon
  <2>7. v \in Seq(B) /\ Len(v) = n /\ \A i \in 1 .. n : v[i] = x[i]
    BY <1>7, <2>3, <2>5
  <2>8. w \in Seq(B) /\ Len(w) = n /\ \A i \in 1 .. n : w[i] = y[i]
    BY <1>7, <2>4, <2>6
  <2>9. v = w
    BY <1>23, <2>7, <2>8, SeqEqual
  <2>10. QED
    BY <2>5, <2>6, <2>9
<1>25. IsPrefix(x, y)
  BY <1>18, <1>21, <1>22, <1>24 DEF IsPrefix
<1>26. x = SubSeq(archive.inputs[f], p + 1, p + n)
  BY <1>19 DEF Bytes
<1>27. QED
  BY <1>2, <1>3, <1>6, <1>15, <1>16, <1>17, <1>20, <1>25, <1>26

\* Pairs in the order of their positions.
LEMMA ByPosition ==
  ASSUME NEW D, NEW x \in D, NEW y \in D
  PROVE  <<x, y>> \in {p \in D \X D : p[1].position < p[2].position} <=> x.position < y.position
<1> DEFINE before(p) == p[1].position < p[2].position
           R == {p \in D \X D : before(p)}
<1>1. <<x, y>>[1] = x /\ <<x, y>>[2] = y
  OBVIOUS
<1>2. before(<<x, y>>) <=> x.position < y.position
  BY <1>1
<1>3. <<x, y>> \in D \X D
  OBVIOUS
<1> HIDE DEF before
<1>4. <<x, y>> \in R <=> before(<<x, y>>)
  BY <1>3
<1>5. QED
  BY <1>2, <1>4 DEF before

\* The references of an input, in order and apart, each with its selection.
LEMMA ReferencesAre ==
  ASSUME archive \in Archives, Selects(selections), placed \in Seq(Roots), Unplaced = {},
         NEW f \in Files
  PROVE  /\ CommonReferences(f) \in Seq([position : Nat, length : Nat, segment : Nat])
         /\ \A i \in DOMAIN CommonReferences(f) :
              /\ \E s \in selections : s.file = f /\ CommonReferences(f)[i] = ReferenceOf(s)
              /\ i + 1 \in DOMAIN CommonReferences(f) =>
                   CommonReferences(f)[i].position + CommonReferences(f)[i].length
                     <= CommonReferences(f)[i + 1].position
<1> DEFINE T == {t \in selections : t.file = f}
           D == {ReferenceOf(s) : s \in T}
           R == {p \in D \X D : p[1].position < p[2].position}
           g == [s \in T |-> ReferenceOf(s)]
           F == [position : Nat, length : Nat, segment : Nat]
<1>1. CommonReferences(f) = InOrder(D, R)
  BY Zenon DEF CommonReferences, ReferenceOf, SegmentOf
<1>2. IsFiniteSet(D)
  <2>1. T \subseteq selections
    OBVIOUS
  <2>2. IsFiniteSet(T)
    BY <2>1, FS_Subset DEF Selects
  <2>3. D = {g[s] : s \in T} /\ DOMAIN g = T
    OBVIOUS
  <2> HIDE DEF T, D, g
  <2>4. IsFiniteSet({g[s] : s \in T})
    BY <2>2, <2>3, FiniteImage
  <2>5. QED
    BY <2>3, <2>4
<1>3. \A s \in T : /\ s \in selections /\ ReferenceOf(s).position = s.position
                   /\ ReferenceOf(s).length = s.length /\ s.position \in Nat /\ s.length \in Nat
                   /\ s.length > 0 /\ ReferenceOf(s) \in F
  <2> SUFFICES ASSUME NEW s \in T
               PROVE  /\ s \in selections /\ ReferenceOf(s).position = s.position
                      /\ ReferenceOf(s).length = s.length /\ s.position \in Nat /\ s.length \in Nat
                      /\ s.length > 0 /\ ReferenceOf(s) \in F
    OBVIOUS
  <2>1. s \in selections
    OBVIOUS
  <2>2. s.position \in Nat /\ s.length \in Nat /\ s.length >= MinCommon
    BY <2>1, SelectedIs
  <2>3. MinCommon \in Nat \ {0}
    BY FilesAre
  <2>4. SegmentOf(s) \in Nat
    BY <2>1, SegmentOfIs
  <2>5. QED
    BY <2>1, <2>2, <2>3, <2>4 DEF ReferenceOf
<1>4. \A s, t \in T : Apart(s, t)
  BY DEF Selects
<1>5. \A x \in D : \E s \in T : x = ReferenceOf(s)
  OBVIOUS
<1>6. \A x \in D : x.position \in Nat
  BY <1>3, <1>5
<1>7. \A x, y \in D : x.position = y.position => x = y
  <2> SUFFICES ASSUME NEW s \in T, NEW t \in T, s.position = t.position PROVE s = t
    BY <1>3, <1>5
  <2>1. s.position \in Nat /\ s.length \in Nat /\ s.length > 0 /\ t.length \in Nat /\ t.length > 0
    BY <1>3
  <2>2. Apart(s, t)
    BY <1>4
  <2>3. QED
    BY <2>1, <2>2 DEF Apart
<1>8. \A x, y \in D : <<x, y>> \in R <=> x.position < y.position
  <2> HIDE DEF D
  <2>1. QED
    BY ByPosition, Zenon
<1>9. StrictOrder(D, R)
  <2> HIDE DEF D, R
  <2>1. \A x \in D : <<x, x>> \notin R
    BY <1>6, <1>8
  <2>2. \A x, y, z \in D : <<x, y>> \in R /\ <<y, z>> \in R => <<x, z>> \in R
    <3>1. \A x, y, z \in D :
            x.position < y.position /\ y.position < z.position => x.position < z.position
      BY <1>6
    <3>2. QED
      BY <1>8, <3>1, Zenon
  <2>3. \A x, y \in D : x = y \/ <<x, y>> \in R \/ <<y, x>> \in R
    <3>1. \A x, y \in D :
            x.position = y.position \/ x.position < y.position \/ y.position < x.position
      BY <1>6
    <3>2. QED
      BY <1>7, <1>8, <3>1, Zenon
  <2>4. QED
    BY <2>1, <2>2, <2>3, Zenon DEF StrictOrder
<1> HIDE DEF R
<1>10. PICK q : q = InOrder(D, R)
  BY Zenon
<1>11. /\ q \in Seq(D)
       /\ \A i \in DOMAIN q : i < Len(q) => <<q[i], q[i + 1]>> \in R
  <2> HIDE DEF D
  <2>1. QED
    BY <1>2, <1>9, <1>10, InOrderIs
<1>12. Len(q) \in Nat /\ DOMAIN q = 1 .. Len(q) /\ \A i \in DOMAIN q : q[i] \in D
  <2> HIDE DEF D
  <2>1. QED
    BY <1>11, LenProperties, ElementOfSeq
<1>13. q \in Seq(F)
  <2>1. D \subseteq F
    BY <1>3
  <2> HIDE DEF D, F
  <2>2. QED
    BY <1>11, <2>1, SeqMonotonic
<1>14. ASSUME NEW i \in DOMAIN q
       PROVE  \E s \in selections : s.file = f /\ q[i] = ReferenceOf(s)
  <2>1. PICK s \in T : q[i] = ReferenceOf(s)
    BY <1>5, <1>12
  <2>2. QED
    BY <2>1
<1>15. ASSUME NEW i \in DOMAIN q, i + 1 \in DOMAIN q
       PROVE  q[i].position + q[i].length <= q[i + 1].position
  <2>1. PICK s \in T : q[i] = ReferenceOf(s)
    BY <1>5, <1>12
  <2>2. PICK t \in T : q[i + 1] = ReferenceOf(t)
    BY <1>5, <1>12, <1>15
  <2>3. i < Len(q)
    BY <1>12, <1>15
  <2>4. q[i].position < q[i + 1].position
    BY <1>8, <1>11, <1>12, <1>15, <2>3
  <2>5. /\ q[i].position = s.position /\ q[i].length = s.length /\ q[i + 1].position = t.position
        /\ s.position \in Nat /\ s.length \in Nat /\ t.position \in Nat /\ t.length \in Nat
    BY <1>3, <2>1, <2>2
  <2>6. Apart(s, t)
    BY <1>4
  <2>7. s # t
    BY <2>4, <2>5
  <2>8. s.position + s.length <= t.position
    BY <2>4, <2>5, <2>6, <2>7 DEF Apart
  <2>9. QED
    BY <2>5, <2>8
<1>16. CommonReferences(f) = q
  BY <1>1, <1>10
<1>17. QED
  BY <1>13, <1>14, <1>15, <1>16 DEF F

\* HandOver's job.
JobOf(f) ==
  [input |-> archive.inputs[f], common |-> TRUE, segments |-> CommonSegments,
   references |-> CommonReferences(f), boundaries |-> Starts(f), trim |-> archive.trim # 0]

\* It is what the chunk's encoder counts on.
LEMMA JobOfIs ==
  ASSUME archive \in Archives, Selects(selections), placed \in Seq(Roots), Unplaced = {},
         NEW f \in Files
  PROVE  SoundJob(JobOf(f))
<1> DEFINE q == CommonReferences(f)
           j == JobOf(f)
<1>1. /\ j.input = archive.inputs[f] /\ j.common = TRUE /\ j.segments = CommonSegments
      /\ j.references = q /\ j.boundaries = Starts(f) /\ j.trim = (archive.trim # 0)
  BY DEF JobOf
<1>2. archive.inputs[f] \in Seq(0 .. 255)
  BY FilesAre
<1>3. CommonSegments \in Seq([raw : Seq(0 .. 255), emit_end : BOOLEAN])
  BY SegmentsAre
<1>4. Starts(f) \subseteq 0 .. Len(archive.inputs[f]) - 1
  <2> SUFFICES ASSUME NEW b \in Starts(f) PROVE b \in 0 .. Len(archive.inputs[f]) - 1
    OBVIOUS
  <2>1. PICK r \in Sources(f) : r[1] = b
    BY SourcesAre
  <2>2. b \in Nat /\ r[2] \in Nat /\ b < r[2] /\ r[2] <= Length(f) /\ Length(f) \in Nat
    BY <2>1, SourcesAre, FilesAre
  <2>3. QED
    BY <2>2 DEF Length
<1>5. /\ q \in Seq([position : Nat, length : Nat, segment : Nat])
      /\ \A i \in DOMAIN q :
           /\ \E s \in selections : s.file = f /\ q[i] = ReferenceOf(s)
           /\ i + 1 \in DOMAIN q => q[i].position + q[i].length <= q[i + 1].position
  BY ReferencesAre
<1> HIDE DEF q, j
<1>6. ASSUME NEW i \in DOMAIN q
      PROVE  /\ q[i].length >= Settings.bigMinMatch
             /\ q[i].position + q[i].length <= Len(archive.inputs[f])
             /\ q[i].position \notin Starts(f)
             /\ q[i].segment \in DOMAIN CommonSegments
             /\ IsPrefix(SubSeq(archive.inputs[f], q[i].position + 1, q[i].position + q[i].length),
                         RunFrom(CommonSegments, q[i].segment))
  <2>1. PICK s \in selections : s.file = f /\ q[i] = ReferenceOf(s)
    BY <1>5
  <2>2. q[i].position = s.position /\ q[i].length = s.length /\ q[i].segment = SegmentOf(s)
    BY <2>1 DEF ReferenceOf
  <2>3. s.length >= MinCommon /\ s.position + s.length <= Length(f)
    BY <2>1, SelectedIs
  <2>4. s.position \notin Starts(f)
    <3> SUFFICES ASSUME s.position \in Starts(f) PROVE FALSE
      OBVIOUS
    <3>1. PICK r \in Sources(f) : r[1] = s.position
      BY SourcesAre
    <3>2. PICK t \in selections : t.source = f /\ r = <<t.from, t.from + t.length>>
      BY DEF Sources
    <3>3. t.from = s.position
      BY <3>1, <3>2
    <3>4. QED
      BY <2>1, <3>2, <3>3 DEF Selects
  <2>5. /\ SegmentOf(s) \in DOMAIN CommonSegments
        /\ IsPrefix(SubSeq(archive.inputs[f], s.position + 1, s.position + s.length),
                    RunFrom(CommonSegments, SegmentOf(s)))
    BY <2>1, SegmentOfIs
  <2>6. QED
    BY <2>2, <2>3, <2>4, <2>5 DEF MinCommon, Length
<1>7. \A i \in DOMAIN j.references :
        LET r   == j.references[i]
            end == r.position + r.length
        IN  /\ r.length >= Settings.bigMinMatch
            /\ end <= Len(j.input) /\ r.position \notin j.boundaries
            /\ i + 1 \in DOMAIN j.references => end <= j.references[i + 1].position
            /\ r.segment \in DOMAIN j.segments
            /\ IsPrefix(SubSeq(j.input, r.position + 1, end), RunFrom(j.segments, r.segment))
  BY <1>1, <1>5, <1>6, Zenon
<1>8. SoundJob(j)
  <2>1. /\ j.input \in Seq(0 .. 255)
        /\ j.references \in Seq([position : Nat, length : Nat, segment : Nat])
        /\ j.segments \in Seq([raw : Seq(0 .. 255), emit_end : BOOLEAN])
        /\ j.boundaries \subseteq 0 .. Len(j.input) - 1
    BY <1>1, <1>2, <1>3, <1>4, <1>5, ZenonT(60)
  <2>2. j.trim \in BOOLEAN /\ j.common \in BOOLEAN /\ (j.references # <<>> => j.common)
    BY <1>1
  <2>3. QED
    BY <1>7, <2>1, <2>2, ZenonT(60) DEF SoundJob
<1>9. QED
  BY <1>8 DEF j

-----------------------------------------------------------------------------
(* The analysis and the chunk it hands over *)

\* The inductive invariant of both.
ArchiveInv == IF phase = "analyse" THEN Analysis ELSE PInv /\ CInv

\* It holds before the first step, for a chunk and for an archive.
LEMMA InitArchiveInv == ArchiveInit => ArchiveInv
<1> SUFFICES ASSUME ArchiveInit PROVE ArchiveInv
  OBVIOUS
<1>1. /\ Fresh /\ round = 0 /\ selections = {} /\ placed = <<>> /\ visits = <<>>
      /\ \/ phase = "encode" /\ job \in Jobs
         \/ /\ phase = "analyse" /\ archive \in Archives /\ stage = "scan" /\ next_file = 1
            /\ scans = [f \in Files |-> NewScan(archive, f)]
  BY Zenon DEF ArchiveInit, Fresh
<1>2. CASE phase = "encode" /\ job \in Jobs
  <2>1. SoundJob(job)
    BY <1>2, JobsAssumption
  <2>2. PInv /\ CInv
    BY <1>1, <1>2, <2>1, BegunPInv, BegunCInv
  <2>3. QED
    BY <1>2, <2>2 DEF ArchiveInv
<1>3. CASE /\ phase = "analyse" /\ archive \in Archives /\ stage = "scan" /\ next_file = 1
           /\ scans = [f \in Files |-> NewScan(archive, f)]
  <2>1. Selects(selections)
    BY <1>1, FS_EmptySet DEF Selects
  <2>2. Walking
    <3>1. round \in Nat /\ round <= Span /\ Span \in Nat
      BY <1>1, <1>3, FilesAre
    <3>2. \A f \in Files : Walker(f, scans[f], round)
      BY <1>1, <1>3, NewWalker
    <3>3. QED
      BY <1>1, <1>3, <3>1, <3>2 DEF Walking
  <2>3. Placing
    BY <1>1, <1>3 DEF Placing
  <2>4. QED
    BY <1>1, <1>3, <2>1, <2>2, <2>3 DEF ArchiveInv, Analysis
<1>4. QED
  BY <1>1, <1>2, <1>3

\* HandOver leaves a chunk with a sound job that is not begun.
LEMMA HandingOver ==
  ASSUME Analysis, HandOver
  PROVE  Fresh' /\ phase' = "encode" /\ SoundJob(job')
<1>1. /\ stage = "order" /\ Unplaced = {} /\ phase' = "encode"
      /\ UNCHANGED <<attempt, position, recent, bases, parser, stream, cursor, output, trail>>
  BY Zenon DEF HandOver
<1>2. archive \in Archives /\ Selects(selections) /\ placed \in Seq(Roots)
  BY <1>1, OrderIs
<1>3. PICK f \in Files : job' = JobOf(f)
  BY Zenon DEF HandOver, JobOf
<1>4. SoundJob(job')
  BY <1>1, <1>2, <1>3, JobOfIs
<1>5. Fresh'
  BY <1>1, Zenon DEF Analysis, Fresh, parser, NoOffsets, NoBases, NoPending
<1>6. QED
  BY <1>1, <1>4, <1>5

\* The chunk is encoded and decoded when it is handed over.
LEMMA NextWhen == Next => phase \in {"encode", "decode"}
<1> SUFFICES ASSUME Next PROVE phase \in {"encode", "decode"}
  OBVIOUS
<1>1. CASE EncodeBoundary
  BY <1>1, Zenon DEF EncodeBoundary, AtBoundary
<1>2. CASE FindMatch
  BY <1>2, Zenon DEF FindMatch, Parsing
<1>3. CASE EncodeMatch
  BY <1>3, Zenon DEF EncodeMatch, Parsing
<1>4. CASE EncodeLiteral
  BY <1>4, Zenon DEF EncodeLiteral, Parsing
<1>5. CASE EncodeLastLiteral
  BY <1>5, Zenon DEF EncodeLastLiteral, Parsing
<1>6. CASE EncodeReference
  BY <1>6, Zenon DEF EncodeReference, AtReference
<1>7. CASE EncodeEnd
  BY <1>7, Zenon DEF EncodeEnd
<1>8. CASE DecodeLiteral \/ DecodeMatch \/ DecodeReference \/ DecodeEnd
  BY <1>8, Zenon DEF DecodeLiteral, DecodeMatch, DecodeReference, DecodeEnd, Reads
<1>9. QED
  BY <1>1, <1>2, <1>3, <1>4, <1>5, <1>6, <1>7, <1>8 DEF Next

\* Every step keeps it.
LEMMA ArchiveInvStep == ArchiveInv /\ [ArchiveNext]_archiveVars => ArchiveInv'
<1> SUFFICES ASSUME ArchiveInv, [ArchiveNext]_archiveVars PROVE ArchiveInv'
  OBVIOUS
<1>1. CASE phase = "analyse"
  <2>1. Analysis
    BY <1>1 DEF ArchiveInv
  <2>2. \/ PassOver \/ FindNothing \/ SkipMarked \/ FindReference \/ AdvanceScans
        \/ EndScan \/ TrimSelections \/ PlaceSeed \/ VisitCandidate \/ EndVisit
        => Analysis' /\ phase' = "analyse"
    <3>1. PassOver \/ FindNothing => Analysis' /\ UNCHANGED vars
      BY <2>1, PassingOver, Zenon DEF PassOver, FindNothing, Free, Looking, Scanning
    <3>2. SkipMarked => Analysis' /\ UNCHANGED vars
      BY <2>1, SkippingMarked, Zenon DEF SkipMarked, Looking, Scanning
    <3>3. FindReference => Analysis' /\ UNCHANGED vars
      BY <2>1, FindingReference, Zenon DEF FindReference, Free, Looking, Scanning
    <3>4. AdvanceScans => Analysis' /\ UNCHANGED vars
      BY <2>1, AdvancingScans, Zenon DEF AdvanceScans
    <3>5. EndScan \/ TrimSelections => Analysis' /\ UNCHANGED vars
      BY <2>1, SelectionsEnd, Zenon DEF EndScan, TrimSelections
    <3>6. PlaceSeed => Analysis' /\ UNCHANGED vars
      BY <2>1, PlacingSeed, Zenon DEF PlaceSeed, Ordering
    <3>7. VisitCandidate => Analysis' /\ UNCHANGED vars
      BY <2>1, VisitingCandidate, Zenon DEF VisitCandidate, Ordering
    <3>8. EndVisit => Analysis' /\ UNCHANGED vars
      BY <2>1, EndingVisit, Zenon DEF EndVisit, Ordering
    <3>9. UNCHANGED vars => phase' = "analyse"
      BY <1>1 DEF vars
    <3>10. QED
      BY <3>1, <3>2, <3>3, <3>4, <3>5, <3>6, <3>7, <3>8, <3>9, Zenon
  <2>3. CASE HandOver
    <3>1. Fresh' /\ phase' = "encode" /\ SoundJob(job')
      BY <2>1, <2>3, HandingOver
    <3>2. (Fresh /\ phase = "encode" /\ SoundJob(job) => PInv)'
      BY BegunPInv, PTL
    <3>3. (Fresh /\ phase = "encode" /\ SoundJob(job) => CInv)'
      BY BegunCInv, PTL
    <3>4. PInv' /\ CInv'
      BY <3>1, <3>2, <3>3, Zenon
    <3>5. QED
      BY <3>1, <3>4 DEF ArchiveInv
  <2>4. CASE Next
    BY <1>1, <2>4, NextWhen
  <2>5. CASE UNCHANGED archiveVars
    <3>1. UNCHANGED <<vars, analysisVars>>
      BY <2>5 DEF archiveVars
    <3>2. Fresh' /\ phase' = "analyse"
      BY <1>1, <2>1, <3>1, FreshKept, Zenon DEF Analysis, vars
    <3>3. /\ archive' = archive /\ stage' = stage /\ scans' = scans /\ round' = round
          /\ selections' = selections /\ placed' = placed /\ visits' = visits
          /\ next_file' = next_file
      BY <3>1, Zenon DEF analysisVars, scanVars, orderVars
    <3>4. Selects(selections)'
      BY <2>1, <3>3, SelectsKept, Zenon DEF Analysis
    <3>5. stage = "scan" => Walking'
      BY <2>1, <3>3 DEF Analysis, Walking, Files, Span, Length, Walker, Pace
    <3>6. Placing'
      BY <2>1, <3>3 DEF Analysis, Placing, Roots, RootStarts, Starts, Sources, Files
    <3>7. Analysis'
      BY <2>1, <3>2, <3>3, <3>4, <3>5, <3>6 DEF Analysis
    <3>8. QED
      BY <3>2, <3>7 DEF ArchiveInv
  <2>6. Analysis' /\ phase' = "analyse" => ArchiveInv'
    BY DEF ArchiveInv
  <2>7. QED
    BY <2>2, <2>3, <2>4, <2>5, <2>6, Zenon DEF ArchiveNext
<1>2. CASE phase # "analyse"
  <2>1. PInv /\ CInv
    BY <1>2 DEF ArchiveInv
  <2>2. [Next]_vars
    <3>1. ~(PassOver \/ SkipMarked \/ FindNothing \/ FindReference)
      BY <1>2, Zenon DEF PassOver, SkipMarked, FindNothing, FindReference, Free, Looking, Scanning
    <3>2. ~(AdvanceScans \/ EndScan \/ TrimSelections)
      BY <1>2, Zenon DEF AdvanceScans, EndScan, TrimSelections
    <3>3. ~(PlaceSeed \/ VisitCandidate \/ EndVisit \/ HandOver)
      BY <1>2, Zenon DEF PlaceSeed, VisitCandidate, EndVisit, HandOver, Ordering
    <3>4. UNCHANGED archiveVars => UNCHANGED vars
      BY Zenon DEF archiveVars
    <3>5. QED
      BY <3>1, <3>2, <3>3, <3>4, Zenon DEF ArchiveNext
  <2>3. PInv' /\ CInv'
    BY <2>1, <2>2, PInvStep, CInvStep
  <2>4. phase' # "analyse"
    BY <2>3 DEF CInv
  <2>5. QED
    BY <2>3, <2>4 DEF ArchiveInv
<1>3. QED
  BY <1>1, <1>2

\* It is an invariant of the whole.
LEMMA ArchiveInvHolds == ArchiveSpec => []ArchiveInv
BY InitArchiveInv, ArchiveInvStep, PTL DEF ArchiveSpec

\* find_common_references, trim_common_selections and order_common_roots hand every chunk
\* references that its encoder can count on: apart and in order, none where a segment was
\* taken from the same input, each of bytes that its segment decodes to.  For archives of
\* any number of inputs of any length, whichever candidates score best, whatever is
\* trimmed and in whatever order the roots come to stand.
THEOREM AnalysisHandsOverSoundJobs == ArchiveSpec => []HandsOverSoundJobs
<1>1. ArchiveInv => HandsOverSoundJobs
  BY DEF ArchiveInv, CInv, HandsOverSoundJobs
<1>2. QED
  BY ArchiveInvHolds, <1>1, PTL

\* So the parser follows the encoder in every chunk of an archive, ...
THEOREM ParserFollowsInArchives == ArchiveSpec => []ParserFollows
<1>1. ArchiveInv => ParserFollows
  BY Zenon DEF ArchiveInv, PInv, ParserFollows
<1>2. QED
  BY ArchiveInvHolds, <1>1, PTL

\* ... its decoder keeps in step with it, ...
THEOREM ArchivesInStep == ArchiveSpec => []InLockstep
<1>1. phase = "analyse" => InLockstep
  BY DEF InLockstep
<1>2. ArchiveInv => InLockstep
  BY <1>1, CInvInLockstep DEF ArchiveInv
<1>3. QED
  BY ArchiveInvHolds, <1>2, PTL

\* ... and the right attempt gives the chunk back.
THEOREM ArchivesDecode == ArchiveSpec => []RightAttemptRoundTrip
<1>1. phase = "analyse" /\ Analysis => RightAttemptRoundTrip
  BY DEF Analysis, Fresh, RightAttemptRoundTrip
<1>2. ArchiveInv => RightAttemptRoundTrip
  BY <1>1, CInvRightAttempt DEF ArchiveInv
<1>3. QED
  BY ArchiveInvHolds, <1>2, PTL

=============================================================================
