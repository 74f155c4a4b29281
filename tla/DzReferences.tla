----------------------------- MODULE DzReferences -----------------------------
(***************************************************************************)
(* How the chunks of a DZ archive get their references.                    *)
(* find_common_references walks through all inputs at once, each at a pace *)
(* of its own, and looks for earlier bytes that repeat at the walker's     *)
(* position.  Its selections are trimmed, the bytes they refer to joined   *)
(* into roots, and the roots put into the order in which the common buffer *)
(* holds them.  What comes out is a job of DzChunk for every input.        *)
(*                                                                         *)
(* The flags of the code are derived: byte i is a target (4), common (1)   *)
(* or a start (2) because of the selections made so far.  So are the hash  *)
(* chains: they hold the positions the insert cursor has passed.  Which    *)
(* candidate scores best, and whether any scores at all, is left open.     *)
(***************************************************************************)
EXTENDS DzChunk, FiniteSets

CONSTANTS
  Archives,     \* [inputs, covered, trim]: see ArchivesAssumption
  MaxCommon     \* max_common_match

\* covered holds, for each input, the bytes that local_match_coverage reports;
\* there are none without preprocessing.
ASSUME ArchivesAssumption ==
  /\ MaxCommon \in Nat
  /\ \A a \in Archives :
       /\ a.inputs \in Seq(Seq(0 .. 255))
       /\ a.trim \in Int /\ DOMAIN a.covered = DOMAIN a.inputs
       /\ \A f \in DOMAIN a.inputs : a.covered[f] \subseteq 0 .. Len(a.inputs[f]) - 1

MinCommon == Settings.bigMinMatch

VARIABLES
  archive,      \* the member of Archives at work
  stage,        \* "scan", "trim", "order" or "none"
  scans,        \* the CommonScanState of each input
  round,        \* turns of the outer loop
  file,         \* the inner loop: the input whose position is looked at
  selections,   \* the set of CommonSelection
  placed,       \* the roots in the order of the common buffer
  visits,       \* the candidates of each call of visit that is running
  next_file     \* where the next seed is looked for

scanVars  == <<scans, round, file>>
orderVars == <<placed, visits, next_file>>
analysisVars == <<archive, stage, scanVars, selections, orderVars>>
archiveVars  == <<vars, analysisVars>>

Files == DOMAIN archive.inputs
Length(f) == Len(archive.inputs[f])
Byte(f, i) == archive.inputs[f][i + 1]
Bytes(f, from, n) == SubSeq(archive.inputs[f], from + 1, from + n)

\* A set in a strict order of its elements, a set of pairs.
InOrder(set, order) ==
  [k \in 1 .. Cardinality(set) |->
     CHOOSE x \in set : Cardinality({y \in set : <<y, x>> \in order}) = k - 1]

\* saturating_sub
Minus(a, b) == Max({0, a - b})
One(condition) == IF condition THEN 1 ELSE 0

-----------------------------------------------------------------------------
(* CommonScanState: positions advance in proportion to the lengths *)

GlobalSpan(a) == Max({0} \cup {Len(a.inputs[f]) - MinCommon : f \in DOMAIN a.inputs})
Span == GlobalSpan(archive)

NewScan(a, f) ==
  LET length == Len(a.inputs[f])
  IN  [position |-> 0, positionError |-> 2 * length - GlobalSpan(a),
       cursor |-> MinCommon - 1,
       insertError |-> 2 * Minus(length, MinCommon - 1) - GlobalSpan(a),
       skip |-> 0, active |-> TRUE]

\* The position is active again when it has moved past what is skipped.
Advanced(f) ==
  LET s       == scans[f]
      moves   == s.positionError >= 0
      inserts == s.insertError >= 0
  IN  [position      |-> s.position + One(moves),
       positionError |-> s.positionError + 2 * (Minus(Length(f), MinCommon) - One(moves) * Span),
       cursor        |-> s.cursor + One(inserts),
       insertError   |-> s.insertError + 2 * (Minus(Length(f), MinCommon - 1) - One(inserts) * Span),
       skip          |-> Minus(s.skip, One(moves)),
       active        |-> moves /\ s.skip = 0]

NoArchive == [inputs |-> <<>>, covered |-> <<>>, trim |-> 0]
NoJob == [input |-> <<>>, common |-> FALSE, segments |-> <<>>, references |-> <<>>,
          boundaries |-> {}, trim |-> FALSE]

\* Either a chunk with the references it is given, or an archive that has none yet.
ArchiveInit ==
  /\ attempt = 1 /\ position = 0 /\ recent = NoOffsets /\ bases = NoBases
  /\ search = 0 /\ pending = NoPending /\ chains = {}
  /\ stream = <<>> /\ cursor = 0 /\ output = <<>> /\ trail = <<>>
  /\ round = 0 /\ selections = {} /\ placed = <<>> /\ visits = <<>>
  /\ \/ /\ phase = "encode" /\ job \in Jobs
        /\ archive = NoArchive /\ stage = "none" /\ scans = <<>> /\ file = 0 /\ next_file = 0
     \/ /\ phase = "analyse" /\ job = NoJob
        /\ archive \in Archives /\ stage = "scan" /\ file = 1 /\ next_file = 1
        /\ scans = [f \in Files |-> NewScan(archive, f)]

-----------------------------------------------------------------------------
(* flags and chains *)

TargetRange(s) == s.position .. s.position + s.length - 1
SourceRange(s) == s.from .. s.from + s.length - 1

Targets(f) == UNION {TargetRange(s) : s \in {t \in selections : t.file = f}}
Common(f)  == UNION {SourceRange(s) : s \in {t \in selections : t.source = f}}

\* flags & 0xf7: a reference may not begin here.
Marked(f) == Targets(f) \cup Common(f)

\* How far a set reaches on from a position.
RunIn(set, from) == Min({n \in 0 .. Cardinality(set) : from + n \notin set})

\* The positions a chain holds and the dictionary reaches.
Chain(f) ==
  {q \in 0 .. scans[f].cursor - MinCommon :
     q + MinCommon <= Length(f) /\ q > scans[f].cursor - Length(f)}

\* What the search at position p of input f looks at in input g.
Chained(f, p, g) ==
  {q \in Chain(g) : q \notin Targets(g) /\ Bytes(g, q, MinCommon) = Bytes(f, p, MinCommon)}

\* The match is compared byte by byte: short of a target, and of the target
\* itself when both are in one input.
ComparedLength(f, p, g, q) ==
  LET limit == Min({MaxCommon, Length(f) - p, Length(g) - q}
                     \cup IF f = g THEN {Abs(p - q)} ELSE {})
      equal == {n \in 0 .. limit : /\ Bytes(f, p, n) = Bytes(g, q, n)
                                   /\ \A i \in 0 .. n - 1 : q + i \notin Targets(g)}
  IN  IF Max({0} \cup equal) < MinCommon THEN 0 ELSE Max(equal)

\* Or, inside a run of one byte, taken over from the candidate one further on;
\* there max_common_match is not looked at again.
MatchLengths(f, p, g) ==
  LET candidates == Chained(f, p, g)
      lengths[q \in candidates] ==
        LET above == IF q + 1 \in candidates THEN lengths[q + 1] ELSE 0
        IN  IF above > 0 /\ \A i \in 2 .. above : Byte(g, q + i) = Byte(g, q + 1)
            THEN above + One(p + above < Length(f) /\ Byte(f, p + above) = Byte(f, p))
            ELSE ComparedLength(f, p, g, q)
  IN  lengths

-----------------------------------------------------------------------------
(* The scan: one turn of the inner loop at a time *)

Position == scans[file].position

Scanning ==
  /\ phase = "analyse" /\ stage = "scan" /\ round < Span /\ file \in Files
  /\ file' = file + 1
  /\ UNCHANGED <<vars, archive, stage, round, orderVars>>

Looking ==
  Scanning /\ scans[file].active /\ Position + MinCommon < Length(file)

\* Skip this position and the ones after it.
SkipOver(n) == scans' = [scans EXCEPT ![file].skip = Minus(n, 1)]

PassOver ==
  /\ Scanning /\ ~(scans[file].active /\ Position + MinCommon < Length(file))
  /\ UNCHANGED <<scans, selections>>

\* A common byte further on is waited for as well; but no chain gets ahead of
\* its walker, so what becomes common reaches back to the position itself.
CommonAhead == {d \in 1 .. MinCommon - 1 : Position + d \in Common(file)}

SkipMarked ==
  /\ Looking /\ ({Position} \cap Marked(file)) \cup CommonAhead # {}
  /\ SkipOver(IF Position \in Marked(file) THEN RunIn(Marked(file), Position)
              ELSE Min(CommonAhead))
  /\ UNCHANGED selections

Free == Looking /\ Position \notin Marked(file) /\ CommonAhead = {}

FindNothing == Free /\ UNCHANGED <<scans, selections>>

\* A run of zeros has the hash that ends a chain.
FindReference ==
  /\ Free /\ \E i \in 0 .. MinCommon - 1 : Byte(file, Position + i) # 0
  /\ \E g \in Files :
       LET lengths  == MatchLengths(file, Position, g)
           locally  == RunIn(archive.covered[file], Position)
       IN  \E q \in {c \in DOMAIN lengths : lengths[c] > 0} :
             IF lengths[q] <= locally
             THEN SkipOver(locally) /\ UNCHANGED selections
             ELSE /\ SkipOver(lengths[q])
                  /\ selections' = selections \cup
                       {[file |-> file, position |-> Position, source |-> g, from |-> q,
                         length |-> lengths[q]]}

AdvanceScans ==
  /\ phase = "analyse" /\ stage = "scan" /\ round < Span /\ file \notin Files
  /\ scans' = [f \in Files |-> Advanced(f)]
  /\ round' = round + 1 /\ file' = 1
  /\ UNCHANGED <<vars, archive, stage, selections, orderVars>>

EndScan ==
  /\ phase = "analyse" /\ stage = "scan" /\ round = Span
  /\ stage' = IF archive.trim = 0 THEN "order" ELSE "trim"
  /\ UNCHANGED <<vars, archive, scanVars, selections, orderVars>>

-----------------------------------------------------------------------------
(* trim_common_selections: what saves too little is dropped, round by round *)

ReferenceScore(s) ==
  8 * s.length - archive.trim - 7 * Cardinality(archive.covered[s.file] \cap TargetRange(s))

\* A source, and those of the selections that use it.
Users(s, among) == {t \in among : t.source = s.source /\ t.from = s.from}

SourceScore(s, among) ==
  MapThenSumSet(ReferenceScore, Users(s, among)) - archive.trim
    - 7 * Cardinality(archive.covered[s.source]
                        \cap UNION {SourceRange(t) : t \in Users(s, among)})

TrimSelections ==
  /\ phase = "analyse" /\ stage = "trim"
  /\ LET saving == {s \in selections : ReferenceScore(s) >= 0}
         kept   == {s \in saving : SourceScore(s, saving) >= 0}
     IN  /\ selections' = kept
         /\ stage' = IF kept \in {selections, {}} THEN "order" ELSE "trim"
  /\ UNCHANGED <<vars, archive, scanVars, orderVars>>

-----------------------------------------------------------------------------
(* Roots: overlapping sources, with a restart at every source's start *)

Sources(f) == {<<s.from, s.from + s.length>> : s \in {t \in selections : t.source = f}}
Starts(f)  == {r[1] : r \in Sources(f)}

RootStarts(f) == {b \in Starts(f) : ~ \E r \in Sources(f) : r[1] < b /\ b < r[2]}
Roots == UNION {{<<f, b>> : b \in RootStarts(f)} : f \in Files}

\* The root that a start belongs to.
RootOf(f, b) == <<f, Max({r \in RootStarts(f) : r <= b})>>

Boundaries(root) == {b \in Starts(root[1]) : RootOf(root[1], b) = root}

\* Mutant: the root ends where the last of its sources does.
RootEndOfLast(root) ==
  Max({r[2] : r \in {q \in Sources(root[1]) : q[1] = Max(Boundaries(root))}})

RootEnd(root) == Max({r[2] : r \in {q \in Sources(root[1]) : q[1] \in Boundaries(root)}})

-----------------------------------------------------------------------------
(* order_common_roots: a root is followed by what follows it in the inputs *)

\* The records of an input are the starts in it and the references.
ReferencesIn(f) == {s.position : s \in {t \in selections : t.file = f}}
Records(f) == Starts(f) \cup ReferencesIn(f)

RecordRoot(f, p) ==
  IF p \in Starts(f) THEN RootOf(f, p)
  ELSE LET s == CHOOSE t \in selections : t.file = f /\ t.position = p
       IN  RootOf(s.source, s.from)

\* The root of the first of some records, unless it is placed already.
FirstRoot(f, records, done) ==
  IF records = {} \/ RecordRoot(f, Min(records)) \in done THEN <<>>
  ELSE <<RecordRoot(f, Min(records))>>

\* What is attached to a root: by restart, the longest first.
Attached(root) ==
  LET before(s, t) ==
        \/ s.from < t.from
        \/ s.from = t.from /\ s.length > t.length
        \/ /\ s.from = t.from /\ s.length = t.length
           /\ s.file < t.file \/ (s.file = t.file /\ s.position < t.position)
      users == {s \in selections : RootOf(s.source, s.from) = root}
  IN  IF archive.trim = 0 THEN <<>>
      ELSE InOrder(users, {p \in users \X users : before(p[1], p[2])})

\* candidates of visit: the record behind the root itself, then those behind
\* the references that reach to its end; not more than eight.
MostCandidates == 8

Candidates(root, done) ==
  LET f == root[1]
      restarts == Starts(f) \ RootStarts(f)
      own == FirstRoot(f, {r \in Records(f) \ restarts : r > root[2]}, done)
      attached == Attached(root)
      behind(s) == IF s.from + s.length # RootEnd(root) THEN <<>>
                   ELSE FirstRoot(s.file, {r \in Records(s.file) : r > s.position}, done)
      all == own \o FlattenSeq([i \in DOMAIN attached |-> behind(attached[i])])
  IN  SubSeq(all, 1, Min({MostCandidates, Len(all)}))

Ordering ==
  /\ phase = "analyse" /\ stage = "order"
  /\ UNCHANGED <<vars, archive, stage, scanVars, selections>>

\* visit(root), called by the calls that wait in `calls`.
Visit(root, calls) ==
  /\ placed' = Append(placed, root)
  /\ visits' = <<Candidates(root, Range(placed) \cup {root})>> \o calls

Unplaced == Roots \ Range(placed)

\* The inputs are asked in turn for a root that is not placed.
PlaceSeed ==
  /\ Ordering /\ visits = <<>> /\ Unplaced # {}
  /\ LET turn(n) == ((next_file + n - 1) % Len(archive.inputs)) + 1
         n == Min({k \in 0 .. Len(archive.inputs) - 1 : \E r \in Unplaced : r[1] = turn(k)})
     IN  /\ Visit(<<turn(n), Min({r[2] : r \in {q \in Unplaced : q[1] = turn(n)}})>>, <<>>)
         /\ next_file' = turn(n + 1)

\* The candidate seen three times or more, else the shortest root; its place in
\* the list without duplicates is taken for a place in the list with them.
ChosenIndex(candidates) ==
  LET first(i)  == \A j \in 1 .. i - 1 : candidates[j] # candidates[i]
      firsts    == {i \in DOMAIN candidates : first(i)}
      place(i)  == Cardinality({j \in firsts : j <= i})
      seen(i)   == Cardinality({j \in 1 .. i : candidates[j] = candidates[i]})
      most      == Max({seen(i) : i \in DOMAIN candidates})
      winner    == candidates[Min({i \in DOMAIN candidates : seen(i) = most})]
      size(i)   == RootEnd(candidates[i]) - candidates[i][2]
      shortest  == Min({i \in firsts : \A j \in firsts : size(i) <= size(j)})
  IN  IF most > 2 THEN place(CHOOSE i \in firsts : candidates[i] = winner) ELSE place(shortest)

VisitCandidate ==
  /\ Ordering /\ visits # <<>> /\ Head(visits) # <<>>
  /\ LET candidates == Head(visits)
         chosen     == ChosenIndex(candidates)
     IN  IF candidates[chosen] \in Range(placed)
         THEN visits' = <<Front(candidates)>> \o Tail(visits) /\ UNCHANGED placed
         ELSE Visit(candidates[chosen], <<RemoveAt(candidates, chosen)>> \o Tail(visits))
  /\ UNCHANGED next_file

EndVisit ==
  /\ Ordering /\ visits # <<>> /\ Head(visits) = <<>>
  /\ visits' = Tail(visits) /\ UNCHANGED <<placed, next_file>>

-----------------------------------------------------------------------------
(* segments and references; compress_archive_slices hands over each input *)

\* Where the segments start, in the order of the common buffer.
SegmentStarts ==
  FlattenSeq([i \in DOMAIN placed |->
    LET starts    == Boundaries(placed[i])
        ascending == InOrder(starts, {p \in starts \X starts : p[1] < p[2]})
    IN  [k \in DOMAIN ascending |-> <<placed[i][1], ascending[k]>>]])

SegmentEnd(at) ==
  LET root == RootOf(at[1], at[2])
  IN  Min({RootEnd(root)} \cup {b \in Boundaries(root) : b > at[2]})

\* All but the last segment of a root run on, and the very last one does too.
CommonSegments ==
  [k \in DOMAIN SegmentStarts |->
     LET at == SegmentStarts[k]
     IN  [raw      |-> Bytes(at[1], at[2], SegmentEnd(at) - at[2]),
          emit_end |-> SegmentEnd(at) < RootEnd(RootOf(at[1], at[2])) \/ k = Len(SegmentStarts)]]

CommonReferences(f) ==
  LET segment(s) == CHOOSE k \in DOMAIN SegmentStarts : SegmentStarts[k] = <<s.source, s.from>>
      references == {[position |-> s.position, length |-> s.length, segment |-> segment(s)] :
                       s \in {t \in selections : t.file = f}}
  IN  InOrder(references, {p \in references \X references : p[1].position < p[2].position})

HandOver ==
  /\ phase = "analyse" /\ stage = "order" /\ visits = <<>> /\ Unplaced = {}
  /\ \E f \in Files :
       job' = [input |-> archive.inputs[f], common |-> TRUE, segments |-> CommonSegments,
               references |-> CommonReferences(f), boundaries |-> Starts(f),
               trim |-> archive.trim # 0]
  /\ phase' = "encode"
  /\ archive' = NoArchive /\ stage' = "none" /\ scans' = <<>> /\ round' = 0 /\ file' = 0
  /\ selections' = {} /\ placed' = <<>> /\ next_file' = 0
  /\ UNCHANGED <<attempt, position, recent, bases, parser, stream, cursor, output, trail, visits>>

ArchiveNext ==
  \/ PassOver \/ SkipMarked \/ FindNothing \/ FindReference
  \/ AdvanceScans \/ EndScan \/ TrimSelections
  \/ PlaceSeed \/ VisitCandidate \/ EndVisit \/ HandOver
  \/ Next /\ UNCHANGED analysisVars

ArchiveSpec == ArchiveInit /\ [][ArchiveNext]_archiveVars

-----------------------------------------------------------------------------
(* Properties *)

\* However the scan went, whatever was trimmed and in whatever order the roots
\* came to stand, every chunk is handed what its encoder counts on.
HandsOverSoundJobs == phase = "encode" => SoundJob(job)
=============================================================================
