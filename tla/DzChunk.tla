------------------------------- MODULE DzChunk -------------------------------
(***************************************************************************)
(* The DZ chunk format: compress_chunk_with_references turns a chunk into  *)
(* literals, matches and references into the common buffer, each a few     *)
(* symbols of adaptive models; decompress_chunk_with_output reads them     *)
(* back, if need be a second time with another rule for the bases of the   *)
(* references.                                                             *)
(*                                                                         *)
(* A stream is a sequence of coded symbols, [model, symbol]: what the      *)
(* range coder of DzRangeCoder transports, as long as the decoder asks for *)
(* each symbol with the model it was encoded with.                         *)
(***************************************************************************)
EXTENDS Integers, FiniteSetsExt, SequencesExt

CONSTANTS
  Jobs,             \* the chunks, each with its common buffer and references
  Settings,         \* RangeSettings
  MaxMatch,         \* the longest match
  Stray             \* what decoding from inside a segment may give

MinMatch == 2
EndSymbol == 513

\* A group holds a number below its continuation, which is 1 << (bits - 1) and is added
\* when more groups follow.  With one bit a number would never end.
ASSUME SettingsAssumption ==
  /\ MaxMatch \in MinMatch .. 258
  /\ {Settings.offsetContinuation, Settings.lengthContinuation, Settings.baseContinuation}
       \subseteq Nat \ {0, 1}
  /\ {Settings.offsetTables, Settings.contexts, Settings.lengthTables,
      Settings.baseTables, Settings.bigMinMatch} \subseteq Nat \ {0}
  /\ Stray \subseteq {"fails", "garbles"} /\ Stray # {}

\* What decoding gives from the start of segment k on: it runs on into the next one.
RunFrom(segments, k) ==
  LET from[i \in DOMAIN segments] ==
        IF segments[i].emit_end /\ i + 1 \in DOMAIN segments
        THEN segments[i].raw \o from[i + 1] ELSE segments[i].raw
  IN  from[k]

\* What the encoder counts on: references that follow one another, none of them shorter
\* than any length that can be written, none where a segment was taken from the same
\* chunk (a literal would be written there in its place), and each of bytes that its
\* segment decodes to.
SoundJob(j) ==
  /\ j.input \in Seq(0 .. 255)
  /\ j.references \in Seq([position : Nat, length : Nat, segment : Nat])
  /\ j.segments \in Seq([raw : Seq(0 .. 255), emit_end : BOOLEAN])
  /\ j.trim \in BOOLEAN /\ j.common \in BOOLEAN /\ (j.references # <<>> => j.common)
  /\ j.boundaries \subseteq 0 .. Len(j.input) - 1
  /\ \A i \in DOMAIN j.references :
       LET r   == j.references[i]
           end == r.position + r.length
       IN  /\ r.length >= Settings.bigMinMatch
           /\ end <= Len(j.input) /\ r.position \notin j.boundaries
           /\ i + 1 \in DOMAIN j.references => end <= j.references[i + 1].position
           /\ r.segment \in DOMAIN j.segments
           /\ IsPrefix(SubSeq(j.input, r.position + 1, end), RunFrom(j.segments, r.segment))

ASSUME JobsAssumption == \A j \in Jobs : SoundJob(j)

VARIABLES
  phase,       \* "encode", "decode", "ok", "failed" or "out of step"
  attempt,     \* to decode: 1 takes the bases as trimmed chains leave them, 2 as zero
  job,
  position,    \* the bytes encoded
  recent,      \* recent_offsets, from End on the decoder's
  bases,       \* reference_bases, from End on the decoder's
  search,      \* LazyLzParser: search_position
  pending,     \* LazyLzParser: the match found at the byte before it
  chains,      \* LazyLzParser: the positions in the matcher's chains
  stream,
  cursor,      \* the symbols decoded
  output,
  trail        \* history: the encoder's position, offsets and bases at each token

parser == <<search, pending, chains>>
vars == <<phase, attempt, job, position, recent, bases, parser, stream, cursor, output, trail>>

NoOffsets == [i \in 0 .. 3 |-> 0]
NoBases   == [i \in 0 .. 7 |-> 0]

Match(length, distance) == [length |-> length, distance |-> distance]
NoPending == Match(0, 0)
NotFound  == Match(1, 0)

Init ==
  /\ phase = "encode" /\ attempt = 1 /\ job \in Jobs /\ position = 0
  /\ recent = NoOffsets /\ bases = NoBases
  /\ search = 0 /\ pending = NoPending /\ chains = {}
  /\ stream = <<>> /\ cursor = 0 /\ output = <<>> /\ trail = <<>>

-----------------------------------------------------------------------------
(* The common buffer: segments that can each be decoded from their start.  *)
(* A segment with emit_end runs on into the next one.  Each byte of it is  *)
(* taken to be coded in one byte, its end and terminator in two more.      *)

Segments == DOMAIN job.segments
EncodedLength(k) == Len(job.segments[k].raw) + 2
LookAhead == 4

\* segment.target; the first byte of the payload belongs to no segment.
Target(k) ==
  LET at[i \in 1 .. k] == IF i = 1 THEN 1 ELSE at[i - 1] + EncodedLength(i - 1)
  IN  at[k]

PayloadLength ==
  IF Segments = {} THEN 0 ELSE Target(Len(job.segments)) + EncodedLength(Len(job.segments))

RawFrom(k) == RunFrom(job.segments, k)

\* What decode_common_payload has read when it has `length` bytes of segment k.
Consumed(k, length) ==
  LET upTo[i \in Segments] ==
        [n \in 0 .. length |->
           IF n <= Len(job.segments[i].raw) \/ i + 1 \notin Segments THEN n + LookAhead
           ELSE EncodedLength(i) + upTo[i + 1][n - Len(job.segments[i].raw)]]
  IN  upTo[k][length]

Decoded(bytes, consumed) == [fails |-> FALSE, bytes |-> bytes, consumed |-> consumed]
Fails == [fails |-> TRUE, bytes |-> <<>>, consumed |-> 0]

\* decode_at: a target inside a segment may fail or give bytes that are not there;
\* 0 stands for those.
DecodeAt(target, length) ==
  LET starts == {k \in Segments : Target(k) = target /\ length <= Len(RawFrom(k))}
  IN  IF starts # {}
      THEN {Decoded(SubSeq(RawFrom(k), 1, length), Consumed(k, length)) : k \in starts}
      ELSE IF target \notin 0 .. PayloadLength - 1 \/ "garbles" \notin Stray THEN {Fails}
      ELSE {Decoded([i \in 1 .. length |-> 0], length + LookAhead)}
             \cup {o \in {Fails} : "fails" \in Stray}

-----------------------------------------------------------------------------
(* Numbers in groups of bits, the highest of which says that more follow.  *)

Coded(kind, context, table, symbol) == [model |-> <<kind, context, table>>, symbol |-> symbol]

Groups(value, continuation) ==
  LET of[v \in 0 .. value] ==
        IF v < continuation THEN <<v>>
        ELSE <<(v % continuation) + continuation>> \o of[v \div continuation]
  IN  of[value]

\* encode_grouped: later groups share the last table.
EncodeGrouped(kind, context, tables, groups) ==
  [n \in DOMAIN groups |-> Coded(kind, context, Min({n, tables}) - 1, groups[n])]

GroupEnds(from, continuation) == {i \in from .. Len(stream) : stream[i].symbol < continuation}

\* decode_grouped asks for the groups with the models they were encoded with.
InStepFrom(from, kind, context, tables, continuation) ==
  /\ GroupEnds(from, continuation) # {}
  /\ \A i \in from .. Min(GroupEnds(from, continuation)) :
       stream[i].model = <<kind, context, Min({i - from, tables - 1})>>

\* decode_grouped: the number and where it ends.
Grouped(from, continuation) ==
  LET end == Min(GroupEnds(from, continuation))
      value[i \in from .. end] ==
        (stream[i].symbol % continuation) + (IF i = end THEN 0 ELSE continuation * value[i + 1])
  IN  [value |-> value[from], end |-> end]

-----------------------------------------------------------------------------
(* Recent distances *)

Swapped(list, i) == [list EXCEPT ![0] = list[i], ![i] = list[0]]
Shifted(list, first) == [i \in DOMAIN list |-> IF i = 0 THEN first ELSE list[i - 1]]

OffsetContext(length) == Min({length - MinMatch, Settings.contexts - 1})

\* encode_recent_distance: the code of a distance, and the list after it.
EncodeRecentDistance(list, distance) ==
  LET known == {i \in DOMAIN list : list[i] = distance}
  IN  IF known = {} THEN <<distance + 3, Shifted(list, distance)>>
      ELSE <<Min(known), Swapped(list, Min(known))>>

\* Mutant: a known distance moves to the front and the others move back.
DecodeRecentDistanceRotating(list, code) ==
  IF code \in DOMAIN list
  THEN <<list[code], [i \in 0 .. 3 |-> IF i = 0 THEN list[code]
                                       ELSE IF i <= code THEN list[i - 1] ELSE list[i]]>>
  ELSE <<code - 3, Shifted(list, code - 3)>>

\* decode_recent_distance
DecodeRecentDistance(list, code) ==
  IF code \in DOMAIN list THEN <<list[code], Swapped(list, code)>>
  ELSE <<code - 3, Shifted(list, code - 3)>>

-----------------------------------------------------------------------------
(* compress_chunk_with_references *)

Size == Len(job.input)

\* The reference of the chunk that starts at the position.
ReferencesHere == {r \in Range(job.references) : r.position = position}

\* Where the match finder must stop: the next reference or segment start.
NextEvent ==
  Min({Size} \cup {r.position : r \in {q \in Range(job.references) : q.position >= position}}
             \cup {b \in job.boundaries : b >= position})

\* Where the encoder stands.
Here == [symbols |-> Len(stream), position |-> position, recent |-> recent, bases |-> bases]

Emit(length, symbols) ==
  /\ stream' = stream \o symbols
  /\ trail' = Append(trail, Here)
  /\ position' = position + length
  /\ UNCHANGED <<phase, attempt, job, cursor, output>>

AtBoundary  == phase = "encode" /\ position \in job.boundaries
AtReference == phase = "encode" /\ position \notin job.boundaries /\ ReferencesHere # {}
Parsing     == /\ phase = "encode" /\ position < Size
               /\ position \notin job.boundaries /\ ReferencesHere = {}

LiteralAt(i) == <<Coded("top", 0, 0, job.input[i + 1])>>

\* LzMatcher::insert: chains are kept by two bytes, and zero is their end.
Inserted(positions) == chains \cup {p \in positions : p > 0 /\ p + MinMatch <= Size}

\* The equal bytes at a position and a distance before it.
EqualBytes(at, distance) ==
  Max({n \in 0 .. Min({MaxMatch, Size - at}) :
         \A i \in 1 .. n : job.input[at + i] = job.input[at + i - distance]})

\* LzMatcher::find: nothing, or a match from any of the chain, whatever its cost; it is
\* stored as far as the next event.
Found(at) ==
  {NotFound} \cup
  {Match(Min({EqualBytes(at, at - from), NextEvent - at}), at - from) :
     from \in {c \in chains : c < at /\ EqualBytes(at, at - c) >= MinMatch}}

\* The first byte of a segment is a literal: no match runs across it.
EncodeBoundary ==
  /\ AtBoundary
  /\ Emit(1, LiteralAt(position))
  /\ search' = position + 1 /\ pending' = NoPending /\ chains' = Inserted({position})
  /\ UNCHANGED <<recent, bases>>

\* next_bounded, without a pending match: find one.
FindMatch ==
  /\ Parsing /\ pending = NoPending /\ search < NextEvent
  /\ pending' \in Found(search)
  /\ search' = search + 1 /\ chains' = Inserted({search})
  /\ UNCHANGED <<phase, attempt, job, position, recent, bases, stream, cursor, output, trail>>

\* The length of a match, and the code of its distance.
MatchSymbols(length, code) ==
  <<Coded("top", 0, 0, length + 254)>>
    \o EncodeGrouped("offset", OffsetContext(length), Settings.offsetTables,
                     Groups(code, Settings.offsetContinuation))

\* Mutant: a match is taken to begin where the search stands, one byte later.
EncodeMatchSearchingBehind ==
  /\ Parsing /\ pending.length >= MinMatch
  /\ search < NextEvent \/ pending.length >= MaxMatch
  /\ LET code == EncodeRecentDistance(recent, pending.distance)
     IN  recent' = code[2] /\ Emit(pending.length, MatchSymbols(pending.length, code[1]))
  /\ chains' = Inserted(search .. search + pending.length - 1)
  /\ search' = search + pending.length /\ pending' = NoPending
  /\ UNCHANGED bases

\* The pending match is the longest there is, or saves no less than the next one.
EncodeMatch ==
  /\ Parsing /\ pending.length >= MinMatch
  /\ search < NextEvent \/ pending.length >= MaxMatch
  /\ LET code == EncodeRecentDistance(recent, pending.distance)
     IN  recent' = code[2] /\ Emit(pending.length, MatchSymbols(pending.length, code[1]))
  /\ chains' = Inserted(search .. search + pending.length - 2)
  /\ search' = search + pending.length - 1 /\ pending' = NoPending
  /\ UNCHANGED bases

\* There is no match here, or the one at the next byte saves more: a literal, and the
\* next one is pending.
EncodeLiteral ==
  /\ Parsing /\ pending # NoPending /\ pending.length < MaxMatch /\ search < NextEvent
  /\ \E current \in Found(search) :
       /\ pending.length >= MinMatch => current # NotFound
       /\ pending' = current
  /\ Emit(search - position, LiteralAt(search - 1))
  /\ search' = search + 1 /\ chains' = Inserted({search})
  /\ UNCHANGED <<recent, bases>>

\* The last byte before an event.
EncodeLastLiteral ==
  /\ Parsing /\ pending # NoPending /\ search >= NextEvent /\ pending.length < MinMatch
  /\ Emit(search - position, LiteralAt(search - 1))
  /\ pending' = NoPending
  /\ UNCHANGED <<recent, bases, search, chains>>

Abs(n) == IF n < 0 THEN -n ELSE n

\* The base nearest to the target, the first of them.
NearestBase(list, target) ==
  Min({i \in DOMAIN list : \A j \in DOMAIN list : Abs(target - list[i]) <= Abs(target - list[j])})

\* Mutant: the base is where the segment ends.
NextBaseOfSegment(r) ==
  IF job.trim THEN Target(r.segment) + EncodedLength(r.segment) ELSE 0

\* Without trimming the records of the original keep no endpoint.
NextBase(r) ==
  IF job.trim THEN Target(r.segment) + Consumed(r.segment, r.length) ELSE 0

\* The length of a reference, its base, and how far from it the segment starts.
ReferenceSymbols(length, base, delta) ==
  LET lengths == Groups(length - Settings.bigMinMatch, Settings.lengthContinuation)
  IN  <<Coded("top", 0, 0, 514 + lengths[1])>>
        \o EncodeGrouped("length", 0, Settings.lengthTables, Tail(lengths))
        \o <<Coded("base", 0, 0, base), Coded("sign", 0, 0, IF delta < 0 THEN 1 ELSE 0)>>
        \o EncodeGrouped("target", 0, Settings.baseTables,
             Groups(IF delta < 0 THEN -1 - delta ELSE delta, Settings.baseContinuation))

EncodeReference ==
  /\ AtReference
  /\ \E r \in ReferencesHere :
       LET target == Target(r.segment)
           base   == NearestBase(bases, target)
       IN  /\ bases' = [bases EXCEPT ![base] = NextBase(r)]
           /\ Emit(r.length, ReferenceSymbols(r.length, base, target - bases[base] + 3))
           /\ search' = position + r.length /\ pending' = NoPending
           /\ chains' = Inserted(position .. position + r.length - 1)
  /\ UNCHANGED recent

\* The end symbol; then the first attempt to decode.
EncodeEnd ==
  /\ phase = "encode" /\ position >= Size
  /\ stream' = Append(stream, Coded("top", 0, 0, EndSymbol))
  /\ trail' = Append(trail, Here)
  /\ phase' = "decode" /\ recent' = NoOffsets /\ bases' = NoBases
  /\ UNCHANGED <<attempt, job, position, parser, cursor, output>>

-----------------------------------------------------------------------------
(* decompress_chunk_with_output *)

NextSymbol == stream[cursor + 1]

\* The symbol is one of the token's kind.
Reads(symbols) == phase = "decode" /\ NextSymbol.model[1] = "top" /\ NextSymbol.symbol \in symbols

EndAs(end) ==
  /\ phase' = end
  /\ UNCHANGED <<attempt, job, position, recent, bases, parser, stream, cursor, output, trail>>

\* An error of the first attempt starts the second, if there is a common buffer.
GiveUp ==
  \/ /\ attempt = 1 /\ job.common
     /\ attempt' = 2 /\ recent' = NoOffsets /\ bases' = NoBases
     /\ cursor' = 0 /\ output' = <<>>
     /\ UNCHANGED <<phase, job, position, parser, stream, trail>>
  \/ (attempt = 2 \/ ~job.common) /\ EndAs("failed")

Produce(bytes, end) ==
  /\ output' = output \o bytes /\ cursor' = end
  /\ UNCHANGED <<phase, attempt, job, position, parser, stream, trail>>

DecodeLiteral ==
  /\ Reads(0 .. 255)
  /\ IF Len(output) >= Size THEN GiveUp
     ELSE Produce(<<NextSymbol.symbol>>, cursor + 1) /\ UNCHANGED <<recent, bases>>

\* copy_match: a match may overlap what it appends.
Copied(distance, length) ==
  [i \in 1 .. length |-> output[Len(output) - distance + 1 + ((i - 1) % distance)]]

DecodeMatch ==
  /\ Reads(256 .. 512)
  /\ LET length  == NextSymbol.symbol - 254
         context == OffsetContext(length)
         code    == Grouped(cursor + 2, Settings.offsetContinuation)
         decoded == DecodeRecentDistance(recent, code.value)
     IN  IF ~InStepFrom(cursor + 2, "offset", context, Settings.offsetTables, Settings.offsetContinuation)
         THEN EndAs("out of step")
         ELSE IF decoded[1] \notin 1 .. Len(output) \/ Len(output) + length > Size THEN GiveUp
         ELSE Produce(Copied(decoded[1], length), code.end)
              /\ recent' = decoded[2] /\ UNCHANGED bases

\* The rest of a reference's length, after the group in its first symbol.
LengthRest(first) ==
  IF first < Settings.lengthContinuation THEN [value |-> 0, end |-> cursor + 1]
  ELSE Grouped(cursor + 2, Settings.lengthContinuation)

\* decode_reference_length
ReferenceLength ==
  LET continuation == Settings.lengthContinuation
      first == NextSymbol.symbol - 514
      rest  == LengthRest(first)
  IN  [value |-> (first % continuation) + continuation * rest.value + Settings.bigMinMatch,
       end   |-> rest.end]

\* The base, the sign and the offset that follow the length.
ReferenceTarget(after) ==
  LET base   == stream[after + 1].symbol
      offset == Grouped(after + 3, Settings.baseContinuation)
      delta  == IF stream[after + 2].symbol = 1 THEN -1 - offset.value ELSE offset.value
  IN  [base |-> base, value |-> bases[base] + delta - 3, end |-> offset.end]

ReferenceInStep ==
  /\ \/ NextSymbol.symbol - 514 < Settings.lengthContinuation
     \/ InStepFrom(cursor + 2, "length", 0, Settings.lengthTables, Settings.lengthContinuation)
  /\ LET after == ReferenceLength.end
     IN  /\ stream[after + 1].model[1] = "base" /\ stream[after + 2].model[1] = "sign"
         /\ InStepFrom(after + 3, "target", 0, Settings.baseTables, Settings.baseContinuation)

\* The bytes of the reference, and its base moved to where they end.
CopyReference(length, target) ==
  IF ~job.common \/ Len(output) + length > Size THEN GiveUp
  ELSE \E data \in DecodeAt(target.value, length) :
         IF data.fails THEN GiveUp
         ELSE /\ Produce(data.bytes, target.end)
              /\ bases' = [bases EXCEPT ![target.base] =
                             IF attempt = 1 THEN target.value + data.consumed ELSE 0]
              /\ UNCHANGED recent

DecodeReference ==
  /\ Reads({s \in {NextSymbol.symbol} : s > EndSymbol})
  /\ IF ~ReferenceInStep THEN EndAs("out of step")
     ELSE CopyReference(ReferenceLength.value, ReferenceTarget(ReferenceLength.end))

DecodeEnd ==
  /\ Reads({EndSymbol})
  /\ IF Len(output) # Size THEN GiveUp
     ELSE EndAs("ok")

Next ==
  \/ EncodeBoundary \/ FindMatch \/ EncodeMatch \/ EncodeLiteral \/ EncodeLastLiteral
  \/ EncodeReference \/ EncodeEnd
  \/ DecodeLiteral \/ DecodeMatch \/ DecodeReference \/ DecodeEnd

Spec == Init /\ [][Next]_vars

-----------------------------------------------------------------------------
(* Properties *)

\* The parser stands where the encoder does, or one byte ahead with a match of that byte;
\* every byte behind is in the chains; and no match is pending that differs from the
\* chunk or would run across a segment start or a reference.
ParserFollows ==
  phase = "encode" =>
    /\ position = IF pending = NoPending THEN search ELSE search - 1
    /\ chains = {p \in 1 .. search - 1 : p + MinMatch <= Size}
    /\ pending.length >= MinMatch =>
         /\ position + pending.length <= NextEvent
         /\ \A i \in 1 .. pending.length :
              job.input[position + i] = job.input[position + i - pending.distance]

\* The attempt that takes the bases as the encoder did.
RightAttempt == attempt = IF job.trim \/ job.references = <<>> THEN 1 ELSE 2

\* Before each token the right attempt has the output, the recent distances and the
\* bases the encoder had there, and any attempt asks for each symbol with the model it
\* was encoded with.
InLockstep ==
  /\ phase # "out of step"
  /\ phase = "decode" /\ RightAttempt =>
       \E k \in DOMAIN trail :
         /\ trail[k].symbols = cursor /\ trail[k].position = Len(output)
         /\ trail[k].recent = recent /\ trail[k].bases = bases

\* The right attempt decodes what was encoded, a failed one before it leaves nothing
\* behind, and there is none before it where trimmed chains were used.
RightAttemptRoundTrip ==
  /\ phase # "failed"
  /\ phase = "ok" /\ RightAttempt => output = job.input
  /\ job.trim \/ job.references = <<>> => attempt = 1

\* What was encoded is decoded.
RoundTrip == phase \in {"ok", "failed"} => phase = "ok" /\ output = job.input
=============================================================================
