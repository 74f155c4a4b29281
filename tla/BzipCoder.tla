------------------------------ MODULE BzipCoder -----------------------------
(***************************************************************************)
(* The BZip2 coder.  A stream is a header with the block size, blocks, and *)
(* an end marker with the CRC of all blocks; a block is its CRC, the       *)
(* pointer into the Burrows-Wheeler transform of the run-length coded      *)
(* bytes, and the symbols of its move-to-front coding under two to six     *)
(* Huffman trees, of which a list of selectors names one for each group of *)
(* symbols.  dzip's encoder writes one stream, plain blocks and one tree   *)
(* in as many copies as needed.  Its decoder also takes concatenated       *)
(* streams, larger and randomized blocks, and trees that differ.           *)
(*                                                                         *)
(* Sizes are scaled: bytes of ByteBits bits, runs of 3 for 4, groups of 2  *)
(* symbols for 50, blocks of 6 bytes for 100,000 per unit of size.         *)
(***************************************************************************)
EXTENDS ChunkCoder

RunA == 0
RunB == 1
MinRun    == 3         \* 4: a run this long is followed by a count
LongestRun == 5        \* 259
BlockUnit == 6         \* 100_000
OvershootGuard == 2    \* 19
GroupSize == 2         \* 50
MaxCodeLength == 7     \* 20
MaxBlockSize  == 3     \* 9
MapGroups == 4         \* 16 groups of 16 bytes in the map of used bytes
RandomNumbers == <<2, 3, 4>>   \* BZ2_RNUMS

BzipMagic   == <<0, 1, 1, 0>>
BlockMarker == <<0, 1, 1>>
EndMarker   == <<1, 0, 1>>
PointerBits  == 4      \* 24
SelectorBits == 3      \* 15

\* crc32, as a sum that depends on every byte and its place.
Crc(bytes) ==
  MsbField((1 + MapThenSumSet(LAMBDA i : i * (bytes[i] + 1), DOMAIN bytes)) % 2^ByteBits, ByteBits)

Xor(a, b) == [i \in DOMAIN a |-> (a[i] + b[i]) % 2]
RotateLeft(bits) == Append(Tail(bits), Head(bits))
CombinedCrc(combined, crc) == Xor(RotateLeft(combined), crc)

-----------------------------------------------------------------------------
(* The first run-length coding *)

RunAt(bytes, at, longest) ==
  Max({n \in 1 .. Min({longest, Len(bytes) - at}) :
         \A k \in 1 .. n : bytes[at + k] = bytes[at + 1]})

Repeat(byte, n) == [i \in 1 .. n |-> byte]

RECURSIVE EncodeRle1(_, _)
EncodeRle1(bytes, at) ==
  IF at = Len(bytes) THEN <<>>
  ELSE LET run == RunAt(bytes, at, LongestRun)
           coded == IF run < MinRun THEN Repeat(bytes[at + 1], run)
                    ELSE Append(Repeat(bytes[at + 1], MinRun), run - MinRun)
       IN  coded \o EncodeRle1(bytes, at + run)

Truncated == <<-1>>

\* A run that is not followed by its count makes the block invalid.
RECURSIVE DecodeRle1(_, _)
DecodeRle1(bytes, at) ==
  IF at = Len(bytes) THEN <<>>
  ELSE LET run  == RunAt(bytes, at, MinRun)
           counted == run = MinRun
           length  == IF counted THEN run + bytes[at + run + 1] ELSE run
           rest    == DecodeRle1(bytes, at + run + (IF counted THEN 1 ELSE 0))
       IN  IF counted /\ at + run = Len(bytes) THEN Truncated
           ELSE IF rest = Truncated THEN Truncated
           ELSE Repeat(bytes[at + 1], length) \o rest

\* rle1_block_end: whole runs, as many as fit the limit once they are coded.
RECURSIVE Rle1BlockEnd(_, _, _)
Rle1BlockEnd(bytes, at, room) ==
  IF at = Len(bytes) THEN at
  ELSE LET run   == RunAt(bytes, at, LongestRun)
           width == IF run < MinRun THEN run ELSE MinRun + 1
       IN  IF width > room THEN at ELSE Rle1BlockEnd(bytes, at + run, room - width)

\* Every byte on which a countdown through the table reaches one is flipped.
RECURSIVE FlippedAt(_, _)
FlippedAt(index, start) ==
  LET n == RandomNumbers[(index % Len(RandomNumbers)) + 1]
  IN  IF start > 2^PointerBits THEN {}
      ELSE {start + n - 2} \cup FlippedAt(index + 1, start + n)

Derandomize(bytes) ==
  LET flipped == FlippedAt(0, 1)
  IN  [i \in DOMAIN bytes |->
         IF i \in flipped THEN (IF bytes[i] % 2 = 0 THEN bytes[i] + 1 ELSE bytes[i] - 1)
         ELSE bytes[i]]

-----------------------------------------------------------------------------
(* The Burrows-Wheeler transform; indices of rotations count from 0 *)

Below(a, b) == a[1] < b[1] \/ (a[1] = b[1] /\ a[2] < b[2])

\* bwt sorts the rotations by ranks that tell apart prefixes of twice the
\* length after each round: one round.
RefinedRanks(rank, step) ==
  LET n    == Cardinality(DOMAIN rank)
      key  == [i \in 0 .. n - 1 |-> <<rank[i], rank[(i + step) % n]>>]
  IN  [i \in 0 .. n - 1 |-> Cardinality({k \in Range(key) : Below(k, key[i])})]

RoundSuffices(rank, step) ==
  \/ Max(Range(rank)) = Cardinality(DOMAIN rank) - 1
  \/ step >= Cardinality(DOMAIN rank)

\* Where a rotation stands among the sorted ones; equal ones keep their order.
Sorted(rank, i) ==
  Cardinality({j \in DOMAIN rank : Below(<<rank[j], j>>, <<rank[i], i>>)})

\* The last bytes of the sorted rotations; the original pointer is Sorted(rank, 0).
Transformed(bytes, rank) ==
  LET n == Len(bytes)
      rotation(k) == CHOOSE i \in 0 .. n - 1 : Sorted(rank, i) = k
  IN  [k \in 1 .. n |-> bytes[((rotation(k - 1) + n - 1) % n) + 1]]

InverseBwt(bytes, pointer) ==
  LET n == Len(bytes)
      sorted(i) == Cardinality({j \in 1 .. n : Below(<<bytes[j], j>>, <<bytes[i], i>>)})
      next   == [k \in 0 .. n - 1 |-> CHOOSE i \in 1 .. n : sorted(i) = k]
      walk[k \in 1 .. n] == IF k = 1 THEN next[pointer] ELSE next[walk[k - 1] - 1]
  IN  [k \in 1 .. n |-> bytes[walk[k]]]

-----------------------------------------------------------------------------
(* Move to front and the second run-length coding *)

Ascending(S) == [k \in 1 .. Cardinality(S) |->
                   CHOOSE x \in S : Cardinality({y \in S : y < x}) = k - 1]

UsedBytes(bytes) == Ascending(Range(bytes))
ToFront(list, i) == <<list[i]>> \o RemoveAt(list, i)
IndexIn(list, value) == CHOOSE i \in DOMAIN list : list[i] = value

\* flush_zero_run: a number in digits of weight 1, 2, 4, ... with values 1 and 2.
RECURSIVE FlushZeroRun(_)
FlushZeroRun(run) ==
  IF run = 0 THEN <<>>
  ELSE <<IF run % 2 = 1 THEN RunA ELSE RunB>> \o FlushZeroRun((run - 1) \div 2)

RECURSIVE MtfSymbols(_, _, _)
MtfSymbols(bytes, mtf, zeros) ==
  IF bytes = <<>> THEN FlushZeroRun(zeros)
  ELSE LET i == IndexIn(mtf, Head(bytes))
       IN  IF i = 1 THEN MtfSymbols(Tail(bytes), mtf, zeros + 1)
           ELSE FlushZeroRun(zeros) \o <<i>> \o MtfSymbols(Tail(bytes), ToFront(mtf, i), 0)

MtfRle2(bytes) ==
  Append(MtfSymbols(bytes, UsedBytes(bytes), 0), Len(UsedBytes(bytes)) + 1)

-----------------------------------------------------------------------------
(* Trees and selectors *)

\* As short as a complete tree allows, the shorter codes first.
BalancedLengths(n) ==
  LET bits  == Min({b \in 1 .. MaxCodeLength : 2^b >= n})
      short == IF bits > 1 THEN 2^bits - n ELSE 0
  IN  [s \in 0 .. n - 1 |-> IF s < short THEN bits - 1 ELSE bits]

\* A tree of another writer, with codes as long as they may be.
SkewedLengths(n) == [s \in 0 .. n - 1 |-> Min({s + 1, n - 1})]

GroupCount(symbols) == IF symbols < 3 * GroupSize THEN 2 ELSE 3   \* up to 6
SelectorCount(symbols) == (symbols + GroupSize - 1) \div GroupSize

\* What a block's symbols are coded with: n symbols of an alphabet.
DzipTrees(n, alphabet) ==
  [trees     |-> [g \in 1 .. GroupCount(n) |-> BalancedLengths(alphabet)],
   selectors |-> [k \in 1 .. SelectorCount(n) |-> (k - 1) % GroupCount(n)]]

ForeignTrees(n, alphabet) ==
  [trees     |-> <<BalancedLengths(alphabet), SkewedLengths(alphabet), BalancedLengths(alphabet)>>,
   selectors |-> [k \in 1 .. SelectorCount(n) |-> (2 * k) % 3]]

\* A selector is one-bits for its place in a move-to-front list, then a zero.
RECURSIVE SelectorCode(_, _)
SelectorCode(selectors, mtf) ==
  IF selectors = <<>> THEN <<>>
  ELSE LET i == IndexIn(mtf, Head(selectors))
       IN  Repeat(1, i - 1) \o <<0>> \o SelectorCode(Tail(selectors), ToFront(mtf, i))

Groups(n) == [g \in 1 .. n |-> g - 1]

\* write_code_lengths: each one by steps of one from the one before.
CodeLengthBits(lengths) ==
  LET before(s) == IF s = 0 THEN lengths[0] ELSE lengths[s - 1]
      steps(s)  == IF lengths[s] >= before(s)
                   THEN FlattenSeq(Repeat(<<1, 0>>, lengths[s] - before(s)))
                   ELSE FlattenSeq(Repeat(<<1, 1>>, before(s) - lengths[s]))
  IN  MsbField(lengths[0], 3)
        \o FlattenSeq([s \in 1 .. Cardinality(DOMAIN lengths) |-> Append(steps(s - 1), 0)])

MapGroupSize == 2^ByteBits \div MapGroups
Group(byte) == byte \div MapGroupSize

UsedMapBits(used) ==
  LET present(g) == \E byte \in Range(used) : Group(byte) = g
      flag(bool) == IF bool THEN 1 ELSE 0
      members(g) == [low \in 1 .. MapGroupSize |-> flag(MapGroupSize * g + low - 1 \in Range(used))]
  IN  [g \in 1 .. MapGroups |-> flag(present(g - 1))]
        \o FlattenSeq([g \in 1 .. MapGroups |-> IF present(g - 1) THEN members(g - 1) ELSE <<>>])

\* The trees take turns, a group of symbols each, as the selectors say.
SymbolBits(symbols, t) ==
  FlattenSeq([k \in DOMAIN symbols |->
    CodesFor(t.trees[t.selectors[((k - 1) \div GroupSize) + 1] + 1])[symbols[k]]])

-----------------------------------------------------------------------------
(* The encoder *)

\* encode_block, once the rotations of the block are sorted.
BlockBits(c) ==
  LET bwt     == Transformed(c.rle1, c.rank)
      used    == UsedBytes(bwt)
      symbols == MtfRle2(bwt)
      t       == IF c.randomized = 1 THEN ForeignTrees(Len(symbols), Len(used) + 2)
                 ELSE DzipTrees(Len(symbols), Len(used) + 2)
  IN  BlockMarker \o Crc(c.block) \o <<c.randomized>> \o MsbField(Sorted(c.rank, 0), PointerBits)
        \o UsedMapBits(used)
        \o MsbField(Len(t.trees), 3) \o MsbField(Len(t.selectors), SelectorBits)
        \o SelectorCode(t.selectors, Groups(Len(t.trees)))
        \o FlattenSeq([g \in DOMAIN t.trees |-> CodeLengthBits(t.trees[g])])
        \o SymbolBits(symbols, t)

NoCrc == [i \in 1 .. ByteBits |-> 0]
BzipHeader(size) == BzipMagic \o MsbField(size, ByteBits)

\* What the encoder and the decoder have to agree on between two blocks.
BzipPassing(c) ==
  Passing(c.position, <<ByteBits * Len(c.streams) + Len(c.bits), c.combined>>)

\* Begin a stream behind those that are finished.
StartBzip(streams, position, size) ==
  LET c == [at |-> "blocks", streams |-> streams, bits |-> BzipHeader(size), size |-> size,
            position |-> position, combined |-> NoCrc, block |-> <<>>, randomized |-> 0,
            rle1 |-> <<>>, rank |-> <<>>, step |-> 0]
  IN  EncoderBecomes(c) /\ BzipPassing(c)

BeginBlock(end, randomized) ==
  LET block == SubSeq(job.input, coder.position + 1, end)
      rle1  == EncodeRle1(block, 0)
      bytes == IF randomized = 1 THEN Derandomize(rle1) ELSE rle1
  IN  /\ EncoderBecomes([coder EXCEPT !.at = "rotations", !.block = block, !.rle1 = bytes,
                                      !.rank = [i \in 0 .. Len(bytes) - 1 |-> bytes[i + 1]],
                                      !.step = 1, !.randomized = randomized])
      /\ UNCHANGED marks

BzipRank ==
  /\ Encoding("BZIP", "rotations")
  /\ LET rank == RefinedRanks(coder.rank, coder.step)
     IN  EncoderBecomes([coder EXCEPT
           !.at = IF RoundSuffices(rank, coder.step) THEN "block" ELSE @,
           !.rank = rank, !.step = Min({2 * @, Len(coder.rle1)})])
  /\ UNCHANGED marks

BzipWriteBlock ==
  /\ Encoding("BZIP", "block")
  /\ LET c == [coder EXCEPT !.at = "blocks", !.position = @ + Len(coder.block),
                            !.bits = @ \o BlockBits(coder),
                            !.combined = CombinedCrc(@, Crc(coder.block))]
     IN  EncoderBecomes(c) /\ BzipPassing(c)

EndedStreams == coder.streams \o Pack(coder.bits \o EndMarker \o coder.combined)

BzipEncode ==
  /\ Encoding("BZIP", "idle") /\ job.writer = "dzip" /\ StartBzip(<<>>, 0, 1)

BzipEncodeBlock ==
  /\ Encoding("BZIP", "blocks") /\ job.writer = "dzip" /\ coder.position < Len(job.input)
  /\ BeginBlock(Rle1BlockEnd(job.input, coder.position, coder.size * BlockUnit - OvershootGuard), 0)

BzipEncodeEnd ==
  /\ Encoding("BZIP", "blocks") /\ coder.position = Len(job.input)
  /\ Store(EndedStreams, Len(EndedStreams)) /\ UNCHANGED marks

\* Another writer: it ends its first block where it likes, up to the whole
\* capacity, the second with the input; it randomizes blocks and mixes trees,
\* and may put the second block into a stream of its own.
BzipForeignStart ==
  /\ Encoding("BZIP", "idle") /\ job.writer = "external"
  /\ \E size \in 1 .. 2 : StartBzip(<<>>, 0, size)

BzipForeignBlock ==
  /\ Encoding("BZIP", "blocks") /\ job.writer = "external"
  /\ \E end \in coder.position + 1 .. Len(job.input) :
       /\ coder.position = 0 \/ end = Len(job.input)
       /\ Len(EncodeRle1(SubSeq(job.input, coder.position + 1, end), 0)) <= coder.size * BlockUnit
       /\ \E randomized \in {0, 1} : BeginBlock(end, randomized)

BzipForeignStream ==
  /\ Encoding("BZIP", "blocks") /\ job.writer = "external"
  /\ coder.position \in 1 .. Len(job.input) - 1 /\ coder.streams = <<>>
  /\ StartBzip(EndedStreams, coder.position, 1)

-----------------------------------------------------------------------------
(* The decoder's loop over streams *)

BzipOpen ==
  /\ Opening("BZIP")
  /\ IF Len(span) < 2 THEN Fail
     ELSE DecoderBecomes([at |-> "stream", offset |-> 0]) /\ UNCHANGED output

BzipStream ==
  /\ Decoding("BZIP", "stream")
  /\ LET stream_bytes == SubSeq(span, coder.offset + 1, Len(span))
         size == MsbValue(stream_bytes[2])
     IN  IF stream_bytes = <<>> THEN Deliver
         ELSE IF \/ Len(stream_bytes) < 2
                 \/ stream_bytes[1] # BzipMagic \/ size \notin 1 .. MaxBlockSize
         THEN Fail
         ELSE /\ UNCHANGED output
              /\ DecoderBecomes([at |-> "marker", offset |-> coder.offset,
                   bits |-> Unpack(SubSeq(stream_bytes, 3, Len(stream_bytes))), pos |-> 0,
                   capacity |-> size * BlockUnit, combined |-> NoCrc])

AtEndMarker == Has(Len(EndMarker)) /\ Bits(0, Len(EndMarker)) = EndMarker

BzipStreamEnd ==
  /\ Decoding("BZIP", "marker") /\ AtEndMarker
  /\ IF ~Has(3 + ByteBits) \/ Bits(3, ByteBits) # coder.combined THEN Fail
     ELSE /\ UNCHANGED output
          /\ DecoderBecomes([at |-> "stream",
               offset |-> coder.offset + 2 + AlignToByte(coder.pos + 3 + ByteBits) \div ByteBits])

-----------------------------------------------------------------------------
(* decode_block_symbols *)

BzipBlockStart ==
  /\ Decoding("BZIP", "marker") /\ ~AtEndMarker
  /\ LET length == 3 + ByteBits + 1 + PointerBits
     IN  IF ~Has(length) \/ Bits(0, 3) # BlockMarker THEN Fail
         ELSE /\ UNCHANGED output
              /\ DecoderBecomes(
                   [at |-> "map", offset |-> coder.offset, bits |-> coder.bits,
                    pos |-> coder.pos + length, capacity |-> coder.capacity,
                    combined |-> coder.combined, crc |-> Bits(3, ByteBits),
                    randomized |-> Bits(3 + ByteBits, 1)[1],
                    pointer |-> MsbValue(Bits(4 + ByteBits, PointerBits)),
                    used |-> <<>>, counts |-> <<0, 0>>, selectors |-> <<>>, list |-> <<>>,
                    trees |-> <<>>, decoded |-> 0, run |-> 0, weight |-> 1, bwt |-> <<>>])

\* read_used_map and the counts of groups and selectors.
BzipUsedMap ==
  /\ Decoding("BZIP", "map")
  /\ LET present == {g \in 0 .. MapGroups - 1 : Bits(g, 1) = <<1>>}
         at(byte) == MapGroups + (byte % MapGroupSize)
                       + MapGroupSize * Cardinality({g \in present : g < Group(byte)})
         length == MapGroups + MapGroupSize * Cardinality(present)
         used   == {byte \in 0 .. 2^ByteBits - 1 : Group(byte) \in present /\ Bits(at(byte), 1) = <<1>>}
         groups == MsbValue(Bits(length, 3))
         count  == MsbValue(Bits(length + 3, SelectorBits))
     IN  IF \/ ~Has(MapGroups) \/ ~Has(length + 3 + SelectorBits)
            \/ used = {} \/ groups \notin 2 .. 6 \/ count = 0
         THEN Fail
         ELSE /\ UNCHANGED output
              /\ DecoderBecomes([coder EXCEPT
                   !.at = "selectors", !.pos = @ + length + 3 + SelectorBits,
                   !.used = Ascending(used), !.counts = <<groups, count>>,
                   !.list = Groups(groups)])

BzipSelector ==
  /\ Decoding("BZIP", "selectors") /\ Len(coder.selectors) < coder.counts[2]
  /\ LET zeros == {n \in 0 .. coder.counts[1] - 1 : Has(n + 1) /\ Bits(n, 1) = <<0>>}
         i     == Min(zeros) + 1
     IN  IF zeros = {} THEN Fail
         ELSE /\ UNCHANGED output
              /\ DecoderBecomes([coder EXCEPT !.pos = @ + i, !.list = ToFront(@, i),
                                              !.selectors = Append(@, coder.list[i])])

\* The lengths of one tree; the position Refused if they cannot be read.
RECURSIVE ReadCodeLengths(_, _, _)
ReadCodeLengths(pos, current, lengths) ==
  LET step == IF coder.bits[pos + 2] = 0 THEN 1 ELSE -1
  IN  IF Len(lengths) = Len(coder.used) + 2 THEN <<pos, lengths>>
      ELSE IF pos + 1 > Len(coder.bits) THEN <<Refused, lengths>>
      ELSE IF coder.bits[pos + 1] = 0 THEN ReadCodeLengths(pos + 1, current, Append(lengths, current))
      ELSE IF pos + 2 > Len(coder.bits) \/ current + step \notin 1 .. MaxCodeLength
      THEN <<Refused, lengths>>
      ELSE ReadCodeLengths(pos + 2, current + step, lengths)

BzipTree ==
  /\ Decoding("BZIP", "selectors") /\ Len(coder.selectors) = coder.counts[2]
  /\ LET read == ReadCodeLengths(coder.pos + 3, MsbValue(Bits(0, 3)), <<>>)
         done == Len(coder.trees) + 1 = coder.counts[1]
     IN  IF \/ ~Has(3) \/ read[1] = Refused
            \/ \E s \in DOMAIN read[2] : read[2][s] \notin 1 .. MaxCodeLength
            \/ Oversubscribed(read[2])
         THEN Fail
         ELSE /\ UNCHANGED output
              /\ DecoderBecomes([coder EXCEPT
                   !.at = IF done THEN "symbols" ELSE @, !.pos = read[1],
                   !.trees = Append(@, CodesFor(FromZero(read[2]))), !.list = coder.used])

\* Huffman::decode reads bit by bit until it has a code.
NextSymbol(codes) ==
  LET found == {s \in DOMAIN codes : Has(Len(codes[s])) /\ Bits(0, Len(codes[s])) = codes[s]}
  IN  IF found = {} THEN Refused ELSE CHOOSE s \in found : TRUE

BzipSymbol ==
  /\ Decoding("BZIP", "symbols")
  /\ LET group   == (coder.decoded \div GroupSize) + 1
         codes   == coder.trees[coder.selectors[group] + 1]
         symbol  == NextSymbol(codes)
         flushed == coder.bwt \o Repeat(coder.list[1], coder.run)
         read    == [coder EXCEPT !.pos = @ + Len(codes[symbol]), !.decoded = @ + 1]
         settled == [read EXCEPT !.bwt = flushed, !.run = 0, !.weight = 1]
     IN  IF \/ group > Len(coder.selectors)
            \/ symbol = Refused
            \/ symbol \notin {RunA, RunB} /\ Len(flushed) > coder.capacity
            \/ symbol \in 2 .. Len(coder.used) /\ Len(flushed) = coder.capacity
         THEN Fail
         ELSE /\ UNCHANGED output
              /\ DecoderBecomes(
                   CASE symbol \in {RunA, RunB} ->
                          [read EXCEPT !.run = @ + coder.weight * (symbol + 1), !.weight = 2 * @]
                     [] symbol \in 2 .. Len(coder.used) ->
                          [settled EXCEPT !.list = ToFront(@, symbol),
                                          !.bwt = Append(@, coder.list[symbol])]
                     [] symbol > Len(coder.used) -> [settled EXCEPT !.at = "block"])

BzipBlockEnd ==
  /\ Decoding("BZIP", "block")
  /\ LET rle1  == InverseBwt(coder.bwt, coder.pointer)
         block == DecodeRle1(IF coder.randomized = 1 THEN Derandomize(rle1) ELSE rle1, 0)
     IN  IF \/ coder.pointer >= Len(coder.bwt)
            \/ block = Truncated
            \/ Position + Len(block) > expected
            \/ Crc(block) # coder.crc
         THEN Fail
         ELSE /\ output' = output \o block
              /\ DecoderBecomes([at |-> "marker", offset |-> coder.offset, bits |-> coder.bits,
                    pos |-> coder.pos, capacity |-> coder.capacity,
                    combined |-> CombinedCrc(coder.combined, coder.crc)])

\* The decoder's counterpart of the encoder's marks.
BzipMark == <<ByteBits * (coder.offset + 2) + coder.pos, coder.combined>>
AtBzipMark == Decoding("BZIP", "marker")

BzipNext ==
  \/ BzipEncode \/ BzipEncodeBlock \/ BzipRank \/ BzipWriteBlock \/ BzipEncodeEnd
  \/ BzipForeignStart \/ BzipForeignBlock \/ BzipForeignStream
  \/ BzipOpen \/ BzipStream \/ BzipStreamEnd \/ BzipBlockStart \/ BzipUsedMap
  \/ BzipSelector \/ BzipTree \/ BzipSymbol \/ BzipBlockEnd
=============================================================================
