------------------------------ MODULE LzmaCoder -----------------------------
(***************************************************************************)
(* The LZMA coder in the framing of LZMA-alone: a header with the model    *)
(* properties and the length, then packets through the range coder.  A     *)
(* packet is a literal, a match with a distance of its own, or one of four *)
(* kinds of repetition of a recent distance; what stands where in the bit  *)
(* stream, and with which probability, depends on the packets before it,   *)
(* so that the two sides have to keep the same state.                      *)
(*                                                                         *)
(* dzip's encoder chooses its packets greedily, writes its own properties, *)
(* the length and an end marker.  Other writers choose otherwise.  Sizes   *)
(* are scaled: literals of 4 bits for 8, lengths 2 to 9 for 2 to 273, slot *)
(* numbers of 4 bits for 6.                                                *)
(***************************************************************************)
EXTENDS ChunkCoder, LzmaRangeCoder

LiteralBits  == 4
MatchMinLen  == 2
LowBits      == 1      \* 3 in the code, as is MidBits; HighBits is 8
MidBits      == 1
HighBits     == 2
LongestLzma  == 9      \* 273
PosSlotBits  == 4      \* 6
StartPosModelIndex == 4
EndPosModelIndex   == 8   \* 14
NumAlignBits       == 2   \* 4
NumLenToPosStates  == 4
NumFullDistances   == 2^(EndPosModelIndex \div 2)
MaxDistance == 255     \* u32::MAX, the distance of the end marker
Dictionary  == 20      \* dict_size

\* The properties byte and the length field of the header.
DzipProps     == 5
LzmaPropsByte == 0 .. 7
UnknownLength == -1

Lc(props) == props % 2
Lp(props) == (props \div 2) % 2
Pb(props) == props \div 4

-----------------------------------------------------------------------------
(* The state machine of the packets *)

AfterLiteral(s)  == IF s < 4 THEN 0 ELSE IF s < 10 THEN s - 3 ELSE s - 6
AfterMatch(s)    == IF s < 7 THEN 7 ELSE 10
AfterRep(s)      == IF s < 7 THEN 8 ELSE 11
AfterShortRep(s) == IF s < 7 THEN 9 ELSE 11

\* The four recent distances after a match, and after a repetition of one of
\* them (index 0 to 3), which moves to the front.
PushDistance(reps, distance) == <<distance>> \o SubSeq(reps, 1, 3)
MoveToFront(reps, index) == <<reps[index + 1]>> \o RemoveAt(reps, index + 1)

Previous(bytes) == IF bytes = <<>> THEN 0 ELSE bytes[Len(bytes)]

PosState(props, position) == position % 2^Pb(props)

\* The table of a literal depends on the bytes before it, on how many they are
\* and on the last of them.
LiteralContext(props, before) ==
  (Len(before) % 2^Lp(props)) * 2^Lc(props) + (Previous(before) \div 2^(LiteralBits - Lc(props)))

LenState(length) == Min({length - MatchMinLen, NumLenToPosStates - 1})

-----------------------------------------------------------------------------
(* What a packet consists of: bits with their contexts *)

IsMatch(c, pos, bit) == <<<<<<"match", c.state, pos>>, bit>>>>
IsRep(c, bit)        == <<<<<<"rep", c.state>>, bit>>>>

LiteralPacket(c, byte, before) ==
  TreeBits(<<"literal", LiteralContext(c.props, before), 0>>, byte, LiteralBits)

\* While the bits agree with the byte at the last distance they have contexts
\* of their own.
MatchedLiteralPacket(c, byte, match, before) ==
  LET context == LiteralContext(c.props, before)
      table(k) == IF TreeNode(byte, LiteralBits, k - 1) = TreeNode(match, LiteralBits, k - 1)
                  THEN 1 + BitOf(match, LiteralBits - k) ELSE 0
  IN  [k \in 1 .. LiteralBits |->
         <<<<"literal", context, table(k), TreeNode(byte, LiteralBits, k - 1)>>,
           BitOf(byte, LiteralBits - k)>>]

\* LengthModel::encode; kind is 0 for matches, 1 for repetitions.
LengthPacket(kind, pos, length) ==
  LET value == length - MatchMinLen
      low   == 2^LowBits
      mid   == low + 2^MidBits
      choice(bit)  == <<<<<<"choice", kind>>, bit>>>>
      choice2(bit) == <<<<<<"choice2", kind>>, bit>>>>
  IN  CASE value < low -> choice(0) \o TreeBits(<<"low", kind, pos>>, value, LowBits)
        [] value \in low .. mid - 1 ->
             choice(1) \o choice2(0) \o TreeBits(<<"mid", kind, pos>>, value - low, MidBits)
        [] value >= mid ->
             choice(1) \o choice2(1) \o TreeBits(<<"high", kind>>, value - mid, HighBits)

\* encode_rep_index
RepIndexPacket(c, pos, index, length) ==
  IF index = 0
  THEN <<<<<<"g0", c.state>>, 0>>, <<<<"long", c.state, pos>>, IF length = 1 THEN 0 ELSE 1>>>>
  ELSE <<<<<<"g0", c.state>>, 1>>>>
         \o IF index = 1 THEN <<<<<<"g1", c.state>>, 0>>>>
            ELSE <<<<<<"g1", c.state>>, 1>>, <<<<"g2", c.state>>, index - 2>>>>

HighestBit(n) == Max({k \in 0 .. 8 : 2^k <= n})

SlotOf(distance) ==
  IF distance < 4 THEN distance
  ELSE 2 * HighestBit(distance) + BitOf(distance, HighestBit(distance) - 1)

FooterBits(slot) == (slot \div 2) - 1
SlotBase(slot)   == (2 + (slot % 2)) * 2^FooterBits(slot)

\* encode_distance: a slot, then the rest of the distance by a tree of the
\* shared table or by direct bits and the alignment tree.
DistancePacket(length, distance) ==
  LET slot   == SlotOf(distance)
      footer == distance - SlotBase(slot)
  IN  TreeBits(<<"slot", LenState(length)>>, slot, PosSlotBits)
        \o CASE slot < StartPosModelIndex -> <<>>
             [] slot \in StartPosModelIndex .. EndPosModelIndex - 1 ->
                  ReverseTreeBits(<<"footer">>, SlotBase(slot) - slot, footer, FooterBits(slot))
             [] slot >= EndPosModelIndex ->
                  DirectBits(footer \div 2^NumAlignBits, FooterBits(slot) - NumAlignBits)
                    \o ReverseTreeBits(<<"align">>, 1, footer % 2^NumAlignBits, NumAlignBits)

-----------------------------------------------------------------------------
(* The encoder *)

LzmaModel(c) == <<c.state, c.reps, c.rc.models>>
Coded(c, bits) == [c EXCEPT !.rc = EncodeAll(@, bits)]

\* After a packet that covers `length` bytes.
PacketWritten(c, length) ==
  LET d == [c EXCEPT !.position = @ + length]
  IN  EncoderBecomes(d) /\ Passing(d.position, LzmaModel(d))

StartLzma(props, declared, marker) ==
  LET c == [at |-> "packets", props |-> props, declared |-> declared, marker |-> marker,
            position |-> 0, state |-> 0, reps |-> <<0, 0, 0, 0>>, rc |-> NewEncoder]
  IN  EncoderBecomes(c) /\ Passing(0, LzmaModel(c))

LzmaEncode ==
  /\ Encoding("LZMA", "idle") /\ job.writer = "dzip" /\ job.input # <<>>
  /\ StartLzma(DzipProps, Len(job.input), TRUE)

\* Another writer: other properties, no marker, or no length but a marker.
LzmaForeignStart ==
  /\ Encoding("LZMA", "idle") /\ job.writer = "external" /\ job.input # <<>>
  /\ \/ StartLzma(0, Len(job.input), FALSE)
     \/ StartLzma(3, UnknownLength, TRUE)
     \/ StartLzma(4, Len(job.input), TRUE)

Before == SubSeq(job.input, 1, coder.position)

RepMatchLength(index) ==
  LET distance == coder.reps[index + 1] + 1
  IN  IF distance > coder.position THEN 0
      ELSE MatchLength(job.input, coder.position, coder.position - distance, LongestLzma)

\* The first of the longest repetitions.
BestRep ==
  Min({i \in 0 .. 3 : \A j \in 0 .. 3 : RepMatchLength(j) <= RepMatchLength(i)})

UseRep(found) ==
  LET length == RepMatchLength(BestRep)
  IN  \/ length >= 2 /\ length >= found[1]
      \/ BestRep = 0 /\ length = 1 /\ found[1] < 3

Found == FoundMatches(job.input, coder.position, 4, Dictionary, LongestLzma)

WriteRep(index, length) ==
  LET pos == PosState(coder.props, coder.position)
      c   == Coded(coder, IsMatch(coder, pos, 1) \o IsRep(coder, 1)
                            \o RepIndexPacket(coder, pos, index, length)
                            \o IF length = 1 THEN <<>> ELSE LengthPacket(1, pos, length))
  IN  PacketWritten([c EXCEPT !.state = IF length = 1 THEN AfterShortRep(@) ELSE AfterRep(@),
                              !.reps = MoveToFront(@, index)], length)

MatchBits(c, length, distance) ==
  LET pos == PosState(c.props, c.position)
  IN  IsMatch(c, pos, 1) \o IsRep(c, 0) \o LengthPacket(0, pos, length)
        \o DistancePacket(length, distance)

WriteMatch(length, distance) ==
  LET c == Coded(coder, MatchBits(coder, length, distance))
  IN  PacketWritten([c EXCEPT !.state = AfterMatch(@), !.reps = PushDistance(@, distance)], length)

WriteLiteral ==
  LET byte == job.input[coder.position + 1]
      last == coder.position - coder.reps[1]
      c == Coded(coder, IsMatch(coder, PosState(coder.props, coder.position), 0)
                 \o IF coder.state < 7 \/ last < 1
                    THEN LiteralPacket(coder, byte, Before)
                    ELSE MatchedLiteralPacket(coder, byte, job.input[last], Before))
  IN  PacketWritten([c EXCEPT !.state = AfterLiteral(@)], 1)

LzmaEncodePacket ==
  /\ Encoding("LZMA", "packets") /\ job.writer = "dzip" /\ coder.position < Len(job.input)
  /\ \E found \in Found :
       \/ UseRep(found) /\ WriteRep(BestRep, RepMatchLength(BestRep))
       \/ ~UseRep(found) /\ found[1] >= 3 /\ WriteMatch(found[1], found[2] - 1)
       \/ ~UseRep(found) /\ found[1] < 3 /\ WriteLiteral

\* Any packet that says what the input has.
LzmaForeignPacket ==
  /\ Encoding("LZMA", "packets") /\ job.writer = "external" /\ coder.position < Len(job.input)
  /\ \/ WriteLiteral
     \/ \E i \in 0 .. 3 : \E n \in 1 .. RepMatchLength(i) :
          (n = 1 => i = 0) /\ WriteRep(i, n)
     \/ \E d \in 1 .. coder.position :
          \E n \in 2 .. MatchLength(job.input, coder.position, coder.position - d, LongestLzma) :
            WriteMatch(n, d - 1)

LzmaEncodeEnd ==
  /\ Encoding("LZMA", "packets") /\ coder.position = Len(job.input)
  /\ LET header == <<coder.props, coder.declared>>
         bits   == IF coder.marker THEN MatchBits(coder, MatchMinLen, MaxDistance) ELSE <<>>
     IN  Store(header \o Finish(Coded(coder, bits).rc), Len(header) + BytesNeeded(coder.rc))
  /\ UNCHANGED marks

-----------------------------------------------------------------------------
(* The decoder *)

\* decode_with_buffer of codec/lzma.rs, the properties and the range prefix.
LzmaOpen ==
  /\ Opening("LZMA")
  /\ LET payload == SubSeq(span, 3, Len(span))
     IN  IF \/ Len(span) < 2
            \/ span[2] \notin {UnknownLength, expected}
            \/ span[1] \notin LzmaPropsByte
            \/ ~PrefixOk(payload)
         THEN Fail
         ELSE /\ UNCHANGED output
              /\ DecoderBecomes([at |-> "packets", props |-> span[1], state |-> 0,
                                 reps |-> <<0, 0, 0, 0>>, rc |-> NewDecoder(payload)])

LzmaDone == Decoding("LZMA", "packets") /\ Position = expected /\ Return("ok") /\ UNCHANGED output

\* The first bit of a packet, and where the packet is decided.
FirstBit == DecodeFlag(coder.rc, <<"match", coder.state, PosState(coder.props, Position)>>)
RepBit   == DecodeFlag(FirstBit, <<"rep", coder.state>>)

NextPacket == Decoding("LZMA", "packets") /\ Position < expected

\* LengthModel::decode: a decoder, and the length it found.
DecodeLength(d, kind, pos) ==
  LET choice  == DecodeFlag(d, <<"choice", kind>>)
      choice2 == DecodeFlag(choice, <<"choice2", kind>>)
      low     == DecodeTree(choice, <<"low", kind, pos>>, LowBits)
      mid     == DecodeTree(choice2, <<"mid", kind, pos>>, MidBits)
      high    == DecodeTree(choice2, <<"high", kind>>, HighBits)
  IN  IF LastBit(choice) = 0 THEN <<low, MatchMinLen + Symbol(low, LowBits)>>
      ELSE IF LastBit(choice2) = 0 THEN <<mid, MatchMinLen + 2^LowBits + Symbol(mid, MidBits)>>
      ELSE <<high, MatchMinLen + 2^LowBits + 2^MidBits + Symbol(high, HighBits)>>

\* The distance of a match: a decoder, and the distance it found.
DecodeDistance(d, length) ==
  LET slotted == DecodeTree(d, <<"slot", LenState(length)>>, PosSlotBits)
      slot    == Symbol(slotted, PosSlotBits)
      footer  == DecodeReverseTree(slotted, <<"footer">>, SlotBase(slot) - slot, FooterBits(slot))
      direct  == DecodeDirectBits([slotted EXCEPT !.node = 0], FooterBits(slot) - NumAlignBits)
      aligned == DecodeReverseTree(direct, <<"align">>, 1, NumAlignBits)
  IN  IF slot < StartPosModelIndex THEN <<slotted, slot>>
      ELSE IF slot < EndPosModelIndex
      THEN <<footer, SlotBase(slot) + ReverseSymbol(footer, FooterBits(slot))>>
      ELSE <<aligned, SlotBase(slot) + direct.node * 2^NumAlignBits
                        + ReverseSymbol(aligned, NumAlignBits)>>

\* copy_match
CopyMatch(d, state, reps, length) ==
  IF \/ d.truncated
     \/ reps[1] + 1 > Position \/ reps[1] + 1 > Dictionary
     \/ Position + length > expected
  THEN Fail
  ELSE /\ output' = CopyBack(output, reps[1] + 1, length)
       /\ DecoderBecomes([coder EXCEPT !.state = state, !.reps = reps, !.rc = d])

\* The bits of a literal after a match, as long as they agree with `match`.
RECURSIVE DecodeMatched(_, _, _, _)
DecodeMatched(d, context, match, n) ==
  LET agrees == d.node = TreeNode(match, LiteralBits, n)
      table  == IF agrees THEN 1 + BitOf(match, LiteralBits - 1 - n) ELSE 0
  IN  IF n = LiteralBits \/ d.truncated THEN d
      ELSE DecodeMatched(DecodeBit(d, <<"literal", context, table, d.node>>), context, match, n + 1)

LzmaDecodeLiteral ==
  /\ NextPacket /\ LastBit(FirstBit) = 0
  /\ LET context == LiteralContext(coder.props, output)
         distance == coder.reps[1] + 1
         matched == DecodeMatched([FirstBit EXCEPT !.node = 1], context,
                                  output[Position - distance + 1], 0)
         plain == DecodeTree(FirstBit, <<"literal", context, 0>>, LiteralBits)
         d     == IF coder.state < 7 THEN plain ELSE matched
     IN  IF \/ FirstBit.truncated
            \/ coder.state >= 7 /\ (distance > Position \/ distance > Dictionary)
            \/ d.truncated
         THEN Fail
         ELSE /\ output' = Append(output, Symbol(d, LiteralBits))
              /\ DecoderBecomes([coder EXCEPT !.state = AfterLiteral(@), !.rc = d])

\* A repetition: is_rep_g0, is_rep0_long, is_rep_g1 and is_rep_g2 choose.
LzmaDecodeRep ==
  /\ NextPacket /\ LastBit(FirstBit) = 1 /\ LastBit(RepBit) = 1
  /\ LET pos   == PosState(coder.props, Position)
         g0    == DecodeFlag(RepBit, <<"g0", coder.state>>)
         long  == DecodeFlag(g0, <<"long", coder.state, pos>>)
         g1    == DecodeFlag(g0, <<"g1", coder.state>>)
         g2    == DecodeFlag(g1, <<"g2", coder.state>>)
         which == IF LastBit(g0) = 0 THEN <<long, 0>>
                  ELSE IF LastBit(g1) = 0 THEN <<g1, 1>> ELSE <<g2, 2 + LastBit(g2)>>
         sized == DecodeLength(which[1], 1, pos)
         reps  == MoveToFront(coder.reps, which[2])
     IN  IF LastBit(g0) = 0 /\ LastBit(long) = 0
         THEN CopyMatch(long, AfterShortRep(coder.state), coder.reps, 1)
         ELSE CopyMatch(sized[1], AfterRep(coder.state), reps, sized[2])

LzmaDecodeMatch ==
  /\ NextPacket /\ LastBit(FirstBit) = 1 /\ LastBit(RepBit) = 0
  /\ LET sized   == DecodeLength(RepBit, 0, PosState(coder.props, Position))
         distant == DecodeDistance(sized[1], sized[2])
     IN  IF distant[2] = MaxDistance THEN Fail
         ELSE CopyMatch(distant[1], AfterMatch(coder.state),
                        PushDistance(coder.reps, distant[2]), sized[2])

\* The decoder's counterpart of the encoder's marks.
LzmaMark == LzmaModel(coder)
AtLzmaMark == Decoding("LZMA", "packets")

LzmaNext ==
  \/ LzmaEncode \/ LzmaEncodePacket \/ LzmaEncodeEnd
  \/ LzmaForeignStart \/ LzmaForeignPacket
  \/ LzmaOpen \/ LzmaDone \/ LzmaDecodeLiteral \/ LzmaDecodeRep \/ LzmaDecodeMatch
=============================================================================
