--------------------------- MODULE LzmaRangeCoder ---------------------------
(***************************************************************************)
(* The binary range coder of LZMA.  The encoder narrows an interval [low,  *)
(* low + range) bit by bit and writes the leading byte once it is settled; *)
(* a byte that a carry may still change waits in the cache, followed by as *)
(* many bytes of all ones as cache_size says.  The decoder follows with    *)
(* code, the distance of the stream's number from the encoder's low.       *)
(*                                                                         *)
(* A coder is a record of the fields of the Rust structure, the adaptive   *)
(* probabilities, by context, and `node`, the local of the bit trees.      *)
(* Words and bytes keep their roles with smaller sizes: a byte is a digit  *)
(* of base 16 for 256, a word has four of them, a probability five bits    *)
(* for eleven.                                                             *)
(***************************************************************************)
EXTENDS Integers, Sequences, SequencesExt, FiniteSetsExt, TLC

Base      == 16
TopValue  == Base^3
Word      == Base^4
ProbTotal == 32
MoveBits  == 2

-----------------------------------------------------------------------------
(* Probabilities *)

Probability(models, context) ==
  IF context \in DOMAIN models THEN models[context] ELSE ProbTotal \div 2

\* Move the probability of a zero towards the bit that was coded.
Learn(models, context, bit) ==
  LET p == Probability(models, context)
      q == IF bit = 0 THEN p + ((ProbTotal - p) \div 2^MoveBits) ELSE p - (p \div 2^MoveBits)
  IN  (context :> q) @@ models

\* The part of the range that stands for a zero.
Bound(coder, context) == (coder.range \div ProbTotal) * Probability(coder.models, context)

-----------------------------------------------------------------------------
(* RangeEncoder *)

NewEncoder == [bytes |-> <<>>, low |-> 0, range |-> Word - 1, cache |-> 0,
               cache_size |-> 1, models |-> <<>>]

\* Mutant: the leading byte is written at once, whatever may still carry.
ShiftLowAtOnce(e) ==
  LET low == e.low % Word
  IN  [e EXCEPT !.bytes = Append(@, (e.cache + e.low \div Word) % Base),
                !.cache = low \div TopValue, !.low = (low % TopValue) * Base]

ShiftLow(e) ==
  LET low   == e.low % Word
      carry == e.low \div Word
      settled == low < (Base - 1) * TopValue \/ carry # 0
      pending == [i \in 1 .. e.cache_size |->
                    ((IF i = 1 THEN e.cache ELSE Base - 1) + carry) % Base]
  IN  [e EXCEPT !.bytes = IF settled THEN @ \o pending ELSE @,
                !.cache = IF settled THEN low \div TopValue ELSE @,
                !.cache_size = IF settled THEN 1 ELSE @ + 1,
                !.low = (low % TopValue) * Base]

NormalizeEncoder(e) ==
  IF e.range < TopValue THEN ShiftLow([e EXCEPT !.range = @ * Base]) ELSE e

EncodeBit(e, context, bit) ==
  LET bound == Bound(e, context)
  IN  NormalizeEncoder(
        [e EXCEPT !.models = Learn(@, context, bit),
                  !.low    = IF bit = 0 THEN @ ELSE @ + bound,
                  !.range  = IF bit = 0 THEN bound ELSE @ - bound])

EncodeDirectBit(e, bit) ==
  LET half == e.range \div 2
  IN  NormalizeEncoder([e EXCEPT !.range = half, !.low = @ + bit * half])

\* Bits to be coded one after the other: <<context, bit>>, <<bit>> without one.
RECURSIVE EncodeAll(_, _)
EncodeAll(e, coded) ==
  IF coded = <<>> THEN e
  ELSE EncodeAll(IF Len(coded[1]) = 1 THEN EncodeDirectBit(e, coded[1][1])
                 ELSE EncodeBit(e, coded[1][1], coded[1][2]), Tail(coded))

\* Mutant: one byte of the final low is not flushed.
FinishEarly(e) == ShiftLow(ShiftLow(ShiftLow(ShiftLow(e)))).bytes

Finish(e) == ShiftLow(ShiftLow(ShiftLow(ShiftLow(ShiftLow(e))))).bytes

\* What a decoder has read once it has decoded all that e has coded.
BytesNeeded(e) == Len(e.bytes) + e.cache_size + 4

-----------------------------------------------------------------------------
(* RangeDecoder; bits collect in `node` behind a leading one *)

PrefixOk(bytes) == Len(bytes) >= 5 /\ bytes[1] = 0

NewDecoder(bytes) ==
  [input |-> bytes, position |-> 5, range |-> Word - 1,
   code |-> MapThenSumSet(LAMBDA i : bytes[i] * Base^(5 - i), 2 .. 5),
   models |-> <<>>, node |-> 1, truncated |-> FALSE]

\* Mutant: the decoder waits for one more bit than the encoder.
NormalizeDecoderLate(d) ==
  IF d.range >= TopValue \div 2 THEN d
  ELSE IF d.position >= Len(d.input) THEN [d EXCEPT !.truncated = TRUE]
  ELSE [d EXCEPT !.range = @ * Base, !.code = (@ * Base + d.input[d.position + 1]) % Word,
                 !.position = @ + 1]

NormalizeDecoder(d) ==
  IF d.range >= TopValue THEN d
  ELSE IF d.position >= Len(d.input) THEN [d EXCEPT !.truncated = TRUE]
  ELSE [d EXCEPT !.range = @ * Base, !.code = (@ * Base + d.input[d.position + 1]) % Word,
                 !.position = @ + 1]

\* A decoder that has missed a byte has returned its error.
DecodeBit(d, context) ==
  LET bound == Bound(d, context)
      bit   == IF d.code < bound THEN 0 ELSE 1
  IN  IF d.truncated THEN d
      ELSE NormalizeDecoder(
             [d EXCEPT !.models = Learn(@, context, bit), !.node = 2 * @ + bit,
                       !.code   = IF bit = 0 THEN @ ELSE @ - bound,
                       !.range  = IF bit = 0 THEN bound ELSE @ - bound])

DecodeDirectBit(d) ==
  LET half == d.range \div 2
      bit  == IF d.code >= half THEN 1 ELSE 0
  IN  IF d.truncated THEN d
      ELSE NormalizeDecoder([d EXCEPT !.range = half, !.code = @ - bit * half,
                                      !.node = 2 * @ + bit])

RECURSIVE DecodeDirectBits(_, _)
DecodeDirectBits(d, count) ==
  IF count = 0 THEN d ELSE DecodeDirectBits(DecodeDirectBit(d), count - 1)

\* One bit on its own, and the last one decoded.
DecodeFlag(d, context) == DecodeBit([d EXCEPT !.node = 1], context)
LastBit(d) == d.node % 2

-----------------------------------------------------------------------------
(* Bit trees: the context of a bit holds the bits before it *)

BitOf(value, k) == (value \div 2^k) % 2

\* The first n of a symbol's `bits` bits, behind a leading one.
TreeNode(symbol, bits, n) == 2^n + (symbol \div 2^(bits - n))

\* The same for a symbol that is coded from its low bit on.
RECURSIVE ReverseNode(_, _)
ReverseNode(symbol, n) ==
  IF n = 0 THEN 1 ELSE 2 * ReverseNode(symbol, n - 1) + BitOf(symbol, n - 1)

TreeBits(tree, symbol, bits) ==
  [k \in 1 .. bits |-> <<Append(tree, TreeNode(symbol, bits, k - 1)), BitOf(symbol, bits - k)>>]

ReverseTreeBits(tree, root, symbol, bits) ==
  [k \in 1 .. bits |->
     <<Append(tree, root + ReverseNode(symbol, k - 1) - 1), BitOf(symbol, k - 1)>>]

DirectBits(value, count) == [k \in 1 .. count |-> <<BitOf(value, count - k)>>]

RECURSIVE Descend(_, _, _)
Descend(d, tree, bits) ==
  IF bits = 0 THEN d ELSE Descend(DecodeBit(d, Append(tree, d.node)), tree, bits - 1)

DecodeTree(d, tree, bits) == Descend([d EXCEPT !.node = 1], tree, bits)

RECURSIVE DescendReverse(_, _, _, _)
DescendReverse(d, tree, root, bits) ==
  IF bits = 0 THEN d
  ELSE DescendReverse(DecodeBit(d, Append(tree, root + d.node - 1)), tree, root, bits - 1)

DecodeReverseTree(d, tree, root, bits) == DescendReverse([d EXCEPT !.node = 1], tree, root, bits)

Symbol(d, bits) == d.node - 2^bits
ReverseSymbol(d, bits) ==
  MapThenSumSet(LAMBDA k : BitOf(d.node, bits - 1 - k) * 2^k, 0 .. bits - 1)
=============================================================================
