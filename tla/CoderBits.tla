----------------------------- MODULE CoderBits ------------------------------
(***************************************************************************)
(* What the Zlib and BZip2 engines share: fields of bits packed into bytes *)
(* and canonical Huffman codes.  DEFLATE stores a field from its low bit   *)
(* on and a code reversed, BZip2 stores both from the high bit on; here a  *)
(* stream of bits is a sequence in the order in which it is written, and   *)
(* a byte is a sequence of ByteBits bits.  A Huffman tree is given as its  *)
(* code lengths, a function of the symbols.                                *)
(***************************************************************************)
EXTENDS Integers, Sequences, SequencesExt, FiniteSets, FiniteSetsExt

CONSTANT ByteBits      \* 8 in the code

ASSUME ByteBitsAssumption == ByteBits \in Nat \ {0}

\* write_bits(value, count) of the two engines.
MsbField(value, count) == [i \in 1 .. count |-> (value \div 2^(count - i)) % 2]
LsbField(value, count) == [i \in 1 .. count |-> (value \div 2^(i - 1)) % 2]

\* read_bits of the two engines.
MsbValue(bits) == MapThenSumSet(LAMBDA i : bits[i] * 2^(Len(bits) - i), DOMAIN bits)
LsbValue(bits) == MapThenSumSet(LAMBDA i : bits[i] * 2^(i - 1), DOMAIN bits)

\* BitWriter::finish: the last byte is filled up with zeros.
Pack(bits) ==
  LET bit(i) == IF i <= Len(bits) THEN bits[i] ELSE 0
  IN  [k \in 1 .. (Len(bits) + ByteBits - 1) \div ByteBits |->
         [i \in 1 .. ByteBits |-> bit((k - 1) * ByteBits + i)]]

\* The bits a BitReader yields, and how many whole bytes hold the first n.
Unpack(bytes) ==
  [i \in 1 .. ByteBits * Len(bytes) |->
     bytes[(i - 1) \div ByteBits + 1][((i - 1) % ByteBits) + 1]]

AlignToByte(n) == ((n + ByteBits - 1) \div ByteBits) * ByteBits

-----------------------------------------------------------------------------
(* Canonical codes *)

\* Lengths in a list, as a function of the symbols.
FromZero(seq) == [s \in 0 .. Len(seq) - 1 |-> seq[s + 1]]

CodesOfLength(lengths, n) == Cardinality({s \in DOMAIN lengths : lengths[s] = n})

\* left < 0 at some length
Oversubscribed(lengths) ==
  \E n \in 1 .. Max(Range(lengths)) :
    MapThenSumSet(LAMBDA k : CodesOfLength(lengths, k) * 2^(n - k), 1 .. n) > 2^n

\* next[n] before the first symbol of that length is numbered.
FirstCode(lengths, n) ==
  MapThenSumSet(LAMBDA k : CodesOfLength(lengths, k) * 2^(n - k), 1 .. n - 1)

CanonicalCode(lengths, symbol) ==
  FirstCode(lengths, lengths[symbol])
    + Cardinality({s \in DOMAIN lengths : s < symbol /\ lengths[s] = lengths[symbol]})

\* The bits of every code from the high bit on, <<>> for a symbol without one.
CodesFor(lengths) ==
  [s \in DOMAIN lengths |->
     IF lengths[s] = 0 THEN <<>> ELSE MsbField(CanonicalCode(lengths, s), lengths[s])]

-----------------------------------------------------------------------------
(* The hash chains of Zlib and LZMA *)

\* The common length of what stands at two positions, at most `longest`.
MatchLength(input, left, right, longest) ==
  Max({n \in 0 .. Min({longest, Len(input) - left}) :
         SubSeq(input, left + 1, left + n) = SubSeq(input, right + 1, right + n)})

\* What find_match may find: nothing, or a candidate inside the window with
\* the length it matches for.  Which candidates a chain holds depends on hash
\* collisions and on the bound on attempts, and is left open.
FoundMatches(input, position, hashed, window, longest) ==
  {<<0, 0>>} \cup
    IF position + hashed > Len(input) THEN {}
    ELSE {<<MatchLength(input, position, position - d, longest), d>> :
            d \in 1 .. Min({window, position})}
=============================================================================
