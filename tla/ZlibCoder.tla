----------------------------- MODULE ZlibCoder ------------------------------
(***************************************************************************)
(* The Zlib coder: DEFLATE in the framing of dzip.exe, a gzip header       *)
(* without the trailer.  dzip's encoder writes one final block with the    *)
(* fixed trees.  Its decoder also takes the streams of other writers: any  *)
(* sequence of stored, fixed and dynamic blocks, gzip headers with         *)
(* optional fields, and the zlib framing with its checksum.                *)
(*                                                                         *)
(* The alphabets are scaled down: four literals for 256, five lengths for  *)
(* 29, six distances for 30, code lengths of at most four bits for 15.     *)
(* The tables keep the shapes of the originals: equal and growing extra    *)
(* bits, a longest length that two symbols can express, reserved symbols.  *)
(***************************************************************************)
EXTENDS ChunkCoder

CONSTANTS
  GzipHeaders,     \* headers of other writers, with optional fields
  DynamicTrees     \* trees of other writers: [literal, distance, runs]

EndOfBlock  == 4
FirstLength == 5
LengthBase  == <<3, 4, 5, 7, 8>>
LengthExtra == <<0, 0, 1, 1, 0>>
DistBase    == <<1, 2, 3, 4, 5, 7>>
DistExtra   == <<0, 0, 0, 0, 1, 1>>
LongestMatch == 8
Window       == 8

FixedLiteralLengths ==
  [s \in 0 .. 10 |-> IF s <= 1 \/ s \in EndOfBlock .. EndOfBlock + 2 THEN 3 ELSE 4]
FixedLiteral  == CodesFor(FixedLiteralLengths)
FixedDistance == CodesFor([s \in 0 .. 7 |-> 3])

\* The symbols that encode a code length: 0 to 4, then copy the previous one,
\* repeat zero, repeat zero longer.
CodeLengthOrder == <<5, 6, 7, 0, 3, 4, 2, 1>>
CopyPrevious == 5
RepeatBase   == [s \in 5 .. 7 |-> IF s = 7 THEN 4 ELSE 2]
RepeatExtra  == [s \in 5 .. 7 |-> IF s = 7 THEN 2 ELSE 1]

GzipMagic  == <<1, 1, 1, 1>>
GzipHeader == <<GzipMagic, <<0, 0, 0, 0>>, <<0, 1, 0, 1>>>>
ZlibHeader == <<0, 0, 0, 1>>

\* adler32, two sums modulo 3 in one byte.
Checksum(bytes) ==
  LET a(n) == 1 + MapThenSumSet(LAMBDA i : bytes[i], 1 .. n)
      b    == MapThenSumSet(LAMBDA n : a(n), 1 .. Len(bytes))
  IN  MsbField(4 * (b % 3) + (a(Len(bytes)) % 3), ByteBits)

-----------------------------------------------------------------------------
(* The encoder *)

StartBlock(final, type) == <<final>> \o LsbField(type, 2)

\* write_length and write_distance: the first entry whose range reaches it.
TableIndex(base, extra, value) ==
  Min({i \in DOMAIN base : value <= base[i] + 2^extra[i] - 1})

LengthBits(c, length) ==
  LET i == TableIndex(LengthBase, LengthExtra, length)
  IN  c.literal[FirstLength + i - 1] \o LsbField(length - LengthBase[i], LengthExtra[i])

DistanceBits(c, distance) ==
  LET i == TableIndex(DistBase, DistExtra, distance)
  IN  c.distance[i - 1] \o LsbField(distance - DistBase[i], DistExtra[i])

\* The fixed trees have every code; the trees of another writer may lack some.
Expressible(c, found) ==
  LET length   == FirstLength + TableIndex(LengthBase, LengthExtra, found[1]) - 1
      distance == TableIndex(DistBase, DistExtra, found[2]) - 1
  IN  /\ length \in DOMAIN c.literal /\ c.literal[length] # <<>>
      /\ distance \in DOMAIN c.distance /\ c.distance[distance] # <<>>

\* What precedes and follows the raw stream.
Framed(header, raw) ==
  header \o raw \o IF header = <<ZlibHeader>> THEN <<Checksum(job.input)>> ELSE <<>>

\* encode of codec/zlib.rs, and encode_zlib, which has no archive to write for.
ZlibEncode ==
  /\ Encoding("ZLIB", "idle") /\ job.writer = "dzip"
  /\ \E header \in {GzipHeader, <<ZlibHeader>>} :
       /\ header = GzipHeader => job.input # <<>>
       /\ EncoderBecomes([at |-> "symbols", header |-> header, position |-> 0,
                          bits |-> StartBlock(1, 1), final |-> 1, blocks |-> 1,
                          literal |-> FixedLiteral, distance |-> FixedDistance])
  /\ marks' = {<<0, 0>>, <<0, 3>>}

Written(c) == EncoderBecomes(c) /\ Passing(c.position, Len(c.bits))

\* One turn of the encoder's loop: a match of at least three or a literal.
Emitted(c, bits, length) ==
  Written([c EXCEPT !.bits = @ \o bits, !.position = @ + length])

ZlibEncodeSymbol ==
  /\ Encoding("ZLIB", "symbols") /\ coder.position < Len(job.input)
  /\ \E found \in FoundMatches(job.input, coder.position, 3, Window, LongestMatch) :
       IF found[1] >= 3
       THEN /\ Expressible(coder, found)
            /\ Emitted(coder, LengthBits(coder, found[1]) \o DistanceBits(coder, found[2]), found[1])
       ELSE Emitted(coder, coder.literal[job.input[coder.position + 1]], 1)

ZlibEncodeEnd ==
  /\ Encoding("ZLIB", "symbols")
  /\ coder.final = 1 => coder.position = Len(job.input)
  /\ LET bits  == coder.bits \o coder.literal[EndOfBlock]
         bytes == Framed(coder.header, Pack(bits))
     IN  IF coder.final = 1 THEN Store(bytes, Len(bytes)) /\ UNCHANGED marks
         ELSE Written([coder EXCEPT !.at = "between", !.bits = bits])

-----------------------------------------------------------------------------
(* Another writer: it chooses its framing, and the type, the trees and the *)
(* end of each of at most two blocks; within a block it writes as dzip's.  *)

ZlibForeignStart ==
  /\ Encoding("ZLIB", "idle") /\ job.writer = "external" /\ job.input # <<>>
  /\ \E header \in GzipHeaders \cup {<<ZlibHeader>>} :
       EncoderBecomes([at |-> "between", header |-> header, position |-> 0,
                       bits |-> <<>>, final |-> 0, blocks |-> 0,
                       literal |-> <<>>, distance |-> <<>>])
  /\ Passing(0, 0)

\* All code lengths have a code of three bits.
ForeignTreeBits(t) ==
  LET run(r) == MsbField(r[1], 3)
                  \o IF r[1] >= CopyPrevious THEN LsbField(r[2], RepeatExtra[r[1]]) ELSE <<>>
  IN  LsbField(Len(t.literal) - (EndOfBlock + 1), 3) \o LsbField(Len(t.distance) - 1, 3)
        \o LsbField(3, 2)
        \o FlattenSeq([i \in 1 .. 8 |-> LsbField(3, 2)])
        \o FlattenSeq([i \in DOMAIN t.runs |-> run(t.runs[i])])

ZlibForeignBlock ==
  /\ Encoding("ZLIB", "between")
  /\ \E final \in {coder.blocks, 1} :
       LET begun(type, at) ==
             [coder EXCEPT !.at = at, !.final = final, !.blocks = 1,
                           !.bits = @ \o StartBlock(final, type)]
       IN  \/ Written([begun(1, "symbols") EXCEPT !.literal = FixedLiteral,
                                                 !.distance = FixedDistance])
           \/ \E t \in DynamicTrees :
                Written([begun(2, "symbols") EXCEPT
                           !.bits = @ \o ForeignTreeBits(t),
                           !.literal = CodesFor(FromZero(t.literal)),
                           !.distance = CodesFor(FromZero(t.distance))])
           \/ Written(begun(0, "stored"))

\* A stored block: the length, its complement and the bytes, from a byte on.
ZlibForeignStored ==
  /\ Encoding("ZLIB", "stored")
  /\ \E n \in 0 .. Len(job.input) - coder.position :
       /\ coder.final = 1 => coder.position + n = Len(job.input)
       /\ LET aligned == coder.bits \o [i \in 1 .. AlignToByte(Len(coder.bits)) - Len(coder.bits) |-> 0]
              bytes   == FlattenSeq([i \in 1 .. n |-> LsbField(job.input[coder.position + i], ByteBits)])
              bits    == aligned \o LsbField(n, ByteBits)
                           \o LsbField(2^ByteBits - 1 - n, ByteBits) \o bytes
          IN  IF coder.final = 1
              THEN LET whole == Framed(coder.header, Pack(bits))
                   IN  Store(whole, Len(whole)) /\ UNCHANGED marks
              ELSE Written([coder EXCEPT !.at = "between", !.bits = bits, !.position = @ + n])

-----------------------------------------------------------------------------
(* Framing, on the reader's side *)

SkipExtra(bytes, at) ==
  IF at + 1 > Len(bytes) THEN Refused
  ELSE LET end == at + 1 + LsbValue(bytes[at + 1])
       IN  IF end <= Len(bytes) THEN end ELSE Refused

SkipCString(bytes, at) ==
  LET zeros == {i \in at + 1 .. Len(bytes) : LsbValue(bytes[i]) = 0}
  IN  IF zeros = {} THEN Refused ELSE Min(zeros)

SkipChecksum(bytes, at) == IF at + 1 <= Len(bytes) THEN at + 1 ELSE Refused

\* The second byte holds a bit for each optional field.
GzipPayloadOffset(bytes) ==
  LET has(i, at) == at # Refused /\ bytes[2][i] = 1
      extra   == IF has(1, 0) THEN SkipExtra(bytes, 3) ELSE 3
      name    == IF has(2, extra) THEN SkipCString(bytes, extra) ELSE extra
      comment == IF has(3, name) THEN SkipCString(bytes, name) ELSE name
  IN  IF Len(bytes) < Len(GzipHeader) THEN Refused
      ELSE IF has(4, comment) THEN SkipChecksum(bytes, comment) ELSE comment

ZlibReader(format, payload) ==
  [at |-> "header", format |-> format, bits |-> Unpack(payload), pos |-> 0, final |-> 0,
   literal |-> <<>>, distance |-> <<>>, lengths |-> <<>>, counts |-> <<0, 0>>, copy |-> 0]

StartsWith(bytes, header) == bytes # <<>> /\ bytes[1] = header

\* decode_with_buffer of codec/zlib.rs and the header check of the engine: the
\* last byte of the zlib framing is the checksum.
ZlibOpenGzip ==
  /\ Opening("ZLIB") /\ StartsWith(span, GzipMagic)
  /\ LET offset == GzipPayloadOffset(span)
     IN  IF offset = Refused THEN Fail
         ELSE /\ UNCHANGED output
              /\ DecoderBecomes(ZlibReader("gzip", SubSeq(span, offset + 1, Len(span))))

ZlibOpen ==
  /\ Opening("ZLIB") /\ ~StartsWith(span, GzipMagic)
  /\ IF Len(span) < 2 \/ ~StartsWith(span, ZlibHeader) THEN Fail
     ELSE /\ UNCHANGED output
          /\ DecoderBecomes(ZlibReader("zlib", SubSeq(span, 2, Len(span) - 1)))

-----------------------------------------------------------------------------
(* The decoder's loop over blocks and symbols *)

\* Huffman::new refuses an empty and an oversubscribed tree.
ValidTree(lengths) == Max(Range(lengths)) > 0 /\ ~Oversubscribed(lengths)

\* Huffman::decode peeks at as many bits as the longest code has, past the end
\* at zeros, and consumes the length of the code it recognised if there are as
\* many.  The symbol, or Refused.
HuffmanSymbol(codes, bits, pos) ==
  LET left == Len(bits) - pos
      peek(i) == IF i <= left THEN bits[pos + i] ELSE 0
      found == {s \in DOMAIN codes : codes[s] # <<>> /\ \A i \in DOMAIN codes[s] : codes[s][i] = peek(i)}
      symbol == CHOOSE s \in found : TRUE
  IN  IF left = 0 \/ found = {} \/ Len(codes[symbol]) > left THEN Refused ELSE symbol

ZlibBlockHeader ==
  /\ Decoding("ZLIB", "header")
  /\ LET type == LsbValue(Bits(1, 2))
         next == [coder EXCEPT !.final = Bits(0, 1)[1], !.pos = @ + 3]
     IN  IF ~Has(3) \/ type = 3 THEN Fail
         ELSE /\ UNCHANGED output
              /\ DecoderBecomes(
                   CASE type = 0 -> [next EXCEPT !.at = "stored"]
                     [] type = 1 -> [next EXCEPT !.at = "symbol", !.literal = FixedLiteral,
                                                 !.distance = FixedDistance]
                     [] type = 2 -> [next EXCEPT !.at = "trees"])

\* The end of a block: the next one, or the length and the checksum.
EndZlibBlock(c, decoded) ==
  /\ output' = decoded
  /\ IF coder.final = 0 THEN DecoderBecomes([c EXCEPT !.at = "header"])
     ELSE Return(IF /\ Len(decoded) = expected
                    /\ c.format = "zlib" => span[Len(span)] = Checksum(decoded)
                 THEN "ok" ELSE "error")

ZlibStored ==
  /\ Decoding("ZLIB", "stored")
  /\ LET skip   == AlignToByte(coder.pos) - coder.pos
         length == LsbValue(Bits(skip, ByteBits))
         end    == skip + (2 + length) * ByteBits
     IN  IF \/ ~Has(skip + 2 * ByteBits)
            \/ length + LsbValue(Bits(skip + ByteBits, ByteBits)) # 2^ByteBits - 1
            \/ Position + length > expected
            \/ ~Has(end)
         THEN Fail
         ELSE EndZlibBlock([coder EXCEPT !.pos = @ + end],
                output \o [i \in 1 .. length |-> LsbValue(Bits(skip + (1 + i) * ByteBits, ByteBits))])

-----------------------------------------------------------------------------
(* read_dynamic_trees *)

ZlibTrees ==
  /\ Decoding("ZLIB", "trees")
  /\ LET codes == LsbValue(Bits(6, 2)) + 5
         coded == [k \in 1 .. codes |-> LsbValue(Bits(8 + 2 * (k - 1), 2))]
         lengths == [s \in 0 .. 7 |->
                       IF \E k \in 1 .. codes : CodeLengthOrder[k] = s
                       THEN coded[CHOOSE k \in 1 .. codes : CodeLengthOrder[k] = s] ELSE 0]
     IN  IF ~Has(8) \/ ~Has(8 + 2 * codes) \/ ~ValidTree(lengths) THEN Fail
         ELSE /\ UNCHANGED output
              /\ DecoderBecomes([coder EXCEPT
                   !.at = "lengths", !.pos = @ + 8 + 2 * codes, !.literal = CodesFor(lengths),
                   !.lengths = <<>>,
                   !.counts = <<LsbValue(Bits(0, 3)) + EndOfBlock + 1, LsbValue(Bits(3, 3)) + 1>>])

\* One turn of the loop that reads the code lengths.
ZlibCodeLength ==
  /\ Decoding("ZLIB", "lengths") /\ Len(coder.lengths) < coder.counts[1] + coder.counts[2]
  /\ LET symbol == HuffmanSymbol(coder.literal, coder.bits, coder.pos)
         used   == IF symbol = Refused THEN 0 ELSE Len(coder.literal[symbol])
         extra  == IF symbol >= CopyPrevious THEN RepeatExtra[symbol] ELSE 0
         count  == IF symbol >= CopyPrevious THEN RepeatBase[symbol] + LsbValue(Bits(used, extra)) ELSE 1
         value  == CASE symbol < CopyPrevious -> symbol
                     [] symbol = CopyPrevious -> coder.lengths[Len(coder.lengths)]
                     [] OTHER -> 0
     IN  IF \/ symbol = Refused \/ ~Has(used + extra)
            \/ symbol = CopyPrevious /\ coder.lengths = <<>>
            \/ Len(coder.lengths) + count > coder.counts[1] + coder.counts[2]
         THEN Fail
         ELSE /\ UNCHANGED output
              /\ DecoderBecomes([coder EXCEPT !.pos = @ + used + extra,
                                              !.lengths = @ \o [i \in 1 .. count |-> value]])

\* A single unused distance code stands for no distance tree at all.
ZlibUseTrees ==
  /\ Decoding("ZLIB", "lengths") /\ Len(coder.lengths) = coder.counts[1] + coder.counts[2]
  /\ LET literal  == FromZero(SubSeq(coder.lengths, 1, coder.counts[1]))
         distance == FromZero(SubSeq(coder.lengths, coder.counts[1] + 1, Len(coder.lengths)))
         absent   == \A s \in DOMAIN distance : distance[s] = 0
     IN  IF \/ literal[EndOfBlock] = 0 \/ ~ValidTree(literal)
            \/ IF absent THEN coder.counts[2] # 1 ELSE ~ValidTree(distance)
         THEN Fail
         ELSE /\ UNCHANGED output
              /\ DecoderBecomes([coder EXCEPT
                   !.at = "symbol", !.lengths = <<>>, !.literal = CodesFor(literal),
                   !.distance = IF absent THEN <<>> ELSE CodesFor(distance)])

-----------------------------------------------------------------------------
(* decode_huffman_block *)

ZlibSymbol ==
  /\ Decoding("ZLIB", "symbol")
  /\ LET symbol == HuffmanSymbol(coder.literal, coder.bits, coder.pos)
         index  == symbol - FirstLength + 1
         read   == [coder EXCEPT !.pos = @ + Len(coder.literal[symbol])]
         extra  == LengthExtra[index]
     IN  \/ symbol = Refused /\ Fail
         \/ /\ symbol \in 0 .. EndOfBlock - 1
            /\ IF Position = expected THEN Fail
               ELSE output' = Append(output, symbol) /\ DecoderBecomes(read)
         \/ symbol = EndOfBlock /\ EndZlibBlock(read, output)
         \/ /\ symbol > EndOfBlock
            /\ IF \/ index \notin DOMAIN LengthBase
                  \/ ~Has(Len(coder.literal[symbol]) + extra)
                  \/ coder.distance = <<>>
               THEN Fail
               ELSE /\ UNCHANGED output
                    /\ DecoderBecomes([read EXCEPT !.at = "distance", !.pos = @ + extra,
                         !.copy = LengthBase[index] + LsbValue(Bits(Len(coder.literal[symbol]), extra))])

ZlibDistance ==
  /\ Decoding("ZLIB", "distance")
  /\ LET symbol   == HuffmanSymbol(coder.distance, coder.bits, coder.pos)
         used     == Len(coder.distance[symbol])
         extra    == DistExtra[symbol + 1]
         distance == DistBase[symbol + 1] + LsbValue(Bits(used, extra))
     IN  IF \/ symbol = Refused \/ symbol + 1 \notin DOMAIN DistBase
            \/ ~Has(used + extra)
            \/ distance > Position \/ Position + coder.copy > expected
         THEN Fail
         ELSE /\ output' = CopyBack(output, distance, coder.copy)
              /\ DecoderBecomes([coder EXCEPT !.at = "symbol", !.pos = @ + used + extra, !.copy = 0])

\* The decoder's counterpart of the encoder's marks.
ZlibMark == coder.pos
AtZlibMark == Decoding("ZLIB", "symbol") \/ Decoding("ZLIB", "header")

ZlibNext ==
  \/ ZlibEncode \/ ZlibEncodeSymbol \/ ZlibEncodeEnd
  \/ ZlibForeignStart \/ ZlibForeignBlock \/ ZlibForeignStored
  \/ ZlibOpenGzip \/ ZlibOpen \/ ZlibBlockHeader \/ ZlibStored \/ ZlibTrees
  \/ ZlibCodeLength \/ ZlibUseTrees \/ ZlibSymbol \/ ZlibDistance
=============================================================================
