----------------------------- MODULE ChunkCoder -----------------------------
(***************************************************************************)
(* One chunk on its way through an external coder: a writer encodes its    *)
(* input into a stream, the stream is stored, and a reader hands the bytes *)
(* it believes to be the chunk to the decoder.  The writer is dzip's own   *)
(* encoder or another program that writes the same format; the reader has  *)
(* all of the stream, a part of it, or more than it.  The modules of the   *)
(* coders extend this one with the steps of an encoder and of a decoder.   *)
(***************************************************************************)
EXTENDS CoderBits, TLC

CONSTANTS
  Jobs,             \* what to encode: [codec, writer, input]
  MaxInputSize,     \* CodecLimits: bytes a decoder accepts
  MaxOutputSize     \* CodecLimits: bytes a decoder may be asked for

ASSUME JobsAssumption ==
  \A j \in Jobs : /\ j.codec \in {"ZLIB", "BZIP", "LZMA"}
                  /\ j.writer \in {"dzip", "external"}
                  /\ j.input \in Seq(Nat)

VARIABLES
  job,        \* the member of Jobs at work
  phase,      \* "encode", "stored", "open", "decode" or "done"
  coder,      \* the locals of the encoder or decoder
  stream,     \* the bytes the encoder returned
  need,       \* history: how many of them a decoder has to see
  marks,      \* history: <<length, model>> for the points the encoder passed
  span,       \* the bytes the decoder is given
  expected,   \* the decompressed length the chunk record declares
  output,     \* what is decoded
  result      \* "none", "ok" or "error"

jobVars == <<job, stream, need, marks, span, expected>>
vars == <<job, phase, coder, stream, need, marks, span, expected, output, result>>

Idle == [at |-> "idle"]

CoderInit ==
  /\ job \in Jobs /\ phase = "encode" /\ coder = Idle
  /\ stream = <<>> /\ need = 0 /\ marks = {}
  /\ span = <<>> /\ expected = 0 /\ output = <<>> /\ result = "none"

Position == Len(output)

-----------------------------------------------------------------------------
(* The encoder's side *)

Encoding(codec, at) == phase = "encode" /\ job.codec = codec /\ coder.at = at

\* A step of the encoder that leaves it with these locals.
EncoderBecomes(c) ==
  /\ coder' = c
  /\ UNCHANGED <<job, phase, stream, need, span, expected, output, result>>

\* A point the encoder passes: how much of the input is behind it, its model.
Passing(position, model) == marks' = marks \cup {<<position, model>>}

Store(bytes, needed) ==
  /\ stream' = bytes /\ need' = needed /\ phase' = "stored" /\ coder' = Idle
  /\ UNCHANGED <<job, marks, span, expected, output, result>>

\* The empty input of Zlib and LZMA is an empty stream.
StoreNothing ==
  /\ phase = "encode" /\ job.codec \in {"ZLIB", "LZMA"} /\ job.input = <<>>
  /\ Store(<<>>, 0)

-----------------------------------------------------------------------------
(* The reader's side *)

\* What lies behind the stream when the record's span is too long.
Gap == IF job.codec = "LZMA" THEN <<15>> ELSE <<[i \in 1 .. ByteBits |-> 1]>>

\* A span is cut short, exact or, unless it is empty, too long (a record that
\* stores nothing is given no bytes: is_physical_boundary); the record of an
\* exact one may declare another length than the input had.
ReadChunk ==
  /\ phase = "stored"
  /\ \/ /\ \/ \E n \in 0 .. Len(stream) : span' = SubSeq(stream, 1, n)
           \/ stream # <<>> /\ span' = stream \o Gap
        /\ expected' = Len(job.input)
     \/ /\ span' = stream
        /\ expected' \in {Len(job.input) - 1, Len(job.input) + 1} \cap Nat
  /\ phase' = "open"
  /\ UNCHANGED <<job, coder, stream, need, marks, output, result>>

Return(verdict) ==
  /\ phase' = "done" /\ coder' = Idle /\ result' = verdict
  /\ UNCHANGED jobVars

Fail == Return("error") /\ UNCHANGED output

\* The decoder returns its output if it has the length it was asked for.
Deliver == IF Position = expected THEN Return("ok") /\ UNCHANGED output ELSE Fail

WithinLimits == Len(span) <= MaxInputSize /\ expected <= MaxOutputSize

\* What comes before any engine: the limits, and the empty chunk.
OpenTrivially ==
  /\ phase = "open"
  /\ \/ ~WithinLimits /\ Fail
     \/ WithinLimits /\ span = <<>> /\ expected = 0 /\ Deliver

Opening(codec) ==
  /\ phase = "open" /\ job.codec = codec
  /\ WithinLimits /\ ~(span = <<>> /\ expected = 0)

Decoding(codec, at) == phase = "decode" /\ job.codec = codec /\ coder.at = at

\* A step of the decoder that leaves it with these locals.
DecoderBecomes(c) ==
  /\ coder' = c /\ phase' = "decode"
  /\ UNCHANGED <<jobVars, result>>

\* What the bit readers of Zlib and BZip2 have left.
Has(n) == coder.pos + n <= Len(coder.bits)
Bits(from, n) == SubSeq(coder.bits, coder.pos + from + 1, coder.pos + from + n)

Refused == -1    \* no offset and no symbol

\* Mutant: the bytes of the match are taken at once, from a buffer of zeros.
CopyBackAtOnce(bytes, distance, length) ==
  bytes \o [i \in 1 .. length |->
              IF i <= distance THEN bytes[Len(bytes) - distance + i] ELSE 0]

\* A match copies bytes one after the other, so that it may overlap itself.
CopyBack(bytes, distance, length) ==
  bytes \o [i \in 1 .. length |-> bytes[Len(bytes) - distance + 1 + ((i - 1) % distance)]]
=============================================================================
