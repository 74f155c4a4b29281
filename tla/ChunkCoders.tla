---------------------------- MODULE ChunkCoders -----------------------------
(***************************************************************************)
(* The external coders together, as encode and decode_with_buffer of       *)
(* codec/mod.rs dispatch to them, and what they promise the archive: what  *)
(* the archive reader takes for granted of a decoder (DecodeOutcomes) is   *)
(* what the coders do.                                                     *)
(***************************************************************************)
EXTENDS ZlibCoder, BzipCoder, LzmaCoder

Finished == phase = "done" /\ UNCHANGED vars

Next ==
  \/ StoreNothing \/ ReadChunk \/ OpenTrivially
  \/ ZlibNext \/ BzipNext \/ LzmaNext
  \/ Finished

Spec == CoderInit /\ [][Next]_vars

-----------------------------------------------------------------------------
(* What the archive reader expects *)

Archive == INSTANCE DzipArchive WITH MaxU32 <- MaxInputSize, MaxVolume <- 0

\* The chunk as an archive would hold it; the whole stream is always enough.
Record ==
  [chunks |-> <<[flags |-> {job.codec}, need |-> Min({need, Len(stream)}),
                 decompressed_length |-> expected]>>]

\* The zlib framing ends with its checksum, so a longer span loses it.
ChecksumMisplaced ==
  job.codec = "ZLIB" /\ StartsWith(span, ZlibHeader) /\ Len(span) > need

\* A chunk whose record tells the truth decodes to the bytes that were encoded
\* or is refused, exactly as DecodeOutcomes says of the bytes at hand: as soon
\* as the decoder has all it needs, whatever lies behind (Zlib, LZMA) or not
\* (BZip2), however the stream was cut, whoever wrote it; and never beyond the
\* limits of a chunk.
OutcomesAsPromised ==
  phase = "done" /\ expected = Len(job.input) =>
    LET promised == IF ~WithinLimits \/ ChecksumMisplaced THEN {"error"}
                    ELSE Archive!DecodeOutcomes(Record, 1, Len(span))
    IN  CASE result = "ok"    -> output = job.input /\ "exact" \in promised
          [] result = "error" -> "error" \in promised

\* What a decoder has produced is at any time a prefix of what was encoded, and
\* what it returns has the length its caller asked for.
NeverOtherBytes ==
  /\ IsPrefix(output, job.input)
  /\ result = "ok" => Len(output) = expected

\* Between two symbols the decoder is at a point the encoder has passed: as far
\* into the stream for as much output, and with the same adaptive state, the
\* recent distances and probabilities of LZMA, the running CRC of BZip2.
InLockstep ==
  /\ AtZlibMark => <<Position, ZlibMark>> \in marks
  /\ AtBzipMark => <<Position, BzipMark>> \in marks
  /\ AtLzmaMark => <<Position, LzmaMark>> \in marks

\* The range coder of LZMA never carries into a byte it has written, nor out of
\* the cache that waits for the carry, the decoder stays inside its range, and no
\* distance has its model outside the shared table.
RangeCoderSound ==
  /\ Encoding("LZMA", "packets") =>
       /\ coder.rc.range \in TopValue .. Word - 1
       /\ coder.rc.low >= Word => coder.rc.cache < Base - 1
       /\ coder.rc.bytes # <<>> => coder.rc.bytes[1] = 0
       /\ \A context \in DOMAIN coder.rc.models :
            context[1] = "footer" => context[2] \in 0 .. NumFullDistances - EndPosModelIndex - 1
  /\ AtLzmaMark /\ ~coder.rc.truncated => coder.rc.code < coder.rc.range
=============================================================================
