---------------------------- MODULE DzRangeCoder -----------------------------
(***************************************************************************)
(* The DZ range coder: RangeEncoder codes symbols with an AdaptiveModel    *)
(* and ends the stream with as few bytes as it can; RangeDecoder, with a   *)
(* model of its own, reads the symbols back, knowing nothing of where the  *)
(* stream ends, and can then tell where the next one begins.               *)
(*                                                                         *)
(* A byte is a number below Base, a u32 is four of them: TOP and BOTTOM    *)
(* are Base^3 and Base^2.  Base is 256 in the code.                        *)
(***************************************************************************)
EXTENDS AdaptiveModel, SequencesExt

CONSTANTS
  Base,
  Models,       \* the models a stream may start with
  Tails,        \* what may follow the stream in the input
  MaxSymbols    \* bound on the symbols of a stream

Bottom == Base * Base
Top    == Bottom * Base
Word   == Top * Base

ASSUME CoderAssumption ==
  /\ Base \in Nat \ {0, 1} /\ MaxSymbols \in Nat
  /\ ModelMaxTotal <= Bottom /\ FrequencyModulus = Bottom
  /\ \A m \in Models : Unused(m) /\ RoomForUpdates(m)
  /\ \A tail \in Tails : tail \in Seq(0 .. Base - 1)

VARIABLES
  phase,        \* "encode", "shift out", "decode", "shift in", "end" or "failed"
  sent,         \* the symbols encoded
  model,        \* the encoder's model, from Finish on the decoder's
  low, range,   \* the encoder's interval, from Finish on the decoder's
  output,       \* the encoder's output
  input,        \* the decoder's input: the output and what follows it
  position, code,
  got,          \* the symbols decoded
  initial,      \* history: the model at the start
  trail         \* history: the encoder's interval and model before each symbol

vars == <<phase, sent, model, low, range, output, input, position, code, got,
          initial, trail>>

Init ==
  /\ phase = "encode" /\ initial \in Models /\ model = initial
  /\ sent = <<>> /\ got = <<>> /\ output = <<>> /\ input = <<>>
  /\ low = 0 /\ range = Word - 1 /\ position = 0 /\ code = 0 /\ trail = <<>>

-----------------------------------------------------------------------------
(* Both sides: what they compute of an interval from a word on, of a width. *)

\* (low ^ low.wrapping_add(range)) < TOP: the high byte is settled.
HighByteSettled(from, width) == from \div Top = ((from + width) % Word) \div Top

\* renormalize is done.
Settled(from, width) == ~HighByteSettled(from, width) /\ width >= Bottom

\* A carry is avoided by cutting the interval at the next multiple of BOTTOM.
CutRange(from, width) ==
  IF HighByteSettled(from, width) THEN width ELSE (Bottom - (from % Bottom)) % Bottom

Midpoint(from, width) == (from + width \div 2) % Word
High(from, width)     == (from + width - 1) % Word
Leading(word, k) == word \div <<Top, Bottom, Base, 1>>[k]

\* How many bytes of the midpoint tell it from both ends of the interval.
EncodedBytes(from, width) ==
  Min({k \in 1 .. 4 : /\ Leading(Midpoint(from, width), k) # Leading(from, k)
                      /\ Leading(Midpoint(from, width), k) # Leading(High(from, width), k)})

-----------------------------------------------------------------------------
(* RangeEncoder *)

Encode(symbol) ==
  /\ phase = "encode" /\ Len(sent) < MaxSymbols
  /\ LET unit     == range \div model.total
         interval == Interval(model, symbol)
     IN  IF unit = 0 THEN phase' = "failed" /\ UNCHANGED <<low, range, model, sent, trail>>
         ELSE /\ low' = (low + interval[1] * unit) % Word
              /\ range' = (unit * interval[2]) % Word
              /\ model' = Update(model, symbol)
              /\ sent' = Append(sent, symbol)
              /\ trail' = Append(trail, <<low, range, model>>)
              /\ phase' = "shift out"
  /\ UNCHANGED <<output, input, position, code, got, initial>>

\* One turn of its renormalize.
ShiftOut ==
  /\ phase = "shift out"
  /\ IF Settled(low, range) THEN phase' = "encode" /\ UNCHANGED <<low, range, output>>
     ELSE /\ output' = Append(output, low \div Top)
          /\ low' = (low * Base) % Word
          /\ range' = (CutRange(low, range) * Base) % Word
          /\ UNCHANGED phase
  /\ UNCHANGED <<sent, model, input, position, code, got, initial, trail>>

\* Mutant: the first byte of the midpoint is always enough.
TerminatedShort == output \o <<Leading(Midpoint(low, range), 1)>>

\* finish: the midpoint, to the byte that tells it from both ends.
Terminated ==
  output \o [k \in 1 .. EncodedBytes(low, range) |-> Leading(Midpoint(low, range), k) % Base]

\* Reading past the end gives 0xff.
ByteAt(bytes, i) == IF i <= Len(bytes) THEN bytes[i] ELSE Base - 1

\* The four bytes after a place, as a word.
CodeAfter(bytes, place) ==
  ((ByteAt(bytes, place + 1) * Base + ByteAt(bytes, place + 2)) * Base
     + ByteAt(bytes, place + 3)) * Base + ByteAt(bytes, place + 4)

\* finish; then RangeDecoder::new with the model the encoder started with.
Finish(tail) ==
  /\ phase = "encode"
  /\ output' = Terminated
  /\ input' = Terminated \o tail
  /\ code' = CodeAfter(input', 0)
  /\ position' = 4 /\ low' = 0 /\ range' = Word - 1 /\ model' = initial
  /\ trail' = Append(trail, <<low, range, model>>)
  /\ phase' = "decode"
  /\ UNCHANGED <<sent, got, initial>>

-----------------------------------------------------------------------------
(* RangeDecoder *)

Decode ==
  /\ phase = "decode" /\ Len(got) < Len(sent)
  /\ LET unit  == range \div model.total
         count == ((code - low) % Word) \div unit
         found == SymbolForCount(model, count)
     IN  IF unit = 0 \/ count >= model.total
         THEN phase' = "failed" /\ UNCHANGED <<low, range, model, got>>
         ELSE /\ low' = (low + unit * found[2]) % Word
              /\ range' = (unit * found[3]) % Word
              /\ model' = Update(model, found[1])
              /\ got' = Append(got, found[1])
              /\ phase' = "shift in"
  /\ UNCHANGED <<sent, output, input, position, code, initial, trail>>

\* Mutant: the decoder keeps its interval where the encoder cuts it.
ShiftInUncut ==
  /\ phase = "shift in"
  /\ IF Settled(low, range) THEN phase' = "decode" /\ UNCHANGED <<low, range, code, position>>
     ELSE /\ code' = ((code * Base) % Word) + ByteAt(input, position + 1)
          /\ position' = position + 1
          /\ low' = (low * Base) % Word
          /\ range' = (range * Base) % Word
          /\ UNCHANGED phase
  /\ UNCHANGED <<sent, model, output, input, got, initial, trail>>

\* One turn of its renormalize.
ShiftIn ==
  /\ phase = "shift in"
  /\ IF Settled(low, range) THEN phase' = "decode" /\ UNCHANGED <<low, range, code, position>>
     ELSE /\ code' = ((code * Base) % Word) + ByteAt(input, position + 1)
          /\ position' = position + 1
          /\ low' = (low * Base) % Word
          /\ range' = (CutRange(low, range) * Base) % Word
          /\ UNCHANGED phase
  /\ UNCHANGED <<sent, model, output, input, got, initial, trail>>

\* Mutant: the look-ahead is not given back.
FinishedPositionAhead == position

\* finished_position: the look-ahead that the terminator did not need is given back.
FinishedPosition == position - (4 - EncodedBytes(low, range))

\* The decoder has met the end symbol.
End ==
  /\ phase = "decode" /\ Len(got) = Len(sent)
  /\ phase' = "end"
  /\ UNCHANGED <<sent, model, low, range, output, input, position, code, got,
                 initial, trail>>

Next ==
  \/ \E symbol \in SymbolsOf(model) : Encode(symbol)
  \/ ShiftOut
  \/ \E tail \in Tails : Finish(tail)
  \/ Decode \/ ShiftIn \/ End

Spec == Init /\ [][Next]_vars

-----------------------------------------------------------------------------
(* Properties *)

\* However long a model is updated, wrap-around and halving included, its
\* symbols have adjacent, non-empty intervals that the tree finds.
ModelsSound == ModelSound(model)

\* The decoder sees what the encoder sent, whatever bytes follow the stream,
\* and neither side runs out of interval.
RoundTrip == phase # "failed" /\ IsPrefix(got, sent)

\* Before each symbol the decoder has the interval and the model the encoder had.
InLockstep == phase = "decode" => trail[Len(got) + 1] = <<low, range, model>>

\* finished_position is where the stream ends, whatever follows it: there the next
\* sub-stream of a common buffer begins.
FinishesAtTheEnd == phase = "end" => FinishedPosition = Len(output)
=============================================================================
