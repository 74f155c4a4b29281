---------------------------- MODULE ReferenceSign ----------------------------
(***************************************************************************)
(* The life of reference_sign, the adaptive model of two symbols that      *)
(* codes the direction of common-buffer references within one DZ stream.   *)
(* After its first few references the stream moves in one direction, as a  *)
(* file does that was cut from the common buffer front to back.            *)
(***************************************************************************)
EXTENDS AdaptiveModel

CONSTANT Settle   \* bound: the references before the direction settles

VARIABLES
  model,        \* DzModels::reference_sign
  sign,         \* of the reference before, 1 when negative
  references    \* how many there were, Settle when there were more

vars == <<model, sign, references>>

Init == model = NewModel(2, 16) /\ sign = 0 /\ references = 0

\* The coder needs an interval for the sign; its model learns it.
Reference(negative) ==
  /\ model.frequencies[negative] # 0
  /\ references < Settle \/ negative = sign
  /\ model' = Update(model, negative)
  /\ sign' = negative
  /\ references' = Min({references + 1, Settle})

Next == \E negative \in 0 .. 1 : Reference(negative)

Spec == Init /\ [][Next]_vars

-----------------------------------------------------------------------------

\* The sign just coded can be coded again: what was encoded, however long, can be
\* decoded.  adaptive_range_round_trip asserts it of a short stream.
SignStaysCodable == model.frequencies[sign] # 0
=============================================================================
