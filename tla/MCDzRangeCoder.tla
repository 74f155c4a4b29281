--------------------------- MODULE MCDzRangeCoder ----------------------------
(***************************************************************************)
(* Streams of up to four symbols with bytes of two bits: words are below   *)
(* 256 and totals at most 16, so that frequencies are halved after one to  *)
(* four symbols.  Every increment is smaller than the number of the other  *)
(* symbols; module ReferenceSign shows what happens to a model where it    *)
(* is not.                                                                 *)
(***************************************************************************)
EXTENDS DzRangeCoder

SomeModels ==
  {NewModel(4, 2), FromNormalized(<<6, 0, 4, 3>>, 2), FromNormalized(<<1, 9, 1, 2, 1>>, 3),
   FromNormalized(<<1, 1, 12>>, 1)}

SomeTails == {<<>>, <<0, 0, 0, 0>>, <<3, 3, 1, 0>>, <<1, 2>>}
=============================================================================
