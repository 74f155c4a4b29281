---------------------------- MODULE MCDzReferences ----------------------------
(***************************************************************************)
(* Archives of up to four short inputs over few bytes, and the chunks of   *)
(* MCDzChunk, whose references were not chosen by the analysis.            *)
(***************************************************************************)
EXTENDS DzReferences, MCDzChunk

Uncovered(inputs) == [f \in DOMAIN inputs |-> {}]
Arch(inputs, trim) == [inputs |-> inputs, covered |-> Uncovered(inputs), trim |-> trim]

\* One input, long enough for roots that follow each other; runs of one byte; inputs of different
\* lengths, too short for a reference or empty; zeros; selections that do not save
\* enough; a source within another one; and bytes that matches within the chunk cover.
SomeArchives ==
  {Arch(<<<<1, 1, 1, 1, 1, 1, 2, 1, 1, 2>>>>, 1),
   Arch(<<<<1, 1, 1, 1, 1, 1, 1>>, <<2, 2, 1, 1, 1, 1, 1>>>>, 0),
   Arch(<<<<1, 2, 3, 1, 2, 3, 1, 2, 3>>>>, 0),
   Arch(<<<<1, 2, 1, 2, 1, 2>>, <<2, 1, 2, 1, 1>>>>, 10),
   Arch(<<<<1, 2, 2, 1, 2>>, <<>>, <<2, 1, 2, 2>>, <<1, 2>>>>, 1),
   Arch(<<<<1, 2, 2, 1, 2, 2, 3>>, <<3, 3, 3, 1, 2, 2, 1>>>>, 0),
   Arch(<<<<0, 0, 0, 0, 1, 0, 0, 1>>, <<0, 1, 0, 0>>>>, 0),
   [inputs |-> <<<<1, 2, 1, 1, 2, 1, 1, 2>>, <<1, 1, 2, 1>>>>,
    covered |-> <<3 .. 5, 0 .. 1>>, trim |-> 1]}
    \cup {Arch(<<f>>, 1) : f \in [1 .. 8 -> 1 .. 2]}
    \cup {Arch(<<f, g>>, 10) : f \in [1 .. 5 -> 1 .. 2], g \in [1 .. 4 -> 1 .. 2]}
=============================================================================
