------------------------------ MODULE MCDzChunk ------------------------------
(***************************************************************************)
(* Chunks of up to sixteen bytes.  Numbers come in groups of one payload    *)
(* bit, so that most take several; a reference is two bytes or more.       *)
(***************************************************************************)
EXTENDS DzChunk

SomeSettings ==
  [offsetContinuation |-> 2, offsetTables |-> 2, contexts |-> 2, lengthContinuation |-> 2,
   lengthTables |-> 1, baseContinuation |-> 2, baseTables |-> 2, bigMinMatch |-> 2]

Plain(input) ==
  [input |-> input, common |-> FALSE, segments |-> <<>>, references |-> <<>>,
   boundaries |-> {}, trim |-> FALSE]

Seg(raw, emit_end) == [raw |-> raw, emit_end |-> emit_end]
Ref(at, length, segment) == [position |-> at, length |-> length, segment |-> segment]

\* A root of two segments, and two roots of one.
SomeSegments == <<Seg(<<1, 2>>, TRUE), Seg(<<3, 1, 1>>, FALSE), Seg(<<2, 2>>, FALSE), Seg(<<1, 3, 2>>, TRUE)>>

\* The third starts as far behind the first as the look-ahead after it reaches.
CloseSegments == <<Seg(<<1, 2>>, FALSE), Seg(<<3>>, TRUE), Seg(<<1, 1>>, FALSE)>>

\* Each segment once and more, across a segment's end, next to each other, with bytes
\* and segment starts in between and inside; without any reference.
Referring(trim) ==
  {[input |-> <<1, 2, 3, 1, 1, 1, 3, 2, 2, 2>>, common |-> TRUE, segments |-> SomeSegments,
    references |-> <<Ref(0, 5, 1), Ref(5, 3, 4), Ref(8, 2, 3)>>, boundaries |-> {}, trim |-> trim],
   [input |-> <<3, 1, 2, 2, 2, 3, 1, 1, 1, 2, 1>>, common |-> TRUE, segments |-> SomeSegments,
    references |-> <<Ref(1, 2, 1), Ref(3, 2, 3), Ref(5, 3, 2), Ref(8, 2, 1)>>,
    boundaries |-> {0, 6, 10}, trim |-> trim],
   [input |-> <<1, 3, 2, 1, 3, 2, 1, 3, 1, 2, 1, 2>>, common |-> TRUE, segments |-> SomeSegments,
    references |-> <<Ref(3, 3, 4), Ref(6, 2, 4), Ref(8, 2, 1), Ref(10, 2, 1)>>,
    boundaries |-> {1}, trim |-> trim],
   [input |-> <<1, 2, 3, 1, 2>>, common |-> TRUE, segments |-> CloseSegments,
    references |-> <<Ref(0, 2, 1), Ref(3, 2, 1)>>, boundaries |-> {}, trim |-> trim],
   [input |-> <<1, 1, 1, 2, 1, 1, 1>>, common |-> TRUE, segments |-> <<>>, references |-> <<>>,
    boundaries |-> {}, trim |-> trim]}

\* Long enough that a distance is used again after three others.
ShortChunks == {Plain(<<1, 1>> \o f) : f \in [1 .. 9 -> 1 .. 2]}

SomeJobs ==
  {Plain(<<>>), Plain(<<2>>), Plain(<<1, 2, 1, 2, 1, 2, 2, 1>>), Plain([i \in 1 .. 12 |-> 1]),
   Plain(<<1, 2, 2, 2, 1, 2, 2, 1, 1, 2, 2, 2, 1>>), Plain([i \in 1 .. 16 |-> i % 3])}
     \cup ShortChunks
     \cup Referring(TRUE) \cup Referring(FALSE)

UntrimmedJobs == Referring(FALSE)
=============================================================================
