---------------------------- MODULE AdaptiveModel ----------------------------
(***************************************************************************)
(* AdaptiveModel of the DZ range coder: symbol frequencies in u16, their   *)
(* total, and a Fenwick tree over them that answers both directions, the   *)
(* interval of a symbol and the symbol of a count.  A model is a record    *)
(* with the fields of the struct; symbols start at zero, as in the code.   *)
(***************************************************************************)
EXTENDS Integers, Sequences, FiniteSetsExt

CONSTANTS
  FrequencyModulus,   \* 2^16: a frequency wraps there
  ModelMaxTotal       \* MODEL_MAX_TOTAL: a larger total halves the frequencies

ASSUME ModelAssumption ==
  FrequencyModulus \in Nat \ {0} /\ ModelMaxTotal \in Nat \ {0}

SymbolsOf(m) == DOMAIN m.frequencies
SymbolCount(m) == Cardinality(SymbolsOf(m))
SumOf(f) == MapThenSumSet(LAMBDA s : f[s], DOMAIN f)

-----------------------------------------------------------------------------
(* The Fenwick tree: node i covers the symbols from i - LowBit(i) below i.  *)

\* No number above one that divides them is odd.
PowersOfTwo(n) == {p \in 1 .. n : \A d \in 2 .. p : p % d = 0 => d % 2 = 0}

\* index & index.wrapping_neg()
LowBit(i) == Max({p \in PowersOfTwo(i) : i % p = 0})

\* add_fenwick
AddFenwick(fenwick, symbol, amount) ==
  LET n == Cardinality(DOMAIN fenwick) - 1
      climb[i \in 1 .. n] ==
        {i} \cup (IF i + LowBit(i) <= n THEN climb[i + LowBit(i)] ELSE {})
  IN  [i \in DOMAIN fenwick |->
         IF i \in climb[symbol + 1] THEN fenwick[i] + amount ELSE fenwick[i]]

\* rebuild_fenwick
RebuildFenwick(frequencies) ==
  LET n == Cardinality(DOMAIN frequencies)
      built[k \in 0 .. n] ==
        IF k = 0 THEN [i \in 0 .. n |-> 0]
        ELSE AddFenwick(built[k - 1], k - 1, frequencies[k - 1])
  IN  built[n]

\* prefix_sum
PrefixSum(m, symbol) ==
  LET sum[i \in 0 .. symbol] ==
        IF i = 0 THEN 0 ELSE m.fenwick[i] + sum[i - LowBit(i)]
  IN  sum[symbol]

\* symbol_for_count: the symbol, the sum below it and its frequency; walk[bit] is where
\* the loop stands after the turn of a bit, none before the largest.
SymbolForCount(m, count) ==
  LET n == SymbolCount(m)
      walk[bit \in PowersOfTwo(2 * n)] ==
        IF bit > n THEN [index |-> 0, accumulated |-> 0]
        ELSE LET at   == walk[2 * bit]
                 next == at.index + bit
             IN  IF next <= n /\ at.accumulated + m.fenwick[next] <= count
                 THEN [index |-> next, accumulated |-> at.accumulated + m.fenwick[next]]
                 ELSE at
      found == walk[1]
  IN  <<found.index, found.accumulated, m.frequencies[found.index]>>

-----------------------------------------------------------------------------
(* Models *)

ModelOf(frequencies, increment) ==
  [frequencies |-> frequencies, fenwick |-> RebuildFenwick(frequencies),
   total |-> SumOf(frequencies), increment |-> increment]

\* new_with_increment
NewModel(symbols, increment) == ModelOf([s \in 0 .. symbols - 1 |-> 1], increment)

\* from_normalized_with_increment; `table` is a sequence of bytes.
FromNormalized(table, increment) ==
  ModelOf([s \in 0 .. Len(table) - 1 |-> IF table[s + 1] = 0 THEN 1 ELSE table[s + 1]],
          increment)

\* interval: the sum below a symbol and its frequency.
Interval(m, symbol) == <<PrefixSum(m, symbol), m.frequencies[symbol]>>

\* Mutant: the tree is left as it was when the frequencies are halved.
UpdateKeepingTree(m, symbol) ==
  LET raised == [m.frequencies EXCEPT ![symbol] = (@ + m.increment) % FrequencyModulus]
      total  == m.total + m.increment
      halved == [s \in SymbolsOf(m) |-> raised[s] - raised[s] \div 2]
      tree   == AddFenwick(m.fenwick, symbol, m.increment)
  IN  IF total > ModelMaxTotal
      THEN [m EXCEPT !.frequencies = halved, !.fenwick = tree, !.total = SumOf(halved)]
      ELSE [m EXCEPT !.frequencies = raised, !.fenwick = tree, !.total = total]

\* update
Update(m, symbol) ==
  LET raised == [m.frequencies EXCEPT ![symbol] = (@ + m.increment) % FrequencyModulus]
      total  == m.total + m.increment
      halved == [s \in SymbolsOf(m) |-> raised[s] - raised[s] \div 2]
  IN  IF total > ModelMaxTotal THEN ModelOf(halved, m.increment)
      ELSE [m EXCEPT !.frequencies = raised, !.total = total,
                     !.fenwick = AddFenwick(m.fenwick, symbol, m.increment)]

-----------------------------------------------------------------------------
(* What the coder relies on *)

\* Every frequency is at least one: those of the other symbols keep one from wrapping
\* before the total is too large, and halving makes it small enough.  Module
\* ReferenceSign is about a model without that room.
RoomForUpdates(m) ==
  m.increment + 1 < SymbolCount(m) /\ SymbolCount(m) + m.increment <= ModelMaxTotal

\* A model as a stream starts with it.
Unused(m) ==
  /\ m = ModelOf(m.frequencies, m.increment) /\ m.increment \in Nat
  /\ SymbolCount(m) \in Nat /\ m.frequencies \in [0 .. SymbolCount(m) - 1 -> Nat \ {0}]
  /\ m.total <= ModelMaxTotal

\* The intervals of the symbols follow one another from zero to the total, none
\* of them is empty, and the tree finds each by every count inside it.
ModelSound(m) ==
  /\ SymbolCount(m) \in Nat /\ m.frequencies \in [0 .. SymbolCount(m) - 1 -> Nat]
  /\ m.total = SumOf(m.frequencies) /\ m.total \in 1 .. ModelMaxTotal
  /\ \A s \in SymbolsOf(m) :
       LET below == SumOf([r \in 0 .. s - 1 |-> m.frequencies[r]])
       IN  /\ m.frequencies[s] > 0
           /\ Interval(m, s) = <<below, m.frequencies[s]>>
           /\ \A c \in below .. below + m.frequencies[s] - 1 :
                SymbolForCount(m, c) = <<s, below, m.frequencies[s]>>
=============================================================================
