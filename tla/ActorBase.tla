----------------------------- MODULE ActorBase ------------------------------
(***************************************************************************)
(* What the models of the builtin actors share: methods as operators from  *)
(* states to outcomes, and the quantized queues of the miner actor.        *)
(***************************************************************************)
EXTENDS Integers, Sequences, Functions, FiniteSetsExt, SequencesExt

(***************************************************************************)
(* What the models of the builtin actors share.  A message runs to its end *)
(* and an aborted one changes nothing.  So a method is an operator from    *)
(* states to outcomes: the set of the one state it commits, or the empty   *)
(* set when it aborts.  adt::Map and adt::Array are functions on the keys  *)
(* that are set.                                                           *)
(***************************************************************************)

Aborted == {}
Empty == [x \in {} |-> 0]
With(f, x, v) == [y \in DOMAIN f \union {x} |-> IF y = x THEN v ELSE f[y]]
Without(f, x) == Restrict(f, DOMAIN f \ {x})
GetOr(f, x, default) == IF x \in DOMAIN f THEN f[x] ELSE default
SumOf(f) == FoldFunction(+, 0, f)
Total(S, value(_)) == FoldSet(LAMBDA x, y : value(x) + y, 0, S)
Larger(x, y) == IF x > y THEN x ELSE y
Smaller(x, y) == IF x < y THEN x ELSE y

\* F of a value that is computed once.
Bind(value, F(_)) == F(value)

\* Outcomes of a method called for each member of a sequence, until one aborts.
ForEach(Method(_, _), outcomes, seq) ==
  FoldLeft(LAMBDA sts, x : UNION {Method(st, x) : st \in sts}, outcomes, seq)
Ascending(S) == SetToSortSeq(S, <)

-----------------------------------------------------------------------------
(***************************************************************************)
(* Quantized epochs and the queues of bitfields kept under them            *)
(* (core/vm/actor/builtin/types/miner/quantize.cpp, bitfield_queue.hpp).   *)
(***************************************************************************)

\* C++ division truncates towards zero.
quantizeUp(quant, e) ==
  LET offset == quant.offset % quant.unit
      d == e - offset
  IN IF d < 0 THEN -((-d) \div quant.unit) * quant.unit + offset
     ELSE ((d + quant.unit - 1) \div quant.unit) * quant.unit + offset

\* BitfieldQueue: epochs to sets.
addToQueue(queue, quant, epoch, values) ==
  IF values = {} THEN queue
  ELSE LET e == quantizeUp(quant, epoch) IN With(queue, e, GetOr(queue, e, {}) \union values)

addManyToQueueValues(queue, quant, values) ==
  FoldSet(LAMBDA epoch, q : addToQueue(q, quant, epoch, values[epoch]), queue, DOMAIN values)

\* Cutting removes the members of a set and closes the gaps it leaves.
Shifted(i, S) == i - Cardinality({j \in S : j < i})
cutQueue(queue, S) ==
  LET kept(e) == {Shifted(i, S) : i \in queue[e] \ S}
  IN [e \in {x \in DOMAIN queue : kept(x) # {}} |-> kept(e)]

Until(queue, epoch) == {e \in DOMAIN queue : e <= epoch}
poppedUntil(queue, epoch) == UNION {queue[e] : e \in Until(queue, epoch)}
remainingAfter(queue, epoch) == Restrict(queue, DOMAIN queue \ Until(queue, epoch))
=============================================================================
