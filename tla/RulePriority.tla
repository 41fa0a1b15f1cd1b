---------------------------- MODULE RulePriority ----------------------------
(***************************************************************************)
(* SecurityGroupService._rule_priority_generator: the priorities handed to  *)
(* a batch of new rules, from those already in the group.  Generated is the *)
(* loop of the code over its sorted list; NextPriority says what one        *)
(* iteration of it yields.                                                  *)
(***************************************************************************)
EXTENDS Integers, Sequences, FiniteSets

RulePriorityIncreaseStep == 5

(* The priorities already in use at or above the limit the search starts    *)
(* below, with that limit itself (start_limit).                             *)
Relevant(start, taken) ==
  LET limit == start - RulePriorityIncreaseStep
  IN {limit} \union {x \in taken : x >= limit}

(* The priorities one step above a relevant one, such that nothing in use   *)
(* lies in between or equals it.                                            *)
Gaps(start, taken) ==
  {x + RulePriorityIncreaseStep :
     x \in {y \in Relevant(start, taken) :
              \A z \in taken : ~(y < z /\ z <= y + RulePriorityIncreaseStep)}}

NextPriority(start, taken) ==
  CHOOSE p \in Gaps(start, taken) : \A q \in Gaps(start, taken) : p <= q

(* What n calls of next() on one generator yield, if each value is added to *)
(* those in use before the next.                                            *)
NextPriorities(start, taken, n) ==
  LET f[k \in 0..n] ==
        IF k = 0 THEN <<>>
        ELSE LET before == f[k - 1]
             IN Append(before, NextPriority(start, taken \union {before[j] : j \in 1..(k - 1)}))
  IN f[n]
-----------------------------------------------------------------------------
(* An iteration of the loop at cursor i, which counts from 1: g.list is      *)
(* relevant_existing_priorities without the infinity at its end, g.out the   *)
(* values yielded, of at most n.                                            *)
Iteration(g, i, n) ==
  LET p == g.list[i] + RulePriorityIncreaseStep
  IN IF Len(g.out) < n /\ (i >= Len(g.list) \/ g.list[i + 1] > p)
       THEN [list |-> SubSeq(g.list, 1, i) \o <<p>> \o SubSeq(g.list, i + 1, Len(g.list)),
             out  |-> Append(g.out, p)]
       ELSE g

(* What n calls of next() yield: an iteration per element of the sorted list *)
(* and per value it inserts.                                                *)
Generated(sorted, n) ==
  LET last == Len(sorted) + n + 1
      gen[i \in 1..last] ==
        IF i = 1 THEN [list |-> sorted, out |-> <<>>]
        ELSE Iteration(gen[i - 1], i - 1, n)
  IN gen[last].out
=============================================================================
