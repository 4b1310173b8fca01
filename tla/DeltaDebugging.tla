----------------------------- MODULE DeltaDebugging -----------------------------
(* ddmin (minimization/delta.py) as the loop it is: one evaluation of the        *)
(* failure predicate per step, under a budget.  The predicate is any function of *)
(* the sub-sequence, monotone or not; it is chosen as it is asked.               *)
EXTENDS Integers, Sequences, FiniteSets, SequencesExt, FiniteSetsExt

CONSTANTS Items,     \* candidate inputs, sequences of distinct items
          Budgets    \* candidate values of max_evaluations

VARIABLES items,        \* the original input
          budget,       \* max_evaluations
          current,      \* the smallest input known to fail
          granularity, evaluations,
          sweep,        \* "original", "subsets", "complements", or how the search ended
          position,     \* the range that is tried next
          verdicts      \* history: what the predicate answered, by input

deltaVars == <<items, budget, current, granularity, evaluations, sweep, position, verdicts>>

-----------------------------------------------------------------------------
(* Partitions                                                                 *)

\* _partition_ranges: contiguous, as even as can be, the first ones longer; from start to before stop.
PartitionRanges(length, parts) ==
  LET n == Max({1, Min({parts, length})}) base == length \div n rest == length % n
      Start(i) == (i - 1) * base + Min({i - 1, rest})
  IN [i \in 1..n |-> <<Start(i), Start(i + 1)>>]

Ranges == PartitionRanges(Len(current), granularity)
Subset(r) == SubSeq(current, r[1] + 1, r[2])
Complement(r) == SubSeq(current, 1, r[1]) \o SubSeq(current, r[2] + 1, Len(current))

Init ==
  /\ items \in Items /\ budget \in Budgets
  /\ current = items /\ granularity = 2 /\ evaluations = 0
  /\ sweep = "original" /\ position = 1 /\ verdicts = <<>>

-----------------------------------------------------------------------------
(* The search                                                                 *)

\* await reproduces_failure(candidate): an answer given before is given again.
Ask(candidate, fails) ==
  /\ \A k \in 1..Len(verdicts) : verdicts[k].input = candidate => verdicts[k].fails = fails
  /\ verdicts' = Append(verdicts, [input |-> candidate, fails |-> fails])
  /\ evaluations' = evaluations + 1

\* The original input is evaluated whatever the budget.
EvaluateOriginal ==
  /\ sweep = "original"
  /\ \E fails \in BOOLEAN :
       /\ Ask(current, fails)
       /\ sweep' = IF ~fails THEN "refused" ELSE IF Len(current) < 2 THEN "finished" ELSE "subsets"
  /\ UNCHANGED <<items, budget, current, granularity, position>>

Exhaust ==
  /\ sweep \in {"subsets", "complements"} /\ evaluations >= budget
  /\ sweep' = "exhausted"
  /\ UNCHANGED <<items, budget, current, granularity, evaluations, position, verdicts>>

\* A smaller input that fails starts over; one item left is the end.
Reduce(to, finer) ==
  /\ current' = to /\ granularity' = finer /\ position' = 1
  /\ sweep' = IF Len(to) >= 2 THEN "subsets" ELSE "finished"

TrySubset ==
  /\ sweep = "subsets" /\ evaluations < budget
  /\ \E fails \in BOOLEAN :
       /\ Ask(Subset(Ranges[position]), fails)
       /\ IF fails THEN Reduce(Subset(Ranges[position]), 2)
          ELSE /\ UNCHANGED <<current, granularity>>
               /\ IF position < Len(Ranges) THEN position' = position + 1 /\ UNCHANGED sweep
                  ELSE position' = 1 /\ sweep' = "complements"
  /\ UNCHANGED <<items, budget>>

\* Mutant: the search ends one refinement too early.
FaultyFinestEarly == 2 * granularity >= Len(current)
\* granularity >= len(current): every range was one item.
Finest == granularity >= Len(current)

TryComplement ==
  /\ sweep = "complements" /\ evaluations < budget
  /\ \E fails \in BOOLEAN :
       /\ Ask(Complement(Ranges[position]), fails)
       /\ IF fails THEN Reduce(Complement(Ranges[position]), Max({2, granularity - 1}))
          ELSE CASE position < Len(Ranges) ->
                      position' = position + 1 /\ UNCHANGED <<current, granularity, sweep>>
                 [] position = Len(Ranges) /\ Finest ->
                      sweep' = "finished" /\ UNCHANGED <<current, granularity, position>>
                 [] OTHER ->
                      /\ granularity' = Min({Len(current), granularity * 2})
                      /\ position' = 1 /\ sweep' = "subsets" /\ UNCHANGED current
  /\ UNCHANGED <<items, budget>>

Next == EvaluateOriginal \/ Exhaust \/ TrySubset \/ TryComplement
Spec == Init /\ [][Next]_deltaVars

-----------------------------------------------------------------------------
(* Properties                                                                 *)

Failed(s) == \E k \in 1..Len(verdicts) : verdicts[k] = [input |-> s, fails |-> TRUE]
Passed(s) == \E k \in 1..Len(verdicts) : verdicts[k] = [input |-> s, fails |-> FALSE]
\* The items are distinct: order is kept when their places in the input increase.
KeepsOrder(s) ==
  LET Place(x) == CHOOSE i \in 1..Len(items) : items[i] = x
  IN \A i, j \in 1..Len(s) : i < j => Place(s[i]) < Place(s[j])

\* Wherever the budget runs out, what is returned was seen to fail and keeps the order of the
\* input; and when the search ends by itself, removing any single item was seen to pass, also for
\* a predicate under which a smaller input may fail where a larger one does not.
MinimizationIsSound ==
  /\ sweep \notin {"original", "refused"} => Failed(current) /\ KeepsOrder(current)
  /\ evaluations <= Max({1, budget})
  /\ sweep = "finished" /\ Len(current) >= 2 =>
       \A i \in 1..Len(current) : Passed(RemoveAt(current, i))
=============================================================================
