------------------------------ MODULE SideEffects ------------------------------
(* Idempotency of a tool under a repeated call.  Locally, an adapter samples the *)
(* effect state around two calls of the tool (adapters/                          *)
(* openai_side_effect_idempotency.py, side_effect/receipt.py, verification.py,   *)
(* oracle.py).  Across workers, a receipt sums up every attempt at one operation *)
(* (side_effect/distributed.py).  An effect may land late, or after its answer   *)
(* was lost; only what was sampled or reported is in the record.                 *)
EXTENDS Naturals, Sequences, FiniteSets, SequencesExt

CONSTANTS TargetCalls,   \* bound: calls of the tool in one run
          OpenEffects,   \* bound: mutations that have yet to land
          DeliveryBound  \* bound: deliveries of one operation to workers

VARIABLES mode,        \* local, workers, or where the run ended
          required,    \* contract.require_first_mutation
          ops,         \* the calls of this turn
          effect,      \* the effect state: how many mutations have landed
          late,        \* mutations that will land later
          observed,    \* the adapter's _ObservedAttempt list, in order of completion
          record,      \* normalised requests and results, and the receipt
          attempts     \* reported attempts at the distributed operation

effectVars == <<mode, required, ops, effect, late, observed, record, attempts>>

-----------------------------------------------------------------------------
(* The observed tool                                                          *)

Init ==
  /\ mode \in {"local", "workers"} /\ required \in BOOLEAN
  /\ ops = <<>> /\ effect = 0 /\ late = 0 /\ observed = <<>>
  /\ record = <<>> /\ attempts = <<>>

\* A turn of one or two calls, which the SDK runs concurrently.
CallTarget ==
  /\ mode = "local" /\ ops = <<>>
  /\ LET made == Cardinality({i \in 1..Len(record) : record[i].kind = "request"}) IN
     \E n \in 1..2, again \in BOOLEAN :
       /\ made + n <= TargetCalls
       /\ ops' = [i \in 1..n |-> [call |-> IF again THEN 1 ELSE made + i, at |-> "called", before |-> 0]]
  /\ record' = record \o [i \in 1..Len(ops') |-> [kind |-> "request", call |-> ops'[i].call]]
  /\ UNCHANGED <<mode, required, effect, late, observed, attempts>>

\* observe_side_effects, up to the original callback,
SampleBefore(i) ==
  /\ mode = "local" /\ ops[i].at = "called"
  /\ ops' = [ops EXCEPT ![i].at = "sampled", ![i].before = effect]
  /\ UNCHANGED <<mode, required, effect, late, observed, record, attempts>>

\* which may mutate the state at once, leave a mutation that lands later, both, or neither,
RunCallback(i) ==
  /\ mode = "local" /\ ops[i].at = "sampled"
  /\ \E m \in {<<0, 0>>, <<1, 0>>, <<0, 1>>, <<1, 1>>} : effect' = effect + m[1] /\ late' = late + m[2] /\ late' <= OpenEffects
  /\ ops' = [ops EXCEPT ![i].at = "answered"]
  /\ UNCHANGED <<mode, required, observed, record, attempts>>
LateEffect ==
  /\ mode = "local" /\ late > 0
  /\ late' = late - 1 /\ effect' = effect + 1
  /\ UNCHANGED <<mode, required, ops, observed, record, attempts>>

\* and from it to the end; the reader may fail.
SampleAfter(i) ==
  /\ mode = "local" /\ ops[i].at = "answered"
  /\ \E readable \in BOOLEAN :
       observed' = Append(observed, [call |-> ops[i].call, before |-> ops[i].before,
                                     after |-> effect, readable |-> readable])
  /\ ops' = [ops EXCEPT ![i].at = "done"]
  /\ UNCHANGED <<mode, required, effect, late, record, attempts>>

JoinTurn ==
  /\ mode = "local" /\ ops # <<>> /\ \A i \in 1..Len(ops) : ops[i].at = "done"
  /\ record' = record \o [i \in 1..Len(ops) |-> [kind |-> "result", call |-> ops[i].call]]
  /\ ops' = <<>>
  /\ UNCHANGED <<mode, required, effect, late, observed, attempts>>

-----------------------------------------------------------------------------
(* The local receipt                                                          *)

Mutated(o) == o.before # o.after

\* Mutant: the state may change between the attempts.
FaultyContinuousGap(o) == TRUE
\* validate_shape_and_root: nothing happened between the attempts.
Continuous(o) == o[1].after = o[2].before

Positions(k, c) == {i \in 1..Len(record) : record[i].kind = k /\ record[i].call = c}
RequestsOf(s) == SelectSeq(s, LAMBDA e : e.kind = "request")

\* _bind_observation: two callbacks, two requests, the same calls in the same order.
Bindable ==
  LET asked == RequestsOf(record) IN
  /\ Len(observed) = 2 /\ Len(asked) = 2
  /\ \A i \in 1..2 : /\ observed[i].readable
                     /\ observed[i].call = asked[i].call
                     /\ Cardinality(Positions("result", asked[i].call)) = 1
  /\ asked[1].call # asked[2].call
  /\ Continuous(observed)

BindObservation ==
  /\ mode = "local" /\ ops = <<>>
  /\ IF ~Bindable THEN mode' = "refused" /\ UNCHANGED record
     ELSE /\ mode' = "bound"
          /\ LET second == CHOOSE i \in Positions("result", observed[2].call) : TRUE
             IN record' = InsertAt(record, second + 1, [kind |-> "observation", call |-> 0])
  /\ UNCHANGED <<required, ops, effect, late, observed, attempts>>

\* verify_side_effect_observation: one observation, after both pairs, one pair after the other.
VerifySideEffectObservation ==
  \E seen \in Positions("observation", 0) : LET asked == RequestsOf(record) IN
    /\ Len(asked) = 2
    /\ \A i \in 1..2 : asked[i].call = observed[i].call
    /\ \E r1 \in Positions("request", asked[1].call), s1 \in Positions("result", asked[1].call),
          r2 \in Positions("request", asked[2].call), s2 \in Positions("result", asked[2].call) :
         r1 < s1 /\ s1 < r2 /\ r2 < s2 /\ s2 < seen
    /\ Continuous(observed)

\* SideEffectIdempotencyOracle.grade
FirstMissing == required /\ ~Mutated(observed[1])
SecondEffect == Mutated(observed[1]) /\ Mutated(observed[2])
GradeIdempotent == ~FirstMissing /\ ~SecondEffect

-----------------------------------------------------------------------------
(* Attempts of several workers                                                *)

Lost == {"timed-out", "cancelled", "crashed"}

\* A delivery reaches a worker; the target mutates or rejects a duplicate, and the worker reports
\* that, or loses the answer, or rolls the mutation back.
Attempt ==
  /\ mode = "workers" /\ Len(attempts) < DeliveryBound
  /\ \E outcome \in {"committed", "duplicate-rejected", "rolled-back"} \cup Lost,
        lands \in BOOLEAN, redelivered \in BOOLEAN, sameDelivery \in BOOLEAN :
       /\ (outcome = "committed") => lands
       /\ (outcome \in {"duplicate-rejected", "rolled-back"}) => ~lands
       /\ sameDelivery => attempts # <<>>
       /\ attempts' = Append(attempts,
            [outcome |-> outcome, duplicate |-> redelivered, lands |-> lands,
             delivery |-> IF sameDelivery THEN Len(attempts) ELSE Len(attempts) + 1])
       /\ effect' = effect + (IF lands THEN 1 ELSE 0)
  /\ UNCHANGED <<mode, required, ops, late, observed, record>>

Committed == {i \in 1..Len(attempts) : attempts[i].outcome = "committed"}

\* DistributedSideEffectReceipt.create, with the default policy: distinct deliveries, and at most
\* one committed attempt.
Receivable == attempts # <<>> /\ \A i, j \in 1..Len(attempts) :
                                    attempts[i].delivery = attempts[j].delivery => i = j
Covered == \E i \in 1..Len(attempts) : attempts[i].duplicate
Accepted == Covered /\ Cardinality(Committed) <= 1
\* verify_target_acknowledgement: of the one committed attempt.
Acknowledged == Cardinality(Committed) = 1

Settles == Accepted /\ Acknowledged

CreateReceipt ==
  /\ mode = "workers" /\ attempts # <<>>
  /\ mode' = IF ~Receivable THEN "refused" ELSE IF Settles THEN "settled" ELSE "unsettled"
  /\ UNCHANGED <<required, ops, effect, late, observed, record, attempts>>

Next ==
  \/ CallTarget \/ JoinTurn \/ LateEffect \/ BindObservation \/ Attempt \/ CreateReceipt
  \/ \E i \in 1..Len(ops) : SampleBefore(i) \/ RunCallback(i) \/ SampleAfter(i)
Spec == Init /\ [][Next]_effectVars

-----------------------------------------------------------------------------
(* Properties                                                                 *)

\* Of a verified trial with a required first effect: a pass means that from the first answer to
\* the last sample nothing landed, not even what landed late; a second effect is reported only
\* where two landed.
VerdictCountsEffects ==
  mode = "bound" /\ VerifySideEffectObservation =>
    /\ GradeIdempotent /\ required => observed[2].after = observed[1].after /\ observed[1].after > 0
    /\ SecondEffect => observed[2].after >= observed[1].before + 2

\* A receipt whose commit the target acknowledged stands for exactly one mutation, apart from those
\* whose answer was lost.
SettledOnce ==
  mode = "settled" =>
    effect = 1 + Cardinality({i \in 1..Len(attempts) : attempts[i].outcome \in Lost /\ attempts[i].lands})
=============================================================================
