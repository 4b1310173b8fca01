--------------------------- MODULE AdaptersProofs ---------------------------
(* What holds of the parts of Adapters for every value of its constants.      *)
EXTENDS Adapters, FiniteSetTheorems, SequenceTheorems, TLAPS

-----------------------------------------------------------------------------
(* The composition                                                            *)

\* A behaviour is about the part it began with, and each step of it is one of that part.
LEMMA OnePartMoves ==
  ASSUME [Next]_<<part, mcpVars, agentVars, approvalVars, effectsVars, flowVars, serversVars,
                  hostedVars>>
  PROVE  /\ part' = part
         /\ part = "mcp" => Mcp!Next \/ UNCHANGED mcpVars
         /\ part = "agent" => Agent!Next \/ UNCHANGED agentVars
         /\ part = "approval" => Approval!Next \/ UNCHANGED approvalVars
         /\ part = "effects" => Effects!Next \/ UNCHANGED effectsVars
         /\ part = "flow" => Flow!Next \/ UNCHANGED flowVars
         /\ part = "servers" => Servers!Next \/ UNCHANGED serversVars
         /\ part = "hosted" => Hosted!Next \/ UNCHANGED hostedVars
BY DEF Next

LEMMA OnePartBegins ==
  ASSUME Init
  PROVE  /\ part = "mcp" => Mcp!Init
         /\ part = "agent" => Agent!Init
         /\ part = "approval" => Approval!Init
         /\ part = "effects" => Effects!Init
         /\ part = "flow" => Flow!Init
         /\ part = "servers" => Servers!Init
         /\ part = "hosted" => Hosted!Init
BY DEF Init

\* Elements of a sequence that grew by one.
LEMMA Appended ==
  ASSUME NEW S, NEW s \in Seq(S), NEW e \in S
  PROVE  /\ Append(s, e) \in Seq(S) /\ Len(Append(s, e)) = Len(s) + 1 /\ Len(s) \in Nat
         /\ \A i \in 1 .. Len(s) : Append(s, e)[i] = s[i] /\ s[i] \in S
         /\ Append(s, e)[Len(s) + 1] = e
BY AppendProperties, LenProperties, ElementOfSeq

\* Cardinality as the parts use it.
LEMMA SameCardinality ==
  ASSUME NEW S
  PROVE  /\ Effects!Cardinality(S) = Cardinality(S) /\ Servers!Cardinality(S) = Cardinality(S)
         /\ Hosted!Cardinality(S) = Cardinality(S) /\ Agent!Cardinality(S) = Cardinality(S)
BY DEF Effects!Cardinality, Servers!Cardinality, Hosted!Cardinality, Agent!Cardinality, Cardinality

\* Positions of a sequence that has grown by one: those it had, and the new one.
LEMMA OneMore ==
  ASSUME NEW n \in Nat, NEW P \in SUBSET (1 .. n), NEW Q \in SUBSET (1 .. n + 1),
         \A i \in 1 .. n : i \in Q <=> i \in P
  PROVE  /\ IsFiniteSet(P) /\ Cardinality(P) \in Nat
         /\ Cardinality(Q) = Cardinality(P) + (IF n + 1 \in Q THEN 1 ELSE 0)
<1>1. IsFiniteSet(P) /\ Cardinality(P) \in Nat
  <2>1. IsFiniteSet(1 .. n)
    BY FS_Interval
  <2> QED
    BY <2>1, FS_Subset, FS_CardinalityType
<1>2. n + 1 \notin P
  OBVIOUS
<1>3. \A i \in Q : i \in 1 .. n \/ i = n + 1
  OBVIOUS
<1>4. P \subseteq Q
  OBVIOUS
<1>5. CASE n + 1 \in Q
  <2>1. Q = P \cup {n + 1}
    BY <1>3, <1>4, <1>5
  <2> QED
    BY <1>1, <1>2, <1>5, <2>1, FS_AddElement
<1>6. CASE n + 1 \notin Q
  <2>1. Q = P
    BY <1>3, <1>4, <1>6
  <2> QED
    BY <1>1, <1>6, <2>1
<1> QED
  BY <1>1, <1>5, <1>6

-----------------------------------------------------------------------------
(* Side effects                                                               *)

Progress == {"called", "sampled", "answered", "done"}
Calls == [call : Nat, at : Progress, before : Nat]
Samples == [call : Nat, before : Nat, after : Nat, readable : BOOLEAN]
Entries == [kind : {"request", "result"}, call : Nat]
Outcomes == {"committed", "duplicate-rejected", "rolled-back"} \cup Effects!Lost
Attempts == [outcome : Outcomes, duplicate : BOOLEAN, lands : BOOLEAN, delivery : Nat]
EffectsTypes ==
  /\ mode \in {"local", "workers", "refused", "bound", "settled", "unsettled"}
  /\ ops \in Seq(Calls)
  /\ effect \in Nat /\ late \in Nat
  /\ mode = "local" => record \in Seq(Entries)
  /\ observed \in Seq(Samples) /\ attempts \in Seq(Attempts)

Landed == {i \in 1 .. Len(attempts) : attempts[i].lands}
LostLanded == {i \in 1 .. Len(attempts) : attempts[i].outcome \in Effects!Lost /\ attempts[i].lands}

\* The effect state only grows, so what was sampled before a call is at most what was sampled after
\* it; and between workers it is the number of attempts that landed.
EffectsInv ==
  /\ EffectsTypes
  /\ \A i \in 1 .. Len(ops) : ops[i].before <= effect
  /\ \A i \in 1 .. Len(observed) : observed[i].before <= observed[i].after /\ observed[i].after <= effect
  /\ mode = "bound" => Len(observed) = 2
  /\ mode \in {"local", "bound"} => attempts = <<>>
  /\ mode = "workers" \/ attempts # <<>> => effect = Cardinality(Landed)
  /\ \A i \in 1 .. Len(attempts) :
       /\ attempts[i].outcome = "committed" => attempts[i].lands
       /\ attempts[i].outcome \in {"duplicate-rejected", "rolled-back"} => ~attempts[i].lands
  /\ mode = "settled" => Effects!SettledOnce

\* Each operation keeps what was sampled below the effect state, or counts the attempt it adds.
LEMMA EffectsStep ==
  ASSUME EffectsInv, Effects!Next \/ UNCHANGED effectsVars
  PROVE  EffectsInv'
<1>0. EffectsTypes
  BY DEF EffectsInv
<1>1. CASE UNCHANGED effectsVars
  BY <1>1 DEF EffectsInv, EffectsTypes, effectsVars, Landed, Effects!SettledOnce
\* A step of the local trial.
<1>2. ASSUME mode = "local", mode' \in {"local", "bound", "refused"}, attempts' = attempts,
             ops' \in Seq(Calls),
             mode' = "local" => record' \in Seq(Entries),
             effect' \in Nat, effect' >= effect, late' \in Nat, observed' \in Seq(Samples),
             \A i \in 1 .. Len(ops') : ops'[i].before <= effect,
             \A i \in 1 .. Len(observed') :
               observed'[i].before <= observed'[i].after /\ observed'[i].after <= effect,
             mode' = "bound" => Len(observed') = 2
      PROVE  EffectsInv'
  <2>1. EffectsTypes'
    BY <1>0, <1>2 DEF EffectsTypes
  <2>2. \A i \in 1 .. Len(ops') : ops'[i].before \in Nat
    <3>1. \A i \in 1 .. Len(ops') : ops'[i] \in Calls
      BY <1>2, ElementOfSeq
    <3> QED
      BY <3>1 DEF Calls
  <2>3. \A i \in 1 .. Len(observed') : observed'[i].before \in Nat /\ observed'[i].after \in Nat
    <3>1. \A i \in 1 .. Len(observed') : observed'[i] \in Samples
      BY <1>2, ElementOfSeq
    <3> QED
      BY <3>1 DEF Samples
  <2>4. attempts = <<>> /\ attempts' = <<>> /\ effect \in Nat
    BY <1>0, <1>2 DEF EffectsInv, EffectsTypes
  <2>5. /\ \A i \in 1 .. Len(ops') : ops'[i].before <= effect'
        /\ \A i \in 1 .. Len(observed') : observed'[i].after <= effect'
    BY <1>2, <2>2, <2>3, <2>4
  <2> QED
    BY <1>2, <2>1, <2>4, <2>5 DEF EffectsInv
<1>3. CASE Effects!CallTarget
  <2> DEFINE made == Effects!Cardinality({i \in 1 .. Len(record) : record[i].kind = "request"})
  <2>1. PICK n \in 1 .. 2, again \in BOOLEAN :
          ops' = [i \in 1 .. n |-> [call |-> IF again THEN 1 ELSE made + i, at |-> "called",
                                   before |-> 0]]
    BY <1>3 DEF Effects!CallTarget
  <2>2. made \in Nat
    <3> DEFINE P == {i \in 1 .. Len(record) : record[i].kind = "request"}
    <3>1. P \in SUBSET (1 .. Len(record)) /\ Len(record) \in Nat
      BY <1>0, <1>3 DEF EffectsTypes, Effects!CallTarget
    <3>2. made = Cardinality(P)
      BY SameCardinality
    <3> HIDE DEF P
    <3>3. IsFiniteSet(P)
      <4>1. IsFiniteSet(1 .. Len(record))
        BY <3>1, FS_Interval
      <4> QED
        BY <3>1, <4>1, FS_Subset
    <3> QED
      BY <3>2, <3>3, FS_CardinalityType
  <2> HIDE DEF made
  <2>3. \A i \in 1 .. n : ops'[i] \in Calls /\ ops'[i].before = 0
    BY <2>1, <2>2 DEF Calls, Progress
  <2>4. ops' \in Seq(Calls) /\ Len(ops') = n
    BY <2>1, <2>3, IsASeq
  <2>5. record' \in Seq(Entries)
    <3> DEFINE wanted == [i \in 1 .. Len(ops') |-> [kind |-> "request", call |-> ops'[i].call]]
    <3>1. \A i \in 1 .. Len(ops') : wanted[i] \in Entries
      BY <2>3, <2>4 DEF Calls, Entries
    <3>2. wanted \in Seq(Entries)
      BY <2>4, <3>1, IsASeq
    <3>3. record \in Seq(Entries) /\ record' = record \o wanted
      BY <1>0, <1>3 DEF EffectsTypes, Effects!CallTarget
    <3> QED
      BY <3>2, <3>3, ConcatProperties
  <2>6. /\ mode = "local" /\ UNCHANGED <<mode, required, effect, late, observed, attempts>>
        /\ effect \in Nat /\ late \in Nat /\ observed \in Seq(Samples)
        /\ \A i \in 1 .. Len(observed) :
             observed[i].before <= observed[i].after /\ observed[i].after <= effect
    BY <1>0, <1>3 DEF Effects!CallTarget, EffectsInv, EffectsTypes
  <2>7. \A i \in 1 .. Len(ops') : ops'[i].before <= effect
    BY <2>3, <2>4, <2>6
  <2> QED
    BY <1>2, <2>4, <2>5, <2>6, <2>7
<1>4. CASE Effects!JoinTurn
  <2> DEFINE told == [i \in 1 .. Len(ops) |-> [kind |-> "result", call |-> ops[i].call]]
  <2>1. ops \in Seq(Calls) /\ \A i \in 1 .. Len(ops) : ops[i] \in Calls
    BY <1>0, ElementOfSeq DEF EffectsTypes
  <2>2. \A i \in 1 .. Len(ops) : told[i] \in Entries
    BY <2>1 DEF Calls, Entries
  <2>3. told \in Seq(Entries)
    BY <2>1, <2>2, IsASeq
  <2>4. record \in Seq(Entries) /\ record' = record \o told
    BY <1>0, <1>4 DEF EffectsTypes, Effects!JoinTurn
  <2>5. record' \in Seq(Entries)
    BY <2>3, <2>4, ConcatProperties
  <2> QED
    BY <1>0, <1>2, <1>4, <2>5 DEF Effects!JoinTurn, EffectsInv, EffectsTypes
<1>5. CASE Effects!LateEffect
  BY <1>0, <1>2, <1>5 DEF Effects!LateEffect, EffectsInv, EffectsTypes
<1>6. CASE Effects!BindObservation
  BY <1>0, <1>2, <1>6 DEF Effects!BindObservation, Effects!Bindable, EffectsInv, EffectsTypes
<1>7. CASE Effects!Attempt
  <2>1. PICK said \in Outcomes, lands \in BOOLEAN, redelivered \in BOOLEAN,
             sameDelivery \in BOOLEAN :
          /\ (said = "committed") => lands
          /\ (said \in {"duplicate-rejected", "rolled-back"}) => ~lands
          /\ attempts' = Append(attempts,
               [outcome |-> said, duplicate |-> redelivered, lands |-> lands,
                delivery |-> IF sameDelivery THEN Len(attempts) ELSE Len(attempts) + 1])
          /\ effect' = effect + (IF lands THEN 1 ELSE 0)
    BY <1>7 DEF Effects!Attempt, Outcomes
  <2> DEFINE e == [outcome |-> said, duplicate |-> redelivered, lands |-> lands,
                   delivery |-> IF sameDelivery THEN Len(attempts) ELSE Len(attempts) + 1]
  <2>2. attempts \in Seq(Attempts) /\ Len(attempts) \in Nat /\ e \in Attempts
    BY <1>0, LenProperties DEF EffectsTypes, Attempts
  <2>3. /\ attempts' \in Seq(Attempts) /\ Len(attempts') = Len(attempts) + 1
        /\ \A i \in 1 .. Len(attempts) : attempts'[i] = attempts[i]
        /\ attempts'[Len(attempts) + 1] = e
    BY <2>1, <2>2, Appended
  <2>4. effect' = Cardinality(Landed')
    <3>1. Landed \in SUBSET (1 .. Len(attempts)) /\ Landed' \in SUBSET (1 .. Len(attempts) + 1)
      BY <2>3 DEF Landed
    <3>2. \A i \in 1 .. Len(attempts) : i \in Landed' <=> i \in Landed
      BY <2>2, <2>3 DEF Landed
    <3>3. Len(attempts) + 1 \in Landed' <=> lands
      BY <2>2, <2>3 DEF Landed
    <3>4. effect = Cardinality(Landed)
      BY <1>7 DEF Effects!Attempt, EffectsInv
    <3> QED
      BY <2>1, <2>2, <3>1, <3>2, <3>3, <3>4, OneMore
  <2>5. \A i \in 1 .. Len(attempts') :
          /\ attempts'[i].outcome = "committed" => attempts'[i].lands
          /\ attempts'[i].outcome \in {"duplicate-rejected", "rolled-back"} => ~attempts'[i].lands
    BY <2>1, <2>2, <2>3 DEF EffectsInv
  <2>6. /\ mode = "workers" /\ UNCHANGED <<mode, required, ops, late, observed, record>>
        /\ effect' \in Nat /\ effect' >= effect
    BY <1>0, <1>7, <2>1 DEF Effects!Attempt, EffectsTypes
  <2>7. \A i \in 1 .. Len(ops) : ops[i].before \in Nat
    <3>1. \A i \in 1 .. Len(ops) : ops[i] \in Calls
      BY <1>0, ElementOfSeq DEF EffectsTypes
    <3> QED
      BY <3>1 DEF Calls
  <2>8. \A i \in 1 .. Len(observed) : observed[i].after \in Nat
    <3>1. \A i \in 1 .. Len(observed) : observed[i] \in Samples
      BY <1>0, ElementOfSeq DEF EffectsTypes
    <3> QED
      BY <3>1 DEF Samples
  <2>9. EffectsTypes' /\ effect \in Nat
    BY <1>0, <2>3, <2>6 DEF EffectsTypes
  <2>10. /\ \A i \in 1 .. Len(ops') : ops'[i].before <= effect'
         /\ \A i \in 1 .. Len(observed') :
              observed'[i].before <= observed'[i].after /\ observed'[i].after <= effect'
    BY <2>6, <2>7, <2>8, <2>9 DEF EffectsInv
  <2> QED
    BY <2>4, <2>5, <2>6, <2>9, <2>10 DEF EffectsInv
<1>8. CASE Effects!CreateReceipt
  <2>1. /\ mode = "workers" /\ mode' \in {"refused", "settled", "unsettled"}
        /\ mode' = "settled" => Effects!Settles
        /\ UNCHANGED <<required, ops, effect, late, observed, record, attempts>>
    BY <1>8 DEF Effects!CreateReceipt
  <2>2. Landed' = Landed /\ EffectsTypes'
    BY <1>0, <2>1 DEF Landed, EffectsTypes
  <2>3. ASSUME Effects!Settles PROVE effect = 1 + Cardinality(LostLanded)
    <3>1. Cardinality(Effects!Committed) = 1
      BY <2>3, SameCardinality DEF Effects!Settles, Effects!Acknowledged
    <3>2. /\ Landed = Effects!Committed \cup LostLanded
          /\ Effects!Committed \cap LostLanded = {}
      <4>1. \A i \in 1 .. Len(attempts) : attempts[i] \in Attempts
        BY <1>0, ElementOfSeq DEF EffectsTypes
      <4> QED
        BY <4>1 DEF EffectsInv, Landed, LostLanded, Effects!Committed, Attempts, Outcomes,
                    Effects!Lost
    <3>3. IsFiniteSet(Effects!Committed) /\ IsFiniteSet(LostLanded)
      <4>1. IsFiniteSet(1 .. Len(attempts))
        BY <1>0, LenProperties, FS_Interval DEF EffectsTypes
      <4> QED
        BY <4>1, FS_Subset DEF Effects!Committed, LostLanded
    <3>4. Cardinality(Landed) = 1 + Cardinality(LostLanded)
      <4>1. Cardinality(Effects!Committed \cap LostLanded) = 0
        BY <3>2, FS_EmptySet
      <4>2. Cardinality(LostLanded) \in Nat
        BY <3>3, FS_CardinalityType
      <4>3. Cardinality(Effects!Committed \cup LostLanded) =
              Cardinality(Effects!Committed) + Cardinality(LostLanded)
                - Cardinality(Effects!Committed \cap LostLanded)
        BY <3>3, FS_Union
      <4> QED
        BY <3>1, <3>2, <4>1, <4>2, <4>3
    <3> QED
      BY <2>1, <3>4 DEF EffectsInv
  <2>4. mode' = "settled" => Effects!SettledOnce'
    BY <2>1, <2>3, SameCardinality DEF Effects!SettledOnce, LostLanded
  <2> QED
    BY <2>1, <2>2, <2>4 DEF EffectsInv
<1>9. ASSUME NEW i \in 1 .. Len(ops), Effects!SampleBefore(i) PROVE EffectsInv'
  <2>1. ops' = [ops EXCEPT ![i].at = "sampled", ![i].before = effect]
    BY <1>9 DEF Effects!SampleBefore
  <2>2. ops[i] \in Calls
    BY <1>0, ElementOfSeq DEF EffectsTypes
  <2>3. ops' = [ops EXCEPT ![i] = [ops[i] EXCEPT !.at = "sampled", !.before = effect]]
    BY <2>1, <2>2 DEF Calls
  <2> DEFINE o == [ops[i] EXCEPT !.at = "sampled", !.before = effect]
  <2>4. o \in Calls /\ o.before = effect
    BY <1>0, <2>2 DEF EffectsTypes, Calls, Progress
  <2>5. /\ ops' \in Seq(Calls) /\ Len(ops') = Len(ops)
        /\ \A j \in 1 .. Len(ops) : ops'[j] = IF j = i THEN o ELSE ops[j]
    BY <1>0, <2>3, <2>4, ExceptSeq DEF EffectsTypes
  <2> QED
    BY <1>0, <1>2, <1>9, <2>4, <2>5 DEF Effects!SampleBefore, EffectsInv, EffectsTypes
<1>10. ASSUME NEW i \in 1 .. Len(ops), Effects!RunCallback(i) PROVE EffectsInv'
  <2>1. PICK m \in {<<0, 0>>, <<1, 0>>, <<0, 1>>, <<1, 1>>} :
          effect' = effect + m[1] /\ late' = late + m[2]
    BY <1>10 DEF Effects!RunCallback
  <2>2. effect' \in Nat /\ effect' >= effect /\ late' \in Nat
    BY <1>0, <2>1 DEF EffectsTypes
  <2>3. ops' = [ops EXCEPT ![i].at = "answered"] /\ ops[i] \in Calls
    BY <1>0, <1>10, ElementOfSeq DEF Effects!RunCallback, EffectsTypes
  <2>4. ops' = [ops EXCEPT ![i] = [ops[i] EXCEPT !.at = "answered"]]
    BY <2>3 DEF Calls
  <2> DEFINE o == [ops[i] EXCEPT !.at = "answered"]
  <2>5. o \in Calls /\ o.before = ops[i].before
    BY <2>3 DEF Calls, Progress
  <2>6. /\ ops' \in Seq(Calls) /\ Len(ops') = Len(ops)
        /\ \A j \in 1 .. Len(ops) : ops'[j] = IF j = i THEN o ELSE ops[j]
    BY <1>0, <2>4, <2>5, ExceptSeq DEF EffectsTypes
  <2> QED
    BY <1>0, <1>2, <1>10, <2>2, <2>5, <2>6 DEF Effects!RunCallback, EffectsInv, EffectsTypes
<1>11. ASSUME NEW i \in 1 .. Len(ops), Effects!SampleAfter(i) PROVE EffectsInv'
  <2>1. PICK readable \in BOOLEAN :
          observed' = Append(observed, [call |-> ops[i].call, before |-> ops[i].before,
                                        after |-> effect, readable |-> readable])
    BY <1>11 DEF Effects!SampleAfter
  <2> DEFINE seen == [call |-> ops[i].call, before |-> ops[i].before, after |-> effect,
                      readable |-> readable]
             o == [ops[i] EXCEPT !.at = "done"]
  <2>2. ops' = [ops EXCEPT ![i].at = "done"] /\ ops[i] \in Calls
    BY <1>0, <1>11, ElementOfSeq DEF Effects!SampleAfter, EffectsTypes
  <2>3. ops' = [ops EXCEPT ![i] = o]
    BY <2>2 DEF Calls
  <2>4. o \in Calls /\ o.before = ops[i].before
    BY <2>2 DEF Calls, Progress
  <2>5. /\ ops' \in Seq(Calls) /\ Len(ops') = Len(ops)
        /\ \A j \in 1 .. Len(ops) : ops'[j] = IF j = i THEN o ELSE ops[j]
    BY <1>0, <2>3, <2>4, ExceptSeq DEF EffectsTypes
  <2>6. seen \in Samples /\ seen.before <= seen.after /\ seen.after <= effect
    <3>1. ops[i].before <= effect
      BY DEF EffectsInv
    <3> QED
      BY <1>0, <2>2, <3>1 DEF EffectsTypes, Calls, Samples
  <2>7. /\ observed' \in Seq(Samples) /\ Len(observed') = Len(observed) + 1
        /\ Len(observed) \in Nat
        /\ \A j \in 1 .. Len(observed) : observed'[j] = observed[j]
        /\ observed'[Len(observed) + 1] = seen
    BY <1>0, <2>1, <2>6, Appended DEF EffectsTypes
  <2>8. \A j \in 1 .. Len(observed') :
          observed'[j].before <= observed'[j].after /\ observed'[j].after <= effect
    BY <2>6, <2>7 DEF EffectsInv
  <2>9. \A j \in 1 .. Len(ops') : ops'[j].before <= effect
    BY <2>4, <2>5 DEF EffectsInv
  <2> QED
    BY <1>0, <1>2, <1>11, <2>5, <2>7, <2>8, <2>9 DEF Effects!SampleAfter, EffectsTypes
<1> QED
  BY <1>1, <1>3, <1>4, <1>5, <1>6, <1>7, <1>8, <1>9, <1>10, <1>11 DEF Effects!Next

\* Of an inductive sampling: what was sampled twice apart was mutated in between.
LEMMA SamplesCount ==
  ASSUME EffectsInv
  PROVE  Effects!VerdictCountsEffects /\ Effects!SettledOnce
<1>1. Effects!SettledOnce
  BY DEF EffectsInv, Effects!SettledOnce
<1>2. ASSUME mode = "bound", Effects!VerifySideEffectObservation
      PROVE  /\ Effects!GradeIdempotent /\ required =>
                  observed[2].after = observed[1].after /\ observed[1].after > 0
             /\ Effects!SecondEffect => observed[2].after >= observed[1].before + 2
  <2>1. observed[1].after = observed[2].before
    BY <1>2 DEF Effects!VerifySideEffectObservation, Effects!Continuous
  <2>2. 1 \in 1 .. Len(observed) /\ 2 \in 1 .. Len(observed)
    BY <1>2 DEF EffectsInv
  <2>3. observed[1] \in Samples /\ observed[2] \in Samples
    BY <2>2, ElementOfSeq DEF EffectsInv, EffectsTypes
  <2>4. observed[1].before <= observed[1].after /\ observed[2].before <= observed[2].after
    BY <2>2 DEF EffectsInv
  <2> QED
    BY <2>1, <2>3, <2>4 DEF Samples, Effects!GradeIdempotent, Effects!FirstMissing,
       Effects!SecondEffect, Effects!Mutated
<1> QED
  BY <1>1, <1>2 DEF Effects!VerdictCountsEffects

LEMMA EffectsBegin ==
  ASSUME Effects!Init
  PROVE  EffectsInv
<1>1. Landed = {} /\ attempts = <<>> /\ Len(attempts) = 0 /\ effect = 0
  BY DEF Effects!Init, Landed
<1>2. Cardinality(Landed) = 0
  BY <1>1, FS_EmptySet
<1>3. EffectsTypes
  BY DEF Effects!Init, EffectsTypes
<1> QED
  BY <1>1, <1>2, <1>3 DEF Effects!Init, EffectsInv

\* Verdicts and settled receipts count the effects that really landed, late ones included:
\* SideEffectIdempotencyOracle.grade reads samples that can only grow, and a distributed receipt
\* settles on one acknowledged commit.
THEOREM EffectsCounted == Spec => []EffectsAreCounted
<1> DEFINE I == part = "effects" => EffectsInv
<1>1. Init => I
  BY OnePartBegins, EffectsBegin
<1>2. I /\ [Next]_<<part, mcpVars, agentVars, approvalVars, effectsVars, flowVars, serversVars,
                    hostedVars>> => I'
  BY OnePartMoves, EffectsStep
<1>3. I => EffectsAreCounted
  BY SamplesCount DEF EffectsAreCounted
<1> QED
  BY <1>1, <1>2, <1>3, PTL DEF Spec

-----------------------------------------------------------------------------
(* The OAuth flow                                                             *)

Clients == [info : Nat, code : Nat, token : Nat]
Grants == [code : Nat, client : Nat, resource : {"rs"}, scopes : {RequiredScopes}]
AccessTokens == [client : Nat, resource : {"rs"}, scopes : {RequiredScopes}, live : BOOLEAN]
Counts == [registered : Nat, authorized : Nat, exchanged : Nat]
Queries == {"list", "call", "again"}
FlowTypes ==
  /\ flowStage \in Queries \cup {"metadata", "done", "failed"}
  /\ at \in {"sent", "verifying", "refused"}
  /\ client \in Clients /\ counts \in Counts
  /\ grants \in SUBSET Grants /\ issued \in Seq(AccessTokens)
  /\ flowServed \in Seq([request : Queries, token : Nat \ {0}])
  /\ receipted \in BOOLEAN

\* What the resource server has served when the probe stands at a stage.
ServedBefore(s) ==
  CASE s = "list" -> <<>>
    [] s = "call" -> <<"list">>
    [] s = "again" -> <<"list", "call">>
    [] s \in {"metadata", "done"} -> <<"list", "call", "again">>

\* Codes are numbered, and every authorization is still a grant or has become a token; the client
\* holds a token that was issued, and serves with it.
FlowInv ==
  /\ FlowTypes
  /\ IsFiniteSet(grants)
  /\ Cardinality(grants) + Len(issued) = counts.authorized
  /\ counts.exchanged = Len(issued)
  /\ \A g \in grants : g.code <= counts.authorized
  /\ client.token <= Len(issued)
  /\ at = "verifying" => client.token # 0
  /\ flowStage # "failed" =>
       /\ Len(flowServed) = Len(ServedBefore(flowStage))
       /\ \A i \in 1 .. Len(flowServed) : flowServed[i].request = ServedBefore(flowStage)[i]
  /\ \A i \in 1 .. Len(flowServed) : flowServed[i].token <= Len(issued)
  /\ receipted => flowStage = "done" /\ Flow!ReceiptIsOneGrant

\* A stage is one of a request, or one of none.
LEMMA FlowStages ==
  /\ DOMAIN Flow!Following = Queries
  /\ Flow!Following["list"] = "call" /\ Flow!Following["call"] = "again"
  /\ Flow!Following["again"] = "metadata"
BY DEF Flow!Following, Queries

\* Each step keeps one number for every authorization.
LEMMA FlowStep ==
  ASSUME FlowInv, Flow!Next \/ UNCHANGED flowVars
  PROVE  FlowInv'
<1>0. FlowTypes
  BY DEF FlowInv
<1>1. CASE UNCHANGED flowVars
  BY <1>1 DEF FlowInv, FlowTypes, flowVars, Flow!ReceiptIsOneGrant
\* The probe awaits, so that no receipt was issued yet.
<1>2. ASSUME flowStage \in Queries PROVE ~receipted
  BY <1>2 DEF FlowInv, Queries
<1>3. CASE Flow!RegisterClient
  <2>1. /\ flowStage \in Queries /\ at = "refused" /\ counts' = [counts EXCEPT !.registered = @ + 1]
        /\ client' \in {client, [client EXCEPT !.info = counts'.registered]}
        /\ UNCHANGED <<flowStage, at, grants, issued, flowServed, receipted>>
    BY <1>3, FlowStages DEF Flow!RegisterClient, Flow!Awaiting
  <2>2. counts' \in Counts /\ counts'.authorized = counts.authorized
        /\ counts'.exchanged = counts.exchanged
    <3>1. counts \in Counts /\ counts' = [counts EXCEPT !.registered = counts.registered + 1]
      BY <1>0, <2>1 DEF FlowTypes
    <3> QED
      BY <3>1 DEF Counts
  <2>3. client' \in Clients /\ client'.token = client.token
    BY <1>0, <2>1, <2>2 DEF FlowTypes, Clients, Counts
  <2>4. FlowTypes'
    BY <1>0, <2>1, <2>2, <2>3 DEF FlowTypes
  <2> QED
    BY <1>2, <2>1, <2>2, <2>3, <2>4 DEF FlowInv
<1>4. CASE Flow!Authorize
  <2>1. /\ flowStage \in Queries /\ at = "refused" /\ client.info # 0
        /\ UNCHANGED <<at, issued, flowServed, receipted>>
    BY <1>4, FlowStages DEF Flow!Authorize, Flow!Awaiting, Flow!None
  <2>2. PICK r \in Flow!Requests :
          /\ asked' = r
          /\ IF ~Flow!Grantable(r)
             THEN flowStage' = "failed" /\ UNCHANGED <<counts, grants, client>>
             ELSE LET n == counts.authorized + 1 IN
                  /\ counts' = [counts EXCEPT !.authorized = n]
                  /\ grants' = grants \cup {[code |-> n, client |-> client.info,
                                             resource |-> r.resource, scopes |-> r.scopes]}
                  /\ client' \in {client, [client EXCEPT !.code = n]}
                  /\ UNCHANGED flowStage
    BY <1>4 DEF Flow!Authorize
  <2>3. CASE ~Flow!Grantable(r)
    <3>1. FlowTypes'
      BY <1>0, <2>1, <2>2, <2>3 DEF FlowTypes
    <3> QED
      BY <1>2, <2>1, <2>2, <2>3, <3>1 DEF FlowInv
  <2>4. CASE Flow!Grantable(r)
    <3> DEFINE n == counts.authorized + 1
               g == [code |-> n, client |-> client.info, resource |-> r.resource,
                     scopes |-> r.scopes]
    <3>1. /\ counts' = [counts EXCEPT !.authorized = n] /\ grants' = grants \cup {g}
          /\ client' \in {client, [client EXCEPT !.code = n]} /\ flowStage' = flowStage
      BY <2>2, <2>4
    <3>2. n \in Nat /\ g \in Grants /\ g.code = n
      BY <1>0, <2>4 DEF FlowTypes, Counts, Grants, Clients, Flow!Grantable
    <3>3. /\ counts' \in Counts /\ counts'.authorized = n /\ counts'.exchanged = counts.exchanged
          /\ client' \in Clients /\ client'.token = client.token
      BY <1>0, <3>1, <3>2 DEF FlowTypes, Counts, Clients
    <3>4. /\ counts.authorized \in Nat /\ Len(issued) \in Nat
          /\ \A h \in grants : h.code \in Nat /\ h.code <= counts.authorized
      BY <1>0, LenProperties DEF FlowInv, FlowTypes, Counts, Grants
    <3>5. g \notin grants
      BY <3>2, <3>4
    <3>6. IsFiniteSet(grants') /\ Cardinality(grants') = Cardinality(grants) + 1
          /\ Cardinality(grants) \in Nat
      BY <3>1, <3>5, FS_AddElement, FS_CardinalityType DEF FlowInv
    <3>7. \A h \in grants' : h.code <= n
      BY <3>1, <3>2, <3>4
    <3>8. Cardinality(grants') + Len(issued) = n
      BY <3>4, <3>6 DEF FlowInv
    <3>9. FlowTypes'
      BY <1>0, <2>1, <3>1, <3>2, <3>3 DEF FlowTypes
    <3> QED
      BY <1>2, <2>1, <3>1, <3>3, <3>6, <3>7, <3>8, <3>9 DEF FlowInv
  <2> QED
    BY <2>3, <2>4
<1>5. CASE Flow!ExchangeAuthorizationCode
  <2>1. PICK g \in grants :
          /\ counts' = [counts EXCEPT !.exchanged = @ + 1]
          /\ issued' = Append(issued, [client |-> g.client, resource |-> g.resource,
                                      scopes |-> g.scopes, live |-> TRUE])
          /\ grants' = grants \ {g}
          /\ \/ /\ client' = [client EXCEPT !.code = 0, !.token = Len(issued')]
                /\ at' = "sent"
             \/ client' = [client EXCEPT !.code = 0] /\ UNCHANGED at
    BY <1>5 DEF Flow!ExchangeAuthorizationCode, Flow!None
  <2>2. /\ flowStage \in Queries /\ at = "refused" /\ UNCHANGED <<flowStage, flowServed, receipted>>
    BY <1>5, FlowStages DEF Flow!ExchangeAuthorizationCode, Flow!Awaiting
  <2> DEFINE e == [client |-> g.client, resource |-> g.resource, scopes |-> g.scopes,
                   live |-> TRUE]
  <2>3. g \in Grants /\ e \in AccessTokens
    BY <1>0 DEF FlowTypes, Grants, AccessTokens
  <2>4. issued' \in Seq(AccessTokens) /\ Len(issued') = Len(issued) + 1 /\ Len(issued) \in Nat
    BY <1>0, <2>1, <2>3, Appended DEF FlowTypes
  <2>5. /\ counts' \in Counts /\ counts'.authorized = counts.authorized
        /\ counts'.exchanged = counts.exchanged + 1
    <3>1. counts \in Counts /\ counts' = [counts EXCEPT !.exchanged = counts.exchanged + 1]
      BY <1>0, <2>1 DEF FlowTypes
    <3> QED
      BY <3>1 DEF Counts
  <2>6. /\ IsFiniteSet(grants') /\ Cardinality(grants') = Cardinality(grants) - 1
        /\ Cardinality(grants) \in Nat
    BY <2>1, FS_RemoveElement, FS_CardinalityType DEF FlowInv
  <2>7. client' \in Clients /\ client'.token <= Len(issued')
    <3>1. client \in Clients /\ client.token <= Len(issued)
      BY <1>0 DEF FlowInv, FlowTypes
    <3>2. CASE client' = [client EXCEPT !.code = 0, !.token = Len(issued')]
      <4> DEFINE n == Len(issued')
      <4>1. n \in Nat /\ n <= Len(issued') /\ client' = [client EXCEPT !.code = 0, !.token = n]
        BY <2>4, <3>2
      <4> HIDE DEF n
      <4> QED
        BY <3>1, <4>1 DEF Clients
    <3>3. CASE client' = [client EXCEPT !.code = 0]
      <4>1. client' \in Clients /\ client'.token = client.token /\ client.token \in Nat
        BY <3>1, <3>3 DEF Clients
      <4> QED
        BY <2>4, <3>1, <4>1
    <3> QED
      BY <2>1, <3>2, <3>3
  <2>8. at' # "verifying" /\ at' \in {"sent", "verifying", "refused"}
    BY <2>1, <2>2
  <2>9. Cardinality(grants') + Len(issued') = counts'.authorized /\ counts'.exchanged = Len(issued')
    BY <2>4, <2>5, <2>6 DEF FlowInv
  <2>10. /\ \A h \in grants' : h.code <= counts'.authorized
         /\ \A i \in 1 .. Len(flowServed') : flowServed'[i].token <= Len(issued')
    <3>1. \A i \in 1 .. Len(flowServed) : flowServed[i] \in [request : Queries, token : Nat \ {0}]
      BY <1>0, ElementOfSeq DEF FlowTypes
    <3>2. \A i \in 1 .. Len(flowServed) : flowServed[i].token \in Nat
      BY <3>1
    <3> QED
      BY <2>1, <2>2, <2>4, <2>5, <3>2 DEF FlowInv
  <2>11. FlowTypes'
    BY <1>0, <2>1, <2>2, <2>4, <2>5, <2>7, <2>8 DEF FlowTypes
  <2> QED
    BY <1>2, <2>2, <2>6, <2>7, <2>8, <2>9, <2>10, <2>11 DEF FlowInv
<1>6. CASE Flow!TokenExpires
  <2>1. PICK i \in 1 .. Len(issued) : issued' = [issued EXCEPT ![i].live = FALSE]
    BY <1>6 DEF Flow!TokenExpires
  <2>2. /\ flowStage \in Queries
        /\ UNCHANGED <<flowStage, at, client, grants, counts, flowServed, receipted>>
    BY <1>6, FlowStages DEF Flow!TokenExpires, Flow!Awaiting
  <2> DEFINE e == [issued[i] EXCEPT !.live = FALSE]
  <2>3. issued[i] \in AccessTokens /\ issued' = [issued EXCEPT ![i] = e] /\ e \in AccessTokens
    <3>1. issued[i] \in AccessTokens
      BY <1>0, ElementOfSeq DEF FlowTypes
    <3> QED
      BY <2>1, <3>1 DEF AccessTokens
  <2>4. issued' \in Seq(AccessTokens) /\ Len(issued') = Len(issued)
    BY <1>0, <2>3, ExceptSeq DEF FlowTypes
  <2>5. FlowTypes'
    BY <1>0, <2>2, <2>4 DEF FlowTypes
  <2> QED
    BY <1>2, <2>2, <2>4, <2>5 DEF FlowInv
<1>7. CASE Flow!VerifyToken
  <2>1. /\ flowStage \in Queries /\ client.token # 0 /\ at' = "verifying"
        /\ UNCHANGED <<flowStage, client, grants, issued, counts, flowServed, receipted>>
    BY <1>7, FlowStages DEF Flow!VerifyToken, Flow!Awaiting, Flow!None
  <2>2. FlowTypes'
    BY <1>0, <2>1 DEF FlowTypes
  <2> QED
    BY <1>2, <2>1, <2>2 DEF FlowInv
<1>8. CASE Flow!Serve
  <2>1. /\ flowStage \in Queries /\ at = "verifying" /\ at' = "sent"
        /\ flowServed' = Append(flowServed, [request |-> flowStage, token |-> client.token])
        /\ flowStage' = Flow!Following[flowStage]
        /\ UNCHANGED <<client, grants, issued, counts, receipted>>
    BY <1>8, FlowStages DEF Flow!Serve, Flow!Awaiting
  <2> DEFINE e == [request |-> flowStage, token |-> client.token]
             Served == [request : Queries, token : Nat \ {0}]
  <2>2. e \in Served /\ e.token <= Len(issued)
    BY <1>0, <2>1 DEF FlowInv, FlowTypes, Clients
  <2>3. flowServed \in Seq(Served)
    BY <1>0 DEF FlowTypes
  <2>4. /\ flowServed' \in Seq(Served) /\ Len(flowServed') = Len(flowServed) + 1
        /\ Len(flowServed) \in Nat
        /\ \A i \in 1 .. Len(flowServed) : flowServed'[i] = flowServed[i]
        /\ flowServed'[Len(flowServed) + 1] = e
    BY <2>1, <2>2, <2>3, Appended
  <2>5. flowStage' \in {"call", "again", "metadata"}
    BY <2>1, FlowStages DEF Queries
  <2>6. FlowTypes'
    BY <1>0, <2>1, <2>4, <2>5 DEF FlowTypes, Queries
  <2>7. /\ Len(flowServed') = Len(ServedBefore(flowStage'))
        /\ \A i \in 1 .. Len(flowServed') : flowServed'[i].request = ServedBefore(flowStage')[i]
    <3>1. /\ Len(flowServed) = Len(ServedBefore(flowStage))
          /\ \A i \in 1 .. Len(flowServed) : flowServed[i].request = ServedBefore(flowStage)[i]
      BY <2>1 DEF FlowInv, Queries
    <3>2. CASE flowStage = "list"
      BY <2>1, <2>4, <3>1, <3>2, FlowStages DEF ServedBefore
    <3>3. CASE flowStage = "call"
      BY <2>1, <2>4, <3>1, <3>3, FlowStages DEF ServedBefore
    <3>4. CASE flowStage = "again"
      BY <2>1, <2>4, <3>1, <3>4, FlowStages DEF ServedBefore
    <3> QED
      BY <2>1, <3>2, <3>3, <3>4 DEF Queries
  <2>8. \A i \in 1 .. Len(flowServed') : flowServed'[i].token <= Len(issued')
    BY <2>1, <2>2, <2>4 DEF FlowInv
  <2> QED
    BY <1>2, <2>1, <2>6, <2>7, <2>8 DEF FlowInv
<1>9. CASE Flow!Refuse
  <2>1. /\ flowStage \in Queries /\ at' = "refused" /\ client' = [client EXCEPT !.token = 0]
        /\ UNCHANGED <<flowStage, grants, issued, counts, flowServed, receipted>>
    BY <1>9, FlowStages DEF Flow!Refuse, Flow!Awaiting, Flow!None
  <2>2. client' \in Clients /\ client'.token <= Len(issued)
    BY <1>0, <2>1, LenProperties DEF FlowTypes, Clients
  <2>3. FlowTypes'
    BY <1>0, <2>1, <2>2 DEF FlowTypes
  <2> QED
    BY <1>2, <2>1, <2>2, <2>3 DEF FlowInv
<1>10. CASE Flow!ReceiptForObservation
  <2>1. PICK discovered \in BOOLEAN :
          receipted' = /\ discovered
                       /\ asked = [state |-> TRUE, method |-> "S256", resource |-> "rs",
                                   scopes |-> RequiredScopes]
                       /\ introspected.last = [active |-> TRUE, resource |-> "rs",
                                               scopes |-> RequiredScopes]
                       /\ Flow!Reused /\ introspected.count >= 3
    BY <1>10 DEF Flow!ReceiptForObservation
  <2>2. /\ flowStage = "metadata" /\ flowStage' = "done"
        /\ UNCHANGED <<at, client, asked, grants, issued, counts, flowServed>>
    BY <1>10 DEF Flow!ReceiptForObservation
  <2>3. /\ Len(flowServed) = 3
        /\ flowServed[1].request = "list" /\ flowServed[2].request = "call"
        /\ flowServed[3].request = "again"
        /\ ServedBefore("done") = ServedBefore("metadata")
    BY <2>2 DEF FlowInv, ServedBefore
  <2>4. ASSUME receipted' PROVE Flow!ReceiptIsOneGrant'
    <3>1. /\ asked = [state |-> TRUE, method |-> "S256", resource |-> "rs",
                      scopes |-> RequiredScopes]
          /\ counts = [registered |-> 1, authorized |-> 1, exchanged |-> 1]
      BY <2>1, <2>4 DEF Flow!Reused
    <3>2. Len(issued) = 1 /\ Cardinality(grants) + Len(issued) = 1 /\ IsFiniteSet(grants)
      BY <3>1 DEF FlowInv
    <3>3. grants = {}
      BY <3>2, FS_CardinalityType, FS_EmptySet
    <3>4. issued[1] \in AccessTokens
      <4>1. issued \in Seq(AccessTokens) /\ 1 \in 1 .. Len(issued)
        BY <1>0, <3>2 DEF FlowTypes
      <4> QED
        BY <4>1, ElementOfSeq
    <3>5. \A i \in 1 .. 3 : /\ flowServed[i] \in [request : Queries, token : Nat \ {0}]
                           /\ flowServed[i].token <= 1
      BY <1>0, <2>3, <3>2, ElementOfSeq DEF FlowInv, FlowTypes
    <3>6. /\ flowServed[1] = [request |-> "list", token |-> 1]
          /\ flowServed[2] = [request |-> "call", token |-> 1]
          /\ flowServed[3] = [request |-> "again", token |-> 1]
      BY <2>3, <3>5
    <3>7. flowServed = << [request |-> "list", token |-> 1], [request |-> "call", token |-> 1],
                          [request |-> "again", token |-> 1] >>
      BY <1>0, <2>3, <3>6 DEF FlowTypes
    <3> QED
      BY <2>2, <3>1, <3>2, <3>3, <3>4, <3>7 DEF Flow!ReceiptIsOneGrant, AccessTokens
  <2>5. receipted' \in BOOLEAN
    BY <2>1 DEF Flow!Reused
  <2>6. FlowTypes'
    BY <1>0, <2>2, <2>5 DEF FlowTypes
  <2> QED
    BY <2>2, <2>3, <2>4, <2>6 DEF FlowInv
<1> QED
  BY <1>1, <1>3, <1>4, <1>5, <1>6, <1>7, <1>8, <1>9, <1>10 DEF Flow!Next

LEMMA FlowBegins ==
  ASSUME Flow!Init
  PROVE  FlowInv
<1>1. /\ grants = {} /\ issued = <<>> /\ flowServed = <<>> /\ Len(issued) = 0
      /\ Len(flowServed) = 0 /\ counts = [registered |-> 0, authorized |-> 0, exchanged |-> 0]
      /\ client = [info |-> 0, code |-> 0, token |-> 0] /\ at = "sent" /\ flowStage = "list"
      /\ receipted = FALSE
  BY DEF Flow!Init, Flow!None
<1>2. FlowTypes
  <2>1. client \in Clients /\ counts \in Counts
    BY <1>1 DEF Clients, Counts
  <2>2. grants \in SUBSET Grants /\ issued \in Seq(AccessTokens)
    BY <1>1
  <2>3. flowServed \in Seq([request : Queries, token : Nat \ {0}])
    BY <1>1
  <2> QED
    BY <1>1, <2>1, <2>2, <2>3 DEF FlowTypes, Queries
<1>3. IsFiniteSet(grants) /\ Cardinality(grants) = 0
  BY <1>1, FS_EmptySet
<1>4. ServedBefore("list") = <<>>
  BY DEF ServedBefore
<1> QED
  BY <1>1, <1>2, <1>3, <1>4 DEF FlowInv

-----------------------------------------------------------------------------
(* Qualified servers                                                          *)

Events == [kind : {"initial", "refresh", "revoke", "request", "replay"},
           token : SessionTokens, parent : SessionTokens \cup {0}, accepted : BOOLEAN,
           bound : BOOLEAN]
Epochs == [scopes : SUBSET {"s", "t"}, allowed : BOOLEAN]

\* What was observed is what these servers do; a conclusion is drawn once.
ServersInv ==
  /\ campaign \in {"matrix", "session", "drift"}
  /\ broken \subseteq Servers!ServerFaults[campaign]
  /\ campaign = "matrix" => \A t \in DOMAIN statuses : statuses[t] = Servers!Status(t)
  /\ campaign = "session" => keysets \in Servers!KeySets
  /\ trace \in Seq(Events)
  /\ \A i \in 1 .. Len(trace) :
       trace[i].kind = "replay" => (trace[i].accepted <=> "serves replayed" \in broken)
  /\ epochs \in Seq(Epochs)
  /\ \A i \in 1 .. Len(epochs) : epochs[i].scopes = {"s", "t"} => epochs[i].allowed
  /\ qualified = "accepted" => Servers!QualifiedServersRefuse

\* Any fault of the matrix shows in one of its tokens.
LEMMA MatrixShows ==
  ASSUME campaign = "matrix", broken \subseteq Servers!ServerFaults[campaign],
         \A t \in Servers!Probes : statuses[t] = Servers!Status(t), Servers!Matrix
  PROVE  broken = {}
<1> DEFINE R == [ valid |-> Servers!Record("as", "rs", {"s"}, TRUE),
                  expired |-> Servers!Record("as", "rs", {"s"}, FALSE),
                  wrong_issuer |-> Servers!Record("other", "rs", {"s"}, TRUE),
                  wrong_resource |-> Servers!Record("as", "other", {"s"}, TRUE),
                  insufficient_scope |-> Servers!Record("as", "rs", {"t"}, TRUE) ]
<1>1. Servers!Records = R /\ Servers!Probes = DOMAIN R \cup {"missing", "invalid"}
  BY DEF Servers!Records, Servers!Probes
<1>2. \A t \in {"missing", "invalid", "expired"} : statuses[t] = 401 /\ statuses[t] = Servers!Status(t)
  BY <1>1 DEF Servers!Matrix
<1>3. statuses["insufficient_scope"] = 403
      /\ statuses["insufficient_scope"] = Servers!Status("insufficient_scope")
  BY <1>1 DEF Servers!Matrix
<1>4. /\ ~Servers!VerifyToken("missing") /\ ~Servers!VerifyToken("invalid")
      /\ Servers!VerifyToken("expired") /\ Servers!VerifyToken("insufficient_scope")
      /\ Servers!Records["expired"].live = FALSE
      /\ Servers!Records["insufficient_scope"].live = TRUE
      /\ Servers!Records["insufficient_scope"].scopes # {"s"}
      /\ Servers!Records["expired"].scopes = {"s"}
  BY <1>1 DEF Servers!VerifyToken, Servers!Record
<1>5. ASSUME "admits anonymous" \in broken PROVE FALSE
  <2>1. Servers!Status("missing") = 200
    BY <1>4, <1>5 DEF Servers!Status
  <2> QED
    BY <1>2, <2>1
<1>6. ASSUME "admits unverified" \in broken PROVE FALSE
  <2>1. Servers!Status("invalid") = 200
    BY <1>4, <1>6 DEF Servers!Status
  <2> QED
    BY <1>2, <2>1
<1>7. ASSUME "ignores expiry" \in broken PROVE FALSE
  <2>1. Servers!Status("expired") = 200
    BY <1>4, <1>7 DEF Servers!Status
  <2> QED
    BY <1>2, <2>1
<1>8. ASSUME "ignores scopes" \in broken PROVE FALSE
  <2>1. Servers!Status("insufficient_scope") = 200
    BY <1>4, <1>8 DEF Servers!Status
  <2> QED
    BY <1>3, <2>1
<1> QED
  BY <1>5, <1>6, <1>7, <1>8 DEF Servers!ServerFaults

\* A session that is accepted was one of rotating keys, on which each event followed an issue.
LEMMA SessionShows ==
  ASSUME ServersInv, campaign = "session", Servers!Checked, Servers!AcceptedSession
  PROVE  /\ "serves replayed" \notin broken /\ \E i, j \in DOMAIN keysets : keysets[i] # keysets[j]
         /\ \A i \in Servers!Kind("request"), j \in Servers!Kind("revoke") :
              j < i /\ trace[j].token = trace[i].token => ~trace[i].accepted
         /\ \A i \in Servers!Kind("revoke") \cup Servers!Kind("replay") :
              \E j \in 1 .. i - 1 : trace[j].token = trace[i].token
<1>1. "serves replayed" \notin broken
  <2>1. PICK i \in Servers!Kind("replay") : ~trace[i].accepted
    BY DEF Servers!Checked, Servers!AcceptedSession
  <2> QED
    BY <2>1 DEF ServersInv, Servers!Kind
<1>2. keysets[1] # keysets[2] /\ DOMAIN keysets = {1, 2}
  <2>1. CASE keysets = <<{"k1"}, {"k1"}>>
    <3>1. Servers!ToSet(keysets) = {{"k1"}}
      BY <2>1 DEF Servers!ToSet
    <3>2. Cardinality({{"k1"}}) = 1
      BY FS_Singleton
    <3> QED
      BY <3>1, <3>2, SameCardinality DEF Servers!AcceptedSession
  <2>2. CASE keysets = <<{"k1"}, {"k2"}>>
    <3>1. DOMAIN keysets = 1 .. 2
      BY <2>2
    <3>2. {"k1"} # {"k2"}
      OBVIOUS
    <3> QED
      BY <2>2, <3>1, <3>2
  <2> QED
    BY <2>1, <2>2 DEF ServersInv, Servers!KeySets
<1>3. ASSUME NEW i \in Servers!Kind("revoke") \cup Servers!Kind("replay")
      PROVE  \E j \in 1 .. i - 1 : trace[j].token = trace[i].token
  <2>1. trace[i].token \in Servers!SeenAt(i) /\ i \in 1 .. Len(trace)
        /\ trace[i].kind \in {"revoke", "replay"}
    BY <1>3 DEF Servers!Checked, Servers!Kind
  <2>2. PICK j \in 1 .. i : trace[j].kind \in {"initial", "refresh"} /\ trace[j].token = trace[i].token
    BY <2>1 DEF Servers!SeenAt
  <2> QED
    BY <2>1, <2>2
<1> QED
  BY <1>1, <1>2, <1>3 DEF Servers!Checked

\* A contraction that is accepted lost an operation for want of a scope.
LEMMA ContractionShows ==
  ASSUME ServersInv,
         NEW i \in 2 .. Len(epochs), Servers!Contracts(i), ~epochs[i].allowed
  PROVE  \E k \in DOMAIN epochs : \E j \in 1 .. k - 1 :
           ~epochs[k].allowed /\ epochs[k].scopes # {"s", "t"}
             /\ epochs[j].scopes \ epochs[k].scopes # {}
<1>1. i \in 1 .. Len(epochs) /\ i - 1 \in 1 .. i - 1 /\ DOMAIN epochs = 1 .. Len(epochs)
  <2>1. epochs \in Seq(Epochs)
    BY DEF ServersInv
  <2>2. Len(epochs) \in Nat /\ DOMAIN epochs = 1 .. Len(epochs)
    BY <2>1, LenProperties
  <2> QED
    BY <2>2
<1>2. epochs[i].scopes # {"s", "t"}
  BY <1>1 DEF ServersInv
<1>3. epochs[i - 1].scopes \ epochs[i].scopes # {}
  BY DEF Servers!Contracts
<1> QED
  BY <1>1, <1>2, <1>3

\* The servers' faults decide what a token meets.
LEMMA StatusStands ==
  ASSUME broken' = broken, NEW t
  PROVE  Servers!Status(t)' = Servers!Status(t)
BY DEF Servers!Status

\* Observations are made before the conclusion, and the conclusion reads all of them.
LEMMA ServersStep ==
  ASSUME ServersInv, Servers!Next \/ UNCHANGED serversVars
  PROVE  ServersInv'
<1>1. CASE UNCHANGED serversVars
  <2>1. Servers!QualifiedServersRefuse' <=> Servers!QualifiedServersRefuse
    BY <1>1 DEF serversVars, Servers!QualifiedServersRefuse, Servers!Accepted, Servers!Kind
  <2>2. campaign = "matrix" => \A t \in DOMAIN statuses' : statuses'[t] = Servers!Status(t)'
    BY <1>1, StatusStands DEF serversVars, ServersInv
  <2> QED
    BY <1>1, <2>1, <2>2 DEF ServersInv, serversVars
\* A step that observes.
<1>2. ASSUME qualified = "none",
             UNCHANGED <<broken, campaign, keysets, qualified>>,
             campaign = "matrix" => \A t \in DOMAIN statuses' : statuses'[t] = Servers!Status(t),
             trace' \in Seq(Events),
             \A i \in 1 .. Len(trace') :
               trace'[i].kind = "replay" => (trace'[i].accepted <=> "serves replayed" \in broken),
             epochs' \in Seq(Epochs),
             \A i \in 1 .. Len(epochs') : epochs'[i].scopes = {"s", "t"} => epochs'[i].allowed
      PROVE  ServersInv'
  <2>1. campaign = "matrix" => \A t \in DOMAIN statuses' : statuses'[t] = Servers!Status(t)'
    BY <1>2, StatusStands
  <2> QED
    BY <1>2, <2>1 DEF ServersInv
\* A step that concludes.
<1>3. ASSUME NEW said, Servers!Conclude(said),
             said = "accepted" =>
               /\ campaign = "matrix" => broken = {}
               /\ campaign = "session" => Servers!Checked /\ Servers!AcceptedSession
               /\ campaign = "drift" =>
                    \E i \in 2 .. Len(epochs) : Servers!Contracts(i) /\ ~epochs[i].allowed
      PROVE  ServersInv'
  <2>1. /\ UNCHANGED <<broken, campaign, statuses, keysets, trace, epochs, revokedNow>>
        /\ qualified' = said
    BY <1>3 DEF Servers!Conclude
  <2>2. said = "accepted" => Servers!QualifiedServersRefuse'
    <3>1. Servers!Kind("request")' = Servers!Kind("request")
          /\ Servers!Kind("revoke")' = Servers!Kind("revoke")
          /\ Servers!Kind("replay")' = Servers!Kind("replay")
      BY <2>1 DEF Servers!Kind
    <3> QED
      BY <1>3, <2>1, <3>1, SessionShows, ContractionShows
         DEF Servers!QualifiedServersRefuse, Servers!Accepted
  <2>3. campaign = "matrix" => \A t \in DOMAIN statuses' : statuses'[t] = Servers!Status(t)'
    BY <2>1, StatusStands DEF ServersInv
  <2> QED
    BY <2>1, <2>2, <2>3 DEF ServersInv
\* An event is appended.
<1>4. ASSUME NEW e \in Events, Servers!Observe(e),
             e.kind = "replay" => (e.accepted <=> "serves replayed" \in broken)
      PROVE  ServersInv'
  <2>1. /\ trace' = Append(trace, e) /\ qualified = "none"
        /\ UNCHANGED <<broken, campaign, statuses, keysets, epochs, qualified>>
    BY <1>4 DEF Servers!Observe, Servers!Running
  <2>2. /\ trace' \in Seq(Events) /\ Len(trace') = Len(trace) + 1 /\ Len(trace) \in Nat
        /\ \A i \in 1 .. Len(trace) : trace'[i] = trace[i]
        /\ trace'[Len(trace) + 1] = e
    <3>1. trace \in Seq(Events)
      BY DEF ServersInv
    <3> QED
      BY <2>1, <3>1, Appended
  <2>3. \A i \in 1 .. Len(trace') :
          trace'[i].kind = "replay" => (trace'[i].accepted <=> "serves replayed" \in broken)
    <3>1. \A i \in 1 .. Len(trace) :
            trace[i].kind = "replay" => (trace[i].accepted <=> "serves replayed" \in broken)
      BY DEF ServersInv
    <3>2. \A i \in 1 .. Len(trace') : i \in 1 .. Len(trace) \/ i = Len(trace) + 1
      BY <2>2
    <3>3. ASSUME NEW i \in 1 .. Len(trace')
          PROVE  trace'[i].kind = "replay" => (trace'[i].accepted <=> "serves replayed" \in broken)
      <4>1. CASE i \in 1 .. Len(trace)
        BY <2>2, <3>1, <4>1
      <4>2. CASE i = Len(trace) + 1
        BY <1>4, <2>2, <4>2
      <4> QED
        BY <3>2, <4>1, <4>2
    <3> QED
      BY <3>3
  <2> QED
    BY <1>2, <2>1, <2>2, <2>3 DEF ServersInv
<1>5. CASE Servers!ProbeToken
  <2>1. PICK t \in Servers!Probes :
          statuses' = [p \in DOMAIN statuses \cup {t} |->
                        IF p = t THEN Servers!Status(t) ELSE statuses[p]]
    BY <1>5 DEF Servers!ProbeToken
  <2>2. /\ DOMAIN statuses' = {t} \cup DOMAIN statuses
        /\ \A p \in DOMAIN statuses' :
             statuses'[p] = IF p = t THEN Servers!Status(t) ELSE statuses[p]
    BY <2>1
  <2>3. /\ qualified = "none"
        /\ UNCHANGED <<broken, campaign, keysets, trace, epochs, qualified>>
    BY <1>5 DEF Servers!ProbeToken, Servers!Running
  <2>4. campaign = "matrix" => \A p \in DOMAIN statuses' : statuses'[p] = Servers!Status(p)
    BY <2>2 DEF ServersInv
  <2>5. /\ trace' \in Seq(Events) /\ epochs' \in Seq(Epochs)
        /\ \A i \in 1 .. Len(trace') :
             trace'[i].kind = "replay" => (trace'[i].accepted <=> "serves replayed" \in broken)
        /\ \A i \in 1 .. Len(epochs') : epochs'[i].scopes = {"s", "t"} => epochs'[i].allowed
    BY <2>3 DEF ServersInv
  <2> QED
    BY <1>2, <2>3, <2>4, <2>5
<1>6. CASE Servers!MatrixReceipt
  <2>1. /\ campaign = "matrix" /\ DOMAIN statuses = Servers!Probes
        /\ Servers!Conclude(IF Servers!Matrix THEN "accepted" ELSE "refused")
    BY <1>6 DEF Servers!MatrixReceipt, Servers!Running
  <2>2. Servers!Matrix => broken = {}
    BY <2>1, MatrixShows DEF ServersInv
  <2> QED
    BY <1>3, <2>1, <2>2
<1>7. CASE Servers!Issue
  <2>1. PICK t \in SessionTokens, bound \in BOOLEAN :
          Servers!Observe(Servers!Event("initial", t, 0, TRUE, bound))
    BY <1>7 DEF Servers!Issue
  <2> QED
    BY <1>4, <2>1 DEF Servers!Event, Events
<1>8. CASE Servers!Refresh
  <2>1. PICK p, t \in SessionTokens : Servers!Observe(Servers!Event("refresh", t, p, TRUE, FALSE))
    BY <1>8 DEF Servers!Refresh
  <2> QED
    BY <1>4, <2>1 DEF Servers!Event, Events
<1>9. CASE Servers!Revoke
  <2>1. PICK t \in SessionTokens : Servers!Observe(Servers!Event("revoke", t, 0, FALSE, FALSE))
    BY <1>9 DEF Servers!Revoke
  <2> QED
    BY <1>4, <2>1 DEF Servers!Event, Events
<1>10. CASE Servers!Request
  <2>1. PICK t \in SessionTokens :
          Servers!Observe(Servers!Event("request", t, 0,
                            t \notin revokedNow \/ "serves revoked" \in broken, FALSE))
    BY <1>10 DEF Servers!Request
  <2> DEFINE admits == t \notin revokedNow \/ "serves revoked" \in broken
  <2>2. admits \in BOOLEAN
    OBVIOUS
  <2>3. Servers!Observe(Servers!Event("request", t, 0, admits, FALSE))
    BY <2>1
  <2> HIDE DEF admits
  <2> QED
    BY <1>4, <2>2, <2>3 DEF Servers!Event, Events
<1>11. CASE Servers!Replay
  <2>1. PICK t \in SessionTokens :
          Servers!Observe(Servers!Event("replay", t, 0, "serves replayed" \in broken, FALSE))
    BY <1>11 DEF Servers!Replay
  <2> DEFINE serves == "serves replayed" \in broken
  <2>2. serves \in BOOLEAN /\ (serves <=> "serves replayed" \in broken)
    OBVIOUS
  <2>3. Servers!Observe(Servers!Event("replay", t, 0, serves, FALSE))
    BY <2>1
  <2> HIDE DEF serves
  <2> QED
    BY <1>4, <2>2, <2>3 DEF Servers!Event, Events
<1>12. CASE Servers!SessionReceipt
  <2>1. /\ campaign = "session"
        /\ Servers!Conclude(IF ~Servers!Checked THEN "refused"
                            ELSE IF Servers!AcceptedSession THEN "accepted" ELSE "rejected")
    BY <1>12 DEF Servers!SessionReceipt, Servers!Running
  <2> QED
    BY <1>3, <2>1
<1>13. CASE Servers!ObserveEpoch
  <2>1. PICK scopes \in SUBSET {"s", "t"}, stale \in BOOLEAN :
          epochs' = Append(epochs, [scopes |-> scopes, allowed |-> scopes = {"s", "t"} \/ stale])
    BY <1>13 DEF Servers!ObserveEpoch
  <2> DEFINE allowed == scopes = {"s", "t"} \/ stale
             e == [scopes |-> scopes, allowed |-> allowed]
  <2>2. allowed \in BOOLEAN /\ (scopes = {"s", "t"} => allowed)
    OBVIOUS
  <2>3. epochs' = Append(epochs, e)
    BY <2>1
  <2>4. epochs \in Seq(Epochs) /\ e \in Epochs
    <3> HIDE DEF allowed
    <3> QED
      BY <2>2 DEF ServersInv, Epochs
  <2> HIDE DEF allowed
  <2>5. /\ epochs' \in Seq(Epochs) /\ Len(epochs') = Len(epochs) + 1 /\ Len(epochs) \in Nat
        /\ \A i \in 1 .. Len(epochs) : epochs'[i] = epochs[i]
        /\ epochs'[Len(epochs) + 1] = e
    BY <2>3, <2>4, Appended
  <2>6. \A i \in 1 .. Len(epochs') : epochs'[i].scopes = {"s", "t"} => epochs'[i].allowed
    <3>1. \A i \in 1 .. Len(epochs) : epochs[i].scopes = {"s", "t"} => epochs[i].allowed
      BY DEF ServersInv
    <3>2. e.scopes = {"s", "t"} => e.allowed
      BY <2>2
    <3> HIDE DEF e
    <3> QED
      BY <2>5, <3>1, <3>2
  <2>7. /\ qualified = "none" /\ campaign = "drift"
        /\ UNCHANGED <<broken, campaign, statuses, keysets, trace, revokedNow, qualified>>
    BY <1>13 DEF Servers!ObserveEpoch, Servers!Running
  <2>8. /\ trace' \in Seq(Events)
        /\ \A i \in 1 .. Len(trace') :
             trace'[i].kind = "replay" => (trace'[i].accepted <=> "serves replayed" \in broken)
    BY <2>7 DEF ServersInv
  <2> QED
    BY <1>2, <2>5, <2>6, <2>7, <2>8
<1>14. CASE Servers!DriftReceipt
  <2>1. /\ campaign = "drift"
        /\ Servers!Conclude(IF \E i \in 2 .. Len(epochs) :
                                 Servers!Contracts(i) /\ ~epochs[i].allowed
                            THEN "accepted" ELSE "rejected")
    BY <1>14 DEF Servers!DriftReceipt, Servers!Running
  <2> QED
    BY <1>3, <2>1
<1> QED
  BY <1>1, <1>5, <1>6, <1>7, <1>8, <1>9, <1>10, <1>11, <1>12, <1>13, <1>14 DEF Servers!Next

LEMMA ServersBegin ==
  ASSUME Servers!Init
  PROVE  ServersInv
<1>1. /\ campaign \in {"matrix", "session", "drift"}
      /\ broken \subseteq Servers!ServerFaults[campaign]
  BY DEF Servers!Init, Servers!ServerFaults
<1>2. /\ statuses = <<>> /\ trace = <<>> /\ epochs = <<>> /\ qualified = "none"
      /\ campaign = "session" => keysets \in Servers!KeySets
  BY DEF Servers!Init
<1>3. DOMAIN statuses = {}
  BY <1>2
<1> QED
  BY <1>1, <1>2, <1>3 DEF ServersInv

-----------------------------------------------------------------------------
(* Hosted servers                                                             *)

\* A healthy exchange was an answer in time and within the limits; a proxy fails where there is one.
LEMMA ConditionsNameTheirCause ==
  ASSUME NEW x \in Hosted!Exchanges
  PROVE  /\ Hosted!Condition(x) = "healthy" =>
              ~x.what.slow /\ ~x.what.big /\ ~x.what.many /\ x.what.says \in {"expected", "other"}
         /\ Hosted!Condition(x) = "proxy-failure" => proxied
<1>1. CASE x \in [kind : {"answer"}, what : Hosted!Answers]
  <2>1. x.kind = "answer" /\ x.what \in Hosted!Answers
    BY <1>1
  <2>2. Hosted!Condition(x) = Hosted!OfAnswer(x.what)
    BY <2>1 DEF Hosted!Condition
  <2>3. /\ x.what.big \in BOOLEAN /\ x.what.many \in BOOLEAN /\ x.what.slow \in BOOLEAN
        /\ x.what.says \in {"expected", "other", "nameless", "text"}
    BY <2>1 DEF Hosted!Answers
  <2>4. CASE x.what.big
    BY <2>2, <2>4 DEF Hosted!OfAnswer
  <2>5. CASE ~x.what.big /\ x.what.many
    BY <2>2, <2>5 DEF Hosted!OfAnswer
  <2>6. CASE ~x.what.big /\ ~x.what.many /\ x.what.slow
    BY <2>2, <2>6 DEF Hosted!OfAnswer
  <2>7. CASE ~x.what.big /\ ~x.what.many /\ ~x.what.slow
    BY <2>2, <2>3, <2>7 DEF Hosted!OfAnswer
  <2> QED
    BY <2>3, <2>4, <2>5, <2>6, <2>7
<1>2. CASE x \in [kind : {"status"}, what : Hosted!Statuses]
  <2>1. x.kind = "status" /\ x.what \in {"429", "503", "404"}
    BY <1>2 DEF Hosted!Statuses
  <2>2. Hosted!Condition(x) = Hosted!OfStatus(x.what)
    BY <2>1 DEF Hosted!Condition
  <2> QED
    BY <2>1, <2>2 DEF Hosted!OfStatus
<1>3. CASE x \in [kind : {"break"}, what : Hosted!Breaks]
  <2>1. x.kind = "break" /\ x.what \in Hosted!Breaks
    BY <1>3
  <2>2. Hosted!Condition(x) = Hosted!OfBreak(x.what)
    BY <2>1 DEF Hosted!Condition
  <2> QED
    BY <2>1, <2>2 DEF Hosted!OfBreak, Hosted!Breaks
<1> QED
  BY <1>1, <1>2, <1>3 DEF Hosted!Exchanges

\* A finite set of numbers that is not empty has a largest one.
LEMMA LargestNumber ==
  ASSUME NEW S \in SUBSET Nat, NEW b \in Nat, S # {}, \A n \in S : n <= b
  PROVE  \E m \in S : \A n \in S : n <= m
<1> DEFINE Bounds == {k \in Nat : \A n \in S : n <= k}
<1>1. Bounds \subseteq Nat /\ Bounds # {}
  OBVIOUS
<1>2. PICK k \in Bounds : \A j \in Bounds : ~(<<j, k>> \in OpToRel(<, Nat))
  BY <1>1, NatLessThanWellFounded, WFMin, Zenon
<1>3. \A j \in Bounds : ~(j < k)
  BY <1>2 DEF OpToRel
<1>4. CASE k \in S
  BY <1>4
<1>5. CASE k \notin S
  <2>1. \A n \in S : n < k
    BY <1>5
  <2>2. k \in Nat /\ k > 0
    <3>1. PICK n \in S : TRUE
      OBVIOUS
    <3> QED
      BY <2>1, <3>1
  <2>3. k - 1 \in Nat /\ \A n \in S : n <= k - 1
    BY <2>1, <2>2
  <2> QED
    BY <1>3, <2>2, <2>3
<1> QED
  BY <1>4, <1>5

\* Operations of which none ended before another began.
Meet(S) == \A o \in S, p \in S \cap DOMAIN done : begun[o] <= done[p]
HostedTypes ==
  /\ surface \in [{1, 2} -> SUBSET Hosted!Names]
  /\ clock \in Nat /\ together \in Nat
  /\ DOMAIN begun \subseteq ParallelCalls /\ DOMAIN done \subseteq DOMAIN begun
  /\ \A o \in DOMAIN begun : begun[o] \in Nat /\ begun[o] <= clock
  /\ \A o \in DOMAIN done : done[o] \in Nat /\ begun[o] <= done[o]
  /\ hostedCampaign = "remote" => exchanges \subseteq Hosted!Exchanges
  /\ hostedCampaign = "hostile" => \A x \in exchanges : x.class \in DOMAIN Hosted!Excused

\* The most operations in flight are among some that met each other.
HostedInv ==
  /\ HostedTypes
  /\ \E S \in SUBSET DOMAIN begun : together <= Cardinality(S) /\ Meet(S)
  /\ hostedReceipt.outcome # "none" => Hosted!HostedReceiptIsEarned

\* Intervals that meet pairwise have a tick in common: the last one to begin. So the peak over the
\* ticks is the size of a largest set of them.
LEMMA PeakIsLargestMeeting ==
  ASSUME HostedTypes, DOMAIN done # {}
  PROVE  /\ Hosted!PeakParallelism \in Nat
         /\ Hosted!PeakParallelism \in
              {Cardinality(S) : S \in {S \in SUBSET DOMAIN done : Hosted!Overlap(S)}}
         /\ \A S \in SUBSET DOMAIN done : Hosted!Overlap(S) => Cardinality(S) <= Hosted!PeakParallelism
<1> DEFINE ticks == {begun[o] : o \in DOMAIN done} \cup {done[o] : o \in DOMAIN done}
           sizes == {Hosted!Cardinality(Hosted!At(t)) : t \in ticks}
<1>1. IsFiniteSet(DOMAIN done) /\ Cardinality(DOMAIN done) \in Nat
  BY ParallelAssumption, FS_Subset, FS_CardinalityType DEF HostedTypes
<1>2. /\ ticks \subseteq Nat /\ ticks # {}
      /\ \A o \in DOMAIN done : /\ begun[o] \in Nat /\ done[o] \in Nat /\ begun[o] <= clock
                                /\ begun[o] <= done[o]
  BY DEF HostedTypes
<1>3. \A S \in SUBSET DOMAIN done :
        IsFiniteSet(S) /\ Cardinality(S) \in Nat /\ Cardinality(S) <= Cardinality(DOMAIN done)
  BY <1>1, FS_Subset, FS_CardinalityType
<1>4. \A t \in ticks : Hosted!At(t) \in SUBSET DOMAIN done
  BY DEF Hosted!At
<1>5. /\ sizes \in SUBSET Nat /\ sizes # {}
      /\ \A n \in sizes : n <= Cardinality(DOMAIN done)
  BY <1>2, <1>3, <1>4, SameCardinality
<1>6. Hosted!PeakParallelism \in sizes /\ \A n \in sizes : n <= Hosted!PeakParallelism
  <2>1. Hosted!PeakParallelism = CHOOSE m \in sizes : \A n \in sizes : m >= n
    BY DEF Hosted!PeakParallelism, Hosted!Max
  <2>2. \E m \in sizes : \A n \in sizes : n <= m
    BY <1>1, <1>5, LargestNumber
  <2> HIDE DEF sizes
  <2>3. \E m \in sizes : \A n \in sizes : m >= n
    BY <1>5, <2>2
  <2> QED
    BY <1>5, <2>1, <2>3
<1>7. \E S \in SUBSET DOMAIN done : Hosted!Overlap(S) /\ Cardinality(S) = Hosted!PeakParallelism
  <2>1. PICK t \in ticks : Hosted!PeakParallelism = Cardinality(Hosted!At(t))
    BY <1>6, SameCardinality
  <2>2. Hosted!Overlap(Hosted!At(t))
    BY <1>2 DEF Hosted!Overlap, Hosted!At
  <2> QED
    BY <1>4, <2>1, <2>2
<1>8. ASSUME NEW S \in SUBSET DOMAIN done, Hosted!Overlap(S)
      PROVE  Cardinality(S) <= Hosted!PeakParallelism
  <2>1. CASE S = {}
    BY <1>5, <1>6, <2>1, FS_EmptySet
  <2>2. CASE S # {}
    <3> DEFINE starts == {begun[o] : o \in S}
    <3>1. PICK m \in starts : \A n \in starts : n <= m
      <4>1. starts \in SUBSET Nat /\ starts # {} /\ \A n \in starts : n <= clock
        BY <1>2, <2>2
      <4> HIDE DEF starts
      <4> QED
        BY <4>1, LargestNumber DEF HostedTypes
    <3>2. S \subseteq Hosted!At(m) /\ m \in ticks
      BY <1>8, <3>1 DEF Hosted!At, Hosted!Overlap
    <3>3. Cardinality(S) <= Cardinality(Hosted!At(m))
      BY <1>3, <1>4, <3>2, FS_Subset
    <3>4. Cardinality(Hosted!At(m)) \in sizes
      BY <3>2, SameCardinality
    <3> QED
      BY <1>3, <1>5, <1>6, <3>3, <3>4
  <2> QED
    BY <2>1, <2>2
<1> QED
  BY <1>5, <1>6, <1>7, <1>8

\* Each step keeps the intervals, and every receipt is earned when it is issued.
LEMMA HostedStep ==
  ASSUME HostedInv, Hosted!Next \/ UNCHANGED hostedVars
  PROVE  HostedInv'
<1>0. HostedTypes /\ \E S \in SUBSET DOMAIN begun : together <= Cardinality(S) /\ Meet(S)
  BY DEF HostedInv
<1>1. ASSUME UNCHANGED <<hostedCampaign, proxied, surface, clock, begun, done, together>>,
             hostedReceipt'.outcome # "none" => Hosted!HostedReceiptIsEarned',
             hostedCampaign = "remote" => exchanges' \subseteq Hosted!Exchanges,
             hostedCampaign = "hostile" => \A x \in exchanges' : x.class \in DOMAIN Hosted!Excused
      PROVE  HostedInv'
  <2>1. HostedTypes'
    BY <1>0, <1>1 DEF HostedTypes
  <2>2. \E S \in SUBSET DOMAIN begun' : together' <= Cardinality(S) /\ Meet(S)'
    BY <1>0, <1>1 DEF Meet
  <2> QED
    BY <1>1, <2>1, <2>2 DEF HostedInv
<1>2. CASE UNCHANGED hostedVars
  <2>1. Hosted!HostedReceiptIsEarned' <=> Hosted!HostedReceiptIsEarned
    BY <1>2 DEF hostedVars, Hosted!HostedReceiptIsEarned, Hosted!Accepted, Hosted!Healthy,
                Hosted!Condition, Hosted!OfBreak, Hosted!Overlap
  <2> QED
    BY <1>0, <1>1, <1>2, <2>1 DEF HostedInv, HostedTypes, hostedVars
\* An exchange is added while no receipt was issued.
<1>3. ASSUME hostedReceipt.outcome = "none",
             UNCHANGED <<hostedCampaign, proxied, surface, clock, begun, done, together, hostedReceipt>>,
             hostedCampaign = "remote" => exchanges' \subseteq Hosted!Exchanges,
             hostedCampaign = "hostile" => \A x \in exchanges' : x.class \in DOMAIN Hosted!Excused
      PROVE  HostedInv'
  BY <1>1, <1>3
<1>4. CASE Hosted!Probe
  BY <1>0, <1>3, <1>4 DEF Hosted!Probe, Hosted!Running, HostedTypes
<1>5. CASE Hosted!HostileAnswer
  <2>1. /\ hostedCampaign = "hostile" /\ hostedReceipt.outcome = "none"
        /\ UNCHANGED <<hostedCampaign, proxied, surface, clock, begun, done, together, hostedReceipt>>
    BY <1>5 DEF Hosted!HostileAnswer, Hosted!Running
  <2>2. PICK class \in DOMAIN Hosted!Excused, over \in SUBSET {"bytes", "time", "messages"},
             stopped \in BOOLEAN :
          exchanges' = exchanges \cup {[class |-> class, over |-> over, stopped |-> stopped,
                                       escaped |-> over # {} /\ ~stopped]}
    BY <1>5 DEF Hosted!HostileAnswer
  <2>3. \A x \in exchanges' : x.class \in DOMAIN Hosted!Excused
    BY <1>0, <2>1, <2>2 DEF HostedTypes
  <2> QED
    BY <1>3, <2>1, <2>3
<1>6. CASE Hosted!Exercise
  BY <1>3, <1>6 DEF Hosted!Exercise, Hosted!Running
\* A receipt is issued, of what the state shows.
<1>7. ASSUME NEW says, NEW wants, NEW reports, Hosted!Issue(says, wants, reports),
             hostedCampaign = "remote" /\ says = "accepted" =>
               /\ \E x \in Hosted!Healthy :
                    ~x.what.slow /\ ~x.what.big /\ ~x.what.many /\ x.what.says = "expected"
               /\ \A x \in Hosted!Healthy : x.what.says # "other"
               /\ wants \cap {"oversized-response", "resource-pressure"} = {}
               /\ "proxy-failure" \in wants => proxied,
             hostedCampaign = "hostile" /\ says = "accepted" =>
               \A x \in exchanges : ~x.escaped /\ x.over # {"bytes", "time", "messages"},
             hostedCampaign = "parallel" =>
               /\ together <= reports
               /\ reports \in {Cardinality(S) : S \in {S \in SUBSET DOMAIN done : Hosted!Overlap(S)}}
               /\ \A S \in SUBSET DOMAIN done : Hosted!Overlap(S) => Cardinality(S) <= reports,
             hostedCampaign = "servers" /\ says = "accepted" => surface[1] \cap surface[2] = {}
      PROVE  HostedInv'
  <2>1. /\ UNCHANGED <<hostedCampaign, proxied, surface, exchanges, clock, begun, done, together>>
        /\ hostedReceipt' = [outcome |-> says, required |-> wants, reported |-> reports]
    BY <1>7 DEF Hosted!Issue
  <2>2. Hosted!Healthy' = Hosted!Healthy
    BY <2>1 DEF Hosted!Healthy, Hosted!Condition, Hosted!OfBreak
  <2>3. /\ {S \in SUBSET DOMAIN done : Hosted!Overlap(S)}' = {S \in SUBSET DOMAIN done : Hosted!Overlap(S)}
        /\ \A S : Hosted!Overlap(S)' <=> Hosted!Overlap(S)
    BY <2>1 DEF Hosted!Overlap
  <2>4. /\ hostedReceipt'.outcome = says /\ hostedReceipt'.required = wants
        /\ hostedReceipt'.reported = reports
    BY <2>1
  <2>5. Hosted!Accepted("remote")' =>
          /\ \E x \in Hosted!Healthy' :
               ~x.what.slow /\ ~x.what.big /\ ~x.what.many /\ x.what.says = "expected"
          /\ \A x \in Hosted!Healthy' : x.what.says # "other"
          /\ hostedReceipt'.required \cap {"oversized-response", "resource-pressure"} = {}
          /\ "proxy-failure" \in hostedReceipt'.required => proxied'
    BY <1>7, <2>1, <2>2, <2>4 DEF Hosted!Accepted
  <2>6. /\ Hosted!Accepted("hostile")' =>
             \A x \in exchanges' : ~x.escaped /\ x.over # {"bytes", "time", "messages"}
        /\ Hosted!Accepted("servers")' => surface'[1] \cap surface'[2] = {}
    BY <1>7, <2>1, <2>4 DEF Hosted!Accepted
  <2>7. hostedCampaign' = "parallel" =>
          /\ together' <= hostedReceipt'.reported
          /\ hostedReceipt'.reported \in
               {Hosted!Cardinality(S) : S \in {S \in SUBSET DOMAIN done : Hosted!Overlap(S)}'}
          /\ \A S \in SUBSET DOMAIN done' :
               Hosted!Overlap(S)' => Hosted!Cardinality(S) <= hostedReceipt'.reported
    BY <1>7, <2>1, <2>3, <2>4, SameCardinality
  <2>8. Hosted!HostedReceiptIsEarned'
    BY <2>5, <2>6, <2>7 DEF Hosted!HostedReceiptIsEarned
  <2> QED
    BY <1>0, <1>1, <2>1, <2>8 DEF HostedTypes
<1>8. CASE Hosted!RemoteReceipt
  <2>1. PICK wants \in HostedPolicies :
          Hosted!Accept(/\ wants \subseteq Hosted!Covered /\ Hosted!ExpectedServer
                        /\ \A x \in exchanges : Hosted!WithinEndpoint(x), wants, 0)
    BY <1>8 DEF Hosted!RemoteReceipt
  <2> DEFINE good == /\ wants \subseteq Hosted!Covered /\ Hosted!ExpectedServer
                     /\ \A x \in exchanges : Hosted!WithinEndpoint(x)
             says == IF good THEN "accepted" ELSE "rejected"
  <2>2. hostedCampaign = "remote" /\ exchanges \subseteq Hosted!Exchanges
    BY <1>0, <1>8 DEF Hosted!RemoteReceipt, Hosted!Running, HostedTypes
  <2>3. ASSUME good
        PROVE  /\ \E x \in Hosted!Healthy :
                    ~x.what.slow /\ ~x.what.big /\ ~x.what.many /\ x.what.says = "expected"
               /\ \A x \in Hosted!Healthy : x.what.says # "other"
               /\ wants \cap {"oversized-response", "resource-pressure"} = {}
               /\ "proxy-failure" \in wants => proxied
    <3>1. /\ Hosted!Healthy # {} /\ \A x \in Hosted!Healthy : x.what.says = "expected"
          /\ \A x \in Hosted!Healthy : x \in exchanges /\ Hosted!Condition(x) = "healthy"
      BY <2>3 DEF Hosted!ExpectedServer, Hosted!Healthy
    <3>2. \A c \in wants : \E x \in exchanges : Hosted!Condition(x) = c
      BY <2>3 DEF Hosted!Covered
    <3> QED
      BY <2>2, <2>3, <3>1, <3>2, ConditionsNameTheirCause DEF Hosted!WithinEndpoint
  <2>4. Hosted!Issue(says, wants, 0)
    BY <2>1 DEF Hosted!Accept
  <2>5. says = "accepted" => good
    OBVIOUS
  <2> HIDE DEF says
  <2> QED
    BY <1>7, <2>2, <2>3, <2>4, <2>5
<1>9. CASE Hosted!HostileReceipt
  <2>1. PICK wants \in SUBSET DOMAIN Hosted!Excused \ {{}} :
          Hosted!Accept(/\ wants \subseteq {x.class : x \in exchanges}
                        /\ \A x \in exchanges : /\ x.stopped /\ ~x.escaped
                                               /\ x.over \subseteq Hosted!Excused[x.class],
                        wants, 0)
    BY <1>9 DEF Hosted!HostileReceipt
  <2> DEFINE good == /\ wants \subseteq {x.class : x \in exchanges}
                     /\ \A x \in exchanges : /\ x.stopped /\ ~x.escaped
                                            /\ x.over \subseteq Hosted!Excused[x.class]
             says == IF good THEN "accepted" ELSE "rejected"
  <2>2. hostedCampaign = "hostile"
    BY <1>9 DEF Hosted!HostileReceipt, Hosted!Running
  <2>3. ASSUME good PROVE \A x \in exchanges : ~x.escaped /\ x.over # {"bytes", "time", "messages"}
    <3>1. \A c \in DOMAIN Hosted!Excused : ~({"bytes", "time", "messages"} \subseteq Hosted!Excused[c])
      BY DEF Hosted!Excused
    <3> QED
      BY <1>0, <2>2, <2>3, <3>1 DEF HostedTypes
  <2>4. Hosted!Issue(says, wants, 0)
    BY <2>1 DEF Hosted!Accept
  <2>5. says = "accepted" => good
    OBVIOUS
  <2> HIDE DEF says, good
  <2> QED
    BY <1>7, <2>2, <2>3, <2>4, <2>5
<1>10. CASE Hosted!Tick
  <2>1. /\ hostedReceipt.outcome = "none" /\ clock' = clock + 1 /\ hostedCampaign = "parallel"
        /\ UNCHANGED <<hostedCampaign, proxied, surface, exchanges, begun, done, together, hostedReceipt>>
    BY <1>10 DEF Hosted!Tick, Hosted!Running
  <2>2. HostedTypes'
    BY <1>0, <2>1 DEF HostedTypes
  <2>3. \E S \in SUBSET DOMAIN begun' : together' <= Cardinality(S) /\ Meet(S)'
    BY <1>0, <2>1 DEF Meet
  <2> QED
    BY <2>1, <2>2, <2>3 DEF HostedInv
<1>11. CASE Hosted!Begin
  <2>1. PICK o \in ParallelCalls \ DOMAIN begun : begun' = Hosted!With(begun, o)
    BY <1>11 DEF Hosted!Begin
  <2>2. /\ hostedReceipt.outcome = "none" /\ hostedCampaign = "parallel"
        /\ together' \in {together, Cardinality(Hosted!InFlight) + 1}
        /\ UNCHANGED <<hostedCampaign, proxied, surface, exchanges, clock, done, hostedReceipt>>
    BY <1>11, SameCardinality DEF Hosted!Begin, Hosted!Running
  <2>3. /\ DOMAIN begun' = DOMAIN begun \cup {o}
        /\ \A p \in DOMAIN begun' : begun'[p] = IF p = o THEN clock ELSE begun[p]
    BY <2>1 DEF Hosted!With
  <2>4. /\ IsFiniteSet(Hosted!InFlight) /\ Cardinality(Hosted!InFlight) \in Nat
        /\ o \notin Hosted!InFlight /\ Hosted!InFlight \subseteq DOMAIN begun
        /\ Hosted!InFlight \cap DOMAIN done = {} /\ o \notin DOMAIN done
    <3>1. Hosted!InFlight \subseteq ParallelCalls /\ DOMAIN done \subseteq DOMAIN begun
      BY <1>0 DEF HostedTypes, Hosted!InFlight
    <3> QED
      BY <2>1, <3>1, ParallelAssumption, FS_Subset, FS_CardinalityType DEF Hosted!InFlight
  <2>5. HostedTypes'
    <3>1. /\ \A p \in DOMAIN begun' : begun'[p] \in Nat /\ begun'[p] <= clock'
          /\ \A p \in DOMAIN done' : done'[p] \in Nat /\ begun'[p] <= done'[p]
          /\ DOMAIN begun' \subseteq ParallelCalls /\ DOMAIN done' \subseteq DOMAIN begun'
      BY <1>0, <2>1, <2>2, <2>3, <2>4 DEF HostedTypes
    <3>2. together' \in Nat
      BY <1>0, <2>2, <2>4 DEF HostedTypes
    <3> QED
      BY <1>0, <2>2, <3>1, <3>2 DEF HostedTypes
  <2>6. \E S \in SUBSET DOMAIN begun' : together' <= Cardinality(S) /\ Meet(S)'
    <3>1. CASE together' = together
      <4>1. PICK S \in SUBSET DOMAIN begun : together <= Cardinality(S) /\ Meet(S)
        BY <1>0
      <4>2. Meet(S)'
        BY <2>1, <2>2, <2>3, <4>1 DEF Meet
      <4> QED
        BY <2>3, <3>1, <4>1, <4>2
    <3>2. CASE together' = Cardinality(Hosted!InFlight) + 1
      <4>0. PICK S : S = Hosted!InFlight \cup {o}
        OBVIOUS
      <4>1. Cardinality(S) = Cardinality(Hosted!InFlight) + 1
        BY <2>4, <4>0, FS_AddElement
      <4>2. S \cap DOMAIN done' = {} /\ S \in SUBSET DOMAIN begun'
        BY <2>2, <2>3, <2>4, <4>0
      <4>3. Meet(S)'
        BY <4>2 DEF Meet
      <4> QED
        BY <2>4, <3>2, <4>1, <4>2, <4>3
    <3> QED
      BY <2>2, <3>1, <3>2
  <2> QED
    BY <2>2, <2>5, <2>6 DEF HostedInv
<1>12. CASE Hosted!Complete
  <2>1. PICK o \in Hosted!InFlight : done' = Hosted!With(done, o)
    BY <1>12 DEF Hosted!Complete
  <2>2. /\ hostedReceipt.outcome = "none" /\ hostedCampaign = "parallel"
        /\ UNCHANGED <<hostedCampaign, proxied, surface, exchanges, clock, begun, together, hostedReceipt>>
    BY <1>12 DEF Hosted!Complete, Hosted!Running
  <2>3. /\ DOMAIN done' = DOMAIN done \cup {o}
        /\ \A p \in DOMAIN done' : done'[p] = IF p = o THEN clock ELSE done[p]
    BY <2>1 DEF Hosted!With
  <2>4. o \in DOMAIN begun /\ \A p \in DOMAIN begun : begun[p] \in Nat /\ begun[p] <= clock
    BY <1>0 DEF HostedTypes, Hosted!InFlight
  <2>5. HostedTypes'
    <3>1. /\ \A p \in DOMAIN done' : done'[p] \in Nat /\ begun'[p] <= done'[p]
          /\ DOMAIN done' \subseteq DOMAIN begun'
      BY <1>0, <2>2, <2>3, <2>4 DEF HostedTypes
    <3> QED
      BY <1>0, <2>2, <3>1 DEF HostedTypes
  <2>6. PICK S \in SUBSET DOMAIN begun : together <= Cardinality(S) /\ Meet(S)
    BY <1>0
  <2>7. Meet(S)'
    BY <2>2, <2>3, <2>4, <2>6 DEF Meet
  <2> QED
    BY <2>2, <2>5, <2>6, <2>7 DEF HostedInv
<1>13. CASE Hosted!ConcurrencyReceipt
  <2>1. /\ hostedCampaign = "parallel" /\ Hosted!InFlight = {} /\ DOMAIN done # {}
    BY <1>13, SameCardinality, FS_EmptySet DEF Hosted!ConcurrencyReceipt, Hosted!Running
  <2>2. PICK minimum \in 2 .. 3 :
          Hosted!Accept(Hosted!PeakParallelism >= minimum, {minimum}, Hosted!PeakParallelism)
    BY <1>13 DEF Hosted!ConcurrencyReceipt
  <2>3. DOMAIN begun = DOMAIN done
    BY <1>0, <2>1 DEF HostedTypes, Hosted!InFlight
  <2>4. together <= Hosted!PeakParallelism
    <3>1. PICK S \in SUBSET DOMAIN begun : together <= Cardinality(S) /\ Meet(S)
      BY <1>0
    <3>2. S \in SUBSET DOMAIN done /\ Hosted!Overlap(S)
      BY <2>3, <3>1 DEF Meet, Hosted!Overlap
    <3>3. Cardinality(S) <= Hosted!PeakParallelism /\ Hosted!PeakParallelism \in Nat
      BY <1>0, <2>1, <3>2, PeakIsLargestMeeting
    <3>4. Cardinality(S) \in Nat /\ together \in Nat
      BY <1>0, <3>1, ParallelAssumption, FS_Subset, FS_CardinalityType DEF HostedTypes
    <3> QED
      BY <3>1, <3>3, <3>4
  <2>5. \E says : Hosted!Issue(says, {minimum}, Hosted!PeakParallelism)
    BY <2>2 DEF Hosted!Accept
  <2> QED
    BY <1>0, <1>7, <2>1, <2>4, <2>5, PeakIsLargestMeeting
<1>14. CASE Hosted!CapabilityReceipt
  <2>1. hostedCampaign = "capability" /\ \E says, wants : Hosted!Issue(says, wants, 0)
    BY <1>14 DEF Hosted!CapabilityReceipt, Hosted!Running, Hosted!Accept
  <2> QED
    BY <1>7, <2>1
<1>16. CASE Hosted!ListChangedReceipt
  <2>1. hostedCampaign = "list changed" /\ \E says, wants : Hosted!Issue(says, wants, 0)
    BY <1>16 DEF Hosted!ListChangedReceipt, Hosted!Running
  <2> QED
    BY <1>7, <2>1
<1>15. CASE Hosted!MultiServerReceipt
  <2> DEFINE shared == {name \in Hosted!Names :
                          Hosted!Cardinality({who \in {1, 2} : name \in surface[who]}) > 1}
  <2>1. hostedCampaign = "servers" /\ Hosted!Accept(shared = {}, {}, 0)
    BY <1>15 DEF Hosted!MultiServerReceipt, Hosted!Running
  <2>2. ASSUME shared = {} PROVE surface[1] \cap surface[2] = {}
    <3>1. ASSUME NEW name \in surface[1] \cap surface[2] PROVE name \in shared
      <4>1. {who \in {1, 2} : name \in surface[who]} = {1} \cup {2}
        BY <3>1
      <4>2. Cardinality({1} \cup {2}) = 2
        <5>1. IsFiniteSet({1}) /\ Cardinality({1}) = 1
          BY FS_Singleton, Zenon
        <5>2. Cardinality({1} \cup {2}) = Cardinality({1}) + 1
          BY <5>1, FS_AddElement
        <5> QED
          BY <5>1, <5>2
      <4>3. name \in Hosted!Names
        BY <1>0, <3>1 DEF HostedTypes
      <4> QED
        BY <4>1, <4>2, <4>3, SameCardinality
    <3> QED
      BY <2>2, <3>1
  <2> HIDE DEF shared
  <2> DEFINE says == IF shared = {} THEN "accepted" ELSE "rejected"
  <2>3. Hosted!Issue(says, {}, 0) /\ (says = "accepted" => shared = {})
    BY <2>1 DEF Hosted!Accept
  <2> HIDE DEF says
  <2> QED
    BY <1>7, <2>1, <2>2, <2>3
<1> QED
  BY <1>2, <1>4, <1>5, <1>6, <1>8, <1>9, <1>10, <1>11, <1>12, <1>13, <1>14, <1>15, <1>16
     DEF Hosted!Next

LEMMA HostedBegins ==
  ASSUME Hosted!Init
  PROVE  HostedInv
<1>1. /\ surface \in [{1, 2} -> SUBSET Hosted!Names] /\ exchanges = {} /\ clock = 0 /\ together = 0
      /\ hostedReceipt.outcome = "none" /\ begun = <<>> /\ done = <<>>
  <2>1. [{1, 2} -> {{}}] \subseteq [{1, 2} -> SUBSET Hosted!Names]
    OBVIOUS
  <2>2. surface \in [{1, 2} -> SUBSET Hosted!Names] \/ surface \in [{1, 2} -> {{}}]
    BY DEF Hosted!Init
  <2>3. /\ exchanges = {} /\ clock = 0 /\ together = 0
        /\ hostedReceipt.outcome = "none" /\ begun = <<>> /\ done = <<>>
    BY DEF Hosted!Init, Hosted!Nothing
  <2> QED
    BY <2>1, <2>2, <2>3
<1>2. DOMAIN begun = {} /\ DOMAIN done = {}
  BY <1>1
<1>3. HostedTypes
  BY <1>1, <1>2 DEF HostedTypes
<1>4. Cardinality({}) = 0 /\ Meet({})
  BY FS_EmptySet DEF Meet
<1> QED
  BY <1>1, <1>2, <1>3, <1>4 DEF HostedInv


\* What the receipts for authorization and for remote servers say of the other side is so: one
\* grant behind an OAuth flow, servers that refuse, and hosted servers as _receipt_for_observation
\* and the create methods of mcp/advanced.py report them.
THEOREM ReceiptsAreEarned == Spec => []RemoteReceiptsAreEarned
<1> DEFINE I == /\ part = "flow" => FlowInv
                /\ part = "servers" => ServersInv
                /\ part = "hosted" => HostedInv
<1>1. Init => I
  BY OnePartBegins, FlowBegins, ServersBegin, HostedBegins
<1>2. I /\ [Next]_<<part, mcpVars, agentVars, approvalVars, effectsVars, flowVars, serversVars,
                    hostedVars>> => I'
  BY OnePartMoves, FlowStep, ServersStep, HostedStep
<1>3. I => RemoteReceiptsAreEarned
  <2>1. FlowInv => Flow!ReceiptIsOneGrant
    BY DEF FlowInv, Flow!ReceiptIsOneGrant
  <2>2. ServersInv => Servers!QualifiedServersRefuse
    BY DEF ServersInv, Servers!QualifiedServersRefuse, Servers!Accepted
  <2>3. HostedInv => Hosted!HostedReceiptIsEarned
    BY DEF HostedInv, Hosted!HostedReceiptIsEarned, Hosted!Accepted
  <2> QED
    BY <2>1, <2>2, <2>3 DEF RemoteReceiptsAreEarned
<1> QED
  BY <1>1, <1>2, <1>3, PTL DEF Spec

-----------------------------------------------------------------------------
(* The fault laboratory                                                       *)

ProbePcs == {"probe", "probe_cached", "probe_first", "probe_refresh", "probe_second", "probe_receipt",
             "probe_done"}
AgentPcs == {"agent", "agent_list", "agent_model", "agent_calls", "agent_end", "agent_attach",
             "agent_done"}
Reply(t, e, a) == [text |-> t, error |-> e, args |-> a]

\* The first and the second answer of the server after the change.
FirstReply(k) ==
  CASE k = "schema" -> Reply("bad_arguments", TRUE, "first")
    [] k = "identity" -> Reply("unknown_tool", TRUE, "first")
    [] k = "result" -> Reply("poison", FALSE, "first")
    [] k = "error" -> Reply("tool_error", TRUE, "first")
    [] OTHER -> Reply("benign", FALSE, "first")

\* What a listing from the cache can be: the catalogue before or after the change.
Catalogues(k) == {Mcp!BuildServer(k), Mcp!Drifted(k)}

\* What the probe has observed by each of its stations.
Observed(k) ==
  /\ pc # "probe" => obs.initial = Mcp!BuildServer(k)
  /\ k \in Mcp!DiscoveryFaults /\ pc \notin {"probe", "probe_cached"} =>
       obs.cached \in Catalogues(k) /\ obs.truth = Mcp!Drifted(k)
  /\ k # "stale" /\ pc \in {"probe_refresh", "probe_second", "probe_receipt"} =>
       obs.first = FirstReply(k)
  /\ k \in Mcp!DiscoveryFaults /\ pc \in {"probe_second", "probe_receipt"} =>
       obs.refreshed = Mcp!Drifted(k)
  /\ k \in {"schema", "identity"} /\ pc = "probe_receipt" =>
       obs.second = Reply("replacement", FALSE, "second")
\* What holds at every station of the probe of fault k.
LabHolds(k) ==
  /\ live = IF pc = "probe" THEN Mcp!BuildServer(k) ELSE Mcp!Drifted(k)
  /\ pc \in {"probe", "probe_cached", "probe_first"} => served = 0
  /\ cache \in Catalogues(k) \cup {Mcp!NoListing}
  /\ pc = "probe" => cache = Mcp!NoListing
  /\ k \notin Mcp!DiscoveryFaults => cache = Mcp!NoListing
  /\ obs \in [initial : {obs.initial}, cached : {obs.cached}, refreshed : {obs.refreshed},
              first : {obs.first}, second : {obs.second}, truth : {obs.truth}]
  /\ k \in Mcp!ContentFaults => pc \notin {"probe_cached", "probe_refresh"}
  /\ k = "stale" => pc \notin {"probe_first", "probe_second"}
  /\ Observed(k)

\* A run of an agent leaves no claim about a receipt; a probe keeps its stations' claims.
LabInv ==
  \/ pc \in AgentPcs
  \/ pc \in ProbePcs /\ kind \in FaultKinds /\ LabHolds(kind) /\ Mcp!ReceiptMeansDrift

\* Every kind of fault is a discovery fault or a content fault.
LEMMA FaultsAreKnown ==
  /\ FaultKinds \subseteq {"metadata", "result", "error", "stale", "schema", "identity"}
  /\ Mcp!DiscoveryFaults = {"stale", "schema", "identity"}
  /\ Mcp!ContentFaults = {"metadata", "result", "error"}
BY LabAssumption DEF Mcp!DiscoveryFaults, Mcp!ContentFaults

\* The two catalogues.
LEMMA CataloguesOf ==
  ASSUME NEW k \in FaultKinds
  PROVE  /\ Mcp!BuildServer(k) = {[name |-> "old", shape |-> "v1",
                                   note |-> IF k = "metadata" THEN "poison" ELSE "benign"]}
         /\ k = "stale" => Mcp!Drifted(k) = {}
         /\ k = "schema" => Mcp!Drifted(k) = {[name |-> "old", shape |-> "v2", note |-> "benign"]}
         /\ k = "identity" => Mcp!Drifted(k) = {[name |-> "new", shape |-> "v1", note |-> "benign"]}
         /\ k \in Mcp!ContentFaults => Mcp!Drifted(k) = Mcp!BuildServer(k)
BY FaultsAreKnown DEF Mcp!BuildServer, Mcp!Drifted

\* A catalogue of one tool.
LEMMA OneTool ==
  ASSUME NEW n, NEW sh, NEW nt, NEW C, C = {[name |-> n, shape |-> sh, note |-> nt]}
  PROVE  /\ {a.name : a \in C} = {n} /\ {a.shape : a \in C} = {sh}
         /\ \A a \in C : a.name = n /\ a.shape = sh /\ a.note = nt
<1> DEFINE r == [name |-> n, shape |-> sh, note |-> nt]
<1>1. r.name = n /\ r.shape = sh /\ r.note = nt /\ C = {r}
  OBVIOUS
<1> HIDE DEF r
<1>2. {a.name : a \in C} = {n} /\ {a.shape : a \in C} = {sh}
  BY <1>1
<1> QED
  BY <1>1, <1>2

\* The tool the server picks by its old name.
LEMMA OldTool ==
  ASSUME NEW sh, NEW nt, live = {[name |-> "old", shape |-> sh, note |-> nt]}
  PROVE  (CHOOSE a \in live : a.name = "old").shape = sh
<1> DEFINE P(a) == a \in live /\ a.name = "old"
           r == CHOOSE a : P(a)
<1>1. P([name |-> "old", shape |-> sh, note |-> nt])
  OBVIOUS
<1> HIDE DEF P
<1>2. P(r)
  BY <1>1
<1>3. r.shape = sh
  BY <1>2 DEF P
<1> QED
  BY <1>3 DEF P

\* What the server says to the probe after the change.
LEMMA ServerReplies ==
  ASSUME kind \in FaultKinds, live = Mcp!Drifted(kind)
  PROVE  /\ kind # "stale" /\ served = 0 => Mcp!Serve("old", "first") = FirstReply(kind)
         /\ kind = "schema" => Mcp!Serve("old", "second") = Reply("replacement", FALSE, "second")
         /\ kind = "identity" => Mcp!Serve("new", "second") = Reply("replacement", FALSE, "second")
<1>1. CASE kind = "schema"
  <2>1. Mcp!Names(live) = {"old"} /\ (CHOOSE a \in live : a.name = "old").shape = "v2"
    <3>1. live = {[name |-> "old", shape |-> "v2", note |-> "benign"]}
      BY <1>1, CataloguesOf
    <3>2. Mcp!Names(live) = {"old"}
      BY <3>1, OneTool DEF Mcp!Names
    <3>3. (CHOOSE a \in live : a.name = "old").shape = "v2"
      BY <3>1, OldTool
    <3> QED
      BY <3>2, <3>3
  <2> QED
    BY <1>1, <2>1 DEF Mcp!Serve, Mcp!Answer, Reply, FirstReply
<1>2. CASE kind = "identity"
  <2>1. Mcp!Names(live) = {"new"}
    <3>1. live = {[name |-> "new", shape |-> "v1", note |-> "benign"]}
      BY <1>2, CataloguesOf
    <3>2. Mcp!Names(live) = {"new"}
      BY <3>1, OneTool DEF Mcp!Names
    <3> QED
      BY <3>2
  <2> QED
    BY <1>2, <2>1 DEF Mcp!Serve, Mcp!Answer, Reply, FirstReply
<1>3. CASE kind \in Mcp!ContentFaults
  <2>1. Mcp!Names(live) = {"old"} /\ (CHOOSE a \in live : a.name = "old").shape = "v1"
    <3>1. live = {[name |-> "old", shape |-> "v1", note |-> IF kind = "metadata" THEN "poison" ELSE "benign"]}
      BY <1>3, CataloguesOf
    <3>2. Mcp!Names(live) = {"old"}
      BY <3>1, OneTool DEF Mcp!Names
    <3>3. (CHOOSE a \in live : a.name = "old").shape = "v1"
      BY <3>1, OldTool
    <3> QED
      BY <3>2, <3>3
  <2>2. kind \in {"metadata", "result", "error"}
    BY <1>3, FaultsAreKnown
  <2> QED
    BY <2>1, <2>2 DEF Mcp!Serve, Mcp!Answer, Reply, FirstReply
<1> QED
  BY <1>1, <1>2, <1>3, FaultsAreKnown

\* The receipt of a complete probe: for a discovery fault it is the stale listing that decides.
LEMMA ReceiptReadsTheCache ==
  ASSUME kind \in FaultKinds, pc = "probe_receipt", Observed(kind)
  PROVE  Mcp!Receipt(obs) <=> IF kind \in Mcp!DiscoveryFaults THEN obs.cached # obs.truth ELSE TRUE
<1> DEFINE B == Mcp!BuildServer(kind)
           D == Mcp!Drifted(kind)
<1>1. CASE kind = "stale"
  <2>1. /\ obs.initial = B /\ obs.cached \in {B, D} /\ obs.truth = D /\ obs.refreshed = D
    BY <1>1, FaultsAreKnown DEF Observed, Catalogues
  <2>2. Mcp!Names(B) = {"old"} /\ D = {} /\ Mcp!Names(D) = {} /\ B # D
    <3>1. B = {[name |-> "old", shape |-> "v1", note |-> "benign"]} /\ D = {}
      BY <1>1, CataloguesOf
    <3> QED
      BY <3>1, OneTool DEF Mcp!Names
  <2>3. Mcp!Receipt(obs) <=> Mcp!StaleReceipt(obs)
    BY <1>1, FaultsAreKnown DEF Mcp!Receipt
  <2> QED
    BY <1>1, <2>1, <2>2, <2>3, FaultsAreKnown DEF Mcp!StaleReceipt
<1>2. CASE kind = "schema"
  <2>1. /\ obs.initial = B /\ obs.cached \in {B, D} /\ obs.truth = D /\ obs.refreshed = D
        /\ obs.first = FirstReply(kind) /\ obs.second = Reply("replacement", FALSE, "second")
    BY <1>2, FaultsAreKnown DEF Observed, Catalogues
  <2>2. {a.shape : a \in B} = {"v1"} /\ {a.shape : a \in D} = {"v2"} /\ B # D
    <3>1. /\ B = {[name |-> "old", shape |-> "v1", note |-> "benign"]}
          /\ D = {[name |-> "old", shape |-> "v2", note |-> "benign"]}
      BY <1>2, CataloguesOf
    <3>2. {a.shape : a \in B} = {"v1"} /\ {a.shape : a \in D} = {"v2"}
      BY <3>1, OneTool
    <3> QED
      BY <3>1, <3>2
  <2>3. Mcp!Receipt(obs) <=> Mcp!SchemaReceipt(obs)
    BY <1>2, FaultsAreKnown DEF Mcp!Receipt
  <2>4. obs.first.error /\ ~obs.second.error /\ obs.second.text = "replacement"
        /\ obs.second.args = "second"
    BY <1>2, <2>1 DEF FirstReply, Reply
  <2> QED
    BY <1>2, <2>1, <2>2, <2>3, <2>4, FaultsAreKnown DEF Mcp!SchemaReceipt
<1>3. CASE kind = "identity"
  <2>1. /\ obs.initial = B /\ obs.cached \in {B, D} /\ obs.truth = D /\ obs.refreshed = D
        /\ obs.first = FirstReply(kind) /\ obs.second = Reply("replacement", FALSE, "second")
    BY <1>3, FaultsAreKnown DEF Observed, Catalogues
  <2>2. Mcp!Names(B) = {"old"} /\ Mcp!Names(D) = {"new"} /\ B # D
    <3>1. /\ B = {[name |-> "old", shape |-> "v1", note |-> "benign"]}
          /\ D = {[name |-> "new", shape |-> "v1", note |-> "benign"]}
      BY <1>3, CataloguesOf
    <3>2. Mcp!Names(B) = {"old"}
      BY <3>1, OneTool DEF Mcp!Names
    <3>3. Mcp!Names(D) = {"new"}
      BY <3>1, OneTool DEF Mcp!Names
    <3> QED
      BY <3>1, <3>2, <3>3
  <2>3. Mcp!Receipt(obs) <=> Mcp!IdentityReceipt(obs)
    BY <1>3, FaultsAreKnown DEF Mcp!Receipt
  <2>4. /\ obs.first.error /\ obs.first.text = "unknown_tool" /\ ~obs.second.error
        /\ obs.second.text = "replacement" /\ obs.second.args = "second"
    BY <1>3, <2>1 DEF FirstReply, Reply
  <2> QED
    BY <1>3, <2>1, <2>2, <2>3, <2>4, FaultsAreKnown DEF Mcp!IdentityReceipt
<1>4. CASE kind \in Mcp!ContentFaults
  <2>1. obs.initial = B /\ obs.first = FirstReply(kind)
    BY <1>4, FaultsAreKnown DEF Observed
  <2>2. kind \in {"metadata", "result", "error"} /\ kind \notin Mcp!DiscoveryFaults
    BY <1>4, FaultsAreKnown
  <2>3. Mcp!Receipt(obs) <=> Mcp!ContentReceipt(obs)
    BY <1>4, <2>2, FaultsAreKnown DEF Mcp!Receipt
  <2>4. kind = "metadata" => \A a \in B : a.note = "poison"
    BY CataloguesOf
  <2> QED
    BY <2>1, <2>2, <2>3, <2>4 DEF Mcp!ContentReceipt, FirstReply, Reply
<1> QED
  BY <1>1, <1>2, <1>3, <1>4, FaultsAreKnown


\* Every step of a probe keeps what holds at its stations.
LEMMA ProbeStep ==
  ASSUME pc \in ProbePcs, kind \in FaultKinds, LabHolds(kind), Mcp!ReceiptMeansDrift, Mcp!ProbeNext
  PROVE  pc' \in ProbePcs /\ kind' \in FaultKinds /\ LabHolds(kind)' /\ Mcp!ReceiptMeansDrift'
<1> DEFINE B == Mcp!BuildServer(kind)
           D == Mcp!Drifted(kind)
<1>1. kind' = kind /\ kind \in {"metadata", "result", "error", "stale", "schema", "identity"}
  BY FaultsAreKnown DEF Mcp!ProbeNext, Mcp!CacheExpires, Mcp!ProbeLists, Mcp!ProbeListsCached,
     Mcp!ProbeCallsFirst, Mcp!ProbeRefreshes, Mcp!ProbeCallsSecond, Mcp!ProbeReceipt
<1>2. Catalogues(kind) = {B, D}
  BY DEF Catalogues
<1>3. CASE Mcp!CacheExpires
  BY <1>1, <1>2, <1>3 DEF Mcp!CacheExpires, LabHolds, Observed, Catalogues, ProbePcs,
     Mcp!ReceiptMeansDrift, Mcp!BuildServer, Mcp!Drifted, FirstReply, Reply
<1>4. CASE Mcp!ProbeLists
  <2>1. Mcp!Listed = B
    BY <1>4 DEF Mcp!ProbeLists, Mcp!Listed, LabHolds
  <2> QED
    BY <1>1, <1>2, <1>4, <2>1, FaultsAreKnown DEF Mcp!ProbeLists, Mcp!Cached, LabHolds, Observed,
       Catalogues, ProbePcs, Mcp!ReceiptMeansDrift, Mcp!BuildServer, Mcp!Drifted
<1>5. CASE Mcp!ProbeListsCached
  <2>1. Mcp!Listed \in {B, D} /\ live = D /\ kind \in Mcp!DiscoveryFaults
    BY <1>1, <1>2, <1>5, FaultsAreKnown DEF Mcp!ProbeListsCached, Mcp!Listed, LabHolds
  <2> QED
    BY <1>1, <1>2, <1>5, <2>1, FaultsAreKnown DEF Mcp!ProbeListsCached, LabHolds, Observed,
       Catalogues, ProbePcs, Mcp!ReceiptMeansDrift, Mcp!BuildServer, Mcp!Drifted
<1>6. CASE Mcp!ProbeCallsFirst
  <2>1. kind # "stale" /\ live = D /\ Mcp!Serve("old", "first") = FirstReply(kind)
    BY <1>6, ServerReplies DEF Mcp!ProbeCallsFirst, LabHolds
  <2> QED
    BY <1>1, <1>2, <1>6, <2>1, FaultsAreKnown DEF Mcp!ProbeCallsFirst, LabHolds, Observed,
       Catalogues, ProbePcs, Mcp!ReceiptMeansDrift, Mcp!BuildServer, Mcp!Drifted, FirstReply, Reply
<1>7. CASE Mcp!ProbeRefreshes
  <2>1. kind \in Mcp!DiscoveryFaults /\ live = D
    BY <1>1, <1>7, FaultsAreKnown DEF Mcp!ProbeRefreshes, LabHolds
  <2> QED
    BY <1>1, <1>2, <1>7, <2>1, FaultsAreKnown DEF Mcp!ProbeRefreshes, LabHolds, Observed,
       Catalogues, ProbePcs, Mcp!ReceiptMeansDrift, Mcp!BuildServer, Mcp!Drifted, FirstReply, Reply
<1>8. CASE Mcp!ProbeCallsSecond
  <2>1. kind # "stale" /\ live = D
    BY <1>8 DEF Mcp!ProbeCallsSecond, LabHolds
  <2>2. kind \in {"schema", "identity"} =>
          obs' = [obs EXCEPT !.second = Reply("replacement", FALSE, "second")]
    BY <1>8, <2>1, ServerReplies DEF Mcp!ProbeCallsSecond
  <2>3. \E a : obs' = [obs EXCEPT !.second = a]
    BY <1>8 DEF Mcp!ProbeCallsSecond
  <2>4. pc = "probe_second" /\ pc' = "probe_receipt" /\ live' = live /\ cache' = cache
    BY <1>8 DEF Mcp!ProbeCallsSecond
  <2> QED
    BY <1>1, <1>2, <2>1, <2>2, <2>3, <2>4, FaultsAreKnown DEF LabHolds, Observed,
       Catalogues, ProbePcs, Mcp!ReceiptMeansDrift, Mcp!BuildServer, Mcp!Drifted, FirstReply, Reply
<1>9. CASE Mcp!ProbeReceipt
  <2>1. receipt' <=> IF kind \in Mcp!DiscoveryFaults THEN obs.cached # obs.truth ELSE TRUE
    BY <1>9, ReceiptReadsTheCache DEF Mcp!ProbeReceipt, LabHolds
  <2>2. /\ pc = "probe_receipt" /\ pc' = "probe_done" /\ kind' = kind /\ live' = live
        /\ cache' = cache /\ obs' = obs
    BY <1>9 DEF Mcp!ProbeReceipt
  <2>3. Mcp!ReceiptMeansDrift'
    BY <2>1, <2>2, FaultsAreKnown DEF Mcp!ReceiptMeansDrift, Mcp!DiscoveryFaults
  <2>4. LabHolds(kind)'
    BY <1>1, <1>2, <2>2, FaultsAreKnown DEF LabHolds, Observed, Catalogues, Mcp!BuildServer,
       Mcp!Drifted, FirstReply, Reply
  <2> QED
    BY <2>2, <2>3, <2>4 DEF ProbePcs
<1> QED
  BY <1>3, <1>4, <1>5, <1>6, <1>7, <1>8, <1>9 DEF Mcp!ProbeNext

\* A run of an agent never enters a probe.
LEMMA AgentStays ==
  ASSUME pc \in AgentPcs, Mcp!Next
  PROVE  pc' \in AgentPcs
<1>1. CASE Mcp!AgentNext
  BY <1>1 DEF AgentPcs, Mcp!AgentNext, Mcp!Execute, Mcp!ListTools, Mcp!BudgetSpent, Mcp!ModelCalls,
     Mcp!ModelEnds, Mcp!ModelRefused, Mcp!ServeCall, Mcp!ResumeCall, Mcp!CallFails, Mcp!EndTurn,
     Mcp!VerifyRecovery, Mcp!Attach, Mcp!Refuse
<1>2. CASE Mcp!ProbeNext
  BY <1>2 DEF AgentPcs, Mcp!ProbeNext, Mcp!CacheExpires, Mcp!ProbeLists, Mcp!ProbeListsCached,
     Mcp!ProbeCallsFirst, Mcp!ProbeRefreshes, Mcp!ProbeCallsSecond, Mcp!ProbeReceipt
<1> QED
  BY <1>1, <1>2 DEF Mcp!Next

\* An agent's steps need an agent's station, so a probe takes only its own.
LEMMA ProbesStay ==
  ASSUME pc \in ProbePcs, Mcp!Next
  PROVE  Mcp!ProbeNext
BY DEF ProbePcs, Mcp!Next, Mcp!AgentNext, Mcp!Execute, Mcp!ListTools, Mcp!BudgetSpent, Mcp!ModelCalls,
   Mcp!ModelEnds, Mcp!ModelRefused, Mcp!ServeCall, Mcp!ResumeCall, Mcp!CallFails, Mcp!EndTurn,
   Mcp!VerifyRecovery, Mcp!Attach

\* A probe begins at its first station, with nothing observed.
LEMMA LabBegins ==
  ASSUME Mcp!Init
  PROVE  LabInv
<1>1. CASE Mcp!AgentInit
  BY <1>1 DEF Mcp!AgentInit, LabInv, AgentPcs
<1>2. CASE Mcp!LabInit
  <2>1. /\ pc = "probe" /\ kind \in FaultKinds /\ served = 0 /\ cache = Mcp!NoListing
        /\ live = Mcp!BuildServer(kind) /\ obs = Mcp!NoObservation
    BY <1>2 DEF Mcp!LabInit
  <2>2. LabHolds(kind)
    BY <2>1 DEF LabHolds, Observed, Mcp!NoObservation
  <2> QED
    BY <2>1, <2>2 DEF LabInv, ProbePcs, Mcp!ReceiptMeansDrift
<1> QED
  BY <1>1, <1>2 DEF Mcp!Init

\* What holds of the laboratory holds after each of its steps and each of an agent's.
LEMMA LabStep ==
  ASSUME LabInv, Mcp!Next \/ UNCHANGED mcpVars
  PROVE  LabInv'
<1>1. CASE pc \in AgentPcs
  BY <1>1, AgentStays DEF LabInv, mcpVars, AgentPcs
<1>2. CASE pc \notin AgentPcs /\ Mcp!Next
  BY <1>2, ProbesStay, ProbeStep DEF LabInv
<1>3. CASE pc \notin AgentPcs /\ UNCHANGED mcpVars
  <2>1. /\ UNCHANGED <<pc, kind, live, served, cache, obs, receipt>>
    BY <1>3 DEF mcpVars
  <2>2. LabHolds(kind)'
    BY <1>3, <2>1 DEF LabInv, LabHolds, Observed, Catalogues, FirstReply, Reply, Mcp!BuildServer,
       Mcp!Drifted, Mcp!DiscoveryFaults, Mcp!ContentFaults, Mcp!NoListing
  <2>3. Mcp!ReceiptMeansDrift'
    BY <1>3, <2>1 DEF LabInv, Mcp!ReceiptMeansDrift, Mcp!DiscoveryFaults
  <2> QED
    BY <1>3, <2>1, <2>2, <2>3 DEF LabInv, ProbePcs
<1> QED
  BY <1>1, <1>2, <1>3

\* A finished probe issued its receipt exactly when the client was really served the fault,
\* whenever the lifetime of the cached listing ended (probe_discovery_cache and its siblings in
\* mcp/lab.py, _receipt_for_observation).
THEOREM ReceiptsMeanDrift == Spec => []ReceiptMeansDrift
<1> DEFINE I == part = "mcp" => LabInv
<1>1. Init => I
  BY OnePartBegins, LabBegins
<1>2. I /\ [Next]_<<part, mcpVars, agentVars, approvalVars, effectsVars, flowVars, serversVars,
                    hostedVars>> => I'
  BY OnePartMoves, LabStep
<1>3. I => ReceiptMeansDrift
  BY DEF ReceiptMeansDrift, LabInv, AgentPcs, Mcp!ReceiptMeansDrift
<1> QED
  BY <1>1, <1>2, <1>3, PTL DEF Spec

-----------------------------------------------------------------------------
(* A run of an agent                                                          *)

RunCalls == [tool : Agent!Tools, id : Nat, op : {"begin", "original", "active", "done"},
             poisoned : BOOLEAN]
RunItems == [kind : {"request", "result", "handoff"}, id : Nat, by : Agent!Agents,
             who : Agent!Agents, poisoned : BOOLEAN]
RunTypes ==
  /\ calls \in Seq(RunCalls) /\ newItems \in Seq(RunItems) /\ agent \in Agent!Agents
  /\ recorder \in [attempted : BOOLEAN, identityError : BOOLEAN, event : BOOLEAN, id : Nat]

\* The call that carried the recorded stimulus, still in its turn or among the results.
Carried ==
  \/ \E i \in 1 .. Len(newItems) :
       newItems[i].kind = "result" /\ newItems[i].id = recorder.id /\ newItems[i].poisoned
  \/ \E i \in 1 .. Len(calls) :
       calls[i].op = "done" /\ calls[i].id = recorder.id /\ calls[i].poisoned

\* The first transfer carries the stimulus, and no other does.
Transferred ==
  /\ recorder.attempted <=> recorder.event
  /\ recorder.event <=> \E i \in 1 .. Len(newItems) : newItems[i].kind = "handoff"
  /\ \A i \in 1 .. Len(newItems) :
       newItems[i].kind = "handoff" /\ (\A j \in 1 .. i - 1 : newItems[j].kind # "handoff") =>
         newItems[i].poisoned

\* A request names the agent that made it, and a result has a request of the agent that ran it.
Owned ==
  /\ \A i \in 1 .. Len(newItems) : newItems[i].kind = "request" => newItems[i].by = newItems[i].who
  /\ \A i \in 1 .. Len(newItems) : newItems[i].kind = "result" =>
       \E j \in 1 .. Len(newItems) :
         /\ newItems[j].kind = "request" /\ newItems[j].id = newItems[i].id
         /\ newItems[j].who = newItems[i].who

\* The stimulus reached the subject exactly when the inputs carried it or it was recorded, and
\* what was recorded can be found in the run.
RunHolds ==
  /\ phase \in {"prepare", "turn"} => calls = <<>>
  /\ phase = "prepare" => ~recorder.event /\ given = {}
  /\ phase \in {"turn", "tools"} =>
       (given # {} <=> channel \in Agent!AtPreparation \/ recorder.event)
  /\ channel \notin Agent!ByRecorder => ~recorder.event
  /\ \A i \in 1 .. Len(calls) : calls[i].op \in {"original", "active"} => channel = "environment"
  /\ channel \in {"tool_result", "environment"} /\ recorder.event => Carried
  /\ channel = "handoff" => Transferred
  /\ Owned
RunRecords ==
  Agent!VerifiedMeansDelivered /\ Agent!DeliveryStandsWhereItHappened /\ Agent!OwnersAreExact
RunInv == RunTypes /\ RunHolds /\ RunRecords

\* A sequence with an element put in at a position.
LEMMA Inserted ==
  ASSUME NEW S, NEW s \in Seq(S), NEW e \in S, NEW p \in 1 .. Len(s) + 1
  PROVE  /\ Agent!InsertAt(s, p, e) \in Seq(S)
         /\ Len(Agent!InsertAt(s, p, e)) = Len(s) + 1 /\ Agent!InsertAt(s, p, e)[p] = e
         /\ \A i \in 1 .. p - 1 : Agent!InsertAt(s, p, e)[i] = s[i]
         /\ \A i \in p + 1 .. Len(s) + 1 : Agent!InsertAt(s, p, e)[i] = s[i - 1]
<1> DEFINE a == SubSeq(s, 1, p - 1)
           b == SubSeq(s, p, Len(s))
           u == <<e>>
           c == a \o u
<1>1. Len(s) \in Nat /\ \A i \in 1 .. Len(s) : s[i] \in S
  BY LenProperties, ElementOfSeq
<1>2. a \in Seq(S) /\ Len(a) = p - 1 /\ \A i \in 1 .. p - 1 : a[i] = s[i]
  <2>1. \A i \in 1 .. p - 1 : s[i] \in S
    BY <1>1
  <2> QED
    BY <1>1, <2>1, SubSeqProperties
<1>3. b \in Seq(S) /\ Len(b) = Len(s) - p + 1 /\ \A i \in 1 .. Len(s) - p + 1 : b[i] = s[p + i - 1]
  <2>1. \A i \in p .. Len(s) : s[i] \in S
    BY <1>1
  <2> QED
    BY <1>1, <2>1, SubSeqProperties
<1>4. u \in Seq(S) /\ Len(u) = 1 /\ u[1] = e
  OBVIOUS
<1>5. Agent!InsertAt(s, p, e) = c \o b
  BY DEF Agent!InsertAt
<1> HIDE DEF a, b, u
<1>6. /\ c \in Seq(S) /\ Len(c) = Len(a) + Len(u)
      /\ \A i \in 1 .. Len(a) + Len(u) : c[i] = IF i <= Len(a) THEN a[i] ELSE u[i - Len(a)]
  BY <1>2, <1>4, ConcatProperties, Zenon
<1> HIDE DEF c
<1>7. c \in Seq(S) /\ Len(c) = p /\ c[p] = e /\ \A i \in 1 .. p - 1 : c[i] = s[i]
  BY <1>1, <1>2, <1>4, <1>6
<1>8. /\ c \o b \in Seq(S) /\ Len(c \o b) = Len(c) + Len(b)
      /\ \A i \in 1 .. Len(c) + Len(b) : (c \o b)[i] = IF i <= Len(c) THEN c[i] ELSE b[i - Len(c)]
  BY <1>3, <1>7, ConcatProperties, Zenon
<1> DEFINE r == c \o b
<1> HIDE DEF r
<1>9. /\ r \in Seq(S) /\ Len(r) = Len(s) + 1 /\ r[p] = e
      /\ \A i \in 1 .. p - 1 : r[i] = s[i]
      /\ \A i \in p + 1 .. Len(s) + 1 : r[i] = s[i - 1]
  BY <1>1, <1>3, <1>7, <1>8 DEF r
<1> QED
  BY <1>5, <1>9 DEF r

\* A set of positions that is not empty has a first one.
LEMMA SmallestNumber ==
  ASSUME NEW S \in SUBSET Nat, S # {}
  PROVE  Agent!First(S) \in S /\ \A n \in S : Agent!First(S) <= n
<1>1. PICK k \in S : \A j \in S : ~(<<j, k>> \in OpToRel(<, Nat))
  BY NatLessThanWellFounded, WFMin, Zenon
<1>2. \A j \in S : ~(j < k)
  BY <1>1 DEF OpToRel
<1>3. \A j \in S : k <= j
  BY <1>2
<1> QED
  BY <1>3 DEF Agent!First

\* The normalized items are those of the run, and the delivery beside the first item that may have
\* carried it.
Placed(N, p) ==
  /\ p \in 1 .. Len(newItems) + 1 /\ Len(N) = Len(newItems) + 1 /\ N[p] = Agent!Delivery
  /\ \A i \in 1 .. p - 1 : N[i] = newItems[i]
  /\ \A i \in p + 1 .. Len(newItems) + 1 : N[i] = newItems[i - 1]
  /\ Agent!Beside # {} => p = Agent!First(Agent!Beside) + (IF channel = "handoff" THEN 1 ELSE 0)

LEMMA NormalizedItems ==
  ASSUME RunTypes
  PROVE  /\ Agent!NormalizeItems \in Seq(RunItems \cup {Agent!Delivery})
         /\ ~recorder.event => Agent!NormalizeItems = newItems
         /\ recorder.event => \E p : Placed(Agent!NormalizeItems, p)
<1> DEFINE X == RunItems \cup {Agent!Delivery}
           d == Agent!Delivery
<1>1. newItems \in Seq(X) /\ d \in X /\ Len(newItems) \in Nat
  BY LenProperties DEF RunTypes
<1>2. CASE ~recorder.event
  BY <1>1, <1>2 DEF Agent!NormalizeItems
<1>3. CASE recorder.event /\ Agent!Beside = {}
  <2>1. Agent!NormalizeItems = Append(newItems, d)
    BY <1>3 DEF Agent!NormalizeItems
  <2> HIDE DEF X, d
  <2>2. /\ Append(newItems, d) \in Seq(X) /\ Len(Append(newItems, d)) = Len(newItems) + 1
        /\ \A i \in 1 .. Len(newItems) : Append(newItems, d)[i] = newItems[i]
        /\ Append(newItems, d)[Len(newItems) + 1] = d
    BY <1>1, Appended
  <2>3. Placed(Append(newItems, d), Len(newItems) + 1)
    BY <1>1, <1>3, <2>2 DEF Placed, d
  <2> QED
    BY <1>3, <2>1, <2>2, <2>3 DEF X, d
<1>4. CASE recorder.event /\ Agent!Beside # {}
  <2> DEFINE f == Agent!First(Agent!Beside)
             p == f + (IF channel = "handoff" THEN 1 ELSE 0)
  <2>1. f \in Agent!Beside
    <3>1. Agent!Beside \in SUBSET Nat
      BY DEF Agent!Beside
    <3> QED
      BY <1>4, <3>1, SmallestNumber
  <2>2. f \in 1 .. Len(newItems)
    BY <2>1 DEF Agent!Beside
  <2>3. Agent!NormalizeItems = Agent!InsertAt(newItems, p, d)
    BY <1>4 DEF Agent!NormalizeItems
  <2> HIDE DEF X, d, f
  <2>4. p \in 1 .. Len(newItems) + 1
    BY <1>1, <2>2
  <2> HIDE DEF p
  <2> DEFINE N == Agent!InsertAt(newItems, p, d)
  <2>5. /\ N \in Seq(X) /\ Len(N) = Len(newItems) + 1 /\ N[p] = d
        /\ \A i \in 1 .. p - 1 : N[i] = newItems[i]
        /\ \A i \in p + 1 .. Len(newItems) + 1 : N[i] = newItems[i - 1]
    BY <1>1, <2>4, Inserted
  <2> HIDE DEF N
  <2>6. Placed(N, p)
    BY <1>4, <2>4, <2>5 DEF Placed, p, d, f
  <2> QED
    BY <1>4, <2>3, <2>5, <2>6 DEF N, X, d
<1> QED
  BY <1>2, <1>3, <1>4

\* The record of a whole run: what the preparation delivered, the normalized items, the ending.
Whole(e) == Agent!DeliveryEvents \o Agent!NormalizeItems \o <<e>>
DeliveredIn(r) == {i \in 1 .. Len(r) : r[i].kind = "delivery"}

LEMMA WholeRun ==
  ASSUME RunTypes, channel \notin Agent!ByRecorder => ~recorder.event, NEW e,
         e.kind \notin {"delivery", "request", "result", "handoff"}
  PROVE  /\ \A i \in 1 .. Len(Whole(e)) :
              \/ Whole(e)[i].kind \notin {"request", "result"}
              \/ \E j \in 1 .. Len(newItems) : Whole(e)[i] = newItems[j]
         /\ channel \in Agent!AtPreparation => DeliveredIn(Whole(e)) = {1}
         /\ channel \notin Agent!AtPreparation /\ ~recorder.event => DeliveredIn(Whole(e)) = {}
         /\ recorder.event =>
              \E p : DeliveredIn(Whole(e)) = {p} /\ Placed(Agent!NormalizeItems, p)
                     /\ \A i \in 1 .. Len(newItems) + 1 : Whole(e)[i] = Agent!NormalizeItems[i]
<1> DEFINE d == Agent!Delivery
           X == RunItems \cup {d, e}
           N == Agent!NormalizeItems
           D == Agent!DeliveryEvents
           u == <<e>>
           r == Whole(e)
<1>1. /\ newItems \in Seq(RunItems) /\ Len(newItems) \in Nat
      /\ \A i \in 1 .. Len(newItems) : newItems[i].kind \notin {"delivery"}
  <2>1. \A i \in 1 .. Len(newItems) : newItems[i] \in RunItems
    BY ElementOfSeq DEF RunTypes
  <2> QED
    BY <2>1, LenProperties DEF RunTypes, RunItems
<1>2. d.kind = "delivery"
  BY DEF Agent!Delivery
<1>3. N \in Seq(X) /\ Len(N) \in Nat
  <2>1. N \in Seq(RunItems \cup {d})
    BY NormalizedItems
  <2> QED
    BY <2>1, LenProperties
<1>4. u \in Seq(X) /\ Len(u) = 1 /\ u[1] = e
  OBVIOUS
<1>5. /\ D \in Seq(X) /\ Len(D) \in Nat
      /\ channel \in Agent!AtPreparation => Len(D) = 1 /\ D[1] = d
      /\ channel \notin Agent!AtPreparation => Len(D) = 0
  <2>1. <<d>> \in Seq(X) /\ Len(<<d>>) = 1 /\ <<d>>[1] = d
    OBVIOUS
  <2>2. <<>> \in Seq(X) /\ Len(<<>>) = 0
    OBVIOUS
  <2>3. D = IF channel \in Agent!AtPreparation THEN <<d>> ELSE <<>>
    BY DEF Agent!DeliveryEvents
  <2> HIDE DEF X, d, D
  <2> QED
    BY <2>1, <2>2, <2>3
<1>6. r = (D \o N) \o u
  BY DEF Whole
<1>7. channel \in Agent!ByRecorder => channel \notin Agent!AtPreparation
  BY DEF Agent!ByRecorder, Agent!AtPreparation
<1> HIDE DEF d, X, N, D, u
<1> DEFINE c == D \o N
<1>8. /\ c \in Seq(X) /\ Len(c) = Len(D) + Len(N)
      /\ \A i \in 1 .. Len(D) + Len(N) : c[i] = IF i <= Len(D) THEN D[i] ELSE N[i - Len(D)]
  BY <1>3, <1>5, ConcatProperties, Zenon
<1> HIDE DEF c
<1>9. /\ Len(c \o u) = Len(c) + Len(u)
      /\ \A i \in 1 .. Len(c) + Len(u) : (c \o u)[i] = IF i <= Len(c) THEN c[i] ELSE u[i - Len(c)]
  <2>1. c \in Seq(X) /\ u \in Seq(X)
    BY <1>4, <1>8
  <2> QED
    BY <2>1, ConcatProperties, Zenon
<1>10. r = c \o u
  BY <1>6 DEF c
<1> HIDE DEF r
<1>11. /\ Len(r) = Len(D) + Len(N) + 1 /\ r[Len(D) + Len(N) + 1] = e
       /\ \A i \in 1 .. Len(D) + Len(N) : r[i] = IF i <= Len(D) THEN D[i] ELSE N[i - Len(D)]
  BY <1>3, <1>4, <1>5, <1>8, <1>9, <1>10
<1>12. CASE recorder.event
  <2>1. PICK p : Placed(N, p)
    BY <1>12, NormalizedItems DEF N
  <2>2. Len(D) = 0
    BY <1>5, <1>7, <1>12
  <2>3. /\ p \in 1 .. Len(newItems) + 1 /\ Len(N) = Len(newItems) + 1 /\ N[p].kind = "delivery"
        /\ \A i \in 1 .. p - 1 : N[i] = newItems[i]
        /\ \A i \in p + 1 .. Len(newItems) + 1 : N[i] = newItems[i - 1]
    BY <2>1, <1>2 DEF Placed, d
  <2>4. \A i \in 1 .. Len(newItems) + 1 : r[i] = N[i]
    BY <1>1, <1>11, <2>2, <2>3
  <2>5. \A i \in 1 .. Len(r) : i = p \/ i = Len(newItems) + 2
                             \/ \E j \in 1 .. Len(newItems) : r[i] = newItems[j]
    BY <1>1, <1>11, <2>2, <2>3, <2>4
  <2>6. r[Len(newItems) + 2] = e /\ r[p].kind = "delivery" /\ p \in 1 .. Len(r)
    BY <1>1, <1>11, <2>2, <2>3, <2>4
  <2>7. DeliveredIn(r) = {p}
    BY <1>1, <2>5, <2>6 DEF DeliveredIn
  <2>8. \A i \in 1 .. Len(r) : \/ r[i].kind \notin {"request", "result"}
                               \/ \E j \in 1 .. Len(newItems) : r[i] = newItems[j]
    BY <2>5, <2>6
  <2> QED
    BY <1>7, <1>12, <2>1, <2>4, <2>7, <2>8 DEF r, N
<1>13. CASE ~recorder.event
  <2>1. N = newItems
    BY <1>13, NormalizedItems DEF N
  <2>2. \A i \in 1 .. Len(r) : \/ i <= Len(D) /\ r[i] = d /\ Len(D) = 1
                               \/ i = Len(D) + Len(N) + 1 /\ r[i] = e
                               \/ i > Len(D) /\ \E j \in 1 .. Len(newItems) : r[i] = newItems[j]
    <3> SUFFICES ASSUME NEW i \in 1 .. Len(r), i # Len(D) + Len(N) + 1
                 PROVE  \/ i <= Len(D) /\ r[i] = d /\ Len(D) = 1
                        \/ i > Len(D) /\ \E j \in 1 .. Len(newItems) : r[i] = newItems[j]
      BY <1>11
    <3>1. i \in 1 .. Len(D) + Len(N) /\ r[i] = IF i <= Len(D) THEN D[i] ELSE N[i - Len(D)]
      BY <1>3, <1>5, <1>11
    <3>2. CASE i <= Len(D)
      BY <1>5, <3>1, <3>2
    <3>3. CASE i > Len(D)
      <4>1. i - Len(D) \in 1 .. Len(newItems) /\ r[i] = newItems[i - Len(D)]
        BY <1>1, <1>5, <2>1, <3>1, <3>3
      <4> QED
        BY <3>3, <4>1
    <3> QED
      BY <1>5, <3>1, <3>2, <3>3
  <2>3. \A i \in 1 .. Len(r) : \/ r[i].kind \notin {"request", "result"}
                               \/ \E j \in 1 .. Len(newItems) : r[i] = newItems[j]
    BY <1>2, <2>2
  <2>4. \A i \in DeliveredIn(r) : i <= Len(D) /\ Len(D) = 1 /\ i \in 1 .. Len(r)
    BY <1>1, <1>2, <2>2 DEF DeliveredIn
  <2>5. Len(D) = 1 => DeliveredIn(r) = {1}
    <3> SUFFICES ASSUME Len(D) = 1 PROVE DeliveredIn(r) = {1}
      OBVIOUS
    <3>1. 1 \in 1 .. Len(r) /\ r[1] = D[1]
      BY <1>3, <1>11
    <3>2. D[1] = d
      BY <1>5
    <3>3. 1 \in DeliveredIn(r)
      BY <1>2, <3>1, <3>2 DEF DeliveredIn
    <3> QED
      BY <2>4, <3>3
  <2>6. Len(D) = 0 => DeliveredIn(r) = {}
    BY <2>4
  <2> QED
    BY <1>5, <1>13, <2>3, <2>5, <2>6 DEF r
<1> QED
  BY <1>12, <1>13

\* What the record of a whole run says is so.
LEMMA WholeRunRecords ==
  ASSUME RunTypes, RunHolds, phase = "turn", authority => Agent!Attributable,
         NEW k \in {"output", "approval"}, result' = Whole(Agent!Event(k)),
         UNCHANGED <<channel, authority, newItems, given>>
  PROVE  RunRecords'
<1> DEFINE e == Agent!Event(k)
           N == Agent!NormalizeItems
<1>1. e.kind \notin {"delivery", "request", "result", "handoff"}
  BY DEF Agent!Event, Agent!Delivery
<1>2. channel \notin Agent!ByRecorder => ~recorder.event
  BY DEF RunHolds
<1>3. calls = <<>> /\ (given # {} <=> channel \in Agent!AtPreparation \/ recorder.event)
  BY DEF RunHolds
<1>4. /\ newItems \in Seq(RunItems) /\ Len(newItems) \in Nat
      /\ \A i \in 1 .. Len(newItems) : newItems[i] \in RunItems
  BY LenProperties, ElementOfSeq DEF RunTypes
<1>5. Agent!Deliveries' = DeliveredIn(Whole(e))
  BY DEF Agent!Deliveries, DeliveredIn
<1>6. Agent!VerifiedMeansDelivered'
  <2>1. \A x : Agent!Cardinality({x}) = 1
    BY FS_Singleton, SameCardinality
  <2>2. Agent!Cardinality({}) = 0
    BY FS_EmptySet, SameCardinality
  <2>3. CASE channel \in Agent!AtPreparation
    <3>1. Agent!Deliveries' = {1}
      BY <1>1, <1>2, <1>5, <2>3, WholeRun
    <3> QED
      BY <1>3, <2>1, <2>3, <3>1 DEF Agent!VerifiedMeansDelivered, Agent!VerifyAttackDelivery
  <2>4. CASE recorder.event
    <3>1. PICK p : Agent!Deliveries' = {p}
      BY <1>1, <1>2, <1>5, <2>4, WholeRun
    <3> QED
      BY <1>3, <2>1, <2>4, <3>1 DEF Agent!VerifiedMeansDelivered, Agent!VerifyAttackDelivery
  <2>5. CASE channel \notin Agent!AtPreparation /\ ~recorder.event
    <3>1. Agent!Deliveries' = {}
      BY <1>1, <1>2, <1>5, <2>5, WholeRun
    <3> QED
      BY <1>3, <2>2, <2>5, <3>1 DEF Agent!VerifiedMeansDelivered, Agent!VerifyAttackDelivery
  <2> QED
    BY <2>3, <2>4, <2>5
<1>7. Agent!DeliveryStandsWhereItHappened'
  <2> SUFFICES ASSUME Agent!Distinct, channel \in Agent!ByRecorder, NEW m \in Agent!Deliveries'
               PROVE  IF channel = "handoff" THEN result'[m - 1].poisoned ELSE result'[m + 1].poisoned
    BY DEF Agent!DeliveryStandsWhereItHappened, Agent!Distinct, Agent!OfKind
  <2>1. recorder.event
    <3>1. channel \notin Agent!AtPreparation
      BY DEF Agent!AtPreparation, Agent!ByRecorder
    <3> QED
      BY <1>1, <1>2, <1>5, <3>1, WholeRun
  <2>2. PICK p : /\ DeliveredIn(Whole(e)) = {p} /\ Placed(N, p)
                 /\ \A i \in 1 .. Len(newItems) + 1 : Whole(e)[i] = N[i]
    BY <1>1, <1>2, <2>1, WholeRun
  <2>3. m = p
    BY <1>5, <2>2
  <2> DEFINE f == Agent!First(Agent!Beside)
  <2>4. Agent!Beside \in SUBSET Nat
    BY DEF Agent!Beside
  <2>5. Agent!Beside # {} =>
          /\ f \in Agent!Beside /\ f \in 1 .. Len(newItems) /\ \A n \in Agent!Beside : f <= n
          /\ p = f + (IF channel = "handoff" THEN 1 ELSE 0)
    BY <2>2, <2>4, SmallestNumber DEF Placed, Agent!Beside
  <2> HIDE DEF N, f
  <2>6. /\ p \in 1 .. Len(newItems) + 1 /\ \A i \in 1 .. p - 1 : N[i] = newItems[i]
        /\ \A i \in p + 1 .. Len(newItems) + 1 : N[i] = newItems[i - 1]
    BY <2>2 DEF Placed
  <2>7. CASE channel = "handoff"
    <3>1. /\ \E i \in 1 .. Len(newItems) : newItems[i].kind = "handoff"
          /\ \A i \in 1 .. Len(newItems) :
               newItems[i].kind = "handoff" /\ (\A j \in 1 .. i - 1 : newItems[j].kind # "handoff") =>
                 newItems[i].poisoned
      BY <2>1, <2>7 DEF RunHolds, Transferred
    <3>2. Agent!Beside = {i \in 1 .. Len(newItems) : newItems[i].kind = "handoff"}
      BY <2>7 DEF Agent!Beside
    <3>3. f \in 1 .. Len(newItems) /\ newItems[f].poisoned /\ p = f + 1
      <4>1. /\ f \in 1 .. Len(newItems) /\ newItems[f].kind = "handoff" /\ p = f + 1
            /\ \A n \in Agent!Beside : f <= n
        BY <2>5, <2>7, <3>1, <3>2
      <4>2. \A j \in 1 .. f - 1 : newItems[j].kind # "handoff"
        BY <1>4, <3>2, <4>1
      <4> QED
        BY <3>1, <4>1, <4>2
    <3>4. result'[p - 1] = newItems[f]
      BY <1>4, <2>2, <2>6, <3>3
    <3> QED
      BY <2>3, <2>7, <3>3, <3>4
  <2>8. CASE channel # "handoff"
    <3>1. PICK i \in 1 .. Len(newItems) :
            newItems[i].kind = "result" /\ newItems[i].id = recorder.id /\ newItems[i].poisoned
      <4>1. channel \in {"tool_result", "environment"}
        BY <2>8 DEF Agent!ByRecorder
      <4>2. Len(calls) = 0
        BY <1>3
      <4> QED
        BY <2>1, <4>1, <4>2 DEF RunHolds, Carried
    <3>2. i \in Agent!Beside
      BY <2>8, <3>1 DEF Agent!Beside
    <3>3. f \in 1 .. Len(newItems) /\ newItems[f].kind = "result" /\ newItems[f].id = recorder.id
          /\ p = f
      BY <1>4, <2>5, <2>8, <3>2 DEF Agent!Beside
    <3>4. f = i
      BY <3>1, <3>3 DEF Agent!Distinct, Agent!OfKind
    <3>5. result'[p + 1] = newItems[f]
      BY <1>4, <2>2, <2>6, <3>3
    <3> QED
      BY <2>3, <2>8, <3>1, <3>4, <3>5
  <2> QED
    BY <2>7, <2>8
<1>8. Agent!OwnersAreExact'
  <2> SUFFICES ASSUME authority, NEW i \in 1 .. Len(Whole(e)), Whole(e)[i].kind \in {"request", "result"}
               PROVE  Whole(e)[i].by = Whole(e)[i].who
    BY DEF Agent!OwnersAreExact
  <2>1. PICK j \in 1 .. Len(newItems) : Whole(e)[i] = newItems[j]
    BY <1>1, <1>2, WholeRun
  <2>2. CASE newItems[j].kind = "request"
    BY <2>1, <2>2 DEF RunHolds, Owned
  <2>3. CASE newItems[j].kind = "result"
    <3>1. PICK a \in 1 .. Len(newItems) :
            /\ newItems[a].kind = "request" /\ newItems[a].id = newItems[j].id
            /\ newItems[a].who = newItems[j].who
      BY <2>3 DEF RunHolds, Owned
    <3>2. PICK b \in 1 .. Len(newItems) :
            /\ newItems[b].kind = "request" /\ newItems[b].id = newItems[j].id
            /\ newItems[b].by = newItems[j].by
      BY <2>3 DEF Agent!Attributable, Agent!OfKind
    <3>3. a = b
      BY <3>1, <3>2 DEF Agent!Attributable, Agent!OfKind
    <3>4. newItems[a].by = newItems[a].who
      BY <3>1 DEF RunHolds, Owned
    <3> QED
      BY <2>1, <3>1, <3>2, <3>3, <3>4
  <2> QED
    BY <2>1, <2>2, <2>3
<1> QED
  BY <1>6, <1>7, <1>8 DEF RunRecords

\* What the record of a run that ended in an exception says is so.
LEMMA ExceptionRecords ==
  ASSUME RunTypes, RunHolds, phase \in {"turn", "tools"}, NEW k \in {"violation", "guardrail"},
         result' = Append(Agent!ExceptionEvents, Agent!Event(k)),
         UNCHANGED <<channel, authority, newItems, given>>
  PROVE  RunRecords'
<1> DEFINE d == Agent!Delivery
           e == Agent!Event(k)
<1>1. d.kind = "delivery" /\ e.kind = k
  BY DEF Agent!Event, Agent!Delivery
<1>2. /\ given # {} <=> channel \in Agent!AtPreparation \/ recorder.event
      /\ ~(channel \in Agent!AtPreparation /\ recorder.event)
  BY DEF RunHolds, Agent!AtPreparation, Agent!ByRecorder
<1>3. Agent!ExceptionEvents = IF given # {} THEN <<d>> ELSE <<>>
  <2>1. <<>> \in Seq({d}) /\ <<d>> \in Seq({d})
    OBVIOUS
  <2>2. <<>> \o <<d>> = <<d>> /\ <<d>> \o <<>> = <<d>> /\ <<>> \o <<>> = <<>>
    BY <2>1, ConcatEmptySeq
  <2> QED
    BY <1>2, <2>2 DEF Agent!ExceptionEvents, Agent!DeliveryEvents
<1> HIDE DEF d, e
<1>4. CASE given # {}
  <2>1. Len(result') = 2 /\ result'[1] = d /\ result'[2] = e
    <3>1. result' = Append(<<d>>, e)
      BY <1>3, <1>4 DEF e
    <3>2. /\ Len(Append(<<d>>, e)) = 2
          /\ Append(<<d>>, e)[1] = d /\ Append(<<d>>, e)[2] = e
      OBVIOUS
    <3> QED
      BY <3>1, <3>2
  <2>2. Agent!Deliveries' = {1} /\ ~Agent!Whole'
    BY <1>1, <2>1 DEF Agent!Deliveries, Agent!Whole
  <2>3. Agent!Cardinality({1}) = 1
    BY FS_Singleton, SameCardinality
  <2>4. Agent!OwnersAreExact'
    BY <1>1, <2>1 DEF Agent!OwnersAreExact
  <2> QED
    BY <1>4, <2>2, <2>3, <2>4 DEF RunRecords, Agent!VerifiedMeansDelivered,
       Agent!VerifyAttackDelivery, Agent!DeliveryStandsWhereItHappened
<1>5. CASE given = {}
  <2>1. result' = <<e>>
    <3>1. Append(<<>>, e) = <<e>>
      OBVIOUS
    <3> QED
      BY <1>3, <1>5, <3>1 DEF e
  <2>2. Agent!Deliveries' = {} /\ ~Agent!Whole'
    BY <1>1, <2>1 DEF Agent!Deliveries, Agent!Whole
  <2>3. Agent!Cardinality({}) = 0
    BY FS_EmptySet, SameCardinality
  <2>4. Agent!OwnersAreExact'
    BY <1>1, <2>1 DEF Agent!OwnersAreExact
  <2> QED
    BY <1>5, <2>2, <2>3, <2>4 DEF RunRecords, Agent!VerifiedMeansDelivered,
       Agent!VerifyAttackDelivery, Agent!DeliveryStandsWhereItHappened
<1> QED
  BY <1>4, <1>5

\* The items of a turn: those of the turns before, its requests, and their results.
LEMMA TurnItems ==
  ASSUME RunTypes, NEW by \in Agent!Agents,
         newItems' = newItems
           \o [i \in 1 .. Len(calls) |-> Agent!Item("request", calls[i].id, agent)]
           \o [i \in 1 .. Len(calls) |-> [Agent!Item("result", calls[i].id, by)
                                            EXCEPT !.poisoned = calls[i].poisoned]]
  PROVE  /\ newItems' \in Seq(RunItems) /\ Len(newItems') = Len(newItems) + Len(calls) + Len(calls)
         /\ Len(newItems) \in Nat /\ Len(calls) \in Nat
         /\ \A i \in 1 .. Len(newItems) : newItems'[i] = newItems[i]
         /\ \A i \in 1 .. Len(calls) :
              /\ newItems'[Len(newItems) + i] =
                   [kind |-> "request", id |-> calls[i].id, by |-> agent, who |-> agent,
                    poisoned |-> FALSE]
              /\ newItems'[Len(newItems) + Len(calls) + i] =
                   [kind |-> "result", id |-> calls[i].id, by |-> by, who |-> agent,
                    poisoned |-> calls[i].poisoned]
<1> DEFINE n == Len(newItems)
           m == Len(calls)
           a == [i \in 1 .. m |-> [kind |-> "request", id |-> calls[i].id, by |-> agent,
                                   who |-> agent, poisoned |-> FALSE]]
           b == [i \in 1 .. m |-> [kind |-> "result", id |-> calls[i].id, by |-> by,
                                   who |-> agent, poisoned |-> calls[i].poisoned]]
           c == newItems \o a
<1>1. /\ newItems \in Seq(RunItems) /\ n \in Nat /\ m \in Nat
      /\ \A i \in 1 .. m : calls[i] \in RunCalls
  BY LenProperties, ElementOfSeq DEF RunTypes
<1>2. \A i \in 1 .. m : calls[i].id \in Nat /\ calls[i].poisoned \in BOOLEAN
  BY <1>1 DEF RunCalls
<1>3. a \in [1 .. m -> RunItems] /\ b \in [1 .. m -> RunItems]
  BY <1>2 DEF RunItems, RunTypes
<1>4. newItems' = c \o b
  <2>1. a = [i \in 1 .. m |-> Agent!Item("request", calls[i].id, agent)]
    BY DEF Agent!Item
  <2>2. b = [i \in 1 .. m |-> [Agent!Item("result", calls[i].id, by) EXCEPT !.poisoned = calls[i].poisoned]]
    BY DEF Agent!Item
  <2> HIDE DEF a, b
  <2> QED
    BY <2>1, <2>2
<1>5. \A i \in 1 .. m :
        /\ a[i] = [kind |-> "request", id |-> calls[i].id, by |-> agent, who |-> agent,
                   poisoned |-> FALSE]
        /\ b[i] = [kind |-> "result", id |-> calls[i].id, by |-> by, who |-> agent,
                   poisoned |-> calls[i].poisoned]
  OBVIOUS
<1> HIDE DEF a, b, n, m
<1>6. a \in Seq(RunItems) /\ Len(a) = m /\ b \in Seq(RunItems) /\ Len(b) = m
  BY <1>1, <1>3, LenProperties
<1>7. /\ c \in Seq(RunItems) /\ Len(c) = Len(newItems) + Len(a)
      /\ \A i \in 1 .. Len(newItems) + Len(a) :
           c[i] = IF i <= Len(newItems) THEN newItems[i] ELSE a[i - Len(newItems)]
  BY <1>1, <1>6, ConcatProperties, Zenon
<1> HIDE DEF c
<1>8. /\ c \o b \in Seq(RunItems) /\ Len(c \o b) = Len(c) + Len(b)
      /\ \A i \in 1 .. Len(c) + Len(b) : (c \o b)[i] = IF i <= Len(c) THEN c[i] ELSE b[i - Len(c)]
  <2>1. c \in Seq(RunItems) /\ b \in Seq(RunItems)
    BY <1>6, <1>7
  <2> QED
    BY <2>1, ConcatProperties, Zenon
<1> DEFINE r == c \o b
<1> HIDE DEF r
<1>9. /\ r \in Seq(RunItems) /\ Len(r) = n + m + m
      /\ \A i \in 1 .. n : r[i] = newItems[i]
      /\ \A i \in 1 .. m : r[n + i] = a[i] /\ r[n + m + i] = b[i]
  BY <1>1, <1>6, <1>7, <1>8 DEF r, n
<1> QED
  BY <1>1, <1>4, <1>5, <1>9 DEF r, n, m

\* The calls of a turn become its requests and results.
LEMMA TurnEnds ==
  ASSUME RunTypes, RunHolds, Agent!EndTurn
  PROVE  RunTypes' /\ RunHolds'
<1> DEFINE n == Len(newItems)
           m == Len(calls)
<1>1. PICK by \in Agent!Agents :
        newItems' = newItems
          \o [i \in 1 .. m |-> Agent!Item("request", calls[i].id, agent)]
          \o [i \in 1 .. m |-> [Agent!Item("result", calls[i].id, by)
                                  EXCEPT !.poisoned = calls[i].poisoned]]
  BY DEF Agent!EndTurn
<1>2. /\ calls' = <<>> /\ phase = "tools" /\ phase' = "turn"
      /\ \A i \in 1 .. m : calls[i].op = "done"
      /\ UNCHANGED <<channel, authority, agent, recorder, given, result>>
  BY DEF Agent!EndTurn
<1>3. /\ newItems' \in Seq(RunItems) /\ Len(newItems') = n + m + m /\ n \in Nat /\ m \in Nat
      /\ \A i \in 1 .. n : newItems'[i] = newItems[i]
      /\ \A i \in 1 .. m :
           /\ newItems'[n + i] = [kind |-> "request", id |-> calls[i].id, by |-> agent,
                                  who |-> agent, poisoned |-> FALSE]
           /\ newItems'[n + m + i] = [kind |-> "result", id |-> calls[i].id, by |-> by,
                                      who |-> agent, poisoned |-> calls[i].poisoned]
  BY <1>1, TurnItems
<1> HIDE DEF n, m
<1>4. /\ \A i \in 1 .. m : /\ newItems'[n + i].kind = "request" /\ newItems'[n + i].id = calls[i].id
                           /\ newItems'[n + i].by = agent /\ newItems'[n + i].who = agent
      /\ \A i \in 1 .. m : /\ newItems'[n + m + i].kind = "result"
                           /\ newItems'[n + m + i].id = calls[i].id
                           /\ newItems'[n + m + i].who = agent
                           /\ newItems'[n + m + i].poisoned = calls[i].poisoned
  <2> SUFFICES ASSUME NEW i \in 1 .. m
               PROVE  /\ newItems'[n + i].kind = "request" /\ newItems'[n + i].id = calls[i].id
                      /\ newItems'[n + i].by = agent /\ newItems'[n + i].who = agent
                      /\ newItems'[n + m + i].kind = "result"
                      /\ newItems'[n + m + i].id = calls[i].id
                      /\ newItems'[n + m + i].who = agent
                      /\ newItems'[n + m + i].poisoned = calls[i].poisoned
    OBVIOUS
  <2>1. /\ newItems'[n + i] = [kind |-> "request", id |-> calls[i].id, by |-> agent,
                               who |-> agent, poisoned |-> FALSE]
        /\ newItems'[n + m + i] = [kind |-> "result", id |-> calls[i].id, by |-> by,
                                   who |-> agent, poisoned |-> calls[i].poisoned]
    BY <1>3
  <2> QED
    BY <2>1
<1>5. /\ newItems' \in Seq(RunItems) /\ Len(newItems') = n + m + m /\ n \in Nat /\ m \in Nat
       /\ \A i \in 1 .. n : newItems'[i] = newItems[i]
  BY <1>3
<1>6. \A i \in 1 .. Len(newItems') : \/ i \in 1 .. n
                                     \/ \E j \in 1 .. m : i = n + j \/ i = n + m + j
  <2> SUFFICES ASSUME NEW i \in 1 .. n + m + m, i \notin 1 .. n
               PROVE  \E j \in 1 .. m : i = n + j \/ i = n + m + j
    BY <1>3
  <2>1. CASE i <= n + m
    <3>1. i - n \in 1 .. m /\ i = n + (i - n)
      BY <1>3, <2>1
    <3> QED
      BY <3>1
  <2>2. CASE i > n + m
    <3>1. i - (n + m) \in 1 .. m /\ i = n + m + (i - (n + m))
      BY <1>3, <2>2
    <3> QED
      BY <3>1
  <2> QED
    BY <1>3, <2>1, <2>2
<1>7. \A j \in 1 .. m : n + j \in 1 .. Len(newItems') /\ n + m + j \in 1 .. Len(newItems')
  BY <1>3
<1>8. \A i \in 1 .. n : i \in 1 .. Len(newItems')
  BY <1>3
<1>9. RunTypes'
  <2>1. <<>> \in Seq(RunCalls)
    OBVIOUS
  <2> QED
    BY <1>2, <1>3, <2>1 DEF RunTypes
<1>10. Owned'
  <2>1. ASSUME NEW i \in 1 .. Len(newItems'), newItems'[i].kind = "request"
        PROVE  newItems'[i].by = newItems'[i].who
    <3>1. CASE i \in 1 .. n
      BY <1>5, <1>4, <2>1, <3>1 DEF RunHolds, Owned, n
    <3>2. CASE i \notin 1 .. n
      <4>1. PICK j \in 1 .. m : i = n + j
        BY <1>6, <1>4, <1>5, <2>1, <3>2
      <4> QED
        BY <1>4, <1>5, <4>1
    <3> QED
      BY <3>1, <3>2
  <2>2. ASSUME NEW i \in 1 .. Len(newItems'), newItems'[i].kind = "result"
        PROVE  \E j \in 1 .. Len(newItems') :
                 /\ newItems'[j].kind = "request" /\ newItems'[j].id = newItems'[i].id
                 /\ newItems'[j].who = newItems'[i].who
    <3>1. CASE i \in 1 .. n
      <4>1. PICK j \in 1 .. n :
              /\ newItems[j].kind = "request" /\ newItems[j].id = newItems[i].id
              /\ newItems[j].who = newItems[i].who
        BY <1>3, <2>2, <3>1 DEF RunHolds, Owned, n
      <4> QED
        BY <1>3, <1>8, <3>1, <4>1
    <3>2. CASE i \notin 1 .. n
      <4>1. PICK j \in 1 .. m : i = n + m + j
        BY <1>6, <1>4, <2>2, <3>2
      <4> QED
        BY <1>7, <1>4, <1>5, <4>1
    <3> QED
      BY <3>1, <3>2
  <2> QED
    BY <2>1, <2>2 DEF Owned
<1>11. channel \in {"tool_result", "environment"} /\ recorder.event => Carried'
  <2> SUFFICES ASSUME Carried PROVE Carried'
    BY DEF RunHolds
  <2>1. CASE \E i \in 1 .. n :
               newItems[i].kind = "result" /\ newItems[i].id = recorder.id /\ newItems[i].poisoned
    <3>1. PICK i \in 1 .. n :
            newItems[i].kind = "result" /\ newItems[i].id = recorder.id /\ newItems[i].poisoned
      BY <2>1
    <3> QED
      BY <1>2, <1>3, <1>8, <3>1 DEF Carried
  <2>2. CASE \E i \in 1 .. m : calls[i].id = recorder.id /\ calls[i].poisoned
    <3>1. PICK i \in 1 .. m : calls[i].id = recorder.id /\ calls[i].poisoned
      BY <2>2
    <3>2. /\ newItems'[n + m + i].kind = "result" /\ newItems'[n + m + i].id = recorder'.id
          /\ newItems'[n + m + i].poisoned
      BY <1>2, <1>4, <3>1
    <3> QED
      BY <1>7, <3>2 DEF Carried
  <2> QED
    BY <2>1, <2>2 DEF Carried, n, m
<1>12. channel = "handoff" => Transferred'
  <2> SUFFICES ASSUME Transferred PROVE Transferred'
    BY DEF RunHolds
  <2>1. \A i \in 1 .. Len(newItems') : newItems'[i].kind = "handoff" => i \in 1 .. n
    BY <1>6, <1>4
  <2>2. (\E i \in 1 .. n : newItems[i].kind = "handoff")
          <=> \E i \in 1 .. Len(newItems') : newItems'[i].kind = "handoff"
    BY <1>3, <1>8, <2>1
  <2>3. ASSUME NEW i \in 1 .. Len(newItems'), newItems'[i].kind = "handoff",
               \A j \in 1 .. i - 1 : newItems'[j].kind # "handoff"
        PROVE  newItems'[i].poisoned
    <3>1. i \in 1 .. n /\ newItems'[i] = newItems[i]
      BY <1>3, <2>1, <2>3
    <3>2. \A j \in 1 .. i - 1 : newItems[j].kind # "handoff"
      BY <1>3, <2>3, <3>1
    <3> QED
      BY <2>3, <3>1, <3>2 DEF Transferred, n
  <2> QED
    BY <1>2, <2>2, <2>3 DEF Transferred, n
<1>13. Len(calls') = 0
  BY <1>2
<1> QED
  BY <1>2, <1>9, <1>10, <1>11, <1>12, <1>13 DEF RunHolds

\* A transfer joins the items; the first one carries the stimulus of a handoff attack.
LEMMA HandedOff ==
  ASSUME RunTypes, RunHolds, Agent!HandOff
  PROVE  RunTypes' /\ RunHolds'
<1> DEFINE n == Len(newItems)
           first == channel = "handoff" /\ ~recorder.attempted
<1>1. PICK by \in Agent!Agents :
        newItems' = Append(newItems, [Agent!Item("handoff", 0, by) EXCEPT !.poisoned = first])
  BY DEF Agent!HandOff, Agent!NoId
<1> DEFINE x == [Agent!Item("handoff", 0, by) EXCEPT !.poisoned = first]
<1>2. x = [kind |-> "handoff", id |-> 0, by |-> by, who |-> agent, poisoned |-> first]
  BY DEF Agent!Item
<1>3. x \in RunItems
  <2>1. first \in BOOLEAN /\ agent \in Agent!Agents
    BY DEF RunTypes
  <2> HIDE DEF first, x
  <2> QED
    BY <1>2, <2>1 DEF RunItems
<1>4. /\ UNCHANGED <<channel, authority, phase, calls, result>> /\ phase = "turn"
      /\ agent' \in Agent!Agents
      /\ first => recorder' = [recorder EXCEPT !.attempted = TRUE, !.event = TRUE] /\ given' # {}
      /\ ~first => UNCHANGED <<recorder, given>>
  BY DEF Agent!HandOff
<1> HIDE DEF x
<1>5. /\ newItems' \in Seq(RunItems) /\ Len(newItems') = n + 1 /\ n \in Nat
      /\ \A i \in 1 .. n : newItems'[i] = newItems[i]
      /\ newItems'[n + 1] = x
  BY <1>1, <1>3, Appended DEF RunTypes, x
<1> HIDE DEF n
<1>6. x.kind = "handoff" /\ x.poisoned = first
  BY <1>2
<1>7. \A i \in 1 .. Len(newItems') : i \in 1 .. n \/ i = n + 1
  BY <1>5
<1>8. (\A i \in 1 .. n : i \in 1 .. Len(newItems')) /\ n + 1 \in 1 .. Len(newItems')
  BY <1>5
<1>9. RunTypes'
  BY <1>4, <1>5 DEF RunTypes
<1>10. Owned'
  <2>1. \A i \in 1 .. Len(newItems') :
          newItems'[i].kind = "request" => newItems'[i].by = newItems'[i].who
    BY <1>5, <1>6, <1>7 DEF RunHolds, Owned, n
  <2>2. ASSUME NEW i \in 1 .. Len(newItems'), newItems'[i].kind = "result"
        PROVE  \E j \in 1 .. Len(newItems') :
                 /\ newItems'[j].kind = "request" /\ newItems'[j].id = newItems'[i].id
                 /\ newItems'[j].who = newItems'[i].who
    <3>1. i \in 1 .. n /\ newItems'[i] = newItems[i]
      BY <1>5, <1>6, <1>7, <2>2
    <3>2. PICK j \in 1 .. n :
            /\ newItems[j].kind = "request" /\ newItems[j].id = newItems[i].id
            /\ newItems[j].who = newItems[i].who
      BY <2>2, <3>1 DEF RunHolds, Owned, n
    <3> QED
      BY <1>5, <1>8, <3>1, <3>2
  <2> QED
    BY <2>1, <2>2 DEF Owned
<1>11. channel \in {"tool_result", "environment"} /\ recorder.event => Carried'
  <2> SUFFICES ASSUME Carried, channel # "handoff" PROVE Carried'
    BY DEF RunHolds
  <2>1. recorder' = recorder /\ calls' = calls
    BY <1>4
  <2>2. (\E i \in 1 .. n :
           newItems[i].kind = "result" /\ newItems[i].id = recorder.id /\ newItems[i].poisoned)
        => \E i \in 1 .. Len(newItems') : newItems'[i].kind = "result"
              /\ newItems'[i].id = recorder.id /\ newItems'[i].poisoned
    BY <1>5, <1>8
  <2> QED
    BY <2>1, <2>2 DEF Carried, n
<1>12. channel = "handoff" => Transferred'
  <2> SUFFICES ASSUME Transferred, channel = "handoff" PROVE Transferred'
    BY DEF RunHolds
  <2>1. recorder'.attempted /\ recorder'.event
    BY <1>4 DEF RunTypes, Transferred
  <2>2. \E i \in 1 .. Len(newItems') : newItems'[i].kind = "handoff"
    BY <1>5, <1>6, <1>8
  <2>3. ASSUME NEW i \in 1 .. Len(newItems'), newItems'[i].kind = "handoff",
               \A j \in 1 .. i - 1 : newItems'[j].kind # "handoff"
        PROVE  newItems'[i].poisoned
    <3>1. CASE i \in 1 .. n
      <4>1. newItems'[i] = newItems[i] /\ \A j \in 1 .. i - 1 : newItems[j].kind # "handoff"
        BY <1>5, <2>3, <3>1
      <4> QED
        BY <2>3, <3>1, <4>1 DEF Transferred, n
    <3>2. CASE i = n + 1
      <4>1. \A j \in 1 .. n : newItems[j].kind # "handoff"
        BY <1>5, <2>3, <3>2
      <4> QED
        BY <1>5, <1>6, <3>2, <4>1 DEF Transferred, n
    <3> QED
      BY <1>7, <3>1, <3>2
  <2> QED
    BY <2>1, <2>2, <2>3 DEF Transferred
<1>13. given' # {} <=> channel \in Agent!AtPreparation \/ recorder'.event
  BY <1>4 DEF RunHolds, RunTypes
<1>14. channel \notin Agent!ByRecorder => ~recorder'.event
  BY <1>4 DEF RunHolds, Agent!ByRecorder
<1>15. channel \in {"tool_result", "environment"} => recorder' = recorder
  BY <1>4
<1> QED
  BY <1>4, <1>9, <1>10, <1>11, <1>12, <1>13, <1>14, <1>15 DEF RunHolds

\* The fields of a call, one of them or two replaced.
LEMMA CallFields ==
  ASSUME NEW c \in RunCalls, NEW o, NEW q
  PROVE  /\ [c EXCEPT !.op = o] = [tool |-> c.tool, id |-> c.id, op |-> o, poisoned |-> c.poisoned]
         /\ [c EXCEPT !.op = o, !.poisoned = q] =
              [tool |-> c.tool, id |-> c.id, op |-> o, poisoned |-> q]
<1>1. c = [tool |-> c.tool, id |-> c.id, op |-> c.op, poisoned |-> c.poisoned]
  BY DEF RunCalls
<1>2. [c EXCEPT !.op = o] = [tool |-> c.tool, id |-> c.id, op |-> o, poisoned |-> c.poisoned]
  BY <1>1
<1> DEFINE d == [c EXCEPT !.op = o]
<1>3. d = [tool |-> c.tool, id |-> c.id, op |-> o, poisoned |-> c.poisoned]
  BY <1>2
<1> HIDE DEF d
<1>4. [d EXCEPT !.poisoned = q] = [tool |-> c.tool, id |-> c.id, op |-> o, poisoned |-> q]
  BY <1>3
<1> QED
  BY <1>2, <1>4 DEF d

\* A call of the turn goes on, with or without the stimulus.
LEMMA CallGoesOn ==
  ASSUME RunTypes, RunHolds, NEW i \in 1 .. Len(calls),
         Agent!InvokeTool(i) \/ Agent!ReadContext(i) \/ Agent!IgnoreContext(i)
  PROVE  RunTypes' /\ RunHolds' /\ phase' = "tools"
<1> DEFINE Put(o, q) == [tool |-> calls[i].tool, id |-> calls[i].id, op |-> o, poisoned |-> q]
<1>1. /\ phase = "tools" /\ phase' = phase /\ channel' = channel /\ newItems' = newItems
      /\ agent' = agent /\ calls[i].op # "done"
  BY DEF Agent!InvokeTool, Agent!ReadContext, Agent!IgnoreContext
<1>2. /\ calls \in Seq(RunCalls) /\ Len(calls) \in Nat /\ DOMAIN calls = 1 .. Len(calls)
      /\ \A j \in 1 .. Len(calls) : calls[j] \in RunCalls
  BY LenProperties, ElementOfSeq DEF RunTypes
<1>3. \A c : calls' = [calls EXCEPT ![i] = c] /\ c \in RunCalls =>
         /\ calls' \in Seq(RunCalls) /\ Len(calls') = Len(calls) /\ calls'[i] = c
         /\ \A j \in 1 .. Len(calls) : j # i => calls'[j] = calls[j]
  <2> SUFFICES ASSUME NEW c \in RunCalls, calls' = [calls EXCEPT ![i] = c]
               PROVE  /\ calls' \in Seq(RunCalls) /\ Len(calls') = Len(calls) /\ calls'[i] = c
                      /\ \A j \in 1 .. Len(calls) : j # i => calls'[j] = calls[j]
    OBVIOUS
  <2> QED
    BY <1>2, ExceptSeq
<1>4. ASSUME NEW c \in RunCalls, calls' = [calls EXCEPT ![i] = c], c.id = calls[i].id,
             c.op \in {"original", "active"} => channel = "environment",
             recorder' \in [attempted : BOOLEAN, identityError : BOOLEAN, event : BOOLEAN, id : Nat],
             given' # {} <=> channel \in Agent!AtPreparation \/ recorder'.event,
             recorder'.event => channel \in {"tool_result", "environment"} \/ recorder' = recorder,
             channel = "handoff" => recorder' = recorder,
             recorder'.event => \/ recorder.event /\ recorder'.id = recorder.id
                                \/ recorder'.id = c.id /\ c.op = "done" /\ c.poisoned
                                \/ channel \notin {"tool_result", "environment"}
      PROVE  RunTypes' /\ RunHolds'
  <2>1. /\ calls' \in Seq(RunCalls) /\ Len(calls') = Len(calls) /\ calls'[i] = c
        /\ \A j \in 1 .. Len(calls) : j # i => calls'[j] = calls[j]
    BY <1>3, <1>4
  <2>2. RunTypes'
    BY <1>1, <1>4, <2>1 DEF RunTypes
  <2>3. channel \in {"tool_result", "environment"} /\ recorder'.event => Carried'
    <3> SUFFICES ASSUME channel \in {"tool_result", "environment"}, recorder'.event
                 PROVE  Carried'
      OBVIOUS
    <3>1. CASE recorder.event /\ recorder'.id = recorder.id
      <4>1. Carried
        BY <3>1 DEF RunHolds
      <4>2. \A j \in 1 .. Len(calls) : calls[j].op = "done" => j # i /\ calls'[j] = calls[j]
        BY <1>1, <2>1
      <4> QED
        BY <1>1, <2>1, <3>1, <4>1, <4>2 DEF Carried
    <3>2. CASE recorder'.id = c.id /\ c.op = "done" /\ c.poisoned
      BY <1>1, <2>1, <3>2 DEF Carried
    <3> QED
      BY <1>4, <3>1, <3>2
  <2>4. channel = "handoff" => Transferred'
    BY <1>1, <1>4 DEF RunHolds, Transferred
  <2>5. \A j \in 1 .. Len(calls') : calls'[j].op \in {"original", "active"} => channel = "environment"
    BY <1>4, <2>1 DEF RunHolds
  <2>6. Owned'
    BY <1>1 DEF RunHolds, Owned
  <2>7. channel \notin Agent!ByRecorder => ~recorder'.event
    BY <1>4 DEF RunHolds, Agent!ByRecorder
  <2> QED
    BY <1>1, <1>4, <2>2, <2>3, <2>4, <2>5, <2>6, <2>7 DEF RunHolds
<1>5. calls[i].id \in Nat /\ \A o \in {"original", "active", "done"}, q \in BOOLEAN :
        /\ Put(o, q) \in RunCalls /\ Put(o, q).id = calls[i].id /\ Put(o, q).op = o
        /\ Put(o, q).poisoned = q
  BY <1>2 DEF RunCalls
<1>6. calls[i].poisoned \in BOOLEAN
  BY <1>2 DEF RunCalls
<1>7. calls[i] \in RunCalls
  BY <1>2
<1>8. \A o, q : [calls[i] EXCEPT !.op = o, !.poisoned = q] = Put(o, q)
  BY <1>7, CallFields, Zenon
<1>9. \A o : [calls EXCEPT ![i].op = o] = [calls EXCEPT ![i] = Put(o, calls[i].poisoned)]
  <2>1. \A o : [calls[i] EXCEPT !.op = o] = Put(o, calls[i].poisoned)
    BY <1>7, CallFields, Zenon
  <2> HIDE DEF Put
  <2> QED
    BY <2>1
<1> HIDE DEF Put
<1>10. \A o, q : [calls EXCEPT ![i].op = o, ![i].poisoned = q] = [calls EXCEPT ![i] = Put(o, q)]
  <2> SUFFICES ASSUME NEW o, NEW q
               PROVE  [calls EXCEPT ![i].op = o, ![i].poisoned = q] = [calls EXCEPT ![i] = Put(o, q)]
    OBVIOUS
  <2> DEFINE x == [calls[i] EXCEPT !.op = o]
             s == [calls EXCEPT ![i] = x]
  <2>1. [x EXCEPT !.poisoned = q] = Put(o, q)
    BY <1>8, Zenon
  <2>2. [calls EXCEPT ![i].op = o, ![i].poisoned = q] = [s EXCEPT ![i] = [s[i] EXCEPT !.poisoned = q]]
    OBVIOUS
  <2> HIDE DEF x
  <2>3. s[i] = x
    BY <1>2
  <2>4. \A z : [s EXCEPT ![i] = z] = [calls EXCEPT ![i] = z]
    BY <1>2
  <2> HIDE DEF s
  <2> QED
    BY <2>1, <2>2, <2>3, <2>4
<1>11. given # {} <=> channel \in Agent!AtPreparation \/ recorder.event
  BY <1>1 DEF RunHolds
<1>12. \A q \in BOOLEAN :
         calls' = [calls EXCEPT ![i] = Put("done", q)] /\ UNCHANGED <<recorder, given>> =>
           RunTypes' /\ RunHolds'
  <2> SUFFICES ASSUME NEW q \in BOOLEAN, calls' = [calls EXCEPT ![i] = Put("done", q)],
                      UNCHANGED <<recorder, given>>
               PROVE  RunTypes' /\ RunHolds'
    OBVIOUS
  <2> DEFINE c == Put("done", q)
  <2>1. c \in RunCalls /\ c.id = calls[i].id /\ c.op = "done"
    BY <1>5
  <2>2. recorder' \in [attempted : BOOLEAN, identityError : BOOLEAN, event : BOOLEAN, id : Nat]
    BY DEF RunTypes
  <2>3. given' # {} <=> channel \in Agent!AtPreparation \/ recorder'.event
    BY <1>11
  <2> HIDE DEF c
  <2>4. calls' = [calls EXCEPT ![i] = c]
    BY DEF c
  <2> QED
    BY <1>4, <2>1, <2>2, <2>3, <2>4
<1>13. CASE Agent!IgnoreContext(i)
  BY <1>1, <1>6, <1>9, <1>12, <1>13 DEF Agent!IgnoreContext
<1>14. CASE Agent!ReadContext(i)
  <2>1. calls[i].op \in {"original", "active"}
    BY <1>14 DEF Agent!ReadContext
  <2>2. channel = "environment"
    BY <2>1 DEF RunHolds
  <2>3. CASE calls[i].op = "original"
    <3>1. calls' = [calls EXCEPT ![i] = Put("done", FALSE)] /\ UNCHANGED <<recorder, given>>
      <4>1. (calls[i].op = "active") = FALSE
        BY <2>3
      <4> QED
        BY <1>10, <1>14, <2>3, <4>1 DEF Agent!ReadContext
    <3> QED
      BY <1>1, <1>12, <3>1
  <2>4. CASE calls[i].op = "active"
    <3>1. /\ calls' = [calls EXCEPT ![i] = Put("done", TRUE)] /\ given' # {}
          /\ recorder' = IF recorder.event THEN recorder
                         ELSE [recorder EXCEPT !.event = TRUE, !.id = calls[i].id]
      <4>1. (calls[i].op = "active") = TRUE
        BY <2>4
      <4>2. calls' = [calls EXCEPT ![i].op = "done", ![i].poisoned = TRUE]
        BY <1>14, <4>1 DEF Agent!ReadContext
      <4>3. /\ given' # {}
            /\ recorder' = IF recorder.event THEN recorder
                           ELSE [recorder EXCEPT !.event = TRUE, !.id = calls[i].id]
        BY <1>14, <2>4 DEF Agent!ReadContext
      <4> QED
        BY <1>10, <4>2, <4>3
    <3>2. /\ recorder' \in [attempted : BOOLEAN, identityError : BOOLEAN, event : BOOLEAN, id : Nat]
          /\ recorder'.event
          /\ (recorder.event /\ recorder'.id = recorder.id) \/ recorder'.id = calls[i].id
      BY <1>5, <3>1 DEF RunTypes
    <3> QED
      BY <1>1, <1>4, <1>5, <2>2, <3>1, <3>2
  <2> QED
    BY <2>1, <2>3, <2>4
<1>15. CASE Agent!InvokeTool(i)
  <2>1. ASSUME calls' = [calls EXCEPT ![i].op = "done"], UNCHANGED <<recorder, given>>
        PROVE  RunTypes' /\ RunHolds'
    BY <1>6, <1>9, <1>12, <2>1
  <2>2. CASE calls[i].tool = "target" /\ channel = "tool_result"
    <3>1. Agent!InjectToolResult(i)
      BY <1>15, <2>2 DEF Agent!InvokeTool
    <3>2. CASE recorder.attempted
      BY <1>1, <2>1, <3>1, <3>2 DEF Agent!InjectToolResult
    <3>3. CASE ~recorder.attempted /\ calls[i].id = Agent!NoId
      <4>1. /\ calls' = [calls EXCEPT ![i] = Put("done", calls[i].poisoned)] /\ given' = given
            /\ recorder' = [recorder EXCEPT !.attempted = TRUE, !.identityError = TRUE]
        BY <1>9, <3>1, <3>3 DEF Agent!InjectToolResult
      <4>2. /\ recorder' \in [attempted : BOOLEAN, identityError : BOOLEAN, event : BOOLEAN, id : Nat]
            /\ recorder'.event = recorder.event /\ recorder'.id = recorder.id
        BY <4>1 DEF RunTypes
      <4> QED
        BY <1>1, <1>4, <1>5, <1>6, <1>11, <2>2, <4>1, <4>2
    <3>4. CASE ~recorder.attempted /\ calls[i].id # Agent!NoId
      <4>1. /\ calls' = [calls EXCEPT ![i] = Put("done", TRUE)] /\ given' # {}
            /\ recorder' = [attempted |-> TRUE, identityError |-> FALSE, event |-> TRUE,
                            id |-> calls[i].id]
        BY <1>10, <3>1, <3>4 DEF Agent!InjectToolResult
      <4>2. /\ recorder' \in [attempted : BOOLEAN, identityError : BOOLEAN, event : BOOLEAN, id : Nat]
            /\ recorder'.event /\ recorder'.id = calls[i].id
        BY <1>5, <4>1
      <4> QED
        BY <1>1, <1>4, <1>5, <2>2, <4>1, <4>2
    <3> QED
      BY <3>2, <3>3, <3>4
  <2>3. CASE calls[i].tool = "target" /\ channel = "environment"
    <3>1. Agent!InjectEnvironment(i)
      BY <1>15, <2>3 DEF Agent!InvokeTool
    <3>2. /\ given' = given
          /\ calls' = [calls EXCEPT ![i].op =
                          IF recorder.attempted \/ calls[i].id = Agent!NoId THEN "original" ELSE "active"]
      BY <3>1 DEF Agent!InjectEnvironment
    <3>3. /\ recorder' \in [attempted : BOOLEAN, identityError : BOOLEAN, event : BOOLEAN, id : Nat]
          /\ recorder'.event = recorder.event /\ recorder'.id = recorder.id
      <4> DEFINE a == recorder.identityError \/ (~recorder.attempted /\ calls[i].id = Agent!NoId)
      <4>1. a \in BOOLEAN
        OBVIOUS
      <4>2. recorder' = [recorder EXCEPT !.attempted = TRUE, !.identityError = a]
        BY <3>1 DEF Agent!InjectEnvironment
      <4> HIDE DEF a
      <4> QED
        BY <4>1, <4>2 DEF RunTypes
    <3>4. PICK o \in {"original", "active"} :
            calls' = [calls EXCEPT ![i] = Put(o, calls[i].poisoned)]
      BY <1>9, <3>2
    <3> DEFINE c == Put(o, calls[i].poisoned)
    <3>5. c \in RunCalls /\ c.id = calls[i].id /\ calls' = [calls EXCEPT ![i] = c]
      BY <1>5, <1>6, <3>4
    <3> HIDE DEF c
    <3>6. given' # {} <=> channel \in Agent!AtPreparation \/ recorder'.event
      BY <1>11, <3>2, <3>3
    <3> QED
      BY <1>1, <1>4, <2>3, <3>3, <3>5, <3>6
  <2>4. CASE ~(calls[i].tool = "target" /\ channel \in {"tool_result", "environment"})
    BY <1>1, <1>15, <2>1, <2>4 DEF Agent!InvokeTool
  <2> QED
    BY <2>2, <2>3, <2>4
<1> QED
  BY <1>1, <1>13, <1>14, <1>15


\* A run that has not returned has recorded nothing to be judged.
LEMMA NothingRecorded ==
  ASSUME phase' # "returned"
  PROVE  RunRecords'
BY DEF RunRecords, Agent!VerifiedMeansDelivered, Agent!DeliveryStandsWhereItHappened,
   Agent!OwnersAreExact

\* The model asks for one or two calls, by names that may be missing or repeated.
LEMMA CallsAsked ==
  ASSUME RunTypes, RunHolds, Agent!ModelCalls
  PROVE  RunTypes' /\ RunHolds' /\ phase' # "returned"
<1>1. /\ phase = "turn" /\ phase' = "tools" /\ calls = <<>>
      /\ UNCHANGED <<channel, authority, agent, newItems, recorder, given>>
  BY DEF Agent!ModelCalls, RunHolds
<1>2. Agent!Made \in Nat
  <2> DEFINE S == {i \in 1 .. Len(newItems) : newItems[i].kind = "request"}
  <2>1. Len(newItems) \in Nat
    BY LenProperties DEF RunTypes
  <2>2. IsFiniteSet(S)
    <3>1. IsFiniteSet(1 .. Len(newItems)) /\ S \in SUBSET (1 .. Len(newItems))
      BY <2>1, FS_Interval
    <3> HIDE DEF S
    <3> QED
      BY <3>1, FS_Subset
  <2>3. Cardinality(S) \in Nat
    BY <2>2, FS_CardinalityType
  <2>4. Agent!Made = Agent!Cardinality(S)
    BY DEF Agent!Made
  <2> HIDE DEF S
  <2> QED
    BY <2>3, <2>4, SameCardinality
<1>3. \A t \in Agent!Tools, n \in Agent!NamesFor(Agent!Made + 1) \cup Agent!NamesFor(Agent!Made + 2) :
        Agent!Call(t, n) \in RunCalls /\ Agent!Call(t, n).op = "begin"
  BY <1>2 DEF RunCalls, Agent!Call, Agent!NamesFor, Agent!NoId
<1>4. PICK c \in RunCalls, d \in RunCalls :
        /\ c.op = "begin" /\ d.op = "begin"
        /\ calls' = <<c>> \/ calls' = <<c, d>>
  <2>1. \/ \E t \in Agent!Tools, n \in Agent!NamesFor(Agent!Made + 1) : calls' = <<Agent!Call(t, n)>>
        \/ \E t, u \in Agent!Tools, n \in Agent!NamesFor(Agent!Made + 1),
              m \in Agent!NamesFor(Agent!Made + 2) : calls' = <<Agent!Call(t, n), Agent!Call(u, m)>>
    BY DEF Agent!ModelCalls
  <2> QED
    BY <1>3, <2>1
<1>5. calls' \in Seq(RunCalls) /\ \A i \in 1 .. Len(calls') : calls'[i].op = "begin"
  <2>1. CASE calls' = <<c>>
    <3>1. <<c>> \in Seq(RunCalls) /\ Len(<<c>>) = 1 /\ <<c>>[1] = c
      BY <1>4
    <3> QED
      BY <1>4, <2>1, <3>1
  <2>2. CASE calls' = <<c, d>>
    <3>1. /\ <<c, d>> \in Seq(RunCalls) /\ Len(<<c, d>>) = 2
          /\ <<c, d>>[1] = c /\ <<c, d>>[2] = d
      BY <1>4
    <3> QED
      BY <1>4, <2>2, <3>1
  <2> QED
    BY <1>4, <2>1, <2>2
<1>6. RunTypes'
  BY <1>1, <1>5 DEF RunTypes
<1>7. Carried => Carried'
  BY <1>1 DEF Carried
<1>8. Transferred => Transferred'
  BY <1>1 DEF Transferred
<1>9. Owned'
  BY <1>1 DEF RunHolds, Owned
<1>10. \A i \in 1 .. Len(calls') : ~(calls'[i].op \in {"original", "active"})
  BY <1>5
<1> QED
  BY <1>1, <1>6, <1>7, <1>8, <1>9, <1>10 DEF RunHolds

\* A run that only moves on keeps what it has recorded.
LEMMA RunMovesOn ==
  ASSUME RunTypes, RunHolds, UNCHANGED <<channel, agent, calls, newItems, recorder>>,
         phase' \in {"refused", "returned"}
  PROVE  RunTypes' /\ RunHolds'
<1>1. RunTypes'
  BY DEF RunTypes
<1>2. (Carried => Carried') /\ (Transferred => Transferred')
  BY DEF Carried, Transferred
<1>3. Owned'
  BY DEF RunHolds, Owned
<1>4. \A i \in 1 .. Len(calls') : calls'[i].op \in {"original", "active"} => channel' = "environment"
  BY DEF RunHolds
<1> QED
  BY <1>1, <1>2, <1>3, <1>4 DEF RunHolds

\* A run begins with nothing asked, recorded or returned.
LEMMA RunBegins ==
  ASSUME Agent!Init
  PROVE  RunInv
<1>1. /\ phase = "prepare" /\ agent = "root" /\ calls = <<>> /\ newItems = <<>>
      /\ recorder = [attempted |-> FALSE, identityError |-> FALSE, event |-> FALSE, id |-> 0]
      /\ given = {}
  BY DEF Agent!Init, Agent!NoRecorder, Agent!NoId
<1>2. RunTypes
  BY <1>1 DEF RunTypes, Agent!Agents
<1>3. \A i \in 1 .. Len(calls) : FALSE
  BY <1>1
<1>4. \A i \in 1 .. Len(newItems) : FALSE
  BY <1>1
<1>5. Owned /\ Transferred
  BY <1>1, <1>4 DEF Owned, Transferred
<1>6. RunHolds
  BY <1>1, <1>3, <1>5 DEF RunHolds
<1>7. RunRecords
  BY <1>1 DEF RunRecords, Agent!VerifiedMeansDelivered, Agent!DeliveryStandsWhereItHappened,
     Agent!OwnersAreExact
<1> QED
  BY <1>2, <1>6, <1>7 DEF RunInv

\* Every step of a run keeps what holds of it.
LEMMA RunStep ==
  ASSUME RunInv, Agent!Next \/ UNCHANGED agentVars
  PROVE  RunInv'
<1>1. RunTypes /\ RunHolds /\ RunRecords
  BY DEF RunInv
<1>2. ASSUME Agent!RunFails \/ Agent!PreparationRefused
      PROVE  RunInv'
  <2>1. /\ UNCHANGED <<channel, agent, calls, newItems, recorder>> /\ phase' = "refused"
    BY <1>2 DEF Agent!RunFails, Agent!PreparationRefused
  <2> QED
    BY <1>1, <2>1, RunMovesOn, NothingRecorded DEF RunInv
<1>3. ASSUME Agent!PrepareExecution
      PROVE  RunInv'
  <2>1. /\ phase = "prepare" /\ phase' = "turn"
        /\ UNCHANGED <<channel, authority, agent, calls, newItems, recorder>>
        /\ given' = IF channel \in Agent!AtPreparation THEN {"run"} ELSE {}
    BY <1>3 DEF Agent!PrepareExecution
  <2>2. RunTypes'
    BY <1>1, <2>1 DEF RunTypes
  <2>3. ~recorder.event /\ calls = <<>>
    BY <1>1, <2>1 DEF RunHolds
  <2>4. Transferred => Transferred'
    BY <2>1 DEF Transferred
  <2>5. Owned'
    BY <1>1, <2>1 DEF RunHolds, Owned
  <2>6. \A i \in 1 .. Len(calls') : calls'[i].op \in {"original", "active"} => channel' = "environment"
    BY <1>1, <2>1 DEF RunHolds
  <2>7. given' # {} <=> channel' \in Agent!AtPreparation \/ recorder'.event
    BY <2>1, <2>3
  <2>8. RunHolds'
    BY <1>1, <2>1, <2>3, <2>4, <2>5, <2>6, <2>7 DEF RunHolds
  <2> QED
    BY <2>1, <2>2, <2>8, NothingRecorded DEF RunInv
<1>4. ASSUME Agent!ModelCalls
      PROVE  RunInv'
  BY <1>1, <1>4, CallsAsked, NothingRecorded DEF RunInv
<1>5. ASSUME NEW i \in 1 .. Len(calls),
             Agent!InvokeTool(i) \/ Agent!ReadContext(i) \/ Agent!IgnoreContext(i)
      PROVE  RunInv'
  <2>1. RunTypes' /\ RunHolds' /\ phase' = "tools"
    BY <1>1, <1>5, CallGoesOn
  <2> QED
    BY <2>1, NothingRecorded DEF RunInv
<1>6. ASSUME Agent!EndTurn
      PROVE  RunInv'
  <2>1. phase' = "turn"
    BY <1>6 DEF Agent!EndTurn
  <2> QED
    BY <1>1, <1>6, <2>1, TurnEnds, NothingRecorded DEF RunInv
<1>7. ASSUME Agent!HandOff
      PROVE  RunInv'
  <2>1. phase' = "turn"
    BY <1>7 DEF Agent!HandOff
  <2> QED
    BY <1>1, <1>7, <2>1, HandedOff, NothingRecorded DEF RunInv
<1>8. ASSUME Agent!TurnBudgetExceeded \/ Agent!TripwireTriggered
      PROVE  RunInv'
  <2>1. /\ phase \in {"turn", "tools"} /\ phase' \in {"refused", "returned"}
        /\ UNCHANGED <<channel, authority, agent, calls, newItems, recorder, given>>
        /\ phase' = "returned" => \E k \in {"violation", "guardrail"} :
             result' = Append(Agent!ExceptionEvents, Agent!Event(k))
    BY <1>8 DEF Agent!TurnBudgetExceeded, Agent!TripwireTriggered
  <2>2. RunTypes' /\ RunHolds'
    BY <1>1, <2>1, RunMovesOn
  <2>3. CASE phase' = "returned"
    <3>1. PICK k \in {"violation", "guardrail"} :
            result' = Append(Agent!ExceptionEvents, Agent!Event(k))
      BY <2>1, <2>3
    <3>2. RunRecords'
      BY <1>1, <2>1, <3>1, ExceptionRecords
    <3> QED
      BY <2>2, <3>2 DEF RunInv
  <2> QED
    BY <2>2, <2>3, NothingRecorded DEF RunInv
<1>9. ASSUME Agent!ModelEnds \/ Agent!ApprovalNeeded
      PROVE  RunInv'
  <2>1. /\ phase = "turn" /\ phase' \in {"refused", "returned"}
        /\ UNCHANGED <<channel, authority, agent, calls, newItems, recorder, given>>
        /\ phase' = "returned" =>
             /\ authority => Agent!Attributable
             /\ \E k \in {"output", "approval"} : result' = Whole(Agent!Event(k))
    BY <1>9 DEF Agent!ModelEnds, Agent!ApprovalNeeded, Agent!Normalized, Whole
  <2>2. RunTypes' /\ RunHolds'
    BY <1>1, <2>1, RunMovesOn
  <2>3. CASE phase' = "returned"
    <3>1. PICK k \in {"output", "approval"} : result' = Whole(Agent!Event(k))
      BY <2>1, <2>3
    <3>2. RunRecords'
      BY <1>1, <2>1, <2>3, <3>1, WholeRunRecords
    <3> QED
      BY <2>2, <3>2 DEF RunInv
  <2> QED
    BY <2>2, <2>3, NothingRecorded DEF RunInv
<1>10. ASSUME UNCHANGED agentVars
       PROVE  RunInv'
  <2>1. UNCHANGED <<channel, authority, phase, agent, calls, newItems, recorder, given, result>>
    BY <1>10 DEF agentVars
  <2>2. RunTypes'
    BY <1>1, <2>1 DEF RunTypes
  <2>3. (Carried => Carried') /\ (Transferred => Transferred')
    BY <2>1 DEF Carried, Transferred
  <2>4. Owned'
    BY <1>1, <2>1 DEF RunHolds, Owned
  <2>5. RunHolds'
    BY <1>1, <2>1, <2>3, <2>4 DEF RunHolds
  <2>6. Agent!VerifiedMeansDelivered'
    BY <1>1, <2>1 DEF RunRecords, Agent!VerifiedMeansDelivered, Agent!VerifyAttackDelivery,
       Agent!Deliveries
  <2>7. Agent!DeliveryStandsWhereItHappened'
    BY <1>1, <2>1 DEF RunRecords, Agent!DeliveryStandsWhereItHappened, Agent!Whole, Agent!Distinct,
       Agent!OfKind, Agent!Deliveries
  <2>8. Agent!OwnersAreExact'
    BY <1>1, <2>1 DEF RunRecords, Agent!OwnersAreExact
  <2> QED
    BY <2>2, <2>5, <2>6, <2>7, <2>8 DEF RunInv, RunRecords
<1> QED
  BY <1>2, <1>3, <1>4, <1>5, <1>6, <1>7, <1>8, <1>9, <1>10 DEF Agent!Next

\* The record of a finished run is true: a delivery counts exactly when the stimulus reached the
\* subject, it stands beside the item that carried it, and under delegated authority every call
\* and result names the agent that made it (verify_attack_delivery in adversarial/delivery.py,
\* _normalize_items in openai_agents.py and openai_handoff_authority.py).
THEOREM RecordsAreTrue == Spec => []RecordIsTrue
<1> DEFINE I == part = "agent" => RunInv
<1>1. Init => I
  BY OnePartBegins, RunBegins
<1>2. I /\ [Next]_<<part, mcpVars, agentVars, approvalVars, effectsVars, flowVars, serversVars,
                    hostedVars>> => I'
  BY OnePartMoves, RunStep
<1>3. I => RecordIsTrue
  BY DEF RecordIsTrue, RunInv, RunRecords
<1> QED
  BY <1>1, <1>2, <1>3, PTL DEF Spec
=============================================================================
