-------------------------- MODULE AssuranceProofs --------------------------
(* What holds of Assurance for every value of its constants.  First its parts: the *)
(* memory receipt, approval governance, the canary, the gates and delta debugging. *)
(* Then what the project's own automation promises: the dependency automation, for *)
(* any set of required workflows, any number of pushes and any interleaving of its *)
(* jobs with people and with GitHub; and the publication of code scans and its     *)
(* gate, for any set of pull requests, any number of pushes, runs and reports, and *)
(* whatever moves between two reads.                                               *)
EXTENDS Assurance, FiniteSetTheorems, SequenceTheorems, TLAPS

-----------------------------------------------------------------------------
(* The composition                                                            *)

\* A behaviour is about the part it began with, and each step of it is one of that part.
LEMMA OnePartMoves ==
  ASSUME [AssuranceNext]_<<part, gatesVars, canaryVars, deltaVars, approvalsVars, memoryVars,
                           scanVars, governanceVars>>
  PROVE  /\ part' = part
         /\ part = "gates" => Gates!Next \/ UNCHANGED gatesVars
         /\ part = "canary" => Canary!Next \/ UNCHANGED canaryVars
         /\ part = "delta" => Delta!Next \/ UNCHANGED deltaVars
         /\ part = "approvals" => Approvals!Next \/ UNCHANGED approvalsVars
         /\ part = "memory" => Memory!Next \/ UNCHANGED memoryVars
BY DEF AssuranceNext

LEMMA OnePartBegins ==
  ASSUME AssuranceInit
  PROVE  /\ part = "gates" => Gates!Init
         /\ part = "canary" => Canary!Init
         /\ part = "delta" => Delta!Init
         /\ part = "approvals" => Approvals!Init
         /\ part = "memory" => Memory!Init
BY DEF AssuranceInit

\* Elements of a sequence that grew by one.
LEMMA Appended ==
  ASSUME NEW S, NEW s \in Seq(S), NEW e \in S
  PROVE  /\ Append(s, e) \in Seq(S) /\ Len(Append(s, e)) = Len(s) + 1 /\ Len(s) \in Nat
         /\ \A i \in 1 .. Len(s) : Append(s, e)[i] = s[i] /\ s[i] \in S
         /\ Append(s, e)[Len(s) + 1] = e
BY AppendProperties, LenProperties, ElementOfSeq

-----------------------------------------------------------------------------
(* Memory receipts                                                            *)

MemoryOps == {"write", "read", "delete", "expire", "poison"}
Observations == [op : MemoryOps, own : BOOLEAN, allowed : BOOLEAN, content : {"none", "other", "record"},
                 tick : Nat]
MemoryTypes ==
  /\ memory \in [written : BOOLEAN, deleted : BOOLEAN, poisoned : BOOLEAN]
  /\ tick \in Nat /\ trace \in Seq(Observations)

\* What an observation reveals of the store.
Reveals(o) ==
  /\ o.op = "read" /\ o.allowed =>
       "forgets" \notin faults /\ (o.content = "record" \/ "takes poison" \in faults)
  /\ o.op = "poison" => (o.allowed <=> "takes poison" \in faults)
MemoryInv ==
  /\ MemoryTypes
  /\ memory.poisoned => "takes poison" \in faults
  /\ \A i \in 1 .. Len(trace) : Reveals(trace[i])

\* Each operation adds one observation, which reveals no more than the store has.
LEMMA MemoryStep ==
  ASSUME MemoryInv, Memory!Next \/ UNCHANGED memoryVars
  PROVE  MemoryInv'
<1>1. CASE UNCHANGED memoryVars
  BY <1>1 DEF MemoryInv, MemoryTypes, memoryVars, Reveals
<1>2. CASE Memory!Next
  <2> DEFINE takes == "takes poison" \in faults
  <2>0. takes \in BOOLEAN
    OBVIOUS
  <2>1. /\ faults' = faults /\ tick' \in Nat
        /\ memory' \in [written : BOOLEAN, deleted : BOOLEAN, poisoned : BOOLEAN]
        /\ memory'.poisoned => takes
    <3>1. CASE Memory!Write
      BY <3>1 DEF MemoryInv, MemoryTypes, Memory!Write
    <3>2. CASE Memory!Delete
      BY <3>2 DEF MemoryInv, MemoryTypes, Memory!Delete
    <3>3. CASE Memory!Expire
      BY <3>3 DEF MemoryInv, MemoryTypes, Memory!Expire
    <3>4. CASE Memory!Poison
      <4>1. memory' = [memory EXCEPT !.poisoned = takes] /\ UNCHANGED <<faults, tick>>
        BY <3>4 DEF Memory!Poison
      <4> HIDE DEF takes
      <4> QED
        BY <2>0, <4>1 DEF MemoryInv, MemoryTypes
    <3>5. ASSUME NEW own \in BOOLEAN, Memory!Read(own)
          PROVE  UNCHANGED <<faults, memory, tick>>
      BY <3>5 DEF Memory!Read
    <3> QED
      BY <1>2, <3>1, <3>2, <3>3, <3>4, <3>5 DEF Memory!Next, MemoryInv, MemoryTypes
  <2>2. \E o \in Observations : trace' = Append(trace, o) /\ Reveals(o)
    <3>1. CASE Memory!Write \/ Memory!Delete \/ Memory!Expire
      <4>1. PICK op \in {"write", "delete", "expire"}, t \in Nat :
              trace' = Append(trace, [op |-> op, own |-> TRUE, allowed |-> TRUE, content |-> "none",
                                      tick |-> t])
        BY <3>1 DEF MemoryInv, MemoryTypes, Memory!Write, Memory!Delete, Memory!Expire, Memory!Seen
      <4> DEFINE o == [op |-> op, own |-> TRUE, allowed |-> TRUE, content |-> "none", tick |-> t]
      <4>2. o \in Observations /\ Reveals(o)
        BY DEF Observations, MemoryOps, Reveals
      <4> QED
        BY <4>1, <4>2
    <3>2. CASE Memory!Poison
      <4> DEFINE o == [op |-> "poison", own |-> FALSE, allowed |-> takes, content |-> "none",
                       tick |-> tick]
      <4>1. trace' = Append(trace, o)
        BY <3>2 DEF Memory!Poison, Memory!Seen
      <4>2. o.allowed <=> takes
        OBVIOUS
      <4>3. o \in Observations /\ o.op = "poison"
        <5> HIDE DEF takes
        <5> QED
          BY <2>0 DEF MemoryInv, MemoryTypes, Observations, MemoryOps
      <4> QED
        BY <4>1, <4>2, <4>3 DEF Reveals
    <3>3. ASSUME NEW own \in BOOLEAN, Memory!Read(own)
          PROVE  \E o \in Observations : trace' = Append(trace, o) /\ Reveals(o)
      <4> DEFINE held == Memory!Held(own)
                 o == [op |-> "read", own |-> own, allowed |-> held,
                       content |-> IF ~held THEN "none" ELSE IF memory.poisoned THEN "other"
                                   ELSE "record",
                       tick |-> tick]
      <4>1. trace' = Append(trace, o)
        BY <3>3 DEF Memory!Read, Memory!Seen
      <4>2. held \in BOOLEAN /\ (held => "forgets" \notin faults)
        BY DEF Memory!Held
      <4> HIDE DEF held
      <4>3. o \in Observations /\ Reveals(o)
        BY <4>2 DEF MemoryInv, MemoryTypes, Observations, MemoryOps, Reveals
      <4> QED
        BY <4>1, <4>3
    <3> QED
      BY <1>2, <3>1, <3>2, <3>3 DEF Memory!Next
  <2>3. PICK o \in Observations : trace' = Append(trace, o) /\ Reveals(o)
    BY <2>2
  <2>4. trace' \in Seq(Observations) /\ \A i \in 1 .. Len(trace') : Reveals(trace'[i])
    <3>1. trace \in Seq(Observations) /\ \A i \in 1 .. Len(trace) : Reveals(trace[i])
      BY DEF MemoryInv, MemoryTypes
    <3>2. /\ trace' \in Seq(Observations) /\ Len(trace') = Len(trace) + 1 /\ Len(trace) \in Nat
          /\ \A i \in 1 .. Len(trace) : trace'[i] = trace[i]
          /\ trace'[Len(trace) + 1] = o
      BY <2>3, <3>1, Appended
    <3> QED
      BY <2>3, <3>1, <3>2
  <2> QED
    BY <2>1, <2>4 DEF MemoryInv, MemoryTypes, Reveals
<1> QED
  BY <1>1, <1>2

\* An accepted memory receipt leaves no room for a store that forgot the record, took a poisoned
\* one, or served it to another principal, whatever the faults and however long the trace.
THEOREM MemoryReceipts == AssuranceSpec => []AcceptedMemoryHolds
<1> DEFINE Inv == part = "memory" => MemoryInv
<1>1. AssuranceInit => Inv
  <2>1. Memory!Init => MemoryInv
    BY DEF Memory!Init, MemoryInv, MemoryTypes
  <2> QED
    BY <2>1, OnePartBegins
<1>2. Inv /\ [AssuranceNext]_<<part, gatesVars, canaryVars, deltaVars, approvalsVars, memoryVars,
                               scanVars, governanceVars>> => Inv'
  BY OnePartMoves, MemoryStep
<1>3. Inv => AcceptedMemoryHolds
  <2> SUFFICES ASSUME MemoryInv, Memory!MemoryAccepted
               PROVE  /\ {"forgets", "takes poison"} \cap faults = {}
                      /\ \A i \in Memory!Observed("read", FALSE) : ~trace[i].allowed
    BY DEF AcceptedMemoryHolds, Memory!AcceptedMemoryHolds
  <2>1. "forgets" \notin faults
    BY DEF MemoryInv, Reveals, Memory!MemoryAccepted, Memory!PersistenceObserved, Memory!Observed
  <2>2. "takes poison" \notin faults
    BY DEF MemoryInv, Reveals, Memory!MemoryAccepted, Memory!PoisonRejected, Memory!Observed
  <2>3. \A i \in Memory!Observed("read", FALSE) : ~trace[i].allowed
    BY <2>2 DEF MemoryInv, Reveals, Memory!MemoryAccepted, Memory!PoisonRejected, Memory!Observed
  <2> QED
    BY <2>1, <2>2, <2>3
<1> QED
  BY <1>1, <1>2, <1>3, PTL DEF AssuranceSpec

-----------------------------------------------------------------------------
(* The canary                                                                 *)

Answers == {"none", "timeout", "invalid"} \cup Canary!Valid
Requests == [sent : Nat, ended : Nat, answer : Answers, after : Nat]
CanaryTypes ==
  /\ limits \in CanaryLimits /\ Canary!ValidLimits(limits)
  /\ now \in Nat /\ wait \in Nat /\ cost \in Nat /\ charged \in Nat
  /\ stage \in {"loop", "sent", "wait", "done"} /\ requests \in Seq(Requests)

\* Requests that were answered: the one under way is not.
Charged == IF stage = "sent" THEN Len(requests) - 1 ELSE Len(requests)
OneRequest == limits.tokens * limits.price

\* Every answered request costs at most what one request may.
Affordable ==
  /\ Len(requests) <= limits.attempts
  /\ stage = "sent" => Len(requests) >= 1
  /\ stage \in {"loop", "wait"} => Len(requests) < limits.attempts \/ Len(requests) = 0
  /\ charged <= Charged * OneRequest
  /\ cost <= charged

\* A request may be sent after this one.
Retried(r) == r.answer \in {"timeout", "retryable"}
\* Requests are spaced, and the place in the loop knows how far.
Spaced ==
  /\ \A i \in 1 .. Len(requests) :
       /\ requests[i].sent < limits.wall
       /\ i > 1 => /\ requests[i].sent >= requests[i - 1].ended + limits.interval
                   /\ requests[i].sent >= requests[i - 1].ended + requests[i - 1].after
                   /\ Retried(requests[i - 1])
  /\ stage = "loop" /\ Len(requests) > 0 =>
       LET last == requests[Len(requests)]
       IN now >= last.ended + limits.interval /\ now >= last.ended + last.after /\ Retried(last)
  /\ stage = "wait" =>
       LET last == requests[Len(requests)]
       IN /\ Len(requests) > 0 /\ now = last.ended /\ Retried(last)
          /\ wait >= limits.interval /\ wait >= last.after
Told ==
  stage = "done" =>
    /\ observation.attempts = Len(requests)
    /\ observation.disposition = "subject_failure" =>
         Len(requests) > 0 /\ requests[Len(requests)].answer = "wrong"
    /\ observation.disposition = "observed" =>
         Len(requests) > 0 /\ requests[Len(requests)].answer = "right"
CanaryInv == CanaryTypes /\ Affordable /\ Spaced /\ Told

LEMMA LimitsTyped ==
  ASSUME CanaryTypes
  PROVE  /\ limits.attempts \in Nat /\ limits.wall \in Nat /\ limits.interval \in Nat
         /\ limits.tokens \in Nat /\ limits.price \in Nat /\ limits.ceiling \in Nat
         /\ OneRequest \in Nat /\ Len(requests) \in Nat
         /\ \A i \in 1 .. Len(requests) : requests[i] \in Requests
<1>1. limits \in [attempts : Nat, wall : Nat, interval : Nat, tokens : Nat, price : Nat,
                  ceiling : Nat]
  BY CanaryAssumption DEF CanaryTypes
<1>2. requests \in Seq(Requests)
  BY DEF CanaryTypes
<1> QED
  BY <1>1, <1>2, LenProperties, ElementOfSeq DEF OneRequest

\* One more charge of at most b.
LEMMA OneMoreCharge ==
  ASSUME NEW n \in Nat, NEW b \in Nat, NEW c \in 0 .. b, NEW x \in Nat, x <= n * b
  PROVE  x + c <= (n + 1) * b
<1>1. (n + 1) * b = n * b + b /\ n * b \in Nat
  OBVIOUS
<1> QED
  BY <1>1

\* A request is sent, or the wall is reached before it.
LEMMA LoopStep ==
  ASSUME CanaryInv, Canary!SendRequest \/ Canary!WallReached
  PROVE  CanaryInv'
<1> USE DEF CanaryInv
<1>0. /\ limits' = limits /\ wait' = wait /\ charged' = charged /\ cost' = cost
      /\ stage = "loop" /\ now' \in Nat /\ now' >= now
  BY CanaryAssumption DEF Canary!SendRequest, Canary!WallReached, Canary!Uncertain, Canary!Observe,
    CanaryTypes
<1>1. CASE Canary!SendRequest
  <2> DEFINE r == [sent |-> now', ended |-> now', answer |-> "none", after |-> 0]
  <2>1. /\ requests' = Append(requests, r) /\ stage' = "sent" /\ now' < limits.wall
        /\ Len(requests) < limits.attempts
    BY <1>1 DEF Canary!SendRequest, Canary!Attempt
  <2>2. r \in Requests
    BY <1>0 DEF Requests, Answers
  <2>3. /\ requests' \in Seq(Requests) /\ Len(requests') = Len(requests) + 1
        /\ \A i \in 1 .. Len(requests) : requests'[i] = requests[i] /\ requests[i] \in Requests
        /\ requests'[Len(requests) + 1].sent = now'
    BY <2>1, <2>2, Appended DEF CanaryTypes
  <2>4. CanaryTypes'
    BY <1>0, <2>1, <2>3 DEF CanaryTypes, Canary!ValidLimits, Canary!WorstCase
  <2>5. Affordable'
    BY <1>0, <2>1, <2>3, LimitsTyped DEF Affordable, Charged, OneRequest
  <2>6. Spaced'
    <3> SUFFICES ASSUME NEW i \in 1 .. Len(requests')
                 PROVE  /\ requests'[i].sent < limits.wall
                        /\ i > 1 => /\ requests'[i].sent >= requests'[i - 1].ended + limits.interval
                                    /\ requests'[i].sent >= requests'[i - 1].ended + requests'[i - 1].after
                                    /\ Retried(requests'[i - 1])
      BY <1>0, <2>1 DEF Spaced
    <3>1. CASE i \in 1 .. Len(requests)
      <4>1. i > 1 => i - 1 \in 1 .. Len(requests)
        BY <3>1, LimitsTyped
      <4> QED
        BY <2>3, <3>1, <4>1 DEF Spaced
    <3>2. CASE i = Len(requests) + 1
      <4>1. i > 1 => i - 1 = Len(requests) /\ i - 1 \in 1 .. Len(requests)
        BY <3>2, LimitsTyped
      <4>2. i > 1 => requests[i - 1] \in Requests /\ requests'[i - 1] = requests[i - 1]
        BY <2>3, <4>1
      <4>3. i > 1 => /\ now >= requests[i - 1].ended + limits.interval
                     /\ now >= requests[i - 1].ended + requests[i - 1].after
                     /\ Retried(requests[i - 1])
        BY <1>0, <4>1, LimitsTyped DEF Spaced
      <4>4. now \in Nat /\ limits.interval \in Nat /\ requests'[i].sent = now'
        BY <2>3, <3>2, LimitsTyped DEF CanaryTypes
      <4>5. i > 1 => requests[i - 1].ended \in Nat /\ requests[i - 1].after \in Nat
        BY <4>2 DEF Requests
      <4> QED
        BY <1>0, <2>1, <4>2, <4>3, <4>4, <4>5
    <3> QED
      BY <2>3, <3>1, <3>2, LimitsTyped
  <2>7. Told'
    BY <2>1 DEF Told
  <2> QED
    BY <2>4, <2>5, <2>6, <2>7
<1>2. CASE Canary!WallReached
  <2>1. /\ requests' = requests /\ stage' = "done" /\ observation'.attempts = Len(requests)
        /\ observation'.disposition = "provider_uncertain"
    BY <1>2 DEF Canary!WallReached, Canary!Uncertain, Canary!Observe, Canary!Attempt
  <2> QED
    BY <1>0, <2>1 DEF CanaryTypes, Canary!ValidLimits, Canary!WorstCase, Affordable, Charged, OneRequest,
      Spaced, Told
<1> QED
  BY <1>1, <1>2

\* The answer to the request under way comes.
LEMMA AnswerComes ==
  ASSUME CanaryInv, stage = "sent", limits' = limits,
         NEW answer \in Answers, NEW after \in Nat, Canary!Answered(answer, after)
  PROVE  /\ now' \in Nat /\ requests' \in Seq(Requests) /\ Len(requests') = Len(requests)
         /\ Len(requests) \in Nat /\ Len(requests) >= 1
         /\ requests'[Len(requests)].ended = now' /\ requests'[Len(requests)].answer = answer
         /\ requests'[Len(requests)].after = after
         /\ \A i \in 1 .. Len(requests') :
              /\ requests'[i].sent < limits.wall
              /\ i > 1 => /\ requests'[i].sent >= requests'[i - 1].ended + limits.interval
                          /\ requests'[i].sent >= requests'[i - 1].ended + requests'[i - 1].after
                          /\ Retried(requests'[i - 1])
<1> DEFINE n == Len(requests)
<1>1. n \in Nat /\ n >= 1 /\ requests \in Seq(Requests) /\ requests \in [1 .. n -> Requests]
  BY LimitsTyped, LenProperties DEF CanaryInv, CanaryTypes, Affordable
<1>2. PICK d \in Durations :
        /\ now' = now + d
        /\ requests' = [requests EXCEPT ![n] =
             [sent |-> @.sent, ended |-> now + d, answer |-> answer, after |-> after]]
  BY DEF Canary!Answered, Canary!Attempt
<1>3. now' \in Nat
  BY <1>2, CanaryAssumption DEF CanaryInv, CanaryTypes
<1> DEFINE r == [sent |-> requests[n].sent, ended |-> now + d, answer |-> answer, after |-> after]
<1>4. requests' = [requests EXCEPT ![n] = r]
  BY <1>2
<1>5. /\ r \in Requests /\ r.sent = requests[n].sent /\ r.ended = now' /\ r.answer = answer
      /\ r.after = after
  <2>1. requests[n] \in Requests
    BY <1>1
  <2> QED
    BY <1>2, <1>3, <2>1 DEF Requests
<1> HIDE DEF r
<1>6. n \in 1 .. Len(requests)
  BY <1>1
<1>7. /\ requests' \in Seq(Requests) /\ Len(requests') = n /\ requests'[n] = r
      /\ \A i \in 1 .. n : i # n => requests'[i] = requests[i]
  <2> HIDE DEF n
  <2> QED
    BY <1>1, <1>4, <1>5, <1>6, ExceptSeq
<1>8. ASSUME NEW i \in 1 .. n
      PROVE  /\ requests'[i].sent < limits.wall
             /\ i > 1 => /\ requests'[i].sent >= requests'[i - 1].ended + limits.interval
                         /\ requests'[i].sent >= requests'[i - 1].ended + requests'[i - 1].after
                         /\ Retried(requests'[i - 1])
  <2>1. requests'[i].sent = requests[i].sent
    BY <1>5, <1>7
  <2>2. i > 1 => i - 1 \in 1 .. n /\ i - 1 # n
    BY <1>1
  <2>3. i > 1 => requests'[i - 1] = requests[i - 1]
    BY <1>7, <2>2
  <2> QED
    BY <2>1, <2>3 DEF CanaryInv, Spaced
<1> QED
  BY <1>1, <1>3, <1>5, <1>7, <1>8

\* What follows an answer: a wait before a retry, or the observation.
Follows(answer, after) ==
  \/ /\ stage' = "wait" /\ wait' = Canary!Delay(after) /\ answer \in {"timeout", "retryable"}
     /\ Len(requests) # limits.attempts
  \/ /\ stage' = "done" /\ wait' = wait /\ observation'.attempts = Len(requests)
     /\ observation'.disposition = "subject_failure" => answer = "wrong"
     /\ observation'.disposition = "observed" => answer = "right"

LEMMA AnswerFollows ==
  ASSUME CanaryInv, Canary!RequestTimesOut \/ Canary!ResponseInvalid \/ Canary!ResponseValid
  PROVE  /\ stage = "sent" /\ limits' = limits
         /\ \E answer \in Answers, after \in Nat, c \in 0 .. OneRequest :
              /\ Canary!Answered(answer, after) /\ Follows(answer, after)
              /\ charged' = charged + c /\ cost' \in {cost, cost + c}
<1>0. 0 \in 0 .. OneRequest /\ charged + 0 = charged
  BY LimitsTyped DEF CanaryInv, CanaryTypes
<1>1. CASE Canary!RequestTimesOut
  <2>1. /\ stage = "sent" /\ limits' = limits /\ cost' = cost /\ Canary!Answered("timeout", 0)
        /\ Canary!Retry(0) /\ \E c \in 0 .. OneRequest : charged' = charged + c
    BY <1>1 DEF Canary!RequestTimesOut, Canary!Charges, OneRequest
  <2>2. Follows("timeout", 0)
    BY <2>1 DEF Canary!Retry, Canary!Uncertain, Canary!Observe, Canary!Attempt, Follows
  <2>3. "timeout" \in Answers /\ 0 \in Nat
    BY DEF Answers
  <2> QED
    BY <2>1, <2>2, <2>3
<1>2. CASE Canary!ResponseInvalid
  <2>1. /\ stage = "sent" /\ limits' = limits /\ cost' = cost /\ Canary!Answered("invalid", 0)
        /\ charged' = charged /\ Canary!Uncertain(Canary!Attempt) /\ wait' = wait
    BY <1>2 DEF Canary!ResponseInvalid
  <2>2. Follows("invalid", 0)
    BY <2>1 DEF Canary!Uncertain, Canary!Observe, Canary!Attempt, Follows
  <2>3. "invalid" \in Answers /\ 0 \in Nat
    BY DEF Answers
  <2> QED
    BY <1>0, <2>1, <2>2, <2>3
<1>3. CASE Canary!ResponseValid
  <2>1. PICK answer \in Canary!Valid, c \in 0 .. OneRequest, after \in RetryAfters, told \in BOOLEAN :
          /\ Canary!Answered(answer, after) /\ charged' = charged + c
          /\ cost' = cost + (IF told THEN c ELSE 0)
          /\ IF cost' > limits.ceiling THEN Canary!Uncertain(Canary!Attempt) /\ wait' = wait
             ELSE CASE answer = "retryable" -> Canary!Retry(after)
                    [] answer = "right" -> Canary!Observe("observed", Canary!Attempt) /\ wait' = wait
                    [] answer = "wrong" -> Canary!Observe("subject_failure", Canary!Attempt) /\ wait' = wait
                    [] OTHER -> Canary!Uncertain(Canary!Attempt) /\ wait' = wait
    BY <1>3 DEF Canary!ResponseValid, Canary!Charges, OneRequest
  <2>2. stage = "sent" /\ limits' = limits
    BY <1>3 DEF Canary!ResponseValid
  <2>3. Follows(answer, after)
    BY <2>1 DEF Canary!Retry, Canary!Uncertain, Canary!Observe, Canary!Attempt, Canary!Valid, Follows
  <2>4. answer \in Answers /\ after \in Nat
    BY CanaryAssumption DEF Answers
  <2>5. cost' \in {cost, cost + c}
    BY <2>1 DEF CanaryInv, CanaryTypes
  <2> QED
    BY <2>1, <2>2, <2>3, <2>4, <2>5
<1> QED
  BY <1>1, <1>2, <1>3

LEMMA AnswerStep ==
  ASSUME CanaryInv, Canary!RequestTimesOut \/ Canary!ResponseInvalid \/ Canary!ResponseValid
  PROVE  CanaryInv'
<1>1. /\ stage = "sent" /\ limits' = limits /\ limits \in CanaryLimits /\ Canary!ValidLimits(limits)
      /\ limits.attempts \in Nat /\ limits.interval \in Nat /\ OneRequest \in Nat
      /\ charged \in Nat /\ cost \in Nat /\ wait \in Nat /\ cost <= charged
      /\ charged <= (Len(requests) - 1) * OneRequest /\ Len(requests) <= limits.attempts
  BY AnswerFollows, LimitsTyped DEF CanaryInv, CanaryTypes, Affordable, Charged
<1>2. PICK answer \in Answers, after \in Nat, c \in 0 .. OneRequest :
        /\ Canary!Answered(answer, after) /\ Follows(answer, after)
        /\ charged' = charged + c /\ cost' \in {cost, cost + c}
  BY AnswerFollows
<1> DEFINE n == Len(requests)
<1>3. /\ now' \in Nat /\ requests' \in Seq(Requests) /\ Len(requests') = n
      /\ n \in Nat /\ n >= 1
      /\ requests'[n].ended = now' /\ requests'[n].answer = answer /\ requests'[n].after = after
      /\ \A i \in 1 .. Len(requests') :
           /\ requests'[i].sent < limits.wall
           /\ i > 1 => /\ requests'[i].sent >= requests'[i - 1].ended + limits.interval
                       /\ requests'[i].sent >= requests'[i - 1].ended + requests'[i - 1].after
                       /\ Retried(requests'[i - 1])
  BY <1>1, <1>2, AnswerComes
<1>4. stage' \in {"wait", "done"}
  BY <1>2 DEF Follows
<1>5. stage' = "wait" => /\ wait' \in Nat /\ wait' >= limits.interval /\ wait' >= after
                         /\ answer \in {"timeout", "retryable"} /\ n < limits.attempts
  BY <1>1, <1>2, <1>3 DEF Follows, Canary!Delay
<1>6. stage' = "done" => wait' = wait
  BY <1>2 DEF Follows
<1>7. CanaryTypes'
  BY <1>1, <1>2, <1>3, <1>4, <1>5, <1>6 DEF CanaryTypes, Canary!ValidLimits, Canary!WorstCase
<1>8. Affordable'
  <2>1. charged + c <= (n - 1 + 1) * OneRequest
    BY <1>1, <1>3, OneMoreCharge
  <2>2. OneRequest' = OneRequest /\ Charged' = n
    BY <1>1, <1>3, <1>4 DEF OneRequest, Charged
  <2>3. charged' <= n * OneRequest /\ cost' <= charged'
    BY <1>1, <1>2, <1>3, <2>1
  <2> QED
    BY <1>1, <1>3, <1>4, <1>5, <2>2, <2>3 DEF Affordable
<1>9. Spaced'
  BY <1>1, <1>3, <1>4, <1>5 DEF Spaced, Retried
<1>10. Told'
  BY <1>2, <1>3 DEF Told, Follows
<1> QED
  BY <1>7, <1>8, <1>9, <1>10 DEF CanaryInv

LEMMA SleepStep ==
  ASSUME CanaryInv, Canary!SleepWithinWall
  PROVE  CanaryInv'
<1>1. /\ stage = "wait" /\ cost' = cost /\ charged' = charged /\ wait' = 0 /\ limits' = limits
      /\ requests' = requests
      /\ \/ now' = now /\ Canary!Uncertain(Canary!Attempt)
         \/ now' \in Nat /\ now' >= now + wait /\ (stage' = "loop" \/ Canary!Uncertain(Canary!Attempt))
  BY CanaryAssumption DEF Canary!SleepWithinWall, CanaryInv, CanaryTypes
<1>2. /\ stage' \in {"loop", "done"} /\ now' \in Nat
      /\ stage' = "loop" => now' >= now + wait
      /\ stage' = "done" => /\ observation'.attempts = Len(requests)
                            /\ observation'.disposition = "provider_uncertain"
  BY <1>1 DEF Canary!Uncertain, Canary!Observe, Canary!Attempt, CanaryInv, CanaryTypes
<1>3. /\ Len(requests) \in Nat /\ Len(requests) > 0 /\ limits.interval \in Nat
      /\ requests[Len(requests)] \in Requests
  BY <1>1, LimitsTyped DEF CanaryInv, Spaced
<1>4. CanaryTypes'
  BY <1>1, <1>2 DEF CanaryInv, CanaryTypes, Canary!ValidLimits, Canary!WorstCase
<1>5. Affordable'
  BY <1>1, <1>2 DEF CanaryInv, Affordable, Charged, OneRequest
<1>6. Spaced'
  <2>1. stage' = "loop" =>
          LET last == requests[Len(requests)]
          IN now' >= last.ended + limits.interval /\ now' >= last.ended + last.after /\ Retried(last)
    BY <1>1, <1>2, <1>3 DEF CanaryInv, CanaryTypes, Spaced, Requests
  <2> QED
    BY <1>1, <1>2, <2>1 DEF CanaryInv, Spaced
<1>7. Told'
  BY <1>1, <1>2 DEF Told
<1> QED
  BY <1>4, <1>5, <1>6, <1>7 DEF CanaryInv

\* Requests that may cost no more than the worst case cost no more than the ceiling.
LEMMA WorstCaseBounds ==
  ASSUME CanaryInv
  PROVE  charged <= limits.ceiling
<1> DEFINE a == limits.attempts t == limits.tokens p == limits.price k == Charged
<1>1. a \in Nat /\ t \in Nat /\ p \in Nat /\ k \in Nat /\ k <= a
  BY LimitsTyped DEF CanaryInv, Affordable, Charged
<1>2. charged <= k * (t * p) /\ (a * t) * p <= limits.ceiling
  BY DEF CanaryInv, CanaryTypes, Affordable, OneRequest, Canary!ValidLimits, Canary!WorstCase
<1>3. charged \in Nat /\ limits.ceiling \in Nat
  BY LimitsTyped DEF CanaryInv, CanaryTypes
<1> HIDE DEF a, t, p, k
<1>4. t * p \in Nat /\ (a * t) * p = a * (t * p)
  BY <1>1
<1>5. \A x, y, b \in Nat : x <= y => x * b <= y * b
  OBVIOUS
<1>6. k * (t * p) <= a * (t * p) /\ k * (t * p) \in Nat /\ a * (t * p) \in Nat
  BY <1>1, <1>4, <1>5
<1> QED
  BY <1>2, <1>3, <1>4, <1>6

\* Whatever the limits, the provider and the clock: the charges stay inside the ceiling, each
\* request is sent in time and at its distance from the one before, and what the record tells of the
\* subject comes from the last, valid answer.
THEOREM CanaryStaysBounded == AssuranceSpec => []CanaryIsBounded
<1> DEFINE Inv == part = "canary" => CanaryInv
<1>1. AssuranceInit => Inv
  <2>1. ASSUME Canary!Init PROVE CanaryInv
    <3>1. limits \in [attempts : Nat, wall : Nat, interval : Nat, tokens : Nat, price : Nat,
                      ceiling : Nat]
      BY <2>1, CanaryAssumption DEF Canary!Init
    <3>2. /\ limits \in CanaryLimits /\ Canary!ValidLimits(limits) /\ now = 0 /\ stage = "loop"
          /\ requests = << >> /\ wait = 0 /\ cost = 0 /\ charged = 0
      BY <2>1 DEF Canary!Init
    <3>3. Len(requests) = 0 /\ requests \in Seq(Requests)
      BY <3>2
    <3>4. CanaryTypes
      BY <3>2, <3>3 DEF CanaryTypes
    <3>5. OneRequest \in Nat /\ 0 * OneRequest = 0
      BY <3>4, LimitsTyped
    <3> QED
      BY <3>1, <3>2, <3>3, <3>4, <3>5 DEF CanaryInv, Affordable, Charged, Spaced, Told
  <2> QED
    BY <2>1, OnePartBegins
<1>2. Inv /\ [AssuranceNext]_<<part, gatesVars, canaryVars, deltaVars, approvalsVars, memoryVars,
                               scanVars, governanceVars>> => Inv'
  <2>1. CanaryInv /\ UNCHANGED canaryVars => CanaryInv'
    BY DEF CanaryInv, CanaryTypes, Canary!ValidLimits, Canary!WorstCase, Affordable, Charged, OneRequest,
      Spaced, Told, canaryVars
  <2>2. CanaryInv /\ Canary!Next => CanaryInv'
    BY LoopStep, AnswerStep, SleepStep DEF Canary!Next
  <2> QED
    BY <2>1, <2>2, OnePartMoves
<1>3. Inv => CanaryIsBounded
  <2> SUFFICES ASSUME CanaryInv
               PROVE  Canary!ChargesStayInCeiling /\ Canary!ObservationIsBounded
    BY DEF CanaryIsBounded
  <2>1. Canary!ChargesStayInCeiling
    BY WorstCaseBounds DEF Canary!ChargesStayInCeiling, CanaryInv, Affordable
  <2>2. Canary!Last(requests) = requests[Len(requests)]
    BY DEF Canary!Last
  <2>3. Canary!ObservationIsBounded
    BY <2>2 DEF Canary!ObservationIsBounded, CanaryInv, Spaced, Told, Retried
  <2> QED
    BY <2>1, <2>3
<1> QED
  BY <1>1, <1>2, <1>3, PTL DEF AssuranceSpec

-----------------------------------------------------------------------------
(* Finite sets                                                                *)

\* A finite set has subsets of every smaller size.
LEMMA SubsetOfSize ==
  ASSUME NEW S, IsFiniteSet(S), NEW n \in Nat, n <= Cardinality(S)
  PROVE  \E T \in SUBSET S : Cardinality(T) = n
<1> DEFINE m == Cardinality(S)
<1>1. m \in Nat /\ ExistsBijection(1 .. m, S)
  BY FS_CardinalityType
<1>2. PICK f : f \in Bijection(1 .. m, S)
  BY <1>1 DEF ExistsBijection
<1>3. /\ f \in [1 .. m -> S] /\ \A i, j \in 1 .. m : f[i] = f[j] => i = j
  BY <1>2 DEF Bijection, Injection, IsInjective
<1> DEFINE T == {f[i] : i \in 1 .. n}
           g == [i \in 1 .. n |-> f[i]]
<1>4. T \in SUBSET S /\ 1 .. n \subseteq 1 .. m
  BY <1>1, <1>3
<1>5. g \in Bijection(1 .. n, T)
  BY <1>3, <1>4 DEF Bijection, Injection, Surjection, IsInjective
<1>6. ExistsBijection(1 .. n, T)
  BY <1>5 DEF ExistsBijection
<1> QED
  BY <1>4, <1>6, FS_CountingElements

-----------------------------------------------------------------------------
(* Approval governance                                                        *)

\* Cardinality as the governance, the gates and the memory receipt use it.
LEMMA SameCardinality ==
  ASSUME NEW S
  PROVE  Approvals!Cardinality(S) = Cardinality(S) /\ Gates!Cardinality(S) = Cardinality(S)
BY DEF Approvals!Cardinality, Gates!Cardinality, Cardinality

Decided == [signer : People, session : {"s1", "s2"}, role : {"approver", "escalation"},
            by : Delegators \cup {"none"}, at : Nat, verified : BOOLEAN]
Outcomes == {"completed", "duplicate-rejected", "aborted"}
GovernanceTypes ==
  /\ governance \in Quorums /\ clock \in Nat /\ clock >= 1
  /\ approvals \in Seq(Decided) /\ resumes \in Seq(Outcomes) /\ continued \in Nat

\* The first half of ResumeIsGoverned.
QuorumStands ==
  quorate.accepted =>
    \E signers \in SUBSET quorate.signers :
      /\ Cardinality(signers) = governance.quorum /\ Requester \notin signers
      /\ \A who \in signers : \E i \in 1 .. quorate.known \ quorate.revoked :
           /\ approvals[i].signer = who /\ approvals[i].verified
           /\ approvals[i].at + governance.age >= quorate.at
           /\ approvals[i].by # "none" =>
                \E d \in delegations : d.from = approvals[i].by /\ d.to = who /\ d.until >= quorate.at
Completed == {i \in 1 .. Len(resumes) : resumes[i] = "completed"}
\* As long as no worker was aborted, a continuation ran for each that completed.
EachRanOne ==
  (\A i \in 1 .. Len(resumes) : resumes[i] # "aborted") => continued = Cardinality(Completed)
GovernanceInv == GovernanceTypes /\ QuorumStands /\ EachRanOne

\* The quorum that an evaluation accepts.
LEMMA EvaluationCounts ==
  ASSUME GovernanceTypes, Approvals!Evaluate
  PROVE  QuorumStands'
<1> DEFINE valid == {i \in 1 .. Len(approvals) : Approvals!Counts(i)}
           all == {approvals[i].signer : i \in valid}
<1>1. /\ quorate'.signers = all /\ quorate'.known = Len(approvals) /\ quorate'.revoked = revoked
      /\ quorate'.at = clock
      /\ quorate'.accepted => Approvals!Cardinality(all) >= governance.quorum
      /\ UNCHANGED <<governance, approvals, delegations>>
  BY DEF Approvals!Evaluate
<1>2. Len(approvals) \in Nat /\ governance.quorum \in Nat /\ governance.age \in Nat
  BY ApprovalsAssumption DEF GovernanceTypes
<1>3. IsFiniteSet(all) /\ Cardinality(all) \in Nat
  <2>1. IsFiniteSet(valid)
    <3>1. IsFiniteSet(1 .. Len(approvals)) /\ valid \in SUBSET (1 .. Len(approvals))
      BY <1>2, FS_Interval
    <3> HIDE DEF valid
    <3> QED
      BY <3>1, FS_Subset
  <2> DEFINE f == [i \in valid |-> approvals[i].signer]
  <2>2. f \in Surjection(valid, all)
    BY DEF Surjection
  <2> HIDE DEF valid, all, f
  <2>3. IsFiniteSet(all)
    BY <2>1, <2>2, FS_Surjection
  <2> QED
    BY <2>3, FS_CardinalityType
<1>4. \A i \in valid :
        /\ i \in 1 .. Len(approvals) \ revoked /\ approvals[i].signer # Requester
        /\ approvals[i].verified /\ approvals[i].at + governance.age >= clock
        /\ approvals[i].by # "none" =>
             \E d \in delegations :
               d.from = approvals[i].by /\ d.to = approvals[i].signer /\ d.until >= clock
  <2> SUFFICES ASSUME NEW i \in valid
               PROVE  /\ i \in 1 .. Len(approvals) \ revoked /\ approvals[i].signer # Requester
                      /\ approvals[i].verified /\ approvals[i].at + governance.age >= clock
                      /\ approvals[i].by # "none" =>
                           \E d \in delegations :
                             d.from = approvals[i].by /\ d.to = approvals[i].signer /\ d.until >= clock
    OBVIOUS
  <2>1. approvals[i].at \in Nat
    <3>1. approvals[i] \in Decided
      BY ElementOfSeq DEF GovernanceTypes
    <3> QED
      BY <3>1 DEF Decided
  <2>2. /\ i \in 1 .. Len(approvals) \ revoked /\ approvals[i].signer # Requester
        /\ approvals[i].verified /\ approvals[i].at + governance.age >= clock
    BY <1>2, <2>1 DEF Approvals!Counts, GovernanceTypes
  <2>3. ASSUME approvals[i].by # "none"
        PROVE  \E d \in delegations :
                 d.from = approvals[i].by /\ d.to = approvals[i].signer /\ d.until >= clock
    <3> DEFINE standing == {d \in delegations : d.from = approvals[i].by /\ d.to = approvals[i].signer
                                                /\ d.until >= clock}
    <3>1. Cardinality(standing) = 1
      BY <2>3, SameCardinality DEF Approvals!Counts, Approvals!Delegated
    <3>2. standing # {}
      <4> HIDE DEF standing
      <4> QED
        BY <3>1, FS_EmptySet
    <3> QED
      BY <3>2
  <2> QED
    BY <2>2, <2>3
<1> HIDE DEF valid
<1>5. ASSUME quorate'.accepted
      PROVE  \E signers \in SUBSET all : Cardinality(signers) = governance.quorum
  <2> HIDE DEF all
  <2> QED
    BY <1>1, <1>2, <1>3, <1>5, SameCardinality, SubsetOfSize
<1> QED
  BY <1>1, <1>4, <1>5 DEF QuorumStands

\* Decisions are collected before the evaluation, so that what it saw stays as it was.
LEMMA Collects ==
  ASSUME GovernanceInv,
         Approvals!Tick \/ Approvals!Approve \/ Approvals!Delegate \/ Approvals!Revoke
  PROVE  GovernanceInv'
<1>1. quorate = Approvals!NoReceipt /\ quorate' = quorate /\ UNCHANGED <<governance, resumes, continued>>
  BY DEF Approvals!Tick, Approvals!Approve, Approvals!Delegate, Approvals!Revoke, Approvals!Collecting
<1>2. QuorumStands'
  BY <1>1 DEF QuorumStands, Approvals!NoReceipt
<1>3. EachRanOne'
  BY <1>1 DEF GovernanceInv, EachRanOne, Completed
<1>4. GovernanceTypes'
  <2>1. clock' \in Nat /\ clock' >= 1
    BY DEF GovernanceInv, GovernanceTypes, Approvals!Tick, Approvals!Approve, Approvals!Delegate,
      Approvals!Revoke
  <2>2. approvals' \in Seq(Decided)
    <3>1. CASE Approvals!Approve
      <4>1. PICK who \in People, session \in {"s1", "s2"}, role \in {"approver", "escalation"},
                 by \in Delegators \cup {"none"}, verified \in BOOLEAN :
              approvals' = Append(approvals, [signer |-> who, session |-> session, role |-> role,
                                              by |-> by, at |-> clock, verified |-> verified])
        BY <3>1 DEF Approvals!Approve
      <4>2. [signer |-> who, session |-> session, role |-> role, by |-> by, at |-> clock,
             verified |-> verified] \in Decided
        BY DEF GovernanceInv, GovernanceTypes, Decided
      <4> QED
        BY <4>1, <4>2, Appended DEF GovernanceInv, GovernanceTypes
    <3>2. CASE Approvals!Tick \/ Approvals!Delegate \/ Approvals!Revoke
      BY <3>2 DEF GovernanceInv, GovernanceTypes, Approvals!Tick, Approvals!Delegate, Approvals!Revoke
    <3> QED
      BY <3>1, <3>2
  <2> QED
    BY <1>1, <2>1, <2>2 DEF GovernanceInv, GovernanceTypes
<1> QED
  BY <1>2, <1>3, <1>4 DEF GovernanceInv

\* A worker that was not aborted ran the continuation exactly if it completed.
LEMMA Resumes ==
  ASSUME GovernanceInv, Approvals!Resume
  PROVE  GovernanceInv'
<1>1. PICK outcome \in Outcomes, ran \in BOOLEAN :
        /\ outcome = "completed" => ran
        /\ outcome = "duplicate-rejected" => ~ran
        /\ resumes' = Append(resumes, outcome)
        /\ continued' = continued + (IF ran THEN 1 ELSE 0)
  BY DEF Approvals!Resume, Outcomes
<1>2. UNCHANGED <<governance, clock, approvals, delegations, revoked, quorate>>
  BY DEF Approvals!Resume
<1> DEFINE n == Len(resumes)
<1>3. /\ resumes' \in Seq(Outcomes) /\ Len(resumes') = n + 1 /\ n \in Nat
      /\ \A i \in 1 .. n : resumes'[i] = resumes[i]
      /\ resumes'[n + 1] = outcome
  BY <1>1, Appended DEF GovernanceInv, GovernanceTypes
<1>4. GovernanceTypes'
  BY <1>1, <1>2, <1>3 DEF GovernanceInv, GovernanceTypes
<1>5. QuorumStands'
  BY <1>2 DEF GovernanceInv, QuorumStands
<1>6. IsFiniteSet(Completed) /\ n + 1 \notin Completed
  <2>1. Completed \in SUBSET (1 .. n) /\ n + 1 \notin 1 .. n
    BY <1>3 DEF Completed
  <2>2. IsFiniteSet(1 .. n)
    BY <1>3, FS_Interval
  <2> QED
    BY <2>1, <2>2, FS_Subset
<1>7. Completed' = IF outcome = "completed" THEN Completed \cup {n + 1} ELSE Completed
  BY <1>3 DEF Completed
<1>8. EachRanOne'
  <2> SUFFICES ASSUME \A i \in 1 .. Len(resumes') : resumes'[i] # "aborted"
               PROVE  continued' = Cardinality(Completed')
    BY DEF EachRanOne
  <2>1. continued = Cardinality(Completed) /\ outcome # "aborted"
    BY <1>3 DEF GovernanceInv, EachRanOne
  <2>2. CASE outcome = "completed"
    <3>1. Cardinality(Completed') = Cardinality(Completed) + 1
      BY <1>6, <1>7, <2>2, FS_AddElement
    <3> QED
      BY <1>1, <2>1, <2>2, <3>1
  <2>3. CASE outcome = "duplicate-rejected"
    BY <1>1, <1>7, <2>1, <2>3 DEF GovernanceInv, GovernanceTypes
  <2> QED
    BY <2>1, <2>2, <2>3 DEF Outcomes
<1> QED
  BY <1>4, <1>5, <1>8 DEF GovernanceInv

\* Whoever decides, delegates, revokes and resumes, and whenever: a quorum of decisions that stood at
\* the evaluation is behind an accepted receipt, and an accepted resumption continued once.
THEOREM ResumptionsAreGoverned == AssuranceSpec => []ResumeIsGoverned
<1> DEFINE Inv == part = "approvals" => GovernanceInv
<1>1. AssuranceInit => Inv
  <2>1. ASSUME Approvals!Init PROVE GovernanceInv
    <3>1. /\ governance \in Quorums /\ clock = 1 /\ approvals = << >> /\ resumes = << >> /\ continued = 0
          /\ ~quorate.accepted
      BY <2>1 DEF Approvals!Init, Approvals!NoReceipt
    <3>2. Completed = {}
      BY <3>1 DEF Completed
    <3> QED
      BY <3>1, <3>2, FS_EmptySet DEF GovernanceInv, GovernanceTypes, QuorumStands, EachRanOne
  <2> QED
    BY <2>1, OnePartBegins
<1>2. Inv /\ [AssuranceNext]_<<part, gatesVars, canaryVars, deltaVars, approvalsVars, memoryVars,
                               scanVars, governanceVars>> => Inv'
  <2>1. GovernanceInv /\ UNCHANGED approvalsVars => GovernanceInv'
    BY DEF GovernanceInv, GovernanceTypes, QuorumStands, EachRanOne, Completed, approvalsVars
  <2>2. ASSUME GovernanceInv, Approvals!Evaluate PROVE GovernanceInv'
    BY <2>2, EvaluationCounts
    DEF Approvals!Evaluate, GovernanceInv, GovernanceTypes, EachRanOne, Completed
  <2>3. GovernanceInv /\ Approvals!Next => GovernanceInv'
    BY <2>2, Collects, Resumes DEF Approvals!Next
  <2> QED
    BY <2>1, <2>3, OnePartMoves
<1>3. Inv => ResumeIsGoverned
  <2> SUFFICES ASSUME GovernanceInv PROVE Approvals!ResumeIsGoverned
    BY DEF ResumeIsGoverned
  <2>1. ASSUME Approvals!ResumeAccepted PROVE continued = 1
    <3>1. Cardinality(Completed) = 1 /\ \A i \in 1 .. Len(resumes) : resumes[i] # "aborted"
      BY <2>1, SameCardinality DEF Approvals!ResumeAccepted, Completed
    <3> QED
      BY <3>1 DEF GovernanceInv, EachRanOne
  <2>2. \A S : Approvals!Cardinality(S) = Cardinality(S)
    BY SameCardinality
  <2> QED
    BY <2>1, <2>2 DEF GovernanceInv, QuorumStands, Approvals!ResumeIsGoverned
<1> QED
  BY <1>1, <1>2, <1>3, PTL DEF AssuranceSpec

-----------------------------------------------------------------------------
(* Release gates                                                              *)

Trials == [verdict : Gates!Verdicts, facts : Gates!Facts]
Counts == [passes : Nat, failures : Nat, blocked : Nat, inconclusive : Nat]

\* How many trials have a verdict.
LEMMA CountType ==
  ASSUME NEW s \in Seq(Trials), NEW v
  PROVE  /\ Gates!CountOf(s, v) \in Nat
         /\ (\E i \in 1 .. Len(s) : s[i].verdict = v) => Gates!CountOf(s, v) > 0
<1> DEFINE those == {i \in 1 .. Len(s) : s[i].verdict = v}
<1>1. Gates!CountOf(s, v) = Cardinality(those)
  BY SameCardinality DEF Gates!CountOf
<1>2. Len(s) \in Nat
  BY LenProperties
<1>3. IsFiniteSet(1 .. Len(s)) /\ those \in SUBSET (1 .. Len(s))
  BY <1>2, FS_Interval
<1>4. (\E i \in 1 .. Len(s) : s[i].verdict = v) => those # {}
  OBVIOUS
<1> HIDE DEF those
<1>5. IsFiniteSet(those)
  BY <1>3, FS_Subset
<1>6. Cardinality(those) \in Nat /\ (those # {} => Cardinality(those) # 0)
  BY <1>5, FS_CardinalityType, FS_EmptySet
<1> QED
  BY <1>1, <1>4, <1>6

LEMMA CountAppend ==
  ASSUME NEW s \in Seq(Trials), NEW t \in Trials, NEW v
  PROVE  Gates!CountOf(Append(s, t), v) = Gates!CountOf(s, v) + (IF t.verdict = v THEN 1 ELSE 0)
<1> DEFINE n == Len(s)
           a == Append(s, t)
           before == {i \in 1 .. n : s[i].verdict = v}
           after == {i \in 1 .. Len(a) : a[i].verdict = v}
<1>1. Gates!CountOf(s, v) = Cardinality(before) /\ Gates!CountOf(a, v) = Cardinality(after)
  BY SameCardinality DEF Gates!CountOf
<1>2. n \in Nat /\ Len(a) = n + 1 /\ a[n + 1] = t /\ \A i \in 1 .. n : a[i] = s[i]
  BY Appended
<1>3. after = IF t.verdict = v THEN before \cup {n + 1} ELSE before
  BY <1>2
<1>4. before \in SUBSET (1 .. n) /\ n + 1 \notin before
  BY <1>2
<1>5. IsFiniteSet(1 .. n)
  BY <1>2, FS_Interval
<1> HIDE DEF before, after, a, n
<1>6. IsFiniteSet(before)
  BY <1>4, <1>5, FS_Subset
<1>7. Cardinality(before) \in Nat /\ Cardinality(before \cup {n + 1}) = Cardinality(before) + 1
  BY <1>4, <1>6, FS_AddElement, FS_CardinalityType
<1> QED
  BY <1>1, <1>3, <1>7 DEF a

LEMMA ReliabilityType ==
  ASSUME NEW s \in Seq(Trials)
  PROVE  /\ Gates!ReliabilityOf(s) \in Counts
         /\ Gates!ReliabilityOf(s) =
              [passes |-> Gates!CountOf(s, "PASS"), failures |-> Gates!CountOf(s, "FAIL"),
               blocked |-> Gates!CountOf(s, "BLOCKED"),
               inconclusive |-> Gates!CountOf(s, "INCONCLUSIVE")]
BY CountType DEF Gates!ReliabilityOf, Counts

\* Trials without a critical violation are safe.
LEMMA CriticalCounts ==
  ASSUME NEW s \in Seq(Trials)
  PROVE  /\ Gates!CriticalViolations(s) \in Nat
         /\ Gates!Unsafe(s) => Gates!CriticalViolations(s) > 0
<1> DEFINE n == Len(s)
           found == {v \in (1 .. n) \X {"policy", "effect"} : v[2] \in Gates!CriticalOf(s[v[1]])}
<1>1. Gates!CriticalViolations(s) = Cardinality(found)
  BY SameCardinality DEF Gates!CriticalViolations
<1>2. n \in Nat /\ DOMAIN s = 1 .. n
  BY LenProperties
<1>3. IsFiniteSet(found) /\ Cardinality(found) \in Nat
  <2>1. IsFiniteSet(1 .. n)
    BY <1>2, FS_Interval
  <2>2. IsFiniteSet({"policy", "effect"})
    <3>1. IsFiniteSet({"policy"} \cup {"effect"})
      BY FS_Singleton, FS_AddElement
    <3>2. {"policy"} \cup {"effect"} = {"policy", "effect"}
      OBVIOUS
    <3> QED
      BY <3>1, <3>2
  <2>3. IsFiniteSet((1 .. n) \X {"policy", "effect"})
    BY <2>1, <2>2, FS_Product
  <2>4. found \in SUBSET ((1 .. n) \X {"policy", "effect"})
    OBVIOUS
  <2> HIDE DEF found
  <2> QED
    BY <2>3, <2>4, FS_Subset, FS_CardinalityType
<1>4. ASSUME Gates!Unsafe(s) PROVE found # {}
  <2>1. PICK i \in 1 .. n : \/ s[i].facts.violation
                            \/ s[i].verdict # "BLOCKED" /\ s[i].facts.finding = "effect"
    BY <1>2, <1>4 DEF Gates!Unsafe, Gates!ToSet
  <2>2. "policy" \in Gates!CriticalOf(s[i]) \/ "effect" \in Gates!CriticalOf(s[i])
    BY <2>1 DEF Gates!CriticalOf
  <2>3. <<i, "policy">> \in found \/ <<i, "effect">> \in found
    BY <2>2
  <2> QED
    BY <2>3
<1> HIDE DEF found
<1>5. found # {} => Cardinality(found) # 0
  BY <1>3, FS_EmptySet
<1> QED
  BY <1>1, <1>3, <1>4, <1>5

\* What a positive decision says of the counts.
LEMMA Accepts ==
  ASSUME release \in Gates!Thresholds, NEW r \in Counts, NEW c \in Nat
  PROVE  /\ Gates!Decide(r, c) \in {"reject", "inconclusive", "accept"}
         /\ Gates!Decide(r, c) = "accept" =>
              /\ Gates!Resolved(r) > 0 /\ c <= release.maxCritical
              /\ ~Gates!RateBelow(r, release) /\ ~Gates!WilsonBelow(r, release)
<1>1. release.minResolved \in Nat /\ release.minResolved > 0 /\ release.maxCritical \in Nat
  BY DEF Gates!Thresholds
<1>2. Gates!Resolved(r) \in Nat
  BY DEF Counts, Gates!Resolved
<1> DEFINE n == Gates!Resolved(r)
           rejects == c > release.maxCritical \/ (n > 0 /\ Gates!RateBelow(r, release))
           doubts == \/ r.blocked > release.maxBlocked \/ r.inconclusive > release.maxInconclusive
                     \/ n < release.minResolved \/ (n > 0 /\ Gates!WilsonBelow(r, release))
<1>3. Gates!Decide(r, c) = IF rejects THEN "reject" ELSE IF doubts THEN "inconclusive" ELSE "accept"
  BY DEF Gates!Decide
<1>4. ~rejects /\ ~doubts => /\ n > 0 /\ c <= release.maxCritical
                             /\ ~Gates!RateBelow(r, release) /\ ~Gates!WilsonBelow(r, release)
  BY <1>1, <1>2
<1> QED
  BY <1>3, <1>4

Slices == [family : RiskFamilies, reliability : Counts, critical : Nat, unsafe : BOOLEAN,
           slow : {"none", "resolved", "unresolved"}]
GatesTypes ==
  /\ release \in Gates!Thresholds
  /\ trials \in Seq(Trials) /\ slices \in Seq(Slices)

\* What a report takes over: it calls a pass exactly what its evidence shows to be one.
PassesSucceeded == \A i \in 1 .. Len(trials) : trials[i].verdict = "PASS" <=> Gates!Succeeded(trials[i])

\* A record is of the session as it is, or some verdict has become more frequent since.
RecordIsOfSession ==
  criticality # Gates!NoRecord =>
    LET r == criticality.reliability q == Gates!ReliabilityOf(trials)
    IN /\ r \in Counts /\ criticality.critical \in Nat
       /\ r.passes <= q.passes /\ r.failures <= q.failures /\ r.blocked <= q.blocked
       /\ r.inconclusive <= q.inconclusive
       /\ r = q => criticality.critical = Gates!CriticalViolations(trials)

\* A session is accepted on its own counts.
AcceptedOnCounts ==
  verdictOfGate = "accept" =>
    Gates!Decide(Gates!ReliabilityOf(trials), Gates!CriticalViolations(trials)) = "accept"

\* What a slice carries into the release.
SlicesAreHonest ==
  \A i \in 1 .. Len(slices) :
    /\ slices[i].unsafe => slices[i].critical > 0
    /\ slices[i].slow = "unresolved" => Gates!Unresolved(slices[i].reliability) > 0

\* A release is accepted slice by slice.
AcceptedBySlices ==
  decision = "accept" =>
    /\ RequiredFamilies \subseteq {slices[i].family : i \in 1 .. Len(slices)}
    /\ \A i \in 1 .. Len(slices) :
         /\ Gates!Decide(slices[i].reliability, slices[i].critical) = "accept"
         /\ slices[i].slow = "none"
GatesInv ==
  /\ GatesTypes /\ PassesSucceeded /\ RecordIsOfSession /\ AcceptedOnCounts
  /\ SlicesAreHonest /\ AcceptedBySlices

\* A trial is taken over, or its report refused.
LEMMA TrialTaken ==
  ASSUME GatesInv, Gates!TakeTrial
  PROVE  GatesInv'
<1>1. /\ verdictOfGate = "none" /\ decision = "none"
      /\ UNCHANGED <<release, profile, criticality, slices, decision>>
  BY DEF Gates!TakeTrial
<1>2. PICK e \in Gates!Facts, claimed \in Gates!Verdicts, graded \in BOOLEAN :
        IF Gates!Derivable(e, claimed, graded)
          THEN trials' = Append(trials, [verdict |-> claimed, facts |-> e]) /\ UNCHANGED verdictOfGate
          ELSE verdictOfGate' = "refused" /\ UNCHANGED trials
  BY DEF Gates!TakeTrial
<1>3. CASE ~Gates!Derivable(e, claimed, graded)
  <2>1. verdictOfGate' = "refused" /\ UNCHANGED trials
    BY <1>2, <1>3
  <2> QED
    BY <1>1, <2>1 DEF GatesInv, GatesTypes, PassesSucceeded, RecordIsOfSession, AcceptedOnCounts,
      SlicesAreHonest, AcceptedBySlices
<1>4. CASE Gates!Derivable(e, claimed, graded)
  <2> DEFINE t == [verdict |-> claimed, facts |-> e]
             n == Len(trials)
  <2>1. trials' = Append(trials, t) /\ verdictOfGate' = "none" /\ t \in Trials /\ t.verdict = claimed
    BY <1>1, <1>2, <1>4 DEF Trials
  <2>2. trials \in Seq(Trials)
    BY DEF GatesInv, GatesTypes
  <2> HIDE DEF t
  <2>3. /\ trials' \in Seq(Trials) /\ Len(trials') = n + 1 /\ n \in Nat
        /\ \A i \in 1 .. n : trials'[i] = trials[i]
        /\ trials'[n + 1] = t
    BY <2>1, <2>2, Appended
  <2>4. GatesTypes'
    BY <1>1, <2>3 DEF GatesInv, GatesTypes
  <2>5. PassesSucceeded'
    <3>1. t.verdict = "PASS" <=> Gates!Succeeded(t)
      BY <1>4 DEF t, Gates!Derivable, Gates!Derived, Gates!DeterministicFails, Gates!Succeeded,
        Gates!Facts, Gates!Verdicts
    <3> QED
      BY <2>3, <3>1 DEF GatesInv, PassesSucceeded
  <2>6. RecordIsOfSession'
    <3> DEFINE q == Gates!ReliabilityOf(trials)
               p == Gates!ReliabilityOf(trials')
               r == criticality.reliability
    <3>1. /\ q \in Counts /\ p \in Counts
          /\ p.passes = q.passes + (IF claimed = "PASS" THEN 1 ELSE 0)
          /\ p.failures = q.failures + (IF claimed = "FAIL" THEN 1 ELSE 0)
          /\ p.blocked = q.blocked + (IF claimed = "BLOCKED" THEN 1 ELSE 0)
          /\ p.inconclusive = q.inconclusive + (IF claimed = "INCONCLUSIVE" THEN 1 ELSE 0)
      <4>1. \A v : Gates!CountOf(trials', v) = Gates!CountOf(trials, v) + (IF claimed = v THEN 1 ELSE 0)
        BY <2>1, <2>2, CountAppend
      <4>2. q \in Counts /\ p \in Counts
        BY <2>2, <2>3, ReliabilityType
      <4>3. /\ q.passes = Gates!CountOf(trials, "PASS") /\ p.passes = Gates!CountOf(trials', "PASS")
            /\ q.failures = Gates!CountOf(trials, "FAIL") /\ p.failures = Gates!CountOf(trials', "FAIL")
            /\ q.blocked = Gates!CountOf(trials, "BLOCKED")
            /\ p.blocked = Gates!CountOf(trials', "BLOCKED")
            /\ q.inconclusive = Gates!CountOf(trials, "INCONCLUSIVE")
            /\ p.inconclusive = Gates!CountOf(trials', "INCONCLUSIVE")
        BY DEF Gates!ReliabilityOf
      <4> QED
        BY <4>1, <4>2, <4>3
    <3> HIDE DEF q, p
    <3> SUFFICES ASSUME criticality # Gates!NoRecord
                 PROVE  /\ r.passes <= p.passes /\ r.failures <= p.failures /\ r.blocked <= p.blocked
                        /\ r.inconclusive <= p.inconclusive /\ r # p
                        /\ r \in Counts /\ criticality.critical \in Nat
      BY <1>1 DEF RecordIsOfSession, Gates!NoRecord, Gates!ReliabilityOf, Gates!CountOf,
        Gates!Cardinality, p
    <3>2. /\ r.passes <= q.passes /\ r.failures <= q.failures /\ r.blocked <= q.blocked
          /\ r.inconclusive <= q.inconclusive
          /\ r \in Counts /\ criticality.critical \in Nat
      BY DEF GatesInv, RecordIsOfSession, q
    <3>3. claimed \in {"PASS", "FAIL", "BLOCKED", "INCONCLUSIVE"}
      BY DEF Gates!Verdicts
    <3> QED
      BY <3>1, <3>2, <3>3 DEF Counts
  <2>7. AcceptedOnCounts' /\ SlicesAreHonest' /\ AcceptedBySlices'
    BY <1>1, <2>1 DEF GatesInv, AcceptedOnCounts, SlicesAreHonest, AcceptedBySlices
  <2> QED
    BY <2>4, <2>5, <2>6, <2>7 DEF GatesInv
<1> QED
  BY <1>3, <1>4

\* The session is decided, with a fresh count of violations or a verified one.
LEMMA SessionDecided ==
  ASSUME GatesInv, Gates!VerifyCriticality \/ Gates!IssueReport \/ Gates!DecideVerified
  PROVE  GatesInv'
<1>1. UNCHANGED <<release, profile, trials, slices, decision>>
  BY DEF Gates!VerifyCriticality, Gates!IssueReport, Gates!DecideVerified
<1>2. trials \in Seq(Trials)
  BY DEF GatesInv, GatesTypes
<1>3. GatesTypes' /\ PassesSucceeded' /\ SlicesAreHonest' /\ AcceptedBySlices'
  <2>1. GatesTypes' /\ PassesSucceeded'
    BY <1>1 DEF GatesInv, GatesTypes, PassesSucceeded
  <2>2. SlicesAreHonest' /\ AcceptedBySlices'
    BY <1>1 DEF GatesInv, SlicesAreHonest, AcceptedBySlices, Gates!Unresolved, Gates!Decide,
      Gates!RateBelow, Gates!WilsonBelow, Gates!Resolved
  <2> QED
    BY <2>1, <2>2
<1>4. RecordIsOfSession'
  <2>1. CASE Gates!VerifyCriticality
    <3>1. criticality' = [reliability |-> Gates!ReliabilityOf(trials),
                          critical |-> Gates!CriticalViolations(trials)]
      BY <2>1 DEF Gates!VerifyCriticality
    <3>2. Gates!ReliabilityOf(trials) \in Counts /\ Gates!CriticalViolations(trials) \in Nat
      BY <1>2, ReliabilityType, CriticalCounts
    <3> QED
      BY <1>1, <3>1, <3>2 DEF RecordIsOfSession, Counts
  <2>2. CASE criticality' = criticality
    BY <1>1, <2>2 DEF GatesInv, RecordIsOfSession
  <2> QED
    BY <2>1, <2>2 DEF Gates!IssueReport, Gates!DecideVerified
<1>5. AcceptedOnCounts'
  <2>1. CASE Gates!VerifyCriticality
    BY <1>1, <2>1 DEF Gates!VerifyCriticality, AcceptedOnCounts
  <2>2. CASE Gates!IssueReport
    <3>1. verdictOfGate' = Gates!Decide(Gates!ReliabilityOf(trials), Gates!CriticalViolations(trials))
      BY <2>2 DEF Gates!IssueReport
    <3> QED
      BY <1>1, <3>1 DEF AcceptedOnCounts, Gates!Decide, Gates!RateBelow, Gates!WilsonBelow
  <2>3. CASE Gates!DecideVerified
    <3>1. /\ criticality # Gates!NoRecord
          /\ verdictOfGate' = IF criticality.reliability = Gates!ReliabilityOf(trials)
                              THEN Gates!Decide(Gates!ReliabilityOf(trials), criticality.critical)
                              ELSE "refused"
      BY <2>3 DEF Gates!DecideVerified
    <3>2. criticality.reliability = Gates!ReliabilityOf(trials)
            => criticality.critical = Gates!CriticalViolations(trials)
      BY <3>1 DEF GatesInv, RecordIsOfSession
    <3> QED
      BY <1>1, <3>1, <3>2 DEF AcceptedOnCounts, Gates!Decide, Gates!RateBelow, Gates!WilsonBelow
  <2> QED
    BY <2>1, <2>2, <2>3
<1> QED
  BY <1>3, <1>4, <1>5 DEF GatesInv

\* A decided session becomes a slice.
LEMMA SliceAdded ==
  ASSUME GatesInv, Gates!AddSlice
  PROVE  GatesInv'
<1>1. /\ trials' = << >> /\ criticality' = Gates!NoRecord /\ verdictOfGate' = "none"
      /\ UNCHANGED <<release, profile, decision>> /\ decision = "none"
  BY DEF Gates!AddSlice
<1>2. trials \in Seq(Trials) /\ DOMAIN trials = 1 .. Len(trials)
  BY LenProperties DEF GatesInv, GatesTypes
<1>3. PICK f \in RiskFamilies, slow \in {"none", "resolved", "unresolved"} :
        /\ slow = "unresolved" => \E t \in Gates!ToSet(trials) : t.verdict \notin {"PASS", "FAIL"}
        /\ slices' = Append(slices, [family |-> f, reliability |-> Gates!ReliabilityOf(trials),
                                     critical |-> Gates!CriticalViolations(trials),
                                     unsafe |-> Gates!Unsafe(trials), slow |-> slow])
  BY DEF Gates!AddSlice
<1> DEFINE unsafe == Gates!Unsafe(trials)
           q == Gates!ReliabilityOf(trials)
           c == Gates!CriticalViolations(trials)
           s == [family |-> f, reliability |-> q, critical |-> c, unsafe |-> unsafe, slow |-> slow]
           n == Len(slices)
<1>4. q \in Counts /\ c \in Nat /\ unsafe \in BOOLEAN /\ (unsafe => c > 0)
  <2>1. unsafe \in BOOLEAN
    BY DEF Gates!Unsafe
  <2> QED
    BY <1>2, <2>1, ReliabilityType, CriticalCounts
<1>5. slow = "unresolved" => Gates!Unresolved(q) > 0
  <2> SUFFICES ASSUME slow = "unresolved" PROVE Gates!Unresolved(q) > 0
    OBVIOUS
  <2>1. PICK i \in 1 .. Len(trials) : trials[i].verdict \notin {"PASS", "FAIL"}
    BY <1>2, <1>3 DEF Gates!ToSet
  <2>2. trials[i].verdict \in {"BLOCKED", "INCONCLUSIVE"}
    <3>1. trials[i] \in Trials
      BY <1>2, ElementOfSeq
    <3> QED
      BY <2>1, <3>1 DEF Trials, Gates!Verdicts
  <2>3. \/ Gates!CountOf(trials, "BLOCKED") > 0 \/ Gates!CountOf(trials, "INCONCLUSIVE") > 0
    BY <1>2, <2>2, CountType
  <2>4. q.blocked > 0 \/ q.inconclusive > 0
    BY <2>3 DEF Gates!ReliabilityOf
  <2> HIDE DEF q
  <2> QED
    BY <1>4, <2>4 DEF Gates!Unresolved, Counts
<1>6. slices' = Append(slices, s)
  BY <1>3
<1> HIDE DEF unsafe, q, c
<1>7. s \in Slices
  BY <1>4 DEF Slices
<1>8. /\ s.unsafe => s.critical > 0
      /\ s.slow = "unresolved" => Gates!Unresolved(s.reliability) > 0
  BY <1>4, <1>5
<1> HIDE DEF s
<1>9. /\ slices' \in Seq(Slices) /\ Len(slices') = n + 1 /\ n \in Nat
      /\ \A i \in 1 .. n : slices'[i] = slices[i]
      /\ slices'[n + 1] = s
  BY <1>6, <1>7, Appended DEF GatesInv, GatesTypes
<1>10. GatesTypes' /\ PassesSucceeded' /\ RecordIsOfSession' /\ AcceptedOnCounts' /\ AcceptedBySlices'
  BY <1>1, <1>9 DEF GatesInv, GatesTypes, PassesSucceeded, RecordIsOfSession, Gates!NoRecord,
    AcceptedOnCounts, AcceptedBySlices
<1>11. SlicesAreHonest'
  BY <1>8, <1>9 DEF GatesInv, SlicesAreHonest
<1> QED
  BY <1>10, <1>11 DEF GatesInv

\* The release is decided from its slices.
LEMMA ReleaseDecided ==
  ASSUME GatesInv, Gates!DecideRelease
  PROVE  GatesInv'
<1>1. /\ verdictOfGate = "none" /\ UNCHANGED <<release, profile, trials, criticality, verdictOfGate, slices>>
      /\ slices \in Seq(Slices) /\ DOMAIN slices = 1 .. Len(slices)
  BY LenProperties DEF Gates!DecideRelease, GatesInv, GatesTypes
<1>2. PICK resolvedOnly \in BOOLEAN :
        decision' = Gates!Combine(Gates!Decisions(slices)
                                    \cup {Gates!Operational(s, resolvedOnly, FALSE) : s \in Gates!ToSet(slices)},
                                  Gates!Missing(slices) # {})
  BY DEF Gates!DecideRelease
<1> DEFINE ds == Gates!Decisions(slices)
                   \cup {Gates!Operational(s, resolvedOnly, FALSE) : s \in Gates!ToSet(slices)}
<1>3. decision' = "accept" => "reject" \notin ds /\ "inconclusive" \notin ds /\ Gates!Missing(slices) = {}
  BY <1>2 DEF Gates!Combine
<1>4. \A i \in 1 .. Len(slices) :
        /\ Gates!Decide(slices[i].reliability, slices[i].critical) \in ds
        /\ Gates!Operational(slices[i], resolvedOnly, FALSE) \in ds
  <2> SUFFICES ASSUME NEW i \in 1 .. Len(slices)
               PROVE  /\ Gates!Decide(slices[i].reliability, slices[i].critical) \in Gates!Decisions(slices)
                      /\ Gates!Operational(slices[i], resolvedOnly, FALSE)
                           \in {Gates!Operational(s, resolvedOnly, FALSE) : s \in Gates!ToSet(slices)}
    OBVIOUS
  <2>1. slices[i] \in Gates!ToSet(slices)
    BY <1>1 DEF Gates!ToSet
  <2>2. Gates!Decide(slices[i].reliability, slices[i].critical) \in Gates!Decisions(slices)
    BY <2>1 DEF Gates!Decisions
  <2> QED
    BY <2>1, <2>2
<1> HIDE DEF ds
<1>5. ASSUME decision' = "accept", NEW i \in 1 .. Len(slices)
      PROVE  /\ Gates!Decide(slices[i].reliability, slices[i].critical) = "accept"
             /\ slices[i].slow = "none"
  <2>1. slices[i] \in Slices /\ release \in Gates!Thresholds
    BY <1>1, ElementOfSeq DEF GatesInv, GatesTypes
  <2>2. slices[i].reliability \in Counts /\ slices[i].critical \in Nat
        /\ slices[i].slow \in {"none", "resolved", "unresolved"}
    BY <2>1 DEF Slices
  <2>3. Gates!Decide(slices[i].reliability, slices[i].critical) \in {"reject", "inconclusive", "accept"}
    BY <2>1, <2>2, Accepts
  <2>4. Gates!Decide(slices[i].reliability, slices[i].critical) = "accept"
    BY <1>3, <1>4, <1>5, <2>3
  <2>5. slices[i].slow = "unresolved" => Gates!Unresolved(slices[i].reliability) > 0
    BY DEF GatesInv, SlicesAreHonest
  <2>6. /\ Gates!Operational(slices[i], resolvedOnly, FALSE) # "reject"
        /\ Gates!Operational(slices[i], resolvedOnly, FALSE) # "inconclusive"
    BY <1>3, <1>4, <1>5
  <2>7. slices[i].slow # "resolved"
    BY <2>6 DEF Gates!Operational
  <2>8. slices[i].slow # "unresolved"
    BY <2>5, <2>6 DEF Gates!Operational
  <2> QED
    BY <2>2, <2>4, <2>7, <2>8
<1>6. ASSUME decision' = "accept"
      PROVE  RequiredFamilies \subseteq {slices[i].family : i \in 1 .. Len(slices)}
  <2>1. RequiredFamilies \subseteq {s.family : s \in Gates!ToSet(slices)}
    BY <1>3, <1>6 DEF Gates!Missing
  <2> QED
    BY <1>1, <2>1 DEF Gates!ToSet
<1>7. GatesTypes' /\ PassesSucceeded' /\ RecordIsOfSession' /\ SlicesAreHonest'
  <2>1. GatesTypes' /\ PassesSucceeded'
    BY <1>1 DEF GatesInv, GatesTypes, PassesSucceeded
  <2>2. RecordIsOfSession'
    BY <1>1 DEF GatesInv, RecordIsOfSession
  <2>3. SlicesAreHonest'
    BY <1>1 DEF GatesInv, SlicesAreHonest
  <2> QED
    BY <2>1, <2>2, <2>3
<1>8. AcceptedOnCounts'
  BY <1>1 DEF AcceptedOnCounts
<1>9. AcceptedBySlices'
  <2>1. \A i \in 1 .. Len(slices) :
          (Gates!Decide(slices[i].reliability, slices[i].critical))'
            = Gates!Decide(slices[i].reliability, slices[i].critical)
    BY <1>1 DEF Gates!Decide, Gates!RateBelow, Gates!WilsonBelow
  <2> QED
    BY <1>1, <1>5, <1>6, <2>1 DEF AcceptedBySlices
<1> QED
  BY <1>7, <1>8, <1>9 DEF GatesInv

\* What an accepted session shows of its own trials.
LEMMA SupportedByTrials ==
  ASSUME GatesInv, verdictOfGate = "accept"
  PROVE  /\ release.maxCritical = 0 => ~Gates!Unsafe(trials)
         /\ LET r == [Gates!ReliabilityOf(trials) EXCEPT
                        !.passes = Gates!Cardinality({i \in 1 .. Len(trials) : Gates!Succeeded(trials[i])})]
            IN Gates!Resolved(r) > 0 /\ ~Gates!RateBelow(r, release) /\ ~Gates!WilsonBelow(r, release)
<1> DEFINE q == Gates!ReliabilityOf(trials)
           c == Gates!CriticalViolations(trials)
           shown == {i \in 1 .. Len(trials) : Gates!Succeeded(trials[i])}
           passed == {i \in 1 .. Len(trials) : trials[i].verdict = "PASS"}
<1>1. /\ trials \in Seq(Trials) /\ release \in Gates!Thresholds /\ Gates!Decide(q, c) = "accept"
  BY DEF GatesInv, GatesTypes, AcceptedOnCounts
<1>2. q \in Counts /\ c \in Nat /\ (Gates!Unsafe(trials) => c > 0)
  BY <1>1, ReliabilityType, CriticalCounts
<1>3. shown = passed
  BY DEF GatesInv, PassesSucceeded
<1>4. q.passes = Gates!Cardinality(passed)
  BY DEF Gates!ReliabilityOf, Gates!CountOf
<1> HIDE DEF q, c, shown, passed
<1>5. [q EXCEPT !.passes = Gates!Cardinality(shown)] = q
  BY <1>2, <1>3, <1>4 DEF Counts
<1>6. /\ Gates!Resolved(q) > 0 /\ c <= release.maxCritical
      /\ ~Gates!RateBelow(q, release) /\ ~Gates!WilsonBelow(q, release)
  BY <1>1, <1>2, Accepts
<1>7. release.maxCritical = 0 => ~Gates!Unsafe(trials)
  BY <1>2, <1>6
<1> QED
  BY <1>5, <1>6, <1>7 DEF q, shown

\* What an accepted release shows of its slices.
LEMMA SupportedBySlices ==
  ASSUME GatesInv, decision = "accept"
  PROVE  /\ RequiredFamilies \subseteq {slices[i].family : i \in 1 .. Len(slices)}
         /\ \A i \in 1 .. Len(slices) :
              /\ slices[i].slow = "none" /\ Gates!Resolved(slices[i].reliability) > 0
              /\ ~Gates!RateBelow(slices[i].reliability, release)
              /\ release.maxCritical = 0 => ~slices[i].unsafe
<1>1. RequiredFamilies \subseteq {slices[i].family : i \in 1 .. Len(slices)}
  BY DEF GatesInv, AcceptedBySlices
<1>2. ASSUME NEW i \in 1 .. Len(slices)
      PROVE  /\ slices[i].slow = "none" /\ Gates!Resolved(slices[i].reliability) > 0
             /\ ~Gates!RateBelow(slices[i].reliability, release)
             /\ release.maxCritical = 0 => ~slices[i].unsafe
  <2>1. slices[i] \in Slices /\ release \in Gates!Thresholds
    BY LenProperties, ElementOfSeq DEF GatesInv, GatesTypes
  <2>2. slices[i].reliability \in Counts /\ slices[i].critical \in Nat
    BY <2>1 DEF Slices
  <2>3. /\ Gates!Decide(slices[i].reliability, slices[i].critical) = "accept"
        /\ slices[i].slow = "none" /\ (slices[i].unsafe => slices[i].critical > 0)
    BY DEF GatesInv, AcceptedBySlices, SlicesAreHonest
  <2>4. /\ Gates!Resolved(slices[i].reliability) > 0 /\ slices[i].critical <= release.maxCritical
        /\ ~Gates!RateBelow(slices[i].reliability, release)
    BY <2>1, <2>2, <2>3, Accepts
  <2> QED
    BY <2>2, <2>3, <2>4
<1> QED
  BY <1>1, <1>2

\* For every release policy, whatever the trials show, however often the session is verified, reported
\* and decided and in whatever order, and however the release is sliced: nothing compensates for a
\* critical violation, and what is accepted is supported by the evidence of its own trials.
THEOREM GatesAreSound == AssuranceSpec => []GateIsSound
<1> DEFINE Inv == part = "gates" => GatesInv
<1>1. AssuranceInit => Inv
  <2>1. ASSUME Gates!Init PROVE GatesInv
    <3>1. /\ release \in Gates!Thresholds /\ trials = << >> /\ criticality = Gates!NoRecord
          /\ verdictOfGate = "none" /\ slices = << >> /\ decision = "none"
      BY <2>1, GatesAssumption DEF Gates!Init
    <3>2. trials \in Seq(Trials) /\ slices \in Seq(Slices) /\ Len(trials) = 0 /\ Len(slices) = 0
      BY <3>1
    <3> QED
      BY <3>1, <3>2 DEF GatesInv, GatesTypes, PassesSucceeded, RecordIsOfSession, AcceptedOnCounts,
        SlicesAreHonest, AcceptedBySlices
  <2> QED
    BY <2>1, OnePartBegins
<1>2. Inv /\ [AssuranceNext]_<<part, gatesVars, canaryVars, deltaVars, approvalsVars, memoryVars,
                               scanVars, governanceVars>> => Inv'
  <2>1. ASSUME GatesInv, UNCHANGED gatesVars PROVE GatesInv'
    <3>1. UNCHANGED <<release, profile, trials, criticality, verdictOfGate, slices, decision>>
      BY <2>1 DEF gatesVars
    <3>2. GatesTypes' /\ PassesSucceeded'
      BY <2>1, <3>1 DEF GatesInv, GatesTypes, PassesSucceeded
    <3>3. RecordIsOfSession' /\ SlicesAreHonest'
      BY <2>1, <3>1 DEF GatesInv, RecordIsOfSession, SlicesAreHonest
    <3>4. AcceptedOnCounts' /\ AcceptedBySlices'
      BY <2>1, <3>1 DEF GatesInv, AcceptedOnCounts, AcceptedBySlices, Gates!Decide, Gates!RateBelow,
        Gates!WilsonBelow
    <3> QED
      BY <3>2, <3>3, <3>4 DEF GatesInv
  <2>2. GatesInv /\ Gates!Next => GatesInv'
    BY TrialTaken, SessionDecided, SliceAdded, ReleaseDecided DEF Gates!Next
  <2> QED
    BY <2>1, <2>2, OnePartMoves
<1>3. Inv => GateIsSound
  <2> SUFFICES ASSUME GatesInv
               PROVE  Gates!SafetyIsNotCompensated /\ Gates!AcceptanceIsSupported
    BY DEF GateIsSound
  <2>1. Gates!SafetyIsNotCompensated
    BY SupportedByTrials, SupportedBySlices DEF Gates!SafetyIsNotCompensated
  <2>2. Gates!AcceptanceIsSupported
    BY SupportedByTrials, SupportedBySlices DEF Gates!AcceptanceIsSupported
  <2> QED
    BY <2>1, <2>2
<1> QED
  BY <1>1, <1>2, <1>3, PTL DEF AssuranceSpec

-----------------------------------------------------------------------------
(* Delta debugging                                                            *)

LEMMA Extremes ==
  ASSUME NEW a \in Int, NEW b \in Int
  PROVE  /\ Delta!Max({a, b}) = IF a >= b THEN a ELSE b
         /\ Delta!Min({a, b}) = IF a <= b THEN a ELSE b
<1>1. \E x \in {a, b} : \A y \in {a, b} : x >= y
  OBVIOUS
<1>2. \E x \in {a, b} : \A y \in {a, b} : x <= y
  OBVIOUS
<1>3. /\ Delta!Max({a, b}) \in {a, b} /\ \A y \in {a, b} : Delta!Max({a, b}) >= y
  BY <1>1 DEF Delta!Max
<1>4. /\ Delta!Min({a, b}) \in {a, b} /\ \A y \in {a, b} : Delta!Min({a, b}) <= y
  BY <1>2 DEF Delta!Min
<1> QED
  BY <1>3, <1>4

\* The ranges cover the input from its start to its end, one after the other; as many ranges as
\* items are single items.
LEMMA Partition ==
  ASSUME NEW length \in Nat, length >= 2, NEW parts \in Nat, parts >= 2
  PROVE  LET ranges == Delta!PartitionRanges(length, parts)
         IN /\ Len(ranges) = (IF parts <= length THEN parts ELSE length)
            /\ \A p \in 1 .. Len(ranges) :
                 /\ ranges[p][1] \in Nat /\ ranges[p][2] \in Nat
                 /\ ranges[p][1] <= ranges[p][2] /\ ranges[p][2] <= length
            /\ parts >= length => \A p \in 1 .. length : ranges[p] = <<p - 1, p>>
<1> DEFINE n == IF parts <= length THEN parts ELSE length
           base == length \div n
           rest == length % n
           Smaller(a, b) == IF a <= b THEN a ELSE b
           Start(i) == (i - 1) * base + Smaller(i - 1, rest)
           ranges == Delta!PartitionRanges(length, parts)
<1>1. Delta!Max({1, Delta!Min({parts, length})}) = n /\ n \in Nat /\ n >= 2 /\ n <= length
  BY Extremes
<1>2. base \in Nat /\ rest \in Nat /\ rest < n /\ length = n * base + rest
  <2> HIDE DEF n
  <2> QED
    BY <1>1
<1>3. n = length => base = 1 /\ rest = 0
  <2> HIDE DEF n
  <2> QED
    BY <1>1
<1> HIDE DEF base, rest
<1>4. ranges = [p \in 1 .. n |-> <<Start(p), Start(p + 1)>>]
  <2>1. \A i \in Nat : Delta!Min({i - 1, rest}) = Smaller(i - 1, rest)
    <3> SUFFICES ASSUME NEW i \in Nat PROVE Delta!Min({i - 1, rest}) = Smaller(i - 1, rest)
      OBVIOUS
    <3>1. i - 1 \in Int /\ rest \in Int
      BY <1>2
    <3> QED
      BY <3>1, Extremes
  <2> HIDE DEF n, Smaller
  <2>2. Delta!PartitionRanges(length, parts)
          = [p \in 1 .. n |-> <<(p - 1) * base + Delta!Min({p - 1, rest}),
                                ((p + 1) - 1) * base + Delta!Min({(p + 1) - 1, rest})>>]
    BY <1>1 DEF Delta!PartitionRanges, base, rest
  <2>3. \A p \in 1 .. n : p \in Nat /\ p + 1 \in Nat
    BY <1>1
  <2> QED
    BY <2>1, <2>2, <2>3
<1> HIDE DEF n, ranges
<1>5. Len(ranges) = n /\ \A p \in 1 .. n : ranges[p] = <<Start(p), Start(p + 1)>>
  BY <1>1, <1>4
<1>6. ASSUME NEW p \in 1 .. n
      PROVE  Start(p) \in Nat /\ Start(p + 1) \in Nat /\ Start(p) <= Start(p + 1) /\ Start(p + 1) <= length
  <2> DEFINE a == (p - 1) * base
             b == p * base
             z == n * base
  <2>1. a \in Nat /\ b \in Nat /\ z \in Nat /\ b = a + base
    BY <1>1, <1>2
  <2>2. b <= z
    <3>1. n - p \in Nat /\ z = b + (n - p) * base
      BY <1>1, <1>2
    <3>2. (n - p) * base \in Nat
      BY <1>2, <3>1
    <3> QED
      BY <2>1, <3>1, <3>2
  <2>3. Start(p) = a + Smaller(p - 1, rest) /\ Start(p + 1) = b + Smaller(p, rest)
    BY <1>1
  <2>4. length = z + rest
    BY <1>2
  <2> HIDE DEF a, b, z, Start
  <2> QED
    BY <1>1, <1>2, <2>1, <2>2, <2>3, <2>4
<1>7. ASSUME parts >= length, NEW p \in 1 .. length
      PROVE  ranges[p] = <<p - 1, p>>
  <2>1. n = length
    BY <1>7 DEF n
  <2>2. Start(p) = p - 1 /\ Start(p + 1) = p
    BY <1>3, <2>1
  <2> HIDE DEF Start
  <2> QED
    BY <1>5, <2>1, <2>2
<1> HIDE DEF Start
<1>8. \A p \in 1 .. n : /\ ranges[p][1] \in Nat /\ ranges[p][2] \in Nat
                        /\ ranges[p][1] <= ranges[p][2] /\ ranges[p][2] <= length
  BY <1>5, <1>6
<1> QED
  BY <1>5, <1>7, <1>8 DEF n, ranges

Elements == {items[i] : i \in 1 .. Len(items)}
Place(x) == CHOOSE i \in 1 .. Len(items) : items[i] = x
Ordered(s) == \A i, j \in 1 .. Len(s) : i < j => Place(s[i]) < Place(s[j])

\* What a search takes from an input comes in the order of the input.
LEMMA OrderStays ==
  ASSUME NEW s \in Seq(Elements), Ordered(s),
         NEW a \in Nat, NEW b \in Nat, a <= b, b <= Len(s)
  PROVE  /\ SubSeq(s, a + 1, b) \in Seq(Elements) /\ Ordered(SubSeq(s, a + 1, b))
         /\ SubSeq(s, 1, a) \o SubSeq(s, b + 1, Len(s)) \in Seq(Elements)
         /\ Ordered(SubSeq(s, 1, a) \o SubSeq(s, b + 1, Len(s)))
<1> DEFINE n == Len(s)
           mid == SubSeq(s, a + 1, b)
           low == SubSeq(s, 1, a)
           high == SubSeq(s, b + 1, n)
           both == low \o high
<1>1. n \in Nat /\ \A i \in 1 .. n : s[i] \in Elements
  BY LenProperties, ElementOfSeq
<1> HIDE DEF n
<1>2. /\ mid \in Seq(Elements) /\ Len(mid) = b - a /\ \A i \in 1 .. b - a : mid[i] = s[a + i]
  <2>1. \A i \in a + 1 .. b : s[i] \in Elements
    BY <1>1 DEF n
  <2>2. /\ mid \in Seq(Elements) /\ Len(mid) = IF a + 1 <= b THEN b - (a + 1) + 1 ELSE 0
        /\ \A i \in 1 .. b - (a + 1) + 1 : mid[i] = s[(a + 1) + i - 1]
    BY <2>1, SubSeqProperties, a + 1 \in Int, b \in Int
  <2> HIDE DEF mid
  <2>3. b - (a + 1) + 1 = b - a /\ \A i \in 1 .. b - a : (a + 1) + i - 1 = a + i
    OBVIOUS
  <2> QED
    BY <2>2, <2>3
<1>3. /\ low \in Seq(Elements) /\ Len(low) = a /\ \A i \in 1 .. a : low[i] = s[i]
  <2>1. \A i \in 1 .. a : s[i] \in Elements
    BY <1>1 DEF n
  <2>2. /\ low \in Seq(Elements) /\ Len(low) = IF 1 <= a THEN a - 1 + 1 ELSE 0
        /\ \A i \in 1 .. a - 1 + 1 : low[i] = s[1 + i - 1]
    BY <2>1, SubSeqProperties, 1 \in Int, a \in Int
  <2> HIDE DEF low
  <2>3. a - 1 + 1 = a /\ \A i \in 1 .. a : 1 + i - 1 = i
    OBVIOUS
  <2> QED
    BY <2>2, <2>3
<1>4. /\ high \in Seq(Elements) /\ Len(high) = n - b /\ \A i \in 1 .. n - b : high[i] = s[b + i]
  <2>1. \A i \in b + 1 .. n : s[i] \in Elements
    BY <1>1
  <2>2. /\ high \in Seq(Elements) /\ Len(high) = IF b + 1 <= n THEN n - (b + 1) + 1 ELSE 0
        /\ \A i \in 1 .. n - (b + 1) + 1 : high[i] = s[(b + 1) + i - 1]
    BY <1>1, <2>1, SubSeqProperties, b + 1 \in Int, n \in Int
  <2> HIDE DEF high
  <2>3. n - (b + 1) + 1 = n - b /\ \A i \in 1 .. n - b : (b + 1) + i - 1 = b + i
    BY <1>1
  <2>4. b <= n
    BY DEF n
  <2> QED
    BY <1>1, <2>2, <2>3, <2>4
<1> HIDE DEF mid, low, high
<1>5. /\ both \in Seq(Elements) /\ Len(both) = a + (n - b)
      /\ \A i \in 1 .. a + (n - b) : both[i] = IF i <= a THEN s[i] ELSE s[b + (i - a)]
  <2>1. /\ both \in Seq(Elements) /\ Len(both) = a + (n - b)
        /\ \A i \in 1 .. a + (n - b) : both[i] = IF i <= a THEN low[i] ELSE high[i - a]
    <3>1. /\ both \in Seq(Elements) /\ Len(both) = Len(low) + Len(high)
          /\ \A i \in 1 .. Len(low) + Len(high) : both[i] = IF i <= Len(low) THEN low[i]
                                                               ELSE high[i - Len(low)]
      BY <1>3, <1>4, ConcatProperties
    <3> HIDE DEF both
    <3> QED
      BY <1>3, <1>4, <3>1
  <2> HIDE DEF both
  <2>2. b <= n
    BY DEF n
  <2>3. ASSUME NEW i \in 1 .. a + (n - b)
        PROVE  both[i] = IF i <= a THEN s[i] ELSE s[b + (i - a)]
    <3>1. CASE i <= a
      <4>1. i \in 1 .. a
        BY <1>1, <3>1
      <4> QED
        BY <1>3, <2>1, <3>1, <4>1
    <3>2. CASE ~(i <= a)
      <4>1. i - a \in 1 .. n - b
        BY <1>1, <2>2, <3>2
      <4> QED
        BY <1>4, <2>1, <3>2, <4>1
    <3> QED
      BY <3>1, <3>2
  <2> QED
    BY <2>1, <2>3
<1> HIDE DEF both
<1>6. b <= n /\ \A i, j \in 1 .. n : i < j => Place(s[i]) < Place(s[j])
  BY DEF Ordered, n
<1>7. Ordered(mid)
  <2> SUFFICES ASSUME NEW i \in 1 .. b - a, NEW j \in 1 .. b - a, i < j
               PROVE  Place(mid[i]) < Place(mid[j])
    BY <1>2 DEF Ordered
  <2>1. a + i \in 1 .. n /\ a + j \in 1 .. n /\ a + i < a + j
    BY <1>1, <1>6
  <2> QED
    BY <1>2, <1>6, <2>1
<1>8. Ordered(both)
  <2> SUFFICES ASSUME NEW i \in 1 .. a + (n - b), NEW j \in 1 .. a + (n - b), i < j
               PROVE  Place(both[i]) < Place(both[j])
    BY <1>5 DEF Ordered
  <2> DEFINE At(k) == IF k <= a THEN k ELSE b + (k - a)
  <2>1. At(i) \in 1 .. n /\ At(j) \in 1 .. n /\ At(i) < At(j)
    BY <1>1, <1>6
  <2>2. both[i] = s[At(i)] /\ both[j] = s[At(j)]
    BY <1>5
  <2> HIDE DEF At
  <2> QED
    BY <1>6, <2>1, <2>2
<1> QED
  BY <1>2, <1>5, <1>7, <1>8 DEF mid, both, low, high, n

Replies == [input : Seq(Elements), fails : BOOLEAN]
Said(v, s, f) == \E k \in 1 .. Len(v) : v[k] = [input |-> s, fails |-> f]
Pieces(s, parts) == Delta!PartitionRanges(Len(s), parts)
Without(s, r) == SubSeq(s, 1, r[1]) \o SubSeq(s, r[2] + 1, Len(s))

DeltaTypes ==
  /\ items \in Inputs /\ budget \in Nat \ {0}
  /\ current \in Seq(Elements) /\ Ordered(current)
  /\ granularity \in Nat /\ granularity >= 2 /\ evaluations \in Nat
  /\ verdicts \in Seq(Replies)

\* Only the first evaluation does not ask for the budget.
WithinBudget == evaluations <= (IF sweep = "original" THEN 0 ELSE budget)
SeenToFail == sweep \notin {"original", "refused"} => Said(verdicts, current, TRUE)
Sweeping ==
  /\ sweep = "original" => position = 1
  /\ sweep \in {"subsets", "complements"} =>
       Len(current) >= 2 /\ position \in 1 .. Len(Pieces(current, granularity))

\* The complements before this one were seen to pass.
TriedInOrder ==
  sweep = "complements" =>
    \A p \in 1 .. position - 1 : Said(verdicts, Without(current, Pieces(current, granularity)[p]), FALSE)
OneMinimal ==
  sweep = "finished" /\ Len(current) >= 2 =>
    \A i \in 1 .. Len(current) : Said(verdicts, Without(current, <<i - 1, i>>), FALSE)
DeltaInv ==
  DeltaTypes /\ WithinBudget /\ SeenToFail /\ Sweeping /\ TriedInOrder /\ OneMinimal

\* What an answer adds to the history.
LEMMA Asks ==
  ASSUME verdicts \in Seq(Replies), NEW c \in Seq(Elements), NEW f \in BOOLEAN, Delta!Ask(c, f)
  PROVE  /\ verdicts' \in Seq(Replies) /\ evaluations' = evaluations + 1
         /\ Said(verdicts', c, f)
         /\ \A s, g : Said(verdicts, s, g) => Said(verdicts', s, g)
<1> DEFINE e == [input |-> c, fails |-> f]
<1>1. verdicts' = Append(verdicts, e) /\ evaluations' = evaluations + 1
  BY DEF Delta!Ask
<1>2. e \in Replies
  BY DEF Replies
<1> HIDE DEF e
<1>3. /\ verdicts' \in Seq(Replies) /\ Len(verdicts') = Len(verdicts) + 1 /\ Len(verdicts) \in Nat
      /\ \A i \in 1 .. Len(verdicts) : verdicts'[i] = verdicts[i]
      /\ verdicts'[Len(verdicts) + 1] = e
  BY <1>1, <1>2, Appended
<1>4. Said(verdicts', c, f)
  <2>1. Len(verdicts) + 1 \in 1 .. Len(verdicts')
    BY <1>3
  <2> QED
    BY <1>3, <2>1 DEF Said, e
<1>5. ASSUME NEW s, NEW g, Said(verdicts, s, g) PROVE Said(verdicts', s, g)
  <2>1. PICK k \in 1 .. Len(verdicts) : verdicts[k] = [input |-> s, fails |-> g]
    BY <1>5 DEF Said
  <2>2. k \in 1 .. Len(verdicts') /\ verdicts'[k] = verdicts[k]
    BY <1>3
  <2> QED
    BY <2>1, <2>2 DEF Said
<1> QED
  BY <1>1, <1>3, <1>4, <1>5

\* The range that is tried next, and what is left of the input with it or without it.
LEMMA NextPiece ==
  ASSUME DeltaInv, sweep \in {"subsets", "complements"}
  PROVE  LET pieces == Pieces(current, granularity) r == pieces[position]
         IN /\ Len(pieces) \in Nat /\ Len(pieces) >= 2 /\ position \in 1 .. Len(pieces)
            /\ granularity >= Len(current) => Len(pieces) = Len(current)
            /\ granularity >= Len(current) => \A p \in 1 .. Len(current) : pieces[p] = <<p - 1, p>>
            /\ Delta!Subset(r) \in Seq(Elements) /\ Ordered(Delta!Subset(r))
            /\ Without(current, r) \in Seq(Elements) /\ Ordered(Without(current, r))
<1> DEFINE pieces == Pieces(current, granularity)
           r == pieces[position]
<1>1. /\ current \in Seq(Elements) /\ Ordered(current) /\ Len(current) \in Nat /\ Len(current) >= 2
      /\ granularity \in Nat /\ granularity >= 2 /\ position \in 1 .. Len(pieces)
  BY LenProperties DEF DeltaInv, DeltaTypes, Sweeping
<1>2. /\ Len(pieces) = (IF granularity <= Len(current) THEN granularity ELSE Len(current))
      /\ \A p \in 1 .. Len(pieces) :
           /\ pieces[p][1] \in Nat /\ pieces[p][2] \in Nat
           /\ pieces[p][1] <= pieces[p][2] /\ pieces[p][2] <= Len(current)
      /\ granularity >= Len(current) => \A p \in 1 .. Len(current) : pieces[p] = <<p - 1, p>>
  BY <1>1, Partition DEF Pieces
<1> HIDE DEF pieces
<1>3. r[1] \in Nat /\ r[2] \in Nat /\ r[1] <= r[2] /\ r[2] <= Len(current)
  BY <1>1, <1>2
<1> HIDE DEF r
<1>4. /\ Delta!Subset(r) \in Seq(Elements) /\ Ordered(Delta!Subset(r))
      /\ Without(current, r) \in Seq(Elements) /\ Ordered(Without(current, r))
  BY <1>1, <1>3, OrderStays DEF Delta!Subset, Without
<1>5. /\ Len(pieces) \in Nat /\ Len(pieces) >= 2
      /\ granularity >= Len(current) => Len(pieces) = Len(current)
  BY <1>1, <1>2
<1> QED
  BY <1>1, <1>2, <1>4, <1>5 DEF pieces, r

\* The original input is evaluated, and the search begins, unless it passes or is too short.
LEMMA OriginalAsked ==
  ASSUME DeltaInv, Delta!EvaluateOriginal
  PROVE  DeltaInv'
<1>1. PICK fails \in BOOLEAN :
        /\ Delta!Ask(current, fails)
        /\ sweep' = IF ~fails THEN "refused" ELSE IF Len(current) < 2 THEN "finished" ELSE "subsets"
  BY DEF Delta!EvaluateOriginal
<1>2. /\ sweep = "original" /\ UNCHANGED <<items, budget, current, granularity, position>>
  BY DEF Delta!EvaluateOriginal
<1>3. /\ current \in Seq(Elements) /\ verdicts \in Seq(Replies) /\ Len(current) \in Nat
      /\ budget \in Nat \ {0} /\ evaluations \in Nat /\ evaluations <= 0
  BY <1>2, LenProperties DEF DeltaInv, DeltaTypes, WithinBudget
<1>4. /\ verdicts' \in Seq(Replies) /\ evaluations' = evaluations + 1
      /\ Said(verdicts', current, fails)
  BY <1>1, <1>3, Asks
<1>5. DeltaTypes'
  BY <1>2, <1>3, <1>4 DEF DeltaInv, DeltaTypes, Elements, Replies, Ordered, Place
<1>6. WithinBudget'
  BY <1>1, <1>2, <1>3, <1>4 DEF WithinBudget
<1>7. SeenToFail'
  <2>1. sweep' # "refused" => fails = TRUE
    BY <1>1
  <2> QED
    BY <1>2, <1>4, <2>1 DEF SeenToFail
<1>8. Sweeping'
  <2> SUFFICES ASSUME Len(current) >= 2 PROVE 1 \in 1 .. Len(Pieces(current, granularity))
    BY <1>1, <1>2, <1>3 DEF Sweeping, Pieces, DeltaInv
  <2>1. granularity \in Nat /\ granularity >= 2
    BY DEF DeltaInv, DeltaTypes
  <2>2. Len(Pieces(current, granularity)) = IF granularity <= Len(current) THEN granularity ELSE Len(current)
    BY <1>3, <2>1, Partition DEF Pieces
  <2> QED
    BY <1>3, <2>1, <2>2
<1>9. TriedInOrder' /\ OneMinimal'
  <2>1. sweep' = "finished" => ~(Len(current) >= 2)
    BY <1>1, <1>3
  <2>2. sweep' # "complements" /\ current' = current
    BY <1>1, <1>2
  <2>3. TriedInOrder'
    BY <2>2 DEF TriedInOrder
  <2>4. OneMinimal'
    BY <2>1, <2>2 DEF OneMinimal
  <2> QED
    BY <2>3, <2>4
<1> QED
  BY <1>5, <1>6, <1>7, <1>8, <1>9 DEF DeltaInv

\* The search starts over with a smaller input that fails.
LEMMA Reduces ==
  ASSUME DeltaInv, NEW to \in Seq(Elements), Ordered(to), NEW finer \in Nat, finer >= 2,
         Delta!Ask(to, TRUE), Delta!Reduce(to, finer), UNCHANGED <<items, budget>>,
         evaluations < budget, sweep \in {"subsets", "complements"}
  PROVE  DeltaInv'
<1>1. /\ current' = to /\ granularity' = finer /\ position' = 1
      /\ sweep' = IF Len(to) >= 2 THEN "subsets" ELSE "finished"
  BY DEF Delta!Reduce
<1>2. /\ verdicts' \in Seq(Replies) /\ evaluations' = evaluations + 1 /\ Said(verdicts', to, TRUE)
  BY Asks DEF DeltaInv, DeltaTypes
<1>3. DeltaTypes'
  BY <1>1, <1>2 DEF DeltaInv, DeltaTypes, Elements, Replies, Ordered, Place
<1>4. WithinBudget'
  BY <1>1, <1>2 DEF DeltaInv, DeltaTypes, WithinBudget
<1>5. SeenToFail'
  BY <1>1, <1>2 DEF SeenToFail
<1>6. Sweeping'
  <2> SUFFICES ASSUME Len(to) >= 2 PROVE 1 \in 1 .. Len(Pieces(to, finer))
    BY <1>1 DEF Sweeping, Pieces
  <2>1. Len(to) \in Nat /\ Len(to) >= 2
    BY LenProperties
  <2>2. Len(Pieces(to, finer)) = IF finer <= Len(to) THEN finer ELSE Len(to)
    BY <2>1, Partition DEF Pieces
  <2> QED
    BY <2>1, <2>2
<1>7. TriedInOrder' /\ OneMinimal'
  BY <1>1 DEF TriedInOrder, OneMinimal
<1> QED
  BY <1>3, <1>4, <1>5, <1>6, <1>7 DEF DeltaInv

\* What an answer leaves alone, where the input stays.
LEMMA Continues ==
  ASSUME DeltaInv, NEW c \in Seq(Elements), Delta!Ask(c, FALSE), UNCHANGED <<items, budget, current>>,
         evaluations < budget, sweep \in {"subsets", "complements"}, sweep' # "original",
         granularity' \in Nat, granularity' >= 2
  PROVE  /\ DeltaTypes' /\ WithinBudget' /\ SeenToFail'
         /\ Said(verdicts', c, FALSE)
         /\ \A s, g : Said(verdicts, s, g) => Said(verdicts', s, g)
<1>1. /\ verdicts' \in Seq(Replies) /\ evaluations' = evaluations + 1 /\ Said(verdicts', c, FALSE)
      /\ \A s, g : Said(verdicts, s, g) => Said(verdicts', s, g)
  BY Asks DEF DeltaInv, DeltaTypes
<1>2. DeltaTypes'
  BY <1>1 DEF DeltaInv, DeltaTypes, Elements, Replies, Ordered, Place
<1>3. WithinBudget'
  BY <1>1 DEF DeltaInv, DeltaTypes, WithinBudget
<1>4. SeenToFail'
  BY <1>1 DEF DeltaInv, SeenToFail
<1> QED
  BY <1>1, <1>2, <1>3, <1>4

\* A range is tried by itself.
LEMMA SubsetTried ==
  ASSUME DeltaInv, Delta!TrySubset
  PROVE  DeltaInv'
<1> DEFINE pieces == Pieces(current, granularity)
           c == Delta!Subset(pieces[position])
<1>1. Delta!Ranges = pieces
  BY DEF Delta!Ranges, Pieces
<1>2. PICK fails \in BOOLEAN :
        /\ Delta!Ask(c, fails)
        /\ IF fails THEN Delta!Reduce(c, 2)
           ELSE /\ UNCHANGED <<current, granularity>>
                /\ IF position < Len(pieces) THEN position' = position + 1 /\ UNCHANGED sweep
                   ELSE position' = 1 /\ sweep' = "complements"
  BY <1>1 DEF Delta!TrySubset
<1>3. sweep = "subsets" /\ evaluations < budget /\ UNCHANGED <<items, budget>>
  BY DEF Delta!TrySubset
<1>4. /\ c \in Seq(Elements) /\ Ordered(c) /\ Len(pieces) \in Nat /\ Len(pieces) >= 2
      /\ position \in 1 .. Len(pieces)
  BY <1>3, NextPiece
<1>5. granularity \in Nat /\ granularity >= 2
  BY DEF DeltaInv, DeltaTypes
<1> HIDE DEF c
<1>6. CASE fails
  <2>1. Delta!Ask(c, TRUE) /\ Delta!Reduce(c, 2)
    BY <1>2, <1>6
  <2>2. c \in Seq(Elements) /\ Ordered(c) /\ sweep \in {"subsets", "complements"}
    BY <1>3, <1>4
  <2>3. 2 \in Nat /\ 2 >= 2
    OBVIOUS
  <2> QED
    BY <1>3, <2>1, <2>2, <2>3, Reduces
<1>7. CASE ~fails
  <2>1. Delta!Ask(c, FALSE) /\ UNCHANGED <<current, granularity>>
    BY <1>2, <1>7
  <2>2. /\ sweep' \in {"subsets", "complements"} /\ position' \in 1 .. Len(pieces)
        /\ sweep' = "complements" => position' = 1
    <3> HIDE DEF pieces
    <3> QED
      BY <1>2, <1>3, <1>4, <1>7
  <2>3. DeltaTypes' /\ WithinBudget' /\ SeenToFail'
    BY <1>3, <1>4, <1>5, <2>1, <2>2, Continues
  <2>4. Sweeping'
    BY <1>3, <2>1, <2>2 DEF DeltaInv, Sweeping, Pieces
  <2>5. TriedInOrder'
    <3> SUFFICES ASSUME sweep' = "complements" PROVE 1 .. position' - 1 = {}
      BY DEF TriedInOrder
    <3> QED
      BY <2>2
  <2>6. OneMinimal'
    BY <2>2 DEF OneMinimal
  <2> QED
    BY <2>3, <2>4, <2>5, <2>6 DEF DeltaInv
<1> QED
  BY <1>6, <1>7

\* The input is tried without a range.
LEMMA ComplementTried ==
  ASSUME DeltaInv, Delta!TryComplement
  PROVE  DeltaInv'
<1> DEFINE pieces == Pieces(current, granularity)
           c == Without(current, pieces[position])
           finer == Delta!Max({2, granularity - 1})
<1>1. Delta!Ranges = pieces /\ Delta!Complement(pieces[position]) = c
  BY DEF Delta!Ranges, Pieces, Delta!Complement, Without
<1>2. PICK fails \in BOOLEAN :
        /\ Delta!Ask(c, fails)
        /\ IF fails THEN Delta!Reduce(c, finer)
           ELSE CASE position < Len(pieces) ->
                       position' = position + 1 /\ UNCHANGED <<current, granularity, sweep>>
                  [] position = Len(pieces) /\ Delta!Finest ->
                       sweep' = "finished" /\ UNCHANGED <<current, granularity, position>>
                  [] OTHER ->
                       /\ granularity' = Delta!Min({Len(current), granularity * 2})
                       /\ position' = 1 /\ sweep' = "subsets" /\ UNCHANGED current
  BY <1>1 DEF Delta!TryComplement
<1>3. sweep = "complements" /\ evaluations < budget /\ UNCHANGED <<items, budget>>
  BY DEF Delta!TryComplement
<1>4. /\ c \in Seq(Elements) /\ Ordered(c) /\ Len(pieces) \in Nat /\ Len(pieces) >= 2
      /\ position \in 1 .. Len(pieces)
      /\ granularity >= Len(current) => Len(pieces) = Len(current)
      /\ granularity >= Len(current) => \A p \in 1 .. Len(current) : pieces[p] = <<p - 1, p>>
  BY <1>3, NextPiece
<1>5. /\ granularity \in Nat /\ granularity >= 2 /\ Len(current) \in Nat /\ Len(current) >= 2
  BY <1>3, LenProperties DEF DeltaInv, DeltaTypes, Sweeping
<1>6. finer \in Nat /\ finer >= 2
  BY <1>5, Extremes
<1>7. \A p \in 1 .. position - 1 : Said(verdicts, Without(current, pieces[p]), FALSE)
  BY <1>3 DEF DeltaInv, TriedInOrder
<1> HIDE DEF finer, pieces
<1>8. CASE fails
  <2> HIDE DEF c
  <2> QED
    BY <1>2, <1>3, <1>4, <1>6, <1>8, Reduces
<1>9. CASE ~fails
  <2>1. Delta!Ask(c, FALSE) /\ current' = current
    BY <1>2, <1>9
  <2>2. CASE position < Len(pieces)
    <3>1. position' = position + 1 /\ UNCHANGED <<granularity, sweep>>
      BY <1>2, <1>9, <2>2
    <3>2. /\ DeltaTypes' /\ WithinBudget' /\ SeenToFail' /\ Said(verdicts', c, FALSE)
          /\ \A s, g : Said(verdicts, s, g) => Said(verdicts', s, g)
      <4> HIDE DEF c
      <4> QED
        BY <1>3, <1>4, <1>5, <2>1, <3>1, Continues
    <3>3. Sweeping'
      BY <1>3, <1>4, <1>5, <2>1, <2>2, <3>1 DEF Sweeping, Pieces, pieces
    <3>4. TriedInOrder'
      <4>1. \A p \in 1 .. position' - 1 : p \in 1 .. position - 1 \/ p = position
        BY <1>4, <3>1
      <4>2. \A p \in 1 .. position' - 1 : Said(verdicts', Without(current, pieces[p]), FALSE)
        BY <1>7, <3>2, <4>1
      <4> QED
        BY <2>1, <3>1, <4>2 DEF TriedInOrder, Without, Pieces, pieces
    <3>5. OneMinimal'
      BY <1>3, <3>1 DEF OneMinimal
    <3> QED
      BY <3>2, <3>3, <3>4, <3>5 DEF DeltaInv
  <2>3. CASE position = Len(pieces) /\ Delta!Finest
    <3>1. sweep' = "finished" /\ granularity' = granularity
      BY <1>2, <1>4, <1>9, <2>3
    <3>2. /\ DeltaTypes' /\ WithinBudget' /\ SeenToFail' /\ Said(verdicts', c, FALSE)
          /\ \A s, g : Said(verdicts, s, g) => Said(verdicts', s, g)
      <4> HIDE DEF c
      <4> QED
        BY <1>3, <1>4, <1>5, <2>1, <3>1, Continues
    <3>3. OneMinimal'
      <4>1. granularity >= Len(current)
        BY <2>3 DEF Delta!Finest
      <4>2. position = Len(current) /\ \A p \in 1 .. Len(current) : pieces[p] = <<p - 1, p>>
        BY <1>4, <2>3, <4>1
      <4>3. ASSUME NEW i \in 1 .. Len(current)
            PROVE  Said(verdicts', Without(current, pieces[i]), FALSE)
        <5>1. i \in 1 .. position - 1 \/ i = position
          BY <1>5, <4>2
        <5> QED
          BY <1>7, <3>2, <5>1
      <4>4. \A i \in 1 .. Len(current) : Said(verdicts', Without(current, <<i - 1, i>>), FALSE)
        BY <4>2, <4>3
      <4> QED
        BY <2>1, <4>4 DEF OneMinimal, Without
    <3>4. Sweeping' /\ TriedInOrder'
      BY <3>1 DEF Sweeping, TriedInOrder
    <3> QED
      BY <3>2, <3>3, <3>4 DEF DeltaInv
  <2>4. CASE ~(position < Len(pieces)) /\ ~(position = Len(pieces) /\ Delta!Finest)
    <3>1. /\ granularity' = Delta!Min({Len(current), granularity * 2})
          /\ position' = 1 /\ sweep' = "subsets"
      BY <1>2, <1>9, <2>4
    <3>2. granularity' \in Nat /\ granularity' >= 2
      <4>1. Len(current) \in Int /\ granularity * 2 \in Int /\ granularity * 2 >= 2
        BY <1>5
      <4> QED
        <5>1. granularity' = Len(current) \/ granularity' = granularity * 2
          BY <3>1, <4>1, Extremes
        <5> QED
          BY <1>5, <4>1, <5>1
    <3>3. DeltaTypes' /\ WithinBudget' /\ SeenToFail'
      <4> HIDE DEF c
      <4> QED
        BY <1>3, <1>4, <2>1, <3>1, <3>2, Continues
    <3>4. Sweeping'
      <4>1. Len(Pieces(current, granularity')) =
              IF granularity' <= Len(current) THEN granularity' ELSE Len(current)
        BY <1>5, <3>2, Partition DEF Pieces
      <4>2. 1 \in 1 .. Len(Pieces(current, granularity'))
        BY <1>5, <3>2, <4>1
      <4> QED
        BY <1>5, <2>1, <3>1, <4>2 DEF Sweeping, Pieces
    <3>5. TriedInOrder' /\ OneMinimal'
      BY <3>1 DEF TriedInOrder, OneMinimal
    <3> QED
      BY <3>3, <3>4, <3>5 DEF DeltaInv
  <2> QED
    BY <2>2, <2>3, <2>4
<1> QED
  BY <1>8, <1>9

\* For every input of distinct items, every budget and every failure predicate, monotone or not:
\* what is returned was seen to fail and keeps the order of the input, the budget is kept, and a
\* search that ends by itself has seen that each single item is needed.
THEOREM MinimizationReturnsFailures == AssuranceSpec => []MinimizationIsSound
<1> DEFINE Inv == part = "delta" => DeltaInv
<1>1. AssuranceInit => Inv
  <2>1. ASSUME Delta!Init PROVE DeltaInv
    <3>1. /\ items \in Inputs /\ budget \in Nat \ {0} /\ current = items /\ granularity = 2
          /\ evaluations = 0 /\ sweep = "original" /\ position = 1 /\ verdicts = << >>
      BY <2>1, DeltaAssumption DEF Delta!Init
    <3>2. items \in Seq(Elements) /\ \A i, j \in 1 .. Len(items) : items[i] = items[j] => i = j
      BY <3>1, DeltaAssumption DEF Elements
    <3>3. \A i \in 1 .. Len(items) : Place(items[i]) = i
      BY <3>2 DEF Place
    <3>4. Ordered(items)
      BY <3>3 DEF Ordered
    <3>5. verdicts \in Seq(Replies)
      BY <3>1
    <3>6. DeltaTypes
      BY <3>1, <3>2, <3>4, <3>5 DEF DeltaTypes
    <3>7. WithinBudget /\ SeenToFail /\ Sweeping /\ TriedInOrder /\ OneMinimal
      BY <3>1 DEF WithinBudget, SeenToFail, Sweeping, TriedInOrder, OneMinimal
    <3> QED
      BY <3>6, <3>7 DEF DeltaInv
  <2> QED
    BY <2>1, OnePartBegins
<1>2. Inv /\ [AssuranceNext]_<<part, gatesVars, canaryVars, deltaVars, approvalsVars, memoryVars,
                               scanVars, governanceVars>> => Inv'
  <2>1. ASSUME DeltaInv, UNCHANGED deltaVars PROVE DeltaInv'
    <3>1. UNCHANGED <<items, budget, current, granularity, evaluations, sweep, position, verdicts>>
      BY <2>1 DEF deltaVars
    <3>2. DeltaTypes'
      BY <2>1, <3>1 DEF DeltaInv, DeltaTypes, Elements, Replies, Ordered, Place
    <3>3. WithinBudget' /\ SeenToFail' /\ Sweeping' /\ TriedInOrder' /\ OneMinimal'
      BY <2>1, <3>1 DEF DeltaInv, WithinBudget, SeenToFail, Sweeping, TriedInOrder, OneMinimal
    <3> QED
      BY <3>2, <3>3 DEF DeltaInv
  <2>2. ASSUME DeltaInv, Delta!Exhaust PROVE DeltaInv'
    <3>1. /\ sweep \in {"subsets", "complements"} /\ sweep' = "exhausted"
          /\ UNCHANGED <<items, budget, current, granularity, evaluations, position, verdicts>>
      BY <2>2 DEF Delta!Exhaust
    <3>2. DeltaTypes'
      BY <2>2, <3>1 DEF DeltaInv, DeltaTypes, Elements, Replies, Ordered, Place
    <3>3. WithinBudget' /\ SeenToFail'
      BY <2>2, <3>1 DEF DeltaInv, WithinBudget, SeenToFail
    <3>4. Sweeping' /\ TriedInOrder' /\ OneMinimal'
      BY <3>1 DEF Sweeping, TriedInOrder, OneMinimal
    <3> QED
      BY <3>2, <3>3, <3>4 DEF DeltaInv
  <2>3. DeltaInv /\ Delta!Next => DeltaInv'
    BY <2>2, OriginalAsked, SubsetTried, ComplementTried DEF Delta!Next
  <2> QED
    BY <2>1, <2>3, OnePartMoves
<1>3. Inv => MinimizationIsSound
  <2> SUFFICES ASSUME DeltaInv PROVE Delta!MinimizationIsSound
    BY DEF MinimizationIsSound
  <2>1. sweep \notin {"original", "refused"} => Delta!Failed(current)
    BY DEF DeltaInv, SeenToFail, Said, Delta!Failed
  <2>2. Delta!KeepsOrder(current)
    BY DEF DeltaInv, DeltaTypes, Ordered, Place, Delta!KeepsOrder
  <2>3. evaluations <= Delta!Max({1, budget})
    <3>1. budget \in Nat \ {0} /\ evaluations \in Nat /\ evaluations <= budget
      BY DEF DeltaInv, DeltaTypes, WithinBudget
    <3>2. 1 \in Int /\ budget \in Int
      BY <3>1
    <3> QED
      BY <3>1, <3>2, Extremes
  <2>4. sweep = "finished" /\ Len(current) >= 2 =>
          \A i \in 1 .. Len(current) : Delta!Passed(Delta!RemoveAt(current, i))
    <3> SUFFICES ASSUME sweep = "finished", Len(current) >= 2, NEW i \in 1 .. Len(current)
                 PROVE  Delta!Passed(Delta!RemoveAt(current, i))
      OBVIOUS
    <3>1. Said(verdicts, Without(current, <<i - 1, i>>), FALSE)
      BY DEF DeltaInv, OneMinimal
    <3>2. Without(current, <<i - 1, i>>) = Delta!RemoveAt(current, i)
      BY DEF Without, Delta!RemoveAt
    <3> QED
      BY <3>1, <3>2 DEF Said, Delta!Passed
  <2> QED
    BY <2>1, <2>2, <2>3, <2>4 DEF Delta!MinimizationIsSound
<1> QED
  BY <1>1, <1>2, <1>3, PTL DEF AssuranceSpec

-----------------------------------------------------------------------------
(* The dependency automation: the types                                       *)

HeadKinds == {"source", "ungoverned", "child", "other"}
Checks == [status : {"pending", "success", "failure", "transient"}, attempt : Nat \ {0}]
Reviews == [who : {"person", "automation"}, says : {"approve", "veto"}, head : Nat]
Commands == [head : Nat, onto : Nat, action : {"rebase", "recreate", "none"}, old : BOOLEAN]
Runs == [workflow : Workflows, event : {"push", "dispatch"}, subject : Nat,
         status : {"asked", "running", "failed"}]
Merges == [head : Nat, onto : Nat, base : Nat, reported : BOOLEAN]
Settling == {"verify", "qualify", "dispatch", "await"}
GovStages ==
  {"idle", "refresh", "command", "review", "decide", "approve", "confirm", "merge", "rerun"}
    \cup Settling

TypeOK ==
  /\ main \in Nat
  /\ pr \in [state : {"open", "merged"}, head : Nat, base : Nat]
  /\ chain \in Seq(HeadKinds) /\ ci \in Seq(Checks) /\ reviews \in Seq(Reviews)
  /\ commands \subseteq Commands /\ runs \subseteq Runs
  /\ gov \in [at : GovStages, head : Nat, base : Nat, todo : SUBSET Workflows,
              waits : SUBSET Workflows]
  /\ pub \in [at : {"idle", "revalidate", "ref", "update"}, source : Nat, base : Nat]
  /\ seen \in [turns : Nat, merges : Seq(Merges), reruns : Seq(Nat), dropped : SUBSET Nat]
\* The head of the pull request is the newest one, and each head has its checks and its count.
Aligned ==
  /\ pr.head = Len(chain) /\ Len(chain) > 0 /\ chain[1] = "source"
  /\ Len(ci) = Len(chain) /\ Len(seen.reruns) = Len(chain)
TypeInv == TypeOK /\ Aligned

-----------------------------------------------------------------------------
(* The inductive invariants                                                   *)

\* What holds of a head once it was assessed, and goes on holding: heads and reviews are only
\* added, and checks that succeeded are not run again.
Approved(h) == \E k \in 1..Len(reviews) : reviews[k].says = "approve" /\ reviews[k].head = h
Assessed(h) == h \in 1..Len(chain) /\ BotsOwn(h) /\ Governed(h) /\ Green(h) /\ Approved(h)
RunsOn(w, subject) ==
  \E r \in runs : r.workflow = w /\ r.subject = subject /\ r.status = "running"

\* One merge at most, of an assessed head; what is reported is settled.
MergedInv ==
  /\ Len(seen.merges) <= 1 /\ (pr.state = "open" => Len(seen.merges) = 0)
  /\ \A i \in 1..Len(seen.merges) : Assessed(seen.merges[i].head)
  /\ \A i \in 1..Len(seen.merges) : seen.merges[i].reported =>
       /\ seen.merges[i].onto = seen.merges[i].base
       /\ \A w \in Workflows : RunsOn(w, seen.merges[i].onto + 1)
\* While a job settles the merge it still holds the base it assessed, and each workflow that is
\* no longer to do runs on the merge commit.
SettlingInv ==
  /\ gov.at = "merge" => Assessed(gov.head)
  /\ gov.at \in Settling => Len(seen.merges) = 1 /\ seen.merges[1].base = gov.base
  /\ gov.at \in Settling \ {"verify"} =>
       /\ seen.merges[1].onto = gov.base
       /\ \A w \in Workflows \ gov.todo : RunsOn(w, seen.merges[1].onto + 1)
ExactInv == MergedInv /\ SettlingInv

\* A rerun leaves its trace in the attempt of the checks; the job that is about to ask for one
\* has asked for none at that head.
RerunInv ==
  /\ \A h \in 1..Len(chain) : seen.reruns[h] <= 1 /\ (seen.reruns[h] = 1 => ci[h].attempt > 1)
  /\ gov.at = "rerun" => gov.head \in 1..Len(chain) /\ seen.reruns[gov.head] = 0
\* No rebase was asked for, or each one has aged and no recreate was asked for.
Unasked(h, b) == \A c \in commands : ~ (c.head = h /\ c.onto = b /\ c.action = "rebase")
Unanswered(h, b) ==
  /\ \E c \in commands : c.head = h /\ c.onto = b /\ c.action = "rebase" /\ c.old
  /\ \A c \in commands : ~ (c.head = h /\ c.onto = b /\ c.action = "recreate")
\* The command a job is about to ask for is still due.
CommandInv ==
  /\ \A c, d \in commands : c.head = d.head /\ c.onto = d.onto /\ c.action = d.action => c = d
  /\ \A c \in commands : c.action = "recreate" =>
       \E d \in commands : d.head = c.head /\ d.onto = c.onto /\ d.action = "rebase" /\ d.old
  /\ gov.at = "command" => Unasked(gov.head, gov.base) \/ Unanswered(gov.head, gov.base)

-----------------------------------------------------------------------------
(* Helpers                                                                    *)

\* What the choice of the next command says of the commands asked so far.
LEMMA RefreshFacts ==
  ASSUME NEW h \in Nat, NEW b \in Nat
  PROVE  /\ NextRefresh(h, b) \in {"rebase", "recreate", "none"}
         /\ NextRefresh(h, b) = "rebase" <=>
              \A c \in commands : ~ (c.head = h /\ c.onto = b /\ c.action = "rebase")
         /\ NextRefresh(h, b) = "recreate" <=>
              /\ \E c \in commands : c.head = h /\ c.onto = b /\ c.action = "rebase"
              /\ \A c \in commands : ~ (c.head = h /\ c.onto = b /\ c.action = "recreate")
              /\ \A c \in commands : c.head = h /\ c.onto = b /\ c.action = "rebase" => c.old
<1> DEFINE asked(a) == {c \in commands : c.head = h /\ c.onto = b /\ c.action = a}
<1>1. NextRefresh(h, b) =
        CASE asked("rebase") = {} -> "rebase"
          [] asked("rebase") # {} /\ asked("recreate") = {} /\ (\A c \in asked("rebase") : c.old)
               -> "recreate"
          [] OTHER -> "none"
  BY DEF NextRefresh
<1>2. asked("rebase") = {} <=>
        \A c \in commands : ~ (c.head = h /\ c.onto = b /\ c.action = "rebase")
  OBVIOUS
<1>3. asked("recreate") = {} <=>
        \A c \in commands : ~ (c.head = h /\ c.onto = b /\ c.action = "recreate")
  OBVIOUS
<1>4. (\A c \in asked("rebase") : c.old) <=>
        \A c \in commands : c.head = h /\ c.onto = b /\ c.action = "rebase" => c.old
  OBVIOUS
<1> HIDE DEF asked
<1>5. CASE asked("rebase") = {}
  BY <1>1, <1>2, <1>5
<1>6. CASE asked("rebase") # {} /\ asked("recreate") = {} /\ \A c \in asked("rebase") : c.old
  BY <1>1, <1>2, <1>3, <1>4, <1>6
<1>7. CASE asked("rebase") # {} /\ ~ (asked("recreate") = {} /\ \A c \in asked("rebase") : c.old)
  BY <1>1, <1>2, <1>3, <1>4, <1>7
<1> QED
  BY <1>5, <1>6, <1>7

\* Starting the failed jobs of a head again leaves the checks of the other heads alone.
LEMMA RerunFacts ==
  ASSUME TypeInv, NEW h \in 1..Len(chain), Rerun(h)
  PROVE  /\ ci' \in Seq(Checks) /\ Len(ci') = Len(ci)
         /\ ci[h].status # "success" /\ ci'[h].attempt > 1
         /\ \A i \in 1..Len(ci) : i # h => ci'[i] = ci[i]
<1> DEFINE again == [status |-> "pending", attempt |-> ci[h].attempt + 1]
<1>1. ci \in Seq(Checks) /\ h \in 1..Len(ci)
  BY DEF TypeInv, TypeOK, Aligned
<1>2. ci[h] \in Checks
  BY <1>1
<1>3. again \in Checks /\ again.attempt > 1
  BY <1>2 DEF Checks
<1>4. ci' = [ci EXCEPT ![h] = again]
  BY DEF Rerun
<1> HIDE DEF again
<1>5. ci' \in Seq(Checks) /\ Len(ci') = Len(ci)
  BY <1>1, <1>3, <1>4, ExceptSeq
<1>6. \A i \in 1..Len(ci) : ci'[i] = IF i = h THEN again ELSE ci[i]
  BY <1>1, <1>4
<1> QED
  BY <1>1, <1>3, <1>5, <1>6 DEF Rerun

\* A push adds a head whose checks begin.
LEMMA PushFacts ==
  ASSUME TypeInv, NEW kind \in HeadKinds, NEW base \in Nat, Pushed(kind, base),
         seen'.reruns = Append(seen.reruns, 0)
  PROVE  /\ chain' \in Seq(HeadKinds) /\ Len(chain') = Len(chain) + 1 /\ chain'[1] = "source"
         /\ \A i \in 1..Len(chain) : chain'[i] = chain[i]
         /\ ci' \in Seq(Checks) /\ Len(ci') = Len(chain')
         /\ \A i \in 1..Len(chain) : ci'[i] = ci[i]
         /\ pr' \in [state : {"open", "merged"}, head : Nat, base : Nat]
         /\ pr'.head = Len(chain') /\ pr'.state = pr.state
         /\ seen'.reruns \in Seq(Nat) /\ Len(seen'.reruns) = Len(chain')
         /\ \A i \in 1..Len(chain) : seen'.reruns[i] = seen.reruns[i]
         /\ seen'.reruns[Len(chain')] = 0
<1>1. Pending \in Checks
  BY DEF Pending, Checks
<1>2. /\ chain \in Seq(HeadKinds) /\ Len(chain) \in Nat \ {0} /\ chain[1] = "source"
      /\ ci \in Seq(Checks) /\ Len(ci) = Len(chain)
      /\ seen.reruns \in Seq(Nat) /\ Len(seen.reruns) = Len(chain)
      /\ pr \in [state : {"open", "merged"}, head : Nat, base : Nat]
  BY DEF TypeInv, TypeOK, Aligned
<1>3. chain' = Append(chain, kind) /\ ci' = Append(ci, Pending)
  BY DEF Pushed
<1>4. /\ chain' \in Seq(HeadKinds) /\ Len(chain') = Len(chain) + 1 /\ chain'[1] = "source"
      /\ \A i \in 1..Len(chain) : chain'[i] = chain[i]
  BY <1>2, <1>3
<1>5. /\ ci' \in Seq(Checks) /\ Len(ci') = Len(chain')
      /\ \A i \in 1..Len(chain) : ci'[i] = ci[i]
  BY <1>1, <1>2, <1>3, <1>4
<1>6. /\ pr' \in [state : {"open", "merged"}, head : Nat, base : Nat]
      /\ pr'.head = Len(chain') /\ pr'.state = pr.state
  <2>1. pr' = [state |-> pr.state, head |-> Len(chain'), base |-> base]
    BY <1>2 DEF Pushed
  <2> QED
    BY <1>2, <1>4, <2>1
<1>7. /\ seen'.reruns \in Seq(Nat) /\ Len(seen'.reruns) = Len(chain')
      /\ \A i \in 1..Len(chain) : seen'.reruns[i] = seen.reruns[i]
      /\ seen'.reruns[Len(chain')] = 0
  BY <1>2, <1>4
<1> QED
  BY <1>4, <1>5, <1>6, <1>7

\* The checks of the head end, whatever their outcome.
LEMMA EndFacts ==
  ASSUME TypeInv, ChecksEnd
  PROVE  /\ ci' \in Seq(Checks) /\ Len(ci') = Len(ci)
         /\ \A i \in 1..Len(ci) : ci'[i].attempt = ci[i].attempt
         /\ \A i \in 1..Len(ci) : ci[i].status = "success" => ci'[i] = ci[i]
<1>1. PICK outcome \in {"success", "failure", "transient"} :
        ci[pr.head].status = "pending" /\ ci' = [ci EXCEPT ![pr.head].status = outcome]
  BY DEF ChecksEnd
<1>2. ci \in Seq(Checks) /\ pr.head \in 1..Len(ci)
  BY DEF TypeInv, TypeOK, Aligned
<1>3. ci[pr.head] \in Checks
  BY <1>2
<1> DEFINE ended == [ci[pr.head] EXCEPT !.status = outcome]
<1>4. ended \in Checks /\ ended.attempt = ci[pr.head].attempt
  BY <1>3 DEF Checks
<1>5. ci' = [ci EXCEPT ![pr.head] = ended]
  BY <1>1
<1> HIDE DEF ended
<1>6. ci' \in Seq(Checks) /\ Len(ci') = Len(ci)
  BY <1>2, <1>4, <1>5, ExceptSeq
<1>7. \A i \in 1..Len(ci) : ci'[i] = IF i = pr.head THEN ended ELSE ci[i]
  BY <1>2, <1>5
<1> QED
  BY <1>1, <1>2, <1>4, <1>6, <1>7

\* A review is added after the others.
LEMMA ReviewFacts ==
  ASSUME TypeInv, NEW who \in {"person", "automation"}, NEW says \in {"approve", "veto"},
         NEW h \in Nat, reviews' = Append(reviews, [who |-> who, says |-> says, head |-> h])
  PROVE  /\ reviews' \in Seq(Reviews) /\ Len(reviews') = Len(reviews) + 1
         /\ \A k \in 1..Len(reviews) : reviews'[k] = reviews[k]
<1>1. [who |-> who, says |-> says, head |-> h] \in Reviews
  BY DEF Reviews
<1>2. reviews \in Seq(Reviews)
  BY DEF TypeInv, TypeOK
<1> QED
  BY <1>1, <1>2

\* The owner account approved a head whose decision reads so.
LEMMA DecisionFacts ==
  ASSUME TypeInv, NEW h, Decision(h) = "approved"
  PROVE  Approved(h)
<1> DEFINE last == reviews[Len(reviews)]
<1>1. reviews # <<>>
  BY DEF Decision
<1>2. reviews \in Seq(Reviews)
  BY DEF TypeInv, TypeOK
<1>3. Len(reviews) \in 1..Len(reviews)
  BY <1>1, <1>2
<1>4. last.says = "approve" /\ last.head = h
  <2>1. CASE last.says = "veto"
    BY <1>1, <2>1 DEF Decision
  <2>2. CASE last.says # "veto" /\ ~ (last.says = "approve" /\ last.head = h)
    BY <1>1, <2>2 DEF Decision
  <2> QED
    BY <2>1, <2>2
<1> QED
  BY <1>3, <1>4 DEF Approved

-----------------------------------------------------------------------------
(* The types are kept                                                         *)

\* What others do.
LEMMA EnvironmentTypes == ASSUME TypeInv, Environment PROVE TypeInv'
<1> USE DEF TypeInv
<1>0. seen \in [turns : Nat, merges : Seq(Merges), reruns : Seq(Nat), dropped : SUBSET Nat]
  BY DEF TypeOK
<1>1. ASSUME Counted
      PROVE  /\ seen' \in [turns : Nat, merges : Seq(Merges), reruns : Seq(Nat), dropped : SUBSET Nat]
             /\ seen'.reruns = seen.reruns
  BY <1>0, <1>1 DEF Counted
<1>2. ASSUME NEW kind \in HeadKinds, NEW base \in Nat, Pushes(kind, base) PROVE TypeInv'
  <2>1. seen' = [turns |-> seen.turns + 1, merges |-> seen.merges,
                 reruns |-> Append(seen.reruns, 0), dropped |-> seen.dropped]
    BY <1>0, <1>2 DEF Pushes
  <2>2. Pushed(kind, base) /\ seen'.reruns = Append(seen.reruns, 0)
    BY <1>2, <2>1 DEF Pushes
  <2>3. seen' \in [turns : Nat, merges : Seq(Merges), reruns : Seq(Nat), dropped : SUBSET Nat]
    BY <1>0, <2>1
  <2>4. Aligned' /\ pr' \in [state : {"open", "merged"}, head : Nat, base : Nat]
        /\ chain' \in Seq(HeadKinds) /\ ci' \in Seq(Checks)
    <3>1. Len(chain) \in Nat
      BY DEF TypeOK
    <3>2. Len(chain') > 0
      <4>1. Len(chain') = Len(chain) + 1
        BY <2>2, PushFacts
      <4> QED
        BY <3>1, <4>1
    <3> QED
      BY <2>2, <3>2, PushFacts DEF Aligned
  <2> QED
    BY <1>2, <2>3, <2>4 DEF Pushes, TypeOK
<1>3. CASE DependabotPushes
  BY <1>2, <1>3 DEF DependabotPushes, TypeOK, HeadKinds
<1>4. CASE OtherPushes
  <2>1. pr.base \in Nat
    BY DEF TypeOK
  <2> QED
    BY <1>2, <1>4, <2>1 DEF OtherPushes, HeadKinds
<1>5. CASE MainAdvances
  BY <1>1, <1>5 DEF MainAdvances, TypeOK, Aligned
<1>6. CASE ChecksEnd
  BY <1>6, EndFacts DEF ChecksEnd, TypeOK, Aligned
<1>7. CASE PersonReruns
  <2>1. pr.head \in 1..Len(chain)
    BY DEF TypeOK, Aligned
  <2> QED
    BY <1>1, <1>7, <2>1, RerunFacts DEF PersonReruns, TypeOK, Aligned
<1>8. CASE OwnerDecides
  <2>1. PICK says \in {"approve", "veto"} :
          reviews' = Append(reviews, [who |-> "person", says |-> says, head |-> pr.head])
    BY <1>8 DEF OwnerDecides
  <2>2. reviews' \in Seq(Reviews)
    BY <2>1, ReviewFacts DEF TypeOK
  <2> QED
    BY <1>1, <1>8, <2>2 DEF OwnerDecides, TypeOK, Aligned
<1>9. CASE CommandAges
  <2>1. PICK c \in commands : commands' = (commands \ {c}) \cup {[c EXCEPT !.old = TRUE]}
    BY <1>9 DEF CommandAges
  <2>2. commands' \subseteq Commands
    BY <2>1 DEF TypeOK, Commands
  <2> QED
    BY <1>9, <2>2 DEF CommandAges, TypeOK, Aligned
<1>10. CASE RunRegisters
  <2>1. PICK r \in runs, outcome \in {"running", "failed"} :
          runs' = (runs \ {r}) \cup {[r EXCEPT !.status = outcome, !.subject = main]}
    BY <1>10 DEF RunRegisters
  <2>2. r \in Runs /\ main \in Nat
    BY DEF TypeOK
  <2> DEFINE registered == [r EXCEPT !.status = outcome]
  <2>3. /\ (runs \ {r}) \cup {[r EXCEPT !.status = outcome, !.subject = main]}
             = (runs \ {r}) \cup {[registered EXCEPT !.subject = main]}
        /\ registered \in Runs
    BY <2>2 DEF Runs
  <2> HIDE DEF registered
  <2>4. runs' \subseteq Runs
    BY <2>1, <2>2, <2>3 DEF TypeOK, Runs
  <2> QED
    BY <1>10, <2>4 DEF RunRegisters, TypeOK, Aligned
<1>11. CASE RunStarts
  <2>1. runs' \subseteq Runs
    BY <1>11 DEF RunStarts, TypeOK, Runs
  <2> QED
    BY <1>1, <1>11, <2>1 DEF RunStarts, TypeOK, Aligned
<1> QED
  BY <1>3, <1>4, <1>5, <1>6, <1>7, <1>8, <1>9, <1>10, <1>11 DEF Environment

\* A job's own state.
GovStates ==
  [at : GovStages, head : Nat, base : Nat, todo : SUBSET Workflows, waits : SUBSET Workflows]

\* A step of the job alone keeps the types, when it keeps its own.
LEMMA GovMoves ==
  ASSUME TypeInv, gov' \in GovStates, Unwritten, UNCHANGED <<github, pub>>
  PROVE  TypeInv'
BY DEF TypeInv, TypeOK, Aligned, GovStates, Unwritten, github

\* A step from one stage to another changes nothing else of the job.
LEMMA StepTypes ==
  ASSUME TypeInv, NEW from, NEW to \in GovStages, Step(from, to)
  PROVE  /\ gov' \in GovStates /\ gov'.at = to
         /\ gov'.head = gov.head /\ gov'.base = gov.base /\ gov'.todo = gov.todo
BY DEF TypeInv, TypeOK, GovStates, Step

\* A job at rest has its type.
LEMMA IdleTypes == Idle \in GovStates /\ Idle.at = "idle"
BY DEF Idle, GovStates, GovStages, Settling

\* A job that begins is of its type, where and at which head it was begun.
LEMMA FreshTypes ==
  ASSUME NEW at \in GovStages, NEW h \in Nat, NEW b \in Nat
  PROVE  /\ [Idle EXCEPT !.at = at, !.head = h, !.base = b] \in GovStates
         /\ [Idle EXCEPT !.at = at, !.head = h, !.base = b].at = at
         /\ [Idle EXCEPT !.at = at, !.head = h, !.base = b].head = h
         /\ [Idle EXCEPT !.at = at, !.head = h] \in GovStates
         /\ [Idle EXCEPT !.at = at, !.head = h].at = at
         /\ [Idle EXCEPT !.at = at, !.head = h].head = h
<1> DEFINE placed == [Idle EXCEPT !.at = at]
           headed == [placed EXCEPT !.head = h]
           based == [headed EXCEPT !.base = b]
<1>1. /\ [Idle EXCEPT !.at = at, !.head = h, !.base = b] = based
      /\ [Idle EXCEPT !.at = at, !.head = h] = headed
  OBVIOUS
<1>2. placed \in GovStates /\ placed.at = at
  BY IdleTypes DEF GovStates
<1> HIDE DEF placed
<1>3. headed \in GovStates /\ headed.at = at /\ headed.head = h
  BY <1>2 DEF GovStates
<1> HIDE DEF headed
<1>4. based \in GovStates /\ based.at = at /\ based.head = h
  BY <1>3 DEF GovStates
<1> QED
  BY <1>1, <1>3, <1>4

\* The steps that settle a merge.
LEMMA SettleTypes ==
  ASSUME TypeInv, NEW at \in GovStages, NEW todo \in SUBSET Workflows,
         NEW waits \in SUBSET Workflows
  PROVE  \A next \in {[gov EXCEPT !.at = at, !.todo = todo],
                      [gov EXCEPT !.at = at, !.waits = waits],
                      [gov EXCEPT !.at = at, !.todo = todo, !.waits = waits],
                      [gov EXCEPT !.todo = todo]} :
           /\ next \in GovStates /\ next.head = gov.head /\ next.base = gov.base
           /\ next.at = at \/ next.at = gov.at
<1> DEFINE placed == [gov EXCEPT !.at = at]
           listed == [placed EXCEPT !.todo = todo]
<1>1. gov \in GovStates
  BY DEF TypeInv, TypeOK, GovStates
<1>2. placed \in GovStates /\ placed.head = gov.head /\ placed.base = gov.base /\ placed.at = at
  BY <1>1 DEF GovStates
<1>3. /\ [gov EXCEPT !.at = at, !.todo = todo] = listed
      /\ [gov EXCEPT !.at = at, !.waits = waits] = [placed EXCEPT !.waits = waits]
      /\ [gov EXCEPT !.at = at, !.todo = todo, !.waits = waits] = [listed EXCEPT !.waits = waits]
  OBVIOUS
<1> HIDE DEF placed
<1>4. listed \in GovStates /\ listed.head = gov.head /\ listed.base = gov.base /\ listed.at = at
  BY <1>2 DEF GovStates
<1> HIDE DEF listed
<1> QED
  BY <1>1, <1>2, <1>3, <1>4 DEF GovStates

\* A job that looks for the workflows is still settling its merge.
LEMMA SettlesOn ==
  ASSUME TypeInv, VerifyMerge \/ Qualify \/ Registered
  PROVE  gov'.at \in Settling
<1>1. /\ gov.at \in Settling /\ gov \in GovStates
      /\ "qualify" \in GovStages \cap Settling /\ "dispatch" \in GovStages \cap Settling
  BY DEF VerifyMerge, Qualify, Registered, TypeInv, TypeOK, GovStates, GovStages, Settling
<1>2. CASE VerifyMerge
  <2>1. gov' = [gov EXCEPT !.at = "qualify", !.todo = Workflows]
    BY <1>2 DEF VerifyMerge
  <2> QED
    BY <1>1, <2>1, SettleTypes
<1>3. CASE Qualify
  <2>1. PICK w \in gov.todo :
          \/ gov' = [gov EXCEPT !.at = "dispatch", !.waits = {w}]
          \/ gov' = [gov EXCEPT !.todo = @ \ {w}]
    BY <1>3 DEF Qualify
  <2>2. {w} \in SUBSET Workflows /\ gov.todo \ {w} \in SUBSET Workflows
    BY <1>1 DEF GovStates
  <2>3. CASE gov' = [gov EXCEPT !.at = "dispatch", !.waits = {w}]
    BY <1>1, <2>2, <2>3, SettleTypes
  <2>4. CASE gov' = [gov EXCEPT !.todo = @ \ {w}]
    BY <1>1, <2>2, <2>4, SettleTypes
  <2> QED
    BY <2>1, <2>3, <2>4
<1>4. CASE Registered
  <2> DEFINE todo == gov.todo \ gov.waits
  <2>1. /\ gov' = [gov EXCEPT !.at = "qualify", !.todo = todo, !.waits = {}]
        /\ "qualify" \in GovStages /\ {} \in SUBSET Workflows
    BY <1>1, <1>4 DEF Registered
  <2>2. todo \in SUBSET Workflows
    BY <1>1 DEF GovStates
  <2> HIDE DEF todo
  <2>3. gov'.at = "qualify" \/ gov'.at = gov.at
    BY <2>1, <2>2, SettleTypes
  <2> QED
    BY <1>1, <2>3
<1> QED
  BY <1>2, <1>3, <1>4

\* Where the steps between an assessment and the wait for a workflow lead.
LEMMA MovesOn ==
  ASSUME TypeInv, HonorVeto \/ ReadDecision \/ Approve \/ Revalidate \/ Merge \/ Dispatch
  PROVE  gov'.at \in {"decide", "confirm", "approve", "merge", "verify", "await"}
<1>1. CASE HonorVeto
  BY <1>1, StepTypes DEF HonorVeto, GovStages
<1>2. CASE ReadDecision
  BY <1>2, StepTypes DEF ReadDecision, GovStages
<1>3. CASE Approve
  BY <1>3, StepTypes DEF Approve, GovStages
<1>4. CASE Revalidate
  BY <1>4, StepTypes DEF Revalidate, GovStages
<1>5. CASE Merge
  BY <1>5, StepTypes DEF Merge, GovStages, Settling
<1>6. CASE Dispatch
  BY <1>6, StepTypes DEF Dispatch, GovStages, Settling
<1> QED
  BY <1>1, <1>2, <1>3, <1>4, <1>5, <1>6

\* What a job counts on that is about to report a merge, or to ask for a rerun.
Ready ==
  /\ gov.at \in Settling => Len(seen.merges) = 1
  /\ gov.at = "rerun" => gov.head \in 1..Len(chain)

\* A report changes nothing else in the history.
LEMMA ReportFacts ==
  ASSUME TypeInv, Ready, Report
  PROVE  /\ seen' \in [turns : Nat, merges : Seq(Merges), reruns : Seq(Nat), dropped : SUBSET Nat]
         /\ seen'.reruns = seen.reruns /\ seen'.dropped = seen.dropped
         /\ Len(seen'.merges) = 1
         /\ seen'.merges[1].head = seen.merges[1].head
         /\ seen'.merges[1].onto = seen.merges[1].onto
         /\ seen'.merges[1].base = seen.merges[1].base
<1> DEFINE told == [seen.merges[1] EXCEPT !.reported = TRUE]
           merges == [seen.merges EXCEPT ![1] = told]
<1>1. /\ seen \in [turns : Nat, merges : Seq(Merges), reruns : Seq(Nat), dropped : SUBSET Nat]
      /\ Len(seen.merges) = 1
  BY DEF TypeInv, TypeOK, Ready, Report, Ends, Settling
<1>2. seen' = [seen EXCEPT !.merges = merges]
  BY <1>1 DEF Report
<1>3. seen.merges[1] \in Merges
  BY <1>1
<1>4. /\ told \in Merges /\ told.head = seen.merges[1].head
      /\ told.onto = seen.merges[1].onto /\ told.base = seen.merges[1].base
  BY <1>3 DEF Merges
<1> HIDE DEF told
<1>5. merges \in Seq(Merges) /\ Len(merges) = 1 /\ merges[1] = told
  BY <1>1, <1>4, ExceptSeq
<1> HIDE DEF merges
<1> QED
  BY <1>1, <1>2, <1>4, <1>5

\* A rerun is counted at its head.
LEMMA RecoverFacts ==
  ASSUME TypeInv, Ready, RecoverReruns
  PROVE  /\ ci' \in Seq(Checks) /\ Len(ci') = Len(ci)
         /\ ci[gov.head].status # "success" /\ ci'[gov.head].attempt > 1
         /\ \A i \in 1..Len(ci) : i # gov.head => ci'[i] = ci[i]
         /\ seen' \in [turns : Nat, merges : Seq(Merges), reruns : Seq(Nat), dropped : SUBSET Nat]
         /\ seen'.merges = seen.merges /\ seen'.dropped = seen.dropped
         /\ Len(seen'.reruns) = Len(seen.reruns)
         /\ \A i \in 1..Len(chain) :
              seen'.reruns[i] = IF i = gov.head THEN seen.reruns[i] + 1 ELSE seen.reruns[i]
<1> DEFINE more == seen.reruns[gov.head] + 1
           reruns == [seen.reruns EXCEPT ![gov.head] = more]
<1>1. /\ seen \in [turns : Nat, merges : Seq(Merges), reruns : Seq(Nat), dropped : SUBSET Nat]
      /\ gov.head \in 1..Len(chain) /\ Len(seen.reruns) = Len(chain)
  BY DEF TypeInv, TypeOK, Aligned, Ready, RecoverReruns, Ends
<1>2. seen' = [seen EXCEPT !.reruns = reruns]
  BY <1>1 DEF RecoverReruns
<1>3. more \in Nat
  BY <1>1
<1> HIDE DEF more
<1>4. /\ reruns \in Seq(Nat) /\ Len(reruns) = Len(seen.reruns)
      /\ \A i \in 1..Len(chain) : reruns[i] = IF i = gov.head THEN more ELSE seen.reruns[i]
  BY <1>1, <1>3, ExceptSeq
<1> HIDE DEF reruns
<1>5. /\ seen' \in [turns : Nat, merges : Seq(Merges), reruns : Seq(Nat), dropped : SUBSET Nat]
      /\ seen'.merges = seen.merges /\ seen'.dropped = seen.dropped /\ seen'.reruns = reruns
  BY <1>1, <1>2, <1>4
<1>6. Rerun(gov.head)
  BY DEF RecoverReruns
<1> QED
  BY <1>1, <1>4, <1>5, <1>6, RerunFacts DEF more

\* A pass of the reconciler begins at the head and on the main it found.
LEMMA ReconcileFacts ==
  ASSUME TypeInv, Reconcile
  PROVE  gov' \in GovStates /\ gov'.at \in {"refresh", "review", "idle"}
<1> DEFINE begun(at) == [Idle EXCEPT !.at = at, !.head = pr.head, !.base = main]
<1>1. pr.head \in Nat /\ main \in Nat
  BY DEF TypeInv, TypeOK
<1>2. gov' = begun("refresh") \/ gov' = begun("review") \/ gov' = Idle
  BY DEF Reconcile
<1>3. ASSUME NEW at \in GovStages PROVE begun(at) \in GovStates /\ begun(at).at = at
  <2>1. begun(at) \in GovStates
    BY <1>1, FreshTypes, Zenon
  <2>2. begun(at).at = at
    BY <1>1, FreshTypes, Zenon
  <2> QED
    BY <2>1, <2>2
<1> HIDE DEF begun
<1>4. "refresh" \in GovStages /\ "review" \in GovStages
  BY DEF GovStages
<1> QED
  BY <1>2, <1>3, <1>4, IdleTypes

\* The reconciler and the recovery.
LEMMA GovernorTypes == ASSUME TypeInv, Ready, Governor PROVE TypeInv'
<1> DEFINE SeenType == [turns : Nat, merges : Seq(Merges), reruns : Seq(Nat), dropped : SUBSET Nat]
<1>0. /\ gov \in GovStates /\ seen \in SeenType
      /\ main \in Nat /\ pr.head \in Nat /\ pr.head \in 1..Len(chain) /\ pr.base \in Nat
  BY DEF TypeInv, TypeOK, GovStates, Aligned
<1>1. CASE Reconcile
  <2>1. gov' \in GovStates
    BY <1>1, ReconcileFacts
  <2> QED
    BY <1>1, <2>1, GovMoves DEF Reconcile
<1>2. CASE RefreshLeases
  BY <1>2, StepTypes, GovMoves DEF RefreshLeases, GovStages
<1>3. CASE RefreshCommand
  <2>1. NextRefresh(gov.head, gov.base) \in {"rebase", "recreate", "none"}
    BY <1>0, RefreshFacts DEF GovStates
  <2>2. [head |-> gov.head, onto |-> gov.base, action |-> NextRefresh(gov.head, gov.base),
         old |-> FALSE] \in Commands
    BY <1>0, <2>1 DEF Commands, GovStates
  <2>3. commands' \subseteq Commands
    BY <1>3, <2>2 DEF RefreshCommand, TypeInv, TypeOK
  <2> QED
    BY <1>3, <2>3, IdleTypes DEF RefreshCommand, Ends, github, TypeInv, TypeOK, Aligned, GovStates
<1>4. CASE HonorVeto
  BY <1>4, StepTypes, GovMoves DEF HonorVeto, GovStages
<1>5. CASE ReadDecision
  BY <1>5, StepTypes, GovMoves DEF ReadDecision, GovStages
<1>6. CASE Approve
  <2>1. gov' \in GovStates
    BY <1>6, StepTypes DEF Approve, GovStages
  <2>2. reviews' \in Seq(Reviews)
    BY <1>0, <1>6, ReviewFacts DEF Approve, GovStates
  <2> QED
    BY <1>6, <2>1, <2>2 DEF Approve, Unwritten, TypeInv, TypeOK, Aligned, GovStates
<1>7. CASE Revalidate
  BY <1>7, StepTypes, GovMoves DEF Revalidate, GovStages
<1>8. CASE Merge
  <2> DEFINE merge == [head |-> pr.head, onto |-> main, base |-> gov.base, reported |-> FALSE]
  <2>1. gov' \in GovStates
    BY <1>8, StepTypes DEF Merge, GovStages, Settling
  <2>2. merge \in Merges
    BY <1>0 DEF Merges, GovStates
  <2>3. seen' = [seen EXCEPT !.merges = Append(@, merge)]
    BY <1>8 DEF Merge
  <2> DEFINE merges == Append(seen.merges, merge)
  <2> HIDE DEF merge
  <2>4. merges \in Seq(Merges)
    BY <1>0, <2>2
  <2>5. seen' = [seen EXCEPT !.merges = merges]
    BY <2>3
  <2> HIDE DEF merges
  <2>6. seen' \in SeenType /\ seen'.reruns = seen.reruns
    BY <1>0, <2>4, <2>5
  <2>7. main' = main + 1 /\ pr' = [pr EXCEPT !.state = "merged"]
        /\ pr \in [state : {"open", "merged"}, head : Nat, base : Nat]
    BY <1>8 DEF Merge, TypeInv, TypeOK
  <2>8. main' \in Nat /\ pr' \in [state : {"open", "merged"}, head : Nat, base : Nat]
        /\ pr'.head = pr.head
    <3>1. main' \in Nat
      BY <1>0, <2>7
    <3>2. pr' \in [state : {"open", "merged"}, head : Nat, base : Nat] /\ pr'.head = pr.head
      BY <2>7
    <3> QED
      BY <3>1, <3>2
  <2>9. Aligned'
    BY <1>8, <2>6, <2>8 DEF Merge, TypeInv, Aligned
  <2>10. TypeOK'
    BY <1>8, <2>1, <2>6, <2>8 DEF Merge, TypeInv, TypeOK, GovStates
  <2> QED
    BY <2>9, <2>10 DEF TypeInv
<1>9. CASE VerifyMerge
  <2>1. gov' = [gov EXCEPT !.at = "qualify", !.todo = Workflows] /\ "qualify" \in GovStages
    BY <1>9 DEF VerifyMerge, GovStages, Settling
  <2>2. gov' \in GovStates
    BY <2>1, SettleTypes
  <2> QED
    BY <1>9, <2>2, GovMoves DEF VerifyMerge
<1>10. CASE Qualify
  <2>1. PICK w \in gov.todo :
          \/ gov' = [gov EXCEPT !.at = "dispatch", !.waits = {w}]
          \/ gov' = [gov EXCEPT !.todo = @ \ {w}]
    BY <1>10 DEF Qualify
  <2>2. CASE gov' = [gov EXCEPT !.at = "dispatch", !.waits = {w}]
    <3>1. "dispatch" \in GovStages /\ {w} \in SUBSET Workflows
      BY <1>0 DEF GovStates, GovStages, Settling
    <3>2. gov' \in GovStates
      BY <2>2, <3>1, SettleTypes
    <3> QED
      BY <1>10, <3>2, GovMoves DEF Qualify
  <2>3. CASE gov' = [gov EXCEPT !.todo = @ \ {w}]
    <3>1. gov' \in GovStates
      BY <1>0, <2>3 DEF GovStates
    <3> QED
      BY <1>10, <3>1, GovMoves DEF Qualify
  <2> QED
    BY <2>1, <2>2, <2>3
<1>11. CASE Dispatch
  <2>1. gov' \in GovStates
    BY <1>11, StepTypes DEF Dispatch, GovStages, Settling
  <2>2. runs' \subseteq Runs
    BY <1>0, <1>11 DEF Dispatch, TypeInv, TypeOK, Runs, GovStates
  <2> QED
    BY <1>11, <2>1, <2>2 DEF Dispatch, github, TypeInv, TypeOK, Aligned, GovStates
<1>12. CASE Registered
  <2>1. /\ gov' = [gov EXCEPT !.at = "qualify", !.todo = gov.todo \ gov.waits, !.waits = {}]
        /\ "qualify" \in GovStages /\ gov.todo \ gov.waits \in SUBSET Workflows
    BY <1>0, <1>12 DEF Registered, GovStates, GovStages, Settling
  <2>2. gov' \in GovStates
    BY <2>1, SettleTypes
  <2> QED
    BY <1>12, <2>2, GovMoves DEF Registered
<1>13. CASE Report
  <2>1. seen' \in SeenType /\ seen'.reruns = seen.reruns
    BY <1>13, ReportFacts
  <2> QED
    BY <1>13, <2>1, IdleTypes DEF Report, Ends, github, TypeInv, TypeOK, Aligned, GovStates
<1>14. CASE GovernorEnds
  BY <1>14, IdleTypes, GovMoves DEF GovernorEnds
<1>15. CASE RecoverReads
  <2>1. gov' \in GovStates
    BY <1>0, <1>15, FreshTypes DEF RecoverReads, GovStates, GovStages
  <2> QED
    BY <1>15, <2>1, GovMoves DEF RecoverReads
<1>16. CASE RecoverReruns
  <2>1. /\ ci' \in Seq(Checks) /\ Len(ci') = Len(ci)
        /\ seen' \in SeenType /\ Len(seen'.reruns) = Len(seen.reruns)
    BY <1>16, RecoverFacts
  <2> QED
    BY <1>16, <2>1, IdleTypes DEF RecoverReruns, Ends, TypeInv, TypeOK, Aligned, GovStates
<1> QED
  BY <1>1, <1>2, <1>3, <1>4, <1>5, <1>6, <1>7, <1>8, <1>9, <1>10, <1>11, <1>12, <1>13, <1>14,
     <1>15, <1>16 DEF Governor

\* A ref that moves only along its history loses no commit.
LEMMA PublishFacts ==
  ASSUME TypeInv, PublishUpdates
  PROVE  /\ seen' \in [turns : Nat, merges : Seq(Merges), reruns : Seq(Nat), dropped : SUBSET Nat]
         /\ seen'.reruns = Append(seen.reruns, 0)
         /\ seen'.merges = seen.merges /\ seen'.dropped = seen.dropped
<1> DEFINE longer == Append(seen.reruns, 0)
           counted == [seen EXCEPT !.reruns = longer]
<1>1. seen \in [turns : Nat, merges : Seq(Merges), reruns : Seq(Nat), dropped : SUBSET Nat]
  BY DEF TypeInv, TypeOK
<1>2. pr.head = pub.source
  BY DEF PublishUpdates, FastForward
<1>3. seen' = [counted EXCEPT !.dropped = seen.dropped]
  BY <1>2 DEF PublishUpdates
<1>4. longer \in Seq(Nat)
  BY <1>1
<1> HIDE DEF longer
<1>5. /\ counted \in [turns : Nat, merges : Seq(Merges), reruns : Seq(Nat), dropped : SUBSET Nat]
      /\ counted.reruns = longer
      /\ counted.merges = seen.merges /\ counted.dropped = seen.dropped
  BY <1>1, <1>4
<1> HIDE DEF counted
<1> QED
  BY <1>1, <1>3, <1>5 DEF longer

\* The publisher of the locks.
LEMMA PublisherTypes == ASSUME TypeInv, Publisher PROVE TypeInv'
<1> DEFINE PubStates == [at : {"idle", "revalidate", "ref", "update"}, source : Nat, base : Nat]
<1>0. pub \in PubStates /\ pr.head \in Nat /\ pr.base \in Nat /\ Resting \in PubStates
  BY DEF TypeInv, TypeOK, Resting
<1>1. ASSUME pub' \in PubStates, Unwritten, UNCHANGED <<github, gov>> PROVE TypeInv'
  BY <1>1 DEF TypeInv, TypeOK, Aligned, Unwritten, github
<1>2. ASSUME NEW from, NEW to \in {"ref", "update"}, PubStep(from, to) PROVE pub' \in PubStates
  BY <1>0, <1>2 DEF PubStep
<1>3. CASE PublisherValidates
  BY <1>0, <1>1, <1>3 DEF PublisherValidates
<1>4. CASE PublishRevalidates
  BY <1>1, <1>2, <1>4 DEF PublishRevalidates
<1>5. CASE PublishChecksRef
  BY <1>1, <1>2, <1>5 DEF PublishChecksRef
<1>6. CASE PublishUpdates
  <2>1. seen \in [turns : Nat, merges : Seq(Merges), reruns : Seq(Nat), dropped : SUBSET Nat]
    BY DEF TypeInv, TypeOK
  <2>2. seen'.reruns = Append(seen.reruns, 0)
        /\ seen' \in [turns : Nat, merges : Seq(Merges), reruns : Seq(Nat), dropped : SUBSET Nat]
    BY <1>6, <2>1, PublishFacts
  <2>3. Pushed("child", pr.base) /\ "child" \in HeadKinds
    BY <1>6 DEF PublishUpdates, HeadKinds
  <2>4. Aligned' /\ pr' \in [state : {"open", "merged"}, head : Nat, base : Nat]
        /\ chain' \in Seq(HeadKinds) /\ ci' \in Seq(Checks)
    <3>1. Len(chain) \in Nat
      BY DEF TypeInv, TypeOK
    <3>2. Len(chain') = Len(chain) + 1
      BY <1>0, <2>2, <2>3, PushFacts
    <3> QED
      BY <1>0, <2>2, <2>3, <3>1, <3>2, PushFacts DEF Aligned
  <2> QED
    BY <1>0, <1>6, <2>2, <2>4 DEF PublishUpdates, TypeInv, TypeOK
<1>7. CASE PublisherEnds
  BY <1>0, <1>1, <1>7 DEF PublisherEnds
<1> QED
  BY <1>3, <1>4, <1>5, <1>6, <1>7 DEF Publisher

-----------------------------------------------------------------------------
(* The merges                                                                 *)

\* Heads and reviews are only added, and checks that succeeded stay as they are.
Grows ==
  /\ Len(chain) \in Nat /\ Len(chain') \in Nat /\ Len(chain) <= Len(chain')
  /\ \A i \in 1..Len(chain) : chain'[i] = chain[i]
  /\ \A i \in 1..Len(chain) : ci[i].status = "success" => ci'[i] = ci[i]
  /\ Len(reviews) \in Nat /\ Len(reviews') \in Nat /\ Len(reviews) <= Len(reviews')
  /\ \A k \in 1..Len(reviews) : reviews'[k] = reviews[k]

\* An assessed head stays assessed.
LEMMA GrowsKeeps ==
  ASSUME TypeInv, Grows, NEW h, Assessed(h)
  PROVE  Assessed(h)'
<1>1. h \in 1..Len(chain) /\ h \in 1..Len(chain') /\ chain'[h] = chain[h]
  BY DEF Assessed, Grows
<1>2. Green(h)'
  BY <1>1 DEF Assessed, Grows, Green
<1>3. Approved(h)'
  BY DEF Assessed, Approved, Grows
<1>4. BotsOwn(h)' /\ Governed(h)'
  <2>1. CASE chain[h] \in {"source", "ungoverned"}
    BY <1>1, <2>1 DEF Assessed, BotsOwn, Governed
  <2>2. CASE Published(h)
    <3>1. h # 1
      BY <2>2 DEF Published, TypeInv, Aligned
    <3>2. h - 1 \in 1..Len(chain)
      BY <1>1, <3>1 DEF Grows
    <3> QED
      BY <1>1, <2>2, <3>2 DEF Assessed, BotsOwn, Governed, Published, Grows
  <2> QED
    BY <2>1, <2>2 DEF Assessed, BotsOwn
<1> QED
  BY <1>1, <1>2, <1>3, <1>4 DEF Assessed

\* Every step lets the heads and the reviews only grow.
LEMMA StepGrows == ASSUME TypeInv, Ready, Next PROVE Grows
<1>0. /\ Len(chain) \in Nat /\ Len(reviews) \in Nat /\ Len(ci) = Len(chain)
      /\ pr.head \in 1..Len(chain) /\ pr.head \in Nat /\ pr.base \in Nat /\ main \in Nat
      /\ gov.head \in Nat
  BY DEF TypeInv, TypeOK, Aligned
<1>1. ASSUME UNCHANGED <<chain, ci, reviews>> PROVE Grows
  BY <1>0, <1>1 DEF Grows
<1>2. ASSUME NEW kind \in HeadKinds, NEW base \in Nat, Pushed(kind, base), UNCHANGED reviews,
             seen'.reruns = Append(seen.reruns, 0)
      PROVE  Grows
  BY <1>0, <1>2, PushFacts DEF Grows
<1>3. ASSUME NEW kind \in HeadKinds, NEW base \in Nat, Pushes(kind, base) PROVE Grows
  <2>1. seen \in [turns : Nat, merges : Seq(Merges), reruns : Seq(Nat), dropped : SUBSET Nat]
    BY DEF TypeInv, TypeOK
  <2>2. seen' = [turns |-> seen.turns + 1, merges |-> seen.merges,
                 reruns |-> Append(seen.reruns, 0), dropped |-> seen.dropped]
    BY <1>3, <2>1 DEF Pushes
  <2> QED
    BY <1>2, <1>3, <2>2 DEF Pushes
<1>4. ASSUME NEW who \in {"person", "automation"}, NEW says \in {"approve", "veto"},
             NEW h \in Nat, UNCHANGED <<chain, ci>>,
             reviews' = Append(reviews, [who |-> who, says |-> says, head |-> h])
      PROVE  Grows
  BY <1>0, <1>4, ReviewFacts DEF Grows
<1>5. CASE Environment
  <2>1. CASE DependabotPushes
    BY <1>0, <1>3, <2>1 DEF DependabotPushes, HeadKinds
  <2>2. CASE OtherPushes
    BY <1>0, <1>3, <2>2 DEF OtherPushes, HeadKinds
  <2>3. CASE ChecksEnd
    <3>1. UNCHANGED <<chain, reviews>>
      BY <2>3 DEF ChecksEnd
    <3> QED
      BY <1>0, <2>3, <3>1, EndFacts DEF Grows
  <2>4. CASE PersonReruns
    BY <1>0, <2>4, RerunFacts DEF PersonReruns, Grows
  <2>5. CASE OwnerDecides
    BY <1>0, <1>4, <2>5 DEF OwnerDecides
  <2>6. CASE MainAdvances \/ CommandAges \/ RunRegisters \/ RunStarts
    BY <1>1, <2>6 DEF MainAdvances, CommandAges, RunRegisters, RunStarts
  <2> QED
    BY <1>5, <2>1, <2>2, <2>3, <2>4, <2>5, <2>6 DEF Environment
<1>6. CASE Governor
  <2>1. CASE Approve
    BY <1>0, <1>4, <2>1 DEF Approve
  <2>2. CASE RecoverReruns
    <3>1. UNCHANGED <<chain, reviews>>
      BY <2>2 DEF RecoverReruns
    <3> QED
      BY <1>0, <2>2, <3>1, RecoverFacts DEF Grows
  <2>3. CASE ~ (Approve \/ RecoverReruns)
    BY <1>1, <1>6, <2>3 DEF Governor, Reconcile, RefreshLeases, RefreshCommand, HonorVeto,
      ReadDecision, Revalidate, Merge, VerifyMerge, Qualify, Dispatch, Registered, Report,
      GovernorEnds, RecoverReads, github
  <2> QED
    BY <2>1, <2>2, <2>3
<1>7. CASE Publisher
  <2>1. CASE PublishUpdates
    BY <1>0, <1>2, <2>1, PublishFacts DEF PublishUpdates, HeadKinds
  <2>2. CASE ~ PublishUpdates
    BY <1>1, <1>7, <2>2 DEF Publisher, PublisherValidates, PublishRevalidates, PublishChecksRef,
      PublisherEnds, github
  <2> QED
    BY <2>1, <2>2
<1> QED
  BY <1>5, <1>6, <1>7 DEF Next

\* A run that was seen on a commit stays there.
RunsStay == \A w \in Workflows, n \in Nat : RunsOn(w, n) => RunsOn(w, n)'

\* Only a run that was asked for is replaced, when it registers.
LEMMA StepRuns == ASSUME TypeInv, Next PROVE RunsStay
<1>1. CASE RunRegisters
  <2>1. PICK r \in runs, outcome \in {"running", "failed"} :
          /\ r.status = "asked"
          /\ runs' = (runs \ {r}) \cup {[r EXCEPT !.status = outcome, !.subject = main]}
    BY <1>1 DEF RunRegisters
  <2>2. \A q \in runs : q.status = "running" => q \in runs'
    BY <2>1
  <2> QED
    BY <2>2 DEF RunsStay, RunsOn
<1>2. CASE ~ RunRegisters
  <2>1. runs \subseteq runs'
    BY <1>2 DEF Next, Environment, DependabotPushes, OtherPushes, Pushes, MainAdvances, ChecksEnd,
      PersonReruns, OwnerDecides, CommandAges, RunStarts, Governor, Unwritten, Reconcile,
      RefreshLeases, RefreshCommand, HonorVeto, ReadDecision, Approve, Revalidate, Merge,
      VerifyMerge, Qualify, Dispatch, Registered, Report, GovernorEnds, RecoverReads,
      RecoverReruns, Publisher, PublisherValidates, PublishRevalidates, PublishChecksRef,
      PublishUpdates, PublisherEnds
  <2> QED
    BY <2>1 DEF RunsStay, RunsOn
<1> QED
  BY <1>1, <1>2

\* The merges so far stay what they are.
LEMMA MergedStays ==
  ASSUME TypeInv, MergedInv, Grows, RunsStay, seen'.merges = seen.merges,
         pr'.state = "open" => pr.state = "open"
  PROVE  MergedInv'
<1>0. seen.merges \in Seq(Merges)
  BY DEF TypeInv, TypeOK
<1>1. ASSUME NEW i \in 1..Len(seen.merges) PROVE seen.merges[i].onto + 1 \in Nat
  <2>1. seen.merges[i] \in Merges
    BY <1>0
  <2> QED
    BY <2>1 DEF Merges
<1>2. \A h : Assessed(h) => Assessed(h)'
  BY GrowsKeeps
<1>3. \A i \in 1..Len(seen.merges) : seen.merges[i].reported =>
        /\ seen.merges[i].onto = seen.merges[i].base
        /\ \A w \in Workflows : RunsOn(w, seen.merges[i].onto + 1)'
  BY <1>1 DEF MergedInv, RunsStay
<1>4. \A i \in 1..Len(seen.merges) : Assessed(seen.merges[i].head)'
  BY <1>2 DEF MergedInv
<1> QED
  BY <1>3, <1>4 DEF MergedInv

\* A job that is not at a merge owes nothing, and what it owes it keeps while it does not move.
LEMMA SettlingStays ==
  ASSUME TypeInv, SettlingInv, Grows, RunsStay, seen'.merges = seen.merges,
         gov' = gov \/ gov'.at \notin Settling \cup {"merge"}
  PROVE  SettlingInv'
<1>1. CASE gov' = gov
  <2>0. \A h : Assessed(h) => Assessed(h)'
    BY GrowsKeeps
  <2>1. gov.at = "merge" => Assessed(gov.head)'
    BY <1>1, <2>0 DEF SettlingInv
  <2>2. ASSUME gov.at \in Settling \ {"verify"}, NEW w \in Workflows \ gov.todo
        PROVE  RunsOn(w, seen.merges[1].onto + 1)'
    <3>1. seen.merges[1] \in Merges
      BY <2>2 DEF SettlingInv, TypeInv, TypeOK
    <3>2. seen.merges[1].onto + 1 \in Nat
      BY <3>1 DEF Merges
    <3> QED
      BY <2>2, <3>2 DEF SettlingInv, RunsStay
  <2> QED
    BY <1>1, <2>1, <2>2 DEF SettlingInv
<1>2. CASE gov'.at \notin Settling \cup {"merge"}
  BY <1>2 DEF SettlingInv
<1> QED
  BY <1>1, <1>2

\* The reconciler settles its merge.
LEMMA SettlingMoves ==
  ASSUME TypeInv, SettlingInv, RunsStay, gov.at \in Settling, seen'.merges = seen.merges,
         gov'.at \in Settling \ {"verify"}, gov'.base = gov.base,
         seen.merges[1].onto = gov.base,
         \A w \in Workflows \ gov'.todo : RunsOn(w, seen.merges[1].onto + 1)
  PROVE  SettlingInv'
<1>1. Len(seen.merges) = 1 /\ seen.merges[1].base = gov.base
  BY DEF SettlingInv
<1>2. seen.merges[1] \in Merges
  BY <1>1 DEF TypeInv, TypeOK
<1>3. seen.merges[1].onto + 1 \in Nat
  BY <1>2 DEF Merges
<1>4. \A w \in Workflows \ gov'.todo : RunsOn(w, seen.merges[1].onto + 1)'
  BY <1>3 DEF RunsStay
<1> QED
  BY <1>1, <1>4 DEF SettlingInv, Settling

\* The merge itself.
LEMMA MergeExact ==
  ASSUME TypeInv, TypeInv', ExactInv, Grows, Merge
  PROVE  ExactInv'
<1> DEFINE merge == [head |-> pr.head, onto |-> main, base |-> gov.base, reported |-> FALSE]
<1>1. /\ seen \in [turns : Nat, merges : Seq(Merges), reruns : Seq(Nat), dropped : SUBSET Nat]
      /\ main \in Nat /\ pr.head \in Nat /\ gov.base \in Nat
  BY DEF TypeInv, TypeOK
<1>2. merge \in Merges /\ merge.head = pr.head /\ merge.base = gov.base /\ ~ merge.reported
  BY <1>1 DEF Merges
<1>3. seen' = [seen EXCEPT !.merges = Append(@, merge)]
  BY DEF Merge
<1> HIDE DEF merge
<1>4. Len(seen.merges) = 0
  BY DEF ExactInv, MergedInv, Merge, Mergeable
<1>5. Len(seen'.merges) = 1 /\ seen'.merges[1] = merge
  <2>1. seen'.merges = Append(seen.merges, merge)
    BY <1>1, <1>3
  <2> QED
    BY <1>1, <1>2, <1>4, <2>1
<1>6. Assessed(pr.head)'
  <2>1. \A h : Assessed(h) => Assessed(h)'
    BY GrowsKeeps
  <2>2. pr'.head = pr.head /\ pr.head = gov.head /\ gov.at = "merge"
    BY DEF Merge, Mergeable, Step, TypeInv, TypeOK
  <2> QED
    BY <2>1, <2>2 DEF ExactInv, SettlingInv
<1>7. pr'.head = pr.head /\ pr'.state = "merged"
  BY DEF Merge, TypeInv, TypeOK
<1>8. gov'.at = "verify" /\ gov'.base = gov.base
  BY StepTypes DEF Merge, GovStages, Settling
<1>9. MergedInv'
  BY <1>2, <1>5, <1>6, <1>7 DEF MergedInv
<1>10. SettlingInv'
  BY <1>2, <1>5, <1>8 DEF SettlingInv, Settling
<1> QED
  BY <1>9, <1>10 DEF ExactInv

\* The job confirms what it merges.
LEMMA RevalidateExact ==
  ASSUME TypeInv, ExactInv, Grows, RunsStay, Revalidate
  PROVE  ExactInv'
<1>1. seen' = seen /\ pr' = pr
  BY DEF Revalidate, Unwritten, github
<1>2. gov'.at = "merge" /\ gov'.head = gov.head
  BY StepTypes DEF Revalidate, GovStages
<1>3. Assessed(gov.head)
  <2>1. Approved(gov.head)
    BY DecisionFacts DEF Revalidate
  <2>2. BotsOwn(gov.head) /\ Governed(gov.head) /\ Green(gov.head) /\ pr.head = gov.head
    BY DEF Revalidate, Assess, Identity
  <2>3. pr.head \in 1..Len(chain)
    BY DEF TypeInv, TypeOK, Aligned
  <2> QED
    BY <2>1, <2>2, <2>3 DEF Assessed
<1>4. \A h : Assessed(h) => Assessed(h)'
  BY GrowsKeeps
<1>5. SettlingInv'
  BY <1>2, <1>3, <1>4 DEF SettlingInv, Settling
<1> QED
  BY <1>1, <1>5, MergedStays DEF ExactInv

\* The job looks for the workflows of the merge commit.
LEMMA QualifyExact ==
  ASSUME TypeInv, ExactInv, Grows, RunsStay,
         VerifyMerge \/ Qualify \/ Dispatch \/ Registered
  PROVE  ExactInv'
<1>1. seen' = seen /\ pr' = pr
  BY DEF VerifyMerge, Qualify, Dispatch, Registered, Unwritten, github
<1>2. MergedInv'
  BY <1>1, MergedStays DEF ExactInv
<1>3. gov \in GovStates /\ gov.at \in Settling
  BY DEF TypeInv, TypeOK, GovStates, VerifyMerge, Qualify, Dispatch, Registered, Step, Settling
<1>4. LastMerge = seen.merges[1] /\ SettlingInv
  BY <1>3 DEF ExactInv, SettlingInv, LastMerge
<1>5. CASE VerifyMerge
  <2>1. gov' = [gov EXCEPT !.at = "qualify", !.todo = Workflows] /\ "qualify" \in GovStages
    BY <1>5 DEF VerifyMerge, GovStages, Settling
  <2>2. gov'.base = gov.base
    BY <2>1, SettleTypes
  <2>3. gov'.at = "qualify" /\ gov'.todo = Workflows
    BY <1>3, <2>1 DEF GovStates
  <2>4. seen.merges[1].onto = gov.base
    BY <1>4, <1>5 DEF VerifyMerge
  <2> QED
    BY <1>1, <1>2, <1>3, <1>4, <2>2, <2>3, <2>4, SettlingMoves DEF ExactInv, Settling
<1>6. ASSUME gov.at \in Settling \ {"verify"}
      PROVE  /\ seen.merges[1].onto = gov.base
             /\ \A w \in Workflows \ gov.todo : RunsOn(w, seen.merges[1].onto + 1)
  BY <1>4, <1>6 DEF SettlingInv
<1>7. ASSUME NEW w, NEW events, TheRun(w, events) PROVE RunsOn(w, seen.merges[1].onto + 1)
  BY <1>4, <1>7 DEF TheRun, Candidates, Subject, RunsOn
<1>8. CASE Qualify
  <2>0. gov.at = "qualify"
    BY <1>8 DEF Qualify
  <2>1. PICK w \in gov.todo :
          \/ gov' = [gov EXCEPT !.at = "dispatch", !.waits = {w}]
          \/ TheRun(w, {"push", "dispatch"}) /\ gov' = [gov EXCEPT !.todo = @ \ {w}]
    BY <1>8 DEF Qualify
  <2>2. CASE gov' = [gov EXCEPT !.at = "dispatch", !.waits = {w}]
    <3>1. "dispatch" \in GovStages /\ {w} \in SUBSET Workflows
      BY <1>3 DEF GovStates, GovStages, Settling
    <3>2. gov'.base = gov.base
      BY <2>2, <3>1, SettleTypes
    <3>3. gov'.at = "dispatch" /\ gov'.todo = gov.todo
      BY <1>3, <2>2 DEF GovStates
    <3> QED
      BY <1>1, <1>2, <1>3, <1>4, <1>6, <2>0, <3>2, <3>3, SettlingMoves DEF ExactInv, Settling
  <2>3. CASE TheRun(w, {"push", "dispatch"}) /\ gov' = [gov EXCEPT !.todo = @ \ {w}]
    <3>1. gov'.at = "qualify" /\ gov'.base = gov.base /\ gov'.todo = gov.todo \ {w}
      BY <1>3, <2>0, <2>3 DEF GovStates
    <3>2. RunsOn(w, seen.merges[1].onto + 1)
      BY <1>7, <2>3
    <3>3. \A x \in Workflows \ gov'.todo : RunsOn(x, seen.merges[1].onto + 1)
      BY <1>6, <2>0, <3>1, <3>2 DEF Settling
    <3> QED
      BY <1>1, <1>2, <1>3, <1>4, <1>6, <2>0, <3>1, <3>3, SettlingMoves DEF ExactInv, Settling
  <2> QED
    BY <2>1, <2>2, <2>3
<1>9. CASE Dispatch
  <2>1. gov.at = "dispatch" /\ gov'.at = "await" /\ gov'.base = gov.base /\ gov'.todo = gov.todo
    BY <1>9, StepTypes DEF Dispatch, GovStages, Settling, Step
  <2> QED
    BY <1>1, <1>2, <1>3, <1>4, <1>6, <2>1, SettlingMoves DEF ExactInv, Settling
<1>10. CASE Registered
  <2>0. gov.at = "await" /\ \A w \in gov.waits : TheRun(w, {"dispatch"})
    BY <1>10 DEF Registered
  <2>1. /\ gov' = [gov EXCEPT !.at = "qualify", !.todo = gov.todo \ gov.waits, !.waits = {}]
        /\ "qualify" \in GovStages /\ gov.todo \ gov.waits \in SUBSET Workflows
    BY <1>3, <1>10 DEF Registered, GovStates, GovStages, Settling
  <2>2. gov'.base = gov.base
    BY <2>1, SettleTypes
  <2>3. gov'.at = "qualify" /\ gov'.todo = gov.todo \ gov.waits
    BY <1>3, <2>1 DEF GovStates
  <2>4. \A w \in gov.waits : RunsOn(w, seen.merges[1].onto + 1)
    BY <1>7, <2>0
  <2>5. \A x \in Workflows \ gov'.todo : RunsOn(x, seen.merges[1].onto + 1)
    BY <1>6, <2>0, <2>3, <2>4 DEF Settling
  <2> QED
    BY <1>1, <1>2, <1>3, <1>4, <1>6, <2>0, <2>2, <2>3, <2>5, SettlingMoves DEF ExactInv, Settling
<1> QED
  BY <1>5, <1>8, <1>9, <1>10

\* What is reported is settled.
LEMMA ReportExact ==
  ASSUME TypeInv, ExactInv, Grows, RunsStay, Report
  PROVE  ExactInv'
<1>1. gov.at = "qualify" /\ gov.todo = {} /\ gov' = Idle /\ pr' = pr
  BY DEF Report, Ends, github
<1>2. /\ Len(seen.merges) = 1 /\ seen.merges[1].base = gov.base /\ seen.merges[1].onto = gov.base
      /\ \A w \in Workflows : RunsOn(w, seen.merges[1].onto + 1)
  BY <1>1 DEF ExactInv, SettlingInv, Settling
<1>3. Ready
  BY <1>1, <1>2 DEF Ready
<1>4. /\ Len(seen'.merges) = 1 /\ seen'.merges[1].head = seen.merges[1].head
      /\ seen'.merges[1].onto = seen.merges[1].onto /\ seen'.merges[1].base = seen.merges[1].base
  BY <1>3, ReportFacts
<1>5. seen.merges[1] \in Merges
  BY <1>2 DEF TypeInv, TypeOK
<1>6. seen.merges[1].onto + 1 \in Nat
  BY <1>5 DEF Merges
<1>7. \A w \in Workflows : RunsOn(w, seen.merges[1].onto + 1)'
  <2> SUFFICES ASSUME NEW w \in Workflows, NEW n, n = seen.merges[1].onto + 1
               PROVE  RunsOn(w, n)'
    BY <1>4
  <2> QED
    BY <1>2, <1>6 DEF RunsStay
<1>8. \A h : Assessed(h) => Assessed(h)'
  BY GrowsKeeps
<1>9. Assessed(seen.merges[1].head)
  BY <1>2 DEF ExactInv, MergedInv
<1>10. Assessed(seen.merges[1].head)'
  BY <1>4, <1>8, <1>9
<1>11. MergedInv'
  BY <1>1, <1>2, <1>4, <1>7, <1>10 DEF MergedInv, ExactInv
<1>12. SettlingInv'
  BY <1>1, IdleTypes DEF SettlingInv, Settling
<1> QED
  BY <1>11, <1>12 DEF ExactInv

\* Every step keeps what is said of the merges.
LEMMA StepExact ==
  ASSUME TypeInv, TypeInv', Ready, ExactInv, Next
  PROVE  ExactInv'
<1>0. Grows /\ RunsStay
  BY StepGrows, StepRuns
<1>1. seen \in [turns : Nat, merges : Seq(Merges), reruns : Seq(Nat), dropped : SUBSET Nat]
      /\ gov \in GovStates /\ pr.head \in Nat /\ pr.base \in Nat /\ main \in Nat
  BY DEF TypeInv, TypeOK, GovStates
<1>2. ASSUME seen'.merges = seen.merges, pr'.state = "open" => pr.state = "open",
             gov' = gov \/ gov'.at \notin Settling \cup {"merge"}
      PROVE  ExactInv'
  BY <1>0, <1>2, MergedStays, SettlingStays DEF ExactInv
<1>3. ASSUME Counted PROVE seen'.merges = seen.merges
  BY <1>1, <1>3 DEF Counted
<1>4. ASSUME NEW kind, NEW base, Pushes(kind, base) PROVE ExactInv'
  <2>1. seen' = [turns |-> seen.turns + 1, merges |-> seen.merges,
                 reruns |-> Append(seen.reruns, 0), dropped |-> seen.dropped]
    BY <1>1, <1>4 DEF Pushes
  <2> QED
    BY <1>2, <1>4, <2>1 DEF Pushes
<1>5. CASE Environment
  <2>1. CASE DependabotPushes \/ OtherPushes
    BY <1>4, <2>1 DEF DependabotPushes, OtherPushes
  <2>2. CASE MainAdvances \/ ChecksEnd \/ PersonReruns \/ OwnerDecides \/ CommandAges
             \/ RunRegisters \/ RunStarts
    <3>1. gov' = gov /\ pr' = pr
      BY <2>2 DEF MainAdvances, ChecksEnd, PersonReruns, OwnerDecides, CommandAges, RunRegisters,
        RunStarts
    <3>2. seen'.merges = seen.merges
      BY <1>3, <2>2 DEF MainAdvances, ChecksEnd, PersonReruns, OwnerDecides, CommandAges,
        RunRegisters, RunStarts
    <3> QED
      BY <1>2, <3>1, <3>2
  <2> QED
    BY <1>5, <2>1, <2>2 DEF Environment
<1>6. CASE Governor
  <2>1. CASE Reconcile
    <3>1. gov'.at = "refresh" \/ gov'.at = "review" \/ gov'.at = "idle"
      BY <2>1, ReconcileFacts
    <3> QED
      BY <1>2, <2>1, <3>1 DEF Reconcile, Unwritten, github, Settling
  <2>2. CASE RefreshLeases \/ HonorVeto \/ ReadDecision
    <3>1. gov'.at \in {"command", "decide", "confirm", "approve"}
      BY <2>2, StepTypes DEF RefreshLeases, HonorVeto, ReadDecision, GovStages
    <3> QED
      BY <1>2, <2>2, <3>1 DEF RefreshLeases, HonorVeto, ReadDecision, Unwritten, github, Settling
  <2>3. CASE Approve
    <3>1. gov'.at = "confirm"
      BY <2>3, StepTypes DEF Approve, GovStages
    <3> QED
      BY <1>2, <2>3, <3>1 DEF Approve, Unwritten, Settling
  <2>4. CASE RefreshCommand \/ GovernorEnds
    BY <1>2, <2>4, IdleTypes DEF RefreshCommand, GovernorEnds, Ends, Unwritten, github, Settling
  <2>5. CASE Revalidate
    BY <1>0, <2>5, RevalidateExact
  <2>6. CASE Merge
    BY <1>0, <2>6, MergeExact
  <2>7. CASE VerifyMerge \/ Qualify \/ Dispatch \/ Registered
    BY <1>0, <2>7, QualifyExact
  <2>8. CASE Report
    BY <1>0, <2>8, ReportExact
  <2>9. CASE RecoverReads
    <3>1. gov' = [Idle EXCEPT !.at = "rerun", !.head = pr.head] /\ "rerun" \in GovStages
      BY <2>9 DEF RecoverReads, GovStages
    <3>2. gov'.at = "rerun"
      BY <1>1, <3>1, FreshTypes, Zenon
    <3> QED
      BY <1>2, <2>9, <3>2 DEF RecoverReads, Unwritten, github, Settling
  <2>10. CASE RecoverReruns
    BY <1>2, <2>10, IdleTypes, RecoverFacts DEF RecoverReruns, Ends, Settling
  <2> QED
    BY <1>6, <2>1, <2>2, <2>3, <2>4, <2>5, <2>6, <2>7, <2>8, <2>9, <2>10 DEF Governor
<1>7. CASE Publisher
  <2>1. CASE PublishUpdates
    <3>1. pr'.state = pr.state
      BY <2>1 DEF PublishUpdates, Pushed, TypeInv, TypeOK
    <3> QED
      BY <1>2, <2>1, <3>1, PublishFacts DEF PublishUpdates
  <2>2. CASE ~ PublishUpdates
    BY <1>2, <1>7, <2>2 DEF Publisher, PublisherValidates, PublishRevalidates, PublishChecksRef,
      PublisherEnds, Unwritten, github
  <2> QED
    BY <2>1, <2>2
<1> QED
  BY <1>5, <1>6, <1>7 DEF Next

-----------------------------------------------------------------------------
(* The reruns                                                                 *)

\* Every step keeps what is said of the reruns.
LEMMA StepReruns ==
  ASSUME TypeInv, Ready, RerunInv, Next
  PROVE  RerunInv'
<1>0. /\ seen \in [turns : Nat, merges : Seq(Merges), reruns : Seq(Nat), dropped : SUBSET Nat]
      /\ gov \in GovStates /\ main \in Nat /\ pr.base \in Nat
      /\ Len(chain) \in Nat /\ Len(ci) = Len(chain) /\ Len(seen.reruns) = Len(chain)
      /\ pr.head \in 1..Len(chain) /\ pr.head \in Nat
  BY DEF TypeInv, TypeOK, Aligned, GovStates
<1>1. ASSUME NEW h \in 1..Len(chain)
      PROVE  seen.reruns[h] \in Nat /\ ci[h].attempt \in Nat
  <2>1. ci[h] \in Checks /\ seen.reruns[h] \in Nat
    BY <1>0, <1>1 DEF TypeInv, TypeOK
  <2> QED
    BY <2>1 DEF Checks
<1>2. ASSUME UNCHANGED <<chain, ci>>, seen'.reruns = seen.reruns,
             gov' = gov \/ gov'.at # "rerun"
      PROVE  RerunInv'
  BY <1>2 DEF RerunInv
<1>3. ASSUME NEW kind \in HeadKinds, NEW base \in Nat, Pushed(kind, base), gov' = gov,
             seen'.reruns = Append(seen.reruns, 0)
      PROVE  RerunInv'
  <2>1. /\ Len(chain') = Len(chain) + 1 /\ seen'.reruns[Len(chain')] = 0
        /\ \A i \in 1..Len(chain) : seen'.reruns[i] = seen.reruns[i] /\ ci'[i] = ci[i]
    BY <1>3, PushFacts
  <2>2. \A h \in 1..Len(chain') : h \in 1..Len(chain) \/ h = Len(chain')
    BY <1>0, <2>1
  <2> QED
    BY <1>0, <1>3, <2>1, <2>2 DEF RerunInv
<1>4. ASSUME NEW kind \in HeadKinds, NEW base \in Nat, Pushes(kind, base) PROVE RerunInv'
  <2>1. seen' = [turns |-> seen.turns + 1, merges |-> seen.merges,
                 reruns |-> Append(seen.reruns, 0), dropped |-> seen.dropped]
    BY <1>0, <1>4 DEF Pushes
  <2> QED
    BY <1>3, <1>4, <2>1 DEF Pushes
<1>5. ASSUME Counted PROVE seen'.reruns = seen.reruns
  BY <1>0, <1>5 DEF Counted
<1>6. CASE Environment
  <2>1. CASE DependabotPushes \/ OtherPushes
    BY <1>0, <1>4, <2>1 DEF DependabotPushes, OtherPushes, HeadKinds
  <2>2. CASE ChecksEnd
    BY <1>0, <2>2, EndFacts DEF ChecksEnd, RerunInv
  <2>3. CASE PersonReruns
    BY <1>0, <1>1, <1>5, <2>3, RerunFacts DEF PersonReruns, RerunInv
  <2>4. CASE MainAdvances \/ OwnerDecides \/ CommandAges \/ RunRegisters \/ RunStarts
    BY <1>2, <1>5, <2>4 DEF MainAdvances, OwnerDecides, CommandAges, RunRegisters, RunStarts
  <2> QED
    BY <1>6, <2>1, <2>2, <2>3, <2>4 DEF Environment
<1>7. CASE Governor
  <2>1. CASE RecoverReads
    <3>1. gov' = [Idle EXCEPT !.at = "rerun", !.head = pr.head] /\ "rerun" \in GovStages
      BY <2>1 DEF RecoverReads, GovStages
    <3>2. gov'.head = pr.head
      BY <1>0, <3>1, FreshTypes, Zenon
    <3>3. seen.reruns[pr.head] = 0
      BY <1>0, <1>1, <2>1 DEF RecoverReads, Retriable, RerunInv
    <3> QED
      BY <1>0, <2>1, <3>2, <3>3 DEF RecoverReads, Unwritten, github, RerunInv
  <2>2. CASE RecoverReruns
    <3>1. seen.reruns[gov.head] = 0 /\ gov.head \in 1..Len(chain) /\ chain' = chain
      BY <2>2 DEF RecoverReruns, Ends, RerunInv
    <3>2. gov'.at = "idle"
      BY <2>2, IdleTypes DEF RecoverReruns, Ends
    <3>3. /\ ci'[gov.head].attempt > 1
          /\ \A i \in 1..Len(ci) : i # gov.head => ci'[i] = ci[i]
          /\ \A i \in 1..Len(chain) :
               seen'.reruns[i] = IF i = gov.head THEN seen.reruns[i] + 1 ELSE seen.reruns[i]
      BY <2>2, RecoverFacts
    <3>4. ASSUME NEW h \in 1..Len(chain)
          PROVE  seen'.reruns[h] <= 1 /\ (seen'.reruns[h] = 1 => ci'[h].attempt > 1)
      <4>1. CASE h = gov.head
        BY <3>1, <3>3, <4>1
      <4>2. CASE h # gov.head
        BY <1>0, <3>3, <4>2 DEF RerunInv
      <4> QED
        BY <4>1, <4>2
    <3> QED
      BY <3>1, <3>2, <3>4 DEF RerunInv
  <2>3. CASE Reconcile
    BY <1>2, <2>3, ReconcileFacts DEF Reconcile, Unwritten, github
  <2>4. CASE RefreshLeases \/ HonorVeto \/ ReadDecision \/ Approve \/ Revalidate \/ Merge
             \/ Dispatch
    <3>1. gov'.at # "rerun"
      <4>1. CASE RefreshLeases
        BY <4>1, StepTypes DEF RefreshLeases, GovStages
      <4> QED
        BY <2>4, <4>1, MovesOn
    <3>2. seen'.reruns = seen.reruns
      BY <1>0, <2>4 DEF RefreshLeases, HonorVeto, ReadDecision, Approve, Revalidate, Merge,
        Dispatch, Unwritten
    <3>3. UNCHANGED <<chain, ci>>
      BY <2>4 DEF RefreshLeases, HonorVeto, ReadDecision, Approve, Revalidate, Merge, Dispatch,
        github
    <3> QED
      BY <1>2, <3>1, <3>2, <3>3
  <2>5. CASE VerifyMerge \/ Qualify \/ Registered
    <3>1. gov'.at # "rerun"
      BY <2>5, SettlesOn DEF Settling
    <3> QED
      BY <1>2, <2>5, <3>1 DEF VerifyMerge, Qualify, Registered, Unwritten, github
  <2>6. CASE RefreshCommand \/ GovernorEnds
    BY <1>2, <2>6, IdleTypes DEF RefreshCommand, GovernorEnds, Ends, Unwritten, github
  <2>7. CASE Report
    BY <1>2, <2>7, IdleTypes, ReportFacts DEF Report, Ends, github
  <2> QED
    BY <1>7, <2>1, <2>2, <2>3, <2>4, <2>5, <2>6, <2>7 DEF Governor
<1>8. CASE Publisher
  <2>1. CASE PublishUpdates
    BY <1>0, <1>3, <2>1, PublishFacts DEF PublishUpdates, HeadKinds
  <2>2. CASE ~ PublishUpdates
    BY <1>2, <1>8, <2>2 DEF Publisher, PublisherValidates, PublishRevalidates, PublishChecksRef,
      PublisherEnds, Unwritten, github
  <2> QED
    BY <2>1, <2>2
<1> QED
  BY <1>6, <1>7, <1>8 DEF Next

-----------------------------------------------------------------------------
(* The commands                                                               *)

\* Every step keeps what is said of the commands.
LEMMA StepCommands ==
  ASSUME TypeInv, CommandInv, Next
  PROVE  CommandInv'
<1>0. gov \in GovStates /\ commands \subseteq Commands
  BY DEF TypeInv, TypeOK, GovStates
<1>1. ASSUME commands' = commands, gov' = gov \/ gov'.at # "command" PROVE CommandInv'
  BY <1>1 DEF CommandInv, Unasked, Unanswered
<1>2. CASE CommandAges
  <2>1. PICK c \in commands :
          ~c.old /\ commands' = (commands \ {c}) \cup {[c EXCEPT !.old = TRUE]}
    BY <1>2 DEF CommandAges
  <2> DEFINE aged == [c EXCEPT !.old = TRUE]
  <2>2. /\ aged.head = c.head /\ aged.onto = c.onto /\ aged.action = c.action /\ aged.old
    BY <1>0, <2>1 DEF Commands
  <2> HIDE DEF aged
  <2>3. commands' = (commands \ {c}) \cup {aged}
    BY <2>1 DEF aged
  <2>4. \A d \in commands' : \E e \in commands :
          /\ e.head = d.head /\ e.onto = d.onto /\ e.action = d.action /\ (e.old => d.old)
          /\ (d = aged /\ e = c) \/ (d # aged /\ e = d /\ d # c)
    BY <2>2, <2>3
  <2>5. \A e \in commands : \E d \in commands' :
          e.head = d.head /\ e.onto = d.onto /\ e.action = d.action /\ (e.old => d.old)
    BY <2>1, <2>2, <2>3
  <2>6. \A d, e \in commands' :
          d.head = e.head /\ d.onto = e.onto /\ d.action = e.action => d = e
    BY <2>2, <2>3 DEF CommandInv
  <2>7. \A d \in commands' : d.action = "recreate" =>
          \E e \in commands' : e.head = d.head /\ e.onto = d.onto /\ e.action = "rebase" /\ e.old
    BY <2>4, <2>5 DEF CommandInv
  <2>8. gov' = gov
    BY <1>2 DEF CommandAges
  <2>9. \A h, b : Unasked(h, b) => Unasked(h, b)'
    BY <2>4 DEF Unasked
  <2>10. \A h, b : Unanswered(h, b) => Unanswered(h, b)'
    BY <2>4, <2>5 DEF Unanswered
  <2>11. gov'.at = "command" => Unasked(gov.head, gov.base)' \/ Unanswered(gov.head, gov.base)'
    BY <2>8, <2>9, <2>10 DEF CommandInv
  <2> QED
    BY <2>6, <2>7, <2>11 DEF CommandInv
<1>3. CASE RefreshCommand
  <2> DEFINE action == NextRefresh(gov.head, gov.base)
             asked == [head |-> gov.head, onto |-> gov.base, action |-> action, old |-> FALSE]
  <2>1. gov.head \in Nat /\ gov.base \in Nat /\ gov.at = "command" /\ gov' = Idle
    BY <1>0, <1>3 DEF GovStates, RefreshCommand, Ends
  <2>2. \/ action = "rebase" /\ Unasked(gov.head, gov.base)
        \/ action = "recreate" /\ Unanswered(gov.head, gov.base)
    <3>1. CASE Unasked(gov.head, gov.base)
      BY <2>1, <3>1, RefreshFacts DEF Unasked
    <3>2. CASE ~ Unasked(gov.head, gov.base)
      <4>1. Unanswered(gov.head, gov.base)
        BY <2>1, <3>2 DEF CommandInv
      <4>2. \A c \in commands :
              c.head = gov.head /\ c.onto = gov.base /\ c.action = "rebase" => c.old
        BY <4>1 DEF Unanswered, CommandInv
      <4>3. action = "recreate"
        BY <2>1, <4>1, <4>2, RefreshFacts DEF Unanswered
      <4> QED
        BY <4>1, <4>3
    <3> QED
      BY <3>1, <3>2
  <2> HIDE DEF action
  <2>3. /\ asked.head = gov.head /\ asked.onto = gov.base /\ asked.action = action
    OBVIOUS
  <2>4. commands' = commands \cup {asked}
    BY <1>3 DEF RefreshCommand, action
  <2> HIDE DEF asked
  <2>5. \A c \in commands : ~ (c.head = gov.head /\ c.onto = gov.base /\ c.action = action)
    BY <2>2 DEF Unasked, Unanswered
  <2>6. \A c, d \in commands' :
          c.head = d.head /\ c.onto = d.onto /\ c.action = d.action => c = d
    BY <2>3, <2>4, <2>5 DEF CommandInv
  <2>7. \A c \in commands' : c.action = "recreate" =>
          \E d \in commands' : d.head = c.head /\ d.onto = c.onto /\ d.action = "rebase" /\ d.old
    BY <2>2, <2>3, <2>4 DEF CommandInv, Unanswered
  <2> QED
    BY <2>1, <2>6, <2>7, IdleTypes DEF CommandInv
<1>4. CASE RefreshLeases
  <2>1. commands' = commands /\ gov'.head = gov.head /\ gov'.base = gov.base
    BY <1>4, StepTypes DEF RefreshLeases, Unwritten, GovStages
  <2>2. Unasked(gov.head, gov.base) \/ Unanswered(gov.head, gov.base)
    <3>1. gov.head \in Nat /\ gov.base \in Nat /\ NextRefresh(gov.head, gov.base) # "none"
      BY <1>0, <1>4 DEF GovStates, RefreshLeases
    <3> QED
      BY <3>1, RefreshFacts DEF Unasked, Unanswered
  <2> QED
    BY <2>1, <2>2 DEF CommandInv, Unasked, Unanswered
<1>5. CASE Environment /\ ~ CommandAges
  <2>1. commands' = commands /\ gov' = gov
    BY <1>5 DEF Environment, DependabotPushes, OtherPushes, Pushes, MainAdvances, ChecksEnd,
      PersonReruns, OwnerDecides, RunRegisters, RunStarts
  <2> QED
    BY <1>1, <2>1
<1>6. CASE Publisher
  <2>1. commands' = commands /\ gov' = gov
    BY <1>6 DEF Publisher, PublisherValidates, PublishRevalidates, PublishChecksRef,
      PublishUpdates, PublisherEnds, Unwritten
  <2> QED
    BY <1>1, <2>1
<1>7. CASE Governor /\ ~ RefreshCommand /\ ~ RefreshLeases
  <2>1. commands' = commands
    BY <1>7 DEF Governor, Unwritten, Reconcile, HonorVeto, ReadDecision, Approve, Revalidate,
      Merge, VerifyMerge, Qualify, Dispatch, Registered, Report, GovernorEnds, RecoverReads,
      RecoverReruns
  <2>2. CASE Reconcile
    BY <1>1, <2>1, <2>2, ReconcileFacts
  <2>3. CASE HonorVeto \/ ReadDecision \/ Approve \/ Revalidate \/ Merge \/ Dispatch
    <3>1. gov'.at # "command"
      BY <2>3, MovesOn
    <3> QED
      BY <1>1, <2>1, <3>1
  <2>4. CASE VerifyMerge \/ Qualify \/ Registered
    <3>1. gov'.at # "command"
      BY <2>4, SettlesOn DEF Settling
    <3> QED
      BY <1>1, <2>1, <3>1
  <2>5. CASE Report \/ GovernorEnds \/ RecoverReruns
    BY <1>1, <2>1, <2>5, IdleTypes DEF Report, GovernorEnds, RecoverReruns, Ends
  <2>6. CASE RecoverReads
    <3>1. gov' = [Idle EXCEPT !.at = "rerun", !.head = pr.head] /\ "rerun" \in GovStages
          /\ pr.head \in Nat
      BY <2>6 DEF RecoverReads, GovStages, TypeInv, TypeOK
    <3>2. gov'.at = "rerun"
      BY <3>1, FreshTypes, Zenon
    <3> QED
      BY <1>1, <2>1, <3>2
  <2> QED
    BY <1>7, <2>2, <2>3, <2>4, <2>5, <2>6 DEF Governor
<1> QED
  BY <1>2, <1>3, <1>4, <1>5, <1>6, <1>7 DEF Next

-----------------------------------------------------------------------------
(* The theorems                                                               *)

IInv == TypeInv /\ ExactInv /\ RerunInv /\ CommandInv /\ seen.dropped = {}

\* The inductive invariant holds at first.
LEMMA InitInv == Init => IInv
<1> SUFFICES ASSUME Init PROVE IInv
  OBVIOUS
<1>1. /\ main = 0 /\ pr = [state |-> "open", head |-> 1, base |-> 0]
      /\ chain = <<"source">> /\ ci = <<Pending>> /\ reviews = <<>>
      /\ commands = {} /\ runs = {} /\ gov = Idle /\ pub = Resting
      /\ seen = [turns |-> 0, merges |-> <<>>, reruns |-> <<0>>, dropped |-> {}]
  BY DEF Init
<1>2. Pending \in Checks /\ "source" \in HeadKinds
  BY DEF Pending, Checks, HeadKinds
<1>3. Len(chain) = 1 /\ chain[1] = "source" /\ chain \in Seq(HeadKinds)
  BY <1>1, <1>2
<1>4. Len(ci) = 1 /\ ci \in Seq(Checks)
  BY <1>1, <1>2
<1>5. /\ seen \in [turns : Nat, merges : Seq(Merges), reruns : Seq(Nat), dropped : SUBSET Nat]
      /\ Len(seen.reruns) = 1 /\ seen.reruns[1] = 0 /\ Len(seen.merges) = 0
      /\ seen.dropped = {}
  BY <1>1
<1>6. reviews \in Seq(Reviews)
  BY <1>1
<1>7. Aligned
  BY <1>1, <1>3, <1>4, <1>5 DEF Aligned
<1>8. gov \in GovStates /\ gov.at = "idle"
  BY <1>1, IdleTypes
<1>9. TypeOK
  BY <1>1, <1>3, <1>4, <1>5, <1>6, <1>8 DEF TypeOK, GovStates, Resting
<1>10. ExactInv
  BY <1>1, <1>5, <1>8 DEF ExactInv, MergedInv, SettlingInv, Settling
<1>11. RerunInv
  BY <1>3, <1>5, <1>8 DEF RerunInv
<1>12. CommandInv
  BY <1>1, <1>8 DEF CommandInv
<1> QED
  BY <1>5, <1>7, <1>9, <1>10, <1>11, <1>12 DEF IInv, TypeInv

\* No step throws a commit away.
LEMMA StepDropped == ASSUME TypeInv, Ready, Next PROVE seen'.dropped = seen.dropped
<1>1. seen \in [turns : Nat, merges : Seq(Merges), reruns : Seq(Nat), dropped : SUBSET Nat]
  BY DEF TypeInv, TypeOK
<1>2. ASSUME Counted PROVE seen'.dropped = seen.dropped
  BY <1>1, <1>2 DEF Counted
<1>3. CASE Environment
  <2>1. ASSUME NEW kind, NEW base, Pushes(kind, base) PROVE seen'.dropped = seen.dropped
    <3>1. seen' = [turns |-> seen.turns + 1, merges |-> seen.merges,
                   reruns |-> Append(seen.reruns, 0), dropped |-> seen.dropped]
      BY <1>1, <2>1 DEF Pushes
    <3> QED
      BY <3>1
  <2> QED
    BY <1>2, <1>3, <2>1 DEF Environment, DependabotPushes, OtherPushes, MainAdvances, ChecksEnd,
      PersonReruns, OwnerDecides, CommandAges, RunRegisters, RunStarts
<1>4. CASE Governor
  <2>1. CASE Merge
    BY <1>1, <2>1 DEF Merge
  <2>2. CASE Report \/ RecoverReruns
    BY <2>2, ReportFacts, RecoverFacts
  <2>3. CASE ~ (Merge \/ Report \/ RecoverReruns)
    BY <1>4, <2>3 DEF Governor, Unwritten, Reconcile, RefreshLeases, RefreshCommand, HonorVeto,
      ReadDecision, Approve, Revalidate, VerifyMerge, Qualify, Dispatch, Registered,
      GovernorEnds, RecoverReads
  <2> QED
    BY <2>1, <2>2, <2>3
<1>5. CASE Publisher
  BY <1>5, PublishFacts DEF Publisher, PublisherValidates, PublishRevalidates, PublishChecksRef,
    PublisherEnds, Unwritten
<1> QED
  BY <1>3, <1>4, <1>5 DEF Next

\* The inductive invariant is kept.
LEMMA StepInv == IInv /\ [Next]_governanceVars => IInv'
<1> SUFFICES ASSUME IInv, [Next]_governanceVars PROVE IInv'
  OBVIOUS
<1>1. CASE UNCHANGED governanceVars
  BY <1>1 DEF IInv, governanceVars, TypeInv, TypeOK, Aligned, ExactInv, MergedInv, SettlingInv,
    Assessed, Approved, BotsOwn, Published, Governed, Green, RunsOn, RerunInv, CommandInv,
    Unasked, Unanswered
<1>2. CASE Next
  <2>1. Ready
    BY DEF IInv, ExactInv, SettlingInv, RerunInv, Ready
  <2>2. TypeInv'
    BY <1>2, <2>1, EnvironmentTypes, GovernorTypes, PublisherTypes DEF IInv, Next
  <2>3. ExactInv' /\ RerunInv' /\ CommandInv'
    BY <1>2, <2>1, <2>2, StepExact, StepReruns, StepCommands DEF IInv
  <2>4. seen'.dropped = {}
    BY <1>2, <2>1, StepDropped DEF IInv
  <2> QED
    BY <2>2, <2>3, <2>4 DEF IInv
<1> QED
  BY <1>1, <1>2

(* Whatever moves between two calls of the jobs, the state is of its type: each   *)
(* head of the branch has its checks and its count of reruns.                     *)
THEOREM DependencyTypes == Spec => []TypeInv
<1>1. IInv => TypeInv
  BY DEF IInv
<1> QED
  BY <1>1, InitInv, StepInv, PTL DEF Spec

(* What the automation merges is exactly what it assessed (dependency_governance  *)
(* _merge and _ensure_post_merge_workflow), for any workflows and any pushes.     *)
THEOREM MergesAreExact == Spec => []GovernedMergesAreExact
<1>1. IInv => GovernedMergesAreExact
  BY DEF IInv, ExactInv, MergedInv, Assessed, Approved, RunsOn, GovernedMergesAreExact
<1> QED
  BY <1>1, InitInv, StepInv, PTL DEF Spec

(* At most one automatic rerun for a head and one command of a kind for a head and *)
(* a main, no recreate before the rebase has aged, and no commit thrown away.      *)
THEOREM AutomationBounded == Spec => []AutomationIsBounded
<1>1. IInv => AutomationIsBounded
  BY DEF IInv, RerunInv, CommandInv, AutomationIsBounded
<1> QED
  BY <1>1, InitInv, StepInv, PTL DEF Spec

-----------------------------------------------------------------------------
(* The publication of code scans: the types                                   *)

PullStates == [state : {"open", "draft", "closed"}, head : Nat, base : Nat]
Heads == [pull : Pulls, on : Nat, kind : Kinds]
RunRecords == [head : Nat, attempt : Nat \ {0}, status : {"running", "success", "failure"},
             sound : SUBSET Nat]
Reports == [head : Nat, run : Nat, main : Nat, listed : BOOLEAN, warned : BOOLEAN,
            left : BOOLEAN]
CheckStates == {"running", "success", "neutral"}

\* Stages of a verification, in their order.
Verifying == {"run", "pull", "live", "source", "artifact", "analyses", "checks"}
\* Stages with a candidate.
WithRun == Verifying \cup {"download", "upload"}
PublisherStages == WithRun \cup {"idle", "main", "pulls", "runs", "next", "waiting"}
GateStages == {"idle", "codeql", "checks", "analyses", "main", "pull", "accepted"}

GitHubTypes ==
  /\ tip \in Nat
  /\ pulls \in [Pulls -> PullStates]
  /\ heads \in Seq(Heads)
  /\ scans \in Seq(RunRecords)
  /\ uploads \in Seq(Reports)
  /\ natives \in Seq(Seq(CheckStates)) /\ Len(natives) = Len(heads)
JobType == publisher \in [at : PublisherStages, pinned : Nat, todo : SUBSET Nat, run : Nat,
                          again : BOOLEAN, found : SUBSET Nat]
GateType == gate \in [at : GateStages, head : Nat, main : Nat, native : Seq(CheckStates),
                      found : SUBSET Nat]
BoundsType == room \in [turns : Nat, uploads : Nat]
PastType == past \subseteq Nat \X Nat \X BOOLEAN
ScanTypes == GitHubTypes /\ JobType /\ GateType /\ BoundsType /\ PastType

-----------------------------------------------------------------------------
(* GitHub                                                                     *)

\* Every pull request has a head of its own; what a head contains, and what its pull request
\* is based on, was main at some time, and a live head contains no more than its base.
Based ==
  /\ \A p \in Pulls : pulls[p].head \in 1 .. Len(heads) /\ heads[pulls[p].head].pull = p
  /\ \A p \in Pulls : pulls[p].base <= tip
  /\ \A p \in Pulls : heads[pulls[p].head].on <= pulls[p].base

\* Runs are of heads, and reports of runs of their head.
Bound ==
  /\ \A i \in 1 .. Len(scans) : scans[i].head \in 1 .. Len(heads)
  /\ \A i \in 1 .. Len(uploads) :
       /\ uploads[i].run \in 1 .. Len(scans)
       /\ scans[uploads[i].run].head = uploads[i].head

\* What is exact now is remembered.
Remembered == ExactNow \subseteq past

-----------------------------------------------------------------------------
(* The publisher                                                              *)

WasExact(h, at) == \E e \in BOOLEAN : <<h, at, e>> \in past
FirstSound(i) == 1 \in scans[i].sound

\* A job whose pinned main has passed never sees it again; and which stage it may be at.
Pinned ==
  /\ publisher.pinned <= tip
  /\ publisher.at \in WithRun => publisher.run \in 1 .. Len(scans)
  /\ publisher.at \in WithRun \cup {"next"} => publisher.todo \subseteq 1 .. Len(scans)
  /\ publisher.at \in {"idle", "main", "pulls", "runs", "next", "download"} => ~publisher.again
  /\ publisher.at = "upload" => publisher.again
  /\ publisher.at = "waiting" => uploads # << >>

\* What each look at the candidate has shown, as far as it cannot be undone.  The first pass
\* shows that it was exact and its first attempt sound, if main and the attempt are still those
\* at the start of the second pass; and the second finds that they are.
Passed(stages) == publisher.again \/ publisher.at \in stages
Confirmed == publisher.again /\ publisher.at \in WithRun \ {"run"}
ShownExact ==
  Passed({"live", "source", "artifact", "analyses", "checks", "download"}) =>
    (tip = publisher.pinned => WasExact(Candidate, publisher.pinned))
ShownBase ==
  publisher.at = "source" =>
    /\ heads[Candidate].on <= publisher.pinned
    /\ (Live(Candidate) => publisher.pinned <= CandidatePull.base)
ShownSource ==
  Passed({"artifact", "analyses", "checks", "download"}) =>
    heads[Candidate].kind = "trusted" /\ heads[Candidate].on = publisher.pinned
ShownSound ==
  Passed({"analyses", "checks", "download"}) =>
    (scans[publisher.run].attempt = 1 => FirstSound(publisher.run))
ShownAgain ==
  Confirmed => WasExact(Candidate, publisher.pinned) /\ FirstSound(publisher.run)
Shown ==
  publisher.at \in WithRun =>
    ShownExact /\ ShownBase /\ ShownSource /\ ShownSound /\ ShownAgain

\* A report is not listed only if its job gave up, or waits for it.
Settled(i) == uploads[i].listed \/ uploads[i].left
Awaited == \A i \in 1 .. Len(uploads) :
             Settled(i) \/ (publisher.at = "waiting" /\ i = Len(uploads))
\* A job that has begun may still upload.
Allowed == publisher.at \notin {"idle", "waiting"} => room.uploads > 0
\* From the last look at the inventories on, earlier reports of the head are all given up.
Alone ==
  publisher.again /\ publisher.at \in {"checks", "upload"} =>
    \A i \in 1 .. Len(uploads) : uploads[i].head = Candidate => uploads[i].left

-----------------------------------------------------------------------------
(* The gate                                                                   *)

Succeeded(checks) == \E i \in 1 .. Len(checks) : checks[i] = "success"
\* Evidence that was read is still there; and if the pull request is now as the gate wants it
\* on the main it read, there was an instant when all of it was so.
EvidenceRead == gate.found # {} /\ Succeeded(gate.native)
AsWanted == Live(gate.head) /\ pulls[heads[gate.head].pull].base = gate.main
Witnessed ==
  /\ gate.at # "idle" => gate.head \in 1 .. Len(heads)
  /\ gate.at \in {"analyses", "main", "pull", "accepted"} =>
       (Succeeded(gate.native) => Succeeded(natives[gate.head]))
  /\ gate.at \in {"main", "pull", "accepted"} => gate.found \subseteq Listed(gate.head)
  /\ gate.at = "pull" =>
       (EvidenceRead /\ AsWanted => <<gate.head, gate.main, TRUE>> \in past)
  /\ GateIsEarned

ScanInv ==
  /\ ScanTypes /\ Based /\ Bound /\ Remembered
  /\ Pinned /\ Shown /\ Allowed /\ Awaited /\ Alone
  /\ Witnessed
  /\ UploadsAreExact /\ UploadsAreSingle

-----------------------------------------------------------------------------
(* What others do: types, and what can never be undone                        *)

TipOn == tip <= tip'
HeadsOn == Len(heads) <= Len(heads') /\ \A h \in 1 .. Len(heads) : heads'[h] = heads[h]
\* A head that was replaced is not live again, and a base only moves to the live main.
PullsOn ==
  \A h \in 1 .. Len(heads) : Live(h)' =>
    /\ Live(h)
    /\ pulls[heads[h].pull].base <= pulls'[heads[h].pull].base
    /\ pulls'[heads[h].pull].base \in {pulls[heads[h].pull].base, tip'}
ScansOn ==
  /\ Len(scans) <= Len(scans')
  /\ \A i \in 1 .. Len(scans) :
       /\ scans'[i].head = scans[i].head /\ scans[i].attempt <= scans'[i].attempt
       /\ scans[i].sound \subseteq scans'[i].sound
ChecksOn == \A h \in 1 .. Len(heads) : Succeeded(natives[h]) => Succeeded(natives'[h])
UploadsOn ==
  /\ Len(uploads) <= Len(uploads')
  /\ \A i \in 1 .. Len(uploads) :
       /\ uploads'[i].head = uploads[i].head /\ uploads'[i].run = uploads[i].run
       /\ uploads'[i].main = uploads[i].main
       /\ uploads[i].listed => uploads'[i].listed /\ uploads'[i].warned = uploads[i].warned
       /\ uploads[i].left => uploads'[i].left
Onward == TipOn /\ HeadsOn /\ PullsOn /\ ScansOn /\ ChecksOn /\ UploadsOn

LEMMA Lengths ==
  ASSUME GitHubTypes
  PROVE  /\ Len(heads) \in Nat /\ DOMAIN heads = 1 .. Len(heads)
         /\ Len(scans) \in Nat /\ DOMAIN scans = 1 .. Len(scans)
         /\ Len(uploads) \in Nat /\ DOMAIN uploads = 1 .. Len(uploads)
         /\ DOMAIN natives = 1 .. Len(heads)
         /\ \A h \in 1 .. Len(heads) : heads[h] \in Heads /\ natives[h] \in Seq(CheckStates)
         /\ \A i \in 1 .. Len(scans) : scans[i] \in RunRecords
         /\ \A i \in 1 .. Len(uploads) : uploads[i] \in Reports
BY LenProperties, ElementOfSeq DEF GitHubTypes

\* A function on the first numbers is a sequence of that length.
LEMMA FunctionIsSeq ==
  ASSUME NEW S, NEW n \in Nat, NEW f \in [1 .. n -> S]
  PROVE  f \in Seq(S) /\ Len(f) = n
<1>1. f \in Seq(S)
  BY SeqDef
<1>2. DOMAIN f = 1 .. Len(f) /\ DOMAIN f = 1 .. n /\ Len(f) \in Nat
  BY <1>1, LenProperties
<1> QED
  BY <1>1, <1>2

\* What a step leaves alone has not gone back.
LEMMA Standing ==
  ASSUME GitHubTypes
  PROVE  /\ UNCHANGED tip => TipOn
         /\ UNCHANGED heads => HeadsOn
         /\ UNCHANGED <<heads, pulls>> => PullsOn
         /\ UNCHANGED scans => ScansOn
         /\ UNCHANGED natives => ChecksOn
         /\ UNCHANGED uploads => UploadsOn
<1>1. (UNCHANGED tip => TipOn) /\ (UNCHANGED heads => HeadsOn)
  BY Lengths DEF GitHubTypes, TipOn, HeadsOn
<1>2. UNCHANGED <<heads, pulls>> => PullsOn
  <2>1. \A h \in 1 .. Len(heads) : pulls[heads[h].pull].base \in Nat
    BY Lengths DEF GitHubTypes, Heads, PullStates
  <2> QED
    BY <2>1 DEF Live, PullsOn
<1>3. UNCHANGED scans => ScansOn
  BY Lengths DEF RunRecords, ScansOn
<1>4. (UNCHANGED natives => ChecksOn) /\ (UNCHANGED uploads => UploadsOn)
  BY Lengths DEF ChecksOn, UploadsOn
<1> QED
  BY <1>1, <1>2, <1>3, <1>4

Sound == GitHubTypes /\ Based /\ Bound
Moves == Sound' /\ Onward /\ Len(uploads') = Len(uploads)

\* What is left of the bounds is a number.
LEMMA TurnTypes ==
  ASSUME BoundsType, Turn \/ UNCHANGED room
  PROVE  BoundsType'
BY DEF BoundsType, Turn

\* A push makes a new head the live one, based on main.
LEMMA PushMoves ==
  ASSUME Sound, BoundsType, BranchPushes
  PROVE  Moves /\ BoundsType'
<1> USE DEF Sound
<1>1. PICK p \in Pulls, kind \in Kinds : \E on \in {heads[pulls[p].head].on, tip} :
        /\ heads' = Append(heads, [pull |-> p, on |-> on, kind |-> kind])
        /\ natives' = Append(natives, << >>)
        /\ pulls' = [pulls EXCEPT ![p].head = Len(heads'), ![p].base = tip]
        /\ UNCHANGED <<tip, scans, uploads>> /\ Turn
  BY DEF BranchPushes
<1>2. PICK on \in {heads[pulls[p].head].on, tip} :
        /\ heads' = Append(heads, [pull |-> p, on |-> on, kind |-> kind])
        /\ natives' = Append(natives, << >>)
        /\ pulls' = [pulls EXCEPT ![p].head = Len(heads'), ![p].base = tip]
        /\ UNCHANGED <<tip, scans, uploads>> /\ Turn
  BY <1>1
<1>3. on \in Nat /\ on <= tip /\ tip \in Nat
  <2>1. heads[pulls[p].head] \in Heads
    BY Lengths DEF Based
  <2>2. heads[pulls[p].head].on \in Nat /\ pulls[p].base \in Nat /\ tip \in Nat
    BY <2>1 DEF Heads, GitHubTypes, PullStates
  <2> QED
    BY <1>2, <2>2 DEF Based
<1>4. /\ heads' \in Seq(Heads) /\ Len(heads') = Len(heads) + 1
      /\ \A h \in 1 .. Len(heads) : heads'[h] = heads[h]
      /\ heads'[Len(heads')] = [pull |-> p, on |-> on, kind |-> kind]
  <2>1. [pull |-> p, on |-> on, kind |-> kind] \in Heads
    BY <1>3 DEF Heads
  <2> QED
    BY <1>2, <2>1, AppendProperties DEF GitHubTypes
<1>5. /\ natives' \in Seq(Seq(CheckStates)) /\ Len(natives') = Len(heads')
      /\ \A h \in 1 .. Len(heads) : natives'[h] = natives[h]
  <2>1. << >> \in Seq(CheckStates)
    BY EmptySeq
  <2> QED
    BY <1>2, <1>4, <2>1, AppendProperties DEF GitHubTypes
<1>6. /\ pulls' \in [Pulls -> PullStates]
      /\ pulls'[p].head = Len(heads') /\ pulls'[p].base = tip
      /\ \A q \in Pulls \ {p} : pulls'[q] = pulls[q]
  <2>1. Len(heads') \in Nat
    BY <1>4, Lengths
  <2>2. pulls \in [Pulls -> PullStates]
    BY DEF GitHubTypes
  <2> DEFINE headed == [pulls EXCEPT ![p].head = Len(heads')]
  <2>3. /\ headed \in [Pulls -> PullStates] /\ headed[p].head = Len(heads')
        /\ \A q \in Pulls \ {p} : headed[q] = pulls[q]
    BY <2>1, <2>2 DEF PullStates
  <2>4. pulls' = [headed EXCEPT ![p].base = tip]
    BY <1>2
  <2> HIDE DEF headed
  <2> QED
    BY <1>3, <2>1, <2>3, <2>4 DEF PullStates
<1>7. GitHubTypes'
  BY <1>2, <1>4, <1>5, <1>6 DEF GitHubTypes
<1>8. Based'
  BY <1>2, <1>3, <1>4, <1>6, Lengths DEF Based
<1>9. Bound'
  BY <1>2, <1>4, Lengths DEF Bound
<1>10. PullsOn
  <2>1. ASSUME NEW h \in 1 .. Len(heads), Live(h)'
        PROVE  heads[h].pull \in Pulls \ {p}
    BY <1>4, <1>6, <2>1, Lengths DEF Live, Heads
  <2>2. \A q \in Pulls : pulls[q].base \in Nat
    BY DEF GitHubTypes, PullStates
  <2> QED
    BY <1>4, <1>6, <2>1, <2>2 DEF PullsOn, Live
<1>11. Onward
  <2>1. HeadsOn /\ ChecksOn
    BY <1>4, <1>5, Lengths DEF HeadsOn, ChecksOn
  <2> QED
    BY <1>2, <1>10, <2>1, Standing DEF Onward
<1> QED
  BY <1>2, <1>7, <1>8, <1>9, <1>11, TurnTypes DEF Moves

\* Main, the bases and the states of pull requests.
LEMMA PullsMove ==
  ASSUME Sound, BoundsType, MainMoves \/ BaseRefreshes \/ StateChanges
  PROVE  Moves /\ BoundsType'
<1> USE DEF Sound
<1>1. /\ UNCHANGED <<heads, scans, uploads, natives>> /\ (Turn \/ UNCHANGED room)
      /\ tip \in Nat /\ pulls \in [Pulls -> PullStates]
  BY DEF MainMoves, BaseRefreshes, StateChanges, Itself, GitHubTypes
<1>2. tip' \in Nat /\ TipOn
  BY <1>1 DEF MainMoves, BaseRefreshes, StateChanges, TipOn
<1>3. \A p \in Pulls : pulls[p].base \in Nat
  BY <1>1 DEF PullStates
<1>4. /\ pulls' \in [Pulls -> PullStates]
      /\ \A p \in Pulls : /\ pulls'[p].head = pulls[p].head
                          /\ pulls'[p].base = pulls[p].base \/ pulls'[p].base = tip'
  <2>1. CASE MainMoves
    BY <1>1, <2>1 DEF MainMoves
  <2>2. CASE BaseRefreshes
    BY <1>1, <2>2 DEF BaseRefreshes, PullStates
  <2>3. CASE StateChanges
    BY <1>1, <2>3 DEF StateChanges, PullStates
  <2> QED
    BY <2>1, <2>2, <2>3
<1>5. \A p \in Pulls : pulls'[p].base \in Nat /\ pulls[p].base <= pulls'[p].base
                       /\ pulls'[p].base <= tip'
  BY <1>1, <1>2, <1>3, <1>4 DEF Based, TipOn
<1>6. GitHubTypes' /\ Bound'
  BY <1>1, <1>2, <1>4 DEF GitHubTypes, Bound
<1>7. Based'
  <2>1. \A p \in Pulls : heads[pulls[p].head].on \in Nat
    BY Lengths DEF Based, Heads
  <2> QED
    BY <1>1, <1>3, <1>4, <1>5, <2>1 DEF Based
<1>8. PullsOn
  BY <1>1, <1>4, <1>5, Lengths DEF PullsOn, Live, Heads
<1> QED
  BY <1>1, <1>2, <1>6, <1>7, <1>8, Standing, TurnTypes DEF Moves, Onward

\* Runs of the scan.
LEMMA ScansMove ==
  ASSUME Sound, BoundsType, RunBegins \/ RunEnds \/ RunReruns
  PROVE  Moves /\ BoundsType'
<1> USE DEF Sound
<1>1. /\ UNCHANGED <<tip, pulls, heads, uploads, natives>> /\ (Turn \/ UNCHANGED room)
      /\ scans \in Seq(RunRecords) /\ Len(scans) \in Nat /\ DOMAIN scans = 1 .. Len(scans)
  BY Lengths DEF RunBegins, RunEnds, RunReruns, Itself, GitHubTypes
<1>2. scans \in [1 .. Len(scans) -> RunRecords]
  BY <1>1, LenProperties
<1>3. \A i \in 1 .. Len(scans) : scans[i].head \in 1 .. Len(heads) /\ scans[i].attempt \in Nat
  BY <1>2 DEF Bound, RunRecords
<1>4. /\ scans' \in Seq(RunRecords) /\ ScansOn
      /\ \A i \in 1 .. Len(scans') : scans'[i].head \in 1 .. Len(heads)
  <2>1. CASE RunBegins
    <3>1. PICK h \in 1 .. Len(heads) :
            scans' = Append(scans, [head |-> h, attempt |-> 1, status |-> "running", sound |-> {}])
      BY <2>1, Lengths DEF RunBegins
    <3> DEFINE r == [head |-> h, attempt |-> 1, status |-> "running", sound |-> {}]
    <3>2. r \in RunRecords
      BY Lengths DEF RunRecords
    <3>3. /\ scans' \in Seq(RunRecords) /\ Len(scans') = Len(scans) + 1
          /\ \A i \in 1 .. Len(scans) : scans'[i] = scans[i]
          /\ scans'[Len(scans) + 1].head = h
      BY <1>1, <3>1, <3>2, AppendProperties
    <3>4. ScansOn
      BY <1>1, <3>3, Lengths DEF ScansOn, RunRecords
    <3> QED
      BY <1>1, <3>3, <3>4 DEF Bound
  <2>2. CASE RunEnds
    <3>1. PICK i \in 1 .. Len(scans), outcome \in {"success", "failure"}, sound \in BOOLEAN :
            scans' = [scans EXCEPT ![i].status = outcome,
                                   ![i].sound = IF sound THEN @ \cup {scans[i].attempt} ELSE @]
      BY <1>1, <2>2 DEF RunEnds
    <3> DEFINE ended == [scans EXCEPT ![i].status = outcome]
    <3>2. /\ ended \in [1 .. Len(scans) -> RunRecords]
          /\ \A j \in 1 .. Len(scans) : /\ ended[j].head = scans[j].head
                                        /\ ended[j].attempt = scans[j].attempt
                                        /\ ended[j].sound = scans[j].sound
      BY <1>2 DEF RunRecords
    <3>3. scans' = [ended EXCEPT ![i].sound = IF sound THEN @ \cup {scans[i].attempt} ELSE @]
      BY <3>1
    <3> HIDE DEF ended
    <3>4. /\ scans' \in [1 .. Len(scans) -> RunRecords]
          /\ \A j \in 1 .. Len(scans) : /\ scans'[j].head = scans[j].head
                                        /\ scans'[j].attempt = scans[j].attempt
                                        /\ scans[j].sound \subseteq scans'[j].sound
      BY <1>3, <3>2, <3>3 DEF RunRecords
    <3>5. scans' \in Seq(RunRecords) /\ Len(scans') = Len(scans)
      BY <1>1, <3>4, FunctionIsSeq
    <3>6. \A j \in 1 .. Len(scans) : scans[j].attempt <= scans'[j].attempt
      BY <1>3, <3>4
    <3>7. ScansOn
      BY <3>4, <3>5, <3>6 DEF ScansOn
    <3> QED
      BY <1>3, <3>4, <3>5, <3>7
  <2>3. CASE RunReruns
    <3>1. PICK i \in 1 .. Len(scans) :
            scans' = [scans EXCEPT ![i].status = "running", ![i].attempt = @ + 1]
      BY <1>1, <2>3 DEF RunReruns
    <3> DEFINE begun == [scans EXCEPT ![i].status = "running"]
    <3>2. /\ begun \in [1 .. Len(scans) -> RunRecords]
          /\ \A j \in 1 .. Len(scans) : /\ begun[j].head = scans[j].head
                                        /\ begun[j].attempt = scans[j].attempt
                                        /\ begun[j].sound = scans[j].sound
      BY <1>2 DEF RunRecords
    <3>3. scans' = [begun EXCEPT ![i].attempt = @ + 1]
      BY <3>1
    <3> HIDE DEF begun
    <3>4. /\ scans' \in [1 .. Len(scans) -> RunRecords]
          /\ \A j \in 1 .. Len(scans) : /\ scans'[j].head = scans[j].head
                                        /\ scans[j].attempt <= scans'[j].attempt
                                        /\ scans'[j].sound = scans[j].sound
      BY <3>2, <3>3 DEF RunRecords
    <3>5. scans' \in Seq(RunRecords) /\ Len(scans') = Len(scans)
      BY <1>1, <3>4, FunctionIsSeq
    <3>6. \A j \in 1 .. Len(scans) : scans[j].sound \subseteq scans'[j].sound
      BY <3>4
    <3>7. ScansOn
      BY <1>1, <3>4, <3>5, <3>6 DEF ScansOn
    <3> QED
      BY <1>3, <3>4, <3>5, <3>7
  <2> QED
    BY <2>1, <2>2, <2>3
<1>5. GitHubTypes' /\ Based'
  BY <1>1, <1>4 DEF GitHubTypes, Based
<1>6. Bound'
  <2>1. \A i \in 1 .. Len(scans) : i \in 1 .. Len(scans') /\ scans'[i].head = scans[i].head
    BY <1>1, <1>4, LenProperties DEF ScansOn
  <2> QED
    BY <1>1, <1>4, <2>1 DEF Bound
<1> QED
  BY <1>1, <1>4, <1>5, <1>6, Standing, TurnTypes DEF Moves, Onward

\* Reports that Code Scanning lists, with or without a warning.
LEMMA ReportMoves ==
  ASSUME Sound, BoundsType, ReportListed
  PROVE  Moves /\ BoundsType'
<1> USE DEF Sound
<1>1. PICK i \in 1 .. Len(uploads), warned \in BOOLEAN :
        /\ ~uploads[i].listed
        /\ uploads' = [uploads EXCEPT ![i].listed = TRUE, ![i].warned = warned]
  BY Lengths DEF ReportListed
<1>2. UNCHANGED <<tip, pulls, heads, scans, natives, room>>
  BY DEF ReportListed, Itself
<1>3. uploads \in [1 .. Len(uploads) -> Reports] /\ Len(uploads) \in Nat
  BY LenProperties DEF GitHubTypes
<1> DEFINE listed == [uploads EXCEPT ![i].listed = TRUE]
<1>4. /\ listed \in [1 .. Len(uploads) -> Reports]
      /\ \A j \in 1 .. Len(uploads) :
           /\ listed[j].head = uploads[j].head /\ listed[j].run = uploads[j].run
           /\ listed[j].main = uploads[j].main /\ listed[j].left = uploads[j].left
           /\ uploads[j].listed => listed[j].listed /\ j # i
           /\ listed[j].warned = uploads[j].warned
  BY <1>1, <1>3 DEF Reports
<1>5. uploads' = [listed EXCEPT ![i].warned = warned]
  BY <1>1
<1> HIDE DEF listed
<1>6. /\ uploads' \in [1 .. Len(uploads) -> Reports]
      /\ \A j \in 1 .. Len(uploads) :
           /\ uploads'[j].head = uploads[j].head /\ uploads'[j].run = uploads[j].run
           /\ uploads'[j].main = uploads[j].main /\ uploads'[j].left = uploads[j].left
           /\ uploads[j].listed => uploads'[j].listed /\ uploads'[j].warned = uploads[j].warned
  <2>1. uploads'[i] = [listed[i] EXCEPT !.warned = warned]
    BY <1>4, <1>5
  <2>2. uploads'[i] \in Reports
    <3>1. listed[i] \in Reports
      BY <1>1, <1>4
    <3>2. \A r \in Reports : [r EXCEPT !.warned = warned] \in Reports
      BY <1>1 DEF Reports
    <3> QED
      BY <2>1, <3>1, <3>2
  <2>3. /\ DOMAIN uploads' = 1 .. Len(uploads) /\ uploads' = [j \in 1 .. Len(uploads) |-> uploads'[j]]
        /\ \A j \in 1 .. Len(uploads) : j # i => uploads'[j] = listed[j]
    BY <1>4, <1>5
  <2>4. uploads' \in [1 .. Len(uploads) -> Reports]
    BY <1>4, <2>2, <2>3
  <2>5. /\ uploads'[i].head = listed[i].head /\ uploads'[i].run = listed[i].run
        /\ uploads'[i].main = listed[i].main /\ uploads'[i].left = listed[i].left
    BY <1>1, <1>4, <2>1 DEF Reports
  <2> QED
    BY <1>1, <1>4, <2>3, <2>4, <2>5
<1>7. uploads' \in Seq(Reports) /\ Len(uploads') = Len(uploads)
  BY <1>3, <1>6, FunctionIsSeq
<1>8. UploadsOn
  BY <1>3, <1>6, <1>7 DEF UploadsOn
<1>9. GitHubTypes' /\ Based' /\ Bound'
  BY <1>2, <1>6, <1>7 DEF GitHubTypes, Based, Bound
<1> QED
  BY <1>2, <1>7, <1>8, <1>9, Standing, TurnTypes DEF Moves, Onward

\* Checks that Code Scanning opens and completes.
LEMMA ChecksMove ==
  ASSUME Sound, BoundsType, CheckBegins \/ CheckEnds
  PROVE  Moves /\ BoundsType'
<1> USE DEF Sound
<1>1. /\ UNCHANGED <<tip, pulls, heads, scans, uploads>> /\ (Turn \/ UNCHANGED room)
      /\ natives \in [1 .. Len(heads) -> Seq(CheckStates)] /\ Len(heads) \in Nat
  BY Lengths, LenProperties DEF CheckBegins, CheckEnds, Itself, GitHubTypes
<1>2. PICK h \in 1 .. Len(heads) :
        \E checks \in Seq(CheckStates) :
          /\ natives' = [natives EXCEPT ![h] = checks]
          /\ Succeeded(natives[h]) => Succeeded(checks)
  <2>1. CASE CheckBegins
    <3>1. PICK h \in 1 .. Len(heads) : natives' = [natives EXCEPT ![h] = Append(@, "running")]
      BY <2>1, Lengths DEF CheckBegins
    <3> DEFINE checks == Append(natives[h], "running")
    <3>2. /\ checks \in Seq(CheckStates) /\ Len(checks) = Len(natives[h]) + 1
          /\ \A i \in 1 .. Len(natives[h]) : checks[i] = natives[h][i]
          /\ Len(natives[h]) \in Nat
      BY <1>1, AppendProperties, LenProperties DEF CheckStates
    <3>3. Succeeded(natives[h]) => Succeeded(checks)
      BY <3>2 DEF Succeeded
    <3> QED
      BY <3>1, <3>2, <3>3
  <2>2. CASE CheckEnds
    <3>1. PICK h \in 1 .. Len(heads), outcome \in {"success", "neutral"} :
            \E i \in DOMAIN natives[h] :
              natives[h][i] = "running" /\ natives' = [natives EXCEPT ![h][i] = outcome]
      BY <2>2, Lengths DEF CheckEnds
    <3>2. PICK i \in DOMAIN natives[h] :
            natives[h][i] = "running" /\ natives' = [natives EXCEPT ![h][i] = outcome]
      BY <3>1
    <3> DEFINE checks == [natives[h] EXCEPT ![i] = outcome]
    <3>3. natives' = [natives EXCEPT ![h] = checks]
      BY <3>2
    <3>4. /\ natives[h] \in Seq(CheckStates) /\ i \in 1 .. Len(natives[h])
          /\ natives[h][i] = "running"
      BY <1>1, <3>2, LenProperties
    <3>5. /\ checks \in Seq(CheckStates) /\ Len(checks) = Len(natives[h])
          /\ \A j \in 1 .. Len(natives[h]) :
               checks[j] = IF j = i THEN outcome ELSE natives[h][j]
      BY <3>4, ExceptSeq DEF CheckStates
    <3>6. Succeeded(natives[h]) => Succeeded(checks)
      BY <3>4, <3>5 DEF Succeeded
    <3> QED
      BY <3>3, <3>5, <3>6
  <2> QED
    BY <2>1, <2>2
<1>3. PICK checks \in Seq(CheckStates) :
        /\ natives' = [natives EXCEPT ![h] = checks]
        /\ Succeeded(natives[h]) => Succeeded(checks)
  BY <1>2
<1>4. /\ natives' \in [1 .. Len(heads) -> Seq(CheckStates)]
      /\ \A g \in 1 .. Len(heads) : natives'[g] = IF g = h THEN checks ELSE natives[g]
  BY <1>1, <1>3
<1>5. natives' \in Seq(Seq(CheckStates)) /\ Len(natives') = Len(heads)
  BY <1>1, <1>4, FunctionIsSeq
<1>6. ChecksOn
  BY <1>3, <1>4 DEF ChecksOn
<1>7. GitHubTypes' /\ Based' /\ Bound'
  BY <1>1, <1>5 DEF GitHubTypes, Based, Bound
<1> QED
  BY <1>1, <1>6, <1>7, Standing, TurnTypes DEF Moves, Onward

\* Whatever others do, GitHub only goes on, and no report is added.
LEMMA OutsideMoves ==
  ASSUME Sound, BoundsType, Outside
  PROVE  Moves /\ BoundsType' /\ UNCHANGED <<publisher, gate>>
<1>1. Moves /\ BoundsType'
  BY PushMoves, PullsMove, ScansMove, ReportMoves, ChecksMove DEF Outside
<1>2. UNCHANGED <<publisher, gate>>
  BY DEF Outside, BranchPushes, MainMoves, BaseRefreshes, StateChanges, RunBegins, RunEnds,
         RunReruns, ReportListed, CheckBegins, CheckEnds, Others, Itself
<1> QED
  BY <1>1, <1>2

-----------------------------------------------------------------------------
(* What was seen stays so                                                     *)

\* The history takes in what is exact in each new state.
LEMMA RememberKeeps ==
  ASSUME GitHubTypes', PastType, Remember
  PROVE  PastType' /\ Remembered' /\ past \subseteq past'
<1>1. past' = past \cup ExactNow'
  BY DEF Remember
<1>2. DOMAIN heads' \subseteq Nat /\ tip' \in Nat
  BY LenProperties DEF GitHubTypes
<1>3. \A h : Evidenced(h)' \in BOOLEAN
  BY DEF Evidenced
<1>4. ExactNow' \subseteq Nat \X Nat \X BOOLEAN
  BY <1>2, <1>3 DEF ExactNow
<1> QED
  BY <1>1, <1>4 DEF PastType, Remembered

\* What GitHub does cannot be undone, and the history is only added to.
Goes == Sound /\ Sound' /\ Onward /\ past \subseteq past'

LEMMA ListedStays ==
  ASSUME Goes, NEW h
  PROVE  Listed(h) \subseteq Listed(h)'
BY Lengths DEF Goes, Sound, Onward, UploadsOn, Listed

\* Published reports stay exact and single as long as none is added.
LEMMA UploadsStay ==
  ASSUME Goes, UploadsAreExact, UploadsAreSingle, Len(uploads') = Len(uploads)
  PROVE  UploadsAreExact' /\ UploadsAreSingle'
<1>1. /\ DOMAIN uploads' = DOMAIN uploads /\ DOMAIN uploads = 1 .. Len(uploads)
  BY Lengths, LenProperties DEF Goes, Sound, GitHubTypes
<1>2. UploadsAreExact'
  <2>1. ASSUME NEW i \in 1 .. Len(uploads)
        PROVE  /\ scans'[uploads'[i].run].head = uploads'[i].head
               /\ 1 \in scans'[uploads'[i].run].sound
               /\ heads'[uploads'[i].head].kind = "trusted"
               /\ heads'[uploads'[i].head].on = uploads'[i].main
               /\ \E e \in BOOLEAN : <<uploads'[i].head, uploads'[i].main, e>> \in past'
    <3>1. /\ uploads'[i].head = uploads[i].head /\ uploads'[i].run = uploads[i].run
          /\ uploads'[i].main = uploads[i].main
      BY DEF Goes, Onward, UploadsOn
    <3>2. uploads[i].run \in 1 .. Len(scans) /\ uploads[i].head \in 1 .. Len(heads)
      BY DEF Goes, Sound, Bound
    <3>3. /\ scans'[uploads[i].run].head = scans[uploads[i].run].head
          /\ scans[uploads[i].run].sound \subseteq scans'[uploads[i].run].sound
          /\ heads'[uploads[i].head] = heads[uploads[i].head]
      BY <3>2 DEF Goes, Onward, ScansOn, HeadsOn
    <3> QED
      BY <1>1, <3>1, <3>3 DEF UploadsAreExact, Goes
  <2> QED
    BY <1>1, <2>1 DEF UploadsAreExact
<1>3. UploadsAreSingle'
  BY <1>1 DEF UploadsAreSingle, Goes, Onward, UploadsOn
<1> QED
  BY <1>2, <1>3

\* What a verification has shown stays shown, whatever others do.
LEMMA ShownStays ==
  ASSUME Goes, Pinned, Shown, UNCHANGED publisher, JobType
  PROVE  Pinned' /\ Shown' /\ (publisher.at \in WithRun => Candidate' = Candidate)
<1>1. /\ tip \in Nat /\ tip' \in Nat /\ tip <= tip' /\ publisher.pinned \in Nat
      /\ Len(scans) \in Nat /\ Len(scans') \in Nat /\ Len(scans) <= Len(scans')
  BY Lengths, LenProperties
     DEF Goes, Sound, GitHubTypes, Onward, TipOn, ScansOn, JobType
<1>2. Pinned'
  <2>1. uploads # << >> => uploads' # << >>
    <3>1. uploads # << >> => Len(uploads) > 0
      BY EmptySeq DEF Goes, Sound, GitHubTypes
    <3>2. Len(uploads) <= Len(uploads') /\ Len(uploads) \in Nat
      BY Lengths DEF Goes, Sound, Onward, UploadsOn
    <3> QED
      BY <3>1, <3>2, EmptySeq
  <2> QED
    BY <1>1, <2>1 DEF Pinned
<1>3. CASE publisher.at \notin WithRun
  BY <1>2, <1>3 DEF Shown
<1>4. CASE publisher.at \in WithRun
  <2>1. publisher.run \in 1 .. Len(scans)
    BY <1>4 DEF Pinned
  <2>2. /\ Candidate' = Candidate /\ Candidate \in 1 .. Len(heads)
        /\ scans[publisher.run].attempt <= scans'[publisher.run].attempt
        /\ scans[publisher.run].sound \subseteq scans'[publisher.run].sound
    BY <2>1 DEF Candidate, Goes, Onward, ScansOn, Sound, Bound
  <2>3. /\ scans[publisher.run].attempt \in Nat \ {0}
        /\ scans'[publisher.run].attempt \in Nat \ {0}
    <3>1. scans[publisher.run] \in RunRecords
      BY <2>1, Lengths DEF Goes, Sound
    <3>2. scans'[publisher.run] \in RunRecords
      BY <1>1, <2>1, ElementOfSeq DEF Goes, Sound, GitHubTypes
    <3> QED
      BY <3>1, <3>2 DEF RunRecords
  <2>4. heads'[Candidate] = heads[Candidate] /\ heads[Candidate].pull \in Pulls
    <3>1. heads[Candidate] \in Heads
      BY <2>2, Lengths DEF Goes, Sound
    <3> QED
      BY <2>2, <3>1 DEF Goes, Onward, HeadsOn, Heads
  <2>5. WasExact(Candidate, publisher.pinned) => WasExact(Candidate, publisher.pinned)'
    BY <2>2 DEF WasExact, Goes
  <2>6. FirstSound(publisher.run) => FirstSound(publisher.run)'
    BY <2>2 DEF FirstSound
  <2>7. ShownExact' /\ ShownAgain'
    <3>1. tip' = publisher.pinned => tip = publisher.pinned
      BY <1>1 DEF Pinned
    <3>2. ShownExact'
      BY <1>4, <2>5, <3>1 DEF Shown, ShownExact, Passed
    <3>3. ShownAgain'
      BY <1>4, <2>5, <2>6 DEF Shown, ShownAgain, Confirmed
    <3> QED
      BY <3>2, <3>3
  <2>8. ShownBase'
    <3>1. Live(Candidate)' =>
            /\ Live(Candidate)
            /\ pulls[heads[Candidate].pull].base <= pulls'[heads[Candidate].pull].base
      BY <2>2 DEF Goes, Onward, PullsOn
    <3>2. /\ pulls[heads[Candidate].pull].base \in Nat
          /\ pulls'[heads[Candidate].pull].base \in Nat
      BY <2>4 DEF Goes, Sound, GitHubTypes, PullStates
    <3> QED
      BY <1>1, <1>4, <2>2, <2>4, <3>1, <3>2 DEF Shown, ShownBase, CandidatePull
  <2>9. ShownSource' /\ ShownSound'
    BY <1>4, <2>2, <2>3, <2>4, <2>6 DEF Shown, ShownSource, ShownSound, Passed
  <2> QED
    BY <1>2, <2>2, <2>7, <2>8, <2>9 DEF Shown
<1> QED
  BY <1>3, <1>4

\* Reports stay settled, and those of a candidate given up, as long as none is added.
LEMMA AloneStays ==
  ASSUME Goes, Pinned, Awaited, Alone, UNCHANGED publisher, Len(uploads') = Len(uploads),
         publisher.at \in WithRun => Candidate' = Candidate
  PROVE  Awaited' /\ Alone'
<1>1. Awaited'
  BY DEF Awaited, Settled, Goes, Onward, UploadsOn
<1>2. Alone'
  BY DEF Alone, Goes, Onward, UploadsOn, WithRun, Verifying
<1> QED
  BY <1>1, <1>2

\* The gate's evidence stays, and if what others do makes a pull request as the gate wants it,
\* that instant is remembered.
LEMMA WitnessedStays ==
  ASSUME Goes, Witnessed, Remembered', UNCHANGED gate, GateType
  PROVE  Witnessed'
<1>1. Len(heads) \in Nat /\ Len(heads') \in Nat /\ Len(heads) <= Len(heads')
      /\ tip \in Nat /\ tip' \in Nat /\ tip <= tip'
  BY Lengths, LenProperties DEF Goes, Sound, GitHubTypes, Onward, HeadsOn, TipOn
<1>2. CASE gate.at = "idle"
  BY <1>2 DEF Witnessed, GateIsEarned
<1>3. CASE gate.at # "idle"
  <2> DEFINE h == gate.head
  <2>1. h \in 1 .. Len(heads) /\ h \in 1 .. Len(heads') /\ heads'[h] = heads[h]
    BY <1>1, <1>3 DEF Witnessed, Goes, Onward, HeadsOn
  <2>2. Succeeded(natives[h]) => Succeeded(natives'[h])
    BY <2>1 DEF Goes, Onward, ChecksOn
  <2>3. Listed(h) \subseteq Listed(h)'
    BY ListedStays
  <2>4. ASSUME gate.at = "pull", EvidenceRead, AsWanted'
        PROVE  <<h, gate.main, TRUE>> \in past'
    <3>1. Live(h)' /\ pulls'[heads[h].pull].base = gate.main
      BY <2>1, <2>4 DEF AsWanted
    <3>2. Live(h) /\ pulls'[heads[h].pull].base \in {pulls[heads[h].pull].base, tip'}
      BY <2>1, <3>1 DEF Goes, Onward, PullsOn
    <3>3. CASE pulls[heads[h].pull].base = gate.main
      BY <2>4, <3>2, <3>3 DEF Witnessed, AsWanted, Goes
    <3>4. CASE gate.main = tip'
      <4>1. Exact(h)'
        BY <2>1, <3>1, <3>4 DEF Exact
      <4>2. Evidenced(h)'
        <5>1. Succeeded(natives'[h])
          BY <2>2, <2>4 DEF Witnessed, EvidenceRead
        <5>2. Listed(h)' # {}
          BY <2>3, <2>4 DEF Witnessed, EvidenceRead
        <5> QED
          BY <5>1, <5>2 DEF Evidenced, Succeeded
      <4>3. h \in DOMAIN heads'
        BY <2>1, LenProperties DEF Goes, Sound, GitHubTypes
      <4>4. <<h, tip', TRUE>> \in ExactNow'
        <5>1. Evidenced(h)' = TRUE
          BY <4>2 DEF Evidenced
        <5> QED
          BY <4>1, <4>3, <5>1 DEF ExactNow
      <4> QED
        BY <3>4, <4>4 DEF Remembered
    <3> QED
      BY <3>1, <3>2, <3>3, <3>4
  <2>5. GateIsEarned'
    <3> SUFFICES ASSUME gate.at = "accepted"
                 PROVE  /\ <<h, gate.main, TRUE>> \in past'
                        /\ \E i \in gate.found : uploads'[i].head = h /\ ~uploads'[i].warned
      BY DEF GateIsEarned
    <3>1. PICK i \in gate.found : uploads[i].head = h /\ ~uploads[i].warned
      BY DEF Witnessed, GateIsEarned
    <3>2. i \in 1 .. Len(uploads) /\ uploads[i].listed
      BY <3>1 DEF Witnessed, Listed
    <3> QED
      BY <3>1, <3>2 DEF Witnessed, GateIsEarned, Goes, Onward, UploadsOn
  <2>6. gate.at \in {"main", "pull", "accepted"} => gate.found \subseteq Listed(h)'
    BY <2>3 DEF Witnessed
  <2> QED
    BY <2>1, <2>2, <2>4, <2>5, <2>6 DEF Witnessed, EvidenceRead
<1> QED
  BY <1>2, <1>3

-----------------------------------------------------------------------------
(* The publisher                                                              *)

JobInv == JobType /\ Pinned /\ Shown /\ Awaited /\ Alone
\* A step of the publisher or of the gate that only reads.
OnlyReads == Sound /\ Remembered /\ past \subseteq past' /\ UNCHANGED onGitHub

LEMMA ReadingGoes ==
  ASSUME OnlyReads
  PROVE  Goes /\ Len(uploads') = Len(uploads) /\ tip \in Nat
<1>1. Sound'
  BY DEF OnlyReads, Sound, onGitHub, GitHubTypes, Based, Bound
<1>2. Onward
  BY Standing DEF OnlyReads, Sound, onGitHub, Onward
<1> QED
  BY <1>1, <1>2 DEF OnlyReads, Goes, onGitHub, Sound, GitHubTypes

\* A job that is over leaves nothing.
LEMMA OffIsTyped ==
  ASSUME tip' \in Nat, publisher' = Off
  PROVE  JobType' /\ Pinned'
BY DEF Off, JobType, Pinned, PublisherStages, WithRun, Verifying

\* A step from one stage to another moves nothing else of the job.
LEMMA StepMoves ==
  ASSUME JobType, NEW from, NEW to \in PublisherStages, PublisherStep(from, to)
  PROVE  /\ publisher.at = from /\ publisher'.at = to /\ JobType'
         /\ publisher'.pinned = publisher.pinned /\ publisher'.run = publisher.run
         /\ publisher'.todo = publisher.todo /\ publisher'.again = publisher.again
         /\ publisher'.found = publisher.found
BY DEF PublisherStep, JobType

\* Before a run is taken, and after it was let go, nothing is claimed of it.
LEMMA WithoutRun ==
  ASSUME JobInv, OnlyReads, PublisherStarts \/ DiscoverMain \/ ListPulls \/ ListRuns
                            \/ UploadProcessed
  PROVE  JobInv'
<1> USE DEF JobInv
<1>1. /\ UNCHANGED onGitHub /\ tip \in Nat
      /\ DOMAIN heads \subseteq Nat /\ DOMAIN scans = 1 .. Len(scans) /\ Len(scans) \in Nat
  BY ReadingGoes, Lengths DEF OnlyReads, Sound
<1>2. /\ JobType' /\ Pinned'
      /\ publisher'.at \in {"idle", "main", "pulls", "runs", "next"}
      /\ publisher.at = "waiting" => uploads[Len(uploads)].listed
  <2>1. CASE PublisherStarts
    <3>1. publisher.at = "idle"
      BY <2>1 DEF PublisherStarts, Off
    <3>2. PICK pinned \in 0 .. tip : publisher' = [Off EXCEPT !.at = "main", !.pinned = pinned]
      BY <2>1 DEF PublisherStarts
    <3>3. publisher' = [at |-> "main", pinned |-> pinned, todo |-> {}, run |-> 0, again |-> FALSE,
                        found |-> {}]
      BY <3>2 DEF Off
    <3>4. tip' = tip /\ pinned \in Nat /\ pinned <= tip
      BY <1>1 DEF onGitHub
    <3> QED
      BY <3>1, <3>3, <3>4 DEF JobType, Pinned, PublisherStages, WithRun, Verifying
  <2>2. CASE DiscoverMain
    <3>1. PublisherStep("main", "pulls")
      BY <2>2 DEF DiscoverMain
    <3> QED
      BY <1>1, <3>1, StepMoves DEF Pinned, PublisherStages, WithRun, Verifying, onGitHub
  <2>3. CASE ListPulls
    <3>1. CASE publisher' = Off
      BY <1>1, <2>3, <3>1, OffIsTyped DEF ListPulls, Stops, Off, onGitHub
    <3>2. CASE publisher' = [publisher EXCEPT !.at = "runs", !.todo = Active]
      <4>1. Active \subseteq Nat
        BY <1>1 DEF Active
      <4>2. publisher' = [at |-> "runs", pinned |-> publisher.pinned, todo |-> Active,
                          run |-> publisher.run, again |-> publisher.again,
                          found |-> publisher.found]
        BY <3>2 DEF JobType
      <4>3. publisher.at = "pulls"
        BY <2>3 DEF ListPulls, Stops
      <4> QED
        BY <1>1, <4>1, <4>2, <4>3
           DEF JobType, Pinned, PublisherStages, WithRun, Verifying, onGitHub
    <3> QED
      BY <2>3, <3>1, <3>2 DEF ListPulls, Stops
  <2>4. CASE ListRuns
    <3> DEFINE onMain ==
                 {i \in UNION {Newest(h) : h \in publisher.todo} : scans[i].status = "success"}
    <3>1. onMain \subseteq 1 .. Len(scans)
      BY <1>1 DEF Newest
    <3>2. publisher' = [at |-> "next", pinned |-> publisher.pinned, todo |-> onMain,
                        run |-> publisher.run, again |-> publisher.again,
                        found |-> publisher.found]
      BY <2>4 DEF ListRuns, JobType
    <3>3. publisher.at = "runs"
      BY <2>4 DEF ListRuns
    <3> HIDE DEF onMain
    <3> QED
      BY <1>1, <3>1, <3>2, <3>3
         DEF JobType, Pinned, PublisherStages, WithRun, Verifying, onGitHub
  <2>5. CASE UploadProcessed
    <3>1. publisher.at = "waiting" /\ publisher' = Off /\ uploads[Len(uploads)].listed
      BY <2>5 DEF UploadProcessed, Stops
    <3>2. JobType' /\ Pinned'
      BY <1>1, <3>1, OffIsTyped DEF onGitHub
    <3>3. publisher'.at = "idle"
      BY <3>1 DEF Off
    <3> QED
      BY <3>1, <3>2, <3>3
  <2> QED
    BY <2>1, <2>2, <2>3, <2>4, <2>5
<1>3. Shown' /\ Alone'
  BY <1>2 DEF Shown, Alone, WithRun, Verifying
<1>4. Awaited'
  BY <1>1, <1>2 DEF Awaited, Settled, onGitHub
<1> QED
  BY <1>2, <1>3, <1>4

LEMMA NextRunKeeps ==
  ASSUME JobInv, OnlyReads, NextRun
  PROVE  JobInv'
<1> USE DEF JobInv
<1>1. UNCHANGED onGitHub /\ publisher.at = "next" /\ ~publisher.again
  BY DEF OnlyReads, NextRun, Stops, Pinned
<1>2. /\ JobType' /\ Pinned' /\ ~publisher'.again /\ publisher'.at \in {"run", "idle"}
  <2>1. CASE publisher' = Off
    BY <1>1, <2>1, ReadingGoes
       DEF Off, JobType, Pinned, PublisherStages, WithRun, Verifying, onGitHub
  <2>2. CASE \E i \in publisher.todo :
               publisher' = [publisher EXCEPT !.at = "run", !.run = i, !.todo = @ \ {i}]
    <3>1. PICK i \in publisher.todo :
            publisher' = [publisher EXCEPT !.at = "run", !.run = i, !.todo = @ \ {i}]
      BY <2>2
    <3>2. publisher.todo \subseteq 1 .. Len(scans) /\ publisher.todo \subseteq Nat
      BY <1>1 DEF Pinned, JobType
    <3>3. /\ publisher' = [at |-> "run", pinned |-> publisher.pinned, todo |-> publisher.todo \ {i},
                          run |-> i, again |-> FALSE, found |-> publisher.found]
      BY <1>1, <3>1 DEF JobType
    <3> QED
      BY <1>1, <3>2, <3>3
         DEF JobType, Pinned, PublisherStages, WithRun, Verifying, onGitHub
  <2> QED
    BY <2>1, <2>2 DEF NextRun, Stops
<1>3. Shown'
  BY <1>2 DEF Shown, ShownExact, ShownBase, ShownSource, ShownSound, ShownAgain, Passed, Confirmed
<1>4. Awaited' /\ Alone'
  BY <1>1, <1>2 DEF Awaited, Alone, Settled, onGitHub
<1> QED
  BY <1>2, <1>3, <1>4

\* A look at the candidate leaves the candidate, and all that was shown of it.
LEMMA LookKeeps ==
  ASSUME JobInv, OnlyReads, NEW from \in WithRun, NEW to \in PublisherStages,
         PublisherStep(from, to)
  PROVE  /\ JobType' /\ Awaited'
         /\ publisher.at = from /\ publisher'.at = to
         /\ publisher'.pinned = publisher.pinned /\ publisher'.again = publisher.again
         /\ UNCHANGED onGitHub /\ Candidate' = Candidate /\ CandidatePull' = CandidatePull
         /\ to \in WithRun =>
              \/ to = "download" /\ publisher.again
              \/ to = "upload" /\ ~publisher.again
              \/ Pinned'
         /\ WasExact(Candidate, publisher.pinned) => WasExact(Candidate, publisher.pinned)'
         /\ FirstSound(publisher.run)' = FirstSound(publisher.run)
         /\ scans'[publisher'.run].attempt = scans[publisher.run].attempt
         /\ Live(Candidate)' = Live(Candidate)
<1> USE DEF JobInv
<1>1. /\ publisher.at = from /\ publisher'.at = to /\ JobType'
      /\ publisher'.pinned = publisher.pinned /\ publisher'.again = publisher.again
      /\ publisher'.run = publisher.run /\ publisher'.todo = publisher.todo
  BY StepMoves, Zenon DEF WithRun, Verifying, PublisherStages
<1>2. /\ UNCHANGED onGitHub /\ tip' = tip /\ pulls' = pulls /\ heads' = heads
      /\ scans' = scans /\ uploads' = uploads
  BY DEF OnlyReads, onGitHub
<1>3. Candidate' = Candidate /\ CandidatePull' = CandidatePull /\ Live(Candidate)' = Live(Candidate)
  BY <1>1, <1>2 DEF Candidate, CandidatePull, Live
<1>4. Awaited'
  BY <1>1, <1>2 DEF Awaited, Settled, WithRun, Verifying
<1>5. to \in WithRun =>
        \/ to = "download" /\ publisher.again
        \/ to = "upload" /\ ~publisher.again
        \/ Pinned'
  BY <1>1, <1>2 DEF Pinned, WithRun, Verifying
<1>6. WasExact(Candidate, publisher.pinned) => WasExact(Candidate, publisher.pinned)'
  BY <1>1, <1>3 DEF WasExact, OnlyReads
<1> QED
  BY <1>1, <1>2, <1>3, <1>4, <1>5, <1>6 DEF FirstSound

\* The first look: main and the attempt are still those of the discovery, so that what the
\* first pass showed holds from here on.
LEMMA VerifyRunKeeps ==
  ASSUME JobInv, OnlyReads, VerifyRun
  PROVE  JobInv'
<1> USE DEF JobInv
<1>1. PublisherStep("run", "pull") /\ scans[publisher.run].attempt = 1 /\ tip = publisher.pinned
  BY DEF VerifyRun, FirstAttempt
<1>2. publisher.at = "run" /\ publisher'.at = "pull" /\ publisher'.again = publisher.again
  BY <1>1, LookKeeps DEF WithRun, Verifying, PublisherStages
<1>3. JobType' /\ Awaited' /\ Pinned'
  BY <1>1, LookKeeps DEF WithRun, Verifying, PublisherStages
<1>4. ShownAgain'
  <2>1. publisher.again => WasExact(Candidate, publisher.pinned) /\ FirstSound(publisher.run)
    BY <1>1, <1>2 DEF Shown, ShownExact, ShownSound, Passed, WithRun, Verifying
  <2> QED
    BY <1>1, <1>2, <2>1, LookKeeps DEF ShownAgain, Confirmed, WithRun, Verifying, PublisherStages
<1> QED
  BY <1>1, <1>2, <1>3, <1>4, LookKeeps
     DEF Shown, ShownExact, ShownBase, ShownSource, ShownSound, Passed, Alone, WithRun, Verifying,
         PublisherStages, onGitHub

\* The inventory of pull requests shows the head on the main of the job: if that main is still
\* the live one, the head is exact now.
LEMMA VerifyPullKeeps ==
  ASSUME JobInv, OnlyReads, VerifyPull
  PROVE  JobInv'
<1> USE DEF JobInv
<1>1. /\ PublisherStep("pull", "live")
      /\ CandidatePull = [state |-> "open", head |-> Candidate, base |-> publisher.pinned]
  BY DEF VerifyPull
<1>2. publisher.at = "pull" /\ publisher'.at = "live" /\ publisher'.again = publisher.again
  BY <1>1, LookKeeps DEF WithRun, Verifying, PublisherStages
<1>3. JobType' /\ Awaited' /\ Pinned'
  BY <1>1, LookKeeps DEF WithRun, Verifying, PublisherStages
<1>4. tip = publisher.pinned => WasExact(Candidate, publisher.pinned)
  <2> SUFFICES ASSUME tip = publisher.pinned PROVE WasExact(Candidate, publisher.pinned)
    OBVIOUS
  <2>1. Candidate \in DOMAIN heads
    BY <1>2, Lengths DEF Pinned, Candidate, OnlyReads, Sound, Bound, WithRun, Verifying
  <2>2. Exact(Candidate)
    BY <1>1 DEF Exact, Live, CandidatePull
  <2>3. <<Candidate, tip, Evidenced(Candidate)>> \in past
    BY <2>1, <2>2 DEF OnlyReads, Remembered, ExactNow
  <2>4. Evidenced(Candidate) \in BOOLEAN
    BY DEF Evidenced
  <2> QED
    BY <2>3, <2>4 DEF WasExact
<1>5. ShownExact'
  <2>1. tip' = tip /\ publisher'.pinned = publisher.pinned
    BY <1>1, LookKeeps DEF WithRun, Verifying, PublisherStages, onGitHub
  <2>2. WasExact(Candidate, publisher.pinned) => WasExact(Candidate, publisher.pinned)'
    BY <1>1, LookKeeps DEF WithRun, Verifying, PublisherStages
  <2> QED
    BY <1>4, <2>1, <2>2 DEF ShownExact
<1> QED
  BY <1>1, <1>2, <1>3, <1>5, LookKeeps
     DEF Shown, ShownBase, ShownSource, ShownSound, ShownAgain, Passed, Confirmed, Alone, WithRun,
         Verifying, PublisherStages, onGitHub

\* The pull request by itself: from here on its base is at least the pinned main.
LEMMA VerifyLiveKeeps ==
  ASSUME JobInv, OnlyReads, VerifyLive
  PROVE  JobInv'
<1> USE DEF JobInv
<1>1. /\ PublisherStep("live", "source")
      /\ CandidatePull.head = Candidate /\ CandidatePull.base = publisher.pinned
  BY DEF VerifyLive
<1>2. publisher.at = "live" /\ publisher'.at = "source" /\ publisher'.again = publisher.again
  BY <1>1, LookKeeps DEF WithRun, Verifying, PublisherStages
<1>3. JobType' /\ Awaited' /\ Pinned'
  BY <1>1, LookKeeps DEF WithRun, Verifying, PublisherStages
<1>4. heads[Candidate].on <= publisher.pinned
  <2>1. Candidate \in 1 .. Len(heads)
    BY <1>2 DEF Pinned, Candidate, OnlyReads, Sound, Bound, WithRun, Verifying
  <2>2. heads[Candidate].pull \in Pulls
    BY <2>1, Lengths DEF OnlyReads, Sound, Heads
  <2> QED
    BY <1>1, <2>2 DEF OnlyReads, Sound, Based, CandidatePull
<1>5. ShownBase'
  <2>1. /\ heads' = heads /\ Candidate' = Candidate /\ CandidatePull' = CandidatePull
        /\ publisher'.pinned = publisher.pinned
    BY <1>1, LookKeeps DEF WithRun, Verifying, PublisherStages, onGitHub
  <2>2. publisher.pinned \in Nat
    BY DEF JobType
  <2> QED
    BY <1>1, <1>4, <2>1, <2>2 DEF ShownBase
<1> QED
  BY <1>1, <1>2, <1>3, <1>5, LookKeeps
     DEF Shown, ShownExact, ShownSource, ShownSound, ShownAgain, Passed, Confirmed, Alone, WithRun,
         Verifying, PublisherStages, onGitHub

\* The branch and the merge tree: the head contains its base, which is then the pinned main.
LEMMA VerifySourceKeeps ==
  ASSUME JobInv, OnlyReads, VerifySource
  PROVE  JobInv'
<1> USE DEF JobInv
<1>1. /\ PublisherStep("source", "artifact") /\ Live(Candidate)
      /\ heads[Candidate].on = CandidatePull.base /\ heads[Candidate].kind = "trusted"
  BY DEF VerifySource, Authorized
<1>2. publisher.at = "source" /\ publisher'.at = "artifact" /\ publisher'.again = publisher.again
  BY <1>1, LookKeeps DEF WithRun, Verifying, PublisherStages
<1>3. JobType' /\ Awaited' /\ Pinned'
  BY <1>1, LookKeeps DEF WithRun, Verifying, PublisherStages
<1>4. heads[Candidate].on = publisher.pinned
  <2>1. Candidate \in 1 .. Len(heads)
    BY <1>2 DEF Pinned, Candidate, OnlyReads, Sound, Bound, WithRun, Verifying
  <2>2. heads[Candidate].on \in Nat /\ publisher.pinned \in Nat
    BY <2>1, Lengths DEF OnlyReads, Sound, Heads, JobType
  <2>3. heads[Candidate].on <= publisher.pinned /\ publisher.pinned <= CandidatePull.base
    BY <1>1, <1>2 DEF Shown, ShownBase, WithRun, Verifying
  <2> QED
    BY <1>1, <2>2, <2>3
<1>5. ShownSource'
  BY <1>1, <1>4, LookKeeps DEF ShownSource, WithRun, Verifying, PublisherStages, onGitHub
<1> QED
  BY <1>1, <1>2, <1>3, <1>5, LookKeeps
     DEF Shown, ShownExact, ShownBase, ShownSound, ShownAgain, Passed, Confirmed, Alone, WithRun,
         Verifying, PublisherStages, onGitHub

\* The artifact: the scan of the latest attempt is sound.
LEMMA VerifyArtifactKeeps ==
  ASSUME JobInv, OnlyReads, VerifyArtifact
  PROVE  JobInv'
<1> USE DEF JobInv
<1>1. /\ PublisherStep("artifact", "analyses")
      /\ scans[publisher.run].attempt \in scans[publisher.run].sound
  BY DEF VerifyArtifact, Scanned
<1>2. publisher.at = "artifact" /\ publisher'.at = "analyses" /\ publisher'.again = publisher.again
  BY <1>1, LookKeeps DEF WithRun, Verifying, PublisherStages
<1>3. JobType' /\ Awaited' /\ Pinned'
  BY <1>1, LookKeeps DEF WithRun, Verifying, PublisherStages
<1>4. ShownSound'
  <2>1. scans[publisher.run].attempt = 1 => FirstSound(publisher.run)
    BY <1>1 DEF FirstSound
  <2> QED
    BY <1>1, <2>1, LookKeeps DEF ShownSound, WithRun, Verifying, PublisherStages
<1> QED
  BY <1>1, <1>2, <1>3, <1>4, LookKeeps
     DEF Shown, ShownExact, ShownBase, ShownSource, ShownAgain, Passed, Confirmed, Alone, WithRun,
         Verifying, PublisherStages, onGitHub

\* The analyses: in the second pass none of the head is listed, so that every job that published
\* it before has given up.
LEMMA ReadAnalysesKeeps ==
  ASSUME JobInv, OnlyReads, ReadAnalyses
  PROVE  JobInv'
<1> USE DEF JobInv
<1>1. /\ publisher.at = "analyses" /\ (publisher.again => Listed(Candidate) = {})
      /\ UNCHANGED onGitHub /\ past \subseteq past'
  BY DEF ReadAnalyses, OnlyReads
<1>2. Listed(Candidate) \subseteq Nat
  BY Lengths DEF Listed, OnlyReads, Sound
<1>3. publisher' = [at |-> "checks", pinned |-> publisher.pinned, todo |-> publisher.todo,
                    run |-> publisher.run, again |-> publisher.again, found |-> Listed(Candidate)]
  BY DEF ReadAnalyses, JobType
<1>4. JobType' /\ Pinned'
  BY <1>1, <1>2, <1>3 DEF JobType, Pinned, PublisherStages, WithRun, Verifying, onGitHub
<1>5. Candidate' = Candidate
  BY <1>1, <1>3 DEF Candidate, onGitHub
<1>6. WasExact(Candidate, publisher.pinned) => WasExact(Candidate, publisher.pinned)'
  BY <1>1, <1>3, <1>5 DEF WasExact
<1>7. FirstSound(publisher.run)' = FirstSound(publisher.run)
  BY <1>1, <1>3 DEF FirstSound, onGitHub
<1>8. Shown'
  BY <1>1, <1>3, <1>5, <1>6, <1>7
     DEF Shown, ShownExact, ShownBase, ShownSource, ShownSound, ShownAgain, Passed, Confirmed,
         WithRun, Verifying, onGitHub
<1>9. Awaited'
  BY <1>1 DEF Awaited, Settled, onGitHub
<1>10. Alone'
  BY <1>1, <1>3, <1>5 DEF Alone, Awaited, Settled, Listed, onGitHub
<1> QED
  BY <1>4, <1>8, <1>9, <1>10

\* The native checks: on to the download, past a published head, or in the second pass to the
\* upload.
LEMMA ReadChecksKeeps ==
  ASSUME JobInv, OnlyReads, ReadChecks
  PROVE  JobInv'
<1> USE DEF JobInv
<1>1. PICK to \in {"upload", "download", "next"} :
        PublisherStep("checks", to) /\ (to = "upload" <=> publisher.again)
  <2>1. CASE PublisherStep("checks", IF publisher.again THEN "upload" ELSE "download")
    BY <2>1
  <2>2. CASE ~publisher.again /\ PublisherStep("checks", "next")
    BY <2>2
  <2> QED
    BY <2>1, <2>2 DEF ReadChecks
<1>2. /\ publisher.at = "checks" /\ publisher'.at = to /\ publisher'.again = publisher.again
      /\ JobType' /\ Awaited' /\ UNCHANGED onGitHub /\ Candidate' = Candidate
  BY <1>1, LookKeeps DEF WithRun, Verifying, PublisherStages
<1>3. Pinned'
  <2>1. publisher'.pinned = publisher.pinned /\ publisher'.run = publisher.run
        /\ publisher'.todo = publisher.todo
    BY <1>1, StepMoves DEF WithRun, Verifying, PublisherStages
  <2> QED
    BY <1>1, <1>2, <2>1 DEF Pinned, WithRun, Verifying, onGitHub
<1>4. Shown'
  BY <1>1, <1>2, LookKeeps
     DEF Shown, ShownExact, ShownBase, ShownSource, ShownSound, ShownAgain, Passed, Confirmed,
         WithRun, Verifying, PublisherStages, onGitHub
<1>5. Alone'
  BY <1>1, <1>2 DEF Alone, onGitHub
<1> QED
  BY <1>2, <1>3, <1>4, <1>5

\* The download begins the second pass.
LEMMA DownloadKeeps ==
  ASSUME JobInv, OnlyReads, Download
  PROVE  JobInv'
<1> USE DEF JobInv
<1>1. publisher.at = "download" /\ UNCHANGED onGitHub /\ past \subseteq past'
  BY DEF Download, OnlyReads
<1>2. publisher' = [at |-> "run", pinned |-> publisher.pinned, todo |-> publisher.todo,
                    run |-> publisher.run, again |-> TRUE, found |-> publisher.found]
  BY DEF Download, JobType
<1>3. JobType' /\ Pinned'
  BY <1>1, <1>2 DEF JobType, Pinned, PublisherStages, WithRun, Verifying, onGitHub
<1>4. Candidate' = Candidate
  BY <1>1, <1>2 DEF Candidate, onGitHub
<1>5. WasExact(Candidate, publisher.pinned) => WasExact(Candidate, publisher.pinned)'
  BY <1>1, <1>2, <1>4 DEF WasExact
<1>6. FirstSound(publisher.run)' = FirstSound(publisher.run)
  BY <1>1, <1>2 DEF FirstSound, onGitHub
<1>7. Shown'
  BY <1>1, <1>2, <1>4, <1>5, <1>6
     DEF Shown, ShownExact, ShownBase, ShownSource, ShownSound, ShownAgain, Passed, Confirmed,
         WithRun, Verifying, onGitHub
<1>8. Awaited' /\ Alone'
  BY <1>1, <1>2 DEF Awaited, Settled, Alone, onGitHub
<1> QED
  BY <1>3, <1>7, <1>8

\* What a publisher that writes leaves alone.
Writes == Sound /\ past \subseteq past' /\ UNCHANGED <<tip, pulls, heads, scans, natives>>

\* The upload adds one report: a sound one of the candidate, which was exact, and whose earlier
\* reports were all given up.
LEMMA UploadKeeps ==
  ASSUME JobInv, Writes, BoundsType, Allowed, Upload, UploadsAreExact, UploadsAreSingle
  PROVE  /\ Goes /\ JobInv' /\ BoundsType' /\ Allowed'
         /\ UploadsAreExact' /\ UploadsAreSingle'
<1> USE DEF JobInv, Writes, Sound
<1> DEFINE n == Len(uploads)
           r == [head |-> Candidate, run |-> publisher.run, main |-> publisher.pinned,
                 listed |-> FALSE, warned |-> FALSE, left |-> FALSE]
<1>1. /\ PublisherStep("upload", "waiting") /\ uploads' = Append(uploads, r)
      /\ room' = [room EXCEPT !.uploads = @ - 1]
  BY DEF Upload
<1>2. /\ publisher.at = "upload" /\ publisher'.at = "waiting" /\ JobType'
      /\ publisher'.pinned = publisher.pinned
  BY <1>1, StepMoves DEF PublisherStages, WithRun, Verifying
<1>3. /\ publisher.run \in 1 .. Len(scans) /\ publisher.again /\ publisher.pinned \in Nat
      /\ publisher.pinned <= tip /\ publisher.run \in Nat
  BY <1>2 DEF Pinned, WithRun, Verifying, JobType
<1>4. Candidate \in 1 .. Len(heads) /\ Candidate \in Nat
  BY <1>3, Lengths DEF Candidate, Bound
<1>5. n \in Nat /\ r \in Reports
  BY <1>3, <1>4, Lengths DEF Reports
<1>6. /\ uploads' \in Seq(Reports) /\ Len(uploads') = n + 1 /\ uploads'[n + 1] = r
      /\ \A i \in 1 .. n : uploads'[i] = uploads[i]
      /\ DOMAIN uploads' = 1 .. n + 1 /\ DOMAIN uploads = 1 .. n
  BY <1>1, <1>5, AppendProperties, Lengths, LenProperties DEF GitHubTypes
<1> HIDE DEF n, r
<1>7. GitHubTypes' /\ Based'
  BY <1>6 DEF GitHubTypes, Based
<1>8. r.head = Candidate /\ r.run = publisher.run /\ r.main = publisher.pinned
  BY DEF r
<1>9. Bound'
  <2>1. scans[r.run].head = r.head
    BY <1>8 DEF Candidate
  <2>2. ASSUME NEW i \in 1 .. n + 1
        PROVE  /\ uploads'[i].run \in 1 .. Len(scans)
               /\ scans[uploads'[i].run].head = uploads'[i].head
    <3>1. CASE i \in 1 .. n
      BY <1>6, <3>1 DEF Bound, n
    <3>2. CASE i = n + 1
      BY <1>3, <1>6, <1>8, <2>1, <3>2
    <3> QED
      BY <1>5, <3>1, <3>2
  <2> QED
    BY <1>6, <2>2 DEF Bound
<1>10. Onward
  <2>1. UploadsOn
    BY <1>5, <1>6 DEF UploadsOn, n
  <2> QED
    BY <2>1, Standing DEF Onward
<1>11. /\ WasExact(Candidate, publisher.pinned) /\ FirstSound(publisher.run)
       /\ heads[Candidate].kind = "trusted" /\ heads[Candidate].on = publisher.pinned
  BY <1>2, <1>3
     DEF Shown, ShownSource, ShownAgain, Passed, Confirmed, WithRun, Verifying
<1>12. UploadsAreExact'
  <2>1. ASSUME NEW i \in 1 .. n + 1
        PROVE  /\ scans[uploads'[i].run].head = uploads'[i].head
               /\ 1 \in scans[uploads'[i].run].sound
               /\ heads[uploads'[i].head].kind = "trusted"
               /\ heads[uploads'[i].head].on = uploads'[i].main
               /\ \E e \in BOOLEAN : <<uploads'[i].head, uploads'[i].main, e>> \in past'
    <3>1. CASE i \in 1 .. n
      BY <1>6, <3>1 DEF UploadsAreExact
    <3>2. CASE i = n + 1
      BY <1>6, <1>8, <1>11, <3>2 DEF WasExact, FirstSound, Candidate
    <3> QED
      BY <1>5, <3>1, <3>2
  <2> QED
    BY <1>6, <2>1 DEF UploadsAreExact
<1>13. UploadsAreSingle'
  <2>1. \A i \in 1 .. n : uploads[i].head = Candidate => uploads[i].left
    BY <1>2, <1>3 DEF Alone, n
  <2>2. ASSUME NEW i \in 1 .. n + 1, NEW j \in 1 .. n + 1, i < j,
               uploads'[i].head = uploads'[j].head
        PROVE  uploads'[i].left
    <3>1. i \in 1 .. n
      BY <1>5, <2>2
    <3>2. CASE j \in 1 .. n
      BY <1>6, <2>2, <3>1, <3>2 DEF UploadsAreSingle
    <3>3. CASE j = n + 1
      BY <1>6, <1>8, <2>1, <2>2, <3>1, <3>3
    <3> QED
      BY <1>5, <3>2, <3>3
  <2> QED
    BY <1>6, <2>2 DEF UploadsAreSingle
<1>14. Awaited'
  <2>1. \A i \in 1 .. n : uploads[i].listed \/ uploads[i].left
    BY <1>2 DEF Awaited, Settled, n
  <2> QED
    BY <1>2, <1>5, <1>6, <2>1 DEF Awaited, Settled
<1>15. Pinned' /\ Shown' /\ Alone'
  <2>1. uploads' # << >>
    BY <1>5, <1>6, EmptySeq
  <2> QED
    BY <1>2, <1>3, <2>1 DEF Pinned, Shown, Alone, WithRun, Verifying
<1>16. BoundsType' /\ Allowed'
  BY <1>1, <1>2 DEF BoundsType, Allowed
<1> QED
  BY <1>2, <1>7, <1>9, <1>10, <1>12, <1>13, <1>14, <1>15, <1>16 DEF Goes

\* A job that stops marks the report it was waiting for as given up.
LEMMA PublisherStopsKeeps ==
  ASSUME JobInv, Writes, BoundsType, PublisherStops
  PROVE  /\ Goes /\ JobInv' /\ BoundsType' /\ Allowed'
         /\ Len(uploads') = Len(uploads)
<1> USE DEF JobInv, Writes, Sound
<1> DEFINE n == Len(uploads)
<1>1. /\ publisher' = Off /\ UNCHANGED room /\ n \in Nat /\ tip' \in Nat
      /\ uploads \in Seq(Reports) /\ DOMAIN uploads = 1 .. n
  BY Lengths DEF PublisherStops, GitHubTypes
<1>2. publisher'.at = "idle"
  BY <1>1 DEF Off
<1>3. /\ uploads' \in Seq(Reports) /\ Len(uploads') = n
      /\ \A i \in 1 .. n :
           /\ uploads'[i].head = uploads[i].head /\ uploads'[i].run = uploads[i].run
           /\ uploads'[i].main = uploads[i].main /\ uploads'[i].listed = uploads[i].listed
           /\ uploads'[i].warned = uploads[i].warned
           /\ uploads[i].left => uploads'[i].left
           /\ i = n /\ publisher.at = "waiting" => uploads'[i].left
  <2>1. CASE publisher.at # "waiting"
    BY <1>1, <2>1 DEF PublisherStops
  <2>2. CASE publisher.at = "waiting"
    <3>1. uploads' = [uploads EXCEPT ![n].left = TRUE] /\ uploads # << >>
      BY <2>2 DEF PublisherStops, Pinned
    <3>2. uploads \in [1 .. n -> Reports] /\ n \in 1 .. n
      BY <1>1, <3>1, EmptySeq, LenProperties
    <3>3. uploads' \in [1 .. n -> Reports]
      BY <3>1, <3>2 DEF Reports
    <3>4. uploads' \in Seq(Reports) /\ Len(uploads') = n
      BY <1>1, <3>3, FunctionIsSeq
    <3> HIDE DEF n
    <3> QED
      BY <1>1, <3>1, <3>2, <3>4 DEF Reports
  <2> QED
    BY <2>1, <2>2
<1>4. GitHubTypes' /\ Based' /\ Bound'
  BY <1>3 DEF GitHubTypes, Based, Bound
<1>5. UploadsOn
  <2>1. \A i \in 1 .. n : uploads[i] \in Reports /\ uploads'[i] \in Reports
    BY <1>1, <1>3, ElementOfSeq
  <2>2. \A i \in 1 .. n : uploads[i].listed => uploads'[i].listed
    BY <1>3, <2>1 DEF Reports
  <2>3. Len(uploads) <= Len(uploads')
    <3>1. n \in Nat /\ Len(uploads') = n
      BY <1>1, <1>3, Zenon
    <3> QED
      BY <3>1
  <2>4. ASSUME NEW i \in 1 .. n
        PROVE  /\ uploads'[i].head = uploads[i].head /\ uploads'[i].run = uploads[i].run
               /\ uploads'[i].main = uploads[i].main
               /\ uploads[i].listed => uploads'[i].listed /\ uploads'[i].warned = uploads[i].warned
               /\ uploads[i].left => uploads'[i].left
    <3>1. uploads[i].listed => uploads'[i].listed /\ uploads'[i].warned = uploads[i].warned
      BY <1>3, <2>2
    <3>2. uploads[i].left => uploads'[i].left
      BY <1>3, Zenon
    <3> QED
      BY <1>3, <3>1, <3>2
  <2> QED
    BY <2>3, <2>4, Zenon DEF UploadsOn
<1>6. Onward
  BY <1>5, Standing DEF Onward
<1>7. Awaited'
  BY <1>1, <1>3 DEF Awaited, Settled
<1>8. JobType' /\ Pinned' /\ Shown' /\ Alone'
  BY <1>1, <1>2, OffIsTyped DEF Shown, Alone, WithRun, Verifying
<1>9. BoundsType' /\ Allowed'
  BY <1>1, <1>2 DEF BoundsType, Allowed
<1> QED
  BY <1>3, <1>4, <1>6, <1>7, <1>8, <1>9 DEF Goes

\* Every step of the publisher that only reads.
Looking ==
  \/ PublisherStarts \/ DiscoverMain \/ ListPulls \/ ListRuns \/ NextRun \/ VerifyRun \/ VerifyPull
  \/ VerifyLive \/ VerifySource \/ VerifyArtifact \/ ReadAnalyses \/ ReadChecks \/ Download
  \/ UploadProcessed

LEMMA LookingKeeps ==
  ASSUME JobInv, OnlyReads, Looking
  PROVE  JobInv'
BY WithoutRun, NextRunKeeps, VerifyRunKeeps, VerifyPullKeeps, VerifyLiveKeeps, VerifySourceKeeps,
   VerifyArtifactKeeps, ReadAnalysesKeeps, ReadChecksKeeps, DownloadKeeps DEF Looking

\* Only a job that may upload begins.
LEMMA LookingAllowed ==
  ASSUME JobType, BoundsType, Allowed, Looking
  PROVE  UNCHANGED <<onGitHub, gate, room>> /\ BoundsType' /\ Allowed'
<1>1. UNCHANGED <<onGitHub, gate, room>>
  BY DEF Looking, PublisherStarts, DiscoverMain, ListPulls, ListRuns, NextRun, VerifyRun,
         VerifyPull, VerifyLive, VerifySource, VerifyArtifact, ReadAnalyses, ReadChecks, Download,
         UploadProcessed, Reads
<1>2. \/ publisher' = Off
      \/ publisher.at \notin {"idle", "waiting"}
      \/ PublisherStarts /\ room.uploads > 0
  BY DEF Looking, PublisherStarts, DiscoverMain, ListPulls, ListRuns, NextRun, VerifyRun,
         VerifyPull, VerifyLive, VerifySource, VerifyArtifact, ReadAnalyses, ReadChecks, Download,
         UploadProcessed, PublisherStep, Stops
<1>3. publisher' = Off => publisher'.at = "idle"
  BY DEF Off
<1> QED
  BY <1>1, <1>2, <1>3 DEF BoundsType, Allowed

-----------------------------------------------------------------------------
(* The gate                                                                   *)

\* A step of the gate moves nothing else of it.
LEMMA GateMoves ==
  ASSUME GateType, NEW from, NEW to \in GateStages, GateStep(from, to)
  PROVE  /\ gate.at = from /\ gate'.at = to /\ GateType'
         /\ gate'.head = gate.head /\ gate'.main = gate.main
         /\ gate'.native = gate.native /\ gate'.found = gate.found
BY DEF GateStep, GateType

\* The gate begins with a head of its own, reads checks and analyses of it, and starts over.
LEMMA GateReadsKeep ==
  ASSUME OnlyReads, Witnessed, GateType,
         GateStarts \/ RequireCodeQL \/ NativeChecks \/ NativeAnalyses \/ GateStops
  PROVE  GateType' /\ Witnessed'
<1>1. /\ UNCHANGED onGitHub /\ DOMAIN heads = 1 .. Len(heads) /\ DOMAIN heads \subseteq Nat
      /\ \A h \in 1 .. Len(heads) : natives[h] \in Seq(CheckStates)
      /\ \A h : Listed(h)' = Listed(h) /\ Listed(h) \subseteq Nat
  BY Lengths DEF OnlyReads, Sound, onGitHub, Listed
<1>2. CASE GateStarts
  <2>1. PICK h \in DOMAIN heads : gate' = [Waiting EXCEPT !.at = "codeql", !.head = h]
    BY <1>2 DEF GateStarts
  <2>2. gate' = [at |-> "codeql", head |-> h, main |-> 0, native |-> << >>, found |-> {}]
    BY <2>1 DEF Waiting
  <2>3. << >> \in Seq(CheckStates)
    BY EmptySeq
  <2> QED
    BY <1>1, <2>2, <2>3 DEF GateType, GateStages, Witnessed, GateIsEarned, onGitHub
<1>3. CASE RequireCodeQL
  <2>1. GateStep("codeql", "checks")
    BY <1>3 DEF RequireCodeQL
  <2> QED
    BY <1>1, <2>1, GateMoves DEF GateStages, Witnessed, GateIsEarned, onGitHub
<1>4. CASE NativeChecks
  <2>1. gate.at = "checks" /\ gate' = [gate EXCEPT !.at = "analyses", !.native = natives[gate.head]]
    BY <1>4 DEF NativeChecks
  <2>2. gate.head \in 1 .. Len(heads)
    BY <2>1 DEF Witnessed
  <2>3. gate' = [at |-> "analyses", head |-> gate.head, main |-> gate.main,
                 native |-> natives[gate.head], found |-> gate.found]
    BY <2>1 DEF GateType
  <2> QED
    BY <1>1, <2>2, <2>3 DEF GateType, GateStages, Witnessed, GateIsEarned, onGitHub
<1>5. CASE NativeAnalyses
  <2>1. gate.at = "analyses" /\ gate' = [gate EXCEPT !.at = "main", !.found = Listed(gate.head)]
    BY <1>5 DEF NativeAnalyses
  <2>2. gate' = [at |-> "main", head |-> gate.head, main |-> gate.main,
                 native |-> gate.native, found |-> Listed(gate.head)]
    BY <2>1 DEF GateType
  <2> QED
    BY <1>1, <2>1, <2>2 DEF GateType, GateStages, Witnessed, GateIsEarned, onGitHub
<1>6. CASE GateStops
  <2>1. gate' = [at |-> "idle", head |-> 0, main |-> 0, native |-> << >>, found |-> {}]
    BY <1>6 DEF GateStops, Waiting
  <2>2. << >> \in Seq(CheckStates)
    BY EmptySeq
  <2> QED
    BY <2>1, <2>2 DEF GateType, GateStages, Witnessed, GateIsEarned
<1> QED
  BY <1>2, <1>3, <1>4, <1>5, <1>6

\* When the gate reads main, either the pull request is not as it wants it, or this is an
\* instant when it is, with the evidence the gate holds.
LEMMA NativeMainKeeps ==
  ASSUME OnlyReads, Witnessed, GateType, NativeMain
  PROVE  GateType' /\ Witnessed'
<1>1. /\ UNCHANGED onGitHub /\ tip \in Nat /\ Remembered /\ past \subseteq past'
      /\ DOMAIN heads = 1 .. Len(heads)
      /\ gate.at = "main" /\ gate' = [gate EXCEPT !.at = "pull", !.main = tip]
  BY Lengths DEF OnlyReads, Sound, GitHubTypes, NativeMain
<1>2. gate' = [at |-> "pull", head |-> gate.head, main |-> tip, native |-> gate.native,
               found |-> gate.found]
  BY <1>1 DEF GateType
<1>3. /\ gate.head \in 1 .. Len(heads) /\ gate.found \subseteq Listed(gate.head)
      /\ Succeeded(gate.native) => Succeeded(natives[gate.head])
  BY <1>1 DEF Witnessed
<1>4. ASSUME EvidenceRead, Live(gate.head), pulls[heads[gate.head].pull].base = tip
      PROVE  <<gate.head, tip, TRUE>> \in past'
  <2>1. Exact(gate.head)
    BY <1>4 DEF Exact
  <2>2. Evidenced(gate.head) = TRUE
    BY <1>3, <1>4 DEF EvidenceRead, Evidenced, Succeeded
  <2> QED
    BY <1>1, <1>3, <2>1, <2>2 DEF Remembered, ExactNow
<1>5. Listed(gate.head)' = Listed(gate.head)
  BY <1>1, <1>2 DEF Listed, onGitHub
<1>6. Witnessed'
  <2>1. EvidenceRead' /\ AsWanted' => <<gate.head, tip, TRUE>> \in past'
    BY <1>1, <1>2, <1>4 DEF EvidenceRead, AsWanted, Live, onGitHub
  <2> QED
    BY <1>1, <1>2, <1>3, <1>5, <2>1 DEF Witnessed, GateIsEarned, onGitHub
<1> QED
  BY <1>1, <1>2, <1>6 DEF GateType, GateStages

\* The gate accepts a pull request that is as it wants it, so that there was such an instant.
LEMMA NativePullKeeps ==
  ASSUME OnlyReads, Witnessed, GateType, NativePull
  PROVE  GateType' /\ Witnessed'
<1>1. /\ UNCHANGED onGitHub /\ past \subseteq past' /\ gate.at = "pull"
      /\ LivePull(pulls[heads[gate.head].pull])
  BY DEF OnlyReads, NativePull
<1>2. /\ gate.head \in 1 .. Len(heads) /\ gate.found \subseteq Listed(gate.head)
      /\ Succeeded(gate.native) => Succeeded(natives[gate.head])
      /\ EvidenceRead /\ AsWanted => <<gate.head, gate.main, TRUE>> \in past
  BY <1>1 DEF Witnessed
<1>3. CASE IsPending /\ gate' = [gate EXCEPT !.at = "checks", !.native = << >>, !.found = {}]
  <2>1. gate' = [at |-> "checks", head |-> gate.head, main |-> gate.main, native |-> << >>,
                 found |-> {}]
    BY <1>3 DEF GateType
  <2>2. << >> \in Seq(CheckStates)
    BY EmptySeq
  <2> QED
    BY <1>1, <1>2, <2>1, <2>2 DEF GateType, GateStages, Witnessed, GateIsEarned, onGitHub
<1>4. CASE IsPublished /\ GateStep("pull", "accepted")
  <2>1. /\ gate'.at = "accepted" /\ GateType' /\ gate'.head = gate.head
        /\ gate'.main = gate.main /\ gate'.native = gate.native /\ gate'.found = gate.found
    BY <1>4, GateMoves DEF GateStages
  <2>2. AsWanted
    BY <1>1 DEF LivePull, AsWanted, Live
  <2>3. Succeeded(gate.native)
    BY <1>4 DEF IsPublished, Succeeded
  <2>4. Cardinality(gate.found) = 1 /\ \A i \in gate.found : ~uploads[i].warned
    BY <1>4 DEF IsPublished, Clean
  <2>5. gate.found # {}
    BY <2>4, FS_EmptySet
  <2>6. <<gate.head, gate.main, TRUE>> \in past'
    BY <1>1, <1>2, <2>2, <2>3, <2>5 DEF EvidenceRead
  <2>7. \E i \in gate.found : uploads[i].head = gate.head /\ ~uploads[i].warned
    BY <1>2, <2>4, <2>5 DEF Listed
  <2>8. Listed(gate.head)' = Listed(gate.head)
    BY <1>1, <2>1 DEF Listed, onGitHub
  <2> QED
    BY <1>1, <1>2, <2>1, <2>6, <2>7, <2>8 DEF Witnessed, GateIsEarned, onGitHub
<1> QED
  BY <1>3, <1>4 DEF NativePull

-----------------------------------------------------------------------------
(* The whole                                                                  *)

LEMMA InitHolds == ScanInit => ScanInv
<1> SUFFICES ASSUME ScanInit PROVE ScanInv
  OBVIOUS
<1> DEFINE n == Cardinality(Pulls)
           First(p) == CHOOSE h \in DOMAIN heads : heads[h].pull = p
<1>1. /\ tip = 0 /\ scans = << >> /\ uploads = << >> /\ publisher = Off /\ gate = Waiting
      /\ room \in Rooms
  BY DEF ScanInit
<1>2. n \in Nat
  BY ScanAssumption, FS_CardinalityType
<1>3. heads \in [1 .. n -> [pull : Pulls, on : {0}, kind : Kinds]]
  BY DEF ScanInit
<1>4. /\ heads \in Seq(Heads) /\ Len(heads) = n /\ DOMAIN heads = 1 .. n
      /\ \A h \in 1 .. n : heads[h].on = 0
  <2>1. heads \in [1 .. n -> Heads]
    BY <1>3 DEF Heads
  <2>2. \A h \in 1 .. n : heads[h].on = 0
    BY <1>3
  <2> HIDE DEF n
  <2> QED
    BY <1>2, <2>1, <2>2, FunctionIsSeq
<1>5. natives \in Seq(Seq(CheckStates)) /\ Len(natives) = n
  <2>1. natives = [h \in 1 .. n |-> << >>]
    BY <1>4 DEF ScanInit
  <2>2. << >> \in Seq(CheckStates)
    BY EmptySeq
  <2>3. natives \in [1 .. n -> Seq(CheckStates)]
    BY <2>1, <2>2
  <2> HIDE DEF n
  <2> QED
    BY <1>2, <2>3, FunctionIsSeq
<1>6. \A p \in Pulls : First(p) \in 1 .. n /\ heads[First(p)].pull = p
  BY <1>4 DEF ScanInit
<1>7. pulls = [p \in Pulls |-> [state |-> "open", head |-> First(p), base |-> 0]]
  BY DEF ScanInit
<1> HIDE DEF n, First
<1>8. /\ \A p \in Pulls : /\ pulls[p].head \in 1 .. n /\ heads[pulls[p].head].pull = p
                          /\ pulls[p].base = 0
      /\ pulls \in [Pulls -> PullStates]
  BY <1>2, <1>6, <1>7 DEF PullStates
<1>9. GitHubTypes /\ Based /\ Bound
  <2>1. scans \in Seq(RunRecords) /\ uploads \in Seq(Reports) /\ Len(scans) = 0 /\ Len(uploads) = 0
    BY <1>1, EmptySeq
  <2> QED
    BY <1>1, <1>2, <1>4, <1>5, <1>8, <2>1 DEF GitHubTypes, Based, Bound
<1>10. past = {<<h, 0, FALSE>> : h \in {pulls[p].head : p \in Pulls}}
  BY DEF ScanInit
<1>11. PastType
  <2>1. {pulls[p].head : p \in Pulls} \subseteq Nat
    BY <1>8 DEF PullStates
  <2>2. \A h \in {pulls[p].head : p \in Pulls} : <<h, 0, FALSE>> \in Nat \X Nat \X BOOLEAN
    BY <2>1
  <2>3. \A e \in past : \E h \in {pulls[p].head : p \in Pulls} : e = <<h, 0, FALSE>>
    BY <1>10, Zenon
  <2> QED
    BY <2>2, <2>3, Zenon DEF PastType
<1>12. Remembered
  <2> SUFFICES ASSUME NEW h \in DOMAIN heads, Exact(h)
               PROVE  <<h, tip, Evidenced(h)>> \in past
    BY DEF Remembered, ExactNow
  <2>1. heads[h].pull \in Pulls
    BY <1>3, <1>4
  <2>2. h \in {pulls[p].head : p \in Pulls}
    BY <2>1 DEF Exact, Live
  <2>3. Evidenced(h) = FALSE
    <3>1. DOMAIN uploads = {} /\ Len(uploads) = 0
      BY <1>1, EmptySeq
    <3> QED
      BY <3>1 DEF Evidenced, Listed
  <2> QED
    BY <1>1, <1>10, <2>2, <2>3
<1>13. JobType /\ Pinned /\ Shown /\ Allowed /\ Awaited /\ Alone
  BY <1>1, EmptySeq
     DEF Off, JobType, Pinned, Shown, Allowed, Awaited, Alone, PublisherStages, WithRun, Verifying
<1>14. GateType /\ Witnessed
  <2>1. << >> \in Seq(CheckStates)
    BY EmptySeq
  <2> QED
    BY <1>1, <2>1 DEF Waiting, GateType, GateStages, Witnessed, GateIsEarned
<1>15. BoundsType
  BY <1>1, ScanAssumption DEF BoundsType
<1>16. UploadsAreExact /\ UploadsAreSingle
  BY <1>1, EmptySeq DEF UploadsAreExact, UploadsAreSingle
<1> QED
  BY <1>9, <1>11, <1>12, <1>13, <1>14, <1>15, <1>16 DEF ScanInv, ScanTypes

\* What others do leaves room for the upload of the job.
LEMMA OutsideAllowed ==
  ASSUME BoundsType, Allowed, Outside
  PROVE  Allowed'
<1>1. (Turn \/ UNCHANGED room) /\ UNCHANGED publisher
  BY DEF Outside, BranchPushes, MainMoves, BaseRefreshes, StateChanges, RunBegins, RunEnds,
         RunReruns, ReportListed, CheckBegins, CheckEnds, Others, Itself
<1>2. room'.uploads = room.uploads
  BY <1>1 DEF Turn, BoundsType
<1> QED
  BY <1>1, <1>2 DEF Allowed

LEMMA NextKeeps ==
  ASSUME ScanInv, ScanNext
  PROVE  ScanInv'
<1>1. /\ Sound /\ JobInv /\ BoundsType /\ GateType /\ PastType /\ Remembered /\ Witnessed
      /\ Allowed /\ UploadsAreExact /\ UploadsAreSingle
  BY DEF ScanInv, ScanTypes, Sound, JobInv
<1>2. Remember
  BY DEF ScanNext
<1>3. past \subseteq past'
  BY <1>2 DEF Remember
<1>4. CASE Outside
  <2>1. Moves /\ BoundsType' /\ UNCHANGED <<publisher, gate>> /\ Allowed'
    BY <1>1, <1>4, OutsideMoves, OutsideAllowed
  <2>2. Goes
    BY <1>1, <1>3, <2>1 DEF Goes, Moves
  <2>3. PastType' /\ Remembered'
    BY <1>1, <1>2, <2>1, RememberKeeps DEF Moves, Sound
  <2>4. JobType' /\ GateType'
    BY <1>1, <2>1 DEF JobInv, JobType, GateType
  <2>5. Pinned' /\ Shown' /\ (publisher.at \in WithRun => Candidate' = Candidate)
    BY <1>1, <2>1, <2>2, ShownStays DEF JobInv
  <2>6. Awaited' /\ Alone'
    BY <1>1, <2>1, <2>2, <2>5, AloneStays DEF JobInv, Moves
  <2>7. Witnessed' /\ UploadsAreExact' /\ UploadsAreSingle'
    BY <1>1, <2>1, <2>2, <2>3, WitnessedStays, UploadsStay DEF Moves
  <2> QED
    BY <2>1, <2>3, <2>4, <2>5, <2>6, <2>7 DEF ScanInv, ScanTypes, Moves, Sound
<1>5. CASE Looking
  <2>1. UNCHANGED <<onGitHub, gate, room>> /\ BoundsType' /\ Allowed'
    BY <1>1, <1>5, LookingAllowed DEF JobInv
  <2>2. OnlyReads
    BY <1>1, <1>3, <2>1 DEF OnlyReads
  <2>3. Goes /\ Len(uploads') = Len(uploads)
    BY <2>2, ReadingGoes
  <2>4. PastType' /\ Remembered'
    BY <1>1, <1>2, <2>3, RememberKeeps DEF Goes, Sound
  <2>5. JobInv'
    BY <1>1, <1>5, <2>2, LookingKeeps
  <2>6. GateType' /\ Witnessed' /\ UploadsAreExact' /\ UploadsAreSingle'
    BY <1>1, <2>1, <2>3, <2>4, WitnessedStays, UploadsStay DEF GateType
  <2> QED
    BY <2>1, <2>3, <2>4, <2>5, <2>6 DEF ScanInv, ScanTypes, JobInv, Goes, Sound
<1>6. CASE Upload \/ PublisherStops
  <2>1. Writes /\ UNCHANGED gate
    BY <1>1, <1>3, <1>6 DEF Writes, Upload, PublisherStops
  <2>2. Goes /\ JobInv' /\ BoundsType' /\ Allowed' /\ UploadsAreExact' /\ UploadsAreSingle'
    <3>1. CASE Upload
      BY <1>1, <2>1, <3>1, UploadKeeps
    <3>2. CASE PublisherStops
      BY <1>1, <2>1, <3>2, PublisherStopsKeeps, UploadsStay
    <3> QED
      BY <1>6, <3>1, <3>2
  <2>3. PastType' /\ Remembered'
    BY <1>1, <1>2, <2>2, RememberKeeps DEF Goes, Sound
  <2>4. GateType' /\ Witnessed'
    BY <1>1, <2>1, <2>2, <2>3, WitnessedStays DEF GateType
  <2> QED
    BY <2>2, <2>3, <2>4 DEF ScanInv, ScanTypes, JobInv, Goes, Sound
<1>7. CASE Gate
  <2>1. UNCHANGED <<onGitHub, publisher, room>>
    BY <1>7 DEF Gate, GateStarts, RequireCodeQL, NativeChecks, NativeAnalyses, NativeMain,
                NativePull, GateStops, Observes
  <2>2. OnlyReads
    BY <1>1, <1>3, <2>1 DEF OnlyReads
  <2>3. Goes /\ Len(uploads') = Len(uploads)
    BY <2>2, ReadingGoes
  <2>4. PastType' /\ Remembered'
    BY <1>1, <1>2, <2>3, RememberKeeps DEF Goes, Sound
  <2>5. GateType' /\ Witnessed'
    BY <1>1, <1>7, <2>2, GateReadsKeep, NativeMainKeeps, NativePullKeeps DEF Gate
  <2>6. Pinned' /\ Shown' /\ (publisher.at \in WithRun => Candidate' = Candidate)
    BY <1>1, <2>1, <2>3, ShownStays DEF JobInv
  <2>7. Awaited' /\ Alone' /\ UploadsAreExact' /\ UploadsAreSingle'
    BY <1>1, <2>1, <2>3, <2>6, AloneStays, UploadsStay DEF JobInv
  <2>8. JobType' /\ BoundsType' /\ Allowed'
    BY <1>1, <2>1 DEF JobInv, JobType, BoundsType, Allowed
  <2> QED
    BY <2>3, <2>4, <2>5, <2>6, <2>7, <2>8 DEF ScanInv, ScanTypes, Goes, Sound
<1>8. Outside \/ Looking \/ Upload \/ PublisherStops \/ Gate
  BY DEF ScanNext, PublisherSteps, Looking
<1> QED
  BY <1>4, <1>5, <1>6, <1>7, <1>8

LEMMA StandingKeeps ==
  ASSUME ScanInv, UNCHANGED scanVars
  PROVE  ScanInv'
<1>1. /\ UNCHANGED <<onGitHub, publisher, gate, room, past>>
      /\ tip' = tip /\ pulls' = pulls /\ heads' = heads /\ scans' = scans
      /\ uploads' = uploads /\ natives' = natives
      /\ publisher' = publisher /\ gate' = gate /\ room' = room /\ past' = past
  BY DEF scanVars, onGitHub
<1>2. ScanTypes' /\ Based' /\ Bound'
  BY <1>1 DEF ScanInv, ScanTypes, GitHubTypes, JobType, GateType, BoundsType, PastType, Based, Bound
<1>3. Remembered'
  BY <1>1 DEF ScanInv, Remembered, ExactNow, Exact, Live, Evidenced, Listed
<1>4. Goes /\ Len(uploads') = Len(uploads)
  <2>1. OnlyReads
    BY <1>1 DEF ScanInv, ScanTypes, OnlyReads, Sound
  <2> QED
    BY <2>1, ReadingGoes
<1>5. Pinned' /\ Shown' /\ (publisher.at \in WithRun => Candidate' = Candidate)
  BY <1>1, <1>4, ShownStays DEF ScanInv, ScanTypes
<1>6. Awaited' /\ Alone' /\ UploadsAreExact' /\ UploadsAreSingle'
  BY <1>1, <1>4, <1>5, AloneStays, UploadsStay DEF ScanInv
<1>7. Witnessed'
  BY <1>1, <1>3, <1>4, WitnessedStays DEF ScanInv, ScanTypes
<1>8. Allowed'
  BY <1>1 DEF ScanInv, Allowed
<1> QED
  BY <1>2, <1>3, <1>5, <1>6, <1>7, <1>8 DEF ScanInv

-----------------------------------------------------------------------------
(* Theorems                                                                   *)

(* The publisher's invariant: whatever moves between two of its reads, each stage  *)
(* keeps what the calls before it showed that cannot be undone, which is why its    *)
(* second pass, and not its first, is what an upload may rest on; and the gate      *)
(* holds evidence that is still there and, once it has read main, an instant when   *)
(* all it reads was so together.                                                   *)
THEOREM ScanInvariant == ScanSpec => []ScanInv
<1>1. ScanInv /\ [ScanNext]_scanVars => ScanInv'
  BY NextKeeps, StandingKeeps
<1> QED
  BY <1>1, InitHolds, PTL DEF ScanSpec

(* GitHub, the job, the gate and the history are what the scripts read and keep.  *)
THEOREM ScanTypeCorrect == ScanSpec => []ScanTypes
<1>1. ScanInv => ScanTypes
  BY DEF ScanInv
<1> QED
  BY <1>1, ScanInvariant, PTL

(* Only a clean report of the first attempt of a run, of a trusted head that was   *)
(* live on the job's main at one instant, is published, once unless a job gave up; *)
(* and what the gate accepts was published so, at one instant, for what it read.   *)
THEOREM EarnedScans == ScanSpec => []ScansAreEarned
<1>1. ScanInv => ScansAreEarned
  BY DEF ScanInv, Witnessed, ScansAreEarned
<1> QED
  BY <1>1, ScanInvariant, PTL
=============================================================================
