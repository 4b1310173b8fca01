----------------------------- MODULE ProviderCanary -----------------------------
(* One bounded canary against a live provider (live_provider.py, driven by       *)
(* .github/scripts/run_live_provider_canary.py): attempts, waits between them, a *)
(* wall-clock ceiling and a ceiling on what all attempts may cost.               *)
EXTENDS Naturals, Sequences, FiniteSets, SequencesExt

CONSTANTS Limits,       \* candidate limits: attempts, wall, interval, tokens, price, ceiling
          Durations,    \* how long a request may take
          RetryAfters,  \* retry-after delays, 0 for none
          Oversleeps    \* how much longer than asked a sleep may take

VARIABLES limits,     \* ProviderCanaryLimits
          now,        \* the monotonic clock, from the start of the run
          stage,      \* "loop", "sent", "wait", "done"
          requests,   \* history: when each request was sent and how it was answered
          wait,       \* the delay to sleep before the next attempt
          cost,       \* total_cost_usd
          charged,    \* history: what the provider charged, an invalid response left out
          observation \* the ProviderCanaryObservation

canaryVars == <<limits, now, stage, requests, wait, cost, charged, observation>>

-----------------------------------------------------------------------------
(* Limits                                                                     *)

\* Mutant: the bound of one attempt.
FaultyWorstCaseOfOne(l) == l.tokens * l.price

\* worst_case_cost_usd
WorstCase(l) == l.attempts * l.tokens * l.price

\* ProviderCanaryLimits.__post_init__
ValidLimits(l) == WorstCase(l) <= l.ceiling

Init ==
  /\ limits \in {l \in Limits : ValidLimits(l)}
  /\ now = 0 /\ stage = "loop" /\ requests = <<>> /\ wait = 0 /\ cost = 0 /\ charged = 0
  /\ observation = <<>>

Observe(disposition, attempts) ==
  stage' = "done" /\ observation' = [disposition |-> disposition, attempts |-> attempts, cost |-> cost']
Uncertain(attempts) == Observe("provider_uncertain", attempts)

-----------------------------------------------------------------------------
(* The loop of run_provider_canary                                            *)

Attempt == Len(requests)

\* The head of the loop reads the clock again, which may have moved since the sleep.
SendRequest ==
  /\ stage = "loop" /\ Attempt < limits.attempts
  /\ \E pause \in Oversleeps : now' = now + pause
  /\ now' < limits.wall
  /\ requests' = Append(requests, [sent |-> now', ended |-> now', answer |-> "none", after |-> 0])
  /\ stage' = "sent"
  /\ UNCHANGED <<limits, wait, cost, charged, observation>>
WallReached ==
  /\ stage = "loop"
  /\ \E pause \in Oversleeps : now' = now + pause
  /\ now' >= limits.wall
  /\ cost' = cost /\ Uncertain(Attempt) /\ UNCHANGED <<limits, requests, wait, charged>>

\* What the transport returns: a valid response that may be retried, that is an error, that has no
\* text, or whose text holds the expected substring or not.
Valid == {"retryable", "error", "empty", "wrong", "right"}
\* The provider charges for a request whatever becomes of its answer: within max_input_tokens and
\* max_output_tokens, or else the usage it reports is not valid.
Charges == 0..(limits.tokens * limits.price)

\* The wait before a retry.
Delay(after) == IF after > limits.interval THEN after ELSE limits.interval

\* A retry, unless it was the last attempt.
Retry(after) ==
  IF Attempt = limits.attempts THEN Uncertain(Attempt) /\ UNCHANGED wait
  ELSE stage' = "wait" /\ wait' = Delay(after) /\ UNCHANGED observation

Answered(answer, after) ==
  \E d \in Durations :
    /\ now' = now + d
    /\ requests' = [requests EXCEPT ![Attempt] =
         [sent |-> @.sent, ended |-> now + d, answer |-> answer, after |-> after]]

\* TimeoutError: no response, so no cost on record.
RequestTimesOut ==
  /\ stage = "sent"
  /\ Answered("timeout", 0) /\ \E charge \in Charges : charged' = charged + charge
  /\ cost' = cost /\ Retry(0)
  /\ UNCHANGED limits

\* _validate_response: telemetry over the ceilings, broken metadata, or no response at all.
ResponseInvalid ==
  /\ stage = "sent"
  /\ Answered("invalid", 0)
  /\ cost' = cost /\ Uncertain(Attempt)
  /\ UNCHANGED <<limits, wait, charged>>

\* A valid response: its cost is what its usage says; an error may come without usage.
ResponseValid ==
  /\ stage = "sent"
  /\ \E answer \in Valid, charge \in Charges, after \in RetryAfters, told \in BOOLEAN :
       /\ answer # "retryable" => after = 0
       /\ answer \notin {"retryable", "error"} => told
       /\ Answered(answer, after) /\ charged' = charged + charge
       /\ cost' = cost + (IF told THEN charge ELSE 0)
       /\ IF cost' > limits.ceiling THEN Uncertain(Attempt) /\ UNCHANGED wait
          ELSE CASE answer = "retryable" -> Retry(after)
                 [] answer = "right" -> Observe("observed", Attempt) /\ UNCHANGED wait
                 [] answer = "wrong" -> Observe("subject_failure", Attempt) /\ UNCHANGED wait
                 [] OTHER -> Uncertain(Attempt) /\ UNCHANGED wait
  /\ UNCHANGED limits

\* _sleep_within_wall: only a sleep that ends before the ceiling is begun, and it may overrun.
SleepWithinWall ==
  /\ stage = "wait"
  /\ cost' = cost
  /\ IF wait >= limits.wall - now THEN Uncertain(Attempt) /\ UNCHANGED now
     ELSE \E over \in Oversleeps :
            /\ now' = now + wait + over
            /\ IF now' < limits.wall THEN stage' = "loop" /\ UNCHANGED observation ELSE Uncertain(Attempt)
  /\ wait' = 0
  /\ UNCHANGED <<limits, requests, charged>>

Next == SendRequest \/ WallReached \/ RequestTimesOut \/ ResponseInvalid \/ ResponseValid \/ SleepWithinWall
Spec == Init /\ [][Next]_canaryVars

-----------------------------------------------------------------------------
(* Properties                                                                 *)

\* What the provider charged for all requests stays inside the ceiling, those that timed out
\* included, but for a last one whose usage was over the limits; and the record never says more than
\* was charged.
ChargesStayInCeiling == cost <= charged /\ charged <= limits.ceiling

\* Every request is sent before the wall-clock ceiling, at least the interval of the rate limit and
\* the provider's own delay after the one before it; the record counts each of them; and only the
\* last, validly answered one tells anything about the subject.
ObservationIsBounded ==
  /\ \A i \in 1..Len(requests) :
       /\ requests[i].sent < limits.wall
       /\ i > 1 => LET last == requests[i - 1] IN
            /\ requests[i].sent >= last.ended + limits.interval
            /\ requests[i].sent >= last.ended + last.after
            /\ last.answer \in {"timeout", "retryable"}
  /\ stage = "done" =>
       /\ observation.attempts = Len(requests)
       /\ observation.disposition = "subject_failure" => Last(requests).answer = "wrong"
       /\ observation.disposition = "observed" => Last(requests).answer = "right"
=============================================================================
