------------------------------ MODULE MCRuntime ------------------------------
(* The runner of single trials and the session that runs several of them.  A   *)
(* behaviour is about one of the two: to the session a trial is one attempt,    *)
(* which returns or times out, and what that hides is the runner's own part.    *)
EXTENDS TrialRunner, EvaluationSession

VARIABLES
  part       \* the component this behaviour is about

\* A live adapter that owns no evidence kind and two that do.
MCOwns == [a \in LiveAdapters |->
             CASE a = "custom" -> {}
               [] a = "openai" -> {"attack_delivery"} \cap Kinds
               [] a = "hitl" -> Kinds]

RuntimeInit ==
  /\ Init /\ SessionInit
  /\ part \in {"trials", "session"}
  /\ (part = "session" => caller = "plain")
RuntimeNext ==
  \/ part = "trials" /\ Next /\ UNCHANGED <<part, sessionVars>>
  \/ part = "session" /\ SessionNext /\ UNCHANGED <<part, vars>>
\* Where a component is not what the behaviour is about it stays at rest, and at rest it owes
\* no step.
RuntimeSpec ==
  /\ RuntimeInit /\ [][RuntimeNext]_<<part, vars, sessionVars>>
  /\ WF_vars(Runner) /\ WF_vars(Expire)
  /\ Fairness
=============================================================================
