--------------------------- MODULE OAuthQualification ---------------------------
(* What receipts conclude about an authorization server and a resource server    *)
(* that may be at fault: the bearer matrix of the loopback laboratory            *)
(* (mcp/remote_auth.py), a session through key rotation, refresh, revocation and *)
(* replay, and an authorization that contracts (mcp/oauth_advanced.py).          *)
EXTENDS Naturals, Sequences, FiniteSets, SequencesExt

CONSTANTS Tokens,   \* positive numbers: the access tokens of a session
          Trace     \* bound: observations of a session, and epochs of a contraction

VARIABLES broken,      \* faults of these servers
          campaign,    \* matrix, session or drift
          statuses,    \* the matrix: one HTTP status per token
          keysets,     \* OAuthKeySetSnapshot: the keys in use
          trace,       \* the OAuthSessionEvents
          epochs,      \* the OAuthAuthorizationEpochs
          revokedNow,  \* tokens the authorization server has revoked
          qualified    \* the receipt: none, refused, rejected or accepted

qualificationVars == <<broken, campaign, statuses, keysets, trace, epochs, revokedNow, qualified>>

\* What the servers of each campaign may get wrong.
ServerFaults ==
  [ matrix |-> {"admits anonymous", "admits unverified", "ignores expiry", "ignores scopes"},
    session |-> {"serves revoked", "serves replayed"}, drift |-> {"ignores scopes"} ]
\* The keys were rotated between two snapshots, or were not.
KeySets == {<<{"k1"}, {"k1"}>>, <<{"k1"}, {"k2"}>>}

Init ==
  /\ campaign \in DOMAIN ServerFaults /\ broken \in SUBSET ServerFaults[campaign]
  /\ keysets \in (IF campaign = "session" THEN KeySets ELSE {<<>>})
  /\ statuses = <<>> /\ trace = <<>> /\ epochs = <<>> /\ revokedNow = {} /\ qualified = "none"

Running(c) == campaign = c /\ qualified = "none"
Conclude(outcome) ==
  qualified' = outcome /\ UNCHANGED <<broken, campaign, statuses, keysets, trace, epochs, revokedNow>>

-----------------------------------------------------------------------------
(* The bearer matrix                                                          *)

\* _build_verifier: what the verifier knows of each token.
Record(issuer, resource, scopes, live) ==
  [issuer |-> issuer, resource |-> resource, scopes |-> scopes, live |-> live]
Records ==
  [ valid |-> Record("as", "rs", {"s"}, TRUE), expired |-> Record("as", "rs", {"s"}, FALSE),
    wrong_issuer |-> Record("other", "rs", {"s"}, TRUE), wrong_resource |-> Record("as", "other", {"s"}, TRUE),
    insufficient_scope |-> Record("as", "rs", {"t"}, TRUE) ]
Probes == DOMAIN Records \cup {"missing", "invalid"}

\* _DeterministicTokenVerifier.verify_token
VerifyToken(t) == t \in DOMAIN Records /\ Records[t].issuer = "as" /\ Records[t].resource = "rs"

\* The SDK's middleware around it.
Status(t) ==
  CASE t = "missing" -> IF "admits anonymous" \in broken THEN 200 ELSE 401
    [] t # "missing" /\ ~VerifyToken(t) -> IF "admits unverified" \in broken THEN 200 ELSE 401
    [] VerifyToken(t) /\ ~Records[t].live /\ "ignores expiry" \notin broken -> 401
    [] VerifyToken(t) /\ Records[t].scopes # {"s"} /\ "ignores scopes" \notin broken -> 403
    [] OTHER -> 200

ProbeToken ==
  /\ Running("matrix")
  /\ \E t \in Probes \ DOMAIN statuses :
       statuses' = [p \in DOMAIN statuses \cup {t} |-> IF p = t THEN Status(t) ELSE statuses[p]]
  /\ UNCHANGED <<broken, campaign, keysets, trace, epochs, revokedNow, qualified>>

\* MCPRemoteAuthLab._receipt_for_observation
Matrix ==
  /\ \A t \in Probes \ {"valid", "insufficient_scope"} : statuses[t] = 401
  /\ statuses["insufficient_scope"] = 403 /\ statuses["valid"] = 200
MatrixReceipt ==
  /\ Running("matrix") /\ DOMAIN statuses = Probes
  /\ Conclude(IF Matrix THEN "accepted" ELSE "refused")

-----------------------------------------------------------------------------
(* A session                                                                  *)

Kind(k) == {i \in 1..Len(trace) : trace[i].kind = k}
\* Tokens observed at the i-th event, which counts itself.
SeenAt(i) == {trace[j].token : j \in {j \in 1..i : trace[j].kind \in {"initial", "refresh"}}}

\* _check_events, and OAuthSessionEvent.validate_binding_and_kind.
Checked ==
  /\ trace # <<>>
  /\ \A i \in Kind("refresh") : trace[i].parent \in SeenAt(i)
  /\ \A i \in Kind("revoke") \cup Kind("replay") : trace[i].token \in SeenAt(i) /\ ~trace[i].accepted
  /\ \A i \in Kind("request"), r \in Kind("revoke") :
       r < i /\ trace[r].token = trace[i].token => ~trace[i].accepted

Event(k, t, parent, accepted, bound) ==
  [kind |-> k, token |-> t, parent |-> parent, accepted |-> accepted, bound |-> bound]
\* A trace that is refused already stays refused, whatever follows: it is not continued.
Observe(e) ==
  /\ Running("session") /\ Len(trace) < Trace /\ (trace = <<>> \/ Checked) /\ trace' = Append(trace, e)
  /\ UNCHANGED <<broken, campaign, statuses, keysets, epochs, qualified>>

\* A token is issued, bound to its sender or a bearer token; observed, or not.
Issue ==
  /\ \E t \in Tokens, bound \in BOOLEAN : Observe(Event("initial", t, 0, TRUE, bound))
  /\ UNCHANGED revokedNow
\* A refresh: of a token seen or one never seen, giving any token.
Refresh ==
  /\ \E parent, t \in Tokens : Observe(Event("refresh", t, parent, TRUE, FALSE))
  /\ UNCHANGED revokedNow
Revoke ==
  \E t \in Tokens : /\ Observe(Event("revoke", t, 0, FALSE, FALSE))
                    /\ revokedNow' = revokedNow \cup {t}
Request ==
  /\ \E t \in Tokens : Observe(Event("request", t, 0, t \notin revokedNow \/ "serves revoked" \in broken, FALSE))
  /\ UNCHANGED revokedNow
Replay ==
  /\ \E t \in Tokens : Observe(Event("replay", t, 0, "serves replayed" \in broken, FALSE))
  /\ UNCHANGED revokedNow

\* OAuthAdvancedReceipt.create, when all of its relations are required.
AcceptedSession ==
  /\ Cardinality(ToSet(keysets)) > 1
  /\ Kind("refresh") # {} /\ Kind("revoke") # {} /\ Kind("replay") # {}
  /\ \E i \in Kind("initial") \cup Kind("refresh") : trace[i].bound
SessionReceipt ==
  /\ Running("session")
  /\ Conclude(IF ~Checked THEN "refused" ELSE IF AcceptedSession THEN "accepted" ELSE "rejected")

-----------------------------------------------------------------------------
(* A contraction                                                              *)

\* An operation that needs both scopes, tried in one epoch after the other.
ObserveEpoch ==
  /\ Running("drift") /\ Len(epochs) < Trace
  /\ \E scopes \in SUBSET {"s", "t"}, stale \in BOOLEAN :
       /\ stale => "ignores scopes" \in broken
       /\ epochs' = Append(epochs, [scopes |-> scopes, allowed |-> scopes = {"s", "t"} \/ stale])
  /\ UNCHANGED <<broken, campaign, statuses, keysets, trace, revokedNow, qualified>>

Contracts(i) == epochs[i].scopes \subseteq epochs[i - 1].scopes /\ epochs[i].scopes # epochs[i - 1].scopes
\* OAuthAuthorizationDriftReceipt.create
DriftReceipt ==
  /\ Running("drift") /\ Len(epochs) >= 2
  /\ Conclude(IF \E i \in 2..Len(epochs) : Contracts(i) /\ ~epochs[i].allowed THEN "accepted" ELSE "rejected")

Next ==
  \/ ProbeToken \/ MatrixReceipt
  \/ Issue \/ Refresh \/ Revoke \/ Request \/ Replay \/ SessionReceipt
  \/ ObserveEpoch \/ DriftReceipt
Spec == Init /\ [][Next]_qualificationVars

-----------------------------------------------------------------------------
(* Properties                                                                 *)

Accepted(c) == campaign = c /\ qualified = "accepted"

\* A matrix that is accepted leaves no fault that one of its tokens would have met; an accepted
\* session never served a token after its revocation, met a replay that was turned away by servers
\* that turn replays away, and saw its keys change; an accepted contraction lost an operation
\* that an earlier epoch's scopes, and not its own, would have covered.
QualifiedServersRefuse ==
  /\ Accepted("matrix") => broken = {}
  /\ Accepted("session") =>
       /\ "serves replayed" \notin broken /\ \E i, j \in DOMAIN keysets : keysets[i] # keysets[j]
       /\ \A i \in Kind("request"), j \in Kind("revoke") :
            j < i /\ trace[j].token = trace[i].token => ~trace[i].accepted
       /\ \A i \in Kind("revoke") \cup Kind("replay") : \E j \in 1..i - 1 : trace[j].token = trace[i].token
  /\ Accepted("drift") =>
       \E i \in DOMAIN epochs : \E j \in 1..i - 1 :
         ~epochs[i].allowed /\ epochs[i].scopes # {"s", "t"} /\ epochs[j].scopes \ epochs[i].scopes # {}

\* _check_events: "OAuth refresh parent must reference a previously observed token".
RefreshesDescend ==
  qualified \in {"accepted", "rejected"} /\ campaign = "session" =>
    \A i \in Kind("refresh") : \E j \in 1..i - 1 : trace[j].token = trace[i].parent /\ trace[j].kind \in {"initial", "refresh"}
=============================================================================
