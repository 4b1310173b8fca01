-------------------------------- MODULE OAuthFlow --------------------------------
(* The separated OAuth flow (mcp/oauth_flow.py): an authorization server (AS)     *)
(* with dynamic registration, codes and tokens; a resource server (RS) that asks  *)
(* the AS about every token; the SDK's client, which starts a flow whenever it is *)
(* refused; and the receipt over what was observed.  The client may lose an       *)
(* answer, tokens expire, an introspection may fail.                              *)
EXTENDS Naturals, Sequences, FiniteSets, SequencesExt

CONSTANTS FlowLimit,      \* bound: registrations, authorizations and refusals
          RequiredScopes  \* policy.required_scopes

VARIABLES stage,          \* what the probe does: list, call, again, metadata, done, failed
          at,             \* its request is sent, verified or refused
          client,         \* the SDK's stored client_info, code and token
          asked,          \* _HeadlessOAuth.authorization_request
          grants,         \* provider.codes, unredeemed
          issued,         \* provider.access_tokens, and those that expired
          counts,         \* registrations, authorizations, token exchanges
          afterFirst,     \* counts_after_first
          introspected,   \* introspection_count and last_introspection
          inquiry,        \* what the AS answered about the request under way
          served,         \* history: requests the RS served, each with its token
          receipted       \* a receipt was issued

flowVars == <<stage, at, client, asked, grants, issued, counts, afterFirst, introspected, inquiry, served, receipted>>

None == 0
NoRequest == [state |-> FALSE, method |-> "none", resource |-> "none", scopes |-> {}]
Inactive == [active |-> FALSE, resource |-> "none", scopes |-> {}]
Requests == [state : BOOLEAN, method : {"S256", "plain"}, resource : {"rs", "other"},
             scopes : {RequiredScopes, {}}]

Init ==
  /\ stage = "list" /\ at = "sent" /\ client = [info |-> None, code |-> None, token |-> None]
  /\ asked = NoRequest /\ grants = {} /\ issued = <<>>
  /\ counts = [registered |-> 0, authorized |-> 0, exchanged |-> 0] /\ afterFirst = counts
  /\ introspected = [count |-> 0, last |-> Inactive] /\ inquiry = Inactive
  /\ served = <<>> /\ receipted = FALSE

Following == [list |-> "call", call |-> "again", again |-> "metadata"]
\* The probe awaits an answer to a request.
Awaiting(where) == stage \in DOMAIN Following /\ at = where
Bounded == counts.registered + counts.authorized + Len(served) < FlowLimit

-----------------------------------------------------------------------------
(* The authorization server                                                   *)

\* register_client; its answer may be lost, and the client then registers anew.
RegisterClient ==
  /\ Awaiting("refused") /\ Bounded
  /\ client.info = None
  /\ counts' = [counts EXCEPT !.registered = @ + 1]
  /\ client' \in {client, [client EXCEPT !.info = counts'.registered]}
  /\ UNCHANGED <<stage, at, asked, grants, issued, afterFirst, introspected, inquiry, served, receipted>>

\* authorize: exactly the required scopes, for exactly this resource.
Grantable(r) == r.scopes = RequiredScopes /\ r.resource = "rs"

\* The client is sent through the authorization endpoint.
Authorize ==
  /\ Awaiting("refused") /\ Bounded
  /\ client.info # None /\ client.code = None
  /\ \E r \in Requests :
       /\ asked' = r
       /\ IF ~Grantable(r) THEN stage' = "failed" /\ UNCHANGED <<counts, grants, client>>
          ELSE LET n == counts.authorized + 1 IN
               /\ counts' = [counts EXCEPT !.authorized = n]
               /\ grants' = grants \cup {[code |-> n, client |-> client.info, resource |-> r.resource, scopes |-> r.scopes]}
               /\ client' \in {client, [client EXCEPT !.code = n]}
               /\ UNCHANGED stage
  /\ UNCHANGED <<at, issued, afterFirst, introspected, inquiry, served, receipted>>

\* exchange_authorization_code, of a code that load_authorization_code finds for this client; the
\* code is gone even if the token does not arrive.
ExchangeAuthorizationCode ==
  /\ Awaiting("refused") /\ client.code # None
  /\ \E g \in grants :
       /\ g.code = client.code /\ g.client = client.info
       /\ counts' = [counts EXCEPT !.exchanged = @ + 1]
       /\ issued' = Append(issued, [client |-> g.client, resource |-> g.resource, scopes |-> g.scopes, live |-> TRUE])
       /\ grants' = grants \ {g}
       /\ \/ /\ client' = [client EXCEPT !.code = None, !.token = Len(issued')]
             /\ at' = "sent"
          \/ client' = [client EXCEPT !.code = None] /\ UNCHANGED at
  /\ UNCHANGED <<stage, asked, afterFirst, introspected, inquiry, served, receipted>>

TokenExpires ==
  /\ Awaiting("sent") \/ Awaiting("verifying")
  /\ \E i \in 1..Len(issued) : issued[i].live /\ issued' = [issued EXCEPT ![i].live = FALSE]
  /\ UNCHANGED <<stage, at, client, asked, grants, counts, afterFirst, introspected, inquiry, served, receipted>>

\* introspect
Introspection(t) ==
  IF t # None /\ issued[t].live
    THEN [active |-> TRUE, resource |-> issued[t].resource, scopes |-> issued[t].scopes]
    ELSE Inactive

-----------------------------------------------------------------------------
(* The resource server                                                        *)

\* _IntrospectionTokenVerifier.verify_token: the AS is not reached, or it answers, and the answer
\* may be lost.
VerifyToken ==
  /\ Awaiting("sent") /\ client.token # None
  /\ \/ inquiry' = Inactive /\ UNCHANGED introspected
     \/ /\ introspected' = [count |-> introspected.count + 1, last |-> Introspection(client.token)]
        /\ inquiry' \in {introspected'.last, Inactive}
  /\ at' = "verifying"
  /\ UNCHANGED <<stage, client, asked, grants, issued, counts, afterFirst, served, receipted>>

\* _access_token_from_introspection, and the SDK's check of the required scopes.
Authentic(a) == a.active /\ a.resource = "rs"
Serve ==
  /\ Awaiting("verifying") /\ Authentic(inquiry) /\ inquiry.scopes = RequiredScopes
  /\ served' = Append(served, [request |-> stage, token |-> client.token])
  /\ stage' = Following[stage] /\ at' = "sent"
  /\ afterFirst' = IF stage = "call" THEN counts ELSE afterFirst
  /\ UNCHANGED <<client, asked, grants, issued, counts, introspected, inquiry, receipted>>

\* Without a token that stands, the client is told to authorize.
Refuse ==
  /\ \/ Awaiting("sent") /\ client.token = None
     \/ Awaiting("verifying") /\ ~Authentic(inquiry)
  /\ Len(served) + counts.exchanged < FlowLimit
  /\ at' = "refused"
  /\ client' = [client EXCEPT !.token = None]
  /\ UNCHANGED <<stage, asked, grants, issued, counts, afterFirst, introspected, inquiry, served, receipted>>

-----------------------------------------------------------------------------
(* The receipt                                                                *)

\* Mutant: a flow that starts anew on the reconnection is not noticed.
FaultyReused == afterFirst = [registered |-> 1, authorized |-> 1, exchanged |-> 1]
\* counts_after_first, and reused_stored_authorization
Reused ==
  /\ afterFirst = [registered |-> 1, authorized |-> 1, exchanged |-> 1]
  /\ counts = afterFirst

\* _receipt_for_observation, of metadata that may be other than it should be.
ReceiptForObservation ==
  /\ stage = "metadata"
  /\ \E discovered \in BOOLEAN :
       receipted' = /\ discovered
                    /\ asked = [state |-> TRUE, method |-> "S256", resource |-> "rs", scopes |-> RequiredScopes]
                    /\ introspected.last = [active |-> TRUE, resource |-> "rs", scopes |-> RequiredScopes]
                    /\ Reused /\ introspected.count >= 3
  /\ stage' = "done"
  /\ UNCHANGED <<at, client, asked, grants, issued, counts, afterFirst, introspected, inquiry, served>>

Next ==
  \/ RegisterClient \/ Authorize \/ ExchangeAuthorizationCode \/ TokenExpires
  \/ VerifyToken \/ Serve \/ Refuse \/ ReceiptForObservation
Spec == Init /\ [][Next]_flowVars

-----------------------------------------------------------------------------
(* Properties                                                                 *)

\* A receipt stands for one grant: one token was ever issued, for this resource and these scopes,
\* on a request with state and PKCE, and the listing, the call and the call after the reconnection
\* were all served with it.
ReceiptIsOneGrant ==
  receipted =>
    /\ Len(issued) = 1 /\ grants = {}
    /\ issued[1].resource = asked.resource /\ issued[1].scopes = asked.scopes
    /\ asked.state /\ asked.method = "S256"
    /\ served = << [request |-> "list", token |-> 1], [request |-> "call", token |-> 1],
                   [request |-> "again", token |-> 1] >>
=============================================================================
