--------------------------- MODULE ApprovalProofs ---------------------------
(* Human approval in a trial, for every bound on its turns and calls: what the    *)
(* recorded trajectory says of the protected tool is what the agent did, and the   *)
(* verifier and the policy grade it so.                                            *)
EXTENDS AdaptersProofs

-----------------------------------------------------------------------------
(* Human approval in a trial                                                  *)

\* What begins at 0 and goes on up to a bound holds up to it: induction over a set of numbers, from
\* the well-foundedness of <.
LEMMA UpTo ==
  ASSUME NEW N \in Nat, NEW S \in SUBSET (0 .. N), 0 \in S, \A n \in S : n < N => n + 1 \in S
  PROVE  S = 0 .. N
<1> DEFINE T == (0 .. N) \ S
<1>1. /\ T \in SUBSET Nat
      /\ \A k \in T : k \in Nat /\ k \notin S /\ k # 0 /\ k <= N
      /\ \A k \in 0 .. N : k \in S \/ k \in T
  OBVIOUS
<1> HIDE DEF T
<1>2. ASSUME T # {} PROVE FALSE
  <2>1. PICK k \in T : \A j \in T : ~(<<j, k>> \in OpToRel(<, Nat))
    BY <1>1, <1>2, NatLessThanWellFounded, WFMin, Zenon
  <2>2. \A j \in T : ~(j < k)
    BY <1>1, <2>1 DEF OpToRel
  <2>3. k \in Nat /\ k # 0 /\ k <= N /\ k \notin S
    BY <1>1, <2>1
  <2>4. k - 1 \in 0 .. N /\ k - 1 < k /\ k - 1 < N /\ k - 1 + 1 = k
    BY <2>3
  <2>5. k - 1 \in S
    BY <1>1, <2>2, <2>4
  <2> QED
    BY <2>3, <2>4, <2>5
<1>3. \A k \in 0 .. N : k \in S
  BY <1>1, <1>2
<1> QED
  BY <1>3

\* The path of handoffs, event by event.
LEMMA Walked ==
  ASSUME NEW p, NEW ev, NEW N \in Nat, Len(ev) = N
  PROVE  /\ Approval!Walk(p, ev)[0] = Approval!FromPolicy(p)
         /\ \A n \in 1 .. N :
              Approval!Walk(p, ev)[n] =
                IF ev[n].kind = "handoff" THEN Approval!AdvanceHandoff(p, Approval!Walk(p, ev)[n - 1], ev[n])
                ELSE Approval!Walk(p, ev)[n - 1]
<1> DEFINE moves(s, n) == IF ev[n].kind = "handoff" THEN Approval!AdvanceHandoff(p, s, ev[n]) ELSE s
           is(g, n) == g = [k \in 0 .. n |-> IF k = 0 THEN Approval!FromPolicy(p) ELSE moves(g[k - 1], k)]
           S == {n \in 0 .. N : \E g : is(g, n)}
           W == Approval!Walk(p, ev)
<1>1. 0 \in S
  <2>1. is([k \in 0 .. 0 |-> Approval!FromPolicy(p)], 0)
    OBVIOUS
  <2> HIDE DEF is
  <2> QED
    BY <2>1
<1>2. ASSUME NEW n \in S, n < N
      PROVE  n + 1 \in S
  <2>1. PICK g : is(g, n)
    BY <1>2
  <2> DEFINE h == [k \in 0 .. n + 1 |-> IF k = n + 1 THEN moves(g[n], n + 1) ELSE g[k]]
  <2> HIDE DEF moves
  <2>2. ASSUME NEW k \in 0 .. n + 1
        PROVE  h[k] = IF k = 0 THEN Approval!FromPolicy(p) ELSE moves(h[k - 1], k)
    <3>1. CASE k = n + 1
      BY <1>2, <3>1
    <3>2. CASE k \in 0 .. n
      BY <1>2, <2>1, <3>2
    <3> QED
      BY <3>1, <3>2
  <2>3. is(h, n + 1)
    BY <2>2
  <2>4. n + 1 \in 0 .. N
    BY <1>2
  <2> HIDE DEF is, h
  <2> QED
    BY <2>3, <2>4
<1>3. N \in S
  <2>1. S \in SUBSET (0 .. N)
    OBVIOUS
  <2> HIDE DEF S
  <2> QED
    BY <1>1, <1>2, <2>1, UpTo
<1>4. is(W, N)
  <2>1. \E g : is(g, N)
    BY <1>3
  <2>2. W = CHOOSE g : is(g, N)
    BY DEF Approval!Walk
  <2> HIDE DEF is, W
  <2> QED
    BY <2>1, <2>2
<1> QED
  BY <1>4

\* What the oracle knows, event by event.
LEMMA Graded ==
  ASSUME NEW p, NEW w, NEW ev, NEW N \in Nat, Len(ev) = N
  PROVE  /\ Approval!Grading(p, w, ev)[0] = Approval!Start(p)
         /\ \A n \in 1 .. N :
              Approval!Grading(p, w, ev)[n] = Approval!Step(p, w, Approval!Grading(p, w, ev)[n - 1], ev[n])
<1> DEFINE is(g, n) == g = [k \in 0 .. n |-> IF k = 0 THEN Approval!Start(p)
                                            ELSE Approval!Step(p, w, g[k - 1], ev[k])]
           S == {n \in 0 .. N : \E g : is(g, n)}
           G == Approval!Grading(p, w, ev)
<1>1. 0 \in S
  <2>1. is([k \in 0 .. 0 |-> Approval!Start(p)], 0)
    OBVIOUS
  <2> HIDE DEF is
  <2> QED
    BY <2>1
<1>2. ASSUME NEW n \in S, n < N
      PROVE  n + 1 \in S
  <2>1. PICK g : is(g, n)
    BY <1>2
  <2> DEFINE h == [k \in 0 .. n + 1 |-> IF k = n + 1 THEN Approval!Step(p, w, g[n], ev[n + 1]) ELSE g[k]]
  <2>2. ASSUME NEW k \in 0 .. n + 1
        PROVE  h[k] = IF k = 0 THEN Approval!Start(p) ELSE Approval!Step(p, w, h[k - 1], ev[k])
    <3>1. CASE k = n + 1
      BY <1>2, <3>1
    <3>2. CASE k \in 0 .. n
      BY <1>2, <2>1, <3>2
    <3> QED
      BY <3>1, <3>2
  <2>3. is(h, n + 1)
    BY <2>2
  <2>4. n + 1 \in 0 .. N
    BY <1>2
  <2> HIDE DEF is, h
  <2> QED
    BY <2>3, <2>4
<1>3. N \in S
  <2>1. S \in SUBSET (0 .. N)
    OBVIOUS
  <2> HIDE DEF S
  <2> QED
    BY <1>1, <1>2, <2>1, UpTo
<1>4. is(G, N)
  <2>1. \E g : is(g, N)
    BY <1>3
  <2>2. G = CHOOSE g : is(g, N)
    BY DEF Approval!Grading
  <2> HIDE DEF is, G
  <2> QED
    BY <2>1, <2>2
<1> QED
  BY <1>4

GradeFields ==
  {"path", "once", "forGood", "approved", "rejected", "calls", "handoffs", "ok", "byAgent"}

\* What one event makes of what the oracle knows.
GradedOn(p, w, s, e, t) ==
  /\ DOMAIN t = GradeFields /\ t.ok \in BOOLEAN /\ (t.ok => s.ok)
  /\ t.path = IF p.delegates /\ e.kind = "handoff" THEN Approval!AdvanceHandoff(p, s.path, e)
              ELSE s.path
  /\ e.kind # "approval" /\ s.once = {} /\ s.forGood = {} => t.once = {} /\ t.forGood = {}
  /\ t.approved \subseteq s.approved
       \cup (IF e.kind = "decision" /\ e.decision = "approve" THEN {<<e.tool, e.call>>} ELSE {})
  /\ e.kind = "request" /\ s.once = {} /\ s.forGood = {}
       /\ e.tool \in s.path.authority.approval /\ t.ok => <<e.tool, e.call>> \in s.approved
  /\ e.kind = "approval_request" /\ w # Approval!NoIntent /\ t.ok
       => e.tool \in s.path.authority.approval
  /\ e.kind = "violation" => ~t.ok

\* One event leaves what the oracle knows a record that only gets worse; which approvals it may
\* take from it, and what passes only with one.
LEMMA GradeStep ==
  ASSUME NEW p, NEW w, NEW s, NEW e, DOMAIN s = GradeFields, s.ok \in BOOLEAN,
         NEW t, t = Approval!Step(p, w, s, e)
  PROVE  GradedOn(p, w, s, e, t)
<1>1. CASE e.kind = "approval"
  <2>1. t = Approval!GradeApproval(s, e)
    BY <1>1 DEF Approval!Step
  <2> QED
    BY <1>1, <2>1 DEF GradedOn, GradeFields, Approval!GradeApproval, Approval!Bad
<1>2. CASE e.kind = "approval_request" /\ w # Approval!NoIntent
  <2>1. t = Approval!GradeApprovalRequest(p, s, e)
    BY <1>2 DEF Approval!Step
  <2> QED
    BY <1>2, <2>1 DEF GradedOn, GradeFields, Approval!GradeApprovalRequest, Approval!Bad, Approval!Keep
<1>3. CASE e.kind = "decision"
  <2>1. t = Approval!GradeDecision(s, e)
    BY <1>3 DEF Approval!Step
  <2> QED
    BY <1>3, <2>1 DEF GradedOn, GradeFields, Approval!GradeDecision
<1>4. CASE e.kind = "request"
  <2>1. t = Approval!GradeRequest(p, w, s, e)
    BY <1>4 DEF Approval!Step
  <2> DEFINE counted == [s EXCEPT !.calls = @ + 1]
             mine == [counted EXCEPT !.byAgent.calls[e.agent] = @ + 1,
                              !.ok = @ /\ s.byAgent.calls[e.agent] < s.path.authority.maxCalls]
             now == IF p.delegates THEN mine ELSE counted
             spent == IF e.tool \in s.path.authority.approval THEN Approval!SpendApproval(w, now, e) ELSE now
  <2>2. \A u \in {counted, mine} :
          /\ DOMAIN u = GradeFields /\ u.ok \in BOOLEAN /\ (u.ok => s.ok) /\ u.path = s.path
          /\ u.once = s.once /\ u.forGood = s.forGood /\ u.approved = s.approved
    BY DEF GradedOn, GradeFields
  <2>3. /\ DOMAIN now = GradeFields /\ now.ok \in BOOLEAN /\ (now.ok => s.ok) /\ now.path = s.path
        /\ now.once = s.once /\ now.forGood = s.forGood /\ now.approved = s.approved
    BY <2>2
  <2>4. t = IF p.delegates /\ e.agent # s.path.active THEN Approval!Bad(counted)
            ELSE IF e.tool \notin s.path.authority.allowed THEN Approval!Bad(now)
            ELSE Approval!Keep(spent, Approval!ResourceOk(s.path.authority.scopes, e))
    BY <2>1 DEF Approval!GradeRequest
  <2> HIDE DEF counted, mine, now
  <2>5. /\ DOMAIN spent = GradeFields /\ spent.ok \in BOOLEAN /\ (spent.ok => s.ok) /\ spent.path = s.path
        /\ s.once = {} /\ s.forGood = {} =>
             /\ spent.once = {} /\ spent.forGood = {}
             /\ e.tool \in s.path.authority.approval /\ spent.ok => <<e.tool, e.call>> \in s.approved
        /\ spent.approved \subseteq s.approved
    BY <2>3 DEF GradedOn, GradeFields, Approval!SpendApproval, Approval!Bad
  <2> HIDE DEF spent
  <2> QED
    BY <1>4, <2>2, <2>3, <2>4, <2>5 DEF GradedOn, GradeFields, Approval!Bad, Approval!Keep
<1>5. CASE e.kind = "handoff"
  <2>1. t = Approval!GradeHandoff(p, s, e)
    BY <1>5 DEF Approval!Step
  <2> DEFINE counted == [s EXCEPT !.handoffs = @ + 1]
             mine == IF e.agent # s.path.active THEN counted
                     ELSE [counted EXCEPT
                             !.byAgent.handoffs[e.agent] = @ + 1,
                             !.ok = @ /\ s.byAgent.handoffs[e.agent] < s.path.authority.maxHandoffs]
  <2>2. \A u \in {counted, mine} :
          /\ DOMAIN u = GradeFields /\ u.ok \in BOOLEAN /\ (u.ok => s.ok) /\ u.path = s.path
          /\ u.once = s.once /\ u.forGood = s.forGood /\ u.approved = s.approved
    BY DEF GradedOn, GradeFields
  <2>3. t = IF ~p.delegates THEN counted
            ELSE IF ~Approval!Admissible(p, s.path, e) THEN Approval!Bad(mine)
            ELSE [mine EXCEPT !.path = Approval!AdvanceHandoff(p, s.path, e)]
    BY <2>1 DEF Approval!GradeHandoff
  <2>4. ~Approval!Admissible(p, s.path, e) => Approval!AdvanceHandoff(p, s.path, e) = s.path
    BY DEF Approval!AdvanceHandoff
  <2> HIDE DEF counted, mine
  <2> QED
    BY <1>5, <2>2, <2>3, <2>4 DEF GradedOn, GradeFields, Approval!Bad
<1>6. CASE e.kind = "violation"
  <2>1. t = Approval!Bad(s)
    BY <1>6 DEF Approval!Step
  <2> QED
    BY <1>6, <2>1 DEF GradedOn, GradeFields, Approval!Bad
<1>7. CASE /\ e.kind \notin {"approval", "decision", "request", "handoff", "violation"}
           /\ ~(e.kind = "approval_request" /\ w # Approval!NoIntent)
  <2>1. t = s
    BY <1>7 DEF Approval!Step
  <2> QED
    BY <1>7, <2>1 DEF GradedOn
<1> QED
  BY <1>1, <1>2, <1>3, <1>4, <1>5, <1>6, <1>7

\* What a record without a legacy approval shows when it passes the oracle of a scenario with an
\* approval intent: no violation; before each call of a tool that needs approval where it stands,
\* the decision to approve this call; and no request for approval where none is needed.
PassedAt(p, ev, n) ==
  /\ ev[n].kind # "violation"
  /\ ev[n].kind = "request" /\ ev[n].tool \in Approval!StateBefore(p, ev, n).authority.approval
       => \E m \in 1 .. n - 1 : /\ ev[m].kind = "decision" /\ ev[m].decision = "approve"
                                /\ ev[m].tool = ev[n].tool /\ ev[m].call = ev[n].call
  /\ ev[n].kind = "approval_request"
       => ev[n].tool \in Approval!StateBefore(p, ev, n).authority.approval
LEMMA PassingRecord ==
  ASSUME NEW p, NEW w, NEW ev, Len(ev) \in Nat, w # Approval!NoIntent,
         \A n \in 1 .. Len(ev) : ev[n].kind # "approval", Approval!Grade(p, w, ev), NEW n \in 1 .. Len(ev)
  PROVE  PassedAt(p, ev, n)
<1>0. PICK N \in Nat : N = Len(ev)
  OBVIOUS
<1> USE <1>0
<1> DEFINE G == Approval!Grading(p, w, ev)
           path(k) == Approval!StateBefore(p, ev, k + 1)
           granted(k) == {<<ev[m].tool, ev[m].call>> :
                          m \in {j \in 1 .. k : ev[j].kind = "decision" /\ ev[j].decision = "approve"}}
           known(k) == /\ DOMAIN G[k] = GradeFields /\ G[k].ok \in BOOLEAN /\ G[k].path = path(k)
                       /\ G[k].once = {} /\ G[k].forGood = {} /\ G[k].approved \subseteq granted(k)
           S == {k \in 0 .. N : known(k)}
           T == {k \in 0 .. N : G[N - k].ok}
<1>1. /\ G[0] = Approval!Start(p)
      /\ \A k \in 1 .. N : G[k] = Approval!Step(p, w, G[k - 1], ev[k])
  BY <1>0, Graded
<1>2. /\ path(0) = Approval!FromPolicy(p)
      /\ \A k \in 1 .. N :
           path(k) = IF p.delegates /\ ev[k].kind = "handoff"
                       THEN Approval!AdvanceHandoff(p, path(k - 1), ev[k]) ELSE path(k - 1)
  BY <1>0, Walked DEF Approval!StateBefore
<1> HIDE DEF G, path
<1>3. ASSUME NEW k \in 1 .. N, known(k - 1)
      PROVE  /\ known(k) /\ (G[k].ok => G[k - 1].ok)
             /\ ev[k].kind = "request" /\ ev[k].tool \in path(k - 1).authority.approval /\ G[k].ok
                  => <<ev[k].tool, ev[k].call>> \in granted(k - 1)
             /\ ev[k].kind = "approval_request" /\ G[k].ok => ev[k].tool \in path(k - 1).authority.approval
             /\ ev[k].kind = "violation" => ~G[k].ok
  <2>1. G[k] = Approval!Step(p, w, G[k - 1], ev[k])
    BY <1>1
  <2>2. /\ DOMAIN G[k] = GradeFields /\ G[k].ok \in BOOLEAN /\ (G[k].ok => G[k - 1].ok)
        /\ G[k].path = IF p.delegates /\ ev[k].kind = "handoff"
                         THEN Approval!AdvanceHandoff(p, G[k - 1].path, ev[k]) ELSE G[k - 1].path
        /\ G[k].once = {} /\ G[k].forGood = {}
        /\ G[k].approved \subseteq G[k - 1].approved
             \cup (IF ev[k].kind = "decision" /\ ev[k].decision = "approve"
                     THEN {<<ev[k].tool, ev[k].call>>} ELSE {})
        /\ ev[k].kind = "request" /\ ev[k].tool \in path(k - 1).authority.approval /\ G[k].ok
             => <<ev[k].tool, ev[k].call>> \in G[k - 1].approved
        /\ ev[k].kind = "approval_request" /\ G[k].ok => ev[k].tool \in path(k - 1).authority.approval
        /\ ev[k].kind = "violation" => ~G[k].ok
    <3>1. PICK s, t, e : s = G[k - 1] /\ t = G[k] /\ e = ev[k]
      OBVIOUS
    <3>2. /\ DOMAIN s = GradeFields /\ s.ok \in BOOLEAN /\ s.path = path(k - 1)
          /\ s.once = {} /\ s.forGood = {} /\ e.kind # "approval"
      BY <1>3, <3>1
    <3>3. t = Approval!Step(p, w, s, e)
      BY <2>1, <3>1
    <3>4. /\ DOMAIN t = GradeFields /\ t.ok \in BOOLEAN /\ (t.ok => s.ok)
          /\ t.path = IF p.delegates /\ e.kind = "handoff"
                        THEN Approval!AdvanceHandoff(p, s.path, e) ELSE s.path
          /\ t.once = {} /\ t.forGood = {}
          /\ t.approved \subseteq s.approved
               \cup (IF e.kind = "decision" /\ e.decision = "approve" THEN {<<e.tool, e.call>>} ELSE {})
          /\ e.kind = "request" /\ e.tool \in s.path.authority.approval /\ t.ok
               => <<e.tool, e.call>> \in s.approved
          /\ e.kind = "approval_request" /\ t.ok => e.tool \in s.path.authority.approval
          /\ e.kind = "violation" => ~t.ok
      <4>1. GradedOn(p, w, s, e, t)
        BY <3>2, <3>3, GradeStep
      <4> QED
        BY <3>2, <4>1 DEF GradedOn
    <3> QED
      BY <3>1, <3>2, <3>4
  <2>3. G[k].path = path(k)
    BY <1>2, <1>3, <2>2
  <2>4. G[k].approved \subseteq granted(k)
    <3>1. granted(k - 1) \subseteq granted(k)
      OBVIOUS
    <3>2. ev[k].kind = "decision" /\ ev[k].decision = "approve" => <<ev[k].tool, ev[k].call>> \in granted(k)
      OBVIOUS
    <3> HIDE DEF granted
    <3> QED
      BY <1>3, <2>2, <3>1, <3>2
  <2> QED
    BY <1>3, <2>2, <2>3, <2>4
<1>4. known(0)
  BY <1>1, <1>2 DEF Approval!Start, GradeFields
<1>5. \A k \in 0 .. N : known(k)
  <2>1. S \in SUBSET (0 .. N) /\ 0 \in S
    BY <1>4
  <2>2. ASSUME NEW k \in S, k < N
        PROVE  k + 1 \in S
    <3>1. k + 1 \in 1 .. N /\ k + 1 - 1 = k /\ k + 1 \in 0 .. N /\ known(k)
      BY <2>2
    <3>2. known(k + 1)
      BY <1>3, <3>1
    <3> QED
      BY <3>1, <3>2
  <2>3. S = 0 .. N
    <3> HIDE DEF S
    <3> QED
      BY <2>1, <2>2, UpTo
  <2> QED
    BY <2>3
<1>6. \A k \in 0 .. N : G[N - k].ok
  <2>1. T \in SUBSET (0 .. N) /\ 0 \in T
    BY <1>0 DEF Approval!Grade, G
  <2>2. ASSUME NEW k \in T, k < N
        PROVE  k + 1 \in T
    <3>1. N - k \in 1 .. N /\ N - k - 1 = N - (k + 1) /\ N - k - 1 \in 0 .. N /\ k + 1 \in 0 .. N
      BY <2>2
    <3>2. G[N - k].ok => G[N - k - 1].ok
      BY <1>3, <1>5, <3>1
    <3> QED
      BY <2>2, <3>1, <3>2
  <2>3. T = 0 .. N
    <3> HIDE DEF T
    <3> QED
      BY <2>1, <2>2, UpTo
  <2> QED
    BY <2>3
<1>7. G[n].ok
  <2>1. N - n \in 0 .. N /\ N - (N - n) = n
    BY <1>0
  <2> QED
    BY <1>6, <2>1
<1>8. /\ ev[n].kind = "request" /\ ev[n].tool \in path(n - 1).authority.approval
           => <<ev[n].tool, ev[n].call>> \in granted(n - 1)
      /\ ev[n].kind = "approval_request" => ev[n].tool \in path(n - 1).authority.approval
      /\ ev[n].kind # "violation"
  BY <1>0, <1>3, <1>5, <1>7
<1>9. path(n - 1) = Approval!StateBefore(p, ev, n)
  BY DEF path
<1> QED
  BY <1>8, <1>9 DEF PassedAt

\* The path of handoffs depends on the handoffs only: two records walk alike from places where they
\* stand alike, as long as they have the same handoffs, and a record without one stands still.
WalkedAlike(p, r, a, s, b, L) == Approval!Walk(p, r)[a + L] = Approval!Walk(p, s)[b + L]
LEMMA WalkAlike ==
  ASSUME NEW p, NEW r, NEW s, Len(r) \in Nat, Len(s) \in Nat, NEW a \in Nat, NEW b \in Nat, NEW L \in Nat,
         a + L <= Len(r), b + L <= Len(s), Approval!Walk(p, r)[a] = Approval!Walk(p, s)[b],
         \A i \in 1 .. L : \/ r[a + i] = s[b + i]
                           \/ r[a + i].kind # "handoff" /\ s[b + i].kind # "handoff"
  PROVE  WalkedAlike(p, r, a, s, b, L)
<1>0. PICK M, N : M = Len(r) /\ N = Len(s)
  OBVIOUS
<1> DEFINE R == Approval!Walk(p, r)
           W == Approval!Walk(p, s)
           S == {k \in 0 .. L : R[a + k] = W[b + k]}
<1>1. \A n \in 1 .. M : R[n] = IF r[n].kind = "handoff" THEN Approval!AdvanceHandoff(p, R[n - 1], r[n])
                               ELSE R[n - 1]
  BY <1>0, Walked
<1>2. \A n \in 1 .. N : W[n] = IF s[n].kind = "handoff" THEN Approval!AdvanceHandoff(p, W[n - 1], s[n])
                               ELSE W[n - 1]
  BY <1>0, Walked
<1> HIDE DEF R, W
<1>3. S \in SUBSET (0 .. L) /\ 0 \in S
  BY DEF R, W
<1>4. ASSUME NEW k \in S, k < L
      PROVE  k + 1 \in S
  <2>1. /\ k \in 0 .. L /\ k + 1 \in 1 .. L /\ R[a + k] = W[b + k]
        /\ a + (k + 1) \in 1 .. M /\ b + (k + 1) \in 1 .. N
        /\ a + (k + 1) - 1 = a + k /\ b + (k + 1) - 1 = b + k
    BY <1>0, <1>4
  <2>2. \/ r[a + (k + 1)] = s[b + (k + 1)]
        \/ r[a + (k + 1)].kind # "handoff" /\ s[b + (k + 1)].kind # "handoff"
    BY <2>1
  <2>3. R[a + (k + 1)] = W[b + (k + 1)]
    BY <1>1, <1>2, <2>1, <2>2
  <2> QED
    BY <2>1, <2>3
<1>5. S = 0 .. L
  <2> HIDE DEF S
  <2> QED
    BY <1>3, <1>4, UpTo
<1>6. R[a + L] = W[b + L]
  <2>1. L \in 0 .. L
    OBVIOUS
  <2> QED
    BY <1>5, <2>1
<1> QED
  BY <1>6 DEF R, W, WalkedAlike

\* Where nobody hands over, the path stays the same.
LEMMA StandsStill ==
  ASSUME NEW p, NEW r, NEW M \in Nat, Len(r) = M, NEW a \in 0 .. M, NEW b \in a .. M,
         \A i \in a + 1 .. b : r[i].kind # "handoff"
  PROVE  Approval!Walk(p, r)[a] = Approval!Walk(p, r)[b]
<1> DEFINE R == Approval!Walk(p, r)
           S == {k \in 0 .. b - a : R[a + k] = R[a]}
<1>1. \A n \in 1 .. M : r[n].kind # "handoff" => R[n] = R[n - 1]
  BY Walked
<1> HIDE DEF R
<1>2. S \in SUBSET (0 .. b - a) /\ 0 \in S /\ b - a \in Nat
  OBVIOUS
<1>3. ASSUME NEW k \in S, k < b - a
      PROVE  k + 1 \in S
  <2>1. /\ k \in 0 .. b - a /\ k + 1 \in 0 .. b - a /\ R[a + k] = R[a]
        /\ a + (k + 1) \in a + 1 .. b /\ a + (k + 1) \in 1 .. M /\ a + (k + 1) - 1 = a + k
    BY <1>3
  <2>2. R[a + (k + 1)] = R[a]
    BY <1>1, <2>1
  <2> QED
    BY <2>1, <2>2
<1>4. S = 0 .. b - a
  <2> HIDE DEF S
  <2> QED
    BY <1>2, <1>3, UpTo
<1>5. \A k \in 0 .. b - a : R[a + k] = R[a]
  BY <1>4
<1>6. b - a \in 0 .. b - a /\ a + (b - a) = b
  BY <1>2
<1>7. R[b] = R[a]
  BY <1>5, <1>6
<1> QED
  BY <1>7 DEF R

\* A sequence put behind another one.
LEMMA Joined ==
  ASSUME NEW S, NEW s \in Seq(S), NEW t \in Seq(S), NEW m, m = Len(s), NEW n, n = Len(t)
  PROVE  /\ s \o t \in Seq(S) /\ Len(s \o t) = m + n /\ m \in Nat /\ n \in Nat
         /\ \A i \in 1 .. m : (s \o t)[i] = s[i]
         /\ \A i \in 1 .. n : (s \o t)[m + i] = t[i]
<1>1. m \in Nat /\ n \in Nat
  BY LenProperties
<1>2. /\ s \o t \in Seq(S) /\ Len(s \o t) = m + n
      /\ \A i \in 1 .. m + n : (s \o t)[i] = IF i <= m THEN s[i] ELSE t[i - m]
  BY ConcatProperties
<1> DEFINE u == s \o t
<1> HIDE DEF u
<1>3. \A i \in 1 .. m + n : u[i] = IF i <= m THEN s[i] ELSE t[i - m]
  BY <1>2 DEF u
<1>4. ASSUME NEW i \in 1 .. m
      PROVE  u[i] = s[i]
  BY <1>1, <1>3
<1>5. ASSUME NEW i \in 1 .. n
      PROVE  u[m + i] = t[i]
  <2>1. m + i \in 1 .. m + n /\ ~(m + i <= m) /\ m + i - m = i
    BY <1>1
  <2> QED
    BY <1>3, <2>1
<1> QED
  BY <1>1, <1>2, <1>4, <1>5 DEF u

\* A piece of a sequence.
LEMMA Cut ==
  ASSUME NEW S, NEW s \in Seq(S), NEW a \in 1 .. Len(s) + 1, NEW b \in 0 .. Len(s), a <= b + 1
  PROVE  /\ SubSeq(s, a, b) \in Seq(S) /\ Len(SubSeq(s, a, b)) = b - a + 1
         /\ \A i \in 1 .. b - a + 1 : SubSeq(s, a, b)[i] = s[a + i - 1]
<1>1. Len(s) \in Nat /\ \A i \in 1 .. Len(s) : s[i] \in S
  BY LenProperties, ElementOfSeq
<1>2. a \in Int /\ b \in Int /\ \A i \in a .. b : s[i] \in S
  BY <1>1
<1>3. /\ SubSeq(s, a, b) \in Seq(S) /\ Len(SubSeq(s, a, b)) = IF a <= b THEN b - a + 1 ELSE 0
      /\ \A i \in 1 .. b - a + 1 : SubSeq(s, a, b)[i] = s[a + i - 1]
  BY <1>2, SubSeqProperties
<1>4. (IF a <= b THEN b - a + 1 ELSE 0) = b - a + 1
  BY <1>1
<1> QED
  BY <1>3, <1>4

\* A sequence without one of its elements.
LEMMA Removed ==
  ASSUME NEW S, NEW s \in Seq(S), NEW k \in 1 .. Len(s)
  PROVE  /\ Approval!RemoveAt(s, k) \in Seq(S) /\ Len(Approval!RemoveAt(s, k)) = Len(s) - 1
         /\ \A i \in 1 .. k - 1 : Approval!RemoveAt(s, k)[i] = s[i]
         /\ \A i \in k + 1 .. Len(s) : Approval!RemoveAt(s, k)[i - 1] = s[i]
<1> DEFINE a == SubSeq(s, 1, k - 1)
           b == SubSeq(s, k + 1, Len(s))
<1>1. Len(s) \in Nat
  BY LenProperties
<1>2. a \in Seq(S) /\ Len(a) = k - 1 /\ \A i \in 1 .. k - 1 : a[i] = s[i]
  <2>1. 1 \in 1 .. Len(s) + 1 /\ k - 1 \in 0 .. Len(s) /\ 1 <= k - 1 + 1 /\ k - 1 - 1 + 1 = k - 1
    BY <1>1
  <2>2. a \in Seq(S) /\ Len(a) = k - 1 /\ \A i \in 1 .. k - 1 : a[i] = s[1 + i - 1]
    BY <2>1, Cut
  <2> QED
    BY <2>2
<1>3. b \in Seq(S) /\ Len(b) = Len(s) - k /\ \A i \in 1 .. Len(s) - k : b[i] = s[k + i]
  <2>1. k + 1 \in 1 .. Len(s) + 1 /\ Len(s) \in 0 .. Len(s) /\ k + 1 <= Len(s) + 1
        /\ Len(s) - (k + 1) + 1 = Len(s) - k
    BY <1>1
  <2>2. b \in Seq(S) /\ Len(b) = Len(s) - k /\ \A i \in 1 .. Len(s) - k : b[i] = s[k + 1 + i - 1]
    BY <2>1, Cut
  <2>3. \A i \in 1 .. Len(s) - k : k + 1 + i - 1 = k + i
    OBVIOUS
  <2> QED
    BY <2>2, <2>3
<1>4. Approval!RemoveAt(s, k) = a \o b
  BY DEF Approval!RemoveAt
<1> HIDE DEF a, b
<1>5. /\ a \o b \in Seq(S) /\ Len(a \o b) = k - 1 + (Len(s) - k)
      /\ \A i \in 1 .. k - 1 : (a \o b)[i] = a[i]
      /\ \A i \in 1 .. Len(s) - k : (a \o b)[k - 1 + i] = b[i]
  <2>1. PICK m, n : m = k - 1 /\ n = Len(s) - k
    OBVIOUS
  <2>2. m = Len(a) /\ n = Len(b) /\ a \in Seq(S) /\ b \in Seq(S)
    BY <1>2, <1>3, <2>1
  <2>3. /\ a \o b \in Seq(S) /\ Len(a \o b) = m + n
        /\ \A i \in 1 .. m : (a \o b)[i] = a[i]
        /\ \A i \in 1 .. n : (a \o b)[m + i] = b[i]
    BY <2>2, Joined
  <2> QED
    BY <2>1, <2>3
<1>6. \A i \in k + 1 .. Len(s) : (a \o b)[i - 1] = s[i]
  <2> TAKE i \in k + 1 .. Len(s)
  <2>1. i - k \in 1 .. Len(s) - k /\ k - 1 + (i - k) = i - 1 /\ k + (i - k) = i
    BY <1>1
  <2> QED
    BY <1>3, <1>5, <2>1
<1>7. k - 1 + (Len(s) - k) = Len(s) - 1
  BY <1>1
<1> QED
  BY <1>2, <1>4, <1>5, <1>6, <1>7

ApprovalItems ==
  [kind : {"request", "approval_request", "result", "handoff"}, tool : {"target", "free", "none"},
   call : Nat, agent : {"root", "helper"}, to : {"root", "helper", "none"}, resource : {"none"},
   decision : {"none"}, rejected : BOOLEAN, at : {0}]
ApprovalEvents ==
  [kind : {"request", "approval_request", "result", "handoff", "decision", "output", "violation"},
   tool : {"target", "free", "none"}, call : Nat, agent : {"root", "helper", "none"},
   to : {"root", "helper", "none"}, resource : {"none"}, decision : {"none", "approve", "reject"},
   rejected : BOOLEAN, at : Nat]

\* The record e of a run with the items s, in which req, ask and reply are the places of the decided
\* call: what is before, the interruption and its decision, the execution, and the rest.
StitchedAt(s, e, req, ask, reply) ==
  LET more == IF intent.decision = "approve" THEN 1 ELSE 0 IN
  /\ e \in Seq(ApprovalEvents) /\ Len(e) = Len(s) + more
  /\ \A i \in 1 .. req - 1 : e[i] = s[i]
  /\ \A i \in req + 1 .. ask : e[i - 1] = s[i]
  /\ e[ask] = [s[ask] EXCEPT !.kind = "decision", !.decision = intent.decision, !.at = ask - 1]
  /\ IF more = 1 THEN e[ask + 1] = s[req] /\ e[ask + 2] = s[reply]
     ELSE e[ask + 1] = [s[reply] EXCEPT !.rejected = TRUE]
  /\ \A i \in ask + 1 .. reply - 1 : e[i + 1 + more] = s[i]
  /\ \A i \in reply + 1 .. Len(s) : e[i + more] = s[i]

\* What is made of an item is an event.
LEMMA ItemsAreEvents ==
  ASSUME NEW x \in ApprovalItems
  PROVE  x \in ApprovalEvents /\ [x EXCEPT !.rejected = TRUE] \in ApprovalEvents
<1>1. x \in ApprovalEvents
  BY DEF ApprovalItems, ApprovalEvents
<1>2. ASSUME NEW y \in ApprovalEvents
      PROVE  [y EXCEPT !.rejected = TRUE] \in ApprovalEvents
  BY DEF ApprovalEvents
<1> QED
  BY <1>1, <1>2

\* The stitched record of a call whose request, interruption and result come in this order.
LEMMA Stitched ==
  ASSUME NEW s \in Seq(ApprovalItems), NEW req \in 1 .. Len(s), NEW ask \in 1 .. Len(s),
         NEW reply \in 1 .. Len(s), req < ask, ask < reply, intent.decision \in {"approve", "reject"},
         Approval!Only(s, "request") = {req}, Approval!Only(s, "approval_request") = {ask},
         Approval!Only(s, "result") = {reply}
  PROVE  StitchedAt(s, Approval!Stitch(s), req, ask, reply)
<1> DEFINE E == ApprovalEvents
           N == Len(s)
           before == Approval!RemoveAt(SubSeq(s, 1, ask - 1), req)
           after == Approval!RemoveAt(SubSeq(s, ask + 1, N), reply - ask)
           decision == [s[ask] EXCEPT !.kind = "decision", !.decision = intent.decision,
                                      !.at = Len(before) + 1]
           two == <<s[ask], decision>>
           ran2 == IF intent.decision = "approve" THEN <<s[req], s[reply]>>
                   ELSE <<[s[reply] EXCEPT !.rejected = TRUE]>>
           more == IF intent.decision = "approve" THEN 1 ELSE 0
<1>1. Approval!Stitch(s) = before \o two \o ran2 \o after
  <2> DEFINE of(a, r, d) ==
               LET b == Approval!RemoveAt(SubSeq(s, 1, a - 1), r) IN
               b \o <<s[a], [s[a] EXCEPT !.kind = "decision", !.decision = intent.decision,
                                        !.at = Len(b) + 1]>>
                 \o (IF intent.decision = "approve" THEN <<s[r], s[d]>>
                     ELSE <<[s[d] EXCEPT !.rejected = TRUE]>>)
                 \o Approval!RemoveAt(SubSeq(s, a + 1, Len(s)), d - a)
             one(k) == CHOOSE i \in Approval!Only(s, k) : TRUE
  <2>1. Approval!Stitch(s) = of(one("approval_request"), one("request"), one("result"))
    BY DEF Approval!Stitch
  <2>2. one("approval_request") = ask /\ one("request") = req /\ one("result") = reply
    OBVIOUS
  <2>3. of(ask, req, reply) = before \o two \o ran2 \o after
    OBVIOUS
  <2> HIDE DEF of, one
  <2> QED
    BY <2>1, <2>2, <2>3
<1>2. N \in Nat /\ \A i \in 1 .. N : s[i] \in ApprovalItems
  BY LenProperties, ElementOfSeq
<1>3. ApprovalItems \subseteq E /\ s \in Seq(E)
  <2>1. ASSUME NEW x \in ApprovalItems
        PROVE  x \in E
    BY ItemsAreEvents
  <2> HIDE DEF E
  <2> QED
    BY <2>1
<1>4. /\ before \in Seq(E) /\ Len(before) = ask - 2
      /\ \A i \in 1 .. req - 1 : before[i] = s[i]
      /\ \A i \in req + 1 .. ask - 1 : before[i - 1] = s[i]
  <2> DEFINE q == SubSeq(s, 1, ask - 1)
  <2>1. q \in Seq(E) /\ Len(q) = ask - 1 /\ \A i \in 1 .. ask - 1 : q[i] = s[i]
    <3>1. 1 \in 1 .. N + 1 /\ ask - 1 \in 0 .. N /\ 1 <= ask - 1 + 1 /\ ask - 1 - 1 + 1 = ask - 1
      BY <1>2
    <3>2. q \in Seq(E) /\ Len(q) = ask - 1 /\ \A i \in 1 .. ask - 1 : q[i] = s[1 + i - 1]
      BY <1>3, <3>1, Cut
    <3>3. \A i \in 1 .. ask - 1 : 1 + i - 1 = i
      OBVIOUS
    <3> QED
      BY <3>2, <3>3
  <2> HIDE DEF q
  <2>2. req \in 1 .. Len(q)
    BY <2>1
  <2>3. /\ before \in Seq(E) /\ Len(before) = Len(q) - 1
        /\ \A i \in 1 .. req - 1 : before[i] = q[i]
        /\ \A i \in req + 1 .. Len(q) : before[i - 1] = q[i]
    BY <2>1, <2>2, Removed DEF q
  <2> HIDE DEF before
  <2> QED
    BY <2>1, <2>3
<1>5. /\ after \in Seq(E) /\ Len(after) = N - ask - 1
      /\ \A i \in ask + 1 .. reply - 1 : after[i - ask] = s[i]
      /\ \A i \in reply + 1 .. N : after[i - ask - 1] = s[i]
  <2> DEFINE q == SubSeq(s, ask + 1, N)
  <2>1. q \in Seq(E) /\ Len(q) = N - ask /\ \A i \in ask + 1 .. N : q[i - ask] = s[i]
    <3>1. ask + 1 \in 1 .. N + 1 /\ N \in 0 .. N /\ ask + 1 <= N + 1 /\ N - (ask + 1) + 1 = N - ask
      BY <1>2
    <3>2. q \in Seq(E) /\ Len(q) = N - ask /\ \A i \in 1 .. N - ask : q[i] = s[ask + 1 + i - 1]
      <4>1. PICK a, b : a = ask + 1 /\ b = N
        OBVIOUS
      <4>2. /\ SubSeq(s, a, b) \in Seq(E) /\ Len(SubSeq(s, a, b)) = b - a + 1
            /\ \A i \in 1 .. b - a + 1 : SubSeq(s, a, b)[i] = s[a + i - 1]
        <5>1. s \in Seq(E) /\ a \in 1 .. Len(s) + 1 /\ b \in 0 .. Len(s) /\ a <= b + 1
          BY <1>3, <3>1, <4>1
        <5> QED
          BY <5>1, Cut
      <4> QED
        BY <3>1, <4>1, <4>2
    <3>3. \A i \in ask + 1 .. N : i - ask \in 1 .. N - ask /\ ask + 1 + (i - ask) - 1 = i
      BY <1>2
    <3> QED
      BY <3>2, <3>3
  <2> HIDE DEF q
  <2>2. reply - ask \in 1 .. Len(q)
    BY <1>2, <2>1
  <2>3. /\ after \in Seq(E) /\ Len(after) = Len(q) - 1
        /\ \A i \in 1 .. reply - ask - 1 : after[i] = q[i]
        /\ \A i \in reply - ask + 1 .. Len(q) : after[i - 1] = q[i]
    BY <2>1, <2>2, Removed DEF q
  <2> HIDE DEF after
  <2>4. \A i \in ask + 1 .. reply - 1 : i - ask \in 1 .. reply - ask - 1 /\ i \in ask + 1 .. N
    BY <1>2
  <2>5. \A i \in reply + 1 .. N : i - ask \in reply - ask + 1 .. N - ask /\ i \in ask + 1 .. N
    BY <1>2
  <2> QED
    BY <1>2, <2>1, <2>3, <2>4, <2>5
<1>6. /\ decision \in E /\ s[ask] \in E /\ s[req] \in E /\ s[reply] \in E
      /\ [s[reply] EXCEPT !.rejected = TRUE] \in E
      /\ decision = [s[ask] EXCEPT !.kind = "decision", !.decision = intent.decision, !.at = ask - 1]
  <2>1. s[ask] \in ApprovalItems /\ s[reply] \in ApprovalItems /\ s[req] \in ApprovalItems
    BY <1>2
  <2>2. Len(before) + 1 = ask - 1 /\ ask - 1 \in Nat
    BY <1>4
  <2> HIDE DEF before
  <2>3. decision = [s[ask] EXCEPT !.kind = "decision", !.decision = intent.decision, !.at = ask - 1]
    BY <2>2
  <2>4. decision \in E
    BY <2>1, <2>2, <2>3 DEF ApprovalItems, ApprovalEvents
  <2>5. ASSUME NEW x \in ApprovalItems
        PROVE  [x EXCEPT !.rejected = TRUE] \in E
    BY ItemsAreEvents
  <2> QED
    BY <1>3, <2>1, <2>3, <2>4, <2>5
<1> HIDE DEF E, before, after, decision
<1>7. two \in Seq(E) /\ Len(two) = 2 /\ two[1] = s[ask] /\ two[2] = decision
  BY <1>6
<1>8. /\ ran2 \in Seq(E) /\ Len(ran2) = 1 + more
      /\ IF more = 1 THEN ran2[1] = s[req] /\ ran2[2] = s[reply]
         ELSE ran2[1] = [s[reply] EXCEPT !.rejected = TRUE]
  BY <1>6
<1> HIDE DEF two, ran2
<1>9. more \in {0, 1}
  OBVIOUS
<1> HIDE DEF more
<1>10. PICK x, m : x = before \o two /\ m = ask - 2
  OBVIOUS
<1>11. /\ x \in Seq(E) /\ Len(x) = m + 2 /\ m \in Nat
       /\ \A i \in 1 .. m : x[i] = before[i]
       /\ \A i \in 1 .. 2 : x[m + i] = two[i]
  <2>1. PICK o : o = 2
    OBVIOUS
  <2>2. before \in Seq(E) /\ two \in Seq(E) /\ m = Len(before) /\ o = Len(two)
    BY <1>4, <1>7, <1>10, <2>1
  <2>3. /\ before \o two \in Seq(E) /\ Len(before \o two) = m + o /\ m \in Nat
        /\ \A i \in 1 .. m : (before \o two)[i] = before[i]
        /\ \A i \in 1 .. o : (before \o two)[m + i] = two[i]
    BY <2>2, Joined
  <2> QED
    BY <1>10, <2>1, <2>3
<1>12. PICK y, n, k : y = x \o ran2 /\ n = ask /\ k = 1 + more
  OBVIOUS
<1>13. /\ y \in Seq(E) /\ Len(y) = n + k
       /\ \A i \in 1 .. n : y[i] = x[i]
       /\ \A i \in 1 .. k : y[n + i] = ran2[i]
  <2>1. x \in Seq(E) /\ ran2 \in Seq(E) /\ n = Len(x) /\ k = Len(ran2)
    BY <1>8, <1>10, <1>11, <1>12
  <2>2. /\ x \o ran2 \in Seq(E) /\ Len(x \o ran2) = n + k
        /\ \A i \in 1 .. n : (x \o ran2)[i] = x[i]
        /\ \A i \in 1 .. k : (x \o ran2)[n + i] = ran2[i]
    BY <2>1, Joined
  <2> QED
    BY <1>12, <2>2
<1>14. PICK z, j, l : z = y \o after /\ j = ask + 1 + more /\ l = N - ask - 1
  OBVIOUS
<1>15. /\ z \in Seq(E) /\ Len(z) = j + l
       /\ \A i \in 1 .. j : z[i] = y[i]
       /\ \A i \in 1 .. l : z[j + i] = after[i]
  <2>1. j = Len(y) /\ l = Len(after)
    BY <1>5, <1>9, <1>12, <1>13, <1>14
  <2>2. /\ y \o after \in Seq(E) /\ Len(y \o after) = j + l
        /\ \A i \in 1 .. j : (y \o after)[i] = y[i]
        /\ \A i \in 1 .. l : (y \o after)[j + i] = after[i]
    <3>1. y \in Seq(E) /\ after \in Seq(E)
      BY <1>5, <1>13
    <3> QED
      BY <2>1, <3>1, Joined
  <2> QED
    BY <1>14, <2>2
<1>16. z = Approval!Stitch(s)
  BY <1>1, <1>10, <1>12, <1>14
<1>17. Len(z) = N + more
  BY <1>2, <1>9, <1>14, <1>15
<1>18. \A i \in 1 .. ask - 2 : z[i] = before[i]
  BY <1>9, <1>10, <1>11, <1>12, <1>13, <1>14, <1>15
<1>19. z[ask - 1] = s[ask] /\ z[ask] = decision
  <2>1. m + 1 = ask - 1 /\ m + 2 = ask /\ ask - 1 \in 1 .. n /\ ask \in 1 .. n
        /\ ask - 1 \in 1 .. j /\ ask \in 1 .. j
    BY <1>9, <1>10, <1>12, <1>14
  <2>2. x[ask - 1] = s[ask] /\ x[ask] = decision
    BY <1>7, <1>11, <2>1
  <2> QED
    BY <1>13, <1>15, <2>1, <2>2
<1>20. IF more = 1 THEN z[ask + 1] = s[req] /\ z[ask + 2] = s[reply]
       ELSE z[ask + 1] = [s[reply] EXCEPT !.rejected = TRUE]
  <2>1. \A i \in 1 .. k : ask + i \in 1 .. j /\ z[ask + i] = ran2[i]
    BY <1>9, <1>12, <1>13, <1>14, <1>15
  <2>2. 1 \in 1 .. k /\ (more = 1 => 2 \in 1 .. k)
    BY <1>9, <1>12
  <2> QED
    BY <1>8, <2>1, <2>2
<1>21. \A i \in 1 .. l : z[ask + 1 + more + i] = after[i]
  BY <1>14, <1>15
<1>22. \A i \in ask + 1 .. reply - 1 : z[i + 1 + more] = s[i]
  <2> TAKE i \in ask + 1 .. reply - 1
  <2>1. i - ask \in 1 .. l /\ ask + 1 + more + (i - ask) = i + 1 + more
    BY <1>2, <1>9, <1>14
  <2> QED
    BY <1>5, <1>21, <2>1
<1>23. \A i \in reply + 1 .. N : z[i + more] = s[i]
  <2> TAKE i \in reply + 1 .. N
  <2>1. i - ask - 1 \in 1 .. l /\ ask + 1 + more + (i - ask - 1) = i + more
    BY <1>2, <1>9, <1>14
  <2> QED
    BY <1>5, <1>21, <2>1
<1>24. \A i \in 1 .. req - 1 : z[i] = s[i]
  BY <1>4, <1>18
<1>25. \A i \in req + 1 .. ask : z[i - 1] = s[i]
  <2> TAKE i \in req + 1 .. ask
  <2>1. CASE i = ask
    BY <1>19, <2>1
  <2>2. CASE i \in req + 1 .. ask - 1
    <3>1. i - 1 \in 1 .. ask - 2
      BY <2>2
    <3> QED
      BY <1>4, <1>18, <2>2, <3>1
  <2> QED
    BY <2>1, <2>2
<1> QED
  BY <1>6, <1>15, <1>16, <1>17, <1>19, <1>20, <1>22, <1>23, <1>24, <1>25 DEF StitchedAt, more, E

Asks == [agent : {"root", "helper"}, call : Nat]
IsCall(e, kind_, call) == e.kind = kind_ /\ e.tool = "target" /\ e.call = call
Needed(i) == "target" \in Approval!StateBefore(policy, approvalItems, i).authority.approval

\* The target ran without a decision: its call and its result are among the items, and the result is
\* not that of the decision.
Executed(r) ==
  \E i, j \in 1 .. Len(approvalItems) :
    /\ i < j /\ j # mark + 1 /\ IsCall(approvalItems[i], "request", r.call)
    /\ approvalItems[i].agent = r.by
    /\ approvalItems[j].kind = "result" /\ approvalItems[j].call = r.call
    /\ r.needed => Needed(i)

\* A call is interrupted, by place n, and nobody has handed over since it was made.
Interrupted(c, who, n) ==
  \E i, k \in 1 .. n :
    /\ i < k /\ IsCall(approvalItems[i], "request", c) /\ approvalItems[i].agent = who
    /\ IsCall(approvalItems[k], "approval_request", c) /\ approvalItems[k].agent = who
    /\ \A h \in i .. n : approvalItems[h].kind # "handoff"

\* The decided call went on.
Resumption ==
  /\ mark + 1 \in 1 .. Len(approvalItems)
  /\ approvalItems[mark + 1].kind = "result" /\ approvalItems[mark + 1].call = decided
  /\ intent.decision = "approve" =>
       \E r \in ran : r.consent /\ r.call = decided /\ (Needed(mark + 1) => r.needed)

ApprovalTypes ==
  /\ intent \in [agent : {"root", "helper"}, tool : {"target"}, decision : {"approve", "reject"}]
  /\ stage \in {"run1", "paused", "resume", "run2", "resumed", "refused", "recorded"}
  /\ active \in {"root", "helper"} /\ pending \subseteq Asks
  /\ approvalItems \in Seq(ApprovalItems) /\ mark \in Nat /\ decided \in Nat

Mine == [agent |-> intent.agent, call |-> decided]
Waiting == \A a \in pending : a.call # 0 /\ Interrupted(a.call, a.agent, Len(approvalItems))

ApprovalHolds ==
  /\ \A r \in ran :
       IF r.consent
         THEN /\ intent.decision = "approve" /\ decided # 0 /\ r.call = decided /\ stage # "resume"
              /\ \A q \in ran : q.consent => q = r
         ELSE Executed(r)
  /\ stage \in {"run1", "paused"} => decided = 0
  /\ stage = "paused" => Waiting
  /\ 1 <= Len(approvalItems) => approvalItems[1].kind # "result"
  /\ IF decided = 0 THEN mark = 0
     ELSE mark \in 1 .. Len(approvalItems) /\ Interrupted(decided, intent.agent, mark)
  /\ stage = "resume" => decided # 0 /\ mark = Len(approvalItems) /\ Mine \in pending
  /\ stage = "run2" => decided # 0 /\ Resumption
  /\ stage = "resumed" => decided # 0 /\ (Mine \in pending \/ Resumption)

\* What the record is made of.
Unasked == decided = 0 /\ \E tail \in {<<>>, <<Approval!Output>>} : events = approvalItems \o tail
Answered ==
  /\ decided # 0 /\ Resumption /\ Approval!Stitchable(approvalItems)
  /\ \E tail \in {<<>>, <<Approval!Output>>} : events = Approval!Stitch(approvalItems) \o tail
Exhausted ==
  \E s : /\ events = Append(s, Approval!TurnBudgetViolation)
         /\ \/ s = <<>>
            \/ decided = 0 /\ s = approvalItems
            \/ decided # 0 /\ s = Approval!Returned
            \/ /\ decided # 0 /\ Resumption /\ Approval!Stitchable(approvalItems)
               /\ s = Approval!Stitch(approvalItems)
Recorded == stage = "recorded" => Unasked \/ Answered \/ Exhausted
ApprovalInv == ApprovalTypes /\ ApprovalHolds /\ Recorded

-----------------------------------------------------------------------------

\* What a resumed run returns is told apart right: merged, the two runs are the items.
LEMMA Merged ==
  ASSUME ApprovalTypes, decided # 0, mark \in 1 .. Len(approvalItems), Resumption,
         approvalItems[1].kind # "result", NEW more \in Approval!Resumed
  PROVE  Approval!MergeRunItems(Approval!Returned, more) = approvalItems
<1> DEFINE I == ApprovalItems
           s == approvalItems
           N == Len(s)
           a == SubSeq(s, 1, mark)
           b == SubSeq(s, mark + 1, N)
<1>1. s \in Seq(I) /\ N \in Nat /\ mark \in 1 .. N /\ mark + 1 \in 1 .. N
  BY LenProperties DEF ApprovalTypes, Resumption
<1>2. a \in Seq(I) /\ Len(a) = mark /\ \A i \in 1 .. mark : a[i] = s[i]
  <2>1. 1 \in 1 .. N + 1 /\ mark \in 0 .. N /\ 1 <= mark + 1 /\ mark - 1 + 1 = mark
    BY <1>1
  <2>2. a \in Seq(I) /\ Len(a) = mark - 1 + 1 /\ \A i \in 1 .. mark - 1 + 1 : a[i] = s[1 + i - 1]
    BY <1>1, <2>1, Cut
  <2>3. \A i \in 1 .. mark : 1 + i - 1 = i
    BY <1>1
  <2> QED
    BY <2>1, <2>2, <2>3
<1>3. b \in Seq(I) /\ Len(b) = N - mark /\ \A i \in 1 .. N - mark : b[i] = s[mark + i]
  <2>1. PICK x : x = mark + 1
    OBVIOUS
  <2>2. s \in Seq(I) /\ x \in 1 .. N + 1 /\ N \in 0 .. N /\ x <= N + 1 /\ N - x + 1 = N - mark
    BY <1>1, <2>1
  <2>3. /\ SubSeq(s, x, N) \in Seq(I) /\ Len(SubSeq(s, x, N)) = N - x + 1
        /\ \A i \in 1 .. N - x + 1 : SubSeq(s, x, N)[i] = s[x + i - 1]
    BY <2>2, Cut
  <2>4. \A i \in 1 .. N - mark : x + i - 1 = mark + i
    BY <1>1, <2>1
  <2> QED
    BY <2>1, <2>2, <2>3, <2>4
<1>4. more = s \/ more = b
  BY DEF Approval!Resumed
<1>5. Approval!Returned = a
  BY DEF Approval!Returned
<1>6. CASE more = b
  <2>1. ~Approval!IsPrefix(a, b)
    <3>1. SUFFICES ASSUME Len(a) <= Len(b), SubSeq(a, 1, Len(a)) = SubSeq(b, 1, Len(a)) PROVE FALSE
      BY DEF Approval!IsPrefix
    <3>2. /\ 1 \in 1 .. Len(a) + 1 /\ 1 \in 1 .. Len(b) + 1 /\ mark \in 0 .. Len(a) /\ mark \in 0 .. Len(b)
          /\ 1 <= mark + 1 /\ 1 \in 1 .. mark - 1 + 1 /\ 1 + 1 - 1 = 1
      BY <1>1, <1>2, <1>3, <3>1
    <3>3. SubSeq(a, 1, mark)[1] = a[1] /\ SubSeq(b, 1, mark)[1] = b[1]
      <4>1. SubSeq(a, 1, mark)[1] = a[1 + 1 - 1]
        BY <1>2, <3>2, Cut
      <4>2. SubSeq(b, 1, mark)[1] = b[1 + 1 - 1]
        BY <1>3, <3>2, Cut
      <4> QED
        BY <3>2, <4>1, <4>2
    <3>4. a[1] = s[1] /\ b[1] = s[mark + 1]
      BY <1>1, <1>2, <1>3
    <3> HIDE DEF a, b
    <3>5. s[1] = s[mark + 1]
      BY <1>2, <3>1, <3>3, <3>4
    <3> QED
      BY <3>5 DEF Resumption
  <2>2. a \o b = s
    <3>1. PICK m, n : m = mark /\ n = N - mark
      OBVIOUS
    <3>2. m = Len(a) /\ n = Len(b) /\ a \in Seq(I) /\ b \in Seq(I) /\ m + n = N
      <4> HIDE DEF a, b
      <4> QED
        BY <1>1, <1>2, <1>3, <3>1
    <3> DEFINE u == a \o b
    <3>3. /\ u \in Seq(I) /\ Len(u) = m + n
          /\ \A i \in 1 .. m : u[i] = a[i]
          /\ \A i \in 1 .. n : u[m + i] = b[i]
      <4> HIDE DEF a, b
      <4> QED
        BY <3>2, Joined
    <3> HIDE DEF u, a, b
    <3>4. ASSUME NEW i \in 1 .. N
          PROVE  u[i] = s[i]
      <4>1. CASE i \in 1 .. mark
        BY <1>2, <3>1, <3>3, <4>1
      <4>2. CASE i \in mark + 1 .. N
        <5>1. i - mark \in 1 .. n /\ m + (i - mark) = i /\ mark + (i - mark) = i
          BY <1>1, <3>1, <4>2
        <5> QED
          BY <1>3, <3>1, <3>3, <5>1
      <4> QED
        BY <1>1, <4>1, <4>2
    <3>5. u = s
      <4>1. Len(u) = Len(s) /\ u \in Seq(I) /\ s \in Seq(I)
        BY <1>1, <3>2, <3>3
      <4> QED
        BY <3>4, <4>1, SeqEqual
    <3> QED
      BY <3>5 DEF u
  <2> QED
    BY <1>5, <1>6, <2>1, <2>2 DEF Approval!MergeRunItems
<1>7. CASE more = s
  <2>1. SubSeq(a, 1, Len(a)) = a
    BY <1>2, SubSeqFull
  <2>2. Approval!IsPrefix(a, s)
    BY <1>1, <1>2, <2>1 DEF Approval!IsPrefix
  <2> QED
    BY <1>5, <1>7, <2>2 DEF Approval!MergeRunItems
<1> QED
  BY <1>4, <1>6, <1>7

\* The items are those there were, and maybe more.
Longer ==
  /\ approvalItems' \in Seq(ApprovalItems) /\ Len(approvalItems) <= Len(approvalItems')
  /\ \A i \in 1 .. Len(approvalItems) : approvalItems'[i] = approvalItems[i]
  /\ policy' = policy

\* What needs an approval where it stands goes on needing it.
LEMMA NeedsStay ==
  ASSUME ApprovalTypes, Longer, NEW i \in 1 .. Len(approvalItems) + 1
  PROVE  Needed(i)' <=> Needed(i)
<1> DEFINE s == approvalItems
           t == approvalItems'
           p == policy
<1>1. PICK M, N, L : M = Len(t) /\ N = Len(s) /\ L = i - 1
  OBVIOUS
<1>2. M \in Nat /\ N \in Nat /\ L \in Nat /\ N <= M /\ L <= N /\ \A j \in 1 .. N : t[j] = s[j]
  BY <1>1, LenProperties DEF ApprovalTypes, Longer
<1>3. Approval!Walk(p, t)[0] = Approval!Walk(p, s)[0]
  BY <1>1, <1>2, Walked
<1> HIDE DEF s, t, p
<1>4. Approval!Walk(p, t)[L] = Approval!Walk(p, s)[L]
  <2>1. PICK a : a = 0
    OBVIOUS
  <2>2. /\ a \in Nat /\ a + L <= M /\ a + L <= N /\ a + L = L
        /\ \A j \in 1 .. L : \/ t[a + j] = s[a + j]
                             \/ t[a + j].kind # "handoff" /\ s[a + j].kind # "handoff"
    BY <1>2, <2>1
  <2>3. Len(t) = M /\ Len(s) = N /\ Approval!Walk(p, t)[a] = Approval!Walk(p, s)[a]
    BY <1>1, <1>3, <2>1
  <2>4. WalkedAlike(p, t, a, s, a, L)
    BY <1>1, <1>2, <2>2, <2>3, WalkAlike
  <2> QED
    BY <2>2, <2>4 DEF WalkedAlike
<1>5. Approval!Walk(p, t)[i - 1] = Approval!Walk(p, s)[i - 1]
  BY <1>1, <1>2, <1>4
<1> USE DEF s, t, p
<1>6. Approval!StateBefore(p, t, i) = Approval!StateBefore(p, s, i)
  BY <1>5 DEF Approval!StateBefore
<1>7. Needed(i)' <=> "target" \in Approval!StateBefore(p, t, i).authority.approval
  BY DEF Needed, Longer
<1> QED
  BY <1>6, <1>7 DEF Needed

\* Nor do calls that ran, were interrupted or went on disappear.
LEMMA CallsStay ==
  ASSUME ApprovalTypes, Longer, intent' = intent, decided' = decided, mark' = mark, ran \subseteq ran'
  PROVE  /\ \A r : Executed(r) => Executed(r)'
         /\ \A c, who : \A n \in 1 .. Len(approvalItems) : Interrupted(c, who, n) => Interrupted(c, who, n)'
         /\ Resumption => Resumption'
<1>1. /\ Len(approvalItems) \in Nat /\ Len(approvalItems') \in Nat
      /\ Len(approvalItems) <= Len(approvalItems')
      /\ \A i \in 1 .. Len(approvalItems) :
           i \in 1 .. Len(approvalItems') /\ approvalItems'[i] = approvalItems[i]
           /\ (Needed(i)' <=> Needed(i))
  <2>1. Len(approvalItems) \in Nat /\ Len(approvalItems') \in Nat
    BY LenProperties DEF ApprovalTypes, Longer
  <2> QED
    BY <2>1, NeedsStay DEF Longer
<1>2. ASSUME NEW r, Executed(r)
      PROVE  Executed(r)'
  <2>1. PICK i, j \in 1 .. Len(approvalItems) :
          /\ i < j /\ j # mark + 1 /\ IsCall(approvalItems[i], "request", r.call)
          /\ approvalItems[i].agent = r.by
          /\ approvalItems[j].kind = "result" /\ approvalItems[j].call = r.call
          /\ r.needed => Needed(i)
    BY <1>2 DEF Executed
  <2>2. /\ i < j /\ j # mark' + 1 /\ IsCall(approvalItems'[i], "request", r.call)
        /\ approvalItems'[i].agent = r.by
        /\ approvalItems'[j].kind = "result" /\ approvalItems'[j].call = r.call
        /\ r.needed => Needed(i)'
    BY <1>1, <2>1
  <2>3. i \in 1 .. Len(approvalItems') /\ j \in 1 .. Len(approvalItems')
    BY <1>1
  <2> QED
    BY <2>2, <2>3 DEF Executed, IsCall
<1>3. ASSUME NEW c, NEW who, NEW n \in 1 .. Len(approvalItems), Interrupted(c, who, n)
      PROVE  Interrupted(c, who, n)'
  <2>1. PICK i, k \in 1 .. n :
          /\ i < k /\ IsCall(approvalItems[i], "request", c) /\ approvalItems[i].agent = who
          /\ IsCall(approvalItems[k], "approval_request", c) /\ approvalItems[k].agent = who
          /\ \A h \in i .. n : approvalItems[h].kind # "handoff"
    BY <1>3 DEF Interrupted
  <2>2. \A h \in 1 .. n : approvalItems'[h] = approvalItems[h]
    BY <1>1
  <2>3. \A h \in i .. n : h \in 1 .. n
    OBVIOUS
  <2> QED
    BY <2>1, <2>2, <2>3 DEF Interrupted, IsCall
<1>4. ASSUME Resumption
      PROVE  Resumption'
  <2>1. /\ mark' + 1 \in 1 .. Len(approvalItems') /\ mark' + 1 = mark + 1
        /\ approvalItems'[mark + 1] = approvalItems[mark + 1] /\ (Needed(mark + 1)' <=> Needed(mark + 1))
    BY <1>1, <1>4 DEF Resumption
  <2>2. Needed(mark + 1)' <=>
          "target" \in Approval!StateBefore(policy', approvalItems', mark' + 1).authority.approval
    BY <2>1 DEF Needed
  <2> QED
    BY <1>4, <2>1, <2>2 DEF Resumption, Needed
<1> QED
  BY <1>2, <1>3, <1>4

\* Steps that end the trial change nothing but the stage and the record.
Ends ==
  /\ stage' \in {stage, "refused", "recorded"}
  /\ UNCHANGED <<policy, intent, active, pending, approvalItems, mark, decided, ran>>
LEMMA EndKeeps ==
  ASSUME ApprovalTypes, ApprovalHolds, Ends
  PROVE  /\ ApprovalTypes' /\ ApprovalHolds'
         /\ Resumption' <=> Resumption
         /\ Approval!Stitchable(approvalItems)' <=> Approval!Stitchable(approvalItems)
         /\ Approval!Stitch(approvalItems)' = Approval!Stitch(approvalItems)
         /\ Approval!Returned' = Approval!Returned
<1>1. (\A r : Executed(r)' <=> Executed(r)) /\ (Resumption' <=> Resumption)
      /\ (\A c, who, n : Interrupted(c, who, n)' <=> Interrupted(c, who, n)) /\ (Waiting' <=> Waiting)
  BY DEF Waiting, Ends, Executed, Resumption, Interrupted, Needed, IsCall
<1>2. ApprovalTypes'
  BY DEF ApprovalTypes, Ends
<1>3. ApprovalHolds'
  BY <1>1 DEF ApprovalHolds, Ends, Mine
<1>4. /\ Approval!Stitchable(approvalItems)' <=> Approval!Stitchable(approvalItems)
      /\ Approval!Stitch(approvalItems)' = Approval!Stitch(approvalItems)
      /\ Approval!Returned' = Approval!Returned
  BY DEF Ends, Approval!Stitchable, Approval!Stitch, Approval!Returned, Approval!Only
<1> QED
  BY <1>1, <1>2, <1>3, <1>4

\* A sequence given position by position.
LEMMA Listed ==
  ASSUME NEW S, NEW n \in Nat, NEW f \in [1 .. n -> S]
  PROVE  f \in Seq(S) /\ Len(f) = n
<1>1. f \in Seq(S)
  BY SeqDef
<1> QED
  BY <1>1, LenProperties

\* A step of a run adds items, and executions without a decision; an interruption ends the run.
Goes ==
  /\ Longer /\ UNCHANGED <<intent, decided, mark>> /\ ran \subseteq ran'
  /\ \A r \in ran' : r \in ran \/ (~r.consent /\ Executed(r)')
  /\ stage \in {"run1", "run2"}
  /\ stage' = stage \/ (stage = "run1" /\ stage' = "paused" /\ Waiting')
                    \/ (stage = "run2" /\ stage' = "resumed")
  /\ 1 <= Len(approvalItems)' => approvalItems'[1].kind # "result"

\* Such a step keeps what holds while the runs go on.
LEMMA GoesOn ==
  ASSUME ApprovalTypes, ApprovalHolds, Goes
  PROVE  ApprovalHolds'
<1>1. /\ \A r : Executed(r) => Executed(r)'
      /\ \A c, who : \A n \in 1 .. Len(approvalItems) : Interrupted(c, who, n) => Interrupted(c, who, n)'
      /\ Resumption => Resumption'
  BY CallsStay DEF Goes
<1>2. /\ Len(approvalItems) \in Nat /\ Len(approvalItems)' \in Nat
      /\ Len(approvalItems) <= Len(approvalItems)'
  BY LenProperties DEF ApprovalTypes, Goes, Longer
<1>3. /\ stage' # "resume" /\ (stage' = "run2" => stage = "run2") /\ (stage' = "resumed" => stage = "run2")
      /\ (stage' \in {"run1", "paused"} => stage = "run1")
      /\ (stage' = "paused" => Waiting')
      /\ intent' = intent /\ decided' = decided /\ mark' = mark
  BY DEF Goes
<1>4. ASSUME NEW r \in ran'
      PROVE  IF r.consent
               THEN /\ intent'.decision = "approve" /\ decided' # 0 /\ r.call = decided' /\ stage' # "resume"
                    /\ \A q \in ran' : q.consent => q = r
               ELSE Executed(r)'
  <2>1. CASE r.consent
    <3>1. r \in ran
      BY <2>1 DEF Goes
    <3>2. /\ intent.decision = "approve" /\ decided # 0 /\ r.call = decided
          /\ \A q \in ran : q.consent => q = r
      BY <2>1, <3>1 DEF ApprovalHolds
    <3>3. \A q \in ran' : q.consent => q \in ran
      BY DEF Goes
    <3> QED
      BY <1>3, <2>1, <3>2, <3>3
  <2>2. CASE ~r.consent
    <3>1. r \in ran => Executed(r)
      BY <2>2 DEF ApprovalHolds
    <3>2. r \in ran \/ Executed(r)'
      BY DEF Goes
    <3> QED
      BY <1>1, <2>2, <3>1, <3>2
  <2> QED
    BY <2>1, <2>2
<1>5. IF decided' = 0 THEN mark' = 0
      ELSE mark' \in 1 .. Len(approvalItems)' /\ Interrupted(decided, intent.agent, mark)'
  <2>1. CASE decided = 0
    BY <1>3, <2>1 DEF ApprovalHolds
  <2>2. CASE decided # 0
    <3>1. mark \in 1 .. Len(approvalItems) /\ Interrupted(decided, intent.agent, mark)
      BY <2>2 DEF ApprovalHolds
    <3>2. Interrupted(decided, intent.agent, mark)'
      BY <1>1, <1>3, <3>1
    <3> QED
      BY <1>2, <1>3, <2>2, <3>1, <3>2
  <2> QED
    BY <2>1, <2>2
<1>6. /\ stage' = "run2" => decided' # 0 /\ Resumption'
      /\ stage' = "resumed" => decided' # 0 /\ Resumption'
      /\ stage' \in {"run1", "paused"} => decided' = 0
  BY <1>1, <1>3 DEF ApprovalHolds
<1>7. 1 <= Len(approvalItems)' => approvalItems'[1].kind # "result"
  BY DEF Goes
<1> QED
  BY <1>3, <1>4, <1>5, <1>6, <1>7 DEF ApprovalHolds

\* A turn: after the items so far, the calls that an agent makes, and what becomes of each.
Turned(n, f, g) ==
  /\ f \in [1 .. n -> ApprovalItems] /\ g \in [1 .. n -> ApprovalItems]
  /\ approvalItems' = approvalItems \o f \o g
  /\ \A i \in 1 .. n : f[i].kind = "request" /\ g[i].kind \in {"approval_request", "result"}

TurnAdded(n, f, g, N) ==
  /\ Longer /\ N \in Nat /\ Len(approvalItems') = N + n + n
  /\ \A i \in 1 .. n : approvalItems'[N + i] = f[i] /\ approvalItems'[N + n + i] = g[i]
  /\ \A h \in N + 1 .. N + n + n : approvalItems'[h].kind \in {"request", "approval_request", "result"}
LEMMA TurnAdds ==
  ASSUME ApprovalTypes, NEW n \in {1, 2}, NEW f, NEW g, Turned(n, f, g), policy' = policy
  PROVE  TurnAdded(n, f, g, Len(approvalItems))
<1>0. PICK N : N = Len(approvalItems)
  OBVIOUS
<1> DEFINE I == ApprovalItems
           s == approvalItems
           u == s \o f
           t == u \o g
<1>1. /\ s \in Seq(I) /\ f \in Seq(I) /\ g \in Seq(I) /\ Len(f) = n /\ Len(g) = n /\ n \in Nat
      /\ N = Len(s) /\ approvalItems' = t /\ s = approvalItems
  <2>1. f \in [1 .. n -> I] /\ g \in [1 .. n -> I] /\ n \in Nat
    BY DEF Turned
  <2>2. f \in Seq(I) /\ Len(f) = n
    <3> HIDE DEF I
    <3> QED
      BY <2>1, Listed
  <2>3. g \in Seq(I) /\ Len(g) = n
    <3> HIDE DEF I
    <3> QED
      BY <2>1, Listed
  <2> QED
    BY <1>0, <2>1, <2>2, <2>3 DEF ApprovalTypes, Turned
<1> HIDE DEF I, s
<1>2. /\ u \in Seq(I) /\ Len(u) = N + n /\ N \in Nat
      /\ \A i \in 1 .. N : u[i] = s[i]
      /\ \A i \in 1 .. n : u[N + i] = f[i]
  BY <1>1, Joined
<1>3. PICK M : M = N + n
  OBVIOUS
<1> HIDE DEF u
<1>4. /\ t \in Seq(I) /\ Len(t) = M + n /\ M \in Nat
      /\ \A i \in 1 .. M : t[i] = u[i]
      /\ \A i \in 1 .. n : t[M + i] = g[i]
  <2>1. u \in Seq(I) /\ g \in Seq(I) /\ M = Len(u) /\ n = Len(g)
    BY <1>1, <1>2, <1>3
  <2> QED
    BY <2>1, Joined
<1> HIDE DEF t
<1>5. \A i \in 1 .. N : t[i] = s[i]
  BY <1>1, <1>2, <1>3, <1>4
<1>6. \A i \in 1 .. n : t[N + i] = f[i] /\ t[N + n + i] = g[i]
  <2> TAKE i \in 1 .. n
  <2>1. N + i \in 1 .. M
    BY <1>1, <1>2, <1>3
  <2> QED
    BY <1>2, <1>3, <1>4, <2>1
<1>7. \A h \in N + 1 .. N + n + n : t[h].kind \in {"request", "approval_request", "result"}
  <2> TAKE h \in N + 1 .. N + n + n
  <2>1. CASE h <= N + n
    <3>1. h - N \in 1 .. n /\ N + (h - N) = h
      BY <1>1, <1>2, <2>1
    <3> QED
      BY <1>6, <3>1 DEF Turned
  <2>2. CASE h > N + n
    <3>1. h - N - n \in 1 .. n /\ N + n + (h - N - n) = h
      BY <1>1, <1>2, <2>2
    <3> QED
      BY <1>6, <3>1 DEF Turned
  <2> QED
    BY <1>1, <1>2, <2>1, <2>2
<1>8. Longer
  BY <1>1, <1>2, <1>3, <1>4, <1>5 DEF Longer, I, s
<1>9. Len(approvalItems') = N + n + n
  BY <1>1, <1>3, <1>4
<1> QED
  BY <1>0, <1>1, <1>2, <1>6, <1>7, <1>8, <1>9 DEF TurnAdded

\* Where nobody hands over, what is needed stays the same.
LEMMA NeedStands ==
  ASSUME NEW p, NEW s, Len(s) \in Nat, NEW i \in Nat, NEW k \in Nat, 1 <= i, i <= k, k <= Len(s) + 1,
         \A h \in i .. k - 1 : s[h].kind # "handoff"
  PROVE  Approval!StateBefore(p, s, k) = Approval!StateBefore(p, s, i)
<1>1. PICK a, b : a = i - 1 /\ b = k - 1
  OBVIOUS
<1>2. a \in 0 .. Len(s) /\ b \in a .. Len(s)
  BY <1>1
<1>3. \A h \in a + 1 .. b : s[h].kind # "handoff"
  BY <1>1
<1>4. Approval!Walk(p, s)[a] = Approval!Walk(p, s)[b]
  BY <1>2, <1>3, StandsStill
<1> QED
  BY <1>1, <1>4 DEF Approval!StateBefore

\* Calls are numbered.
LEMMA RequestedIsNumber ==
  ASSUME ApprovalTypes
  PROVE  Approval!Requested \in Nat
<1> DEFINE S == {i \in 1 .. Len(approvalItems) : approvalItems[i].kind = "request"}
<1>1. Approval!Requested = Cardinality(S)
  BY DEF Approval!Requested, Approval!Cardinality, Cardinality
<1>2. Len(approvalItems) \in Nat /\ S \subseteq 1 .. Len(approvalItems)
  BY LenProperties DEF ApprovalTypes
<1> HIDE DEF S
<1>3. IsFiniteSet(1 .. Len(approvalItems))
  BY <1>2, FS_Interval
<1>4. Cardinality(S) \in Nat
  BY <1>2, <1>3, FS_Subset, FS_CardinalityType
<1> QED
  BY <1>1, <1>4

\* What a call that runs without a decision needs is what its place needs.
LEMMA RanRecords ==
  ASSUME NEW t, NEW id
  PROVE  Approval!Ran(t, id, FALSE) =
           IF t # "target" THEN {}
           ELSE {[call |-> id, by |-> active, consent |-> FALSE, needed |-> Needed(Len(approvalItems) + 1)]}
BY DEF Approval!Ran, Needed

MadeItem(x, k, t, id) ==
  /\ x \in ApprovalItems /\ x.kind = k /\ x.tool = t /\ x.call = id /\ x.agent = active
  /\ \A to \in {"root", "helper"} :
       [x EXCEPT !.to = to] \in ApprovalItems /\ [x EXCEPT !.to = to].kind = k
LEMMA Itemized ==
  ASSUME ApprovalTypes, NEW k \in {"request", "approval_request", "result", "handoff"},
         NEW t \in {"target", "free", "none"}, NEW id \in Nat
  PROVE  MadeItem(Approval!Item(k, t, id), k, t, id)
BY DEF ApprovalTypes, ApprovalItems, Approval!Item, Approval!NoEvent, MadeItem

\* A turn: calls that run have their request and result, calls that are held their interruption.
LEMMA TurnIsTaken ==
  ASSUME ApprovalTypes, ApprovalHolds, Approval!TakeTurn
  PROVE  ApprovalTypes' /\ ApprovalHolds' /\ stage' # "recorded"
<1>1. PICK n \in 1 .. 2, again \in BOOLEAN :
        \E ts \in [1 .. n -> Approval!Tools], guard \in [1 .. n -> BOOLEAN] :
        LET id(i) == IF again THEN 1 ELSE Approval!Requested + i
            held(i) == ts[i] = "target" /\ guard[i]
        IN /\ Approval!Requested + n <= ApprovalCalls
           /\ approvalItems' = approvalItems
                \o [i \in 1 .. n |-> Approval!Item("request", ts[i], id(i))]
                \o [i \in 1 .. n |->
                      Approval!Item(IF held(i) THEN "approval_request" ELSE "result", ts[i], id(i))]
           /\ ran' = ran \cup UNION {IF held(i) THEN {} ELSE Approval!Ran(ts[i], id(i), FALSE) : i \in 1 .. n}
           /\ pending' = {[agent |-> active, call |-> id(i)] : i \in {j \in 1 .. n : held(j)}}
  BY DEF Approval!TakeTurn
<1>2. PICK ts \in [1 .. n -> Approval!Tools], guard \in [1 .. n -> BOOLEAN] :
        LET id(i) == IF again THEN 1 ELSE Approval!Requested + i
            held(i) == ts[i] = "target" /\ guard[i]
        IN /\ Approval!Requested + n <= ApprovalCalls
           /\ approvalItems' = approvalItems
                \o [i \in 1 .. n |-> Approval!Item("request", ts[i], id(i))]
                \o [i \in 1 .. n |->
                      Approval!Item(IF held(i) THEN "approval_request" ELSE "result", ts[i], id(i))]
           /\ ran' = ran \cup UNION {IF held(i) THEN {} ELSE Approval!Ran(ts[i], id(i), FALSE) : i \in 1 .. n}
           /\ pending' = {[agent |-> active, call |-> id(i)] : i \in {j \in 1 .. n : held(j)}}
  BY <1>1
<1> DEFINE id(i) == IF again THEN 1 ELSE Approval!Requested + i
           held(i) == ts[i] = "target" /\ guard[i]
           f == [i \in 1 .. n |-> Approval!Item("request", ts[i], id(i))]
           g == [i \in 1 .. n |->
                   Approval!Item(IF held(i) THEN "approval_request" ELSE "result", ts[i], id(i))]
<1>3. /\ approvalItems' = approvalItems \o f \o g
      /\ ran' = ran \cup UNION {IF held(i) THEN {} ELSE Approval!Ran(ts[i], id(i), FALSE) : i \in 1 .. n}
      /\ pending' = {[agent |-> active, call |-> id(i)] : i \in {j \in 1 .. n : held(j)}}
  BY <1>2
<1>4. /\ stage \in {"run1", "run2"} /\ UNCHANGED <<policy, intent, active, mark, decided, events>>
      /\ stage' = IF pending' = {} THEN stage ELSE IF stage = "run1" THEN "paused" ELSE "resumed"
  BY DEF Approval!TakeTurn, Approval!Running, Approval!Pause
<1>5. ASSUME NEW i \in 1 .. n
      PROVE  id(i) \in Nat /\ id(i) # 0 /\ ts[i] \in {"target", "free"} /\ i \in Nat /\ i # 0
  BY RequestedIsNumber, <1>5 DEF Approval!Tools
<1> HIDE DEF id
<1>6. ASSUME NEW i \in 1 .. n
      PROVE  /\ f[i] \in ApprovalItems /\ g[i] \in ApprovalItems
             /\ f[i].kind = "request" /\ f[i].tool = ts[i] /\ f[i].call = id(i) /\ f[i].agent = active
             /\ g[i].kind = (IF held(i) THEN "approval_request" ELSE "result")
             /\ g[i].tool = ts[i] /\ g[i].call = id(i) /\ g[i].agent = active
  <2>1. PICK k, q, t, c : /\ k = (IF held(i) THEN "approval_request" ELSE "result") /\ q = "request"
                          /\ t = ts[i] /\ c = id(i)
    OBVIOUS
  <2>2. f[i] = Approval!Item(q, t, c) /\ g[i] = Approval!Item(k, t, c)
    BY <2>1
  <2> HIDE DEF f, g
  <2>3. /\ k \in {"request", "approval_request", "result", "handoff"}
        /\ q \in {"request", "approval_request", "result", "handoff"}
        /\ t \in {"target", "free", "none"} /\ c \in Nat
    BY <1>5, <2>1
  <2>4. /\ f[i] \in ApprovalItems /\ g[i] \in ApprovalItems
        /\ f[i].kind = q /\ f[i].tool = t /\ f[i].call = c /\ f[i].agent = active
        /\ g[i].kind = k /\ g[i].tool = t /\ g[i].call = c /\ g[i].agent = active
    <3>1. MadeItem(Approval!Item(q, t, c), q, t, c) /\ MadeItem(Approval!Item(k, t, c), k, t, c)
      BY <2>3, Itemized
    <3> HIDE DEF held
    <3> QED
      BY <2>2, <3>1 DEF MadeItem
  <2> QED
    BY <2>1, <2>4
<1>7. Turned(n, f, g)
  <2>1. f \in [1 .. n -> ApprovalItems] /\ g \in [1 .. n -> ApprovalItems]
    BY <1>6
  <2>2. \A i \in 1 .. n : f[i].kind = "request" /\ g[i].kind \in {"approval_request", "result"}
    BY <1>6
  <2> HIDE DEF f, g
  <2> QED
    BY <1>3, <2>1, <2>2 DEF Turned
<1> HIDE DEF f, g
<1>8. PICK N : N = Len(approvalItems)
  OBVIOUS
<1>9. /\ Longer /\ N \in Nat /\ Len(approvalItems') = N + n + n
      /\ \A i \in 1 .. n : approvalItems'[N + i] = f[i] /\ approvalItems'[N + n + i] = g[i]
      /\ \A h \in N + 1 .. N + n + n : approvalItems'[h].kind \in {"request", "approval_request", "result"}
  <2>1. TurnAdded(n, f, g, N)
    <3>1. n \in {1, 2} /\ policy' = policy
      BY <1>4
    <3> QED
      BY <1>7, <1>8, <3>1, TurnAdds
  <2> QED
    BY <2>1 DEF TurnAdded
<1>10. ASSUME NEW i \in 1 .. n
       PROVE  /\ N + i \in 1 .. Len(approvalItems') /\ N + n + i \in 1 .. Len(approvalItems')
              /\ N + i < N + n + i /\ N + i \in N + 1 .. N + n + n /\ N + i - 1 \in N .. N + n + n
  BY <1>5, <1>9
<1>11. ApprovalTypes'
  <2>1. pending' \subseteq Asks
    BY <1>3, <1>5 DEF Asks, ApprovalTypes
  <2>2. stage' \in {"run1", "paused", "run2", "resumed"}
    BY <1>4
  <2> QED
    BY <1>4, <1>9, <2>1, <2>2 DEF ApprovalTypes, Longer
<1>12. ASSUME NEW r \in ran', r \notin ran
       PROVE  ~r.consent /\ Executed(r)'
  <2>1. PICK i \in 1 .. n : ~held(i) /\ r \in Approval!Ran(ts[i], id(i), FALSE)
    BY <1>3, <1>12
  <2>2. /\ ts[i] = "target"
        /\ r = [call |-> id(i), by |-> active, consent |-> FALSE, needed |-> Needed(Len(approvalItems) + 1)]
    BY <2>1, RanRecords
  <2>3. /\ IsCall(approvalItems[N + i], "request", r.call)' /\ approvalItems'[N + i].agent = r.by
        /\ approvalItems'[N + n + i].kind = "result" /\ approvalItems'[N + n + i].call = r.call
    <3>1. approvalItems'[N + i] = f[i] /\ approvalItems'[N + n + i] = g[i]
      BY <1>9
    <3>2. /\ f[i].kind = "request" /\ f[i].tool = "target" /\ f[i].call = r.call /\ f[i].agent = r.by
          /\ g[i].kind = "result" /\ g[i].call = r.call
      BY <1>6, <2>1, <2>2
    <3> QED
      BY <3>1, <3>2 DEF IsCall
  <2>4. N + n + i # mark' + 1
    <3>1. mark' = mark /\ mark \in Nat /\ (mark = 0 \/ mark + 1 \in 1 .. N)
      BY <1>4, <1>8 DEF ApprovalHolds, ApprovalTypes, Resumption
    <3> QED
      BY <1>5, <1>9, <3>1
  <2>5. r.needed => Needed(N + i)'
    <3>1. Needed(N + 1)' <=> Needed(N + 1)
      BY <1>8, <1>9, NeedsStay
    <3>2. Needed(N + i)' <=> Needed(N + 1)'
      <4>1. PICK p, s, x, y : p = policy' /\ s = approvalItems' /\ x = N + 1 /\ y = N + i
        OBVIOUS
      <4>2. /\ Len(s) \in Nat /\ x \in Nat /\ y \in Nat /\ 1 <= x /\ x <= y /\ y <= Len(s) + 1
            /\ \A h \in x .. y - 1 : h \in N + 1 .. N + n + n
        BY <1>5, <1>9, <4>1
      <4>3. \A h \in x .. y - 1 : s[h].kind # "handoff"
        BY <1>9, <4>1, <4>2
      <4>4. Approval!StateBefore(p, s, y) = Approval!StateBefore(p, s, x)
        BY <4>2, <4>3, NeedStands
      <4> QED
        BY <4>1, <4>4 DEF Needed
    <3> QED
      BY <1>8, <2>2, <3>1, <3>2
  <2>6. ~r.consent
    BY <2>2
  <2> QED
    BY <1>10, <2>3, <2>4, <2>5, <2>6 DEF Executed, IsCall
<1>13. Waiting'
  <2>1. ASSUME NEW a \in pending'
        PROVE  a.call # 0 /\ Interrupted(a.call, a.agent, Len(approvalItems))'
    <3>1. PICK i \in 1 .. n : held(i) /\ a = [agent |-> active, call |-> id(i)]
      BY <1>3
    <3>2. a.call # 0 /\ a.call = id(i) /\ a.agent = active /\ ts[i] = "target"
      BY <1>5, <3>1
    <3>3. approvalItems'[N + i] = f[i] /\ approvalItems'[N + n + i] = g[i]
      BY <1>9
    <3>4. /\ IsCall(approvalItems'[N + i], "request", a.call) /\ approvalItems'[N + i].agent = a.agent
          /\ IsCall(approvalItems'[N + n + i], "approval_request", a.call)
          /\ approvalItems'[N + n + i].agent = a.agent
      BY <1>6, <3>1, <3>2, <3>3 DEF IsCall
    <3>5. \A h \in N + i .. Len(approvalItems') : approvalItems'[h].kind # "handoff"
      <4>1. \A h \in N + i .. Len(approvalItems') : h \in N + 1 .. N + n + n
        BY <1>5, <1>9
      <4> QED
        BY <1>9, <4>1
    <3> QED
      BY <1>10, <3>2, <3>4, <3>5 DEF Interrupted, IsCall
  <2> QED
    BY <2>1 DEF Waiting
<1>14. 1 <= Len(approvalItems') => approvalItems'[1].kind # "result"
  <2>1. CASE N = 0
    <3>1. 1 \in 1 .. n /\ N + 1 = 1
      BY <2>1
    <3> QED
      BY <1>6, <1>9, <3>1
  <2>2. CASE N # 0
    BY <1>8, <1>9, <2>2 DEF Longer, ApprovalHolds
  <2> QED
    BY <2>1, <2>2
<1>15. Goes
  <2>1. ran \subseteq ran'
    BY <1>3
  <2> QED
    BY <1>4, <1>9, <1>12, <1>13, <1>14, <2>1 DEF Goes
<1>16. stage' # "recorded"
  BY <1>4
<1> QED
  BY <1>11, <1>15, <1>16, GoesOn

\* One item more.
LEMMA ItemAdds ==
  ASSUME ApprovalTypes, NEW x \in ApprovalItems, approvalItems' = Append(approvalItems, x), policy' = policy
  PROVE  /\ Longer /\ Len(approvalItems) \in Nat /\ Len(approvalItems') = Len(approvalItems) + 1
         /\ approvalItems'[Len(approvalItems) + 1] = x
<1>1. approvalItems \in Seq(ApprovalItems)
  BY DEF ApprovalTypes
<1>2. /\ Append(approvalItems, x) \in Seq(ApprovalItems)
      /\ Len(Append(approvalItems, x)) = Len(approvalItems) + 1 /\ Len(approvalItems) \in Nat
      /\ \A i \in 1 .. Len(approvalItems) : Append(approvalItems, x)[i] = approvalItems[i]
      /\ Append(approvalItems, x)[Len(approvalItems) + 1] = x
  BY <1>1, Appended
<1> QED
  BY <1>2 DEF Longer

\* Handing over adds an item and changes the active agent.
LEMMA HandedOver ==
  ASSUME ApprovalTypes, ApprovalHolds, Approval!HandOver
  PROVE  ApprovalTypes' /\ ApprovalHolds' /\ stage' # "recorded"
<1>1. PICK to \in Approval!Agents \ {active} :
        /\ approvalItems' = Append(approvalItems, [Approval!Item("handoff", "none", 0) EXCEPT !.to = to])
        /\ active' = to
  BY DEF Approval!HandOver
<1>2. /\ stage \in {"run1", "run2"}
      /\ UNCHANGED <<policy, intent, stage, pending, mark, decided, ran, events>>
  BY DEF Approval!HandOver, Approval!Running
<1>3. PICK x : x = [Approval!Item("handoff", "none", 0) EXCEPT !.to = to]
  OBVIOUS
<1>4. x \in ApprovalItems /\ x.kind = "handoff" /\ to \in {"root", "helper"}
  <2>1. to \in {"root", "helper"}
    BY DEF Approval!Agents
  <2>2. MadeItem(Approval!Item("handoff", "none", 0), "handoff", "none", 0)
    BY Itemized
  <2> QED
    BY <1>3, <2>1, <2>2 DEF MadeItem
<1>5. /\ Longer /\ Len(approvalItems) \in Nat /\ Len(approvalItems') = Len(approvalItems) + 1
      /\ approvalItems'[Len(approvalItems) + 1] = x
  <2>1. approvalItems' = Append(approvalItems, x) /\ policy' = policy
    BY <1>1, <1>2, <1>3
  <2> QED
    BY <1>4, <2>1, ItemAdds
<1>6. ApprovalTypes'
  BY <1>1, <1>2, <1>4, <1>5 DEF ApprovalTypes, Longer
<1>7. approvalItems'[1].kind # "result"
  <2>1. CASE Len(approvalItems) = 0
    BY <1>4, <1>5, <2>1
  <2>2. CASE Len(approvalItems) # 0
    BY <1>5, <2>2 DEF Longer, ApprovalHolds
  <2> QED
    BY <2>1, <2>2
<1>8. Goes
  BY <1>2, <1>5, <1>7 DEF Goes
<1> QED
  BY <1>2, <1>6, <1>8, GoesOn

\* The decision is applied: the call's result is the next item, and what ran with consent is this call.
LEMMA RunResumes ==
  ASSUME ApprovalTypes, ApprovalHolds, Approval!ResumeRun
  PROVE  ApprovalTypes' /\ ApprovalHolds' /\ stage' # "recorded"
<1>1. /\ stage = "resume" /\ stage' \in {"run2", "resumed"}
      /\ approvalItems' = Append(approvalItems, Approval!Item("result", "target", decided))
      /\ pending' = pending \ {Mine}
      /\ ran' = ran \cup (IF intent.decision = "approve" THEN Approval!Ran("target", decided, TRUE) ELSE {})
      /\ UNCHANGED <<policy, intent, active, mark, decided, events>>
  BY DEF Approval!ResumeRun, Mine
<1>2. decided # 0 /\ decided \in Nat /\ mark = Len(approvalItems) /\ mark \in 1 .. Len(approvalItems)
      /\ Interrupted(decided, intent.agent, mark)
  BY <1>1 DEF ApprovalHolds, ApprovalTypes
<1>3. PICK x : x = Approval!Item("result", "target", decided)
  OBVIOUS
<1>4. x \in ApprovalItems /\ x.kind = "result" /\ x.call = decided
  <2>1. MadeItem(x, "result", "target", decided)
    BY <1>2, <1>3, Itemized
  <2> QED
    BY <2>1 DEF MadeItem
<1>5. /\ Longer /\ Len(approvalItems) \in Nat /\ Len(approvalItems') = Len(approvalItems) + 1
      /\ approvalItems'[Len(approvalItems) + 1] = x
  <2>1. approvalItems' = Append(approvalItems, x) /\ policy' = policy
    BY <1>1, <1>3
  <2> QED
    BY <1>4, <2>1, ItemAdds
<1>6. ApprovalTypes'
  BY <1>1, <1>5 DEF ApprovalTypes, Longer
<1>7. /\ \A r : Executed(r) => Executed(r)'
      /\ \A c, who : \A n \in 1 .. Len(approvalItems) : Interrupted(c, who, n) => Interrupted(c, who, n)'
  <2>1. ran \subseteq ran' /\ intent' = intent /\ decided' = decided /\ mark' = mark
    BY <1>1
  <2> QED
    BY <1>5, <2>1, CallsStay
<1>8. ASSUME NEW r \in ran
      PROVE  ~r.consent /\ Executed(r)'
  BY <1>1, <1>7 DEF ApprovalHolds
<1>9. PICK own : own = [call |-> decided, by |-> active, consent |-> TRUE,
                        needed |-> Needed(Len(approvalItems) + 1)]
  OBVIOUS
<1>10. ran' = ran \cup (IF intent.decision = "approve" THEN {own} ELSE {})
  <2>1. Approval!Ran("target", decided, TRUE) = {own}
    BY <1>9 DEF Approval!Ran, Needed
  <2> QED
    BY <1>1, <2>1
<1>11. own.consent /\ own.call = decided /\ (own.needed <=> Needed(Len(approvalItems) + 1))
  BY <1>9
<1>12. ASSUME NEW r \in ran'
       PROVE  IF r.consent
                THEN /\ intent'.decision = "approve" /\ decided' # 0 /\ r.call = decided' /\ stage' # "resume"
                     /\ \A q \in ran' : q.consent => q = r
                ELSE Executed(r)'
  <2>1. CASE r \in ran
    BY <1>8, <2>1
  <2>2. CASE r \notin ran
    <3>1. r = own /\ intent.decision = "approve"
      BY <1>10, <2>2
    <3>2. \A q \in ran' : q.consent => q = r
      BY <1>8, <1>10, <3>1
    <3> QED
      BY <1>1, <1>2, <1>11, <3>1, <3>2
  <2> QED
    BY <2>1, <2>2
<1>13. Resumption'
  <2>1. /\ mark' + 1 = Len(approvalItems) + 1 /\ mark' + 1 \in 1 .. Len(approvalItems')
        /\ approvalItems'[mark' + 1].kind = "result" /\ approvalItems'[mark' + 1].call = decided'
    BY <1>1, <1>2, <1>4, <1>5
  <2>2. Needed(mark + 1)' <=> Needed(Len(approvalItems) + 1)
    <3>1. PICK k : k = Len(approvalItems) + 1
      OBVIOUS
    <3>2. k \in 1 .. Len(approvalItems) + 1
      BY <1>5, <3>1
    <3>3. Needed(k)' <=> Needed(k)
      BY <1>5, <3>2, NeedsStay
    <3>4. Needed(mark + 1)' <=> Needed(k)'
      BY <1>1, <1>2, <3>1 DEF Needed
    <3> QED
      BY <3>1, <3>3, <3>4
  <2>3. intent'.decision = "approve" =>
          \E r \in ran' : r.consent /\ r.call = decided' /\ (Needed(mark + 1)' => r.needed)
    BY <1>1, <1>10, <1>11, <2>2
  <2> QED
    BY <2>1, <2>3 DEF Resumption
<1>14. mark' \in 1 .. Len(approvalItems') /\ Interrupted(decided, intent.agent, mark)'
  <2>1. Interrupted(decided, intent.agent, mark)'
    BY <1>1, <1>2, <1>7
  <2> QED
    BY <1>1, <1>2, <1>5, <2>1
<1>15. approvalItems'[1].kind # "result"
  BY <1>2, <1>5 DEF Longer, ApprovalHolds
<1> QED
  BY <1>1, <1>2, <1>6, <1>12, <1>13, <1>14, <1>15 DEF ApprovalHolds

\* A lost decision leaves the call waiting.
LEMMA DecisionIsLost ==
  ASSUME ApprovalTypes, ApprovalHolds, Approval!DecisionLost
  PROVE  ApprovalTypes' /\ ApprovalHolds' /\ stage' # "recorded"
<1>1. /\ stage = "resume" /\ stage' = "resumed"
      /\ UNCHANGED <<policy, intent, active, pending, approvalItems, mark, decided, ran>>
  BY DEF Approval!DecisionLost
<1>2. ApprovalTypes'
  BY <1>1 DEF ApprovalTypes
<1>3. /\ \A r : Executed(r) => Executed(r)'
      /\ \A c, who : \A n \in 1 .. Len(approvalItems) : Interrupted(c, who, n) => Interrupted(c, who, n)'
  <2>1. Longer /\ ran \subseteq ran'
    BY <1>1, LenProperties DEF Longer, ApprovalTypes
  <2> QED
    BY <1>1, <2>1, CallsStay
<1>4. \A r \in ran : ~r.consent /\ Executed(r)'
  BY <1>1, <1>3 DEF ApprovalHolds
<1>5. decided # 0 /\ mark \in 1 .. Len(approvalItems) /\ Interrupted(decided, intent.agent, mark)'
      /\ Mine \in pending
  BY <1>1, <1>3 DEF ApprovalHolds
<1>6. Mine' \in pending'
  BY <1>1, <1>5 DEF Mine
<1>7. 1 <= Len(approvalItems') => approvalItems'[1].kind # "result"
  BY <1>1 DEF ApprovalHolds
<1>8. mark' \in 1 .. Len(approvalItems') /\ decided' # 0 /\ \A r \in ran' : ~r.consent /\ Executed(r)'
  BY <1>1, <1>4, <1>5
<1> QED
  BY <1>1, <1>2, <1>5, <1>6, <1>7, <1>8 DEF ApprovalHolds

\* The decision is about the one call that was interrupted.
LEMMA Decides ==
  ASSUME ApprovalTypes, ApprovalHolds, Approval!Decide
  PROVE  ApprovalTypes' /\ ApprovalHolds' /\ stage' # "recorded"
<1>1. PICK q \in Approval!Matching : decided' = q.call
  BY DEF Approval!Decide
<1>2. /\ stage = "paused" /\ stage' = "resume" /\ mark' = Len(approvalItems)
      /\ UNCHANGED <<policy, intent, active, pending, approvalItems, ran, events>>
  BY DEF Approval!Decide
<1>3. q \in pending /\ q.agent = intent.agent /\ q \in Asks
  BY DEF Approval!Matching, ApprovalTypes
<1>4. /\ decided = 0 /\ mark = 0 /\ Waiting
      /\ \A r \in ran : ~r.consent /\ Executed(r)
  BY <1>2 DEF ApprovalHolds
<1>5. q.call # 0 /\ q.call \in Nat /\ Interrupted(q.call, intent.agent, Len(approvalItems))
  BY <1>3, <1>4 DEF Waiting, Asks
<1>6. Len(approvalItems) \in Nat /\ Len(approvalItems) \in 1 .. Len(approvalItems)
  <2>1. Len(approvalItems) \in Nat
    BY LenProperties DEF ApprovalTypes
  <2>2. PICK i \in 1 .. Len(approvalItems) : TRUE
    BY <1>5 DEF Interrupted
  <2> QED
    BY <2>1, <2>2
<1>7. ApprovalTypes'
  BY <1>1, <1>2, <1>5, <1>6 DEF ApprovalTypes
<1>8. ASSUME NEW r \in ran'
      PROVE  ~r.consent /\ Executed(r)'
  <2>1. r \in ran /\ ~r.consent /\ Executed(r)
    BY <1>2, <1>4
  <2>2. PICK i, j \in 1 .. Len(approvalItems) :
          /\ i < j /\ IsCall(approvalItems[i], "request", r.call)
          /\ approvalItems[i].agent = r.by
          /\ approvalItems[j].kind = "result" /\ approvalItems[j].call = r.call
          /\ r.needed => Needed(i)
    BY <2>1 DEF Executed
  <2>3. j # mark' + 1 /\ (Needed(i)' <=> Needed(i))
    BY <1>2, <1>6 DEF Needed
  <2> QED
    BY <1>2, <2>1, <2>2, <2>3 DEF Executed, IsCall
<1>9. decided' # 0 /\ mark' \in 1 .. Len(approvalItems') /\ mark' = Len(approvalItems')
  BY <1>1, <1>2, <1>5, <1>6
<1>10. Interrupted(decided, intent.agent, mark)'
  BY <1>1, <1>2, <1>5 DEF Interrupted, IsCall
<1>11. Mine' \in pending'
  <2>1. q = [agent |-> intent.agent, call |-> q.call]
    BY <1>3 DEF Asks
  <2> QED
    BY <1>1, <1>2, <1>3, <2>1 DEF Mine
<1>12. 1 <= Len(approvalItems') => approvalItems'[1].kind # "result"
  BY <1>2 DEF ApprovalHolds
<1> QED
  BY <1>2, <1>7, <1>8, <1>9, <1>10, <1>11, <1>12 DEF ApprovalHolds

\* What a resumed run returned is made one record, or refused.
LEMMA OneRecord ==
  ASSUME ApprovalTypes, ApprovalHolds, decided # 0, Resumption, NEW more \in Approval!Resumed
  PROVE  Approval!MergeRunItems(Approval!Returned, more) = approvalItems
<1>1. mark \in 1 .. Len(approvalItems) /\ approvalItems[1].kind # "result"
  <2>1. mark \in 1 .. Len(approvalItems)
    BY DEF ApprovalHolds
  <2>2. 1 <= Len(approvalItems)
    BY <2>1, LenProperties DEF ApprovalTypes
  <2> QED
    BY <2>1, <2>2 DEF ApprovalHolds
<1> QED
  BY <1>1, Merged

\* A trial that ends with its first run has no decision.
LEMMA FirstRunEnds ==
  ASSUME ApprovalTypes, ApprovalHolds,
         Approval!NoInterruption \/ Approval!Ambiguous \/ Approval!InitialTurnsExhausted
  PROVE  ApprovalTypes' /\ ApprovalHolds' /\ Recorded'
<1>1. /\ stage \in {"run1", "paused"} /\ stage' \in {"refused", "recorded"}
      /\ UNCHANGED <<policy, intent, active, pending, approvalItems, mark, decided, ran>>
  BY DEF Approval!NoInterruption, Approval!Ambiguous, Approval!InitialTurnsExhausted, Approval!Refused,
     Approval!Normalized, Approval!Record
<1>2. Ends
  BY <1>1 DEF Ends
<1>3. decided = 0 /\ decided' = 0 /\ approvalItems \in Seq(ApprovalItems)
  BY <1>1 DEF ApprovalHolds, ApprovalTypes
<1>4. ASSUME stage' = "recorded", Approval!NoInterruption
      PROVE  Unasked'
  <2>1. events' = Append(approvalItems, Approval!Output) \/ events' = approvalItems
    BY <1>4 DEF Approval!NoInterruption, Approval!Normalized, Approval!Record, Approval!Refused
  <2>2. /\ Append(approvalItems, Approval!Output) = approvalItems \o <<Approval!Output>>
        /\ approvalItems = approvalItems \o <<>>
    BY <1>3
  <2>3. \E tail \in {<<>>, <<Approval!Output>>} : events' = approvalItems \o tail
    <3> HIDE DEF Approval!Output
    <3> QED
      BY <2>1, <2>2
  <2> QED
    BY <1>1, <1>3, <2>3 DEF Unasked, Approval!Output
<1>5. ASSUME stage' = "recorded", Approval!InitialTurnsExhausted
      PROVE  Exhausted'
  <2>1. PICK s \in {approvalItems, <<>>} : events' = Append(s, Approval!TurnBudgetViolation)
    BY <1>5 DEF Approval!InitialTurnsExhausted, Approval!Record, Approval!Refused
  <2> QED
    BY <1>1, <1>3, <2>1 DEF Exhausted, Approval!TurnBudgetViolation
<1>6. Approval!Ambiguous => stage' = "refused"
  BY DEF Approval!Ambiguous, Approval!Refused
<1>7. Recorded'
  BY <1>4, <1>5, <1>6 DEF Recorded
<1> QED
  BY <1>2, <1>7, EndKeeps

\* A trial that ends with its resumed run has one record of both, or what the first returned.
LEMMA SecondRunEnds ==
  ASSUME ApprovalTypes, ApprovalHolds, Approval!ResumedTurnsExhausted \/ Approval!ResumedReturns
  PROVE  ApprovalTypes' /\ ApprovalHolds' /\ Recorded'
<1>1. /\ stage \in {"run2", "resumed"} /\ stage' \in {"refused", "recorded"}
      /\ UNCHANGED <<policy, intent, active, pending, approvalItems, mark, decided, ran>>
  BY DEF Approval!ResumedTurnsExhausted, Approval!ResumedReturns, Approval!Refused, Approval!Record
<1>2. Ends
  BY <1>1 DEF Ends
<1>3. /\ ApprovalTypes' /\ ApprovalHolds'
      /\ Resumption' <=> Resumption
      /\ Approval!Stitchable(approvalItems)' <=> Approval!Stitchable(approvalItems)
      /\ Approval!Stitch(approvalItems)' = Approval!Stitch(approvalItems)
      /\ Approval!Returned' = Approval!Returned
  BY <1>2, EndKeeps
<1>4. decided # 0 /\ decided' # 0
  BY <1>1 DEF ApprovalHolds
<1>5. ASSUME stage' = "recorded", Approval!ResumedTurnsExhausted
      PROVE  Exhausted'
  <2>1. stage = "run2" /\ Resumption
    BY <1>5 DEF Approval!ResumedTurnsExhausted, ApprovalHolds
  <2>2. \A more \in Approval!Resumed : Approval!MergeRunItems(Approval!Returned, more) = approvalItems
    BY <1>4, <2>1, OneRecord
  <2>3. \/ /\ Approval!Stitchable(approvalItems)
           /\ events' = Append(Approval!Stitch(approvalItems), Approval!TurnBudgetViolation)
        \/ events' = Append(Approval!Returned, Approval!TurnBudgetViolation)
    BY <1>5, <2>2 DEF Approval!ResumedTurnsExhausted, Approval!Record, Approval!Refused
  <2>4. Approval!TurnBudgetViolation' = Approval!TurnBudgetViolation
    BY DEF Approval!TurnBudgetViolation, Approval!NoEvent
  <2> QED
    BY <1>3, <1>4, <2>1, <2>3, <2>4 DEF Exhausted
<1>6. ASSUME stage' = "recorded", Approval!ResumedReturns
      PROVE  Answered'
  <2>1. Resumption
    <3>1. Mine \notin pending
      BY <1>6 DEF Approval!ResumedReturns, Approval!Refused, Mine
    <3> QED
      BY <1>1, <3>1 DEF ApprovalHolds
  <2>2. \A more \in Approval!Resumed : Approval!MergeRunItems(Approval!Returned, more) = approvalItems
    BY <1>4, <2>1, OneRecord
  <2>3. /\ Approval!Stitchable(approvalItems)
        /\ events' = Approval!Stitch(approvalItems) \o (IF pending = {} THEN <<Approval!Output>> ELSE <<>>)
    BY <1>6, <2>2 DEF Approval!ResumedReturns, Approval!Record, Approval!Refused
  <2>4. Approval!Output' = Approval!Output
    BY DEF Approval!Output, Approval!NoEvent
  <2>5. \E tail \in {<<>>, <<Approval!Output>>} : events' = Approval!Stitch(approvalItems) \o tail
    BY <2>3
  <2> QED
    BY <1>3, <1>4, <2>1, <2>3, <2>4, <2>5 DEF Answered
<1>7. Recorded'
  BY <1>5, <1>6 DEF Recorded
<1> QED
  BY <1>3, <1>7

\* The invariant holds of a trial that begins.
LEMMA ApprovalBegins ==
  ASSUME Approval!Init
  PROVE  ApprovalInv
<1>1. /\ stage = "run1" /\ active = "root" /\ pending = {} /\ approvalItems = <<>> /\ mark = 0 /\ decided = 0
      /\ ran = {}
      /\ intent \in [agent : {"root", "helper"}, tool : {"target"}, decision : {"approve", "reject"}]
  BY DEF Approval!Init, Approval!Agents
<1>2. ApprovalTypes
  BY <1>1 DEF ApprovalTypes
<1>3. ApprovalHolds /\ Recorded
  BY <1>1 DEF ApprovalHolds, Recorded
<1> QED
  BY <1>2, <1>3 DEF ApprovalInv

\* Every step keeps it.
LEMMA ApprovalStep ==
  ASSUME ApprovalInv, Approval!Next \/ UNCHANGED approvalVars
  PROVE  ApprovalInv'
<1>1. ApprovalTypes /\ ApprovalHolds /\ Recorded
  BY DEF ApprovalInv
<1>2. CASE \/ Approval!TakeTurn \/ Approval!HandOver \/ Approval!ResumeRun \/ Approval!DecisionLost
           \/ Approval!Decide
  <2>1. ApprovalTypes' /\ ApprovalHolds' /\ stage' # "recorded"
    BY <1>1, <1>2, TurnIsTaken, HandedOver, RunResumes, DecisionIsLost, Decides
  <2> QED
    BY <2>1 DEF ApprovalInv, Recorded
<1>3. CASE Approval!NoInterruption \/ Approval!Ambiguous \/ Approval!InitialTurnsExhausted
  BY <1>1, <1>3, FirstRunEnds DEF ApprovalInv
<1>4. CASE Approval!ResumedTurnsExhausted \/ Approval!ResumedReturns
  BY <1>1, <1>4, SecondRunEnds DEF ApprovalInv
<1>5. CASE UNCHANGED approvalVars
  <2>1. UNCHANGED <<policy, intent, stage, active, pending, approvalItems, mark, decided, ran, events>>
    BY <1>5 DEF approvalVars
  <2>2. Ends
    BY <2>1 DEF Ends
  <2>3. /\ ApprovalTypes' /\ ApprovalHolds'
        /\ Resumption' <=> Resumption
        /\ Approval!Stitchable(approvalItems)' <=> Approval!Stitchable(approvalItems)
        /\ Approval!Stitch(approvalItems)' = Approval!Stitch(approvalItems)
        /\ Approval!Returned' = Approval!Returned
    BY <1>1, <2>2, EndKeeps
  <2>4. Approval!Output' = Approval!Output /\ Approval!TurnBudgetViolation' = Approval!TurnBudgetViolation
    BY DEF Approval!Output, Approval!TurnBudgetViolation, Approval!NoEvent
  <2>5. Recorded'
    BY <1>1, <2>1, <2>3, <2>4 DEF Recorded, Unasked, Answered, Exhausted
  <2> QED
    BY <2>3, <2>5 DEF ApprovalInv
<1> QED
  BY <1>2, <1>3, <1>4, <1>5 DEF Approval!Next

\* Where the items of a run are in its record: each under the authority it was made under, and the
\* request for approval under that of the result; the one decision is about the call.
ItemsPlaced(p, s, e, req, ask, reply) ==
  /\ \A i \in 1 .. Len(s) :
       i \notin {req, ask, reply} =>
         \E k \in 1 .. Len(e) :
           e[k] = s[i] /\ Approval!StateBefore(p, e, k) = Approval!StateBefore(p, s, i)
  /\ ask - 1 \in 1 .. Len(e) /\ e[ask - 1] = s[ask]
  /\ Approval!StateBefore(p, e, ask - 1) = Approval!StateBefore(p, s, reply)
  /\ \A k \in 1 .. Len(e) : e[k].kind = "decision" => e[k].call = s[ask].call

\* Stitching moves no item across a handoff.
LEMMA StitchedPlaces ==
  ASSUME NEW p, NEW s \in Seq(ApprovalItems), NEW e, NEW req \in 1 .. Len(s), NEW ask \in 1 .. Len(s),
         NEW reply \in 1 .. Len(s), req < ask, ask < reply, StitchedAt(s, e, req, ask, reply),
         \A h \in req .. reply : s[h].kind # "handoff"
  PROVE  ItemsPlaced(p, s, e, req, ask, reply)
<1> DEFINE W == Approval!Walk(p, s)
           V == Approval!Walk(p, e)
<1>1. PICK N, m : N = Len(s) /\ m = IF intent.decision = "approve" THEN 1 ELSE 0
  OBVIOUS
<1>2. /\ N \in Nat /\ m \in {0, 1} /\ req \in 1 .. N /\ ask \in 1 .. N /\ reply \in 1 .. N
      /\ \A i \in 1 .. N : s[i] \in ApprovalItems
  BY <1>1, LenProperties, ElementOfSeq
<1>3. /\ Len(e) = N + m
      /\ \A i \in 1 .. req - 1 : e[i] = s[i]
      /\ \A i \in req + 1 .. ask : e[i - 1] = s[i]
      /\ e[ask] = [s[ask] EXCEPT !.kind = "decision", !.decision = intent.decision, !.at = ask - 1]
      /\ IF m = 1 THEN e[ask + 1] = s[req] /\ e[ask + 2] = s[reply]
         ELSE e[ask + 1] = [s[reply] EXCEPT !.rejected = TRUE]
      /\ \A i \in ask + 1 .. reply - 1 : e[i + 1 + m] = s[i]
      /\ \A i \in reply + 1 .. N : e[i + m] = s[i]
  BY <1>1 DEF StitchedAt
<1>4. \A i \in 1 .. N : s[i].kind \in {"request", "approval_request", "result", "handoff"}
  BY <1>2 DEF ApprovalItems
<1>5. e[ask].kind = "decision" /\ e[ask].call = s[ask].call
  <2>1. s[ask] \in ApprovalItems
    BY <1>2
  <2> QED
    BY <1>3, <2>1 DEF ApprovalItems
<1>6. e[ask + 1].kind \in {"request", "approval_request", "result"}
      /\ (m = 1 => e[ask + 2].kind \in {"request", "approval_request", "result"})
  <2>1. s[reply] \in ApprovalItems /\ s[req].kind # "handoff" /\ s[reply].kind # "handoff"
    BY <1>2
  <2>2. [s[reply] EXCEPT !.rejected = TRUE].kind = s[reply].kind
    BY <2>1 DEF ApprovalItems
  <2> QED
    BY <1>2, <1>3, <1>4, <2>1, <2>2
\* Every place of the record.
<1>7. ASSUME NEW k \in 1 .. N + m
      PROVE  \/ k \in 1 .. req - 1
             \/ k \in req .. ask - 1
             \/ k = ask
             \/ k = ask + 1
             \/ k = ask + 2 /\ m = 1
             \/ k - 1 - m \in ask + 1 .. reply - 1
             \/ k - m \in reply + 1 .. N
  BY <1>2
<1>8. ASSUME NEW k \in req .. reply + m
      PROVE  e[k].kind # "handoff"
  <2>1. CASE k \in req .. ask - 1
    <3>1. PICK i : i = k + 1
      OBVIOUS
    <3>2. i \in req + 1 .. ask /\ i - 1 = k /\ i \in req .. reply
      BY <1>2, <2>1, <3>1
    <3>3. e[k] = s[i]
      BY <1>3, <3>2
    <3> QED
      BY <3>2, <3>3
  <2>2. CASE k - 1 - m \in ask + 1 .. reply - 1
    <3>1. PICK i : i = k - 1 - m
      OBVIOUS
    <3>2. i \in ask + 1 .. reply - 1 /\ i + 1 + m = k /\ i \in req .. reply
      BY <1>2, <2>2, <3>1
    <3>3. e[k] = s[i]
      BY <1>3, <3>2
    <3> QED
      BY <3>2, <3>3
  <2>3. CASE k \in {ask, ask + 1} \/ (k = ask + 2 /\ m = 1)
    BY <1>5, <1>6, <2>3
  <2>4. \/ k \in req .. ask - 1
        \/ k - 1 - m \in ask + 1 .. reply - 1
        \/ k \in {ask, ask + 1} \/ (k = ask + 2 /\ m = 1)
    BY <1>2
  <2> QED
    BY <2>1, <2>2, <2>3, <2>4
<1>9. ASSUME NEW k \in 1 .. N + m, e[k].kind = "decision"
      PROVE  e[k].call = s[ask].call
  <2>1. CASE k \in 1 .. req - 1
    <3>1. k \in 1 .. N /\ e[k] = s[k]
      BY <1>2, <1>3, <2>1
    <3> QED
      BY <1>4, <1>9, <3>1
  <2>2. CASE k \in req .. ask - 1
    <3>1. PICK i : i = k + 1
      OBVIOUS
    <3>2. i \in req + 1 .. ask /\ i - 1 = k /\ i \in 1 .. N
      BY <1>2, <2>2, <3>1
    <3>3. e[k] = s[i]
      BY <1>3, <3>2
    <3> QED
      BY <1>4, <1>9, <3>2, <3>3
  <2>3. CASE k - 1 - m \in ask + 1 .. reply - 1
    <3>1. PICK i : i = k - 1 - m
      OBVIOUS
    <3>2. i \in ask + 1 .. reply - 1 /\ i + 1 + m = k /\ i \in 1 .. N
      BY <1>2, <2>3, <3>1
    <3> QED
      BY <1>3, <1>4, <1>9, <3>2
  <2>4. CASE k - m \in reply + 1 .. N
    <3>1. PICK i : i = k - m
      OBVIOUS
    <3>2. i \in reply + 1 .. N /\ i + m = k /\ i \in 1 .. N
      BY <1>2, <2>4, <3>1
    <3> QED
      BY <1>3, <1>4, <1>9, <3>2
  <2>5. CASE k \in {ask, ask + 1} \/ (k = ask + 2 /\ m = 1)
    BY <1>5, <1>6, <1>9, <2>5
  <2> QED
    BY <1>7, <2>1, <2>2, <2>3, <2>4, <2>5
\* The paths.
<1>10. ASSUME NEW k \in 0 .. req - 1
       PROVE  V[k] = W[k]
  <2>1. PICK a, b, u, v : a = 0 /\ b = 0 /\ u = e /\ v = s
    OBVIOUS
  <2>2. /\ Len(u) \in Nat /\ Len(v) \in Nat /\ a \in Nat /\ b \in Nat /\ k \in Nat
        /\ a + k <= Len(u) /\ b + k <= Len(v) /\ a + k = k /\ b + k = k
        /\ \A i \in 1 .. k : u[a + i] = v[b + i]
    BY <1>1, <1>2, <1>3, <2>1
  <2>3. Approval!Walk(p, u)[a] = Approval!Walk(p, v)[b]
    <3>1. Approval!Walk(p, u)[0] = Approval!FromPolicy(p) /\ Approval!Walk(p, v)[0] = Approval!FromPolicy(p)
      BY <2>2, Walked
    <3> QED
      BY <2>1, <3>1
  <2>4. WalkedAlike(p, u, a, v, b, k)
    BY <2>2, <2>3, WalkAlike
  <2> QED
    BY <2>1, <2>2, <2>4 DEF WalkedAlike
<1>11. ASSUME NEW k \in req - 1 .. reply
       PROVE  W[k] = W[req - 1]
  <2>1. PICK a : a = req - 1
    OBVIOUS
  <2>2. Len(s) = N /\ N \in Nat /\ a \in 0 .. N /\ k \in a .. N
    BY <1>1, <1>2, <2>1
  <2>3. \A i \in a + 1 .. k : s[i].kind # "handoff"
    BY <1>2, <2>1
  <2>4. Approval!Walk(p, s)[a] = Approval!Walk(p, s)[k]
    BY <2>2, <2>3, StandsStill
  <2> QED
    BY <2>1, <2>4
<1>12. ASSUME NEW k \in req - 1 .. reply + m
       PROVE  V[k] = V[req - 1]
  <2>1. PICK a, M : a = req - 1 /\ M = N + m
    OBVIOUS
  <2>2. Len(e) = M /\ M \in Nat /\ a \in 0 .. M /\ k \in a .. M
    BY <1>2, <1>3, <2>1
  <2>3. \A i \in a + 1 .. k : e[i].kind # "handoff"
    BY <1>2, <1>8, <2>1
  <2>4. Approval!Walk(p, e)[a] = Approval!Walk(p, e)[k]
    BY <2>2, <2>3, StandsStill
  <2> QED
    BY <2>1, <2>4
<1>13. \A k \in req - 1 .. reply : \A l \in req - 1 .. reply + m : V[l] = W[k]
  <2>1. req - 1 \in 0 .. req - 1
    BY <1>2
  <2> HIDE DEF V, W
  <2> QED
    BY <1>10, <1>11, <1>12, <2>1
<1>14. ASSUME NEW k \in reply .. N
       PROVE  V[k + m] = W[k]
  <2>1. PICK a, b, L, u, v : a = reply + m /\ b = reply /\ L = k - reply /\ u = e /\ v = s
    OBVIOUS
  <2>2. /\ Len(u) \in Nat /\ Len(v) \in Nat /\ a \in Nat /\ b \in Nat /\ L \in Nat
        /\ a + L <= Len(u) /\ b + L <= Len(v) /\ a + L = k + m /\ b + L = k
    <3>1. Len(u) = N + m /\ Len(v) = N
      BY <1>1, <1>3, <2>1
    <3>2. /\ a \in Nat /\ b \in Nat /\ L \in Nat /\ a + L = k + m /\ b + L = k
          /\ N \in Nat /\ m \in {0, 1} /\ k <= N
      BY <1>2, <2>1
    <3> QED
      BY <3>1, <3>2
  <2>3. \A i \in 1 .. L : u[a + i] = v[b + i]
    <3> TAKE i \in 1 .. L
    <3>1. b + i \in reply + 1 .. N /\ b + i + m = a + i
      BY <1>2, <2>1
    <3> QED
      BY <1>3, <2>1, <3>1
  <2>4. Approval!Walk(p, u)[a] = Approval!Walk(p, v)[b]
    <3>1. reply \in req - 1 .. reply /\ reply + m \in req - 1 .. reply + m
      BY <1>2
    <3> QED
      BY <1>13, <2>1, <3>1
  <2>5. WalkedAlike(p, u, a, v, b, L)
    BY <2>2, <2>3, <2>4, WalkAlike
  <2> QED
    BY <2>1, <2>2, <2>5 DEF WalkedAlike
<1> HIDE DEF V, W
<1>15. ASSUME NEW i \in 1 .. N, i \notin {req, ask, reply}
       PROVE  \E k \in 1 .. N + m : e[k] = s[i] /\ V[k - 1] = W[i - 1]
  <2>1. CASE i \in 1 .. req - 1
    <3>1. i \in 1 .. N + m /\ i - 1 \in 0 .. req - 1
      BY <1>2, <2>1
    <3> QED
      BY <1>3, <1>10, <2>1, <3>1
  <2>2. CASE i \in req + 1 .. ask - 1
    <3>1. /\ i - 1 \in 1 .. N + m /\ i \in req + 1 .. ask
          /\ i - 1 - 1 \in req - 1 .. reply + m /\ i - 1 \in req - 1 .. reply
      BY <1>2, <2>2
    <3>2. e[i - 1] = s[i] /\ V[i - 1 - 1] = W[i - 1]
      BY <1>3, <1>13, <3>1
    <3> QED
      BY <3>1, <3>2
  <2>3. CASE i \in ask + 1 .. reply - 1
    <3>1. PICK k : k = i + 1 + m
      OBVIOUS
    <3>2. /\ k \in 1 .. N + m /\ k - 1 \in req - 1 .. reply + m /\ i - 1 \in req - 1 .. reply
      BY <1>2, <2>3, <3>1
    <3>3. e[k] = s[i] /\ V[k - 1] = W[i - 1]
      BY <1>3, <1>13, <2>3, <3>1, <3>2
    <3> QED
      BY <3>2, <3>3
  <2>4. CASE i \in reply + 1 .. N
    <3>1. PICK k : k = i + m
      OBVIOUS
    <3>2. k \in 1 .. N + m /\ i - 1 \in reply .. N /\ k - 1 = i - 1 + m
      BY <1>2, <2>4, <3>1
    <3>3. e[k] = s[i] /\ V[k - 1] = W[i - 1]
      BY <1>3, <1>14, <2>4, <3>1, <3>2
    <3> QED
      BY <3>2, <3>3
  <2>5. i \in 1 .. req - 1 \/ i \in req + 1 .. ask - 1 \/ i \in ask + 1 .. reply - 1 \/ i \in reply + 1 .. N
    BY <1>2, <1>15
  <2> QED
    BY <2>1, <2>2, <2>3, <2>4, <2>5
<1>16. ask - 1 \in 1 .. N + m /\ e[ask - 1] = s[ask] /\ V[ask - 1 - 1] = W[reply - 1]
  <2>1. /\ ask - 1 \in 1 .. N + m /\ ask \in req + 1 .. ask
        /\ ask - 1 - 1 \in req - 1 .. reply + m /\ reply - 1 \in req - 1 .. reply
    BY <1>2
  <2> QED
    BY <1>3, <1>13, <2>1
<1>17. \A k, i : V[k - 1] = W[i - 1] => Approval!StateBefore(p, e, k) = Approval!StateBefore(p, s, i)
  BY DEF V, W, Approval!StateBefore
<1>18. Len(e) = N + m /\ Len(s) = N
  BY <1>1, <1>3
<1>19. \A i \in 1 .. N : i \notin {req, ask, reply} =>
         \E k \in 1 .. N + m : e[k] = s[i] /\ Approval!StateBefore(p, e, k) = Approval!StateBefore(p, s, i)
  BY <1>15, <1>17
<1>20. Approval!StateBefore(p, e, ask - 1) = Approval!StateBefore(p, s, reply)
  BY <1>16, <1>17
<1> QED
  BY <1>9, <1>16, <1>18, <1>19, <1>20 DEF ItemsPlaced

\* The record is a run's events, and what ends it.
Follows(e) ==
  /\ Len(e) \in Nat /\ Len(events) \in Nat /\ Len(e) <= Len(events)
  /\ \A i \in 1 .. Len(e) : events[i] = e[i] /\ e[i] \in ApprovalEvents
  /\ \A i \in 1 .. Len(events) : i > Len(e) => events[i].kind \in {"output", "violation"}

\* A record may end with an output,
LEMMA OutputFollows ==
  ASSUME NEW e \in Seq(ApprovalEvents), NEW tail \in {<<>>, <<Approval!Output>>}, events = e \o tail
  PROVE  Follows(e)
<1>1. Approval!Output \in ApprovalEvents /\ Approval!Output.kind = "output"
  BY DEF Approval!Output, Approval!NoEvent, ApprovalEvents
<1>2. PICK m, n : m = Len(e) /\ n = Len(tail)
  OBVIOUS
<1>3. tail \in Seq(ApprovalEvents) /\ n \in {0, 1} /\ \A i \in 1 .. n : tail[i].kind = "output"
  <2>1. PICK o, E : o = Approval!Output /\ E = ApprovalEvents
    OBVIOUS
  <2>2. o \in E /\ o.kind = "output" /\ tail \in {<<>>, <<o>>} /\ n = Len(tail)
    BY <1>1, <1>2, <2>1
  <2>3. CASE tail = <<>>
    BY <2>1, <2>2, <2>3
  <2>4. CASE tail = <<o>>
    <3>1. n = 1 /\ tail \in Seq(E) /\ tail[1] = o
      BY <2>2, <2>4
    <3> QED
      BY <2>1, <2>2, <3>1
  <2> QED
    BY <2>2, <2>3, <2>4
<1>4. /\ Len(events) = m + n /\ m \in Nat
      /\ \A i \in 1 .. m : events[i] = e[i]
      /\ \A i \in 1 .. n : events[m + i] = tail[i]
  BY <1>2, <1>3, Joined
<1>5. \A i \in 1 .. m : e[i] \in ApprovalEvents
  BY <1>2, ElementOfSeq
<1>6. ASSUME NEW i \in 1 .. Len(events), i > m
      PROVE  events[i].kind = "output"
  <2>1. i = m + 1 /\ 1 \in 1 .. n
    BY <1>3, <1>4, <1>6
  <2> QED
    BY <1>3, <1>4, <2>1
<1> QED
  BY <1>2, <1>3, <1>4, <1>5, <1>6 DEF Follows

\* or with a violation of the turn budget.
LEMMA ViolationFollows ==
  ASSUME NEW e \in Seq(ApprovalEvents), events = Append(e, Approval!TurnBudgetViolation)
  PROVE  Follows(e) /\ Len(events) \in 1 .. Len(events) /\ events[Len(events)].kind = "violation"
<1>1. Approval!TurnBudgetViolation \in ApprovalEvents /\ Approval!TurnBudgetViolation.kind = "violation"
  BY DEF Approval!TurnBudgetViolation, Approval!NoEvent, ApprovalEvents
<1>2. PICK v : v = Approval!TurnBudgetViolation
  OBVIOUS
<1>3. v \in ApprovalEvents /\ v.kind = "violation" /\ events = Append(e, v)
  BY <1>1, <1>2
<1>4. /\ Len(events) = Len(e) + 1 /\ Len(e) \in Nat
      /\ \A i \in 1 .. Len(e) : events[i] = e[i] /\ e[i] \in ApprovalEvents
      /\ events[Len(e) + 1] = v
  BY <1>3, Appended
<1> QED
  BY <1>3, <1>4 DEF Follows

\* Up to the end of a run's events the record stands under the same authority.
LEMMA FollowsAlike ==
  ASSUME NEW e, Follows(e), NEW k \in 1 .. Len(e)
  PROVE  Approval!StateBefore(policy, events, k) = Approval!StateBefore(policy, e, k)
<1>1. PICK p, u, a, L : p = policy /\ u = events /\ a = 0 /\ L = k - 1
  OBVIOUS
<1>2. /\ Len(u) \in Nat /\ Len(e) \in Nat /\ a \in Nat /\ L \in Nat /\ a + L = L
      /\ a + L <= Len(u) /\ a + L <= Len(e)
      /\ \A i \in 1 .. L : u[a + i] = e[a + i]
  BY <1>1 DEF Follows
<1>3. Approval!Walk(p, u)[a] = Approval!Walk(p, e)[a]
  <2>1. Approval!Walk(p, u)[0] = Approval!FromPolicy(p) /\ Approval!Walk(p, e)[0] = Approval!FromPolicy(p)
    BY <1>2, Walked
  <2> QED
    BY <1>1, <2>1
<1>4. WalkedAlike(p, u, a, e, a, L)
  BY <1>2, <1>3, WalkAlike
<1> QED
  BY <1>1, <1>2, <1>4 DEF WalkedAlike, Approval!StateBefore

\* What passes has at each place what a passing record shows there.
LEMMA PassingPlaces ==
  ASSUME ApprovalTypes, NEW e, Follows(e), Approval!Grade(policy, intent, events),
         NEW n \in 1 .. Len(events)
  PROVE  PassedAt(policy, events, n)
<1>1. intent # Approval!NoIntent
  BY DEF ApprovalTypes, Approval!NoIntent
<1>2. \A k \in 1 .. Len(events) : events[k].kind # "approval"
  <2> TAKE k \in 1 .. Len(events)
  <2>1. CASE k <= Len(e)
    <3>1. events[k] \in ApprovalEvents
      BY <2>1 DEF Follows
    <3> QED
      BY <3>1 DEF ApprovalEvents
  <2>2. CASE k > Len(e)
    BY <2>2 DEF Follows
  <2> QED
    BY <2>1, <2>2 DEF Follows
<1>3. Len(events) \in Nat
  BY DEF Follows
<1> QED
  BY <1>1, <1>2, <1>3, PassingRecord

\* A call of the target that needs approval where it stands, and which no decision of the record is
\* about, fails the record.
LEMMA UndecidedCallFails ==
  ASSUME ApprovalTypes, NEW e, Follows(e), NEW n \in 1 .. Len(e), e[n].kind = "request",
         e[n].tool \in Approval!StateBefore(policy, e, n).authority.approval,
         \A k \in 1 .. Len(e) : e[k].kind = "decision" => e[k].call # e[n].call
  PROVE  ~Approval!Grade(policy, intent, events)
<1>1. SUFFICES ASSUME Approval!Grade(policy, intent, events) PROVE FALSE
  OBVIOUS
<1>2. n \in 1 .. Len(events) /\ events[n] = e[n] /\ Len(e) \in Nat
  BY DEF Follows
<1>3. PassedAt(policy, events, n)
  BY <1>1, <1>2, PassingPlaces
<1>4. Approval!StateBefore(policy, events, n) = Approval!StateBefore(policy, e, n)
  BY FollowsAlike
<1>5. PICK m \in 1 .. n - 1 : events[m].kind = "decision" /\ events[m].call = e[n].call
  BY <1>2, <1>3, <1>4 DEF PassedAt
<1>6. m \in 1 .. Len(e) /\ events[m] = e[m]
  BY <1>2 DEF Follows
<1> QED
  BY <1>5, <1>6

\* One item of a kind is the decided call's.
LEMMA OnlyOne ==
  ASSUME ApprovalTypes, NEW k, Approval!Cardinality(Approval!Only(approvalItems, k)) = 1,
         NEW i \in 1 .. Len(approvalItems), approvalItems[i].kind = k, approvalItems[i].call = decided
  PROVE  Approval!Only(approvalItems, k) = {i}
<1> DEFINE S == Approval!Only(approvalItems, k)
<1>1. Len(approvalItems) \in Nat
  BY LenProperties DEF ApprovalTypes
<1>2. S \subseteq 1 .. Len(approvalItems) /\ i \in S
  BY DEF Approval!Only
<1>3. Cardinality(S) = 1
  BY DEF Approval!Cardinality, Cardinality
<1> HIDE DEF S
<1>4. IsFiniteSet(S)
  <2>1. IsFiniteSet(1 .. Len(approvalItems))
    BY <1>1, FS_Interval
  <2> QED
    BY <1>2, <2>1, FS_Subset
<1>5. PICK x : S = {x}
  BY <1>3, <1>4, FS_Singleton
<1>6. S = {i}
  BY <1>2, <1>5
<1> QED
  BY <1>6 DEF S

\* The decided call was made, interrupted and answered, in this order, and nobody handed over
\* meanwhile.
Lifecycle(req, ask) ==
  /\ req \in 1 .. Len(approvalItems) /\ ask \in 1 .. Len(approvalItems)
  /\ mark + 1 \in 1 .. Len(approvalItems)
  /\ req < ask /\ ask < mark + 1
  /\ \A h \in req .. mark + 1 : approvalItems[h].kind # "handoff"
  /\ \A i \in 1 .. Len(approvalItems) : approvalItems[i].call = decided =>
       /\ approvalItems[i].kind = "request" => i = req
       /\ approvalItems[i].kind = "result" => i = mark + 1
  /\ IsCall(approvalItems[ask], "approval_request", decided)
  /\ IsCall(approvalItems[req], "request", decided) /\ approvalItems[mark + 1].kind = "result"
  /\ StitchedAt(approvalItems, Approval!Stitch(approvalItems), req, ask, mark + 1)

\* A record can be stitched only if the call has this one lifecycle.
LEMMA DecidedCall ==
  ASSUME ApprovalTypes, ApprovalHolds, decided # 0, Resumption, Approval!Stitchable(approvalItems)
  PROVE  \E req, ask : Lifecycle(req, ask)
<1>1. Interrupted(decided, intent.agent, mark) /\ mark \in 1 .. Len(approvalItems)
  BY DEF ApprovalHolds
<1>2. PICK req, ask \in 1 .. mark :
        /\ req < ask /\ IsCall(approvalItems[req], "request", decided)
        /\ IsCall(approvalItems[ask], "approval_request", decided)
        /\ \A h \in req .. mark : approvalItems[h].kind # "handoff"
  BY <1>1 DEF Interrupted
<1>3. /\ Len(approvalItems) \in Nat /\ req \in 1 .. Len(approvalItems) /\ ask \in 1 .. Len(approvalItems)
      /\ mark + 1 \in 1 .. Len(approvalItems) /\ ask < mark + 1
      /\ approvalItems[mark + 1].kind = "result" /\ approvalItems[mark + 1].call = decided
  <2>1. Len(approvalItems) \in Nat
    BY LenProperties DEF ApprovalTypes
  <2> QED
    BY <1>1, <2>1 DEF Resumption
<1>4. /\ Approval!Only(approvalItems, "request") = {req}
      /\ Approval!Only(approvalItems, "approval_request") = {ask}
      /\ Approval!Only(approvalItems, "result") = {mark + 1}
  <2>1. \A k \in {"request", "approval_request", "result"} :
          Approval!Cardinality(Approval!Only(approvalItems, k)) = 1
    BY DEF Approval!Stitchable
  <2>2. /\ approvalItems[req].kind = "request" /\ approvalItems[req].call = decided
        /\ approvalItems[ask].kind = "approval_request" /\ approvalItems[ask].call = decided
    BY <1>2 DEF IsCall
  <2> QED
    BY <1>3, <2>1, <2>2, OnlyOne
<1>5. PICK reply : reply = mark + 1
  OBVIOUS
<1>6. StitchedAt(approvalItems, Approval!Stitch(approvalItems), req, ask, reply)
  <2>1. approvalItems \in Seq(ApprovalItems) /\ intent.decision \in {"approve", "reject"}
    BY DEF ApprovalTypes
  <2>2. /\ Approval!Only(approvalItems, "request") = {req}
        /\ Approval!Only(approvalItems, "approval_request") = {ask}
        /\ Approval!Only(approvalItems, "result") = {reply}
    BY <1>4, <1>5
  <2>3. reply \in 1 .. Len(approvalItems) /\ ask < reply
    BY <1>3, <1>5
  <2> QED
    BY <1>2, <1>3, <2>1, <2>2, <2>3, Stitched
<1>7. \A h \in req .. mark + 1 : approvalItems[h].kind # "handoff"
  <2>1. \A h \in req .. mark + 1 : h \in req .. mark \/ h = mark + 1
    BY <1>1
  <2> QED
    BY <1>2, <1>3, <2>1
<1>8. \A i \in 1 .. Len(approvalItems) : approvalItems[i].call = decided =>
        /\ approvalItems[i].kind = "request" => i = req
        /\ approvalItems[i].kind = "result" => i = mark + 1
  <2> TAKE i \in 1 .. Len(approvalItems)
  <2>1. \A k : approvalItems[i].kind = k /\ approvalItems[i].call = decided
                => i \in Approval!Only(approvalItems, k)
    BY DEF Approval!Only
  <2> QED
    BY <1>4, <2>1
<1>9. Lifecycle(req, ask)
  BY <1>2, <1>3, <1>5, <1>6, <1>7, <1>8 DEF Lifecycle
<1> QED
  BY <1>9

\* The record of an answered approval decides: what needed an approval and ran, ran with this one.
LEMMA AnswersDecide ==
  ASSUME ApprovalTypes, ApprovalHolds, Answered, Approval!Grade(policy, intent, events)
  PROVE  LET guarded == {r \in ran : r.needed} IN
         IF intent.decision = "approve"
           THEN \E r \in guarded : guarded = {r} /\ r.consent /\ r.call = decided
           ELSE guarded = {}
<1> DEFINE s == approvalItems
           e == Approval!Stitch(approvalItems)
<1>1. decided # 0 /\ Resumption /\ Approval!Stitchable(approvalItems)
  BY DEF Answered
<1>2. PICK req, ask : Lifecycle(req, ask)
  BY <1>1, DecidedCall
<1>3. PICK reply : reply = mark + 1
  OBVIOUS
<1>4. /\ req \in 1 .. Len(s) /\ ask \in 1 .. Len(s) /\ reply \in 1 .. Len(s) /\ req < ask /\ ask < reply
      /\ \A h \in req .. reply : s[h].kind # "handoff"
      /\ \A i \in 1 .. Len(s) : s[i].call = decided =>
           /\ s[i].kind = "request" => i = req
           /\ s[i].kind = "result" => i = reply
      /\ IsCall(s[ask], "approval_request", decided) /\ s[reply].kind = "result"
      /\ StitchedAt(s, e, req, ask, reply) /\ s \in Seq(ApprovalItems)
  BY <1>2, <1>3 DEF Lifecycle, ApprovalTypes
<1>5. e \in Seq(ApprovalEvents)
  BY <1>4 DEF StitchedAt
<1>6. Follows(e)
  <2>1. PICK tail \in {<<>>, <<Approval!Output>>} : events = e \o tail
    BY DEF Answered
  <2> QED
    BY <1>5, <2>1, OutputFollows
<1> HIDE DEF e
<1>7. ItemsPlaced(policy, s, e, req, ask, reply)
  <2> HIDE DEF s
  <2> QED
    BY <1>4, StitchedPlaces
\* No call without the decision needed one.
<1>8. ASSUME NEW r \in ran, r.needed, ~r.consent
      PROVE  FALSE
  <2>1. PICK i, j \in 1 .. Len(s) :
          /\ i < j /\ j # mark + 1 /\ IsCall(s[i], "request", r.call)
          /\ s[j].kind = "result" /\ s[j].call = r.call
          /\ Needed(i)
    BY <1>8 DEF ApprovalHolds, Executed
  <2>2. r.call # decided
    BY <1>3, <1>4, <2>1
  <2>3. /\ s[i].kind = "request" /\ s[i].tool = "target" /\ s[i].call = r.call
        /\ s[ask].call = decided /\ s[ask].kind = "approval_request"
    BY <1>4, <2>1 DEF IsCall
  <2>4. i # req
    <3>1. s[req].call = decided
      BY <1>2 DEF Lifecycle, IsCall
    <3> QED
      BY <2>2, <2>3, <3>1
  <2>5. i \notin {req, ask, reply}
    BY <1>4, <2>3, <2>4
  <2>6. PICK k \in 1 .. Len(e) :
          e[k] = s[i] /\ Approval!StateBefore(policy, e, k) = Approval!StateBefore(policy, s, i)
    BY <1>7, <2>5 DEF ItemsPlaced
  <2>7. "target" \in Approval!StateBefore(policy, e, k).authority.approval
    BY <2>1, <2>6 DEF Needed
  <2>8. \A h \in 1 .. Len(e) : e[h].kind = "decision" => e[h].call # e[k].call
    BY <1>7, <2>2, <2>3, <2>6 DEF ItemsPlaced
  <2> QED
    BY <1>6, <2>3, <2>6, <2>7, <2>8, UndecidedCallFails
<1>9. CASE intent.decision # "approve"
  <2>1. \A r \in ran : ~r.consent
    BY <1>9 DEF ApprovalHolds
  <2> QED
    BY <1>8, <1>9, <2>1
<1>10. CASE intent.decision = "approve"
  <2>1. PICK r \in ran : r.consent /\ r.call = decided /\ (Needed(reply) => r.needed)
    BY <1>1, <1>3, <1>10 DEF Resumption
  <2>2. Needed(reply)
    <3>1. PICK n : n = ask - 1
      OBVIOUS
    <3>2. /\ n \in 1 .. Len(e) /\ e[n] = s[ask]
          /\ Approval!StateBefore(policy, e, n) = Approval!StateBefore(policy, s, reply)
      BY <1>7, <3>1 DEF ItemsPlaced
    <3>3. events[n] = e[n] /\ n \in 1 .. Len(events)
      BY <1>6, <3>2 DEF Follows
    <3>4. PassedAt(policy, events, n)
      BY <1>6, <3>3, PassingPlaces
    <3>5. Approval!StateBefore(policy, events, n) = Approval!StateBefore(policy, e, n)
      BY <1>6, <3>2, FollowsAlike
    <3>6. events[n].kind = "approval_request" /\ events[n].tool = "target"
      BY <1>4, <3>2, <3>3 DEF IsCall
    <3> QED
      BY <3>2, <3>4, <3>5, <3>6 DEF PassedAt, Needed
  <2>3. \A q \in ran : q.consent => q = r
    BY <2>1 DEF ApprovalHolds
  <2>4. {q \in ran : q.needed} = {r} /\ r \in {q \in ran : q.needed}
    BY <1>8, <2>1, <2>2, <2>3
  <2> QED
    BY <1>10, <2>1, <2>4
<1> QED
  BY <1>9, <1>10

\* Items can be recorded as they are.
LEMMA ItemsFollow ==
  ASSUME NEW s \in Seq(ApprovalItems)
  PROVE  s \in Seq(ApprovalEvents)
<1>1. ApprovalItems \subseteq ApprovalEvents
  BY ItemsAreEvents
<1>2. PICK I, E : I = ApprovalItems /\ E = ApprovalEvents
  OBVIOUS
<1>3. s \in Seq(I) /\ I \subseteq E
  BY <1>1, <1>2
<1>4. s \in Seq(E)
  BY <1>3
<1> QED
  BY <1>2, <1>4

\* A run that was never asked for a decision fails if a call of the target that needs one ran.
LEMMA UnaskedCallFails ==
  ASSUME ApprovalTypes, ApprovalHolds, decided = 0, Follows(approvalItems), NEW r \in ran, r.needed
  PROVE  /\ ~Approval!Grade(policy, intent, events)
         /\ \E n \in 1 .. Len(approvalItems) :
              /\ approvalItems[n].kind = "request" /\ approvalItems[n].tool = "target"
              /\ approvalItems[n].agent = r.by
<1>1. Executed(r)
  BY DEF ApprovalHolds
<1>2. PICK n \in 1 .. Len(approvalItems) :
        /\ approvalItems[n].kind = "request" /\ approvalItems[n].tool = "target"
        /\ approvalItems[n].agent = r.by /\ Needed(n)
  BY <1>1 DEF Executed, IsCall
<1>3. approvalItems[n].tool \in Approval!StateBefore(policy, approvalItems, n).authority.approval
  BY <1>2 DEF Needed
<1>4. \A k \in 1 .. Len(approvalItems) : approvalItems[k].kind # "decision"
  <2> TAKE k \in 1 .. Len(approvalItems)
  <2>1. approvalItems[k] \in ApprovalItems
    BY ElementOfSeq DEF ApprovalTypes
  <2> QED
    BY <2>1 DEF ApprovalItems
<1>5. ~Approval!Grade(policy, intent, events)
  BY <1>2, <1>3, <1>4, UndecidedCallFails
<1> QED
  BY <1>2, <1>5

\* The record of an answered approval has its decision.
LEMMA StitchDecides ==
  ASSUME ApprovalTypes, ApprovalHolds, decided # 0, Resumption, Approval!Stitchable(approvalItems)
  PROVE  /\ Approval!Stitch(approvalItems) \in Seq(ApprovalEvents)
         /\ \E k \in 1 .. Len(Approval!Stitch(approvalItems)) :
              Approval!Stitch(approvalItems)[k].kind = "decision"
<1>1. PICK req, ask : Lifecycle(req, ask)
  BY DecidedCall
<1>2. PICK e, s : e = Approval!Stitch(approvalItems) /\ s = approvalItems
  OBVIOUS
<1>3. /\ e \in Seq(ApprovalEvents) /\ ask \in 1 .. Len(s)
      /\ Len(e) >= Len(s) /\ Len(s) \in Nat /\ Len(e) \in Nat
      /\ e[ask] = [s[ask] EXCEPT !.kind = "decision", !.decision = intent.decision, !.at = ask - 1]
      /\ s[ask] \in ApprovalItems
  <2>1. /\ StitchedAt(s, e, req, ask, mark + 1) /\ ask \in 1 .. Len(s) /\ s \in Seq(ApprovalItems)
    BY <1>1, <1>2 DEF Lifecycle, ApprovalTypes
  <2>2. /\ e \in Seq(ApprovalEvents) /\ (Len(e) = Len(s) \/ Len(e) = Len(s) + 1)
        /\ e[ask] = [s[ask] EXCEPT !.kind = "decision", !.decision = intent.decision, !.at = ask - 1]
    BY <2>1 DEF StitchedAt
  <2>3. Len(s) \in Nat /\ Len(e) \in Nat /\ s[ask] \in ApprovalItems
    BY <2>1, <2>2, LenProperties, ElementOfSeq
  <2> QED
    BY <2>1, <2>2, <2>3
<1>4. e[ask].kind = "decision"
  BY <1>3 DEF ApprovalItems
<1>5. ask \in 1 .. Len(e)
  BY <1>3
<1> QED
  BY <1>2, <1>3, <1>4, <1>5

\* Of which runs a record is.
LEMMA RecordIs ==
  ASSUME ApprovalTypes, ApprovalHolds, Unasked \/ Answered \/ Exhausted
  PROVE  \E e : /\ Follows(e)
                /\ \/ e = <<>>
                   \/ decided = 0 /\ e = approvalItems
                   \/ decided # 0 /\ e = Approval!Returned
                   \/ decided # 0 /\ e = Approval!Stitch(approvalItems)
                        /\ \E k \in 1 .. Len(e) : e[k].kind = "decision"
                /\ e = <<>> => \A i \in 1 .. Len(events) : events[i].kind # "result"
                /\ Exhausted => Len(events) \in 1 .. Len(events) /\ events[Len(events)].kind = "violation"
<1>1. approvalItems \in Seq(ApprovalEvents)
  BY ItemsFollow DEF ApprovalTypes
<1>2. CASE Exhausted
  <2>1. PICK s : /\ events = Append(s, Approval!TurnBudgetViolation)
                 /\ \/ s = <<>>
                    \/ decided = 0 /\ s = approvalItems
                    \/ decided # 0 /\ s = Approval!Returned
                    \/ /\ decided # 0 /\ Resumption /\ Approval!Stitchable(approvalItems)
                       /\ s = Approval!Stitch(approvalItems)
    BY <1>2 DEF Exhausted
  <2>2. s \in Seq(ApprovalEvents)
    <3>1. CASE decided # 0 /\ s = Approval!Returned
      <4>1. mark \in 1 .. Len(approvalItems) /\ Len(approvalItems) \in Nat
        BY <1>1, <3>1, LenProperties DEF ApprovalHolds
      <4>2. /\ 1 \in 1 .. Len(approvalItems) + 1 /\ mark \in 0 .. Len(approvalItems) /\ 1 <= mark + 1
        BY <4>1
      <4>3. SubSeq(approvalItems, 1, mark) \in Seq(ApprovalEvents)
        BY <1>1, <4>2, Cut
      <4> QED
        BY <3>1, <4>3 DEF Approval!Returned
    <3>2. CASE /\ decided # 0 /\ Resumption /\ Approval!Stitchable(approvalItems)
               /\ s = Approval!Stitch(approvalItems)
      BY <3>2, StitchDecides
    <3>3. CASE s = <<>> \/ s = approvalItems
      <4>1. PICK E : E = ApprovalEvents
        OBVIOUS
      <4>2. <<>> \in Seq(E)
        OBVIOUS
      <4> QED
        BY <1>1, <3>3, <4>1, <4>2
    <3> QED
      BY <2>1, <3>1, <3>2, <3>3
  <2>3. Follows(s) /\ Len(events) \in 1 .. Len(events) /\ events[Len(events)].kind = "violation"
    BY <2>1, <2>2, ViolationFollows
  <2>4. s = <<>> => \A i \in 1 .. Len(events) : events[i].kind # "result"
    BY <2>3 DEF Follows
  <2>5. Resumption /\ Approval!Stitchable(approvalItems) /\ decided # 0 /\ s = Approval!Stitch(approvalItems)
          => \E k \in 1 .. Len(s) : s[k].kind = "decision"
    BY StitchDecides
  <2> QED
    BY <2>1, <2>3, <2>4, <2>5
<1>3. CASE ~Exhausted /\ Unasked
  <2>1. decided = 0
    BY <1>3 DEF Unasked
  <2>2. PICK tail \in {<<>>, <<Approval!Output>>} : events = approvalItems \o tail
    BY <1>3 DEF Unasked
  <2>3. Follows(approvalItems)
    BY <1>1, <2>2, OutputFollows
  <2>4. approvalItems = <<>> => \A i \in 1 .. Len(events) : events[i].kind # "result"
    BY <2>3 DEF Follows
  <2> QED
    BY <1>3, <2>1, <2>3, <2>4
<1>4. CASE ~Exhausted /\ Answered
  <2>1. PICK e : e = Approval!Stitch(approvalItems)
    OBVIOUS
  <2>2. decided # 0 /\ e \in Seq(ApprovalEvents) /\ \E k \in 1 .. Len(e) : e[k].kind = "decision"
    BY <1>4, <2>1, StitchDecides DEF Answered
  <2>3. PICK tail \in {<<>>, <<Approval!Output>>} : events = e \o tail
    BY <1>4, <2>1 DEF Answered
  <2>4. Follows(e)
    BY <2>2, <2>3, OutputFollows
  <2>5. e # <<>>
    BY <2>2
  <2> QED
    BY <1>4, <2>1, <2>2, <2>4, <2>5
<1> QED
  BY <1>2, <1>3, <1>4

\* What passes ran as it was decided.
LEMMA ConsentHolds ==
  ASSUME ApprovalInv
  PROVE  Approval!ConsentDecides
<1>1. ApprovalTypes /\ ApprovalHolds /\ Recorded
  BY DEF ApprovalInv
<1>2. SUFFICES ASSUME Approval!Passes
               PROVE  LET guarded == {r \in ran : r.needed} IN
                      IF intent.decision = "approve" /\ decided # 0
                        THEN \E r \in guarded : guarded = {r} /\ r.consent /\ r.call = decided
                        ELSE guarded = {}
  BY DEF Approval!ConsentDecides
<1>3. Approval!Grade(policy, intent, events) /\ (Unasked \/ Answered \/ Exhausted)
  BY <1>1, <1>2 DEF Approval!Passes, Recorded
<1>4. CASE Exhausted
  <2>1. PICK e : Follows(e) /\ Len(events) \in 1 .. Len(events) /\ events[Len(events)].kind = "violation"
    BY <1>1, <1>4, RecordIs
  <2>2. PassedAt(policy, events, Len(events))
    BY <1>1, <1>3, <2>1, PassingPlaces
  <2> QED
    BY <2>1, <2>2 DEF PassedAt
<1>5. CASE ~Exhausted /\ Unasked
  <2>1. decided = 0
    BY <1>5 DEF Unasked
  <2>2. Follows(approvalItems)
    <3>1. PICK tail \in {<<>>, <<Approval!Output>>} : events = approvalItems \o tail
      BY <1>5 DEF Unasked
    <3>2. approvalItems \in Seq(ApprovalEvents)
      BY <1>1, ItemsFollow DEF ApprovalTypes
    <3> QED
      BY <3>1, <3>2, OutputFollows
  <2>3. \A r \in ran : ~r.needed
    BY <1>1, <1>3, <2>1, <2>2, UnaskedCallFails
  <2> QED
    BY <2>1, <2>3
<1>6. CASE Answered
  <2>1. decided # 0
    BY <1>6 DEF Answered
  <2> QED
    BY <1>1, <1>3, <1>6, <2>1, AnswersDecide
<1> QED
  BY <1>3, <1>4, <1>5, <1>6

\* What ran without a decision on record fails.
LEMMA BypassHolds ==
  ASSUME ApprovalInv
  PROVE  Approval!BypassIsGraded
<1>1. ApprovalTypes /\ ApprovalHolds /\ Recorded
  BY DEF ApprovalInv
<1>2. SUFFICES ASSUME stage = "recorded", Approval!Where("decision") = {}, NEW r \in ran,
                      r.needed, r.by = intent.agent,
                      \E i \in Approval!Where("result") : events[i].call = r.call
               PROVE  Approval!VerifyApprovalIntent /\ ~Approval!Grade(policy, intent, events)
  BY DEF Approval!BypassIsGraded
<1>3. Unasked \/ Answered \/ Exhausted
  BY <1>1, <1>2 DEF Recorded
<1>4. PICK e : /\ Follows(e)
               /\ \/ e = <<>>
                  \/ decided = 0 /\ e = approvalItems
                  \/ decided # 0 /\ e = Approval!Returned
                  \/ \E k \in 1 .. Len(e) : e[k].kind = "decision"
               /\ e = <<>> => \A i \in 1 .. Len(events) : events[i].kind # "result"
               /\ Exhausted => Len(events) \in 1 .. Len(events) /\ events[Len(events)].kind = "violation"
  BY <1>1, <1>3, RecordIs
<1>5. e # <<>>
  BY <1>2, <1>4 DEF Approval!Where
<1>6. \A k \in 1 .. Len(e) : k \in 1 .. Len(events) /\ events[k] = e[k]
  BY <1>4 DEF Follows
<1>7. \A k \in 1 .. Len(e) : e[k].kind # "decision"
  BY <1>2, <1>6 DEF Approval!Where
<1>8. \A k \in 1 .. Len(e) : e[k].kind = "request" /\ e[k].tool = "target" /\ e[k].agent = intent.agent
        => Approval!VerifyApprovalIntent
  BY <1>1, <1>2, <1>6 DEF Approval!VerifyApprovalIntent, Approval!Undecided, Approval!Where, ApprovalTypes
<1>9. CASE decided = 0 /\ e = approvalItems
  <2>1. /\ ~Approval!Grade(policy, intent, events)
        /\ \E n \in 1 .. Len(approvalItems) :
             /\ approvalItems[n].kind = "request" /\ approvalItems[n].tool = "target"
             /\ approvalItems[n].agent = r.by
    BY <1>1, <1>2, <1>4, <1>9, UnaskedCallFails
  <2> QED
    BY <1>2, <1>8, <1>9, <2>1
<1>10. CASE decided # 0 /\ e = Approval!Returned
  <2>1. Interrupted(decided, intent.agent, mark) /\ mark \in 1 .. Len(approvalItems)
    BY <1>1, <1>10 DEF ApprovalHolds
  <2>2. PICK i \in 1 .. mark :
          /\ approvalItems[i].kind = "request" /\ approvalItems[i].tool = "target"
          /\ approvalItems[i].agent = intent.agent
    BY <2>1 DEF Interrupted, IsCall
  <2>3. i \in 1 .. Len(e) /\ e[i] = approvalItems[i]
    <3>1. PICK s, n : s = approvalItems /\ n = mark
      OBVIOUS
    <3>2. /\ s \in Seq(ApprovalItems) /\ Len(s) \in Nat
          /\ n \in 1 .. Len(s) /\ i \in 1 .. n /\ e = SubSeq(s, 1, n)
      BY <1>1, <1>10, <2>1, <2>2, <3>1, LenProperties DEF ApprovalTypes, Approval!Returned
    <3>3. 1 \in 1 .. Len(s) + 1 /\ n \in 0 .. Len(s) /\ 1 <= n + 1 /\ n - 1 + 1 = n /\ 1 + i - 1 = i
      BY <3>2
    <3>4. /\ Len(SubSeq(s, 1, n)) = n - 1 + 1
          /\ \A j \in 1 .. n - 1 + 1 : SubSeq(s, 1, n)[j] = s[1 + j - 1]
      BY <3>2, <3>3, Cut
    <3> QED
      BY <3>1, <3>2, <3>3, <3>4
  <2>4. ~Approval!Grade(policy, intent, events)
    <3>1. Exhausted
      <4>1. ~Unasked
        BY <1>10 DEF Unasked
      <4>2. ~Answered
        <5>1. SUFFICES ASSUME Answered PROVE FALSE
          OBVIOUS
        <5>2. PICK d : d = Approval!Stitch(approvalItems)
          OBVIOUS
        <5>3. d \in Seq(ApprovalEvents) /\ \E k \in 1 .. Len(d) : d[k].kind = "decision"
          BY <1>1, <5>1, <5>2, StitchDecides DEF Answered
        <5>4. PICK tail \in {<<>>, <<Approval!Output>>} : events = d \o tail
          BY <5>1, <5>2 DEF Answered
        <5>5. Follows(d)
          BY <5>3, <5>4, OutputFollows
        <5>6. \A k \in 1 .. Len(d) : k \in 1 .. Len(events) /\ events[k] = d[k]
          BY <5>5 DEF Follows
        <5> QED
          BY <1>2, <5>3, <5>6 DEF Approval!Where
      <4> QED
        BY <1>3, <4>1, <4>2
    <3>2. Len(events) \in 1 .. Len(events) /\ events[Len(events)].kind = "violation"
      BY <1>4, <3>1
    <3>3. Approval!Grade(policy, intent, events) => PassedAt(policy, events, Len(events))
      BY <1>1, <1>4, <3>2, PassingPlaces
    <3> QED
      BY <3>2, <3>3 DEF PassedAt
  <2> QED
    BY <1>8, <2>2, <2>3, <2>4
<1> QED
  BY <1>4, <1>5, <1>7, <1>9, <1>10

\* A trial that passes ran the protected tool exactly when and as often as its decision said, and
\* one that ran it with no decision on record fails (adapters/openai_hitl_approval.py,
\* evidence/approval_intent.py, oracles/deterministic.py).
THEOREM ApprovalsAreGraded == Spec => []ApprovalIsGraded
<1> DEFINE I == part = "approval" => ApprovalInv
<1>1. Init => I
  BY OnePartBegins, ApprovalBegins
<1>2. I /\ [Next]_<<part, mcpVars, agentVars, approvalVars, effectsVars, flowVars, serversVars,
                    hostedVars>> => I'
  BY OnePartMoves, ApprovalStep
<1>3. I => ApprovalIsGraded
  BY ConsentHolds, BypassHolds DEF ApprovalIsGraded
<1> QED
  BY <1>1, <1>2, <1>3, PTL DEF Spec
=============================================================================
