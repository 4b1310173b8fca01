------------------------ MODULE BridgeEvidenceProofs ------------------------
(* The turns of a run behind a bridge, what its evidence says when it ends, and *)
(* that the verdict of the adapter is true, for every value of the constants of *)
(* Adapters.                                                                    *)
EXTENDS BridgeProofs

-----------------------------------------------------------------------------
(* A turn ends                                                                *)

\* Where the n items there were and the m calls of the turn go.
Joins(n, m) ==
  /\ items' \in Seq(BridgeItems) /\ Len(items) = n /\ Len(inflight) = m
  /\ \A i \in 1 .. n : items'[i] = items[i]
  /\ \A j \in Begun : /\ Becomes(items'[n + j], "request", inflight[j])
                      /\ Becomes(items'[n + m + j], "result", inflight[j])
                      /\ inflight[j].op = "done"
  /\ Begun \subseteq 1 .. m /\ Back = Begun /\ Asked \subseteq 1 .. n /\ Told \subseteq 1 .. n
  /\ Asked' = Asked \cup {n + j : j \in Begun} /\ Told' = Told \cup {n + m + j : j \in Begun}
  /\ Begun' = {}

\* What the end of a turn leaves.
LEMMA TurnJoins ==
  ASSUME Running, Mcp!EndTurn
  PROVE  /\ Ledger' /\ Serves' = Serves /\ Models' = Models /\ Drifts' = Drifts
         /\ pc = "agent_calls" /\ pc' = "agent_list" /\ kind' = kind /\ rec' = rec /\ hist' = hist
         /\ inflight' = <<>> /\ live' = live /\ served' = served /\ control' = control
         /\ cache' = cache /\ shown' = shown /\ outcome' = outcome /\ evidence' = evidence
         /\ Mcp!Controlled' = Mcp!Controlled /\ Before' = Before /\ After' = After
         /\ \E n, m \in Nat : Joins(n, m)
<1>1. /\ pc = "agent_calls" /\ pc' = "agent_list" /\ kind' = kind /\ rec' = rec /\ hist' = hist
      /\ inflight' = <<>> /\ live' = live /\ served' = served /\ control' = control
      /\ cache' = cache /\ shown' = shown /\ outcome' = outcome /\ evidence' = evidence
      /\ \A j \in 1 .. Len(inflight) : inflight[j].op = "done"
  BY DEF Mcp!EndTurn
<1>2. items \in Seq(BridgeItems) /\ inflight \in Seq(BridgeCalls) /\ Ledger
  BY DEF Running, BridgeTypes
<1>3. /\ Ledger' /\ Begun' = {} /\ Serves' = Serves /\ Models' = Models
      /\ Asked' = Asked \cup {Len(items) + j : j \in Begun}
      /\ Told' = Told \cup {Len(items) + Len(inflight) + j : j \in Begun}
  BY <1>2, LedgerTurns
<1>4. /\ items' \in Seq(BridgeItems) /\ Len(items) \in Nat /\ Len(inflight) \in Nat
      /\ \A i \in 1 .. Len(items) : items'[i] = items[i]
      /\ \A i \in 1 .. Len(inflight) :
           /\ Becomes(items'[Len(items) + i], "request", inflight[i])
           /\ Becomes(items'[Len(items) + Len(inflight) + i], "result", inflight[i])
  BY <1>2, TurnGrows
<1>5. /\ Begun \subseteq 1 .. Len(inflight) /\ Back = Begun
      /\ Asked \subseteq 1 .. Len(items) /\ Told \subseteq 1 .. Len(items)
  BY <1>1 DEF Begun, Back, Asked, Told
<1>6. Joins(Len(items), Len(inflight))
  BY <1>1, <1>3, <1>4, <1>5 DEF Joins
<1>7. Mcp!Controlled' = Mcp!Controlled /\ Before' = Before /\ After' = After /\ Drifts' = Drifts
  BY <1>1 DEF Mcp!Controlled, Mcp!Tools, Before, After, Mcp!BuildServer, Mcp!Drifted, Drifts, Mcp!Steps
<1> QED
  BY <1>1, <1>3, <1>4, <1>6, <1>7

\* A turn with no call of a controlled tool changes nothing here.
LEMMA IdleTurn ==
  ASSUME NEW n, NEW m, Joins(n, m), Begun = {}, kind' = kind
  PROVE  /\ Asked' = Asked /\ Told' = Told /\ (Separated' <=> Separated)
         /\ \A i \in Asked \cup Told : items'[i] = items[i]
<1>1. Asked' = Asked /\ Told' = Told /\ \A i \in Asked \cup Told : items'[i] = items[i]
  BY DEF Joins
<1> QED
  BY <1>1 DEF Separated

\* The calls of a first turn are not apart.
LEMMA FirstTurn ==
  ASSUME NEW n \in Nat, NEW m \in Nat, Joins(n, m), Asked = {}, Told = {}
  PROVE  ~Separated'
<1>1. Asked' = {n + j : j \in Begun} /\ Told' = {n + m + j : j \in Begun} /\ Begun \subseteq 1 .. m
  BY DEF Joins
<1>2. \A i, j \in 1 .. m : ~(n + m + i < n + j)
  OBVIOUS
<1> QED
  BY <1>1, <1>2 DEF Separated

\* A turn with one such call after a turn with one.
LEMMA SecondTurn ==
  ASSUME NEW n \in Nat, NEW m \in Nat, Joins(n, m), kind' = kind, rec' = rec, Paired,
         NEW x, Asked = {x}, NEW k, Told = {k}, NEW j, Begun = {j}, rec.first = items[k].ans,
         kind \in {"error", "schema", "identity"} => rec.second = inflight[j].ans
  PROVE  /\ TwoTold(x, k, n + j, n + m + j)'
         /\ Asked' = {x, n + j} /\ Told' = {k, n + m + j} /\ x < k /\ k < n + j
         /\ \A i \in Asked', l \in Told' : l < i => i = n + j /\ l = k
<1>1. /\ items'[x] = items[x] /\ items'[k] = items[k] /\ x \in 1 .. n /\ k \in 1 .. n /\ j \in 1 .. m
      /\ Becomes(items'[n + j], "request", inflight[j])
      /\ Becomes(items'[n + m + j], "result", inflight[j])
      /\ Asked' = {x, n + j} /\ Told' = {k, n + m + j}
  BY DEF Joins
<1>2. x < k /\ SameCall(items[x], items[k])
  BY DEF Paired
<1>3. k < n + j /\ n + j < n + m + j /\ x < n + m + j
  BY <1>1
<1> DEFINE p == n + j
           q == n + m + j
<1>4. /\ items'[x] = items[x] /\ items'[k] = items[k]
      /\ Becomes(items'[p], "request", inflight[j])
      /\ Becomes(items'[q], "result", inflight[j])
      /\ Asked' = {x, p} /\ Told' = {k, q}
      /\ x < k /\ k < p /\ p < q /\ x < q /\ x \in Nat /\ k \in Nat /\ p \in Nat /\ q \in Nat
  BY <1>1, <1>2, <1>3
<1> HIDE DEF p, q
<1>5. TwoTold(x, k, p, q)'
  BY <1>2, <1>4 DEF TwoTold, Becomes, SameCall
<1>6. \A i \in Asked', l \in Told' : l < i => i = p /\ l = k
  BY <1>4
<1> QED
  BY <1>4, <1>5, <1>6 DEF p, q

\* The recorder holds the answers of the turns that ended.
LEMMA TurnHolds ==
  ASSUME Running, Mcp!EndTurn
  PROVE  Holds'
<1>1. /\ Holds /\ Paired /\ rec.calls \in Nat
      /\ rec.calls = 1 => \/ Asked = {} /\ \E j : Begun = {j}
                          \/ Begun = {} /\ \E i : Asked = {i}
      /\ rec.calls = 2 => \/ Asked = {}
                          \/ \E i, j : Asked = {i} /\ Begun = {j}
                          \/ Begun = {}
      /\ Asked = {} <=> Told = {}
      /\ \A i : Asked = {i} => ~Separated
  BY RunFacts
<1>2. kind' = kind /\ rec' = rec
  BY TurnJoins
<1>3. PICK n \in Nat, m \in Nat : Joins(n, m)
  BY TurnJoins
<1>4. Begun' = {} /\ \A j \in Begun : inflight[j].op = "done"
  BY <1>3 DEF Joins
<1>5. CASE Begun = {}
  <2>1. /\ Asked' = Asked /\ Told' = Told /\ (Separated' <=> Separated)
        /\ \A i \in Asked \cup Told : items'[i] = items[i]
    BY <1>2, <1>3, <1>5, IdleTurn
  <2>2. \A k \in Told : OneTold(k) => OneTold(k)'
    BY <1>2, <2>1 DEF OneTold
  <2>3. \A i1, i2 \in Asked, k1, k2 \in Told : TwoTold(i1, k1, i2, k2) => TwoTold(i1, k1, i2, k2)'
    BY <1>2, <2>1 DEF TwoTold, SameCall
  <2>4. rec.calls = 1 /\ Asked # {} => \E k \in Told : OneTold(k)'
    BY <1>1, <2>2 DEF Holds
  <2>5. rec.calls = 2 /\ Separated =>
          \E i1, i2 \in Asked, k1, k2 \in Told : TwoTold(i1, k1, i2, k2)'
    <3> HAVE rec.calls = 2 /\ Separated
    <3>1. PICK i1 \in Asked, i2 \in Asked, k1 \in Told, k2 \in Told : TwoTold(i1, k1, i2, k2)
      BY <1>1 DEF Holds
    <3> QED
      BY <2>3, <3>1
  <2>6. kind \in {"error", "result"} =>
          /\ rec.calls = 1 => rec.receipt \/ Asked = {}
          /\ rec.calls = 2 /\ Asked # {} => rec.receipt \/ ~Separated
    BY <1>1, <1>5 DEF Holds
  <2> QED
    BY <1>2, <1>4, <2>1, <2>4, <2>5, <2>6 DEF Holds
<1>6. CASE Begun # {} /\ Asked = {}
  <2>1. ~Separated'
    BY <1>1, <1>3, <1>6, FirstTurn
  <2>2. rec.calls = 1 => /\ \E k \in Told' : OneTold(k)'
                         /\ kind \in {"error", "result"} => rec.receipt
    <3> HAVE rec.calls = 1
    <3>1. PICK j : Begun = {j}
      BY <1>1, <1>6
    <3>2. rec.first = inflight[j].ans /\ (kind \in {"error", "result"} => rec.receipt)
      BY <1>1, <1>4, <3>1 DEF Holds
    <3>3. /\ Told' = {n + m + j} /\ Becomes(items'[n + m + j], "result", inflight[j])
      BY <1>1, <1>3, <1>6, <3>1 DEF Joins
    <3> DEFINE q == n + m + j
    <3>4. Told' = {q} /\ items'[q].ans = inflight[j].ans
      BY <3>3 DEF Becomes
    <3> HIDE DEF q
    <3>5. OneTold(q)'
      BY <1>2, <3>2, <3>4 DEF OneTold
    <3> QED
      BY <3>2, <3>4, <3>5
  <2>3. rec.calls = 2 /\ kind \in {"error", "result"} => rec.receipt \/ ~Separated'
    BY <2>1
  <2> QED
    BY <1>2, <1>4, <2>1, <2>2 DEF Holds
<1>7. CASE Begun # {} /\ Asked # {}
  <2>1. rec.calls # 1
    BY <1>1, <1>7
  <2>2. rec.calls = 2 =>
          /\ \E i1, i2 \in Asked', k1, k2 \in Told' : TwoTold(i1, k1, i2, k2)'
          /\ kind \in {"error", "result"} => rec.receipt
    <3> HAVE rec.calls = 2
    <3>1. PICK x, j : Asked = {x} /\ Begun = {j}
      BY <1>1, <1>7
    <3>2. PICK k \in Told : OneTold(k)
      BY <1>1, <1>7 DEF Holds
    <3>3. /\ kind \in {"error", "schema", "identity"} => rec.second = inflight[j].ans
          /\ kind \in {"error", "result"} => rec.receipt
      BY <1>1, <1>4, <1>7, <3>1 DEF Holds
    <3>4. Told = {k} /\ rec.first = items[k].ans
      BY <3>2 DEF OneTold
    <3>5. TwoTold(x, k, n + j, n + m + j)' /\ Asked' = {x, n + j} /\ Told' = {k, n + m + j}
      <4>1. Paired
        BY <1>1
      <4> QED
        BY <1>2, <1>3, <3>1, <3>3, <3>4, <4>1, SecondTurn
    <3> QED
      BY <3>3, <3>5
  <2> QED
    BY <1>2, <1>4, <2>1, <2>2 DEF Holds
<1> QED
  BY <1>5, <1>6, <1>7

\* The story goes on when a turn ends.
LEMMA TurnStory ==
  ASSUME Running, Mcp!EndTurn, kind \in Mcp!DiscoveryFaults
  PROVE  Discovery'
<1>1. /\ Holds /\ Paired /\ rec.calls \in Nat /\ Discovery /\ Stations
      /\ rec.calls = 0 => Asked = {} /\ Begun = {}
      /\ rec.calls = 1 => \/ Asked = {} /\ \E j : Begun = {j}
                          \/ Begun = {} /\ \E i : Asked = {i}
      /\ rec.calls = 2 => \/ Asked = {}
                          \/ \E i, j : Asked = {i} /\ Begun = {j}
                          \/ Begun = {}
      /\ Asked = {} <=> Told = {}
      /\ Mcp!DiscoveryFaults = {"stale", "schema", "identity"}
  BY RunFacts
<1>2. /\ kind' = kind /\ rec' = rec /\ hist' = hist /\ cache' = cache /\ shown' = shown
      /\ pc = "agent_calls" /\ pc' = "agent_list" /\ evidence' = evidence
      /\ Serves' = Serves /\ Models' = Models /\ Drifts' = Drifts
      /\ Before' = Before /\ After' = After
  BY TurnJoins
<1>3. PICK n \in Nat, m \in Nat : Joins(n, m)
  BY TurnJoins
<1>4. Begun' = {} /\ \A j \in Begun : inflight[j].op = "done"
  BY <1>3 DEF Joins
<1>5. Kept => Kept'
  BY <1>2 DEF Kept
<1>6. rec.calls = 0 => NotBegun' /\ Drifts' = {}
  BY <1>1, <1>2 DEF Discovery, NotBegun
<1>7. ASSUME rec.calls = 1, Drifts # {}
      PROVE  OneCall'
  <2>1. CASE Begun = {}
    <3>1. /\ Asked' = Asked /\ Told' = Told /\ \A i \in Asked \cup Told : items'[i] = items[i]
      BY <1>2, <1>3, <2>1, IdleTurn
    <3>2. OneCall
      BY <1>1, <1>7, <2>1 DEF Discovery
    <3>3. Refreshed' /\ Kept' /\ rec'.cached = Before'
      BY <1>2, <1>5, <3>2 DEF OneCall, Rested, Refreshed
    <3>4. \A k \in Told' : items'[k].tool = "old" /\ Reported(k)'
      BY <1>2, <3>1, <3>2 DEF OneCall, Reported
    <3> QED
      BY <3>3, <3>4 DEF OneCall
  <2>2. CASE Begun # {}
    <3>1. PICK j : Begun = {j} /\ Asked = {} /\ Told = {}
      BY <1>1, <1>7, <2>2
    <3>2. FirstCall(j) /\ inflight[j].op = "done"
      BY <1>1, <1>4, <1>7, <3>1 DEF Discovery
    <3>3. /\ Kept /\ rec.refreshed = Mcp!NoListing /\ rec.later = Mcp!NoListing
          /\ inflight[j].tool = "old"
          /\ rec.marks = Marks5 /\ rec.cached = Before /\ cache = Mcp!NoListing
      BY <3>2 DEF FirstCall
    <3>4. ~Mcp!Ended'
      <4>1. evidence' = <<>>
        BY <1>1, <1>2 DEF Stations
      <4> QED
        BY <4>1 DEF Mcp!Ended
    <3>5. Rested'
      BY <1>2, <3>3, <3>4 DEF Rested
    <3>6. Told' = {n + m + j} /\ Becomes(items'[n + m + j], "result", inflight[j])
      BY <1>3, <3>1 DEF Joins
    <3>7. \A k \in Told' : items'[k].tool = "old"
      BY <3>3, <3>6 DEF Becomes, SameCall
    <3>8. \A k \in Told' : Reported(k)'
      BY <1>2, <3>3 DEF Reported
    <3> QED
      BY <1>2, <1>5, <3>3, <3>5, <3>7, <3>8 DEF OneCall
  <2> QED
    BY <2>1, <2>2
<1>8. ASSUME rec.calls = 2, Drifts # {}, kind # "stale", Separated'
      PROVE  TwoCalls'
  <2>1. CASE Begun = {}
    <3>1. /\ Asked' = Asked /\ Told' = Told /\ (Separated' <=> Separated)
          /\ \A i \in Asked \cup Told : items'[i] = items[i]
      BY <1>2, <1>3, <2>1, IdleTurn
    <3>2. TwoCalls
      BY <1>1, <1>8, <3>1 DEF Discovery
    <3> QED
      BY <1>2, <1>5, <3>1, <3>2 DEF TwoCalls
  <2>2. CASE Begun # {}
    <3>1. Asked # {}
      BY <1>1, <1>3, <1>8, FirstTurn
    <3>2. PICK x, j : Asked = {x} /\ Begun = {j}
      BY <1>1, <1>8, <2>2, <3>1
    <3>3. PICK k \in Told : OneTold(k)
      BY <1>1, <1>8, <2>2, <3>1 DEF Holds
    <3>4. kind \in {"error", "schema", "identity"} => rec.second = inflight[j].ans
      BY <1>1, <1>4, <1>8, <2>2, <3>1, <3>2 DEF Holds
    <3>5. Told = {k} /\ rec.first = items[k].ans
      BY <3>3 DEF OneTold
    <3>6. \A i \in Asked', l \in Told' : l < i => i = n + j /\ l = k
      BY <1>1, <1>2, <1>3, <3>2, <3>4, <3>5, SecondTurn
    <3>7. SecondCall(j) /\ inflight[j].op = "done"
      BY <1>1, <1>4, <1>8, <3>1, <3>2 DEF Discovery
    <3>8. /\ Kept /\ rec.cached = Before /\ rec.refreshed = After /\ rec.marks = Marks7
          /\ kind = "identity" => rec.later = After /\ rec.tool2 = inflight[j].tool
          /\ items[k].tool = "old"
      BY <3>7 DEF SecondCall
    <3>9. items'[k] = items[k] /\ Becomes(items'[n + j], "request", inflight[j])
      BY <1>3, <3>2 DEF Joins
    <3>10. \A i \in Asked', l \in Told' : l < i =>
             /\ items'[l].tool = "old"
             /\ kind = "identity" => rec.tool2 = items'[i].tool
      BY <3>6, <3>8, <3>9 DEF Becomes, SameCall
    <3> QED
      BY <1>2, <1>5, <3>8, <3>10 DEF TwoCalls
  <2> QED
    BY <2>1, <2>2
<1> QED
  BY <1>2, <1>4, <1>6, <1>7, <1>8 DEF Discovery

\* A turn ends.
LEMMA TurnStep ==
  ASSUME Running, Mcp!EndTurn
  PROVE  Running'
<1>1. /\ BridgeTypes /\ Stations /\ Changed /\ Worded
  BY DEF Running, Story
<1>2. /\ Ledger' /\ Serves' = Serves /\ Models' = Models /\ Drifts' = Drifts
      /\ pc = "agent_calls" /\ pc' = "agent_list" /\ kind' = kind /\ rec' = rec /\ hist' = hist
      /\ inflight' = <<>> /\ live' = live /\ served' = served /\ control' = control
      /\ cache' = cache /\ shown' = shown /\ outcome' = outcome /\ evidence' = evidence
      /\ Before' = Before /\ After' = After
  BY TurnJoins
<1>3. PICK n \in Nat, m \in Nat : Joins(n, m)
  BY TurnJoins
<1>4. BridgeTypes'
  BY <1>1, <1>2, <1>3 DEF BridgeTypes, Joins
<1>5. Stations'
  BY <1>1, <1>2 DEF Stations
<1>6. Stepping'
  BY <1>2 DEF Stepping
<1>7. Changed'
  BY <1>1, <1>2 DEF Changed
<1>8. kind = "metadata" => Metadata'
  <2> HAVE kind = "metadata"
  <2>1. Metadata
    BY DEF Running, Story
  <2>2. ~Mcp!Ended'
    <3>1. evidence' = <<>>
      BY <1>1, <1>2 DEF Stations
    <3> QED
      BY <3>1 DEF Mcp!Ended
  <2> QED
    BY <1>2, <2>1, <2>2 DEF Metadata
<1>9. Worded'
  <2>1. kind = "identity" => \A k \in Told' : items'[k].ans.text = "replacement" => items'[k].tool = "new"
    <3> HAVE kind = "identity"
    <3>1. /\ \A k \in Told : items[k].ans.text = "replacement" => items[k].tool = "new"
          /\ \A j \in Begun : inflight[j].ans.text = "replacement" => inflight[j].tool = "new"
      BY <1>1, <1>3 DEF Worded, Joins
    <3>2. \A k \in Told : items'[k] = items[k]
      BY <1>3 DEF Joins
    <3>3. \A j \in Begun : /\ items'[n + m + j].ans = inflight[j].ans
                           /\ items'[n + m + j].tool = inflight[j].tool
      BY <1>3 DEF Joins, Becomes, SameCall
    <3>4. Told' = Told \cup {n + m + j : j \in Begun}
      BY <1>3 DEF Joins
    <3> QED
      BY <3>1, <3>2, <3>3, <3>4
  <2>2. Back' = {}
    BY <1>2 DEF Back, Begun
  <2> QED
    BY <1>1, <1>2, <2>1, <2>2 DEF Worded
<1>10. Poisoned'
  BY <1>2 DEF Poisoned
<1>11. kind \in Mcp!DiscoveryFaults => Discovery'
  BY TurnStory
<1> QED
  BY <1>2, <1>4, <1>5, <1>6, <1>7, <1>8, <1>9, <1>10, <1>11, TurnHolds DEF Running, Story, Mcp!DiscoveryFaults

-----------------------------------------------------------------------------
(* Evidence that tells of one call, and of two                                *)

OneIn(ev, a, k) ==
  /\ a \in Nat /\ k \in Nat /\ a < k
  /\ Mcp!Requests(ev) = {a} /\ Mcp!Results(ev, ev[a].id) = {k} /\ SameCall(ev[a], ev[k])
TwoIn(ev, x, k, y, l) ==
  /\ x \in Nat /\ k \in Nat /\ y \in Nat /\ l \in Nat /\ x < k /\ k < y /\ y < l
  /\ Mcp!Requests(ev) = {x, y}
  /\ Mcp!Results(ev, ev[x].id) = {k} /\ SameCall(ev[x], ev[k])
  /\ Mcp!Results(ev, ev[y].id) = {l} /\ SameCall(ev[y], ev[l])

\* The only result of a call.
LEMMA OnlyResult ==
  ASSUME NEW ev, NEW id, Len(ev) \in Nat
  PROVE  /\ \A k : Mcp!Results(ev, id) = {k} => Mcp!Once(ev, id) /\ Mcp!Result(ev, id) = k
         /\ \A k \in Mcp!Results(ev, id) : Mcp!Once(ev, id) => Mcp!Results(ev, id) = {k}
<1> DEFINE R == Mcp!Results(ev, id)
<1>1. IsFiniteSet(R)
  <2>1. R \in SUBSET (1 .. Len(ev))
    BY DEF Mcp!Results
  <2> QED
    BY <2>1, Positions
<1>2. Mcp!Once(ev, id) <=> Cardinality(R) = 1
  BY BridgeCardinality DEF Mcp!Once
<1>3. Cardinality(R) = 1 <=> \E x : R = {x}
  BY <1>1, OneOrTwo
<1>4. \A k : R = {k} => Mcp!Result(ev, id) = k
  BY DEF Mcp!Result
<1> HIDE DEF R
<1>5. /\ \A k : R = {k} => Mcp!Once(ev, id) /\ Mcp!Result(ev, id) = k
      /\ \A k \in R : Mcp!Once(ev, id) => R = {k}
  BY <1>2, <1>3, <1>4
<1> QED
  BY <1>5 DEF R

\* The first and the second request.
LEMMA RequestsInOrder ==
  ASSUME NEW ev
  PROVE  /\ \A a \in Nat : Mcp!Requests(ev) = {a} =>
              Mcp!Cardinality(Mcp!Requests(ev)) = 1 /\ Mcp!Request(ev, 1) = a
         /\ \A x, y \in Nat : x < y /\ Mcp!Requests(ev) = {x, y} =>
              /\ Mcp!Cardinality(Mcp!Requests(ev)) = 2
              /\ Mcp!Request(ev, 1) = x /\ Mcp!Request(ev, 2) = y
<1> DEFINE R == Mcp!Requests(ev)
           upto(i) == {j \in R : j <= i}
<1>1. \A n : Mcp!Request(ev, n) = CHOOSE i \in R : Cardinality(upto(i)) = n
  BY BridgeCardinality DEF Mcp!Request
<1>2. \A z : Cardinality({z}) = 1
  BY FS_Singleton
<1>3. \A S : Mcp!Cardinality(S) = Cardinality(S)
  BY BridgeCardinality
<1> HIDE DEF R
<1>4. ASSUME NEW a \in Nat, R = {a}
      PROVE  Mcp!Cardinality(R) = 1 /\ Mcp!Request(ev, 1) = a
  <2>1. upto(a) = {a}
    BY <1>4
  <2>2. Cardinality(R) = 1 /\ Cardinality(upto(a)) = 1
    BY <1>2, <1>4, <2>1
  <2> QED
    BY <1>1, <1>3, <1>4, <2>2
<1>5. ASSUME NEW x \in Nat, NEW y \in Nat, x < y, R = {x, y}
      PROVE  /\ Mcp!Cardinality(R) = 2
             /\ Mcp!Request(ev, 1) = x /\ Mcp!Request(ev, 2) = y
  <2>1. upto(x) = {x} /\ upto(y) = {x, y} /\ x # y
    BY <1>5
  <2>2. Cardinality({x, y}) = 2
    <3>1. IsFiniteSet({x}) /\ IsFiniteSet({y}) /\ {x, y} = {x} \cup {y}
      BY FS_Singleton
    <3> DEFINE S == {x, y}
    <3>2. IsFiniteSet(S)
      BY <3>1, FS_Union
    <3> HIDE DEF S
    <3>3. Cardinality(S) = 2
      BY <2>1, <3>2, OneOrTwo DEF S
    <3> QED
      BY <3>3 DEF S
  <2>3. Cardinality(R) = 2 /\ Cardinality(upto(x)) = 1 /\ Cardinality(upto(y)) = 2
    BY <1>2, <1>5, <2>1, <2>2
  <2>4. (CHOOSE i \in R : Cardinality(upto(i)) = 1) = x
    BY <1>5, <2>3
  <2>5. (CHOOSE i \in R : Cardinality(upto(i)) = 2) = y
    BY <1>5, <2>3
  <2> QED
    BY <1>1, <1>3, <2>3, <2>4, <2>5
<1>6. /\ \A a \in Nat : R = {a} => Mcp!Cardinality(R) = 1 /\ Mcp!Request(ev, 1) = a
      /\ \A x, y \in Nat : x < y /\ R = {x, y} =>
           Mcp!Cardinality(R) = 2 /\ Mcp!Request(ev, 1) = x /\ Mcp!Request(ev, 2) = y
  BY <1>4, <1>5
<1> QED
  BY <1>6 DEF R

\* What an adapter reads in evidence of one call,
LEMMA OneReads ==
  ASSUME NEW ev, NEW a, NEW k, Len(ev) \in Nat, OneIn(ev, a, k)
  PROVE  /\ Mcp!Cardinality(Mcp!Requests(ev)) = 1 /\ Mcp!Request(ev, 1) = a
         /\ Mcp!Once(ev, ev[a].id) /\ Mcp!Result(ev, ev[a].id) = k /\ a < k
BY OnlyResult, RequestsInOrder DEF OneIn

\* and in evidence of two.
LEMMA TwoReads ==
  ASSUME NEW ev, NEW x, NEW k, NEW y, NEW l, Len(ev) \in Nat, TwoIn(ev, x, k, y, l)
  PROVE  /\ Mcp!Cardinality(Mcp!Requests(ev)) = 2 /\ Mcp!Request(ev, 1) = x /\ Mcp!Request(ev, 2) = y
         /\ Mcp!Once(ev, ev[x].id) /\ Mcp!Result(ev, ev[x].id) = k
         /\ Mcp!Once(ev, ev[y].id) /\ Mcp!Result(ev, ev[y].id) = l
         /\ ev[x].id # ev[y].id /\ x < k /\ k < y /\ y < l
         /\ Mcp!InTurn(ev)
<1>1. /\ x \in Nat /\ k \in Nat /\ y \in Nat /\ l \in Nat /\ x < k /\ k < y /\ y < l
      /\ Mcp!Requests(ev) = {x, y}
      /\ Mcp!Results(ev, ev[x].id) = {k} /\ Mcp!Results(ev, ev[y].id) = {l}
  BY DEF TwoIn
<1>2. Mcp!Cardinality(Mcp!Requests(ev)) = 2 /\ Mcp!Request(ev, 1) = x /\ Mcp!Request(ev, 2) = y
  <2>1. x < y
    BY <1>1
  <2> QED
    BY <1>1, <2>1, RequestsInOrder
<1>3. /\ Mcp!Once(ev, ev[x].id) /\ Mcp!Result(ev, ev[x].id) = k
      /\ Mcp!Once(ev, ev[y].id) /\ Mcp!Result(ev, ev[y].id) = l
  BY <1>1, OnlyResult
<1>4. ev[x].id # ev[y].id
  BY <1>1
<1>5. Mcp!InTurn(ev)
  BY <1>1, <1>2, <1>3, <1>4 DEF Mcp!InTurn
<1> QED
  BY <1>1, <1>2, <1>3, <1>4, <1>5

-----------------------------------------------------------------------------
(* What the evidence of a run that ended says                                 *)

\* The events of a result, and a run that ended with an output.
BridgeEvents == [kind : {"request", "result", "output", "violation", "delivery"}, tool : ToolNames,
           args : Mcp!Arguments, id : Nat, ans : Mcp!Answers \cup {Mcp!NoAnswer}]
Finished == Running /\ inflight = <<>> /\ evidence = Append(items, Mcp!Mark("output"))

\* The evidence of such a run is its items and the output.
LEMMA FinalEvidence ==
  ASSUME Finished
  PROVE  /\ evidence \in Seq(BridgeEvents) /\ Len(evidence) \in Nat /\ Mcp!Ended
         /\ pc \in {"agent_end", "agent_attach"}
         /\ \A i \in Asked \cup Told : evidence[i] = items[i]
         /\ Mcp!Requests(evidence) = Asked
         /\ \A k \in Told : k \in Mcp!Results(evidence, items[k].id)
         /\ \A i \in 1 .. Len(evidence) : evidence[i].kind \in {"request", "result", "output"}
<1> DEFINE o == Mcp!Mark("output")
<1>1. items \in Seq(BridgeItems) /\ evidence = Append(items, o)
  BY DEF Finished, Running, BridgeTypes
<1>2. o \in BridgeEvents /\ o.kind = "output"
  BY DEF Mcp!Mark, BridgeEvents, ToolNames, Mcp!Arguments
<1>3. Len(items) \in Nat /\ \A i \in 1 .. Len(items) : items[i] \in BridgeItems
  BY <1>1, LenProperties, ElementOfSeq
<1>4. items \in Seq(BridgeEvents)
  <2>1. BridgeItems \subseteq BridgeEvents
    BY DEF BridgeItems, BridgeEvents
  <2> QED
    BY <1>1, <2>1
<1> HIDE DEF o
<1>5. /\ evidence \in Seq(BridgeEvents) /\ Len(evidence) = Len(items) + 1
      /\ \A i \in 1 .. Len(items) : evidence[i] = items[i]
      /\ evidence[Len(items) + 1] = o
  BY <1>1, <1>2, <1>4, Appended
<1>6. Mcp!Ended
  BY <1>2, <1>3, <1>5 DEF Mcp!Ended
<1>7. Asked \cup Told \subseteq 1 .. Len(items)
  BY DEF Asked, Told
<1>8. Mcp!Requests(evidence) = Asked
  BY <1>2, <1>3, <1>5 DEF Mcp!Requests, Asked
<1>9. \A k \in Told : k \in Mcp!Results(evidence, items[k].id)
  BY <1>3, <1>5, <1>7 DEF Mcp!Results, Told
<1>10. \A i \in 1 .. Len(evidence) : evidence[i].kind \in {"request", "result", "output"}
  <2> TAKE i \in 1 .. Len(evidence)
  <2>1. CASE i \in 1 .. Len(items)
    BY <1>3, <1>5, <2>1 DEF BridgeItems
  <2>2. CASE i = Len(items) + 1
    BY <1>2, <1>5, <2>2
  <2> QED
    BY <1>3, <1>5, <2>1, <2>2
<1>11. pc \in {"agent_end", "agent_attach"}
  <2>1. evidence # <<>>
    BY <1>3, <1>5
  <2> QED
    BY <2>1 DEF Finished, Running, Stations
<1> QED
  BY <1>3, <1>5, <1>6, <1>7, <1>8, <1>9, <1>10, <1>11

\* The calls the recorder counted were asked, and served.
LEMMA CallsMade ==
  ASSUME Running, inflight = <<>>
  PROVE  /\ Begun = {} /\ Back = {} /\ IsFiniteSet(Asked) /\ IsFiniteSet(Serves)
         /\ rec.calls = Cardinality(Asked) /\ rec.calls = Cardinality(Serves)
         /\ Asked \subseteq Nat /\ Told \subseteq Nat /\ Serves \subseteq Nat /\ Models \subseteq Nat
<1>1. Begun = {} /\ Back = {}
  BY DEF Begun, Back
<1>2. /\ Counted /\ Len(items) \in Nat /\ hist \in Seq(Happenings) /\ Len(hist) \in Nat
  BY RunFacts, LenProperties
<1>3. Cardinality(Begun) = 0 /\ Cardinality(Back) = 0
  BY <1>1, FS_EmptySet
<1>4. /\ Asked \subseteq 1 .. Len(items) /\ Told \subseteq 1 .. Len(items)
      /\ Serves \subseteq 1 .. Len(hist) /\ Models \subseteq 1 .. Len(hist)
  BY DEF Asked, Told, Serves, Models, Mcp!Steps
<1>5. /\ IsFiniteSet(Asked) /\ IsFiniteSet(Serves)
      /\ Cardinality(Asked) \in Nat /\ Cardinality(Serves) \in Nat
  BY <1>2, <1>4, Positions
<1> QED
  BY <1>1, <1>2, <1>3, <1>4, <1>5 DEF Counted

\* One call: its request, its result, and what the server did.
Single1(a, k, s) ==
  /\ Asked = {a} /\ Told = {k} /\ Serves = {s} /\ a < k /\ a \in Nat /\ k \in Nat
  /\ SameCall(items[a], items[k]) /\ Same(s, items[k]) /\ rec.first = items[k].ans
  /\ items[k].ans \in Replies /\ items[k].ans.args = items[k].args

\* A run of one controlled call went through it once.
LEMMA OneStory ==
  ASSUME Finished, rec.calls = 1
  PROVE  \E a, k, s : /\ Single1(a, k, s)
                      /\ Mcp!Once(evidence, items[a].id) => OneIn(evidence, a, k)
<1>1. Running /\ inflight = <<>>
  BY DEF Finished
<1>2. /\ Begun = {} /\ Back = {} /\ IsFiniteSet(Asked) /\ IsFiniteSet(Serves)
      /\ Cardinality(Asked) = 1 /\ Cardinality(Serves) = 1
      /\ Asked \subseteq Nat /\ Told \subseteq Nat
  BY <1>1, CallsMade
<1>3. PICK a : Asked = {a}
  BY <1>2, OneOrTwo
<1>4. PICK s : Serves = {s}
  BY <1>2, OneOrTwo
<1>5. Holds /\ Paired /\ Matched
  BY <1>1, RunFacts DEF Ledger
<1>6. PICK k \in Told : Told = {k} /\ rec.first = items[k].ans
  BY <1>3, <1>5 DEF Holds, OneTold
<1>7. a < k /\ SameCall(items[a], items[k])
  BY <1>3, <1>5, <1>6 DEF Paired
<1>8. items[k].ans \in Replies /\ items[k].ans.args = items[k].args
  BY <1>5 DEF Paired
<1>9. Same(s, items[k])
  BY <1>4, <1>5, <1>6 DEF Matched
<1>10. Single1(a, k, s)
  BY <1>2, <1>3, <1>4, <1>6, <1>7, <1>8, <1>9 DEF Single1
<1>11. ASSUME Mcp!Once(evidence, items[a].id)
       PROVE  OneIn(evidence, a, k)
  <2>1. /\ Len(evidence) \in Nat /\ evidence[a] = items[a] /\ evidence[k] = items[k]
        /\ Mcp!Requests(evidence) = {a} /\ k \in Mcp!Results(evidence, items[k].id)
    BY <1>3, FinalEvidence
  <2>2. k \in Mcp!Results(evidence, items[a].id)
    BY <1>7, <2>1 DEF SameCall
  <2>3. Mcp!Results(evidence, items[a].id) = {k}
    BY <1>11, <2>1, <2>2, OnlyResult
  <2> QED
    BY <1>2, <1>3, <1>7, <2>1, <2>3 DEF OneIn
<1> QED
  BY <1>10, <1>11

\* Two calls of two turns, and the model between them.
Double(x, k, y, l, s, t, m) ==
  /\ TwoTold(x, k, y, l) /\ Serves = {s, t} /\ m \in Models /\ s < m /\ m < t /\ s < t
  /\ Same(s, items[k]) /\ Same(t, items[l]) /\ s \in Nat /\ t \in Nat
  /\ items[k].ans \in Replies /\ items[k].ans.args = items[k].args
  /\ items[l].ans \in Replies /\ items[l].ans.args = items[l].args

\* A run of two controlled calls in two turns went through them in order, with the model between.
LEMMA TwoStories ==
  ASSUME Finished, rec.calls = 2, Separated
  PROVE  \E x, k, y, l, s, t, m :
           /\ Double(x, k, y, l, s, t, m)
           /\ Mcp!Once(evidence, items[x].id) /\ Mcp!Once(evidence, items[y].id) =>
                TwoIn(evidence, x, k, y, l)
<1>1. Running /\ inflight = <<>>
  BY DEF Finished
<1>2. /\ Begun = {} /\ Back = {} /\ IsFiniteSet(Serves) /\ Cardinality(Serves) = 2
      /\ Asked \subseteq Nat /\ Told \subseteq Nat /\ Serves \subseteq Nat /\ Models \subseteq Nat
  BY <1>1, CallsMade
<1>3. Holds /\ Paired /\ Ordered
  BY <1>1, RunFacts DEF Ledger
<1>4. PICK x \in Asked, y \in Asked, k \in Told, l \in Told : TwoTold(x, k, y, l)
  BY <1>3 DEF Holds
<1>5. /\ Asked = {x, y} /\ Told = {k, l} /\ x < k /\ k < y /\ y < l
      /\ SameCall(items[x], items[k]) /\ SameCall(items[y], items[l])
      /\ x \in Nat /\ k \in Nat /\ y \in Nat /\ l \in Nat
  BY <1>2, <1>4 DEF TwoTold
<1>6. PICK s \in Serves, t \in Serves, m \in Models, o \in Told :
        s < m /\ m < t /\ Same(s, items[k]) /\ Apart(k, y, o) /\ Same(t, items[o])
  BY <1>3, <1>5 DEF Ordered
<1>7. o = l
  BY <1>5, <1>6 DEF Apart
<1>8. s < t /\ s # t /\ s \in Nat /\ t \in Nat
  BY <1>2, <1>6
<1>9. Serves = {s, t}
  <2>1. PICK u, v : u # v /\ Serves = {u, v}
    BY <1>2, OneOrTwo
  <2> QED
    BY <1>8, <2>1
<1>10. /\ items[k].ans \in Replies /\ items[k].ans.args = items[k].args
       /\ items[l].ans \in Replies /\ items[l].ans.args = items[l].args
  BY <1>3 DEF Paired
<1>11. Double(x, k, y, l, s, t, m)
  BY <1>4, <1>6, <1>7, <1>8, <1>9, <1>10 DEF Double
<1>12. ASSUME Mcp!Once(evidence, items[x].id), Mcp!Once(evidence, items[y].id)
       PROVE  TwoIn(evidence, x, k, y, l)
  <2>1. /\ Len(evidence) \in Nat /\ evidence[x] = items[x] /\ evidence[k] = items[k]
        /\ evidence[y] = items[y] /\ evidence[l] = items[l]
        /\ Mcp!Requests(evidence) = {x, y}
        /\ k \in Mcp!Results(evidence, items[k].id) /\ l \in Mcp!Results(evidence, items[l].id)
    BY <1>5, FinalEvidence
  <2>2. k \in Mcp!Results(evidence, items[x].id) /\ l \in Mcp!Results(evidence, items[y].id)
    BY <1>5, <2>1 DEF SameCall
  <2>3. Mcp!Results(evidence, items[x].id) = {k} /\ Mcp!Results(evidence, items[y].id) = {l}
    BY <1>12, <2>1, <2>2, OnlyResult
  <2> QED
    BY <1>5, <2>1, <2>3 DEF TwoIn
<1> QED
  BY <1>11, <1>12

-----------------------------------------------------------------------------
(* What an adapter demands is what happened                                   *)

\* An answer of the server.
LEMMA ReplyIs ==
  ASSUME NEW r \in Replies
  PROVE  /\ r # Mcp!NoAnswer /\ r.error \in BOOLEAN /\ (r.error <=> r.text \in Failures)
         /\ r \in Mcp!Answers /\ r = Mcp!Answer(r.text, r.error, r.args)
<1>1. r \in Mcp!Answers /\ (r.error <=> r.text \in Failures)
  BY DEF Replies
<1>2. r = Mcp!Answer(r.text, r.error, r.args) /\ r.error \in BOOLEAN /\ r.text # "none"
  BY <1>1 DEF Mcp!Answers, Mcp!Answer, Mcp!Texts
<1> QED
  BY <1>1, <1>2 DEF Mcp!NoAnswer

\* A bridge of one call: the evidence has one request, or the server ran one call.
LEMMA OneOnly ==
  ASSUME Finished
  PROVE  /\ Mcp!Cardinality(Mcp!Requests(evidence)) = 1 => rec.calls = 1
         /\ \A s : Serves = {s} => rec.calls = 1
<1>1. /\ rec.calls = Cardinality(Asked) /\ rec.calls = Cardinality(Serves)
  BY CallsMade DEF Finished
<1>2. Mcp!Cardinality(Mcp!Requests(evidence)) = Cardinality(Asked)
  BY FinalEvidence, BridgeCardinality
<1> QED
  BY <1>1, <1>2, FS_Singleton

\* A poisoned result: the event is added exactly when the one call was served the poison.
LEMMA ResultAgrees ==
  ASSUME Finished, kind = "result", pc = "agent_attach" \/ ~Mcp!ResultComplete
  PROVE  /\ Mcp!Attachable(evidence) <=> Mcp!Faithful
         /\ Mcp!Faithful => \E a, k, s : /\ Single1(a, k, s) /\ OneIn(evidence, a, k)
                                         /\ rec.first = Mcp!Answer("poison", FALSE, "first")
<1>1. Mcp!Attachable(evidence) <=> Mcp!ResultComplete /\ Mcp!ResultAttached(evidence)
  BY DEF Mcp!Attachable, Mcp!ResultExecuted
<1>2. Mcp!Faithful <=> \E s \in Serves : /\ Serves = {s} /\ Mcp!Unique(s)
                                         /\ hist[s].ans = Mcp!Answer("poison", FALSE, "first")
  <2>1. Mcp!Ended
    BY FinalEvidence
  <2> QED
    BY <2>1 DEF Mcp!Faithful, Serves
<1>3. Holds /\ Story
  BY DEF Finished, Running
<1>4. ASSUME Mcp!Attachable(evidence)
      PROVE  /\ Mcp!Faithful
             /\ \E a, k, s : /\ Single1(a, k, s) /\ OneIn(evidence, a, k)
                             /\ rec.first = Mcp!Answer("poison", FALSE, "first")
  <2>1. /\ Mcp!ResultComplete /\ rec.calls = 1 /\ pc = "agent_attach"
        /\ Mcp!Once(evidence, evidence[Mcp!Request(evidence, 1)].id)
        /\ rec.first.text = "poison"
    BY <1>1, <1>4 DEF Mcp!ResultComplete, Mcp!ResultAttached, Mcp!ResultBridge
  <2>2. PICK a, k, s : /\ Single1(a, k, s)
                       /\ Mcp!Once(evidence, items[a].id) => OneIn(evidence, a, k)
    BY <2>1, OneStory
  <2>3. Mcp!Request(evidence, 1) = a /\ evidence[a] = items[a]
    BY <2>2, RequestsInOrder, FinalEvidence DEF Single1
  <2>4. OneIn(evidence, a, k)
    BY <2>1, <2>2, <2>3
  <2>5. rec.first.args = "first"
    BY <1>3, <2>1 DEF Story, Poisoned
  <2>6. rec.first \in Replies
    BY <2>2 DEF Single1
  <2>7. rec.first = Mcp!Answer("poison", FALSE, "first")
    BY <2>1, <2>5, <2>6, ReplyIs DEF Failures
  <2>8. hist[s].ans = rec.first /\ hist[s].id = items[a].id /\ Serves = {s}
    BY <2>2 DEF Single1, Same, SameCall
  <2>9. Mcp!Unique(s)
    BY <2>1, <2>3, <2>8 DEF Mcp!Unique
  <2> QED
    BY <1>2, <2>2, <2>4, <2>7, <2>8, <2>9
<1>5. ASSUME Mcp!Faithful
      PROVE  Mcp!Attachable(evidence)
  <2>1. PICK z \in Serves : /\ Serves = {z} /\ Mcp!Unique(z)
                            /\ hist[z].ans = Mcp!Answer("poison", FALSE, "first")
    BY <1>2, <1>5
  <2>2. rec.calls = 1
    BY <2>1, OneOnly
  <2>3. PICK a, k, s : /\ Single1(a, k, s)
                       /\ Mcp!Once(evidence, items[a].id) => OneIn(evidence, a, k)
    BY <2>2, OneStory
  <2>4. /\ Asked = {a} /\ Serves = {s} /\ a \in Nat /\ Told = {k}
        /\ hist[s].ans = rec.first /\ hist[s].id = items[a].id /\ rec.first = items[k].ans
    BY <2>3 DEF Single1, Same, SameCall
  <2>5. s = z /\ Mcp!Once(evidence, items[a].id)
    BY <2>1, <2>4 DEF Mcp!Unique
  <2>6. OneIn(evidence, a, k) /\ Len(evidence) \in Nat /\ evidence[a] = items[a] /\ evidence[k] = items[k]
    BY <2>3, <2>4, <2>5, FinalEvidence
  <2>7. /\ Mcp!Cardinality(Mcp!Requests(evidence)) = 1 /\ Mcp!Request(evidence, 1) = a
        /\ Mcp!Once(evidence, evidence[a].id) /\ Mcp!Result(evidence, evidence[a].id) = k
    BY <2>6, OneReads
  <2>8. rec.first.text = "poison" /\ evidence[k].ans.text = "poison"
    <3>1. rec.first = Mcp!Answer("poison", FALSE, "first") /\ evidence[k].ans = rec.first
      BY <2>1, <2>4, <2>5, <2>6
    <3> QED
      BY <3>1 DEF Mcp!Answer
  <2>9. rec.receipt
    BY <1>3, <2>2, <2>4 DEF Holds
  <2> QED
    BY <1>1, <2>2, <2>7, <2>8, <2>9 DEF Mcp!ResultComplete, Mcp!ResultAttached, Mcp!ResultBridge
<1> QED
  BY <1>4, <1>5

\* A removed tool: the event is added exactly when the one call was refused after the change, and
\* the model was shown that the tool is gone.
LEMMA StaleAgrees ==
  ASSUME Finished, kind = "stale"
  PROVE  /\ Mcp!Attachable(evidence) <=> Mcp!Faithful
         /\ Mcp!Faithful => \E a, k, s : /\ Single1(a, k, s) /\ OneIn(evidence, a, k)
                                         /\ rec.first = Mcp!Answer("unknown_tool", TRUE, "first")
<1>1. Mcp!Attachable(evidence) <=> Mcp!StaleComplete /\ Mcp!StaleAttached(evidence)
  BY DEF Mcp!Attachable, Mcp!StaleExecuted
<1>2. /\ Mcp!Ended /\ pc \in {"agent_end", "agent_attach"} /\ Len(evidence) \in Nat
      /\ \A i \in Asked \cup Told : evidence[i] = items[i]
  BY FinalEvidence
<1>3. Mcp!Faithful <=>
        \E s \in Serves : /\ Serves = {s} /\ Mcp!Unique(s) /\ Mcp!Before(s, "drift")
                          /\ hist[s].ans = Mcp!Answer("unknown_tool", TRUE, "first")
                          /\ \E m \in Models : m > s /\ hist[m].listing = {}
  BY <1>2 DEF Mcp!Faithful, Mcp!TrueStale, Serves, Models
<1>4. Running /\ Changed /\ Discovery
  BY RunFacts DEF Finished
<1>5. /\ Mcp!Names(Before) = {"old"} /\ Before # Mcp!NoListing /\ {} # Mcp!NoListing /\ After = {}
      /\ After # Mcp!NoListing
  BY <1>4, RunFacts, TwoCatalogues
<1>6. ASSUME Mcp!Attachable(evidence)
      PROVE  /\ Mcp!Faithful
             /\ \E a, k, s : /\ Single1(a, k, s) /\ OneIn(evidence, a, k)
                             /\ rec.first = Mcp!Answer("unknown_tool", TRUE, "first")
  <2>1. /\ rec.calls = 1 /\ rec.first.text = "unknown_tool" /\ rec.later = {}
        /\ evidence[Mcp!Request(evidence, 1)].args = "first"
        /\ Mcp!Once(evidence, evidence[Mcp!Request(evidence, 1)].id)
    BY <1>1, <1>6 DEF Mcp!StaleComplete, Mcp!StaleAttached, Mcp!StaleBridge
  <2>2. PICK a, k, s : /\ Single1(a, k, s)
                       /\ Mcp!Once(evidence, items[a].id) => OneIn(evidence, a, k)
    BY <2>1, OneStory
  <2>3. Mcp!Request(evidence, 1) = a /\ evidence[a] = items[a]
    BY <2>2, RequestsInOrder, FinalEvidence DEF Single1
  <2>4. OneIn(evidence, a, k)
    BY <2>1, <2>2, <2>3
  <2>5. rec.first.args = "first" /\ rec.first \in Replies
    BY <2>1, <2>2, <2>3 DEF Single1, SameCall
  <2>6. rec.first = Mcp!Answer("unknown_tool", TRUE, "first")
    BY <2>1, <2>5, ReplyIs DEF Failures
  <2>7. /\ hist[s].ans = rec.first /\ hist[s].id = items[a].id /\ Serves = {s}
        /\ Asked = {a} /\ Told = {k}
    BY <2>2 DEF Single1, Same, SameCall
  <2>8. Mcp!Unique(s)
    BY <2>1, <2>3, <2>7 DEF Mcp!Unique
  <2>9. \E d \in Drifts : d < s
    BY <1>4, <2>1, <2>7 DEF Changed
  <2>10. Mcp!Before(s, "drift")
    BY <2>9 DEF Mcp!Before, Drifts
  <2>11. \E m \in Models : m > s /\ hist[m].listing = {}
    <3>1. OneCall
      BY <1>4, <2>1, <2>7, <2>9 DEF Discovery
    <3>2. Reported(k)
      BY <2>7, <3>1 DEF OneCall
    <3>3. PICK m \in Models : hist[m].listing = {} /\ s < m
      BY <1>5, <2>1, <2>7, <3>2 DEF Reported
    <3>4. m \in Nat /\ s \in Nat
      BY <1>4, <2>7, CallsMade DEF Finished
    <3> QED
      BY <3>3, <3>4
  <2> QED
    BY <1>3, <2>2, <2>4, <2>6, <2>7, <2>8, <2>10, <2>11
<1>7. ASSUME Mcp!Faithful
      PROVE  Mcp!Attachable(evidence)
  <2>1. PICK z \in Serves : /\ Serves = {z} /\ Mcp!Unique(z) /\ Mcp!Before(z, "drift")
                            /\ hist[z].ans = Mcp!Answer("unknown_tool", TRUE, "first")
    BY <1>3, <1>7
  <2>2. rec.calls = 1 /\ Drifts # {}
    BY <2>1, OneOnly DEF Mcp!Before, Drifts
  <2>3. PICK a, k, s : /\ Single1(a, k, s)
                       /\ Mcp!Once(evidence, items[a].id) => OneIn(evidence, a, k)
    BY <2>2, OneStory
  <2>4. /\ Asked = {a} /\ Serves = {s} /\ a \in Nat /\ Told = {k} /\ SameCall(items[a], items[k])
        /\ hist[s].ans = rec.first /\ hist[s].id = items[a].id /\ rec.first = items[k].ans
        /\ rec.first \in Replies /\ items[k].ans.args = items[k].args
    BY <2>3 DEF Single1, Same, SameCall
  <2>5. s = z /\ Mcp!Once(evidence, items[a].id)
    BY <2>1, <2>4 DEF Mcp!Unique
  <2>6. OneIn(evidence, a, k) /\ evidence[a] = items[a] /\ evidence[k] = items[k]
    BY <1>2, <2>3, <2>4, <2>5
  <2>7. /\ Mcp!Cardinality(Mcp!Requests(evidence)) = 1 /\ Mcp!Request(evidence, 1) = a
        /\ Mcp!Once(evidence, evidence[a].id) /\ Mcp!Result(evidence, evidence[a].id) = k /\ a < k
    BY <1>2, <2>6, OneReads
  <2>8. rec.first = Mcp!Answer("unknown_tool", TRUE, "first")
    BY <2>1, <2>4, <2>5
  <2>9. rec.first.text = "unknown_tool" /\ rec.first.error /\ rec.first.args = "first"
    BY <2>8 DEF Mcp!Answer
  <2>10. OneCall
    BY <1>4, <2>2, <2>4 DEF Discovery
  <2>11. /\ Kept /\ rec.cached = Before /\ Refreshed /\ rec.later = After /\ Reported(k)
    BY <1>2, <2>4, <2>10 DEF OneCall, Rested, Refreshed
  <2>12. /\ ~rec.failed /\ rec.initial = Before /\ rec.model = Before /\ rec.refreshed = {}
         /\ rec.marks = Marks6 /\ rec.later = {}
         /\ rec.told.id = items[k].id /\ rec.told.ans = items[k].ans
    BY <1>5, <2>11 DEF Kept, Refreshed, Reported
  <2>13. Mcp!Has("swap") /\ Mcp!StaleReceiptCreated
    BY <2>12, MarksHave, MarksGrow DEF Mcp!StaleReceiptCreated
  <2>14. Mcp!Rejected(rec.first)
    BY <2>4, <2>9, ReplyIs DEF Mcp!Rejected
  <2>15. Mcp!StaleComplete
    BY <1>5, <2>2, <2>4, <2>9, <2>11, <2>12, <2>13, <2>14 DEF Mcp!StaleComplete, Mcp!Single
  <2>16. Mcp!StaleAttached(evidence)
    BY <2>4, <2>6, <2>7, <2>9, <2>12, <2>13 DEF Mcp!StaleAttached, Mcp!StaleBridge, SameCall
  <2> QED
    BY <1>1, <2>15, <2>16
<1> QED
  BY <1>6, <1>7

\* Two requests of the evidence in two turns are two calls the recorder counted.
LEMMA InTurnIsTwo ==
  ASSUME Finished, Mcp!InTurn(evidence)
  PROVE  \E x, k, y, l, s, t, m :
           Double(x, k, y, l, s, t, m) /\ TwoIn(evidence, x, k, y, l) /\ rec.calls = 2
<1>1. Running /\ Paired
  BY RunFacts DEF Finished
<1>2. /\ rec.calls = Cardinality(Asked) /\ IsFiniteSet(Asked) /\ Asked \subseteq Nat
  BY CallsMade DEF Finished
<1>3. /\ Mcp!Requests(evidence) = Asked /\ Len(evidence) \in Nat
      /\ \A i \in Asked \cup Told : evidence[i] = items[i]
      /\ \A k \in Told : k \in Mcp!Results(evidence, items[k].id)
  BY FinalEvidence
<1>4. Mcp!Cardinality(Mcp!Requests(evidence)) = 2
  BY DEF Mcp!InTurn
<1>5. rec.calls = 2
  BY <1>2, <1>3, <1>4, BridgeCardinality
<1>6. Separated
  <2>1. PICK u \in Asked, v \in Asked : u < v /\ Asked = {u, v}
    <3>1. PICK u, v : u # v /\ Asked = {u, v}
      BY <1>2, <1>5, OneOrTwo
    <3>2. u \in Nat /\ v \in Nat /\ (u < v \/ v < u)
      BY <1>2, <3>1
    <3> QED
      BY <3>1, <3>2
  <2>2. Mcp!Request(evidence, 1) = u /\ Mcp!Request(evidence, 2) = v
    BY <1>2, <1>3, <2>1, RequestsInOrder
  <2>3. /\ Mcp!Once(evidence, items[u].id) /\ Mcp!Result(evidence, items[u].id) < v
    BY <1>3, <2>1, <2>2 DEF Mcp!InTurn
  <2>4. PICK k \in Told : u < k /\ SameCall(items[u], items[k])
    BY <1>1, <2>1 DEF Paired
  <2>5. k \in Mcp!Results(evidence, items[u].id)
    BY <1>3, <2>4 DEF SameCall
  <2>6. Mcp!Results(evidence, items[u].id) = {k}
    BY <1>3, <2>3, <2>5, OnlyResult
  <2>7. Mcp!Result(evidence, items[u].id) = k
    <3> DEFINE id == items[u].id
    <3>1. Len(evidence) \in Nat /\ Mcp!Results(evidence, id) = {k}
      BY <1>3, <2>6
    <3> HIDE DEF id
    <3>2. Mcp!Result(evidence, id) = k
      BY <3>1, OnlyResult
    <3> QED
      BY <3>2 DEF id
  <2> QED
    BY <2>1, <2>3, <2>7 DEF Separated
<1>7. PICK x, k, y, l, s, t, m :
        /\ Double(x, k, y, l, s, t, m)
        /\ Mcp!Once(evidence, items[x].id) /\ Mcp!Once(evidence, items[y].id) =>
             TwoIn(evidence, x, k, y, l)
  BY <1>5, <1>6, TwoStories
<1>8. Asked = {x, y} /\ x < k /\ k < y /\ Told = {k, l}
  BY <1>7 DEF Double, TwoTold
<1>9. x \in Nat /\ y \in Nat /\ x < y
  <2>1. x \in Nat /\ y \in Nat /\ k \in Nat
    BY <1>2, <1>8, CallsMade DEF Finished
  <2> QED
    BY <1>8, <2>1
<1>10. Mcp!Request(evidence, 1) = x /\ Mcp!Request(evidence, 2) = y
  BY <1>3, <1>8, <1>9, RequestsInOrder
<1>11. Mcp!Once(evidence, items[x].id) /\ Mcp!Once(evidence, items[y].id)
  BY <1>3, <1>8, <1>10 DEF Mcp!InTurn
<1> QED
  BY <1>5, <1>7, <1>11

\* Two calls that the server ran as the story tells, and the evidence of them.
Ran(x, k, y, l, s, t, m, t1, t2, a2) ==
  /\ Double(x, k, y, l, s, t, m) /\ TwoIn(evidence, x, k, y, l) /\ rec.calls = 2
  /\ items[k].ans = Mcp!Answer(t1, TRUE, "first")
  /\ items[l].ans = Mcp!Answer(t2, FALSE, a2)
  /\ kind \in Mcp!DiscoveryFaults => Drifts # {}

\* Two calls the server ran, with the model between them, are two calls the recorder counted.
LEMMA TrueIsTwo ==
  ASSUME Finished, NEW t1, NEW t2, NEW a2, Mcp!TrueTwo(t1, t2, a2)
  PROVE  \E x, k, y, l, s, t, m : Ran(x, k, y, l, s, t, m, t1, t2, a2)
<1>1. /\ Running /\ Ordered
  BY RunFacts DEF Finished, Ledger
<1>2. /\ rec.calls = Cardinality(Serves) /\ IsFiniteSet(Serves) /\ Serves \subseteq Nat /\ Back = {}
  BY CallsMade DEF Finished
<1>3. PICK s \in Serves, t \in Serves :
        /\ Serves = {s, t} /\ s < t /\ Mcp!Unique(s) /\ Mcp!Unique(t)
        /\ hist[s].ans = Mcp!Answer(t1, TRUE, "first") /\ hist[t].ans = Mcp!Answer(t2, FALSE, a2)
        /\ \E m \in Models : s < m /\ m < t
        /\ kind \in Mcp!DiscoveryFaults => Mcp!Before(s, "drift")
  BY DEF Mcp!TrueTwo, Serves, Models
<1>4. s # t
  BY <1>2, <1>3
<1>5. rec.calls = 2
  BY <1>2, <1>3, <1>4, OneOrTwo
<1>6. Separated
  BY <1>1, <1>2, <1>3 DEF Ordered, Apart, Separated
<1>7. PICK x, k, y, l, u, v, m :
        /\ Double(x, k, y, l, u, v, m)
        /\ Mcp!Once(evidence, items[x].id) /\ Mcp!Once(evidence, items[y].id) =>
             TwoIn(evidence, x, k, y, l)
  BY <1>5, <1>6, TwoStories
<1>8. /\ Serves = {u, v} /\ u < v /\ u \in Nat /\ v \in Nat /\ Same(u, items[k]) /\ Same(v, items[l])
      /\ SameCall(items[x], items[k]) /\ SameCall(items[y], items[l])
  BY <1>7 DEF Double, TwoTold
<1>9. u = s /\ v = t
  BY <1>2, <1>3, <1>8
<1>10. /\ hist[s].id = items[x].id /\ hist[t].id = items[y].id
       /\ hist[s].ans = items[k].ans /\ hist[t].ans = items[l].ans
  BY <1>8, <1>9 DEF Same, SameCall
<1>11. TwoIn(evidence, x, k, y, l)
  BY <1>3, <1>7, <1>10 DEF Mcp!Unique
<1>12. kind \in Mcp!DiscoveryFaults => Drifts # {}
  BY <1>3 DEF Mcp!Before, Drifts
<1>13. Ran(x, k, y, l, u, v, m, t1, t2, a2)
  BY <1>3, <1>5, <1>7, <1>10, <1>11, <1>12 DEF Ran
<1> QED
  BY <1>13

\* And what the recorder and the evidence say of two calls is true of what the server ran.
LEMMA TwoIsTrue ==
  ASSUME Finished, NEW x, NEW k, NEW y, NEW l, NEW s, NEW t, NEW m,
         Double(x, k, y, l, s, t, m), TwoIn(evidence, x, k, y, l), NEW t1, NEW t2, NEW a2,
         items[k].ans = Mcp!Answer(t1, TRUE, "first"), items[l].ans = Mcp!Answer(t2, FALSE, a2),
         kind \in Mcp!DiscoveryFaults => \E d \in Drifts : d < s
  PROVE  Mcp!TrueTwo(t1, t2, a2)
<1>1. /\ Serves = {s, t} /\ m \in Models /\ s < m /\ m < t /\ s < t
      /\ Same(s, items[k]) /\ Same(t, items[l]) /\ Asked = {x, y} /\ Told = {k, l}
      /\ SameCall(items[x], items[k]) /\ SameCall(items[y], items[l])
  BY DEF Double, TwoTold
<1>2. Len(evidence) \in Nat /\ evidence[x] = items[x] /\ evidence[y] = items[y]
  BY <1>1, FinalEvidence
<1>3. /\ Mcp!Once(evidence, items[x].id) /\ Mcp!Once(evidence, items[y].id)
      /\ items[x].id # items[y].id
  BY <1>2, TwoReads
<1>4. /\ hist[s].id = items[x].id /\ hist[t].id = items[y].id
      /\ hist[s].ans = items[k].ans /\ hist[t].ans = items[l].ans
  BY <1>1 DEF Same, SameCall
<1>5. Mcp!Unique(s) /\ Mcp!Unique(t) /\ hist[s].id # hist[t].id
  BY <1>3, <1>4 DEF Mcp!Unique
<1>6. kind \in Mcp!DiscoveryFaults => Mcp!Before(s, "drift")
  BY DEF Mcp!Before, Drifts
<1> QED
  BY <1>1, <1>4, <1>5, <1>6 DEF Mcp!TrueTwo, Serves, Models

\* What an adapter reads in the evidence of two calls, next to what the recorder holds.
Faces(x, k, y, l, s) ==
  /\ Mcp!Request(evidence, 1) = x /\ Mcp!Request(evidence, 2) = y
  /\ Mcp!Result(evidence, evidence[x].id) = k /\ Mcp!Result(evidence, evidence[y].id) = l
  /\ evidence[k] = items[k] /\ evidence[l] = items[l]
  /\ evidence[x] = items[x] /\ evidence[y] = items[y]
  /\ items[x].tool = items[k].tool /\ items[y].tool = items[l].tool
  /\ items[x].args = rec.first.args /\ items[y].args = items[l].ans.args
  /\ rec.first = items[k].ans
  /\ kind \in {"error", "schema", "identity"} => rec.second = items[l].ans
  /\ Asked = {x, y} /\ Told = {k, l} /\ x < k /\ k < y /\ y < l
  /\ rec.first \in Replies /\ items[l].ans \in Replies
  /\ s \in Serves /\ hist[s].ans = rec.first
  /\ Mcp!InTurn(evidence)

\* What the evidence says of two calls, to a bridge that attaches.
LEMMA TwoFaces ==
  ASSUME Finished, NEW x, NEW k, NEW y, NEW l, NEW s, NEW t, NEW m,
         Double(x, k, y, l, s, t, m), TwoIn(evidence, x, k, y, l)
  PROVE  Faces(x, k, y, l, s)
<1>1. /\ Asked = {x, y} /\ Told = {k, l} /\ Serves = {s, t} /\ rec.first = items[k].ans
      /\ x < k /\ k < y /\ y < l
      /\ SameCall(items[x], items[k]) /\ SameCall(items[y], items[l])
      /\ items[k].ans \in Replies /\ items[k].ans.args = items[k].args
      /\ items[l].ans \in Replies /\ items[l].ans.args = items[l].args
      /\ kind \in {"error", "schema", "identity"} => rec.second = items[l].ans
      /\ Same(s, items[k])
  BY DEF Double, TwoTold
<1>2. /\ Len(evidence) \in Nat /\ evidence[x] = items[x] /\ evidence[y] = items[y]
      /\ evidence[k] = items[k] /\ evidence[l] = items[l]
  BY <1>1, FinalEvidence
<1>3. /\ Mcp!Request(evidence, 1) = x /\ Mcp!Request(evidence, 2) = y
      /\ Mcp!Result(evidence, evidence[x].id) = k /\ Mcp!Result(evidence, evidence[y].id) = l
      /\ Mcp!InTurn(evidence)
  BY <1>2, TwoReads
<1> QED
  BY <1>1, <1>2, <1>3 DEF Faces, SameCall, Same

\* The faults with a recovery, and the two calls of which the recorder holds these answers.
TwoCallKinds == {"error", "schema", "identity"}
Spoken(t1, t2, a2) ==
  \E x, k, y, l, s, t, m :
    /\ Double(x, k, y, l, s, t, m) /\ TwoIn(evidence, x, k, y, l) /\ rec.calls = 2
    /\ rec.first = Mcp!Answer(t1, TRUE, "first") /\ rec.second = Mcp!Answer(t2, FALSE, a2)
    /\ kind = "identity" => items[x].tool = "old" /\ items[y].tool = "new"

\* A transient error: the event is added exactly when the call failed once and then did not.
LEMMA ErrorAgrees ==
  ASSUME Finished, kind = "error"
  PROVE  /\ Mcp!Attachable(evidence) <=> Mcp!Faithful
         /\ Mcp!Faithful => Spoken("tool_error", "benign", "first")
<1>1. Mcp!Attachable(evidence) <=> Mcp!ErrorComplete /\ Mcp!ErrorAttached(evidence)
  BY DEF Mcp!Attachable, Mcp!ErrorExecuted
<1>2. Mcp!Faithful <=> Mcp!TrueTwo("tool_error", "benign", "first")
  BY FinalEvidence DEF Mcp!Faithful
<1>3. kind \notin Mcp!DiscoveryFaults /\ Holds
  BY RunFacts DEF Finished
<1>4. Mcp!Attachable(evidence) => Mcp!Faithful
  <2> HAVE Mcp!Attachable(evidence)
  <2>1. /\ rec.first.args = rec.second.args /\ rec.second = Mcp!Answer("benign", FALSE, "first")
        /\ Mcp!InTurn(evidence) /\ rec.first.text = "tool_error"
    BY <1>1 DEF Mcp!ErrorComplete, Mcp!ErrorAttached, Mcp!ErrorBridge
  <2>2. PICK x, k, y, l, s, t, m : Double(x, k, y, l, s, t, m) /\ TwoIn(evidence, x, k, y, l)
    BY <2>1, InTurnIsTwo
  <2>3. rec.first = items[k].ans /\ rec.second = items[l].ans /\ rec.first \in Replies
    BY <2>2, TwoFaces DEF Faces
  <2>4. rec.first.args = "first"
    BY <2>1 DEF Mcp!Answer
  <2>5. rec.first = Mcp!Answer("tool_error", TRUE, "first")
    BY <2>1, <2>3, <2>4, ReplyIs DEF Failures
  <2>6. Mcp!TrueTwo("tool_error", "benign", "first")
    BY <1>3, <2>1, <2>2, <2>3, <2>5, TwoIsTrue
  <2> QED
    BY <1>2, <2>6
<1>5. Mcp!Faithful => Mcp!Attachable(evidence) /\ Spoken("tool_error", "benign", "first")
  <2> HAVE Mcp!Faithful
  <2>13. PICK x, k, y, l, s, t, m : Ran(x, k, y, l, s, t, m, "tool_error", "benign", "first")
    BY <1>2, TrueIsTwo
  <2>1. /\ Double(x, k, y, l, s, t, m) /\ TwoIn(evidence, x, k, y, l) /\ rec.calls = 2
        /\ items[k].ans = Mcp!Answer("tool_error", TRUE, "first")
        /\ items[l].ans = Mcp!Answer("benign", FALSE, "first")
    BY <2>13 DEF Ran
  <2>2. /\ Mcp!Request(evidence, 1) = x /\ Mcp!Request(evidence, 2) = y
        /\ Mcp!Result(evidence, evidence[x].id) = k /\ Mcp!Result(evidence, evidence[y].id) = l
        /\ evidence[k] = items[k] /\ evidence[l] = items[l]
        /\ rec.first = items[k].ans /\ rec.second = items[l].ans
        /\ Asked = {x, y} /\ Told = {k, l} /\ k < y /\ Mcp!InTurn(evidence)
    <3>1. Double(x, k, y, l, s, t, m) /\ TwoIn(evidence, x, k, y, l)
      BY <2>1
    <3>2. Faces(x, k, y, l, s)
      BY <3>1, TwoFaces
    <3> QED
      BY <3>2 DEF Faces
  <2>3. /\ rec.first = Mcp!Answer("tool_error", TRUE, "first")
        /\ rec.second = Mcp!Answer("benign", FALSE, "first")
    BY <2>1, <2>2
  <2>4. rec.first.text = "tool_error" /\ rec.first.args = rec.second.args
    BY <2>3 DEF Mcp!Answer
  <2>5. rec.receipt
    <3>1. Separated /\ Asked # {}
      BY <2>2 DEF Separated
    <3> QED
      BY <1>3, <2>1, <3>1 DEF Holds
  <2>6. Mcp!ErrorComplete
    BY <2>1, <2>3, <2>4, <2>5 DEF Mcp!ErrorComplete
  <2>7. Mcp!ErrorAttached(evidence)
    <3>1. /\ evidence[k].ans = rec.first /\ evidence[l].ans = rec.second
      BY <2>2
    <3>2. evidence[k].ans.text = "tool_error" /\ evidence[l].ans = Mcp!Answer("benign", FALSE, "first")
      BY <2>3, <2>4, <3>1
    <3> QED
      BY <2>2, <2>4, <3>2 DEF Mcp!ErrorAttached, Mcp!ErrorBridge
  <2> QED
    BY <1>1, <2>1, <2>3, <2>6, <2>7 DEF Spoken
<1> QED
  BY <1>4, <1>5

\* A migrated tool: the event is added exactly when the old arguments were refused after the change
\* and the new ones, in a later turn, were not.
LEMMA SchemaAgrees ==
  ASSUME Finished, kind = "schema"
  PROVE  /\ Mcp!Attachable(evidence) <=> Mcp!Faithful
         /\ Mcp!Faithful => Spoken("bad_arguments", "replacement", "second")
<1>1. Mcp!Attachable(evidence) <=> Mcp!SchemaComplete /\ Mcp!SchemaAttached(evidence)
  BY DEF Mcp!Attachable, Mcp!SchemaExecuted
<1>2. Mcp!Faithful <=> Mcp!TrueTwo("bad_arguments", "replacement", "second")
  BY FinalEvidence DEF Mcp!Faithful
<1>3. Running /\ Changed /\ Discovery /\ Worded /\ kind \in FaultKinds
  BY RunFacts DEF Finished, Running, Story
<1>4. Mcp!Attachable(evidence) => Mcp!Faithful
  <2> HAVE Mcp!Attachable(evidence)
  <2>1. /\ rec.first.args = "first" /\ rec.second = Mcp!Answer("replacement", FALSE, "second")
        /\ Mcp!InTurn(evidence) /\ Mcp!Rejected(rec.first)
    BY <1>1 DEF Mcp!SchemaComplete, Mcp!SchemaAttached, Mcp!SchemaBridge
  <2>2. PICK x, k, y, l, s, t, m : Double(x, k, y, l, s, t, m) /\ TwoIn(evidence, x, k, y, l)
    BY <2>1, InTurnIsTwo
  <2>3. /\ rec.first = items[k].ans /\ rec.second = items[l].ans /\ rec.first \in Replies
        /\ s \in Serves /\ hist[s].ans = rec.first
    BY <2>2, TwoFaces DEF Faces
  <2>4. rec.first.text = "bad_arguments" /\ rec.first.error
    <3>1. rec.first.text \notin {"unknown_tool", "tool_error"}
      BY <1>3, <2>3 DEF Worded
    <3>2. rec.first.error /\ rec.first.text \in Failures
      BY <2>1, <2>3, ReplyIs DEF Mcp!Rejected
    <3> QED
      BY <3>1, <3>2 DEF Failures
  <2>5. rec.first = Mcp!Answer("bad_arguments", TRUE, "first")
    BY <2>1, <2>3, <2>4, ReplyIs
  <2>6. \E d \in Drifts : d < s
    BY <1>3, <2>1, <2>3, <2>4 DEF Changed
  <2>7. Mcp!TrueTwo("bad_arguments", "replacement", "second")
    BY <2>1, <2>2, <2>3, <2>5, <2>6, TwoIsTrue
  <2> QED
    BY <1>2, <2>7
<1>5. Mcp!Faithful => Mcp!Attachable(evidence) /\ Spoken("bad_arguments", "replacement", "second")
  <2> HAVE Mcp!Faithful
  <2>13. PICK x, k, y, l, s, t, m : Ran(x, k, y, l, s, t, m, "bad_arguments", "replacement", "second")
    BY <1>2, TrueIsTwo
  <2>1. /\ Double(x, k, y, l, s, t, m) /\ TwoIn(evidence, x, k, y, l) /\ rec.calls = 2
        /\ items[k].ans = Mcp!Answer("bad_arguments", TRUE, "first")
        /\ items[l].ans = Mcp!Answer("replacement", FALSE, "second")
        /\ Drifts # {}
    BY <2>13 DEF Ran, Mcp!DiscoveryFaults
  <2>2. /\ Mcp!Request(evidence, 1) = x /\ Mcp!Request(evidence, 2) = y
        /\ Mcp!Result(evidence, evidence[x].id) = k /\ Mcp!Result(evidence, evidence[y].id) = l
        /\ evidence[k] = items[k] /\ evidence[l] = items[l]
        /\ rec.first = items[k].ans /\ rec.second = items[l].ans
        /\ Asked = {x, y} /\ Told = {k, l} /\ k < y /\ Mcp!InTurn(evidence) /\ rec.first \in Replies
    <3>1. Double(x, k, y, l, s, t, m) /\ TwoIn(evidence, x, k, y, l)
      BY <2>1
    <3>2. Faces(x, k, y, l, s)
      BY <3>1, TwoFaces
    <3> QED
      BY <3>2 DEF Faces
  <2>3. /\ rec.first = Mcp!Answer("bad_arguments", TRUE, "first")
        /\ rec.second = Mcp!Answer("replacement", FALSE, "second")
    BY <2>1, <2>2
  <2>4. /\ rec.first.text = "bad_arguments" /\ rec.first.args = "first" /\ rec.first.error
        /\ rec.second.args = "second"
    BY <2>3 DEF Mcp!Answer
  <2>5. Mcp!Rejected(rec.first)
    BY <2>2, <2>4, ReplyIs DEF Mcp!Rejected
  <2>6. TwoCalls
    <3>1. Separated
      BY <2>2 DEF Separated
    <3> QED
      BY <1>3, <2>1, <3>1 DEF Discovery
  <2>7. /\ ~rec.failed /\ ~rec.early /\ rec.initial = Before /\ rec.cached = Before
        /\ rec.refreshed = After /\ rec.marks = Marks7
    BY <2>6 DEF TwoCalls, Kept
  <2>8. Mcp!Has("swap") /\ rec.marks = Mcp!Chronology
    BY <2>7, MarksHave, MarksGrow
  <2>9. /\ Before # Mcp!NoListing /\ After # Mcp!NoListing
        /\ {a.shape : a \in Before} = {"v1"} /\ {a.shape : a \in After} = {"v2"}
    BY <1>3, TwoCatalogues
  <2>10. Mcp!SchemaComplete
    BY <2>1, <2>3, <2>5, <2>7, <2>8, <2>9 DEF Mcp!SchemaComplete
  <2>11. Mcp!SchemaReceiptCreated
    BY <2>7, <2>8, <2>9 DEF Mcp!SchemaReceiptCreated
  <2>12. Mcp!SchemaAttached(evidence)
    <3>1. evidence[k].ans = rec.first /\ evidence[l].ans = Mcp!Answer("replacement", FALSE, "second")
      BY <2>1, <2>2
    <3> QED
      BY <2>2, <2>4, <2>11, <3>1 DEF Mcp!SchemaAttached, Mcp!SchemaBridge
  <2> QED
    BY <1>1, <2>1, <2>3, <2>10, <2>12 DEF Spoken
<1> QED
  BY <1>4, <1>5

\* A renamed tool: the event is added exactly when the old name was refused after the change and
\* the new one, in a later turn, was not.
LEMMA IdentityAgrees ==
  ASSUME Finished, kind = "identity"
  PROVE  /\ Mcp!Attachable(evidence) <=> Mcp!Faithful
         /\ Mcp!Faithful => Spoken("unknown_tool", "replacement", "second")
<1>1. Mcp!Attachable(evidence) <=> Mcp!IdentityComplete /\ Mcp!IdentityAttached(evidence)
  BY DEF Mcp!Attachable, Mcp!IdentityExecuted
<1>2. Mcp!Faithful <=> Mcp!TrueTwo("unknown_tool", "replacement", "second")
  BY FinalEvidence DEF Mcp!Faithful
<1>3. Running /\ Changed /\ Discovery /\ Worded /\ kind \in FaultKinds
  BY RunFacts DEF Finished, Running, Story
<1>4. Mcp!Attachable(evidence) => Mcp!Faithful
  <2> HAVE Mcp!Attachable(evidence)
  <2>1. /\ rec.first.args = "first" /\ rec.second = Mcp!Answer("replacement", FALSE, "second")
        /\ Mcp!InTurn(evidence) /\ Mcp!Rejected(rec.first) /\ rec.first.text = "unknown_tool"
    BY <1>1 DEF Mcp!IdentityComplete, Mcp!IdentityAttached, Mcp!IdentityBridge
  <2>2. PICK x, k, y, l, s, t, m : Double(x, k, y, l, s, t, m) /\ TwoIn(evidence, x, k, y, l)
    BY <2>1, InTurnIsTwo
  <2>3. /\ rec.first = items[k].ans /\ rec.second = items[l].ans /\ rec.first \in Replies
        /\ s \in Serves /\ hist[s].ans = rec.first
    BY <2>2, TwoFaces DEF Faces
  <2>4. rec.first = Mcp!Answer("unknown_tool", TRUE, "first")
    BY <2>1, <2>3, ReplyIs DEF Failures
  <2>5. \E d \in Drifts : d < s
    BY <1>3, <2>1, <2>3 DEF Changed
  <2>6. Mcp!TrueTwo("unknown_tool", "replacement", "second")
    BY <2>1, <2>2, <2>3, <2>4, <2>5, TwoIsTrue
  <2> QED
    BY <1>2, <2>6
<1>5. Mcp!Faithful => Mcp!Attachable(evidence) /\ Spoken("unknown_tool", "replacement", "second")
  <2> HAVE Mcp!Faithful
  <2>13. PICK x, k, y, l, s, t, m : Ran(x, k, y, l, s, t, m, "unknown_tool", "replacement", "second")
    BY <1>2, TrueIsTwo
  <2>1. /\ Double(x, k, y, l, s, t, m) /\ TwoIn(evidence, x, k, y, l) /\ rec.calls = 2
        /\ items[k].ans = Mcp!Answer("unknown_tool", TRUE, "first")
        /\ items[l].ans = Mcp!Answer("replacement", FALSE, "second")
        /\ Drifts # {}
    BY <2>13 DEF Ran, Mcp!DiscoveryFaults
  <2>2. /\ Mcp!Request(evidence, 1) = x /\ Mcp!Request(evidence, 2) = y
        /\ Mcp!Result(evidence, evidence[x].id) = k /\ Mcp!Result(evidence, evidence[y].id) = l
        /\ evidence[k] = items[k] /\ evidence[l] = items[l]
        /\ evidence[x] = items[x] /\ evidence[y] = items[y]
        /\ items[x].tool = items[k].tool /\ items[y].tool = items[l].tool
        /\ items[x].args = rec.first.args /\ items[y].args = items[l].ans.args
        /\ rec.first = items[k].ans /\ rec.second = items[l].ans
        /\ Asked = {x, y} /\ Told = {k, l} /\ k < y /\ Mcp!InTurn(evidence) /\ rec.first \in Replies
    <3>1. Double(x, k, y, l, s, t, m) /\ TwoIn(evidence, x, k, y, l)
      BY <2>1
    <3>2. Faces(x, k, y, l, s)
      BY <3>1, TwoFaces
    <3> QED
      BY <3>2 DEF Faces
  <2>3. /\ rec.first = Mcp!Answer("unknown_tool", TRUE, "first")
        /\ rec.second = Mcp!Answer("replacement", FALSE, "second")
    BY <2>1, <2>2
  <2>4. /\ rec.first.text = "unknown_tool" /\ rec.first.args = "first" /\ rec.first.error
        /\ rec.second.args = "second" /\ rec.second.text = "replacement"
    BY <2>3 DEF Mcp!Answer
  <2>5. Mcp!Rejected(rec.first)
    BY <2>2, <2>4, ReplyIs DEF Mcp!Rejected
  <2>6. TwoCalls
    <3>1. Separated
      BY <2>2 DEF Separated
    <3> QED
      BY <1>3, <2>1, <3>1 DEF Discovery
  <2>7. /\ ~rec.failed /\ ~rec.early /\ rec.initial = Before /\ rec.cached = Before
        /\ rec.model = Before /\ rec.later = After /\ rec.tool1 = "old"
        /\ rec.refreshed = After /\ rec.marks = Marks7
        /\ items[k].tool = "old" /\ rec.tool2 = items[y].tool
    BY <2>2, <2>6 DEF TwoCalls, Kept
  <2>8. items[x].tool = "old" /\ items[y].tool = "new"
    BY <1>3, <2>2, <2>4, <2>7 DEF Worded
  <2>9. Mcp!Has("swap") /\ rec.marks = Mcp!Chronology
    BY <2>7, MarksHave, MarksGrow
  <2>10. /\ Before # Mcp!NoListing /\ After # Mcp!NoListing
         /\ Mcp!Names(Before) = {"old"} /\ Mcp!Names(After) = {"new"}
    BY <1>3, TwoCatalogues
  <2>11. Mcp!IdentityComplete
    BY <2>1, <2>3, <2>4, <2>5, <2>7, <2>8, <2>9, <2>10 DEF Mcp!IdentityComplete, Mcp!Single
  <2>12. Mcp!IdentityAttached(evidence)
    <3>1. /\ evidence[k].ans = rec.first /\ evidence[l].ans = Mcp!Answer("replacement", FALSE, "second")
          /\ evidence[x].args = rec.first.args /\ evidence[y].args = rec.second.args
      BY <2>1, <2>2
    <3> QED
      BY <2>2, <2>4, <2>8, <2>9, <3>1 DEF Mcp!IdentityAttached, Mcp!IdentityBridge, Mcp!IdentityReceiptCreated
  <2> QED
    BY <1>1, <2>1, <2>3, <2>8, <2>11, <2>12 DEF Spoken
<1> QED
  BY <1>4, <1>5

\* A run that ended with no output gets no event, but for poisoned metadata the model was shown.
LEMMA ViolationAgrees ==
  ASSUME Running, evidence = <<Mcp!Mark("violation")>>, kind # "metadata"
  PROVE  ~Mcp!Attachable(evidence) /\ ~Mcp!Faithful
<1>1. kind \in {"result", "error", "stale", "schema", "identity"}
  BY RunFacts
<1>2. Len(evidence) = 1 /\ evidence[1].kind = "violation"
  BY DEF Mcp!Mark
<1>3. ~Mcp!Ended
  BY <1>2 DEF Mcp!Ended
<1>4. Mcp!Requests(evidence) = {}
  BY <1>2 DEF Mcp!Requests
<1>5. Mcp!Cardinality(Mcp!Requests(evidence)) = 0
  BY <1>4, FS_EmptySet, BridgeCardinality
<1>6. ~Mcp!StaleAttached(evidence) /\ ~Mcp!ResultAttached(evidence) /\ ~Mcp!InTurn(evidence)
  BY <1>5 DEF Mcp!StaleAttached, Mcp!ResultAttached, Mcp!InTurn
<1>7. /\ ~Mcp!SchemaAttached(evidence) /\ ~Mcp!IdentityAttached(evidence)
      /\ ~Mcp!ErrorAttached(evidence)
  BY <1>6 DEF Mcp!SchemaAttached, Mcp!IdentityAttached, Mcp!ErrorAttached
<1>8. ~Mcp!Attachable(evidence)
  BY <1>1, <1>6, <1>7 DEF Mcp!Attachable, Mcp!StaleExecuted, Mcp!SchemaExecuted, Mcp!IdentityExecuted,
                          Mcp!ErrorExecuted, Mcp!ResultExecuted
<1>9. ~Mcp!Faithful
  BY <1>1, <1>3 DEF Mcp!Faithful
<1> QED
  BY <1>8, <1>9

\* Poisoned metadata gets its event exactly when the model was shown it.
LEMMA MetadataAgrees ==
  ASSUME Running, kind = "metadata"
  PROVE  Mcp!Attachable(evidence) <=> Mcp!Faithful
<1>1. Metadata /\ kind \in FaultKinds
  BY RunFacts DEF Running, Story
<1>2. Mcp!Attachable(evidence) <=> Mcp!MetadataComplete /\ Mcp!MetadataBridge
  BY DEF Mcp!Attachable, Mcp!MetadataExecuted
<1>3. Mcp!Faithful <=> Mcp!Ended \/ Models # {}
  BY DEF Mcp!Faithful, Models
<1>4. Mcp!Faithful <=> rec.model # Mcp!NoListing
  BY <1>1, <1>3 DEF Metadata
<1>5. \A a \in Before : a.note = "poison"
  BY <1>1, TwoCatalogues
<1>6. rec.model # Mcp!NoListing => rec.receipt /\ rec.initial = Before /\ rec.model = Before
  BY <1>1 DEF Metadata
<1> QED
  BY <1>2, <1>4, <1>5, <1>6 DEF Mcp!MetadataComplete, Mcp!MetadataBridge

\* The adapter adds its event exactly when the story is true.
LEMMA AdaptersAgree ==
  ASSUME Running, pc \in {"agent_end", "agent_attach"},
         pc = "agent_attach" \/ ~(kind = "result" /\ Mcp!ResultComplete)
  PROVE  /\ Mcp!Attachable(evidence) <=> Mcp!Faithful
         /\ kind # "metadata" /\ Mcp!Faithful => Finished
<1>1. kind \in {"metadata", "result", "error", "stale", "schema", "identity"}
  BY RunFacts
<1>2. inflight = <<>> /\ evidence \in {Append(items, Mcp!Mark("output")), <<Mcp!Mark("violation")>>}
  BY RunFacts DEF Stations
<1>3. CASE kind = "metadata"
  BY <1>3, MetadataAgrees
<1>4. CASE kind # "metadata" /\ evidence = <<Mcp!Mark("violation")>>
  BY <1>4, ViolationAgrees
<1>5. CASE kind # "metadata" /\ evidence = Append(items, Mcp!Mark("output"))
  <2>1. Finished
    BY <1>2, <1>5 DEF Finished
  <2> QED
    BY <1>1, <1>5, <2>1, ResultAgrees, StaleAgrees, ErrorAgrees, SchemaAgrees, IdentityAgrees
<1> QED
  BY <1>2, <1>3, <1>4, <1>5

-----------------------------------------------------------------------------
(* The event in its place                                                     *)

\* Where an element stands after another was put in at p.
Sh(p, i) == IF i < p THEN i ELSE i + 1

\* What the evidence reads with the event in it.
LEMMA EventInPlace ==
  ASSUME NEW ev \in Seq(BridgeEvents), NEW p \in 1 .. Len(ev) + 1,
         \A i \in 1 .. Len(ev) : ev[i].kind # "delivery",
         NEW d, d = Mcp!InsertAt(ev, p, Mcp!Mark("delivery"))
  PROVE  /\ Len(d) = Len(ev) + 1 /\ Len(ev) \in Nat /\ Mcp!Sent(d) = p
         /\ \A i \in 1 .. Len(ev) : Sh(p, i) \in 1 .. Len(d) /\ d[Sh(p, i)] = ev[i]
         /\ Mcp!Requests(d) = {Sh(p, i) : i \in Mcp!Requests(ev)}
         /\ \A id : Mcp!Results(d, id) = {Sh(p, i) : i \in Mcp!Results(ev, id)}
<1> DEFINE e == Mcp!Mark("delivery")
<1>1. e \in BridgeEvents /\ e.kind = "delivery"
  BY DEF Mcp!Mark, BridgeEvents, ToolNames, Mcp!Arguments
<1> HIDE DEF e
<1>2. Mcp!InsertAt(ev, p, e) = Agent!InsertAt(ev, p, e)
  BY DEF Mcp!InsertAt, Agent!InsertAt
<1>3. /\ Len(d) = Len(ev) + 1 /\ d[p] = e
      /\ \A i \in 1 .. p - 1 : d[i] = ev[i]
      /\ \A i \in p + 1 .. Len(ev) + 1 : d[i] = ev[i - 1]
  <2>1. d = Agent!InsertAt(ev, p, e)
    BY <1>2 DEF e
  <2> QED
    BY <1>1, <2>1, Inserted
<1>4. Len(ev) \in Nat /\ p \in Nat
  BY LenProperties
<1>5. \A i \in 1 .. Len(ev) : Sh(p, i) \in 1 .. Len(d) /\ d[Sh(p, i)] = ev[i] /\ Sh(p, i) # p
  <2> TAKE i \in 1 .. Len(ev)
  <2>1. CASE i < p
    BY <1>3, <1>4, <2>1 DEF Sh
  <2>2. CASE ~(i < p)
    <3>1. Sh(p, i) = i + 1 /\ i + 1 \in p + 1 .. Len(ev) + 1 /\ i + 1 - 1 = i
      BY <1>4, <2>2 DEF Sh
    <3> QED
      BY <1>3, <1>4, <3>1
  <2> QED
    BY <2>1, <2>2
<1>6. \A n \in 1 .. Len(d) : n = p \/ \E i \in 1 .. Len(ev) : n = Sh(p, i)
  <2> TAKE n \in 1 .. Len(d)
  <2>1. CASE n < p
    BY <1>3, <1>4, <2>1 DEF Sh
  <2>2. CASE n > p
    <3>1. n - 1 \in 1 .. Len(ev) /\ Sh(p, n - 1) = n
      BY <1>3, <1>4, <2>2 DEF Sh
    <3> QED
      BY <3>1
  <2> QED
    BY <1>4, <2>1, <2>2
<1>7. \A n \in 1 .. Len(d) : d[n].kind = "delivery" <=> n = p
  <2> TAKE n \in 1 .. Len(d)
  <2>1. CASE n = p
    BY <1>1, <1>3, <2>1
  <2>2. CASE n # p
    <3>1. PICK i \in 1 .. Len(ev) : n = Sh(p, i)
      BY <1>6, <2>2
    <3>2. d[n] = ev[i]
      BY <1>5, <3>1
    <3> QED
      BY <2>2, <3>2
  <2> QED
    BY <2>1, <2>2
<1>8. Mcp!Sent(d) = p
  <2>1. p \in 1 .. Len(d)
    BY <1>3, <1>4
  <2> QED
    BY <1>7, <2>1 DEF Mcp!Sent
<1>9. Mcp!Requests(d) = {Sh(p, i) : i \in Mcp!Requests(ev)}
  <2>1. \A n : n \in Mcp!Requests(d) <=>
                 n \in 1 .. Len(d) /\ d[n].kind = "request" /\ d[n].tool \in Mcp!Controlled
    BY DEF Mcp!Requests
  <2>2. \A n : n \in Mcp!Requests(ev) <=>
                 n \in 1 .. Len(ev) /\ ev[n].kind = "request" /\ ev[n].tool \in Mcp!Controlled
    BY DEF Mcp!Requests
  <2>3. \A n \in Mcp!Requests(d) : n # p
    BY <1>7, <2>1
  <2>4. ASSUME NEW n \in Mcp!Requests(d)
        PROVE  \E i \in Mcp!Requests(ev) : n = Sh(p, i)
    <3>1. PICK i \in 1 .. Len(ev) : n = Sh(p, i)
      BY <1>6, <2>1, <2>3
    <3>2. d[n] = ev[i]
      BY <1>5, <3>1
    <3>3. i \in Mcp!Requests(ev)
      BY <2>1, <2>2, <3>2
    <3> QED
      BY <3>1, <3>3
  <2>5. ASSUME NEW i \in Mcp!Requests(ev)
        PROVE  Sh(p, i) \in Mcp!Requests(d)
    BY <1>5, <2>1, <2>2
  <2> QED
    BY <2>4, <2>5
<1>10. ASSUME NEW id
       PROVE  Mcp!Results(d, id) = {Sh(p, i) : i \in Mcp!Results(ev, id)}
  <2>1. \A n : n \in Mcp!Results(d, id) <=>
                 n \in 1 .. Len(d) /\ d[n].kind = "result" /\ d[n].id = id
    BY DEF Mcp!Results
  <2>2. \A n : n \in Mcp!Results(ev, id) <=>
                 n \in 1 .. Len(ev) /\ ev[n].kind = "result" /\ ev[n].id = id
    BY DEF Mcp!Results
  <2>3. \A n \in Mcp!Results(d, id) : n # p
    BY <1>7, <2>1
  <2>4. ASSUME NEW n \in Mcp!Results(d, id)
        PROVE  \E i \in Mcp!Results(ev, id) : n = Sh(p, i)
    <3>1. PICK i \in 1 .. Len(ev) : n = Sh(p, i)
      BY <1>6, <2>1, <2>3
    <3>2. d[n] = ev[i]
      BY <1>5, <3>1
    <3>3. i \in Mcp!Results(ev, id)
      BY <2>1, <2>2, <3>2
    <3> QED
      BY <3>1, <3>3
  <2>5. ASSUME NEW i \in Mcp!Results(ev, id)
        PROVE  Sh(p, i) \in Mcp!Results(d, id)
    BY <1>5, <2>1, <2>2
  <2> QED
    BY <2>4, <2>5
<1> QED
  BY <1>3, <1>4, <1>5, <1>8, <1>9, <1>10

\* Evidence of one call with the event in it,
LEMMA OneMoves ==
  ASSUME NEW ev \in Seq(BridgeEvents), NEW p \in 1 .. Len(ev) + 1,
         \A i \in 1 .. Len(ev) : ev[i].kind # "delivery",
         NEW d, d = Mcp!InsertAt(ev, p, Mcp!Mark("delivery")), NEW a, NEW k, OneIn(ev, a, k)
  PROVE  /\ OneIn(d, Sh(p, a), Sh(p, k)) /\ d[Sh(p, a)] = ev[a] /\ d[Sh(p, k)] = ev[k]
         /\ a \in 1 .. Len(ev) /\ k \in 1 .. Len(ev)
<1>1. /\ a \in Nat /\ k \in Nat /\ a < k
      /\ Mcp!Requests(ev) = {a} /\ Mcp!Results(ev, ev[a].id) = {k} /\ SameCall(ev[a], ev[k])
  BY DEF OneIn
<1>2. a \in 1 .. Len(ev) /\ k \in 1 .. Len(ev)
  BY <1>1 DEF Mcp!Requests, Mcp!Results
<1>3. d[Sh(p, a)] = ev[a] /\ d[Sh(p, k)] = ev[k]
  BY <1>2, EventInPlace
<1>4. Mcp!Requests(d) = {Sh(p, a)} /\ Mcp!Results(d, ev[a].id) = {Sh(p, k)}
  BY <1>1, EventInPlace
<1>5. Sh(p, a) \in Nat /\ Sh(p, k) \in Nat /\ Sh(p, a) < Sh(p, k)
  BY <1>1 DEF Sh
<1>6. OneIn(d, Sh(p, a), Sh(p, k))
  BY <1>1, <1>3, <1>4, <1>5 DEF OneIn
<1> QED
  BY <1>2, <1>3, <1>6

\* and evidence of two calls with the event after them.
LEMMA TwoMoves ==
  ASSUME NEW ev \in Seq(BridgeEvents), NEW p \in 1 .. Len(ev) + 1,
         \A i \in 1 .. Len(ev) : ev[i].kind # "delivery",
         NEW d, d = Mcp!InsertAt(ev, p, Mcp!Mark("delivery")),
         NEW x, NEW k, NEW y, NEW l, TwoIn(ev, x, k, y, l), l < p
  PROVE  /\ TwoIn(d, x, k, y, l)
         /\ d[x] = ev[x] /\ d[k] = ev[k] /\ d[y] = ev[y] /\ d[l] = ev[l]
<1>1. /\ x \in Nat /\ k \in Nat /\ y \in Nat /\ l \in Nat /\ x < k /\ k < y /\ y < l
      /\ Mcp!Requests(ev) = {x, y}
      /\ Mcp!Results(ev, ev[x].id) = {k} /\ SameCall(ev[x], ev[k])
      /\ Mcp!Results(ev, ev[y].id) = {l} /\ SameCall(ev[y], ev[l])
  BY DEF TwoIn
<1>2. x \in 1 .. Len(ev) /\ k \in 1 .. Len(ev) /\ y \in 1 .. Len(ev) /\ l \in 1 .. Len(ev)
  BY <1>1 DEF Mcp!Requests, Mcp!Results
<1>3. Sh(p, x) = x /\ Sh(p, k) = k /\ Sh(p, y) = y /\ Sh(p, l) = l
  <2>1. x < p /\ k < p /\ y < p /\ l < p
    BY <1>1
  <2> QED
    BY <2>1 DEF Sh
<1>4. d[x] = ev[x] /\ d[k] = ev[k] /\ d[y] = ev[y] /\ d[l] = ev[l]
  BY <1>2, <1>3, EventInPlace
<1>5. /\ Mcp!Requests(d) = {x, y}
      /\ Mcp!Results(d, ev[x].id) = {k} /\ Mcp!Results(d, ev[y].id) = {l}
  <2>1. /\ Mcp!Requests(d) = {Sh(p, i) : i \in {x, y}}
        /\ Mcp!Results(d, ev[x].id) = {Sh(p, i) : i \in {k}}
        /\ Mcp!Results(d, ev[y].id) = {Sh(p, i) : i \in {l}}
    <3>1. /\ Mcp!Requests(d) = {Sh(p, i) : i \in Mcp!Requests(ev)}
          /\ \A id : Mcp!Results(d, id) = {Sh(p, i) : i \in Mcp!Results(ev, id)}
      BY EventInPlace
    <3> QED
      BY <1>1, <3>1
  <2> QED
    BY <1>3, <2>1
<1>6. TwoIn(d, x, k, y, l)
  BY <1>1, <1>4, <1>5 DEF TwoIn
<1> QED
  BY <1>4, <1>6

\* A story that is true stays true of evidence that keeps its output and its results.
LEMMA TrueStays ==
  ASSUME hist' = hist, kind' = kind, Mcp!Ended => Mcp!Ended',
         \A s \in Serves : Mcp!Unique(s) => Mcp!Unique(s)', Mcp!Faithful
  PROVE  Mcp!Faithful'
<1>1. /\ Mcp!Steps("serve")' = Serves /\ Mcp!Steps("model")' = Models /\ Mcp!Steps("drift")' = Drifts
      /\ Mcp!DiscoveryFaults' = Mcp!DiscoveryFaults
  BY DEF Mcp!Steps, Serves, Models, Drifts, Mcp!DiscoveryFaults
<1>2. \A i : Mcp!Before(i, "drift") => Mcp!Before(i, "drift")'
  BY <1>1 DEF Mcp!Before, Drifts
<1>3. Mcp!TrueStale => Mcp!TrueStale'
  BY <1>1, <1>2 DEF Mcp!TrueStale, Serves, Models
<1>4. ASSUME NEW t1, NEW t2, NEW a2, Mcp!TrueTwo(t1, t2, a2)
      PROVE  Mcp!TrueTwo(t1, t2, a2)'
  BY <1>1, <1>2, <1>4 DEF Mcp!TrueTwo, Serves, Models
<1>5. (\E s \in Serves : /\ Serves = {s} /\ Mcp!Unique(s)
                         /\ hist[s].ans = Mcp!Answer("poison", FALSE, "first")) =>
      (\E s \in Serves : /\ Serves = {s} /\ Mcp!Unique(s)'
                         /\ hist'[s].ans = Mcp!Answer("poison", FALSE, "first"))
  OBVIOUS
<1> QED
  BY <1>1, <1>3, <1>4, <1>5 DEF Mcp!Faithful, Serves, Models

\* The evidence of a run that ended is a sequence of events with no bridge event.
LEMMA EndedEvidence ==
  ASSUME Running, pc \in {"agent_end", "agent_attach"}
  PROVE  /\ evidence \in Seq(BridgeEvents) /\ Len(evidence) \in Nat
         /\ \A i \in 1 .. Len(evidence) : evidence[i].kind # "delivery"
<1>1. inflight = <<>> /\ evidence \in {Append(items, Mcp!Mark("output")), <<Mcp!Mark("violation")>>}
  BY RunFacts DEF Stations
<1>2. CASE evidence = <<Mcp!Mark("violation")>>
  <2>1. Mcp!Mark("violation") \in BridgeEvents /\ Mcp!Mark("violation").kind = "violation"
    BY DEF Mcp!Mark, BridgeEvents, ToolNames, Mcp!Arguments
  <2> QED
    BY <1>2, <2>1
<1>3. CASE evidence = Append(items, Mcp!Mark("output"))
  BY <1>1, <1>3, FinalEvidence DEF Finished
<1> QED
  BY <1>1, <1>2, <1>3

\* What a bridge leaves behind: the event in its place, and the identities in the receipt.
Bridging(d, p) ==
  /\ p \in 1 .. Len(evidence) + 1 /\ d = Mcp!InsertAt(evidence, p, Mcp!Mark("delivery"))
  /\ evidence' = d /\ kind' = kind /\ hist' = hist
  /\ rec'.first = rec.first /\ rec'.second = rec.second /\ rec'.bound = Mcp!Bound(evidence)

\* The requests of evidence depend on no other state than the kind of the fault.
LEMMA SameReading ==
  ASSUME kind' = kind, NEW d
  PROVE  /\ Mcp!Requests(d)' = Mcp!Requests(d)
         /\ \A n : Mcp!Request(d, n)' = Mcp!Request(d, n)
<1>1. Mcp!Controlled' = Mcp!Controlled
  BY DEF Mcp!Controlled, Mcp!Tools
<1> QED
  BY <1>1 DEF Mcp!Requests, Mcp!Request

\* The verifier accepts the evidence of two calls.
LEMMA TwoBridged ==
  ASSUME Finished, kind \in TwoCallKinds, NEW t1, NEW t2, NEW a2, Spoken(t1, t2, a2),
         NEW d, Bridging(d, Mcp!Place(evidence))
  PROVE  Mcp!Verified(d)'
<1> DEFINE p == Mcp!Place(evidence)
<1>1. /\ p \in 1 .. Len(evidence) + 1 /\ d = Mcp!InsertAt(evidence, p, Mcp!Mark("delivery"))
      /\ evidence' = d /\ kind' = kind
      /\ rec'.first = rec.first /\ rec'.second = rec.second /\ rec'.bound = Mcp!Bound(evidence)
  BY DEF Bridging
<1>2. PICK x, k, y, l, s, t, m :
        /\ Double(x, k, y, l, s, t, m) /\ TwoIn(evidence, x, k, y, l)
        /\ rec.second = Mcp!Answer(t2, FALSE, a2)
        /\ kind = "identity" => items[x].tool = "old" /\ items[y].tool = "new"
  BY DEF Spoken
<1>3. Faces(x, k, y, l, s)
  BY <1>2, TwoFaces
<1>4. /\ evidence \in Seq(BridgeEvents) /\ Len(evidence) \in Nat
      /\ \A i \in 1 .. Len(evidence) : evidence[i].kind # "delivery"
  BY FinalEvidence
<1>5. p = l + 1
  BY <1>3 DEF Faces, Mcp!Place, TwoCallKinds
<1>6. rec'.bound[1] = evidence[x].id /\ rec'.bound[2] = evidence[y].id
  <2>1. Mcp!Bound(evidence) = <<evidence[x].id, evidence[y].id>>
    BY <1>3 DEF Faces, Mcp!Bound, TwoCallKinds
  <2> QED
    BY <1>1, <2>1
<1> HIDE DEF p
<1>7. l < p /\ l \in Nat
  BY <1>2, <1>5 DEF TwoIn
<1>8. /\ TwoIn(d, x, k, y, l) /\ d[x] = evidence[x] /\ d[k] = evidence[k]
      /\ d[y] = evidence[y] /\ d[l] = evidence[l]
  BY <1>1, <1>2, <1>4, <1>7, TwoMoves
<1>9. Len(d) \in Nat /\ Mcp!Sent(d) = p
  BY <1>1, <1>4, EventInPlace
<1>10. /\ Mcp!Cardinality(Mcp!Requests(d)) = 2 /\ Mcp!Request(d, 1) = x /\ Mcp!Request(d, 2) = y
       /\ Mcp!Once(d, d[x].id) /\ Mcp!Result(d, d[x].id) = k
       /\ Mcp!Once(d, d[y].id) /\ Mcp!Result(d, d[y].id) = l
       /\ x < k /\ k < y /\ y < l
  BY <1>8, <1>9, TwoReads
<1>11. /\ d[x].args = rec.first.args /\ d[y].args = rec.second.args
       /\ d[k].ans.text = rec.first.text /\ d[l].ans = rec.second
       /\ kind = "identity" => d[x].tool = "old" /\ d[y].tool = "new"
  BY <1>2, <1>3, <1>8 DEF Faces, TwoCallKinds
<1>12. Mcp!TwoVerified(d)'
  BY <1>1, <1>6, <1>7, <1>8, <1>9, <1>10, <1>11, SameReading DEF Mcp!TwoVerified
<1> QED
  BY <1>1, <1>10, <1>11, <1>12, SameReading
     DEF TwoCallKinds, Mcp!Verified, Mcp!ErrorVerified, Mcp!SchemaVerified, Mcp!IdentityVerified

\* And of one: a poisoned result follows its event, a refused call goes before it.
LEMMA OneBridged ==
  ASSUME Finished, kind \in {"stale", "result"}, NEW a, NEW k, NEW s, Single1(a, k, s),
         OneIn(evidence, a, k), rec.first.args = "first", kind = "result" => rec.first.text = "poison",
         NEW d, Bridging(d, Mcp!Place(evidence))
  PROVE  Mcp!Verified(d)'
<1> DEFINE p == Mcp!Place(evidence)
<1>1. /\ p \in 1 .. Len(evidence) + 1 /\ d = Mcp!InsertAt(evidence, p, Mcp!Mark("delivery"))
      /\ evidence' = d /\ kind' = kind
      /\ rec'.first = rec.first /\ rec'.second = rec.second /\ rec'.bound = Mcp!Bound(evidence)
  BY DEF Bridging
<1>2. /\ evidence \in Seq(BridgeEvents) /\ Len(evidence) \in Nat
      /\ \A i \in 1 .. Len(evidence) : evidence[i].kind # "delivery"
      /\ \A i \in Asked \cup Told : evidence[i] = items[i]
  BY FinalEvidence
<1>3. /\ Mcp!Request(evidence, 1) = a /\ Mcp!Result(evidence, evidence[a].id) = k /\ a < k
  BY <1>2, OneReads
<1>4. p = IF kind = "result" THEN k ELSE k + 1
  BY <1>3 DEF Mcp!Place
<1>5. rec'.bound[1] = evidence[a].id
  <2>1. Mcp!Bound(evidence) = <<evidence[a].id>>
    BY <1>3 DEF Mcp!Bound
  <2> QED
    BY <1>1, <2>1
<1>6. /\ Asked = {a} /\ Told = {k} /\ a \in Nat /\ k \in Nat /\ SameCall(items[a], items[k])
      /\ rec.first = items[k].ans /\ items[k].ans.args = items[k].args
  BY DEF Single1
<1> DEFINE q == Sh(p, k)
<1>7. Sh(p, a) = a /\ q = IF kind = "result" THEN k + 1 ELSE k
  BY <1>3, <1>4, <1>6 DEF Sh
<1> HIDE DEF p
<1>8. OneIn(d, a, q) /\ d[a] = evidence[a] /\ d[q] = evidence[k]
  BY <1>1, <1>2, <1>7, OneMoves
<1>9. Len(d) \in Nat /\ Mcp!Sent(d) = p
  BY <1>1, <1>2, EventInPlace
<1> HIDE DEF q
<1>10. /\ Mcp!Cardinality(Mcp!Requests(d)) = 1 /\ Mcp!Request(d, 1) = a
       /\ Mcp!Once(d, d[a].id) /\ Mcp!Result(d, d[a].id) = q /\ a < q
  BY <1>8, <1>9, OneReads
<1>11. d[a].args = "first" /\ d[q].ans.text = rec.first.text
  BY <1>2, <1>6, <1>8 DEF SameCall
<1>12. a < p /\ (kind = "result" => p < q) /\ (kind = "stale" => q < p)
  BY <1>3, <1>4, <1>6, <1>7
<1>13. kind = "result" => Mcp!ResultVerified(d)'
  BY <1>1, <1>5, <1>8, <1>9, <1>10, <1>11, <1>12, SameReading DEF Mcp!ResultVerified
<1>14. kind = "stale" => Mcp!StaleVerified(d)'
  BY <1>1, <1>5, <1>8, <1>9, <1>10, <1>11, <1>12, SameReading DEF Mcp!StaleVerified
<1> QED
  BY <1>1, <1>13, <1>14 DEF Mcp!Verified

-----------------------------------------------------------------------------
(* The adapter's verdict, and the whole run                                   *)

\* A story that is told of the same evidence and the same history is the same story.
LEMMA SameTruth ==
  ASSUME hist' = hist, kind' = kind, evidence' = evidence
  PROVE  Mcp!Faithful' <=> Mcp!Faithful
<1>1. /\ Mcp!Steps("serve")' = Serves /\ Mcp!Steps("model")' = Models /\ Mcp!Steps("drift")' = Drifts
      /\ Mcp!DiscoveryFaults' = Mcp!DiscoveryFaults
  BY DEF Mcp!Steps, Serves, Models, Drifts, Mcp!DiscoveryFaults
<1>2. /\ \A i : Mcp!Before(i, "drift")' <=> Mcp!Before(i, "drift")
      /\ \A i : Mcp!Unique(i)' <=> Mcp!Unique(i)
      /\ Mcp!Ended' <=> Mcp!Ended
  BY <1>1 DEF Mcp!Before, Drifts, Mcp!Unique, Mcp!Once, Mcp!Results, Mcp!Ended
<1>3. Mcp!TrueStale' <=> Mcp!TrueStale
  BY <1>1, <1>2 DEF Mcp!TrueStale, Serves, Models
<1>4. ASSUME NEW t1, NEW t2, NEW a2
      PROVE  Mcp!TrueTwo(t1, t2, a2)' <=> Mcp!TrueTwo(t1, t2, a2)
  BY <1>1, <1>2 DEF Mcp!TrueTwo, Serves, Models
<1>5. (\E s \in Serves : /\ Serves = {s} /\ Mcp!Unique(s)'
                         /\ hist'[s].ans = Mcp!Answer("poison", FALSE, "first")) <=>
      (\E s \in Serves : /\ Serves = {s} /\ Mcp!Unique(s)
                         /\ hist[s].ans = Mcp!Answer("poison", FALSE, "first"))
  BY <1>2
<1> QED
  BY <1>1, <1>2, <1>3, <1>4, <1>5 DEF Mcp!Faithful, Serves, Models

\* The event leaves a true story true.
LEMMA EventKeepsTruth ==
  ASSUME evidence \in Seq(BridgeEvents), \A i \in 1 .. Len(evidence) : evidence[i].kind # "delivery",
         NEW d, NEW p, Bridging(d, p), Mcp!Faithful
  PROVE  Mcp!Faithful' /\ Mcp!Sent(d) = p
<1>1. /\ p \in 1 .. Len(evidence) + 1 /\ d = Mcp!InsertAt(evidence, p, Mcp!Mark("delivery"))
      /\ evidence' = d /\ kind' = kind /\ hist' = hist
  BY DEF Bridging
<1>2. /\ Len(d) = Len(evidence) + 1 /\ Len(evidence) \in Nat /\ Mcp!Sent(d) = p
      /\ \A i \in 1 .. Len(evidence) : Sh(p, i) \in 1 .. Len(d) /\ d[Sh(p, i)] = evidence[i]
      /\ \A id : Mcp!Results(d, id) = {Sh(p, i) : i \in Mcp!Results(evidence, id)}
  BY <1>1, EventInPlace
<1>3. Mcp!Ended => Mcp!Ended'
  <2>1. Mcp!Ended => \E i \in 1 .. Len(d) : d[i].kind = "output"
    BY <1>2 DEF Mcp!Ended
  <2> QED
    BY <1>1, <2>1 DEF Mcp!Ended
<1>4. ASSUME NEW id, Mcp!Once(evidence, id)
      PROVE  Mcp!Once(d, id)
  <2>1. PICK k : Mcp!Results(evidence, id) = {k}
    <3>1. Mcp!Results(evidence, id) # {}
      <4>1. PICK S : S = Mcp!Results(evidence, id)
        OBVIOUS
      <4>2. Cardinality(S) = 1
        BY <1>4, <4>1, BridgeCardinality DEF Mcp!Once
      <4>3. Cardinality({}) = 0
        BY FS_EmptySet, Zenon
      <4>4. Cardinality(S) # Cardinality({})
        BY <4>2, <4>3
      <4>5. S # {}
        BY <4>4, Zenon
      <4> QED
        BY <4>1, <4>5
    <3> QED
      BY <1>2, <1>4, <3>1, OnlyResult
  <2>2. Mcp!Results(d, id) = {Sh(p, k)} /\ Len(d) \in Nat
    BY <1>2, <2>1
  <2> QED
    BY <2>2, OnlyResult
<1>5. \A s \in Serves : Mcp!Unique(s) => Mcp!Unique(s)'
  BY <1>1, <1>4 DEF Mcp!Unique
<1> QED
  BY <1>1, <1>2, <1>3, <1>5, TrueStays

\* The event that an adapter adds, where it adds it, stands for a true story and passes the verifier.
LEMMA EventIsVerified ==
  ASSUME Running, pc \in {"agent_end", "agent_attach"},
         pc = "agent_attach" \/ ~(kind = "result" /\ Mcp!ResultComplete),
         Mcp!Attachable(evidence), NEW d, d = Mcp!Bridged(evidence), evidence' = d,
         kind' = kind, hist' = hist, rec'.first = rec.first, rec'.second = rec.second,
         rec'.bound = Mcp!Bound(evidence)
  PROVE  Mcp!Faithful' /\ Mcp!Verified(d)'
<1>1. Mcp!Faithful /\ (kind # "metadata" => Finished)
  BY AdaptersAgree
<1>2. kind \in {"metadata", "result", "stale"} \cup TwoCallKinds
  BY RunFacts DEF TwoCallKinds
<1>3. /\ evidence \in Seq(BridgeEvents) /\ Len(evidence) \in Nat
      /\ \A i \in 1 .. Len(evidence) : evidence[i].kind # "delivery"
  BY EndedEvidence
<1>4. Mcp!Place(evidence) \in 1 .. Len(evidence) + 1 => Bridging(d, Mcp!Place(evidence))
  BY DEF Bridging, Mcp!Bridged
<1>5. Bridging(d, Mcp!Place(evidence)) => Mcp!Faithful' /\ Mcp!Sent(d) = Mcp!Place(evidence)
  BY <1>1, <1>3, EventKeepsTruth
<1>6. CASE kind = "metadata"
  <2>1. Mcp!Place(evidence) = 1
    BY <1>6 DEF Mcp!Place
  <2>2. Mcp!Faithful' /\ Mcp!Sent(d) = 1
    BY <1>3, <1>4, <1>5, <2>1
  <2>3. Mcp!MetadataVerified(d)'
    BY <2>2 DEF Mcp!MetadataVerified
  <2> QED
    BY <1>6, <2>2, <2>3 DEF Mcp!Verified
<1>7. CASE kind \in {"result", "stale"}
  <2>1. Finished /\ (kind = "result" => pc = "agent_attach" \/ ~Mcp!ResultComplete)
    BY <1>1, <1>7
  <2>2. PICK a, k, s : /\ Single1(a, k, s) /\ OneIn(evidence, a, k) /\ rec.first.args = "first"
                       /\ kind = "result" => rec.first.text = "poison"
    <3>1. CASE kind = "result"
      <4>1. PICK a, k, s : /\ Single1(a, k, s) /\ OneIn(evidence, a, k)
                           /\ rec.first = Mcp!Answer("poison", FALSE, "first")
        BY <1>1, <2>1, <3>1, ResultAgrees
      <4>2. rec.first.args = "first" /\ rec.first.text = "poison"
        BY <4>1 DEF Mcp!Answer
      <4> QED
        BY <4>1, <4>2
    <3>2. CASE kind = "stale"
      <4>1. PICK a, k, s : /\ Single1(a, k, s) /\ OneIn(evidence, a, k)
                           /\ rec.first = Mcp!Answer("unknown_tool", TRUE, "first")
        BY <1>1, <2>1, <3>2, StaleAgrees
      <4>2. rec.first.args = "first"
        BY <4>1 DEF Mcp!Answer
      <4> QED
        BY <3>2, <4>1, <4>2
    <3> QED
      BY <1>7, <3>1, <3>2
  <2>3. /\ Mcp!Request(evidence, 1) = a /\ Mcp!Result(evidence, evidence[a].id) = k
        /\ k \in 1 .. Len(evidence)
    <3>1. Mcp!Results(evidence, evidence[a].id) = {k}
      BY <2>2 DEF OneIn
    <3> QED
      BY <1>3, <2>2, <3>1, OneReads DEF Mcp!Results
  <2>4. Mcp!Place(evidence) \in 1 .. Len(evidence) + 1
    <3>1. Mcp!Place(evidence) = IF kind = "result" THEN k ELSE k + 1
      BY <1>7, <2>3 DEF Mcp!Place
    <3> QED
      BY <1>3, <2>3, <3>1
  <2>5. Mcp!Verified(d)'
    BY <1>4, <1>7, <2>1, <2>2, <2>4, OneBridged
  <2> QED
    BY <1>4, <1>5, <2>4, <2>5
<1>8. CASE kind \in TwoCallKinds
  <2>1. Finished
    BY <1>1, <1>8 DEF TwoCallKinds
  <2>2. PICK t1, t2, a2 : Spoken(t1, t2, a2)
    BY <1>1, <1>8, <2>1, ErrorAgrees, SchemaAgrees, IdentityAgrees DEF TwoCallKinds
  <2>3. PICK x, k, y, l, s, t, m : Double(x, k, y, l, s, t, m) /\ TwoIn(evidence, x, k, y, l)
    BY <2>2 DEF Spoken
  <2>4. /\ Mcp!Request(evidence, 2) = y /\ Mcp!Result(evidence, evidence[y].id) = l
        /\ l \in 1 .. Len(evidence)
    <3>1. Mcp!Results(evidence, evidence[y].id) = {l}
      BY <2>3 DEF TwoIn
    <3> QED
      BY <1>3, <2>3, <3>1, TwoReads DEF Mcp!Results
  <2>5. Mcp!Place(evidence) \in 1 .. Len(evidence) + 1
    <3>1. Mcp!Place(evidence) = l + 1
      BY <1>8, <2>4 DEF Mcp!Place, TwoCallKinds
    <3> QED
      BY <1>3, <2>4, <3>1
  <2>6. Mcp!Verified(d)'
    BY <1>4, <1>8, <2>1, <2>2, <2>5, TwoBridged
  <2> QED
    BY <1>4, <1>5, <2>5, <2>6
<1> QED
  BY <1>2, <1>6, <1>7, <1>8

\* The adapter's verdict is true of the run: it refuses, or adds an event that verifies.
LEMMA AttachStep ==
  ASSUME Running, Mcp!Attach
  PROVE  pc' = "agent_done" /\ Mcp!BridgeMatchesHistory' /\ Mcp!BridgedEvidenceVerifies'
<1>1. /\ pc \in {"agent_end", "agent_attach"}
      /\ pc = "agent_attach" \/ ~(kind = "result" /\ Mcp!ResultComplete)
      /\ kind' = kind /\ hist' = hist /\ pc' = "agent_done"
      /\ IF Mcp!Attachable(evidence)
           THEN /\ evidence' = Mcp!Bridged(evidence) /\ outcome' = "bridged"
                /\ rec' = [rec EXCEPT !.bound = Mcp!Bound(evidence)]
           ELSE outcome' = "refused" /\ evidence' = evidence
  BY DEF Mcp!Attach, Mcp!Refuse
<1>2. CASE Mcp!Attachable(evidence)
  <2>1. PICK d : d = Mcp!Bridged(evidence)
    OBVIOUS
  <2>2. evidence' = d /\ outcome' = "bridged"
    BY <1>1, <1>2, <2>1
  <2>3. rec'.first = rec.first /\ rec'.second = rec.second /\ rec'.bound = Mcp!Bound(evidence)
    <3>1. DOMAIN rec = Fields
      BY RunFacts
    <3>2. PICK b : b = Mcp!Bound(evidence)
      OBVIOUS
    <3>3. rec' = [rec EXCEPT !.bound = b]
      BY <1>1, <1>2, <3>2
    <3> QED
      BY <3>1, <3>2, <3>3 DEF Fields
  <2>4. Mcp!Faithful' /\ Mcp!Verified(d)'
    BY <1>1, <1>2, <2>1, <2>2, <2>3, EventIsVerified
  <2>5. Mcp!BridgedEvidenceVerifies'
    BY <2>2, <2>4 DEF Mcp!BridgedEvidenceVerifies
  <2> QED
    BY <1>1, <2>2, <2>4, <2>5 DEF Mcp!BridgeMatchesHistory
<1>3. CASE ~Mcp!Attachable(evidence)
  <2>1. ~Mcp!Faithful
    BY <1>1, <1>3, AdaptersAgree
  <2>2. ~Mcp!Faithful' /\ outcome' = "refused"
    BY <1>1, <1>3, <2>1, SameTruth
  <2> QED
    BY <1>1, <2>2 DEF Mcp!BridgeMatchesHistory, Mcp!BridgedEvidenceVerifies
<1> QED
  BY <1>2, <1>3

\* A result that was poisoned once is not poisoned again.
LEMMA PoisonIsSpent ==
  ASSUME kind = "result", kind \in FaultKinds, live = Before, served \in Nat, served > 0
  PROVE  Mcp!Serve("old", "first") = Mcp!Answer("benign", FALSE, "first")
<1>1. live = {[name |-> "old", shape |-> "v1", note |-> "benign"]}
  BY CataloguesOf DEF Before
<1>2. Mcp!Names(live) = {"old"}
  BY <1>1, OneTool DEF Mcp!Names
<1>3. (CHOOSE a \in live : a.name = "old").shape = "v1"
  BY <1>1, OldTool
<1>4. ~(served = 0)
  OBVIOUS
<1> QED
  BY <1>2, <1>3, <1>4 DEF Mcp!Serve

\* The evaluator's own call refuses no run whose one call was poisoned.
LEMMA RecoveryIsFair ==
  ASSUME Running, Mcp!VerifyRecovery, pc' = "agent_done"
  PROVE  ~Mcp!Faithful /\ outcome' = "refused"
<1>1. /\ pc = "agent_end" /\ kind = "result" /\ outcome' = "refused"
      /\ Mcp!Serve("old", rec.first.args) # Mcp!Answer("benign", FALSE, "first")
  BY DEF Mcp!VerifyRecovery, Mcp!Refuse
<1> SUFFICES ASSUME Mcp!Faithful
             PROVE  FALSE
  BY <1>1
<1>2. inflight = <<>> /\ evidence \in {Append(items, Mcp!Mark("output")), <<Mcp!Mark("violation")>>}
  BY <1>1, RunFacts DEF Stations
<1>3. Finished
  BY <1>1, <1>2, ViolationAgrees DEF Finished
<1>4. PICK z \in Serves : Serves = {z} /\ hist[z].ans = Mcp!Answer("poison", FALSE, "first")
  BY <1>1 DEF Mcp!Faithful, Serves
<1>5. rec.calls = 1
  BY <1>3, <1>4, OneOnly
<1>6. PICK a, k, s : Single1(a, k, s)
  BY <1>3, <1>5, OneStory
<1>7. rec.first = Mcp!Answer("poison", FALSE, "first")
  BY <1>4, <1>6 DEF Single1, Same
<1>8. rec.first.args = "first"
  BY <1>7 DEF Mcp!Answer
<1>9. Changed /\ kind \in FaultKinds /\ served \in Nat
  BY RunFacts DEF BridgeTypes
<1>10. served > 0 /\ live = Before
  <2>1. Drifts = {}
    BY <1>1, <1>9 DEF Changed, Mcp!DiscoveryFaults
  <2> QED
    BY <1>1, <1>4, <1>9, <2>1 DEF Changed
<1> QED
  BY <1>1, <1>8, <1>9, <1>10, PoisonIsSpent

\* A run the adapter or a recorder refuses had no true story to tell.
LEMMA RefusingStep ==
  ASSUME Running, pc' = "agent_done",
         \/ Mcp!Execute \/ Mcp!ModelRefused \/ Mcp!VerifyRecovery
         \/ \E i \in 1 .. Len(inflight) : Mcp!CallFails(i)
  PROVE  Mcp!BridgeMatchesHistory' /\ Mcp!BridgedEvidenceVerifies'
<1>1. hist' = hist /\ kind' = kind /\ evidence' = evidence
  BY DEF Mcp!Execute, Mcp!ModelRefused, Mcp!VerifyRecovery, Mcp!CallFails
<1>2. ~Mcp!Faithful /\ outcome' = "refused"
  <2>1. CASE Mcp!VerifyRecovery
    BY <2>1, RecoveryIsFair
  <2>2. CASE ~Mcp!VerifyRecovery
    <3>1. /\ pc \in {"agent", "agent_model", "agent_calls"} /\ outcome' = "refused"
          /\ pc = "agent_model" => kind = "stale"
          /\ pc = "agent_calls" => kind \in {"error", "result"}
      BY <2>2 DEF Mcp!Execute, Mcp!ModelRefused, Mcp!CallFails, Mcp!CallRaises, Mcp!BoundaryRaises,
         Mcp!Refuse
    <3>2. evidence = <<>> /\ (pc = "agent" => hist = <<>>)
      BY <3>1, RunFacts DEF Stations
    <3>3. ~Mcp!Ended
      BY <3>2 DEF Mcp!Ended
    <3>4. pc = "agent" => Mcp!Steps("model") = {}
      BY <3>2 DEF Mcp!Steps
    <3> QED
      BY <3>1, <3>3, <3>4 DEF Mcp!Faithful
  <2> QED
    BY <2>1, <2>2
<1>3. ~Mcp!Faithful'
  BY <1>1, <1>2, SameTruth
<1> QED
  BY <1>2, <1>3 DEF Mcp!BridgeMatchesHistory, Mcp!BridgedEvidenceVerifies

\* A run that takes no step keeps what it kept.
LEMMA RunStays ==
  ASSUME Running, UNCHANGED mcpVars
  PROVE  Running'
<1>1. /\ kind' = kind /\ live' = live /\ served' = served /\ cache' = cache /\ pc' = pc
      /\ control' = control /\ turn' = turn /\ shown' = shown /\ inflight' = inflight
      /\ items' = items /\ rec' = rec /\ outcome' = outcome /\ evidence' = evidence /\ hist' = hist
  BY DEF mcpVars
<1>2. /\ Serves' = Serves /\ Models' = Models /\ Drifts' = Drifts
      /\ Before' = Before /\ After' = After /\ Mcp!Controlled' = Mcp!Controlled
  BY <1>1 DEF Serves, Models, Drifts, Mcp!Steps, Before, After, Mcp!BuildServer, Mcp!Drifted,
     Mcp!Controlled, Mcp!Tools
<1>3. Asked' = Asked /\ Told' = Told /\ Begun' = Begun
  BY <1>1, <1>2 DEF Asked, Told, Begun
<1>4. Back' = Back /\ (Separated' <=> Separated)
  BY <1>1, <1>3 DEF Back, Separated
<1>5. BridgeTypes /\ Stations /\ Stepping /\ Ledger /\ Changed /\ Holds /\ Story
  BY DEF Running
<1>6. BridgeTypes' /\ Stations' /\ Stepping' /\ Changed'
  BY <1>1, <1>2, <1>5 DEF BridgeTypes, Stations, Stepping, Changed
<1>7. Ledger'
  <2>1. Counted' /\ Paired' /\ Matched' /\ Ordered'
    BY <1>1, <1>2, <1>3, <1>4, <1>5 DEF Ledger, Counted, Paired, Matched, Ordered, Apart, Same, SameCall
  <2>2. pc' = "agent_calls" => \E m \in Models' : Turning(m)'
    BY <1>1, <1>2, <1>3, <1>4, <1>5 DEF Ledger, Turning, Same
  <2> QED
    BY <2>1, <2>2 DEF Ledger
<1>8. Holds'
  BY <1>1, <1>3, <1>4, <1>5 DEF Holds, OneTold, TwoTold, SameCall
<1>9. kind \in Mcp!DiscoveryFaults => Discovery'
  <2> HAVE kind \in Mcp!DiscoveryFaults
  <2>1. Discovery
    BY <1>5 DEF Story
  <2>2. NotBegun => NotBegun'
    BY <1>1, <1>2 DEF NotBegun
  <2>3. ASSUME NEW j
        PROVE  /\ Waiting(j)' <=> Waiting(j)
               /\ (FirstCall(j) => FirstCall(j)') /\ (SecondCall(j) => SecondCall(j)')
    BY <1>1, <1>2, <1>3 DEF Waiting, FirstCall, SecondCall, Kept
  <2>4. OneCall => OneCall'
    BY <1>1, <1>2, <1>3 DEF OneCall, Kept, Rested, Refreshed, Reported, Mcp!Ended
  <2>5. TwoCalls => TwoCalls'
    BY <1>1, <1>2, <1>3 DEF TwoCalls, Kept
  <2> QED
    BY <1>1, <1>2, <1>3, <1>4, <2>1, <2>2, <2>3, <2>4, <2>5 DEF Discovery
<1>10. /\ kind = "metadata" => Metadata'
       /\ Poisoned' /\ Worded'
  BY <1>1, <1>2, <1>3, <1>4, <1>5 DEF Story, Metadata, Poisoned, Worded, Mcp!Ended, Mcp!ResultComplete
<1> QED
  BY <1>1, <1>6, <1>7, <1>8, <1>9, <1>10 DEF Running, Story, Mcp!DiscoveryFaults

\* A run begins with nothing asked, served or recorded; a probe has no bridge.
LEMMA BridgeBegins ==
  ASSUME Mcp!Init
  PROVE  BridgeInv
<1>1. CASE Mcp!LabInit /\ Mcp!Idle
  BY <1>1 DEF Mcp!LabInit, Mcp!Idle, BridgeInv, AgentPcs
<1>2. CASE Mcp!AgentInit
  <2>1. /\ kind \in FaultKinds /\ control \in Mcp!Controls /\ live = Before /\ served = 0
        /\ cache = Mcp!NoListing /\ pc = "agent" /\ shown = {} /\ inflight = <<>> /\ items = <<>>
        /\ rec = Mcp!NoRecord /\ outcome = "none" /\ evidence = <<>> /\ hist = <<>>
    BY <1>2 DEF Mcp!AgentInit, Before, Mcp!Controls
  <2>2. /\ Serves = {} /\ Models = {} /\ Drifts = {} /\ Asked = {} /\ Told = {} /\ Begun = {}
        /\ Back = {} /\ Len(inflight) = 0
    BY <2>1 DEF Serves, Models, Drifts, Mcp!Steps, Asked, Told, Begun, Back
  <2>3. /\ DOMAIN rec = Fields /\ rec.calls = 0 /\ rec.marks = <<>> /\ ~rec.failed /\ ~rec.early
        /\ ~rec.receipt /\ rec.initial = Mcp!NoListing /\ rec.cached = Mcp!NoListing
        /\ rec.refreshed = Mcp!NoListing /\ rec.model = Mcp!NoListing /\ rec.later = Mcp!NoListing
    BY <2>1 DEF Mcp!NoRecord, Fields
  <2>4. BridgeTypes /\ Stations /\ Stepping
    BY <2>1, <2>2, <2>3 DEF BridgeTypes, Stations, Stepping
  <2>5. Ledger
    <3>1. Counted
      BY <2>2, <2>3, FS_EmptySet DEF Counted
    <3> QED
      BY <2>1, <2>2, <3>1 DEF Ledger, Paired, Matched, Ordered
  <2>6. Changed /\ Holds
    BY <2>1, <2>2, <2>3 DEF Changed, Holds
  <2>7. ~Mcp!Ended
    BY <2>1 DEF Mcp!Ended
  <2>8. Story
    BY <2>1, <2>2, <2>3, <2>7 DEF Story, Discovery, NotBegun, Metadata, Poisoned, Worded
  <2> QED
    BY <2>1, <2>4, <2>5, <2>6, <2>8 DEF Running, BridgeInv, AgentPcs
<1> QED
  BY <1>1, <1>2 DEF Mcp!Init

\* What holds of a run and its bridge holds after every step.
LEMMA BridgeStep ==
  ASSUME BridgeInv, Mcp!Next \/ UNCHANGED mcpVars
  PROVE  BridgeInv'
<1>1. CASE UNCHANGED mcpVars
  <2>1. CASE pc \in AgentPcs /\ pc # "agent_done"
    <3>1. Running'
      BY <1>1, <2>1, RunStays DEF BridgeInv
    <3> QED
      BY <1>1, <2>1, <3>1 DEF BridgeInv, mcpVars, AgentPcs
  <2>2. CASE pc = "agent_done"
    <3>1. /\ hist' = hist /\ kind' = kind /\ evidence' = evidence /\ outcome' = outcome /\ rec' = rec
          /\ pc' = pc
      BY <1>1 DEF mcpVars
    <3>2. Mcp!BridgeMatchesHistory /\ Mcp!BridgedEvidenceVerifies
      BY <2>2 DEF BridgeInv, AgentPcs
    <3>3. Mcp!BridgeMatchesHistory'
      BY <3>1, <3>2, SameTruth DEF Mcp!BridgeMatchesHistory
    <3>4. PICK d : d = evidence /\ evidence' = d
      BY <3>1
    <3>5. /\ Mcp!Requests(d)' = Mcp!Requests(d)
          /\ \A n : Mcp!Request(d, n)' = Mcp!Request(d, n)
      BY <3>1, SameReading
    <3>6. /\ Mcp!TwoVerified(d) => Mcp!TwoVerified(d)'
          /\ Mcp!ResultVerified(d) => Mcp!ResultVerified(d)'
          /\ Mcp!StaleVerified(d) => Mcp!StaleVerified(d)'
          /\ Mcp!MetadataVerified(d) => Mcp!MetadataVerified(d)'
      BY <3>1, <3>5 DEF Mcp!TwoVerified, Mcp!ResultVerified, Mcp!StaleVerified, Mcp!MetadataVerified
    <3>7. Mcp!IdentityVerified(d) => Mcp!IdentityVerified(d)'
      BY <3>5, <3>6 DEF Mcp!IdentityVerified
    <3>8. kind \in FaultKinds
      BY <2>2 DEF BridgeInv, AgentPcs
    <3>9. Mcp!Verified(d) => Mcp!Verified(d)'
      BY <3>1, <3>6, <3>7, <3>8, FaultsAreKnown
         DEF Mcp!Verified, Mcp!ErrorVerified, Mcp!SchemaVerified
    <3>10. Mcp!BridgedEvidenceVerifies'
      BY <3>1, <3>2, <3>4, <3>9 DEF Mcp!BridgedEvidenceVerifies
    <3> QED
      BY <2>2, <3>1, <3>3, <3>8, <3>10 DEF BridgeInv, AgentPcs
  <2>3. CASE pc \notin AgentPcs
    BY <1>1, <2>3 DEF BridgeInv, mcpVars, AgentPcs
  <2> QED
    BY <2>1, <2>2, <2>3
<1>2. CASE Mcp!AgentNext
  <2>1. pc \in AgentPcs /\ pc # "agent_done"
    BY <1>2 DEF AgentPcs, Mcp!AgentNext, Mcp!Execute, Mcp!ListTools, Mcp!BudgetSpent, Mcp!ModelCalls,
       Mcp!ModelEnds, Mcp!ModelRefused, Mcp!ServeCall, Mcp!ResumeCall, Mcp!CallFails, Mcp!EndTurn,
       Mcp!VerifyRecovery, Mcp!Attach
  <2>2. Running
    BY <2>1 DEF BridgeInv
  <2>3. kind \in FaultKinds
    BY <2>2, RunFacts
  <2>4. CASE Mcp!Attach
    <3>1. kind' = kind
      BY <2>4 DEF Mcp!Attach
    <3> QED
      BY <2>2, <2>4, <2>3, <3>1, AttachStep DEF BridgeInv, AgentPcs
  <2>5. CASE pc' = "agent_done" /\ ~Mcp!Attach
    <3>1. \/ Mcp!Execute \/ Mcp!ModelRefused \/ Mcp!VerifyRecovery
          \/ \E i \in 1 .. Len(inflight) : Mcp!CallFails(i)
      BY <1>2, <2>5 DEF Mcp!AgentNext, Mcp!ListTools, Mcp!BudgetSpent, Mcp!ModelCalls, Mcp!ModelEnds,
         Mcp!ServeCall, Mcp!ResumeCall, Mcp!EndTurn
    <3>2. kind' = kind
      BY <3>1 DEF Mcp!Execute, Mcp!ModelRefused, Mcp!VerifyRecovery, Mcp!CallFails
    <3> QED
      BY <2>2, <2>5, <2>3, <3>1, <3>2, RefusingStep DEF BridgeInv, AgentPcs
  <2>6. CASE pc' # "agent_done" /\ ~Mcp!Attach
    <3>1. ~Mcp!ModelRefused /\ ~\E i \in 1 .. Len(inflight) : Mcp!CallFails(i)
      BY <2>6 DEF Mcp!ModelRefused, Mcp!CallFails, Mcp!Refuse
    <3>2. Running'
      BY <1>2, <2>2, <2>6, <3>1, ListingStep, MovingStep, ModelStep, ServeStep, ResumeStep, TurnStep
         DEF Mcp!AgentNext
    <3>3. pc' \in AgentPcs
      BY <3>2 DEF Running, Stations, AgentPcs
    <3> QED
      BY <2>6, <3>2, <3>3 DEF BridgeInv
  <2> QED
    BY <2>4, <2>5, <2>6
<1>3. CASE Mcp!ProbeNext /\ UNCHANGED <<control, turn, shown, inflight, items, rec, outcome, evidence, hist>>
  <2>1. pc \notin AgentPcs /\ pc' \notin AgentPcs
    BY <1>3 DEF AgentPcs, Mcp!ProbeNext, Mcp!CacheExpires, Mcp!ProbeLists, Mcp!ProbeListsCached,
       Mcp!ProbeCallsFirst, Mcp!ProbeRefreshes, Mcp!ProbeCallsSecond, Mcp!ProbeReceipt
  <2> QED
    BY <1>3, <2>1 DEF BridgeInv
<1> QED
  BY <1>1, <1>2, <1>3 DEF Mcp!Next, Mcp!agentVars

\* An adapter adds its bridge event exactly to the runs whose whole story server and model really
\* went through, in that order and under those calls, however the calls of a turn interleave; and
\* evidence with an event passes the verifier (_attach_verified_*_bridge, mcp/delivery.py).
THEOREM BridgesAreTrue == Spec => []BridgeIsTrue
<1> DEFINE I == part = "mcp" => BridgeInv
<1>1. Init => I
  BY OnePartBegins, BridgeBegins
<1>2. I /\ [Next]_<<part, mcpVars, agentVars, approvalVars, effectsVars, flowVars, serversVars,
                    hostedVars>> => I'
  BY OnePartMoves, BridgeStep
<1>3. I => BridgeIsTrue
  <2>1. BridgeInv => Mcp!BridgeMatchesHistory /\ Mcp!BridgedEvidenceVerifies
    BY DEF BridgeInv, Running, Stations, Mcp!BridgeMatchesHistory, Mcp!BridgedEvidenceVerifies
  <2> QED
    BY <2>1 DEF BridgeIsTrue
<1> QED
  BY <1>1, <1>2, <1>3, PTL DEF Spec
=============================================================================
