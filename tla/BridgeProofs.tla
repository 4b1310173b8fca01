---------------------------- MODULE BridgeProofs ----------------------------
(* What a run of an agent behind an MCP bridge keeps in each of its stations,   *)
(* and that its listings, its model, the server's answers and the recorder's    *)
(* calls keep it, for every value of the constants of Adapters.                 *)
EXTENDS AdaptersProofs, FunctionTheorems

-----------------------------------------------------------------------------
(* A run behind a bridge: what it keeps                                       *)

Failures == {"tool_error", "unknown_tool", "bad_arguments"}
Replies == {a \in Mcp!Answers : a.error <=> a.text \in Failures}
ToolNames == Mcp!Tools \cup {Mcp!Local}
Ops == {"begin", "control", "stale", "recovery", "plain", "done"}
BridgeCalls == [tool : ToolNames, args : Mcp!Arguments, id : Nat, op : Ops,
                ans : Mcp!Answers \cup {Mcp!NoAnswer}]
BridgeItems == [kind : {"request", "result"}, tool : ToolNames, args : Mcp!Arguments, id : Nat,
                ans : Mcp!Answers \cup {Mcp!NoAnswer}]
Happenings == [what : {"list", "model", "drift", "idle", "serve"}, listing : SUBSET Mcp!Adverts,
               id : Nat, ans : Mcp!Answers \cup {Mcp!NoAnswer}]
Fields == {"calls", "marks", "failed", "early", "receipt", "initial", "cached", "refreshed", "model",
           "later", "told", "tool1", "tool2", "first", "second", "bound"}
Before == Mcp!BuildServer(kind)
After == Mcp!Drifted(kind)
BridgeTypes ==
  /\ kind \in FaultKinds /\ control \in Mcp!Controls /\ served \in Nat
  /\ items \in Seq(BridgeItems) /\ inflight \in Seq(BridgeCalls) /\ hist \in Seq(Happenings)
  /\ shown \in {{}, Before, After} /\ cache \in {Mcp!NoListing, Before, After} /\ DOMAIN rec = Fields

\* The calls of controlled tools: asked and told in finished turns, begun and served in this one.
Asked == {i \in 1 .. Len(items) : items[i].kind = "request" /\ items[i].tool \in Mcp!Controlled}
Told == {i \in 1 .. Len(items) : items[i].kind = "result" /\ items[i].tool \in Mcp!Controlled}
Begun == {i \in 1 .. Len(inflight) :
            inflight[i].tool \in Mcp!Controlled /\ inflight[i].op # "begin"}
Back == {i \in Begun : \/ inflight[i].op = "done"
                       \/ inflight[i].op # "control" /\ inflight[i].ans # Mcp!NoAnswer}
Serves == Mcp!Steps("serve")
Models == Mcp!Steps("model")
Drifts == Mcp!Steps("drift")
SameCall(a, b) == a.id = b.id /\ a.tool = b.tool /\ a.args = b.args
Same(s, e) == hist[s].id = e.id /\ hist[s].ans = e.ans

\* What the stations of a run say of its calls and its evidence.
Stations ==
  /\ pc \in {"agent", "agent_list", "agent_model", "agent_calls", "agent_end", "agent_attach"}
  /\ outcome = "none"
  /\ pc # "agent_calls" => inflight = <<>>
  /\ pc = "agent" => items = <<>> /\ hist = <<>>
  /\ pc \in {"agent_end", "agent_attach"} =>
       evidence \in {Append(items, Mcp!Mark("output")), <<Mcp!Mark("violation")>>}
  /\ pc \notin {"agent_end", "agent_attach"} => evidence = <<>>

\* The station of a call fits its tool, the fault, and the calls so far.
Stepping ==
  \A j \in 1 .. Len(inflight) :
    /\ inflight[j].op \notin {"begin", "done"} => inflight[j].tool \in Mcp!Controlled
    /\ inflight[j].op \in {"control", "stale"} => kind \in Mcp!DiscoveryFaults
    /\ inflight[j].op = "recovery" => kind \in {"schema", "identity"} /\ rec.calls \notin {0, 1}
    /\ inflight[j].op = "plain" /\ kind \in Mcp!DiscoveryFaults => rec.calls \notin {0, 1}
    /\ inflight[j].op = "plain" /\ kind \in {"schema", "identity"} => rec.calls # 2

\* As many calls as requests, as many serves as answers.
Counted ==
  /\ rec.calls = Cardinality(Asked) + Cardinality(Begun)
  /\ Cardinality(Serves) = Cardinality(Asked) + Cardinality(Back)

\* Requests and results come in pairs, and each answer is to its call.
Paired ==
  /\ \A i \in Asked : \E k \in Told : i < k /\ SameCall(items[i], items[k])
  /\ \A k \in Told : \E i \in Asked : i < k /\ SameCall(items[i], items[k])
  /\ \A k \in Told : items[k].ans \in Replies /\ items[k].ans.args = items[k].args
  /\ \A j \in Back : inflight[j].ans \in Replies /\ inflight[j].ans.args = inflight[j].args

\* What the server did is what the calls were told; before this turn's answer of the model the
\* finished turns, after it this turn.
Matched ==
  /\ \A k \in Told : \E s \in Serves : Same(s, items[k])
  /\ \A j \in Back : \E s \in Serves : Same(s, inflight[j])
  /\ \A s \in Serves : \/ \E k \in Told : Same(s, items[k])
                       \/ \E j \in Back : Same(s, inflight[j])
Turning(m) ==
  /\ \A n \in Models : n <= m
  /\ \A k \in Told : \E s \in Serves : s < m /\ Same(s, items[k])
  /\ \A j \in Back : \E s \in Serves : s > m /\ Same(s, inflight[j])
  /\ \A s \in Serves : IF s < m THEN \E k \in Told : Same(s, items[k])
                       ELSE \E j \in Back : Same(s, inflight[j])

\* A model asked between two serves separates their turns, and separated turns have a model between.
Apart(k, i, l) == k < i /\ i < l /\ SameCall(items[i], items[l])
Ordered ==
  /\ \A s, t \in Serves, m \in Models : s < m /\ m < t =>
       \E k \in Told :
         /\ Same(s, items[k])
         /\ \/ \E i \in Asked, l \in Told : Apart(k, i, l) /\ Same(t, items[l])
            \/ \E j \in Back : Same(t, inflight[j])
  /\ \A k \in Told, i \in Asked : k < i =>
       \E s, t \in Serves, m \in Models, l \in Told :
         /\ s < m /\ m < t /\ Same(s, items[k]) /\ Apart(k, i, l) /\ Same(t, items[l])
Ledger ==
  /\ Counted /\ Paired /\ Matched /\ Ordered
  /\ pc = "agent_calls" => \E m \in Models : Turning(m)

\* The server changes once, and before that no answer speaks of a change.
Changed ==
  /\ live = IF Drifts = {} THEN Before ELSE After
  /\ Drifts # {} => kind \in Mcp!DiscoveryFaults
  /\ Drifts = {} => /\ cache \in {Mcp!NoListing, Before} /\ shown \in {{}, Before}
                    /\ \A i \in 1 .. Len(inflight) : inflight[i].tool # "new"
  /\ \A s \in Serves : (\E d \in Drifts : d < s) \/
       /\ hist[s].ans.text \notin {"unknown_tool", "replacement"}
       /\ ~(hist[s].ans.text = "bad_arguments" /\ hist[s].ans.args = "first")
  /\ kind = "result" /\ Serves # {} => served > 0

\* The recorder holds the answers of a first call and of one in a later turn.
OneTold(k) == Told = {k} /\ rec.first = items[k].ans
TwoTold(i1, k1, i2, k2) ==
  /\ Asked = {i1, i2} /\ Told = {k1, k2} /\ i1 < k1 /\ k1 < i2 /\ i2 < k2
  /\ SameCall(items[i1], items[k1]) /\ SameCall(items[i2], items[k2])
  /\ rec.first = items[k1].ans
  /\ kind \in {"error", "schema", "identity"} => rec.second = items[k2].ans
Separated == \E k \in Told, i \in Asked : k < i
\* What the recorder holds, by the calls it counted.
Holds ==
  /\ rec.calls = 1 => \A j \in Begun : inflight[j].op = "done" => rec.first = inflight[j].ans
  /\ rec.calls = 1 /\ Asked # {} => \E k \in Told : OneTold(k)
  /\ rec.calls = 2 /\ Begun # {} /\ Asked # {} =>
       /\ \E k \in Told : OneTold(k)
       /\ \A j \in Begun : inflight[j].op = "done" /\ kind \in {"error", "schema", "identity"} =>
            rec.second = inflight[j].ans
  /\ rec.calls = 2 /\ Separated => \E i1, i2 \in Asked, k1, k2 \in Told : TwoTold(i1, k1, i2, k2)
  /\ kind \in {"error", "result"} =>
       /\ rec.calls = 1 => rec.receipt \/ (Asked = {} /\ \A j \in Begun : inflight[j].op # "done")
       /\ rec.calls = 2 /\ Asked # {} => rec.receipt \/ (Begun = {} /\ ~Separated)

\* The marks of a discovery story, as it goes on.
Marks1 == <<"initial">>
Marks3 == <<"initial", "swap", "cached">>
Marks5 == <<"initial", "swap", "cached", "stale", "invalidated">>
Marks6 == Mcp!Stale3
Marks7 == <<"initial", "swap", "cached", "stale", "invalidated", "refreshed", "recovery">>

\* Before the first controlled call, and until the control tool answers it.
NotBegun ==
  /\ ~rec.failed /\ ~rec.early
  /\ rec.cached = Mcp!NoListing /\ rec.refreshed = Mcp!NoListing /\ rec.later = Mcp!NoListing
  /\ rec.initial \in {Mcp!NoListing, Before} /\ rec.model \in {Mcp!NoListing, Before}
  /\ rec.marks = IF rec.initial = Mcp!NoListing THEN <<>> ELSE Marks1
  /\ pc \in {"agent_model", "agent_calls"} => rec.initial = Before /\ cache = Before /\ shown = Before
  /\ pc = "agent_calls" /\ kind # "schema" => rec.model = Before
Waiting(j) == inflight[j].op = "control" /\ inflight[j].ans = Mcp!NoAnswer

\* The story after the change: what every station of it keeps,
Kept ==
  /\ ~rec.failed /\ ~rec.early /\ rec.initial = Before
  /\ kind # "schema" => rec.model = Before
  /\ kind = "identity" => rec.tool1 = "old"
\* while the first call is under way,
FirstCall(j) ==
  /\ Kept /\ rec.refreshed = Mcp!NoListing /\ rec.later = Mcp!NoListing
  /\ inflight[j].tool = "old"
  /\ \/ inflight[j].op = "control" /\ ~inflight[j].ans.error /\ rec.marks = Marks1 /\ cache = Before
     \/ inflight[j].op = "stale" /\ rec.marks = Marks3 /\ rec.cached = Before /\ cache = Before
     \/ inflight[j].op = "done" /\ rec.marks = Marks5 /\ rec.cached = Before /\ cache = Mcp!NoListing
\* between the first call and the next listing, and from that listing on,
Rested ==
  /\ rec.refreshed = Mcp!NoListing /\ rec.later = Mcp!NoListing
  /\ rec.marks = Marks5 /\ cache = Mcp!NoListing
  /\ pc \in {"agent_list", "agent_end"} /\ ~Mcp!Ended
Refreshed ==
  /\ rec.refreshed = After /\ rec.marks = Marks6
  /\ kind # "schema" =>
       \/ rec.later = Mcp!NoListing /\ pc = "agent_model" /\ shown = After
       \/ rec.later = After
Reported(k) ==
  kind = "stale" /\ rec.later # Mcp!NoListing =>
    /\ rec.told.id = items[k].id /\ rec.told.ans = items[k].ans
    /\ \E m \in Models : hist[m].listing = {} /\ \A s \in Serves : s < m
OneCall ==
  /\ Kept /\ rec.cached = Before
  /\ Rested \/ Refreshed
  /\ \A k \in Told : items[k].tool = "old" /\ Reported(k)
\* while the second call is under way, and after it.
SecondCall(j) ==
  /\ Kept /\ rec.cached = Before /\ rec.refreshed = After
  /\ kind = "identity" => rec.later = After /\ rec.tool2 = inflight[j].tool
  /\ \A k \in Told : items[k].tool = "old"
  /\ \/ inflight[j].op = "recovery" /\ rec.marks = Marks6
     \/ inflight[j].op = "done" /\ rec.marks = Marks7
TwoCalls ==
  /\ Kept /\ rec.cached = Before /\ rec.refreshed = After /\ rec.marks = Marks7
  /\ kind = "identity" => rec.later = After
  /\ \A i \in Asked, k \in Told : k < i =>
       /\ items[k].tool = "old"
       /\ kind = "identity" => rec.tool2 = items[i].tool

\* The discovery story by the calls begun so far, before the server changed and after it.
Discovery ==
  /\ rec.calls = 0 => NotBegun /\ Drifts = {}
  /\ rec.calls = 1 => \A j \in Begun : Waiting(j) =>
       /\ NotBegun /\ Drifts = {} /\ inflight[j].tool = "old"
       /\ kind = "identity" => rec.tool1 = "old"
  /\ rec.calls = 2 /\ Asked # {} => \A j \in Begun : inflight[j].op \in {"recovery", "plain", "done"}
  /\ Drifts # {} =>
       /\ rec.calls = 1 => \A j \in Begun : FirstCall(j)
       /\ rec.calls = 1 /\ Asked # {} => OneCall
       /\ rec.calls = 2 /\ Asked # {} /\ kind # "stale" => \A j \in Begun : SecondCall(j)
       /\ rec.calls = 2 /\ Separated /\ kind # "stale" => TwoCalls
\* The recorder credits the poisoned listing, and then what the model was shown.
Metadata ==
  /\ rec.receipt => rec.initial = Before
  /\ rec.model # Mcp!NoListing => rec.model = Before /\ rec.receipt
  /\ rec.model # Mcp!NoListing <=> Models # {}
  /\ pc \in {"agent_model", "agent_calls"} => rec.receipt /\ shown = Before
  /\ Mcp!Ended => rec.model # Mcp!NoListing
  /\ cache \in {Mcp!NoListing, Before}
\* An evaluator that called again had a complete record; and which texts a kind of server utters.
Poisoned == pc = "agent_attach" => kind = "result" /\ Mcp!ResultComplete /\ rec.first.args = "first"
Worded ==
  /\ kind = "schema" => \A s \in Serves : hist[s].ans.text \notin {"unknown_tool", "tool_error"}
  /\ kind = "identity" =>
       /\ \A k \in Told : items[k].ans.text = "replacement" => items[k].tool = "new"
       /\ \A j \in Back : inflight[j].ans.text = "replacement" => inflight[j].tool = "new"
Story ==
  /\ kind \in Mcp!DiscoveryFaults => Discovery
  /\ kind = "metadata" => Metadata
  /\ Poisoned /\ Worded

\* A run under way keeps all of it; a run that is done has its verdict, and a probe has none.
Running == BridgeTypes /\ Stations /\ Stepping /\ Ledger /\ Changed /\ Holds /\ Story
BridgeInv ==
  IF pc \in AgentPcs
    THEN IF pc = "agent_done"
           THEN kind \in FaultKinds /\ Mcp!BridgeMatchesHistory /\ Mcp!BridgedEvidenceVerifies
         ELSE Running
    ELSE outcome = "none"

-----------------------------------------------------------------------------
(* Steps and calls                                                            *)

\* What a run's history gains by one entry.
LEMMA HistoryGrows ==
  ASSUME hist \in Seq(Happenings), NEW h \in Happenings, hist' = Append(hist, h)
  PROVE  /\ hist' \in Seq(Happenings) /\ Len(hist) \in Nat /\ Len(hist') = Len(hist) + 1
         /\ \A n \in 1 .. Len(hist) : hist'[n] = hist[n]
         /\ hist'[Len(hist) + 1] = h
         /\ \A w : Mcp!Steps(w)' = Mcp!Steps(w) \cup (IF h.what = w THEN {Len(hist) + 1} ELSE {})
         /\ \A w : Mcp!Steps(w) \subseteq 1 .. Len(hist)
<1>1. /\ hist' \in Seq(Happenings) /\ Len(hist) \in Nat /\ Len(hist') = Len(hist) + 1
      /\ \A n \in 1 .. Len(hist) : hist'[n] = hist[n]
      /\ hist'[Len(hist) + 1] = h
  BY Appended
<1>2. ASSUME NEW w
      PROVE  /\ Mcp!Steps(w)' = Mcp!Steps(w) \cup (IF h.what = w THEN {Len(hist) + 1} ELSE {})
             /\ Mcp!Steps(w) \subseteq 1 .. Len(hist)
  BY <1>1 DEF Mcp!Steps
<1> QED
  BY <1>1, <1>2

\* Finite sets of positions.
LEMMA Positions ==
  ASSUME NEW n \in Nat, NEW S \in SUBSET (1 .. n)
  PROVE  IsFiniteSet(S) /\ Cardinality(S) \in Nat
<1>1. IsFiniteSet(1 .. n)
  BY FS_Interval
<1> QED
  BY <1>1, FS_Subset, FS_CardinalityType

\* The cardinality that the model counts with is the library's.
LEMMA BridgeCardinality ==
  ASSUME NEW S
  PROVE  Mcp!Cardinality(S) = Cardinality(S)
BY DEF Mcp!Cardinality, Cardinality

\* One or two members.
LEMMA OneOrTwo ==
  ASSUME NEW S, IsFiniteSet(S)
  PROVE  /\ Cardinality(S) = 0 <=> S = {}
         /\ Cardinality(S) = 1 <=> \E x : S = {x}
         /\ Cardinality(S) = 2 => \E x, y : x # y /\ S = {x, y}
         /\ \A x, y : x # y /\ S = {x, y} => Cardinality(S) = 2
<1>1. /\ Cardinality(S) \in Nat /\ (Cardinality(S) = 0 <=> S = {})
      /\ Cardinality(S) = 1 <=> \E x : S = {x}
  BY FS_CardinalityType, FS_EmptySet, FS_Singleton
<1>2. \A x : IsFiniteSet({x}) /\ Cardinality({x}) = 1
  BY FS_Singleton
<1>3. Cardinality(S) = 2 => \E x, y : x # y /\ S = {x, y}
  <2> HAVE Cardinality(S) = 2
  <2>1. PICK x : x \in S
    BY <1>1
  <2>2. IsFiniteSet(S \ {x}) /\ Cardinality(S \ {x}) = 2 - 1
    BY <2>1, FS_RemoveElement
  <2>3. Cardinality(S \ {x}) = 1
    BY <2>2
  <2>4. PICK y : S \ {x} = {y}
    BY <2>2, <2>3, FS_Singleton
  <2> QED
    BY <2>1, <2>4
<1>4. ASSUME NEW x, NEW y, x # y, S = {x, y}
      PROVE  Cardinality(S) = 2
  <2>1. y \notin {x} /\ {x} \cup {y} = S
    BY <1>4
  <2> DEFINE T == {x}
  <2>2. IsFiniteSet(T) /\ Cardinality(T) = 1 /\ y \notin T
    BY <1>2, <2>1
  <2> HIDE DEF T
  <2>3. Cardinality(T \cup {y}) = Cardinality(T) + 1
    BY <2>2, FS_AddElement
  <2> QED
    BY <2>1, <2>2, <2>3 DEF T
<1> QED
  BY <1>1, <1>3, <1>4

-----------------------------------------------------------------------------
(* The ledger                                                                 *)

\* What a step that leaves calls, items, serves and the model alone leaves of the ledger: all.
LEMMA LedgerStays ==
  ASSUME hist \in Seq(Happenings), Ledger, kind' = kind, items' = items, inflight' = inflight,
         rec'.calls = rec.calls, pc' = "agent_calls" => pc = "agent_calls",
         \/ hist' = hist
         \/ \E h \in Happenings : hist' = Append(hist, h) /\ h.what \notin {"serve", "model"}
  PROVE  Ledger' /\ Serves' = Serves /\ Models' = Models /\ \A s \in Serves : hist'[s] = hist[s]
<1>1. /\ Serves' = Serves /\ Models' = Models
      /\ \A s \in Serves : hist'[s] = hist[s]
  <2>1. CASE hist' = hist
    BY <2>1 DEF Serves, Models, Mcp!Steps
  <2>2. CASE \E h \in Happenings : hist' = Append(hist, h) /\ h.what \notin {"serve", "model"}
    <3>1. PICK h \in Happenings : hist' = Append(hist, h) /\ h.what \notin {"serve", "model"}
      BY <2>2
    <3>2. /\ \A n \in 1 .. Len(hist) : hist'[n] = hist[n]
          /\ \A w : Mcp!Steps(w)' = Mcp!Steps(w) \cup (IF h.what = w THEN {Len(hist) + 1} ELSE {})
          /\ \A w : Mcp!Steps(w) \subseteq 1 .. Len(hist)
      BY <3>1, HistoryGrows
    <3>3. /\ Mcp!Steps("serve")' = Mcp!Steps("serve") /\ Mcp!Steps("model")' = Mcp!Steps("model")
          /\ Mcp!Steps("serve") \subseteq 1 .. Len(hist)
      BY <3>1, <3>2
    <3> QED
      BY <3>2, <3>3 DEF Serves, Models
  <2> QED
    BY <2>1, <2>2
<1>2. Asked' = Asked /\ Told' = Told /\ Begun' = Begun /\ Back' = Back
  <2>1. Mcp!Controlled' = Mcp!Controlled
    BY DEF Mcp!Controlled, Mcp!Tools
  <2>2. Asked' = Asked /\ Told' = Told /\ Begun' = Begun
    BY <2>1 DEF Asked, Told, Begun
  <2> QED
    BY <2>2 DEF Back, Mcp!NoAnswer
<1>3. Counted'
  BY <1>1, <1>2 DEF Ledger, Counted
<1>4. Paired'
  BY <1>2 DEF Ledger, Paired, SameCall, Replies, Failures, Mcp!Answers, Mcp!Texts, Mcp!Arguments
<1>5. Matched'
  BY <1>1, <1>2 DEF Ledger, Matched, Same
<1>6. Ordered'
  BY <1>1, <1>2 DEF Ledger, Ordered, Same, Apart, SameCall
<1>7. ASSUME NEW m, Turning(m)
      PROVE  Turning(m)'
  BY <1>1, <1>2, <1>7 DEF Turning, Same
<1> QED
  BY <1>1, <1>3, <1>4, <1>5, <1>6, <1>7 DEF Ledger

\* After the model answers, what is finished lies before its answer, and nothing after.
LEMMA LedgerAsks ==
  ASSUME hist \in Seq(Happenings), Ledger, kind' = kind, items' = items, rec'.calls = rec.calls,
         inflight = <<>>, NEW h \in Happenings, h.what = "model", hist' = Append(hist, h),
         \A j \in 1 .. Len(inflight') : inflight'[j].op = "begin"
  PROVE  /\ Ledger' /\ Serves' = Serves /\ Begun' = {} /\ Begun = {}
         /\ \E m \in Nat : /\ m = Len(hist) + 1 /\ Models' = Models \cup {m} /\ hist'[m] = h
                          /\ \A s \in Serves : hist'[s] = hist[s] /\ s < m
<1>1. PICK m \in Nat : m = Len(hist) + 1
  BY LenProperties
<1>2. /\ Serves' = Serves /\ Models' = Models \cup {m} /\ hist'[m] = h
      /\ \A s \in Serves : hist'[s] = hist[s] /\ s < m
      /\ Len(hist) \in Nat /\ Serves \subseteq 1 .. Len(hist) /\ Models \subseteq 1 .. Len(hist)
  <2>1. /\ \A n \in 1 .. Len(hist) : hist'[n] = hist[n]
        /\ \A w : Mcp!Steps(w)' = Mcp!Steps(w) \cup (IF h.what = w THEN {Len(hist) + 1} ELSE {})
        /\ \A w : Mcp!Steps(w) \subseteq 1 .. Len(hist)
        /\ Len(hist) \in Nat /\ hist'[m] = h
    BY <1>1, HistoryGrows
  <2>2. /\ Mcp!Steps("serve")' = Mcp!Steps("serve") /\ Mcp!Steps("model")' = Mcp!Steps("model") \cup {m}
        /\ Mcp!Steps("serve") \subseteq 1 .. Len(hist) /\ Mcp!Steps("model") \subseteq 1 .. Len(hist)
    BY <1>1, <2>1
  <2> QED
    BY <1>1, <2>1, <2>2 DEF Serves, Models
<1>3. Asked' = Asked /\ Told' = Told /\ Begun' = {} /\ Back' = {} /\ Begun = {} /\ Back = {}
  <2>1. Mcp!Controlled' = Mcp!Controlled
    BY DEF Mcp!Controlled, Mcp!Tools
  <2>2. Asked' = Asked /\ Told' = Told /\ Begun' = {} /\ Begun = {}
    BY <2>1 DEF Asked, Told, Begun
  <2> QED
    BY <2>2 DEF Back
<1>4. Counted'
  BY <1>2, <1>3 DEF Ledger, Counted
<1>5. Paired'
  BY <1>3 DEF Ledger, Paired, SameCall, Replies, Failures, Mcp!Answers, Mcp!Texts, Mcp!Arguments
<1>6. Matched'
  BY <1>2, <1>3 DEF Ledger, Matched, Same
<1>7. Turning(m)'
  <2>1. \A n \in Models' : n <= m
    BY <1>1, <1>2
  <2>2. /\ \A k \in Told : \E s \in Serves : Same(s, items[k])
        /\ \A s \in Serves : \E k \in Told : Same(s, items[k])
    BY <1>3 DEF Ledger, Matched
  <2>3. \A s \in Serves, k \in Told : Same(s, items[k])' <=> Same(s, items[k])
    BY <1>2 DEF Same
  <2>4. (\A k \in Told : \E s \in Serves : s < m /\ Same(s, items[k]))'
    BY <1>2, <1>3, <2>2, <2>3
  <2>5. (\A s \in Serves : s < m /\ \E k \in Told : Same(s, items[k]))'
    BY <1>2, <1>3, <2>2, <2>3
  <2> QED
    BY <1>3, <2>1, <2>4, <2>5 DEF Turning
<1>8. Ordered'
  <2>1. \A s \in Serves, k \in Told : Same(s, items[k])' <=> Same(s, items[k])
    BY <1>2 DEF Same
  <2>2. \A k, i, l : Apart(k, i, l)' <=> Apart(k, i, l)
    BY DEF Apart, SameCall
  <2>3. ASSUME NEW s \in Serves, NEW t \in Serves, NEW n \in Models', s < n, n < t
        PROVE  \E k \in Told, i \in Asked, l \in Told :
                 Same(s, items[k])' /\ Apart(k, i, l)' /\ Same(t, items[l])'
    <3>1. n \in Models
      BY <1>1, <1>2, <2>3
    <3>2. PICK k \in Told : Same(s, items[k]) /\ \E i \in Asked, l \in Told : Apart(k, i, l) /\ Same(t, items[l])
      BY <1>3, <2>3, <3>1 DEF Ledger, Ordered
    <3> QED
      BY <2>1, <2>2, <3>2
  <2>4. ASSUME NEW k \in Told, NEW i \in Asked, k < i
        PROVE  \E s \in Serves, t \in Serves, n \in Models', l \in Told :
                 s < n /\ n < t /\ Same(s, items[k])' /\ Apart(k, i, l)' /\ Same(t, items[l])'
    <3>1. PICK s \in Serves, t \in Serves, n \in Models, l \in Told :
            s < n /\ n < t /\ Same(s, items[k]) /\ Apart(k, i, l) /\ Same(t, items[l])
      BY <2>4 DEF Ledger, Ordered
    <3> QED
      BY <1>2, <2>1, <2>2, <3>1
  <2> QED
    BY <1>2, <1>3, <2>3, <2>4 DEF Ordered
<1> QED
  BY <1>1, <1>2, <1>3, <1>4, <1>5, <1>6, <1>7, <1>8 DEF Ledger

\* One call of the turn changes its station or its answer, and no other.
LEMMA CallMoves ==
  ASSUME inflight \in Seq(BridgeCalls), NEW i \in 1 .. Len(inflight), NEW c \in BridgeCalls,
         SameCall(c, inflight[i]), inflight' = [inflight EXCEPT ![i] = c], kind' = kind
  PROVE  /\ inflight' \in Seq(BridgeCalls) /\ Len(inflight') = Len(inflight) /\ inflight'[i] = c
         /\ Len(inflight) \in Nat
         /\ \A j \in 1 .. Len(inflight) : inflight[j] \in BridgeCalls
         /\ \A j \in 1 .. Len(inflight) : j # i => inflight'[j] = inflight[j]
         /\ Begun \subseteq 1 .. Len(inflight) /\ Back \subseteq Begun
         /\ Begun' = (Begun \ {i}) \cup
                     IF c.tool \in Mcp!Controlled /\ c.op # "begin" THEN {i} ELSE {}
         /\ Back' = (Back \ {i}) \cup
                    IF /\ c.tool \in Mcp!Controlled /\ c.op # "begin"
                       /\ c.op = "done" \/ (c.op # "control" /\ c.ans # Mcp!NoAnswer)
                    THEN {i} ELSE {}
<1>1. /\ inflight' \in Seq(BridgeCalls) /\ Len(inflight') = Len(inflight) /\ inflight'[i] = c
      /\ Len(inflight) \in Nat
      /\ \A j \in 1 .. Len(inflight) : inflight[j] \in BridgeCalls
      /\ \A j \in 1 .. Len(inflight) : j # i => inflight'[j] = inflight[j]
  BY ExceptSeq, LenProperties, ElementOfSeq
<1>2. Mcp!Controlled' = Mcp!Controlled
  BY DEF Mcp!Controlled, Mcp!Tools
<1>3. Begun \subseteq 1 .. Len(inflight) /\ Back \subseteq Begun
  BY DEF Begun, Back
<1>4. Begun' = (Begun \ {i}) \cup IF c.tool \in Mcp!Controlled /\ c.op # "begin" THEN {i} ELSE {}
  BY <1>1, <1>2 DEF Begun
<1>5. Back' = (Back \ {i}) \cup
                    IF /\ c.tool \in Mcp!Controlled /\ c.op # "begin"
                       /\ c.op = "done" \/ (c.op # "control" /\ c.ans # Mcp!NoAnswer)
                    THEN {i} ELSE {}
  <2>1. \A j \in Begun : j # i => inflight'[j] = inflight[j]
    BY <1>1, <1>3
  <2>2. Mcp!NoAnswer' = Mcp!NoAnswer
    BY DEF Mcp!NoAnswer
  <2> QED
    BY <1>1, <1>4, <2>1, <2>2 DEF Back
<1> QED
  BY <1>1, <1>3, <1>4, <1>5

\* A call that begins is counted, and one that goes on keeps the answer it has.
LEMMA LedgerMoves ==
  ASSUME inflight \in Seq(BridgeCalls), NEW i \in 1 .. Len(inflight), NEW c \in BridgeCalls,
         Len(items) \in Nat, pc = "agent_calls",
         SameCall(c, inflight[i]), inflight' = [inflight EXCEPT ![i] = c], kind' = kind,
         Ledger, Serves' = Serves, Models' = Models, \A s \in Serves : hist'[s] = hist[s],
         items' = items, pc' = pc,
         i \in Begun => c.op # "begin",
         rec'.calls = IF c.tool \in Mcp!Controlled /\ c.op # "begin" /\ i \notin Begun
                      THEN rec.calls + 1 ELSE rec.calls,
         i \in Back' <=> i \in Back, i \in Back => c.ans = inflight[i].ans
  PROVE  Ledger' /\ Back' = Back
         /\ Begun' = IF c.tool \in Mcp!Controlled /\ c.op # "begin" THEN Begun \cup {i} ELSE Begun
<1>1. /\ Len(inflight') = Len(inflight) /\ inflight'[i] = c
      /\ Len(inflight) \in Nat
      /\ \A j \in 1 .. Len(inflight) : j # i => inflight'[j] = inflight[j]
      /\ Begun \subseteq 1 .. Len(inflight) /\ Back \subseteq Begun
      /\ Begun' = (Begun \ {i}) \cup
                     IF c.tool \in Mcp!Controlled /\ c.op # "begin" THEN {i} ELSE {}
      /\ Back' = (Back \ {i}) \cup
                    IF /\ c.tool \in Mcp!Controlled /\ c.op # "begin"
                       /\ c.op = "done" \/ (c.op # "control" /\ c.ans # Mcp!NoAnswer)
                    THEN {i} ELSE {}
  BY CallMoves
<1>2. Back' = Back
  BY <1>1
<1>3. i \in Begun => c.tool \in Mcp!Controlled
  BY DEF Begun, SameCall
<1>4. Begun' = IF c.tool \in Mcp!Controlled /\ c.op # "begin" THEN Begun \cup {i} ELSE Begun
  BY <1>1, <1>3
<1>5. Asked' = Asked /\ Told' = Told
  <2>1. Mcp!Controlled' = Mcp!Controlled
    BY DEF Mcp!Controlled, Mcp!Tools
  <2> QED
    BY <2>1 DEF Asked, Told
<1>6. \A j \in Back : SameCall(inflight'[j], inflight[j]) /\ inflight'[j].ans = inflight[j].ans
  BY <1>1 DEF SameCall
<1>7. Counted'
  <2>1. IsFiniteSet(Begun) /\ IsFiniteSet(Begun') /\ Cardinality(Begun) \in Nat
    <3>1. Begun \in SUBSET (1 .. Len(inflight)) /\ Begun' \in SUBSET (1 .. Len(inflight))
      BY <1>1
    <3> QED
      BY <1>1, <3>1, Positions
  <2>2. Cardinality(Begun') = Cardinality(Begun) + (IF i \in Begun' /\ i \notin Begun THEN 1 ELSE 0)
    <3>1. CASE i \in Begun' /\ i \notin Begun
      <4>1. Begun' = Begun \cup {i}
        BY <1>4, <3>1
      <4> QED
        BY <2>1, <3>1, <4>1, FS_AddElement
    <3>2. CASE ~(i \in Begun' /\ i \notin Begun)
      <4>1. Begun' = Begun
        BY <1>4, <3>2
      <4> QED
        BY <2>1, <3>2, <4>1
    <3> QED
      BY <3>1, <3>2
  <2>3. Cardinality(Asked) \in Nat
    BY Positions DEF Asked
  <2>4. rec'.calls = rec.calls + (IF i \in Begun' /\ i \notin Begun THEN 1 ELSE 0)
    <3>1. rec.calls \in Nat
      BY <2>1, <2>3 DEF Ledger, Counted
    <3>2. i \in Begun' /\ i \notin Begun <=> c.tool \in Mcp!Controlled /\ c.op # "begin" /\ i \notin Begun
      BY <1>4
    <3> QED
      BY <3>1, <3>2
  <2> QED
    BY <1>2, <1>5, <2>1, <2>2, <2>3, <2>4 DEF Ledger, Counted
<1>8. Paired'
  BY <1>2, <1>5, <1>6 DEF Ledger, Paired, SameCall, Replies, Failures, Mcp!Answers, Mcp!Texts, Mcp!Arguments
<1>9. /\ \A s \in Serves, j \in Back : Same(s, inflight[j])' <=> Same(s, inflight[j])
      /\ \A s \in Serves, k \in Told : Same(s, items[k])' <=> Same(s, items[k])
      /\ \A k, l, n : Apart(k, l, n)' <=> Apart(k, l, n)
  BY <1>5, <1>6 DEF Same, SameCall, Apart
<1>10. Matched'
  BY <1>2, <1>5, <1>9 DEF Ledger, Matched
<1>11. Ordered'
  BY <1>2, <1>5, <1>9 DEF Ledger, Ordered
<1>12. ASSUME NEW m \in Models, Turning(m)
       PROVE  Turning(m)'
  BY <1>2, <1>5, <1>9, <1>12 DEF Turning
<1> QED
  BY <1>2, <1>4, <1>5, <1>7, <1>8, <1>10, <1>11, <1>12 DEF Ledger

\* The server answers a call: one more serve, to one more call of this turn.
LEMMA LedgerServes ==
  ASSUME inflight \in Seq(BridgeCalls), NEW i \in Begun, NEW c \in BridgeCalls, i \notin Back,
         hist \in Seq(Happenings), NEW h \in Happenings, h.what = "serve", hist' = Append(hist, h),
         pc = "agent_calls", Len(items) \in Nat, h.id = c.id, h.ans = c.ans,
         SameCall(c, inflight[i]), inflight' = [inflight EXCEPT ![i] = c], kind' = kind,
         c.op = inflight[i].op, c.op # "control", c.ans \in Replies, c.ans.args = c.args,
         Ledger, items' = items, pc' = pc, rec'.calls = rec.calls
  PROVE  /\ Ledger' /\ Back' = Back \cup {i} /\ Begun' = Begun /\ Models' = Models
         /\ \E n \in Nat : /\ n = Len(hist) + 1 /\ Serves' = Serves \cup {n} /\ hist'[n] = h
                           /\ n \notin Serves
         /\ \A n \in 1 .. Len(hist) : hist'[n] = hist[n]
         /\ Serves \subseteq 1 .. Len(hist) /\ Models \subseteq 1 .. Len(hist)
<1>1. PICK n \in Nat : n = Len(hist) + 1
  BY LenProperties
<1>2. /\ Serves' = Serves \cup {n} /\ Models' = Models /\ hist'[n] = h
      /\ \A s \in 1 .. Len(hist) : hist'[s] = hist[s]
      /\ Len(hist) \in Nat /\ Serves \subseteq 1 .. Len(hist) /\ Models \subseteq 1 .. Len(hist)
  <2>1. /\ \A s \in 1 .. Len(hist) : hist'[s] = hist[s]
        /\ \A w : Mcp!Steps(w)' = Mcp!Steps(w) \cup (IF h.what = w THEN {Len(hist) + 1} ELSE {})
        /\ \A w : Mcp!Steps(w) \subseteq 1 .. Len(hist)
        /\ Len(hist) \in Nat /\ hist'[n] = h
    BY <1>1, HistoryGrows
  <2>2. /\ Mcp!Steps("serve")' = Mcp!Steps("serve") \cup {n} /\ Mcp!Steps("model")' = Mcp!Steps("model")
        /\ Mcp!Steps("serve") \subseteq 1 .. Len(hist) /\ Mcp!Steps("model") \subseteq 1 .. Len(hist)
    BY <1>1, <2>1
  <2> QED
    BY <1>1, <2>1, <2>2 DEF Serves, Models
<1>3. i \in 1 .. Len(inflight) /\ c.tool \in Mcp!Controlled /\ c.op # "begin" /\ c.ans # Mcp!NoAnswer
  <2>1. Mcp!NoAnswer.text = "none"
    BY DEF Mcp!NoAnswer
  <2>2. c.ans.text # "none"
    BY DEF Replies, Mcp!Answers, Mcp!Texts
  <2> QED
    BY <2>1, <2>2 DEF Begun, SameCall
<1>4. /\ Len(inflight') = Len(inflight) /\ inflight'[i] = c
      /\ Len(inflight) \in Nat
      /\ \A j \in 1 .. Len(inflight) : j # i => inflight'[j] = inflight[j]
      /\ Begun \subseteq 1 .. Len(inflight) /\ Back \subseteq Begun
      /\ Begun' = Begun /\ Back' = Back \cup {i}
  <2>1. /\ Len(inflight') = Len(inflight) /\ inflight'[i] = c
        /\ Len(inflight) \in Nat
        /\ \A j \in 1 .. Len(inflight) : j # i => inflight'[j] = inflight[j]
        /\ Begun \subseteq 1 .. Len(inflight) /\ Back \subseteq Begun
        /\ Begun' = (Begun \ {i}) \cup
                     IF c.tool \in Mcp!Controlled /\ c.op # "begin" THEN {i} ELSE {}
        /\ Back' = (Back \ {i}) \cup
                    IF /\ c.tool \in Mcp!Controlled /\ c.op # "begin"
                       /\ c.op = "done" \/ (c.op # "control" /\ c.ans # Mcp!NoAnswer)
                    THEN {i} ELSE {}
    BY <1>3, CallMoves
  <2> QED
    BY <1>3, <2>1
<1>5. Asked' = Asked /\ Told' = Told
  <2>1. Mcp!Controlled' = Mcp!Controlled
    BY DEF Mcp!Controlled, Mcp!Tools
  <2> QED
    BY <2>1 DEF Asked, Told
<1>6. /\ \A j \in Back : SameCall(inflight'[j], inflight[j]) /\ inflight'[j] = inflight[j]
      /\ \A s \in Serves : hist'[s] = hist[s]
  BY <1>2, <1>4 DEF SameCall
<1>7. Counted'
  <2>1. IsFiniteSet(Back) /\ Cardinality(Back) \in Nat /\ IsFiniteSet(Serves) /\ Cardinality(Serves) \in Nat
    <3>1. Back \in SUBSET (1 .. Len(inflight)) /\ Serves \in SUBSET (1 .. Len(hist))
      BY <1>2, <1>4
    <3> QED
      BY <1>2, <1>4, <3>1, Positions
  <2>2. Cardinality(Back') = Cardinality(Back) + 1
    BY <1>4, <2>1, FS_AddElement
  <2>3. n \notin Serves
    BY <1>1, <1>2
  <2>4. Cardinality(Serves') = Cardinality(Serves) + 1
    BY <1>2, <2>1, <2>3, FS_AddElement
  <2>5. Cardinality(Asked) \in Nat
    BY Positions DEF Asked
  <2> QED
    BY <1>4, <1>5, <2>1, <2>2, <2>4, <2>5 DEF Ledger, Counted
<1>8. Paired'
  <2>1. inflight'[i].ans \in Replies /\ inflight'[i].ans.args = inflight'[i].args
    BY <1>4
  <2> QED
    BY <1>4, <1>5, <1>6, <2>1 DEF Ledger, Paired, SameCall, Replies, Failures, Mcp!Answers, Mcp!Texts,
       Mcp!Arguments
<1>9. /\ \A s \in Serves, j \in Back : Same(s, inflight[j])' <=> Same(s, inflight[j])
      /\ \A s \in Serves, k \in Told : Same(s, items[k])' <=> Same(s, items[k])
      /\ \A k, l, o : Apart(k, l, o)' <=> Apart(k, l, o)
      /\ Same(n, inflight[i])'
  BY <1>2, <1>4, <1>6 DEF Same, SameCall, Apart
<1>10. Matched'
  BY <1>2, <1>4, <1>5, <1>9 DEF Ledger, Matched
<1>11. /\ \A m \in Models, s \in Serves : m < n /\ s < n
       /\ n \notin Serves
  BY <1>1, <1>2
<1>12. ASSUME NEW m \in Models, Turning(m)
       PROVE  Turning(m)'
  <2>1. m < n /\ n > m /\ ~(n < m)
    BY <1>1, <1>2
  <2> QED
    BY <1>2, <1>4, <1>5, <1>9, <1>12, <2>1 DEF Turning
<1>13. Ordered'
  <2>1. ASSUME NEW s \in Serves', NEW t \in Serves', NEW m \in Models, s < m, m < t
        PROVE  \E k \in Told :
                 /\ Same(s, items[k])'
                 /\ \/ \E l \in Asked, o \in Told : Apart(k, l, o)' /\ Same(t, items[o])'
                    \/ \E j \in Back' : Same(t, inflight[j])'
    <3>1. s \in Serves
      BY <1>1, <1>2, <2>1
    <3>2. CASE t \in Serves
      <4>1. PICK k \in Told :
                 /\ Same(s, items[k])
                 /\ \/ \E l \in Asked, o \in Told : Apart(k, l, o) /\ Same(t, items[o])
                    \/ \E j \in Back : Same(t, inflight[j])
        BY <2>1, <3>1, <3>2 DEF Ledger, Ordered
      <4> QED
        BY <1>4, <1>9, <3>1, <3>2, <4>1
    <3>3. CASE t = n
      <4>1. PICK o \in Models : Turning(o)
        BY DEF Ledger
      <4>2. m <= o /\ s < o
        BY <1>1, <1>2, <2>1, <3>1, <4>1 DEF Turning
      <4>3. PICK k \in Told : Same(s, items[k])
        BY <3>1, <4>1, <4>2 DEF Turning
      <4> QED
        BY <1>4, <1>9, <3>1, <3>3, <4>3
    <3> QED
      BY <1>2, <3>2, <3>3
  <2>2. ASSUME NEW k \in Told, NEW l \in Asked, k < l
        PROVE  \E s \in Serves', t \in Serves', m \in Models, o \in Told :
                 s < m /\ m < t /\ Same(s, items[k])' /\ Apart(k, l, o)' /\ Same(t, items[o])'
    BY <1>2, <1>9, <2>2 DEF Ledger, Ordered
  <2> QED
    BY <1>2, <1>5, <2>1, <2>2 DEF Ordered
<1> QED
  BY <1>1, <1>2, <1>4, <1>5, <1>7, <1>8, <1>10, <1>11, <1>12, <1>13 DEF Ledger

\* An item made of a call.
Becomes(e, k, c) == e.kind = k /\ SameCall(e, c) /\ e.ans = c.ans

\* The items after a turn: a request of each call, and then a result of each.
LEMMA TurnGrows ==
  ASSUME items \in Seq(BridgeItems), inflight \in Seq(BridgeCalls), Mcp!EndTurn
  PROVE  /\ items' \in Seq(BridgeItems) /\ Len(items') = Len(items) + Len(inflight) + Len(inflight)
         /\ Len(items) \in Nat /\ Len(inflight) \in Nat
         /\ \A i \in 1 .. Len(items) : items'[i] = items[i]
         /\ \A i \in 1 .. Len(inflight) :
              /\ Becomes(items'[Len(items) + i], "request", inflight[i])
              /\ Becomes(items'[Len(items) + Len(inflight) + i], "result", inflight[i])
<1> DEFINE n == Len(items)
           m == Len(inflight)
           a == [i \in 1 .. m |-> [kind |-> "request", tool |-> inflight[i].tool,
                                   args |-> inflight[i].args, id |-> inflight[i].id,
                                   ans |-> inflight[i].ans]]
           b == [i \in 1 .. m |-> [kind |-> "result", tool |-> inflight[i].tool,
                                   args |-> inflight[i].args, id |-> inflight[i].id,
                                   ans |-> inflight[i].ans]]
           c == items \o a
<1>1. n \in Nat /\ m \in Nat /\ \A i \in 1 .. m : inflight[i] \in BridgeCalls
  BY LenProperties, ElementOfSeq
<1>2. a \in [1 .. m -> BridgeItems] /\ b \in [1 .. m -> BridgeItems]
  BY <1>1 DEF BridgeItems, BridgeCalls
<1>3. items' = c \o b
  <2>1. a = [i \in 1 .. m |-> Mcp!Event("request", inflight[i])]
    BY DEF Mcp!Event
  <2>2. b = [i \in 1 .. m |-> Mcp!Event("result", inflight[i])]
    BY DEF Mcp!Event
  <2> HIDE DEF a, b
  <2> QED
    BY <2>1, <2>2 DEF Mcp!EndTurn
<1>4. \A i \in 1 .. m :
        Becomes(a[i], "request", inflight[i]) /\ Becomes(b[i], "result", inflight[i])
  BY DEF Becomes, SameCall
<1> HIDE DEF a, b, n, m
<1>5. a \in Seq(BridgeItems) /\ Len(a) = m /\ b \in Seq(BridgeItems) /\ Len(b) = m
  BY <1>1, <1>2, LenProperties
<1>6. /\ c \in Seq(BridgeItems) /\ Len(c) = Len(items) + Len(a)
      /\ \A i \in 1 .. Len(items) + Len(a) :
           c[i] = IF i <= Len(items) THEN items[i] ELSE a[i - Len(items)]
  BY <1>5, ConcatProperties, Zenon
<1> HIDE DEF c
<1>7. /\ c \o b \in Seq(BridgeItems) /\ Len(c \o b) = Len(c) + Len(b)
      /\ \A i \in 1 .. Len(c) + Len(b) : (c \o b)[i] = IF i <= Len(c) THEN c[i] ELSE b[i - Len(c)]
  <2>1. c \in Seq(BridgeItems) /\ b \in Seq(BridgeItems)
    BY <1>5, <1>6
  <2> QED
    BY <2>1, ConcatProperties, Zenon
<1> DEFINE r == c \o b
<1> HIDE DEF r
<1>8. /\ r \in Seq(BridgeItems) /\ Len(r) = n + m + m
      /\ \A i \in 1 .. n : r[i] = items[i]
      /\ \A i \in 1 .. m : r[n + i] = a[i] /\ r[n + m + i] = b[i]
  BY <1>1, <1>5, <1>6, <1>7, SMTT(30) DEF r, n
<1> QED
  BY <1>1, <1>3, <1>4, <1>8 DEF r, n, m

Beyond(n, Q) == {n + j : j \in Q}

\* Positions put after those of a sequence.
LEMMA PutAfter ==
  ASSUME NEW n \in Nat, NEW m \in Nat, NEW P \in SUBSET (1 .. n), NEW Q \in SUBSET (1 .. m)
  PROVE  Cardinality(P \cup Beyond(n, Q)) = Cardinality(P) + Cardinality(Q)
<1> DEFINE T == {n + j : j \in Q}
           f == [j \in Q |-> n + j]
<1>1. IsFiniteSet(P) /\ IsFiniteSet(Q) /\ Cardinality(P) \in Nat /\ Cardinality(Q) \in Nat
  BY Positions
<1>2. f \in Bijection(Q, T)
  BY Fun_IsBij
<1>3. ExistsBijection(Q, T)
  BY <1>2 DEF ExistsBijection
<1>4. IsFiniteSet(T) /\ Cardinality(T) = Cardinality(Q)
  BY <1>1, <1>3, FS_Bijection
<1>5. P \cap T = {}
  OBVIOUS
<1> HIDE DEF T
<1>6. Cardinality(P \cap T) = 0
  BY <1>5, FS_EmptySet
<1>7. Cardinality(P \cup T) = Cardinality(P) + Cardinality(T) - Cardinality(P \cap T)
  BY <1>1, <1>4, FS_Union
<1>8. Cardinality(P \cup T) = Cardinality(P) + Cardinality(Q)
  BY <1>1, <1>4, <1>6, <1>7
<1> QED
  BY <1>8 DEF T, Beyond

\* A turn ends: its calls join those that were asked and told.
LEMMA LedgerTurns ==
  ASSUME items \in Seq(BridgeItems), inflight \in Seq(BridgeCalls), Ledger, Mcp!EndTurn
  PROVE  /\ Ledger' /\ Begun' = {} /\ Serves' = Serves /\ Models' = Models
         /\ Asked' = Asked \cup {Len(items) + j : j \in Begun}
         /\ Told' = Told \cup {Len(items) + Len(inflight) + j : j \in Begun}
<1>1. PICK n \in Nat, m \in Nat : n = Len(items) /\ m = Len(inflight)
  BY TurnGrows
<1>2. /\ Len(items') = n + m + m
      /\ \A i \in 1 .. n : items'[i] = items[i]
      /\ \A i \in 1 .. m :
           /\ Becomes(items'[n + i], "request", inflight[i])
           /\ Becomes(items'[n + m + i], "result", inflight[i])
  BY <1>1, TurnGrows
<1>3. /\ Mcp!Controlled' = Mcp!Controlled
      /\ pc = "agent_calls" /\ pc' = "agent_list" /\ inflight' = <<>> /\ hist' = hist /\ rec' = rec
      /\ \A i \in 1 .. Len(inflight) : inflight[i].op = "done"
  BY DEF Mcp!Controlled, Mcp!Tools, Mcp!EndTurn
<1>4. /\ Begun \subseteq 1 .. m /\ Back = Begun /\ Begun' = {} /\ Back' = {}
      /\ Asked \subseteq 1 .. n /\ Told \subseteq 1 .. n
      /\ \A j \in 1 .. m : inflight[j].tool \in Mcp!Controlled <=> j \in Begun
  BY <1>1, <1>3 DEF Begun, Back, Asked, Told
<1>5. \A i \in 1 .. n + m + m : \/ i \in 1 .. n
                                \/ \E j \in 1 .. m : i = n + j
                                \/ \E j \in 1 .. m : i = n + m + j
  <2> TAKE i \in 1 .. n + m + m
  <2>1. CASE i <= n
    BY <2>1
  <2>2. CASE n < i /\ i <= n + m
    <3>1. i - n \in 1 .. m /\ i = n + (i - n)
      BY <2>2
    <3> QED
      BY <3>1
  <2>3. CASE n + m < i
    <3>1. i - n - m \in 1 .. m /\ i = n + m + (i - n - m)
      BY <2>3
    <3> QED
      BY <3>1
  <2> QED
    BY <2>1, <2>2, <2>3
<1>6. /\ \A i \in 1 .. n : (i \in Asked' <=> i \in Asked) /\ (i \in Told' <=> i \in Told)
      /\ \A j \in 1 .. m : (n + j \in Asked' <=> j \in Begun) /\ n + j \notin Told'
      /\ \A j \in 1 .. m : (n + m + j \in Told' <=> j \in Begun) /\ n + m + j \notin Asked'
      /\ Asked' \subseteq 1 .. n + m + m /\ Told' \subseteq 1 .. n + m + m
  <2>1. /\ \A i : i \in Asked' <=> /\ i \in 1 .. n + m + m
                                 /\ items'[i].kind = "request" /\ items'[i].tool \in Mcp!Controlled
        /\ \A i : i \in Told' <=> /\ i \in 1 .. n + m + m
                                /\ items'[i].kind = "result" /\ items'[i].tool \in Mcp!Controlled
        /\ \A i : i \in Asked <=> /\ i \in 1 .. n
                                /\ items[i].kind = "request" /\ items[i].tool \in Mcp!Controlled
        /\ \A i : i \in Told <=> /\ i \in 1 .. n
                               /\ items[i].kind = "result" /\ items[i].tool \in Mcp!Controlled
    BY <1>1, <1>2, <1>3 DEF Asked, Told
  <2>2. \A i \in 1 .. n : (i \in Asked' <=> i \in Asked) /\ (i \in Told' <=> i \in Told)
    BY <1>1, <1>2, <2>1
  <2>3. ASSUME NEW j \in 1 .. m
        PROVE  (n + j \in Asked' <=> j \in Begun) /\ n + j \notin Told'
    <3>1. n + j \in 1 .. n + m + m /\ Becomes(items'[n + j], "request", inflight[j])
      BY <1>1, <1>2
    <3> QED
      BY <1>4, <2>1, <3>1 DEF Becomes, SameCall
  <2>4. ASSUME NEW j \in 1 .. m
        PROVE  (n + m + j \in Told' <=> j \in Begun) /\ n + m + j \notin Asked'
    <3>1. n + m + j \in 1 .. n + m + m /\ Becomes(items'[n + m + j], "result", inflight[j])
      BY <1>1, <1>2
    <3> QED
      BY <1>4, <2>1, <3>1 DEF Becomes, SameCall
  <2> QED
    BY <2>1, <2>2, <2>3, <2>4
<1>7. Asked' = Asked \cup {n + j : j \in Begun} /\ Told' = Told \cup {n + m + j : j \in Begun}
  <2>1. ASSUME NEW i \in Asked'
        PROVE  i \in Asked \/ \E j \in Begun : i = n + j
    <3>1. i \in 1 .. n + m + m
      BY <1>6
    <3>2. CASE \E j \in 1 .. m : i = n + j
      <4>1. PICK j \in 1 .. m : i = n + j
        BY <3>2
      <4>2. j \in Begun
        BY <1>6, <4>1
      <4> QED
        BY <4>1, <4>2
    <3>3. ~\E j \in 1 .. m : i = n + m + j
      BY <1>6
    <3> QED
      BY <1>5, <1>6, <3>1, <3>2, <3>3
  <2>2. ASSUME NEW i \in Told'
        PROVE  i \in Told \/ \E j \in Begun : i = n + m + j
    <3>1. i \in 1 .. n + m + m
      BY <1>6
    <3>2. CASE \E j \in 1 .. m : i = n + m + j
      <4>1. PICK j \in 1 .. m : i = n + m + j
        BY <3>2
      <4>2. j \in Begun
        BY <1>6, <4>1
      <4> QED
        BY <4>1, <4>2
    <3>3. ~\E j \in 1 .. m : i = n + j
      BY <1>6
    <3> QED
      BY <1>5, <1>6, <3>1, <3>2, <3>3
  <2>3. \A j \in Begun : n + j \in Asked' /\ n + m + j \in Told'
    BY <1>4, <1>6
  <2>4. Asked \subseteq Asked' /\ Told \subseteq Told'
    BY <1>4, <1>6
  <2> QED
    BY <2>1, <2>2, <2>3, <2>4
<1>8. Serves' = Serves /\ Models' = Models
  BY <1>3 DEF Serves, Models, Mcp!Steps
<1>9. Counted'
  <2>1. Cardinality(Asked') = Cardinality(Asked) + Cardinality(Begun)
    <3>1. Cardinality(Asked \cup {n + j : j \in Begun}) = Cardinality(Asked) + Cardinality(Begun)
      <4>1. Asked \in SUBSET (1 .. n) /\ Begun \in SUBSET (1 .. m) /\ n \in Nat /\ m \in Nat
        BY <1>4
      <4>2. Cardinality(Asked \cup Beyond(n, Begun)) = Cardinality(Asked) + Cardinality(Begun)
        BY <4>1, PutAfter
      <4> QED
        BY <4>2 DEF Beyond
    <3> QED
      BY <1>7, <3>1
  <2>2. Cardinality({}) = 0
    BY FS_EmptySet
  <2>3. Cardinality(Asked) \in Nat /\ Cardinality(Begun) \in Nat
    BY <1>4, Positions
  <2> QED
    BY <1>3, <1>4, <1>8, <2>1, <2>2, <2>3 DEF Ledger, Counted
<1>10. ASSUME NEW j \in Begun
       PROVE  /\ n + j \in Asked' /\ n + m + j \in Told' /\ n + j < n + m + j
              /\ SameCall(items'[n + j], items'[n + m + j])
              /\ items'[n + m + j].ans = inflight[j].ans /\ items'[n + m + j].args = inflight[j].args
              /\ \A s : Same(s, items[n + m + j])' <=> Same(s, inflight[j])
              /\ \A k \in Told : k < n + j
              /\ \A k \in Asked : k < n + m + j
  <2>1. j \in 1 .. m
    BY <1>4
  <2>2. Becomes(items'[n + j], "request", inflight[j]) /\ Becomes(items'[n + m + j], "result", inflight[j])
    BY <1>2, <2>1
  <2>3. /\ SameCall(items'[n + j], items'[n + m + j])
        /\ items'[n + m + j].ans = inflight[j].ans /\ items'[n + m + j].args = inflight[j].args
        /\ items'[n + m + j].id = inflight[j].id
    BY <2>2 DEF Becomes, SameCall
  <2>4. \A s : Same(s, items[n + m + j])' <=> Same(s, inflight[j])
    BY <1>3, <2>3 DEF Same
  <2>5. n + j < n + m + j /\ (\A k \in 1 .. n : k < n + j /\ k < n + m + j)
    BY <2>1
  <2> QED
    BY <1>4, <1>7, <2>3, <2>4, <2>5
<1>11. /\ \A k \in Asked \cup Told : items'[k] = items[k]
       /\ \A s, k : k \in Told => (Same(s, items[k])' <=> Same(s, items[k]))
  BY <1>2, <1>3, <1>4 DEF Same
<1>12. Paired'
  <2>1. ASSUME NEW i \in Asked'
        PROVE  \E k \in Told' : i < k /\ SameCall(items'[i], items'[k])
    <3>1. CASE i \in Asked
      <4>1. PICK k \in Told : i < k /\ SameCall(items[i], items[k])
        BY <3>1 DEF Ledger, Paired
      <4> QED
        BY <1>7, <1>11, <3>1, <4>1
    <3>2. CASE \E j \in Begun : i = n + j
      BY <1>10, <3>2
    <3> QED
      BY <1>7, <3>1, <3>2
  <2>2. ASSUME NEW k \in Told'
        PROVE  /\ \E i \in Asked' : i < k /\ SameCall(items'[i], items'[k])
               /\ items'[k].ans \in Replies /\ items'[k].ans.args = items'[k].args
    <3>1. CASE k \in Told
      <4>1. PICK i \in Asked : i < k /\ SameCall(items[i], items[k])
        BY <3>1 DEF Ledger, Paired
      <4>2. items[k].ans \in Replies /\ items[k].ans.args = items[k].args
        BY <3>1 DEF Ledger, Paired
      <4> QED
        BY <1>7, <1>11, <3>1, <4>1, <4>2
    <3>2. CASE \E j \in Begun : k = n + m + j
      <4>1. PICK j \in Begun : k = n + m + j
        BY <3>2
      <4>2. inflight[j].ans \in Replies /\ inflight[j].ans.args = inflight[j].args
        BY <1>4 DEF Ledger, Paired
      <4> QED
        BY <1>10, <4>1, <4>2
    <3> QED
      BY <1>7, <3>1, <3>2
  <2> QED
    BY <1>4, <2>1, <2>2 DEF Paired, SameCall, Replies, Failures, Mcp!Answers, Mcp!Texts, Mcp!Arguments
<1>13. Matched'
  <2>1. ASSUME NEW k \in Told'
        PROVE  \E s \in Serves : Same(s, items[k])'
    <3>1. CASE k \in Told
      BY <1>11, <3>1 DEF Ledger, Matched
    <3>2. CASE \E j \in Begun : k = n + m + j
      BY <1>4, <1>10, <3>2 DEF Ledger, Matched
    <3> QED
      BY <1>7, <3>1, <3>2
  <2>2. ASSUME NEW s \in Serves
        PROVE  \E k \in Told' : Same(s, items[k])'
    <3>1. CASE \E k \in Told : Same(s, items[k])
      BY <1>7, <1>11, <3>1
    <3>2. CASE \E j \in Begun : Same(s, inflight[j])
      BY <1>10, <3>2
    <3> QED
      BY <1>4, <3>1, <3>2 DEF Ledger, Matched
  <2> QED
    BY <1>4, <1>8, <2>1, <2>2 DEF Matched
<1>14. \A k \in Told, i \in Asked, l \in Told : Apart(k, i, l)' <=> Apart(k, i, l)
  BY <1>11 DEF Apart, SameCall
<1>15. Ordered'
  <2>1. ASSUME NEW s \in Serves, NEW t \in Serves, NEW o \in Models, s < o, o < t
        PROVE  \E k \in Told', i \in Asked', l \in Told' :
                 Same(s, items[k])' /\ Apart(k, i, l)' /\ Same(t, items[l])'
    <3>1. PICK k \in Told :
            /\ Same(s, items[k])
            /\ \/ \E i \in Asked, l \in Told : Apart(k, i, l) /\ Same(t, items[l])
               \/ \E j \in Back : Same(t, inflight[j])
      BY <2>1 DEF Ledger, Ordered
    <3>2. CASE \E i \in Asked, l \in Told : Apart(k, i, l) /\ Same(t, items[l])
      BY <1>7, <1>11, <1>14, <3>1, <3>2
    <3>3. CASE \E j \in Back : Same(t, inflight[j])
      <4>1. PICK j \in Begun : Same(t, inflight[j])
        BY <1>4, <3>3
      <4>2. Apart(k, n + j, n + m + j)'
        BY <1>10 DEF Apart, SameCall
      <4> QED
        BY <1>7, <1>10, <1>11, <3>1, <4>1, <4>2
    <3> QED
      BY <3>1, <3>2, <3>3
  <2>2. ASSUME NEW k \in Told', NEW i \in Asked', k < i
        PROVE  \E s \in Serves, t \in Serves, o \in Models, l \in Told' :
                 s < o /\ o < t /\ Same(s, items[k])' /\ Apart(k, i, l)' /\ Same(t, items[l])'
    <3>1. k \in Told
      <4>1. ASSUME NEW j \in Begun, k = n + m + j
            PROVE  FALSE
        <5>1. j \in 1 .. m
          BY <1>4
        <5>2. i \in Asked \/ \E u \in Begun : i = n + u
          BY <1>7
        <5>3. i \in 1 .. n \/ \E u \in 1 .. m : i = n + u
          BY <1>4, <5>2
        <5> QED
          BY <2>2, <4>1, <5>1, <5>3
      <4> QED
        BY <1>7, <4>1
    <3>2. CASE i \in Asked
      <4>1. PICK s \in Serves, t \in Serves, o \in Models, l \in Told :
              s < o /\ o < t /\ Same(s, items[k]) /\ Apart(k, i, l) /\ Same(t, items[l])
        BY <2>2, <3>1, <3>2 DEF Ledger, Ordered
      <4> QED
        BY <1>7, <1>11, <1>14, <3>1, <3>2, <4>1
    <3>3. CASE \E j \in Begun : i = n + j
      <4>1. PICK j \in Begun : i = n + j
        BY <3>3
      <4>2. PICK o \in Models : Turning(o)
        BY <1>3 DEF Ledger
      <4>3. PICK s \in Serves : s < o /\ Same(s, items[k])
        BY <3>1, <4>2 DEF Turning
      <4>4. PICK t \in Serves : t > o /\ Same(t, inflight[j])
        BY <1>4, <4>2 DEF Turning
      <4>5. Apart(k, n + j, n + m + j)'
        BY <1>10, <3>1 DEF Apart, SameCall
      <4>6. o < t
        <5>1. t \in Nat /\ o \in Nat
          BY DEF Serves, Models, Mcp!Steps
        <5> QED
          BY <4>4, <5>1
      <4> QED
        BY <1>10, <1>11, <3>1, <4>1, <4>3, <4>4, <4>5, <4>6
    <3> QED
      BY <1>7, <3>2, <3>3
  <2> QED
    BY <1>8, <2>1, <2>2 DEF Ordered
<1> QED
  BY <1>1, <1>3, <1>4, <1>7, <1>8, <1>9, <1>12, <1>13, <1>15 DEF Ledger

-----------------------------------------------------------------------------
(* Catalogues and marks                                                       *)

\* The two catalogues, and what a recorder sees of them.
LEMMA TwoCatalogues ==
  ASSUME kind \in FaultKinds
  PROVE  /\ Before \in SUBSET Mcp!Adverts /\ After \in SUBSET Mcp!Adverts
         /\ Mcp!Target(Before) = Before /\ Mcp!Target(After) = After
         /\ Before # Mcp!NoListing /\ After # Mcp!NoListing /\ Before # {}
         /\ Mcp!Names(Before) = {"old"} /\ Mcp!Names({}) = {} /\ {} # Mcp!NoListing
         /\ kind = "stale" => After = {}
         /\ kind = "identity" => Mcp!Names(After) = {"new"}
         /\ kind = "schema" => /\ {a.shape : a \in Before} = {"v1"} /\ {a.shape : a \in After} = {"v2"}
                               /\ Mcp!Names(After) = {"old"}
         /\ kind = "metadata" => \A a \in Before : a.note = "poison"
         /\ kind \notin Mcp!DiscoveryFaults => After = Before
<1>1. /\ Before = {[name |-> "old", shape |-> "v1",
                    note |-> IF kind = "metadata" THEN "poison" ELSE "benign"]}
      /\ kind = "stale" => After = {}
      /\ kind = "schema" => After = {[name |-> "old", shape |-> "v2", note |-> "benign"]}
      /\ kind = "identity" => After = {[name |-> "new", shape |-> "v1", note |-> "benign"]}
      /\ kind \in Mcp!ContentFaults => After = Before
  BY CataloguesOf DEF Before, After
<1>2. /\ kind \in {"metadata", "result", "error", "stale", "schema", "identity"}
      /\ Mcp!DiscoveryFaults = {"stale", "schema", "identity"}
      /\ Mcp!ContentFaults = {"metadata", "result", "error"}
  BY FaultsAreKnown
<1>3. /\ Mcp!Names(Before) = {"old"} /\ {a.shape : a \in Before} = {"v1"}
      /\ \A a \in Before : /\ a.name = "old"
                           /\ a.note = IF kind = "metadata" THEN "poison" ELSE "benign"
  BY <1>1, OneTool DEF Mcp!Names
<1>4. kind = "schema" =>
        /\ Mcp!Names(After) = {"old"} /\ {a.shape : a \in After} = {"v2"}
        /\ \A a \in After : a.name = "old"
  <2> HAVE kind = "schema"
  <2>1. After = {[name |-> "old", shape |-> "v2", note |-> "benign"]}
    BY <1>1
  <2> QED
    BY <2>1, OneTool DEF Mcp!Names
<1>5. kind = "identity" => Mcp!Names(After) = {"new"} /\ \A a \in After : a.name = "new"
  <2> HAVE kind = "identity"
  <2>1. After = {[name |-> "new", shape |-> "v1", note |-> "benign"]}
    BY <1>1
  <2> QED
    BY <2>1, OneTool DEF Mcp!Names
<1>6. Mcp!Target(Before) = Before
  BY <1>3 DEF Mcp!Target, Mcp!Controlled, Mcp!Tools
<1>7. Mcp!Target(After) = After
  BY <1>1, <1>2, <1>4, <1>5, <1>6 DEF Mcp!Target, Mcp!Controlled, Mcp!Tools
<1>8. Before \in SUBSET Mcp!Adverts /\ After \in SUBSET Mcp!Adverts
  BY <1>1, <1>2 DEF Mcp!Adverts, Mcp!Tools, Mcp!Shapes, Mcp!Notes
<1>9. \A a \in Mcp!NoListing : a.name = "none"
  BY OneTool DEF Mcp!NoListing
<1>10. Mcp!NoListing # {}
  BY DEF Mcp!NoListing
<1>11. Before # Mcp!NoListing /\ After # Mcp!NoListing /\ Before # {}
  BY <1>1, <1>2, <1>3, <1>4, <1>5, <1>9, <1>10
<1>12. Mcp!Names({}) = {}
  BY DEF Mcp!Names
<1> QED
  BY <1>1, <1>2, <1>3, <1>4, <1>5, <1>6, <1>7, <1>8, <1>10, <1>11, <1>12

\* Two and one more mark.
LEMMA MarksGrow ==
  /\ Append(<<>>, "initial") = Marks1
  /\ Marks1 \o <<"swap", "cached">> = Marks3
  /\ Marks3 \o <<"stale", "invalidated">> = Marks5
  /\ Append(Marks5, "refreshed") = Marks6
  /\ Append(Marks6, "recovery") = Marks7
  /\ Mcp!Stale3 = Marks6 /\ Mcp!Chronology = Marks7
<1> DEFINE L == {"initial", "swap", "cached", "stale", "invalidated", "refreshed", "recovery"}
<1>1. /\ Marks1 \in Seq(L) /\ Marks3 \in Seq(L) /\ Marks5 \in Seq(L) /\ Marks6 \in Seq(L)
      /\ Marks7 \in Seq(L) /\ <<"swap", "cached">> \in Seq(L) /\ <<"stale", "invalidated">> \in Seq(L)
  BY DEF Marks1, Marks3, Marks5, Marks6, Marks7, Mcp!Stale3
<1>2. Marks1 \o <<"swap", "cached">> = Marks3
  <2>1. /\ Marks1 \o <<"swap", "cached">> \in Seq(L) /\ Len(Marks1 \o <<"swap", "cached">>) = 3
        /\ \A i \in 1 .. 3 : (Marks1 \o <<"swap", "cached">>)[i] = Marks3[i]
        /\ Len(Marks3) = 3
    BY <1>1, ConcatProperties DEF Marks1, Marks3
  <2> QED
    BY <1>1, <2>1, SeqEqual
<1>3. Marks3 \o <<"stale", "invalidated">> = Marks5
  <2>1. /\ Marks3 \o <<"stale", "invalidated">> \in Seq(L) /\ Len(Marks3 \o <<"stale", "invalidated">>) = 5
        /\ \A i \in 1 .. 5 : (Marks3 \o <<"stale", "invalidated">>)[i] = Marks5[i]
        /\ Len(Marks5) = 5
    BY <1>1, ConcatProperties DEF Marks3, Marks5
  <2> QED
    BY <1>1, <2>1, SeqEqual
<1>4. Append(Marks5, "refreshed") = Marks6
  <2>1. /\ Append(Marks5, "refreshed") \in Seq(L) /\ Len(Append(Marks5, "refreshed")) = 6
        /\ \A i \in 1 .. 6 : Append(Marks5, "refreshed")[i] = Marks6[i]
        /\ Len(Marks6) = 6
    BY <1>1, AppendProperties DEF Marks5, Marks6, Mcp!Stale3
  <2> QED
    BY <1>1, <2>1, SeqEqual
<1>5. Append(Marks6, "recovery") = Marks7
  <2>1. /\ Append(Marks6, "recovery") \in Seq(L) /\ Len(Append(Marks6, "recovery")) = 7
        /\ \A i \in 1 .. 7 : Append(Marks6, "recovery")[i] = Marks7[i]
        /\ Len(Marks7) = 7
    BY <1>1, AppendProperties DEF Marks7, Marks6, Mcp!Stale3
  <2> QED
    BY <1>1, <2>1, SeqEqual
<1>6. Append(<<>>, "initial") = Marks1
  BY DEF Marks1
<1> QED
  BY <1>2, <1>3, <1>4, <1>5, <1>6 DEF Marks6, Mcp!Chronology

\* Which labels each of them has, and that they differ.
LEMMA MarksHave ==
  /\ rec.marks = <<>> => ~Mcp!Has("invalidated") /\ ~Mcp!Has("refreshed")
                         /\ ~Mcp!Has("swap") /\ ~Mcp!Has("recovery")
  /\ rec.marks = Marks1 => ~Mcp!Has("invalidated") /\ ~Mcp!Has("refreshed")
                           /\ ~Mcp!Has("swap") /\ ~Mcp!Has("recovery")
  /\ rec.marks = Marks5 => Mcp!Has("invalidated") /\ ~Mcp!Has("refreshed")
                           /\ Mcp!Has("swap") /\ ~Mcp!Has("recovery")
  /\ rec.marks = Marks6 => Mcp!Has("invalidated") /\ Mcp!Has("refreshed")
                           /\ Mcp!Has("swap") /\ ~Mcp!Has("recovery")
  /\ rec.marks = Marks7 => Mcp!Has("invalidated") /\ Mcp!Has("refreshed")
                           /\ Mcp!Has("swap") /\ Mcp!Has("recovery")
<1>1. CASE rec.marks = <<>>
  BY <1>1 DEF Mcp!Has, Marks1, Marks5, Marks6, Marks7, Mcp!Stale3
<1>2. CASE rec.marks = Marks1
  BY <1>2 DEF Mcp!Has, Marks1, Marks5, Marks6, Marks7, Mcp!Stale3
<1>3. CASE rec.marks = Marks5
  BY <1>3 DEF Mcp!Has, Marks1, Marks5, Marks6, Marks7, Mcp!Stale3
<1>4. CASE rec.marks = Marks6
  BY <1>4 DEF Mcp!Has, Marks1, Marks5, Marks6, Marks7, Mcp!Stale3
<1>5. CASE rec.marks = Marks7
  BY <1>5 DEF Mcp!Has, Marks1, Marks5, Marks6, Marks7, Mcp!Stale3
<1> QED
  BY <1>1, <1>2, <1>3, <1>4, <1>5

-----------------------------------------------------------------------------
(* A listing                                                                  *)

\* What a recorder writes down of a listing.
LEMMA ListingRecorded ==
  ASSUME DOMAIN rec = Fields, kind \in FaultKinds, NEW L, Mcp!Target(L) = L,
         rec' = Mcp!RecordListing(L)
  PROVE  /\ DOMAIN rec' = Fields
         /\ rec'.calls = rec.calls /\ rec'.failed = rec.failed /\ rec'.early = rec.early
         /\ rec'.cached = rec.cached /\ rec'.model = rec.model /\ rec'.later = rec.later
         /\ rec'.told = rec.told /\ rec'.tool1 = rec.tool1 /\ rec'.tool2 = rec.tool2
         /\ rec'.first = rec.first /\ rec'.second = rec.second
         /\ kind # "metadata" => rec'.receipt = rec.receipt
         /\ kind = "metadata" =>
              rec'.receipt /\ rec'.initial = IF rec.receipt THEN rec.initial ELSE L
         /\ kind \in Mcp!DiscoveryFaults =>
              IF rec.initial = Mcp!NoListing
                THEN /\ rec'.initial = L /\ rec'.marks = Append(rec.marks, "initial")
                     /\ rec'.refreshed = rec.refreshed
                ELSE /\ rec'.initial = rec.initial
                     /\ IF /\ rec.refreshed = Mcp!NoListing /\ Mcp!Has("invalidated")
                           /\ kind = "stale" \/ ~Mcp!Has("recovery")
                          THEN rec'.refreshed = L /\ rec'.marks = Append(rec.marks, "refreshed")
                          ELSE rec'.refreshed = rec.refreshed /\ rec'.marks = rec.marks
<1>1. /\ kind \in {"metadata", "result", "error", "stale", "schema", "identity"}
      /\ Mcp!DiscoveryFaults = {"stale", "schema", "identity"}
  BY FaultsAreKnown
<1>2. CASE kind \in {"result", "error"}
  <2>1. rec' = rec
    BY <1>2 DEF Mcp!RecordListing
  <2> QED
    BY <1>1, <1>2, <2>1
<1>3. CASE kind = "metadata"
  <2>1. rec' = IF rec.receipt THEN rec ELSE [rec EXCEPT !.receipt = TRUE, !.initial = L]
    BY <1>3 DEF Mcp!RecordListing, Mcp!MetadataListTools
  <2>2. CASE rec.receipt
    BY <1>1, <1>3, <2>1, <2>2
  <2>3. CASE ~rec.receipt
    BY <1>1, <1>3, <2>1, <2>3 DEF Fields
  <2> QED
    BY <2>2, <2>3
<1>4. CASE kind \in Mcp!DiscoveryFaults
  <2> DEFINE refetched == Mcp!Has("invalidated") /\ (kind = "stale" \/ ~Mcp!Has("recovery"))
  <2>1. rec' = IF rec.initial = Mcp!NoListing
                 THEN [rec EXCEPT !.initial = L, !.marks = Append(@, "initial")]
               ELSE IF refetched /\ rec.refreshed = Mcp!NoListing
                 THEN [rec EXCEPT !.refreshed = L, !.marks = Append(@, "refreshed")]
               ELSE rec
    BY <1>1, <1>4 DEF Mcp!RecordListing, Mcp!StaleListTools, Mcp!SchemaListTools,
       Mcp!IdentityListTools, Mcp!ListedIn
  <2> HIDE DEF refetched
  <2>2. CASE rec.initial = Mcp!NoListing
    BY <1>1, <1>4, <2>1, <2>2 DEF Fields
  <2>3. CASE rec.initial # Mcp!NoListing /\ refetched /\ rec.refreshed = Mcp!NoListing
    BY <1>1, <1>4, <2>1, <2>3 DEF Fields, refetched
  <2>4. CASE rec.initial # Mcp!NoListing /\ ~(refetched /\ rec.refreshed = Mcp!NoListing)
    BY <1>1, <1>4, <2>1, <2>4 DEF refetched
  <2> QED
    BY <2>2, <2>3, <2>4
<1> QED
  BY <1>1, <1>2, <1>3, <1>4

\* What a client lists: what the server offers, unless it holds an older listing.
LEMMA WhatIsListed ==
  ASSUME BridgeTypes, Changed
  PROVE  /\ Mcp!Listed \in {Before, After} /\ Mcp!Target(Mcp!Listed) = Mcp!Listed
         /\ Mcp!Listed \in SUBSET Mcp!Adverts
         /\ Drifts = {} => Mcp!Listed = Before
         /\ cache = Mcp!NoListing /\ Drifts # {} => Mcp!Listed = After
         /\ cache = Before => Mcp!Listed = Before
<1>1. /\ kind \in FaultKinds /\ cache \in {Mcp!NoListing, Before, After}
      /\ live = IF Drifts = {} THEN Before ELSE After
      /\ Drifts = {} => cache \in {Mcp!NoListing, Before}
      /\ Mcp!Listed = IF cache = Mcp!NoListing THEN live ELSE cache
  BY DEF BridgeTypes, Changed, Mcp!Listed
<1>2. /\ Mcp!Target(Before) = Before /\ Mcp!Target(After) = After /\ Before # Mcp!NoListing
      /\ Before \in SUBSET Mcp!Adverts /\ After \in SUBSET Mcp!Adverts
  BY <1>1, TwoCatalogues
<1> QED
  BY <1>1, <1>2

-----------------------------------------------------------------------------
(* Steps without calls under way                                              *)

\* What a step that only lists or moves on leaves as it is.
LEMMA QuietStep ==
  ASSUME hist \in Seq(Happenings), Ledger, Changed, Holds, Worded,
         kind' = kind, live' = live, served > 0 => served' > 0, items' = items,
         inflight' = inflight, inflight = <<>>, pc' # "agent_calls",
         rec'.calls = rec.calls, rec'.first = rec.first, rec'.second = rec.second,
         kind # "metadata" => rec'.receipt = rec.receipt,
         \/ hist' = hist
         \/ \E h \in Happenings : hist' = Append(hist, h) /\ h.what \notin {"serve", "model", "drift"},
         Drifts = {} => cache' \in {Mcp!NoListing, Before} /\ shown' \in {{}, Before}
  PROVE  /\ hist' \in Seq(Happenings) /\ Ledger' /\ Changed' /\ Holds' /\ Worded'
         /\ Asked' = Asked /\ Told' = Told /\ Begun' = {} /\ Begun = {} /\ Back' = {}
         /\ Serves' = Serves /\ Models' = Models /\ Drifts' = Drifts
         /\ Before' = Before /\ After' = After /\ (Separated' <=> Separated)
         /\ \A n \in Serves \cup Models \cup Drifts : hist'[n] = hist[n]
<1>1. Ledger' /\ Serves' = Serves /\ Models' = Models /\ \A s \in Serves : hist'[s] = hist[s]
  BY LedgerStays
<1>2. hist' \in Seq(Happenings) /\ Drifts' = Drifts
      /\ \A n \in Serves \cup Models \cup Drifts : hist'[n] = hist[n]
  <2>1. CASE hist' = hist
    BY <2>1 DEF Drifts, Mcp!Steps
  <2>2. CASE \E h \in Happenings : hist' = Append(hist, h) /\ h.what \notin {"serve", "model", "drift"}
    <3>1. PICK h \in Happenings : hist' = Append(hist, h) /\ h.what \notin {"serve", "model", "drift"}
      BY <2>2
    <3>2. /\ \A n \in 1 .. Len(hist) : hist'[n] = hist[n]
          /\ \A w : Mcp!Steps(w)' = Mcp!Steps(w) \cup (IF h.what = w THEN {Len(hist) + 1} ELSE {})
          /\ \A w : Mcp!Steps(w) \subseteq 1 .. Len(hist)
          /\ hist' \in Seq(Happenings)
      BY <3>1, HistoryGrows
    <3>3. Mcp!Steps("drift")' = Mcp!Steps("drift")
      BY <3>1, <3>2
    <3> QED
      BY <3>2, <3>3 DEF Serves, Models, Drifts
  <2> QED
    BY <2>1, <2>2
<1>3. /\ Asked' = Asked /\ Told' = Told /\ Begun' = {} /\ Begun = {} /\ Back' = {} /\ Back = {}
      /\ Before' = Before /\ After' = After
  <2>1. Mcp!Controlled' = Mcp!Controlled
    BY DEF Mcp!Controlled, Mcp!Tools
  <2>2. Asked' = Asked /\ Told' = Told /\ Begun' = {} /\ Begun = {}
    BY <2>1 DEF Asked, Told, Begun
  <2> QED
    BY <2>2 DEF Back, Before, After, Mcp!BuildServer, Mcp!Drifted
<1>4. Separated' <=> Separated
  BY <1>3 DEF Separated
<1>5. Holds'
  BY <1>3, <1>4 DEF Holds, OneTold, TwoTold, SameCall
<1>6. Changed'
  BY <1>1, <1>2, <1>3 DEF Changed
<1>7. Worded'
  BY <1>1, <1>3 DEF Worded
<1> QED
  BY <1>1, <1>2, <1>3, <1>4, <1>5, <1>6, <1>7

\* Listing the tools of a turn.
LEMMA ListingStep ==
  ASSUME Running, Mcp!ListTools
  PROVE  Running'
<1>1. /\ BridgeTypes /\ Stations /\ Ledger /\ Changed /\ Holds /\ Worded
      /\ kind \in FaultKinds /\ DOMAIN rec = Fields /\ hist \in Seq(Happenings)
      /\ inflight = <<>> /\ evidence = <<>> /\ ~Mcp!Ended
  BY DEF Running, Story, BridgeTypes, Stations, Mcp!ListTools, Mcp!Ended
<1>2. /\ Mcp!Listed \in {Before, After} /\ Mcp!Target(Mcp!Listed) = Mcp!Listed
      /\ Mcp!Listed \in SUBSET Mcp!Adverts
      /\ Drifts = {} => Mcp!Listed = Before
      /\ cache = Mcp!NoListing /\ Drifts # {} => Mcp!Listed = After
      /\ cache = Before => Mcp!Listed = Before
  BY <1>1, WhatIsListed
<1>3. /\ shown' = Mcp!Listed /\ cache' = Mcp!Listed /\ rec' = Mcp!RecordListing(Mcp!Listed)
      /\ pc = "agent_list" /\ pc' = "agent_model" /\ kind' = kind /\ live' = live /\ served' = served
      /\ control' = control /\ inflight' = inflight /\ items' = items /\ outcome' = outcome
      /\ evidence' = evidence
      /\ hist' = Append(hist, [what |-> "list", listing |-> Mcp!Listed, id |-> 0, ans |-> Mcp!NoAnswer])
  BY DEF Mcp!ListTools, Mcp!Happened
<1>4. [what |-> "list", listing |-> Mcp!Listed, id |-> 0, ans |-> Mcp!NoAnswer] \in Happenings
  BY <1>2 DEF Happenings
<1> DEFINE L == Mcp!Listed
<1>5. /\ DOMAIN rec' = Fields
      /\ rec'.calls = rec.calls /\ rec'.failed = rec.failed /\ rec'.early = rec.early
      /\ rec'.cached = rec.cached /\ rec'.model = rec.model /\ rec'.later = rec.later
      /\ rec'.told = rec.told /\ rec'.tool1 = rec.tool1 /\ rec'.tool2 = rec.tool2
      /\ rec'.first = rec.first /\ rec'.second = rec.second
      /\ kind # "metadata" => rec'.receipt = rec.receipt
      /\ kind = "metadata" =>
           rec'.receipt /\ rec'.initial = IF rec.receipt THEN rec.initial ELSE L
      /\ kind \in Mcp!DiscoveryFaults =>
           IF rec.initial = Mcp!NoListing
             THEN /\ rec'.initial = L /\ rec'.marks = Append(rec.marks, "initial")
                  /\ rec'.refreshed = rec.refreshed
             ELSE /\ rec'.initial = rec.initial
                  /\ IF /\ rec.refreshed = Mcp!NoListing /\ Mcp!Has("invalidated")
                        /\ kind = "stale" \/ ~Mcp!Has("recovery")
                       THEN rec'.refreshed = L /\ rec'.marks = Append(rec.marks, "refreshed")
                       ELSE rec'.refreshed = rec.refreshed /\ rec'.marks = rec.marks
  BY <1>1, <1>2, <1>3, ListingRecorded
<1>6. /\ hist' \in Seq(Happenings) /\ Ledger' /\ Changed' /\ Holds' /\ Worded'
      /\ Asked' = Asked /\ Told' = Told /\ Begun' = {} /\ Begun = {} /\ Back' = {}
      /\ Serves' = Serves /\ Models' = Models /\ Drifts' = Drifts
      /\ Before' = Before /\ After' = After /\ (Separated' <=> Separated)
      /\ \A n \in Serves \cup Models \cup Drifts : hist'[n] = hist[n]
  <2>1. \E h \in Happenings : hist' = Append(hist, h) /\ h.what \notin {"serve", "model", "drift"}
    BY <1>3, <1>4
  <2>2. Drifts = {} => cache' \in {Mcp!NoListing, Before} /\ shown' \in {{}, Before}
    BY <1>2, <1>3
  <2>3. pc' # "agent_calls"
    BY <1>3
  <2> QED
    BY <1>1, <1>3, <1>5, <2>1, <2>2, <2>3, QuietStep
<1>7. BridgeTypes'
  BY <1>1, <1>2, <1>3, <1>5, <1>6 DEF BridgeTypes
<1>8. Stations'
  BY <1>1, <1>3 DEF Stations
<1>9. /\ Before # Mcp!NoListing /\ After # Mcp!NoListing
  BY <1>1, TwoCatalogues
<1>10. ASSUME kind \in Mcp!DiscoveryFaults
       PROVE  Discovery'
  <2>1. Discovery
    BY <1>10 DEF Running, Story
  <2>2. ASSUME rec.calls = 0
        PROVE  NotBegun' /\ Drifts' = {}
    <3>1. /\ NotBegun /\ Drifts = {} /\ L = Before
      BY <1>2, <2>1, <2>2 DEF Discovery
    <3>2. rec'.initial = Before /\ rec'.marks = Marks1 /\ rec'.refreshed = rec.refreshed
      <4>1. CASE rec.initial = Mcp!NoListing
        BY <1>5, <1>10, <3>1, <4>1, MarksGrow DEF NotBegun
      <4>2. CASE rec.initial = Before
        <5>1. rec.marks = Marks1 /\ ~Mcp!Has("invalidated")
          BY <1>9, <3>1, <4>2, MarksHave DEF NotBegun
        <5> QED
          BY <1>5, <1>9, <1>10, <4>2, <5>1
      <4> QED
        BY <3>1, <4>1, <4>2 DEF NotBegun
    <3> QED
      BY <1>3, <1>5, <1>6, <1>9, <3>1, <3>2 DEF NotBegun
  <2>3. ASSUME Drifts # {}, rec.calls = 1, Asked # {}
        PROVE  OneCall'
    <3>1. OneCall
      BY <2>1, <2>3 DEF Discovery
    <3>2. rec.initial = Before
      BY <3>1 DEF OneCall, Kept
    <3>3. Kept' /\ rec'.cached = Before'
      BY <1>3, <1>5, <1>6, <1>9, <1>10, <3>1, <3>2 DEF OneCall, Kept
    <3>4. (\A k \in Told : items[k].tool = "old" /\ Reported(k))'
      <4>1. /\ items' = items /\ kind' = kind /\ rec'.later = rec.later /\ rec'.told = rec.told
            /\ Told' = Told /\ Serves' = Serves /\ Models' = Models
            /\ \A j \in Models : hist'[j] = hist[j]
        BY <1>3, <1>5, <1>6
      <4>2. ASSUME NEW k \in Told, Reported(k)
            PROVE  Reported(k)'
        BY <4>1, <4>2 DEF Reported
      <4>3. \A k \in Told : items[k].tool = "old" /\ Reported(k)
        BY <3>1 DEF OneCall
      <4> QED
        BY <4>1, <4>2, <4>3
    <3>5. CASE Rested
      <4>1. rec.refreshed = Mcp!NoListing /\ Mcp!Has("invalidated") /\ ~Mcp!Has("recovery") /\ L = After
        BY <1>2, <2>3, <3>5, MarksHave DEF Rested
      <4>2. rec'.refreshed = After /\ rec'.marks = Marks6
        BY <1>5, <1>9, <1>10, <3>2, <3>5, <4>1, MarksGrow DEF Rested
      <4>3. Refreshed'
        BY <1>3, <1>5, <1>6, <3>5, <4>1, <4>2 DEF Refreshed, Rested
      <4> QED
        BY <3>3, <3>4, <4>3 DEF OneCall
    <3>6. CASE Refreshed
      <4>1. rec'.refreshed = After /\ rec'.marks = Marks6
        BY <1>5, <1>9, <1>10, <3>2, <3>6 DEF Refreshed
      <4>2. Refreshed'
        BY <1>3, <1>5, <1>6, <3>6, <4>1 DEF Refreshed
      <4> QED
        BY <3>3, <3>4, <4>2 DEF OneCall
    <3> QED
      BY <3>1, <3>5, <3>6 DEF OneCall
  <2>4. ASSUME Drifts # {}, rec.calls = 2, Separated, kind # "stale"
        PROVE  TwoCalls'
    <3>1. TwoCalls
      BY <2>1, <2>4 DEF Discovery
    <3>2. rec'.initial = Before /\ rec'.refreshed = After /\ rec'.marks = Marks7
      BY <1>5, <1>9, <1>10, <3>1 DEF TwoCalls, Kept
    <3> QED
      BY <1>3, <1>5, <1>6, <3>1, <3>2 DEF TwoCalls, Kept
  <2> QED
    BY <1>5, <1>6, <1>3, <2>2, <2>3, <2>4 DEF Discovery
<1>11. ASSUME kind = "metadata"
       PROVE  Metadata'
  <2>1. Metadata
    BY <1>11 DEF Running, Story
  <2>2. kind \notin Mcp!DiscoveryFaults
    BY <1>11, FaultsAreKnown
  <2>3. L = Before
    BY <1>1, <1>2, <2>2 DEF Changed
  <2> QED
    BY <1>3, <1>5, <1>6, <1>11, <2>1, <2>3 DEF Metadata, Mcp!Ended
<1>12. Poisoned'
  BY <1>3 DEF Poisoned
<1>13. Stepping'
  BY <1>1, <1>3 DEF Stepping
<1> QED
  BY <1>3, <1>6, <1>7, <1>8, <1>10, <1>11, <1>12, <1>13 DEF Running, Story

\* A run that only moves on: it starts, spends its turns, or the evaluator's own call goes well.
LEMMA MovingStep ==
  ASSUME Running, Mcp!Execute \/ Mcp!BudgetSpent \/ Mcp!VerifyRecovery, pc' # "agent_done"
  PROVE  Running'
<1>1. /\ BridgeTypes /\ Stations /\ Ledger /\ Changed /\ Holds /\ Worded
      /\ kind \in FaultKinds /\ DOMAIN rec = Fields /\ hist \in Seq(Happenings)
      /\ inflight = <<>> /\ served \in Nat
  BY DEF Running, Story, BridgeTypes, Stations, Mcp!Execute, Mcp!BudgetSpent, Mcp!VerifyRecovery
<1>2. /\ kind' = kind /\ live' = live /\ items' = items /\ inflight' = inflight /\ rec' = rec
      /\ hist' = hist /\ shown' = shown /\ cache' = cache /\ control' = control
      /\ outcome' = outcome
      /\ \/ pc = "agent" /\ pc' = "agent_list" /\ evidence' = evidence /\ served' = served
         \/ /\ pc = "agent_list" /\ pc' = "agent_end" /\ served' = served
            /\ evidence' = <<Mcp!Mark("violation")>>
         \/ /\ pc = "agent_end" /\ pc' = "agent_attach" /\ evidence' = evidence
            /\ kind = "result" /\ Mcp!ResultComplete
            /\ served' = Mcp!ServedBy("old", rec.first.args)
            /\ Mcp!Serve("old", rec.first.args) = Mcp!Answer("benign", FALSE, "first")
  <2>1. CASE Mcp!Execute
    BY <2>1 DEF Mcp!Execute, Mcp!Refuse
  <2>2. CASE Mcp!BudgetSpent
    BY <2>2 DEF Mcp!BudgetSpent
  <2>3. CASE Mcp!VerifyRecovery
    BY <2>3 DEF Mcp!VerifyRecovery, Mcp!Refuse
  <2> QED
    BY <2>1, <2>2, <2>3
<1>3. served' \in Nat /\ (served > 0 => served' > 0)
  <2>1. Mcp!ServedBy("old", rec.first.args) = served \/ Mcp!ServedBy("old", rec.first.args) = served + 1
    BY DEF Mcp!ServedBy
  <2>2. served' = served \/ served' = served + 1
    BY <1>2, <2>1, Zenon
  <2> QED
    BY <1>1, <2>2
<1>4. /\ hist' \in Seq(Happenings) /\ Ledger' /\ Changed' /\ Holds' /\ Worded'
      /\ Asked' = Asked /\ Told' = Told /\ Begun' = {} /\ Begun = {}
      /\ Serves' = Serves /\ Models' = Models /\ Drifts' = Drifts
      /\ Before' = Before /\ After' = After /\ (Separated' <=> Separated)
      /\ \A n \in Serves \cup Models \cup Drifts : hist'[n] = hist[n]
  <2>1. Drifts = {} => cache' \in {Mcp!NoListing, Before} /\ shown' \in {{}, Before}
    BY <1>1, <1>2 DEF Changed
  <2>2. pc' # "agent_calls"
    BY <1>2
  <2> QED
    BY <1>1, <1>2, <1>3, <2>1, <2>2, QuietStep
<1>5. BridgeTypes'
  BY <1>1, <1>2, <1>3, <1>4 DEF BridgeTypes
<1>6. Stations'
  BY <1>1, <1>2 DEF Stations, Mcp!Mark
<1>7. ~Mcp!Ended' \/ pc = "agent_end"
  <2>1. CASE pc = "agent"
    <3>1. evidence' = <<>>
      BY <1>1, <1>2, <2>1 DEF Stations
    <3> QED
      BY <3>1 DEF Mcp!Ended
  <2>2. CASE pc = "agent_list"
    <3>1. Len(evidence') = 1 /\ evidence'[1].kind = "violation"
      BY <1>2, <2>2 DEF Mcp!Mark
    <3> QED
      BY <3>1 DEF Mcp!Ended
  <2> QED
    BY <1>2, <2>1, <2>2
<1>8. kind \in Mcp!DiscoveryFaults => Discovery'
  <2> HAVE kind \in Mcp!DiscoveryFaults
  <2>1. Discovery
    BY DEF Running, Story
  <2>2. pc = "agent" \/ (pc = "agent_list" /\ pc' = "agent_end")
    BY <1>2, FaultsAreKnown
  <2>3. pc = "agent" => rec.calls = 0 /\ Asked = {}
    <3> HAVE pc = "agent"
    <3>1. items = <<>>
      BY <1>1 DEF Stations
    <3>2. Asked = {}
      BY <3>1 DEF Asked
    <3> QED
      BY <1>1, <1>4, <3>2, FS_EmptySet DEF Ledger, Counted
  <2>4. rec.calls = 0 => NotBegun' /\ Drifts' = {}
    BY <1>2, <1>4, <2>1, <2>2 DEF Discovery, NotBegun
  <2>5. Drifts # {} /\ rec.calls = 1 /\ Asked # {} => OneCall'
    <3> HAVE Drifts # {} /\ rec.calls = 1 /\ Asked # {}
    <3>1. OneCall
      BY <2>1 DEF Discovery
    <3>2. Rested' \/ Refreshed'
      BY <1>2, <1>4, <1>7, <2>2, <2>3, <3>1 DEF OneCall, Rested, Refreshed
    <3> QED
      BY <1>2, <1>4, <3>1, <3>2 DEF OneCall, Kept, Reported
  <2>6. Drifts # {} /\ rec.calls = 2 /\ Separated /\ kind # "stale" => TwoCalls'
    BY <1>2, <1>4, <2>1 DEF Discovery, TwoCalls, Kept
  <2> QED
    BY <1>2, <1>4, <2>4, <2>5, <2>6 DEF Discovery
<1>9. kind = "metadata" => Metadata'
  <2> HAVE kind = "metadata"
  <2>1. Metadata
    BY DEF Running, Story
  <2>2. ~Mcp!Ended' /\ pc' \in {"agent_list", "agent_end"}
    BY <1>2, <1>7
  <2> QED
    BY <1>2, <1>4, <2>1, <2>2 DEF Metadata
<1>10. Poisoned'
  <2>1. CASE pc = "agent_end"
    <3>1. Mcp!Serve("old", rec.first.args).args = rec.first.args
      BY DEF Mcp!Serve, Mcp!Answer
    <3>2. rec.first.args = "first"
      BY <1>2, <2>1, <3>1 DEF Mcp!Answer
    <3> QED
      BY <1>2, <2>1, <3>2 DEF Poisoned, Mcp!ResultComplete
  <2> QED
    BY <1>2, <2>1 DEF Poisoned
<1>11. Stepping'
  BY <1>1, <1>2 DEF Stepping
<1> QED
  BY <1>2, <1>4, <1>5, <1>6, <1>8, <1>9, <1>10, <1>11 DEF Running, Story

-----------------------------------------------------------------------------
(* The model is asked                                                         *)

\* What a recorder writes down of what the model is shown.
LEMMA ModelObserved ==
  ASSUME DOMAIN rec = Fields, kind \in FaultKinds, rec' = Mcp!ObserveModel
  PROVE  /\ DOMAIN rec' = Fields
         /\ rec'.calls = rec.calls /\ rec'.failed = rec.failed /\ rec'.early = rec.early
         /\ rec'.cached = rec.cached /\ rec'.initial = rec.initial /\ rec'.marks = rec.marks
         /\ rec'.refreshed = rec.refreshed /\ rec'.receipt = rec.receipt
         /\ rec'.tool1 = rec.tool1 /\ rec'.tool2 = rec.tool2
         /\ rec'.first = rec.first /\ rec'.second = rec.second
         /\ kind \in {"stale", "identity", "metadata"} =>
              IF rec.model = Mcp!NoListing
                THEN rec'.model = Mcp!Target(shown) /\ rec'.later = rec.later /\ rec'.told = rec.told
                ELSE /\ rec'.model = rec.model
                     /\ IF kind # "metadata" /\ Mcp!Has("refreshed") /\ rec.later = Mcp!NoListing
                          THEN /\ rec'.later = Mcp!Target(shown)
                               /\ kind = "stale" => rec'.told = items[CHOOSE i \in Mcp!Outputs : TRUE]
                          ELSE rec'.later = rec.later /\ rec'.told = rec.told
<1>1. kind \in {"metadata", "result", "error", "stale", "schema", "identity"}
  BY FaultsAreKnown
<1>2. CASE kind \in {"result", "error", "schema"}
  <2>1. rec' = rec
    BY <1>2 DEF Mcp!ObserveModel
  <2> QED
    BY <1>2, <2>1
<1>3. CASE kind = "metadata"
  <2>1. rec' = IF rec.model = Mcp!NoListing THEN [rec EXCEPT !.model = Mcp!Target(shown)] ELSE rec
    BY <1>3 DEF Mcp!ObserveModel, Mcp!MetadataObserve
  <2>2. CASE rec.model = Mcp!NoListing
    BY <1>3, <2>1, <2>2 DEF Fields
  <2>3. CASE rec.model # Mcp!NoListing
    BY <1>3, <2>1, <2>3
  <2> QED
    BY <2>2, <2>3
<1>4. CASE kind = "identity"
  <2>1. rec' = IF rec.model = Mcp!NoListing THEN [rec EXCEPT !.model = Mcp!Target(shown)]
               ELSE IF Mcp!Has("refreshed") /\ rec.later = Mcp!NoListing
                 THEN [rec EXCEPT !.later = Mcp!Target(shown)]
               ELSE rec
    BY <1>4 DEF Mcp!ObserveModel, Mcp!IdentityObserve
  <2>2. CASE rec.model = Mcp!NoListing
    BY <1>4, <2>1, <2>2 DEF Fields
  <2>3. CASE rec.model # Mcp!NoListing /\ Mcp!Has("refreshed") /\ rec.later = Mcp!NoListing
    BY <1>4, <2>1, <2>3 DEF Fields
  <2>4. CASE rec.model # Mcp!NoListing /\ ~(Mcp!Has("refreshed") /\ rec.later = Mcp!NoListing)
    BY <1>4, <2>1, <2>4
  <2> QED
    BY <2>2, <2>3, <2>4
<1>5. CASE kind = "stale"
  <2> DEFINE o == items[CHOOSE i \in Mcp!Outputs : TRUE]
  <2>1. rec' = IF rec.model = Mcp!NoListing THEN [rec EXCEPT !.model = Mcp!Target(shown)]
               ELSE IF ~Mcp!Has("refreshed") \/ rec.later # Mcp!NoListing THEN rec
               ELSE [rec EXCEPT !.later = Mcp!Target(shown), !.told = o]
    BY <1>5 DEF Mcp!ObserveModel, Mcp!StaleObserve
  <2> HIDE DEF o
  <2>2. CASE rec.model = Mcp!NoListing
    BY <1>5, <2>1, <2>2 DEF Fields
  <2>3. CASE rec.model # Mcp!NoListing /\ Mcp!Has("refreshed") /\ rec.later = Mcp!NoListing
    <3>1. rec' = [rec EXCEPT !.later = Mcp!Target(shown), !.told = o]
      BY <2>1, <2>3
    <3>2. rec'.told = o /\ rec'.later = Mcp!Target(shown) /\ rec'.model = rec.model
      BY <3>1 DEF Fields
    <3> QED
      BY <1>5, <2>3, <3>1, <3>2 DEF Fields, o
  <2>4. CASE rec.model # Mcp!NoListing /\ ~(Mcp!Has("refreshed") /\ rec.later = Mcp!NoListing)
    BY <1>5, <2>1, <2>4
  <2> QED
    BY <2>2, <2>3, <2>4
<1> QED
  BY <1>1, <1>2, <1>3, <1>4, <1>5

\* The calls a model makes: of tools it was shown, or of a local one.
LEMMA ModelAsked ==
  ASSUME BridgeTypes, Changed, Mcp!ModelCalls \/ Mcp!ModelEnds
  PROVE  /\ inflight' \in Seq(BridgeCalls)
         /\ \A j \in 1 .. Len(inflight') : inflight'[j].op = "begin"
         /\ Drifts = {} => \A j \in 1 .. Len(inflight') : inflight'[j].tool # "new"
         /\ pc = "agent_model" /\ rec' = Mcp!ObserveModel /\ ~Mcp!BoundaryRaises
         /\ hist' = Append(hist, [what |-> "model", listing |-> shown, id |-> 0, ans |-> Mcp!NoAnswer])
         /\ \/ pc' = "agent_calls" /\ evidence' = evidence
            \/ /\ pc' = "agent_end" /\ evidence' = Append(items, Mcp!Mark("output"))
               /\ inflight' = <<>>
         /\ kind' = kind /\ live' = live /\ served' = served /\ cache' = cache /\ control' = control
         /\ shown' = shown /\ items' = items /\ outcome' = outcome
<1>1. Mcp!Made \in Nat
  <2>1. Len(items) \in Nat
    BY LenProperties DEF BridgeTypes
  <2> DEFINE S == {i \in 1 .. Len(items) : items[i].kind = "request"}
  <2>2. Cardinality(S) \in Nat
    BY <2>1, Positions
  <2> QED
    BY <2>2, BridgeCardinality DEF Mcp!Made
<1>2. /\ Mcp!Visible \subseteq ToolNames
      /\ Drifts = {} => "new" \notin Mcp!Visible
  <2>1. /\ shown \in SUBSET Mcp!Adverts
        /\ Drifts = {} => shown \in {{}, Before}
        /\ Mcp!Names(Before) = {"old"} /\ Mcp!Names({}) = {}
    BY TwoCatalogues DEF BridgeTypes, Changed
  <2>2. Mcp!Names(shown) \subseteq Mcp!Tools
    BY <2>1 DEF Mcp!Names, Mcp!Adverts
  <2>3. Drifts = {} => Mcp!Names(shown) \in {{"old"}, {}}
    BY <2>1
  <2> QED
    BY <2>2, <2>3 DEF Mcp!Visible, ToolNames, Mcp!Local
<1>3. ASSUME NEW t \in Mcp!Visible, NEW a \in Mcp!Arguments, NEW n \in Nat
      PROVE  /\ Mcp!Call(t, a, n) \in BridgeCalls /\ Mcp!Call(t, a, n).op = "begin"
             /\ Mcp!Call(t, a, n).tool = t
  BY <1>2 DEF Mcp!Call, BridgeCalls, Ops
<1>4. Mcp!NamesFor(Mcp!Made + 1) \subseteq Nat /\ Mcp!NamesFor(Mcp!Made + 2) \subseteq Nat
  BY <1>1 DEF Mcp!NamesFor
<1>5. CASE Mcp!ModelCalls
  <2>1. /\ pc = "agent_model" /\ pc' = "agent_calls" /\ evidence' = evidence /\ ~Mcp!BoundaryRaises
        /\ \/ \E t \in Mcp!Visible, a \in Mcp!Arguments, n \in Mcp!NamesFor(Mcp!Made + 1) :
                Mcp!Response(<<Mcp!Call(t, a, n)>>)
           \/ \E t, u \in Mcp!Visible, a, b \in Mcp!Arguments, n \in Mcp!NamesFor(Mcp!Made + 1),
                 m \in Mcp!NamesFor(Mcp!Made + 2) :
                Mcp!Response(<<Mcp!Call(t, a, n), Mcp!Call(u, b, m)>>)
    BY <1>5 DEF Mcp!ModelCalls
  <2>2. CASE \E t \in Mcp!Visible, a \in Mcp!Arguments, n \in Mcp!NamesFor(Mcp!Made + 1) :
               Mcp!Response(<<Mcp!Call(t, a, n)>>)
    <3>1. PICK t \in Mcp!Visible, a \in Mcp!Arguments, n \in Mcp!NamesFor(Mcp!Made + 1) :
            Mcp!Response(<<Mcp!Call(t, a, n)>>)
      BY <2>2
    <3>2. PICK c \in BridgeCalls : c = Mcp!Call(t, a, n) /\ c.op = "begin" /\ c.tool = t
      BY <1>3, <1>4
    <3>3. inflight' = <<c>>
      BY <3>1, <3>2 DEF Mcp!Response
    <3>4. inflight' \in Seq(BridgeCalls) /\ \A j \in 1 .. Len(inflight') : inflight'[j] = c
      BY <3>2, <3>3
    <3> QED
      BY <1>2, <2>1, <3>1, <3>2, <3>4 DEF Mcp!Response, Mcp!Happened
  <2>3. CASE \E t, u \in Mcp!Visible, a, b \in Mcp!Arguments, n \in Mcp!NamesFor(Mcp!Made + 1),
                m \in Mcp!NamesFor(Mcp!Made + 2) :
               Mcp!Response(<<Mcp!Call(t, a, n), Mcp!Call(u, b, m)>>)
    <3>1. PICK t \in Mcp!Visible, u \in Mcp!Visible, a \in Mcp!Arguments, b \in Mcp!Arguments,
               n \in Mcp!NamesFor(Mcp!Made + 1), m \in Mcp!NamesFor(Mcp!Made + 2) :
            Mcp!Response(<<Mcp!Call(t, a, n), Mcp!Call(u, b, m)>>)
      BY <2>3
    <3>2. PICK c \in BridgeCalls : c = Mcp!Call(t, a, n) /\ c.op = "begin" /\ c.tool = t
      BY <1>3, <1>4
    <3>3. PICK d \in BridgeCalls : d = Mcp!Call(u, b, m) /\ d.op = "begin" /\ d.tool = u
      BY <1>3, <1>4
    <3>4. inflight' = <<c, d>>
      BY <3>1, <3>2, <3>3 DEF Mcp!Response
    <3>5. inflight' \in Seq(BridgeCalls)
          /\ \A j \in 1 .. Len(inflight') : inflight'[j] = c \/ inflight'[j] = d
      BY <3>2, <3>3, <3>4
    <3> QED
      BY <1>2, <2>1, <3>1, <3>2, <3>3, <3>5 DEF Mcp!Response, Mcp!Happened
  <2> QED
    BY <2>1, <2>2, <2>3
<1>6. CASE Mcp!ModelEnds
  <2>1. inflight' = <<>>
    BY <1>6 DEF Mcp!ModelEnds, Mcp!Response
  <2>2. inflight' \in Seq(BridgeCalls) /\ Len(inflight') = 0
    BY <2>1
  <2> QED
    BY <1>6, <2>1, <2>2 DEF Mcp!ModelEnds, Mcp!Response, Mcp!Happened
<1> QED
  BY <1>5, <1>6

\* The model answers, with calls or with its final output.
LEMMA ModelStep ==
  ASSUME Running, Mcp!ModelCalls \/ Mcp!ModelEnds
  PROVE  Running'
<1>1. /\ BridgeTypes /\ Stations /\ Ledger /\ Changed /\ Holds /\ Worded
      /\ kind \in FaultKinds /\ DOMAIN rec = Fields /\ hist \in Seq(Happenings)
  BY DEF Running, Story, BridgeTypes
<1>2. /\ inflight' \in Seq(BridgeCalls)
      /\ \A j \in 1 .. Len(inflight') : inflight'[j].op = "begin"
      /\ Drifts = {} => \A j \in 1 .. Len(inflight') : inflight'[j].tool # "new"
      /\ pc = "agent_model" /\ rec' = Mcp!ObserveModel /\ ~Mcp!BoundaryRaises
      /\ hist' = Append(hist, [what |-> "model", listing |-> shown, id |-> 0, ans |-> Mcp!NoAnswer])
      /\ \/ pc' = "agent_calls" /\ evidence' = evidence
         \/ /\ pc' = "agent_end" /\ evidence' = Append(items, Mcp!Mark("output"))
            /\ inflight' = <<>>
      /\ kind' = kind /\ live' = live /\ served' = served /\ cache' = cache /\ control' = control
      /\ shown' = shown /\ items' = items /\ outcome' = outcome
  BY <1>1, ModelAsked
<1>3. inflight = <<>> /\ evidence = <<>>
  BY <1>1, <1>2 DEF Stations
<1>4. /\ shown \in SUBSET Mcp!Adverts /\ Before # Mcp!NoListing /\ After # Mcp!NoListing
      /\ Mcp!Target(Before) = Before /\ Mcp!Target(After) = After
      /\ kind = "stale" => After = {}
  BY <1>1, TwoCatalogues DEF BridgeTypes
<1>5. PICK h \in Happenings : /\ h = [what |-> "model", listing |-> shown, id |-> 0, ans |-> Mcp!NoAnswer]
                              /\ h.what = "model" /\ h.listing = shown
  <2> DEFINE e == [what |-> "model", listing |-> shown, id |-> 0, ans |-> Mcp!NoAnswer]
  <2>1. e \in Happenings
    BY <1>4 DEF Happenings
  <2>2. e.what = "model" /\ e.listing = shown
    OBVIOUS
  <2> QED
    BY <2>1, <2>2
<1>6. /\ DOMAIN rec' = Fields
      /\ rec'.calls = rec.calls /\ rec'.failed = rec.failed /\ rec'.early = rec.early
      /\ rec'.cached = rec.cached /\ rec'.initial = rec.initial /\ rec'.marks = rec.marks
      /\ rec'.refreshed = rec.refreshed /\ rec'.receipt = rec.receipt
      /\ rec'.tool1 = rec.tool1 /\ rec'.tool2 = rec.tool2
      /\ rec'.first = rec.first /\ rec'.second = rec.second
      /\ kind \in {"stale", "identity", "metadata"} =>
           IF rec.model = Mcp!NoListing
             THEN rec'.model = Mcp!Target(shown) /\ rec'.later = rec.later /\ rec'.told = rec.told
             ELSE /\ rec'.model = rec.model
                  /\ IF kind # "metadata" /\ Mcp!Has("refreshed") /\ rec.later = Mcp!NoListing
                       THEN /\ rec'.later = Mcp!Target(shown)
                            /\ kind = "stale" => rec'.told = items[CHOOSE i \in Mcp!Outputs : TRUE]
                       ELSE rec'.later = rec.later /\ rec'.told = rec.told
  BY <1>1, <1>2, ModelObserved
<1>7. /\ Ledger' /\ Serves' = Serves /\ Begun' = {} /\ Begun = {}
      /\ \E m \in Nat : /\ m = Len(hist) + 1 /\ Models' = Models \cup {m} /\ hist'[m] = h
                        /\ \A s \in Serves : hist'[s] = hist[s] /\ s < m
  BY <1>1, <1>2, <1>3, <1>5, <1>6, LedgerAsks
<1>8. PICK m \in Nat : /\ m = Len(hist) + 1 /\ Models' = Models \cup {m} /\ hist'[m] = h
                       /\ \A s \in Serves : hist'[s] = hist[s] /\ s < m
  BY <1>7
<1>9. /\ hist' \in Seq(Happenings) /\ Drifts' = Drifts
      /\ \A n \in Models \cup Drifts : hist'[n] = hist[n]
  <2>1. /\ \A n \in 1 .. Len(hist) : hist'[n] = hist[n]
        /\ \A w : Mcp!Steps(w)' = Mcp!Steps(w) \cup (IF h.what = w THEN {Len(hist) + 1} ELSE {})
        /\ \A w : Mcp!Steps(w) \subseteq 1 .. Len(hist)
        /\ hist' \in Seq(Happenings)
    BY <1>1, <1>2, <1>5, HistoryGrows
  <2>2. Mcp!Steps("drift")' = Mcp!Steps("drift")
    BY <1>5, <2>1
  <2> QED
    BY <2>1, <2>2 DEF Models, Drifts
<1>10. /\ Asked' = Asked /\ Told' = Told /\ Back' = {} /\ Back = {}
       /\ Before' = Before /\ After' = After /\ (Separated' <=> Separated)
  <2>1. Mcp!Controlled' = Mcp!Controlled
    BY <1>2 DEF Mcp!Controlled, Mcp!Tools
  <2>2. Asked' = Asked /\ Told' = Told
    BY <1>2, <2>1 DEF Asked, Told
  <2> QED
    BY <1>2, <1>7, <2>2 DEF Back, Before, After, Mcp!BuildServer, Mcp!Drifted, Separated
<1>11. BridgeTypes'
  BY <1>1, <1>2, <1>6, <1>9, <1>10 DEF BridgeTypes
<1>12. Stations'
  BY <1>1, <1>2, <1>3 DEF Stations, Mcp!Mark
<1>13. Changed'
  BY <1>1, <1>2, <1>7, <1>8, <1>9, <1>10 DEF Changed
<1>14. Holds'
  <2>1. /\ Begun' = {} /\ Begun = {} /\ kind' = kind /\ items' = items
        /\ rec'.calls = rec.calls /\ rec'.first = rec.first /\ rec'.second = rec.second
        /\ rec'.receipt = rec.receipt /\ Asked' = Asked /\ Told' = Told /\ (Separated' <=> Separated)
    BY <1>2, <1>6, <1>7, <1>10
  <2> QED
    BY <1>1, <2>1 DEF Holds, OneTold, TwoTold, SameCall
<1>15. ASSUME kind \in Mcp!DiscoveryFaults
       PROVE  Discovery'
  <2>1. Discovery
    BY <1>15 DEF Running, Story
  <2>2. kind \in {"stale", "identity", "schema"}
    BY <1>15, FaultsAreKnown
  <2>3. ASSUME rec.calls = 0
        PROVE  NotBegun' /\ Drifts' = {}
    <3>1. NotBegun /\ Drifts = {} /\ rec.initial = Before /\ cache = Before /\ shown = Before
      BY <1>2, <2>1, <2>3 DEF Discovery, NotBegun
    <3>2. ~Mcp!Has("refreshed")
      BY <1>4, <3>1, MarksHave DEF NotBegun
    <3>3. kind # "schema" => rec'.model = Before /\ rec'.later = rec.later
      BY <1>4, <1>6, <2>2, <3>1, <3>2 DEF NotBegun
    <3>4. kind = "schema" => rec' = rec
      BY <1>2 DEF Mcp!ObserveModel
    <3> QED
      BY <1>2, <1>4, <1>6, <1>9, <1>10, <3>1, <3>3, <3>4 DEF NotBegun
  <2>4. ASSUME Drifts # {}, rec.calls = 1, Asked # {}
        PROVE  OneCall'
    <3>1. OneCall
      BY <2>1, <2>4 DEF Discovery
    <3>2. Refreshed /\ Mcp!Has("refreshed")
      BY <1>2, <3>1, MarksHave DEF OneCall, Rested, Refreshed
    <3>3. CASE kind = "schema"
      <4>1. rec' = rec
        BY <1>2, <3>3 DEF Mcp!ObserveModel
      <4> QED
        BY <1>2, <1>10, <3>1, <3>2, <3>3, <4>1 DEF OneCall, Kept, Refreshed, Reported
    <3>4. CASE kind # "schema"
      <4>1. rec.model = Before /\ rec'.model = Before
        BY <1>4, <1>6, <2>2, <3>1, <3>4 DEF OneCall, Kept
      <4>2. rec'.later = After
        BY <1>4, <1>6, <2>2, <3>2, <3>4, <4>1 DEF Refreshed
      <4>3. Kept' /\ Refreshed' /\ rec'.cached = Before'
        BY <1>2, <1>6, <1>10, <3>1, <3>2, <3>4, <4>1, <4>2 DEF OneCall, Kept, Refreshed
      <4>4. ASSUME NEW k \in Told
            PROVE  items[k].tool = "old" /\ Reported(k)'
        <5>1. items[k].tool = "old" /\ Reported(k)
          BY <3>1 DEF OneCall
        <5>2. CASE kind = "stale" /\ rec.later # Mcp!NoListing
          <6>1. /\ rec'.told = rec.told
            BY <1>4, <1>6, <4>1, <5>2
          <6>2. PICK n \in Models : hist[n].listing = {} /\ \A s \in Serves : s < n
            BY <5>1, <5>2 DEF Reported
          <6>3. n \in Models' /\ hist'[n].listing = {} /\ \A s \in Serves' : s < n
            BY <1>7, <1>8, <1>9, <6>2
          <6> QED
            BY <1>2, <5>1, <5>2, <6>1, <6>3 DEF Reported
        <5>3. CASE kind = "stale" /\ rec.later = Mcp!NoListing
          <6>1. rec'.told = items[CHOOSE i \in Mcp!Outputs : TRUE] /\ shown = After
            BY <1>4, <1>6, <3>2, <4>1, <5>3 DEF Refreshed
          <6>2. Mcp!Cardinality(Mcp!Outputs) = 1
            BY <1>2, <1>4, <3>2, <4>1, <5>3 DEF Mcp!BoundaryRaises
          <6>3. Mcp!Outputs \subseteq 1 .. Len(items) /\ k \in Mcp!Outputs /\ Len(items) \in Nat
            BY <1>1, LenProperties DEF Mcp!Outputs, Told, BridgeTypes
          <6>4. IsFiniteSet(Mcp!Outputs) /\ Cardinality(Mcp!Outputs) = 1
            BY <6>2, <6>3, Positions, BridgeCardinality
          <6>5. PICK x : Mcp!Outputs = {x}
            BY <6>4, OneOrTwo
          <6>6. rec'.told = items[k]
            BY <6>1, <6>3, <6>5
          <6>7. m \in Models' /\ hist'[m].listing = {} /\ \A s \in Serves' : s < m
            BY <1>4, <1>5, <1>7, <1>8, <5>3, <6>1
          <6>8. items' = items /\ rec'.told.id = items[k].id /\ rec'.told.ans = items[k].ans
            BY <1>2, <6>6
          <6> QED
            BY <5>1, <6>7, <6>8 DEF Reported
        <5>4. CASE kind # "stale"
          BY <1>2, <5>1, <5>4 DEF Reported
        <5> QED
          BY <5>2, <5>3, <5>4
      <4> QED
        BY <1>2, <1>10, <4>3, <4>4 DEF OneCall
    <3> QED
      BY <3>3, <3>4
  <2>5. ASSUME Drifts # {}, rec.calls = 2, Separated, kind # "stale"
        PROVE  TwoCalls'
    <3>1. TwoCalls
      BY <2>1, <2>5 DEF Discovery
    <3>2. CASE kind = "schema"
      <4>1. rec' = rec
        BY <1>2, <3>2 DEF Mcp!ObserveModel
      <4> QED
        BY <1>2, <1>10, <3>1, <3>2, <4>1 DEF TwoCalls, Kept
    <3>3. CASE kind = "identity"
      <4>1. rec'.model = Before /\ rec'.later = After
        BY <1>4, <1>6, <3>1, <3>3 DEF TwoCalls, Kept
      <4> QED
        BY <1>2, <1>6, <1>10, <3>1, <3>3, <4>1 DEF TwoCalls, Kept
    <3> QED
      BY <2>2, <2>5, <3>2, <3>3
  <2> QED
    BY <1>2, <1>6, <1>7, <1>9, <1>10, <2>3, <2>4, <2>5 DEF Discovery
<1>16. ASSUME kind = "metadata"
       PROVE  Metadata'
  <2>1. Metadata /\ shown = Before /\ rec.receipt
    BY <1>2, <1>16 DEF Running, Story, Metadata
  <2>2. rec'.model = Before /\ rec'.receipt
    BY <1>4, <1>6, <1>16, <2>1 DEF Metadata
  <2>3. Models' # {} /\ rec'.model # Mcp!NoListing
    BY <1>4, <1>8, <2>2
  <2> QED
    BY <1>2, <1>4, <1>6, <1>10, <2>1, <2>2, <2>3 DEF Metadata
<1>17. Poisoned'
  BY <1>2 DEF Poisoned
<1>18. Worded'
  BY <1>1, <1>2, <1>7, <1>8, <1>10 DEF Worded
<1>19. Stepping'
  BY <1>2 DEF Stepping
<1> QED
  BY <1>2, <1>7, <1>11, <1>12, <1>13, <1>14, <1>15, <1>16, <1>17, <1>18, <1>19 DEF Running, Story

-----------------------------------------------------------------------------
(* The server answers                                                         *)

\* Whose calls the recorder has counted.
LEMMA CallsCount ==
  ASSUME Counted, Paired, Len(items) \in Nat, Len(inflight) \in Nat
  PROVE  /\ rec.calls \in Nat
         /\ rec.calls = 0 => Asked = {} /\ Begun = {}
         /\ rec.calls = 1 => \/ Asked = {} /\ \E j : Begun = {j}
                             \/ Begun = {} /\ \E i : Asked = {i}
         /\ rec.calls = 2 => \/ Asked = {}
                             \/ \E i, j : Asked = {i} /\ Begun = {j}
                             \/ Begun = {}
         /\ Asked = {} <=> Told = {}
         /\ \A i : Asked = {i} => ~Separated
         /\ Asked = {} => ~Separated
<1>1. /\ IsFiniteSet(Asked) /\ IsFiniteSet(Begun)
      /\ Cardinality(Asked) \in Nat /\ Cardinality(Begun) \in Nat
      /\ rec.calls = Cardinality(Asked) + Cardinality(Begun)
  <2>1. Asked \subseteq 1 .. Len(items) /\ Begun \subseteq 1 .. Len(inflight)
    BY DEF Asked, Begun
  <2> QED
    BY <2>1, Positions DEF Counted
<1>2. /\ Cardinality(Asked) = 0 <=> Asked = {}
      /\ Cardinality(Begun) = 0 <=> Begun = {}
      /\ Cardinality(Asked) = 1 <=> \E x : Asked = {x}
      /\ Cardinality(Begun) = 1 <=> \E x : Begun = {x}
  BY <1>1, OneOrTwo
<1>3. Asked = {} <=> Told = {}
  BY DEF Paired
<1>4. ASSUME NEW i, Asked = {i}
      PROVE  ~Separated
  <2>1. \A k \in Told : i < k
    BY <1>4 DEF Paired
  <2>2. i \in Nat /\ \A k \in Told : k \in Nat
    BY <1>4 DEF Asked, Told
  <2> QED
    BY <1>4, <2>1, <2>2 DEF Separated
<1>5. Asked = {} => ~Separated
  BY DEF Separated
<1>6. /\ rec.calls = 0 => Cardinality(Asked) = 0 /\ Cardinality(Begun) = 0
      /\ rec.calls = 1 => \/ Cardinality(Asked) = 0 /\ Cardinality(Begun) = 1
                          \/ Cardinality(Begun) = 0 /\ Cardinality(Asked) = 1
      /\ rec.calls = 2 => \/ Cardinality(Asked) = 0
                          \/ Cardinality(Asked) = 1 /\ Cardinality(Begun) = 1
                          \/ Cardinality(Begun) = 0
      /\ rec.calls \in Nat
  BY <1>1
<1> QED
  BY <1>2, <1>3, <1>4, <1>5, <1>6

\* What the server says to a call of a controlled tool, and what it may say before the change.
LEMMA ServeAnswers ==
  ASSUME BridgeTypes, Changed, NEW t \in Mcp!Controlled, NEW a \in Mcp!Arguments,
         Drifts = {} => t # "new"
  PROVE  /\ Mcp!Serve(t, a) \in Replies /\ Mcp!Serve(t, a).args = a
         /\ Drifts = {} => /\ Mcp!Serve(t, a).text \notin {"unknown_tool", "replacement"}
                           /\ ~(Mcp!Serve(t, a).text = "bad_arguments" /\ a = "first")
         /\ kind = "schema" => Mcp!Serve(t, a).text \notin {"unknown_tool", "tool_error"}
         /\ kind = "identity" => (Mcp!Serve(t, a).text = "replacement" => t = "new")
         /\ kind = "result" => Mcp!ServedBy(t, a) > 0
         /\ Mcp!ServedBy(t, a) \in Nat /\ (served > 0 => Mcp!ServedBy(t, a) > 0)
<1>1. /\ kind \in FaultKinds /\ served \in Nat
      /\ live = IF Drifts = {} THEN Before ELSE After
      /\ Drifts # {} => kind \in Mcp!DiscoveryFaults
  BY DEF BridgeTypes, Changed
<1>2. /\ kind \in {"metadata", "result", "error", "stale", "schema", "identity"}
      /\ Mcp!DiscoveryFaults = {"stale", "schema", "identity"}
      /\ Mcp!ContentFaults = {"metadata", "result", "error"}
  BY <1>1, FaultsAreKnown
<1>3. Mcp!Controlled = IF kind = "identity" THEN {"old", "new"} ELSE {"old"}
  BY DEF Mcp!Controlled, Mcp!Tools
<1>4. /\ Mcp!Names(Before) = {"old"} /\ Mcp!Names({}) = {}
      /\ kind = "stale" => After = {}
      /\ kind = "identity" => Mcp!Names(After) = {"new"}
      /\ kind = "schema" => Mcp!Names(After) = {"old"}
  BY <1>1, TwoCatalogues
<1>5. /\ Before = {[name |-> "old", shape |-> "v1",
                    note |-> IF kind = "metadata" THEN "poison" ELSE "benign"]}
      /\ kind = "schema" => After = {[name |-> "old", shape |-> "v2", note |-> "benign"]}
  BY <1>1, CataloguesOf DEF Before, After
<1> DEFINE sh == (CHOOSE x \in live : x.name = "old").shape
<1>6. live = Before => sh = "v1"
  BY <1>5, OldTool
<1>7. live = After /\ kind = "schema" => sh = "v2"
  BY <1>5, OldTool
<1>8. Mcp!Serve(t, a) =
        IF t \notin Mcp!Names(live) THEN [text |-> "unknown_tool", error |-> TRUE, args |-> a]
        ELSE IF t = "new" THEN [text |-> "replacement", error |-> FALSE, args |-> a]
        ELSE IF sh = "v2"
          THEN IF a = "second" THEN [text |-> "replacement", error |-> FALSE, args |-> a]
               ELSE [text |-> "bad_arguments", error |-> TRUE, args |-> a]
        ELSE IF kind = "schema" /\ a = "second" THEN [text |-> "bad_arguments", error |-> TRUE, args |-> a]
        ELSE IF kind = "result" /\ served = 0 THEN [text |-> "poison", error |-> FALSE, args |-> a]
        ELSE IF kind = "error" /\ served = 0 THEN [text |-> "tool_error", error |-> TRUE, args |-> a]
        ELSE [text |-> "benign", error |-> FALSE, args |-> a]
  BY <1>2 DEF Mcp!Serve, Mcp!Answer
<1> HIDE DEF sh
<1>9. PICK r : r = Mcp!Serve(t, a)
  OBVIOUS
<1>10. \/ live = Before /\ Drifts = {} /\ t = "old" /\ Mcp!Names(live) = {"old"} /\ sh = "v1"
       \/ live = Before /\ kind = "identity" /\ t = "new" /\ Mcp!Names(live) = {"old"}
       \/ live = After /\ Drifts # {} /\ kind = "stale" /\ Mcp!Names(live) = {}
       \/ live = After /\ Drifts # {} /\ kind = "identity" /\ Mcp!Names(live) = {"new"}
       \/ live = After /\ Drifts # {} /\ kind = "schema" /\ t = "old" /\ Mcp!Names(live) = {"old"} /\ sh = "v2"
  BY <1>1, <1>2, <1>3, <1>4, <1>6, <1>7
<1>11. /\ r.args = a /\ r.text \in Mcp!Texts /\ r.error \in BOOLEAN
       /\ r \in Mcp!Answers /\ (r.error <=> r.text \in Failures)
  BY <1>8, <1>9 DEF Mcp!Answers, Mcp!Texts, Failures
<1>12. Drifts = {} => /\ r.text \notin {"unknown_tool", "replacement"}
                      /\ ~(r.text = "bad_arguments" /\ a = "first")
  BY <1>8, <1>9, <1>10
<1>13. /\ kind = "schema" => r.text \notin {"unknown_tool", "tool_error"}
       /\ kind = "identity" => (r.text = "replacement" => t = "new")
  <2>1. CASE kind = "schema"
    <3>1. t \in Mcp!Names(live) /\ t = "old"
      BY <1>10, <2>1
    <3> QED
      BY <1>8, <1>9, <2>1, <3>1
  <2>2. CASE kind = "identity"
    <3>1. CASE t = "new"
      BY <2>2, <3>1
    <3>2. CASE t = "old" /\ sh = "v1" /\ live = Before
      BY <1>8, <1>9, <2>2, <3>2
    <3>3. CASE t = "old" /\ live = After /\ Mcp!Names(live) = {"new"}
      <4>1. t \notin Mcp!Names(live)
        BY <3>3
      <4> QED
        BY <1>8, <1>9, <2>2, <4>1
    <3> QED
      BY <1>3, <1>10, <2>2, <3>1, <3>2, <3>3
  <2> QED
    BY <2>1, <2>2
<1>14. Mcp!ServedBy(t, a) = IF r.text \in {"unknown_tool", "bad_arguments"} THEN served ELSE served + 1
  BY <1>9 DEF Mcp!ServedBy
<1>15. kind = "result" => r.text \notin {"unknown_tool", "bad_arguments"}
  <2> HAVE kind = "result"
  <2>1. Drifts = {} /\ t = "old" /\ sh = "v1" /\ t \in Mcp!Names(live)
    BY <1>1, <1>2, <1>10
  <2> QED
    BY <1>8, <1>9, <2>1
<1>16. /\ kind = "result" => Mcp!ServedBy(t, a) > 0
       /\ Mcp!ServedBy(t, a) \in Nat /\ (served > 0 => Mcp!ServedBy(t, a) > 0)
  BY <1>1, <1>14, <1>15
<1> QED
  BY <1>9, <1>11, <1>12, <1>13, <1>16 DEF Replies

\* What a step of one call leaves of the finished turns.
LEMMA TurnsStay ==
  ASSUME kind' = kind, items' = items
  PROVE  /\ Mcp!Controlled' = Mcp!Controlled /\ Asked' = Asked /\ Told' = Told
         /\ Before' = Before /\ After' = After /\ (Separated' <=> Separated)
<1>1. Mcp!Controlled' = Mcp!Controlled
  BY DEF Mcp!Controlled, Mcp!Tools
<1>2. Asked' = Asked /\ Told' = Told
  BY <1>1 DEF Asked, Told
<1> QED
  BY <1>1, <1>2 DEF Separated, Before, After, Mcp!BuildServer, Mcp!Drifted

\* A call under way is one of a controlled tool.
LEMMA UnderWay ==
  ASSUME BridgeTypes, Stepping, NEW i \in 1 .. Len(inflight), inflight[i].op \notin {"begin", "done"}
  PROVE  /\ i \in Begun /\ inflight[i] \in BridgeCalls /\ inflight[i].tool \in Mcp!Controlled
         /\ inflight[i].ans = Mcp!NoAnswer => i \notin Back
<1>1. inflight[i] \in BridgeCalls
  BY DEF BridgeTypes
<1>2. inflight[i].tool \in Mcp!Controlled /\ i \in Begun
  BY DEF Stepping, Begun
<1> QED
  BY <1>1, <1>2 DEF Back

\* What a step that ends no call leaves of the recorder's answers.
LEMMA HoldsStay ==
  ASSUME Holds, kind' = kind, items' = items, Begun' = Begun, Asked' = Asked, Told' = Told,
         Separated' <=> Separated,
         rec'.calls = rec.calls, rec'.first = rec.first, rec'.second = rec.second,
         rec'.receipt = rec.receipt,
         \A j \in Begun : /\ inflight'[j].op = inflight[j].op
                          /\ inflight[j].op = "done" => inflight'[j].ans = inflight[j].ans
  PROVE  Holds'
BY DEF Holds, OneTold, TwoTold, SameCall

\* The control tool answers, and if it works the server changes.
LEMMA ControlAnswers ==
  ASSUME Running, NEW i \in 1 .. Len(inflight), Mcp!ServeCall(i), inflight[i].op = "control"
  PROVE  Running'
<1>1. /\ BridgeTypes /\ Stations /\ Stepping /\ Ledger /\ Changed /\ Holds /\ Worded
      /\ kind \in FaultKinds /\ control \in Mcp!Controls /\ DOMAIN rec = Fields
      /\ hist \in Seq(Happenings) /\ inflight \in Seq(BridgeCalls) /\ items \in Seq(BridgeItems)
      /\ Len(items) \in Nat /\ Len(inflight) \in Nat
  BY LenProperties DEF Running, Story, BridgeTypes
<1>2. PICK c \in BridgeCalls :
        /\ c.ans = Mcp!Answer("benign", control = "refuses", inflight[i].args)
        /\ SameCall(c, inflight[i]) /\ c.op = "control" /\ c.ans # Mcp!NoAnswer
        /\ inflight' = [inflight EXCEPT ![i] = c]
        /\ c.ans.error = (control = "refuses")
  <2> DEFINE a == Mcp!Answer("benign", control = "refuses", inflight[i].args)
             c == [inflight[i] EXCEPT !.ans = a]
  <2>1. inflight[i] \in BridgeCalls
    BY <1>1, ElementOfSeq
  <2>2. a \in Mcp!Answers /\ a # Mcp!NoAnswer /\ a.error = (control = "refuses")
    BY <2>1 DEF Mcp!Answer, Mcp!Answers, Mcp!Texts, BridgeCalls, Mcp!NoAnswer
  <2>3. inflight' = [inflight EXCEPT ![i] = c]
    BY DEF Mcp!ServeCall
  <2> HIDE DEF a
  <2>4. c \in BridgeCalls /\ SameCall(c, inflight[i]) /\ c.op = "control" /\ c.ans = a
    BY <2>1, <2>2 DEF BridgeCalls, SameCall
  <2> QED
    BY <2>2, <2>3, <2>4 DEF a
<1>3. /\ pc = "agent_calls" /\ pc' = pc /\ kind' = kind /\ cache' = cache /\ control' = control
      /\ shown' = shown /\ items' = items /\ rec' = rec /\ outcome' = outcome /\ evidence' = evidence
      /\ served' = served /\ inflight[i].ans = Mcp!NoAnswer
      /\ live' = IF control = "works" THEN After ELSE live
      /\ hist' = Append(hist, [what |-> IF control = "works" THEN "drift" ELSE "idle",
                               listing |-> live, id |-> 0, ans |-> Mcp!NoAnswer])
  BY DEF Mcp!ServeCall, Mcp!Happened, After
<1>4. /\ Asked' = Asked /\ Told' = Told /\ Mcp!Controlled' = Mcp!Controlled
      /\ Before' = Before /\ After' = After /\ (Separated' <=> Separated)
  BY <1>3, TurnsStay
<1>5. live \in SUBSET Mcp!Adverts
  BY <1>1, TwoCatalogues DEF Changed
<1>6. PICK h \in Happenings : /\ h = [what |-> IF control = "works" THEN "drift" ELSE "idle",
                                      listing |-> live, id |-> 0, ans |-> Mcp!NoAnswer]
                              /\ h.what = IF control = "works" THEN "drift" ELSE "idle"
  <2> DEFINE e == [what |-> IF control = "works" THEN "drift" ELSE "idle",
                   listing |-> live, id |-> 0, ans |-> Mcp!NoAnswer]
  <2>1. e \in Happenings
    BY <1>5 DEF Happenings
  <2>2. e.what = IF control = "works" THEN "drift" ELSE "idle"
    OBVIOUS
  <2> QED
    BY <2>1, <2>2
<1>7. PICK n \in Nat : n = Len(hist) + 1
  BY <1>1, LenProperties
<1>8. /\ hist' \in Seq(Happenings) /\ Serves' = Serves /\ Models' = Models
      /\ Drifts' = Drifts \cup (IF control = "works" THEN {n} ELSE {})
      /\ \A m \in Serves \cup Models \cup Drifts : hist'[m] = hist[m]
  <2>1. /\ \A m \in 1 .. Len(hist) : hist'[m] = hist[m]
        /\ \A w : Mcp!Steps(w)' = Mcp!Steps(w) \cup (IF h.what = w THEN {Len(hist) + 1} ELSE {})
        /\ \A w : Mcp!Steps(w) \subseteq 1 .. Len(hist)
        /\ hist' \in Seq(Happenings)
    BY <1>1, <1>3, <1>6, HistoryGrows
  <2>2. /\ Mcp!Steps("serve")' = Mcp!Steps("serve") /\ Mcp!Steps("model")' = Mcp!Steps("model")
        /\ Mcp!Steps("drift")' = Mcp!Steps("drift") \cup (IF control = "works" THEN {n} ELSE {})
    BY <1>6, <1>7, <2>1
  <2> QED
    BY <2>1, <2>2 DEF Serves, Models, Drifts
<1>9. /\ i \in Begun /\ i \notin Back /\ inflight[i].tool \in Mcp!Controlled
  BY <1>1, <1>3, UnderWay
<1>10. /\ inflight' \in Seq(BridgeCalls) /\ Len(inflight') = Len(inflight) /\ inflight'[i] = c
       /\ \A j \in 1 .. Len(inflight) : j # i => inflight'[j] = inflight[j]
       /\ Begun \subseteq 1 .. Len(inflight) /\ Back \subseteq Begun
       /\ Back' = Back
  <2>1. /\ inflight' \in Seq(BridgeCalls) /\ Len(inflight') = Len(inflight) /\ inflight'[i] = c
        /\ \A j \in 1 .. Len(inflight) : j # i => inflight'[j] = inflight[j]
        /\ Begun \subseteq 1 .. Len(inflight) /\ Back \subseteq Begun
        /\ Back' = (Back \ {i}) \cup
                    IF /\ c.tool \in Mcp!Controlled /\ c.op # "begin"
                       /\ c.op = "done" \/ (c.op # "control" /\ c.ans # Mcp!NoAnswer)
                    THEN {i} ELSE {}
    BY <1>1, <1>2, <1>3, CallMoves
  <2> QED
    BY <1>2, <1>9, <2>1
<1>11. Ledger' /\ Begun' = Begun
  <2>1. /\ i \in Begun => c.op # "begin"
        /\ rec'.calls = IF c.tool \in Mcp!Controlled /\ c.op # "begin" /\ i \notin Begun
                        THEN rec.calls + 1 ELSE rec.calls
        /\ i \in Back' <=> i \in Back
        /\ i \in Back => c.ans = inflight[i].ans
        /\ \A s \in Serves : hist'[s] = hist[s]
    BY <1>2, <1>3, <1>8, <1>9, <1>10
  <2>2. /\ Ledger'
        /\ Begun' = IF c.tool \in Mcp!Controlled /\ c.op # "begin" THEN Begun \cup {i} ELSE Begun
    BY <1>1, <1>2, <1>3, <1>8, <2>1, LedgerMoves
  <2> QED
    BY <1>9, <2>2
<1>12. \A j \in 1 .. Len(inflight) :
         /\ inflight'[j].tool = inflight[j].tool /\ inflight'[j].op = inflight[j].op
         /\ j # i => inflight'[j] = inflight[j]
  BY <1>2, <1>10 DEF SameCall
<1>13. BridgeTypes'
  BY <1>1, <1>3, <1>4, <1>8, <1>10 DEF BridgeTypes
<1>14. Stations'
  BY <1>1, <1>3 DEF Stations
<1>15. Stepping'
  BY <1>1, <1>3, <1>4, <1>10, <1>12 DEF Stepping
<1>16. Changed'
  <2>1. \A s \in Serves : hist'[s] = hist[s]
    BY <1>8
  <2>2. kind' \in Mcp!DiscoveryFaults
    BY <1>1, <1>3 DEF Stepping
  <2>3. live' = IF Drifts' = {} THEN Before' ELSE After'
    BY <1>1, <1>3, <1>4, <1>8 DEF Changed
  <2>4. Drifts' = {} => /\ cache' \in {Mcp!NoListing, Before'} /\ shown' \in {{}, Before'}
                        /\ \A j \in 1 .. Len(inflight') : inflight'[j].tool # "new"
    BY <1>1, <1>3, <1>4, <1>8, <1>10, <1>12 DEF Changed
  <2>5. \A s \in Serves' : (\E d \in Drifts' : d < s) \/
          /\ hist'[s].ans.text \notin {"unknown_tool", "replacement"}
          /\ ~(hist'[s].ans.text = "bad_arguments" /\ hist'[s].ans.args = "first")
    BY <1>1, <1>8, <2>1 DEF Changed
  <2>6. kind' = "result" /\ Serves' # {} => served' > 0
    BY <1>1, <1>3, <1>8 DEF Changed
  <2> QED
    BY <2>2, <2>3, <2>4, <2>5, <2>6 DEF Changed
<1>17. \A j \in Begun : inflight'[j].op = "done" => inflight[j].op = "done" /\ inflight'[j].ans = inflight[j].ans
  BY <1>2, <1>10, <1>12
<1>18. Holds'
  <2>1. \A j \in Begun : /\ inflight'[j].op = inflight[j].op
                         /\ inflight[j].op = "done" => inflight'[j].ans = inflight[j].ans
    BY <1>10, <1>12, <1>17
  <2> QED
    BY <1>1, <1>3, <1>4, <1>11, <2>1, HoldsStay
<1>19. Worded'
  BY <1>1, <1>3, <1>4, <1>8, <1>9, <1>10, <1>12 DEF Worded
<1>20. kind \in Mcp!DiscoveryFaults => Discovery'
  <2> HAVE kind \in Mcp!DiscoveryFaults
  <2>1. Discovery /\ Counted /\ Paired
    BY <1>1 DEF Running, Story, Ledger
  <2>2. /\ rec.calls # 0
        /\ rec.calls = 1 => Begun = {i} /\ Asked = {}
        /\ rec.calls = 2 => Asked = {} /\ ~Separated
    <3>1. /\ rec.calls = 0 => Begun = {}
          /\ rec.calls = 1 => \/ Asked = {} /\ \E j : Begun = {j}
                              \/ Begun = {} /\ \E j : Asked = {j}
          /\ Asked = {} => ~Separated
      BY <1>1, <2>1, CallsCount
    <3>2. rec.calls = 2 => Asked = {}
      BY <1>9, <2>1 DEF Discovery
    <3> QED
      BY <1>9, <3>1, <3>2
  <2>3. ASSUME rec.calls = 1, Drifts' # {}
        PROVE  FirstCall(i)'
    <3>1. Begun = {i}
      BY <2>2, <2>3
    <3>2. Waiting(i)
      BY <1>3 DEF Waiting
    <3>3. /\ NotBegun /\ Drifts = {} /\ inflight[i].tool = "old"
          /\ kind = "identity" => rec.tool1 = "old"
      BY <1>9, <2>1, <2>3, <3>2 DEF Discovery
    <3>4. control = "works" /\ ~c.ans.error
      BY <1>2, <1>8, <2>3, <3>3
    <3>5. Before # Mcp!NoListing
      BY <1>1, TwoCatalogues
    <3>6. /\ ~rec.failed /\ ~rec.early /\ rec.initial = Before /\ rec.marks = Marks1
          /\ kind # "schema" => rec.model = Before
          /\ rec.refreshed = Mcp!NoListing /\ rec.later = Mcp!NoListing /\ cache = Before
      BY <1>3, <3>3, <3>5 DEF NotBegun
    <3> QED
      BY <1>2, <1>3, <1>4, <1>10, <3>3, <3>4, <3>6 DEF FirstCall, Kept, SameCall
  <2>4. ~Waiting(i)'
    BY <1>2, <1>10 DEF Waiting, Mcp!NoAnswer
  <2> QED
    BY <1>3, <1>4, <1>11, <2>2, <2>3, <2>4 DEF Discovery
<1>21. kind = "metadata" => Metadata'
  <2> HAVE kind = "metadata"
  <2>1. Metadata
    BY DEF Running, Story
  <2> QED
    BY <1>3, <1>4, <1>8, <2>1 DEF Metadata, Mcp!Ended
<1>22. Poisoned'
  BY <1>3 DEF Poisoned
<1> QED
  BY <1>3, <1>11, <1>13, <1>14, <1>15, <1>16, <1>18, <1>19, <1>20, <1>21, <1>22 DEF Running, Story

\* The server answers a call of a controlled tool.
LEMMA ServerAnswers ==
  ASSUME Running, NEW i \in 1 .. Len(inflight), Mcp!ServeCall(i), inflight[i].op # "control"
  PROVE  Running'
<1>1. /\ BridgeTypes /\ Stations /\ Stepping /\ Ledger /\ Changed /\ Holds /\ Worded
      /\ kind \in FaultKinds /\ DOMAIN rec = Fields
      /\ hist \in Seq(Happenings) /\ inflight \in Seq(BridgeCalls) /\ items \in Seq(BridgeItems)
      /\ Len(items) \in Nat /\ Len(inflight) \in Nat
  BY LenProperties DEF Running, Story, BridgeTypes
<1>2. /\ pc = "agent_calls" /\ pc' = pc /\ kind' = kind /\ cache' = cache /\ control' = control
      /\ shown' = shown /\ items' = items /\ rec' = rec /\ outcome' = outcome /\ evidence' = evidence
      /\ inflight[i].op \notin {"begin", "done"} /\ inflight[i].ans = Mcp!NoAnswer /\ live' = live
      /\ served' = Mcp!ServedBy(inflight[i].tool, inflight[i].args)
      /\ hist' = Append(hist, [what |-> "serve", listing |-> live, id |-> inflight[i].id,
                               ans |-> Mcp!Serve(inflight[i].tool, inflight[i].args)])
      /\ inflight' = [inflight EXCEPT ![i].ans = Mcp!Serve(inflight[i].tool, inflight[i].args)]
  BY DEF Mcp!ServeCall, Mcp!Happened
<1>3. /\ i \in Begun /\ i \notin Back /\ inflight[i].tool \in Mcp!Controlled
      /\ inflight[i] \in BridgeCalls
  BY <1>1, <1>2, UnderWay
<1>4. PICK a \in Replies :
        /\ a = Mcp!Serve(inflight[i].tool, inflight[i].args) /\ a.args = inflight[i].args
        /\ Drifts = {} => /\ a.text \notin {"unknown_tool", "replacement"}
                          /\ ~(a.text = "bad_arguments" /\ a.args = "first")
        /\ kind = "schema" => a.text \notin {"unknown_tool", "tool_error"}
        /\ kind = "identity" => (a.text = "replacement" => inflight[i].tool = "new")
        /\ kind = "result" => served' > 0
        /\ served' \in Nat /\ (served > 0 => served' > 0)
  <2>1. inflight[i].args \in Mcp!Arguments
    BY <1>3 DEF BridgeCalls
  <2>2. Drifts = {} => inflight[i].tool # "new"
    BY <1>1 DEF Changed
  <2> QED
    BY <1>1, <1>2, <1>3, <2>1, <2>2, ServeAnswers
<1>5. a \in Mcp!Answers /\ a # Mcp!NoAnswer
  BY DEF Replies, Mcp!Answers, Mcp!Texts, Mcp!NoAnswer
<1>6. PICK c \in BridgeCalls :
        /\ c.ans = a /\ SameCall(c, inflight[i]) /\ c.op = inflight[i].op
        /\ inflight' = [inflight EXCEPT ![i] = c]
  <2> DEFINE c == [inflight[i] EXCEPT !.ans = a]
  <2>1. inflight' = [inflight EXCEPT ![i] = c]
    BY <1>2, <1>4
  <2>2. c \in BridgeCalls /\ SameCall(c, inflight[i]) /\ c.op = inflight[i].op /\ c.ans = a
    BY <1>3, <1>5 DEF BridgeCalls, SameCall
  <2> QED
    BY <2>1, <2>2
<1>7. /\ Asked' = Asked /\ Told' = Told /\ Mcp!Controlled' = Mcp!Controlled
      /\ Before' = Before /\ After' = After /\ (Separated' <=> Separated)
  BY <1>2, TurnsStay
<1>8. PICK h \in Happenings : /\ hist' = Append(hist, h) /\ h.what = "serve" /\ h.id = c.id
                              /\ h.ans = a
  <2> DEFINE e == [what |-> "serve", listing |-> live, id |-> inflight[i].id, ans |-> a]
  <2>1. live \in SUBSET Mcp!Adverts /\ inflight[i].id \in Nat
    BY <1>1, <1>3, TwoCatalogues DEF Changed, BridgeCalls
  <2>2. e \in Happenings
    BY <1>5, <2>1 DEF Happenings
  <2>3. e.what = "serve" /\ e.id = c.id /\ e.ans = a
    BY <1>6 DEF SameCall
  <2>4. hist' = Append(hist, e)
    BY <1>2, <1>4
  <2> QED
    BY <2>2, <2>3, <2>4
<1>9. /\ inflight' \in Seq(BridgeCalls) /\ Len(inflight') = Len(inflight) /\ inflight'[i] = c
      /\ \A j \in 1 .. Len(inflight) : j # i => inflight'[j] = inflight[j]
      /\ Begun \subseteq 1 .. Len(inflight) /\ Back \subseteq Begun
  BY <1>1, <1>2, <1>6, CallMoves
<1>10. /\ Ledger' /\ Back' = Back \cup {i} /\ Begun' = Begun /\ Models' = Models
       /\ \E n \in Nat : /\ n = Len(hist) + 1 /\ Serves' = Serves \cup {n} /\ hist'[n] = h
                         /\ n \notin Serves
       /\ \A n \in 1 .. Len(hist) : hist'[n] = hist[n]
       /\ Serves \subseteq 1 .. Len(hist) /\ Models \subseteq 1 .. Len(hist)
  <2>1. c.op # "control" /\ c.ans \in Replies /\ c.ans.args = c.args /\ h.ans = c.ans
        /\ rec'.calls = rec.calls
    BY <1>2, <1>4, <1>6, <1>8 DEF SameCall
  <2> QED
    BY <1>1, <1>2, <1>3, <1>6, <1>8, <2>1, LedgerServes
<1>11. PICK n \in Nat : n = Len(hist) + 1 /\ Serves' = Serves \cup {n} /\ hist'[n] = h
  BY <1>10
<1>12. /\ hist' \in Seq(Happenings) /\ Drifts' = Drifts /\ Drifts \subseteq 1 .. Len(hist)
       /\ Len(hist) \in Nat
  <2>1. /\ \A w : Mcp!Steps(w)' = Mcp!Steps(w) \cup (IF h.what = w THEN {Len(hist) + 1} ELSE {})
        /\ \A w : Mcp!Steps(w) \subseteq 1 .. Len(hist)
        /\ hist' \in Seq(Happenings)
        /\ Len(hist) \in Nat
    BY <1>1, <1>8, HistoryGrows
  <2>2. Mcp!Steps("drift")' = Mcp!Steps("drift")
    BY <1>8, <2>1
  <2> QED
    BY <2>1, <2>2 DEF Drifts
<1>13. \A j \in 1 .. Len(inflight) :
         /\ inflight'[j].tool = inflight[j].tool /\ inflight'[j].op = inflight[j].op
         /\ j # i => inflight'[j] = inflight[j]
  BY <1>6, <1>9 DEF SameCall
<1>14. BridgeTypes'
  BY <1>1, <1>2, <1>4, <1>7, <1>9, <1>12 DEF BridgeTypes
<1>15. Stations'
  BY <1>1, <1>2 DEF Stations
<1>16. Stepping'
  BY <1>1, <1>2, <1>7, <1>9, <1>13 DEF Stepping
<1>17. Changed'
  <2>1. live' = IF Drifts' = {} THEN Before' ELSE After'
    BY <1>1, <1>2, <1>7, <1>12 DEF Changed
  <2>2. Drifts' # {} => kind' \in Mcp!DiscoveryFaults
    BY <1>1, <1>2, <1>12 DEF Changed
  <2>3. Drifts' = {} => /\ cache' \in {Mcp!NoListing, Before'} /\ shown' \in {{}, Before'}
                        /\ \A j \in 1 .. Len(inflight') : inflight'[j].tool # "new"
    BY <1>1, <1>2, <1>7, <1>9, <1>12, <1>13 DEF Changed
  <2>4. ASSUME NEW s \in Serves'
        PROVE  (\E d \in Drifts' : d < s) \/
                  /\ hist'[s].ans.text \notin {"unknown_tool", "replacement"}
                  /\ ~(hist'[s].ans.text = "bad_arguments" /\ hist'[s].ans.args = "first")
    <3>1. CASE s \in Serves
      <4>1. hist'[s] = hist[s]
        BY <1>10, <3>1
      <4> QED
        BY <1>1, <1>12, <3>1, <4>1 DEF Changed
    <3>2. CASE s = n /\ Drifts = {}
      BY <1>4, <1>8, <1>11, <3>2
    <3>3. CASE s = n /\ Drifts # {}
      <4>1. PICK d \in Drifts : d < n
        <5>1. PICK d \in Drifts : d \in 1 .. Len(hist)
          BY <1>12, <3>3
        <5>2. d < n
          BY <1>11, <1>12, <5>1
        <5> QED
          BY <5>2
      <4> QED
        BY <1>12, <3>3, <4>1
    <3> QED
      BY <1>11, <3>1, <3>2, <3>3
  <2>5. kind' = "result" /\ Serves' # {} => served' > 0
    BY <1>2, <1>4
  <2> QED
    BY <2>1, <2>2, <2>3, <2>4, <2>5 DEF Changed
<1>18. Holds'
  <2>1. \A j \in Begun : /\ inflight'[j].op = inflight[j].op
                         /\ inflight[j].op = "done" => inflight'[j].ans = inflight[j].ans
    BY <1>2, <1>9, <1>13
  <2> QED
    BY <1>1, <1>2, <1>7, <1>10, <2>1, HoldsStay
<1>19. Worded'
  <2>1. kind' = "schema" => \A s \in Serves' : hist'[s].ans.text \notin {"unknown_tool", "tool_error"}
    <3> HAVE kind' = "schema"
    <3>1. \A s \in Serves : hist'[s] = hist[s]
      BY <1>10
    <3> QED
      BY <1>1, <1>2, <1>4, <1>8, <1>11, <3>1 DEF Worded
  <2>2. kind' = "identity" =>
          /\ \A k \in Told' : items'[k].ans.text = "replacement" => items'[k].tool = "new"
          /\ \A j \in Back' : inflight'[j].ans.text = "replacement" => inflight'[j].tool = "new"
    <3> HAVE kind' = "identity"
    <3>1. \A j \in Back : j # i => inflight'[j] = inflight[j]
      BY <1>9
    <3>2. inflight'[i].ans = a /\ inflight'[i].tool = inflight[i].tool
      BY <1>6, <1>9, <1>13
    <3> QED
      BY <1>1, <1>2, <1>4, <1>7, <1>10, <3>1, <3>2 DEF Worded
  <2> QED
    BY <2>1, <2>2 DEF Worded
<1>20. kind \in Mcp!DiscoveryFaults => Discovery'
  <2> HAVE kind \in Mcp!DiscoveryFaults
  <2>1. Discovery
    BY DEF Running, Story
  <2>2. \A j \in Begun : j # i => inflight'[j] = inflight[j]
    BY <1>9
  <2>3. ~Waiting(i)' /\ c.op # "control"
    BY <1>2, <1>6, <1>9 DEF Waiting
  <2>4. \A j \in Begun : Waiting(j)' => Waiting(j) /\ inflight'[j] = inflight[j]
    BY <2>2, <2>3 DEF Waiting
  <2>5. rec.calls = 0 => NotBegun' /\ Drifts' = {}
    BY <1>2, <1>7, <1>12, <2>1 DEF Discovery, NotBegun
  <2>6. ASSUME rec.calls = 1, NEW j \in Begun, Waiting(j)'
        PROVE  /\ NotBegun' /\ Drifts' = {} /\ inflight'[j].tool = "old"
               /\ kind = "identity" => rec.tool1 = "old"
    BY <1>2, <1>7, <1>12, <2>1, <2>4, <2>6 DEF Discovery, NotBegun
  <2>7. rec.calls = 2 /\ Asked # {} => \A j \in Begun : inflight'[j].op \in {"recovery", "plain", "done"}
    BY <1>9, <1>13, <2>1 DEF Discovery
  <2>8. ASSUME Drifts # {}, rec.calls = 1, NEW j \in Begun
        PROVE  FirstCall(j)'
    <3>1. FirstCall(j)
      BY <2>1, <2>8 DEF Discovery
    <3>2. inflight'[j].tool = inflight[j].tool /\ inflight'[j].op = inflight[j].op
          /\ (inflight[j].op = "control" => inflight'[j] = inflight[j])
      BY <1>6, <1>9, <1>13, <2>3
    <3> QED
      BY <1>2, <1>7, <3>1, <3>2 DEF FirstCall, Kept
  <2>9. Drifts # {} /\ rec.calls = 1 /\ Asked # {} => OneCall'
    <3> HAVE Drifts # {} /\ rec.calls = 1 /\ Asked # {}
    <3>1. Counted /\ Paired
      BY <1>1 DEF Ledger
    <3>2. Begun = {}
      BY <1>1, <3>1, CallsCount
    <3> QED
      BY <1>3, <3>2
  <2>10. ASSUME Drifts # {}, rec.calls = 2, Asked # {}, kind # "stale", NEW j \in Begun
         PROVE  SecondCall(j)'
    <3>1. SecondCall(j)
      BY <2>1, <2>10 DEF Discovery
    <3>2. inflight'[j].tool = inflight[j].tool /\ inflight'[j].op = inflight[j].op
      BY <1>9, <1>13
    <3> QED
      BY <1>2, <1>7, <3>1, <3>2 DEF SecondCall, Kept
  <2>11. Drifts # {} /\ rec.calls = 2 /\ Separated /\ kind # "stale" => TwoCalls'
    BY <1>2, <1>7, <2>1 DEF Discovery, TwoCalls, Kept
  <2> QED
    BY <1>2, <1>7, <1>10, <1>12, <2>5, <2>6, <2>7, <2>8, <2>9, <2>10, <2>11 DEF Discovery
<1>21. kind = "metadata" => Metadata'
  <2> HAVE kind = "metadata"
  <2>1. Metadata
    BY DEF Running, Story
  <2> QED
    BY <1>2, <1>7, <1>10, <2>1 DEF Metadata, Mcp!Ended
<1>22. Poisoned'
  BY <1>2 DEF Poisoned
<1> QED
  BY <1>2, <1>10, <1>14, <1>15, <1>16, <1>17, <1>18, <1>19, <1>20, <1>21, <1>22 DEF Running, Story

\* So each answer, of the control tool or of the server, leaves a run that keeps all.
LEMMA ServeStep ==
  ASSUME Running, NEW i \in 1 .. Len(inflight), Mcp!ServeCall(i)
  PROVE  Running'
BY ControlAnswers, ServerAnswers

-----------------------------------------------------------------------------
(* A call of the recorder runs on                                             *)

\* The call that takes the place of the i-th.
Goes(i, c) == SameCall(c, inflight[i]) /\ inflight' = [inflight EXCEPT ![i] = c]

\* A call that waits again,
LEMMA Awaits ==
  ASSUME inflight \in Seq(BridgeCalls), NEW i \in 1 .. Len(inflight), NEW op \in Ops, Mcp!Await(i, op)
  PROVE  \E c \in BridgeCalls : Goes(i, c) /\ c.op = op /\ c.ans = Mcp!NoAnswer
<1> DEFINE c == [inflight[i] EXCEPT !.op = op, !.ans = Mcp!NoAnswer]
<1>1. inflight[i] \in BridgeCalls /\ i \in DOMAIN inflight
  BY ElementOfSeq, LenProperties
<1>2. c \in BridgeCalls /\ SameCall(c, inflight[i]) /\ c.op = op /\ c.ans = Mcp!NoAnswer
  BY <1>1 DEF BridgeCalls, SameCall
<1>3. inflight' = [inflight EXCEPT ![i] = c]
  BY <1>1 DEF Mcp!Await
<1> QED
  BY <1>2, <1>3 DEF Goes
\* and one that returns.
LEMMA Returns ==
  ASSUME inflight \in Seq(BridgeCalls), NEW i \in 1 .. Len(inflight), Mcp!Return(i)
  PROVE  \E c \in BridgeCalls : Goes(i, c) /\ c.op = "done" /\ c.ans = inflight[i].ans
<1> DEFINE c == [inflight[i] EXCEPT !.op = "done"]
<1>1. inflight[i] \in BridgeCalls /\ i \in DOMAIN inflight
  BY ElementOfSeq, LenProperties
<1>2. c \in BridgeCalls /\ SameCall(c, inflight[i]) /\ c.op = "done" /\ c.ans = inflight[i].ans
  BY <1>1 DEF BridgeCalls, SameCall, Ops
<1>3. inflight' = [inflight EXCEPT ![i] = c]
  BY <1>1 DEF Mcp!Return
<1> QED
  BY <1>2, <1>3 DEF Goes

\* A stretch of a call leaves the story's listings alone.
SameStory ==
  /\ DOMAIN rec' = Fields
  /\ rec'.initial = rec.initial /\ rec'.refreshed = rec.refreshed /\ rec'.model = rec.model
  /\ rec'.later = rec.later /\ rec'.told = rec.told
\* The six stretches of a call: a local tool answers at once,
AnswersAlone(i, c) ==
  /\ inflight[i].op = "begin" /\ inflight[i].tool \notin Mcp!Controlled
  /\ c.op = "done" /\ rec' = rec /\ cache' = cache
\* a controlled call begins,
Begins(i, c) ==
  /\ inflight[i].op = "begin" /\ inflight[i].tool \in Mcp!Controlled
  /\ c.ans = Mcp!NoAnswer /\ cache' = cache
  /\ SameStory /\ rec'.calls = rec.calls + 1 /\ rec'.failed = rec.failed
  /\ rec'.cached = rec.cached /\ rec'.marks = rec.marks
  /\ rec'.first = rec.first /\ rec'.second = rec.second /\ rec'.receipt = rec.receipt
  /\ ~rec.early /\ (rec.calls # 1 \/ Mcp!Has("refreshed")) => ~rec'.early
  /\ kind = "identity" => /\ rec'.tool1 = IF rec.calls = 0 THEN c.tool ELSE rec.tool1
                          /\ rec'.tool2 = IF rec.calls = 1 THEN c.tool ELSE rec.tool2
  /\ kind \in Mcp!ContentFaults => c.op = "plain"
  /\ kind \in Mcp!DiscoveryFaults =>
       c.op = IF rec.calls = 0 THEN IF kind = "identity" /\ c.tool # "old" THEN "plain" ELSE "control"
              ELSE IF rec.calls = 1 /\ kind # "stale" THEN "recovery" ELSE "plain"
\* the control tool has answered,
GoesStale(i, c) ==
  /\ Mcp!Answered(i, "control") /\ c.op = "stale" /\ c.ans = Mcp!NoAnswer
  /\ SameStory /\ rec'.calls = rec.calls /\ rec'.early = rec.early
  /\ rec'.tool1 = rec.tool1 /\ rec'.tool2 = rec.tool2
  /\ rec'.first = rec.first /\ rec'.second = rec.second /\ rec'.receipt = rec.receipt
  /\ cache' \in {cache, Mcp!Listed}
  /\ ~inflight[i].ans.error =>
       /\ ~rec.failed => ~rec'.failed
       /\ rec'.cached = Mcp!Target(Mcp!Listed) /\ rec'.marks = rec.marks \o <<"swap", "cached">>
       /\ cache' = Mcp!Listed
\* the first call returns, the second, and any other.
ReturnsFirst(i, c) ==
  /\ Mcp!Answered(i, "stale") /\ c.op = "done" /\ c.ans = inflight[i].ans
  /\ SameStory /\ rec'.calls = rec.calls /\ rec'.early = rec.early /\ rec'.failed = rec.failed
  /\ rec'.cached = rec.cached /\ rec'.tool1 = rec.tool1 /\ rec'.tool2 = rec.tool2
  /\ rec'.second = rec.second /\ rec'.receipt = rec.receipt
  /\ rec'.first = inflight[i].ans /\ rec'.marks = rec.marks \o <<"stale", "invalidated">>
  /\ cache' = Mcp!NoListing
ReturnsSecond(i, c) ==
  /\ Mcp!Answered(i, "recovery") /\ c.op = "done" /\ c.ans = inflight[i].ans
  /\ SameStory /\ rec'.calls = rec.calls /\ rec'.early = rec.early /\ rec'.failed = rec.failed
  /\ rec'.cached = rec.cached /\ rec'.tool1 = rec.tool1 /\ rec'.tool2 = rec.tool2
  /\ rec'.first = rec.first /\ rec'.receipt = rec.receipt
  /\ rec'.second = inflight[i].ans /\ rec'.marks = Append(rec.marks, "recovery")
  /\ cache' = cache
ReturnsPlain(i, c) ==
  /\ Mcp!Answered(i, "plain") /\ c.op = "done" /\ c.ans = inflight[i].ans
  /\ SameStory /\ rec'.calls = rec.calls /\ cache' = cache
  /\ kind \in Mcp!DiscoveryFaults => rec' = rec
  /\ kind \in Mcp!ContentFaults =>
       IF rec.calls = 1 THEN rec'.first = inflight[i].ans /\ rec'.receipt
       ELSE /\ rec'.first = rec.first /\ rec'.receipt = rec.receipt
            /\ rec.calls = 2 /\ kind # "result" => rec'.second = inflight[i].ans

Resumes(i, c) ==
  \/ AnswersAlone(i, c) \/ Begins(i, c) \/ GoesStale(i, c)
  \/ ReturnsFirst(i, c) \/ ReturnsSecond(i, c) \/ ReturnsPlain(i, c)

\* What a recorder of a removed tool does.
LEMMA StaleResumes ==
  ASSUME inflight \in Seq(BridgeCalls), NEW i \in 1 .. Len(inflight), DOMAIN rec = Fields,
         kind = "stale", inflight[i].tool \in Mcp!Controlled, Mcp!StaleCallTool(i)
  PROVE  \E c \in BridgeCalls : Goes(i, c) /\ Resumes(i, c)
<1>1. kind \in Mcp!DiscoveryFaults /\ kind \notin Mcp!ContentFaults
  BY DEF Mcp!DiscoveryFaults, Mcp!ContentFaults
<1>2. CASE /\ inflight[i].op = "begin"
           /\ rec' = [rec EXCEPT !.calls = @ + 1]
           /\ Mcp!Await(i, IF rec.calls = 0 THEN "control" ELSE "plain")
           /\ UNCHANGED cache
  <2> DEFINE op == IF rec.calls = 0 THEN "control" ELSE "plain"
  <2>1. PICK c \in BridgeCalls : Goes(i, c) /\ c.op = op /\ c.ans = Mcp!NoAnswer
    <3>1. op \in Ops
      BY DEF Ops
    <3> QED
      BY <1>2, <3>1, Awaits
  <2>2. SameStory /\ rec'.calls = rec.calls + 1 /\ rec'.failed = rec.failed
        /\ rec'.cached = rec.cached /\ rec'.marks = rec.marks /\ rec'.early = rec.early
        /\ rec'.first = rec.first /\ rec'.second = rec.second /\ rec'.receipt = rec.receipt
    BY <1>2 DEF SameStory, Fields
  <2>3. Begins(i, c)
    BY <1>1, <1>2, <2>1, <2>2 DEF Begins
  <2> QED
    BY <2>1, <2>3 DEF Resumes
<1>3. CASE /\ Mcp!Answered(i, "control")
           /\ rec' = [rec EXCEPT !.failed = inflight[i].ans.error, !.cached = Mcp!Target(Mcp!Listed),
                                 !.marks = @ \o IF inflight[i].ans.error THEN <<"cached">>
                                                         ELSE <<"swap", "cached">>]
           /\ cache' = Mcp!Listed
           /\ Mcp!Await(i, "stale")
  <2>1. PICK c \in BridgeCalls : Goes(i, c) /\ c.op = "stale" /\ c.ans = Mcp!NoAnswer
    <3>1. "stale" \in Ops
      BY DEF Ops
    <3> QED
      BY <1>3, <3>1, Awaits
  <2> DEFINE ms == rec.marks \o IF inflight[i].ans.error THEN <<"cached">> ELSE <<"swap", "cached">>
             li == Mcp!Target(Mcp!Listed)
             er == inflight[i].ans.error
  <2>2. rec' = [rec EXCEPT !.failed = er, !.cached = li, !.marks = ms]
    BY <1>3
  <2>3. ~er => ms = rec.marks \o <<"swap", "cached">>
    OBVIOUS
  <2> HIDE DEF ms, li, er
  <2>4. SameStory /\ rec'.calls = rec.calls /\ rec'.early = rec.early
        /\ rec'.tool1 = rec.tool1 /\ rec'.tool2 = rec.tool2
        /\ rec'.first = rec.first /\ rec'.second = rec.second /\ rec'.receipt = rec.receipt
        /\ rec'.failed = er /\ rec'.cached = li /\ rec'.marks = ms
    BY <2>2 DEF SameStory, Fields
  <2>5. GoesStale(i, c)
    BY <1>3, <2>1, <2>3, <2>4 DEF GoesStale, er, li
  <2> QED
    BY <2>1, <2>5 DEF Resumes
<1>4. CASE /\ Mcp!Answered(i, "stale")
           /\ rec' = [rec EXCEPT !.first = inflight[i].ans, !.marks = @ \o <<"stale", "invalidated">>]
           /\ cache' = Mcp!NoListing
           /\ Mcp!Return(i)
  <2>1. PICK c \in BridgeCalls : Goes(i, c) /\ c.op = "done" /\ c.ans = inflight[i].ans
    BY <1>4, Returns
  <2>2. SameStory /\ rec'.calls = rec.calls /\ rec'.early = rec.early /\ rec'.failed = rec.failed
        /\ rec'.cached = rec.cached /\ rec'.tool1 = rec.tool1 /\ rec'.tool2 = rec.tool2
        /\ rec'.second = rec.second /\ rec'.receipt = rec.receipt
        /\ rec'.first = inflight[i].ans /\ rec'.marks = rec.marks \o <<"stale", "invalidated">>
    BY <1>4 DEF SameStory, Fields
  <2>3. ReturnsFirst(i, c)
    BY <1>4, <2>1, <2>2 DEF ReturnsFirst
  <2> QED
    BY <2>1, <2>3 DEF Resumes
<1>5. CASE /\ Mcp!Answered(i, "plain")
           /\ Mcp!Return(i)
           /\ UNCHANGED <<rec, cache>>
  <2>1. PICK c \in BridgeCalls : Goes(i, c) /\ c.op = "done" /\ c.ans = inflight[i].ans
    BY <1>5, Returns
  <2>2. ReturnsPlain(i, c)
    BY <1>1, <1>5, <2>1 DEF ReturnsPlain, SameStory
  <2> QED
    BY <2>1, <2>2 DEF Resumes
<1> QED
  BY <1>2, <1>3, <1>4, <1>5 DEF Mcp!StaleCallTool

\* What a recorder of a changed tool does with a call that has begun.
LEMMA ChangeResumes ==
  ASSUME inflight \in Seq(BridgeCalls), NEW i \in 1 .. Len(inflight), DOMAIN rec = Fields,
         kind \in {"schema", "identity"}, inflight[i].op # "begin", Mcp!SchemaCallTool(i)
  PROVE  \E c \in BridgeCalls : Goes(i, c) /\ Resumes(i, c)
<1>1. kind \in Mcp!DiscoveryFaults /\ kind \notin Mcp!ContentFaults
  BY DEF Mcp!DiscoveryFaults, Mcp!ContentFaults
<1>2. CASE /\ Mcp!Answered(i, "control")
           /\ rec' = IF inflight[i].ans.error THEN [rec EXCEPT !.failed = TRUE]
                     ELSE [rec EXCEPT !.cached = Mcp!Target(Mcp!Listed), !.marks = @ \o <<"swap", "cached">>]
           /\ cache' = IF inflight[i].ans.error THEN cache ELSE Mcp!Listed
           /\ Mcp!Await(i, "stale")
  <2>1. PICK c \in BridgeCalls : Goes(i, c) /\ c.op = "stale" /\ c.ans = Mcp!NoAnswer
    <3>1. "stale" \in Ops
      BY DEF Ops
    <3> QED
      BY <1>2, <3>1, Awaits
  <2> DEFINE li == Mcp!Target(Mcp!Listed)
             er == inflight[i].ans.error
  <2>2. rec' = IF er THEN [rec EXCEPT !.failed = TRUE]
               ELSE [rec EXCEPT !.cached = li, !.marks = @ \o <<"swap", "cached">>]
    BY <1>2
  <2> HIDE DEF li, er
  <2>3. /\ SameStory /\ rec'.calls = rec.calls /\ rec'.early = rec.early
        /\ rec'.tool1 = rec.tool1 /\ rec'.tool2 = rec.tool2
        /\ rec'.first = rec.first /\ rec'.second = rec.second /\ rec'.receipt = rec.receipt
        /\ ~er => /\ ~rec.failed => ~rec'.failed
                  /\ rec'.cached = li /\ rec'.marks = rec.marks \o <<"swap", "cached">>
    <3>1. CASE er
      BY <2>2, <3>1 DEF SameStory, Fields
    <3>2. CASE ~er
      BY <2>2, <3>2 DEF SameStory, Fields
    <3> QED
      BY <3>1, <3>2
  <2>4. GoesStale(i, c)
    BY <1>2, <2>1, <2>3 DEF GoesStale, er, li
  <2> QED
    BY <2>1, <2>4 DEF Resumes
<1>3. CASE /\ Mcp!Answered(i, "stale")
           /\ rec' = [rec EXCEPT !.first = inflight[i].ans, !.marks = @ \o <<"stale", "invalidated">>]
           /\ cache' = Mcp!NoListing
           /\ Mcp!Return(i)
  <2>1. PICK c \in BridgeCalls : Goes(i, c) /\ c.op = "done" /\ c.ans = inflight[i].ans
    BY <1>3, Returns
  <2>2. SameStory /\ rec'.calls = rec.calls /\ rec'.early = rec.early /\ rec'.failed = rec.failed
        /\ rec'.cached = rec.cached /\ rec'.tool1 = rec.tool1 /\ rec'.tool2 = rec.tool2
        /\ rec'.second = rec.second /\ rec'.receipt = rec.receipt
        /\ rec'.first = inflight[i].ans /\ rec'.marks = rec.marks \o <<"stale", "invalidated">>
    BY <1>3 DEF SameStory, Fields
  <2>3. ReturnsFirst(i, c)
    BY <1>3, <2>1, <2>2 DEF ReturnsFirst
  <2> QED
    BY <2>1, <2>3 DEF Resumes
<1>4. CASE /\ Mcp!Answered(i, "recovery")
           /\ rec' = [rec EXCEPT !.second = inflight[i].ans, !.marks = Append(@, "recovery")]
           /\ Mcp!Return(i)
           /\ UNCHANGED cache
  <2>1. PICK c \in BridgeCalls : Goes(i, c) /\ c.op = "done" /\ c.ans = inflight[i].ans
    BY <1>4, Returns
  <2>2. SameStory /\ rec'.calls = rec.calls /\ rec'.early = rec.early /\ rec'.failed = rec.failed
        /\ rec'.cached = rec.cached /\ rec'.tool1 = rec.tool1 /\ rec'.tool2 = rec.tool2
        /\ rec'.first = rec.first /\ rec'.receipt = rec.receipt
        /\ rec'.second = inflight[i].ans /\ rec'.marks = Append(rec.marks, "recovery")
    BY <1>4 DEF SameStory, Fields
  <2>3. ReturnsSecond(i, c)
    BY <1>4, <2>1, <2>2 DEF ReturnsSecond
  <2> QED
    BY <2>1, <2>3 DEF Resumes
<1>5. CASE /\ Mcp!Answered(i, "plain")
           /\ Mcp!Return(i)
           /\ UNCHANGED <<rec, cache>>
  <2>1. PICK c \in BridgeCalls : Goes(i, c) /\ c.op = "done" /\ c.ans = inflight[i].ans
    BY <1>5, Returns
  <2>2. ReturnsPlain(i, c)
    BY <1>1, <1>5, <2>1 DEF ReturnsPlain, SameStory
  <2> QED
    BY <2>1, <2>2 DEF Resumes
<1> QED
  BY <1>2, <1>3, <1>4, <1>5 DEF Mcp!SchemaCallTool

\* What such a recorder does with a call that begins.
LEMMA ChangeBegins ==
  ASSUME inflight \in Seq(BridgeCalls), NEW i \in 1 .. Len(inflight), DOMAIN rec = Fields,
         kind \in {"schema", "identity"}, inflight[i].op = "begin", inflight[i].tool \in Mcp!Controlled,
         IF kind = "schema" THEN Mcp!SchemaCallTool(i) ELSE Mcp!IdentityCallTool(i)
  PROVE  \E c \in BridgeCalls : Goes(i, c) /\ Begins(i, c)
<1>1. kind \in Mcp!DiscoveryFaults /\ kind \notin Mcp!ContentFaults
  BY DEF Mcp!DiscoveryFaults, Mcp!ContentFaults
<1> DEFINE op == IF rec.calls = 0 THEN IF kind = "identity" /\ inflight[i].tool # "old" THEN "plain" ELSE "control"
                 ELSE IF rec.calls = 1 THEN "recovery" ELSE "plain"
           ea == rec.early \/ (rec.calls = 1 /\ ~Mcp!Has("refreshed"))
           t1 == IF rec.calls = 0 THEN inflight[i].tool ELSE rec.tool1
           t2 == IF rec.calls = 1 THEN inflight[i].tool ELSE rec.tool2
<1>2. /\ Mcp!Await(i, op) /\ cache' = cache
      /\ rec' = IF kind = "schema" THEN [rec EXCEPT !.calls = @ + 1, !.early = ea]
                ELSE [rec EXCEPT !.calls = @ + 1, !.tool1 = t1, !.tool2 = t2, !.early = ea]
  <2>1. CASE kind = "schema"
    <3>1. /\ rec' = [rec EXCEPT !.calls = @ + 1,
                           !.early = @ \/ (rec.calls = 1 /\ ~Mcp!Has("refreshed"))]
          /\ Mcp!Await(i, CASE rec.calls = 0 -> "control" [] rec.calls = 1 -> "recovery" [] OTHER -> "plain")
          /\ UNCHANGED cache
      BY <2>1 DEF Mcp!SchemaCallTool, Mcp!Answered
    <3>2. (CASE rec.calls = 0 -> "control" [] rec.calls = 1 -> "recovery" [] OTHER -> "plain") = op
      BY <2>1
    <3> QED
      BY <2>1, <3>1, <3>2
  <2>2. CASE kind = "identity"
    <3>1. /\ rec' = [rec EXCEPT !.calls = @ + 1,
                           !.tool1 = IF rec.calls = 0 THEN inflight[i].tool ELSE @,
                           !.tool2 = IF rec.calls = 1 THEN inflight[i].tool ELSE @,
                           !.early = @ \/ (rec.calls = 1 /\ ~Mcp!Has("refreshed"))]
          /\ Mcp!Await(i, CASE rec.calls = 0 /\ inflight[i].tool = "old" -> "control"
                   [] rec.calls = 1 -> "recovery"
                   [] OTHER -> "plain")
          /\ UNCHANGED cache
      BY <2>2 DEF Mcp!IdentityCallTool
    <3>2. (CASE rec.calls = 0 /\ inflight[i].tool = "old" -> "control"
                   [] rec.calls = 1 -> "recovery"
                   [] OTHER -> "plain") = op
      BY <2>2
    <3> QED
      BY <2>2, <3>1, <3>2
  <2> QED
    BY <2>1, <2>2
<1>3. op \in Ops
  BY DEF Ops
<1>4. PICK c \in BridgeCalls : Goes(i, c) /\ c.op = op /\ c.ans = Mcp!NoAnswer
  BY <1>2, <1>3, Awaits
<1>5. /\ ~rec.early /\ (rec.calls # 1 \/ Mcp!Has("refreshed")) => ~ea
  OBVIOUS
<1>6. c.tool = inflight[i].tool
  BY <1>4 DEF Goes, SameCall
<1> HIDE DEF ea, op
<1>7. /\ SameStory /\ rec'.calls = rec.calls + 1 /\ rec'.failed = rec.failed
      /\ rec'.cached = rec.cached /\ rec'.marks = rec.marks /\ rec'.early = ea
      /\ rec'.first = rec.first /\ rec'.second = rec.second /\ rec'.receipt = rec.receipt
      /\ kind = "identity" => rec'.tool1 = t1 /\ rec'.tool2 = t2
  <2> HIDE DEF t1, t2
  <2>1. CASE kind = "schema"
    BY <1>2, <2>1 DEF SameStory, Fields
  <2>2. CASE kind = "identity"
    BY <1>2, <2>2 DEF SameStory, Fields
  <2> QED
    BY <2>1, <2>2
<1>8. Begins(i, c)
  BY <1>1, <1>2, <1>4, <1>5, <1>6, <1>7 DEF Begins, op
<1> QED
  BY <1>4, <1>8

\* What a recorder that only counts calls does.
LEMMA ContentResumes ==
  ASSUME inflight \in Seq(BridgeCalls), NEW i \in 1 .. Len(inflight), DOMAIN rec = Fields,
         kind \in {"metadata", "result", "error"}, inflight[i].tool \in Mcp!Controlled,
         IF kind = "result" THEN Mcp!ResultCallTool(i) ELSE Mcp!ErrorCallTool(i)
  PROVE  \E c \in BridgeCalls : Goes(i, c) /\ Resumes(i, c)
<1>1. kind \notin Mcp!DiscoveryFaults /\ kind \in Mcp!ContentFaults
  BY DEF Mcp!DiscoveryFaults, Mcp!ContentFaults
<1> DEFINE an == inflight[i].ans
<1>2. \/ /\ inflight[i].op = "begin"
         /\ rec' = [rec EXCEPT !.calls = @ + 1]
         /\ Mcp!Await(i, "plain")
         /\ cache' = cache
      \/ /\ Mcp!Answered(i, "plain")
         /\ rec' = IF rec.calls = 1 THEN [rec EXCEPT !.first = an, !.receipt = TRUE]
                   ELSE IF rec.calls = 2 /\ kind # "result" THEN [rec EXCEPT !.second = an] ELSE rec
         /\ Mcp!Return(i)
         /\ cache' = cache
  <2>1. CASE kind = "result"
    BY <2>1 DEF Mcp!ResultCallTool
  <2>2. CASE kind # "result"
    <3>1. \/ /\ inflight[i].op = "begin"
             /\ rec' = [rec EXCEPT !.calls = @ + 1]
             /\ Mcp!Await(i, "plain")
             /\ cache' = cache
          \/ /\ Mcp!Answered(i, "plain")
             /\ rec' = CASE rec.calls = 1 -> [rec EXCEPT !.first = an, !.receipt = TRUE]
                         [] rec.calls = 2 -> [rec EXCEPT !.second = an]
                         [] OTHER -> rec
             /\ Mcp!Return(i)
             /\ cache' = cache
      BY <2>2 DEF Mcp!ErrorCallTool
    <3> HIDE DEF an
    <3>2. (CASE rec.calls = 1 -> [rec EXCEPT !.first = an, !.receipt = TRUE]
                         [] rec.calls = 2 -> [rec EXCEPT !.second = an]
                         [] OTHER -> rec)
          = IF rec.calls = 1 THEN [rec EXCEPT !.first = an, !.receipt = TRUE]
                   ELSE IF rec.calls = 2 /\ kind # "result" THEN [rec EXCEPT !.second = an] ELSE rec
      BY <2>2
    <3> QED
      BY <3>1, <3>2
  <2> QED
    BY <2>1, <2>2
<1>3. CASE /\ inflight[i].op = "begin"
           /\ rec' = [rec EXCEPT !.calls = @ + 1]
           /\ Mcp!Await(i, "plain")
           /\ cache' = cache
  <2>1. PICK c \in BridgeCalls : Goes(i, c) /\ c.op = "plain" /\ c.ans = Mcp!NoAnswer
    <3>1. "plain" \in Ops
      BY DEF Ops
    <3> QED
      BY <1>3, <3>1, Awaits
  <2>2. SameStory /\ rec'.calls = rec.calls + 1 /\ rec'.failed = rec.failed
        /\ rec'.cached = rec.cached /\ rec'.marks = rec.marks /\ rec'.early = rec.early
        /\ rec'.first = rec.first /\ rec'.second = rec.second /\ rec'.receipt = rec.receipt
    BY <1>3 DEF SameStory, Fields
  <2>3. Begins(i, c)
    BY <1>1, <1>3, <2>1, <2>2 DEF Begins
  <2> QED
    BY <2>1, <2>3 DEF Resumes
<1>4. CASE /\ Mcp!Answered(i, "plain")
           /\ rec' = IF rec.calls = 1 THEN [rec EXCEPT !.first = an, !.receipt = TRUE]
                     ELSE IF rec.calls = 2 /\ kind # "result" THEN [rec EXCEPT !.second = an] ELSE rec
           /\ Mcp!Return(i)
           /\ cache' = cache
  <2>1. PICK c \in BridgeCalls : Goes(i, c) /\ c.op = "done" /\ c.ans = an
    BY <1>4, Returns
  <2>2. /\ SameStory /\ rec'.calls = rec.calls
        /\ IF rec.calls = 1 THEN rec'.first = an /\ rec'.receipt
           ELSE /\ rec'.first = rec.first /\ rec'.receipt = rec.receipt
                /\ rec.calls = 2 /\ kind # "result" => rec'.second = an
    <3> HIDE DEF an
    <3>1. CASE rec.calls = 1
      BY <1>4, <3>1 DEF SameStory, Fields
    <3>2. CASE rec.calls = 2 /\ kind # "result"
      BY <1>4, <3>2 DEF SameStory, Fields
    <3>3. CASE rec.calls # 1 /\ ~(rec.calls = 2 /\ kind # "result")
      BY <1>4, <3>3 DEF SameStory
    <3> QED
      BY <3>1, <3>2, <3>3
  <2>3. ReturnsPlain(i, c)
    BY <1>1, <1>4, <2>1, <2>2 DEF ReturnsPlain
  <2> QED
    BY <2>1, <2>3 DEF Resumes
<1> QED
  BY <1>2, <1>3, <1>4

\* Every call that runs on does so in one of the six ways.
LEMMA CallResumes ==
  ASSUME BridgeTypes, NEW i \in 1 .. Len(inflight), Mcp!CallTool(i)
  PROVE  \E c \in BridgeCalls : Goes(i, c) /\ Resumes(i, c)
<1>1. /\ inflight \in Seq(BridgeCalls) /\ DOMAIN rec = Fields /\ inflight[i] \in BridgeCalls
      /\ kind \in {"metadata", "result", "error", "stale", "schema", "identity"}
  BY FaultsAreKnown, ElementOfSeq DEF BridgeTypes
<1>2. CASE inflight[i].tool \notin Mcp!Controlled
  <2> DEFINE a == Mcp!Answer("benign", FALSE, inflight[i].args)
             c == [inflight[i] EXCEPT !.op = "done", !.ans = a]
  <2>1. inflight' = [inflight EXCEPT ![i].op = "done", ![i].ans = a]
        /\ inflight[i].op = "begin" /\ rec' = rec /\ cache' = cache
    BY <1>2 DEF Mcp!CallTool
  <2>2. a \in Mcp!Answers
    BY <1>1 DEF Mcp!Answer, Mcp!Answers, Mcp!Texts, BridgeCalls
  <2> HIDE DEF a
  <2>3. c \in BridgeCalls /\ SameCall(c, inflight[i]) /\ c.op = "done"
    BY <1>1, <2>2 DEF BridgeCalls, SameCall, Ops
  <2>4. i \in DOMAIN inflight
    BY <1>1, LenProperties
  <2>5. inflight' = [inflight EXCEPT ![i] = c]
    BY <2>1, <2>4
  <2>6. AnswersAlone(i, c)
    BY <1>2, <2>1, <2>3 DEF AnswersAlone
  <2> QED
    BY <2>3, <2>5, <2>6 DEF Goes, Resumes
<1>3. CASE inflight[i].tool \in Mcp!Controlled
  <2>1. CASE kind = "stale"
    <3>1. Mcp!StaleCallTool(i)
      BY <1>3, <2>1 DEF Mcp!CallTool
    <3> QED
      BY <1>1, <1>3, <2>1, <3>1, StaleResumes
  <2>2. CASE kind \in {"schema", "identity"}
    <3>1. IF kind = "schema" THEN Mcp!SchemaCallTool(i) ELSE Mcp!IdentityCallTool(i)
      BY <1>3, <2>2 DEF Mcp!CallTool
    <3>2. CASE inflight[i].op = "begin"
      BY <1>1, <1>3, <2>2, <3>1, <3>2, ChangeBegins DEF Resumes
    <3>3. CASE inflight[i].op # "begin"
      <4>1. Mcp!SchemaCallTool(i)
        BY <3>1, <3>3 DEF Mcp!IdentityCallTool
      <4> QED
        BY <1>1, <1>3, <2>2, <3>3, <4>1, ChangeResumes
    <3> QED
      BY <3>2, <3>3
  <2>3. CASE kind \in {"metadata", "result", "error"}
    <3>1. IF kind = "result" THEN Mcp!ResultCallTool(i) ELSE Mcp!ErrorCallTool(i)
      BY <1>3, <2>3 DEF Mcp!CallTool
    <3> QED
      BY <1>1, <1>3, <2>3, <3>1, ContentResumes
  <2> QED
    BY <1>1, <2>1, <2>2, <2>3
<1> QED
  BY <1>2, <1>3

\* A step of one call, and what it finds.
CallRuns(i, c) ==
  /\ Goes(i, c) /\ c.op # "begin" /\ SameStory
  /\ pc = "agent_calls" /\ pc' = pc /\ kind' = kind /\ live' = live /\ served' = served
  /\ control' = control /\ shown' = shown /\ items' = items /\ outcome' = outcome
  /\ evidence' = evidence /\ hist' = hist
  /\ cache' \in {cache, Mcp!NoListing, Mcp!Listed}
Others(i, c) ==
  /\ Len(inflight') = Len(inflight) /\ inflight'[i] = c
  /\ \A j \in 1 .. Len(inflight) : j # i => inflight'[j] = inflight[j]
  /\ Begun \subseteq 1 .. Len(inflight)
  /\ Begun' = IF c.tool \in Mcp!Controlled THEN Begun \cup {i} ELSE Begun
Turned ==
  /\ Asked' = Asked /\ Told' = Told /\ Mcp!Controlled' = Mcp!Controlled
  /\ Before' = Before /\ After' = After /\ (Separated' <=> Separated)
  /\ Serves' = Serves /\ Models' = Models /\ Drifts' = Drifts

\* What it leaves, but for the stations, the answers and the story.
LEMMA CallStays ==
  ASSUME Running, NEW i \in 1 .. Len(inflight), NEW c \in BridgeCalls, CallRuns(i, c),
         rec'.calls = IF c.tool \in Mcp!Controlled /\ i \notin Begun THEN rec.calls + 1 ELSE rec.calls,
         i \in Back <=> /\ c.tool \in Mcp!Controlled
                        /\ c.op = "done" \/ (c.op # "control" /\ c.ans # Mcp!NoAnswer),
         i \in Back => c.ans = inflight[i].ans,
         kind = "metadata" /\ rec.receipt => rec'.receipt
  PROVE  /\ BridgeTypes' /\ Stations' /\ Ledger' /\ Changed' /\ Poisoned' /\ Worded'
         /\ kind = "metadata" => Metadata'
         /\ Others(i, c) /\ Turned
<1>1. /\ BridgeTypes /\ Stations /\ Stepping /\ Ledger /\ Changed /\ Holds /\ Worded
      /\ kind \in FaultKinds /\ DOMAIN rec = Fields
      /\ hist \in Seq(Happenings) /\ inflight \in Seq(BridgeCalls) /\ items \in Seq(BridgeItems)
      /\ Len(items) \in Nat /\ Len(inflight) \in Nat
  BY LenProperties DEF Running, Story, BridgeTypes
<1>2. /\ SameCall(c, inflight[i]) /\ inflight' = [inflight EXCEPT ![i] = c]
      /\ c.op # "begin" /\ DOMAIN rec' = Fields
      /\ rec'.initial = rec.initial /\ rec'.model = rec.model
      /\ pc = "agent_calls" /\ pc' = pc /\ kind' = kind /\ live' = live /\ served' = served
      /\ control' = control /\ shown' = shown /\ items' = items /\ outcome' = outcome
      /\ evidence' = evidence /\ hist' = hist
      /\ cache' \in {cache, Mcp!NoListing, Mcp!Listed}
  BY DEF CallRuns, Goes, SameStory
<1>3. Turned
  BY <1>2, TurnsStay DEF Turned, Serves, Models, Drifts, Mcp!Steps
<1>4. /\ inflight' \in Seq(BridgeCalls) /\ Len(inflight') = Len(inflight) /\ inflight'[i] = c
      /\ \A j \in 1 .. Len(inflight) : j # i => inflight'[j] = inflight[j]
      /\ Begun \subseteq 1 .. Len(inflight) /\ Back \subseteq Begun
      /\ Begun' = (Begun \ {i}) \cup IF c.tool \in Mcp!Controlled /\ c.op # "begin" THEN {i} ELSE {}
      /\ Back' = (Back \ {i}) \cup
                    IF /\ c.tool \in Mcp!Controlled /\ c.op # "begin"
                       /\ c.op = "done" \/ (c.op # "control" /\ c.ans # Mcp!NoAnswer)
                    THEN {i} ELSE {}
  BY <1>1, <1>2, CallMoves
<1>5. i \in Back' <=> i \in Back
  BY <1>2, <1>4
<1>6. /\ Ledger' /\ Back' = Back
      /\ Begun' = IF c.tool \in Mcp!Controlled /\ c.op # "begin" THEN Begun \cup {i} ELSE Begun
  <2>1. /\ i \in Begun => c.op # "begin"
        /\ rec'.calls = IF c.tool \in Mcp!Controlled /\ c.op # "begin" /\ i \notin Begun
                        THEN rec.calls + 1 ELSE rec.calls
        /\ Serves' = Serves /\ Models' = Models /\ \A s \in Serves : hist'[s] = hist[s]
    BY <1>2, <1>3 DEF Turned
  <2> QED
    BY <1>1, <1>2, <1>5, <2>1, LedgerMoves
<1>7. Others(i, c)
  BY <1>2, <1>4, <1>6 DEF Others
<1>8. /\ cache' \in {Mcp!NoListing, Before, After}
      /\ Drifts = {} => cache' \in {Mcp!NoListing, Before}
  <2>1. Mcp!Listed \in {Before, After} /\ (Drifts = {} => Mcp!Listed = Before)
    BY <1>1, WhatIsListed
  <2> QED
    BY <1>1, <1>2, <2>1 DEF BridgeTypes, Changed
<1>9. BridgeTypes'
  BY <1>1, <1>2, <1>3, <1>4, <1>8 DEF BridgeTypes, Turned
<1>10. Stations'
  BY <1>1, <1>2 DEF Stations
<1>11. Changed'
  <2>1. \A j \in 1 .. Len(inflight') : inflight'[j].tool = inflight[j].tool
    BY <1>2, <1>4 DEF SameCall
  <2> QED
    BY <1>1, <1>2, <1>3, <1>4, <1>8, <2>1 DEF Changed, Turned
<1>12. Poisoned'
  BY <1>2 DEF Poisoned
<1>13. Worded'
  <2>1. \A j \in Back : inflight'[j].ans = inflight[j].ans /\ inflight'[j].tool = inflight[j].tool
    BY <1>2, <1>4 DEF SameCall
  <2> QED
    BY <1>1, <1>2, <1>3, <1>6, <2>1 DEF Worded, Turned
<1>14. kind = "metadata" => Metadata'
  <2> HAVE kind = "metadata"
  <2>1. Metadata /\ Drifts = {}
    BY <1>1, FaultsAreKnown DEF Running, Story, Changed
  <2> QED
    BY <1>2, <1>3, <1>8, <2>1 DEF Metadata, Mcp!Ended, Turned
<1> QED
  BY <1>3, <1>6, <1>7, <1>9, <1>10, <1>11, <1>12, <1>13, <1>14

\* The facts about a run that its parts state.
LEMMA RunFacts ==
  ASSUME Running
  PROVE  /\ BridgeTypes /\ Stations /\ Stepping /\ Ledger /\ Changed /\ Holds
         /\ Counted /\ Paired /\ kind \in FaultKinds
         /\ hist \in Seq(Happenings) /\ inflight \in Seq(BridgeCalls) /\ items \in Seq(BridgeItems)
         /\ DOMAIN rec = Fields /\ Len(items) \in Nat /\ Len(inflight) \in Nat
         /\ kind \in {"metadata", "result", "error", "stale", "schema", "identity"}
         /\ Mcp!DiscoveryFaults = {"stale", "schema", "identity"}
         /\ Mcp!ContentFaults = {"metadata", "result", "error"}
         /\ kind \in Mcp!DiscoveryFaults => Discovery
         /\ rec.calls \in Nat
         /\ rec.calls = 0 => Asked = {} /\ Begun = {}
         /\ rec.calls = 1 => \/ Asked = {} /\ \E j : Begun = {j}
                             \/ Begun = {} /\ \E i : Asked = {i}
         /\ rec.calls = 2 => \/ Asked = {}
                             \/ \E i, j : Asked = {i} /\ Begun = {j}
                             \/ Begun = {}
         /\ Asked = {} <=> Told = {}
         /\ \A i : Asked = {i} => ~Separated
         /\ Asked = {} => ~Separated
         /\ Before # Mcp!NoListing /\ After # Mcp!NoListing
         /\ Mcp!Target(Before) = Before /\ Mcp!Target(After) = After
<1>1. /\ BridgeTypes /\ Stations /\ Stepping /\ Ledger /\ Changed /\ Holds
      /\ Counted /\ Paired /\ kind \in FaultKinds
      /\ hist \in Seq(Happenings) /\ inflight \in Seq(BridgeCalls) /\ items \in Seq(BridgeItems)
      /\ DOMAIN rec = Fields /\ Len(items) \in Nat /\ Len(inflight) \in Nat
      /\ kind \in Mcp!DiscoveryFaults => Discovery
  BY LenProperties DEF Running, Story, Ledger, BridgeTypes
<1>2. /\ Before # Mcp!NoListing /\ After # Mcp!NoListing
      /\ Mcp!Target(Before) = Before /\ Mcp!Target(After) = After
  BY <1>1, TwoCatalogues
<1> QED
  BY <1>1, <1>2, CallsCount, FaultsAreKnown

\* A local tool answers.
LEMMA LocalStep ==
  ASSUME Running, NEW i \in 1 .. Len(inflight), NEW c \in BridgeCalls, Mcp!ResumeCall(i),
         Goes(i, c), AnswersAlone(i, c)
  PROVE  Running'
<1>1. /\ Stepping /\ Holds /\ DOMAIN rec = Fields /\ c.tool = inflight[i].tool
      /\ kind \in Mcp!DiscoveryFaults => Discovery
      /\ c.tool \notin Mcp!Controlled /\ rec' = rec /\ c.op = "done" /\ cache' = cache
  BY RunFacts DEF AnswersAlone, Goes, SameCall
<1>2. i \notin Begun /\ i \notin Back
  BY <1>1 DEF Begun, Back
<1>3. CallRuns(i, c)
  BY <1>1 DEF CallRuns, SameStory, Mcp!ResumeCall
<1>4. /\ BridgeTypes' /\ Stations' /\ Ledger' /\ Changed' /\ Poisoned' /\ Worded'
      /\ kind = "metadata" => Metadata'
      /\ Others(i, c) /\ Turned
  BY <1>1, <1>2, <1>3, CallStays
<1>5. /\ kind' = kind /\ items' = items /\ pc' = pc /\ evidence' = evidence /\ shown' = shown /\ hist' = hist
  BY <1>3 DEF CallRuns
<1>6. Begun' = Begun /\ \A j \in Begun : inflight'[j] = inflight[j]
  BY <1>1, <1>2, <1>4 DEF Others
<1>7. Stepping'
  BY <1>1, <1>4, <1>5 DEF Stepping, Others, Turned
<1>8. Holds'
  BY <1>1, <1>4, <1>5, <1>6, HoldsStay DEF Turned
<1>9. kind \in Mcp!DiscoveryFaults => Discovery'
  <2> HAVE kind \in Mcp!DiscoveryFaults
  <2>1. Discovery
    BY <1>1
  <2>2. \A j \in Begun : Waiting(j)' <=> Waiting(j)
    BY <1>6 DEF Waiting
  <2>3. NotBegun => NotBegun'
    BY <1>1, <1>4, <1>5 DEF NotBegun, Turned
  <2>4. ASSUME NEW j \in Begun
        PROVE  (FirstCall(j) => FirstCall(j)') /\ (SecondCall(j) => SecondCall(j)')
    BY <1>1, <1>4, <1>5, <1>6 DEF FirstCall, SecondCall, Kept, Turned
  <2>5. OneCall => OneCall'
    BY <1>1, <1>4, <1>5 DEF OneCall, Kept, Rested, Refreshed, Reported, Turned, Mcp!Ended
  <2>6. TwoCalls => TwoCalls'
    BY <1>1, <1>4, <1>5 DEF TwoCalls, Kept, Turned
  <2> QED
    BY <1>1, <1>4, <1>5, <1>6, <2>1, <2>2, <2>3, <2>4, <2>5, <2>6 DEF Discovery, Turned
<1> QED
  BY <1>4, <1>5, <1>7, <1>8, <1>9 DEF Running, Story

\* A controlled call begins.
LEMMA BeginningStep ==
  ASSUME Running, NEW i \in 1 .. Len(inflight), NEW c \in BridgeCalls, Mcp!ResumeCall(i),
         Goes(i, c), Begins(i, c)
  PROVE  Running'
<1>1. /\ Stepping /\ Holds /\ Changed /\ c.tool = inflight[i].tool
      /\ kind \in Mcp!DiscoveryFaults => Discovery
      /\ c.tool \in Mcp!Controlled /\ inflight[i].op = "begin"
      /\ kind \in {"metadata", "result", "error", "stale", "schema", "identity"}
      /\ Mcp!DiscoveryFaults = {"stale", "schema", "identity"}
      /\ Mcp!ContentFaults = {"metadata", "result", "error"}
      /\ rec.calls \in Nat
  BY RunFacts DEF Begins, Goes, SameCall
<1>2. /\ c.ans = Mcp!NoAnswer /\ cache' = cache
      /\ SameStory /\ rec'.calls = rec.calls + 1 /\ rec'.failed = rec.failed
      /\ rec'.cached = rec.cached /\ rec'.marks = rec.marks
      /\ rec'.first = rec.first /\ rec'.second = rec.second /\ rec'.receipt = rec.receipt
      /\ ~rec.early /\ (rec.calls # 1 \/ Mcp!Has("refreshed")) => ~rec'.early
      /\ kind = "identity" => /\ rec'.tool1 = IF rec.calls = 0 THEN c.tool ELSE rec.tool1
                              /\ rec'.tool2 = IF rec.calls = 1 THEN c.tool ELSE rec.tool2
      /\ kind \in Mcp!ContentFaults => c.op = "plain"
      /\ kind \in Mcp!DiscoveryFaults =>
           c.op = IF rec.calls = 0 THEN IF kind = "identity" /\ c.tool # "old" THEN "plain" ELSE "control"
                  ELSE IF rec.calls = 1 /\ kind # "stale" THEN "recovery" ELSE "plain"
  BY DEF Begins
<1>3. c.op \notin {"begin", "done"} /\ i \notin Begun /\ i \notin Back
  BY <1>1, <1>2 DEF Begun, Back
<1>4. CallRuns(i, c)
  BY <1>2, <1>3 DEF CallRuns, Mcp!ResumeCall
<1>5. /\ BridgeTypes' /\ Stations' /\ Ledger' /\ Changed' /\ Poisoned' /\ Worded'
      /\ kind = "metadata" => Metadata'
      /\ Others(i, c) /\ Turned
  <2>1. kind = "metadata" /\ rec.receipt => rec'.receipt
    BY <1>2
  <2> QED
    BY <1>1, <1>2, <1>3, <1>4, <2>1, CallStays
<1>6. /\ kind' = kind /\ items' = items /\ pc = "agent_calls" /\ pc' = pc /\ evidence' = evidence
      /\ shown' = shown /\ hist' = hist
  BY <1>4 DEF CallRuns
<1>7. /\ Begun' = Begun \cup {i} /\ i \in Begun'
      /\ \A j \in Begun : inflight'[j] = inflight[j]
      /\ inflight'[i] = c
  BY <1>1, <1>3, <1>5 DEF Others
<1>8. /\ Asked' = Asked /\ Told' = Told /\ (Separated' <=> Separated) /\ Drifts' = Drifts
      /\ Before' = Before /\ After' = After
  BY <1>5 DEF Turned
<1>9. kind \in {"stale", "schema", "identity"} /\ Drifts = {} => c.tool = "old"
  BY <1>1 DEF Changed, Mcp!Controlled, Mcp!Tools
<1>10. Stepping'
  <2>1. /\ rec'.calls \notin {0} /\ (rec.calls \notin {0} => rec'.calls \notin {0, 1})
        /\ rec.calls \notin {0, 1} => rec'.calls # 2
    BY <1>1, <1>2
  <2>2. ASSUME NEW j \in 1 .. Len(inflight), j # i
        PROVE  /\ inflight'[j].op \notin {"begin", "done"} => inflight'[j].tool \in Mcp!Controlled'
               /\ inflight'[j].op \in {"control", "stale"} => kind' \in Mcp!DiscoveryFaults
               /\ inflight'[j].op = "recovery" => kind' \in {"schema", "identity"} /\ rec'.calls \notin {0, 1}
               /\ inflight'[j].op = "plain" /\ kind' \in Mcp!DiscoveryFaults => rec'.calls \notin {0, 1}
               /\ inflight'[j].op = "plain" /\ kind' \in {"schema", "identity"} => rec'.calls # 2
    BY <1>1, <1>5, <1>6, <2>1, <2>2 DEF Stepping, Others, Turned
  <2>3. rec.calls = 0 /\ kind \in Mcp!DiscoveryFaults => c.op = "control"
    <3> HAVE rec.calls = 0 /\ kind \in Mcp!DiscoveryFaults
    <3>1. Drifts = {}
      BY <1>1 DEF Discovery
    <3> QED
      BY <1>1, <1>2, <1>9, <3>1
  <2>4. /\ c.tool \in Mcp!Controlled'
        /\ c.op \in {"control", "stale"} => kind' \in Mcp!DiscoveryFaults
        /\ c.op = "recovery" => kind' \in {"schema", "identity"} /\ rec'.calls \notin {0, 1}
        /\ c.op = "plain" /\ kind' \in Mcp!DiscoveryFaults => rec'.calls \notin {0, 1}
        /\ c.op = "plain" /\ kind' \in {"schema", "identity"} => rec'.calls # 2
    BY <1>1, <1>2, <1>5, <1>6, <2>1, <2>3 DEF Turned
  <2> QED
    BY <1>5, <1>7, <2>2, <2>4 DEF Stepping, Others
<1>11. Holds'
  <2>1. \A k : OneTold(k) => OneTold(k)'
    BY <1>2, <1>6, <1>8 DEF OneTold
  <2>2. rec'.calls = 1 => Asked' = {} /\ Begun' = {i} /\ c.op # "done"
    <3> HAVE rec'.calls = 1
    <3>1. rec.calls = 0
      BY <1>1, <1>2
    <3>2. Asked = {} /\ Begun = {}
      BY <3>1, RunFacts
    <3> QED
      BY <1>3, <1>7, <1>8, <3>2
  <2>3. rec'.calls = 2 => /\ ~Separated'
                          /\ Asked' # {} => /\ \E k \in Told : OneTold(k)
                                            /\ Begun' = {i} /\ c.op # "done"
                                            /\ kind \in {"error", "result"} => rec'.receipt
    <3> HAVE rec'.calls = 2
    <3>1. rec.calls = 1
      BY <1>1, <1>2
    <3>2. /\ Asked = {} \/ (Begun = {} /\ \E x : Asked = {x})
          /\ ~Separated
      BY <3>1, RunFacts
    <3> QED
      BY <1>1, <1>2, <1>3, <1>7, <1>8, <3>1, <3>2 DEF Holds
  <2> QED
    BY <1>6, <1>7, <1>8, <2>1, <2>2, <2>3 DEF Holds
<1>12. kind \in Mcp!DiscoveryFaults => Discovery'
  <2> HAVE kind \in Mcp!DiscoveryFaults
  <2>1. Discovery
    BY <1>1
  <2>2. rec'.calls # 0
    BY <1>1, <1>2
  <2>3. ASSUME rec'.calls = 1
        PROVE  /\ NotBegun' /\ Drifts' = {} /\ Begun' = {i} /\ Asked' = {} /\ inflight'[i].tool = "old"
               /\ kind = "identity" => rec'.tool1 = "old"
    <3>1. rec.calls = 0
      BY <1>1, <1>2, <2>3
    <3>2. NotBegun /\ Drifts = {} /\ Asked = {} /\ Begun = {}
      BY <2>1, <3>1, RunFacts DEF Discovery
    <3>3. c.tool = "old"
      BY <1>1, <1>9, <3>2
    <3>4. NotBegun'
      BY <1>2, <1>6, <1>8, <3>1, <3>2 DEF NotBegun, SameStory
    <3> QED
      BY <1>2, <1>7, <1>8, <3>1, <3>2, <3>3, <3>4
  <2>4. ASSUME rec'.calls = 2, Asked' # {}
        PROVE  /\ Begun' = {i} /\ c.op \in {"recovery", "plain"}
               /\ Drifts' # {} /\ kind # "stale" => SecondCall(i)'
               /\ ~Separated'
    <3>1. rec.calls = 1
      BY <1>1, <1>2, <2>4
    <3>2. Begun = {} /\ Asked # {} /\ ~Separated
      BY <1>8, <2>4, <3>1, RunFacts
    <3>3. ASSUME Drifts # {}, kind # "stale"
          PROVE  SecondCall(i)'
      <4>1. OneCall
        BY <2>1, <3>1, <3>2, <3>3 DEF Discovery
      <4>2. Refreshed /\ Mcp!Has("refreshed")
        BY <1>6, <4>1, MarksHave DEF OneCall, Rested, Refreshed
      <4>3. /\ Kept /\ rec.cached = Before /\ rec.refreshed = After /\ rec.marks = Marks6
            /\ kind = "identity" => rec.later = After
            /\ \A k \in Told : items[k].tool = "old"
        BY <1>6, <4>1, <4>2 DEF OneCall, Refreshed
      <4>4. c.op = "recovery" /\ ~rec'.early
        BY <1>1, <1>2, <3>1, <3>3, <4>2, <4>3 DEF Kept
      <4>5. kind = "identity" => rec'.tool1 = rec.tool1 /\ rec'.tool2 = c.tool
        BY <1>2, <3>1
      <4> QED
        BY <1>2, <1>6, <1>7, <1>8, <4>3, <4>4, <4>5 DEF SecondCall, Kept, SameStory
    <3> QED
      BY <1>1, <1>2, <1>7, <1>8, <3>1, <3>2, <3>3
  <2>5. rec'.calls = 2 => ~Separated'
    BY <1>8, <2>4, RunFacts
  <2> QED
    BY <1>6, <1>7, <1>8, <2>2, <2>3, <2>4, <2>5 DEF Discovery
<1> QED
  BY <1>5, <1>6, <1>10, <1>11, <1>12 DEF Running, Story

\* The control tool has answered the first call.
LEMMA StaleStep ==
  ASSUME Running, NEW i \in 1 .. Len(inflight), NEW c \in BridgeCalls, Mcp!ResumeCall(i),
         Goes(i, c), GoesStale(i, c)
  PROVE  Running'
<1>1. /\ BridgeTypes /\ Stepping /\ Holds /\ Changed /\ c.tool = inflight[i].tool
      /\ kind \in Mcp!DiscoveryFaults => Discovery
      /\ kind \in {"metadata", "result", "error", "stale", "schema", "identity"}
      /\ Mcp!DiscoveryFaults = {"stale", "schema", "identity"}
      /\ rec.calls \in Nat /\ Mcp!Target(Before) = Before
  BY RunFacts DEF GoesStale, Goes, SameCall
<1>2. /\ Mcp!Answered(i, "control") /\ c.op = "stale" /\ c.ans = Mcp!NoAnswer
      /\ SameStory /\ rec'.calls = rec.calls /\ rec'.early = rec.early
      /\ rec'.tool1 = rec.tool1 /\ rec'.tool2 = rec.tool2
      /\ rec'.first = rec.first /\ rec'.second = rec.second /\ rec'.receipt = rec.receipt
      /\ cache' \in {cache, Mcp!Listed}
      /\ ~inflight[i].ans.error =>
           /\ ~rec.failed => ~rec'.failed
           /\ rec'.cached = Mcp!Target(Mcp!Listed) /\ rec'.marks = rec.marks \o <<"swap", "cached">>
           /\ cache' = Mcp!Listed
  BY DEF GoesStale
<1>3. i \in Begun /\ i \notin Back /\ c.tool \in Mcp!Controlled /\ kind \in Mcp!DiscoveryFaults
  <2>1. inflight[i].op = "control"
    BY <1>2 DEF Mcp!Answered
  <2> QED
    BY <1>1, <2>1, UnderWay DEF Stepping, Back
<1>4. CallRuns(i, c)
  BY <1>2 DEF CallRuns, Mcp!ResumeCall
<1>5. /\ BridgeTypes' /\ Stations' /\ Ledger' /\ Changed' /\ Poisoned' /\ Worded'
      /\ kind = "metadata" => Metadata'
      /\ Others(i, c) /\ Turned
  BY <1>2, <1>3, <1>4, CallStays
<1>6. /\ kind' = kind /\ items' = items /\ pc = "agent_calls" /\ pc' = pc /\ evidence' = evidence
      /\ shown' = shown /\ hist' = hist
  BY <1>4 DEF CallRuns
<1>7. /\ Begun' = Begun /\ inflight'[i] = c /\ inflight[i].op = "control"
      /\ \A j \in Begun : j # i => inflight'[j] = inflight[j]
  BY <1>2, <1>3, <1>5 DEF Others, Mcp!Answered
<1>8. /\ Asked' = Asked /\ Told' = Told /\ (Separated' <=> Separated) /\ Drifts' = Drifts
      /\ Before' = Before /\ After' = After
  BY <1>5 DEF Turned
<1>9. Stepping'
  BY <1>1, <1>2, <1>3, <1>5, <1>6, <1>7 DEF Stepping, Others, Turned
<1>10. Discovery
  BY <1>1, <1>3
<1>11. /\ rec.calls # 0
       /\ rec.calls = 1 => Begun = {i} /\ Asked = {}
       /\ rec.calls = 2 => Asked = {} /\ ~Separated
  <2>1. rec.calls = 2 => Asked = {}
    BY <1>3, <1>7, <1>10 DEF Discovery
  <2> QED
    BY <1>3, <2>1, RunFacts
<1>12. Holds'
  BY <1>1, <1>2, <1>6, <1>7, <1>8, <1>11 DEF Holds
<1>13. ASSUME rec.calls = 1, Drifts # {}
       PROVE  FirstCall(i)'
  <2>1. FirstCall(i)
    BY <1>3, <1>10, <1>13 DEF Discovery
  <2>2. ~inflight[i].ans.error /\ rec.marks = Marks1 /\ cache = Before /\ Kept
        /\ rec.refreshed = Mcp!NoListing /\ rec.later = Mcp!NoListing /\ inflight[i].tool = "old"
    BY <1>7, <2>1 DEF FirstCall
  <2>3. Mcp!Listed = Before
    BY <1>1, <2>2, WhatIsListed
  <2>4. rec'.cached = Before /\ rec'.marks = Marks3 /\ cache' = Before /\ ~rec'.failed
    BY <1>1, <1>2, <2>2, <2>3, MarksGrow DEF Kept
  <2> QED
    BY <1>1, <1>2, <1>6, <1>7, <1>8, <2>2, <2>4 DEF FirstCall, Kept, SameStory
<1>14. Discovery'
  <2>1. ~Waiting(i)'
    BY <1>2, <1>7 DEF Waiting
  <2> QED
    BY <1>2, <1>6, <1>7, <1>8, <1>11, <1>13, <2>1 DEF Discovery
<1> QED
  BY <1>3, <1>5, <1>6, <1>9, <1>12, <1>14 DEF Running, Story

\* The first call returns.
LEMMA FirstStep ==
  ASSUME Running, NEW i \in 1 .. Len(inflight), NEW c \in BridgeCalls, Mcp!ResumeCall(i),
         Goes(i, c), ReturnsFirst(i, c)
  PROVE  Running'
<1>1. /\ BridgeTypes /\ Stepping /\ Holds /\ Changed /\ c.tool = inflight[i].tool
      /\ kind \in Mcp!DiscoveryFaults => Discovery
      /\ kind \in {"metadata", "result", "error", "stale", "schema", "identity"}
      /\ Mcp!DiscoveryFaults = {"stale", "schema", "identity"}
      /\ rec.calls \in Nat
  BY RunFacts DEF Goes, SameCall
<1>2. /\ Mcp!Answered(i, "stale") /\ c.op = "done" /\ c.ans = inflight[i].ans
      /\ SameStory /\ rec'.calls = rec.calls /\ rec'.early = rec.early /\ rec'.failed = rec.failed
      /\ rec'.cached = rec.cached /\ rec'.tool1 = rec.tool1 /\ rec'.tool2 = rec.tool2
      /\ rec'.second = rec.second /\ rec'.receipt = rec.receipt
      /\ rec'.first = inflight[i].ans /\ rec'.marks = rec.marks \o <<"stale", "invalidated">>
      /\ cache' = Mcp!NoListing
  BY DEF ReturnsFirst
<1>3. i \in Begun /\ i \in Back /\ c.tool \in Mcp!Controlled /\ kind \in Mcp!DiscoveryFaults
  <2>1. inflight[i].op = "stale" /\ inflight[i].ans # Mcp!NoAnswer
    BY <1>2 DEF Mcp!Answered
  <2> QED
    BY <1>1, <2>1, UnderWay DEF Stepping, Back
<1>4. CallRuns(i, c)
  BY <1>2 DEF CallRuns, Mcp!ResumeCall
<1>5. /\ BridgeTypes' /\ Stations' /\ Ledger' /\ Changed' /\ Poisoned' /\ Worded'
      /\ kind = "metadata" => Metadata'
      /\ Others(i, c) /\ Turned
  BY <1>2, <1>3, <1>4, CallStays
<1>6. /\ kind' = kind /\ items' = items /\ pc = "agent_calls" /\ pc' = pc /\ evidence' = evidence
      /\ shown' = shown /\ hist' = hist
  BY <1>4 DEF CallRuns
<1>7. /\ Begun' = Begun /\ inflight'[i] = c /\ inflight[i].op = "stale"
      /\ \A j \in Begun : j # i => inflight'[j] = inflight[j]
  BY <1>2, <1>3, <1>5 DEF Others, Mcp!Answered
<1>8. /\ Asked' = Asked /\ Told' = Told /\ (Separated' <=> Separated) /\ Drifts' = Drifts
      /\ Before' = Before /\ After' = After
  BY <1>5 DEF Turned
<1>9. Stepping'
  BY <1>1, <1>2, <1>3, <1>5, <1>6, <1>7 DEF Stepping, Others, Turned
<1>10. Discovery
  BY <1>1, <1>3
<1>11. /\ rec.calls # 0
       /\ rec.calls = 1 => Begun = {i} /\ Asked = {}
       /\ rec.calls = 2 => Asked = {} /\ ~Separated
  <2>1. rec.calls = 2 => Asked = {}
    BY <1>3, <1>7, <1>10 DEF Discovery
  <2> QED
    BY <1>3, <2>1, RunFacts
<1>12. Holds'
  BY <1>1, <1>2, <1>3, <1>6, <1>7, <1>8, <1>11 DEF Holds
<1>13. ASSUME rec.calls = 1, Drifts # {}
       PROVE  FirstCall(i)'
  <2>1. FirstCall(i)
    BY <1>3, <1>10, <1>13 DEF Discovery
  <2>2. rec.marks = Marks3 /\ rec.cached = Before /\ Kept
        /\ rec.refreshed = Mcp!NoListing /\ rec.later = Mcp!NoListing /\ inflight[i].tool = "old"
    BY <1>7, <2>1 DEF FirstCall
  <2>3. rec'.marks = Marks5
    BY <1>2, <2>2, MarksGrow
  <2> QED
    BY <1>1, <1>2, <1>6, <1>7, <1>8, <2>2, <2>3 DEF FirstCall, Kept, SameStory
<1>14. Discovery'
  <2>1. ~Waiting(i)'
    BY <1>2, <1>7 DEF Waiting
  <2> QED
    BY <1>2, <1>6, <1>7, <1>8, <1>11, <1>13, <2>1 DEF Discovery
<1> QED
  BY <1>3, <1>5, <1>6, <1>9, <1>12, <1>14 DEF Running, Story

\* The second call returns.
LEMMA SecondStep ==
  ASSUME Running, NEW i \in 1 .. Len(inflight), NEW c \in BridgeCalls, Mcp!ResumeCall(i),
         Goes(i, c), ReturnsSecond(i, c)
  PROVE  Running'
<1>1. /\ BridgeTypes /\ Stepping /\ Holds /\ Changed /\ c.tool = inflight[i].tool
      /\ kind \in Mcp!DiscoveryFaults => Discovery
      /\ kind \in {"metadata", "result", "error", "stale", "schema", "identity"}
      /\ Mcp!DiscoveryFaults = {"stale", "schema", "identity"}
      /\ rec.calls \in Nat
  BY RunFacts DEF Goes, SameCall
<1>2. /\ Mcp!Answered(i, "recovery") /\ c.op = "done" /\ c.ans = inflight[i].ans
      /\ SameStory /\ rec'.calls = rec.calls /\ rec'.early = rec.early /\ rec'.failed = rec.failed
      /\ rec'.cached = rec.cached /\ rec'.tool1 = rec.tool1 /\ rec'.tool2 = rec.tool2
      /\ rec'.first = rec.first /\ rec'.receipt = rec.receipt
      /\ rec'.second = inflight[i].ans /\ rec'.marks = Append(rec.marks, "recovery")
      /\ cache' = cache
  BY DEF ReturnsSecond
<1>3. /\ i \in Begun /\ i \in Back /\ c.tool \in Mcp!Controlled
      /\ kind \in {"schema", "identity"} /\ rec.calls \notin {0, 1}
  <2>1. inflight[i].op = "recovery" /\ inflight[i].ans # Mcp!NoAnswer
    BY <1>2 DEF Mcp!Answered
  <2> QED
    BY <1>1, <2>1, UnderWay DEF Stepping, Back
<1>4. CallRuns(i, c)
  BY <1>2 DEF CallRuns, Mcp!ResumeCall
<1>5. /\ BridgeTypes' /\ Stations' /\ Ledger' /\ Changed' /\ Poisoned' /\ Worded'
      /\ kind = "metadata" => Metadata'
      /\ Others(i, c) /\ Turned
  BY <1>2, <1>3, <1>4, CallStays
<1>6. /\ kind' = kind /\ items' = items /\ pc = "agent_calls" /\ pc' = pc /\ evidence' = evidence
      /\ shown' = shown /\ hist' = hist
  BY <1>4 DEF CallRuns
<1>7. /\ Begun' = Begun /\ inflight'[i] = c /\ inflight[i].op = "recovery"
      /\ \A j \in Begun : j # i => inflight'[j] = inflight[j]
  BY <1>2, <1>3, <1>5 DEF Others, Mcp!Answered
<1>8. /\ Asked' = Asked /\ Told' = Told /\ (Separated' <=> Separated) /\ Drifts' = Drifts
      /\ Before' = Before /\ After' = After
  BY <1>5 DEF Turned
<1>9. Stepping'
  BY <1>1, <1>2, <1>3, <1>5, <1>6, <1>7 DEF Stepping, Others, Turned
<1>10. Discovery
  BY <1>1, <1>3
<1>11. rec.calls = 2 => ~Separated /\ (Asked # {} => Begun = {i})
  BY <1>3, RunFacts
<1>12. Holds'
  <2>1. \A k : OneTold(k) => OneTold(k)'
    BY <1>2, <1>6, <1>8 DEF OneTold
  <2> QED
    BY <1>1, <1>2, <1>3, <1>6, <1>7, <1>8, <1>11, <2>1 DEF Holds
<1>13. ASSUME rec.calls = 2, Asked # {}, Drifts # {}
       PROVE  SecondCall(i)'
  <2>1. SecondCall(i)
    BY <1>1, <1>3, <1>10, <1>13 DEF Discovery
  <2>2. rec'.marks = Marks7
    BY <1>2, <1>7, <2>1, MarksGrow DEF SecondCall
  <2> QED
    BY <1>1, <1>2, <1>6, <1>7, <1>8, <2>1, <2>2 DEF SecondCall, Kept, SameStory
<1>14. Discovery'
  BY <1>2, <1>3, <1>6, <1>7, <1>8, <1>11, <1>13 DEF Discovery
<1> QED
  BY <1>1, <1>3, <1>5, <1>6, <1>9, <1>12, <1>14 DEF Running, Story

\* Any other call returns.
LEMMA PlainStep ==
  ASSUME Running, NEW i \in 1 .. Len(inflight), NEW c \in BridgeCalls, Mcp!ResumeCall(i),
         Goes(i, c), ReturnsPlain(i, c)
  PROVE  Running'
<1>1. /\ BridgeTypes /\ Stepping /\ Holds /\ Changed /\ c.tool = inflight[i].tool
      /\ kind \in Mcp!DiscoveryFaults => Discovery
      /\ kind \in {"metadata", "result", "error", "stale", "schema", "identity"}
      /\ Mcp!DiscoveryFaults = {"stale", "schema", "identity"}
      /\ Mcp!ContentFaults = {"metadata", "result", "error"}
      /\ rec.calls \in Nat
  BY RunFacts DEF Goes, SameCall
<1>2. /\ Mcp!Answered(i, "plain") /\ c.op = "done" /\ c.ans = inflight[i].ans
      /\ SameStory /\ rec'.calls = rec.calls /\ cache' = cache
      /\ kind \in Mcp!DiscoveryFaults => rec' = rec
      /\ kind \in Mcp!ContentFaults =>
           IF rec.calls = 1 THEN rec'.first = inflight[i].ans /\ rec'.receipt
           ELSE /\ rec'.first = rec.first /\ rec'.receipt = rec.receipt
                /\ rec.calls = 2 /\ kind # "result" => rec'.second = inflight[i].ans
  BY DEF ReturnsPlain
<1>3. /\ i \in Begun /\ i \in Back /\ c.tool \in Mcp!Controlled
      /\ kind \in Mcp!DiscoveryFaults => rec.calls \notin {0, 1}
      /\ kind \in {"schema", "identity"} => rec.calls # 2
  <2>1. inflight[i].op = "plain" /\ inflight[i].ans # Mcp!NoAnswer
    BY <1>2 DEF Mcp!Answered
  <2> QED
    BY <1>1, <2>1, UnderWay DEF Stepping, Back
<1>4. CallRuns(i, c)
  BY <1>2 DEF CallRuns, Mcp!ResumeCall
<1>5. /\ BridgeTypes' /\ Stations' /\ Ledger' /\ Changed' /\ Poisoned' /\ Worded'
      /\ kind = "metadata" => Metadata'
      /\ Others(i, c) /\ Turned
  BY <1>1, <1>2, <1>3, <1>4, CallStays
<1>6. /\ kind' = kind /\ items' = items /\ pc = "agent_calls" /\ pc' = pc /\ evidence' = evidence
      /\ shown' = shown /\ hist' = hist
  BY <1>4 DEF CallRuns
<1>7. /\ Begun' = Begun /\ inflight'[i] = c /\ inflight[i].op = "plain"
      /\ \A j \in Begun : j # i => inflight'[j] = inflight[j]
  BY <1>2, <1>3, <1>5 DEF Others, Mcp!Answered
<1>8. /\ Asked' = Asked /\ Told' = Told /\ (Separated' <=> Separated) /\ Drifts' = Drifts
      /\ Before' = Before /\ After' = After
  BY <1>5 DEF Turned
<1>9. Stepping'
  BY <1>1, <1>2, <1>3, <1>5, <1>6, <1>7 DEF Stepping, Others, Turned
<1>10. /\ rec.calls # 0
       /\ rec.calls = 1 => Begun = {i} /\ Asked = {} /\ kind \notin Mcp!DiscoveryFaults
       /\ rec.calls = 2 => ~Separated /\ (Asked # {} => Begun = {i})
  BY <1>3, RunFacts
<1>11. Holds'
  <2>1. rec.calls = 1 => rec'.first = c.ans /\ (kind \in {"error", "result"} => rec'.receipt)
    BY <1>1, <1>2, <1>10
  <2>2. rec.calls = 2 => /\ rec'.first = rec.first
                         /\ kind \in {"error", "result"} => rec'.receipt = rec.receipt
                         /\ kind \in {"error", "schema", "identity"} => rec'.second = c.ans
    BY <1>1, <1>2, <1>3
  <2>3. rec.calls = 2 => \A k : OneTold(k) => OneTold(k)'
    BY <1>6, <1>8, <2>2 DEF OneTold
  <2>4. rec.calls = 2 /\ Asked # {} => /\ \E k \in Told : OneTold(k)
                                       /\ kind \in {"error", "result"} => rec.receipt
    BY <1>1, <1>3 DEF Holds
  <2> QED
    BY <1>2, <1>6, <1>7, <1>8, <1>10, <2>1, <2>2, <2>3, <2>4 DEF Holds
<1>12. kind \in Mcp!DiscoveryFaults => Discovery'
  <2> HAVE kind \in Mcp!DiscoveryFaults
  <2>1. Discovery /\ rec' = rec /\ rec.calls \notin {0, 1}
    BY <1>1, <1>2, <1>3
  <2>2. TwoCalls => TwoCalls'
    BY <1>6, <1>8, <2>1 DEF TwoCalls, Kept
  <2> QED
    BY <1>1, <1>2, <1>3, <1>6, <1>7, <1>8, <1>10, <2>1, <2>2 DEF Discovery
<1> QED
  BY <1>5, <1>6, <1>9, <1>11, <1>12 DEF Running, Story

\* A call of the recorder runs on.
LEMMA ResumeStep ==
  ASSUME Running, NEW i \in 1 .. Len(inflight), Mcp!ResumeCall(i)
  PROVE  Running'
<1>1. BridgeTypes /\ Mcp!CallTool(i)
  BY DEF Running, Mcp!ResumeCall
<1>2. PICK c \in BridgeCalls : Goes(i, c) /\ Resumes(i, c)
  BY <1>1, CallResumes
<1> QED
  BY <1>2, LocalStep, BeginningStep, StaleStep, FirstStep, SecondStep, PlainStep DEF Resumes
=============================================================================
