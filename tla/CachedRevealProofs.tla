------------------------- MODULE CachedRevealProofs -------------------------
(***************************************************************************)
(* TLAPS proofs about CachedReveal, for every set of indices and calls and *)
(* every bound: its state keeps its shape, no reveal happens without both  *)
(* operators' consent, no wrong secret is stored, whatever the number of   *)
(* calls, joint runs and restarts, and the two daemons together implement  *)
(* JointReveal.                                                            *)
(***************************************************************************)
EXTENDS RevealRefinement, TLAPS

\* Facts about the constants and small helpers.
LEMMA Helpers ==
    /\ \A c \in Calls : Owner(c) \in Party /\ (c \in ACall => Owner(c) = "Alice")
                                           /\ (c \in BCall => Owner(c) = "Bob")
    /\ \A p \in Party : Peer(p) \in Party
    /\ \A a \in ACall : a \in Calls
    /\ \A b \in BCall : b \in Calls
    /\ "Alice" \in Party /\ "Bob" \in Party
    /\ 0 \in Gen
    /\ "none" \notin BCall /\ "orphan" \notin BCall
BY CallAssumption, BoundAssumption DEF Owner, Peer, Party, Calls, Gen

\* The records a call, a request, the scheduler and a result start from.
LEMMA Records ==
    /\ Idle \in CallRecord /\ Idle.pc = "idle"
    /\ NoRpc \in RpcRecord /\ NoRpc.st = "none"
    /\ NoSched \in SchedRecord
    /\ NoFresh \in FreshRecord
    /\ EmptyDb \in Snapshot
BY Helpers DEF Idle, NoRpc, NoSched, NoFresh, EmptyDb, CallRecord, RpcRecord,
               SchedRecord, FreshRecord, Snapshot, Secrets, Nodes, Value

\* A call moves to a record that is well typed.
LEMMA GotoType ==
    ASSUME TypeOK, NEW c \in Calls, NEW r \in CallRecord, Goto(c, r),
           r.pc # "idle" => r.idx \in Indices
    PROVE  /\ call' \in [Calls -> CallRecord]
           /\ \A d \in Calls : call'[d].pc # "idle" => call'[d].idx \in Indices
BY DEF TypeOK, Goto

\* Storing a secret maps a store to a store.
LEMMA StoredSecretsType ==
    ASSUME NEW s \in Secrets, NEW i \in Indices, NEW v \in Value
    PROVE  StoredSecrets(s, i, v) \in Secrets
BY DEF StoredSecrets, Secrets, Value

\* The initial state is well typed.
LEMMA InitTypeOK == Init => TypeOK
<1> SUFFICES ASSUME Init PROVE TypeOK OBVIOUS
<1>1. EmptyDb.secrets \in Secrets /\ EmptyDb.nodes \in Nodes
  BY Helpers DEF EmptyDb, Secrets, Nodes
<1> QED
  BY <1>1, Helpers, Records, BoundAssumption DEF Init, TypeOK, Gen

\* Every step of a call keeps the types.
LEMMA CallStepType ==
    ASSUME TypeOK, NEW c \in Calls, CallStep(c)
    PROVE  TypeOK'
<1>0. /\ call[c] \in CallRecord
      /\ call[c].pc # "idle" => call[c].idx \in Indices
      /\ call[c].val \in Value
      /\ call[c].snap \in SUBSET Indices
  BY DEF TypeOK, CallRecord
<1>1. CASE LoadMissing(c)
  <2> DEFINE r == [call[c] EXCEPT !.pc = IF call[c].try = 1 THEN "reconcile" ELSE "full"]
  <2>1. r \in CallRecord /\ r.idx = call[c].idx
    BY <1>0 DEF CallRecord
  <2>2. Goto(c, r) /\ call[c].pc # "idle"
    BY <1>1 DEF LoadMissing
  <2> HIDE DEF r
  <2> QED BY <1>0, <1>1, <2>1, <2>2, GotoType DEF LoadMissing, store, precompute, TypeOK
<1>2. CASE FetchFrontier(c)
  <2> DEFINE theirs == {i \in Indices : frontier_nodes[Peer(Owner(c))][i] # 0}
             r == [call[c] EXCEPT !.pc = "drop", !.snap = theirs]
  <2>1. r \in CallRecord /\ r.idx = call[c].idx
    BY <1>0 DEF CallRecord
  <2>2. Goto(c, r) /\ call[c].pc # "idle"
    BY <1>2 DEF FetchFrontier
  <2> HIDE DEF r
  <2> QED BY <1>0, <1>2, <2>1, <2>2, GotoType DEF FetchFrontier, store, precompute, TypeOK
<1>3. CASE FetchFails(c)
  BY <1>3, Records, GotoType DEF FetchFails, store, precompute, TypeOK
<1>4. CASE DropUnmatched(c)
  <2> DEFINE r == [call[c] EXCEPT !.pc = "load", !.try = 2, !.snap = {}]
  <2>1. r \in CallRecord /\ r.idx = call[c].idx
    BY <1>0 DEF CallRecord
  <2>2. Goto(c, r) /\ call[c].pc # "idle"
    BY <1>4 DEF DropUnmatched
  <2>3. frontier_nodes' \in [Party -> Nodes]
    BY <1>4, Helpers DEF DropUnmatched, Kept, Nodes, TypeOK
  <2> HIDE DEF r
  <2> QED BY <1>0, <1>4, <2>1, <2>2, <2>3, GotoType DEF DropUnmatched, precompute, TypeOK
<1>5. CASE FullDerivationFails(c)
  BY <1>5, Records, GotoType DEF FullDerivationFails, store, precompute, TypeOK
<1>6. CASE StoreRevealed(c)
  <2>1. known_secrets' \in [Party -> Secrets] /\ frontier_nodes' \in [Party -> Nodes]
    BY <1>0, <1>6, Helpers, StoredSecretsType
       DEF StoreRevealed, store_known_secret, Nodes, TypeOK
  <2> QED BY <1>6, <2>1, Records, GotoType DEF StoreRevealed, precompute, TypeOK
<1> QED BY <1>1, <1>2, <1>3, <1>4, <1>5, <1>6 DEF CallStep

\* Starting a call keeps the types.
LEMMA BeginType ==
    ASSUME TypeOK, NEW c \in Calls, NEW i \in Indices, NEW e \in Indices,
           BeginReveal(c, i, e)
    PROVE  TypeOK'
<1> DEFINE r == [Idle EXCEPT !.pc = "load", !.idx = i]
<1>1. r \in CallRecord /\ r.idx = i
  BY Records DEF CallRecord
<1>2. Goto(c, r)
  BY DEF BeginReveal
<1>3. auth' \in [Party -> SUBSET Indices]
  BY Helpers DEF BeginReveal, TypeOK
<1> HIDE DEF r
<1> QED BY <1>1, <1>2, <1>3, GotoType DEF BeginReveal, store, precompute, TypeOK

\* The error of an attempt is well typed.
LEMMA AfterErrorType ==
    ASSUME TypeOK, NEW c \in Calls, NEW miss \in BOOLEAN, call[c].pc # "idle"
    PROVE  /\ AfterError(c, miss) \in CallRecord
           /\ AfterError(c, miss).pc \in {"idle", "reconcile"}
           /\ AfterError(c, miss).pc # "idle" => AfterError(c, miss).idx = call[c].idx
           /\ AfterError(c, miss).pc # "idle" => AfterError(c, miss).idx \in Indices
<1>1. call[c] \in CallRecord /\ call[c].idx \in Indices
  BY DEF TypeOK
<1>2. /\ [call[c] EXCEPT !.pc = "reconcile", !.node = 0] \in CallRecord
      /\ [call[c] EXCEPT !.pc = "reconcile", !.node = 0].idx = call[c].idx
      /\ [call[c] EXCEPT !.pc = "reconcile", !.node = 0].pc = "reconcile"
  BY <1>1, Helpers DEF CallRecord
<1> QED BY <1>1, <1>2, Records DEF AfterError

\* Opening two halves gives a value.
LEMMA OpenedType == \A g, h : Opened(g, h) \in Value
BY DEF Opened, Value

\* Every step of Alice's side of RevealCached keeps the types.
LEMMA AliceStepType ==
    ASSUME TypeOK, NEW a \in ACall, AliceStep(a)
    PROVE  TypeOK'
<1>0. /\ a \in Calls
      /\ call[a] \in CallRecord
      /\ call[a].pc # "idle" => call[a].idx \in Indices
      /\ rpc[a] \in RpcRecord
  BY Helpers DEF TypeOK
<1>1. CASE SendRevealCached(a)
  <2> DEFINE r == [call[a] EXCEPT !.pc = "open", !.node = Loaded(a)]
             q == [NoRpc EXCEPT !.st = "sent", !.idx = call[a].idx, !.gen = Loaded(a)]
  <2>1. Loaded(a) \in Gen /\ call[a].pc # "idle"
    BY <1>0, <1>1, Helpers DEF SendRevealCached, Loaded, TypeOK, Nodes
  <2>2. r \in CallRecord /\ r.idx = call[a].idx
    BY <1>0, <2>1 DEF CallRecord
  <2>3. q \in RpcRecord /\ q.idx = call[a].idx
    BY <1>0, <2>1, Records DEF RpcRecord
  <2>4. Goto(a, r) /\ rpc' = [rpc EXCEPT ![a] = q]
    BY <1>1 DEF SendRevealCached
  <2> HIDE DEF r, q
  <2> QED BY <1>0, <1>1, <2>1, <2>2, <2>3, <2>4, GotoType
             DEF SendRevealCached, store, precompute, TypeOK
<1>2. CASE RpcResponse(a)
  <2> DEFINE v == Opened(call[a].node, rpc[a].node)
             r == [call[a] EXCEPT !.pc = "store", !.val = v]
             s == IF rpc[a].st = "ok" /\ MacVerifies(call[a].node, rpc[a].node)
                  THEN r ELSE AfterError(a, rpc[a].st = "miss")
  <2>1. v \in Value /\ call[a].pc # "idle"
    BY <1>2, OpenedType DEF RpcResponse
  <2>2. r \in CallRecord /\ r.idx = call[a].idx
    BY <1>0, <2>1 DEF CallRecord
  <2>3. s \in CallRecord /\ (s.pc # "idle" => s.idx \in Indices)
    BY <1>0, <2>1, <2>2, AfterErrorType
  <2>4. Goto(a, s) /\ rpc' = [rpc EXCEPT ![a] = NoRpc]
    BY <1>2 DEF RpcResponse
  <2> HIDE DEF s
  <2> QED BY <1>0, <1>2, <2>3, <2>4, Records, GotoType
             DEF RpcResponse, store, precompute, TypeOK
<1>3. CASE RpcLost(a)
  BY <1>0, <1>3, Records, GotoType DEF RpcLost, store, precompute, TypeOK
<1> QED BY <1>1, <1>2, <1>3 DEF AliceStep

\* The receivers after a sender is dropped, and the requests after a call
\* stops listening.
LEMMA TableType ==
    ASSUME TypeOK
    PROVE  /\ \A x : Closed(x) \in [BCall -> Value \cup {"open", "miss", "err", "closed"}]
           /\ \A x : Deserted(x) \in [ACall -> RpcRecord]
           /\ \A x : \A a \in ACall : /\ Deserted(x)[a].st = rpc[a].st
                                      /\ Deserted(x)[a].idx = rpc[a].idx
                                      /\ Deserted(x)[a].by = IF rpc[a].by = x THEN "orphan" ELSE rpc[a].by
<1>1. \A x : Closed(x) \in [BCall -> Value \cup {"open", "miss", "err", "closed"}]
  BY DEF Closed, TypeOK
<1>2. \A a \in ACall : rpc[a] \in RpcRecord
  BY DEF TypeOK
<1>3. \A a \in ACall : /\ [rpc[a] EXCEPT !.by = "orphan"] \in RpcRecord
                       /\ [rpc[a] EXCEPT !.by = "orphan"].st = rpc[a].st
                       /\ [rpc[a] EXCEPT !.by = "orphan"].idx = rpc[a].idx
                       /\ [rpc[a] EXCEPT !.by = "orphan"].by = "orphan"
  BY <1>2 DEF RpcRecord
<1> QED BY <1>1, <1>2, <1>3 DEF Deserted

\* Every step of Bob's waiting call keeps the types.
LEMMA BobStepType ==
    ASSUME TypeOK, NEW b \in BCall, BobStep(b)
    PROVE  TypeOK'
<1>0. /\ b \in Calls
      /\ call[b] \in CallRecord
      /\ call[b].pc # "idle" => call[b].idx \in Indices
  BY Helpers DEF TypeOK
<1>1. CASE AwaitIncoming(b)
  <2> DEFINE r == [call[b] EXCEPT !.pc = "open", !.node = Loaded(b)]
  <2>1. Loaded(b) \in Gen /\ call[b].pc # "idle" /\ call[b].idx \in Indices
    BY <1>0, <1>1, Helpers DEF AwaitIncoming, Loaded, TypeOK, Nodes
  <2>2. r \in CallRecord /\ r.idx = call[b].idx
    BY <1>0, <2>1 DEF CallRecord
  <2>3. Goto(b, r) \/ Goto(b, Idle)
    BY <1>1 DEF AwaitIncoming
  <2>4. pending_reveals' \in [Indices -> BCall \cup {"none", "orphan"}]
    BY <1>1, <2>1 DEF AwaitIncoming, TypeOK
  <2>5. rx' \in [BCall -> Value \cup {"open", "miss", "err", "closed"}]
    BY <1>1, TableType DEF AwaitIncoming, TypeOK
  <2>6. /\ call' \in [Calls -> CallRecord]
        /\ \A d \in Calls : call'[d].pc # "idle" => call'[d].idx \in Indices
    <3> HIDE DEF r
    <3> QED BY <1>0, <2>1, <2>2, <2>3, Records, GotoType
  <2> QED BY <1>1, <2>4, <2>5, <2>6 DEF AwaitIncoming, store, precompute, TypeOK
<1>2. CASE AwaitTimeout(b)
  <2>1. rx' \in [BCall -> Value \cup {"open", "miss", "err", "closed"}]
    BY <1>2, TableType DEF AwaitTimeout
  <2>2. Goto(b, AfterError(b, TRUE)) /\ call[b].pc # "idle"
    BY <1>2 DEF AwaitTimeout
  <2>3. pending_reveals' \in [Indices -> BCall \cup {"none", "orphan"}]
    BY <1>2 DEF AwaitTimeout, TypeOK
  <2>4. /\ rpc' \in [ACall -> RpcRecord]
        /\ \A a \in ACall : rpc'[a].st # "none" => rpc'[a].idx \in Indices
    BY <1>2, TableType DEF AwaitTimeout, TypeOK
  <2>5. /\ call' \in [Calls -> CallRecord]
        /\ \A d \in Calls : call'[d].pc # "idle" => call'[d].idx \in Indices
    BY <1>0, <2>2, AfterErrorType, GotoType
  <2> QED BY <1>2, <2>1, <2>3, <2>4, <2>5 DEF AwaitTimeout, store, precompute, TypeOK
<1>3. CASE AwaitResult(b)
  <2> DEFINE r == [call[b] EXCEPT !.pc = "store", !.val = rx[b]]
             s == IF rx[b] \in Value THEN r ELSE AfterError(b, rx[b] = "miss")
  <2>1. call[b].pc # "idle"
    BY <1>3 DEF AwaitResult
  <2>2. rx[b] \in Value => r \in CallRecord /\ r.idx = call[b].idx
    BY <1>0 DEF CallRecord
  <2>3. s \in CallRecord /\ (s.pc # "idle" => s.idx \in Indices)
    BY <1>0, <2>1, <2>2, AfterErrorType
  <2>4. Goto(b, s) /\ rx' = [rx EXCEPT ![b] = "closed"]
    BY <1>3 DEF AwaitResult
  <2> HIDE DEF s
  <2> QED BY <1>0, <1>3, <2>3, <2>4, GotoType
             DEF AwaitResult, store, precompute, TypeOK
<1>4. CASE CancelAwait(b)
  <2>1. pending_reveals' \in [Indices -> BCall \cup {"none", "orphan"}]
    BY <1>4 DEF CancelAwait, TypeOK
  <2>2. /\ rpc' \in [ACall -> RpcRecord]
        /\ \A a \in ACall : rpc'[a].st # "none" => rpc'[a].idx \in Indices
    BY <1>4, TableType DEF CancelAwait, TypeOK
  <2> QED BY <1>0, <1>4, <2>1, <2>2, Records, GotoType
             DEF CancelAwait, store, precompute, TypeOK
<1> QED BY <1>1, <1>2, <1>3, <1>4 DEF BobStep

\* A request that moves to a well-typed record for the same index.
LEMMA RpcType ==
    ASSUME TypeOK, NEW a \in ACall, NEW q \in RpcRecord,
           q.st # "none" => q.idx \in Indices, rpc' = [rpc EXCEPT ![a] = q]
    PROVE  /\ rpc' \in [ACall -> RpcRecord]
           /\ \A d \in ACall : rpc'[d].st # "none" => rpc'[d].idx \in Indices
BY DEF TypeOK

\* Every step of Bob's handler keeps the types.
LEMMA HandlerStepType ==
    ASSUME TypeOK, NEW a \in ACall, HandlerStep(a)
    PROVE  TypeOK'
<1>0. rpc[a] \in RpcRecord /\ (rpc[a].st # "none" => rpc[a].idx \in Indices)
  BY DEF TypeOK
<1>a. \A v \in Value \cup {"miss", "err"} :
         Answered(a, v) \in [BCall -> Value \cup {"open", "miss", "err", "closed"}]
  BY DEF Answered, TypeOK
<1>1. CASE HandlerTake(a)
  <2> DEFINE i == rpc[a].idx
             q == [rpc[a] EXCEPT !.st = "taken", !.by = pending_reveals[i]]
  <2>1. i \in Indices /\ pending_reveals[i] \in BCall \cup {"none", "orphan"}
    BY <1>0, <1>1 DEF HandlerTake, TypeOK
  <2>2. q \in RpcRecord /\ q.idx = i
    BY <1>0, <2>1 DEF RpcRecord
  <2>3. rpc' = [rpc EXCEPT ![a] = q]
    BY <1>0, <1>1 DEF HandlerTake, TypeOK, RpcRecord
  <2>4. pending_reveals' \in [Indices -> BCall \cup {"none", "orphan"}]
    BY <1>1 DEF HandlerTake, TypeOK
  <2> HIDE DEF q
  <2> QED BY <1>1, <2>1, <2>2, <2>3, <2>4, RpcType
             DEF HandlerTake, store, precompute, TypeOK
<1>2. CASE HandlerTimeout(a)
  <2> DEFINE q == [rpc[a] EXCEPT !.st = "err"]
  <2>1. q \in RpcRecord /\ q.idx = rpc[a].idx
    BY <1>0 DEF RpcRecord
  <2>2. rpc' = [rpc EXCEPT ![a] = q] /\ rpc[a].st # "none"
    BY <1>0, <1>2 DEF HandlerTimeout, TypeOK
  <2> HIDE DEF q
  <2> QED BY <1>0, <1>2, <2>1, <2>2, RpcType
             DEF HandlerTimeout, store, precompute, TypeOK
<1>3. CASE HandlerLoad(a)
  <2> DEFINE g == frontier_nodes["Bob"][rpc[a].idx]
             q == [rpc[a] EXCEPT !.st = "loaded", !.node = g]
             n == [rpc[a] EXCEPT !.st = "miss", !.by = "none"]
  <2>1. rpc[a].idx \in Indices /\ g \in Gen
    BY <1>0, <1>3, Helpers DEF HandlerLoad, TypeOK, Nodes
  <2>2. q \in RpcRecord /\ q.idx = rpc[a].idx
    BY <1>0, <2>1 DEF RpcRecord
  <2>3. n \in RpcRecord /\ n.idx = rpc[a].idx
    BY <1>0 DEF RpcRecord
  <2>4. rpc' = [rpc EXCEPT ![a] = q] \/ rpc' = [rpc EXCEPT ![a] = n]
    BY <1>0, <1>3 DEF HandlerLoad, TypeOK
  <2>5. rx' \in [BCall -> Value \cup {"open", "miss", "err", "closed"}]
    BY <1>3, <1>a DEF HandlerLoad, TypeOK
  <2>6. /\ rpc' \in [ACall -> RpcRecord]
        /\ \A d \in ACall : rpc'[d].st # "none" => rpc'[d].idx \in Indices
    <3> HIDE DEF q, n
    <3> QED BY <2>1, <2>2, <2>3, <2>4, RpcType
  <2> QED BY <1>3, <2>5, <2>6 DEF HandlerLoad, store, precompute, TypeOK
<1>4. CASE HandlerComplete(a)
  <2> DEFINE v == Opened(rpc[a].node, rpc[a].gen)
             q == [rpc[a] EXCEPT !.st = "ok", !.by = "none"]
             n == [rpc[a] EXCEPT !.st = "err", !.by = "none"]
  <2>1. rpc[a].idx \in Indices /\ v \in Value
    BY <1>0, <1>4, OpenedType DEF HandlerComplete
  <2>2. q \in RpcRecord /\ q.idx = rpc[a].idx /\ n \in RpcRecord /\ n.idx = rpc[a].idx
    BY <1>0 DEF RpcRecord
  <2>3. rpc' = [rpc EXCEPT ![a] = q] \/ rpc' = [rpc EXCEPT ![a] = n]
    BY <1>0, <1>4 DEF HandlerComplete, TypeOK
  <2>4. /\ rpc' \in [ACall -> RpcRecord]
        /\ \A d \in ACall : rpc'[d].st # "none" => rpc'[d].idx \in Indices
    <3> HIDE DEF q, n
    <3> QED BY <2>1, <2>2, <2>3, RpcType
  <2>5. rx' \in [BCall -> Value \cup {"open", "miss", "err", "closed"}]
    BY <1>4, <1>a, <2>1 DEF HandlerComplete
  <2>6. known_secrets' \in [Party -> Secrets] /\ frontier_nodes' \in [Party -> Nodes]
    <3>1. CASE store_known_secret("Bob", rpc[a].idx, v)
      <4> HIDE DEF v
      <4> QED BY <2>1, <3>1, Helpers, StoredSecretsType DEF store_known_secret, Nodes, TypeOK
    <3>2. CASE UNCHANGED store
      BY <3>2 DEF store, TypeOK
    <3> QED BY <1>4, <3>1, <3>2 DEF HandlerComplete
  <2> QED BY <1>4, <2>4, <2>5, <2>6 DEF HandlerComplete, precompute, TypeOK
<1>5. CASE HandlerDropped(a)
  BY <1>5, Records, RpcType, TableType DEF HandlerDropped, store, precompute, TypeOK
<1> QED BY <1>1, <1>2, <1>3, <1>4, <1>5 DEF HandlerStep

\* The joint full derivation keeps the types.
LEMMA FullDerivationType ==
    ASSUME TypeOK, NEW a \in ACall, NEW b \in BCall, FullDerivation(a, b)
    PROVE  TypeOK'
<1> DEFINE v == IF call[a].idx = call[b].idx THEN "good" ELSE "bad"
           r(c) == [call[c] EXCEPT !.pc = "store", !.val = v]
<1>1. \A c \in Calls : r(c) \in CallRecord /\ r(c).idx = call[c].idx
  <2>1. v \in Value
    BY DEF Value
  <2> HIDE DEF v
  <2> SUFFICES ASSUME NEW c \in Calls PROVE r(c) \in CallRecord /\ r(c).idx = call[c].idx
    OBVIOUS
  <2>2. call[c] \in CallRecord
    BY DEF TypeOK
  <2> QED BY <2>1, <2>2 DEF CallRecord
<1>2. PICK done \in SUBSET {a, b} :
         call' = [c \in Calls |-> IF c \in done THEN r(c)
                                  ELSE IF c \in {a, b} THEN Idle ELSE call[c]]
  BY DEF FullDerivation
<1>3. call[a].idx \in Indices /\ call[b].idx \in Indices
  BY Helpers DEF FullDerivation, TypeOK
<1> HIDE DEF r
<1>4. /\ call' \in [Calls -> CallRecord]
      /\ \A d \in Calls : call'[d].pc # "idle" => call'[d].idx \in Indices
  BY <1>1, <1>2, <1>3, Records DEF TypeOK
<1> QED BY <1>4 DEF FullDerivation, store, precompute, TypeOK

\* Background precompute keeps the types.
LEMMA SchedulerType ==
    ASSUME TypeOK, Scheduler \/ \E p \in Party : StorePrecomputed(p)
    PROVE  TypeOK'
<1>1. CASE SchedulerFetch
  BY <1>1 DEF SchedulerFetch, SchedRecord, store, reveal, TypeOK
<1>2. CASE SchedulerDrop
  <2>1. frontier_nodes' \in [Party -> Nodes]
    BY <1>2, Helpers DEF SchedulerDrop, Kept, Nodes, TypeOK
  <2>2. sched' \in SchedRecord
    BY <1>2, Records DEF SchedulerDrop, SchedRecord
  <2> QED BY <1>2, <2>1, <2>2 DEF SchedulerDrop, reveal, TypeOK
<1>3. ASSUME NEW i \in Indices, JointPrecompute(i) PROVE TypeOK'
  <2>1. sched.st = "begin" /\ gen \in Gen
    BY <1>3 DEF JointPrecompute, TypeOK
  <2>2. gen + 1 \in Gen
    BY <1>3, BoundAssumption DEF JointPrecompute, TypeOK, Gen
  <2>3. [idx |-> i, gen |-> gen + 1] \in FreshRecord
    BY <2>2 DEF FreshRecord
  <2>4. PICK done \in SUBSET Party :
           fresh' = [p \in Party |-> IF p \in done THEN [idx |-> i, gen |-> gen + 1]
                                     ELSE fresh[p]]
    BY <1>3 DEF JointPrecompute
  <2>5. /\ fresh' \in [Party -> FreshRecord]
        /\ \A p \in Party : fresh'[p] # NoFresh => fresh'[p].idx \in Indices
    BY <2>3, <2>4 DEF TypeOK
  <2> QED BY <1>3, <2>2, <2>5, Records DEF JointPrecompute, store, reveal, TypeOK
<1>4. CASE SchedulerStops
  BY <1>4, Records DEF SchedulerStops, store, reveal, TypeOK
<1>5. ASSUME NEW p \in Party, StorePrecomputed(p) PROVE TypeOK'
  <2>1. fresh[p].idx \in Indices /\ fresh[p].gen \in Gen
    BY <1>5 DEF StorePrecomputed, TypeOK, FreshRecord
  <2>2. frontier_nodes' \in [Party -> Nodes]
    BY <1>5, <2>1 DEF StorePrecomputed, Nodes, TypeOK
  <2> QED BY <1>5, <2>2, Records DEF StorePrecomputed, reveal, TypeOK
<1> QED BY <1>1, <1>2, <1>3, <1>4, <1>5 DEF Scheduler

\* Checkpoints and restarts keep the types.
LEMMA PersistenceType ==
    ASSUME TypeOK, NEW p \in Party, Checkpoint(p) \/ Restart(p)
    PROVE  TypeOK'
<1>1. CASE Checkpoint(p)
  <2>1. PICK s \in {durable[p].secrets, known_secrets[p]}, J \in SUBSET Indices :
           durable' = [durable EXCEPT ![p] =
               [secrets |-> s,
                nodes   |-> [i \in Indices |-> IF i \in J THEN frontier_nodes[p][i]
                                               ELSE durable[p].nodes[i]]]]
    BY <1>1 DEF Checkpoint
  <2>2. s \in Secrets
    BY DEF TypeOK, Snapshot
  <2>3. [i \in Indices |-> IF i \in J THEN frontier_nodes[p][i]
                           ELSE durable[p].nodes[i]] \in Nodes
    BY DEF TypeOK, Snapshot, Nodes
  <2>4. durable' \in [Party -> Snapshot]
    BY <2>1, <2>2, <2>3 DEF TypeOK, Snapshot
  <2> QED BY <1>1, <2>4 DEF Checkpoint, store, reveal, precompute, TypeOK
<1>2. CASE Restart(p)
  <2>1. PICK db \in {durable[p], EmptyDb} :
           /\ known_secrets' = [known_secrets EXCEPT ![p] = db.secrets]
           /\ frontier_nodes' = [frontier_nodes EXCEPT ![p] = db.nodes]
           /\ durable' = [durable EXCEPT ![p] = db]
    BY <1>2 DEF Restart
  <2>2. db \in Snapshot /\ db.secrets \in Secrets /\ db.nodes \in Nodes
    BY Records DEF TypeOK, Snapshot
  <2>3. /\ call' \in [Calls -> CallRecord]
        /\ \A d \in Calls : call'[d].pc # "idle" => call'[d].idx \in Indices
    BY <1>2, Records DEF Restart, TypeOK
  <2>4. crashes' \in 0 .. MaxCrash
    BY <1>2, BoundAssumption DEF Restart, TypeOK
  <2>5. /\ fresh' \in [Party -> FreshRecord]
        /\ \A q \in Party : fresh'[q] # NoFresh => fresh'[q].idx \in Indices
    BY <1>2, Records DEF Restart, TypeOK
  <2>6. CASE p = "Bob"
    BY <1>2, <2>1, <2>2, <2>3, <2>4, <2>5, <2>6, Records DEF Restart, TypeOK
  <2>7. CASE p # "Bob"
    BY <1>2, <2>1, <2>2, <2>3, <2>4, <2>5, <2>7, Records DEF Restart, TypeOK
  <2> QED BY <2>6, <2>7
<1> QED BY <1>1, <1>2

\* Every step keeps the types.
LEMMA NextTypeOK == TypeOK /\ [Next]_vars => TypeOK'
<1> SUFFICES ASSUME TypeOK, [Next]_vars PROVE TypeOK'
  OBVIOUS
<1>1. CASE UNCHANGED vars
  BY <1>1 DEF vars, TypeOK
<1>2. CASE Next
  BY <1>2, BeginType, CallStepType, AliceStepType, HandlerStepType, BobStepType,
     FullDerivationType, SchedulerType, PersistenceType DEF Next
<1> QED BY <1>1, <1>2

\* The two daemons' state stays well typed: every table entry, request and
\* receiver that the reveal, RevealCached and precompute code of state.rs
\* writes has its shape, and what is in progress names an index of the channel.
THEOREM TypeCorrect == Spec => []TypeOK
<1>1. Init => TypeOK
  BY InitTypeOK
<1>2. TypeOK /\ [Next]_vars => TypeOK'
  BY NextTypeOK
<1> QED BY <1>1, <1>2, PTL DEF Spec

-----------------------------------------------------------------------------
(* Consent, correctness and the store.                                     *)

Both == auth["Alice"] \cap auth["Bob"]

\* What is in progress was declared by the operator of the side it is on.
CallAuth == \A c \in Calls : call[c].pc # "idle" => call[c].idx \in auth[Owner(c)]
PendingAuth == \A i \in Indices : pending_reveals[i] # "none" => i \in auth["Bob"]
RpcAuth == \A a \in ACall :
    /\ rpc[a].st # "none" => rpc[a].idx \in auth["Alice"]
    /\ rpc[a].st \in {"taken", "loaded", "ok"} => rpc[a].idx \in auth["Bob"]
\* The request Alice's call waits for is her own.
RpcMatches == \A a \in ACall :
    call[a].pc = "open" => rpc[a].st # "none" /\ rpc[a].idx = call[a].idx

\* What has been opened, at every place it passes through, was declared by
\* both operators and is right.
RxGood == \A b \in BCall :
    rx[b] \in Value => rx[b] = "good" /\ call[b].pc = "open" /\ call[b].idx \in Both
CallGood == \A c \in Calls :
    call[c].pc = "store" => call[c].val = "good" /\ call[c].idx \in Both
Good(secrets) == \A i \in Indices :
    secrets[i] # "none" => secrets[i] = "good" /\ i \in Both
StoreGood == \A p \in Party : Good(known_secrets[p]) /\ Good(durable[p].secrets)

IInv == /\ TypeOK /\ PendingMatchesWaiter
        /\ CallAuth /\ PendingAuth /\ RpcAuth /\ RpcMatches
        /\ RxGood /\ CallGood /\ StoreGood

\* Storing an authorised, right secret keeps the store authorised and right.
LEMMA StoredGood ==
    ASSUME NEW s \in Secrets, Good(s), NEW i \in Both, i \in Indices
    PROVE  Good(StoredSecrets(s, i, "good"))
BY DEF Good, StoredSecrets, Secrets

\* Declaring more indices keeps what was good.
LEMMA GoodGrows ==
    ASSUME NEW s, Good(s), \A p \in Party : auth[p] \subseteq auth'[p]
    PROVE  Good(s)'
BY Helpers DEF Good, Both

\* Nothing is in progress and nothing is stored at the start.
LEMMA InitIInv == Init => IInv
<1> SUFFICES ASSUME Init PROVE IInv
  OBVIOUS
<1>1. TypeOK
  BY InitTypeOK
<1>2. PendingMatchesWaiter /\ PendingAuth
  BY Helpers DEF Init, PendingMatchesWaiter, PendingAuth, NoRpc
<1>3. CallAuth /\ RpcAuth /\ RpcMatches /\ CallGood
  BY Helpers, Records DEF Init, CallAuth, RpcAuth, RpcMatches, CallGood
<1>4. RxGood
  BY DEF Init, RxGood, Value
<1>5. StoreGood
  BY Helpers DEF Init, StoreGood, Good, EmptyDb
<1> QED BY <1>1, <1>2, <1>3, <1>4, <1>5 DEF IInv

\* A call that neither waits nor starts to wait moves on: the tables do not
\* know it.
LEMMA QuietStep ==
    ASSUME IInv, TypeOK', NEW c \in Calls, NEW r \in CallRecord, Goto(c, r),
           call[c].pc # "open", r.pc # "open",
           r.pc # "idle" => r.idx \in auth[Owner(c)],
           r.pc = "store" => r.val = "good" /\ r.idx \in Both,
           UNCHANGED <<rx, pending_reveals, rpc, auth>>, StoreGood'
    PROVE  IInv'
<1>0. /\ \A d \in Calls : call'[d] = IF d = c THEN r ELSE call[d]
      /\ Both' = Both
      /\ TypeOK
  BY DEF Goto, TypeOK, Both, IInv
<1>1. PendingMatchesWaiter'
  BY <1>0, Helpers DEF IInv, PendingMatchesWaiter
<1>2. CallAuth' /\ PendingAuth' /\ RpcAuth'
  BY <1>0, Helpers DEF IInv, CallAuth, PendingAuth, RpcAuth
<1>3. RpcMatches'
  BY <1>0, Helpers DEF IInv, RpcMatches
<1>4. RxGood' /\ CallGood'
  BY <1>0, Helpers DEF IInv, RxGood, CallGood
<1> QED BY <1>1, <1>2, <1>3, <1>4 DEF IInv

\* The store is untouched.
LEMMA StoreKept ==
    ASSUME IInv, UNCHANGED <<known_secrets, durable, auth>>
    PROVE  StoreGood'
BY DEF IInv, StoreGood, Good, Both

\* The steps of a call outside the cached path.
LEMMA CallStepSafe ==
    ASSUME IInv, NEW c \in Calls, CallStep(c)
    PROVE  IInv'
<1>0. TypeOK /\ TypeOK' /\ call[c] \in CallRecord
  BY CallStepType DEF IInv, TypeOK
<1>1. CASE LoadMissing(c)
  <2> DEFINE r == [call[c] EXCEPT !.pc = IF call[c].try = 1 THEN "reconcile" ELSE "full"]
  <2>1. r \in CallRecord /\ r.idx = call[c].idx /\ r.pc \in {"reconcile", "full"}
    BY <1>0 DEF CallRecord
  <2>2. Goto(c, r) /\ call[c].pc = "load"
    BY <1>1 DEF LoadMissing
  <2>3. StoreGood' /\ UNCHANGED <<rx, pending_reveals, rpc, auth>>
    BY <1>1, StoreKept DEF LoadMissing, store
  <2> HIDE DEF r
  <2> QED BY <1>0, <2>1, <2>2, <2>3, QuietStep DEF IInv, CallAuth
<1>2. CASE FetchFrontier(c)
  <2> DEFINE theirs == {i \in Indices : frontier_nodes[Peer(Owner(c))][i] # 0}
             r == [call[c] EXCEPT !.pc = "drop", !.snap = theirs]
  <2>1. r \in CallRecord /\ r.idx = call[c].idx /\ r.pc = "drop"
    BY <1>0 DEF CallRecord
  <2>2. Goto(c, r) /\ call[c].pc = "reconcile"
    BY <1>2 DEF FetchFrontier
  <2>3. StoreGood' /\ UNCHANGED <<rx, pending_reveals, rpc, auth>>
    BY <1>2, StoreKept DEF FetchFrontier, store
  <2> HIDE DEF r
  <2> QED BY <1>0, <2>1, <2>2, <2>3, QuietStep DEF IInv, CallAuth
<1>3. CASE FetchFails(c)
  <2>1. StoreGood' /\ UNCHANGED <<rx, pending_reveals, rpc, auth>>
    BY <1>3, StoreKept DEF FetchFails, store
  <2> QED BY <1>0, <1>3, <2>1, Records, QuietStep DEF FetchFails
<1>4. CASE DropUnmatched(c)
  <2> DEFINE r == [call[c] EXCEPT !.pc = "load", !.try = 2, !.snap = {}]
  <2>1. r \in CallRecord /\ r.idx = call[c].idx /\ r.pc = "load"
    BY <1>0 DEF CallRecord
  <2>2. Goto(c, r) /\ call[c].pc = "drop"
    BY <1>4 DEF DropUnmatched
  <2>3. StoreGood' /\ UNCHANGED <<rx, pending_reveals, rpc, auth>>
    BY <1>4, StoreKept DEF DropUnmatched
  <2> HIDE DEF r
  <2> QED BY <1>0, <2>1, <2>2, <2>3, QuietStep DEF IInv, CallAuth
<1>5. CASE FullDerivationFails(c)
  <2>1. StoreGood' /\ UNCHANGED <<rx, pending_reveals, rpc, auth>>
    BY <1>5, StoreKept DEF FullDerivationFails, store
  <2> QED BY <1>0, <1>5, <2>1, Records, QuietStep DEF FullDerivationFails
<1>6. CASE StoreRevealed(c)
  <2> DEFINE p == Owner(c)
             i == call[c].idx
  <2>1. call[c].pc = "store" /\ call[c].val = "good" /\ i \in Both /\ i \in Indices
    BY <1>6 DEF StoreRevealed, IInv, CallGood, TypeOK
  <2>2. p \in Party /\ known_secrets[p] \in Secrets /\ Good(known_secrets[p])
    BY <1>0, Helpers DEF IInv, StoreGood, TypeOK
  <2>3. known_secrets' = [known_secrets EXCEPT ![p] = StoredSecrets(known_secrets[p], i, "good")]
    BY <1>6, <2>1 DEF StoreRevealed, store_known_secret
  <2>4. Good(StoredSecrets(known_secrets[p], i, "good"))
    BY <2>1, <2>2, StoredGood
  <2>5. UNCHANGED <<rx, pending_reveals, rpc, auth, durable>>
    BY <1>6 DEF StoreRevealed
  <2>6. StoreGood'
    <3> HIDE DEF p, i
    <3> QED BY <1>0, <2>2, <2>3, <2>4, <2>5 DEF IInv, StoreGood, Good, Both, TypeOK
  <2> QED BY <1>0, <1>6, <2>1, <2>5, <2>6, Records, QuietStep DEF StoreRevealed
<1> QED BY <1>1, <1>2, <1>3, <1>4, <1>5, <1>6 DEF CallStep

\* A new call is for the index its operator declared.
LEMMA BeginSafe ==
    ASSUME IInv, NEW c \in Calls, NEW i \in Indices, NEW e \in Indices,
           BeginReveal(c, i, e)
    PROVE  IInv'
<1> DEFINE r == [Idle EXCEPT !.pc = "load", !.idx = i]
<1>0. TypeOK /\ TypeOK' /\ Owner(c) \in Party
  BY BeginType, Helpers DEF IInv
<1>1. r \in CallRecord /\ r.idx = i /\ r.pc = "load"
  BY Records DEF CallRecord
<1>2. /\ \A d \in Calls : call'[d] = IF d = c THEN r ELSE call[d]
      /\ call[c].pc = "idle"
  BY <1>0 DEF BeginReveal, Goto, TypeOK
<1>3. /\ \A p \in Party : auth[p] \subseteq auth'[p]
      /\ i \in auth'[Owner(c)]
  BY <1>0 DEF BeginReveal, TypeOK
<1>4. UNCHANGED <<rx, pending_reveals, rpc, known_secrets, durable>>
  BY DEF BeginReveal, store
<1> HIDE DEF r
<1>5. PendingMatchesWaiter'
  BY <1>2, <1>1, <1>4, Helpers DEF IInv, PendingMatchesWaiter
<1>6. CallAuth'
  BY <1>1, <1>2, <1>3, Helpers DEF IInv, CallAuth
<1>7. PendingAuth' /\ RpcAuth'
  BY <1>3, <1>4, Helpers DEF IInv, PendingAuth, RpcAuth
<1>8. RpcMatches'
  BY <1>1, <1>2, <1>4, Helpers DEF IInv, RpcMatches
<1>9. RxGood' /\ CallGood'
  BY <1>1, <1>2, <1>3, <1>4, Helpers DEF IInv, RxGood, CallGood, Both
<1>10. StoreGood'
  BY <1>3, <1>4, Helpers DEF IInv, StoreGood, Good, Both
<1> QED BY <1>0, <1>5, <1>6, <1>7, <1>8, <1>9, <1>10 DEF IInv

\* Alice opens only what came back for the index she asked for.
LEMMA AliceStepSafe ==
    ASSUME IInv, NEW a \in ACall, AliceStep(a)
    PROVE  IInv'
<1>0. /\ TypeOK /\ TypeOK'
      /\ a \in Calls /\ a \notin BCall
      /\ call[a] \in CallRecord
      /\ Owner(a) = "Alice"
  BY AliceStepType, Helpers, CallAssumption DEF IInv, TypeOK
<1>1. ASSUME NEW r \in CallRecord, Goto(a, r), NEW q \in RpcRecord,
             rpc' = [rpc EXCEPT ![a] = q],
             r.pc # "idle" => r.idx \in auth["Alice"],
             r.pc = "open" => q.st # "none" /\ q.idx = r.idx,
             r.pc = "store" => r.val = "good" /\ r.idx \in Both,
             q.st # "none" => q.idx \in auth["Alice"],
             q.st \in {"taken", "loaded", "ok"} => q.idx \in auth["Bob"],
             q.by \notin BCall \/ q = rpc[a],
             UNCHANGED <<rx, pending_reveals, auth, known_secrets, durable>>
      PROVE  IInv'
  <2>1. /\ \A d \in Calls : call'[d] = IF d = a THEN r ELSE call[d]
        /\ \A d \in ACall : rpc'[d] = IF d = a THEN q ELSE rpc[d]
        /\ \A b \in BCall : call'[b] = call[b]
        /\ Both' = Both
    BY <1>0, <1>1, Helpers DEF Goto, TypeOK, Both
  <2>2. PendingMatchesWaiter'
    BY <1>1, <2>1 DEF IInv, PendingMatchesWaiter
  <2>3. CallAuth' /\ PendingAuth' /\ RpcAuth'
    BY <1>0, <1>1, <2>1 DEF IInv, CallAuth, PendingAuth, RpcAuth
  <2>4. RpcMatches'
    BY <1>0, <1>1, <2>1, Helpers DEF IInv, RpcMatches
  <2>5. RxGood' /\ CallGood'
    BY <1>0, <1>1, <2>1, Helpers DEF IInv, RxGood, CallGood
  <2>6. StoreGood'
    BY <1>1, StoreKept
  <2> QED BY <1>0, <2>2, <2>3, <2>4, <2>5, <2>6 DEF IInv
<1>2. CASE SendRevealCached(a)
  <2> DEFINE r == [call[a] EXCEPT !.pc = "open", !.node = Loaded(a)]
             q == [NoRpc EXCEPT !.st = "sent", !.idx = call[a].idx, !.gen = Loaded(a)]
  <2>1. Loaded(a) \in Gen /\ call[a].pc = "load" /\ call[a].idx \in Indices
    BY <1>0, <1>2, Helpers DEF SendRevealCached, Loaded, TypeOK, Nodes
  <2>2. r \in CallRecord /\ r.idx = call[a].idx /\ r.pc = "open"
    BY <1>0, <2>1 DEF CallRecord
  <2>3. q \in RpcRecord /\ q.idx = call[a].idx /\ q.st = "sent" /\ q.by \notin BCall
    BY <2>1, Records, Helpers DEF RpcRecord, NoRpc
  <2>4. /\ Goto(a, r) /\ rpc' = [rpc EXCEPT ![a] = q]
        /\ UNCHANGED <<rx, pending_reveals, auth, known_secrets, durable>>
    BY <1>2 DEF SendRevealCached, store
  <2>5. call[a].idx \in auth["Alice"]
    BY <1>0, <2>1 DEF IInv, CallAuth
  <2> HIDE DEF r, q
  <2> QED BY <1>1, <2>2, <2>3, <2>4, <2>5
<1>3. CASE RpcResponse(a)
  <2> DEFINE v == Opened(call[a].node, rpc[a].node)
             r == [call[a] EXCEPT !.pc = "store", !.val = v]
             ok == rpc[a].st = "ok" /\ MacVerifies(call[a].node, rpc[a].node)
             s == IF ok THEN r ELSE AfterError(a, rpc[a].st = "miss")
  <2>1. call[a].pc = "open" /\ call[a].idx \in auth["Alice"] /\ call[a].idx = rpc[a].idx
    BY <1>0, <1>3 DEF RpcResponse, IInv, CallAuth, RpcMatches
  <2>2. ok => v = "good" /\ call[a].idx \in Both
    BY <2>1 DEF MacVerifies, Opened, IInv, RpcAuth, Both
  <2>3. v \in Value
    BY OpenedType
  <2>4. r \in CallRecord /\ r.idx = call[a].idx /\ r.pc = "store" /\ r.val = v
    BY <1>0, <2>3 DEF CallRecord
  <2>5. /\ s \in CallRecord
        /\ s.pc \in {"idle", "reconcile", "store"}
        /\ s.pc # "idle" => s.idx = call[a].idx
        /\ s.pc = "store" => s.val = "good" /\ s.idx \in Both
    <3>1. CASE ok
      <4> HIDE DEF r, v
      <4> QED BY <2>2, <2>4, <3>1
    <3>2. CASE ~ok
      BY <1>0, <2>1, <3>2, AfterErrorType
    <3> QED BY <3>1, <3>2
  <2>6. /\ Goto(a, s) /\ rpc' = [rpc EXCEPT ![a] = NoRpc]
        /\ UNCHANGED <<rx, pending_reveals, auth, known_secrets, durable>>
    BY <1>3 DEF RpcResponse, store
  <2>7. NoRpc \in RpcRecord /\ NoRpc.st = "none" /\ NoRpc.by \notin BCall
    BY Records, Helpers DEF NoRpc
  <2> HIDE DEF s
  <2> QED BY <1>1, <2>1, <2>5, <2>6, <2>7
<1>4. CASE RpcLost(a)
  <2>1. /\ Goto(a, Idle) /\ rpc' = [rpc EXCEPT ![a] = rpc[a]] /\ rpc[a] \in RpcRecord
        /\ UNCHANGED <<rx, pending_reveals, auth, known_secrets, durable>>
    BY <1>0, <1>4 DEF RpcLost, store, TypeOK
  <2> QED BY <1>1, <2>1, Records DEF IInv, RpcAuth
<1> QED BY <1>2, <1>3, <1>4 DEF AliceStep

\* Bob's table, receivers and requests change while his call b moves to r.
LEMMA BobMoves ==
    ASSUME IInv, TypeOK', NEW b \in BCall, NEW r \in CallRecord, Goto(b, r),
           PendingMatchesWaiter', PendingAuth',
           r.pc # "idle" => r.idx \in auth["Bob"],
           r.pc = "store" => r.val = "good" /\ r.idx \in Both,
           \A a \in ACall : rpc'[a].st = rpc[a].st /\ rpc'[a].idx = rpc[a].idx,
           \A d \in BCall : rx'[d] \in Value => rx'[d] = rx[d] /\ d # b,
           UNCHANGED <<auth, known_secrets, durable>>
    PROVE  IInv'
<1>0. /\ \A d \in Calls : call'[d] = IF d = b THEN r ELSE call[d]
      /\ \A a \in ACall : a # b /\ call'[a] = call[a]
      /\ Both' = Both
      /\ TypeOK /\ b \in Calls /\ Owner(b) = "Bob"
  BY Helpers, CallAssumption DEF Goto, TypeOK, Both, IInv
<1>1. CallAuth' /\ RpcAuth'
  BY <1>0 DEF IInv, CallAuth, RpcAuth
<1>2. RpcMatches'
  BY <1>0 DEF IInv, RpcMatches
<1>3. RxGood' /\ CallGood'
  BY <1>0, Helpers DEF IInv, RxGood, CallGood
<1>4. StoreGood'
  BY StoreKept
<1> QED BY <1>1, <1>2, <1>3, <1>4 DEF IInv

\* Bob's waiting call: who may answer it, and for which index.
LEMMA BobStepSafe ==
    ASSUME IInv, NEW b \in BCall, BobStep(b)
    PROVE  IInv'
<1>0. /\ TypeOK /\ TypeOK'
      /\ b \in Calls /\ Owner(b) = "Bob"
      /\ call[b] \in CallRecord
      /\ call[b].pc # "idle" => call[b].idx \in Indices /\ call[b].idx \in auth["Bob"]
  BY BobStepType, Helpers DEF IInv, TypeOK, CallAuth
<1>1. CASE AwaitIncoming(b)
  <2> DEFINE i == call[b].idx
             old == pending_reveals[i]
             r == [call[b] EXCEPT !.pc = "open", !.node = Loaded(b)]
  <2>1. call[b].pc = "load" /\ i \in Indices /\ i \in auth["Bob"] /\ Loaded(b) \in Gen
    BY <1>0, <1>1, Helpers DEF AwaitIncoming, Loaded, TypeOK, Nodes
  <2>2. r \in CallRecord /\ r.idx = i /\ r.pc = "open"
    BY <1>0, <2>1 DEF CallRecord
  <2>3. UNCHANGED <<rpc, auth, known_secrets, durable>>
    BY <1>1 DEF AwaitIncoming, store
  <2>4. ASSUME old = "none", pending_reveals' = [pending_reveals EXCEPT ![i] = b],
               Goto(b, r), rx' = [rx EXCEPT ![b] = "open"]
        PROVE  IInv'
    <3> HIDE DEF r
    <3>1. /\ \A d \in Calls : call'[d] = IF d = b THEN r ELSE call[d]
          /\ \A j \in Indices : pending_reveals'[j] = IF j = i THEN b ELSE pending_reveals[j]
          /\ \A d \in BCall : rx'[d] = IF d = b THEN "open" ELSE rx[d]
      BY <1>0, <2>1, <2>4 DEF Goto, TypeOK
    <3>2. PendingMatchesWaiter'
      BY <2>1, <2>2, <2>3, <3>1, Helpers DEF IInv, PendingMatchesWaiter
    <3>3. PendingAuth'
      BY <2>1, <2>3, <3>1 DEF IInv, PendingAuth
    <3> QED BY <1>0, <2>1, <2>2, <2>3, <2>4, <3>1, <3>2, <3>3, BobMoves DEF Value
  <2>5. ASSUME old # "none", pending_reveals' = [pending_reveals EXCEPT ![i] = "orphan"],
               Goto(b, Idle), rx' = Closed(old)
        PROVE  IInv'
    <3>1. /\ \A d \in Calls : call'[d] = IF d = b THEN Idle ELSE call[d]
          /\ \A j \in Indices : pending_reveals'[j] = IF j = i THEN "orphan" ELSE pending_reveals[j]
          /\ \A d \in BCall : rx'[d] = IF d = old THEN "closed" ELSE rx[d]
      BY <1>0, <2>1, <2>5 DEF Goto, TypeOK, Closed
    <3>2. PendingMatchesWaiter'
      BY <2>1, <2>3, <3>1, Helpers, Records DEF IInv, PendingMatchesWaiter
    <3>3. PendingAuth'
      BY <2>1, <2>3, <3>1 DEF IInv, PendingAuth
    <3>4. \A d \in BCall : rx'[d] \in Value => rx'[d] = rx[d] /\ d # b
      BY <2>1, <3>1 DEF IInv, RxGood, Value
    <3> QED BY <1>0, <2>3, <2>5, <3>2, <3>3, <3>4, Records, BobMoves
  <2> QED BY <1>1, <2>4, <2>5 DEF AwaitIncoming
<1>2. CASE AwaitTimeout(b)
  <2> DEFINE i == call[b].idx
             r == AfterError(b, TRUE)
  <2>1. call[b].pc = "open" /\ rx[b] = "open" /\ i \in Indices /\ i \in auth["Bob"]
    BY <1>0, <1>2 DEF AwaitTimeout
  <2>2. /\ r \in CallRecord /\ r.pc \in {"idle", "reconcile"}
        /\ r.pc # "idle" => r.idx = i
    BY <1>0, <2>1, AfterErrorType
  <2>3. Goto(b, r) /\ UNCHANGED <<auth, known_secrets, durable>>
    BY <1>2 DEF AwaitTimeout, store
  <2> HIDE DEF r
  <2>4. /\ \A d \in Calls : call'[d] = IF d = b THEN r ELSE call[d]
        /\ \A j \in Indices : pending_reveals'[j] = IF j = i THEN "none" ELSE pending_reveals[j]
        /\ \A d \in BCall : rx'[d] = IF d = b \/ d = pending_reveals[i] THEN "closed" ELSE rx[d]
    <3>1. rx' = [Closed(pending_reveals[i]) EXCEPT ![b] = "closed"]
      BY <1>2 DEF AwaitTimeout
    <3>2. \A d \in BCall : Closed(pending_reveals[i])[d]
                             = IF d = pending_reveals[i] THEN "closed" ELSE rx[d]
      BY <1>0 DEF Closed, TypeOK
    <3>3. \A d \in BCall : rx'[d] = IF d = b \/ d = pending_reveals[i] THEN "closed" ELSE rx[d]
      BY <1>0, <3>1, <3>2, TableType
    <3>4. \A j \in Indices : pending_reveals'[j] = IF j = i THEN "none" ELSE pending_reveals[j]
      BY <1>0, <1>2, <2>1 DEF AwaitTimeout, TypeOK
    <3> QED BY <1>0, <2>3, <3>3, <3>4 DEF Goto, TypeOK
  <2>5. \A a \in ACall : /\ rpc'[a].st = rpc[a].st /\ rpc'[a].idx = rpc[a].idx
                         /\ rpc'[a].by = IF rpc[a].by = b THEN "orphan" ELSE rpc[a].by
    BY <1>0, <1>2, TableType DEF AwaitTimeout
  <2>6. PendingMatchesWaiter'
    BY <2>1, <2>4, <2>5, Helpers DEF IInv, PendingMatchesWaiter
  <2>7. PendingAuth'
    BY <2>3, <2>4 DEF IInv, PendingAuth
  <2>8. \A d \in BCall : rx'[d] \in Value => rx'[d] = rx[d] /\ d # b
    BY <2>4 DEF Value
  <2> QED BY <1>0, <2>1, <2>2, <2>3, <2>5, <2>6, <2>7, <2>8, BobMoves
<1>3. CASE AwaitResult(b)
  <2> DEFINE q == [call[b] EXCEPT !.pc = "store", !.val = rx[b]]
             r == IF rx[b] \in Value THEN q ELSE AfterError(b, rx[b] = "miss")
  <2>1. call[b].pc = "open" /\ rx[b] # "open" /\ call[b].idx \in auth["Bob"]
    BY <1>0, <1>3 DEF AwaitResult
  <2>2. rx[b] \in Value => /\ q \in CallRecord /\ q.idx = call[b].idx
                           /\ q.pc = "store" /\ q.val = rx[b]
    BY <1>0 DEF CallRecord
  <2>3. rx[b] \in Value => rx[b] = "good" /\ call[b].idx \in Both
    BY DEF IInv, RxGood
  <2>4. /\ r \in CallRecord
        /\ r.pc \in {"idle", "reconcile", "store"}
        /\ r.pc # "idle" => r.idx = call[b].idx
        /\ r.pc = "store" => r.val = "good" /\ r.idx \in Both
    <3>1. CASE rx[b] \in Value
      <4> HIDE DEF q
      <4> QED BY <2>2, <2>3, <3>1
    <3>2. CASE rx[b] \notin Value
      BY <1>0, <2>1, <3>2, AfterErrorType
    <3> QED BY <3>1, <3>2
  <2>5. /\ Goto(b, r) /\ UNCHANGED <<pending_reveals, rpc, auth, known_secrets, durable>>
        /\ rx' = [rx EXCEPT ![b] = "closed"]
    BY <1>3 DEF AwaitResult, store
  <2> HIDE DEF r
  <2>6. /\ \A d \in Calls : call'[d] = IF d = b THEN r ELSE call[d]
        /\ \A d \in BCall : rx'[d] = IF d = b THEN "closed" ELSE rx[d]
    BY <1>0, <2>5 DEF Goto, TypeOK
  <2>7. PendingMatchesWaiter'
    BY <2>1, <2>5, <2>6, Helpers DEF IInv, PendingMatchesWaiter
  <2>8. PendingAuth'
    BY <2>5 DEF IInv, PendingAuth
  <2> QED BY <1>0, <2>1, <2>4, <2>5, <2>6, <2>7, <2>8, BobMoves DEF Value
<1>4. CASE CancelAwait(b)
  <2> DEFINE i == call[b].idx
  <2>1. call[b].pc = "open" /\ i \in Indices /\ i \in auth["Bob"]
    BY <1>0, <1>4 DEF CancelAwait
  <2>2. Goto(b, Idle) /\ UNCHANGED <<auth, known_secrets, durable>>
    BY <1>4 DEF CancelAwait, store
  <2>3. /\ \A d \in Calls : call'[d] = IF d = b THEN Idle ELSE call[d]
        /\ \A j \in Indices : pending_reveals'[j] =
              IF j = i /\ pending_reveals[i] = b THEN "orphan" ELSE pending_reveals[j]
        /\ \A d \in BCall : rx'[d] = IF d = b THEN "closed" ELSE rx[d]
    BY <1>0, <1>4, <2>1, <2>2 DEF CancelAwait, Goto, TypeOK
  <2>4. \A a \in ACall : /\ rpc'[a].st = rpc[a].st /\ rpc'[a].idx = rpc[a].idx
                         /\ rpc'[a].by = IF rpc[a].by = b THEN "orphan" ELSE rpc[a].by
    BY <1>0, <1>4, TableType DEF CancelAwait
  <2>5. PendingMatchesWaiter'
    BY <2>1, <2>3, <2>4, Helpers, Records DEF IInv, PendingMatchesWaiter
  <2>6. PendingAuth'
    BY <2>1, <2>2, <2>3 DEF IInv, PendingAuth
  <2>7. \A d \in BCall : rx'[d] \in Value => rx'[d] = rx[d] /\ d # b
    BY <2>3 DEF Value
  <2> QED BY <1>0, <2>2, <2>4, <2>5, <2>6, <2>7, Records, BobMoves
<1> QED BY <1>1, <1>2, <1>3, <1>4 DEF BobStep

\* Bob's handler answers the call whose authorisation it took.
LEMMA HandlerStepSafe ==
    ASSUME IInv, NEW a \in ACall, HandlerStep(a)
    PROVE  IInv'
<1>0. /\ TypeOK /\ TypeOK'
      /\ rpc[a] \in RpcRecord
      /\ rpc[a].st # "none" => rpc[a].idx \in Indices
  BY HandlerStepType DEF IInv, TypeOK
<1>1. ASSUME NEW q \in RpcRecord, rpc' = [rpc EXCEPT ![a] = q],
             q.st # "none" => q.idx = rpc[a].idx /\ rpc[a].st # "none",
             q.st \in {"taken", "loaded", "ok"} => q.idx \in auth["Bob"],
             call[a].pc = "open" => q.st # "none",
             PendingMatchesWaiter', PendingAuth', RxGood', StoreGood',
             UNCHANGED <<call, auth>>
      PROVE  IInv'
  <2>1. /\ \A d \in ACall : rpc'[d] = IF d = a THEN q ELSE rpc[d]
        /\ Both' = Both
    BY <1>0, <1>1 DEF TypeOK, Both
  <2>2. CallAuth' /\ RpcAuth' /\ RpcMatches' /\ CallGood'
    BY <1>1, <2>1 DEF IInv, CallAuth, RpcAuth, RpcMatches, CallGood
  <2> QED BY <1>0, <1>1, <2>2 DEF IInv
<1>2. ASSUME NEW q \in RpcRecord, rpc' = [rpc EXCEPT ![a] = q], q.by = "none",
             NEW v, rx' = Answered(a, v), rpc[a].st # "none",
             v \in Value => v = "good" /\ rpc[a].idx \in Both,
             UNCHANGED <<call, pending_reveals, auth>>
      PROVE  PendingMatchesWaiter' /\ RxGood'
  <2>1. /\ \A d \in ACall : rpc'[d] = IF d = a THEN q ELSE rpc[d]
        /\ \A b \in BCall : rx'[b] = IF b = rpc[a].by THEN v ELSE rx[b]
        /\ Both' = Both
    BY <1>0, <1>2 DEF TypeOK, Both, Answered
  <2>2. PendingMatchesWaiter'
    BY <1>2, <2>1, Helpers DEF IInv, PendingMatchesWaiter
  <2>3. RxGood'
    BY <1>2, <2>1 DEF IInv, RxGood, PendingMatchesWaiter
  <2> QED BY <2>2, <2>3
<1>3. CASE HandlerTake(a)
  <2> DEFINE i == rpc[a].idx
             q == [rpc[a] EXCEPT !.st = "taken", !.by = pending_reveals[i]]
  <2>1. /\ rpc[a].st = "sent" /\ i \in Indices /\ pending_reveals[i] # "none"
        /\ pending_reveals[i] \in BCall \cup {"none", "orphan"}
        /\ UNCHANGED <<call, auth, rx, known_secrets, durable>>
    BY <1>0, <1>3 DEF HandlerTake, TypeOK, store
  <2>2. q \in RpcRecord /\ q.idx = i /\ q.st = "taken" /\ q.by = pending_reveals[i]
    BY <1>0, <2>1 DEF RpcRecord
  <2>3. /\ rpc' = [rpc EXCEPT ![a] = q]
        /\ \A j \in Indices : pending_reveals'[j] = IF j = i THEN "none" ELSE pending_reveals[j]
    <3>1. rpc' = [rpc EXCEPT ![a] = q]
      <4>1. rpc \in [ACall -> RpcRecord]
        BY <1>0 DEF TypeOK
      <4> QED BY <1>3, <4>1 DEF HandlerTake, RpcRecord
    <3>2. pending_reveals' = [pending_reveals EXCEPT ![i] = "none"]
      BY <1>3 DEF HandlerTake
    <3> QED BY <1>0, <2>1, <3>1, <3>2 DEF TypeOK
  <2> HIDE DEF q
  <2>4. \A d \in ACall : rpc'[d] = IF d = a THEN q ELSE rpc[d]
    BY <1>0, <2>3 DEF TypeOK
  <2>5. PendingMatchesWaiter'
    BY <2>1, <2>2, <2>3, <2>4, Helpers DEF IInv, PendingMatchesWaiter
  <2>6. PendingAuth' /\ i \in auth["Bob"]
    BY <2>1, <2>3 DEF IInv, PendingAuth
  <2>7. RxGood'
    BY <2>1 DEF IInv, RxGood, Both
  <2>8. StoreGood'
    BY <2>1, StoreKept
  <2> QED BY <1>1, <2>1, <2>2, <2>3, <2>5, <2>6, <2>7, <2>8
<1>4. CASE HandlerTimeout(a)
  <2> DEFINE q == [rpc[a] EXCEPT !.st = "err"]
  <2>1. rpc[a].st = "sent" /\ UNCHANGED <<call, auth, rx, pending_reveals, known_secrets, durable>>
    BY <1>4 DEF HandlerTimeout, store
  <2>2. q \in RpcRecord /\ q.idx = rpc[a].idx /\ q.st = "err" /\ q.by = rpc[a].by
    BY <1>0 DEF RpcRecord
  <2>3. rpc' = [rpc EXCEPT ![a] = q]
    BY <1>0, <1>4 DEF HandlerTimeout, TypeOK
  <2> HIDE DEF q
  <2>4. \A d \in ACall : rpc'[d] = IF d = a THEN q ELSE rpc[d]
    BY <1>0, <2>3 DEF TypeOK
  <2>5. PendingMatchesWaiter'
    BY <2>1, <2>2, <2>4 DEF IInv, PendingMatchesWaiter
  <2>6. PendingAuth' /\ RxGood' /\ StoreGood'
    BY <2>1, StoreKept DEF IInv, PendingAuth, RxGood, Both
  <2> QED BY <1>1, <2>1, <2>2, <2>3, <2>5, <2>6
<1>5. CASE HandlerLoad(a)
  <2> DEFINE g == frontier_nodes["Bob"][rpc[a].idx]
             q == [rpc[a] EXCEPT !.st = "loaded", !.node = g]
             n == [rpc[a] EXCEPT !.st = "miss", !.by = "none"]
  <2>1. /\ rpc[a].st = "taken" /\ rpc[a].idx \in auth["Bob"] /\ g \in Gen
        /\ UNCHANGED <<call, auth, pending_reveals, known_secrets, durable>>
    BY <1>0, <1>5, Helpers DEF HandlerLoad, store, IInv, RpcAuth, TypeOK, Nodes
  <2>2. /\ q \in RpcRecord /\ q.idx = rpc[a].idx /\ q.st = "loaded" /\ q.by = rpc[a].by
        /\ n \in RpcRecord /\ n.idx = rpc[a].idx /\ n.st = "miss" /\ n.by = "none"
    BY <1>0, <2>1 DEF RpcRecord
  <2>3. PendingAuth' /\ StoreGood'
    BY <2>1, StoreKept DEF IInv, PendingAuth
  <2>4. ASSUME rpc' = [rpc EXCEPT ![a] = q], UNCHANGED rx
        PROVE  IInv'
    <3> HIDE DEF q
    <3>1. \A d \in ACall : rpc'[d] = IF d = a THEN q ELSE rpc[d]
      BY <1>0, <2>4 DEF TypeOK
    <3>2. PendingMatchesWaiter'
      BY <2>1, <2>2, <2>4, <3>1 DEF IInv, PendingMatchesWaiter
    <3>3. RxGood'
      BY <2>1, <2>4 DEF IInv, RxGood, Both
    <3> QED BY <1>1, <2>1, <2>2, <2>3, <2>4, <3>2, <3>3
  <2>5. ASSUME rpc' = [rpc EXCEPT ![a] = n], rx' = Answered(a, "miss")
        PROVE  IInv'
    <3> HIDE DEF n
    <3>1. PendingMatchesWaiter' /\ RxGood'
      BY <1>2, <2>1, <2>2, <2>5 DEF Value
    <3> QED BY <1>1, <2>1, <2>2, <2>3, <2>5, <3>1
  <2> QED BY <1>0, <1>5, <2>4, <2>5 DEF HandlerLoad, TypeOK
<1>6. CASE HandlerComplete(a)
  <2> DEFINE v == Opened(rpc[a].node, rpc[a].gen)
             i == rpc[a].idx
             q == [rpc[a] EXCEPT !.st = "ok", !.by = "none"]
             n == [rpc[a] EXCEPT !.st = "err", !.by = "none"]
  <2>1. /\ rpc[a].st = "loaded" /\ i \in auth["Bob"] /\ i \in Both /\ i \in Indices
        /\ UNCHANGED <<call, auth, pending_reveals, durable>>
    BY <1>0, <1>6 DEF HandlerComplete, IInv, RpcAuth, Both
  <2>2. /\ q \in RpcRecord /\ q.idx = i /\ q.st = "ok" /\ q.by = "none"
        /\ n \in RpcRecord /\ n.idx = i /\ n.st = "err" /\ n.by = "none"
    BY <1>0 DEF RpcRecord
  <2>3. PendingAuth'
    BY <2>1 DEF IInv, PendingAuth
  <2>4. ASSUME MacVerifies(rpc[a].node, rpc[a].gen), store_known_secret("Bob", i, v),
               rx' = Answered(a, v), rpc' = [rpc EXCEPT ![a] = q]
        PROVE  IInv'
    <3>1. v = "good"
      BY <2>4 DEF MacVerifies, Opened
    <3>2. /\ known_secrets["Bob"] \in Secrets /\ Good(known_secrets["Bob"])
          /\ known_secrets' = [known_secrets EXCEPT !["Bob"] =
                                  StoredSecrets(known_secrets["Bob"], i, "good")]
      BY <1>0, <2>4, <3>1, Helpers DEF store_known_secret, IInv, StoreGood, TypeOK
    <3>3. Good(StoredSecrets(known_secrets["Bob"], i, "good"))
      BY <2>1, <3>2, StoredGood
    <3> HIDE DEF v, i, q
    <3>4. StoreGood'
      BY <1>0, <2>1, <3>2, <3>3 DEF IInv, StoreGood, Good, Both, TypeOK
    <3>5. PendingMatchesWaiter' /\ RxGood'
      BY <1>2, <2>1, <2>2, <2>4, <3>1 DEF i
    <3> QED BY <1>1, <2>1, <2>2, <2>3, <2>4, <3>4, <3>5 DEF i
  <2>5. ASSUME rpc' = [rpc EXCEPT ![a] = n], rx' = Answered(a, "err"), UNCHANGED store
        PROVE  IInv'
    <3> HIDE DEF n
    <3>1. StoreGood'
      BY <2>1, <2>5, StoreKept DEF store
    <3>2. PendingMatchesWaiter' /\ RxGood'
      BY <1>2, <2>1, <2>2, <2>5 DEF Value
    <3> QED BY <1>1, <2>1, <2>2, <2>3, <2>5, <3>1, <3>2
  <2> QED BY <1>0, <1>6, <2>4, <2>5 DEF HandlerComplete, TypeOK
<1>7. CASE HandlerDropped(a)
  <2>1. /\ rpc[a].st # "none" /\ call[a].pc # "open"
        /\ rpc' = [rpc EXCEPT ![a] = NoRpc]
        /\ rx' = Answered(a, "closed")
        /\ UNCHANGED <<call, auth, pending_reveals, known_secrets, durable>>
    BY <1>7 DEF HandlerDropped, store, Closed, Answered
  <2>2. NoRpc \in RpcRecord /\ NoRpc.st = "none" /\ NoRpc.by = "none"
    BY Records DEF NoRpc
  <2>3. PendingMatchesWaiter' /\ RxGood'
    BY <1>2, <2>1, <2>2 DEF Value
  <2>4. PendingAuth' /\ StoreGood'
    BY <2>1, StoreKept DEF IInv, PendingAuth
  <2> QED BY <1>1, <2>1, <2>2, <2>3, <2>4
<1> QED BY <1>3, <1>4, <1>5, <1>6, <1>7 DEF HandlerStep

\* Full derivation opens what both sides asked for.
LEMMA FullDerivationSafe ==
    ASSUME IInv, NEW a \in ACall, NEW b \in BCall, FullDerivation(a, b)
    PROVE  IInv'
<1> DEFINE v == IF call[a].idx = call[b].idx THEN "good" ELSE "bad"
           r(c) == [call[c] EXCEPT !.pc = "store", !.val = v]
<1>0. /\ TypeOK /\ TypeOK'
      /\ a \in Calls /\ b \in Calls /\ Owner(a) = "Alice" /\ Owner(b) = "Bob"
      /\ UNCHANGED <<rx, pending_reveals, rpc, auth, known_secrets, durable>>
  BY FullDerivationType, Helpers DEF IInv, FullDerivation, store
<1>1. /\ v = "good" /\ call[a].pc = "full" /\ call[b].pc = "full"
      /\ call[a].idx \in Both /\ call[b].idx \in Both
  BY <1>0 DEF FullDerivation, DigestsMatch, IInv, CallAuth, Both
<1>2. \A c \in {a, b} : r(c).idx = call[c].idx /\ r(c).pc = "store" /\ r(c).val = "good"
  <2> SUFFICES ASSUME NEW c \in {a, b}
               PROVE  r(c).idx = call[c].idx /\ r(c).pc = "store" /\ r(c).val = "good"
    OBVIOUS
  <2>1. call[c] \in CallRecord
    BY <1>0 DEF TypeOK
  <2> HIDE DEF v
  <2> QED BY <1>1, <2>1 DEF CallRecord
<1>3. PICK done \in SUBSET {a, b} :
         call' = [c \in Calls |-> IF c \in done THEN r(c)
                                  ELSE IF c \in {a, b} THEN Idle ELSE call[c]]
  BY DEF FullDerivation
<1> HIDE DEF r
<1>4. \A c \in Calls : /\ c \notin {a, b} => call'[c] = call[c]
                       /\ c \in {a, b} => /\ call'[c].pc \in {"idle", "store"}
                                          /\ call'[c].pc = "store" =>
                                                /\ call'[c].val = "good"
                                                /\ call'[c].idx = call[c].idx
  BY <1>2, <1>3, Records
<1>5. PendingMatchesWaiter'
  BY <1>0, <1>1, <1>4, Helpers DEF IInv, PendingMatchesWaiter
<1>6. CallAuth' /\ PendingAuth' /\ RpcAuth'
  BY <1>0, <1>1, <1>4 DEF IInv, CallAuth, PendingAuth, RpcAuth
<1>7. RpcMatches'
  BY <1>0, <1>4, Helpers DEF IInv, RpcMatches
<1>8. RxGood' /\ CallGood'
  BY <1>0, <1>1, <1>4, Helpers DEF IInv, RxGood, CallGood, Both
<1>9. StoreGood'
  BY <1>0, StoreKept
<1> QED BY <1>0, <1>5, <1>6, <1>7, <1>8, <1>9 DEF IInv

\* Background precompute opens nothing.
LEMMA SchedulerSafe ==
    ASSUME IInv, Scheduler \/ \E p \in Party : StorePrecomputed(p)
    PROVE  IInv'
<1>1. UNCHANGED <<call, rx, pending_reveals, rpc, auth, known_secrets, durable>>
  BY DEF Scheduler, SchedulerFetch, SchedulerDrop, JointPrecompute, SchedulerStops,
         StorePrecomputed, store, reveal
<1>2. TypeOK'
  BY SchedulerType DEF IInv
<1>3. PendingMatchesWaiter' /\ CallAuth' /\ PendingAuth' /\ RpcAuth' /\ RpcMatches'
  BY <1>1 DEF IInv, PendingMatchesWaiter, CallAuth, PendingAuth, RpcAuth, RpcMatches
<1>4. RxGood' /\ CallGood'
  BY <1>1 DEF IInv, RxGood, CallGood, Both
<1>5. StoreGood'
  BY <1>1, StoreKept
<1> QED BY <1>2, <1>3, <1>4, <1>5 DEF IInv

\* A restart forgets what was in progress and reloads an earlier store.
LEMMA PersistenceSafe ==
    ASSUME IInv, NEW p \in Party, Checkpoint(p) \/ Restart(p)
    PROVE  IInv'
<1>0. TypeOK /\ TypeOK'
  BY PersistenceType DEF IInv
<1>1. CASE Checkpoint(p)
  <2>1. UNCHANGED <<call, rx, pending_reveals, rpc, auth, known_secrets>>
    BY <1>1 DEF Checkpoint, store, reveal
  <2>2. PendingMatchesWaiter' /\ CallAuth' /\ PendingAuth' /\ RpcAuth' /\ RpcMatches'
    BY <2>1 DEF IInv, PendingMatchesWaiter, CallAuth, PendingAuth, RpcAuth, RpcMatches
  <2>3. RxGood' /\ CallGood'
    BY <2>1 DEF IInv, RxGood, CallGood, Both
  <2>4. \A q \in Party : durable'[q].secrets \in {durable[q].secrets, known_secrets[q]}
    BY <1>0, <1>1 DEF Checkpoint, TypeOK
  <2>5. StoreGood'
    BY <2>1, <2>4 DEF IInv, StoreGood, Good, Both
  <2> QED BY <1>0, <2>2, <2>3, <2>5 DEF IInv
<1>2. CASE Restart(p)
  <2>1. PICK db \in {durable[p], EmptyDb} :
           /\ known_secrets' = [known_secrets EXCEPT ![p] = db.secrets]
           /\ durable' = [durable EXCEPT ![p] = db]
    BY <1>2 DEF Restart
  <2>2. Good(db.secrets)
    BY DEF IInv, StoreGood, Good, EmptyDb
  <2>3. auth' = auth /\ Both' = Both
    BY <1>2 DEF Restart, Both
  <2>4. StoreGood'
    BY <1>0, <2>1, <2>2, <2>3 DEF IInv, StoreGood, Good, TypeOK
  <2>5. \A c \in Calls : call'[c] = Idle \/ call'[c] = call[c]
    BY <1>2 DEF Restart
  <2>6. CallAuth' /\ CallGood'
    BY <2>3, <2>5, Records DEF IInv, CallAuth, CallGood
  <2>7. CASE p = "Bob"
    <3>1. /\ \A b \in BCall : rx'[b] = "closed"
          /\ \A i \in Indices : pending_reveals'[i] = "none"
          /\ \A a \in ACall : rpc'[a] = NoRpc /\ call'[a].pc # "open"
      BY <1>2, <2>7, Helpers, Records DEF Restart
    <3>2. PendingMatchesWaiter' /\ PendingAuth'
      BY <3>1, Helpers DEF PendingMatchesWaiter, PendingAuth, NoRpc
    <3>3. RpcAuth' /\ RpcMatches' /\ RxGood'
      BY <3>1, Records DEF RpcAuth, RpcMatches, RxGood, Value
    <3> QED BY <1>0, <2>4, <2>6, <3>2, <3>3 DEF IInv
  <2>8. CASE p = "Alice"
    <3>1. /\ UNCHANGED <<rx, pending_reveals, rpc>>
          /\ \A b \in BCall : call'[b] = call[b]
          /\ \A a \in ACall : call'[a] = Idle
      BY <1>2, <2>8, Helpers, CallAssumption DEF Restart
    <3>2. PendingMatchesWaiter' /\ PendingAuth' /\ RpcAuth'
      BY <2>3, <3>1 DEF IInv, PendingMatchesWaiter, PendingAuth, RpcAuth
    <3>3. RpcMatches' /\ RxGood'
      BY <2>3, <3>1, Records DEF IInv, RpcMatches, RxGood
    <3> QED BY <1>0, <2>4, <2>6, <3>2, <3>3 DEF IInv
  <2> QED BY <2>7, <2>8 DEF Party
<1> QED BY <1>1, <1>2

\* Every step keeps the invariant.
LEMMA NextIInv == IInv /\ [Next]_vars => IInv'
<1> SUFFICES ASSUME IInv, [Next]_vars PROVE IInv'
  OBVIOUS
<1>1. CASE UNCHANGED vars
  <2>1. TypeOK'
    BY <1>1, NextTypeOK DEF IInv
  <2>2. PendingMatchesWaiter' /\ CallAuth' /\ PendingAuth' /\ RpcAuth' /\ RpcMatches'
    BY <1>1 DEF vars, IInv, PendingMatchesWaiter, CallAuth, PendingAuth, RpcAuth, RpcMatches
  <2>3. RxGood' /\ CallGood' /\ StoreGood'
    BY <1>1 DEF vars, IInv, RxGood, CallGood, StoreGood, Good, Both
  <2> QED BY <2>1, <2>2, <2>3 DEF IInv
<1>2. CASE Next
  BY <1>2, BeginSafe, CallStepSafe, AliceStepSafe, HandlerStepSafe, BobStepSafe,
     FullDerivationSafe, SchedulerSafe, PersistenceSafe DEF Next
<1> QED BY <1>1, <1>2

\* Senders and waiting calls stay matched (the pending-reveal table of state.rs
\* and the handlers that take from it), for any number of calls on both sides.
THEOREM WaitersMatched == Spec => []PendingMatchesWaiter
<1>1. IInv => PendingMatchesWaiter
  BY DEF IInv
<1> QED BY <1>1, InitIInv, NextIInv, PTL DEF Spec

\* A daemon holds a secret only if both operators declared its index next: the
\* expected_next_index check and take_pending_reveal suffice, whatever is lost,
\* cancelled, timed out or restarted.
THEOREM Authorization == Spec => []NoUnauthorizedReveal
<1>1. IInv => NoUnauthorizedReveal
  BY DEF IInv, StoreGood, Good, Both, NoUnauthorizedReveal, Party
<1> QED BY <1>1, InitIInv, NextIInv, PTL DEF Spec

\* No daemon stores a wrong secret: the MAC check of both sides of RevealCached
\* and the digest exchange of the full derivation suffice, whatever halves of
\* whatever joint runs meet.
THEOREM Correctness == Spec => []RevealedCorrect
<1>1. IInv => RevealedCorrect
  BY DEF IInv, StoreGood, Good, RevealedCorrect
<1> QED BY <1>1, InitIInv, NextIInv, PTL DEF Spec

-----------------------------------------------------------------------------
(* The shachain store. *)

\* How one step changes a daemon's store: not at all, by storing one right
\* secret, or by a restart.
LEMMA StoreChange ==
    ASSUME IInv, [Next]_vars, NEW p \in Party
    PROVE  \/ known_secrets'[p] = known_secrets[p]
           \/ \E i \in Indices : known_secrets'[p] = StoredSecrets(known_secrets[p], i, "good")
           \/ /\ crashes' # crashes
              /\ known_secrets'[p] \in {durable[p].secrets, EmptyDb.secrets}
<1>0. TypeOK
  BY DEF IInv
<1>1. ASSUME NEW c \in Calls, StoreRevealed(c)
      PROVE  \/ known_secrets'[p] = known_secrets[p]
             \/ \E i \in Indices : known_secrets'[p] = StoredSecrets(known_secrets[p], i, "good")
  <2>1. call[c].val = "good" /\ call[c].idx \in Indices
    BY <1>0, <1>1 DEF StoreRevealed, IInv, CallGood, TypeOK
  <2>2. known_secrets' = [known_secrets EXCEPT ![Owner(c)] =
                             StoredSecrets(known_secrets[Owner(c)], call[c].idx, "good")]
    BY <1>1, <2>1 DEF StoreRevealed, store_known_secret
  <2> QED BY <1>0, <2>1, <2>2 DEF TypeOK
<1>2. ASSUME NEW a \in ACall, HandlerComplete(a)
      PROVE  \/ known_secrets'[p] = known_secrets[p]
             \/ \E i \in Indices : known_secrets'[p] = StoredSecrets(known_secrets[p], i, "good")
  <2>1. rpc[a].idx \in Indices
    BY <1>0, <1>2 DEF HandlerComplete, TypeOK
  <2>2. CASE UNCHANGED store
    BY <2>2 DEF store
  <2>3. CASE MacVerifies(rpc[a].node, rpc[a].gen)
             /\ store_known_secret("Bob", rpc[a].idx, Opened(rpc[a].node, rpc[a].gen))
    <3>1. known_secrets' = [known_secrets EXCEPT !["Bob"] =
                               StoredSecrets(known_secrets["Bob"], rpc[a].idx, "good")]
      BY <2>3 DEF MacVerifies, Opened, store_known_secret
    <3> QED BY <1>0, <2>1, <3>1 DEF TypeOK
  <2> QED BY <1>2, <2>2, <2>3 DEF HandlerComplete
<1>3. ASSUME NEW q \in Party, Restart(q)
      PROVE  \/ known_secrets'[p] = known_secrets[p]
             \/ /\ crashes' # crashes
                /\ known_secrets'[p] \in {durable[p].secrets, EmptyDb.secrets}
  <2>1. crashes' # crashes
    BY <1>0, <1>3, BoundAssumption DEF Restart, TypeOK
  <2> QED BY <1>0, <1>3, <2>1 DEF Restart, TypeOK
<1>4. CASE UNCHANGED known_secrets
  BY <1>4
<1>5. \/ UNCHANGED known_secrets
      \/ \E c \in Calls : StoreRevealed(c)
      \/ \E a \in ACall : HandlerComplete(a)
      \/ \E q \in Party : Restart(q)
  <2>1. CASE UNCHANGED vars
    BY <2>1 DEF vars
  <2>2. ASSUME NEW c \in Calls, CallStep(c) \/ \E i, e \in Indices : BeginReveal(c, i, e)
        PROVE  UNCHANGED known_secrets \/ StoreRevealed(c)
    BY <2>2 DEF CallStep, BeginReveal, LoadMissing, FetchFrontier, FetchFails,
                DropUnmatched, FullDerivationFails, store
  <2>3. ASSUME NEW a \in ACall, AliceStep(a) \/ HandlerStep(a)
        PROVE  UNCHANGED known_secrets \/ HandlerComplete(a)
    BY <2>3 DEF AliceStep, SendRevealCached, RpcResponse, RpcLost, HandlerStep, HandlerTake,
                HandlerTimeout, HandlerLoad, HandlerDropped, store
  <2>4. ASSUME NEW b \in BCall, BobStep(b) \/ \E a \in ACall : FullDerivation(a, b)
        PROVE  UNCHANGED known_secrets
    BY <2>4 DEF BobStep, AwaitIncoming, AwaitTimeout, AwaitResult, CancelAwait,
                FullDerivation, store
  <2>5. ASSUME Scheduler \/ \E q \in Party : StorePrecomputed(q) \/ Checkpoint(q)
        PROVE  UNCHANGED known_secrets
    BY <2>5 DEF Scheduler, SchedulerFetch, SchedulerDrop, JointPrecompute, SchedulerStops,
                StorePrecomputed, Checkpoint, store
  <2> QED BY <2>1, <2>2, <2>3, <2>4, <2>5 DEF Next
<1> QED BY <1>1, <1>2, <1>3, <1>4, <1>5

Irredundant(s) ==
    \A i, j \in Indices : (s[i] # "none" /\ s[j] # "none" /\ CanDerive(i, j)) => i = j

\* The invariant of the store: what is held, in memory and on disk.
SInv == IInv /\ \A p \in Party : Irredundant(known_secrets[p])
                                 /\ Irredundant(durable[p].secrets)

\* Dropping what the new secret derives, and skipping a derivable one, is
\* enough to keep the store irredundant.
LEMMA StoredIrredundant ==
    ASSUME NEW s \in Secrets, Good(s), Irredundant(s), NEW i \in Indices
    PROVE  Irredundant(StoredSecrets(s, i, "good"))
<1> DEFINE redundant == \E j \in Indices : s[j] # "none" /\ Yields(j, s[j], i, "good")
           t == StoredSecrets(s, i, "good")
<1>1. CASE redundant
  BY <1>1 DEF StoredSecrets
<1>2. CASE ~redundant
  <2>1. \A j \in Indices : s[j] # "none" => ~CanDerive(j, i)
    BY <1>2 DEF Yields, Good
  <2>2. \A j \in Indices : t[j] # "none" => j = i \/ (s[j] # "none" /\ ~CanDerive(i, j))
    BY <1>2 DEF StoredSecrets, Yields, Good
  <2> HIDE DEF t
  <2> QED BY <2>1, <2>2 DEF Irredundant, t
<1> QED BY <1>1, <1>2

\* The store of a daemon, in memory and on disk, never holds a secret that
\* another one derives (store_known_secret), for any set of indices.
THEOREM StoreStaysIrredundant == Spec => []StoreIrredundant
<1>1. Init => SInv
  <2>1. ASSUME Init PROVE \A p \in Party : Irredundant(known_secrets[p])
                                           /\ Irredundant(durable[p].secrets)
    BY <2>1 DEF Init, Irredundant, EmptyDb
  <2> QED BY <2>1, InitIInv DEF SInv
<1>2. SInv /\ [Next]_vars => SInv'
  <2> SUFFICES ASSUME SInv, [Next]_vars PROVE SInv'
    OBVIOUS
  <2>1. IInv /\ IInv' /\ TypeOK
    BY NextIInv DEF SInv, IInv
  <2>2. Irredundant(EmptyDb.secrets)
    BY DEF Irredundant, EmptyDb
  <2>3. ASSUME NEW p \in Party PROVE Irredundant(known_secrets'[p])
    <3>1. known_secrets[p] \in Secrets /\ Good(known_secrets[p])
          /\ Irredundant(known_secrets[p]) /\ Irredundant(durable[p].secrets)
      BY <2>1 DEF SInv, IInv, StoreGood, TypeOK
    <3> QED BY <2>1, <2>2, <3>1, StoreChange, StoredIrredundant
  <2>4. ASSUME NEW p \in Party
        PROVE  durable'[p].secrets \in {durable[p].secrets, known_secrets[p], EmptyDb.secrets}
    <3>1. UNCHANGED durable \/ \E q \in Party : Checkpoint(q) \/ Restart(q)
      BY DEF Next, vars, CallStep, BeginReveal, LoadMissing, FetchFrontier, FetchFails,
             DropUnmatched, FullDerivationFails, StoreRevealed, AliceStep, SendRevealCached,
             RpcResponse, RpcLost, HandlerStep, HandlerTake, HandlerTimeout, HandlerLoad,
             HandlerComplete, HandlerDropped, BobStep, AwaitIncoming, AwaitTimeout,
             AwaitResult, CancelAwait, FullDerivation, Scheduler, SchedulerFetch,
             SchedulerDrop, JointPrecompute, SchedulerStops, StorePrecomputed
    <3>2. ASSUME NEW q \in Party, Checkpoint(q)
          PROVE  durable'[p].secrets \in {durable[p].secrets, known_secrets[p]}
      BY <2>1, <3>2 DEF Checkpoint, TypeOK
    <3>3. ASSUME NEW q \in Party, Restart(q)
          PROVE  durable'[p].secrets \in {durable[p].secrets, EmptyDb.secrets}
      BY <2>1, <3>3 DEF Restart, TypeOK
    <3> QED BY <3>1, <3>2, <3>3
  <2>5. \A p \in Party : Irredundant(durable'[p].secrets)
    BY <2>2, <2>4 DEF SInv
  <2>6. \A p \in Party : Irredundant(known_secrets[p])' /\ Irredundant(durable[p].secrets)'
    BY <2>3, <2>5 DEF Irredundant
  <2> QED BY <2>1, <2>6 DEF SInv
<1>3. SInv => StoreIrredundant
  BY DEF SInv, Irredundant, StoreIrredundant
<1> QED BY <1>1, <1>2, <1>3, PTL DEF Spec

\* Derivation composes: what the dropped secret derived, the new one derives.
LEMMA CanDeriveTransitive ==
    ASSUME NEW i, NEW j, NEW k, CanDerive(i, j), CanDerive(j, k)
    PROVE  CanDerive(i, k)
BY DEF CanDerive

DerivableFrom(s, k) == \E j \in Indices : s[j] # "none" /\ CanDerive(j, k)

\* Storing a secret loses no derivable one.
LEMMA StoredKeepsDerivable ==
    ASSUME NEW s \in Secrets, Good(s), NEW i \in Indices, NEW k \in Indices,
           DerivableFrom(s, k)
    PROVE  DerivableFrom(StoredSecrets(s, i, "good"), k)
<1> DEFINE redundant == \E j \in Indices : s[j] # "none" /\ Yields(j, s[j], i, "good")
           t == StoredSecrets(s, i, "good")
<1>1. CASE redundant
  BY <1>1 DEF StoredSecrets
<1>2. CASE ~redundant
  <2>1. PICK j \in Indices : s[j] # "none" /\ CanDerive(j, k)
    BY DEF DerivableFrom
  <2>2. t[i] # "none" /\ (t[j] # "none" \/ CanDerive(i, j))
    BY <1>2, <2>1 DEF StoredSecrets, Yields
  <2> HIDE DEF t
  <2>3. CASE t[j] # "none"
    BY <2>1, <2>3 DEF DerivableFrom, t
  <2>4. CASE CanDerive(i, j)
    BY <2>1, <2>2, <2>4, CanDeriveTransitive DEF DerivableFrom, t
  <2> QED BY <2>2, <2>3, <2>4
<1> QED BY <1>1, <1>2

\* What a daemon can derive it can still derive after any step but a restart
\* (store_known_secret's drop rule), for any set of indices.
THEOREM DerivableForGood == Spec => SecretsStayDerivable
<1>1. IInv /\ [Next]_vars =>
         [\A p \in Party, i \in Indices :
             (Derivable(p, i) /\ crashes' = crashes) => Derivable(p, i)']_vars
  <2> SUFFICES ASSUME IInv, [Next]_vars, NEW p \in Party, NEW k \in Indices,
                      Derivable(p, k), crashes' = crashes
               PROVE  Derivable(p, k)'
    OBVIOUS
  <2>1. known_secrets[p] \in Secrets /\ Good(known_secrets[p]) /\ DerivableFrom(known_secrets[p], k)
    BY DEF IInv, TypeOK, StoreGood, Derivable, DerivableFrom
  <2>2. DerivableFrom(known_secrets'[p], k)
    BY <2>1, StoreChange, StoredKeepsDerivable
  <2> QED BY <2>2 DEF Derivable, DerivableFrom
<1> QED BY <1>1, InitIInv, NextIInv, PTL DEF Spec, SecretsStayDerivable

-----------------------------------------------------------------------------
(* The refinement of JointReveal.                                          *)

\* A database never answers more than the memory it lags behind.
Lags == \A p \in Party, k \in Indices :
    DerivableFrom(durable[p].secrets, k) => DerivableFrom(known_secrets[p], k)

RInv == IInv /\ Lags

\* A right store answers "good" for what it derives and nothing else.
LEMMA GoodAnswer ==
    ASSUME NEW s \in Secrets, Good(s), NEW k \in Indices
    PROVE  Answer(s, k) = IF DerivableFrom(s, k) THEN "good" ELSE "none"
<1>1. CanDerive(k, k)
  BY DEF CanDerive
<1>2. \A j \in Indices : s[j] \in {"good", "none"}
  BY DEF Good, Secrets, Value
<1>3. (\E j \in Indices : s[j] = "good" /\ CanDerive(j, k)) <=> DerivableFrom(s, k)
  BY <1>2 DEF DerivableFrom
<1>4. s[k] = "good" => DerivableFrom(s, k)
  BY <1>1 DEF DerivableFrom
<1> QED BY <1>2, <1>3, <1>4 DEF Answer

\* Storing the secret of i adds what it derives to what was derivable.
LEMMA StoredDerives ==
    ASSUME NEW s \in Secrets, Good(s), NEW i \in Indices, NEW k \in Indices
    PROVE  DerivableFrom(StoredSecrets(s, i, "good"), k)
              <=> DerivableFrom(s, k) \/ CanDerive(i, k)
<1> DEFINE redundant == \E j \in Indices : s[j] # "none" /\ Yields(j, s[j], i, "good")
           t == StoredSecrets(s, i, "good")
<1>1. DerivableFrom(s, k) => DerivableFrom(t, k)
  BY StoredKeepsDerivable
<1>2. CASE redundant
  <2>1. t = s
    BY <1>2 DEF StoredSecrets
  <2>2. PICK j \in Indices : s[j] # "none" /\ CanDerive(j, i)
    BY <1>2 DEF Yields
  <2>3. CanDerive(i, k) => DerivableFrom(s, k)
    BY <2>2, CanDeriveTransitive DEF DerivableFrom
  <2> QED BY <2>1, <2>3
<1>3. CASE ~redundant
  <2>1. \A j \in Indices : t[j] # "none" => j = i \/ s[j] # "none"
    BY <1>3 DEF StoredSecrets
  <2>2. t[i] # "none"
    BY <1>3 DEF StoredSecrets
  <2> HIDE DEF t
  <2> QED BY <1>1, <2>1, <2>2 DEF DerivableFrom, t
<1> QED BY <1>2, <1>3

-----------------------------------------------------------------------------
(* What a step does to what the abstract specification sees. *)

Asks(p, i) == auth' = [auth EXCEPT ![p] = @ \cup {i}]
              /\ UNCHANGED <<known_secrets, crashes>>
Stores(p, i) == known_secrets' = [known_secrets EXCEPT ![p] = StoredSecrets(@, i, "good")]
                /\ UNCHANGED <<auth, crashes>>

\* A step asks for an index, stores a secret both operators asked for, is a
\* restart, or changes nothing that shows.
LEMMA StepKinds ==
    ASSUME IInv, [Next]_vars
    PROVE  \/ UNCHANGED <<known_secrets, auth, crashes>>
           \/ \E p \in Party, i \in Indices : Asks(p, i)
           \/ \E p \in Party, i \in Indices : i \in Both /\ Stores(p, i)
           \/ \E p \in Party : Restart(p)
<1>0. TypeOK
  BY DEF IInv
<1>1. CASE UNCHANGED vars
  BY <1>1 DEF vars
<1>2. ASSUME NEW c \in Calls, NEW i \in Indices, NEW e \in Indices, BeginReveal(c, i, e)
      PROVE  Asks(Owner(c), e) /\ Owner(c) \in Party
  BY <1>2 DEF BeginReveal, Asks, store, Owner, Party
<1>3. ASSUME NEW c \in Calls, StoreRevealed(c)
      PROVE  \E p \in Party, i \in Indices : i \in Both /\ Stores(p, i)
  <2>1. call[c].val = "good" /\ call[c].idx \in Both /\ call[c].idx \in Indices
    BY <1>0, <1>3 DEF StoreRevealed, IInv, CallGood, TypeOK
  <2>2. Stores(Owner(c), call[c].idx) /\ Owner(c) \in Party
    BY <1>3, <2>1 DEF StoreRevealed, store_known_secret, Stores, Owner, Party
  <2> QED BY <2>1, <2>2
<1>4. ASSUME NEW c \in Calls, CallStep(c)
      PROVE  StoreRevealed(c) \/ UNCHANGED <<known_secrets, auth, crashes>>
  BY <1>4 DEF CallStep, LoadMissing, FetchFrontier, FetchFails, DropUnmatched,
              FullDerivationFails, store
<1>5. ASSUME NEW a \in ACall, HandlerComplete(a)
      PROVE  \/ UNCHANGED <<known_secrets, auth, crashes>>
             \/ \E p \in Party, i \in Indices : i \in Both /\ Stores(p, i)
  <2>1. rpc[a].idx \in Indices /\ rpc[a].idx \in Both
    BY <1>0, <1>5 DEF HandlerComplete, TypeOK, IInv, RpcAuth, Both
  <2>2. UNCHANGED <<auth, crashes>>
    BY <1>5 DEF HandlerComplete
  <2>3. CASE UNCHANGED store
    BY <2>2, <2>3 DEF store
  <2>4. CASE MacVerifies(rpc[a].node, rpc[a].gen)
             /\ store_known_secret("Bob", rpc[a].idx, Opened(rpc[a].node, rpc[a].gen))
    <3>1. Stores("Bob", rpc[a].idx)
      BY <2>2, <2>4 DEF MacVerifies, Opened, store_known_secret, Stores
    <3> QED BY <2>1, <3>1 DEF Party
  <2> QED BY <1>5, <2>3, <2>4 DEF HandlerComplete
<1>6. ASSUME NEW a \in ACall, AliceStep(a) \/ HandlerStep(a)
      PROVE  HandlerComplete(a) \/ UNCHANGED <<known_secrets, auth, crashes>>
  BY <1>6 DEF AliceStep, SendRevealCached, RpcResponse, RpcLost, HandlerStep, HandlerTake,
              HandlerTimeout, HandlerLoad, HandlerDropped, store
<1>7. ASSUME NEW b \in BCall, BobStep(b) \/ \E a \in ACall : FullDerivation(a, b)
      PROVE  UNCHANGED <<known_secrets, auth, crashes>>
  BY <1>7 DEF BobStep, AwaitIncoming, AwaitTimeout, AwaitResult, CancelAwait,
              FullDerivation, store
<1>8. ASSUME Scheduler \/ \E q \in Party : StorePrecomputed(q) \/ Checkpoint(q)
      PROVE  UNCHANGED <<known_secrets, auth, crashes>>
  BY <1>8 DEF Scheduler, SchedulerFetch, SchedulerDrop, JointPrecompute, SchedulerStops,
              StorePrecomputed, Checkpoint, store
<1> QED BY <1>1, <1>2, <1>3, <1>4, <1>5, <1>6, <1>7, <1>8 DEF Next

\* A database stays as it is, catches up with the memory, or is lost.
LEMMA DurableChange ==
    ASSUME IInv, [Next]_vars, NEW p \in Party
    PROVE  \/ durable'[p].secrets = durable[p].secrets
           \/ /\ durable'[p].secrets = known_secrets[p]
              /\ UNCHANGED known_secrets
           \/ durable'[p].secrets = known_secrets'[p]
<1>0. TypeOK
  BY DEF IInv
<1>1. UNCHANGED durable \/ \E q \in Party : Checkpoint(q) \/ Restart(q)
  BY DEF Next, vars, CallStep, BeginReveal, LoadMissing, FetchFrontier, FetchFails,
         DropUnmatched, FullDerivationFails, StoreRevealed, AliceStep, SendRevealCached,
         RpcResponse, RpcLost, HandlerStep, HandlerTake, HandlerTimeout, HandlerLoad,
         HandlerComplete, HandlerDropped, BobStep, AwaitIncoming, AwaitTimeout,
         AwaitResult, CancelAwait, FullDerivation, Scheduler, SchedulerFetch,
         SchedulerDrop, JointPrecompute, SchedulerStops, StorePrecomputed
<1>2. ASSUME NEW q \in Party, Checkpoint(q)
      PROVE  UNCHANGED known_secrets
             /\ durable'[p].secrets \in {durable[p].secrets, known_secrets[p]}
  BY <1>0, <1>2 DEF Checkpoint, TypeOK, store
<1>3. ASSUME NEW q \in Party, Restart(q)
      PROVE  durable'[p].secrets \in {durable[p].secrets, known_secrets'[p]}
  BY <1>0, <1>3 DEF Restart, TypeOK
<1> QED BY <1>1, <1>2, <1>3

\* A restart makes database and memory one; the other daemon is untouched.
LEMMA RestartEffect ==
    ASSUME TypeOK, NEW q \in Party, Restart(q)
    PROVE  /\ crashes' = crashes + 1 /\ UNCHANGED auth
           /\ known_secrets' = [known_secrets EXCEPT ![q] = known_secrets'[q]]
           /\ known_secrets'[q] \in {durable[q].secrets, EmptyDb.secrets}
           /\ durable'[q].secrets = known_secrets'[q]
           /\ \A p \in Party \ {q} : durable'[p] = durable[p]
BY DEF Restart, TypeOK

\* The database keeps lagging behind the memory.
LEMMA LagsStep ==
    ASSUME RInv, [Next]_vars
    PROVE  Lags'
<1>0. IInv /\ TypeOK
  BY DEF RInv, IInv
<1> SUFFICES ASSUME NEW p \in Party, NEW k \in Indices, DerivableFrom(durable'[p].secrets, k)
             PROVE  DerivableFrom(known_secrets'[p], k)
  BY DEF Lags, DerivableFrom
<1>1. DerivableFrom(durable[p].secrets, k) => DerivableFrom(known_secrets[p], k)
  BY DEF RInv, Lags
<1>2. CASE UNCHANGED known_secrets
  BY <1>0, <1>1, <1>2, DurableChange
<1>3. ASSUME NEW q \in Party, NEW i \in Indices, Stores(q, i)
      PROVE  DerivableFrom(known_secrets'[p], k)
  <2>1. known_secrets[p] \in Secrets /\ Good(known_secrets[p])
    BY <1>0 DEF IInv, StoreGood, TypeOK
  <2>2. known_secrets'[p] \in {known_secrets[p], StoredSecrets(known_secrets[p], i, "good")}
    BY <1>0, <1>3 DEF Stores, TypeOK
  <2>3. DerivableFrom(known_secrets[p], k) => DerivableFrom(known_secrets'[p], k)
    BY <2>1, <2>2, StoredKeepsDerivable
  <2> QED BY <1>0, <1>1, <2>3, DurableChange
<1>4. ASSUME NEW q \in Party, Restart(q)
      PROVE  DerivableFrom(known_secrets'[p], k)
  <2>1. CASE p = q
    BY <1>0, <1>4, <2>1, RestartEffect
  <2>2. CASE p # q
    <3>1. durable'[p] = durable[p] /\ known_secrets'[p] = known_secrets[p]
      BY <1>0, <1>4, <2>2, RestartEffect DEF TypeOK
    <3> QED BY <1>1, <3>1
  <2> QED BY <2>1, <2>2
<1> QED BY <1>0, <1>2, <1>3, <1>4, StepKinds DEF Asks

-----------------------------------------------------------------------------
(* The simulation. *)

\* The daemons start where the abstract specification does.
LEMMA InitJoint == Init => Joint!Init
<1> SUFFICES ASSUME Init PROVE Joint!Init
  OBVIOUS
<1>1. \A p \in Party : \A i \in Indices : Answer(known_secrets[p], i) = "none"
  BY DEF Init, EmptyDb, Answer
<1> QED BY <1>1 DEF Init, Joint!Init, Knowledge, Joint!Party, Party

\* A stored secret is learnt, or was known already.
LEMMA StoresLearns ==
    ASSUME IInv, NEW p \in Party, NEW i \in Indices, i \in Both, Stores(p, i)
    PROVE  Joint!Learn(p, i) \/ UNCHANGED Joint!vars
<1> DEFINE s == known_secrets[p]
           t == StoredSecrets(s, i, "good")
<1>0. TypeOK /\ s \in Secrets /\ Good(s) /\ known_secrets'[p] = t
      /\ known_secrets' = [known_secrets EXCEPT ![p] = t] /\ UNCHANGED <<auth, crashes>>
  BY DEF IInv, StoreGood, TypeOK, Stores
<1>1. t \in Secrets
  BY <1>0, StoredSecretsType DEF Value
<1>2. Good(t)
  BY <1>0, StoredGood
<1>3. \A k \in Indices : Answer(t, k) = IF CanDerive(i, k) THEN "good" ELSE Answer(s, k)
  <2> HIDE DEF s, t
  <2> TAKE k \in Indices
  <2>1. Answer(s, k) = IF DerivableFrom(s, k) THEN "good" ELSE "none"
    BY <1>0, GoodAnswer
  <2>2. Answer(t, k) = IF DerivableFrom(t, k) THEN "good" ELSE "none"
    BY <1>1, <1>2, GoodAnswer
  <2>3. DerivableFrom(t, k) <=> DerivableFrom(s, k) \/ CanDerive(i, k)
    BY <1>0, StoredDerives DEF t
  <2> QED BY <2>1, <2>2, <2>3
<1>4. Knowledge' = [Knowledge EXCEPT ![p] = [k \in Indices |-> Answer(t, k)]]
  <2>1. \A q \in Party, k \in Indices :
            Answer(known_secrets'[q], k)
              = IF q = p THEN Answer(t, k) ELSE Answer(known_secrets[q], k)
    BY <1>0 DEF TypeOK
  <2> QED BY <2>1 DEF Knowledge
<1>5. CASE Answer(s, i) # "good"
  <2>1. \A q \in Joint!Party : i \in auth[q]
    BY DEF Both, Joint!Party
  <2>2. Knowledge[p][i] # "good" /\ \A k \in Indices : Knowledge[p][k] = Answer(s, k)
    BY <1>5 DEF Knowledge
  <2>3. \A k \in Indices : <<i, k>> \in Lineage <=> CanDerive(i, k)
    BY DEF Lineage
  <2>4. [k \in Indices |-> Answer(t, k)]
          = [k \in Indices |-> IF <<i, k>> \in Lineage THEN "good" ELSE Knowledge[p][k]]
    BY <1>3, <2>2, <2>3
  <2> QED BY <1>0, <1>4, <2>1, <2>2, <2>4 DEF Joint!Learn
<1>6. CASE Answer(s, i) = "good"
  <2>1. DerivableFrom(s, i)
    BY <1>0, <1>6, GoodAnswer
  <2>2. \A k \in Indices : CanDerive(i, k) => DerivableFrom(s, k)
    BY <2>1, CanDeriveTransitive DEF DerivableFrom
  <2>3. \A k \in Indices : Answer(t, k) = Answer(s, k)
    BY <1>0, <1>3, <2>2, GoodAnswer
  <2>4. Knowledge[p] = [k \in Indices |-> Answer(t, k)]
    BY <2>3 DEF Knowledge
  <2>5. UNCHANGED Knowledge
    BY <1>4, <2>4 DEF Knowledge
  <2> QED BY <1>0, <2>5 DEF Joint!vars
<1> QED BY <1>5, <1>6

\* A restart loses a database: the daemon still answers what the database
\* derives, which it answered before, and nothing else.
LEMMA RestartLoses ==
    ASSUME RInv, NEW p \in Party, Restart(p)
    PROVE  Joint!Lose(p)
<1> DEFINE s == known_secrets[p]
           t == known_secrets'[p]
           kept == {k \in Indices : DerivableFrom(t, k)}
<1>0. /\ TypeOK /\ s \in Secrets /\ Good(s)
      /\ durable[p].secrets \in Secrets /\ Good(durable[p].secrets)
      /\ known_secrets' = [known_secrets EXCEPT ![p] = t]
      /\ crashes' = crashes + 1 /\ UNCHANGED auth
  BY RestartEffect DEF RInv, IInv, StoreGood, TypeOK, Snapshot
<1>1. t \in {durable[p].secrets, EmptyDb.secrets}
  BY <1>0, RestartEffect
<1>2. t \in Secrets /\ Good(t)
  BY <1>0, <1>1 DEF EmptyDb, Secrets, Good
<1>3. \A k \in Indices : DerivableFrom(t, k) => DerivableFrom(s, k)
  <2>1. \A k \in Indices : ~DerivableFrom(EmptyDb.secrets, k)
    BY DEF DerivableFrom, EmptyDb
  <2> QED BY <1>1, <2>1 DEF RInv, Lags
<1>4. \A k \in Indices : Answer(t, k) = IF k \in kept THEN Answer(s, k) ELSE "none"
  BY <1>0, <1>2, <1>3, GoodAnswer
<1>5. Knowledge' = [Knowledge EXCEPT ![p] = [k \in Indices |-> Answer(t, k)]]
  <2>1. \A q \in Party, k \in Indices :
            Answer(known_secrets'[q], k)
              = IF q = p THEN Answer(t, k) ELSE Answer(known_secrets[q], k)
    BY <1>0 DEF TypeOK
  <2> QED BY <2>1 DEF Knowledge
<1>6. [k \in Indices |-> Answer(t, k)]
        = [k \in Indices |-> IF k \in kept THEN Knowledge[p][k] ELSE "none"]
  BY <1>4 DEF Knowledge
<1> HIDE DEF s, t
<1> QED BY <1>0, <1>5, <1>6 DEF Joint!Lose

\* Every step is a step of the abstract specification or a stutter.
LEMMA NextJoint ==
    ASSUME RInv, [Next]_vars
    PROVE  [Joint!Next]_(Joint!vars)
<1>0. IInv /\ Party = Joint!Party
  BY DEF RInv, Party, Joint!Party
<1>1. CASE UNCHANGED <<known_secrets, auth, crashes>>
  BY <1>1 DEF Joint!vars, Knowledge
<1>2. ASSUME NEW p \in Party, NEW i \in Indices, Asks(p, i)
      PROVE  Joint!Ask(p, i)
  BY <1>2 DEF Asks, Joint!Ask, Knowledge
<1>3. ASSUME NEW p \in Party, NEW i \in Indices, i \in Both, Stores(p, i)
      PROVE  Joint!Learn(p, i) \/ UNCHANGED Joint!vars
  BY <1>0, <1>3, StoresLearns
<1>4. ASSUME NEW p \in Party, Restart(p)
      PROVE  Joint!Lose(p)
  BY <1>4, RestartLoses
<1> QED BY <1>0, <1>1, <1>2, <1>3, <1>4, StepKinds DEF Joint!Next

\* The two daemons implement JointReveal: a party learns only what both
\* operators asked for, learns it right, and forgets only in a restart, for any
\* indices, calls, joint runs and restarts (reveal, RevealCached, the full
\* derivation, store_known_secret and load_redb_state together).
THEOREM Refinement == Spec => ImplementsJointReveal
<1>1. Init => RInv
  <2>1. Init => Lags
    BY DEF Init, Lags, DerivableFrom, EmptyDb
  <2> QED BY <2>1, InitIInv DEF RInv
<1>2. RInv /\ [Next]_vars => RInv'
  BY LagsStep, NextIInv DEF RInv
<1>3. RInv /\ [Next]_vars => [Joint!Next]_(Joint!vars)
  BY NextJoint
<1> QED BY <1>1, <1>2, <1>3, InitJoint, PTL DEF Spec, ImplementsJointReveal, Joint!Spec

=============================================================================
