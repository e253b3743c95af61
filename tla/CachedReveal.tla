---------------------------- MODULE CachedReveal ----------------------------
(***************************************************************************)
(* The reveal of one channel's shachain secrets by the two daemons         *)
(* (shachain2pc-daemon, state.rs): the local Reveal call, the RevealCached *)
(* rendezvous with its pending-reveal table, timeouts and lost RPCs, the   *)
(* reconciliation of the two frontiers, the full-derivation fallback, the  *)
(* scheduler that refills the frontier, and daemon restarts from a         *)
(* database that lost its tail or was deleted.                             *)
(*                                                                         *)
(* Abstractions.                                                           *)
(*  - A 48-bit index is the set of its one-bits, so index 0 is {}. Index 0 *)
(*    is revealed over the legacy TCP path and is outside this module.     *)
(*  - A frontier node is the generation of the joint MPC run that made it: *)
(*    fresh randomness makes every run's pair of halves distinct, and two  *)
(*    halves open under the MAC check only if one run made both.  0 is "no *)
(*    node".                                                               *)
(*  - The security parameters of the channel are equal and constant, so    *)
(*    the public binding of a node depends on its index only (that is what *)
(*    public_binding hashes besides them).                                 *)
(*  - The channel stays enabled on both sides.                             *)
(*  - What a daemon restarts from is its database, which lags behind its   *)
(*    memory; DbStore models how batches get there.                        *)
(***************************************************************************)
EXTENDS Integers, FiniteSets

CONSTANTS Indices,    \* the nonzero indices operators ask for, as bit sets
          ACall,      \* concurrent Reveal calls on Alice's daemon
          BCall,      \* concurrent Reveal calls on Bob's daemon
          MaxGen,     \* bound: joint precompute runs
          MaxCrash    \* bound: daemon restarts

ASSUME CallAssumption ==
    /\ ACall \cap BCall = {}
    /\ {"none", "orphan"} \cap BCall = {}
ASSUME IndexAssumption ==
    /\ \A i \in Indices : i \subseteq Nat /\ i # {}
ASSUME BoundAssumption == MaxGen \in Nat /\ MaxCrash \in Nat

VARIABLES
    known_secrets,   \* known_secrets[p][i]: what p's shachain store holds for i
    frontier_nodes,  \* frontier_nodes[p][i]: generation of p's node for i, or 0
    durable,         \* durable[p]: the snapshot p restarts from
    call,            \* call[c]: the progress of a Reveal call
    rx,              \* rx[b]: the oneshot receiver a call of Bob waits on
    pending_reveals, \* Bob's table: the call waiting for each key, if any
    rpc,             \* rpc[a]: the RevealCached request of Alice's call a
    sched,           \* Alice's precompute task for the channel
    fresh,           \* fresh[p]: a joint result p has computed but not stored
    gen,             \* joint runs so far
    auth,            \* history: auth[p] the indices p's operator declared next
    crashes          \* restarts so far

reveal == <<call, rx, pending_reveals, rpc>>
precompute == <<sched, fresh, gen>>
store == <<known_secrets, frontier_nodes>>
vars == <<known_secrets, frontier_nodes, durable, call, rx, pending_reveals,
          rpc, sched, fresh, gen, auth, crashes>>

Party == {"Alice", "Bob"}
Calls == ACall \cup BCall
Owner(c) == IF c \in ACall THEN "Alice" ELSE "Bob"
Peer(p) == IF p = "Alice" THEN "Bob" ELSE "Alice"
Gen == 0 .. MaxGen
Value == {"good", "bad"}

Idle == [pc |-> "idle", try |-> 1, idx |-> {}, node |-> 0, snap |-> {},
         val |-> "bad"]
NoRpc == [st |-> "none", idx |-> {}, gen |-> 0, node |-> 0, by |-> "none"]
NoFresh == [idx |-> {}, gen |-> 0]
NoSched == [st |-> "idle", snap |-> {}]
EmptyDb == [secrets |-> [i \in Indices |-> "none"],
            nodes   |-> [i \in Indices |-> 0]]

Secrets == [Indices -> Value \cup {"none"}]
Nodes == [Indices -> Gen]
Snapshot == [secrets : Secrets, nodes : Nodes]
CallRecord == [pc   : {"idle", "load", "open", "reconcile", "drop", "full", "store"},
               try  : {1, 2},
               idx  : Indices \cup {{}},
               node : Gen,
               snap : SUBSET Indices,
               val  : Value]
RpcRecord == [st   : {"none", "sent", "taken", "loaded", "ok", "miss", "err"},
              idx  : Indices \cup {{}},
              gen  : Gen,
              node : Gen,
              by   : BCall \cup {"none", "orphan"}]
SchedRecord == [st : {"idle", "drop", "begin"}, snap : SUBSET Indices]
FreshRecord == [idx : Indices \cup {{}}, gen : Gen]

\* The shape of the state: in particular a record that is not idle, and a
\* result that is not NoFresh, names an index of the channel.
TypeOK ==
    /\ known_secrets \in [Party -> Secrets]
    /\ frontier_nodes \in [Party -> Nodes]
    /\ durable \in [Party -> Snapshot]
    /\ call \in [Calls -> CallRecord]
    /\ rx \in [BCall -> Value \cup {"open", "miss", "err", "closed"}]
    /\ pending_reveals \in [Indices -> BCall \cup {"none", "orphan"}]
    /\ rpc \in [ACall -> RpcRecord]
    /\ sched \in SchedRecord
    /\ fresh \in [Party -> FreshRecord]
    /\ gen \in Gen
    /\ auth \in [Party -> SUBSET Indices]
    /\ crashes \in 0 .. MaxCrash
    /\ \A c \in Calls : call[c].pc # "idle" => call[c].idx \in Indices
    /\ \A a \in ACall : rpc[a].st # "none" => rpc[a].idx \in Indices
    /\ \A p \in Party : fresh[p] # NoFresh => fresh[p].idx \in Indices

Init ==
    /\ known_secrets = [p \in Party |-> EmptyDb.secrets]
    /\ frontier_nodes = [p \in Party |-> EmptyDb.nodes]
    /\ durable = [p \in Party |-> EmptyDb]
    /\ call = [c \in Calls |-> Idle]
    /\ rx = [b \in BCall |-> "closed"]
    /\ pending_reveals = [i \in Indices |-> "none"]
    /\ rpc = [a \in ACall |-> NoRpc]
    /\ sched = NoSched
    /\ fresh = [p \in Party |-> NoFresh]
    /\ gen = 0
    /\ auth = [p \in Party |-> {}]
    /\ crashes = 0

-----------------------------------------------------------------------------
(* The shachain store. *)

\* derive_from_known: every one-bit of from is in to, and the bits that are
\* still to be applied all lie below the lowest bit already applied.
CanDerive(from, to) ==
    /\ from \subseteq to
    /\ \A m \in to \ from, b \in from : m < b

Derivable(p, i) ==
    \E j \in Indices : known_secrets[p][j] # "none" /\ CanDerive(j, i)

\* What hashing down from j's value v gives for i is i's value w: true values
\* derive true values, and a wrong one only equals itself.
Yields(j, v, i, w) == CanDerive(j, i) /\ v = w /\ (v = "good" \/ i = j)

\* Mutant: derivable older secrets are kept.
StoredSecretsKeepAll(s, i, v) ==
    IF \E j \in Indices : s[j] # "none" /\ Yields(j, s[j], i, v)
    THEN s ELSE [s EXCEPT ![i] = v]

\* Mutant: the insert is skipped when older secrets are dropped.
StoredSecretsLoseNew(s, i, v) ==
    LET dropped == {j \in Indices : s[j] # "none" /\ Yields(i, v, j, s[j])}
    IN  IF dropped = {} THEN [s EXCEPT ![i] = v]
        ELSE [j \in Indices |-> IF j \in dropped THEN "none" ELSE s[j]]

StoredSecrets(s, i, v) ==
    LET redundant == \E j \in Indices : s[j] # "none" /\ Yields(j, s[j], i, v)
        dropped == {j \in Indices : s[j] # "none" /\ Yields(i, v, j, s[j])}
    IN  IF redundant
        THEN s
        ELSE [j \in Indices |-> IF j = i THEN v
                                ELSE IF j \in dropped THEN "none" ELSE s[j]]

store_known_secret(p, i, v) ==
    /\ known_secrets' = [known_secrets EXCEPT ![p] = StoredSecrets(@, i, v)]
    /\ frontier_nodes' = [frontier_nodes EXCEPT ![p][i] = 0]

\* Mutant: the opened value is used without checking the peer's digest.
MacUnchecked(g, h) == TRUE

\* Opening a node with the peer's share of generation h: the MAC digest
\* verifies exactly when both halves come from one joint run.
MacVerifies(g, h) == g = h
Opened(g, h) == IF g = h THEN "good" ELSE "bad"

-----------------------------------------------------------------------------
(* The local Reveal call. *)

Goto(c, state) == call' = [call EXCEPT ![c] = state]

\* The error of an attempt to open the cached node: a cache miss of the first
\* attempt falls through to the reconciliation, anything else is returned.
AfterError(c, miss) ==
    IF miss /\ call[c].try = 1
    THEN [call[c] EXCEPT !.pc = "reconcile", !.node = 0]
    ELSE Idle

\* Mutant: the expected index is not compared with the requested one.
BeginRevealUnchecked(c, i, e) ==
    /\ call[c].pc = "idle"
    /\ ~Derivable(Owner(c), i)
    /\ Goto(c, [Idle EXCEPT !.pc = "load", !.idx = i])
    /\ auth' = [auth EXCEPT ![Owner(c)] = @ \cup {e}]
    /\ UNCHANGED <<store, durable, rx, pending_reveals, rpc, precompute, crashes>>

\* A call that is answered from the store, or refused because the requested
\* index is not the expected one, returns without changing anything.
BeginReveal(c, i, e) ==
    /\ call[c].pc = "idle"
    /\ ~Derivable(Owner(c), i)
    /\ i = e
    /\ Goto(c, [Idle EXCEPT !.pc = "load", !.idx = i])
    /\ auth' = [auth EXCEPT ![Owner(c)] = @ \cup {e}]
    /\ UNCHANGED <<store, durable, rx, pending_reveals, rpc, precompute, crashes>>

Loaded(c) == frontier_nodes[Owner(c)][call[c].idx]

LoadMissing(c) ==
    /\ call[c].pc = "load"
    /\ Loaded(c) = 0
    /\ Goto(c, [call[c] EXCEPT !.pc = IF call[c].try = 1 THEN "reconcile"
                                                         ELSE "full"])
    /\ UNCHANGED <<store, durable, rx, pending_reveals, rpc, precompute, auth, crashes>>

\* Alice: reveal_cached_node_via_peer sends her share of the node.
SendRevealCached(a) ==
    /\ call[a].pc = "load"
    /\ Loaded(a) # 0
    /\ rpc[a].st = "none"
    /\ Goto(a, [call[a] EXCEPT !.pc = "open", !.node = Loaded(a)])
    /\ rpc' = [rpc EXCEPT ![a] = [NoRpc EXCEPT !.st = "sent",
                                               !.idx = call[a].idx,
                                               !.gen = Loaded(a)]]
    /\ UNCHANGED <<store, durable, rx, pending_reveals, precompute, auth, crashes>>

\* Taking a sender out of the table, or dropping it, closes its receiver.
Closed(b) == IF b \in BCall THEN [rx EXCEPT ![b] = "closed"] ELSE rx

\* Bob: await_incoming_cached_reveal puts a sender into the table.  If one is
\* there already it has been replaced, and this call is refused: its own
\* sender stays in the table and nobody listens to it.
AwaitIncoming(b) ==
    /\ call[b].pc = "load"
    /\ Loaded(b) # 0
    /\ LET i == call[b].idx
           old == pending_reveals[i]
       IN  \/ /\ old = "none"
              /\ pending_reveals' = [pending_reveals EXCEPT ![i] = b]
              /\ Goto(b, [call[b] EXCEPT !.pc = "open", !.node = Loaded(b)])
              /\ rx' = [rx EXCEPT ![b] = "open"]
           \/ /\ old # "none"
              /\ pending_reveals' = [pending_reveals EXCEPT ![i] = "orphan"]
              /\ Goto(b, Idle)
              /\ rx' = Closed(old)
    /\ UNCHANGED <<store, durable, rpc, precompute, auth, crashes>>

\* The handlers that answer b's sender find nobody once b stops listening.
Deserted(b) == [a \in ACall |-> IF rpc[a].by = b
                                THEN [rpc[a] EXCEPT !.by = "orphan"] ELSE rpc[a]]

\* Mutant: the timeout leaves the key in the table.
AwaitTimeoutKeepsKey(b) ==
    /\ call[b].pc = "open"
    /\ rx[b] = "open"
    /\ rx' = [rx EXCEPT ![b] = "closed"]
    /\ rpc' = Deserted(b)
    /\ Goto(b, AfterError(b, TRUE))
    /\ UNCHANGED <<store, durable, pending_reveals, precompute, auth, crashes>>

\* Bob's wait times out: the key is removed, whoever's sender it now holds,
\* and the error counts as a cache miss.
AwaitTimeout(b) ==
    /\ call[b].pc = "open"
    /\ rx[b] = "open"
    /\ LET i == call[b].idx
       IN  /\ rx' = [Closed(pending_reveals[i]) EXCEPT ![b] = "closed"]
           /\ pending_reveals' = [pending_reveals EXCEPT ![i] = "none"]
    /\ rpc' = Deserted(b)
    /\ Goto(b, AfterError(b, TRUE))
    /\ UNCHANGED <<store, durable, precompute, auth, crashes>>

AwaitResult(b) ==
    /\ call[b].pc = "open"
    /\ rx[b] # "open"
    /\ Goto(b, IF rx[b] \in Value
               THEN [call[b] EXCEPT !.pc = "store", !.val = rx[b]]
               ELSE AfterError(b, rx[b] = "miss"))
    /\ rx' = [rx EXCEPT ![b] = "closed"]
    /\ UNCHANGED <<store, durable, pending_reveals, rpc, precompute, auth, crashes>>

\* Alice reads the response: she opens her node with Bob's share.
RpcResponse(a) ==
    /\ call[a].pc = "open"
    /\ rpc[a].st \in {"ok", "miss", "err"}
    /\ Goto(a, IF rpc[a].st = "ok" /\ MacVerifies(call[a].node, rpc[a].node)
               THEN [call[a] EXCEPT !.pc = "store",
                                    !.val = Opened(call[a].node, rpc[a].node)]
               ELSE AfterError(a, rpc[a].st = "miss"))
    /\ rpc' = [rpc EXCEPT ![a] = NoRpc]
    /\ UNCHANGED <<store, durable, rx, pending_reveals, precompute, auth, crashes>>

\* The connection breaks: Alice's call fails; the handler on Bob's side runs
\* on until it ends or the server drops it.
RpcLost(a) ==
    /\ call[a].pc = "open"
    /\ Goto(a, Idle)
    /\ UNCHANGED <<store, durable, rx, pending_reveals, rpc, precompute, auth, crashes>>

\* reconcile_with_peer: read the peer's frontier, then (later) drop the local
\* nodes that are not in what was read.
FetchFrontier(c) ==
    /\ call[c].pc = "reconcile"
    /\ LET theirs == {i \in Indices : frontier_nodes[Peer(Owner(c))][i] # 0}
       IN  Goto(c, [call[c] EXCEPT !.pc = "drop", !.snap = theirs])
    /\ UNCHANGED <<store, durable, rx, pending_reveals, rpc, precompute, auth, crashes>>

FetchFails(c) ==
    /\ call[c].pc = "reconcile"
    /\ Goto(c, Idle)
    /\ UNCHANGED <<store, durable, rx, pending_reveals, rpc, precompute, auth, crashes>>

\* Mutant: the frontier is rebuilt from the peer's masks only.
KeptPeerMasks(p, snap) == [i \in snap |-> frontier_nodes[p][i]]

Kept(p, snap) == [i \in Indices |-> IF i \in snap THEN frontier_nodes[p][i] ELSE 0]

DropUnmatched(c) ==
    /\ call[c].pc = "drop"
    /\ frontier_nodes' = [frontier_nodes EXCEPT
                              ![Owner(c)] = Kept(Owner(c), call[c].snap)]
    /\ Goto(c, [call[c] EXCEPT !.pc = "load", !.try = 2, !.snap = {}])
    /\ UNCHANGED <<known_secrets, durable, rx, pending_reveals, rpc, precompute,
                   auth, crashes>>

\* exchange_circuit_digest: the digests bind the index.
DigestsMatch(a, b) == call[a].idx = call[b].idx

\* run_full_derivation: Alice listens, Bob connects, and they compare digests
\* before the MPC.  Either may fail to finish after the other has.
FullDerivation(a, b) ==
    /\ call[a].pc = "full"
    /\ call[b].pc = "full"
    /\ DigestsMatch(a, b)
    /\ LET v == IF call[a].idx = call[b].idx THEN "good" ELSE "bad"
       IN  \E done \in SUBSET {a, b} :
               call' = [c \in Calls |->
                           IF c \in done
                           THEN [call[c] EXCEPT !.pc = "store", !.val = v]
                           ELSE IF c \in {a, b} THEN Idle ELSE call[c]]
    /\ UNCHANGED <<store, durable, rx, pending_reveals, rpc, precompute, auth, crashes>>

FullDerivationFails(c) ==
    /\ call[c].pc = "full"
    /\ Goto(c, Idle)
    /\ UNCHANGED <<store, durable, rx, pending_reveals, rpc, precompute, auth, crashes>>

StoreRevealed(c) ==
    /\ call[c].pc = "store"
    /\ store_known_secret(Owner(c), call[c].idx, call[c].val)
    /\ Goto(c, Idle)
    /\ UNCHANGED <<durable, rx, pending_reveals, rpc, precompute, auth, crashes>>

\* The operator's client disconnects while Bob's call waits for Alice: the
\* call is dropped where it waits and its sender stays in the table.
CancelAwait(b) ==
    /\ call[b].pc = "open"
    /\ Goto(b, Idle)
    /\ LET i == call[b].idx
       IN  pending_reveals' = IF pending_reveals[i] = b
                              THEN [pending_reveals EXCEPT ![i] = "orphan"]
                              ELSE pending_reveals
    /\ rpc' = Deserted(b)
    /\ rx' = [rx EXCEPT ![b] = "closed"]
    /\ UNCHANGED <<store, durable, precompute, auth, crashes>>

-----------------------------------------------------------------------------
(* Bob's RevealCached handler, one per request of Alice. *)

\* Mutant: a request whose index nobody waits for is completed all the same.
HandlerTakesAny(a) ==
    /\ rpc[a].st = "sent"
    /\ LET i == rpc[a].idx
           by == IF pending_reveals[i] = "none" THEN "orphan" ELSE pending_reveals[i]
       IN  /\ rpc' = [rpc EXCEPT ![a].st = "taken", ![a].by = by]
           /\ pending_reveals' = [pending_reveals EXCEPT ![i] = "none"]
    /\ UNCHANGED <<store, durable, call, rx, precompute, auth, crashes>>

\* take_pending_reveal: wait for the matching local authorization.
HandlerTake(a) ==
    /\ rpc[a].st = "sent"
    /\ LET i == rpc[a].idx
       IN  /\ pending_reveals[i] # "none"
           /\ rpc' = [rpc EXCEPT ![a].st = "taken", ![a].by = pending_reveals[i]]
           /\ pending_reveals' = [pending_reveals EXCEPT ![i] = "none"]
    /\ UNCHANGED <<store, durable, call, rx, precompute, auth, crashes>>

\* Mutant: the handler waits for the authorization without a deadline.
HandlerWaits(a) == rpc[a].st = "sent" /\ UNCHANGED vars

HandlerTimeout(a) ==
    /\ rpc[a].st = "sent"
    /\ rpc' = [rpc EXCEPT ![a].st = "err"]
    /\ UNCHANGED <<store, durable, call, rx, pending_reveals, precompute, auth, crashes>>

\* The sender taken from the table answers the call that waits for it.
Answered(a, result) ==
    IF rpc[a].by \in BCall THEN [rx EXCEPT ![rpc[a].by] = result] ELSE rx

\* complete_peer_cached_reveal reads Bob's node ...
HandlerLoad(a) ==
    /\ rpc[a].st = "taken"
    /\ LET g == frontier_nodes["Bob"][rpc[a].idx]
       IN  \/ /\ g # 0
              /\ rpc' = [rpc EXCEPT ![a].st = "loaded", ![a].node = g]
              /\ UNCHANGED rx
           \/ /\ g = 0
              /\ rpc' = [rpc EXCEPT ![a].st = "miss", ![a].by = "none"]
              /\ rx' = Answered(a, "miss")
    /\ UNCHANGED <<store, durable, call, pending_reveals, precompute, auth, crashes>>

\* ... and, in later critical sections, checks Alice's share against it,
\* stores the opened secret and answers both sides.
HandlerComplete(a) ==
    /\ rpc[a].st = "loaded"
    /\ \/ /\ MacVerifies(rpc[a].node, rpc[a].gen)
          /\ LET v == Opened(rpc[a].node, rpc[a].gen)
             IN  /\ store_known_secret("Bob", rpc[a].idx, v)
                 /\ rx' = Answered(a, v)
          /\ rpc' = [rpc EXCEPT ![a].st = "ok", ![a].by = "none"]
       \/ /\ ~MacVerifies(rpc[a].node, rpc[a].gen)
          /\ rpc' = [rpc EXCEPT ![a].st = "err", ![a].by = "none"]
          /\ rx' = Answered(a, "err")
          /\ UNCHANGED store
    /\ UNCHANGED <<durable, call, pending_reveals, precompute, auth, crashes>>

\* Nobody waits for the response any more: the server drops the handler (and
\* with it the sender it took), or the handler's response goes nowhere.
HandlerDropped(a) ==
    /\ rpc[a].st # "none"
    /\ call[a].pc # "open"
    /\ rpc' = [rpc EXCEPT ![a] = NoRpc]
    /\ rx' = Closed(rpc[a].by)
    /\ UNCHANGED <<store, durable, call, pending_reveals, precompute, auth, crashes>>

-----------------------------------------------------------------------------
(* Background precompute, driven by Alice. *)

\* run_scheduled_precompute and precompute_path_jobstream reconcile before a
\* job starts.  The code does so twice; a round that starts no job is the first.
SchedulerFetch ==
    /\ sched.st = "idle"
    /\ fresh["Alice"] = NoFresh
    /\ gen < MaxGen
    /\ sched' = [st |-> "drop",
                 snap |-> {i \in Indices : frontier_nodes["Bob"][i] # 0}]
    /\ UNCHANGED <<store, durable, reveal, fresh, gen, auth, crashes>>

SchedulerDrop ==
    /\ sched.st = "drop"
    /\ frontier_nodes' = [frontier_nodes EXCEPT !["Alice"] = Kept("Alice", sched.snap)]
    /\ sched' = [NoSched EXCEPT !.st = "begin"]
    /\ UNCHANGED <<known_secrets, durable, reveal, fresh, gen, auth, crashes>>

\* A job for an index Alice's frontier lacks (which of them does not matter
\* here; next_missing_frontier takes the lowest).  Each side that finishes
\* holds its half of a new generation.
JointPrecompute(i) ==
    /\ sched.st = "begin"
    /\ frontier_nodes["Alice"][i] = 0
    /\ fresh["Bob"] = NoFresh
    /\ gen < MaxGen
    /\ gen' = gen + 1
    /\ \E done \in SUBSET Party :
           fresh' = [p \in Party |-> IF p \in done THEN [idx |-> i, gen |-> gen + 1]
                                     ELSE fresh[p]]
    /\ sched' = NoSched
    /\ UNCHANGED <<store, durable, reveal, auth, crashes>>

\* No job: nothing is missing, or the session or a worker is not to be had.
SchedulerStops ==
    /\ sched.st = "begin"
    /\ sched' = NoSched
    /\ UNCHANGED <<store, durable, reveal, fresh, gen, auth, crashes>>

\* store_precomputed_target_wires_and_finish_job overwrites the index's node.
StorePrecomputed(p) ==
    /\ fresh[p] # NoFresh
    /\ frontier_nodes' = [frontier_nodes EXCEPT ![p][fresh[p].idx] = fresh[p].gen]
    /\ fresh' = [fresh EXCEPT ![p] = NoFresh]
    /\ UNCHANGED <<known_secrets, durable, reveal, sched, gen, auth, crashes>>

-----------------------------------------------------------------------------
(* Persistence. *)

\* The writer makes enqueued batches durable.  Batches of different tasks reach
\* it in any order, so secrets and single nodes lag independently; secrets are
\* taken to reach it in the order they were stored.
Checkpoint(p) ==
    /\ crashes < MaxCrash
    /\ \E s \in {durable[p].secrets, known_secrets[p]}, J \in SUBSET Indices :
           durable' = [durable EXCEPT ![p] =
               [secrets |-> s,
                nodes   |-> [i \in Indices |-> IF i \in J THEN frontier_nodes[p][i]
                                               ELSE durable[p].nodes[i]]]]
    /\ UNCHANGED <<store, reveal, precompute, auth, crashes>>

\* A restart reloads the last durable snapshot, or nothing if the operator
\* lost the file; everything else the daemon held is gone, and the requests
\* that crossed to a restarted Bob fail.
Restart(p) ==
    /\ crashes < MaxCrash
    /\ crashes' = crashes + 1
    /\ \E db \in {durable[p], EmptyDb} :
           /\ known_secrets' = [known_secrets EXCEPT ![p] = db.secrets]
           /\ frontier_nodes' = [frontier_nodes EXCEPT ![p] = db.nodes]
           /\ durable' = [durable EXCEPT ![p] = db]
    /\ call' = [c \in Calls |->
                   IF Owner(c) = p \/ (c \in ACall /\ call[c].pc = "open")
                   THEN Idle ELSE call[c]]
    /\ fresh' = [fresh EXCEPT ![p] = NoFresh]
    /\ IF p = "Bob"
       THEN /\ rx' = [b \in BCall |-> "closed"]
            /\ pending_reveals' = [i \in Indices |-> "none"]
            /\ rpc' = [a \in ACall |-> NoRpc]
            /\ UNCHANGED sched
       ELSE /\ sched' = NoSched
            /\ UNCHANGED <<rx, pending_reveals, rpc>>
    /\ UNCHANGED <<gen, auth>>

-----------------------------------------------------------------------------
CallStep(c) ==
    \/ LoadMissing(c)
    \/ FetchFrontier(c)
    \/ FetchFails(c)
    \/ DropUnmatched(c)
    \/ FullDerivationFails(c)
    \/ StoreRevealed(c)

AliceStep(a) ==
    \/ SendRevealCached(a)
    \/ RpcResponse(a)
    \/ RpcLost(a)

BobStep(b) ==
    \/ AwaitIncoming(b)
    \/ AwaitTimeout(b)
    \/ AwaitResult(b)
    \/ CancelAwait(b)

HandlerStep(a) ==
    \/ HandlerTake(a)
    \/ HandlerTimeout(a)
    \/ HandlerLoad(a)
    \/ HandlerComplete(a)
    \/ HandlerDropped(a)

Scheduler ==
    \/ SchedulerFetch
    \/ SchedulerDrop
    \/ \E i \in Indices : JointPrecompute(i)
    \/ SchedulerStops

Next ==
    \/ \E c \in Calls, i, e \in Indices : BeginReveal(c, i, e)
    \/ \E c \in Calls : CallStep(c)
    \/ \E a \in ACall : AliceStep(a) \/ HandlerStep(a)
    \/ \E b \in BCall : BobStep(b)
    \/ \E a \in ACall, b \in BCall : FullDerivation(a, b)
    \/ Scheduler
    \/ \E p \in Party : StorePrecomputed(p) \/ Checkpoint(p) \/ Restart(p)

Spec == Init /\ [][Next]_vars

\* The steps a task takes by itself: tokio polls every ready task and every
\* timer fires.  Nothing promises that an operator asks, that a client
\* disconnects, that the network fails, or that the peer joins a full
\* derivation.
CallProgress(c) ==
    \/ LoadMissing(c) \/ FetchFrontier(c) \/ FetchFails(c)
    \/ DropUnmatched(c) \/ StoreRevealed(c)
    \/ c \in ACall /\ (SendRevealCached(c) \/ RpcResponse(c))
    \/ c \in BCall /\ (AwaitIncoming(c) \/ AwaitTimeout(c) \/ AwaitResult(c))

Fairness ==
    /\ \A c \in Calls : WF_vars(CallProgress(c))
    /\ \A a \in ACall : WF_vars(HandlerStep(a))

\* The 200 ms scheduler tick and the 60 s full reconciliation make the
\* precompute task run again and again, and a job that could start again and
\* again does not always meet a refusal.
SchedulerFairness ==
    /\ WF_vars(Scheduler)
    /\ SF_vars(\E i \in Indices : JointPrecompute(i))
    /\ \A p \in Party : WF_vars(StorePrecomputed(p))

FairSpec == Spec /\ Fairness
RefillSpec == Spec /\ Fairness /\ SchedulerFairness

-----------------------------------------------------------------------------
(* What the daemons promise. *)

\* A secret is opened only if the operators of BOTH daemons named its index as
\* the next one to reveal: whatever interleaving of calls, handlers, timeouts,
\* restarts and stale table entries led to it (the expected_next_index check of
\* reveal, and take_pending_reveal on Bob's side).
NoUnauthorizedReveal ==
    \A p, q \in Party, i \in Indices :
        known_secrets[p][i] # "none" => i \in auth[q]

\* No daemon ever stores a wrong secret, although the halves of two different
\* joint runs meet: the MAC check on both sides of RevealCached stands between
\* them.
RevealedCorrect ==
    \A p \in Party, i \in Indices : known_secrets[p][i] # "bad"

\* Storing a secret never makes an older one unanswerable: what a daemon could
\* derive it can still derive after every step except its own restart
\* (store_known_secret drops exactly what the new secret derives).
SecretsStayDerivable ==
    [][\A p \in Party, i \in Indices :
          (Derivable(p, i) /\ crashes' = crashes) => Derivable(p, i)']_vars

\* The store keeps no secret that another stored secret derives, whatever the
\* order in which indices are revealed.
StoreIrredundant ==
    \A p \in Party, i, j \in Indices :
        (known_secrets[p][i] # "none" /\ known_secrets[p][j] # "none"
            /\ CanDerive(i, j)) => i = j

\* Every Reveal call ends or reaches the full-derivation fallback, which waits
\* for the peer: no lost wake-up, replaced sender, dropped handler or restart
\* leaves a call waiting in the cached path.
CallsReturn ==
    \A c \in Calls : call[c].pc # "idle" ~> call[c].pc \in {"idle", "full"}

\* A sender is in one place only, and the call that listens to it is still
\* waiting for the index it was made for: nobody answers a call twice, or a
\* call that has moved on, although senders are replaced, taken by handlers,
\* removed by other calls' timeouts and left behind by cancelled calls.
PendingMatchesWaiter ==
    /\ \A i \in Indices : pending_reveals[i] \in BCall =>
          LET b == pending_reveals[i]
          IN  call[b].pc = "open" /\ call[b].idx = i /\ rx[b] = "open"
    /\ \A a \in ACall : rpc[a].by \in BCall =>
          LET b == rpc[a].by
          IN  /\ call[b].pc = "open" /\ call[b].idx = rpc[a].idx /\ rx[b] = "open"
              /\ rpc[a].st \in {"taken", "loaded"}
    /\ \A a, d \in ACall : (rpc[a].by \in BCall /\ rpc[a].by = rpc[d].by) => a = d
    /\ \A a \in ACall, i \in Indices :
          pending_reveals[i] \in BCall => rpc[a].by # pending_reveals[i]

-----------------------------------------------------------------------------
(* What the documentation says and the code does not do. *)

Mismatched(i) ==
    /\ frontier_nodes["Alice"][i] # 0
    /\ frontier_nodes["Bob"][i] # 0
    /\ frontier_nodes["Alice"][i] # frontier_nodes["Bob"][i]

\* Halves of different runs are recomputed: with the scheduler running and
\* runs left under the bound, a pair of nodes that cannot open together is
\* eventually gone.
MismatchIsRecomputed ==
    \A i \in Indices : (Mismatched(i) /\ gen < MaxGen) ~> ~Mismatched(i)

\* A Reveal call that is refused because one is already pending leaves the
\* pending one waiting: a waiting call's receiver is closed only by a handler
\* or by the call itself.
DuplicateLeavesFirstPending ==
    [][\A b, d \in BCall :
          (b # d /\ rx[b] = "open" /\ call[d].pc = "load" /\ call'[d].pc = "idle")
             => rx'[b] = "open"]_vars

=============================================================================
