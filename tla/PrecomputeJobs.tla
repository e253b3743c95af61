--------------------------- MODULE PrecomputeJobs ---------------------------
(***************************************************************************)
(* The precompute scheduler, its sessions and its jobs (shachain2pc-daemon *)
(* state.rs, services.rs, precompute_driver.rs).  Alice schedules; a task  *)
(* of hers reads the peer's frontier, reconciles, opens or reuses a        *)
(* session, plans, begins a job, runs it and stores the node.  Bob's half  *)
(* of a session is a task of its own, spawned by the second of the         *)
(* session's two streams; a newer session of the channel aborts it.        *)
(*                                                                         *)
(* The security parameters of a channel (ssp_target and the lifetime cap)  *)
(* travel and are compared together: one number, the cap, stands for both. *)
(* Derivation computes the units of a target; here a plan costs any of     *)
(* Costs, the same on both sides, whose session caches have one history.   *)
(* The attempted and failed counters, which nothing reads, and the time    *)
(* between two reconciliations of a full frontier are left out.            *)
(***************************************************************************)
EXTENDS Integers, FiniteSets, Sequences, FiniteSetsExt, SequencesExt

CONSTANTS
    Chan,          \* channels
    Task,          \* Alice's scheduled tasks that may run at a time
    Params,        \* security parameters EnableChannel may set, as caps
    WorkerCounts,  \* values of cfg.workers
    Costs,         \* checked units a plan may come to
    MaxTarget,     \* the precompute target of every channel
    MaxCmds,       \* targets sent that Bob has not finished, before a send waits
    MaxSessions,   \* bound: sessions opened
    MaxEvents      \* bound: control calls and restarts

ASSUME BoundAssumption ==
    /\ Params \subseteq Nat \ {0} /\ Params # {}
    /\ WorkerCounts \subseteq Nat \ {0} /\ WorkerCounts # {}
    /\ Costs \subseteq Nat
    /\ {MaxTarget, MaxSessions, MaxEvents} \subseteq Nat
    /\ MaxCmds \in Nat \ {0}

Daemon == {"alice", "bob"}
Target == 1 .. MaxTarget
Session == 1 .. MaxSessions
None == 0

VARIABLES
    ch,         \* [daemon][channel]: enabled, params, bound nodes, estimated units
    workers,    \* [daemon]: cfg.workers
    jobs,       \* [daemon]: active_jobs
    tasks,      \* Alice's scheduled tasks
    scheduled,  \* scheduled_precompute_channels
    nextId,     \* next_job_id of Alice, as far as sessions use it
    outgoing,   \* precompute_sessions
    sess,       \* every session opened: its two ends and its commands
    grpc,       \* grpc_jobs: sessions of which one stream has arrived
    incoming,   \* incoming_precompute_sessions
    dropping,   \* [daemon]: disabled channels whose session is dropped next
    events,
    peak        \* history: [daemon] largest worker count and caps configured

aliceVars == <<tasks, scheduled, nextId, outgoing>>
bobVars == <<grpc, incoming>>
bounds == <<events, peak>>
vars == <<ch, workers, jobs, aliceVars, sess, bobVars, dropping, bounds>>

-----------------------------------------------------------------------------
NoPeer == [params |-> 0, workers |-> 0, nodes |-> <<>>]
IdleTask == [pc |-> "idle", chan |-> None, round |-> 0, peer |-> NoPeer, target |-> 0,
             planned |-> 0, limit |-> 0, sess |-> None]
NoSession == [chan |-> None, name |-> 0, params |-> 0, a |-> "none", b |-> "none",
              unrecorded |-> FALSE, limit |-> 0, cmds |-> <<>>, streams |-> {}]

Bound(d, c, t) == ch[d][c].nodes[t] = ch[d][c].params   \* binding_pair matches
Reserved(d, c) == MapThenSumSet(LAMBDA j : j.planned, {j \in jobs[d] : j.chan = c})
BusyChans(d) == {j.chan : j \in jobs[d]}

Init ==
    /\ ch = [d \in Daemon |-> [c \in Chan |->
               [enabled |-> TRUE, params |-> Min(Params),
                nodes |-> [t \in Target |-> None], est |-> 0]]]
    /\ workers = [d \in Daemon |-> Min(WorkerCounts)]
    /\ jobs = [d \in Daemon |-> {}]
    /\ tasks = [t \in Task |-> IdleTask]
    /\ scheduled = {}
    /\ nextId = 0
    /\ outgoing = [c \in Chan |-> None]
    /\ sess = [s \in Session |-> NoSession]
    /\ grpc = {}
    /\ incoming = [c \in Chan |-> None]
    /\ dropping = [d \in Daemon |-> {}]
    /\ events = 0
    /\ peak = [d \in Daemon |-> [workers |-> Min(WorkerCounts),
                                 cap |-> [c \in Chan |-> Min(Params)]]]

-----------------------------------------------------------------------------
(* Alice's scheduler and the first half of a scheduled task.               *)

\* scheduler_candidates: one channel at a time of those taken under the lock.
Schedule(t, c) ==
    /\ tasks[t].pc = "idle"
    /\ Cardinality(BusyChans("alice") \cup scheduled) < workers["alice"]
    /\ ch["alice"][c].enabled
    /\ c \notin BusyChans("alice") \cup scheduled
    /\ scheduled' = scheduled \cup {c}
    /\ tasks' = [tasks EXCEPT ![t] = [IdleTask EXCEPT !.pc = "peer", !.chan = c, !.round = 1]]
    /\ UNCHANGED <<ch, workers, jobs, nextId, outgoing, sess, bobVars, dropping, bounds>>

\* A task that returns clears its channel's mark, whoever set it last.
End(t) ==
    /\ tasks' = [tasks EXCEPT ![t] = IdleTask]
    /\ scheduled' = scheduled \ {tasks[t].chan}

Goto(t, pc) ==
    /\ tasks' = [tasks EXCEPT ![t].pc = pc]
    /\ UNCHANGED scheduled

\* GetFrontier, before the run (round 1) and again before the job (round 2).
PeerFrontier(t) ==
    /\ tasks[t].pc = "peer"
    /\ LET bob == ch["bob"][tasks[t].chan]
       IN  IF bob.enabled
           THEN /\ tasks' = [tasks EXCEPT ![t].pc = "fetch",
                                ![t].peer = [params |-> bob.params, workers |-> workers["bob"],
                                             nodes |-> <<>>]]
                /\ UNCHANGED scheduled
           ELSE End(t)
    /\ UNCHANGED <<ch, workers, jobs, nextId, outgoing, sess, bobVars, dropping, bounds>>

\* validate_peer_security_params in round 2, then reconcile_with_peer's own
\* GetFrontier; a peer that has disabled the channel meanwhile is not compared.
FetchFrontier(t) ==
    /\ tasks[t].pc = "fetch"
    /\ LET c == tasks[t].chan
           bob == ch["bob"][c]
           after == IF tasks[t].round = 1 THEN "choose" ELSE "handle"
       IN  IF tasks[t].round = 2 /\ tasks[t].peer.params # ch["alice"][c].params
           THEN End(t)
           ELSE IF bob.enabled
           THEN /\ tasks' = [tasks EXCEPT ![t].pc = "reconcile", ![t].peer.nodes = bob.nodes]
                /\ UNCHANGED scheduled
           ELSE Goto(t, after)
    /\ UNCHANGED <<ch, workers, jobs, nextId, outgoing, sess, bobVars, dropping, bounds>>

\* Drops the local nodes whose binding the peer did not report.
Reconcile(t) ==
    /\ tasks[t].pc = "reconcile"
    /\ LET c == tasks[t].chan
           theirs == tasks[t].peer.nodes
       IN  ch' = [ch EXCEPT !["alice"][c].nodes =
                     [i \in Target |-> IF @[i] = theirs[i] THEN @[i] ELSE None]]
    /\ tasks' = [tasks EXCEPT ![t].pc = IF tasks[t].round = 1 THEN "choose" ELSE "handle",
                              ![t].peer.nodes = <<>>]
    /\ UNCHANGED <<workers, jobs, scheduled, nextId, outgoing, sess, bobVars, dropping, bounds>>

\* effective_precompute_target and next_missing_frontier.
ChooseTarget(t) ==
    /\ tasks[t].pc = "choose"
    /\ LET c == tasks[t].chan
           missing == {i \in Target : ~Bound("alice", c, i)}
       IN  IF tasks[t].peer.params = ch["alice"][c].params /\ missing # {}
           THEN /\ tasks' = [tasks EXCEPT ![t].pc = "peer", ![t].round = 2,
                                          ![t].target = Min(missing)]
                /\ UNCHANGED scheduled
           ELSE End(t)
    /\ UNCHANGED <<ch, workers, jobs, nextId, outgoing, sess, bobVars, dropping, bounds>>

-----------------------------------------------------------------------------
(* Opening a session: Alice's call and Bob's registration.                 *)

Opened == {s \in Session : sess[s].a # "none"}
Live(s) == s # None /\ sess[s].a = "up"

\* precompute_session_handle: a handle whose loop still runs is reused; else
\* a new session is named after the counter, which restarts with the daemon.
SessionHandle(t) ==
    /\ tasks[t].pc = "handle"
    /\ LET c == tasks[t].chan
           s == Cardinality(Opened) + 1
       IN  IF Live(outgoing[c])
           THEN /\ tasks' = [tasks EXCEPT ![t].pc = "plan", ![t].sess = outgoing[c]]
                /\ UNCHANGED <<scheduled, nextId, outgoing, sess>>
           ELSE /\ outgoing' = [outgoing EXCEPT ![c] = None]
                /\ IF /\ ch["alice"][c].enabled
                      /\ ch["alice"][c].params = tasks[t].peer.params
                      /\ s \in Session
                   THEN /\ nextId' = nextId + 1
                        /\ sess' = [sess EXCEPT ![s] = [NoSession EXCEPT
                                       !.chan = c, !.name = nextId + 1, !.a = "opening",
                                       !.params = ch["alice"][c].params]]
                        /\ tasks' = [tasks EXCEPT ![t].pc = "main", ![t].sess = s]
                        /\ UNCHANGED scheduled
                   ELSE End(t) /\ UNCHANGED <<nextId, sess>>
    /\ UNCHANGED <<ch, workers, jobs, bobVars, dropping, bounds>>

\* Mutant: entries are found by their parameters, not by the session's name.
EntryOfParams(s) == {e \in grpc : e.params = sess[s].params}

\* The half-open entry of a session's name, if there is one.
Entry(s) == {e \in grpc : e.chan = sess[s].chan /\ e.name = sess[s].name}

\* The descriptor must be the entry's and the stream's slot must be free.
StreamFits(s, slot) ==
    \A e \in Entry(s) : e.params = sess[s].params /\ e[slot] = None

\* The entry that a stream of the session finds or makes, and with the stream.
EntryFor(s) ==
    IF Entry(s) = {}
    THEN [chan |-> sess[s].chan, name |-> sess[s].name, params |-> sess[s].params,
          main |-> None, sibling |-> None]
    ELSE CHOOSE e \in Entry(s) : TRUE
WithStream(s, slot) == [EntryFor(s) EXCEPT ![slot] = s]

Refuse(t) ==
    /\ End(t)
    /\ sess' = [sess EXCEPT ![tasks[t].sess].a = "closed"]

\* register_incoming_job_stream for one stream of Alice's: the first makes
\* the entry, the second spawns the session before its handle is recorded.
OpenStream(t) ==
    /\ tasks[t].pc \in {"main", "sibling"}
    /\ LET s == tasks[t].sess
           slot == tasks[t].pc
           new == WithStream(s, slot)
       IN  IF ~StreamFits(s, slot)
           THEN Refuse(t) /\ UNCHANGED grpc
           ELSE IF new.main = None \/ new.sibling = None
           THEN /\ grpc' = (grpc \ Entry(s)) \cup {new}
                /\ Goto(t, IF slot = "main" THEN "sibling" ELSE "setup")
                /\ UNCHANGED sess
           ELSE /\ grpc' = grpc \ Entry(s)
                /\ sess' = [sess EXCEPT ![s].b = "begin", ![s].unrecorded = TRUE,
                                        ![s].streams = {new.main, new.sibling}]
                /\ Goto(t, "setup")
    /\ UNCHANGED <<ch, workers, jobs, nextId, outgoing, incoming, dropping, bounds>>

\* A call of Alice's to the peer service fails.
CallFails(t) ==
    /\ tasks[t].pc \in {"peer", "fetch", "main", "sibling"}
    /\ End(t)
    /\ sess' = IF tasks[t].sess = None THEN sess
               ELSE [sess EXCEPT ![tasks[t].sess].a = "closed"]
    /\ UNCHANGED <<ch, workers, jobs, nextId, outgoing, bobVars, dropping, bounds>>

\* Aborting a task of Bob's drops its streams and whatever it was doing.
Aborted(r) ==
    [r EXCEPT !.b = IF @ \in {"none", "gone"} THEN @ ELSE "aborted", !.limit = 0]

\* The rest of the registration: the channel's handle is replaced, the old
\* session aborted.
RecordHandle(s) ==
    /\ sess[s].unrecorded
    /\ LET c == sess[s].chan
           old == incoming[c]
       IN  /\ incoming' = [incoming EXCEPT ![c] = s]
           /\ sess' = [r \in Session |->
                         IF r = s THEN [sess[s] EXCEPT !.unrecorded = FALSE]
                         ELSE IF r = old THEN Aborted(sess[r]) ELSE sess[r]]
    /\ UNCHANGED <<ch, workers, jobs, aliceVars, grpc, dropping, bounds>>
-----------------------------------------------------------------------------
(* Setting the session up: handshake, AG2PC setup, seed inputs.            *)

\* Mutant: a refused session keeps its streams open.
BeginIncomingKeepsStreams(s) ==
    /\ sess[s].b = "begin"
    /\ LET bob == ch["bob"][sess[s].chan]
       IN  sess' = [sess EXCEPT ![s].b =
                       IF bob.enabled /\ bob.params = sess[s].params THEN "setup" ELSE "idle"]
    /\ UNCHANGED <<ch, workers, jobs, aliceVars, bobVars, dropping, bounds>>

\* begin_incoming_precompute_session; refused, the streams are dropped.
BeginIncomingSession(s) ==
    /\ sess[s].b = "begin"
    /\ LET bob == ch["bob"][sess[s].chan]
       IN  sess' = [sess EXCEPT ![s].b =
                       IF bob.enabled /\ bob.params = sess[s].params THEN "setup" ELSE "leaving"]
    /\ UNCHANGED <<ch, workers, jobs, aliceVars, bobVars, dropping, bounds>>

\* Both ends are set up; Alice records the handle over any other there is.
SetUp(t) ==
    /\ tasks[t].pc = "setup"
    /\ LET s == tasks[t].sess
       IN  /\ sess[s].b = "setup" /\ ~sess[s].unrecorded
           /\ sess' = [sess EXCEPT ![s].a = "up", ![s].b = "recv"]
           /\ outgoing' = [outgoing EXCEPT ![tasks[t].chan] = s]
    /\ Goto(t, "plan")
    /\ UNCHANGED <<ch, workers, jobs, nextId, bobVars, dropping, bounds>>

\* The peer's end is gone before the set-up is finished.
SetUpFails(t) ==
    /\ tasks[t].pc = "setup"
    /\ sess[tasks[t].sess].b \in {"leaving", "gone", "aborted"}
    /\ Refuse(t)
    /\ UNCHANGED <<ch, workers, jobs, nextId, outgoing, bobVars, dropping, bounds>>

\* A session loop ends when the last handle to it is dropped.
LoopEnds(s) ==
    /\ Live(s)
    /\ outgoing[sess[s].chan] # s
    /\ \A t \in Task : tasks[t].sess # s
    /\ sess' = [sess EXCEPT ![s].a = "closed"]
    /\ UNCHANGED <<ch, workers, jobs, aliceVars, bobVars, dropping, bounds>>

-----------------------------------------------------------------------------
(* Alice's half of a job.                                                  *)

\* The loop serves one command at a time; a precompute is running while the
\* last command is not done on Alice's side.
LoopIdle(s) == \A k \in DOMAIN sess[s].cmds : sess[s].cmds[k].adone

\* The loop answers a Plan command; resource_model is read for begin.
Plan(t) ==
    /\ tasks[t].pc = "plan"
    /\ Live(tasks[t].sess) /\ LoopIdle(tasks[t].sess)
    /\ \E n \in Costs :
          tasks' = [tasks EXCEPT ![t].pc = "begin", ![t].planned = n,
                       ![t].limit = Min({workers["alice"], tasks[t].peer.workers})]
    /\ UNCHANGED <<ch, workers, jobs, scheduled, nextId, outgoing, sess, bobVars,
                   dropping, bounds>>

\* drop_precompute_session: the mark, the outgoing handle and, on Bob's side,
\* the incoming session of the channel go, whoever they belong to.
DropSession(d, c) ==
    IF d = "alice"
    THEN /\ scheduled' = scheduled \ {c}
         /\ outgoing' = [outgoing EXCEPT ![c] = None]
         /\ UNCHANGED <<sess, incoming>>
    ELSE /\ incoming' = [incoming EXCEPT ![c] = None]
         /\ sess' = [r \in Session |->
                       IF r = incoming[c] THEN Aborted(sess[r]) ELSE sess[r]]
         /\ UNCHANGED <<scheduled, outgoing>>

\* The loop has ended when the Plan or the Precompute command reaches it, or
\* it answers a failed run; a begun job is then finished as failed.
SessionStopped(t) ==
    /\ tasks[t].pc \in {"plan", "compute", "running"}
    /\ ~Live(tasks[t].sess)
    /\ DropSession("alice", tasks[t].chan)
    /\ tasks' = [tasks EXCEPT ![t].pc = IF tasks[t].pc = "plan" THEN "end" ELSE "finish"]
    /\ UNCHANGED <<ch, workers, jobs, nextId, grpc, dropping, bounds>>

CapAllows(d, c, planned) ==
    ch[d][c].est + Reserved(d, c) + planned <= ch[d][c].params

\* Mutant: what the scheduler has checked is not checked again.
MayBeginScheduled(t) ==
    /\ ch["alice"][tasks[t].chan].enabled
    /\ ~Bound("alice", tasks[t].chan, tasks[t].target)

MayBegin(t) ==
    LET c == tasks[t].chan
    IN  /\ ch["alice"][c].enabled
        /\ ~Bound("alice", c, tasks[t].target)
        /\ c \notin BusyChans("alice")
        /\ Cardinality(jobs["alice"]) < tasks[t].limit
        /\ CapAllows("alice", c, tasks[t].planned)

\* begin_precompute_jobstream: refused or already stored, the task returns
\* and the session stays.
BeginJob(t) ==
    /\ tasks[t].pc = "begin"
    /\ IF MayBegin(t)
       THEN /\ jobs' = [jobs EXCEPT !["alice"] = @ \cup
                          {[chan |-> tasks[t].chan, owner |-> t,
                            planned |-> tasks[t].planned]}]
            /\ Goto(t, "compute")
       ELSE End(t) /\ UNCHANGED jobs
    /\ UNCHANGED <<ch, workers, nextId, outgoing, sess, bobVars, dropping, bounds>>

\* The loop sends the target to Bob and starts its own half of the run.
SendTarget(t) ==
    /\ tasks[t].pc = "compute"
    /\ Live(tasks[t].sess) /\ LoopIdle(tasks[t].sess)
    /\ Len(sess[tasks[t].sess].cmds) < MaxCmds
    /\ sess' = [sess EXCEPT ![tasks[t].sess].cmds =
                   Append(@, [target |-> tasks[t].target, planned |-> tasks[t].planned,
                              begun |-> FALSE, adone |-> FALSE, bdone |-> FALSE])]
    /\ Goto(t, "running")
    /\ UNCHANGED <<ch, workers, jobs, nextId, outgoing, bobVars, dropping, bounds>>

\* A command done on both sides is forgotten; the oldest is done first.
Pending(cmds) ==
    IF cmds # <<>> /\ Head(cmds).adone /\ Head(cmds).bdone THEN Tail(cmds) ELSE cmds

\* Alice's half of a run is done: it needs Bob's unless nothing is computed.
RunDone(t) ==
    /\ tasks[t].pc = "running"
    /\ LET s == tasks[t].sess
           cmds == sess[s].cmds
       IN  /\ Live(s)
           /\ Last(cmds).begun \/ Last(cmds).planned = 0
           /\ sess' = [sess EXCEPT ![s].cmds = Pending([cmds EXCEPT ![Len(cmds)].adone = TRUE])]
    /\ Goto(t, "store")
    /\ UNCHANGED <<ch, workers, jobs, nextId, outgoing, bobVars, dropping, bounds>>

\* Bob's end is gone: the send or the run fails, the loop breaks and its
\* streams close.
RunFails(t) ==
    /\ tasks[t].pc = "running" \/ (tasks[t].pc = "compute" /\ LoopIdle(tasks[t].sess))
    /\ Live(tasks[t].sess) /\ sess[tasks[t].sess].b \in {"gone", "aborted"}
    /\ sess' = [sess EXCEPT ![tasks[t].sess].a = "closed"]
    /\ UNCHANGED <<ch, workers, jobs, aliceVars, bobVars, dropping, bounds>>

\* store_precomputed_target_wires_and_finish_job on d's side: the binding is
\* that of the parameters the channel has now, the units are charged and the
\* job removed; nothing is stored for a disabled channel.
StoreNode(d, c, i, owner, planned) ==
    /\ LET r == ch[d][c]
       IN  ch' = [ch EXCEPT ![d][c] = [r EXCEPT !.nodes = [r.nodes EXCEPT ![i] = r.params],
                                                !.est = r.est + planned]]
    /\ jobs' = [jobs EXCEPT ![d] = {j \in @ : j.owner # owner}]

StoreTarget(t) ==
    /\ tasks[t].pc = "store"
    /\ IF ch["alice"][tasks[t].chan].enabled
       THEN /\ StoreNode("alice", tasks[t].chan, tasks[t].target, t, tasks[t].planned)
            /\ End(t)
       ELSE Goto(t, "finish") /\ UNCHANGED <<ch, jobs>>
    /\ UNCHANGED <<workers, nextId, outgoing, sess, bobVars, dropping, bounds>>

\* finish_job(failed), or only the return of a task without a job.
FinishTask(t) ==
    /\ tasks[t].pc \in {"finish", "end"}
    /\ jobs' = [jobs EXCEPT !["alice"] = {j \in @ : j.owner # t}]
    /\ End(t)
    /\ UNCHANGED <<ch, workers, nextId, outgoing, sess, bobVars, dropping, bounds>>

-----------------------------------------------------------------------------
(* Bob's half of a job: run_incoming_precompute_session.                   *)

\* Bob's current command is the oldest, unless he is done with it.
Current(s) == Head(sess[s].cmds)
Arrived(s) == sess[s].cmds # <<>> /\ ~Current(s).bdone

\* The next target arrives and is planned; resource_model is read.
RecvTarget(s) ==
    /\ sess[s].b = "recv" /\ Arrived(s)
    /\ sess' = [sess EXCEPT ![s].b = "admit", ![s].limit = workers["bob"]]
    /\ UNCHANGED <<ch, workers, jobs, aliceVars, bobVars, dropping, bounds>>

\* Mutant: only what is already charged counts against the cap.
AdmitsOverCap(s) ==
    LET c == sess[s].chan
    IN  /\ ch["bob"][c].enabled /\ ch["bob"][c].params = sess[s].params
        /\ Cardinality(jobs["bob"]) < sess[s].limit
        /\ c \notin BusyChans("bob")
        /\ ch["bob"][c].est <= ch["bob"][c].params

\* Mutant: the worker limit is off by one.
AdmitsOneMore(s) ==
    LET c == sess[s].chan
    IN  /\ ch["bob"][c].enabled /\ ch["bob"][c].params = sess[s].params
        /\ Cardinality(jobs["bob"]) <= sess[s].limit
        /\ c \notin BusyChans("bob")
        /\ CapAllows("bob", c, Current(s).planned)

\* begin_incoming_precompute_target's conditions.
Admits(s) ==
    LET c == sess[s].chan
    IN  /\ ch["bob"][c].enabled /\ ch["bob"][c].params = sess[s].params
        /\ Cardinality(jobs["bob"]) < sess[s].limit
        /\ c \notin BusyChans("bob")
        /\ CapAllows("bob", c, Current(s).planned)

\* A refused target ends the session.
BeginIncomingTarget(s) ==
    /\ sess[s].b = "admit"
    /\ IF Admits(s)
       THEN /\ jobs' = [jobs EXCEPT !["bob"] = @ \cup
                          {[chan |-> sess[s].chan, owner |-> s,
                            planned |-> Current(s).planned]}]
            /\ sess' = [sess EXCEPT ![s].b = "run", ![s].limit = 0,
                                    ![s].cmds = [@ EXCEPT ![1].begun = TRUE]]
       ELSE /\ sess' = [sess EXCEPT ![s].b = "leaving", ![s].limit = 0]
            /\ UNCHANGED jobs
    /\ UNCHANGED <<ch, workers, aliceVars, bobVars, dropping, bounds>>

\* The run is done.  Stored, the session waits for the next target; on a channel disabled
\* meanwhile the job is finished as failed and the session ends.
IncomingStore(s) ==
    /\ sess[s].b = "run"
    /\ LET c == sess[s].chan
           k == Current(s)
       IN  IF ch["bob"][c].enabled
           THEN /\ StoreNode("bob", c, k.target, s, k.planned)
                /\ sess' = [sess EXCEPT ![s].b = "recv",
                               ![s].cmds = Pending([@ EXCEPT ![1].bdone = TRUE])]
           ELSE /\ sess' = [sess EXCEPT ![s].b = "failing"]
                /\ UNCHANGED <<ch, jobs>>
    /\ UNCHANGED <<workers, aliceVars, bobVars, dropping, bounds>>

\* Mutant: a failed run returns like a failed wait.
IncomingReturns(s) ==
    /\ sess[s].b \in {"setup", "recv", "run"}
    /\ sess[s].a = "closed"
    /\ sess' = [sess EXCEPT ![s].b = "leaving"]
    /\ UNCHANGED <<ch, workers, jobs, aliceVars, bobVars, dropping, bounds>>

\* Alice's end is gone: the set-up, the wait for a target or the run fails.
IncomingFails(s) ==
    /\ sess[s].b \in {"setup", "recv", "run"}
    /\ sess[s].a = "closed"
    /\ sess' = [sess EXCEPT ![s].b = IF sess[s].b = "run" THEN "failing" ELSE "leaving"]
    /\ UNCHANGED <<ch, workers, jobs, aliceVars, bobVars, dropping, bounds>>

\* finish_job(failed) before the session returns.
IncomingFinish(s) ==
    /\ sess[s].b = "failing"
    /\ jobs' = [jobs EXCEPT !["bob"] = {j \in @ : j.owner # s}]
    /\ sess' = [sess EXCEPT ![s].b = "leaving"]
    /\ UNCHANGED <<ch, workers, aliceVars, bobVars, dropping, bounds>>

\* A session that returns unregisters its channel, whoever's handle is there.
Unregister(s) ==
    /\ sess[s].b = "leaving"
    /\ incoming' = [incoming EXCEPT ![sess[s].chan] = None]
    /\ sess' = [sess EXCEPT ![s].b = "gone"]
    /\ UNCHANGED <<ch, workers, jobs, aliceVars, grpc, dropping, bounds>>

-----------------------------------------------------------------------------
(* Control calls and restarts.                                             *)

SetConfig(d, w) ==
    /\ events < MaxEvents /\ w # workers[d]
    /\ events' = events + 1
    /\ workers' = [workers EXCEPT ![d] = w]
    /\ peak' = [peak EXCEPT ![d].workers = Max({@, w})]
    /\ UNCHANGED <<ch, jobs, aliceVars, sess, bobVars, dropping>>

\* A channel may be enabled again with other parameters at any time.
EnableChannel(d, c, p) ==
    /\ events < MaxEvents
    /\ ~ch[d][c].enabled \/ p # ch[d][c].params
    /\ events' = events + 1
    /\ ch' = [ch EXCEPT ![d][c].enabled = TRUE, ![d][c].params = p]
    /\ peak' = [peak EXCEPT ![d].cap[c] = Max({@, p})]
    /\ UNCHANGED <<workers, jobs, aliceVars, sess, bobVars, dropping>>

\* Mutant: an active job does not stop the call.
DisableAnyway(d, c) ==
    /\ events < MaxEvents /\ ch[d][c].enabled
    /\ events' = events + 1
    /\ ch' = [ch EXCEPT ![d][c].enabled = FALSE, ![d][c].nodes = [i \in Target |-> None]]
    /\ dropping' = [dropping EXCEPT ![d] = @ \cup {c}]
    /\ UNCHANGED <<workers, jobs, aliceVars, sess, bobVars, peak>>

\* Refused while the channel has an active job; the session is dropped only
\* after the change is flushed.
DisableChannel(d, c) ==
    /\ events < MaxEvents /\ ch[d][c].enabled
    /\ c \notin BusyChans(d)
    /\ events' = events + 1
    /\ ch' = [ch EXCEPT ![d][c].enabled = FALSE, ![d][c].nodes = [i \in Target |-> None]]
    /\ dropping' = [dropping EXCEPT ![d] = @ \cup {c}]
    /\ UNCHANGED <<workers, jobs, aliceVars, sess, bobVars, peak>>

DisableDrops(d, c) ==
    /\ c \in dropping[d]
    /\ dropping' = [dropping EXCEPT ![d] = @ \ {c}]
    /\ DropSession(d, c)
    /\ UNCHANGED <<ch, workers, jobs, tasks, nextId, grpc, bounds>>

\* A daemon is killed and started again from its database: everything that
\* is not in a channel's record is gone, its ends of the streams are closed.
RestartAlice ==
    /\ events < MaxEvents
    /\ events' = events + 1
    /\ jobs' = [jobs EXCEPT !["alice"] = {}]
    /\ tasks' = [t \in Task |-> IdleTask]
    /\ scheduled' = {}
    /\ nextId' = 0
    /\ outgoing' = [c \in Chan |-> None]
    /\ sess' = [s \in Session |->
                  [sess[s] EXCEPT !.a = IF @ = "none" THEN @ ELSE "closed"]]
    /\ dropping' = [dropping EXCEPT !["alice"] = {}]
    /\ UNCHANGED <<ch, workers, bobVars, peak>>

\* A stream that had arrived for a half-open entry is gone with the entry.
RestartBob ==
    /\ events < MaxEvents
    /\ events' = events + 1
    /\ jobs' = [jobs EXCEPT !["bob"] = {}]
    /\ grpc' = {}
    /\ incoming' = [c \in Chan |-> None]
    /\ sess' = [s \in Session |->
                  IF \E e \in grpc : s \in {e.main, e.sibling}
                  THEN [sess[s] EXCEPT !.b = "gone"]
                  ELSE [Aborted(sess[s]) EXCEPT !.unrecorded = FALSE]]
    /\ dropping' = [dropping EXCEPT !["bob"] = {}]
    /\ UNCHANGED <<ch, workers, aliceVars, peak>>

-----------------------------------------------------------------------------
TaskStep(t) ==
    \/ PeerFrontier(t) \/ FetchFrontier(t) \/ Reconcile(t) \/ ChooseTarget(t)
    \/ SessionHandle(t) \/ OpenStream(t) \/ SetUp(t) \/ SetUpFails(t)
    \/ Plan(t) \/ SessionStopped(t) \/ BeginJob(t) \/ SendTarget(t)
    \/ RunDone(t) \/ RunFails(t) \/ StoreTarget(t) \/ FinishTask(t)

SessionStep(s) ==
    \/ RecordHandle(s) \/ BeginIncomingSession(s)
    \/ RecvTarget(s) \/ BeginIncomingTarget(s) \/ IncomingStore(s)
    \/ IncomingFails(s) \/ IncomingFinish(s) \/ Unregister(s)

Next ==
    \/ \E t \in Task, c \in Chan : Schedule(t, c)
    \/ \E t \in Task : TaskStep(t) \/ CallFails(t)
    \/ \E s \in Session : SessionStep(s) \/ LoopEnds(s)
    \/ \E d \in Daemon, w \in WorkerCounts : SetConfig(d, w)
    \/ \E d \in Daemon, c \in Chan, p \in Params : EnableChannel(d, c, p)
    \/ \E d \in Daemon, c \in Chan : DisableChannel(d, c) \/ DisableDrops(d, c)
    \/ RestartAlice \/ RestartBob

Spec == Init /\ [][Next]_vars

-----------------------------------------------------------------------------
\* What a channel's finished jobs have used and its active ones may use never
\* passes the largest lifetime cap it was given, whatever fails, restarts or
\* begins at once on either side (begin_precompute_jobstream,
\* begin_incoming_precompute_target).
CapHolds ==
    \A d \in Daemon, c \in Chan : ch[d][c].est + Reserved(d, c) <= peak[d].cap[c]

\* A daemon never has more active jobs than the largest worker count it was
\* configured with, though the count is read before the lock is taken.
WorkersHold ==
    \A d \in Daemon : Cardinality(jobs[d]) <= peak[d].workers

\* Tasks and sessions between the beginning and the end of a job.
Running(d) ==
    IF d = "alice"
    THEN {[chan |-> tasks[t].chan, owner |-> t] :
            t \in {u \in Task : tasks[u].pc \in {"compute", "running", "store", "finish"}}}
    ELSE {[chan |-> sess[s].chan, owner |-> s] :
            s \in {r \in Session : sess[r].b \in {"run", "failing"}}}

\* One run per channel and daemon: a second task started by a dropped mark, a
\* second session or a job left by another never lets two runs of a channel
\* overlap, and no run loses its job to another's clean-up.
OneRunPerChannel ==
    \A d \in Daemon :
        /\ \A x, y \in Running(d) : x.chan = y.chan => x = y
        /\ \A x \in Running(d) : \E j \in jobs[d] : j.chan = x.chan /\ j.owner = x.owner

\* Bob never joins live streams of two openings to one session: a name used
\* again after a restart of Alice, or an entry that a restart of Bob left with
\* one stream, can meet only a stream that is closed already
\* (register_incoming_job_stream).
PairedStreams ==
    \A s \in Session : \A r \in sess[s].streams : r = s \/ sess[r].a = "closed"

\* A disabled channel holds no node and has no active job: a run begun before
\* DisableChannel cannot store after it.
DisabledIsQuiet ==
    \A d \in Daemon, c \in Chan :
        ~ch[d][c].enabled => /\ c \notin BusyChans(d)
                             /\ \A i \in Target : ch[d][c].nodes[i] = None

\* A task never waits for something that cannot happen: while it cannot go on
\* itself, a step of Bob's half of its session or of the task that occupies
\* the session can be taken.  No channel is left scheduled with nobody working
\* on it, whatever happens to the session.
NoStuckTask ==
    \A t \in Task :
        tasks[t].pc \in {"setup", "plan", "compute", "running"} =>
            \/ ENABLED TaskStep(t)
            \/ ENABLED SessionStep(tasks[t].sess)
            \/ \E u \in Task \ {t} : tasks[u].sess = tasks[t].sess /\ ENABLED TaskStep(u)

\* An active job has a task or a session that will finish it, whatever fails.
\* The one exception is a session of Bob's that is aborted in the middle of a
\* run, by its successor's registration or a late drop: it never reaches
\* finish_job, and its job stays.
JobsAreOwned ==
    \A d \in Daemon : \A j \in jobs[d] :
        \/ \E x \in Running(d) : x.chan = j.chan /\ x.owner = j.owner
        \/ d = "bob" /\ sess[j.owner].b = "aborted"

=============================================================================
