------------------------ MODULE PrecomputeJobsProofs ------------------------
(***************************************************************************)
(* Proofs about PrecomputeJobs: whatever the channels, tasks, sessions,    *)
(* parameters and worker counts, and whatever fails or restarts.           *)
(***************************************************************************)
EXTENDS PrecomputeJobs, FiniteSetTheorems, SequenceTheorems, TLAPS

-----------------------------------------------------------------------------
(* The inductive invariant.                                                *)

\* Where a task is between its start and its end; with a job; opening.
WithJob == {"compute", "running", "store", "finish"}
Opening == {"main", "sibling", "setup"}
TaskPc == {"idle", "peer", "fetch", "reconcile", "choose", "handle", "plan", "begin", "end"}
          \cup Opening \cup WithJob
BobPc == {"none", "begin", "setup", "recv", "admit", "run", "failing", "leaving", "gone",
          "aborted"}

ChannelRec == [enabled : BOOLEAN, params : Nat, nodes : [Target -> Nat], est : Nat]
PeerRec == [params : Nat, workers : Nat, nodes : {<<>>} \cup [Target -> Nat]]
TaskRec == [pc : TaskPc, chan : Chan \cup {None}, round : Nat, peer : PeerRec,
            target : Nat, planned : Nat, limit : Nat, sess : Session \cup {None}]
Cmd == [target : Nat, planned : Nat, begun : BOOLEAN, adone : BOOLEAN, bdone : BOOLEAN]
SessionRec == [chan : Chan \cup {None}, name : Nat, params : Nat,
               a : {"none", "opening", "up", "closed"}, b : BobPc, unrecorded : BOOLEAN,
               limit : Nat, cmds : Seq(Cmd), streams : SUBSET Session]
EntryRec == [chan : Chan \cup {None}, name : Nat, params : Nat,
             main : Session \cup {None}, sibling : Session \cup {None}]
JobRec == [chan : Chan, owner : Task \cup Session, planned : Nat]
PeakRec == [workers : Nat, cap : [Chan -> Nat]]

TypeOK ==
    /\ ch \in [Daemon -> [Chan -> ChannelRec]]
    /\ workers \in [Daemon -> Nat]
    /\ jobs \in [Daemon -> SUBSET JobRec]
    /\ tasks \in [Task -> TaskRec]
    /\ nextId \in Nat
    /\ outgoing \in [Chan -> Session \cup {None}]
    /\ sess \in [Session -> SessionRec]
    /\ grpc \subseteq EntryRec
    /\ incoming \in [Chan -> Session \cup {None}]
    /\ peak \in [Daemon -> PeakRec]

\* A task that has started has a channel.
TasksOK ==
    \A t \in Task : tasks[t].pc # "idle" => tasks[t].chan \in Chan

\* Sessions are opened in order, and nothing refers to one that is not opened.
OpenedOK ==
    /\ \E n \in Nat : Opened = 1..n
    /\ \A s \in Session : sess[s].a = "none" => sess[s].b = "none"
    /\ \A s \in Opened : sess[s].chan \in Chan
    /\ \A t \in Task : tasks[t].sess \in Opened \cup {None}
    /\ \A e \in grpc : {e.main, e.sibling} \subseteq Opened \cup {None}

\* The session a task is opening is its own, and has no end at Bob's until
\* its second stream has arrived.
OpeningOK ==
    \A t \in Task : tasks[t].pc \in Opening =>
        /\ tasks[t].sess \in Session
        /\ sess[tasks[t].sess].a = "opening"
        /\ tasks[t].pc # "setup" => sess[tasks[t].sess].b \in {"none", "gone"}
        /\ \A u \in Task \ {t} : tasks[u].sess # tasks[t].sess

\* A name is used once between two restarts of Alice.
NamesOK ==
    /\ \A s \in Opened : sess[s].a # "closed" => sess[s].name <= nextId
    /\ \A r, s \in Opened :
          sess[r].a # "closed" /\ sess[s].a # "closed" /\ sess[r].name = sess[s].name => r = s
    /\ \A e \in grpc : \A s \in {e.main, e.sibling} \ {None} : sess[s].name = e.name

\* Bob's current command stays until he is done with it.
CurrentOK ==
    \A s \in Session : sess[s].b \in {"admit", "run"} => Arrived(s)

\* Alice's jobs and the tasks that run them.
AliceJobsOK ==
    /\ \A t \in Task : tasks[t].pc \in WithJob =>
          [chan |-> tasks[t].chan, owner |-> t, planned |-> tasks[t].planned] \in jobs["alice"]
    /\ \A j \in jobs["alice"] :
          j.owner \in Task /\ tasks[j.owner].pc \in WithJob /\ tasks[j.owner].chan = j.chan

\* Bob's jobs and the sessions that run them, or were aborted running them.
BobJobsOK ==
    /\ \A s \in Session : sess[s].b \in {"run", "failing"} =>
          \E j \in jobs["bob"] : j.chan = sess[s].chan /\ j.owner = s
    /\ \A j \in jobs["bob"] :
          /\ j.owner \in Session
          /\ sess[j.owner].b \in {"run", "failing", "aborted"}
          /\ sess[j.owner].chan = j.chan
          /\ sess[j.owner].b = "run" => j.planned = Current(j.owner).planned

OneJobPerChannel ==
    \A d \in Daemon : \A j, k \in jobs[d] : j.chan = k.chan => j = k

\* What was configured when it was read is no more than the largest value.
LimitsOK ==
    /\ \A d \in Daemon : workers[d] <= peak[d].workers
    /\ \A t \in Task : tasks[t].limit <= peak["alice"].workers
    /\ \A s \in Session : sess[s].limit <= peak["bob"].workers
    /\ \A d \in Daemon : IsFiniteSet(jobs[d]) /\ Cardinality(jobs[d]) <= peak[d].workers

\* Charged units, with those of an active job, are within the largest cap.
CapOK ==
    \A d \in Daemon, c \in Chan :
        /\ ch[d][c].params <= peak[d].cap[c]
        /\ ch[d][c].est <= peak[d].cap[c]
        /\ \A j \in jobs[d] : j.chan = c => ch[d][c].est + j.planned <= peak[d].cap[c]

IInv == /\ TypeOK /\ TasksOK /\ OpenedOK /\ OpeningOK /\ NamesOK /\ PairedStreams
        /\ CurrentOK /\ AliceJobsOK /\ BobJobsOK /\ OneJobPerChannel
        /\ LimitsOK /\ CapOK /\ DisabledIsQuiet

-----------------------------------------------------------------------------
(* Extremal values and sums.                                               *)

\* A set of numbers that is not empty has its minimum among its elements.
LEMMA MinIsElement ==
    ASSUME NEW S, S \subseteq Nat, S # {}
    PROVE  Min(S) \in S /\ \A y \in S : Min(S) <= y
<1> DEFINE R == {p \in Nat \X Nat : p[1] < p[2]}
<1>0. IsWellFoundedOn(R, Nat)
  BY NatLessThanWellFounded, Zenon DEF OpToRel
<1>1. PICK x \in S : \A y \in S : ~(<<y, x>> \in R)
  BY <1>0, WFMin, Zenon
<1>2. \A y \in S : x <= y
  <2> SUFFICES ASSUME NEW y \in S, y < x PROVE FALSE
    OBVIOUS
  <2>1. <<y, x>> \in Nat \X Nat /\ <<y, x>>[1] < <<y, x>>[2]
    OBVIOUS
  <2>2. <<y, x>> \in R
    BY <2>1
  <2>3. QED
    BY <1>1, <2>2
<1>3. QED
  BY <1>2 DEF Min

\* The smaller and the larger of two numbers.
LEMMA OfTwo ==
    ASSUME NEW a \in Nat, NEW b \in Nat
    PROVE  /\ Min({a, b}) \in Nat /\ Min({a, b}) <= a /\ Min({a, b}) <= b
           /\ Max({a, b}) \in Nat /\ a <= Max({a, b}) /\ b <= Max({a, b})
<1>1. Min({a, b}) \in {a, b} /\ \A y \in {a, b} : Min({a, b}) <= y
  BY MinIsElement, {a, b} \subseteq Nat, {a, b} # {}
<1>2. \E x \in {a, b} : \A y \in {a, b} : x >= y
  OBVIOUS
<1>3. Max({a, b}) \in {a, b} /\ \A y \in {a, b} : Max({a, b}) >= y
  BY <1>2 DEF Max
<1>4. QED
  BY <1>1, <1>3

\* What a channel with at most one job has reserved.
LEMMA ReservedIs ==
    ASSUME NEW d \in Daemon, NEW c
    PROVE  /\ (\A j \in jobs[d] : j.chan # c) => Reserved(d, c) = 0
           /\ \A j \in jobs[d] :
                 j.planned \in Nat /\ (\A k \in jobs[d] : k.chan = c <=> k = j) =>
                    Reserved(d, c) = j.planned
<1> DEFINE S == {j \in jobs[d] : j.chan = c}
           F(f) == [s \in SUBSET S |->
                      IF s = {} THEN 0
                      ELSE (CHOOSE x \in s : TRUE).planned + f[s \ {CHOOSE x \in s : TRUE}]]
<1>1. Reserved(d, c) = (CHOOSE f : f = F(f))[S]
  BY DEF Reserved, MapThenSumSet, MapThenFoldSet
<1>2. ASSUME S = {} PROVE Reserved(d, c) = 0
  <2> DEFINE g == [s \in SUBSET S |-> 0]
  <2>1. g = F(g)
    BY <1>2
  <2>2. (CHOOSE f : f = F(f)) = F(CHOOSE f : f = F(f))
    BY <2>1
  <2>3. QED
    BY <1>1, <1>2, <2>2
<1>3. ASSUME NEW j, S = {j}, j.planned \in Nat PROVE Reserved(d, c) = j.planned
  <2> DEFINE g == [s \in SUBSET S |-> IF s = {} THEN 0 ELSE j.planned]
  <2>1. \A s \in SUBSET S : s # {} => s = S /\ (CHOOSE x \in s : TRUE) = j /\ s \ {j} = {}
    BY <1>3
  <2>2. g = F(g)
    BY <1>3, <2>1
  <2>3. (CHOOSE f : f = F(f)) = F(CHOOSE f : f = F(f))
    BY <2>2
  <2> DEFINE h == CHOOSE f : f = F(f)
  <2>4. h = F(h)
    BY <2>3
  <2> HIDE DEF h
  <2>5. {} \in SUBSET S /\ S \in SUBSET S /\ S # {}
    BY <1>3
  <2>6. h[{}] = 0
    BY <2>4, <2>5
  <2>7. h[S] = j.planned + h[{}]
    <3>1. h[S] = (CHOOSE x \in S : TRUE).planned + h[S \ {CHOOSE x \in S : TRUE}]
      BY <2>4, <2>5, Zenon
    <3>2. QED
      BY <2>1, <2>5, <3>1
  <2>8. Reserved(d, c) = h[S]
    BY <1>1, Zenon DEF h
  <2>9. QED
    BY <1>3, <2>6, <2>7, <2>8
<1>4. QED
  BY <1>2, <1>3

-----------------------------------------------------------------------------
(* What a step does to Alice's tasks.                                      *)

\* The other tasks are left alone.
OnlyTask(t) == \A u \in Task \ {t} : tasks'[u] = tasks[u]

\* Task t goes from its place to pc with its channel, its plan and its limit.
Moves(t, pc) ==
    /\ OnlyTask(t)
    /\ tasks'[t].pc = pc
    /\ tasks'[t].chan = tasks[t].chan
    /\ tasks'[t].planned = tasks[t].planned
    /\ tasks'[t].limit = tasks[t].limit

\* Task t goes on to pc with the session it has.
GoesOn(t, pc) == Moves(t, pc) /\ tasks'[t].sess = tasks[t].sess

\* Task t returns.
Returns(t) == OnlyTask(t) /\ tasks'[t] = IdleTask

TaskTypes == tasks \in [Task -> TaskRec] /\ TasksOK

LEMMA IdleTaskType == IdleTask \in TaskRec
BY DEF IdleTask, NoPeer, TaskRec, PeerRec, TaskPc, None

LEMMA EndEffect ==
    ASSUME TaskTypes, NEW t \in Task, End(t)
    PROVE  Returns(t) /\ TaskTypes'
<1>1. Returns(t) /\ tasks' \in [Task -> TaskRec]
  BY IdleTaskType DEF TaskTypes, End, Returns, OnlyTask
<1>2. TasksOK'
  BY <1>1 DEF TaskTypes, TasksOK, Returns, OnlyTask, IdleTask
<1>3. QED
  BY <1>1, <1>2 DEF TaskTypes

LEMMA GotoEffect ==
    ASSUME TaskTypes, NEW t \in Task, NEW pc \in TaskPc \ {"idle"}, tasks[t].pc # "idle",
           Goto(t, pc)
    PROVE  GoesOn(t, pc) /\ TaskTypes'
<1>1. GoesOn(t, pc) /\ tasks' \in [Task -> TaskRec]
  BY DEF TaskTypes, TaskRec, Goto, GoesOn, Moves, OnlyTask
<1>2. TasksOK'
  BY <1>1 DEF TaskTypes, TasksOK, GoesOn, Moves, OnlyTask
<1>3. QED
  BY <1>1, <1>2 DEF TaskTypes

LEMMA ScheduleEffect ==
    ASSUME TaskTypes, NEW t \in Task, NEW c \in Chan, Schedule(t, c)
    PROVE  /\ TaskTypes' /\ OnlyTask(t) /\ tasks[t].pc = "idle"
           /\ tasks'[t].pc = "peer" /\ tasks'[t].limit = 0 /\ tasks'[t].sess = None
<1>1. tasks'[t] = [IdleTask EXCEPT !.pc = "peer", !.chan = c, !.round = 1] /\ OnlyTask(t)
  BY DEF TaskTypes, Schedule, OnlyTask
<1>2. [IdleTask EXCEPT !.pc = "peer", !.chan = c, !.round = 1] \in TaskRec
  BY DEF IdleTask, NoPeer, TaskRec, PeerRec, TaskPc, None
<1>3. tasks' \in [Task -> TaskRec]
  BY <1>2 DEF TaskTypes, Schedule
<1>4. tasks'[t].pc = "peer" /\ tasks'[t].chan = c /\ tasks'[t].limit = 0 /\ tasks'[t].sess = None
  BY <1>1 DEF IdleTask
<1>5. QED
  BY <1>1, <1>3, <1>4 DEF TaskTypes, TasksOK, OnlyTask, Schedule

LEMMA PeerFrontierEffect ==
    ASSUME TypeOK, TasksOK, NEW t \in Task, PeerFrontier(t)
    PROVE  TaskTypes' /\ (GoesOn(t, "fetch") \/ Returns(t))
<1> DEFINE bob == ch["bob"][tasks[t].chan]
           peer == [params |-> bob.params, workers |-> workers["bob"], nodes |-> <<>>]
<1>1. TaskTypes /\ tasks[t].pc = "peer"
  BY DEF PeerFrontier, TypeOK, TaskTypes
<1>2. CASE bob.enabled
  <2>1. tasks' = [tasks EXCEPT ![t].pc = "fetch", ![t].peer = peer]
    BY <1>2 DEF PeerFrontier
  <2>2. bob.params \in Nat /\ workers["bob"] \in Nat
    BY <1>1 DEF TypeOK, TasksOK, Daemon, ChannelRec
  <2>3. peer \in PeerRec
    BY <2>2 DEF PeerRec
  <2> HIDE DEF peer
  <2>4. tasks' \in [Task -> TaskRec] /\ GoesOn(t, "fetch")
    BY <1>1, <2>1, <2>3, ZenonT(40) DEF TaskTypes, TaskRec, TaskPc, GoesOn, Moves, OnlyTask
  <2>5. QED
    BY <1>1, <2>4 DEF TaskTypes, TasksOK, GoesOn, Moves, OnlyTask
<1>3. CASE ~bob.enabled
  BY <1>1, <1>3, EndEffect DEF PeerFrontier
<1>4. QED
  BY <1>2, <1>3

LEMMA FetchFrontierEffect ==
    ASSUME TypeOK, TasksOK, NEW t \in Task, FetchFrontier(t)
    PROVE  /\ TaskTypes'
           /\ Returns(t) \/ \E pc \in {"reconcile", "choose", "handle"} : GoesOn(t, pc)
<1> DEFINE bob == ch["bob"][tasks[t].chan]
<1>1. TaskTypes /\ tasks[t].pc = "fetch"
  BY DEF FetchFrontier, TypeOK, TaskTypes
<1>2. CASE tasks' = [tasks EXCEPT ![t].pc = "reconcile", ![t].peer.nodes = bob.nodes]
  <2>1. bob.nodes \in [Target -> Nat]
    BY <1>1 DEF TypeOK, TasksOK, Daemon, ChannelRec
  <2>2. [tasks[t].peer EXCEPT !.nodes = bob.nodes] \in PeerRec
    BY <1>1, <2>1 DEF TaskTypes, TaskRec, PeerRec
  <2>3. tasks' = [tasks EXCEPT ![t].pc = "reconcile",
                               ![t].peer = [tasks[t].peer EXCEPT !.nodes = bob.nodes]]
    BY <1>1, <1>2 DEF TaskTypes, TaskRec
  <2>4. tasks' \in [Task -> TaskRec] /\ GoesOn(t, "reconcile")
    BY <1>1, <2>2, <2>3, ZenonT(40) DEF TaskTypes, TaskRec, TaskPc, GoesOn, Moves, OnlyTask
  <2>5. QED
    BY <1>1, <2>4 DEF TaskTypes, TasksOK, GoesOn, Moves, OnlyTask
<1>3. CASE End(t)
  BY <1>1, <1>3, EndEffect
<1>4. ASSUME NEW pc \in {"choose", "handle"}, Goto(t, pc)
      PROVE  TaskTypes' /\ GoesOn(t, pc)
  BY <1>1, <1>4, GotoEffect DEF TaskPc
<1>5. QED
  BY <1>2, <1>3, <1>4 DEF FetchFrontier

LEMMA ReconcileEffect ==
    ASSUME TypeOK, TasksOK, NEW t \in Task, Reconcile(t)
    PROVE  TaskTypes' /\ \E pc \in {"choose", "handle"} : GoesOn(t, pc)
<1> DEFINE pc == IF tasks[t].round = 1 THEN "choose" ELSE "handle"
<1>1. TaskTypes /\ tasks[t].pc = "reconcile"
  BY DEF Reconcile, TypeOK, TaskTypes
<1>2. [tasks[t].peer EXCEPT !.nodes = <<>>] \in PeerRec
  BY <1>1 DEF TaskTypes, TaskRec, PeerRec
<1>3. tasks' = [tasks EXCEPT ![t].pc = pc, ![t].peer = [tasks[t].peer EXCEPT !.nodes = <<>>]]
  BY <1>1 DEF Reconcile, TaskTypes, TaskRec
<1>4. pc \in {"choose", "handle"}
  OBVIOUS
<1> HIDE DEF pc
<1>5. tasks' \in [Task -> TaskRec] /\ GoesOn(t, pc)
  BY <1>1, <1>2, <1>3, <1>4, ZenonT(40) DEF TaskTypes, TaskRec, TaskPc, GoesOn, Moves, OnlyTask
<1>6. QED
  BY <1>1, <1>4, <1>5 DEF TaskTypes, TasksOK, GoesOn, Moves, OnlyTask

LEMMA ChooseTargetEffect ==
    ASSUME TypeOK, TasksOK, NEW t \in Task, ChooseTarget(t)
    PROVE  TaskTypes' /\ (GoesOn(t, "peer") \/ Returns(t))
<1> DEFINE missing == {i \in Target : ~Bound("alice", tasks[t].chan, i)}
<1>1. TaskTypes /\ tasks[t].pc = "choose"
  BY DEF ChooseTarget, TypeOK, TaskTypes
<1>2. ASSUME missing # {},
             tasks' = [tasks EXCEPT ![t].pc = "peer", ![t].round = 2, ![t].target = Min(missing)]
      PROVE  TaskTypes' /\ GoesOn(t, "peer")
  <2>1. missing \subseteq Nat
    BY BoundAssumption DEF Target
  <2> HIDE DEF missing
  <2>2. Min(missing) \in Nat
    BY <1>2, <2>1, MinIsElement
  <2> DEFINE r == [tasks[t] EXCEPT !.pc = "peer", !.round = 2, !.target = Min(missing)]
  <2>3. tasks' = [tasks EXCEPT ![t] = r]
    BY <1>1, <1>2 DEF TaskTypes
  <2>4. /\ r \in TaskRec /\ r.pc = "peer" /\ r.chan = tasks[t].chan
        /\ r.planned = tasks[t].planned /\ r.limit = tasks[t].limit /\ r.sess = tasks[t].sess
    BY <1>1, <2>2 DEF TaskTypes, TaskRec, TaskPc
  <2> HIDE DEF r
  <2>5. tasks' \in [Task -> TaskRec] /\ GoesOn(t, "peer")
    BY <1>1, <2>3, <2>4 DEF TaskTypes, GoesOn, Moves, OnlyTask
  <2>6. QED
    BY <1>1, <2>5 DEF TaskTypes, TasksOK, GoesOn, Moves, OnlyTask
<1>3. QED
  BY <1>1, <1>2, EndEffect DEF ChooseTarget

\* The limit is the smaller of both worker counts, as they were read.
LEMMA PlanEffect ==
    ASSUME TypeOK, TasksOK, NEW t \in Task, Plan(t)
    PROVE  /\ TaskTypes' /\ OnlyTask(t)
           /\ tasks'[t].pc = "begin" /\ tasks'[t].sess = tasks[t].sess
           /\ tasks'[t].limit <= workers["alice"]
<1> DEFINE limit == Min({workers["alice"], tasks[t].peer.workers})
<1>1. TaskTypes /\ tasks[t].pc = "plan"
  BY DEF Plan, TypeOK, TaskTypes
<1>2. PICK n \in Costs :
        tasks' = [tasks EXCEPT ![t].pc = "begin", ![t].planned = n, ![t].limit = limit]
  BY DEF Plan
<1>3. n \in Nat
  BY BoundAssumption
<1>4. workers["alice"] \in Nat /\ tasks[t].peer.workers \in Nat
  BY <1>1 DEF TypeOK, Daemon, TaskRec, PeerRec
<1>5. limit \in Nat /\ limit <= workers["alice"]
  BY <1>4, OfTwo
<1> HIDE DEF limit
<1> DEFINE r == [tasks[t] EXCEPT !.pc = "begin", !.planned = n, !.limit = limit]
<1>6. tasks' = [tasks EXCEPT ![t] = r]
  BY <1>1, <1>2 DEF TaskTypes
<1>7. /\ r \in TaskRec /\ r.pc = "begin" /\ r.chan = tasks[t].chan
      /\ r.limit = limit /\ r.sess = tasks[t].sess
  BY <1>1, <1>3, <1>5 DEF TaskTypes, TaskRec, TaskPc
<1> HIDE DEF r
<1>8. tasks' \in [Task -> TaskRec] /\ OnlyTask(t) /\ tasks'[t] = r
  BY <1>1, <1>6, <1>7 DEF TaskTypes, OnlyTask
<1>9. QED
  BY <1>1, <1>5, <1>7, <1>8 DEF TaskTypes, TasksOK, OnlyTask

LEMMA SessionStoppedEffect ==
    ASSUME TypeOK, TasksOK, NEW t \in Task, SessionStopped(t)
    PROVE  /\ TaskTypes'
           /\ GoesOn(t, IF tasks[t].pc = "plan" THEN "end" ELSE "finish")
           /\ tasks[t].pc \in {"plan", "compute", "running"}
<1> DEFINE pc == IF tasks[t].pc = "plan" THEN "end" ELSE "finish"
<1>1. TaskTypes /\ tasks[t].pc \in {"plan", "compute", "running"}
  BY DEF SessionStopped, TypeOK, TaskTypes
<1>2. tasks' = [tasks EXCEPT ![t].pc = pc] /\ pc \in TaskPc \ {"idle"}
  BY DEF SessionStopped, TaskPc, WithJob
<1> HIDE DEF pc
<1>3. tasks' \in [Task -> TaskRec] /\ GoesOn(t, pc)
  BY <1>1, <1>2 DEF TaskTypes, TaskRec, GoesOn, Moves, OnlyTask
<1>4. TasksOK'
  BY <1>1, <1>3 DEF TaskTypes, TasksOK, GoesOn, Moves, OnlyTask
<1>5. QED
  BY <1>1, <1>3, <1>4 DEF TaskTypes, pc

-----------------------------------------------------------------------------
(* What a step does to the sessions.                                       *)

\* The other sessions are left alone.
OnlySession(s) == \A r \in Session \ {s} : sess'[r] = sess[r]

\* What a session was opened as, and the streams Bob joined to it, stay.
KeepsId(s) ==
    /\ sess'[s].chan = sess[s].chan
    /\ sess'[s].name = sess[s].name
    /\ sess'[s].params = sess[s].params

\* The command Bob is at stays, with what was planned for it.
KeepsCurrent(s) ==
    Arrived(s) => LET cmds == sess'[s].cmds IN
                  cmds # <<>> /\ ~Head(cmds).bdone /\ Head(cmds).planned = Current(s).planned

\* Alice's end of session s closes.
Closes(s) ==
    /\ KeepsId(s) /\ sess'[s].streams = sess[s].streams
    /\ sess[s].a # "none" /\ sess'[s].a = "closed"
    /\ sess'[s].b = sess[s].b /\ sess'[s].limit = sess[s].limit /\ sess'[s].cmds = sess[s].cmds

\* Bob's end of session s goes on to b.
BobGoesOn(s, b) ==
    /\ KeepsId(s) /\ sess'[s].streams = sess[s].streams
    /\ sess'[s].a = sess[s].a
    /\ sess'[s].b = b /\ sess'[s].limit \in {0, sess[s].limit}

\* Bob's end of session s is aborted, if there is one.
Aborts(s) ==
    /\ BobGoesOn(s, IF sess[s].b \in {"none", "gone"} THEN sess[s].b ELSE "aborted")
    /\ sess'[s].cmds = sess[s].cmds

LEMMA AbortedType ==
    ASSUME NEW r \in SessionRec
    PROVE  /\ Aborted(r) \in SessionRec
           /\ Aborted(r).chan = r.chan /\ Aborted(r).name = r.name
           /\ Aborted(r).params = r.params /\ Aborted(r).a = r.a
           /\ Aborted(r).b = IF r.b \in {"none", "gone"} THEN r.b ELSE "aborted"
           /\ Aborted(r).limit = 0 /\ Aborted(r).cmds = r.cmds
           /\ Aborted(r).streams = r.streams
<1> DEFINE b == IF r.b \in {"none", "gone"} THEN r.b ELSE "aborted"
<1>1. Aborted(r) = [r EXCEPT !.b = b, !.limit = 0]
  BY DEF Aborted, SessionRec
<1>2. b \in BobPc
  BY DEF SessionRec, BobPc
<1> HIDE DEF b
<1>3. [r EXCEPT !.b = b, !.limit = 0] \in SessionRec
  BY <1>2 DEF SessionRec
<1>4. QED
  BY <1>1, <1>3 DEF SessionRec, b

\* A session with some of its fields changed is a session.
LEMMA SessionUpdates ==
    ASSUME NEW r \in SessionRec
    PROVE  /\ \A a \in {"none", "opening", "up", "closed"} : [r EXCEPT !.a = a] \in SessionRec
           /\ [r EXCEPT !.a = "up", !.b = "recv"] \in SessionRec
           /\ \A b \in BobPc : [r EXCEPT !.b = b] \in SessionRec
           /\ \A b \in BobPc, l \in Nat : [r EXCEPT !.b = b, !.limit = l] \in SessionRec
           /\ \A b \in BobPc, l \in Nat, q \in Seq(Cmd) :
                 [r EXCEPT !.b = b, !.limit = l, !.cmds = q] \in SessionRec
           /\ \A b \in BobPc, q \in Seq(Cmd) : [r EXCEPT !.b = b, !.cmds = q] \in SessionRec
           /\ \A q \in Seq(Cmd) : [r EXCEPT !.cmds = q] \in SessionRec
           /\ \A m \in SUBSET Session :
                 [r EXCEPT !.b = "begin", !.unrecorded = TRUE, !.streams = m] \in SessionRec
           /\ [r EXCEPT !.unrecorded = FALSE] \in SessionRec
BY DEF SessionRec, BobPc

LEMMA PutEffect ==
    ASSUME sess \in [Session -> SessionRec], NEW s \in Session, NEW r \in SessionRec,
           sess' = [sess EXCEPT ![s] = r]
    PROVE  sess' \in [Session -> SessionRec] /\ OnlySession(s) /\ sess'[s] = r
BY DEF OnlySession

\* Alice's side of a session is closed by one of her tasks.
LEMMA CloseEffect ==
    ASSUME sess \in [Session -> SessionRec], NEW s \in Session, sess[s].a # "none",
           sess' = [sess EXCEPT ![s].a = "closed"]
    PROVE  sess' \in [Session -> SessionRec] /\ OnlySession(s) /\ Closes(s)
<1> DEFINE r == [sess[s] EXCEPT !.a = "closed"]
<1>0. sess' = [sess EXCEPT ![s] = r] /\ sess[s] \in SessionRec
  OBVIOUS
<1>1. r \in SessionRec
  BY <1>0, SessionUpdates
<1>2. sess' \in [Session -> SessionRec] /\ OnlySession(s) /\ sess'[s] = r
  BY <1>0, <1>1, PutEffect
<1>3. QED
  BY <1>2 DEF SessionRec, Closes, KeepsId

LEMMA RefuseEffect ==
    ASSUME TypeOK, TasksOK, OpeningOK, NEW t \in Task, tasks[t].pc \in Opening, Refuse(t)
    PROVE  /\ TaskTypes' /\ Returns(t)
           /\ sess' \in [Session -> SessionRec]
           /\ OnlySession(tasks[t].sess) /\ Closes(tasks[t].sess)
<1>1. TaskTypes /\ sess \in [Session -> SessionRec]
  BY DEF TypeOK, TaskTypes
<1>2. tasks[t].sess \in Session /\ sess[tasks[t].sess].a # "none"
  BY DEF OpeningOK
<1>3. QED
  BY <1>1, <1>2, EndEffect, CloseEffect DEF Refuse

LEMMA BobPutEffect ==
    ASSUME sess \in [Session -> SessionRec], NEW s \in Session, NEW b \in BobPc,
           sess' = [sess EXCEPT ![s].b = b]
    PROVE  /\ sess' \in [Session -> SessionRec] /\ OnlySession(s) /\ BobGoesOn(s, b)
           /\ sess'[s].cmds = sess[s].cmds
<1> DEFINE r == [sess[s] EXCEPT !.b = b]
<1>0. sess' = [sess EXCEPT ![s] = r] /\ sess[s] \in SessionRec
  OBVIOUS
<1>1. r \in SessionRec
  BY <1>0, SessionUpdates
<1>2. sess' \in [Session -> SessionRec] /\ OnlySession(s) /\ sess'[s] = r
  BY <1>0, <1>1, PutEffect
<1>3. QED
  BY <1>0, <1>2 DEF SessionRec, BobGoesOn, KeepsId

LEMMA SetUpEffect ==
    ASSUME TypeOK, TasksOK, OpeningOK, NEW t \in Task, SetUp(t)
    PROVE  LET s == tasks[t].sess IN
           /\ TaskTypes' /\ GoesOn(t, "plan")
           /\ sess' \in [Session -> SessionRec] /\ OnlySession(s)
           /\ s \in Session /\ sess[s].a = "opening" /\ sess[s].b = "setup"
           /\ KeepsId(s) /\ sess'[s].a = "up" /\ sess'[s].b = "recv"
           /\ sess'[s].streams = sess[s].streams /\ sess'[s].limit = sess[s].limit
           /\ sess'[s].cmds = sess[s].cmds
<1> DEFINE s == tasks[t].sess
           r == [sess[s] EXCEPT !.a = "up", !.b = "recv"]
<1>1. TaskTypes /\ sess \in [Session -> SessionRec] /\ tasks[t].pc = "setup"
  BY DEF TypeOK, TaskTypes, SetUp
<1>2. s \in Session /\ sess[s].a = "opening" /\ sess[s].b = "setup"
  BY <1>1 DEF OpeningOK, SetUp, Opening
<1>3. sess' = [sess EXCEPT ![s] = r] /\ sess[s] \in SessionRec
  BY <1>1, <1>2 DEF SetUp
<1>4. r \in SessionRec
  BY <1>3, SessionUpdates DEF BobPc
<1>5. sess' \in [Session -> SessionRec] /\ OnlySession(s) /\ sess'[s] = r
  BY <1>1, <1>2, <1>3, <1>4, PutEffect
<1>6. /\ KeepsId(s) /\ sess'[s].a = "up" /\ sess'[s].b = "recv"
      /\ sess'[s].streams = sess[s].streams /\ sess'[s].limit = sess[s].limit
      /\ sess'[s].cmds = sess[s].cmds
  BY <1>3, <1>5 DEF SessionRec, KeepsId
<1>7. TaskTypes' /\ GoesOn(t, "plan")
  BY <1>1, GotoEffect DEF SetUp, TaskPc
<1>8. QED
  BY <1>2, <1>5, <1>6, <1>7

\* A call that fails closes the session the task was opening, if it was.
LEMMA CallFailsEffect ==
    ASSUME TypeOK, TasksOK, OpenedOK, NEW t \in Task, CallFails(t)
    PROVE  /\ TaskTypes' /\ Returns(t)
           /\ sess' \in [Session -> SessionRec]
           /\ \/ sess' = sess
              \/ tasks[t].sess \in Session /\ OnlySession(tasks[t].sess) /\ Closes(tasks[t].sess)
<1>1. TaskTypes /\ sess \in [Session -> SessionRec]
  BY DEF TypeOK, TaskTypes
<1>2. TaskTypes' /\ Returns(t)
  BY <1>1, EndEffect DEF CallFails
<1>3. CASE tasks[t].sess = None
  BY <1>1, <1>2, <1>3 DEF CallFails
<1>4. CASE tasks[t].sess # None
  <2>1. tasks[t].sess \in Session /\ sess[tasks[t].sess].a # "none"
    BY <1>4 DEF OpenedOK, Opened
  <2>2. sess' = [sess EXCEPT ![tasks[t].sess].a = "closed"]
    BY <1>4 DEF CallFails
  <2>3. QED
    BY <1>1, <1>2, <2>1, <2>2, CloseEffect
<1>5. QED
  BY <1>3, <1>4

\* The oldest command stays at the front while Bob is not done with it.
LEMMA PendingKeeps ==
    ASSUME NEW q \in Seq(Cmd)
    PROVE  /\ Pending(q) \in Seq(Cmd)
           /\ q # <<>> /\ ~Head(q).bdone => Pending(q) = q
BY DEF Pending

LEMMA PutCmd ==
    ASSUME NEW q \in Seq(Cmd), NEW i \in 1..Len(q), NEW k \in Cmd
    PROVE  LET r == [q EXCEPT ![i] = k] IN
           r \in Seq(Cmd) /\ r # <<>> /\ Head(r) = IF i = 1 THEN k ELSE Head(q)
<1> DEFINE r == [q EXCEPT ![i] = k]
<1>1. r \in Seq(Cmd) /\ Len(r) = Len(q) /\ r[1] = IF i = 1 THEN k ELSE q[1]
  BY ExceptSeq
<1> HIDE DEF r
<1>2. r # <<>> /\ Head(r) = r[1] /\ Head(q) = q[1]
  BY <1>1
<1>3. QED
  BY <1>1, <1>2 DEF r

LEMMA CmdUpdates ==
    ASSUME NEW k \in Cmd
    PROVE  /\ [k EXCEPT !.adone = TRUE] \in Cmd /\ [k EXCEPT !.bdone = TRUE] \in Cmd
           /\ [k EXCEPT !.begun = TRUE] \in Cmd
           /\ [k EXCEPT !.adone = TRUE].bdone = k.bdone /\ [k EXCEPT !.adone = TRUE].planned = k.planned
           /\ [k EXCEPT !.begun = TRUE].bdone = k.bdone /\ [k EXCEPT !.begun = TRUE].planned = k.planned
BY DEF Cmd

\* Alice is done with the last command.
LEMMA MarkLast ==
    ASSUME NEW q \in Seq(Cmd)
    PROVE  LET r == [q EXCEPT ![Len(q)].adone = TRUE] IN
           /\ r \in Seq(Cmd)
           /\ q # <<>> => r # <<>> /\ Head(r).bdone = Head(q).bdone
                         /\ Head(r).planned = Head(q).planned
<1> DEFINE r == [q EXCEPT ![Len(q)].adone = TRUE]
<1>1. CASE q = <<>>
  <2>1. Len(q) = 0 /\ q \in [1..Len(q) -> Cmd]
    BY <1>1, LenProperties, EmptySeq
  <2> DEFINE k == [q[Len(q)] EXCEPT !.adone = TRUE]
  <2>2. r = [i \in 1..0 |-> IF i = Len(q) THEN k ELSE q[i]]
    BY <2>1, Zenon
  <2>3. \A i \in 1..0 : i \notin Int
    OBVIOUS
  <2> HIDE DEF k, r
  <2>4. r \in [1..0 -> Cmd]
    BY <2>2, <2>3
  <2>5. r \in Seq(Cmd)
    BY <2>4, SeqDef
  <2>6. QED
    BY <1>1, <2>5 DEF r
<1>2. CASE q # <<>>
  <2>1. Len(q) \in 1..Len(q) /\ q[Len(q)] \in Cmd /\ Head(q) = q[1]
    BY <1>2
  <2> DEFINE k == [q[Len(q)] EXCEPT !.adone = TRUE]
  <2>2. k \in Cmd /\ k.bdone = q[Len(q)].bdone /\ k.planned = q[Len(q)].planned
    BY <2>1, CmdUpdates
  <2>3. r = [q EXCEPT ![Len(q)] = k]
    OBVIOUS
  <2> HIDE DEF k, r
  <2>4. r \in Seq(Cmd) /\ r # <<>> /\ Head(r) = IF Len(q) = 1 THEN k ELSE Head(q)
    BY <2>1, <2>2, <2>3, PutCmd
  <2>5. QED
    BY <1>2, <2>1, <2>2, <2>4 DEF r
<1>3. QED
  BY <1>1, <1>2

\* A change of Bob's to the oldest command.
LEMMA MarkFirst ==
    ASSUME NEW q \in Seq(Cmd), q # <<>>
    PROVE  /\ [q EXCEPT ![1].bdone = TRUE] \in Seq(Cmd)
           /\ LET r == [q EXCEPT ![1].begun = TRUE] IN
              /\ r \in Seq(Cmd) /\ r # <<>>
              /\ Head(r).bdone = Head(q).bdone /\ Head(r).planned = Head(q).planned
<1> DEFINE b == [q[1] EXCEPT !.begun = TRUE]
           d == [q[1] EXCEPT !.bdone = TRUE]
<1>1. 1 \in 1..Len(q) /\ q[1] \in Cmd /\ Head(q) = q[1]
  OBVIOUS
<1>2. d \in Cmd /\ b \in Cmd /\ b.bdone = q[1].bdone /\ b.planned = q[1].planned
  BY <1>1, CmdUpdates
<1>3. [q EXCEPT ![1].bdone = TRUE] = [q EXCEPT ![1] = d]
      /\ [q EXCEPT ![1].begun = TRUE] = [q EXCEPT ![1] = b]
  OBVIOUS
<1> HIDE DEF b, d
<1>4. [q EXCEPT ![1] = d] \in Seq(Cmd)
  BY <1>1, <1>2, PutCmd
<1>5. LET r == [q EXCEPT ![1] = b] IN r \in Seq(Cmd) /\ r # <<>> /\ Head(r) = b
  BY <1>1, <1>2, PutCmd
<1>6. QED
  BY <1>1, <1>2, <1>3, <1>4, <1>5

\* A new session s of channel c.
Opens(s, c) ==
    /\ OnlySession(s)
    /\ sess'[s].chan = c /\ sess'[s].name = nextId' /\ sess'[s].a = "opening"
    /\ sess'[s].b = "none" /\ sess'[s].limit = 0 /\ sess'[s].streams = {}

LEMMA SessionHandleEffect ==
    ASSUME TypeOK, TasksOK, NEW t \in Task, SessionHandle(t)
    PROVE  LET s == Cardinality(Opened) + 1
               c == tasks[t].chan
           IN  /\ TaskTypes' /\ sess' \in [Session -> SessionRec]
               /\ nextId' \in Nat /\ outgoing' \in [Chan -> Session \cup {None}]
               /\ \/ /\ Moves(t, "plan") /\ tasks'[t].sess \in Session
                     /\ sess[tasks'[t].sess].a = "up"
                     /\ UNCHANGED <<sess, nextId>>
                  \/ /\ Moves(t, "main") /\ tasks'[t].sess = s
                     /\ s \in Session /\ Opens(s, c) /\ c \in Chan /\ nextId' = nextId + 1
                  \/ Returns(t) /\ UNCHANGED <<sess, nextId>>
<1> DEFINE s == Cardinality(Opened) + 1
           c == tasks[t].chan
           r == [NoSession EXCEPT !.chan = c, !.name = nextId + 1, !.a = "opening",
                                  !.params = ch["alice"][c].params]
<1>1. /\ TaskTypes /\ sess \in [Session -> SessionRec] /\ tasks[t].pc = "handle"
      /\ nextId \in Nat /\ outgoing \in [Chan -> Session \cup {None}]
      /\ c \in Chan /\ ch["alice"][c].params \in Nat
  BY DEF TypeOK, TaskTypes, TasksOK, SessionHandle, Daemon, ChannelRec
<1>2. outgoing' \in [Chan -> Session \cup {None}]
  BY <1>1 DEF SessionHandle
<1>3. CASE Live(outgoing[c])
  <2>1. outgoing[c] \in Session /\ sess[outgoing[c]].a = "up"
    BY <1>1, <1>3 DEF Live, None
  <2>2. tasks' = [tasks EXCEPT ![t].pc = "plan", ![t].sess = outgoing[c]] /\ UNCHANGED <<sess, nextId>>
    BY <1>3 DEF SessionHandle
  <2>3. /\ tasks' \in [Task -> TaskRec] /\ Moves(t, "plan")
        /\ tasks'[t].sess = outgoing[c]
    BY <1>1, <2>1, <2>2, ZenonT(40) DEF TaskTypes, TaskRec, TaskPc, Moves, OnlyTask
  <2>4. TasksOK'
    BY <1>1, <2>3 DEF TaskTypes, TasksOK, Moves, OnlyTask
  <2>5. QED
    BY <1>1, <1>2, <2>1, <2>2, <2>3, <2>4 DEF TaskTypes
<1>4. ASSUME s \in Session, nextId' = nextId + 1, sess' = [sess EXCEPT ![s] = r],
             tasks' = [tasks EXCEPT ![t].pc = "main", ![t].sess = s]
      PROVE  /\ TaskTypes' /\ sess' \in [Session -> SessionRec]
             /\ Moves(t, "main") /\ tasks'[t].sess = s /\ Opens(s, c)
  <2>1. /\ r \in SessionRec /\ r.chan = c /\ r.name = nextId' /\ r.a = "opening"
        /\ r.b = "none" /\ r.limit = 0 /\ r.streams = {}
    <3>1. /\ NoSession \in SessionRec /\ NoSession.b = "none" /\ NoSession.limit = 0
          /\ NoSession.streams = {}
      <4>1. <<>> \in Seq(Cmd)
        BY EmptySeq
      <4>2. QED
        BY <4>1 DEF NoSession, SessionRec, BobPc
    <3>2. nextId + 1 \in Nat /\ c \in Chan /\ ch["alice"][c].params \in Nat
      BY <1>1
    <3>3. /\ r \in SessionRec /\ r.chan = c /\ r.name = nextId + 1 /\ r.a = "opening"
          /\ r.b = NoSession.b /\ r.limit = NoSession.limit /\ r.streams = NoSession.streams
      <4> DEFINE p == ch["alice"][c].params
                 n == nextId + 1
      <4>1. r = [NoSession EXCEPT !.chan = c, !.name = n, !.a = "opening", !.params = p]
        OBVIOUS
      <4>2. n \in Nat /\ c \in Chan /\ p \in Nat
        BY <3>2
      <4> HIDE DEF p, n, c, r
      <4>3. /\ r \in SessionRec /\ r.chan = c /\ r.name = n /\ r.a = "opening"
            /\ r.b = NoSession.b /\ r.limit = NoSession.limit /\ r.streams = NoSession.streams
        BY <3>1, <4>1, <4>2 DEF SessionRec
      <4>4. QED
        BY <4>3 DEF n
    <3> HIDE DEF r
    <3>4. QED
      BY <1>4, <3>1, <3>3
  <2> HIDE DEF r, s
  <2>2. sess' \in [Session -> SessionRec] /\ OnlySession(s) /\ sess'[s] = r
    BY <1>1, <1>4, <2>1, PutEffect
  <2>3. Opens(s, c)
    BY <2>1, <2>2 DEF Opens
  <2>4. tasks' \in [Task -> TaskRec] /\ Moves(t, "main") /\ tasks'[t].sess = s
    BY <1>1, <1>4, ZenonT(40) DEF TaskTypes, TaskRec, TaskPc, Opening, Moves, OnlyTask
  <2>5. TasksOK'
    BY <1>1, <2>4 DEF TaskTypes, TasksOK, Moves, OnlyTask
  <2>6. QED
    BY <2>2, <2>3, <2>4, <2>5 DEF TaskTypes
<1>5. CASE ~Live(outgoing[c]) /\ End(t) /\ UNCHANGED <<sess, nextId>>
  BY <1>1, <1>2, <1>5, EndEffect
<1>6. QED
  BY <1>1, <1>2, <1>3, <1>4, <1>5 DEF SessionHandle

\* Alice sends a command; what is before it stays.
LEMMA SendTargetEffect ==
    ASSUME TypeOK, TasksOK, NEW t \in Task, SendTarget(t)
    PROVE  LET s == tasks[t].sess IN
           /\ TaskTypes' /\ GoesOn(t, "running")
           /\ s \in Session /\ sess' \in [Session -> SessionRec] /\ OnlySession(s)
           /\ BobGoesOn(s, sess[s].b) /\ KeepsCurrent(s)
<1> DEFINE s == tasks[t].sess
           q == sess[s].cmds
           k == [target |-> tasks[t].target, planned |-> tasks[t].planned,
                 begun |-> FALSE, adone |-> FALSE, bdone |-> FALSE]
           r == [sess[s] EXCEPT !.cmds = Append(q, k)]
<1>1. TaskTypes /\ sess \in [Session -> SessionRec] /\ tasks[t] \in TaskRec /\ tasks[t].pc = "compute"
  BY DEF TypeOK, TaskTypes, SendTarget
<1>2. s \in Session /\ sess[s] \in SessionRec
  BY <1>1 DEF SendTarget, Live, TaskRec
<1>3. q \in Seq(Cmd) /\ k \in Cmd
  BY <1>1, <1>2 DEF SessionRec, Cmd, TaskRec
<1>4. sess' = [sess EXCEPT ![s] = r]
  BY DEF SendTarget
<1> HIDE DEF k
<1>5. Append(q, k) \in Seq(Cmd) /\ (q # <<>> => Append(q, k) # <<>> /\ Head(Append(q, k)) = Head(q))
  BY <1>3
<1>6. r \in SessionRec
  BY <1>2, <1>5, SessionUpdates
<1>7. sess' \in [Session -> SessionRec] /\ OnlySession(s) /\ sess'[s] = r
  BY <1>1, <1>2, <1>4, <1>6, PutEffect
<1>8. BobGoesOn(s, sess[s].b) /\ sess'[s].cmds = Append(q, k)
  BY <1>2, <1>7 DEF SessionRec, BobGoesOn, KeepsId
<1>9. KeepsCurrent(s)
  BY <1>5, <1>8 DEF KeepsCurrent, Arrived, Current
<1>10. TaskTypes' /\ GoesOn(t, "running")
  BY <1>1, GotoEffect DEF SendTarget, TaskPc, WithJob
<1>11. QED
  BY <1>2, <1>7, <1>8, <1>9, <1>10

\* Alice is done with her last command; Bob's current one stays.
LEMMA RunDoneEffect ==
    ASSUME TypeOK, TasksOK, NEW t \in Task, RunDone(t)
    PROVE  LET s == tasks[t].sess IN
           /\ TaskTypes' /\ GoesOn(t, "store")
           /\ s \in Session /\ sess' \in [Session -> SessionRec] /\ OnlySession(s)
           /\ BobGoesOn(s, sess[s].b) /\ KeepsCurrent(s)
<1> DEFINE s == tasks[t].sess
           q == sess[s].cmds
           p == [q EXCEPT ![Len(q)].adone = TRUE]
           r == [sess[s] EXCEPT !.cmds = Pending(p)]
<1>1. TaskTypes /\ sess \in [Session -> SessionRec] /\ tasks[t] \in TaskRec /\ tasks[t].pc = "running"
  BY DEF TypeOK, TaskTypes, RunDone
<1>2. s \in Session /\ sess[s] \in SessionRec
  BY <1>1 DEF RunDone, Live, TaskRec
<1>3. q \in Seq(Cmd)
  BY <1>1, <1>2 DEF SessionRec
<1>4. sess' = [sess EXCEPT ![s] = r]
  BY DEF RunDone
<1>5. /\ p \in Seq(Cmd)
      /\ q # <<>> => p # <<>> /\ Head(p).bdone = Head(q).bdone /\ Head(p).planned = Head(q).planned
  BY <1>3, MarkLast
<1> HIDE DEF p
<1>6. Pending(p) \in Seq(Cmd) /\ (p # <<>> /\ ~Head(p).bdone => Pending(p) = p)
  BY <1>5, PendingKeeps
<1>7. r \in SessionRec
  BY <1>2, <1>6, SessionUpdates
<1>8. sess' \in [Session -> SessionRec] /\ OnlySession(s) /\ sess'[s] = r
  BY <1>1, <1>2, <1>4, <1>7, PutEffect
<1>9. BobGoesOn(s, sess[s].b) /\ sess'[s].cmds = Pending(p)
  BY <1>2, <1>8 DEF SessionRec, BobGoesOn, KeepsId
<1>10. KeepsCurrent(s)
  BY <1>5, <1>6, <1>9 DEF KeepsCurrent, Arrived, Current
<1>11. TaskTypes' /\ GoesOn(t, "store")
  BY <1>1, GotoEffect DEF RunDone, TaskPc, WithJob
<1>12. QED
  BY <1>2, <1>8, <1>9, <1>10, <1>11

\* A stream that the entry of this name may hold besides one of session s.
Known(s, x) == x = s \/ \E e \in Entry(s) : x \in {e.main, e.sibling}

\* The entry a stream of session s finds or makes, with and without the stream.
LEMMA EntryForType ==
    ASSUME TypeOK, NEW s \in Session
    PROVE  /\ EntryFor(s) \in EntryRec /\ EntryFor(s).name = sess[s].name
           /\ \A x \in {EntryFor(s).main, EntryFor(s).sibling} : x = None \/ Known(s, x)
<1>1. sess[s] \in SessionRec /\ grpc \subseteq EntryRec
  BY DEF TypeOK
<1>2. CASE Entry(s) = {}
  <2>1. EntryFor(s) = [chan |-> sess[s].chan, name |-> sess[s].name, params |-> sess[s].params,
                       main |-> None, sibling |-> None]
    BY <1>2 DEF EntryFor
  <2>2. sess[s].chan \in Chan \cup {None} /\ sess[s].name \in Nat /\ sess[s].params \in Nat
    BY <1>1 DEF SessionRec
  <2>3. EntryFor(s) \in EntryRec
    BY <2>1, <2>2 DEF EntryRec
  <2>4. QED
    BY <2>1, <2>3
<1>3. CASE Entry(s) # {}
  <2>1. EntryFor(s) = CHOOSE e \in Entry(s) : TRUE
    BY <1>3, Zenon DEF EntryFor
  <2>2. EntryFor(s) \in Entry(s)
    BY <1>3, <2>1
  <2>3. QED
    BY <1>1, <2>2 DEF Entry, Known
<1>4. QED
  BY <1>2, <1>3

LEMMA WithStreamType ==
    ASSUME TypeOK, NEW s \in Session, NEW slot \in {"main", "sibling"}
    PROVE  LET new == WithStream(s, slot) IN
           /\ new \in EntryRec /\ new.name = sess[s].name
           /\ \A x \in {new.main, new.sibling} : x = None \/ Known(s, x)
<1> DEFINE new == WithStream(s, slot)
           old == EntryFor(s)
<1>1. /\ old \in EntryRec /\ old.name = sess[s].name
      /\ \A x \in {old.main, old.sibling} : x = None \/ Known(s, x)
  BY EntryForType
<1>2. new = [old EXCEPT !.main = s] \/ new = [old EXCEPT !.sibling = s]
  BY DEF WithStream
<1> HIDE DEF new, old
<1>3. /\ new \in EntryRec /\ new.name = old.name
      /\ new.main \in {s, old.main} /\ new.sibling \in {s, old.sibling}
  BY <1>1, <1>2 DEF EntryRec
<1>4. QED
  BY <1>1, <1>3 DEF Known, new

\* The second stream has arrived: Bob's end of s begins with streams of its name.
Joins(s) ==
    /\ KeepsId(s) /\ sess'[s].a = sess[s].a /\ sess'[s].limit = sess[s].limit
    /\ sess'[s].b = "begin"
    /\ \A x \in sess'[s].streams : x \in Session /\ Known(s, x)

LEMMA OpenStreamEffect ==
    ASSUME TypeOK, TasksOK, OpeningOK, NEW t \in Task, OpenStream(t)
    PROVE  LET s == tasks[t].sess IN
           /\ TaskTypes' /\ sess' \in [Session -> SessionRec] /\ grpc' \subseteq EntryRec
           /\ s \in Session /\ tasks[t].pc \in {"main", "sibling"}
           /\ \/ Returns(t) /\ OnlySession(s) /\ Closes(s) /\ UNCHANGED grpc
              \/ /\ \E pc \in {"sibling", "setup"} : GoesOn(t, pc)
                 /\ UNCHANGED sess
                 /\ \E new \in EntryRec :
                       /\ grpc' = (grpc \ Entry(s)) \cup {new} /\ new.name = sess[s].name
                       /\ \A x \in {new.main, new.sibling} : x = None \/ Known(s, x)
              \/ GoesOn(t, "setup") /\ OnlySession(s) /\ Joins(s) /\ grpc' \subseteq grpc
<1> DEFINE s == tasks[t].sess
           slot == tasks[t].pc
           new == WithStream(s, slot)
<1>1. /\ TaskTypes /\ sess \in [Session -> SessionRec] /\ grpc \subseteq EntryRec
      /\ slot \in {"main", "sibling"}
  BY DEF TypeOK, TaskTypes, OpenStream
<1>2. s \in Session /\ sess[s] \in SessionRec
  BY <1>1 DEF OpeningOK, Opening
<1>3. /\ new \in EntryRec /\ new.name = sess[s].name
      /\ \A x \in {new.main, new.sibling} : x = None \/ Known(s, x)
  BY <1>1, <1>2, WithStreamType
<1>4. CASE Refuse(t) /\ UNCHANGED grpc
  <2>1. tasks[t].pc \in Opening
    BY <1>1 DEF Opening
  <2>2. QED
    BY <1>1, <1>2, <1>4, <2>1, RefuseEffect
<1>5. CASE /\ grpc' = (grpc \ Entry(s)) \cup {new}
           /\ Goto(t, IF slot = "main" THEN "sibling" ELSE "setup")
           /\ UNCHANGED sess
  <2>1. PICK pc \in {"sibling", "setup"} : Goto(t, pc)
    BY <1>5
  <2>2. TaskTypes' /\ GoesOn(t, pc)
    BY <1>1, <2>1, GotoEffect DEF TaskPc, Opening
  <2> HIDE DEF new
  <2>3. QED
    BY <1>1, <1>2, <1>3, <1>5, <2>2
<1>6. CASE /\ new.main # None /\ new.sibling # None
           /\ grpc' = grpc \ Entry(s)
           /\ sess' = [sess EXCEPT ![s].b = "begin", ![s].unrecorded = TRUE,
                                   ![s].streams = {new.main, new.sibling}]
           /\ Goto(t, "setup")
  <2> HIDE DEF new
  <2>1. TaskTypes' /\ GoesOn(t, "setup")
    BY <1>1, <1>6, GotoEffect DEF TaskPc, Opening
  <2>2. {new.main, new.sibling} \in SUBSET Session
    BY <1>3, <1>6 DEF EntryRec
  <2> DEFINE m == {new.main, new.sibling}
             r == [sess[s] EXCEPT !.b = "begin", !.unrecorded = TRUE, !.streams = m]
  <2>3. sess' = [sess EXCEPT ![s] = r]
    BY <1>6
  <2> HIDE DEF m
  <2>4. r \in SessionRec
    BY <1>2, <2>2, SessionUpdates DEF m
  <2>5. sess' \in [Session -> SessionRec] /\ OnlySession(s) /\ sess'[s] = r
    BY <1>1, <1>2, <2>3, <2>4, PutEffect
  <2>6. /\ KeepsId(s) /\ sess'[s].a = sess[s].a /\ sess'[s].limit = sess[s].limit
        /\ sess'[s].b = "begin" /\ sess'[s].streams = m
    BY <1>2, <2>5 DEF SessionRec, KeepsId
  <2>7. \A x \in m : x \in Session /\ Known(s, x)
    BY <1>3, <1>6, <2>2 DEF m
  <2>8. QED
    BY <1>1, <1>2, <1>6, <2>1, <2>5, <2>6, <2>7 DEF Joins
<1>7. QED
  BY <1>4, <1>5, <1>6 DEF OpenStream

\* Every session is as it was, for what these proofs ask of it, or aborted.
SomeAborted ==
    \A r \in Session :
        Aborts(r) \/ (BobGoesOn(r, sess[r].b) /\ sess'[r].cmds = sess[r].cmds)

LEMMA RecordHandleEffect ==
    ASSUME TypeOK, NEW s \in Session, RecordHandle(s)
    PROVE  sess' \in [Session -> SessionRec] /\ SomeAborted
<1> DEFINE old == incoming[sess[s].chan]
           f(r) == IF r = s THEN [sess[s] EXCEPT !.unrecorded = FALSE]
                   ELSE IF r = old THEN Aborted(sess[r]) ELSE sess[r]
<1>1. sess' = [r \in Session |-> f(r)]
  BY DEF RecordHandle
<1>2. ASSUME NEW r \in Session
      PROVE  /\ f(r) \in SessionRec
             /\ sess'[r] = f(r) =>
                   Aborts(r) \/ (BobGoesOn(r, sess[r].b) /\ sess'[r].cmds = sess[r].cmds)
  <2>1. sess[r] \in SessionRec
    BY DEF TypeOK
  <2>2. CASE r = s
    <3>1. [sess[r] EXCEPT !.unrecorded = FALSE] \in SessionRec
      BY <2>1, SessionUpdates
    <3>2. f(r) = [sess[r] EXCEPT !.unrecorded = FALSE]
      BY <2>2
    <3>3. QED
      BY <2>1, <3>1, <3>2 DEF SessionRec, BobGoesOn, KeepsId
  <2>3. CASE r # s /\ r = old
    BY <2>1, <2>3, AbortedType DEF Aborts, BobGoesOn, KeepsId
  <2>4. CASE r # s /\ r # old
    BY <2>1, <2>4 DEF BobGoesOn, KeepsId
  <2>5. QED
    BY <2>2, <2>3, <2>4
<1> HIDE DEF f
<1>3. QED
  BY <1>1, <1>2 DEF SomeAborted

LEMMA DropSessionEffect ==
    ASSUME TypeOK, NEW d \in Daemon, NEW c \in Chan, DropSession(d, c)
    PROVE  /\ sess' \in [Session -> SessionRec] /\ SomeAborted
           /\ d = "alice" => sess' = sess
           /\ outgoing' \in [Chan -> Session \cup {None}]
           /\ incoming' \in [Chan -> Session \cup {None}]
<1>1. /\ sess \in [Session -> SessionRec]
      /\ outgoing \in [Chan -> Session \cup {None}] /\ incoming \in [Chan -> Session \cup {None}]
  BY DEF TypeOK
<1>2. /\ outgoing' \in [Chan -> Session \cup {None}]
      /\ incoming' \in [Chan -> Session \cup {None}]
  BY <1>1 DEF DropSession
<1>3. CASE sess' = sess
  BY <1>1, <1>2, <1>3 DEF SomeAborted, BobGoesOn, KeepsId
<1>4. CASE d # "alice" /\ sess' = [r \in Session |-> IF r = incoming[c] THEN Aborted(sess[r]) ELSE sess[r]]
  <2>1. ASSUME NEW r \in Session
        PROVE  /\ sess'[r] \in SessionRec
               /\ Aborts(r) \/ (BobGoesOn(r, sess[r].b) /\ sess'[r].cmds = sess[r].cmds)
    <3>1. sess[r] \in SessionRec
      BY DEF TypeOK
    <3>2. sess'[r] = Aborted(sess[r]) \/ sess'[r] = sess[r]
      BY <1>4
    <3>3. QED
      BY <3>1, <3>2, AbortedType DEF Aborts, BobGoesOn, KeepsId
  <2>2. QED
    BY <1>2, <1>4, <2>1 DEF SomeAborted
<1>5. QED
  BY <1>3, <1>4 DEF DropSession

LEMMA RecvTargetEffect ==
    ASSUME TypeOK, NEW s \in Session, RecvTarget(s)
    PROVE  /\ sess' \in [Session -> SessionRec] /\ OnlySession(s)
           /\ sess[s].b = "recv" /\ Arrived(s)
           /\ KeepsId(s) /\ sess'[s].a = sess[s].a /\ sess'[s].streams = sess[s].streams
           /\ sess'[s].b = "admit" /\ sess'[s].limit = workers["bob"]
           /\ sess'[s].cmds = sess[s].cmds
<1> DEFINE r == [sess[s] EXCEPT !.b = "admit", !.limit = workers["bob"]]
<1>1. sess \in [Session -> SessionRec] /\ sess[s] \in SessionRec /\ workers["bob"] \in Nat
  BY DEF TypeOK, Daemon
<1>2. sess' = [sess EXCEPT ![s] = r] /\ sess[s].b = "recv" /\ Arrived(s)
  BY DEF RecvTarget
<1>3. r \in SessionRec
  BY <1>1, SessionUpdates DEF BobPc
<1>4. sess' \in [Session -> SessionRec] /\ OnlySession(s) /\ sess'[s] = r
  BY <1>1, <1>2, <1>3, PutEffect
<1>5. QED
  BY <1>1, <1>2, <1>4 DEF SessionRec, KeepsId

LEMMA BeginIncomingTargetEffect ==
    ASSUME TypeOK, CurrentOK, NEW s \in Session, BeginIncomingTarget(s)
    PROVE  /\ sess' \in [Session -> SessionRec] /\ OnlySession(s)
           /\ sess[s].b = "admit" /\ Arrived(s) /\ KeepsCurrent(s)
           /\ BobGoesOn(s, IF Admits(s) THEN "run" ELSE "leaving")
<1> DEFINE q == sess[s].cmds
           p == [q EXCEPT ![1].begun = TRUE]
           r == [sess[s] EXCEPT !.b = "run", !.limit = 0, !.cmds = p]
           o == [sess[s] EXCEPT !.b = "leaving", !.limit = 0]
<1>1. sess \in [Session -> SessionRec] /\ sess[s] \in SessionRec
  BY DEF TypeOK
<1>2. sess[s].b = "admit" /\ Arrived(s)
  BY DEF BeginIncomingTarget, CurrentOK
<1>3. q \in Seq(Cmd) /\ q # <<>>
  BY <1>1, <1>2 DEF SessionRec, Arrived
<1>4. CASE Admits(s)
  <2>1. sess' = [sess EXCEPT ![s] = r]
    BY <1>4 DEF BeginIncomingTarget
  <2>2. /\ p \in Seq(Cmd) /\ p # <<>>
        /\ Head(p).bdone = Head(q).bdone /\ Head(p).planned = Head(q).planned
    BY <1>3, MarkFirst
  <2> HIDE DEF p
  <2>3. r \in SessionRec
    BY <1>1, <2>2, SessionUpdates DEF BobPc
  <2>4. sess' \in [Session -> SessionRec] /\ OnlySession(s) /\ sess'[s] = r
    BY <1>1, <2>1, <2>3, PutEffect
  <2>5. BobGoesOn(s, "run") /\ sess'[s].cmds = p
    BY <1>1, <2>4 DEF SessionRec, BobGoesOn, KeepsId
  <2>6. KeepsCurrent(s)
    BY <2>2, <2>5 DEF KeepsCurrent, Arrived, Current
  <2>7. QED
    BY <1>2, <1>4, <2>4, <2>5, <2>6
<1>5. CASE ~Admits(s)
  <2>1. sess' = [sess EXCEPT ![s] = o]
    BY <1>5 DEF BeginIncomingTarget
  <2>2. o \in SessionRec
    BY <1>1, SessionUpdates DEF BobPc
  <2>3. sess' \in [Session -> SessionRec] /\ OnlySession(s) /\ sess'[s] = o
    BY <1>1, <2>1, <2>2, PutEffect
  <2>4. BobGoesOn(s, "leaving") /\ sess'[s].cmds = q
    BY <1>1, <2>3 DEF SessionRec, BobGoesOn, KeepsId
  <2>5. QED
    BY <1>2, <1>5, <2>3, <2>4 DEF KeepsCurrent, Arrived, Current
<1>6. QED
  BY <1>4, <1>5

LEMMA IncomingStoreEffect ==
    ASSUME TypeOK, CurrentOK, NEW s \in Session, IncomingStore(s)
    PROVE  /\ sess' \in [Session -> SessionRec] /\ OnlySession(s) /\ sess[s].b = "run"
           /\ BobGoesOn(s, IF ch["bob"][sess[s].chan].enabled THEN "recv" ELSE "failing")
<1> DEFINE q == sess[s].cmds
           p == [q EXCEPT ![1].bdone = TRUE]
           r == [sess[s] EXCEPT !.b = "recv", !.cmds = Pending(p)]
<1>1. sess \in [Session -> SessionRec] /\ sess[s] \in SessionRec
  BY DEF TypeOK
<1>2. sess[s].b = "run" /\ Arrived(s)
  BY DEF IncomingStore, CurrentOK
<1>3. q \in Seq(Cmd) /\ q # <<>>
  BY <1>1, <1>2 DEF SessionRec, Arrived
<1>4. CASE ch["bob"][sess[s].chan].enabled
  <2>1. sess' = [sess EXCEPT ![s] = r]
    BY <1>4 DEF IncomingStore
  <2>2. p \in Seq(Cmd)
    BY <1>3, MarkFirst
  <2> HIDE DEF p
  <2>3. Pending(p) \in Seq(Cmd)
    BY <2>2, PendingKeeps
  <2>4. r \in SessionRec
    BY <1>1, <2>3, SessionUpdates DEF BobPc
  <2>5. sess' \in [Session -> SessionRec] /\ OnlySession(s) /\ sess'[s] = r
    BY <1>1, <2>1, <2>4, PutEffect
  <2>6. BobGoesOn(s, "recv")
    BY <1>1, <2>5 DEF SessionRec, BobGoesOn, KeepsId
  <2>7. QED
    BY <1>2, <1>4, <2>5, <2>6
<1>5. CASE ~ch["bob"][sess[s].chan].enabled
  <2>1. sess' = [sess EXCEPT ![s].b = "failing"]
    BY <1>5 DEF IncomingStore
  <2>2. QED
    BY <1>1, <1>2, <1>5, <2>1, BobPutEffect DEF BobPc
<1>6. QED
  BY <1>4, <1>5

LEMMA RestartAliceEffect ==
    ASSUME TypeOK, RestartAlice
    PROVE  /\ TaskTypes' /\ \A t \in Task : tasks'[t] = IdleTask
           /\ sess' \in [Session -> SessionRec]
           /\ \A s \in Session : IF sess[s].a = "none" THEN sess'[s] = sess[s] ELSE Closes(s)
<1>1. \A t \in Task : tasks'[t] = IdleTask
  BY DEF RestartAlice
<1>2. TaskTypes'
  BY IdleTaskType DEF RestartAlice, TaskTypes, TasksOK, IdleTask
<1>3. ASSUME NEW s \in Session
      PROVE  /\ sess'[s] \in SessionRec
             /\ IF sess[s].a = "none" THEN sess'[s] = sess[s] ELSE Closes(s)
  <2>1. sess[s] \in SessionRec
    BY DEF TypeOK
  <2>2. sess'[s] = [sess[s] EXCEPT !.a = IF sess[s].a = "none" THEN sess[s].a ELSE "closed"]
    BY DEF RestartAlice
  <2>3. CASE sess[s].a = "none"
    <3>1. sess'[s] = sess[s]
      BY <2>1, <2>2, <2>3 DEF SessionRec
    <3>2. QED
      BY <2>1, <2>3, <3>1
  <2>4. CASE sess[s].a # "none"
    <3>1. sess'[s] = [sess[s] EXCEPT !.a = "closed"]
      BY <2>2, <2>4
    <3>2. sess'[s] \in SessionRec
      BY <2>1, <3>1, SessionUpdates
    <3>3. QED
      BY <2>1, <2>4, <3>1, <3>2 DEF SessionRec, Closes, KeepsId
  <2>5. QED
    BY <2>3, <2>4
<1>4. sess' \in [Session -> SessionRec]
  BY <1>3 DEF RestartAlice
<1>5. QED
  BY <1>1, <1>2, <1>3, <1>4

\* Bob restarts: every end of his is gone or aborted.
LEMMA RestartBobEffect ==
    ASSUME TypeOK, OpenedOK, RestartBob
    PROVE  /\ sess' \in [Session -> SessionRec]
           /\ \A s \in Session :
                 \/ Aborts(s)
                 \/ sess[s].a # "none" /\ BobGoesOn(s, "gone")
<1> DEFINE f(s) == IF \E e \in grpc : s \in {e.main, e.sibling}
                   THEN [sess[s] EXCEPT !.b = "gone"]
                   ELSE [Aborted(sess[s]) EXCEPT !.unrecorded = FALSE]
<1>1. sess' = [s \in Session |-> f(s)]
  BY DEF RestartBob
<1>2. ASSUME NEW s \in Session
      PROVE  /\ f(s) \in SessionRec
             /\ sess'[s] = f(s) => Aborts(s) \/ (sess[s].a # "none" /\ BobGoesOn(s, "gone"))
  <2>1. sess[s] \in SessionRec
    BY DEF TypeOK
  <2>2. CASE \E e \in grpc : s \in {e.main, e.sibling}
    <3>1. f(s) = [sess[s] EXCEPT !.b = "gone"]
      BY <2>2
    <3>2. sess[s].a # "none"
      BY <2>2, BoundAssumption DEF OpenedOK, Opened, Session, None
    <3>3. [sess[s] EXCEPT !.b = "gone"] \in SessionRec
      BY <2>1, SessionUpdates DEF BobPc
    <3>4. QED
      BY <2>1, <3>1, <3>2, <3>3, ZenonT(40) DEF SessionRec, BobGoesOn, KeepsId
  <2>3. CASE ~\E e \in grpc : s \in {e.main, e.sibling}
    <3> DEFINE q == Aborted(sess[s])
    <3>1. f(s) = [q EXCEPT !.unrecorded = FALSE]
      BY <2>3
    <3>2. /\ q \in SessionRec /\ q.chan = sess[s].chan /\ q.name = sess[s].name
          /\ q.params = sess[s].params /\ q.a = sess[s].a
          /\ q.b = IF sess[s].b \in {"none", "gone"} THEN sess[s].b ELSE "aborted"
          /\ q.limit = 0 /\ q.cmds = sess[s].cmds /\ q.streams = sess[s].streams
      BY <2>1, AbortedType
    <3> HIDE DEF q, f
    <3>3. [q EXCEPT !.unrecorded = FALSE] \in SessionRec
      BY <3>2, SessionUpdates
    <3>4. sess'[s] = f(s) =>
            /\ sess'[s].chan = q.chan /\ sess'[s].name = q.name /\ sess'[s].params = q.params
            /\ sess'[s].a = q.a /\ sess'[s].b = q.b /\ sess'[s].limit = q.limit
            /\ sess'[s].cmds = q.cmds /\ sess'[s].streams = q.streams
      BY <3>1, <3>2 DEF SessionRec
    <3>5. f(s) \in SessionRec
      BY <3>1, <3>3
    <3>6. sess'[s] = f(s) => Aborts(s)
      BY <3>2, <3>4 DEF Aborts, BobGoesOn, KeepsId
    <3>7. QED
      BY <3>5, <3>6
  <2>4. QED
    BY <2>2, <2>3
<1> HIDE DEF f
<1>3. QED
  BY <1>1, <1>2

-----------------------------------------------------------------------------
(* What a step does to the channels and the jobs.                          *)

ChannelTypes == ch \in [Daemon -> [Chan -> ChannelRec]]

\* The other channels are left alone.
OnlyChannel(d, c) == \A e \in Daemon, x \in Chan : e # d \/ x # c => ch'[e][x] = ch[e][x]

LEMMA PutChannel ==
    ASSUME ChannelTypes, NEW d \in Daemon, NEW c \in Chan, NEW r \in ChannelRec,
           ch' = [ch EXCEPT ![d][c] = r]
    PROVE  ChannelTypes' /\ OnlyChannel(d, c) /\ ch'[d][c] = r
<1>1. ch[d] \in [Chan -> ChannelRec]
  BY DEF ChannelTypes
<1> DEFINE f == [ch[d] EXCEPT ![c] = r]
<1>2. f \in [Chan -> ChannelRec] /\ f[c] = r /\ \A x \in Chan : x # c => f[x] = ch[d][x]
  BY <1>1
<1>3. ch' = [ch EXCEPT ![d] = f]
  OBVIOUS
<1> HIDE DEF f
<1>4. QED
  BY <1>2, <1>3 DEF ChannelTypes, OnlyChannel

LEMMA ChannelUpdates ==
    ASSUME NEW r \in ChannelRec
    PROVE  /\ \A f \in [Target -> Nat] : [r EXCEPT !.nodes = f] \in ChannelRec
           /\ \A f \in [Target -> Nat], n \in Nat : [r EXCEPT !.nodes = f, !.est = n] \in ChannelRec
           /\ \A n \in Nat : [r EXCEPT !.enabled = TRUE, !.params = n] \in ChannelRec
           /\ \A f \in [Target -> Nat] : [r EXCEPT !.enabled = FALSE, !.nodes = f] \in ChannelRec
BY DEF ChannelRec

LEMMA ReconcileChannels ==
    ASSUME TypeOK, TasksOK, NEW t \in Task, Reconcile(t)
    PROVE  LET c == tasks[t].chan IN
           /\ ChannelTypes' /\ OnlyChannel("alice", c) /\ c \in Chan
           /\ ch'["alice"][c].enabled = ch["alice"][c].enabled
           /\ ch'["alice"][c].params = ch["alice"][c].params
           /\ ch'["alice"][c].est = ch["alice"][c].est
           /\ \A i \in Target : ch'["alice"][c].nodes[i] \in {ch["alice"][c].nodes[i], None}
<1> DEFINE c == tasks[t].chan
           q == ch["alice"][c]
           f == [i \in Target |-> IF q.nodes[i] = tasks[t].peer.nodes[i] THEN q.nodes[i] ELSE None]
           r == [q EXCEPT !.nodes = f]
<1>1. c \in Chan /\ "alice" \in Daemon /\ ChannelTypes
  BY DEF TypeOK, TasksOK, Reconcile, Daemon, ChannelTypes
<1>2. q \in ChannelRec
  BY <1>1 DEF ChannelTypes
<1>3. ch' = [ch EXCEPT !["alice"][c] = r]
  BY DEF Reconcile
<1>4. q.nodes \in [Target -> Nat]
  BY <1>2 DEF ChannelRec
<1>5. f \in [Target -> Nat] /\ \A i \in Target : f[i] \in {q.nodes[i], None}
  BY <1>4 DEF None
<1> HIDE DEF f, q, c
<1>6. r \in ChannelRec
  BY <1>2, <1>5, ChannelUpdates
<1>7. /\ r.enabled = q.enabled /\ r.params = q.params /\ r.est = q.est /\ r.nodes = f
  BY <1>2 DEF ChannelRec
<1> HIDE DEF r
<1>8. ChannelTypes' /\ OnlyChannel("alice", c) /\ ch'["alice"][c] = r
  BY <1>1, <1>3, <1>6, PutChannel
<1>9. QED
  BY <1>1, <1>5, <1>7, <1>8 DEF c, q

LEMMA StoreNodeEffect ==
    ASSUME TypeOK, NEW d \in Daemon, NEW c \in Chan, NEW i, NEW o, NEW n \in Nat,
           StoreNode(d, c, i, o, n)
    PROVE  /\ ChannelTypes' /\ OnlyChannel(d, c)
           /\ ch'[d][c].enabled = ch[d][c].enabled /\ ch'[d][c].params = ch[d][c].params
           /\ ch'[d][c].est = ch[d][c].est + n
           /\ jobs' \in [Daemon -> SUBSET JobRec]
           /\ jobs'[d] = {j \in jobs[d] : j.owner # o}
           /\ \A e \in Daemon \ {d} : jobs'[e] = jobs[e]
<1> DEFINE q == ch[d][c]
           f == [q.nodes EXCEPT ![i] = q.params]
           r == [q EXCEPT !.nodes = f, !.est = q.est + n]
<1>1. ChannelTypes /\ q \in ChannelRec
  BY DEF TypeOK, ChannelTypes
<1>2. q.nodes \in [Target -> Nat] /\ q.params \in Nat /\ q.est \in Nat
  <2> HIDE DEF q
  <2>1. QED
    BY <1>1 DEF ChannelRec
<1>3. ch' = [ch EXCEPT ![d][c] = r]
  BY DEF StoreNode
<1>4. f \in [Target -> Nat] /\ q.est + n \in Nat
  <2> HIDE DEF q
  <2>1. f = [x \in Target |-> IF x = i THEN q.params ELSE q.nodes[x]]
    BY <1>2, Zenon
  <2> HIDE DEF f
  <2>2. QED
    BY <1>2, <2>1
<1> HIDE DEF f, q
<1>5. r \in ChannelRec
  BY <1>1, <1>4, ChannelUpdates
<1>6. r.enabled = q.enabled /\ r.params = q.params /\ r.est = q.est + n
  BY <1>1 DEF ChannelRec
<1> HIDE DEF r
<1>7. ChannelTypes' /\ OnlyChannel(d, c) /\ ch'[d][c] = r
  BY <1>1, <1>3, <1>5, PutChannel
<1>8. /\ jobs' \in [Daemon -> SUBSET JobRec]
      /\ jobs'[d] = {j \in jobs[d] : j.owner # o}
      /\ \A e \in Daemon \ {d} : jobs'[e] = jobs[e]
  BY DEF TypeOK, StoreNode
<1>9. QED
  BY <1>6, <1>7, <1>8 DEF q

LEMMA EnableEffect ==
    ASSUME TypeOK, NEW d \in Daemon, NEW c \in Chan, NEW p \in Params, EnableChannel(d, c, p)
    PROVE  /\ ChannelTypes' /\ OnlyChannel(d, c)
           /\ ch'[d][c].enabled /\ ch'[d][c].params = p /\ ch'[d][c].est = ch[d][c].est
           /\ peak' \in [Daemon -> PeakRec]
           /\ \A e \in Daemon : peak'[e].workers = peak[e].workers
           /\ \A e \in Daemon, x \in Chan : peak[e].cap[x] <= peak'[e].cap[x]
           /\ p <= peak'[d].cap[c]
<1> DEFINE q == ch[d][c]
           r == [q EXCEPT !.enabled = TRUE, !.params = p]
           k == peak[d]
           m == Max({k.cap[c], p})
<1>1. ChannelTypes /\ q \in ChannelRec /\ k \in PeakRec /\ p \in Nat
  BY BoundAssumption DEF TypeOK, ChannelTypes
<1>2. ch' = [ch EXCEPT ![d][c] = r]
  BY <1>1 DEF EnableChannel, ChannelTypes, ChannelRec
<1>3. k.cap \in [Chan -> Nat] /\ k.workers \in Nat
  BY <1>1 DEF PeakRec
<1>4. m \in Nat /\ k.cap[c] <= m /\ p <= m
  BY <1>1, <1>3, OfTwo
<1>5. peak' = [peak EXCEPT ![d] = [k EXCEPT !.cap = [k.cap EXCEPT ![c] = m]]]
  BY <1>1 DEF EnableChannel, TypeOK, PeakRec
<1> HIDE DEF q, k, m
<1>6. r \in ChannelRec
  BY <1>1, ChannelUpdates
<1>7. r.enabled /\ r.params = p /\ r.est = q.est
  BY <1>1 DEF ChannelRec
<1> HIDE DEF r
<1>8. ChannelTypes' /\ OnlyChannel(d, c) /\ ch'[d][c] = r
  BY <1>1, <1>2, <1>6, PutChannel
<1> DEFINE g == [k.cap EXCEPT ![c] = m]
           l == [k EXCEPT !.cap = g]
<1>9. g \in [Chan -> Nat] /\ g[c] = m /\ \A x \in Chan : x # c => g[x] = k.cap[x]
  BY <1>3, <1>4
<1> HIDE DEF g
<1>10. l \in PeakRec /\ l.cap = g /\ l.workers = k.workers
  BY <1>1, <1>9 DEF PeakRec
<1>11. peak' = [peak EXCEPT ![d] = l]
  BY <1>5 DEF g
<1> HIDE DEF l
<1>12. peak' \in [Daemon -> PeakRec] /\ peak'[d] = l /\ \A e \in Daemon \ {d} : peak'[e] = peak[e]
  BY <1>10, <1>11 DEF TypeOK
<1>13. \A e \in Daemon : peak'[e].workers = peak[e].workers
  BY <1>10, <1>12 DEF k
<1>14. \A e \in Daemon, x \in Chan : peak[e].cap[x] \in Nat
  BY DEF TypeOK, PeakRec
<1>15. \A x \in Chan : k.cap[x] <= g[x]
  BY <1>3, <1>4, <1>9
<1>16. ASSUME NEW e \in Daemon, NEW x \in Chan PROVE peak[e].cap[x] <= peak'[e].cap[x]
  <2>1. CASE e = d
    BY <1>10, <1>12, <1>15, <2>1 DEF k
  <2>2. CASE e # d
    BY <1>12, <1>14, <2>2
  <2>3. QED
    BY <2>1, <2>2
<1>17. p <= peak'[d].cap[c]
  BY <1>4, <1>9, <1>10, <1>12
<1>18. QED
  BY <1>7, <1>8, <1>12, <1>13, <1>16, <1>17 DEF q

LEMMA SetConfigEffect ==
    ASSUME TypeOK, NEW d \in Daemon, NEW w \in WorkerCounts, SetConfig(d, w)
    PROVE  /\ workers' \in [Daemon -> Nat] /\ peak' \in [Daemon -> PeakRec]
           /\ \A e \in Daemon : workers'[e] = IF e = d THEN w ELSE workers[e]
           /\ \A e \in Daemon : peak[e].workers <= peak'[e].workers /\ peak'[e].cap = peak[e].cap
           /\ w <= peak'[d].workers
<1> DEFINE k == peak[d]
           m == Max({k.workers, w})
           l == [k EXCEPT !.workers = m]
<1>1. k \in PeakRec /\ w \in Nat /\ peak \in [Daemon -> PeakRec] /\ workers \in [Daemon -> Nat]
  BY BoundAssumption DEF TypeOK
<1>2. k.workers \in Nat
  BY <1>1 DEF PeakRec
<1>3. m \in Nat /\ k.workers <= m /\ w <= m
  BY <1>1, <1>2, OfTwo
<1>4. peak' = [peak EXCEPT ![d] = l]
  BY <1>1 DEF SetConfig, PeakRec
<1> HIDE DEF m, k
<1>5. l \in PeakRec /\ l.workers = m /\ l.cap = k.cap
  BY <1>1, <1>3 DEF PeakRec
<1> HIDE DEF l
<1>6. peak' \in [Daemon -> PeakRec] /\ peak'[d] = l /\ \A e \in Daemon \ {d} : peak'[e] = peak[e]
  BY <1>1, <1>4, <1>5
<1>7. \A e \in Daemon : peak[e].workers \in Nat
  BY <1>1 DEF PeakRec
<1>8. ASSUME NEW e \in Daemon
      PROVE  peak[e].workers <= peak'[e].workers /\ peak'[e].cap = peak[e].cap
  <2>1. CASE e = d
    BY <1>3, <1>5, <1>6, <2>1 DEF k
  <2>2. CASE e # d
    BY <1>6, <1>7, <2>2
  <2>3. QED
    BY <2>1, <2>2
<1>9. /\ workers' \in [Daemon -> Nat]
      /\ \A e \in Daemon : workers'[e] = IF e = d THEN w ELSE workers[e]
  BY <1>1 DEF SetConfig
<1>10. QED
  BY <1>3, <1>5, <1>6, <1>8, <1>9

LEMMA DisableEffect ==
    ASSUME TypeOK, NEW d \in Daemon, NEW c \in Chan, DisableChannel(d, c)
    PROVE  /\ ChannelTypes' /\ OnlyChannel(d, c) /\ c \notin BusyChans(d)
           /\ ch'[d][c].params = ch[d][c].params /\ ch'[d][c].est = ch[d][c].est
           /\ \A i \in Target : ch'[d][c].nodes[i] = None
<1> DEFINE q == ch[d][c]
           f == [i \in Target |-> None]
           r == [q EXCEPT !.enabled = FALSE, !.nodes = f]
<1>1. ChannelTypes /\ q \in ChannelRec
  BY DEF TypeOK, ChannelTypes
<1>2. ch' = [ch EXCEPT ![d][c] = r]
  BY <1>1 DEF DisableChannel, ChannelTypes, ChannelRec
<1>3. f \in [Target -> Nat] /\ \A i \in Target : f[i] = None
  BY DEF None
<1> HIDE DEF q, f
<1>4. r \in ChannelRec
  BY <1>1, <1>3, ChannelUpdates
<1>5. r.params = q.params /\ r.est = q.est /\ r.nodes = f
  BY <1>1 DEF ChannelRec
<1> HIDE DEF r
<1>6. ChannelTypes' /\ OnlyChannel(d, c) /\ ch'[d][c] = r
  BY <1>1, <1>2, <1>4, PutChannel
<1>7. QED
  BY <1>3, <1>5, <1>6 DEF q, DisableChannel

-----------------------------------------------------------------------------
(* Every step keeps the types.                                             *)

LEMMA TypeStep ==
    ASSUME TypeOK, TasksOK, OpenedOK, OpeningOK, CurrentOK, Next
    PROVE  TypeOK' /\ TasksOK'
<1> DEFINE Goal == TypeOK' /\ TasksOK'
<1> USE DEF TypeOK, TaskTypes, ChannelTypes, aliceVars, bobVars, bounds
<1>1. ASSUME NEW t \in Task, NEW c \in Chan, Schedule(t, c) PROVE Goal
  BY <1>1, ScheduleEffect DEF Schedule
<1>2. ASSUME NEW t \in Task, PeerFrontier(t) PROVE Goal
  BY <1>2, PeerFrontierEffect DEF PeerFrontier
<1>3. ASSUME NEW t \in Task, FetchFrontier(t) PROVE Goal
  BY <1>3, FetchFrontierEffect DEF FetchFrontier
<1>4. ASSUME NEW t \in Task, Reconcile(t) PROVE Goal
  BY <1>4, ReconcileEffect, ReconcileChannels DEF Reconcile
<1>5. ASSUME NEW t \in Task, ChooseTarget(t) PROVE Goal
  BY <1>5, ChooseTargetEffect DEF ChooseTarget
<1>6. ASSUME NEW t \in Task, SessionHandle(t) PROVE Goal
  BY <1>6, SessionHandleEffect DEF SessionHandle
<1>7. ASSUME NEW t \in Task, OpenStream(t) PROVE Goal
  BY <1>7, OpenStreamEffect DEF OpenStream
<1>8. ASSUME NEW t \in Task, SetUp(t) PROVE Goal
  <2>1. outgoing' \in [Chan -> Session \cup {None}]
    BY <1>8, SetUpEffect DEF SetUp
  <2>2. QED
    BY <1>8, <2>1, SetUpEffect DEF SetUp
<1>9. ASSUME NEW t \in Task, SetUpFails(t) PROVE Goal
  BY <1>9, RefuseEffect DEF SetUpFails, Opening
<1>10. ASSUME NEW t \in Task, CallFails(t) PROVE Goal
  BY <1>10, CallFailsEffect DEF CallFails
<1>11. ASSUME NEW t \in Task, Plan(t) PROVE Goal
  BY <1>11, PlanEffect DEF Plan
<1>12. ASSUME NEW t \in Task, SessionStopped(t) PROVE Goal
  <2>1. tasks[t].chan \in Chan /\ "alice" \in Daemon
    BY <1>12 DEF SessionStopped, TasksOK, Daemon
  <2>2. /\ sess' = sess /\ outgoing' \in [Chan -> Session \cup {None}]
        /\ incoming' \in [Chan -> Session \cup {None}]
    BY <1>12, <2>1, DropSessionEffect DEF SessionStopped
  <2>3. QED
    BY <1>12, <2>2, SessionStoppedEffect DEF SessionStopped
<1>13. ASSUME NEW t \in Task, BeginJob(t) PROVE Goal
  <2>1. TaskTypes'
    BY <1>13, EndEffect, GotoEffect DEF BeginJob, TaskPc, WithJob
  <2>2. tasks[t].chan \in Chan /\ tasks[t].planned \in Nat
    BY <1>13 DEF BeginJob, TasksOK, TaskRec
  <2>3. [chan |-> tasks[t].chan, owner |-> t, planned |-> tasks[t].planned] \in JobRec
    BY <2>2 DEF JobRec
  <2>4. jobs' \in [Daemon -> SUBSET JobRec]
    BY <1>13, <2>3 DEF BeginJob
  <2>5. QED
    BY <1>13, <2>1, <2>4 DEF BeginJob
<1>14. ASSUME NEW t \in Task, SendTarget(t) PROVE Goal
  BY <1>14, SendTargetEffect DEF SendTarget
<1>15. ASSUME NEW t \in Task, RunDone(t) PROVE Goal
  BY <1>15, RunDoneEffect DEF RunDone
<1>16. ASSUME NEW t \in Task, RunFails(t) PROVE Goal
  <2>1. tasks[t].sess \in Session /\ sess[tasks[t].sess].a = "up"
    BY <1>16 DEF RunFails, Live, TaskRec
  <2>2. sess' \in [Session -> SessionRec]
    BY <1>16, <2>1, CloseEffect DEF RunFails
  <2>3. QED
    BY <1>16, <2>2 DEF RunFails, TasksOK
<1>17. ASSUME NEW t \in Task, StoreTarget(t) PROVE Goal
  <2>1. tasks[t].chan \in Chan /\ tasks[t].planned \in Nat /\ tasks[t].pc = "store" /\ "alice" \in Daemon
    BY <1>17 DEF StoreTarget, TasksOK, TaskRec, Daemon
  <2>2. TaskTypes'
    BY <1>17, <2>1, EndEffect, GotoEffect DEF StoreTarget, TaskPc, WithJob
  <2>3. ChannelTypes' /\ jobs' \in [Daemon -> SUBSET JobRec]
    BY <1>17, <2>1, StoreNodeEffect DEF StoreTarget
  <2>4. QED
    BY <1>17, <2>2, <2>3 DEF StoreTarget
<1>18. ASSUME NEW t \in Task, FinishTask(t) PROVE Goal
  BY <1>18, EndEffect DEF FinishTask
<1>19. ASSUME NEW s \in Session, RecordHandle(s) PROVE Goal
  <2>1. incoming' \in [Chan -> Session \cup {None}]
    BY <1>19 DEF RecordHandle
  <2>2. QED
    BY <1>19, <2>1, RecordHandleEffect DEF RecordHandle, TasksOK
<1>20. ASSUME NEW s \in Session, BeginIncomingSession(s) PROVE Goal
  BY <1>20, BobPutEffect DEF BeginIncomingSession, BobPc, TasksOK
<1>21. ASSUME NEW s \in Session, RecvTarget(s) PROVE Goal
  BY <1>21, RecvTargetEffect DEF RecvTarget, TasksOK
<1>22. ASSUME NEW s \in Session, BeginIncomingTarget(s) PROVE Goal
  <2>1. sess' \in [Session -> SessionRec]
    BY <1>22, BeginIncomingTargetEffect
  <2>2. sess[s].chan \in Chan /\ Current(s).planned \in Nat
    <3>1. sess[s].chan \in Chan
      BY <1>22 DEF BeginIncomingTarget, OpenedOK, Opened
    <3>2. sess[s].cmds \in Seq(Cmd) /\ sess[s].cmds # <<>>
      BY <1>22 DEF BeginIncomingTarget, CurrentOK, Arrived, SessionRec
    <3>3. Head(sess[s].cmds) \in Cmd
      BY <3>2
    <3>4. QED
      BY <3>1, <3>3 DEF Current, Cmd
  <2>3. [chan |-> sess[s].chan, owner |-> s, planned |-> Current(s).planned] \in JobRec
    BY <2>2 DEF JobRec
  <2>4. jobs' \in [Daemon -> SUBSET JobRec]
    BY <1>22, <2>3 DEF BeginIncomingTarget
  <2>5. QED
    BY <1>22, <2>1, <2>4 DEF BeginIncomingTarget, TasksOK
<1>23. ASSUME NEW s \in Session, IncomingStore(s) PROVE Goal
  <2>1. sess' \in [Session -> SessionRec]
    BY <1>23, IncomingStoreEffect
  <2>2. sess[s].chan \in Chan /\ Current(s).planned \in Nat /\ "bob" \in Daemon
    <3>1. sess[s].chan \in Chan
      BY <1>23 DEF IncomingStore, OpenedOK, Opened
    <3>2. sess[s].cmds \in Seq(Cmd) /\ sess[s].cmds # <<>>
      BY <1>23 DEF IncomingStore, CurrentOK, Arrived, SessionRec
    <3>3. Head(sess[s].cmds) \in Cmd
      BY <3>2
    <3>4. QED
      BY <3>1, <3>3 DEF Current, Cmd, Daemon
  <2>3. ChannelTypes' /\ jobs' \in [Daemon -> SUBSET JobRec]
    BY <1>23, <2>2, StoreNodeEffect DEF IncomingStore
  <2>4. QED
    BY <1>23, <2>1, <2>3 DEF IncomingStore, TasksOK
<1>24. ASSUME NEW s \in Session, IncomingFails(s) PROVE Goal
  BY <1>24, BobPutEffect DEF IncomingFails, BobPc, TasksOK
<1>25. ASSUME NEW s \in Session, IncomingFinish(s) PROVE Goal
  BY <1>25, BobPutEffect DEF IncomingFinish, BobPc, TasksOK
<1>26. ASSUME NEW s \in Session, Unregister(s) PROVE Goal
  BY <1>26, BobPutEffect DEF Unregister, BobPc, TasksOK
<1>27. ASSUME NEW s \in Session, LoopEnds(s) PROVE Goal
  BY <1>27, CloseEffect DEF LoopEnds, Live, TasksOK
<1>28. ASSUME NEW d \in Daemon, NEW w \in WorkerCounts, SetConfig(d, w) PROVE Goal
  BY <1>28, SetConfigEffect DEF SetConfig, TasksOK
<1>29. ASSUME NEW d \in Daemon, NEW c \in Chan, NEW p \in Params, EnableChannel(d, c, p) PROVE Goal
  BY <1>29, EnableEffect, ZenonT(40) DEF EnableChannel, TasksOK
<1>30. ASSUME NEW d \in Daemon, NEW c \in Chan, DisableChannel(d, c) PROVE Goal
  BY <1>30, DisableEffect DEF DisableChannel, TasksOK
<1>31. ASSUME NEW d \in Daemon, NEW c \in Chan, DisableDrops(d, c) PROVE Goal
  BY <1>31, DropSessionEffect DEF DisableDrops, TasksOK
<1>32. ASSUME RestartAlice PROVE Goal
  <2>1. outgoing' \in [Chan -> Session \cup {None}] /\ nextId' \in Nat
    BY <1>32 DEF RestartAlice
  <2>2. jobs' \in [Daemon -> SUBSET JobRec]
    BY <1>32 DEF RestartAlice
  <2>3. QED
    BY <1>32, <2>1, <2>2, RestartAliceEffect DEF RestartAlice
<1>33. ASSUME RestartBob PROVE Goal
  <2>1. incoming' \in [Chan -> Session \cup {None}] /\ grpc' \subseteq EntryRec
    BY <1>33 DEF RestartBob
  <2>2. jobs' \in [Daemon -> SUBSET JobRec]
    BY <1>33 DEF RestartBob
  <2>3. QED
    BY <1>33, <2>1, <2>2, RestartBobEffect DEF RestartBob, TasksOK
<1> QED
  BY <1>1, <1>2, <1>3, <1>4, <1>5, <1>6, <1>7, <1>8, <1>9, <1>10, <1>11, <1>12, <1>13,
     <1>14, <1>15, <1>16, <1>17, <1>18, <1>19, <1>20, <1>21, <1>22, <1>23, <1>24, <1>25,
     <1>26, <1>27, <1>28, <1>29, <1>30, <1>31, <1>32, <1>33 DEF Next, TaskStep,
     SessionStep

-----------------------------------------------------------------------------
(* The sessions Alice opens, and their names.                              *)

\* What no step but the opening of s itself does to a session: its name
\* stays; its end at Alice's is left only by the task that opens it, Bob's
\* begins only by that task's last stream; only streams of its name are joined.
SteadySession(s) ==
    /\ KeepsId(s)
    /\ sess'[s].a # sess[s].a =>
          /\ sess[s].a # "none" /\ sess'[s].a # "none"
          /\ sess[s].a = "closed" => sess'[s].a = "closed"
          /\ sess[s].a = "opening" =>
                \/ \A u \in Task : tasks'[u].pc \notin Opening
                \/ \E u \in Task : tasks[u].sess = s /\ tasks'[u].pc \notin Opening
    /\ sess[s].a = "none" => sess'[s].b = sess[s].b
    /\ sess[s].b \in {"none", "gone"} =>
          \/ sess'[s].b \in {"none", "gone"}
          \/ \E u \in Task : tasks[u].sess = s /\ tasks'[u].pc \notin {"main", "sibling"}
    /\ \/ sess'[s].streams = sess[s].streams
       \/ sess[s].a = "opening" /\ \A x \in sess'[s].streams : x \in Session /\ Known(s, x)

\* What no step but the opening of a session does to a task.
SteadyTask(t) ==
    /\ \/ tasks'[t].sess \in {tasks[t].sess, None}
       \/ tasks'[t].sess \in Session /\ sess[tasks'[t].sess].a = "up"
    /\ tasks'[t].pc \in Opening =>
          /\ tasks[t].pc \in Opening /\ tasks'[t].sess = tasks[t].sess
          /\ tasks'[t].pc # "setup" => tasks[t].pc # "setup"

\* Entries are made by streams of an open session and have its name.
SteadyEntries ==
    \A e \in grpc' : \/ e \in grpc
                      \/ \E s \in Opened :
                            /\ e.name = sess[s].name
                            /\ \A x \in {e.main, e.sibling} : x = None \/ Known(s, x)

Steady ==
    /\ \A s \in Session : SteadySession(s)
    /\ \A t \in Task : SteadyTask(t)
    /\ nextId' = nextId \/ \A s \in Session : sess[s].a # "none" => sess'[s].a = "closed"
    /\ SteadyEntries

\* The step that opens a session: the first one not opened, by task t.
OpensSession(t) ==
    LET s == Cardinality(Opened) + 1
        c == tasks[t].chan
    IN  /\ Moves(t, "main") /\ tasks'[t].sess = s
        /\ s \in Session /\ Opens(s, c) /\ c \in Chan
        /\ nextId' = nextId + 1 /\ UNCHANGED grpc

\* Sessions left alone, closed by Alice, gone on or aborted at Bob's end only.
LEMMA SteadySame ==
    ASSUME NEW s \in Session, sess'[s] = sess[s]
    PROVE  SteadySession(s)
BY DEF SteadySession, KeepsId

LEMMA SteadyCloses ==
    ASSUME NEW s \in Session, Closes(s),
           \/ sess[s].a # "opening"
           \/ \A u \in Task : tasks'[u].pc \notin Opening
           \/ \E u \in Task : tasks[u].sess = s /\ tasks'[u].pc \notin Opening
    PROVE  SteadySession(s)
BY DEF SteadySession, Closes

LEMMA SteadyBob ==
    ASSUME NEW s \in Session, NEW b, BobGoesOn(s, b),
           sess[s].a = "none" => b = sess[s].b,
           sess[s].b \in {"none", "gone"} => b \in {"none", "gone"}
    PROVE  SteadySession(s)
BY DEF SteadySession, BobGoesOn

LEMMA SteadyAborts ==
    ASSUME OpenedOK, NEW s \in Session, Aborts(s)
    PROVE  SteadySession(s)
<1> DEFINE b == IF sess[s].b \in {"none", "gone"} THEN sess[s].b ELSE "aborted"
<1>1. BobGoesOn(s, b)
  BY DEF Aborts
<1>2. /\ sess[s].a = "none" => b = sess[s].b
      /\ sess[s].b \in {"none", "gone"} => b \in {"none", "gone"}
  BY DEF OpenedOK
<1> HIDE DEF b
<1>3. QED
  BY <1>1, <1>2, SteadyBob

LEMMA SteadyTasks ==
    ASSUME NEW t \in Task
    PROVE  /\ tasks' = tasks => \A u \in Task : SteadyTask(u)
           /\ Returns(t) => \A u \in Task : SteadyTask(u)
           /\ \A pc : GoesOn(t, pc) /\ pc \notin Opening => \A u \in Task : SteadyTask(u)
BY DEF SteadyTask, Returns, GoesOn, Moves, OnlyTask, IdleTask, Opening

LEMMA EntriesKept == grpc' \subseteq grpc => SteadyEntries
BY DEF SteadyEntries

\* Every step but the opening of a session is steady.
LEMMA SteadyStep ==
    ASSUME TypeOK, TasksOK, OpenedOK, OpeningOK, CurrentOK, Next
    PROVE  Steady \/ \E t \in Task : OpensSession(t)
<1> DEFINE Goal == Steady \/ \E t \in Task : OpensSession(t)
<1>1. ASSUME NEW t \in Task, NEW c \in Chan, Schedule(t, c) PROVE Goal
  <2>1. \A u \in Task : SteadyTask(u)
    BY <1>1, ScheduleEffect DEF SteadyTask, OnlyTask, Opening, TypeOK, TaskTypes
  <2>2. QED
    BY <1>1, <2>1, SteadySame, EntriesKept DEF Schedule, Steady, bobVars
<1>2. ASSUME NEW t \in Task, PeerFrontier(t) PROVE Goal
  BY <1>2, PeerFrontierEffect, SteadySame, SteadyTasks, EntriesKept DEF PeerFrontier,
     Steady, bobVars, Opening
<1>3. ASSUME NEW t \in Task, FetchFrontier(t) PROVE Goal
  BY <1>3, FetchFrontierEffect, SteadySame, SteadyTasks, EntriesKept DEF FetchFrontier,
     Steady, bobVars, Opening
<1>4. ASSUME NEW t \in Task, Reconcile(t) PROVE Goal
  BY <1>4, ReconcileEffect, SteadySame, SteadyTasks, EntriesKept DEF Reconcile, Steady,
     bobVars, Opening
<1>5. ASSUME NEW t \in Task, ChooseTarget(t) PROVE Goal
  BY <1>5, ChooseTargetEffect, SteadySame, SteadyTasks, EntriesKept DEF ChooseTarget,
     Steady, bobVars, Opening
<1>6. ASSUME NEW t \in Task, SessionHandle(t) PROVE Goal
  <2>1. CASE OpensSession(t)
    BY <2>1
  <2>2. CASE \/ Returns(t) /\ UNCHANGED <<sess, nextId>>
             \/ /\ Moves(t, "plan") /\ tasks'[t].sess \in Session
                /\ sess[tasks'[t].sess].a = "up" /\ UNCHANGED <<sess, nextId>>
    <3>1. \A u \in Task : SteadyTask(u)
      BY <2>2, SteadyTasks DEF SteadyTask, Moves, OnlyTask, Opening
    <3>2. QED
      BY <1>6, <2>2, <3>1, SteadySame, EntriesKept DEF SessionHandle, Steady, bobVars
  <2>3. QED
    BY <1>6, <2>1, <2>2, SessionHandleEffect DEF OpensSession, SessionHandle, bobVars
<1>7. ASSUME NEW t \in Task, OpenStream(t) PROVE Goal
  <2> DEFINE s == tasks[t].sess
  <2>1. s \in Session /\ tasks[t].pc \in {"main", "sibling"} /\ sess[s].a = "opening"
    BY <1>7, OpenStreamEffect DEF OpeningOK, Opening
  <2>2. nextId' = nextId
    BY <1>7 DEF OpenStream
  <2>3. CASE Returns(t) /\ OnlySession(s) /\ Closes(s) /\ UNCHANGED grpc
    <3>1. \E u \in Task : tasks[u].sess = s /\ tasks'[u].pc \notin Opening
      BY <2>3 DEF Returns, IdleTask, Opening
    <3>2. \A r \in Session : SteadySession(r)
      BY <2>3, <3>1, SteadySame, SteadyCloses DEF OnlySession
    <3>3. QED
      BY <2>2, <2>3, <3>2, SteadyTasks, EntriesKept DEF Steady
  <2>4. ASSUME NEW pc \in {"sibling", "setup"}, GoesOn(t, pc) PROVE \A u \in Task : SteadyTask(u)
    BY <2>1, <2>4 DEF SteadyTask, GoesOn, Moves, OnlyTask, Opening
  <2>5. CASE /\ \E pc \in {"sibling", "setup"} : GoesOn(t, pc)
             /\ UNCHANGED sess
             /\ \E new \in EntryRec :
                   /\ grpc' = (grpc \ Entry(s)) \cup {new} /\ new.name = sess[s].name
                   /\ \A x \in {new.main, new.sibling} : x = None \/ Known(s, x)
    <3>1. s \in Opened
      BY <2>1 DEF Opened
    <3> HIDE DEF s
    <3>2. SteadyEntries
      BY <2>5, <3>1 DEF SteadyEntries
    <3>3. QED
      BY <2>2, <2>4, <2>5, <3>2, SteadySame DEF Steady
  <2>6. CASE GoesOn(t, "setup") /\ OnlySession(s) /\ Joins(s) /\ grpc' \subseteq grpc
    <3>1. \E u \in Task : tasks[u].sess = s /\ tasks'[u].pc \notin {"main", "sibling"}
      BY <2>6 DEF GoesOn, Moves
    <3> HIDE DEF s
    <3>2. SteadySession(s)
      BY <2>1, <2>6, <3>1 DEF SteadySession, Joins
    <3>3. \A r \in Session : SteadySession(r)
      BY <2>6, <3>2, SteadySame DEF OnlySession
    <3>4. QED
      BY <2>2, <2>4, <2>6, <3>3, EntriesKept DEF Steady
  <2>7. QED
    BY <1>7, <2>3, <2>5, <2>6, OpenStreamEffect
<1>8. ASSUME NEW t \in Task, SetUp(t) PROVE Goal
  <2> DEFINE s == tasks[t].sess
  <2>1. s \in Session /\ \E u \in Task : tasks[u].sess = s /\ tasks'[u].pc \notin Opening
    BY <1>8, SetUpEffect DEF GoesOn, Moves, Opening
  <2>2. SteadySession(s)
    BY <1>8, <2>1, SetUpEffect DEF SteadySession
  <2>3. \A r \in Session : SteadySession(r)
    BY <1>8, <2>2, SetUpEffect, SteadySame DEF OnlySession
  <2>4. \A u \in Task : SteadyTask(u)
    BY <1>8, SetUpEffect, SteadyTasks DEF Opening
  <2>5. QED
    BY <1>8, <2>3, <2>4, EntriesKept DEF SetUp, Steady, bobVars
<1>9. ASSUME NEW t \in Task, SetUpFails(t) PROVE Goal
  <2> DEFINE s == tasks[t].sess
  <2>1. tasks[t].pc \in Opening /\ Refuse(t)
    BY <1>9 DEF SetUpFails, Opening
  <2>2. Returns(t) /\ OnlySession(s) /\ Closes(s) /\ s \in Session
    BY <2>1, RefuseEffect DEF OpeningOK
  <2>3. \E u \in Task : tasks[u].sess = s /\ tasks'[u].pc \notin Opening
    BY <2>2 DEF Returns, IdleTask, Opening
  <2>4. \A r \in Session : SteadySession(r)
    BY <2>2, <2>3, SteadySame, SteadyCloses DEF OnlySession
  <2>5. QED
    BY <1>9, <2>2, <2>4, SteadyTasks, EntriesKept DEF SetUpFails, Steady, bobVars
<1>10. ASSUME NEW t \in Task, CallFails(t) PROVE Goal
  <2> DEFINE s == tasks[t].sess
  <2>1. Returns(t)
    BY <1>10, CallFailsEffect
  <2>2. CASE sess' = sess
    BY <1>10, <2>1, <2>2, SteadySame, SteadyTasks, EntriesKept DEF CallFails, Steady, bobVars
  <2>3. CASE s \in Session /\ OnlySession(s) /\ Closes(s)
    <3>1. \E u \in Task : tasks[u].sess = s /\ tasks'[u].pc \notin Opening
      BY <2>1 DEF Returns, IdleTask, Opening
    <3>2. \A r \in Session : SteadySession(r)
      BY <2>3, <3>1, SteadySame, SteadyCloses DEF OnlySession
    <3>3. QED
      BY <1>10, <2>1, <3>2, SteadyTasks, EntriesKept DEF CallFails, Steady, bobVars
  <2>4. QED
    BY <1>10, <2>2, <2>3, CallFailsEffect
<1>11. ASSUME NEW t \in Task, Plan(t) PROVE Goal
  <2>1. \A u \in Task : SteadyTask(u)
    BY <1>11, PlanEffect DEF SteadyTask, OnlyTask, Opening
  <2>2. QED
    BY <1>11, <2>1, SteadySame, EntriesKept DEF Plan, Steady, bobVars
<1>12. ASSUME NEW t \in Task, SessionStopped(t) PROVE Goal
  <2>1. sess' = sess
    BY <1>12 DEF SessionStopped, DropSession
  <2>2. \A u \in Task : SteadyTask(u)
    BY <1>12, SessionStoppedEffect, SteadyTasks DEF Opening
  <2>3. QED
    BY <1>12, <2>1, <2>2, SteadySame, EntriesKept DEF SessionStopped, Steady
<1>13. ASSUME NEW t \in Task, BeginJob(t) PROVE Goal
  <2>1. \A u \in Task : SteadyTask(u)
    BY <1>13, EndEffect, GotoEffect, SteadyTasks DEF BeginJob, TypeOK, TaskTypes, TaskPc, WithJob, Opening
  <2>2. QED
    BY <1>13, <2>1, SteadySame, EntriesKept DEF BeginJob, Steady, bobVars
<1>14. ASSUME NEW t \in Task, SendTarget(t) PROVE Goal
  <2> DEFINE s == tasks[t].sess
  <2>1. s \in Session /\ OnlySession(s) /\ BobGoesOn(s, sess[s].b)
    BY <1>14, SendTargetEffect
  <2>2. \A r \in Session : SteadySession(r)
    BY <2>1, SteadySame, SteadyBob DEF OnlySession
  <2>3. \A u \in Task : SteadyTask(u)
    BY <1>14, SendTargetEffect, SteadyTasks DEF Opening
  <2>4. QED
    BY <1>14, <2>2, <2>3, EntriesKept DEF SendTarget, Steady, bobVars
<1>15. ASSUME NEW t \in Task, RunDone(t) PROVE Goal
  <2> DEFINE s == tasks[t].sess
  <2>1. s \in Session /\ OnlySession(s) /\ BobGoesOn(s, sess[s].b)
    BY <1>15, RunDoneEffect
  <2>2. \A r \in Session : SteadySession(r)
    BY <2>1, SteadySame, SteadyBob DEF OnlySession
  <2>3. \A u \in Task : SteadyTask(u)
    BY <1>15, RunDoneEffect, SteadyTasks DEF Opening
  <2>4. QED
    BY <1>15, <2>2, <2>3, EntriesKept DEF RunDone, Steady, bobVars
<1>16. ASSUME NEW t \in Task, RunFails(t) PROVE Goal
  <2> DEFINE s == tasks[t].sess
  <2>1. s \in Session /\ sess[s].a = "up"
    BY <1>16 DEF RunFails, Live, TypeOK, TaskRec
  <2>2. OnlySession(s) /\ Closes(s)
    BY <1>16, <2>1, CloseEffect DEF RunFails, TypeOK
  <2>3. \A r \in Session : SteadySession(r)
    BY <2>1, <2>2, SteadySame, SteadyCloses DEF OnlySession
  <2>4. QED
    BY <1>16, <2>3, SteadyTasks, EntriesKept DEF RunFails, Steady, aliceVars, bobVars
<1>17. ASSUME NEW t \in Task, StoreTarget(t) PROVE Goal
  <2>1. \A u \in Task : SteadyTask(u)
    BY <1>17, EndEffect, GotoEffect, SteadyTasks DEF StoreTarget, TypeOK, TaskTypes, TaskPc, WithJob, Opening
  <2>2. QED
    BY <1>17, <2>1, SteadySame, EntriesKept DEF StoreTarget, Steady, bobVars
<1>18. ASSUME NEW t \in Task, FinishTask(t) PROVE Goal
  <2>1. \A u \in Task : SteadyTask(u)
    BY <1>18, EndEffect, SteadyTasks DEF FinishTask, TypeOK, TaskTypes
  <2>2. QED
    BY <1>18, <2>1, SteadySame, EntriesKept DEF FinishTask, Steady, bobVars
<1>19. ASSUME NEW s \in Session, RecordHandle(s) PROVE Goal
  <2>1. \A r \in Session : SteadySession(r)
    BY <1>19, RecordHandleEffect, SteadyAborts, SteadyBob DEF SomeAborted
  <2>2. QED
    BY <1>19, <2>1, SteadyTasks, EntriesKept DEF RecordHandle, Steady, aliceVars
<1>20. ASSUME NEW s \in Session, BeginIncomingSession(s) PROVE Goal
  <2>1. PICK b \in {"setup", "leaving"} : sess' = [sess EXCEPT ![s].b = b]
    BY <1>20 DEF BeginIncomingSession
  <2>2. OnlySession(s) /\ BobGoesOn(s, b) /\ sess[s].b = "begin"
    BY <1>20, <2>1, BobPutEffect, ZenonT(40) DEF BeginIncomingSession, TypeOK, BobPc
  <2>3. SteadySession(s)
    BY <2>2, SteadyBob DEF OpenedOK
  <2>4. \A r \in Session : SteadySession(r)
    BY <2>2, <2>3, SteadySame DEF OnlySession
  <2>5. QED
    BY <1>20, <2>4, SteadyTasks, EntriesKept DEF BeginIncomingSession, Steady, aliceVars, bobVars
<1>21. ASSUME NEW s \in Session, RecvTarget(s) PROVE Goal
  <2>1. SteadySession(s)
    BY <1>21, RecvTargetEffect DEF SteadySession, OpenedOK
  <2>2. \A r \in Session : SteadySession(r)
    BY <1>21, <2>1, RecvTargetEffect, SteadySame DEF OnlySession
  <2>3. QED
    BY <1>21, <2>2, SteadyTasks, EntriesKept DEF RecvTarget, Steady, aliceVars, bobVars
<1>22. ASSUME NEW s \in Session, BeginIncomingTarget(s) PROVE Goal
  <2>1. OnlySession(s) /\ BobGoesOn(s, IF Admits(s) THEN "run" ELSE "leaving") /\ sess[s].b \notin {"none", "gone"}
    BY <1>22, BeginIncomingTargetEffect DEF OpenedOK
  <2>2. SteadySession(s)
    BY <2>1, SteadyBob DEF OpenedOK
  <2>3. \A r \in Session : SteadySession(r)
    BY <2>1, <2>2, SteadySame DEF OnlySession
  <2>4. QED
    BY <1>22, <2>3, SteadyTasks, EntriesKept DEF BeginIncomingTarget, Steady, aliceVars, bobVars
<1>23. ASSUME NEW s \in Session, IncomingStore(s) PROVE Goal
  <2>1. OnlySession(s) /\ BobGoesOn(s, IF ch["bob"][sess[s].chan].enabled THEN "recv" ELSE "failing") /\ sess[s].b \notin {"none", "gone"}
    BY <1>23, IncomingStoreEffect DEF OpenedOK
  <2>2. SteadySession(s)
    BY <2>1, SteadyBob DEF OpenedOK
  <2>3. \A r \in Session : SteadySession(r)
    BY <2>1, <2>2, SteadySame DEF OnlySession
  <2>4. QED
    BY <1>23, <2>3, SteadyTasks, EntriesKept DEF IncomingStore, Steady, aliceVars, bobVars
<1>24. ASSUME NEW s \in Session, IncomingFails(s) PROVE Goal
  <2>1. OnlySession(s) /\ BobGoesOn(s, IF sess[s].b = "run" THEN "failing" ELSE "leaving") /\ sess[s].b \notin {"none", "gone"}
    BY <1>24, BobPutEffect DEF IncomingFails, TypeOK, BobPc
  <2>2. SteadySession(s)
    BY <2>1, SteadyBob DEF OpenedOK
  <2>3. \A r \in Session : SteadySession(r)
    BY <2>1, <2>2, SteadySame DEF OnlySession
  <2>4. QED
    BY <1>24, <2>3, SteadyTasks, EntriesKept DEF IncomingFails, Steady, aliceVars, bobVars
<1>25. ASSUME NEW s \in Session, IncomingFinish(s) PROVE Goal
  <2>1. OnlySession(s) /\ BobGoesOn(s, "leaving") /\ sess[s].b \notin {"none", "gone"}
    BY <1>25, BobPutEffect DEF IncomingFinish, TypeOK, BobPc
  <2>2. SteadySession(s)
    BY <2>1, SteadyBob DEF OpenedOK
  <2>3. \A r \in Session : SteadySession(r)
    BY <2>1, <2>2, SteadySame DEF OnlySession
  <2>4. QED
    BY <1>25, <2>3, SteadyTasks, EntriesKept DEF IncomingFinish, Steady, aliceVars, bobVars
<1>26. ASSUME NEW s \in Session, Unregister(s) PROVE Goal
  <2>1. OnlySession(s) /\ BobGoesOn(s, "gone") /\ sess[s].b \notin {"none", "gone"}
    BY <1>26, BobPutEffect DEF Unregister, TypeOK, BobPc
  <2>2. SteadySession(s)
    BY <2>1, SteadyBob DEF OpenedOK
  <2>3. \A r \in Session : SteadySession(r)
    BY <2>1, <2>2, SteadySame DEF OnlySession
  <2>4. QED
    BY <1>26, <2>3, SteadyTasks, EntriesKept DEF Unregister, Steady, aliceVars, bobVars
<1>27. ASSUME NEW s \in Session, LoopEnds(s) PROVE Goal
  <2>1. OnlySession(s) /\ Closes(s) /\ sess[s].a = "up"
    BY <1>27, CloseEffect DEF LoopEnds, Live, TypeOK
  <2>2. \A r \in Session : SteadySession(r)
    BY <2>1, SteadySame, SteadyCloses DEF OnlySession
  <2>3. QED
    BY <1>27, <2>2, SteadyTasks, EntriesKept DEF LoopEnds, Steady, aliceVars, bobVars
<1>28. ASSUME NEW d \in Daemon, NEW w \in WorkerCounts, SetConfig(d, w) PROVE Goal
  BY <1>28, SteadySame, SteadyTasks, EntriesKept DEF SetConfig, Steady, aliceVars,
     bobVars, bounds
<1>29. ASSUME NEW d \in Daemon, NEW c \in Chan, NEW p \in Params,
            EnableChannel(d, c, p)
      PROVE  Goal
  BY <1>29, SteadySame, SteadyTasks, EntriesKept DEF EnableChannel, Steady, aliceVars,
     bobVars, bounds
<1>30. ASSUME NEW d \in Daemon, NEW c \in Chan, DisableChannel(d, c) PROVE Goal
  BY <1>30, SteadySame, SteadyTasks, EntriesKept DEF DisableChannel, Steady, aliceVars,
     bobVars, bounds
<1>31. ASSUME NEW d \in Daemon, NEW c \in Chan, DisableDrops(d, c) PROVE Goal
  <2>1. \A r \in Session : SteadySession(r)
    BY <1>31, DropSessionEffect, SteadyAborts, SteadyBob DEF DisableDrops, SomeAborted
  <2>2. QED
    BY <1>31, <2>1, SteadyTasks, EntriesKept DEF DisableDrops, Steady
<1>32. ASSUME RestartAlice PROVE Goal
  <2>1. \A u \in Task : tasks'[u] = IdleTask
    BY <1>32, RestartAliceEffect
  <2>2. \A u \in Task : SteadyTask(u) /\ tasks'[u].pc \notin Opening
    BY <2>1 DEF SteadyTask, IdleTask, Opening
  <2>3. \A s \in Session : SteadySession(s)
    BY <1>32, <2>2, RestartAliceEffect, SteadySame, SteadyCloses
  <2>4. \A s \in Session : sess[s].a # "none" => sess'[s].a = "closed"
    BY <1>32, RestartAliceEffect DEF Closes
  <2>5. QED
    BY <1>32, <2>2, <2>3, <2>4, EntriesKept DEF RestartAlice, Steady, bobVars
<1>33. ASSUME RestartBob PROVE Goal
  <2>1. \A s \in Session : SteadySession(s)
    BY <1>33, RestartBobEffect, SteadyAborts, SteadyBob
  <2>2. QED
    BY <1>33, <2>1, SteadyTasks, EntriesKept DEF RestartBob, Steady, aliceVars
<1> QED
  BY <1>1, <1>2, <1>3, <1>4, <1>5, <1>6, <1>7, <1>8, <1>9, <1>10, <1>11, <1>12, <1>13,
     <1>14, <1>15, <1>16, <1>17, <1>18, <1>19, <1>20, <1>21, <1>22, <1>23, <1>24,
     <1>25, <1>26, <1>27, <1>28, <1>29, <1>30, <1>31, <1>32, <1>33 DEF Next, TaskStep,
     SessionStep

\* The sessions opened stay opened, and a step opens at most one more.
LEMMA OpenedSteady ==
    ASSUME TypeOK, OpenedOK, Steady PROVE Opened' = Opened
BY DEF Opened, Steady, SteadySession

LEMMA OpenedGrows ==
    ASSUME TypeOK, OpenedOK, NEW t \in Task, OpensSession(t)
    PROVE  LET s == Cardinality(Opened) + 1
           IN  s \notin Opened /\ s \in Session /\ Opened' = Opened \cup {s}
               /\ \E n \in Nat : Opened' = 1..n
<1> DEFINE s == Cardinality(Opened) + 1
<1>1. PICK n \in Nat : Opened = 1..n
  BY DEF OpenedOK
<1>2. s = n + 1
  <2>1. Cardinality(1..n) = IF 1 > n THEN 0 ELSE n - 1 + 1
    BY FS_Interval
  <2>2. QED
    BY <1>1, <2>1
<1>3. s \in Session /\ OnlySession(s) /\ sess'[s].a = "opening"
  BY DEF OpensSession, Opens
<1>4. s \notin Opened
  BY <1>1, <1>2
<1>5. Opened' = Opened \cup {s}
  <2> HIDE DEF s
  <2>1. \A r \in Session : r \in Opened' <=> r \in Opened \/ r = s
    BY <1>3 DEF Opened, OnlySession
  <2>2. QED
    BY <1>3, <2>1 DEF Opened
<1>6. Opened' = 1..(n + 1)
  BY <1>1, <1>2, <1>5
<1>7. QED
  BY <1>3, <1>4, <1>5, <1>6, SMTT(30)

LEMMA OpenedStep ==
    ASSUME TypeOK, TasksOK, OpenedOK, OpeningOK, CurrentOK, Next
    PROVE  OpenedOK'
<1>1. CASE Steady
  <2>1. Opened' = Opened
    BY <1>1, OpenedSteady
  <2>2. \E n \in Nat : Opened' = 1..n
    BY <2>1 DEF OpenedOK
  <2>3. \A s \in Session : sess'[s].a = "none" => sess'[s].b = "none"
    BY <1>1 DEF OpenedOK, Steady, SteadySession
  <2>4. \A s \in Opened' : sess'[s].chan \in Chan
    BY <1>1, <2>1 DEF OpenedOK, Opened, Steady, SteadySession, KeepsId
  <2>5. \A t \in Task : tasks'[t].sess \in Opened' \cup {None}
    <3> SUFFICES ASSUME NEW t \in Task PROVE tasks'[t].sess \in Opened \cup {None}
      BY <2>1
    <3>1. CASE tasks'[t].sess \in {tasks[t].sess, None}
      BY <3>1 DEF OpenedOK
    <3>2. CASE tasks'[t].sess \in Session /\ sess[tasks'[t].sess].a = "up"
      BY <3>2 DEF Opened
    <3>3. QED
      BY <1>1, <3>1, <3>2 DEF Steady, SteadyTask
  <2>6. \A e \in grpc' : {e.main, e.sibling} \subseteq Opened' \cup {None}
    BY <1>1, <2>1 DEF OpenedOK, Steady, SteadyEntries, Known, Entry
  <2>7. QED
    BY <2>2, <2>3, <2>4, <2>5, <2>6 DEF OpenedOK
<1>2. ASSUME NEW t \in Task, OpensSession(t) PROVE OpenedOK'
  <2> DEFINE s == Cardinality(Opened) + 1
  <2>1. s \notin Opened /\ s \in Session /\ Opened' = Opened \cup {s}
        /\ \E n \in Nat : Opened' = 1..n
    BY <1>2, OpenedGrows
  <2>2. /\ OnlySession(s) /\ sess'[s].chan \in Chan
        /\ sess'[s].a = "opening"
        /\ OnlyTask(t) /\ tasks'[t].sess = s /\ UNCHANGED grpc
    BY <1>2 DEF OpensSession, Opens, Moves
  <2> HIDE DEF s
  <2>3. \A r \in Session : sess'[r].a = "none" => sess'[r].b = "none"
    BY <2>2 DEF OpenedOK, OnlySession
  <2>4. \A r \in Opened' : sess'[r].chan \in Chan
    BY <2>1, <2>2 DEF OpenedOK, Opened, OnlySession
  <2>5. \A u \in Task : tasks'[u].sess \in Opened' \cup {None}
    BY <2>1, <2>2 DEF OpenedOK, OnlyTask
  <2>6. QED
    BY <2>1, <2>2, <2>3, <2>4, <2>5 DEF OpenedOK
<1>3. QED
  BY <1>1, <1>2, SteadyStep

LEMMA OpeningStep ==
    ASSUME TypeOK, TasksOK, OpenedOK, OpeningOK, CurrentOK, Next
    PROVE  OpeningOK'
<1>1. CASE Steady
  <2> SUFFICES ASSUME NEW t \in Task, tasks'[t].pc \in Opening
               PROVE  /\ tasks'[t].sess \in Session
                      /\ sess'[tasks'[t].sess].a = "opening"
                      /\ tasks'[t].pc # "setup" => sess'[tasks'[t].sess].b \in {"none", "gone"}
                      /\ \A u \in Task \ {t} : tasks'[u].sess # tasks'[t].sess
    BY DEF OpeningOK, Opening
  <2> DEFINE s == tasks[t].sess
  <2>1. tasks[t].pc \in Opening /\ tasks'[t].sess = s /\ (tasks'[t].pc # "setup" => tasks[t].pc # "setup")
    BY <1>1 DEF Steady, SteadyTask
  <2>2. /\ s \in Session /\ sess[s].a = "opening"
        /\ tasks[t].pc # "setup" => sess[s].b \in {"none", "gone"}
        /\ \A u \in Task \ {t} : tasks[u].sess # s
    BY <2>1 DEF OpeningOK
  <2>3. SteadySession(s)
    BY <1>1, <2>2 DEF Steady
  <2> HIDE DEF s
  <2>4. sess'[s].a = "opening"
    BY <2>2, <2>3 DEF SteadySession
  <2>5. tasks'[t].pc # "setup" => sess'[s].b \in {"none", "gone"}
    BY <2>1, <2>2, <2>3 DEF SteadySession, Opening
  <2>6. ASSUME NEW u \in Task \ {t} PROVE tasks'[u].sess # s
    <3>1. s # None
      BY <2>2 DEF Session, None
    <3>2. SteadyTask(u)
      BY <1>1 DEF Steady
    <3>3. QED
      BY <2>2, <3>1, <3>2 DEF SteadyTask
  <2>7. QED
    BY <2>1, <2>2, <2>4, <2>5, <2>6
<1>2. ASSUME NEW t \in Task, OpensSession(t) PROVE OpeningOK'
  <2> DEFINE s == Cardinality(Opened) + 1
  <2>1. s \notin Opened /\ s \in Session
    BY <1>2, OpenedGrows
  <2>2. /\ OnlySession(s) /\ sess'[s].a = "opening" /\ sess'[s].b = "none"
        /\ OnlyTask(t) /\ tasks'[t].sess = s
    BY <1>2 DEF OpensSession, Opens, Moves
  <2> HIDE DEF s
  <2>3. \A u \in Task : tasks[u].sess # s
    BY <2>1 DEF OpenedOK, Session, None
  <2> SUFFICES ASSUME NEW v \in Task, tasks'[v].pc \in Opening
               PROVE  /\ tasks'[v].sess \in Session
                      /\ sess'[tasks'[v].sess].a = "opening"
                      /\ tasks'[v].pc # "setup" => sess'[tasks'[v].sess].b \in {"none", "gone"}
                      /\ \A u \in Task \ {v} : tasks'[u].sess # tasks'[v].sess
    BY DEF OpeningOK, Opening
  <2>4. CASE v = t
    BY <2>1, <2>2, <2>3, <2>4 DEF OnlyTask
  <2>5. CASE v # t
    <3>1. tasks'[v] = tasks[v] /\ tasks[v].sess # s
      BY <2>2, <2>3, <2>5 DEF OnlyTask
    <3>2. /\ tasks[v].sess \in Session /\ sess[tasks[v].sess].a = "opening"
          /\ tasks[v].pc # "setup" => sess[tasks[v].sess].b \in {"none", "gone"}
          /\ \A u \in Task \ {v} : tasks[u].sess # tasks[v].sess
      BY <3>1 DEF OpeningOK
    <3>3. sess'[tasks[v].sess] = sess[tasks[v].sess]
      BY <2>2, <3>1, <3>2 DEF OnlySession
    <3>4. QED
      BY <2>2, <3>1, <3>2, <3>3 DEF OnlyTask
  <2>6. QED
    BY <2>4, <2>5
<1>3. QED
  BY <1>1, <1>2, SteadyStep

LEMMA NamesStep ==
    ASSUME TypeOK, TasksOK, OpenedOK, OpeningOK, NamesOK, CurrentOK, Next
    PROVE  NamesOK'
<1>1. CASE Steady
  <2>1. Opened' = Opened /\ Opened \subseteq Session
    BY <1>1, OpenedSteady DEF Opened
  <2>2. \A s \in Opened : /\ sess'[s].name = sess[s].name
                          /\ sess'[s].a # "closed" => sess[s].a # "closed"
    BY <1>1, <2>1 DEF Steady, SteadySession, KeepsId
  <2>3. \A s \in Opened' : sess'[s].a # "closed" => sess'[s].name <= nextId'
    BY <1>1, <2>1, <2>2 DEF NamesOK, Steady, Opened
  <2>4. \A r, s \in Opened' :
           sess'[r].a # "closed" /\ sess'[s].a # "closed" /\ sess'[r].name = sess'[s].name => r = s
    BY <2>1, <2>2 DEF NamesOK
  <2>5. ASSUME NEW e \in grpc', NEW x \in {e.main, e.sibling} \ {None}
        PROVE  sess'[x].name = e.name
    <3>1. CASE e \in grpc
      <4>1. x \in Opened /\ sess[x].name = e.name
        BY <3>1 DEF OpenedOK, NamesOK
      <4>2. QED
        BY <2>2, <4>1
    <3>2. CASE \E s \in Opened : /\ e.name = sess[s].name
                                 /\ \A y \in {e.main, e.sibling} : y = None \/ Known(s, y)
      <4>1. PICK s \in Opened : e.name = sess[s].name /\ Known(s, x)
        BY <3>2
      <4>2. x \in Opened /\ sess[x].name = sess[s].name
        BY <4>1 DEF Known, Entry, OpenedOK, NamesOK
      <4>3. QED
        BY <2>2, <4>1, <4>2
    <3>3. QED
      BY <1>1, <3>1, <3>2 DEF Steady, SteadyEntries
  <2>6. QED
    BY <2>3, <2>4, <2>5 DEF NamesOK
<1>2. ASSUME NEW t \in Task, OpensSession(t) PROVE NamesOK'
  <2> DEFINE s == Cardinality(Opened) + 1
  <2>1. s \notin Opened /\ s \in Session /\ Opened' = Opened \cup {s}
    BY <1>2, OpenedGrows
  <2>2. /\ OnlySession(s) /\ sess'[s].name = nextId + 1
        /\ nextId' = nextId + 1 /\ UNCHANGED grpc
    BY <1>2 DEF OpensSession, Opens
  <2> HIDE DEF s
  <2>3. nextId \in Nat /\ \A r \in Opened : r \in Session /\ sess'[r] = sess[r] /\ sess[r].name \in Nat
    BY <2>1, <2>2 DEF TypeOK, SessionRec, OnlySession, Opened
  <2>4. \A r \in Opened' : sess'[r].a # "closed" => sess'[r].name <= nextId'
    <3>1. \A r \in Opened : sess[r].a # "closed" => sess[r].name <= nextId
      BY DEF NamesOK
    <3>2. QED
      BY <2>1, <2>2, <2>3, <3>1
  <2>5. \A r, x \in Opened' :
           sess'[r].a # "closed" /\ sess'[x].a # "closed" /\ sess'[r].name = sess'[x].name => r = x
    <3>1. \A r \in Opened : sess[r].a # "closed" => sess[r].name # nextId + 1
      BY <2>3 DEF NamesOK
    <3>2. \A r, x \in Opened :
             sess[r].a # "closed" /\ sess[x].a # "closed" /\ sess[r].name = sess[x].name => r = x
      BY DEF NamesOK
    <3>3. QED
      BY <2>1, <2>2, <2>3, <3>1, <3>2
  <2>6. \A e \in grpc' : \A x \in {e.main, e.sibling} \ {None} : sess'[x].name = e.name
    <3>1. \A e \in grpc : \A x \in {e.main, e.sibling} \ {None} : x \in Opened /\ sess[x].name = e.name
      BY DEF OpenedOK, NamesOK
    <3>2. QED
      BY <2>2, <2>3, <3>1
  <2>7. QED
    BY <2>4, <2>5, <2>6 DEF NamesOK
<1>3. QED
  BY <1>1, <1>2, SteadyStep

LEMMA PairedStep ==
    ASSUME TypeOK, TasksOK, OpenedOK, OpeningOK, NamesOK, PairedStreams, CurrentOK, Next
    PROVE  PairedStreams'
<1>1. CASE Steady
  <2> SUFFICES ASSUME NEW s \in Session, NEW x \in sess'[s].streams
               PROVE  x = s \/ sess'[x].a = "closed"
    BY DEF PairedStreams
  <2>1. SteadySession(s) /\ \A r \in Session : sess[r].a = "closed" => sess'[r].a = "closed"
    BY <1>1 DEF Steady, SteadySession
  <2>2. CASE sess'[s].streams = sess[s].streams
    <3>1. x \in Session /\ (x = s \/ sess[x].a = "closed")
      BY <2>2 DEF PairedStreams, TypeOK, SessionRec
    <3>2. QED
      BY <2>1, <3>1
  <2>3. CASE sess[s].a = "opening" /\ x \in Session /\ Known(s, x)
    <3> SUFFICES ASSUME x # s, sess[x].a # "closed" PROVE FALSE
      BY <2>1, <2>3
    <3>1. PICK e \in grpc : e.name = sess[s].name /\ x \in {e.main, e.sibling}
      BY <2>3 DEF Known, Entry
    <3>2. x # None
      BY <2>3 DEF Session, None
    <3>3. x \in Opened /\ sess[x].name = sess[s].name
      BY <3>1, <3>2 DEF OpenedOK, NamesOK
    <3>4. s \in Opened
      BY <2>3 DEF Opened
    <3>5. QED
      BY <2>3, <3>3, <3>4 DEF NamesOK
  <2>4. QED
    BY <2>1, <2>2, <2>3 DEF SteadySession
<1>2. ASSUME NEW t \in Task, OpensSession(t) PROVE PairedStreams'
  <2> DEFINE s == Cardinality(Opened) + 1
  <2>1. s \notin Opened /\ s \in Session
    BY <1>2, OpenedGrows
  <2>2. OnlySession(s) /\ sess'[s].streams = {}
    BY <1>2 DEF OpensSession, Opens
  <2> HIDE DEF s
  <2>3. \A r \in Session : sess[r].a = "closed" => sess'[r].a = "closed"
    BY <2>1, <2>2 DEF OnlySession, Opened
  <2>4. \A r \in Session : sess'[r].streams \subseteq sess[r].streams /\ sess[r].streams \subseteq Session
    BY <2>2 DEF OnlySession, TypeOK, SessionRec
  <2>5. QED
    BY <2>3, <2>4 DEF PairedStreams
<1>3. QED
  BY <1>1, <1>2, SteadyStep

-----------------------------------------------------------------------------
(* What a step does to a daemon's jobs and to what is charged.             *)

\* Channel c of daemon d is left with what is charged to it; new parameters
\* count for the largest cap, and it is disabled only without a job.
ChannelKept(d, c) ==
    /\ ch'[d][c].est = ch[d][c].est
    /\ ch'[d][c].params = ch[d][c].params \/ ch'[d][c].params <= peak'[d].cap[c]
    /\ ~ch'[d][c].enabled =>
          \/ /\ ~ch[d][c].enabled
             /\ \A i \in Target : ch'[d][c].nodes[i] \in {ch[d][c].nodes[i], None}
          \/ c \notin BusyChans(d) /\ \A i \in Target : ch'[d][c].nodes[i] = None

\* The job of owner o is charged to channel c.
Charged(d, c, o) ==
    /\ ch[d][c].enabled /\ ch'[d][c].enabled /\ ch'[d][c].params = ch[d][c].params
    /\ \E j \in jobs[d] : j.owner = o /\ j.chan = c /\ ch'[d][c].est = ch[d][c].est + j.planned

JobsKept(d) == jobs'[d] = jobs[d] /\ \A c \in Chan : ChannelKept(d, c)

\* A job begins under the conditions of MayBegin and Admits.
JobBegins(d, j) ==
    /\ j \in JobRec /\ jobs'[d] = jobs[d] \cup {j}
    /\ \A c \in Chan : ch'[d][c] = ch[d][c]
    /\ ch[d][j.chan].enabled /\ j.chan \notin BusyChans(d)
    /\ Cardinality(jobs[d]) < peak[d].workers
    /\ CapAllows(d, j.chan, j.planned)

\* The job of owner o ends, charged or not.
JobEnds(d, o) ==
    /\ jobs'[d] = {j \in jobs[d] : j.owner # o}
    /\ \A c \in Chan : ChannelKept(d, c) \/ Charged(d, c, o)

JobsLost(d) == jobs'[d] = {} /\ \A c \in Chan : ChannelKept(d, c)

JobStep(d) ==
    /\ peak[d].workers <= peak'[d].workers
    /\ \A c \in Chan : peak[d].cap[c] <= peak'[d].cap[c]
    /\ \/ JobsKept(d) \/ JobsLost(d)
       \/ \E j : JobBegins(d, j)
       \/ \E o : JobEnds(d, o)

LEMMA ChannelSame ==
    ASSUME NEW d \in Daemon, NEW c \in Chan, ch'[d][c] = ch[d][c]
    PROVE  ChannelKept(d, c)
BY DEF ChannelKept

\* A step that raises no largest value.
LEMMA PeakSame ==
    ASSUME TypeOK, UNCHANGED peak, NEW d \in Daemon,
           JobsKept(d) \/ JobsLost(d) \/ (\E j : JobBegins(d, j)) \/ (\E o : JobEnds(d, o))
    PROVE  JobStep(d)
<1>1. peak[d].workers \in Nat /\ \A c \in Chan : peak[d].cap[c] \in Nat
  BY DEF TypeOK, PeakRec
<1>2. QED
  BY <1>1 DEF JobStep

LEMMA JobsSame ==
    ASSUME TypeOK, UNCHANGED peak, NEW d \in Daemon, jobs'[d] = jobs[d],
           \A c \in Chan : ch'[d][c] = ch[d][c]
    PROVE  JobStep(d)
BY ChannelSame, PeakSame DEF JobsKept

LEMMA NothingBegins ==
    ASSUME TypeOK, UNCHANGED <<ch, jobs, peak>> PROVE \A d \in Daemon : JobStep(d)
BY JobsSame

\* A refused task or session does nothing to the jobs, an accepted one adds
\* its own.
LEMMA AddJob ==
    ASSUME TypeOK, UNCHANGED <<ch, peak>>, NEW d \in Daemon, NEW j \in JobRec,
           jobs' = [jobs EXCEPT ![d] = @ \cup {j}],
           ch[d][j.chan].enabled, j.chan \notin BusyChans(d),
           Cardinality(jobs[d]) < peak[d].workers, CapAllows(d, j.chan, j.planned)
    PROVE  \A e \in Daemon : JobStep(e)
<1>1. jobs'[d] = jobs[d] \cup {j} /\ \A e \in Daemon \ {d} : jobs'[e] = jobs[e]
  BY DEF TypeOK
<1>2. JobStep(d)
  BY <1>1, PeakSame DEF JobBegins
<1>3. QED
  BY <1>1, <1>2, JobsSame

LEMMA RemoveJob ==
    ASSUME TypeOK, UNCHANGED peak, NEW d \in Daemon, NEW o,
           jobs'[d] = {j \in jobs[d] : j.owner # o},
           \A c \in Chan : ChannelKept(d, c) \/ Charged(d, c, o),
           \A e \in Daemon \ {d} : jobs'[e] = jobs[e],
           \A e \in Daemon \ {d}, c \in Chan : ch'[e][c] = ch[e][c]
    PROVE  \A e \in Daemon : JobStep(e)
<1>1. JobStep(d)
  BY PeakSame DEF JobEnds
<1>2. QED
  BY <1>1, JobsSame

\* What was planned for the command Bob is at.
LEMMA CurrentType ==
    ASSUME TypeOK, CurrentOK, NEW s \in Session, sess[s].b \in {"admit", "run"}
    PROVE  Current(s).planned \in Nat
<1>1. sess[s].cmds \in Seq(Cmd) /\ sess[s].cmds # <<>>
  BY DEF CurrentOK, Arrived, TypeOK, SessionRec
<1>2. Head(sess[s].cmds) \in Cmd
  BY <1>1
<1>3. QED
  BY <1>2 DEF Current, Cmd

\* Every step keeps, begins, ends or loses jobs under these conditions.
LEMMA JobStepHolds ==
    ASSUME TypeOK, TasksOK, OpenedOK, CurrentOK, AliceJobsOK, BobJobsOK, LimitsOK, Next
    PROVE  \A d \in Daemon : JobStep(d)
<1> DEFINE Goal == \A d \in Daemon : JobStep(d)
<1>1. ASSUME NEW t \in Task, NEW c \in Chan, Schedule(t, c) PROVE Goal
  BY <1>1, NothingBegins DEF Schedule, bounds
<1>2. ASSUME NEW t \in Task, PeerFrontier(t) PROVE Goal
  BY <1>2, NothingBegins DEF PeerFrontier, bounds
<1>3. ASSUME NEW t \in Task, FetchFrontier(t) PROVE Goal
  BY <1>3, NothingBegins DEF FetchFrontier, bounds
<1>4. ASSUME NEW t \in Task, Reconcile(t) PROVE Goal
  <2> DEFINE c == tasks[t].chan
  <2>1. /\ OnlyChannel("alice", c) /\ c \in Chan
        /\ ch'["alice"][c].enabled = ch["alice"][c].enabled
        /\ ch'["alice"][c].params = ch["alice"][c].params
        /\ ch'["alice"][c].est = ch["alice"][c].est
        /\ \A i \in Target : ch'["alice"][c].nodes[i] \in {ch["alice"][c].nodes[i], None}
    BY <1>4, ReconcileChannels
  <2> HIDE DEF c
  <2>2. ChannelKept("alice", c)
    BY <2>1 DEF ChannelKept
  <2>3. \A d \in Daemon, x \in Chan : ChannelKept(d, x)
    BY <2>1, <2>2, ChannelSame DEF OnlyChannel
  <2>4. QED
    BY <1>4, <2>3, PeakSame DEF Reconcile, JobsKept, bounds
<1>5. ASSUME NEW t \in Task, ChooseTarget(t) PROVE Goal
  BY <1>5, NothingBegins DEF ChooseTarget, bounds
<1>6. ASSUME NEW t \in Task, SessionHandle(t) PROVE Goal
  BY <1>6, NothingBegins DEF SessionHandle, bounds
<1>7. ASSUME NEW t \in Task, OpenStream(t) PROVE Goal
  BY <1>7, NothingBegins DEF OpenStream, bounds
<1>8. ASSUME NEW t \in Task, SetUp(t) PROVE Goal
  BY <1>8, NothingBegins DEF SetUp, bounds
<1>9. ASSUME NEW t \in Task, SetUpFails(t) PROVE Goal
  BY <1>9, NothingBegins DEF SetUpFails, bounds
<1>10. ASSUME NEW t \in Task, CallFails(t) PROVE Goal
  BY <1>10, NothingBegins DEF CallFails, bounds
<1>11. ASSUME NEW t \in Task, Plan(t) PROVE Goal
  BY <1>11, NothingBegins DEF Plan, bounds
<1>12. ASSUME NEW t \in Task, SessionStopped(t) PROVE Goal
  BY <1>12, NothingBegins DEF SessionStopped, bounds
<1>13. ASSUME NEW t \in Task, BeginJob(t) PROVE Goal
  <2> DEFINE j == [chan |-> tasks[t].chan, owner |-> t, planned |-> tasks[t].planned]
  <2>1. CASE MayBegin(t)
    <3>1. jobs' = [jobs EXCEPT !["alice"] = @ \cup {j}] /\ UNCHANGED <<ch, peak>>
      BY <1>13, <2>1 DEF BeginJob, bounds
    <3>2. tasks[t].chan \in Chan /\ tasks[t].planned \in Nat /\ "alice" \in Daemon
      BY <1>13 DEF BeginJob, TasksOK, TypeOK, TaskRec, Daemon
    <3>3. j \in JobRec /\ j.chan = tasks[t].chan /\ j.planned = tasks[t].planned
      BY <3>2 DEF JobRec
    <3>4. Cardinality(jobs["alice"]) < peak["alice"].workers
      <4>1. Cardinality(jobs["alice"]) \in Nat
        BY <3>2, FS_CardinalityType DEF LimitsOK
      <4>2. tasks[t].limit \in Nat /\ peak["alice"].workers \in Nat
        BY <3>2 DEF TypeOK, TaskRec, PeakRec
      <4>3. Cardinality(jobs["alice"]) < tasks[t].limit /\ tasks[t].limit <= peak["alice"].workers
        BY <2>1 DEF MayBegin, LimitsOK
      <4>4. QED
        BY <4>1, <4>2, <4>3
    <3>5. /\ ch["alice"][j.chan].enabled /\ j.chan \notin BusyChans("alice")
          /\ CapAllows("alice", j.chan, j.planned)
      BY <2>1, <3>3 DEF MayBegin
    <3> HIDE DEF j
    <3>6. QED
      BY <3>1, <3>2, <3>3, <3>4, <3>5, AddJob
  <2>2. CASE ~MayBegin(t)
    BY <1>13, <2>2, NothingBegins DEF BeginJob, bounds
  <2>3. QED
    BY <2>1, <2>2
<1>14. ASSUME NEW t \in Task, SendTarget(t) PROVE Goal
  BY <1>14, NothingBegins DEF SendTarget, bounds
<1>15. ASSUME NEW t \in Task, RunDone(t) PROVE Goal
  BY <1>15, NothingBegins DEF RunDone, bounds
<1>16. ASSUME NEW t \in Task, RunFails(t) PROVE Goal
  BY <1>16, NothingBegins DEF RunFails, bounds
<1>17. ASSUME NEW t \in Task, StoreTarget(t) PROVE Goal
  <2> DEFINE c == tasks[t].chan
             n == tasks[t].planned
  <2>1. CASE ch["alice"][c].enabled
    <3>1. c \in Chan /\ n \in Nat
          /\ \E j \in jobs["alice"] : j.owner = t /\ j.chan = c /\ j.planned = n
      <4>1. [chan |-> c, owner |-> t, planned |-> n] \in jobs["alice"]
        BY <1>17 DEF StoreTarget, AliceJobsOK, WithJob
      <4>2. QED
        BY <1>17, <4>1 DEF StoreTarget, TypeOK, TasksOK, TaskRec
    <3>2. StoreNode("alice", c, tasks[t].target, t, n) /\ UNCHANGED peak /\ "alice" \in Daemon
      BY <1>17, <2>1 DEF StoreTarget, bounds, Daemon
    <3> HIDE DEF c, n
    <3>3. /\ OnlyChannel("alice", c)
          /\ ch'["alice"][c].enabled = ch["alice"][c].enabled
          /\ ch'["alice"][c].params = ch["alice"][c].params
          /\ ch'["alice"][c].est = ch["alice"][c].est + n
          /\ jobs'["alice"] = {j \in jobs["alice"] : j.owner # t}
          /\ \A e \in Daemon \ {"alice"} : jobs'[e] = jobs[e]
      BY <3>1, <3>2, StoreNodeEffect
    <3>4. Charged("alice", c, t)
      BY <2>1, <3>1, <3>3 DEF Charged
    <3>5. \A x \in Chan : ChannelKept("alice", x) \/ Charged("alice", x, t)
      BY <3>2, <3>3, <3>4, ChannelSame DEF OnlyChannel
    <3>6. \A e \in Daemon \ {"alice"}, x \in Chan : ch'[e][x] = ch[e][x]
      BY <3>3 DEF OnlyChannel
    <3>7. QED
      BY <3>2, <3>3, <3>5, <3>6, RemoveJob
  <2>2. CASE ~ch["alice"][c].enabled
    BY <1>17, <2>2, NothingBegins DEF StoreTarget, bounds
  <2>3. QED
    BY <2>1, <2>2
<1>18. ASSUME NEW t \in Task, FinishTask(t) PROVE Goal
  <2>1. /\ "alice" \in Daemon /\ UNCHANGED <<ch, peak>>
        /\ jobs' = [jobs EXCEPT !["alice"] = {j \in @ : j.owner # t}]
    BY <1>18 DEF FinishTask, bounds, Daemon
  <2>2. /\ jobs'["alice"] = {j \in jobs["alice"] : j.owner # t}
        /\ \A e \in Daemon \ {"alice"} : jobs'[e] = jobs[e]
    BY <2>1 DEF TypeOK
  <2>3. QED
    BY <2>1, <2>2, ChannelSame, RemoveJob
<1>19. ASSUME NEW s \in Session, RecordHandle(s) PROVE Goal
  BY <1>19, NothingBegins DEF RecordHandle, bounds
<1>20. ASSUME NEW s \in Session, BeginIncomingSession(s) PROVE Goal
  BY <1>20, NothingBegins DEF BeginIncomingSession, bounds
<1>21. ASSUME NEW s \in Session, RecvTarget(s) PROVE Goal
  BY <1>21, NothingBegins DEF RecvTarget, bounds
<1>22. ASSUME NEW s \in Session, BeginIncomingTarget(s) PROVE Goal
  <2> DEFINE j == [chan |-> sess[s].chan, owner |-> s, planned |-> Current(s).planned]
  <2>1. CASE Admits(s)
    <3>1. jobs' = [jobs EXCEPT !["bob"] = @ \cup {j}] /\ UNCHANGED <<ch, peak>>
      BY <1>22, <2>1 DEF BeginIncomingTarget, bounds
    <3>2. sess[s].chan \in Chan /\ Current(s).planned \in Nat /\ "bob" \in Daemon
      BY <1>22, CurrentType DEF BeginIncomingTarget, OpenedOK, Opened, Daemon
    <3>3. j \in JobRec /\ j.chan = sess[s].chan /\ j.planned = Current(s).planned
      BY <3>2 DEF JobRec
    <3>4. Cardinality(jobs["bob"]) < peak["bob"].workers
      <4>1. Cardinality(jobs["bob"]) \in Nat
        BY <3>2, FS_CardinalityType DEF LimitsOK
      <4>2. sess[s].limit \in Nat /\ peak["bob"].workers \in Nat
        BY <3>2 DEF TypeOK, SessionRec, PeakRec
      <4>3. Cardinality(jobs["bob"]) < sess[s].limit /\ sess[s].limit <= peak["bob"].workers
        BY <2>1 DEF Admits, LimitsOK
      <4>4. QED
        BY <4>1, <4>2, <4>3
    <3>5. /\ ch["bob"][j.chan].enabled /\ j.chan \notin BusyChans("bob")
          /\ CapAllows("bob", j.chan, j.planned)
      BY <2>1, <3>3 DEF Admits
    <3> HIDE DEF j
    <3>6. QED
      BY <3>1, <3>2, <3>3, <3>4, <3>5, AddJob
  <2>2. CASE ~Admits(s)
    BY <1>22, <2>2, NothingBegins DEF BeginIncomingTarget, bounds
  <2>3. QED
    BY <2>1, <2>2
<1>23. ASSUME NEW s \in Session, IncomingStore(s) PROVE Goal
  <2> DEFINE c == sess[s].chan
             n == Current(s).planned
  <2>1. CASE ch["bob"][c].enabled
    <3>1. c \in Chan /\ n \in Nat
          /\ \E j \in jobs["bob"] : j.owner = s /\ j.chan = c /\ j.planned = n
      BY <1>23, CurrentType DEF IncomingStore, OpenedOK, Opened, BobJobsOK
    <3>2. StoreNode("bob", c, Current(s).target, s, n) /\ UNCHANGED peak /\ "bob" \in Daemon
      BY <1>23, <2>1 DEF IncomingStore, bounds, Daemon
    <3> HIDE DEF c, n
    <3>3. /\ OnlyChannel("bob", c)
          /\ ch'["bob"][c].enabled = ch["bob"][c].enabled
          /\ ch'["bob"][c].params = ch["bob"][c].params
          /\ ch'["bob"][c].est = ch["bob"][c].est + n
          /\ jobs'["bob"] = {j \in jobs["bob"] : j.owner # s}
          /\ \A e \in Daemon \ {"bob"} : jobs'[e] = jobs[e]
      BY <3>1, <3>2, StoreNodeEffect
    <3>4. Charged("bob", c, s)
      BY <2>1, <3>1, <3>3 DEF Charged
    <3>5. \A x \in Chan : ChannelKept("bob", x) \/ Charged("bob", x, s)
      BY <3>2, <3>3, <3>4, ChannelSame DEF OnlyChannel
    <3>6. \A e \in Daemon \ {"bob"}, x \in Chan : ch'[e][x] = ch[e][x]
      BY <3>3 DEF OnlyChannel
    <3>7. QED
      BY <3>2, <3>3, <3>5, <3>6, RemoveJob
  <2>2. CASE ~ch["bob"][c].enabled
    BY <1>23, <2>2, NothingBegins DEF IncomingStore, bounds
  <2>3. QED
    BY <2>1, <2>2
<1>24. ASSUME NEW s \in Session, IncomingFails(s) PROVE Goal
  BY <1>24, NothingBegins DEF IncomingFails, bounds
<1>25. ASSUME NEW s \in Session, IncomingFinish(s) PROVE Goal
  <2>1. /\ "bob" \in Daemon /\ UNCHANGED <<ch, peak>>
        /\ jobs' = [jobs EXCEPT !["bob"] = {j \in @ : j.owner # s}]
    BY <1>25 DEF IncomingFinish, bounds, Daemon
  <2>2. /\ jobs'["bob"] = {j \in jobs["bob"] : j.owner # s}
        /\ \A e \in Daemon \ {"bob"} : jobs'[e] = jobs[e]
    BY <2>1 DEF TypeOK
  <2>3. QED
    BY <2>1, <2>2, ChannelSame, RemoveJob
<1>26. ASSUME NEW s \in Session, Unregister(s) PROVE Goal
  BY <1>26, NothingBegins DEF Unregister, bounds
<1>27. ASSUME NEW s \in Session, LoopEnds(s) PROVE Goal
  BY <1>27, NothingBegins DEF LoopEnds, bounds
<1>28. ASSUME NEW d \in Daemon, NEW w \in WorkerCounts, SetConfig(d, w) PROVE Goal
  <2>1. UNCHANGED <<ch, jobs>>
    BY <1>28 DEF SetConfig
  <2>2. \A e \in Daemon : JobsKept(e)
    BY <2>1, ChannelSame DEF JobsKept
  <2>3. ASSUME NEW e \in Daemon PROVE JobStep(e)
    <3>1. \A x \in Chan : peak[e].cap[x] \in Nat
      BY DEF TypeOK, PeakRec
    <3>2. peak[e].workers <= peak'[e].workers /\ peak'[e].cap = peak[e].cap
      BY <1>28, SetConfigEffect
    <3>3. QED
      BY <2>2, <3>1, <3>2 DEF JobStep
  <2>4. QED
    BY <2>3
<1>29. ASSUME NEW d \in Daemon, NEW c \in Chan, NEW p \in Params,
            EnableChannel(d, c, p)
      PROVE  Goal
  <2>1. UNCHANGED jobs
    BY <1>29 DEF EnableChannel
  <2>2. ChannelKept(d, c)
    BY <1>29, EnableEffect DEF ChannelKept
  <2>3. \A e \in Daemon : JobsKept(e)
    BY <1>29, <2>1, <2>2, EnableEffect, ChannelSame DEF JobsKept, OnlyChannel
  <2>4. ASSUME NEW e \in Daemon PROVE JobStep(e)
    <3>1. peak[e].workers \in Nat
      BY DEF TypeOK, PeakRec
    <3>2. peak'[e].workers = peak[e].workers /\ \A x \in Chan : peak[e].cap[x] <= peak'[e].cap[x]
      BY <1>29, EnableEffect
    <3>3. QED
      BY <2>3, <3>1, <3>2 DEF JobStep
  <2>5. QED
    BY <2>4
<1>30. ASSUME NEW d \in Daemon, NEW c \in Chan, DisableChannel(d, c) PROVE Goal
  <2>1. UNCHANGED <<jobs, peak>>
    BY <1>30 DEF DisableChannel
  <2>2. ChannelKept(d, c)
    BY <1>30, DisableEffect DEF ChannelKept
  <2>3. \A e \in Daemon : JobsKept(e)
    BY <1>30, <2>1, <2>2, DisableEffect, ChannelSame DEF JobsKept, OnlyChannel
  <2>4. QED
    BY <2>1, <2>3, PeakSame
<1>31. ASSUME NEW d \in Daemon, NEW c \in Chan, DisableDrops(d, c) PROVE Goal
  BY <1>31, NothingBegins DEF DisableDrops, bounds
<1>32. ASSUME RestartAlice PROVE Goal
  <2>1. UNCHANGED <<ch, peak>> /\ jobs' = [jobs EXCEPT !["alice"] = {}]
    BY <1>32 DEF RestartAlice
  <2>2. jobs'["alice"] = {} /\ \A e \in Daemon \ {"alice"} : jobs'[e] = jobs[e]
    BY <2>1 DEF TypeOK, Daemon
  <2>3. \A e \in Daemon : JobsKept(e) \/ JobsLost(e)
    BY <2>1, <2>2, ChannelSame DEF JobsKept, JobsLost
  <2>4. QED
    BY <2>1, <2>3, PeakSame
<1>33. ASSUME RestartBob PROVE Goal
  <2>1. UNCHANGED <<ch, peak>> /\ jobs' = [jobs EXCEPT !["bob"] = {}]
    BY <1>33 DEF RestartBob
  <2>2. jobs'["bob"] = {} /\ \A e \in Daemon \ {"bob"} : jobs'[e] = jobs[e]
    BY <2>1 DEF TypeOK, Daemon
  <2>3. \A e \in Daemon : JobsKept(e) \/ JobsLost(e)
    BY <2>1, <2>2, ChannelSame DEF JobsKept, JobsLost
  <2>4. QED
    BY <2>1, <2>3, PeakSame
<1> QED
  BY <1>1, <1>2, <1>3, <1>4, <1>5, <1>6, <1>7, <1>8, <1>9, <1>10, <1>11, <1>12, <1>13,
     <1>14, <1>15, <1>16, <1>17, <1>18, <1>19, <1>20, <1>21, <1>22, <1>23, <1>24,
     <1>25, <1>26, <1>27, <1>28, <1>29, <1>30, <1>31, <1>32, <1>33 DEF Next, TaskStep,
     SessionStep

\* At most one job of a channel at a time.
LEMMA OneJobStep ==
    ASSUME OneJobPerChannel, \A d \in Daemon : JobStep(d) PROVE OneJobPerChannel'
<1> SUFFICES ASSUME NEW d \in Daemon, NEW j \in jobs'[d], NEW k \in jobs'[d], j.chan = k.chan
             PROVE  j = k
  BY DEF OneJobPerChannel
<1>1. CASE jobs'[d] \subseteq jobs[d]
  BY <1>1 DEF OneJobPerChannel
<1>2. ASSUME NEW n, JobBegins(d, n) PROVE j = k
  <2>1. \A i \in jobs[d] : i.chan # n.chan
    BY <1>2 DEF JobBegins, BusyChans
  <2>2. QED
    BY <1>2, <2>1 DEF JobBegins, OneJobPerChannel
<1>3. QED
  BY <1>1, <1>2 DEF JobStep, JobsKept, JobsLost, JobEnds

\* No more jobs than workers were ever configured.
LEMMA WorkersStep ==
    ASSUME TypeOK, TypeOK', LimitsOK, NEW d \in Daemon, JobStep(d)
    PROVE  IsFiniteSet(jobs'[d]) /\ Cardinality(jobs'[d]) <= peak'[d].workers
<1>1. IsFiniteSet(jobs[d]) /\ Cardinality(jobs[d]) <= peak[d].workers
  BY DEF LimitsOK
<1>2. peak[d].workers \in Nat /\ peak'[d].workers \in Nat /\ peak[d].workers <= peak'[d].workers
  BY DEF TypeOK, PeakRec, JobStep
<1>3. Cardinality(jobs[d]) \in Nat
  BY <1>1, FS_CardinalityType
<1>4. CASE jobs'[d] \subseteq jobs[d]
  <2>1. IsFiniteSet(jobs'[d]) /\ Cardinality(jobs'[d]) <= Cardinality(jobs[d])
    BY <1>1, <1>4, FS_Subset
  <2>2. Cardinality(jobs'[d]) \in Nat
    BY <2>1, FS_CardinalityType
  <2>3. QED
    BY <1>1, <1>2, <1>3, <2>1, <2>2
<1>5. ASSUME NEW j, JobBegins(d, j)
      PROVE  IsFiniteSet(jobs'[d]) /\ Cardinality(jobs'[d]) <= peak'[d].workers
  <2>1. jobs'[d] = jobs[d] \cup {j} /\ Cardinality(jobs[d]) < peak[d].workers
    BY <1>5 DEF JobBegins
  <2>2. /\ IsFiniteSet(jobs'[d])
        /\ Cardinality(jobs'[d]) \in {Cardinality(jobs[d]), Cardinality(jobs[d]) + 1}
    BY <1>1, <2>1, FS_AddElement
  <2>3. QED
    BY <1>2, <1>3, <2>1, <2>2
<1>6. QED
  BY <1>4, <1>5 DEF JobStep, JobsKept, JobsLost, JobEnds

\* A job that begins has the whole of its channel's cap before it, and the
\* units of one that ends were within the cap already.
LEMMA CapStep ==
    ASSUME TypeOK, TypeOK', OneJobPerChannel, CapOK, \A d \in Daemon : JobStep(d)
    PROVE  CapOK'
<1> SUFFICES ASSUME NEW d \in Daemon, NEW c \in Chan
             PROVE  /\ ch'[d][c].params <= peak'[d].cap[c]
                    /\ ch'[d][c].est <= peak'[d].cap[c]
                    /\ \A j \in jobs'[d] : j.chan = c => ch'[d][c].est + j.planned <= peak'[d].cap[c]
  BY DEF CapOK
<1> DEFINE P == ch[d][c].params
           E == ch[d][c].est
           C == peak[d].cap[c]
           Q == ch'[d][c].params
           F == ch'[d][c].est
           D == peak'[d].cap[c]
<1>1. P \in Nat /\ E \in Nat /\ C \in Nat /\ Q \in Nat /\ F \in Nat /\ D \in Nat
  <2>1. ch[d][c] \in ChannelRec /\ ch'[d][c] \in ChannelRec /\ peak[d] \in PeakRec /\ peak'[d] \in PeakRec
    BY DEF TypeOK
  <2>2. QED
    BY <2>1 DEF ChannelRec, PeakRec
<1>2. C <= D /\ P <= C /\ E <= C
  BY DEF JobStep, CapOK
<1>3. \A j \in jobs[d] : j.planned \in Nat /\ (j.chan = c => E + j.planned <= C)
  BY DEF TypeOK, JobRec, CapOK
<1>4. ASSUME ChannelKept(d, c), jobs'[d] \subseteq jobs[d]
      PROVE  Q <= D /\ F <= D /\ \A j \in jobs'[d] : j.chan = c => F + j.planned <= D
  <2>1. F = E /\ (Q = P \/ Q <= D)
    BY <1>4 DEF ChannelKept
  <2> HIDE DEF P, E, C, Q, F, D
  <2>2. QED
    BY <1>1, <1>2, <1>3, <1>4, <2>1
<1>5. ASSUME NEW j, JobBegins(d, j)
      PROVE  Q <= D /\ F <= D /\ \A k \in jobs'[d] : k.chan = c => F + k.planned <= D
  <2>1. Q = P /\ F = E /\ jobs'[d] = jobs[d] \cup {j} /\ j \in JobRec
    BY <1>5 DEF JobBegins
  <2>2. j.chan = c => E + j.planned <= P
    <3> SUFFICES ASSUME j.chan = c PROVE E + j.planned <= P
      OBVIOUS
    <3>1. \A k \in jobs[d] : k.chan # c
      BY <1>5 DEF JobBegins, BusyChans
    <3>2. Reserved(d, c) = 0
      BY <3>1, ReservedIs
    <3>3. E + Reserved(d, c) + j.planned <= P
      BY <1>5 DEF JobBegins, CapAllows
    <3>4. j.planned \in Nat
      BY <2>1 DEF JobRec
    <3> HIDE DEF P, E
    <3>5. QED
      BY <1>1, <3>2, <3>3, <3>4
  <2>3. j.planned \in Nat
    BY <2>1 DEF JobRec
  <2> HIDE DEF P, E, C, Q, F, D
  <2>4. QED
    BY <1>1, <1>2, <1>3, <2>1, <2>2, <2>3
<1>6. ASSUME NEW o, jobs'[d] = {j \in jobs[d] : j.owner # o}, Charged(d, c, o)
      PROVE  Q <= D /\ F <= D /\ \A k \in jobs'[d] : k.chan = c => F + k.planned <= D
  <2>1. PICK j \in jobs[d] : j.owner = o /\ j.chan = c /\ F = E + j.planned
    BY <1>6 DEF Charged
  <2>2. Q = P
    BY <1>6 DEF Charged
  <2>3. \A k \in jobs'[d] : k.chan # c
    BY <1>6, <2>1 DEF OneJobPerChannel
  <2> HIDE DEF P, E, C, Q, F, D
  <2>4. QED
    BY <1>1, <1>2, <1>3, <2>1, <2>2, <2>3
<1>7. QED
  BY <1>4, <1>5, <1>6 DEF JobStep, JobsKept, JobsLost, JobEnds

\* A channel is disabled without a job and begins none while it is.
LEMMA QuietStep ==
    ASSUME TypeOK, DisabledIsQuiet, \A d \in Daemon : JobStep(d) PROVE DisabledIsQuiet'
<1> SUFFICES ASSUME NEW d \in Daemon, NEW c \in Chan, ~ch'[d][c].enabled
             PROVE  (\A j \in jobs'[d] : j.chan # c) /\ \A i \in Target : ch'[d][c].nodes[i] = None
  BY DEF DisabledIsQuiet, BusyChans
<1>1. ~ch[d][c].enabled => /\ \A j \in jobs[d] : j.chan # c
                           /\ \A i \in Target : ch[d][c].nodes[i] = None
  BY DEF DisabledIsQuiet, BusyChans
<1>2. ASSUME ChannelKept(d, c), jobs'[d] \subseteq jobs[d]
      PROVE  (\A j \in jobs'[d] : j.chan # c) /\ \A i \in Target : ch'[d][c].nodes[i] = None
  BY <1>1, <1>2 DEF ChannelKept, BusyChans
<1>3. ASSUME NEW j, JobBegins(d, j)
      PROVE  (\A k \in jobs'[d] : k.chan # c) /\ \A i \in Target : ch'[d][c].nodes[i] = None
  BY <1>1, <1>3 DEF JobBegins
<1>4. QED
  BY <1>2, <1>3 DEF JobStep, JobsKept, JobsLost, JobEnds, Charged

-----------------------------------------------------------------------------
(* Alice's jobs, and the worker counts that were read.                     *)

\* A task has no limit, the one it had, or no more than the count it reads;
\* a worker count changes to one that counts for the largest.
TaskLimits ==
    \A t \in Task : tasks'[t].limit \in {0, tasks[t].limit} \/ tasks'[t].limit <= workers["alice"]
WorkersKept ==
    \A d \in Daemon : workers'[d] = workers[d] \/ workers'[d] <= peak'[d].workers

\* Tasks that only others change keep their jobs; one that goes on does if it
\* goes on with a job exactly when it had one.
LEMMA TasksSame ==
    ASSUME AliceJobsOK, UNCHANGED <<tasks, workers>>, jobs'["alice"] = jobs["alice"]
    PROVE  AliceJobsOK' /\ TaskLimits /\ WorkersKept
BY DEF AliceJobsOK, TaskLimits, WorkersKept

LEMMA TaskReturns ==
    ASSUME AliceJobsOK, NEW t \in Task, Returns(t), tasks[t].pc \notin WithJob,
           UNCHANGED workers, jobs'["alice"] = jobs["alice"]
    PROVE  AliceJobsOK' /\ TaskLimits /\ WorkersKept
<1>1. tasks'[t].pc \notin WithJob /\ tasks'[t].limit = 0 /\ \A u \in Task \ {t} : tasks'[u] = tasks[u]
  BY DEF Returns, OnlyTask, IdleTask, WithJob
<1>2. QED
  BY <1>1 DEF AliceJobsOK, TaskLimits, WorkersKept

LEMMA TaskMoves ==
    ASSUME AliceJobsOK, NEW t \in Task, NEW pc, Moves(t, pc), pc \in WithJob <=> tasks[t].pc \in WithJob,
           UNCHANGED workers, jobs'["alice"] = jobs["alice"]
    PROVE  AliceJobsOK' /\ TaskLimits /\ WorkersKept
<1>1. /\ \A u \in Task : tasks'[u].pc \in WithJob <=> tasks[u].pc \in WithJob
      /\ \A u \in Task : tasks'[u].chan = tasks[u].chan /\ tasks'[u].planned = tasks[u].planned
      /\ \A u \in Task : tasks'[u].limit = tasks[u].limit
  BY DEF Moves, OnlyTask
<1>2. QED
  BY <1>1 DEF AliceJobsOK, TaskLimits, WorkersKept

LEMMA TaskEndsJob ==
    ASSUME TypeOK, AliceJobsOK, NEW t \in Task, Returns(t),
           jobs'["alice"] = {j \in jobs["alice"] : j.owner # t}, UNCHANGED workers
    PROVE  AliceJobsOK' /\ TaskLimits /\ WorkersKept
<1>1. tasks'[t].pc \notin WithJob /\ tasks'[t].limit = 0 /\ \A u \in Task \ {t} : tasks'[u] = tasks[u]
  BY DEF Returns, OnlyTask, IdleTask, WithJob
<1>2. \A j \in jobs'["alice"] :
         j.owner \in Task /\ tasks'[j.owner].pc \in WithJob /\ tasks'[j.owner].chan = j.chan
  BY <1>1 DEF AliceJobsOK
<1>3. ASSUME NEW u \in Task, tasks'[u].pc \in WithJob
      PROVE  [chan |-> tasks'[u].chan, owner |-> u, planned |-> tasks'[u].planned] \in jobs'["alice"]
  BY <1>1, <1>3 DEF AliceJobsOK
<1>4. QED
  BY <1>1, <1>2, <1>3 DEF AliceJobsOK, TaskLimits, WorkersKept

LEMMA AliceJobsStep ==
    ASSUME TypeOK, TasksOK, OpenedOK, OpeningOK, AliceJobsOK, Next
    PROVE  AliceJobsOK' /\ TaskLimits /\ WorkersKept
<1> DEFINE Goal == AliceJobsOK' /\ TaskLimits /\ WorkersKept
<1>1. ASSUME NEW t \in Task, NEW c \in Chan, Schedule(t, c) PROVE Goal
  <2>1. /\ OnlyTask(t) /\ tasks[t].pc = "idle" /\ tasks'[t].pc = "peer" /\ tasks'[t].limit = 0
        /\ UNCHANGED <<jobs, workers>>
    BY <1>1, ScheduleEffect DEF Schedule, TypeOK, TaskTypes
  <2>2. QED
    BY <2>1 DEF AliceJobsOK, TaskLimits, WorkersKept, OnlyTask, WithJob
<1>2. ASSUME NEW t \in Task, PeerFrontier(t) PROVE Goal
  <2>1. UNCHANGED <<jobs, workers>> /\ tasks[t].pc \notin WithJob
    BY <1>2 DEF PeerFrontier, WithJob
  <2>2. Returns(t) \/ \E pc \in {"fetch"} : Moves(t, pc)
    BY <1>2, PeerFrontierEffect DEF GoesOn, Opening
  <2>3. QED
    BY <2>1, <2>2, TaskReturns, TaskMoves DEF WithJob
<1>3. ASSUME NEW t \in Task, FetchFrontier(t) PROVE Goal
  <2>1. UNCHANGED <<jobs, workers>> /\ tasks[t].pc \notin WithJob
    BY <1>3 DEF FetchFrontier, WithJob
  <2>2. Returns(t) \/ \E pc \in {"reconcile", "choose", "handle"} : Moves(t, pc)
    BY <1>3, FetchFrontierEffect DEF GoesOn, Opening
  <2>3. QED
    BY <2>1, <2>2, TaskReturns, TaskMoves DEF WithJob
<1>4. ASSUME NEW t \in Task, Reconcile(t) PROVE Goal
  <2>1. UNCHANGED <<jobs, workers>> /\ tasks[t].pc \notin WithJob
    BY <1>4 DEF Reconcile, WithJob
  <2>2. Returns(t) \/ \E pc \in {"choose", "handle"} : Moves(t, pc)
    BY <1>4, ReconcileEffect DEF GoesOn, Opening
  <2>3. QED
    BY <2>1, <2>2, TaskReturns, TaskMoves DEF WithJob
<1>5. ASSUME NEW t \in Task, ChooseTarget(t) PROVE Goal
  <2>1. UNCHANGED <<jobs, workers>> /\ tasks[t].pc \notin WithJob
    BY <1>5 DEF ChooseTarget, WithJob
  <2>2. Returns(t) \/ \E pc \in {"peer"} : Moves(t, pc)
    BY <1>5, ChooseTargetEffect DEF GoesOn, Opening
  <2>3. QED
    BY <2>1, <2>2, TaskReturns, TaskMoves DEF WithJob
<1>6. ASSUME NEW t \in Task, SessionHandle(t) PROVE Goal
  <2>1. UNCHANGED <<jobs, workers>> /\ tasks[t].pc \notin WithJob
    BY <1>6 DEF SessionHandle, WithJob
  <2>2. Returns(t) \/ \E pc \in {"plan", "main"} : Moves(t, pc)
    BY <1>6, SessionHandleEffect DEF GoesOn, Opening
  <2>3. QED
    BY <2>1, <2>2, TaskReturns, TaskMoves DEF WithJob
<1>7. ASSUME NEW t \in Task, OpenStream(t) PROVE Goal
  <2>1. UNCHANGED <<jobs, workers>> /\ tasks[t].pc \notin WithJob
    BY <1>7 DEF OpenStream, WithJob
  <2>2. Returns(t) \/ \E pc \in {"sibling", "setup"} : Moves(t, pc)
    BY <1>7, OpenStreamEffect DEF GoesOn, Opening
  <2>3. QED
    BY <2>1, <2>2, TaskReturns, TaskMoves DEF WithJob
<1>8. ASSUME NEW t \in Task, SetUp(t) PROVE Goal
  <2>1. UNCHANGED <<jobs, workers>> /\ tasks[t].pc \notin WithJob
    BY <1>8 DEF SetUp, WithJob
  <2>2. Returns(t) \/ \E pc \in {"plan"} : Moves(t, pc)
    BY <1>8, SetUpEffect DEF GoesOn, Opening
  <2>3. QED
    BY <2>1, <2>2, TaskReturns, TaskMoves DEF WithJob
<1>9. ASSUME NEW t \in Task, SetUpFails(t) PROVE Goal
  <2>1. UNCHANGED <<jobs, workers>> /\ tasks[t].pc \notin WithJob
    BY <1>9 DEF SetUpFails, WithJob
  <2>2. Returns(t)
    BY <1>9, RefuseEffect DEF SetUpFails, Opening
  <2>3. QED
    BY <2>1, <2>2, TaskReturns
<1>10. ASSUME NEW t \in Task, CallFails(t) PROVE Goal
  <2>1. UNCHANGED <<jobs, workers>> /\ tasks[t].pc \notin WithJob
    BY <1>10 DEF CallFails, WithJob
  <2>2. Returns(t) \/ \E pc \in {"end"} : Moves(t, pc)
    BY <1>10, CallFailsEffect DEF GoesOn, Opening
  <2>3. QED
    BY <2>1, <2>2, TaskReturns, TaskMoves DEF WithJob
<1>11. ASSUME NEW t \in Task, Plan(t) PROVE Goal
  <2>1. /\ OnlyTask(t) /\ tasks[t].pc = "plan" /\ tasks'[t].pc = "begin"
        /\ tasks'[t].limit <= workers["alice"] /\ UNCHANGED <<jobs, workers>>
    BY <1>11, PlanEffect DEF Plan
  <2>2. QED
    BY <2>1 DEF AliceJobsOK, TaskLimits, WorkersKept, OnlyTask, WithJob
<1>12. ASSUME NEW t \in Task, SessionStopped(t) PROVE Goal
  <2>1. UNCHANGED <<jobs, workers>>
    BY <1>12 DEF SessionStopped
  <2>2. \E pc \in {"end", "finish"} : Moves(t, pc) /\ (pc \in WithJob <=> tasks[t].pc \in WithJob)
    BY <1>12, SessionStoppedEffect DEF GoesOn, WithJob
  <2>3. QED
    BY <2>1, <2>2, TaskMoves
<1>13. ASSUME NEW t \in Task, BeginJob(t) PROVE Goal
  <2> DEFINE n == [chan |-> tasks[t].chan, owner |-> t, planned |-> tasks[t].planned]
  <2>1. TaskTypes /\ "alice" \in Daemon /\ tasks[t].pc = "begin" /\ UNCHANGED workers
    BY <1>13 DEF BeginJob, TypeOK, TaskTypes, Daemon
  <2>2. CASE MayBegin(t)
    <3>1. jobs' = [jobs EXCEPT !["alice"] = @ \cup {n}] /\ Goto(t, "compute")
      BY <1>13, <2>2 DEF BeginJob
    <3>2. jobs'["alice"] = jobs["alice"] \cup {n}
      BY <2>1, <3>1 DEF TypeOK
    <3>3. Moves(t, "compute")
      BY <2>1, <3>1, GotoEffect DEF GoesOn, TaskPc, WithJob
    <3>4. n.chan = tasks[t].chan /\ n.owner = t /\ n = [chan |-> tasks'[t].chan, owner |-> t, planned |-> tasks'[t].planned]
      BY <3>3 DEF Moves
    <3> HIDE DEF n
    <3>5. \A u \in Task : tasks'[u].pc \in WithJob =>
             [chan |-> tasks'[u].chan, owner |-> u, planned |-> tasks'[u].planned] \in jobs'["alice"]
      BY <3>2, <3>3, <3>4 DEF AliceJobsOK, Moves, OnlyTask
    <3>6. \A j \in jobs'["alice"] :
             j.owner \in Task /\ tasks'[j.owner].pc \in WithJob /\ tasks'[j.owner].chan = j.chan
      BY <2>1, <3>2, <3>3, <3>4 DEF AliceJobsOK, Moves, OnlyTask, WithJob
    <3>7. QED
      BY <2>1, <3>3, <3>5, <3>6 DEF AliceJobsOK, TaskLimits, WorkersKept, Moves, OnlyTask
  <2>3. CASE ~MayBegin(t)
    <3>1. UNCHANGED jobs /\ Returns(t)
      BY <1>13, <2>1, <2>3, EndEffect DEF BeginJob
    <3>2. QED
      BY <2>1, <3>1, TaskReturns DEF WithJob
  <2>4. QED
    BY <2>2, <2>3
<1>14. ASSUME NEW t \in Task, SendTarget(t) PROVE Goal
  <2>1. UNCHANGED <<jobs, workers>> /\ tasks[t].pc = "compute"
    BY <1>14 DEF SendTarget
  <2>2. Moves(t, "running")
    BY <1>14, SendTargetEffect DEF GoesOn
  <2>3. QED
    BY <2>1, <2>2, TaskMoves DEF WithJob
<1>15. ASSUME NEW t \in Task, RunDone(t) PROVE Goal
  <2>1. UNCHANGED <<jobs, workers>> /\ tasks[t].pc = "running"
    BY <1>15 DEF RunDone
  <2>2. Moves(t, "store")
    BY <1>15, RunDoneEffect DEF GoesOn
  <2>3. QED
    BY <2>1, <2>2, TaskMoves DEF WithJob
<1>16. ASSUME NEW t \in Task, RunFails(t) PROVE Goal
  BY <1>16, TasksSame DEF RunFails, aliceVars
<1>17. ASSUME NEW t \in Task, StoreTarget(t) PROVE Goal
  <2>1. /\ TaskTypes /\ "alice" \in Daemon /\ tasks[t].pc = "store" /\ UNCHANGED workers
        /\ tasks[t].chan \in Chan /\ tasks[t].planned \in Nat
    BY <1>17 DEF StoreTarget, TypeOK, TasksOK, TaskRec, TaskTypes, Daemon
  <2>2. CASE ch["alice"][tasks[t].chan].enabled
    <3>1. StoreNode("alice", tasks[t].chan, tasks[t].target, t, tasks[t].planned) /\ End(t)
      BY <1>17, <2>2 DEF StoreTarget
    <3>2. jobs'["alice"] = {j \in jobs["alice"] : j.owner # t} /\ Returns(t)
      BY <2>1, <3>1, EndEffect, StoreNodeEffect
    <3>3. QED
      BY <2>1, <3>2, TaskEndsJob
  <2>3. CASE ~ch["alice"][tasks[t].chan].enabled
    <3>1. Goto(t, "finish") /\ UNCHANGED jobs
      BY <1>17, <2>3 DEF StoreTarget
    <3>2. Moves(t, "finish")
      BY <2>1, <3>1, GotoEffect DEF GoesOn, TaskPc, WithJob
    <3>3. QED
      BY <2>1, <3>1, <3>2, TaskMoves DEF WithJob
  <2>4. QED
    BY <2>2, <2>3
<1>18. ASSUME NEW t \in Task, FinishTask(t) PROVE Goal
  <2>1. jobs' = [jobs EXCEPT !["alice"] = {j \in @ : j.owner # t}] /\ UNCHANGED workers
    BY <1>18 DEF FinishTask
  <2>2. jobs'["alice"] = {j \in jobs["alice"] : j.owner # t}
    BY <2>1 DEF TypeOK, Daemon
  <2>3. Returns(t)
    BY <1>18, EndEffect DEF FinishTask, TypeOK, TaskTypes
  <2>4. QED
    BY <2>1, <2>2, <2>3, TaskEndsJob
<1>19. ASSUME NEW s \in Session, RecordHandle(s) PROVE Goal
  BY <1>19, TasksSame DEF RecordHandle, aliceVars
<1>20. ASSUME NEW s \in Session, BeginIncomingSession(s) PROVE Goal
  BY <1>20, TasksSame DEF BeginIncomingSession, aliceVars
<1>21. ASSUME NEW s \in Session, RecvTarget(s) PROVE Goal
  BY <1>21, TasksSame DEF RecvTarget, aliceVars
<1>22. ASSUME NEW s \in Session, BeginIncomingTarget(s) PROVE Goal
  <2>1. jobs'["alice"] = jobs["alice"] /\ UNCHANGED <<tasks, workers>>
    BY <1>22 DEF BeginIncomingTarget, aliceVars, TypeOK, Daemon
  <2>2. QED
    BY <2>1, TasksSame
<1>23. ASSUME NEW s \in Session, IncomingStore(s) PROVE Goal
  <2>1. jobs'["alice"] = jobs["alice"] /\ UNCHANGED <<tasks, workers>>
    BY <1>23 DEF IncomingStore, aliceVars, StoreNode, TypeOK, Daemon
  <2>2. QED
    BY <2>1, TasksSame
<1>24. ASSUME NEW s \in Session, IncomingFails(s) PROVE Goal
  BY <1>24, TasksSame DEF IncomingFails, aliceVars
<1>25. ASSUME NEW s \in Session, IncomingFinish(s) PROVE Goal
  <2>1. jobs'["alice"] = jobs["alice"] /\ UNCHANGED <<tasks, workers>>
    BY <1>25 DEF IncomingFinish, aliceVars, TypeOK, Daemon
  <2>2. QED
    BY <2>1, TasksSame
<1>26. ASSUME NEW s \in Session, Unregister(s) PROVE Goal
  BY <1>26, TasksSame DEF Unregister, aliceVars
<1>27. ASSUME NEW s \in Session, LoopEnds(s) PROVE Goal
  BY <1>27, TasksSame DEF LoopEnds, aliceVars
<1>28. ASSUME NEW d \in Daemon, NEW w \in WorkerCounts, SetConfig(d, w) PROVE Goal
  <2>1. UNCHANGED <<tasks, jobs>>
    BY <1>28 DEF SetConfig, aliceVars
  <2>2. WorkersKept
    BY <1>28, SetConfigEffect DEF WorkersKept
  <2>3. QED
    BY <2>1, <2>2 DEF AliceJobsOK, TaskLimits
<1>29. ASSUME NEW d \in Daemon, NEW c \in Chan, NEW p \in Params,
            EnableChannel(d, c, p)
      PROVE  Goal
  BY <1>29, TasksSame DEF EnableChannel, aliceVars
<1>30. ASSUME NEW d \in Daemon, NEW c \in Chan, DisableChannel(d, c) PROVE Goal
  BY <1>30, TasksSame DEF DisableChannel, aliceVars
<1>31. ASSUME NEW d \in Daemon, NEW c \in Chan, DisableDrops(d, c) PROVE Goal
  BY <1>31, TasksSame DEF DisableDrops, aliceVars
<1>32. ASSUME RestartAlice PROVE Goal
  <2>1. jobs' = [jobs EXCEPT !["alice"] = {}] /\ UNCHANGED workers
    BY <1>32 DEF RestartAlice
  <2>2. jobs'["alice"] = {}
    BY <2>1 DEF TypeOK, Daemon
  <2>3. \A u \in Task : tasks'[u] = IdleTask /\ tasks'[u].pc \notin WithJob /\ tasks'[u].limit = 0
    BY <1>32, RestartAliceEffect DEF IdleTask, WithJob
  <2>4. QED
    BY <2>1, <2>2, <2>3 DEF AliceJobsOK, TaskLimits, WorkersKept
<1>33. ASSUME RestartBob PROVE Goal
  <2>1. jobs'["alice"] = jobs["alice"] /\ UNCHANGED <<tasks, workers>>
    BY <1>33 DEF RestartBob, aliceVars, TypeOK, Daemon
  <2>2. QED
    BY <2>1, TasksSame
<1> QED
  BY <1>1, <1>2, <1>3, <1>4, <1>5, <1>6, <1>7, <1>8, <1>9, <1>10, <1>11, <1>12, <1>13,
     <1>14, <1>15, <1>16, <1>17, <1>18, <1>19, <1>20, <1>21, <1>22, <1>23, <1>24,
     <1>25, <1>26, <1>27, <1>28, <1>29, <1>30, <1>31, <1>32, <1>33 DEF Next, TaskStep,
     SessionStep

-----------------------------------------------------------------------------
(* Bob's jobs, and the command he is at.                                   *)

\* Where Bob's end of a session is while it has a job, or may have left one.
WithBobJob == {"run", "failing"}
HoldsJob == WithBobJob \cup {"aborted"}

\* What a step that begins or ends no job does to a session: a job's session
\* keeps its channel and runs on or is aborted, its command stays.
BobKept(s) ==
    /\ sess[s].b # "none" => sess'[s].chan = sess[s].chan
    /\ sess[s].b \in HoldsJob => sess'[s].b \in HoldsJob
    /\ sess[s].b \in WithBobJob => sess'[s].b \in WithBobJob \cup {"aborted"}
    /\ sess'[s].b \in WithBobJob => sess[s].b \in WithBobJob
    /\ sess'[s].b = "run" => sess[s].b = "run" /\ KeepsCurrent(s)
    /\ sess'[s].b = "admit" => Arrived(s) /\ KeepsCurrent(s)

SessionLimits ==
    \A s \in Session : sess'[s].limit \in {0, sess[s].limit, workers["bob"]}

LEMMA BobJobsSame ==
    ASSUME BobJobsOK, CurrentOK, jobs'["bob"] = jobs["bob"], \A s \in Session : BobKept(s)
    PROVE  BobJobsOK' /\ CurrentOK'
<1>1. CurrentOK'
  BY DEF CurrentOK, BobKept, KeepsCurrent, Arrived, Current
<1>2. ASSUME NEW s \in Session, sess'[s].b \in {"run", "failing"}
      PROVE  \E j \in jobs'["bob"] : j.chan = sess'[s].chan /\ j.owner = s
  <2>1. sess[s].b \in {"run", "failing"} /\ sess'[s].chan = sess[s].chan
    BY <1>2 DEF BobKept, WithBobJob
  <2>2. QED
    BY <2>1 DEF BobJobsOK
<1>3. ASSUME NEW j \in jobs'["bob"]
      PROVE  /\ j.owner \in Session
             /\ sess'[j.owner].b \in {"run", "failing", "aborted"}
             /\ sess'[j.owner].chan = j.chan
             /\ sess'[j.owner].b = "run" => j.planned = Head(sess'[j.owner].cmds).planned
  <2>1. /\ j.owner \in Session /\ sess[j.owner].b \in {"run", "failing", "aborted"}
        /\ sess[j.owner].chan = j.chan
        /\ sess[j.owner].b = "run" => j.planned = Current(j.owner).planned
    BY DEF BobJobsOK
  <2>2. BobKept(j.owner)
    BY <2>1
  <2>3. sess'[j.owner].b = "run" => Arrived(j.owner)
    BY <2>1, <2>2 DEF BobKept, CurrentOK
  <2>4. QED
    BY <2>1, <2>2, <2>3 DEF BobKept, HoldsJob, WithBobJob, KeepsCurrent
<1>4. QED
  BY <1>1, <1>2, <1>3 DEF BobJobsOK, Current

\* Sessions left alone, closed, aborted or gone on by a step.
LEMMA KeptSame ==
    ASSUME CurrentOK, NEW s \in Session, sess'[s] = sess[s] PROVE BobKept(s)
BY DEF BobKept, KeepsCurrent, CurrentOK, Arrived, Current, HoldsJob, WithBobJob

LEMMA KeptCloses ==
    ASSUME CurrentOK, NEW s \in Session, Closes(s) PROVE BobKept(s)
BY DEF BobKept, Closes, KeepsId, KeepsCurrent, CurrentOK, Arrived, Current, HoldsJob, WithBobJob

LEMMA KeptAborts ==
    ASSUME CurrentOK, NEW s \in Session, Aborts(s) PROVE BobKept(s)
BY DEF BobKept, Aborts, BobGoesOn, KeepsId, HoldsJob, WithBobJob

LEMMA KeptBob ==
    ASSUME CurrentOK, NEW s \in Session, BobGoesOn(s, sess[s].b), KeepsCurrent(s) PROVE BobKept(s)
BY DEF BobKept, BobGoesOn, KeepsId, CurrentOK, HoldsJob, WithBobJob

LEMMA CurrentSame ==
    ASSUME NEW s \in Session, sess'[s].cmds = sess[s].cmds PROVE KeepsCurrent(s)
BY DEF KeepsCurrent, Arrived, Current

\* A session that goes on without a job and to none.
LEMMA KeptMoves ==
    ASSUME NEW s \in Session, sess'[s].chan = sess[s].chan, sess[s].b \notin HoldsJob,
           sess'[s].b \notin WithBobJob \cup {"admit"}
    PROVE  BobKept(s)
BY DEF BobKept, HoldsJob, WithBobJob

\* One session changes, or none.
LEMMA OneKept ==
    ASSUME CurrentOK, NEW s \in Session, OnlySession(s), BobKept(s)
    PROVE  \A r \in Session : BobKept(r)
BY KeptSame DEF OnlySession

LEMMA SessionsSame ==
    ASSUME BobJobsOK, CurrentOK, UNCHANGED sess, jobs'["bob"] = jobs["bob"]
    PROVE  BobJobsOK' /\ CurrentOK' /\ SessionLimits
BY KeptSame, BobJobsSame DEF SessionLimits

LEMMA LimitsSame ==
    ASSUME NEW s \in Session, OnlySession(s), sess'[s].limit \in {0, sess[s].limit, workers["bob"]}
    PROVE  SessionLimits
BY DEF SessionLimits, OnlySession

\* The sessions some of which are aborted.
LEMMA AbortedKept ==
    ASSUME BobJobsOK, CurrentOK, SomeAborted, jobs'["bob"] = jobs["bob"]
    PROVE  BobJobsOK' /\ CurrentOK' /\ SessionLimits
<1>1. \A r \in Session : BobKept(r)
  BY KeptAborts, KeptBob, CurrentSame DEF SomeAborted
<1>2. SessionLimits
  BY DEF SomeAborted, SessionLimits, Aborts, BobGoesOn
<1>3. QED
  BY <1>1, <1>2, BobJobsSame

\* The job of session s ends: s holds none, the others keep theirs.
LEMMA SessionEndsJob ==
    ASSUME BobJobsOK, CurrentOK, NEW s \in Session, OnlySession(s), BobGoesOn(s, sess'[s].b),
           sess'[s].b \in {"recv", "leaving"}, jobs'["bob"] = {j \in jobs["bob"] : j.owner # s}
    PROVE  BobJobsOK' /\ CurrentOK' /\ SessionLimits
<1>1. \A r \in Session \ {s} : sess'[r] = sess[r]
  BY DEF OnlySession
<1>2. CurrentOK'
  BY <1>1 DEF CurrentOK, Arrived, Current
<1>3. ASSUME NEW r \in Session, sess'[r].b \in {"run", "failing"}
      PROVE  \E j \in jobs'["bob"] : j.chan = sess'[r].chan /\ j.owner = r
  BY <1>1, <1>3 DEF BobJobsOK
<1>4. ASSUME NEW j \in jobs'["bob"]
      PROVE  /\ j.owner \in Session
             /\ sess'[j.owner].b \in {"run", "failing", "aborted"}
             /\ sess'[j.owner].chan = j.chan
             /\ sess'[j.owner].b = "run" => j.planned = Head(sess'[j.owner].cmds).planned
  BY <1>1, <1>4 DEF BobJobsOK, Current
<1>5. SessionLimits
  BY LimitsSame DEF BobGoesOn
<1>6. QED
  BY <1>2, <1>3, <1>4, <1>5 DEF BobJobsOK, Current

LEMMA BobJobsStep ==
    ASSUME TypeOK, TasksOK, OpenedOK, OpeningOK, CurrentOK, BobJobsOK, Next
    PROVE  BobJobsOK' /\ CurrentOK' /\ SessionLimits
<1> DEFINE Goal == BobJobsOK' /\ CurrentOK' /\ SessionLimits
<1>1. ASSUME NEW t \in Task, NEW c \in Chan, Schedule(t, c) PROVE Goal
  BY <1>1, SessionsSame DEF Schedule, bobVars, aliceVars
<1>2. ASSUME NEW t \in Task, PeerFrontier(t) PROVE Goal
  BY <1>2, SessionsSame DEF PeerFrontier, bobVars, aliceVars
<1>3. ASSUME NEW t \in Task, FetchFrontier(t) PROVE Goal
  BY <1>3, SessionsSame DEF FetchFrontier, bobVars, aliceVars
<1>4. ASSUME NEW t \in Task, Reconcile(t) PROVE Goal
  BY <1>4, SessionsSame DEF Reconcile, bobVars, aliceVars
<1>5. ASSUME NEW t \in Task, ChooseTarget(t) PROVE Goal
  BY <1>5, SessionsSame DEF ChooseTarget, bobVars, aliceVars
<1>6. ASSUME NEW t \in Task, SessionHandle(t) PROVE Goal
  <2>1. UNCHANGED jobs
    BY <1>6 DEF SessionHandle
  <2>2. CASE UNCHANGED sess
    BY <2>1, <2>2, SessionsSame
  <2>3. CASE OpensSession(t)
    <3> DEFINE s == Cardinality(Opened) + 1
    <3>1. s \in Session /\ s \notin Opened
      BY <2>3, OpenedGrows
    <3>2. OnlySession(s) /\ sess'[s].b = "none" /\ sess'[s].limit = 0
      BY <2>3 DEF OpensSession, Opens
    <3> HIDE DEF s
    <3>3. sess[s].b = "none"
      BY <3>1 DEF OpenedOK, Opened
    <3>4. BobKept(s)
      BY <3>2, <3>3 DEF BobKept, HoldsJob, WithBobJob
    <3>5. \A r \in Session : BobKept(r)
      BY <3>1, <3>2, <3>4, OneKept
    <3>6. SessionLimits
      BY <3>1, <3>2, LimitsSame
    <3>7. QED
      BY <2>1, <3>5, <3>6, BobJobsSame
  <2>4. QED
    BY <1>6, <2>2, <2>3, SessionHandleEffect DEF OpensSession, SessionHandle, bobVars
<1>7. ASSUME NEW t \in Task, OpenStream(t) PROVE Goal
  <2> DEFINE s == tasks[t].sess
  <2>1. UNCHANGED jobs /\ s \in Session /\ tasks[t].pc \in {"main", "sibling"}
    BY <1>7, OpenStreamEffect DEF OpenStream
  <2>2. sess[s].b \in {"none", "gone"}
    BY <2>1 DEF OpeningOK, Opening
  <2>3. \/ UNCHANGED sess
        \/ OnlySession(s) /\ Closes(s)
        \/ OnlySession(s) /\ Joins(s)
    BY <1>7, OpenStreamEffect
  <2> HIDE DEF s
  <2>4. CASE UNCHANGED sess
    BY <2>1, <2>4, SessionsSame
  <2>5. CASE OnlySession(s) /\ Closes(s)
    <3>1. \A r \in Session : BobKept(r)
      BY <2>1, <2>5, KeptCloses, OneKept
    <3>2. SessionLimits
      BY <2>1, <2>5, LimitsSame DEF Closes
    <3>3. QED
      BY <2>1, <3>1, <3>2, BobJobsSame
  <2>6. CASE OnlySession(s) /\ Joins(s)
    <3>1. BobKept(s)
      BY <2>1, <2>2, <2>6, KeptMoves DEF Joins, KeepsId, HoldsJob, WithBobJob
    <3>2. \A r \in Session : BobKept(r)
      BY <2>1, <2>6, <3>1, OneKept
    <3>3. SessionLimits
      BY <2>1, <2>6, LimitsSame DEF Joins
    <3>4. QED
      BY <2>1, <3>2, <3>3, BobJobsSame
  <2>7. QED
    BY <2>3, <2>4, <2>5, <2>6
<1>8. ASSUME NEW t \in Task, SetUp(t) PROVE Goal
  <2> DEFINE s == tasks[t].sess
  <2>1. /\ s \in Session /\ OnlySession(s) /\ sess[s].b = "setup"
        /\ KeepsId(s) /\ sess'[s].b = "recv" /\ sess'[s].limit = sess[s].limit
    BY <1>8, SetUpEffect
  <2>2. UNCHANGED jobs
    BY <1>8 DEF SetUp
  <2> HIDE DEF s
  <2>3. BobKept(s)
    BY <2>1, KeptMoves DEF KeepsId, HoldsJob, WithBobJob
  <2>4. QED
    BY <2>1, <2>2, <2>3, OneKept, LimitsSame, BobJobsSame
<1>9. ASSUME NEW t \in Task, SetUpFails(t) PROVE Goal
  <2> DEFINE s == tasks[t].sess
  <2>1. OnlySession(s) /\ Closes(s) /\ s \in Session
    BY <1>9, RefuseEffect DEF SetUpFails, Opening, OpeningOK
  <2>2. UNCHANGED jobs
    BY <1>9 DEF SetUpFails
  <2> HIDE DEF s
  <2>3. BobKept(s) /\ sess'[s].limit = sess[s].limit
    BY <2>1, KeptCloses DEF Closes
  <2>4. QED
    BY <2>1, <2>2, <2>3, OneKept, LimitsSame, BobJobsSame
<1>10. ASSUME NEW t \in Task, CallFails(t) PROVE Goal
  <2> DEFINE s == tasks[t].sess
  <2>1. UNCHANGED jobs
    BY <1>10 DEF CallFails
  <2>2. CASE UNCHANGED sess
    BY <2>1, <2>2, SessionsSame
  <2>3. CASE s \in Session /\ OnlySession(s) /\ Closes(s)
    <3> HIDE DEF s
    <3>1. BobKept(s) /\ sess'[s].limit = sess[s].limit
      BY <2>3, KeptCloses DEF Closes
    <3>2. QED
      BY <2>1, <2>3, <3>1, OneKept, LimitsSame, BobJobsSame
  <2>4. QED
    BY <1>10, <2>2, <2>3, CallFailsEffect
<1>11. ASSUME NEW t \in Task, Plan(t) PROVE Goal
  BY <1>11, SessionsSame DEF Plan, bobVars
<1>12. ASSUME NEW t \in Task, SessionStopped(t) PROVE Goal
  <2>1. UNCHANGED <<sess, jobs>>
    BY <1>12 DEF SessionStopped, DropSession
  <2>2. QED
    BY <2>1, SessionsSame
<1>13. ASSUME NEW t \in Task, BeginJob(t) PROVE Goal
  <2>1. UNCHANGED sess /\ jobs'["bob"] = jobs["bob"]
    BY <1>13 DEF BeginJob, TypeOK, Daemon
  <2>2. QED
    BY <2>1, SessionsSame
<1>14. ASSUME NEW t \in Task, SendTarget(t) PROVE Goal
  <2> DEFINE s == tasks[t].sess
  <2>1. s \in Session /\ OnlySession(s) /\ BobGoesOn(s, sess[s].b) /\ KeepsCurrent(s)
    BY <1>14, SendTargetEffect
  <2>2. UNCHANGED jobs
    BY <1>14 DEF SendTarget
  <2> HIDE DEF s
  <2>3. BobKept(s) /\ sess'[s].limit \in {0, sess[s].limit}
    BY <2>1, KeptBob DEF BobGoesOn
  <2>4. QED
    BY <2>1, <2>2, <2>3, OneKept, LimitsSame, BobJobsSame
<1>15. ASSUME NEW t \in Task, RunDone(t) PROVE Goal
  <2> DEFINE s == tasks[t].sess
  <2>1. s \in Session /\ OnlySession(s) /\ BobGoesOn(s, sess[s].b) /\ KeepsCurrent(s)
    BY <1>15, RunDoneEffect
  <2>2. UNCHANGED jobs
    BY <1>15 DEF RunDone
  <2> HIDE DEF s
  <2>3. BobKept(s) /\ sess'[s].limit \in {0, sess[s].limit}
    BY <2>1, KeptBob DEF BobGoesOn
  <2>4. QED
    BY <2>1, <2>2, <2>3, OneKept, LimitsSame, BobJobsSame
<1>16. ASSUME NEW t \in Task, RunFails(t) PROVE Goal
  <2> DEFINE s == tasks[t].sess
  <2>1. s \in Session /\ sess[s].a = "up"
    BY <1>16 DEF RunFails, Live, TypeOK, TaskRec
  <2>2. OnlySession(s) /\ Closes(s) /\ UNCHANGED jobs
    BY <1>16, <2>1, CloseEffect DEF RunFails, TypeOK
  <2> HIDE DEF s
  <2>3. BobKept(s) /\ sess'[s].limit = sess[s].limit
    BY <2>1, <2>2, KeptCloses DEF Closes
  <2>4. QED
    BY <2>1, <2>2, <2>3, OneKept, LimitsSame, BobJobsSame
<1>17. ASSUME NEW t \in Task, StoreTarget(t) PROVE Goal
  <2>1. UNCHANGED sess /\ jobs'["bob"] = jobs["bob"]
    BY <1>17 DEF StoreTarget, TypeOK, Daemon, StoreNode
  <2>2. QED
    BY <2>1, SessionsSame
<1>18. ASSUME NEW t \in Task, FinishTask(t) PROVE Goal
  <2>1. UNCHANGED sess /\ jobs'["bob"] = jobs["bob"]
    BY <1>18 DEF FinishTask, TypeOK, Daemon
  <2>2. QED
    BY <2>1, SessionsSame
<1>19. ASSUME NEW s \in Session, RecordHandle(s) PROVE Goal
  <2>1. SomeAborted /\ UNCHANGED jobs
    BY <1>19, RecordHandleEffect DEF RecordHandle
  <2>2. QED
    BY <2>1, AbortedKept
<1>20. ASSUME NEW s \in Session, BeginIncomingSession(s) PROVE Goal
  <2>1. sess[s].b = "begin"
    BY <1>20 DEF BeginIncomingSession
  <2>2. PICK b \in {"setup", "leaving"} : sess' = [sess EXCEPT ![s].b = b]
    BY <1>20 DEF BeginIncomingSession
  <2>3. UNCHANGED jobs
    BY <1>20 DEF BeginIncomingSession
  <2>4. OnlySession(s) /\ BobGoesOn(s, b)
    BY <2>2, BobPutEffect DEF TypeOK, BobPc
  <2>5. BobKept(s) /\ sess'[s].limit \in {0, sess[s].limit}
    BY <2>1, <2>4, KeptMoves DEF BobGoesOn, KeepsId, HoldsJob, WithBobJob
  <2>6. QED
    BY <2>3, <2>4, <2>5, OneKept, LimitsSame, BobJobsSame
<1>21. ASSUME NEW s \in Session, RecvTarget(s) PROVE Goal
  <2>1. /\ OnlySession(s) /\ sess[s].b = "recv" /\ Arrived(s) /\ KeepsId(s)
        /\ sess'[s].b = "admit" /\ sess'[s].limit = workers["bob"] /\ sess'[s].cmds = sess[s].cmds
    BY <1>21, RecvTargetEffect
  <2>2. UNCHANGED jobs
    BY <1>21 DEF RecvTarget
  <2>3. BobKept(s)
    BY <2>1, CurrentSame DEF BobKept, KeepsId, HoldsJob, WithBobJob
  <2>4. QED
    BY <2>1, <2>2, <2>3, OneKept, LimitsSame, BobJobsSame
<1>22. ASSUME NEW s \in Session, BeginIncomingTarget(s) PROVE Goal
  <2> DEFINE n == [chan |-> sess[s].chan, owner |-> s, planned |-> Current(s).planned]
  <2>1. /\ OnlySession(s) /\ sess[s].b = "admit" /\ Arrived(s) /\ KeepsCurrent(s)
        /\ BobGoesOn(s, IF Admits(s) THEN "run" ELSE "leaving")
    BY <1>22, BeginIncomingTargetEffect
  <2>2. SessionLimits
    BY <2>1, LimitsSame DEF BobGoesOn
  <2>3. CASE Admits(s)
    <3>1. jobs' = [jobs EXCEPT !["bob"] = @ \cup {n}]
      BY <1>22, <2>3 DEF BeginIncomingTarget
    <3>2. jobs'["bob"] = jobs["bob"] \cup {n}
      BY <3>1 DEF TypeOK, Daemon
    <3>3. n.chan = sess[s].chan /\ n.owner = s /\ n.planned = Current(s).planned
      OBVIOUS
    <3> HIDE DEF n
    <3>4. \A r \in Session \ {s} : sess'[r] = sess[r]
      BY <2>1 DEF OnlySession
    <3>5. /\ sess'[s].chan = sess[s].chan /\ sess'[s].b = "run"
          /\ sess'[s].cmds # <<>> /\ ~Head(sess'[s].cmds).bdone
          /\ Head(sess'[s].cmds).planned = n.planned
      BY <2>1, <2>3, <3>3 DEF BobGoesOn, KeepsId, KeepsCurrent
    <3>6. CurrentOK'
      BY <3>4, <3>5 DEF CurrentOK, Arrived, Current
    <3>7. ASSUME NEW r \in Session, sess'[r].b \in {"run", "failing"}
          PROVE  \E j \in jobs'["bob"] : j.chan = sess'[r].chan /\ j.owner = r
      BY <3>2, <3>3, <3>4, <3>5, <3>7 DEF BobJobsOK
    <3>8. ASSUME NEW j \in jobs["bob"] PROVE j.owner \in Session \ {s}
      BY <2>1 DEF BobJobsOK
    <3>9. ASSUME NEW j \in jobs'["bob"]
          PROVE  /\ j.owner \in Session
                 /\ sess'[j.owner].b \in {"run", "failing", "aborted"}
                 /\ sess'[j.owner].chan = j.chan
                 /\ sess'[j.owner].b = "run" => j.planned = Head(sess'[j.owner].cmds).planned
      <4>1. CASE j = n
        BY <3>3, <3>5, <4>1
      <4>2. CASE j \in jobs["bob"]
        BY <3>4, <3>8, <4>2 DEF BobJobsOK, Current
      <4>3. QED
        BY <3>2, <4>1, <4>2
    <3>10. QED
      BY <2>2, <3>6, <3>7, <3>9 DEF BobJobsOK, Current
  <2>4. CASE ~Admits(s)
    <3>1. UNCHANGED jobs
      BY <1>22, <2>4 DEF BeginIncomingTarget
    <3>2. BobKept(s)
      BY <2>1, <2>4, KeptMoves DEF BobGoesOn, KeepsId, HoldsJob, WithBobJob
    <3>3. QED
      BY <2>1, <2>2, <3>1, <3>2, OneKept, BobJobsSame
  <2>5. QED
    BY <2>3, <2>4
<1>23. ASSUME NEW s \in Session, IncomingStore(s) PROVE Goal
  <2> DEFINE c == sess[s].chan
  <2>1. /\ OnlySession(s) /\ sess[s].b = "run"
        /\ BobGoesOn(s, IF ch["bob"][c].enabled THEN "recv" ELSE "failing")
    BY <1>23, IncomingStoreEffect
  <2>2. c \in Chan /\ Current(s).planned \in Nat /\ "bob" \in Daemon
    BY <2>1, CurrentType DEF OpenedOK, Opened, Daemon
  <2>3. CASE ch["bob"][c].enabled
    <3>1. StoreNode("bob", c, Current(s).target, s, Current(s).planned)
      BY <1>23, <2>3 DEF IncomingStore
    <3>2. jobs'["bob"] = {j \in jobs["bob"] : j.owner # s}
      BY <2>2, <3>1, StoreNodeEffect
    <3>3. BobGoesOn(s, "recv") /\ sess'[s].b = "recv"
      BY <2>1, <2>3 DEF BobGoesOn
    <3>4. QED
      BY <2>1, <3>2, <3>3, SessionEndsJob
  <2>4. CASE ~ch["bob"][c].enabled
    <3>1. UNCHANGED jobs
      BY <1>23, <2>4 DEF IncomingStore
    <3>2. BobGoesOn(s, "failing")
      BY <2>1, <2>4
    <3>3. BobKept(s) /\ sess'[s].limit \in {0, sess[s].limit}
      BY <2>1, <3>2 DEF BobKept, BobGoesOn, KeepsId, HoldsJob, WithBobJob
    <3>4. QED
      BY <2>1, <3>1, <3>3, OneKept, LimitsSame, BobJobsSame
  <2>5. QED
    BY <2>3, <2>4
<1>24. ASSUME NEW s \in Session, IncomingFails(s) PROVE Goal
  <2> DEFINE b == IF sess[s].b = "run" THEN "failing" ELSE "leaving"
  <2>1. sess' = [sess EXCEPT ![s].b = b] /\ sess[s].b \in {"setup", "recv", "run"} /\ UNCHANGED jobs
    BY <1>24 DEF IncomingFails
  <2>2. OnlySession(s) /\ BobGoesOn(s, b)
    BY <2>1, BobPutEffect DEF TypeOK, BobPc
  <2>3. BobKept(s) /\ sess'[s].limit \in {0, sess[s].limit}
    BY <2>1, <2>2 DEF BobKept, BobGoesOn, KeepsId, HoldsJob, WithBobJob
  <2>4. QED
    BY <2>1, <2>2, <2>3, OneKept, LimitsSame, BobJobsSame
<1>25. ASSUME NEW s \in Session, IncomingFinish(s) PROVE Goal
  <2>1. /\ sess' = [sess EXCEPT ![s].b = "leaving"]
        /\ jobs' = [jobs EXCEPT !["bob"] = {j \in @ : j.owner # s}]
    BY <1>25 DEF IncomingFinish
  <2>2. jobs'["bob"] = {j \in jobs["bob"] : j.owner # s}
    BY <2>1 DEF TypeOK, Daemon
  <2>3. OnlySession(s) /\ BobGoesOn(s, "leaving") /\ sess'[s].b = "leaving"
    BY <2>1, BobPutEffect DEF TypeOK, BobPc, BobGoesOn
  <2>4. QED
    BY <2>2, <2>3, SessionEndsJob
<1>26. ASSUME NEW s \in Session, Unregister(s) PROVE Goal
  <2>1. sess[s].b = "leaving"
    BY <1>26 DEF Unregister
  <2>2. PICK b \in {"gone"} : sess' = [sess EXCEPT ![s].b = b]
    BY <1>26 DEF Unregister
  <2>3. UNCHANGED jobs
    BY <1>26 DEF Unregister
  <2>4. OnlySession(s) /\ BobGoesOn(s, b)
    BY <2>2, BobPutEffect DEF TypeOK, BobPc
  <2>5. BobKept(s) /\ sess'[s].limit \in {0, sess[s].limit}
    BY <2>1, <2>4, KeptMoves DEF BobGoesOn, KeepsId, HoldsJob, WithBobJob
  <2>6. QED
    BY <2>3, <2>4, <2>5, OneKept, LimitsSame, BobJobsSame
<1>27. ASSUME NEW s \in Session, LoopEnds(s) PROVE Goal
  <2>1. OnlySession(s) /\ Closes(s) /\ UNCHANGED jobs
    BY <1>27, CloseEffect DEF LoopEnds, Live, TypeOK
  <2>2. BobKept(s) /\ sess'[s].limit = sess[s].limit
    BY <2>1, KeptCloses DEF Closes
  <2>3. QED
    BY <2>1, <2>2, OneKept, LimitsSame, BobJobsSame
<1>28. ASSUME NEW d \in Daemon, NEW w \in WorkerCounts, SetConfig(d, w) PROVE Goal
  BY <1>28, SessionsSame DEF SetConfig, bobVars, aliceVars
<1>29. ASSUME NEW d \in Daemon, NEW c \in Chan, NEW p \in Params,
            EnableChannel(d, c, p)
      PROVE  Goal
  BY <1>29, SessionsSame DEF EnableChannel, bobVars, aliceVars
<1>30. ASSUME NEW d \in Daemon, NEW c \in Chan, DisableChannel(d, c) PROVE Goal
  BY <1>30, SessionsSame DEF DisableChannel, bobVars, aliceVars
<1>31. ASSUME NEW d \in Daemon, NEW c \in Chan, DisableDrops(d, c) PROVE Goal
  <2>1. SomeAborted /\ UNCHANGED jobs
    BY <1>31, DropSessionEffect DEF DisableDrops
  <2>2. QED
    BY <2>1, AbortedKept
<1>32. ASSUME RestartAlice PROVE Goal
  <2>1. jobs'["bob"] = jobs["bob"]
    BY <1>32 DEF RestartAlice, TypeOK, Daemon
  <2>2. \A s \in Session : sess'[s] = sess[s] \/ Closes(s)
    BY <1>32, RestartAliceEffect
  <2>3. \A s \in Session : BobKept(s)
    BY <2>2, KeptSame, KeptCloses
  <2>4. SessionLimits
    BY <2>2 DEF SessionLimits, Closes
  <2>5. QED
    BY <2>1, <2>3, <2>4, BobJobsSame
<1>33. ASSUME RestartBob PROVE Goal
  <2>1. jobs'["bob"] = {}
    BY <1>33 DEF RestartBob, TypeOK, Daemon
  <2>2. \A s \in Session : /\ sess'[s].b \in {"none", "gone", "aborted"}
                           /\ sess'[s].limit \in {0, sess[s].limit}
    BY <1>33, RestartBobEffect DEF Aborts, BobGoesOn
  <2>3. QED
    BY <2>1, <2>2 DEF BobJobsOK, CurrentOK, SessionLimits
<1> QED
  BY <1>1, <1>2, <1>3, <1>4, <1>5, <1>6, <1>7, <1>8, <1>9, <1>10, <1>11, <1>12, <1>13,
     <1>14, <1>15, <1>16, <1>17, <1>18, <1>19, <1>20, <1>21, <1>22, <1>23, <1>24,
     <1>25, <1>26, <1>27, <1>28, <1>29, <1>30, <1>31, <1>32, <1>33 DEF Next, TaskStep,
     SessionStep

-----------------------------------------------------------------------------
(* The invariant holds.                                                    *)

\* What was read is within the largest count, whatever is configured later.
LEMMA LimitsStep ==
    ASSUME TypeOK, TypeOK', LimitsOK, TaskLimits, SessionLimits, WorkersKept,
           \A d \in Daemon : JobStep(d)
    PROVE  LimitsOK'
<1>1. \A d \in Daemon : /\ workers[d] \in Nat /\ workers'[d] \in Nat
                        /\ peak[d].workers \in Nat /\ peak'[d].workers \in Nat
  BY DEF TypeOK, PeakRec
<1>2. \A d \in Daemon : /\ workers[d] <= peak[d].workers
                        /\ peak[d].workers <= peak'[d].workers
  BY DEF LimitsOK, JobStep
<1>3. \A d \in Daemon : workers'[d] <= peak'[d].workers
  BY <1>1, <1>2 DEF WorkersKept
<1>4. "alice" \in Daemon /\ "bob" \in Daemon
  BY DEF Daemon
<1>5. ASSUME NEW t \in Task PROVE tasks'[t].limit <= peak'["alice"].workers
  <2>1. tasks[t].limit \in Nat /\ tasks'[t].limit \in Nat
    BY DEF TypeOK, TaskRec
  <2>2. tasks'[t].limit \in {0, tasks[t].limit} \/ tasks'[t].limit <= workers["alice"]
    BY DEF TaskLimits
  <2>3. tasks[t].limit <= peak["alice"].workers
    BY DEF LimitsOK
  <2>4. QED
    BY <1>1, <1>2, <1>4, <2>1, <2>2, <2>3
<1>6. ASSUME NEW s \in Session PROVE sess'[s].limit <= peak'["bob"].workers
  <2>1. sess[s].limit \in Nat /\ sess'[s].limit \in Nat
    BY DEF TypeOK, SessionRec
  <2>2. sess'[s].limit \in {0, sess[s].limit, workers["bob"]}
    BY DEF SessionLimits
  <2>3. sess[s].limit <= peak["bob"].workers
    BY DEF LimitsOK
  <2>4. QED
    BY <1>1, <1>2, <1>4, <2>1, <2>2, <2>3
<1>7. QED
  BY <1>3, <1>5, <1>6, WorkersStep DEF LimitsOK

LEMMA InitHolds ==
    ASSUME Init PROVE IInv
<1>1. Min(Params) \in Nat /\ Min(WorkerCounts) \in Nat
  BY MinIsElement, BoundAssumption
<1>2. \A s \in Session : sess[s] = NoSession
  BY DEF Init
<1>3. \A t \in Task : tasks[t] = IdleTask
  BY DEF Init
<1>4. NoSession \in SessionRec
  BY DEF NoSession, SessionRec, BobPc, None
<1>5. \A d \in Daemon : jobs[d] = {}
  BY DEF Init
<1>6. ASSUME NEW d \in Daemon, NEW c \in Chan
      PROVE  /\ ch[d][c] = [enabled |-> TRUE, params |-> Min(Params),
                            nodes |-> [t \in Target |-> None], est |-> 0]
             /\ ch[d][c] \in ChannelRec /\ ch[d][c].enabled /\ ch[d][c].est = 0
             /\ ch[d][c].params = Min(Params) /\ peak[d].cap[c] = Min(Params)
  <2>1. ch[d][c] = [enabled |-> TRUE, params |-> Min(Params),
                    nodes |-> [t \in Target |-> None], est |-> 0]
    BY DEF Init
  <2>2. ch[d][c] \in ChannelRec
    BY <1>1, <2>1 DEF ChannelRec, None
  <2>3. peak[d].cap[c] = Min(Params)
    BY DEF Init
  <2>4. QED
    BY <2>1, <2>2, <2>3
<1>7. TypeOK
  <2>1. ch \in [Daemon -> [Chan -> ChannelRec]]
    <3>1. /\ ch = [d \in Daemon |-> ch[d]]
          /\ \A d \in Daemon : ch[d] = [c \in Chan |-> ch[d][c]]
      BY DEF Init
    <3>2. \A d \in Daemon : ch[d] \in [Chan -> ChannelRec]
      BY <1>6, <3>1, Zenon
    <3>3. QED
      BY <3>1, <3>2, Zenon
  <2>2. peak \in [Daemon -> PeakRec]
    BY <1>1 DEF Init, PeakRec
  <2>3. sess \in [Session -> SessionRec] /\ tasks \in [Task -> TaskRec]
    BY <1>4, IdleTaskType DEF Init
  <2>4. workers \in [Daemon -> Nat] /\ jobs \in [Daemon -> SUBSET JobRec]
    BY <1>1 DEF Init
  <2>5. outgoing \in [Chan -> Session \cup {None}] /\ incoming \in [Chan -> Session \cup {None}]
    BY DEF Init
  <2>6. QED
    BY <2>1, <2>2, <2>3, <2>4, <2>5 DEF TypeOK, Init
<1>8. OpenedOK
  <2>1. Opened = {}
    BY <1>2 DEF Opened, NoSession
  <2>2. Opened = 1..0
    BY <2>1
  <2>3. \A s \in Session : sess[s].b = "none"
    BY <1>2 DEF NoSession
  <2>4. \A t \in Task : tasks[t].sess = None
    BY <1>3 DEF IdleTask
  <2>5. QED
    BY <2>1, <2>2, <2>3, <2>4 DEF OpenedOK, Init
<1>9. TasksOK /\ OpeningOK /\ AliceJobsOK
  <2>1. \A t \in Task : tasks[t].pc = "idle"
    BY <1>3 DEF IdleTask
  <2>2. jobs["alice"] = {}
    BY <1>5 DEF Daemon
  <2>3. QED
    BY <2>1, <2>2 DEF TasksOK, OpeningOK, AliceJobsOK, Opening, WithJob
<1>10. NamesOK /\ PairedStreams /\ CurrentOK /\ BobJobsOK
  <2>1. \A s \in Session : sess[s].a = "none" /\ sess[s].b = "none" /\ sess[s].streams = {}
    BY <1>2 DEF NoSession
  <2>2. jobs["bob"] = {} /\ grpc = {}
    BY <1>5 DEF Daemon, Init
  <2>3. QED
    BY <2>1, <2>2 DEF NamesOK, PairedStreams, CurrentOK, BobJobsOK, Opened
<1>11. LimitsOK
  <2>1. \A d \in Daemon : workers[d] = Min(WorkerCounts) /\ peak[d].workers = Min(WorkerCounts)
    BY DEF Init
  <2>2. \A t \in Task : tasks[t].limit = 0
    BY <1>3 DEF IdleTask
  <2>3. \A s \in Session : sess[s].limit = 0
    BY <1>2 DEF NoSession
  <2>4. \A d \in Daemon : IsFiniteSet(jobs[d]) /\ Cardinality(jobs[d]) = 0
    BY <1>5, FS_EmptySet
  <2>5. QED
    BY <1>1, <2>1, <2>2, <2>3, <2>4 DEF LimitsOK, Daemon
<1>12. OneJobPerChannel /\ CapOK /\ DisabledIsQuiet
  BY <1>1, <1>5, <1>6 DEF OneJobPerChannel, CapOK, DisabledIsQuiet
<1>13. QED
  BY <1>7, <1>8, <1>9, <1>10, <1>11, <1>12 DEF IInv

LEMMA NextKeeps ==
    ASSUME IInv, Next PROVE IInv'
<1> USE DEF IInv
<1>1. TypeOK' /\ TasksOK'
  BY TypeStep
<1>2. OpenedOK' /\ OpeningOK' /\ NamesOK' /\ PairedStreams'
  BY OpenedStep, OpeningStep, NamesStep, PairedStep
<1>3. AliceJobsOK' /\ TaskLimits /\ WorkersKept
  BY AliceJobsStep
<1>4. BobJobsOK' /\ CurrentOK' /\ SessionLimits
  BY BobJobsStep
<1>5. \A d \in Daemon : JobStep(d)
  BY JobStepHolds
<1>6. OneJobPerChannel' /\ DisabledIsQuiet'
  BY <1>5, OneJobStep, QuietStep
<1>7. LimitsOK' /\ CapOK'
  BY <1>1, <1>3, <1>4, <1>5, LimitsStep, CapStep
<1>8. QED
  BY <1>1, <1>2, <1>3, <1>4, <1>6, <1>7

LEMMA StutterKeeps ==
    ASSUME IInv, UNCHANGED vars PROVE IInv'
<1> USE DEF vars, aliceVars, bobVars, bounds
<1>1. TypeOK' /\ TasksOK' /\ OpeningOK' /\ NamesOK'
  BY DEF IInv, TypeOK, TasksOK, OpeningOK, NamesOK, Opened
<1>2. OpenedOK' /\ PairedStreams' /\ CurrentOK'
  BY DEF IInv, OpenedOK, Opened, PairedStreams, CurrentOK, Arrived, Current
<1>3. AliceJobsOK' /\ BobJobsOK' /\ OneJobPerChannel'
  BY DEF IInv, AliceJobsOK, BobJobsOK, OneJobPerChannel, Current
<1>4. LimitsOK' /\ CapOK' /\ DisabledIsQuiet'
  BY DEF IInv, LimitsOK, CapOK, DisabledIsQuiet, BusyChans
<1>5. QED
  BY <1>1, <1>2, <1>3, <1>4 DEF IInv

LEMMA InvariantHolds == Spec => []IInv
<1>1. Init => IInv
  BY InitHolds
<1>2. IInv /\ [Next]_vars => IInv'
  BY NextKeeps, StutterKeeps
<1>3. QED
  BY <1>1, <1>2, PTL DEF Spec

-----------------------------------------------------------------------------
(* What it means.                                                          *)

\* The tasks and the sessions in the middle of a run, with their jobs.
LEMMA RunsHaveJobs ==
    ASSUME IInv
    PROVE  /\ \A d \in Daemon : \A x \in Running(d) :
                 \E j \in jobs[d] : j.chan = x.chan /\ j.owner = x.owner
           /\ \A d \in Daemon : \A x \in Running(d) : x = [chan |-> x.chan, owner |-> x.owner]
<1>1. ASSUME NEW x \in Running("alice")
      PROVE  /\ x = [chan |-> x.chan, owner |-> x.owner]
             /\ \E j \in jobs["alice"] : j.chan = x.chan /\ j.owner = x.owner
  <2>1. PICK t \in Task : tasks[t].pc \in WithJob /\ x = [chan |-> tasks[t].chan, owner |-> t]
    BY DEF Running, WithJob
  <2>2. [chan |-> tasks[t].chan, owner |-> t, planned |-> tasks[t].planned] \in jobs["alice"]
    BY <2>1 DEF IInv, AliceJobsOK
  <2>3. QED
    BY <2>1, <2>2
<1>2. ASSUME NEW x \in Running("bob")
      PROVE  /\ x = [chan |-> x.chan, owner |-> x.owner]
             /\ \E j \in jobs["bob"] : j.chan = x.chan /\ j.owner = x.owner
  <2>1. PICK s \in Session : /\ sess[s].b \in {"run", "failing"}
                             /\ x = [chan |-> sess[s].chan, owner |-> s]
    BY DEF Running
  <2>2. \E j \in jobs["bob"] : j.chan = sess[s].chan /\ j.owner = s
    BY <2>1 DEF IInv, BobJobsOK
  <2>3. QED
    BY <2>1, <2>2
<1>3. QED
  BY <1>1, <1>2 DEF Daemon

\* What a channel's finished jobs have used and its active ones may use never
\* passes the largest lifetime cap it was given, for any channels, costs and
\* caps: the checks of begin_precompute_jobstream and of
\* begin_incoming_precompute_target, made under the lock, are enough although
\* a job is charged only when it ends.
THEOREM CapCorrect == Spec => []CapHolds
<1>1. IInv => CapHolds
  <2> SUFFICES ASSUME IInv, NEW d \in Daemon, NEW c \in Chan
               PROVE  ch[d][c].est + Reserved(d, c) <= peak[d].cap[c]
    BY DEF CapHolds
  <2>1. ch[d][c].est \in Nat /\ ch[d][c].est <= peak[d].cap[c]
    BY DEF IInv, CapOK, TypeOK, ChannelRec
  <2>2. CASE \A j \in jobs[d] : j.chan # c
    BY <2>1, <2>2, ReservedIs
  <2>3. ASSUME NEW j \in jobs[d], j.chan = c
        PROVE  ch[d][c].est + Reserved(d, c) <= peak[d].cap[c]
    <3>1. j.planned \in Nat /\ \A k \in jobs[d] : k.chan = c <=> k = j
      BY <2>3 DEF IInv, OneJobPerChannel, TypeOK, JobRec
    <3>2. Reserved(d, c) = j.planned
      BY <3>1, ReservedIs
    <3>3. QED
      BY <2>3, <3>2 DEF IInv, CapOK
  <2>4. QED
    BY <2>2, <2>3
<1>2. QED
  BY <1>1, InvariantHolds, PTL

\* A daemon never has more active jobs than the largest worker count it was
\* configured with, though the count is read before the lock is taken.
THEOREM WorkersCorrect == Spec => []WorkersHold
<1>1. IInv => WorkersHold
  BY DEF IInv, LimitsOK, WorkersHold
<1>2. QED
  BY <1>1, InvariantHolds, PTL

\* Two runs of a channel never overlap on a daemon and no run loses its job,
\* with any number of tasks, sessions and restarts: every task or session
\* between the beginning and the end of a job has that job, and the job's
\* channel is busy to all others.
THEOREM OneRunCorrect == Spec => []OneRunPerChannel
<1>1. IInv => OneRunPerChannel
  <2> SUFFICES ASSUME IInv, NEW d \in Daemon
               PROVE  /\ \A x, y \in Running(d) : x.chan = y.chan => x = y
                      /\ \A x \in Running(d) : \E j \in jobs[d] : j.chan = x.chan /\ j.owner = x.owner
    BY DEF OneRunPerChannel
  <2>1. ASSUME NEW x \in Running(d), NEW y \in Running(d), x.chan = y.chan PROVE x = y
    <3>1. PICK j \in jobs[d] : j.chan = x.chan /\ j.owner = x.owner
      BY RunsHaveJobs
    <3>2. PICK k \in jobs[d] : k.chan = y.chan /\ k.owner = y.owner
      BY RunsHaveJobs
    <3>3. j = k
      BY <2>1, <3>1, <3>2 DEF IInv, OneJobPerChannel
    <3>4. x = [chan |-> x.chan, owner |-> x.owner] /\ y = [chan |-> y.chan, owner |-> y.owner]
      BY RunsHaveJobs
    <3>5. QED
      BY <2>1, <3>1, <3>2, <3>3, <3>4
  <2>2. QED
    BY <2>1, RunsHaveJobs
<1>2. QED
  BY <1>1, InvariantHolds, PTL

\* An active job has a task or a session that will finish it, except one of
\* Bob's whose session was aborted in the middle of its run.
THEOREM OwnersCorrect == Spec => []JobsAreOwned
<1>1. IInv => JobsAreOwned
  <2> SUFFICES ASSUME IInv, NEW d \in Daemon, NEW j \in jobs[d]
               PROVE  \/ \E x \in Running(d) : x.chan = j.chan /\ x.owner = j.owner
                      \/ d = "bob" /\ sess[j.owner].b = "aborted"
    BY DEF JobsAreOwned
  <2>1. CASE d = "alice"
    <3>1. j.owner \in Task /\ tasks[j.owner].pc \in WithJob /\ tasks[j.owner].chan = j.chan
      BY <2>1 DEF IInv, AliceJobsOK
    <3>2. [chan |-> tasks[j.owner].chan, owner |-> j.owner] \in Running("alice")
      BY <3>1 DEF Running, WithJob
    <3>3. QED
      BY <2>1, <3>1, <3>2
  <2>2. CASE d = "bob"
    <3>1. /\ j.owner \in Session /\ sess[j.owner].chan = j.chan
          /\ sess[j.owner].b \in {"run", "failing", "aborted"}
      BY <2>2 DEF IInv, BobJobsOK
    <3>2. sess[j.owner].b # "aborted" =>
             [chan |-> sess[j.owner].chan, owner |-> j.owner] \in Running("bob")
      BY <3>1 DEF Running
    <3>3. QED
      BY <2>2, <3>1, <3>2
  <2>3. QED
    BY <2>1, <2>2 DEF Daemon
<1>2. QED
  BY <1>1, InvariantHolds, PTL

\* A disabled channel holds no node and has no active job: no run begun before
\* DisableChannel stores after it.
THEOREM DisabledCorrect == Spec => []DisabledIsQuiet
<1>1. IInv => DisabledIsQuiet
  BY DEF IInv
<1>2. QED
  BY <1>1, InvariantHolds, PTL

\* Bob never joins live streams of two openings to one session: a name is used
\* again only after Alice's restart has closed every stream that had it.
THEOREM PairedCorrect == Spec => []PairedStreams
<1>1. IInv => PairedStreams
  BY DEF IInv
<1>2. QED
  BY <1>1, InvariantHolds, PTL
=============================================================================
