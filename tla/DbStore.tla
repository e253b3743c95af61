------------------------------ MODULE DbStore ------------------------------
(***************************************************************************)
(* The daemon's recovery cache (shachain2pc-daemon, db.rs): tasks change   *)
(* the state in memory under one lock and enqueue a batch of record        *)
(* mutations after releasing it, a single writer task drains the queue     *)
(* into transactions of eventual or immediate durability, a timer          *)
(* checkpoints what is not durable yet, registry changes and the shutdown  *)
(* wait for a flush, and a crash or an exit restarts from what is durable. *)
(*                                                                         *)
(* Abstractions.                                                           *)
(*  - One channel: its scalars record, whose value is the enabled flag     *)
(*    (the counters travel in the same record), and for every index a      *)
(*    secret and a frontier record that are there or not.                  *)
(*  - Encryption, key derivation and the scan at startup neither lose nor  *)
(*    change a record.  A transaction is atomic (redb): it fails without   *)
(*    an effect, and an eventual one becomes durable at any later moment.  *)
(*  - A secret that makes older ones redundant deletes them in the same    *)
(*    batch; CachedReveal models which.                                    *)
(*  - A crash or an exit and the restart that follows are one step.        *)
(***************************************************************************)
EXTENDS Integers, Sequences, FiniteSets

CONSTANTS Task,       \* concurrent RPC handlers and precompute tasks
          Index,      \* shachain indices with a secret or a frontier record
          QueueCap,   \* capacity of the writer's queue (16 384 in the code)
          MaxOps,     \* bound: mutations of the state in memory
          MaxFail,    \* bound: failed transactions
          MaxRestart  \* bound: crashes and exits

ASSUME TaskAssumption == {"main", "none"} \cap Task = {}
ASSUME IndexAssumption == Index \subseteq Nat
ASSUME BoundAssumption ==
    /\ QueueCap \in Nat \ {0}
    /\ MaxOps \in Nat /\ MaxFail \in Nat /\ MaxRestart \in Nat

VARIABLES
    mem,       \* Inner.db: the channel record the daemon works on
    job,       \* the task that holds the channel's active precompute job
    task,      \* task[t]: what t has to enqueue and what it waits for
    queue,     \* the writer's channel of WriteOps
    txn,       \* the transaction the writer collects and applies
    dirty,     \* the writer's flag: committed records may not be durable
    table,     \* the committed content of the redb table
    durable,   \* what a restart finds
    up,        \* "serving", or "stopping" once the servers have shut down
    ops, fails, restarts,   \* bounded counters
    sent,      \* history: the effect of all enqueued batches, in order
    lost,      \* history: records whose last write was in a failed transaction
    solo,      \* history: the registry change that met no other, if in flight
    promised   \* history: the registry value a client was last told is stored

history == <<sent, lost, solo, promised>>
writer == <<txn, dirty, table, durable>>
vars == <<mem, job, task, queue, txn, dirty, table, durable, up, ops, fails,
          restarts, sent, lost, solo, promised>>

Chan == <<"channel", 0>>
Secret(i) == <<"secret", i>>
Node(i) == <<"node", i>>
Keys == {Chan} \cup {Secret(i) : i \in Index} \cup {Node(i) : i \in Index}

\* "none" is a missing record; in a batch, "keep" is a record it leaves alone.
Val == {"none", "on", "off", "data"}
Content == [Keys -> Val]
Batch == [Keys -> Val \cup {"keep"}]
Empty == [k \in Keys |-> "none"]
Keep == [k \in Keys |-> "keep"]

Waiter == Task \cup {"main"}
IdleTask == [pc |-> "idle", m |-> Keep, imm |-> FALSE, rpc |-> FALSE]
TaskRecord == [pc  : {"idle", "send", "flush", "wait", "ok", "err"},
               m   : Batch,
               imm : BOOLEAN,
               rpc : BOOLEAN]
WriteOp == [kind : {"batch", "flush"}, m : Batch, imm : BOOLEAN, by : Waiter]
IdleTxn == [pc |-> "idle", m |-> Keep, imm |-> FALSE, acks |-> {}]
TxnRecord == [pc   : {"idle", "collect", "commit"},
              m    : Batch,
              imm  : BOOLEAN,
              acks : SUBSET Waiter]

\* The shape of the state; the queue respects its capacity.
TypeOK ==
    /\ mem \in Content
    /\ job \in Task \cup {"none"}
    /\ task \in [Waiter -> TaskRecord]
    /\ queue \in Seq(WriteOp)
    /\ Len(queue) <= QueueCap
    /\ txn \in TxnRecord
    /\ dirty \in BOOLEAN
    /\ table \in Content
    /\ durable \in Content
    /\ up \in {"serving", "stopping"}
    /\ ops \in 0 .. MaxOps
    /\ fails \in 0 .. MaxFail
    /\ restarts \in 0 .. MaxRestart
    /\ sent \in Content
    /\ lost \in SUBSET Keys
    /\ solo \in Task \cup {"none"}
    /\ promised \in Val \cup {"keep"}

\* The daemon starts on a new database, or on one with an enabled channel.
Init ==
    /\ mem \in {Empty, [Empty EXCEPT ![Chan] = "on"]}
    /\ job = "none"
    /\ task = [t \in Waiter |-> IdleTask]
    /\ queue = <<>>
    /\ txn = IdleTxn
    /\ dirty = FALSE
    /\ table = mem
    /\ durable = mem
    /\ up = "serving"
    /\ ops = 0 /\ fails = 0 /\ restarts = 0
    /\ sent = mem
    /\ lost = {}
    /\ solo = "none"
    /\ promised = "none"

\* What the mutations b make of the records (or of the mutations) a.
Merge(a, b) == [k \in Keys |-> IF b[k] = "keep" THEN a[k] ELSE b[k]]

-----------------------------------------------------------------------------
(* Changes of the state in memory, under the lock: each builds its batch    *)
(* from the state it leaves, and the batch is enqueued later.               *)

Mutate(t, m, imm, rpc) ==
    /\ task[t].pc = "idle"
    /\ ops < MaxOps
    /\ mem' = Merge(mem, m)
    /\ task' = [task EXCEPT ![t] = [pc |-> "send", m |-> m, imm |-> imm, rpc |-> rpc]]
    /\ ops' = ops + 1
    /\ UNCHANGED <<queue, writer, up, fails, restarts, sent, lost>>

\* The channel's scalars record as memory has it.
Scalars == [Keep EXCEPT ![Chan] = mem[Chan]]

NewRegistryValue(t) ==
    /\ solo' = IF \A u \in Task : ~task[u].imm THEN t ELSE "none"
    /\ promised' = "none"

EnableChannel(t) ==
    /\ up = "serving"
    /\ Mutate(t, [Keep EXCEPT ![Chan] = "on"], TRUE, TRUE)
    /\ NewRegistryValue(t)
    /\ UNCHANGED job

\* Refused while the channel has an active job; the frontier goes too.
DisableChannel(t) ==
    /\ up = "serving"
    /\ job = "none"
    /\ mem[Chan] # "none"
    /\ LET dropped == {k \in {Node(i) : i \in Index} : mem[k] # "none"}
       IN  Mutate(t, [k \in Keys |-> IF k = Chan THEN "off"
                                     ELSE IF k \in dropped THEN "none" ELSE "keep"],
                  TRUE, TRUE)
    /\ NewRegistryValue(t)
    /\ UNCHANGED job

\* store_known_secret, from a Reveal call or from a RevealCached handler.
StoreSecret(t, i) ==
    /\ up = "serving"
    /\ mem[Chan] # "none"
    /\ LET new == mem[Secret(i)] = "none"
       IN  Mutate(t, [Scalars EXCEPT ![Secret(i)] = IF new THEN "data" ELSE "keep",
                                     ![Node(i)] = "none"], FALSE, TRUE)
    /\ UNCHANGED <<job, solo, promised>>

BeginJob(t) ==
    /\ mem[Chan] = "on"
    /\ job = "none"
    /\ job' = t
    /\ Mutate(t, Scalars, FALSE, FALSE)
    /\ UNCHANGED <<solo, promised>>

StorePrecomputed(t, i) ==
    /\ job = t
    /\ mem[Chan] = "on"
    /\ job' = "none"
    /\ Mutate(t, [Scalars EXCEPT ![Node(i)] = "data"], FALSE, FALSE)
    /\ UNCHANGED <<solo, promised>>

FailJob(t) ==
    /\ job = t
    /\ job' = "none"
    /\ Mutate(t, Scalars, FALSE, FALSE)
    /\ UNCHANGED <<solo, promised>>

\* A job that fails before it begins is only counted.
RecordFailedAttempt(t) ==
    /\ mem[Chan] # "none"
    /\ Mutate(t, Scalars, FALSE, FALSE)
    /\ UNCHANGED <<job, solo, promised>>

\* store_node, from a Reveal call: the node alone, whatever the flag is.
StoreNode(t, i) ==
    /\ up = "serving"
    /\ mem[Chan] # "none"
    /\ Mutate(t, [Keep EXCEPT ![Node(i)] = "data"], FALSE, TRUE)
    /\ UNCHANGED <<job, solo, promised>>

\* A reconciliation that drops nothing enqueues nothing.
Reconcile(t, dropped) ==
    /\ dropped # {}
    /\ \A i \in dropped : mem[Node(i)] # "none"
    /\ Mutate(t, [k \in Keys |-> IF k \in {Node(i) : i \in dropped} THEN "none"
                                 ELSE "keep"], FALSE, FALSE)
    /\ UNCHANGED <<job, solo, promised>>

-----------------------------------------------------------------------------
(* Enqueueing, after the lock is released. *)

\* Mutant: the queue has no bound.
SendBatchUnbounded(t) ==
    /\ task[t].pc = "send"
    /\ queue' = Append(queue, [kind |-> "batch", m |-> task[t].m,
                               imm |-> task[t].imm, by |-> t])
    /\ task' = [task EXCEPT ![t] = IF task[t].imm THEN [@ EXCEPT !.pc = "flush"]
                                   ELSE IdleTask]
    /\ sent' = Merge(sent, task[t].m)
    /\ lost' = {k \in lost : task[t].m[k] = "keep"}
    /\ UNCHANGED <<mem, job, writer, up, ops, fails, restarts, solo, promised>>

\* write_batch: when the queue is full the task waits for a place.
SendBatch(t) ==
    /\ task[t].pc = "send"
    /\ Len(queue) < QueueCap
    /\ queue' = Append(queue, [kind |-> "batch", m |-> task[t].m,
                               imm |-> task[t].imm, by |-> t])
    /\ task' = [task EXCEPT ![t] = IF task[t].imm THEN [@ EXCEPT !.pc = "flush"]
                                   ELSE IdleTask]
    /\ sent' = Merge(sent, task[t].m)
    /\ lost' = {k \in lost : task[t].m[k] = "keep"}
    /\ UNCHANGED <<mem, job, writer, up, ops, fails, restarts, solo, promised>>

SendFlush(t) ==
    /\ task[t].pc = "flush"
    /\ Len(queue) < QueueCap
    /\ queue' = Append(queue, [kind |-> "flush", m |-> Keep, imm |-> TRUE, by |-> t])
    /\ task' = [task EXCEPT ![t].pc = "wait"]
    /\ UNCHANGED <<mem, job, writer, up, ops, fails, restarts, history>>

\* The handler answers its client once the writer has acknowledged.
Respond(t) ==
    /\ task[t].pc \in {"ok", "err"}
    /\ task' = [task EXCEPT ![t] = IdleTask]
    /\ promised' = IF task[t].pc = "ok" /\ solo = t THEN task[t].m[Chan] ELSE promised
    /\ UNCHANGED <<mem, job, queue, writer, up, ops, fails, restarts, sent, lost, solo>>

-----------------------------------------------------------------------------
(* The writer. *)

\* Mutant: a later batch of the same transaction is applied first.
CollectReversed ==
    /\ txn.pc \in {"idle", "collect"}
    /\ queue # <<>>
    /\ txn' = [pc   |-> "collect",
               m    |-> Merge(Head(queue).m, txn.m),
               imm  |-> txn.imm \/ Head(queue).imm,
               acks |-> IF Head(queue).kind = "flush"
                        THEN txn.acks \cup {Head(queue).by} ELSE txn.acks]
    /\ queue' = Tail(queue)
    /\ UNCHANGED <<mem, job, task, dirty, table, durable, up, ops, fails, restarts, history>>

\* Mutant: a flush does not raise the transaction's durability.
CollectLazily ==
    /\ txn.pc \in {"idle", "collect"}
    /\ queue # <<>>
    /\ txn' = [pc   |-> "collect",
               m    |-> Merge(txn.m, Head(queue).m),
               imm  |-> FALSE,
               acks |-> IF Head(queue).kind = "flush"
                        THEN txn.acks \cup {Head(queue).by} ELSE txn.acks]
    /\ queue' = Tail(queue)
    /\ UNCHANGED <<mem, job, task, dirty, table, durable, up, ops, fails, restarts, history>>

\* collect_write_op: the first op, and then whatever try_recv finds.
Collect ==
    /\ txn.pc \in {"idle", "collect"}
    /\ queue # <<>>
    /\ txn' = [pc   |-> "collect",
               m    |-> Merge(txn.m, Head(queue).m),
               imm  |-> txn.imm \/ Head(queue).imm,
               acks |-> IF Head(queue).kind = "flush"
                        THEN txn.acks \cup {Head(queue).by} ELSE txn.acks]
    /\ queue' = Tail(queue)
    /\ UNCHANGED <<mem, job, task, dirty, table, durable, up, ops, fails, restarts, history>>

\* The queue was empty: the transaction goes to the blocking pool.
Seal ==
    /\ txn.pc = "collect"
    /\ queue = <<>>
    /\ txn' = [txn EXCEPT !.pc = "commit"]
    /\ UNCHANGED <<mem, job, task, queue, dirty, table, durable, up, ops, fails,
                   restarts, history>>

Acknowledge(result) ==
    task' = [t \in Waiter |-> IF t \in txn.acks THEN [task[t] EXCEPT !.pc = result]
                              ELSE task[t]]

\* Mutant: an eventual commit does not mark the store dirty.
CommitForgetsDirty ==
    /\ txn.pc = "commit"
    /\ table' = Merge(table, txn.m)
    /\ durable' = IF txn.imm THEN Merge(table, txn.m) ELSE durable
    /\ dirty' = IF txn.imm THEN FALSE ELSE dirty
    /\ Acknowledge("ok")
    /\ txn' = IdleTxn
    /\ UNCHANGED <<mem, job, queue, up, ops, fails, restarts, history>>

\* apply_mutations succeeds: an immediate commit makes everything committed
\* before it durable too.
Commit ==
    /\ txn.pc = "commit"
    /\ table' = Merge(table, txn.m)
    /\ durable' = IF txn.imm THEN Merge(table, txn.m) ELSE durable
    /\ dirty' = ~txn.imm
    /\ Acknowledge("ok")
    /\ txn' = IdleTxn
    /\ UNCHANGED <<mem, job, queue, up, ops, fails, restarts, history>>

\* The transaction fails: its mutations are dropped and the waiters told.
CommitFails ==
    /\ txn.pc = "commit"
    /\ fails < MaxFail
    /\ fails' = fails + 1
    /\ lost' = lost \cup {k \in Keys : /\ txn.m[k] # "keep"
                                       /\ \A n \in DOMAIN queue : queue[n].m[k] = "keep"}
    /\ Acknowledge("err")
    /\ txn' = IdleTxn
    /\ UNCHANGED <<mem, job, queue, dirty, table, durable, up, ops, restarts, sent,
                   solo, promised>>

\* The periodic checkpoint: an immediate transaction of the meta record.
Checkpoint ==
    /\ txn.pc = "idle"
    /\ dirty
    /\ durable' = table
    /\ dirty' = FALSE
    /\ UNCHANGED <<mem, job, task, queue, txn, table, up, ops, fails, restarts, history>>

\* Mutant: a failed checkpoint is not tried again.
CheckpointGivesUp ==
    /\ txn.pc = "idle"
    /\ dirty
    /\ fails < MaxFail
    /\ fails' = fails + 1
    /\ dirty' = FALSE
    /\ UNCHANGED <<mem, job, task, queue, txn, table, durable, up, ops, restarts, history>>

CheckpointFails ==
    /\ txn.pc = "idle"
    /\ dirty
    /\ fails < MaxFail
    /\ fails' = fails + 1
    /\ UNCHANGED <<mem, job, task, queue, writer, up, ops, restarts, history>>

\* redb makes an eventual commit durable by itself.
Persist ==
    /\ durable # table
    /\ durable' = table
    /\ UNCHANGED <<mem, job, task, queue, txn, dirty, table, up, ops, fails, restarts,
                   history>>

-----------------------------------------------------------------------------
(* Shutdown, crash and restart. *)

\* The servers have finished their requests; the scheduler is aborted, but
\* the precompute tasks it spawned run on until the process exits.
Shutdown ==
    /\ up = "serving"
    /\ \A t \in Task : ~task[t].rpc
    /\ restarts < MaxRestart
    /\ up' = "stopping"
    /\ task' = [task EXCEPT !["main"] = [IdleTask EXCEPT !.pc = "flush"]]
    /\ UNCHANGED <<mem, job, queue, writer, ops, fails, restarts, history>>

\* load_redb_state: records of a channel without a scalars record belong to
\* a disabled channel.
Loaded(c) ==
    IF c[Chan] = "none" /\ \E k \in Keys : c[k] # "none"
    THEN [c EXCEPT ![Chan] = "off"] ELSE c

Reopen ==
    /\ restarts < MaxRestart
    /\ restarts' = restarts + 1
    /\ mem' = Loaded(durable)
    /\ job' = "none"
    /\ task' = [t \in Waiter |-> IdleTask]
    /\ queue' = <<>>
    /\ txn' = IdleTxn
    /\ dirty' = FALSE
    /\ table' = durable
    /\ up' = "serving"
    /\ sent' = durable
    /\ lost' = {}
    /\ solo' = "none"
    /\ UNCHANGED <<durable, ops, fails, promised>>

Crash == Reopen

\* run_daemon returns once its own flush is acknowledged.
Exit ==
    /\ task["main"].pc \in {"ok", "err"}
    /\ Reopen

-----------------------------------------------------------------------------
TaskStep(t) ==
    \/ EnableChannel(t)
    \/ DisableChannel(t)
    \/ \E i \in Index : StoreSecret(t, i) \/ StorePrecomputed(t, i) \/ StoreNode(t, i)
    \/ BeginJob(t)
    \/ FailJob(t)
    \/ RecordFailedAttempt(t)
    \/ \E dropped \in SUBSET Index : Reconcile(t, dropped)
    \/ SendBatch(t)
    \/ Respond(t)

WriterStep == Collect \/ Seal \/ Commit

Next ==
    \/ \E t \in Task : TaskStep(t)
    \/ \E t \in Waiter : SendFlush(t)
    \/ WriterStep
    \/ CommitFails
    \/ Checkpoint
    \/ CheckpointFails
    \/ Persist
    \/ Shutdown
    \/ Crash
    \/ Exit

Spec == Init /\ [][Next]_vars

\* The writer task and its timer run; redb's own background persistence and
\* the failures are not to be relied on.
FairSpec == Spec /\ WF_vars(WriterStep) /\ WF_vars(Checkpoint)

-----------------------------------------------------------------------------
(* What the store promises. *)

\* v is what the last enqueued write of k stored: it is in the queue with no
\* later write behind it, or in the transaction, or committed.
LastWrite(k, v) ==
    \/ \E n \in DOMAIN queue :
          /\ queue[n].m[k] = v
          /\ v # "keep"
          /\ \A j \in DOMAIN queue : j > n => queue[j].m[k] = "keep"
    \/ /\ \A n \in DOMAIN queue : queue[n].m[k] = "keep"
       /\ Merge(table, txn.m)[k] = v

\* However tasks, writer, failures and restarts interleave, the table ends up
\* with the last enqueued write of every record, unless the transaction with
\* that write failed (process_db_writer_batch concatenates in queue order).
WritesKeepOrder == \A k \in Keys \ lost : LastWrite(k, sent[k])

\* The writer's dirty flag never misses a commit that is not durable, failed
\* transactions and failed checkpoints included: the next tick catches it.
DirtyCovers == durable # table => dirty

\* A flush that is acknowledged has made durable every write that was
\* enqueued before it, the caller's own batch among them: what is still
\* queued was enqueued later (flush, collect_write_op and the shutdown).
AckedFlushIsDurable ==
    [][\A t \in Waiter :
          (task[t].pc = "wait" /\ task'[t].pc = "ok") =>
             /\ \A n \in DOMAIN queue' : queue'[n].by # t
             /\ \A k \in Keys \ lost' :
                   (\A n \in DOMAIN queue' : queue'[n].m[k] = "keep")
                      => durable'[k] = sent'[k]]_vars

\* Every enqueued write becomes durable, although commits are lazy and
\* checkpoints fail, unless its transaction failed or a crash came first.
EventuallyDurable ==
    \A k \in Keys : durable[k] # sent[k] ~> (durable[k] = sent[k] \/ k \in lost)

-----------------------------------------------------------------------------
(* What the documentation says and the code does not do. *)

\* Enabling and disabling a channel survives a restart once the client has its
\* answer, and met no other such request: only reveal and precompute updates
\* are lazy.
RegistrySurvives == promised # "none" => mem[Chan] = promised

=============================================================================
