--------------------------- MODULE DbStoreProofs ---------------------------
(***************************************************************************)
(* Proofs about DbStore for every set of tasks and indices, every queue    *)
(* capacity and every bound.  The inductive invariant adds to the checked  *)
(* properties where the acknowledgements of a flush can be (AckInv): its   *)
(* entry is the last of its task in the queue, or its acknowledgement is   *)
(* in the transaction and nothing of the task is queued any more.          *)
(***************************************************************************)
EXTENDS DbStore, TLAPS

-----------------------------------------------------------------------------
(* Facts about sequences, records and batches. *)

\* What Append does to a queue.
LEMMA AppendFacts ==
    ASSUME NEW S, NEW q \in Seq(S), NEW e \in S
    PROVE  /\ Append(q, e) \in Seq(S)
           /\ Len(Append(q, e)) = Len(q) + 1
           /\ Len(q) \in Nat
           /\ DOMAIN q = 1 .. Len(q)
           /\ DOMAIN Append(q, e) = 1 .. (Len(q) + 1)
           /\ \A n \in 1 .. Len(q) : Append(q, e)[n] = q[n]
           /\ Append(q, e)[Len(q) + 1] = e
OBVIOUS

\* What Head and Tail do to a queue.
LEMMA TailFacts ==
    ASSUME NEW S, NEW q \in Seq(S), q # <<>>
    PROVE  /\ Head(q) \in S
           /\ Head(q) = q[1]
           /\ Tail(q) \in Seq(S)
           /\ Len(q) \in Nat \ {0}
           /\ Len(Tail(q)) = Len(q) - 1
           /\ DOMAIN q = 1 .. Len(q)
           /\ DOMAIN Tail(q) = 1 .. (Len(q) - 1)
           /\ \A n \in 1 .. (Len(q) - 1) : Tail(q)[n] = q[n + 1]
OBVIOUS

\* The records and batches that actions assign are of their types.
LEMMA Records ==
    /\ Empty \in Content
    /\ Keep \in Batch
    /\ IdleTask \in TaskRecord
    /\ IdleTxn \in TxnRecord
    /\ Chan \in Keys
    /\ \A i \in Index : Secret(i) \in Keys /\ Node(i) \in Keys
BY DEF Empty, Content, Keep, Batch, IdleTask, TaskRecord, IdleTxn, TxnRecord, Keys,
       Val, Waiter

\* Mutations applied to records are records, and joined to mutations they are
\* mutations.
LEMMA MergeType ==
    ASSUME NEW b \in Batch
    PROVE  /\ \A a \in Content : Merge(a, b) \in Content
           /\ \A a \in Batch : Merge(a, b) \in Batch
BY DEF Merge, Content, Batch

-----------------------------------------------------------------------------
(* Types. *)

\* A change of memory with a well-formed batch keeps the types of what it
\* touches.
LEMMA MutateType ==
    ASSUME TypeOK, NEW t \in Task, NEW m \in Batch, NEW imm \in BOOLEAN,
           NEW rpc \in BOOLEAN, Mutate(t, m, imm, rpc),
           job' \in Task \cup {"none"}, solo' \in Task \cup {"none"},
           promised' \in Val \cup {"keep"}
    PROVE  TypeOK'
<1>1. mem' \in Content
  BY MergeType DEF Mutate, TypeOK
<1>2. task' \in [Waiter -> TaskRecord]
  BY DEF Mutate, TypeOK, TaskRecord, Waiter
<1>3. ops' \in 0 .. MaxOps
  BY BoundAssumption DEF Mutate, TypeOK
<1> QED BY <1>1, <1>2, <1>3 DEF Mutate, writer, TypeOK

\* The batches the tasks build are well formed.
LEMMA BatchTypes ==
    ASSUME TypeOK
    PROVE  /\ Scalars \in Batch
           /\ [Keep EXCEPT ![Chan] = "on"] \in Batch
           /\ \A D : [k \in Keys |-> IF k = Chan THEN "off"
                                     ELSE IF k \in D THEN "none" ELSE "keep"] \in Batch
           /\ \A D : [k \in Keys |-> IF k \in D THEN "none" ELSE "keep"] \in Batch
           /\ \A i \in Index : [Keep EXCEPT ![Node(i)] = "data"] \in Batch
           /\ \A i \in Index : [Scalars EXCEPT ![Node(i)] = "data"] \in Batch
           /\ \A i \in Index, v \in {"data", "keep"} :
                 [Scalars EXCEPT ![Secret(i)] = v, ![Node(i)] = "none"] \in Batch
<1>1. Keep \in Batch /\ Chan \in Keys /\ mem[Chan] \in Val
  BY Records DEF TypeOK, Content
<1>2. Scalars \in Batch
  BY <1>1 DEF Scalars, Batch
<1>3. [Keep EXCEPT ![Chan] = "on"] \in Batch
  BY <1>1 DEF Batch, Val
<1>4. \A D : [k \in Keys |-> IF k = Chan THEN "off"
                             ELSE IF k \in D THEN "none" ELSE "keep"] \in Batch
  BY DEF Batch, Val
<1>5. \A D : [k \in Keys |-> IF k \in D THEN "none" ELSE "keep"] \in Batch
  BY DEF Batch, Val
<1>6. \A i \in Index : [Keep EXCEPT ![Node(i)] = "data"] \in Batch
  BY <1>1, Records DEF Batch, Val
<1>7. \A i \in Index : [Scalars EXCEPT ![Node(i)] = "data"] \in Batch
  BY <1>2, Records DEF Batch, Val
<1>8. \A i \in Index, v \in {"data", "keep"} :
         [Scalars EXCEPT ![Secret(i)] = v, ![Node(i)] = "none"] \in Batch
  BY <1>2, Records DEF Batch, Val
<1> QED BY <1>2, <1>3, <1>4, <1>5, <1>6, <1>7, <1>8

\* The changes of memory, seen as one: a task, a batch and its flags.
MutateStep ==
    \E t \in Task, m \in Batch, imm, rpc \in BOOLEAN :
        /\ Mutate(t, m, imm, rpc)
        /\ job' \in Task \cup {"none"}
        /\ solo' \in Task \cup {"none"}
        /\ promised' \in {"none", promised}

\* Every change of memory is such a step.
LEMMA MutateSteps ==
    ASSUME TypeOK, NEW t \in Task,
           \/ EnableChannel(t)
           \/ DisableChannel(t)
           \/ \E i \in Index : StoreSecret(t, i) \/ StorePrecomputed(t, i) \/ StoreNode(t, i)
           \/ BeginJob(t)
           \/ FailJob(t)
           \/ RecordFailedAttempt(t)
           \/ \E dropped \in SUBSET Index : Reconcile(t, dropped)
    PROVE  MutateStep
<1> USE DEF MutateStep
<1>0. job \in Task \cup {"none"} /\ solo \in Task \cup {"none"}
  BY DEF TypeOK
<1>1. CASE EnableChannel(t)
  BY <1>0, <1>1, BatchTypes DEF EnableChannel, NewRegistryValue
<1>2. CASE DisableChannel(t)
  BY <1>0, <1>2, BatchTypes DEF DisableChannel, NewRegistryValue
<1>3. ASSUME NEW i \in Index, StoreSecret(t, i) PROVE MutateStep
  BY <1>0, <1>3, BatchTypes DEF StoreSecret
<1>4. ASSUME NEW i \in Index, StorePrecomputed(t, i) PROVE MutateStep
  BY <1>0, <1>4, BatchTypes DEF StorePrecomputed
<1>5. ASSUME NEW i \in Index, StoreNode(t, i) PROVE MutateStep
  BY <1>0, <1>5, BatchTypes DEF StoreNode
<1>6. CASE BeginJob(t)
  BY <1>0, <1>6, BatchTypes DEF BeginJob
<1>7. CASE FailJob(t)
  BY <1>0, <1>7, BatchTypes DEF FailJob
<1>8. CASE RecordFailedAttempt(t)
  BY <1>0, <1>8, BatchTypes DEF RecordFailedAttempt
<1>9. ASSUME NEW dropped \in SUBSET Index, Reconcile(t, dropped) PROVE MutateStep
  BY <1>0, <1>9, BatchTypes DEF Reconcile
<1> QED BY <1>1, <1>2, <1>3, <1>4, <1>5, <1>6, <1>7, <1>8, <1>9

\* The steps, with all changes of memory taken together.
LEMMA NextCases ==
    ASSUME TypeOK, Next
    PROVE  \/ MutateStep
           \/ \E t \in Task : SendBatch(t) \/ Respond(t)
           \/ \E t \in Waiter : SendFlush(t)
           \/ Collect \/ Seal \/ Commit \/ CommitFails
           \/ Checkpoint \/ CheckpointFails \/ Persist \/ Shutdown \/ Reopen
<1>1. ASSUME NEW t \in Task, TaskStep(t)
      PROVE  MutateStep \/ SendBatch(t) \/ Respond(t)
  BY <1>1, MutateSteps DEF TaskStep
<1> QED BY <1>1 DEF Next, WriterStep, Crash, Exit

\* Acknowledging keeps the types of the tasks.
LEMMA AcknowledgeType ==
    ASSUME TypeOK, NEW result \in {"ok", "err"}, Acknowledge(result)
    PROVE  task' \in [Waiter -> TaskRecord]
BY DEF Acknowledge, TypeOK, TaskRecord

\* Every step keeps the types.
LEMMA NextTypeOK == TypeOK /\ [Next]_vars => TypeOK'
<1> SUFFICES ASSUME TypeOK, [Next]_vars PROVE TypeOK'
  OBVIOUS
<1>1. CASE UNCHANGED vars
  BY <1>1 DEF vars, TypeOK
<1>2. CASE MutateStep
  <2>1. PICK t \in Task, m \in Batch, imm \in BOOLEAN, rpc \in BOOLEAN :
           /\ Mutate(t, m, imm, rpc)
           /\ job' \in Task \cup {"none"}
           /\ solo' \in Task \cup {"none"}
           /\ promised' \in {"none", promised}
    BY <1>2 DEF MutateStep
  <2>2. promised' \in Val \cup {"keep"}
    BY <2>1 DEF TypeOK, Val
  <2> QED BY <2>1, <2>2, MutateType
<1>3. ASSUME NEW t \in Task, SendBatch(t) PROVE TypeOK'
  <2>1. task[t] \in TaskRecord /\ task[t].m \in Batch /\ task[t].imm \in BOOLEAN
        /\ t \in Waiter
    BY DEF TypeOK, TaskRecord, Waiter
  <2> DEFINE op == [kind |-> "batch", m |-> task[t].m, imm |-> task[t].imm, by |-> t]
  <2>2. op \in WriteOp
    BY <2>1 DEF WriteOp
  <2>3. queue' = Append(queue, op) /\ Len(queue) < QueueCap
    BY <1>3 DEF SendBatch
  <2>4. queue' \in Seq(WriteOp) /\ Len(queue') <= QueueCap
    <3> HIDE DEF op
    <3> QED BY <2>2, <2>3, AppendFacts, BoundAssumption DEF TypeOK
  <2>5. [task[t] EXCEPT !.pc = "flush"] \in TaskRecord
    BY <2>1 DEF TaskRecord
  <2>6. task' \in [Waiter -> TaskRecord]
    BY <1>3, <2>1, <2>5, Records DEF SendBatch, TypeOK
  <2>7. sent' \in Content
    BY <1>3, <2>1, MergeType DEF SendBatch, TypeOK
  <2> QED BY <1>3, <2>4, <2>6, <2>7 DEF SendBatch, writer, TypeOK
<1>4. ASSUME NEW t \in Task, Respond(t) PROVE TypeOK'
  <2>1. task' \in [Waiter -> TaskRecord]
    BY <1>4, Records DEF Respond, TypeOK
  <2>2. promised' \in Val \cup {"keep"}
    BY <1>4, Records DEF Respond, TypeOK, TaskRecord, Batch, Waiter
  <2> QED BY <1>4, <2>1, <2>2 DEF Respond, writer, TypeOK
<1>5. ASSUME NEW t \in Waiter, SendFlush(t) PROVE TypeOK'
  <2> DEFINE op == [kind |-> "flush", m |-> Keep, imm |-> TRUE, by |-> t]
  <2>1. op \in WriteOp
    BY Records DEF WriteOp
  <2>2. queue' = Append(queue, op) /\ Len(queue) < QueueCap
    BY <1>5 DEF SendFlush
  <2>3. queue' \in Seq(WriteOp) /\ Len(queue') <= QueueCap
    <3> HIDE DEF op
    <3> QED BY <2>1, <2>2, AppendFacts, BoundAssumption DEF TypeOK
  <2>4. task' \in [Waiter -> TaskRecord]
    BY <1>5 DEF SendFlush, TypeOK, TaskRecord
  <2> QED BY <1>5, <2>3, <2>4 DEF SendFlush, writer, history, TypeOK
<1>6. CASE Collect
  <2>1. Head(queue) \in WriteOp /\ Tail(queue) \in Seq(WriteOp)
        /\ Len(Tail(queue)) <= QueueCap
    BY <1>6, TailFacts, BoundAssumption DEF Collect, TypeOK
  <2>2. Merge(txn.m, Head(queue).m) \in Batch
    BY <2>1, MergeType DEF TypeOK, TxnRecord, WriteOp
  <2>3. txn' \in TxnRecord
    BY <1>6, <2>1, <2>2 DEF Collect, TypeOK, TxnRecord, WriteOp
  <2> QED BY <1>6, <2>1, <2>3 DEF Collect, history, TypeOK
<1>7. CASE Seal
  BY <1>7 DEF Seal, history, TypeOK, TxnRecord
<1>8. CASE Commit
  <2>1. Merge(table, txn.m) \in Content
    BY MergeType DEF TypeOK, TxnRecord
  <2>2. table' \in Content /\ durable' \in Content /\ dirty' \in BOOLEAN
    BY <1>8, <2>1 DEF Commit, TypeOK
  <2>3. task' \in [Waiter -> TaskRecord] /\ txn' \in TxnRecord
    BY <1>8, AcknowledgeType, Records DEF Commit
  <2> QED BY <1>8, <2>2, <2>3 DEF Commit, history, TypeOK
<1>9. CASE CommitFails
  <2>1. task' \in [Waiter -> TaskRecord] /\ txn' \in TxnRecord
    BY <1>9, AcknowledgeType, Records DEF CommitFails
  <2>2. fails' \in 0 .. MaxFail
    BY <1>9, BoundAssumption DEF CommitFails, TypeOK
  <2>3. lost' \in SUBSET Keys
    BY <1>9 DEF CommitFails, TypeOK
  <2> QED BY <1>9, <2>1, <2>2, <2>3 DEF CommitFails, TypeOK
<1>10. CASE Checkpoint \/ Persist
  BY <1>10 DEF Checkpoint, Persist, history, TypeOK
<1>11. CASE CheckpointFails
  <2>1. fails' \in 0 .. MaxFail
    BY <1>11, BoundAssumption DEF CheckpointFails, TypeOK
  <2> QED BY <1>11, <2>1 DEF CheckpointFails, writer, history, TypeOK
<1>12. CASE Shutdown
  <2>1. [IdleTask EXCEPT !.pc = "flush"] \in TaskRecord
    BY Records DEF TaskRecord
  <2>2. task' \in [Waiter -> TaskRecord]
    BY <1>12, <2>1 DEF Shutdown, TypeOK, Waiter
  <2> QED BY <1>12, <2>2 DEF Shutdown, writer, history, TypeOK
<1>13. CASE Reopen
  <2>1. mem' \in Content
    BY <1>13 DEF Reopen, Loaded, TypeOK, Content, Val
  <2>2. task' \in [Waiter -> TaskRecord] /\ txn' \in TxnRecord
    BY <1>13, Records DEF Reopen
  <2>3. restarts' \in 0 .. MaxRestart
    BY <1>13, BoundAssumption DEF Reopen, TypeOK
  <2>4. queue' \in Seq(WriteOp) /\ Len(queue') <= QueueCap
    BY <1>13, BoundAssumption DEF Reopen
  <2> QED BY <1>13, <2>1, <2>2, <2>3, <2>4 DEF Reopen, TypeOK
<1> QED BY <1>1, <1>2, <1>3, <1>4, <1>5, <1>6, <1>7, <1>8, <1>9, <1>10, <1>11, <1>12,
           <1>13, NextCases

\* The initial states are of their types.
LEMMA InitTypeOK == Init => TypeOK
<1> SUFFICES ASSUME Init PROVE TypeOK
  OBVIOUS
<1>1. mem \in Content
  BY Records DEF Init, Content, Val
<1>2. task \in [Waiter -> TaskRecord] /\ txn \in TxnRecord
  BY Records DEF Init
<1>3. queue \in Seq(WriteOp) /\ Len(queue) <= QueueCap
  BY BoundAssumption DEF Init
<1>4. ops \in 0 .. MaxOps /\ fails \in 0 .. MaxFail /\ restarts \in 0 .. MaxRestart
  BY BoundAssumption DEF Init
<1>5. table \in Content /\ durable \in Content /\ sent \in Content
  BY <1>1 DEF Init
<1> QED BY <1>1, <1>2, <1>3, <1>4, <1>5 DEF Init, TypeOK, Val

\* The state keeps its shape, and the writer's queue its capacity.
THEOREM StoreTypeCorrect == Spec => []TypeOK
BY InitTypeOK, NextTypeOK, PTL DEF Spec

-----------------------------------------------------------------------------
(* Where a flush and its acknowledgement are. *)

\* A queued flush is immediate, its task waits for it and has enqueued nothing
\* since; an acknowledgement in the transaction belongs to a waiting task with
\* nothing in the queue, and the transaction is immediate.
AckInv ==
    /\ \A n \in DOMAIN queue : queue[n].kind = "flush" =>
          /\ queue[n].imm
          /\ task[queue[n].by].pc = "wait"
          /\ queue[n].by \notin txn.acks
          /\ \A j \in DOMAIN queue : j > n => queue[j].by # queue[n].by
    /\ \A t \in txn.acks : /\ task[t].pc = "wait"
                           /\ \A n \in DOMAIN queue : queue[n].by # t
    /\ txn.acks # {} => txn.imm

\* Before the shutdown the main task waits for nothing.
MainInv == up = "serving" => task["main"].pc = "idle"

\* The inductive invariant.
StoreInv ==
    /\ TypeOK
    /\ AckInv
    /\ MainInv
    /\ WritesKeepOrder
    /\ DirtyCovers

\* The operations in the queue and the acknowledgements are of their types.
LEMMA QueueOps ==
    ASSUME TypeOK
    PROVE  /\ \A n \in DOMAIN queue : /\ queue[n] \in WriteOp
                                      /\ queue[n].by \in Waiter
                                      /\ queue[n].m \in Batch
           /\ \A t \in txn.acks : t \in Waiter
           /\ txn.m \in Batch
<1>1. queue \in Seq(WriteOp)
  BY DEF TypeOK
<1>2. \A n \in DOMAIN queue : queue[n] \in WriteOp
  BY <1>1
<1>3. \A op \in WriteOp : op.by \in Waiter /\ op.m \in Batch
  BY DEF WriteOp
<1>4. txn.acks \in SUBSET Waiter /\ txn.m \in Batch
  BY DEF TypeOK, TxnRecord
<1> QED BY <1>2, <1>3, <1>4

\* An operation appended by a task that waits for nothing keeps AckInv.
LEMMA AckAppend ==
    ASSUME TypeOK, AckInv, NEW op \in WriteOp, queue' = Append(queue, op),
           task' \in [Waiter -> TaskRecord], task[op.by].pc # "wait",
           \A u \in Waiter : u # op.by => task'[u] = task[u],
           op.kind = "flush" => op.imm /\ task'[op.by].pc = "wait",
           txn' = txn
    PROVE  AckInv'
<1>1. /\ Len(queue) \in Nat
      /\ DOMAIN queue = 1 .. Len(queue)
      /\ DOMAIN queue' = 1 .. (Len(queue) + 1)
      /\ \A n \in 1 .. Len(queue) : queue'[n] = queue[n]
      /\ queue'[Len(queue) + 1] = op
  BY AppendFacts DEF TypeOK
<1>2. \A n \in DOMAIN queue : queue[n] \in WriteOp /\ queue[n].by \in Waiter
  BY QueueOps
<1>3. op.by \notin txn.acks
  BY DEF AckInv
<1>4. \A t \in txn.acks : t \in Waiter
  BY QueueOps
<1>5. ASSUME NEW n \in DOMAIN queue', queue'[n].kind = "flush"
      PROVE  /\ queue'[n].imm
             /\ task'[queue'[n].by].pc = "wait"
             /\ queue'[n].by \notin txn'.acks
             /\ \A j \in DOMAIN queue' : j > n => queue'[j].by # queue'[n].by
  <2>1. CASE n = Len(queue) + 1
    BY <1>1, <1>3, <1>5, <2>1
  <2>2. CASE n \in 1 .. Len(queue)
    <3>1. /\ queue'[n] = queue[n]
          /\ queue[n].imm
          /\ task[queue[n].by].pc = "wait"
          /\ queue[n].by \notin txn.acks
          /\ \A j \in DOMAIN queue : j > n => queue[j].by # queue[n].by
      BY <1>1, <1>5, <2>2 DEF AckInv
    <3>2. queue[n].by # op.by /\ queue[n].by \in Waiter
      BY <1>1, <1>2, <2>2, <3>1
    <3>3. \A j \in DOMAIN queue' : j > n => queue'[j].by # queue'[n].by
      BY <1>1, <2>2, <3>1, <3>2
    <3> QED BY <3>1, <3>2, <3>3
  <2> QED BY <1>1, <2>1, <2>2
<1>6. ASSUME NEW t \in txn'.acks
      PROVE  task'[t].pc = "wait" /\ \A n \in DOMAIN queue' : queue'[n].by # t
  BY <1>1, <1>3, <1>4, <1>6 DEF AckInv
<1> QED BY <1>5, <1>6 DEF AckInv

\* A step that changes neither the queue nor the acknowledgements, and no
\* waiting task, keeps AckInv.
LEMMA AckFrame ==
    ASSUME TypeOK, AckInv, queue' = queue, txn'.acks = txn.acks, txn'.imm = txn.imm,
           \A u \in Waiter : task[u].pc = "wait" => task'[u] = task[u]
    PROVE  AckInv'
<1>1. \A n \in DOMAIN queue : queue[n].by \in Waiter
  BY QueueOps
<1>2. \A t \in txn.acks : t \in Waiter
  BY QueueOps
<1> QED BY <1>1, <1>2 DEF AckInv

\* The end of a transaction, whatever its result.
LEMMA AckEnd ==
    ASSUME TypeOK, AckInv, NEW result, Acknowledge(result), queue' = queue,
           txn' = IdleTxn
    PROVE  AckInv'
<1>1. \A n \in DOMAIN queue : queue[n].by \in Waiter
  BY QueueOps
<1>2. txn'.acks = {}
  BY DEF IdleTxn
<1>3. \A u \in Waiter \ txn.acks : task'[u] = task[u]
  BY DEF Acknowledge
<1> QED BY <1>1, <1>2, <1>3 DEF AckInv

\* Taking the first operation into the transaction.
LEMMA AckCollect ==
    ASSUME TypeOK, AckInv, Collect
    PROVE  AckInv'
<1>1. /\ Head(queue) = queue[1]
      /\ Len(queue) \in Nat \ {0}
      /\ DOMAIN queue = 1 .. Len(queue)
      /\ DOMAIN queue' = 1 .. (Len(queue) - 1)
      /\ \A n \in 1 .. (Len(queue) - 1) : queue'[n] = queue[n + 1]
  BY TailFacts DEF Collect, TypeOK
<1>2. /\ task' = task
      /\ txn'.imm = (txn.imm \/ queue[1].imm)
      /\ txn'.acks = IF queue[1].kind = "flush" THEN txn.acks \cup {queue[1].by}
                     ELSE txn.acks
  BY <1>1 DEF Collect
<1>3. ASSUME NEW n \in DOMAIN queue', queue'[n].kind = "flush"
      PROVE  /\ queue'[n].imm
             /\ task'[queue'[n].by].pc = "wait"
             /\ queue'[n].by \notin txn'.acks
             /\ \A j \in DOMAIN queue' : j > n => queue'[j].by # queue'[n].by
  <2>1. n + 1 \in DOMAIN queue /\ n + 1 > 1 /\ 1 \in DOMAIN queue /\ queue'[n] = queue[n + 1]
    BY <1>1
  <2>2. /\ queue[n + 1].imm
        /\ task[queue[n + 1].by].pc = "wait"
        /\ queue[n + 1].by \notin txn.acks
        /\ \A j \in DOMAIN queue : j > n + 1 => queue[j].by # queue[n + 1].by
    BY <1>3, <2>1 DEF AckInv
  <2>3. queue[1].kind = "flush" => queue[n + 1].by # queue[1].by
    BY <2>1 DEF AckInv
  <2>4. \A j \in DOMAIN queue' : j > n => queue'[j].by # queue'[n].by
    <3> TAKE j \in DOMAIN queue'
    <3>1. j + 1 \in DOMAIN queue /\ queue'[j] = queue[j + 1] /\ (j > n => j + 1 > n + 1)
      BY <1>1
    <3> QED BY <2>1, <2>2, <3>1
  <2> QED BY <1>2, <2>1, <2>2, <2>3, <2>4
<1>4. ASSUME NEW t \in txn'.acks
      PROVE  task'[t].pc = "wait" /\ \A n \in DOMAIN queue' : queue'[n].by # t
  <2>1. CASE t \in txn.acks
    BY <1>1, <1>2, <2>1 DEF AckInv
  <2>2. CASE t = queue[1].by /\ queue[1].kind = "flush"
    <3>1. /\ task[t].pc = "wait"
          /\ \A j \in DOMAIN queue : j > 1 => queue[j].by # t
      BY <1>1, <2>2 DEF AckInv
    <3>2. \A n \in DOMAIN queue' : n + 1 \in DOMAIN queue /\ n + 1 > 1 /\ queue'[n] = queue[n + 1]
      BY <1>1
    <3> QED BY <1>2, <3>1, <3>2
  <2> QED BY <1>2, <1>4, <2>1, <2>2
<1>5. txn'.acks # {} => txn'.imm
  <2>1. CASE queue[1].kind = "flush"
    <3>1. 1 \in DOMAIN queue
      BY <1>1
    <3> QED BY <1>2, <2>1, <3>1 DEF AckInv
  <2>2. CASE queue[1].kind # "flush"
    BY <1>2, <2>2 DEF AckInv
  <2> QED BY <2>1, <2>2
<1> QED BY <1>3, <1>4, <1>5 DEF AckInv

-----------------------------------------------------------------------------
(* The order of writes. *)

\* A step that leaves queue, transaction, table and what was sent alone.
LEMMA OrderFrame ==
    ASSUME WritesKeepOrder, queue' = queue, table' = table, txn'.m = txn.m,
           sent' = sent, lost' = lost
    PROVE  WritesKeepOrder'
<1> SUFFICES ASSUME NEW k \in Keys \ lost PROVE LastWrite(k, sent[k])'
  BY DEF WritesKeepOrder
<1>1. LastWrite(k, sent[k])
  BY DEF WritesKeepOrder
<1> QED BY <1>1 DEF LastWrite, Merge

\* An operation behind the queue becomes the last write of what it writes.
LEMMA OrderAppend ==
    ASSUME TypeOK, WritesKeepOrder, NEW op \in WriteOp, queue' = Append(queue, op),
           table' = table, txn' = txn,
           \A k \in Keys : sent'[k] = IF op.m[k] = "keep" THEN sent[k] ELSE op.m[k],
           \A k \in Keys \ lost' : op.m[k] = "keep" => k \notin lost
    PROVE  WritesKeepOrder'
<1> SUFFICES ASSUME NEW k \in Keys \ lost' PROVE LastWrite(k, sent[k])'
  BY DEF WritesKeepOrder
<1>1. /\ Len(queue) \in Nat
      /\ DOMAIN queue = 1 .. Len(queue)
      /\ DOMAIN queue' = 1 .. (Len(queue) + 1)
      /\ \A n \in 1 .. Len(queue) : queue'[n] = queue[n]
      /\ queue'[Len(queue) + 1] = op
  BY AppendFacts DEF TypeOK
<1>2. CASE op.m[k] # "keep"
  <2>1. Len(queue) + 1 \in DOMAIN queue'
        /\ \A j \in DOMAIN queue' : ~(j > Len(queue) + 1)
    BY <1>1
  <2>2. queue'[Len(queue) + 1].m[k] = sent'[k] /\ sent'[k] # "keep"
    BY <1>1, <1>2
  <2> QED BY <2>1, <2>2 DEF LastWrite
<1>3. CASE op.m[k] = "keep"
  <2>1. LastWrite(k, sent[k]) /\ sent'[k] = sent[k]
    BY <1>3 DEF WritesKeepOrder
  <2>2. ASSUME NEW n \in DOMAIN queue, queue[n].m[k] = sent[k], sent[k] # "keep",
               \A j \in DOMAIN queue : j > n => queue[j].m[k] = "keep"
        PROVE  LastWrite(k, sent[k])'
    <3>1. n \in DOMAIN queue' /\ queue'[n] = queue[n]
      BY <1>1
    <3>2. \A j \in DOMAIN queue' : j > n => queue'[j].m[k] = "keep"
      BY <1>1, <1>3, <2>2
    <3> QED BY <2>1, <2>2, <3>1, <3>2 DEF LastWrite
  <2>3. ASSUME \A n \in DOMAIN queue : queue[n].m[k] = "keep",
               Merge(table, txn.m)[k] = sent[k]
        PROVE  LastWrite(k, sent[k])'
    <3>1. \A n \in DOMAIN queue' : queue'[n].m[k] = "keep"
      BY <1>1, <1>3, <2>3
    <3> QED BY <2>1, <2>3, <3>1 DEF LastWrite, Merge
  <2> QED BY <2>1, <2>2, <2>3 DEF LastWrite
<1> QED BY <1>2, <1>3

\* The first operation of the queue comes after the transaction so far.
LEMMA OrderCollect ==
    ASSUME TypeOK, WritesKeepOrder, Collect
    PROVE  WritesKeepOrder'
<1> SUFFICES ASSUME NEW k \in Keys \ lost' PROVE LastWrite(k, sent[k])'
  BY DEF WritesKeepOrder
<1>1. /\ Head(queue) = queue[1]
      /\ Len(queue) \in Nat \ {0}
      /\ DOMAIN queue = 1 .. Len(queue)
      /\ DOMAIN queue' = 1 .. (Len(queue) - 1)
      /\ \A n \in 1 .. (Len(queue) - 1) : queue'[n] = queue[n + 1]
  BY TailFacts DEF Collect, TypeOK
<1>2. /\ txn'.m = Merge(txn.m, queue[1].m)
      /\ table' = table
      /\ sent' = sent
      /\ lost' = lost
  BY <1>1 DEF Collect, history
<1>3. LastWrite(k, sent[k])
  BY <1>2 DEF WritesKeepOrder
<1>4. ASSUME \A n \in DOMAIN queue : n > 1 => queue[n].m[k] = "keep"
      PROVE  \A n \in DOMAIN queue' : queue'[n].m[k] = "keep"
  <2> TAKE n \in DOMAIN queue'
  <2>1. n + 1 \in DOMAIN queue /\ n + 1 > 1 /\ queue'[n] = queue[n + 1]
    BY <1>1
  <2> QED BY <1>4, <2>1
<1>5. ASSUME NEW n \in DOMAIN queue, queue[n].m[k] = sent[k], sent[k] # "keep",
             \A j \in DOMAIN queue : j > n => queue[j].m[k] = "keep"
      PROVE  LastWrite(k, sent[k])'
  <2>1. CASE n = 1
    <3>1. \A j \in DOMAIN queue' : queue'[j].m[k] = "keep"
      BY <1>4, <1>5, <2>1
    <3>2. Merge(table', txn'.m)[k] = sent'[k]
      BY <1>2, <1>5, <2>1 DEF Merge
    <3> QED BY <3>1, <3>2 DEF LastWrite
  <2>2. CASE n # 1
    <3>1. n - 1 \in DOMAIN queue' /\ queue'[n - 1] = queue[n]
      BY <1>1, <2>2
    <3>2. \A j \in DOMAIN queue' : j > n - 1 => queue'[j].m[k] = "keep"
      <4> TAKE j \in DOMAIN queue'
      <4>1. j + 1 \in DOMAIN queue /\ queue'[j] = queue[j + 1] /\ (j > n - 1 => j + 1 > n)
        BY <1>1
      <4> QED BY <1>5, <4>1
    <3>3. queue'[n - 1].m[k] = sent'[k] /\ sent'[k] # "keep"
      BY <1>2, <1>5, <3>1
    <3> QED BY <3>1, <3>2, <3>3 DEF LastWrite
  <2> QED BY <2>1, <2>2
<1>6. ASSUME \A n \in DOMAIN queue : queue[n].m[k] = "keep",
             Merge(table, txn.m)[k] = sent[k]
      PROVE  LastWrite(k, sent[k])'
  <2>1. \A n \in DOMAIN queue' : queue'[n].m[k] = "keep"
    BY <1>4, <1>6
  <2>2. 1 \in DOMAIN queue
    BY <1>1
  <2>3. Merge(table', txn'.m)[k] = sent'[k]
    BY <1>2, <1>6, <2>2 DEF Merge
  <2> QED BY <2>1, <2>3 DEF LastWrite
<1> QED BY <1>3, <1>5, <1>6 DEF LastWrite

\* A commit moves the transaction's writes to the table.
LEMMA OrderCommit ==
    ASSUME WritesKeepOrder, Commit
    PROVE  WritesKeepOrder'
<1> SUFFICES ASSUME NEW k \in Keys \ lost' PROVE LastWrite(k, sent[k])'
  BY DEF WritesKeepOrder
<1>1. LastWrite(k, sent[k]) /\ queue' = queue /\ sent' = sent
  BY DEF WritesKeepOrder, Commit, history
<1>2. Merge(table', txn'.m)[k] = Merge(table, txn.m)[k]
  BY DEF Commit, IdleTxn, Merge, Keep
<1> QED BY <1>1, <1>2 DEF LastWrite

\* A failed transaction loses only writes that are counted as lost.
LEMMA OrderCommitFails ==
    ASSUME WritesKeepOrder, CommitFails
    PROVE  WritesKeepOrder'
<1> SUFFICES ASSUME NEW k \in Keys \ lost' PROVE LastWrite(k, sent[k])'
  BY DEF WritesKeepOrder
<1>1. /\ LastWrite(k, sent[k])
      /\ queue' = queue /\ sent' = sent /\ table' = table
      /\ txn.m[k] = "keep" \/ \E n \in DOMAIN queue : queue[n].m[k] # "keep"
  BY DEF WritesKeepOrder, CommitFails
<1>2. txn.m[k] = "keep" => Merge(table', txn'.m)[k] = Merge(table, txn.m)[k]
  BY <1>1 DEF CommitFails, IdleTxn, Merge, Keep
<1> QED BY <1>1, <1>2 DEF LastWrite

\* After a restart nothing is on its way to the table.
LEMMA OrderReopen ==
    ASSUME Reopen
    PROVE  WritesKeepOrder'
<1> SUFFICES ASSUME NEW k \in Keys PROVE LastWrite(k, sent[k])'
  BY DEF WritesKeepOrder
<1>1. DOMAIN queue' = {}
  BY DEF Reopen
<1>2. Merge(table', txn'.m)[k] = sent'[k]
  BY DEF Reopen, IdleTxn, Merge, Keep
<1> QED BY <1>1, <1>2 DEF LastWrite

-----------------------------------------------------------------------------
(* The inductive invariant. *)

\* What an acknowledgement does to the tasks.
LEMMA AcknowledgeFacts ==
    ASSUME TypeOK, AckInv, MainInv, NEW result, Acknowledge(result), up' = up
    PROVE  MainInv'
<1>1. "main" \in Waiter
  BY DEF Waiter
<1>2. CASE "main" \in txn.acks
  BY <1>2 DEF AckInv, MainInv
<1>3. CASE "main" \notin txn.acks
  BY <1>1, <1>3 DEF Acknowledge, MainInv
<1> QED BY <1>2, <1>3

\* The initial states satisfy the invariant.
LEMMA InitStoreInv == Init => StoreInv
<1> SUFFICES ASSUME Init PROVE StoreInv
  OBVIOUS
<1>1. TypeOK
  BY InitTypeOK
<1>2. DOMAIN queue = {} /\ txn.acks = {}
  BY DEF Init, IdleTxn
<1>3. AckInv
  BY <1>2 DEF AckInv
<1>4. MainInv
  BY DEF Init, MainInv, IdleTask, Waiter
<1>5. \A k \in Keys : Merge(table, txn.m)[k] = sent[k]
  BY DEF Init, Merge, IdleTxn, Keep
<1>6. WritesKeepOrder
  BY <1>2, <1>5 DEF WritesKeepOrder, LastWrite
<1>7. DirtyCovers
  BY DEF Init, DirtyCovers
<1> QED BY <1>1, <1>3, <1>4, <1>6, <1>7 DEF StoreInv

\* Every step keeps the invariant.
LEMMA NextStoreInv == StoreInv /\ [Next]_vars => StoreInv'
<1> SUFFICES ASSUME StoreInv, [Next]_vars PROVE StoreInv'
  OBVIOUS
<1> USE DEF StoreInv
<1>0. TypeOK'
  BY NextTypeOK
<1>m. "main" \in Waiter /\ "main" \notin Task /\ Task \subseteq Waiter
  BY TaskAssumption DEF Waiter
<1>1. CASE UNCHANGED vars
  <2>1. AckInv'
    BY <1>1, AckFrame DEF vars
  <2>2. WritesKeepOrder'
    BY <1>1, OrderFrame DEF vars
  <2>3. MainInv' /\ DirtyCovers'
    BY <1>1 DEF vars, MainInv, DirtyCovers
  <2> QED BY <1>0, <2>1, <2>2, <2>3
<1>2. CASE MutateStep
  <2>1. PICK t \in Task, m \in Batch, imm \in BOOLEAN, rpc \in BOOLEAN :
           Mutate(t, m, imm, rpc)
    BY <1>2 DEF MutateStep
  <2>2. /\ queue' = queue /\ txn' = txn /\ table' = table /\ sent' = sent
        /\ lost' = lost /\ up' = up /\ dirty' = dirty /\ durable' = durable
        /\ task[t].pc = "idle"
        /\ \A u \in Waiter : u # t => task'[u] = task[u]
    BY <2>1 DEF Mutate, writer, TypeOK
  <2>3. AckInv'
    BY <2>2, AckFrame
  <2>4. WritesKeepOrder'
    BY <2>2, OrderFrame
  <2>5. MainInv'
    BY <1>m, <2>2 DEF MainInv
  <2>6. DirtyCovers'
    BY <2>2 DEF DirtyCovers
  <2> QED BY <1>0, <2>3, <2>4, <2>5, <2>6
<1>3. ASSUME NEW t \in Task, SendBatch(t) PROVE StoreInv'
  <2>1. task[t].m \in Batch /\ task[t].imm \in BOOLEAN
    BY <1>m DEF TypeOK, TaskRecord
  <2> DEFINE op == [kind |-> "batch", m |-> task[t].m, imm |-> task[t].imm, by |-> t]
  <2>2. op \in WriteOp /\ op.by = t /\ op.kind = "batch" /\ op.m = task[t].m
    BY <1>m, <2>1 DEF WriteOp
  <2>3. /\ queue' = Append(queue, op) /\ txn' = txn /\ table' = table
        /\ up' = up /\ dirty' = dirty /\ durable' = durable
        /\ task[t].pc = "send"
        /\ \A u \in Waiter : u # t => task'[u] = task[u]
        /\ sent' = Merge(sent, task[t].m)
        /\ lost' = {k \in lost : task[t].m[k] = "keep"}
    BY <1>3 DEF SendBatch, writer, TypeOK
  <2> HIDE DEF op
  <2>4. AckInv'
    BY <1>0, <2>2, <2>3, AckAppend DEF TypeOK
  <2>5. /\ \A k \in Keys : sent'[k] = IF op.m[k] = "keep" THEN sent[k] ELSE op.m[k]
        /\ \A k \in Keys \ lost' : op.m[k] = "keep" => k \notin lost
    BY <2>2, <2>3 DEF Merge
  <2>6. WritesKeepOrder'
    BY <2>2, <2>3, <2>5, OrderAppend
  <2>7. MainInv'
    BY <1>m, <2>3 DEF MainInv
  <2>8. DirtyCovers'
    BY <2>3 DEF DirtyCovers
  <2> QED BY <1>0, <2>4, <2>6, <2>7, <2>8
<1>4. ASSUME NEW t \in Task, Respond(t) PROVE StoreInv'
  <2>1. /\ queue' = queue /\ txn' = txn /\ table' = table /\ sent' = sent
        /\ lost' = lost /\ up' = up /\ dirty' = dirty /\ durable' = durable
        /\ task[t].pc # "wait"
        /\ \A u \in Waiter : u # t => task'[u] = task[u]
    BY <1>4 DEF Respond, writer, TypeOK
  <2>2. AckInv'
    BY <2>1, AckFrame
  <2>3. WritesKeepOrder'
    BY <2>1, OrderFrame
  <2>4. MainInv'
    BY <1>m, <2>1 DEF MainInv
  <2>5. DirtyCovers'
    BY <2>1 DEF DirtyCovers
  <2> QED BY <1>0, <2>2, <2>3, <2>4, <2>5
<1>5. ASSUME NEW t \in Waiter, SendFlush(t) PROVE StoreInv'
  <2> DEFINE op == [kind |-> "flush", m |-> Keep, imm |-> TRUE, by |-> t]
  <2>1. op \in WriteOp /\ op.by = t /\ op.imm /\ \A k \in Keys : op.m[k] = "keep"
    BY Records DEF WriteOp, Keep
  <2>2. /\ queue' = Append(queue, op) /\ txn' = txn /\ table' = table /\ sent' = sent
        /\ lost' = lost /\ up' = up /\ dirty' = dirty /\ durable' = durable
        /\ task[t].pc = "flush"
        /\ \A u \in Waiter : u # t => task'[u] = task[u]
        /\ task'[t].pc = "wait"
    BY <1>5 DEF SendFlush, writer, history, TypeOK, TaskRecord
  <2> HIDE DEF op
  <2>3. AckInv'
    BY <1>0, <2>1, <2>2, AckAppend DEF TypeOK
  <2>4. WritesKeepOrder'
    BY <2>1, <2>2, OrderAppend
  <2>5. MainInv'
    BY <1>m, <2>2 DEF MainInv
  <2>6. DirtyCovers'
    BY <2>2 DEF DirtyCovers
  <2> QED BY <1>0, <2>3, <2>4, <2>5, <2>6
<1>6. CASE Collect
  <2>1. MainInv' /\ DirtyCovers'
    BY <1>6 DEF Collect, MainInv, DirtyCovers
  <2> QED BY <1>0, <1>6, <2>1, AckCollect, OrderCollect
<1>7. CASE Seal
  <2>1. /\ queue' = queue /\ table' = table /\ sent' = sent /\ lost' = lost
        /\ txn'.m = txn.m /\ txn'.acks = txn.acks /\ txn'.imm = txn.imm /\ task' = task
    BY <1>7 DEF Seal, history, TypeOK, TxnRecord
  <2>2. AckInv'
    BY <2>1, AckFrame
  <2>3. WritesKeepOrder'
    BY <2>1, OrderFrame
  <2>4. MainInv' /\ DirtyCovers'
    BY <1>7 DEF Seal, MainInv, DirtyCovers
  <2> QED BY <1>0, <2>2, <2>3, <2>4
<1>8. CASE Commit
  <2>1. AckInv'
    BY <1>8, AckEnd DEF Commit
  <2>2. WritesKeepOrder'
    BY <1>8, OrderCommit
  <2>3. MainInv'
    BY <1>8, AcknowledgeFacts DEF Commit
  <2>4. DirtyCovers'
    BY <1>8 DEF Commit, DirtyCovers
  <2> QED BY <1>0, <2>1, <2>2, <2>3, <2>4
<1>9. CASE CommitFails
  <2>1. AckInv'
    BY <1>9, AckEnd DEF CommitFails
  <2>2. WritesKeepOrder'
    BY <1>9, OrderCommitFails
  <2>3. MainInv'
    BY <1>9, AcknowledgeFacts DEF CommitFails
  <2>4. DirtyCovers'
    BY <1>9 DEF CommitFails, DirtyCovers
  <2> QED BY <1>0, <2>1, <2>2, <2>3, <2>4
<1>10. CASE Checkpoint \/ CheckpointFails \/ Persist
  <2>1. /\ queue' = queue /\ txn' = txn /\ table' = table /\ sent' = sent
        /\ lost' = lost /\ up' = up /\ task' = task
    BY <1>10 DEF Checkpoint, CheckpointFails, Persist, writer, history
  <2>2. AckInv'
    BY <2>1, AckFrame
  <2>3. WritesKeepOrder'
    BY <2>1, OrderFrame
  <2>4. MainInv'
    BY <2>1 DEF MainInv
  <2>5. DirtyCovers'
    BY <1>10 DEF Checkpoint, CheckpointFails, Persist, writer, DirtyCovers
  <2> QED BY <1>0, <2>2, <2>3, <2>4, <2>5
<1>11. CASE Shutdown
  <2>1. /\ queue' = queue /\ txn' = txn /\ table' = table /\ sent' = sent
        /\ lost' = lost /\ dirty' = dirty /\ durable' = durable
        /\ up = "serving" /\ up' = "stopping"
        /\ \A u \in Waiter : u # "main" => task'[u] = task[u]
    BY <1>11 DEF Shutdown, writer, history, TypeOK
  <2>2. \A u \in Waiter : task[u].pc = "wait" => task'[u] = task[u]
    BY <2>1 DEF MainInv
  <2>3. AckInv'
    BY <2>1, <2>2, AckFrame
  <2>4. WritesKeepOrder'
    BY <2>1, OrderFrame
  <2>5. MainInv' /\ DirtyCovers'
    BY <2>1 DEF MainInv, DirtyCovers
  <2> QED BY <1>0, <2>3, <2>4, <2>5
<1>12. CASE Reopen
  <2>1. DOMAIN queue' = {} /\ txn'.acks = {} /\ task'["main"].pc = "idle"
    BY <1>12, <1>m DEF Reopen, IdleTxn, IdleTask
  <2>2. AckInv' /\ MainInv'
    BY <2>1 DEF AckInv, MainInv
  <2>3. DirtyCovers'
    BY <1>12 DEF Reopen, DirtyCovers
  <2> QED BY <1>0, <1>12, <2>2, <2>3, OrderReopen
<1> QED BY <1>1, <1>2, <1>3, <1>4, <1>5, <1>6, <1>7, <1>8, <1>9, <1>10, <1>11, <1>12,
           NextCases

\* The inductive invariant holds throughout.
LEMMA StoreInvariant == Spec => []StoreInv
BY InitStoreInv, NextStoreInv, PTL DEF Spec

\* The table ends up with the last enqueued write of every record whose
\* transaction did not fail, whatever the writer, failures and restarts do.
THEOREM WritesInOrder == Spec => []WritesKeepOrder
<1>1. StoreInv => WritesKeepOrder
  BY DEF StoreInv
<1> QED BY <1>1, StoreInvariant, PTL

\* The writer's dirty flag is never clear while a commit is not durable.
THEOREM DirtyIsSound == Spec => []DirtyCovers
<1>1. StoreInv => DirtyCovers
  BY DEF StoreInv
<1> QED BY <1>1, StoreInvariant, PTL

\* Only a commit turns a waiting task's answer to success.
LEMMA OnlyCommitAcknowledges ==
    ASSUME TypeOK, MainInv, [Next]_vars, NEW t \in Waiter, task[t].pc = "wait",
           task'[t].pc = "ok"
    PROVE  Commit /\ t \in txn.acks
<1>m. "main" \in Waiter /\ Task \subseteq Waiter
  BY DEF Waiter
<1>0. task \in [Waiter -> TaskRecord]
  BY DEF TypeOK
<1>1. CASE UNCHANGED vars
  BY <1>1 DEF vars
<1>2. CASE MutateStep
  <2>1. PICK u \in Task, m \in Batch, imm \in BOOLEAN, rpc \in BOOLEAN :
           Mutate(u, m, imm, rpc)
    BY <1>2 DEF MutateStep
  <2>2. task[u].pc = "idle" /\ \A v \in Waiter : v # u => task'[v] = task[v]
    BY <1>0, <2>1 DEF Mutate
  <2> QED BY <2>2
<1>3. ASSUME NEW u \in Task, SendBatch(u) \/ Respond(u) PROVE FALSE
  <2>1. task[u].pc # "wait" /\ \A v \in Waiter : v # u => task'[v] = task[v]
    BY <1>0, <1>3 DEF SendBatch, Respond
  <2> QED BY <2>1
<1>4. ASSUME NEW u \in Waiter, SendFlush(u) PROVE FALSE
  <2>1. task[u].pc # "wait" /\ \A v \in Waiter : v # u => task'[v] = task[v]
    BY <1>0, <1>4 DEF SendFlush
  <2> QED BY <2>1
<1>5. CASE Collect \/ Seal \/ Checkpoint \/ CheckpointFails \/ Persist
  BY <1>5 DEF Collect, Seal, Checkpoint, CheckpointFails, Persist
<1>6. CASE Commit
  BY <1>6 DEF Commit, Acknowledge
<1>7. CASE CommitFails
  <2>1. task'[t] = IF t \in txn.acks THEN [task[t] EXCEPT !.pc = "err"] ELSE task[t]
    BY <1>7 DEF CommitFails, Acknowledge
  <2>2. task[t] \in TaskRecord
    BY <1>0
  <2> QED BY <2>1, <2>2 DEF TaskRecord
<1>8. CASE Shutdown
  BY <1>0, <1>8 DEF Shutdown, MainInv
<1>9. CASE Reopen
  BY <1>9 DEF Reopen, IdleTask
<1> QED BY <1>1, <1>2, <1>3, <1>4, <1>5, <1>6, <1>7, <1>8, <1>9, NextCases

\* An acknowledged flush has made durable every write enqueued before it, the
\* caller's own among them.
THEOREM FlushIsDurable == Spec => AckedFlushIsDurable
<1> DEFINE Told(t) == task[t].pc = "wait" /\ task'[t].pc = "ok"
           Kept(t) == /\ \A n \in DOMAIN queue' : queue'[n].by # t
                      /\ \A k \in Keys \ lost' :
                            (\A n \in DOMAIN queue' : queue'[n].m[k] = "keep")
                               => durable'[k] = sent'[k]
<1>1. StoreInv /\ [Next]_vars => [\A t \in Waiter : Told(t) => Kept(t)]_vars
  <2> SUFFICES ASSUME StoreInv, [Next]_vars, NEW t \in Waiter, Told(t)
               PROVE  Kept(t)
    OBVIOUS
  <2>1. Commit /\ t \in txn.acks
    BY OnlyCommitAcknowledges DEF StoreInv
  <2>2. /\ queue' = queue /\ lost' = lost /\ sent' = sent
        /\ txn.imm
        /\ \A n \in DOMAIN queue : queue[n].by # t
    BY <2>1 DEF Commit, history, StoreInv, AckInv
  <2>3. durable' = Merge(table, txn.m)
    BY <2>1, <2>2 DEF Commit
  <2>4. ASSUME NEW k \in Keys \ lost, \A n \in DOMAIN queue : queue[n].m[k] = "keep"
        PROVE  durable'[k] = sent[k]
    <3>1. LastWrite(k, sent[k])
      BY DEF StoreInv, WritesKeepOrder
    <3> QED BY <2>3, <2>4, <3>1 DEF LastWrite
  <2> QED BY <2>2, <2>4
<1> QED BY <1>1, StoreInvariant, PTL DEF Spec, AckedFlushIsDurable

=============================================================================
