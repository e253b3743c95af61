# A TLA+ model of shachain2pc

shachain2pc is a two-party implementation of Lightning's shachain: Alice and
Bob hold shares of a 256-bit root and jointly compute the per-commitment
secrets of a channel with an AG2PC circuit, so that neither can reveal a
secret alone. Two daemons, one per party, keep a *frontier* of precomputed
authenticated nodes so that a reveal is cheap, a *shachain store* of secrets
already revealed, and a recovery database.

The project models the daemons' concurrent core (how a secret is revealed, how
precompute jobs are scheduled and run on both sides, how the state reaches the
disk, what survives a crash) and the party below it: which circuits make which
value, how two parties stay in step over two byte streams, and how a run
shares memory between wires. All paths below
are relative to `src/rust/crates/`; `PROJECT.json` maps every definition to
its lines.

## Inventory

| component | state | operations | interaction | what makes it correct |
|---|---|---|---|---|
| reveal (`daemon/state.rs`, `services.rs`, `helpers.rs`) | known secrets, frontier nodes, Bob's `pending_reveals` with oneshot senders | Reveal, RevealCached, reconcile, full derivation, store secret | gRPC between the daemons, one mutex, `Notify`, timeouts, cancellation by a disconnecting client | no reveal without both operators; no wrong secret; no stuck call; no secret forgotten |
| recovery cache (`daemon/db.rs`) | the in-memory channel records, a bounded queue, a transaction, a dirty flag, the redb table | batches of mutations, flush, checkpoint, shutdown, restart | handlers and precompute tasks -> mpsc queue -> writer task -> blocking pool | order kept; acknowledged means durable; lazy commits get durable |
| legacy migration (`daemon/db.rs`) | three files and what a power loss leaves of them | the file steps of `DbStore::open` | none (start-up) | the records survive every interruption |
| precompute jobs and sessions (`daemon/state.rs`, `precompute_driver.rs`) | scheduled channels, active jobs, sessions and abort handles, checked units | scheduler tick, begin/finish/fail a job, incoming session, abort | JobStream between the daemons, worker limit shared with the peer | lifetime cap and worker limit respected; a job always ends; wires bound to the parameters they were made under |
| control and peer services (`daemon/services.rs`, `lib.rs`) | the channel registry, config | enable, disable, set_config, status, job_stream | gRPC | answers only after the registry is durable; a disabled channel stays empty |
| session handshake and frames (`mpc-runner`, `mpc-types`) | handshake phase, binding | hello exchange, framed send/receive | both peers | both sides agree or both fail |
| byte streams (`emp-wire`, `daemon/services.rs`) | read remainder, write buffer, queue | read/write/flush, chunking | frames of a JobStream | bytes neither lost nor reordered |
| party jobs (`party`) | `PrecomputeSession` with its parent cache; trunk, tiles and stack of the range modes | precompute target, open node, full derivation, range derivations | both peers in lock step | every value is that of its index; the work announced is the work done |
| circuit (`circuit`, `emp-compat/program.rs`) | none | parse, chain hashes, tile | none | a circuit chains the hashes of its index |
| AG2PC engine (`emp-compat`, `mpc-core`) | correlations left over, transcripts, wires in shared slots | OT, triples, garbling, checks, reveal | two streams | both parties agree on every message without being told; a slot is not reused while it is live; nothing is opened unchecked |
| shared types, CLI, C++ reference | none | conversions, argument parsing, probes | none | not modelled |

What is hard here and hardly reached by a unit test: the rendezvous of two
daemons' calls through one table under timeouts, lost responses and
cancellations; jobs that finish on one side only; batches that leave the lock
in one order and reach the queue in another; sessions that are superseded,
refused or aborted while a job of theirs is between two critical sections;
lazily durable commits; crashes between any two of these; and, below, byte
streams without message types, on which one different count shifts everything. `PROJECT.json` lists each hazard at its line, with the
properties that cover it or why none does yet.

## Modules

    JointReveal                        what the two daemons promise
        ^ INSTANCE ... WITH
    CachedReveal  <- RevealRefinement <- MCCachedReveal
        ^                              (RevealRendezvous, RevealGenerations,
        |                               RevealStore, RevealMismatch,
        |                               RevealDuplicate .cfg)
        CachedRevealProofs
    PrecomputeJobs <- PrecomputeJobsProofs
        ^ MCPrecomputeJobs             (PrecomputeJobs .cfg)
    DbStore       <- DbStoreProofs
        ^ MCDbStore                    (DbStore, DbStaleScalars .cfg)
    DbMigration   <- DbMigrationProofs (DbMigration .cfg)
    ShachainIndex <- Derivation        (Derivation .cfg)
    AgSession     <- AgSessionProofs <- AgSessionLockstep <- AgSessionStreams
        ^ MCAgSession                  (AgSession .cfg)
    SlotPlan      <- SlotPlanProofs    (SlotPlan .cfg)

The modules meet at what one takes from another. `CachedReveal` has a joint
run as one step that either side may fail to finish; `PrecomputeJobs` is that
step taken apart, with sessions and jobs but without what the nodes are worth;
its plan costs a number of units, which `Derivation` computes; a target's run
is a list of programs to `AgSession`, which counts what they exchange, and a
program is a list of gates to `SlotPlan`.

`CachedReveal` takes what `DbStore` provides as two actions: `Checkpoint`
(secrets and single nodes become durable independently of each other) and
`Restart` (from the durable snapshot, or from nothing if the operator lost the
file).

Definitions whose comment starts with *Mutant* are the broken variants that
show each property can fail; they are in no specification.

### CachedReveal

One channel, nonzero indices, both daemons. A 48-bit index is the set of its
one-bits, which makes `CanDerive` the mask test of `derive_from_known`. A
frontier node is the number of the joint MPC run that made it: every run uses
fresh randomness, so two halves verify each other's MAC digest exactly when
they come from one run (`MacVerifies`). A secret is `good` or `bad`; a bad one
is what opening halves of two runs would give.

| code | model |
|---|---|
| `reveal` (`state.rs`) | `BeginReveal`, `LoadMissing`, `DropUnmatched` back to the second attempt, `StoreRevealed`; `call[c].pc` is the await point the call is at |
| `reveal_cached_node_via_peer` (Alice) | `SendRevealCached`, `RpcResponse`, `RpcLost` |
| `await_incoming_cached_reveal` (Bob) | `AwaitIncoming` (both the wait and the refusal, which replaces the pending sender first), `AwaitResult`, `AwaitTimeout`, `CancelAwait` |
| `take_pending_reveal`, `complete_peer_cached_reveal` | `HandlerTake`, `HandlerTimeout`, `HandlerLoad`, `HandlerComplete`, `HandlerDropped` |
| `reconcile_with_peer` | `FetchFrontier`, `FetchFails`, `DropUnmatched`: the peer's frontier is read before the lock is taken |
| `run_full_derivation` and the digest exchange | `FullDerivation` (either side may fail after the other has finished), `FullDerivationFails` |
| `store_known_secret` | `StoredSecrets`, `store_known_secret` |
| scheduler, `precompute_path_jobstream`, `store_precomputed_target_wires_and_finish_job` | `SchedulerFetch`, `SchedulerDrop`, `JointPrecompute` (finishes on any subset of the sides), `SchedulerStops`, `StorePrecomputed` |
| a crash, a deleted database | `Checkpoint`, `Restart` |

Each action is one critical section or one await point, so a handler's load,
check and store interleave with everything else. `auth` is a history variable:
the indices each operator declared next.

### DbStore

One channel: its scalars record (the value is the enabled flag; the counters
travel with it) and a secret and a node record per index. Every operation that
enqueues a batch is an action: it changes memory and builds the batch under the
lock (`Mutate`), and `SendBatch` enqueues it in a later step, as
`write_batch` does after the lock is dropped. The writer collects
(`Collect`), seals when the queue is empty (`Seal`), commits or fails
(`Commit`, `CommitFails`), checkpoints while dirty (`Checkpoint`,
`CheckpointFails`). redb's own persistence of an eventual commit is `Persist`.
`Shutdown`, `Exit` and `Crash` end the process; `Reopen` is
`load_redb_state`. History: `sent` (the effect of all batches enqueued so
far), `lost` (records whose last write was in a failed transaction), `solo`
and `promised` (the registry value a client was told is stored).

### DbMigration

`DbStore::open` file step by file step. `maybe` holds the directory states a
power loss may leave: those since the last `sync_parent_dir`.

### JointReveal and RevealRefinement

`JointReveal` is what an operator may rely on, without daemons, calls or
nodes: a party learns an index's secret only when both operators have asked
for it, it then knows the true secret and all it derives, and it forgets only
by a loss of its database. `RevealRefinement` maps `CachedReveal` to it: a
party *knows* what `derive_known` would answer from its stored secrets. A step
of `CachedReveal` that stores a secret is a `Learn`, `BeginReveal` is an `Ask`,
`Restart` is a `Lose`, everything else is a stutter; that a lost answer makes
the two parties learn at different times is why `Learn` is per party.

### PrecomputeJobs

Both daemons, several channels, with one action per critical section or await
point of the scheduler, of Alice's task, of Bob's session and of the control
calls.

| code | model |
|---|---|
| `scheduler_candidates`, `run_scheduled_precompute` | `Schedule`, `End` (which clears the channel's mark, whoever set it) |
| `run_scheduled_precompute_inner`, `precompute_path_jobstream` up to the job | `PeerFrontier`, `FetchFrontier`, `Reconcile`, `ChooseTarget`, in two rounds |
| `precompute_session_handle`, `open_peer_job_streams` | `SessionHandle`, `OpenStream` for each of the two streams, `CallFails` |
| `register_incoming_job_stream` | `OpenStream` (entry, slot, spawn) and, in a later step, `RecordHandle` (replace the handle, abort the old session) |
| `begin_incoming_precompute_session`, set-up | `BeginIncomingSession`, `SetUp`, `SetUpFails` |
| `run_outgoing_precompute_session` | `Plan`, `SendTarget`, `RunDone`, `RunFails`, `LoopEnds` |
| `begin_precompute_jobstream`, `store_precomputed_...`, `finish_job` | `BeginJob`, `StoreTarget`, `FinishTask`, `SessionStopped` |
| `run_incoming_precompute_session` | `RecvTarget`, `BeginIncomingTarget`, `IncomingStore`, `IncomingFails`, `IncomingFinish`, `Unregister` |
| `set_config`, `enable_channel`, `disable_channel` | `SetConfig`, `EnableChannel`, `DisableChannel` and, after its flush, `DisableDrops` |
| a kill and a restart | `RestartAlice`, `RestartBob` |

A session is known by the name Alice gives it, `job_id` with a counter that
restarts with her; `streams` records which openings' streams Bob joined.
`EntryFor` and `WithStream` are the table of half-open sessions, `Current`,
`Arrived` and `Pending` the commands of a session. `peak` is a history
variable: the largest worker count and caps configured.

### Derivation, ShachainIndex

A value is the sequence of bits flipped and hashed on the way to it, so two
values are equal only if the same hashes made them, and BOLT 3's
`generate_from_seed` is the reference. `Derivation` runs every mode of
`run_party` (one circuit per index; a shared trunk and branches; the cache mode
with recursive tiles or with the aligned stack; chunks), the precompute path
and the `PrecomputeSession` with its cache, pruning and announced units. A
step is one `run_program` or one reveal. `CACHE_TILE_HEIGHT` and the index
width are constants.

### AgSession

Two parties run one job (a standalone derivation, a reveal with or without a
set-up, a daemon's precompute session) over two byte streams. A party is a
stack of calls; a call expands into the calls of its body, or is a
`tokio::try_join!`: one sequence of sends and receives per stream. A receive
takes as many words as it asked for, whatever they are: message kinds are tags
for the properties only. Kept are the parameters compared, all counts and
sizes (chunks of OT correlations, what is left over, buckets, garbling chunks),
the transcripts coins are drawn from, frames, bounded queues and closing.
`Fail` lets a party stop anywhere.

### SlotPlan

Every program of a bounded number of gates, built gate by gate, then the
passes of `run_program` over it on either side: liveness, slots and masks,
garbling and the gamma digest (Alice) or evaluation (Bob), gathering. A wire's
share, masked value and labels are sums of those of inputs and AND outputs, so
a value is the set of its terms, and `Combined` what a gate without ANDs makes
of two of them. `Computed` names the fields each pass computes.
`CapacityStart` and `CapacityAfter` are `ag2pc_slot_capacity`, which works
out the number of slots ahead of the pass that gives them away.

## Runs

| run | instance | shows |
|---|---|---|
| `reveal_rendezvous` | 1 index, Alice 1 call, Bob 2, 1 joint run | `PendingMatchesWaiter`: a sender is in one place and its listener still waits for that index. `CallsReturn`: no call is left waiting in the cached path |
| `reveal_generations` | 1 index, 1+1 calls, 2 joint runs, 1 restart | `RevealedCorrect`: halves of different runs meet and nothing wrong is stored. `ImplementsJointReveal`: every behaviour is one of `JointReveal` |
| `reveal_store` | 2 indices (one derives the other), 1 joint run, 1 restart | `NoUnauthorizedReveal`, `StoreIrredundant`, `SecretsStayDerivable` |
| `reveal_mismatch` | 3 joint runs, scheduler fair | violation, see below |
| `reveal_duplicate` | Bob 2 calls | violation, see below |
| `db_store` | 2 tasks, queue of 2, 3 mutations, 1 failure, 1 restart | `WritesKeepOrder`, `DirtyCovers`, `AckedFlushIsDurable`, and `EventuallyDurable` by the checkpoint alone |
| `db_stale_scalars` | no failures | violation, see below |
| `db_migration` | 4 starts | `NoMigrationLoss`, `ServesMigrated`, `EventuallyServes` |
| `precompute_jobs` | 2 channels, 2 tasks, 1 or 2 workers, caps 1 or 2, 2 sessions, 2 control calls or restarts | `CapHolds`, `WorkersHold`; `OneRunPerChannel`: runs of a channel never overlap and none loses its job; `PairedStreams`; `DisabledIsQuiet`; `NoStuckTask`; `JobsAreOwned` |
| `derivation` | 5-bit indices, all ranges, tile height 2, chunks of 2, 3 targets | `ValuesExact`, `NothingMissing`, `PlannedUnitsAreRun`, `PruningIsFree` |
| `ag_session` | 4 kinds of job, programs of 3 and 0 ANDs, 3 targets, queues of 3 frames, 1 fault, 5 configurations | `WordsInStep`, `HonestRunSucceeds`, `AgreedBeforeStart`, `CheckedBeforeOpened`, `JobEnds` |
| `slot_plan` | all programs of up to 4 gates over 1 input, both parties | `ReadsAreRight`: sharing slots is invisible to every pass; `CapacityIsExact`; `OutputsAreRight` |

Bounds. Two calls of Bob on one index are what the pending table can confuse;
two joint runs are what makes halves differ; a third is left for the
recomputation that does not come. Two indices suffice for a store in which one
secret replaces another. Two tasks and a queue of two fill a transaction with
batches of both while a third waits. Four starts interrupt the migration, its
recovery, and the retry of each. Two channels compete for one worker, two
tasks of one channel meet when a mark is dropped, and a second session
supersedes a first; a cap of one or two units with targets of one makes the
cap bind; two control calls or restarts disable a channel and enable it
again, or restart both sides. Five bits hold a trunk, two levels of tiles of
two bits each and a level of one; three targets replace and prune cache
entries. Three ANDs with batches and chunks of two make every loop of the
engine run once and a half; a program without ANDs skips what a reader would
take for granted; three frames make senders wait. Four gates are enough for a
slot to be given away, taken, and read again while another is live. Deadlock
is not checked: a daemon whose operators ask for nothing rests, a job that is
done is done, and the bounded counters stop the rest.

Symmetry (channels and tasks of `precompute_jobs`) is used in a run of
invariants only; no definition chooses between members of these sets.

Fairness. `CallProgress` and `HandlerStep` are weakly fair: tokio polls every
ready task and timers fire, so a step that stays possible is taken. An
operator's request, a client's disconnect, a network failure and a peer that
joins a full derivation get no fairness. `reveal_mismatch` adds the scheduler,
which ticks every 200 ms, and strong fairness of a job's start. In `DbStore`
the writer and its checkpoint timer are weakly fair; `Persist` and the
failures are not. In `DbMigration` the daemon goes on with `open`. In
`AgSession` each party's steps are weakly fair (its task is polled while it
can go on) and faults are not. `PrecomputeJobs` states no fairness: its
`NoStuckTask` is an invariant, that a waiting task has somebody who can move.

### Where the code does not do what it says

- `reveal_mismatch`: when one job finishes on Bob only and the next on Alice
  only, both frontiers hold a node with the same public binding, reconciliation
  keeps both, and every RevealCached fails its MAC check, which is no cache
  miss. The docs say losing a half causes recomputation. No wrong secret is
  ever stored (`RevealedCorrect`): the pair is useless, not unsafe.
- `reveal_duplicate`: a second Reveal for the same index on Bob is refused as
  "already pending", but has by then replaced the first call's sender; both
  calls fail.
- `db_stale_scalars`: an unrelated batch built before a DisableChannel and
  enqueued after it writes the older enabled flag over the acknowledged one.

Observations, stated as the exceptions of passing properties
or as states that the models reach:

- `JobsAreOwned`: when a session of a channel is registered on Bob while an
  older one is inside `precompute_target` (Alice was restarted, or two of her
  tasks opened sessions), `state.rs:105` aborts the older one before its
  `finish_job`. Its active job stays until Bob restarts: later targets of the
  channel and DisableChannel are refused and a worker is lost, although
  `docs/daemon-service-plan.md:94` says a failed MPC job "drops in-flight
  state". All other failing paths finish their job.
- `OutputsAreRight`: for a program without AND gates Alice skips the gamma
  check (`session.rs:410`) in which she computes the masked values of XOR and
  INV outputs, and carries away zeros. The one such program is the seed root,
  and index 0 is revealed with Bob decoding for both, so nothing opens wrongly
  today; `docs/ag2pc-abort-audit.md:66` argues correct-or-abort from both
  masked values being right.
- `JobEnds`: a standalone party that has accepted the digest waits for the
  second connection without a deadline, for good if its peer has failed.
- An EnableChannel with other parameters during a job binds the node that is
  then stored to parameters it was not computed under (`state.rs:1384`); the
  peer's binding differs unless it changed too, and reconciliation drops it.
- A session that ends unregisters its channel even when the handle there is
  its successor's (`state.rs:573`): the successor can no longer be aborted.
- `trim_idle_allocations` never finds left-over correlations after
  `run_program`, which flushes them.

## Proofs

TLAPS checks these for every value of the constants: every set of indices,
calls, channels and tasks, every program of every length, every bound. The
assumptions only keep names apart and sizes and bounds natural
(`CallAssumption`, `IndexAssumption`, `BoundAssumption`, `TaskAssumption`,
`InputsAssumption`, `BoundsAssumption`, `SizesArePositive`, `JobsAssumption`,
each in the module that declares the constants).

| theorem | module | statement |
|---|---|---|
| `TypeCorrect` | `CachedRevealProofs` | `Spec => []TypeOK` |
| `WaitersMatched` | `CachedRevealProofs` | `[]PendingMatchesWaiter` |
| `Authorization` | `CachedRevealProofs` | `[]NoUnauthorizedReveal` |
| `Correctness` | `CachedRevealProofs` | `[]RevealedCorrect` |
| `StoreStaysIrredundant` | `CachedRevealProofs` | `[]StoreIrredundant` |
| `DerivableForGood` | `CachedRevealProofs` | `SecretsStayDerivable` |
| `Refinement` | `CachedRevealProofs` | `Spec => ImplementsJointReveal` |
| `StoreTypeCorrect` | `DbStoreProofs` | `[]TypeOK` |
| `WritesInOrder` | `DbStoreProofs` | `[]WritesKeepOrder` |
| `DirtyIsSound` | `DbStoreProofs` | `[]DirtyCovers` |
| `FlushIsDurable` | `DbStoreProofs` | `AckedFlushIsDurable` |
| `MigrationTypes` | `DbMigrationProofs` | `[]TypeOK` |
| `MigrationLosesNothing` | `DbMigrationProofs` | `[]NoMigrationLoss` |
| `MigrationServes` | `DbMigrationProofs` | `[]ServesMigrated` |
| `TypeCorrect` | `SlotPlanProofs` | `[]TypeOK` |
| `ReadsCorrect` | `SlotPlanProofs` | `[]ReadsAreRight` |
| `OutputsCorrect` | `SlotPlanProofs` | `[]OutputsAreRight` |
| `CapacityCorrect` | `SlotPlanProofs` | `[]CapacityIsExact` |
| `WorkersCorrect` | `PrecomputeJobsProofs` | `[]WorkersHold` |
| `CapCorrect` | `PrecomputeJobsProofs` | `[]CapHolds` |
| `OneRunCorrect` | `PrecomputeJobsProofs` | `[]OneRunPerChannel` |
| `OwnersCorrect` | `PrecomputeJobsProofs` | `[]JobsAreOwned` |
| `DisabledCorrect` | `PrecomputeJobsProofs` | `[]DisabledIsQuiet` |
| `PairedCorrect` | `PrecomputeJobsProofs` | `[]PairedStreams` |
| `TypeCorrect` | `AgSessionProofs` | `[]TypeOK` |
| `AgreedCorrect` | `AgSessionProofs` | `[]AgreedBeforeStart` |
| `CheckedCorrect` | `AgSessionProofs` | `[]CheckedBeforeOpened` |
| `WordsInStepCorrect` | `AgSessionStreams` | `[]WordsInStep` |
| `HonestRunCorrect` | `AgSessionStreams` | `[]HonestRunSucceeds` |

*Authorization and correctness.* That a stored secret was declared by both
operators says nothing of where it came from. `IInv` follows it back: what is
stored or durable (`StoreGood`), what a call is about to store (`CallGood`),
what a handler has sent to a waiting call (`RxGood`), the request and how far
Bob's handler got with it (`RpcAuth`, `RpcMatches`), the table entry
(`PendingAuth`), the call (`CallAuth`). `PendingMatchesWaiter` is part of it:
without it a handler could answer a call that waits for another index. The one
place where halves of two runs meet is `MacVerifies`.

*The store.* `StoreStaysIrredundant` and `DerivableForGood` rest on
`StoreChange` (a step leaves a party's store alone, stores one good secret, or
restarts it), `StoredIrredundant`, `StoredKeepsDerivable` and the transitivity
of `CanDerive`.

*The refinement.* `StepKinds` sorts the steps by what `JointReveal` sees of
them. A stored secret is a `Learn` because `IInv` says both operators asked for
it, and because `StoredDerives` says that the new store derives exactly what
the old one did and what the new secret derives. A restart is a `Lose` only if
the database answers nothing the memory did not: that is `Lags`, the part of
`RInv` that `IInv` lacks.

*The writer.* `StoreInv` adds to the properties where a flush can be
(`AckInv`): in the queue, as its task's last entry, or in the transaction, with
nothing of the task queued behind it; and that the main task waits for nothing
before the shutdown (`MainInv`). `WritesKeepOrder` is inductive with the types:
appending makes an operation the last write of what it writes, collecting
moves the head behind the transaction so far. `OnlyCommitAcknowledges` and
these give `FlushIsDurable`.

*The migration.* `Sound` names the three kinds of directory a migration ever
leaves (blob at path; blob retired and the copy waiting; copy installed), for
every state a power loss may leave and not only the current one; `AtStep` says
which of them each step of `open` starts from. `NoMigrationLoss` alone is not
inductive: that the store being installed is complete is known from the step.

*Shared slots.* That a gate reads the right values says nothing of the gates
still to come. `IInv` of `SlotPlanProofs` says that wires share a slot only if
neither persists and the first is read for the last time before the gate of the
second (`PlanOK`), that a slot is on the free list once and only when every
wire that had it is dead (`FreelistOK`), that the liveness pass never
understates a last use (`LivenessOK`), and then that every slot holds, in the
fields computed so far, the value of the last wire given it (`ContentsOK`). A
gate reads two wires that are not dead, so theirs are the last; that a freed
slot is given to the very gate whose operand freed it is why `PlanOK` allows
equality. `CapacityIsExact` runs `CapacityAfter` beside the slot pass
(`CapacityInv`: the two have the same slots and free list, gate by gate).

*Jobs and sessions.* `IInv` of `PrecomputeJobsProofs` ties jobs to who runs
them: Alice's to the task at a place between `BeginJob` and `finish_job`
(`AliceJobsOK`), Bob's to a session that runs, fails or was aborted
(`BobJobsOK`). One job per channel is then kept by the admission check alone,
and the sum that a cap bounds has at most one term (`ReservedIs`, `CapOK`),
which planning bounded when it read the cap; `LimitsOK` bounds what was read by
the history `peak`, so a lowered limit does not make a running job wrong.
`PairedStreams` needs names: a name is used once between restarts of Alice
(`NamesOK`), an entry of Bob's table holds streams of its own name only, and a
session being opened belongs to one task and has no end at Bob's before its
second stream (`OpeningOK`), so that streams of different openings never meet.
`SteadyStep` sorts the steps into those that open a session and those that
leave all of this alone, `JobStepHolds` into those that keep, lose, begin or
end a job; the parts of `IInv` are proved from these kinds and not from the
thirty actions. TLC checked each part on the runs' instance before it was
proved.

*Two parties over streams.* That nothing unchecked has been opened says nothing
of the decodes still on a party's stack. `CheckInv` of `AgSessionProofs` is
about the stack: only the call a party is in draws OT correlations
(`QuietTail`); a decode follows only calls that end in a check of them, or a
join that draws none with nothing unchecked left (`DecodesReady`); nothing is
drawn before the sibling stream is open (`OpensClean`); no decode comes after
the end (`EndIsLast`); and what is unchecked is marked as minted, is being
checked, or nothing is opened any more (`MarkedOrChecking`). For
`AgreedBeforeStart` the parties are taken to be configured differently
(`ApartInv`): then every word on the way carries its sender's parameters
(`WordsOK`, `Says`), and each party is before a check that must fail: the
handshake, the opening join, or the comparison with the peer's digest already
in hand (`OpensOK`). The types say that no message is empty, so that a receive
always takes words of the peer. There is one lemma per action for `CheckInv`
(`...Keeps`); most of them rest on what an expansion may put on the stack
(`QuietPush`, `DrawPush`, `JoinPush` and others like them).

*Streams in step.* What two parties of `AgSession` have still to exchange
cannot be compared stack by stack: the calls are not expanded yet, each party is
elsewhere in them, and what one does next depends on coins, on correlations
left over and on what it has received. `AgSessionLockstep` therefore first
builds, from the job and the parameters alone, the run that both parties make
if neither fails: a sequence of states (`IsRun`) in which both stacks are
expanded side by side (`Lockstep`) and a join takes both streams through their
messages one by one (`IsBranch`), together with the shared state of the OT, the
coins, and how many words each has sent. Two things are shown of it for all
sizes, programs and targets. The stacks always fit (`DualStacks`, kept by
`NextStacks`): where one sends on a stream, the other receives the same kind
and number of words, which is proved call by call for the bodies of AgSession
(`DualCompute`, `DualInputs`, `DualGarble` and others, with the chunk and
bucket counts symbolic). And every word of the run is one word (`SentOnce`),
because the counts of words never decrease (`RunGrows`).

Then the parties are placed on it. `LockInv` says that each party has a
`Position` (the call, the messages through on each stream, the words sent of
the next), that its stack, transcripts and correlations are those of the run at
that position (`Placed`), and that between two parties lie, cut into frames or
already buffered, exactly the words from what one has consumed to what the
other has sent (`OnTheWay`). A failed party keeps the position it stopped at,
so this holds of all runs and not only of honest ones; a party configured apart
follows the run up to the comparison that stops it. `Tracked` adds that no
honest party has failed. `LockInv` needs the `IInv` of `AgSessionProofs` (the
types, and that parties configured apart fail at their comparison). There is one
lemma per action (`...Tracks`): a call that both make moves a party to the next
call of the run (`FitsNext`, `MakesHere`), and `MovesOut` and `MovesIn` are what
a frame sent or a message consumed does to `OnTheWay`. `WordsInStep` follows as
the words at hand are those of the message awaited (`AtHand`);
`HonestRunSucceeds` is a part of `Tracked`, whose hard cases are that what is
compared was computed from the same transcript (`Heard`, `AbsorbedIs`), and that
a stream is found closed by an honest party only when Bob waits for a target
that will not be named (`NotClosed`: a party that is done has sent all that its
peer can ask for, `EndedSpoke`).

The run is a recursive function on the numbers. The library's theorems on
those take operators as parameters, which no installed prover instantiates;
`NatInd` and `Recursion` state the same for sets and functions, and rest on the
library's proof that the order of the numbers is well founded.

Only model-checked: the liveness properties (`CallsReturn`,
`EventuallyDurable`, `EventuallyServes`, `JobEnds`), which need fairness, and
`NoStuckTask`, which is stated with ENABLED: both are out of the prover's reach;
and what `Derivation` computes (`ValuesExact`, `NothingMissing`,
`PlannedUnitsAreRun`, `PruningIsFree`), which is about the bits of an index and
needs the arithmetic of powers of two and of selected subsequences, for which
neither the provers nor the library have facts.

## Assumptions and what is left out

- A redb transaction is atomic; after an error its effect is nil. A failure is
  followed by successes in the model, although redb 2 refuses later
  transactions after an I/O error: the model allows more.
- Directory operations become durable in order; `fsync` of the directory
  completes them.
- Encryption, key derivation, encoding of records: they neither lose nor change
  a record.
- In `CachedReveal` secrets reach the disk in the order they were stored;
  single nodes do not. The channel stays enabled and the security parameters
  do not change. Index 0 goes over the legacy TCP job and is not there.
- In `PrecomputeJobs` a channel's `ssp_target` and cap are one number, since
  they are set, sent and compared together, and both sides of a session plan
  the same units, since their caches have one history (`Derivation`). A restart
  keeps the channel's record: what a database may lose is `CachedReveal`'s and
  `DbStore`'s.
- The two parties of `Derivation` run one machine: what they branch on is in
  the digest they compared (`AgreedBeforeStart`).
- The values of oblivious transfer, triples and garbling are field elements
  that no small instance represents. `AgSession` keeps which words a check
  covers and fails it when they are not the ones sent for it, `SlotPlan` the
  linear structure of a run; what an adversary could send is not modelled.
- Not under any module: the SHA-256 gate list and the Bristol parser, the
  bit-level encodings that match the C++ wire format, the hash and PRG code of
  `mpc-core` (pure functions of bytes, compared with the reference by the
  repository's vectors).
- Status calls, cookies, TLS, the CLI, the C++ reference: no state of their own
  or I/O only.

## Plan

What is modelled stands as above, and every safety invariant of the runs is
proved but for `NoStuckTask` and those of `Derivation`. For these one would
begin with lemmas on binary expansions (`BitSet` of a sum of distinct powers of
two, `SetBitsDesc` of an index split at a bit), which `NatInd` can give; then
`ValuesExact` is an induction over the groups of a trunk and the levels of a
tiling.
