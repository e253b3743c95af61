----------------------------- MODULE AgSession -----------------------------
(***************************************************************************)
(* Two parties run one AG2PC job over a pair of byte streams.              *)
(*                                                                         *)
(* A party is a stack of calls, st[p].todo, headed by the call it is in.   *)
(* A call either expands into the calls its body makes, or it is a         *)
(* tokio::try_join! of one branch per stream: two sequences of sends and   *)
(* receives that advance independently.  Nothing on the wire says what a   *)
(* message is: a receive takes as many words as it asked for, whatever     *)
(* they are, so both parties must agree on every message, its length and   *)
(* its place, on each stream, from what they compute locally.  Words carry *)
(* a tag here so that the properties can tell; no action looks at it to    *)
(* choose what to do, except that a check over the wrong words fails.      *)
(*                                                                         *)
(* Cryptographic values are left out.  What stays is what they depend on:  *)
(* the transcript (how many words went each way on a stream), because      *)
(* both parties derive public coins from it, and the parameters the        *)
(* parties agree on before they start.                                     *)
(***************************************************************************)
EXTENDS Integers, Sequences

CONSTANTS
    Jobs,         \* the kinds of job that may be run
    Programs,     \* AND-gate counts of a derivation's programs, in order
    Targets,      \* per session target, the AND counts of its programs
    ChunkOts,     \* SOFTSPOKEN_CHUNK_OTS: correlations one chunk yields
    ChunkBlocks,  \* SOFTSPOKEN_CHUNK_BLOCKS: words of a full chunk
    BaseOts,      \* base OTs of one bootstrap
    MaskBatch,    \* masks the program runner draws at a time
    GarbleChunk,  \* AG2PC_GARBLE_CHUNK_ANDS
    ValueBits,    \* words of a 256-bit value
    Ssp,          \* statistical security parameter of the job
    FrameWords,   \* JOBSTREAM_PAYLOAD_CHUNK_BYTES, in words
    Capacity,     \* frames a stream holds in one direction
    MaxFaults     \* bound on parties that fail by themselves

ASSUME SizesArePositive ==
    /\ \A n \in {ChunkOts, ChunkBlocks, BaseOts, MaskBatch, GarbleChunk,
                 ValueBits, FrameWords, Capacity} : n \in Nat \ {0}
    /\ Ssp \in Nat /\ MaxFaults \in Nat
ASSUME JobsAssumption ==
    /\ Jobs \subseteq {"derive", "reveal", "fast", "session"}
    /\ Programs \in Seq(Nat)
    /\ Targets \in Seq(Seq(Nat))

VARIABLES
    job,      \* the job being run
    params,   \* the parameters each party was configured with
    st,       \* each party's local state
    wire,     \* wire[p][s]: frames p has sent on s, not yet pulled
    buf,      \* buf[p][s]: words p has pulled from s and not consumed
    faults    \* parties that failed by themselves so far

vars == <<job, params, st, wire, buf, faults>>
net  == <<wire, buf>>
rest == <<job, params, faults>>

Party  == {"Alice", "Bob"}
Stream == {"main", "sibling"}
Peer(p) == IF p = "Alice" THEN "Bob" ELSE "Alice"

-----------------------------------------------------------------------------
(* Calls, and what a branch of a join does.                                *)

Send(kind, n) == [dir |-> "send", kind |-> kind, n |-> n]
Recv(kind, n) == [dir |-> "recv", kind |-> kind, n |-> n]
Call(op, arg) == <<[op |-> op, arg |-> arg]>>
Calls(op, args) == [i \in DOMAIN args |-> [op |-> op, arg |-> args[i]]]

\* A join with nothing to do returns at once.
Join(main, sibling) ==
    IF main = <<>> /\ sibling = <<>> THEN <<>>
    ELSE <<[op |-> "join", main |-> main, sibling |-> sibling]>>
OnMain(ops) == Join(ops, <<>>)

\* A loop that makes the same calls n times.
Times(n, seq) ==
    [i \in 1..(n * Len(seq)) |-> seq[((i - 1) % Len(seq)) + 1]]
CeilDiv(a, b) == (a + b - 1) \div b
Smaller(a, b) == IF a < b THEN a ELSE b

\* Alice sends on main while she receives on the sibling; Bob the reverse.
Exchange(p, out, in) ==
    IF p = "Alice" THEN Join(out, in) ELSE Join(in, out)

\* Each party is the sender of one correlated OT (abit 1) and the receiver
\* of another (abit 2), each on a stream of its own.
OnAbits(p, one, two) ==
    IF p = "Alice" THEN Join(two, one) ELSE Join(one, two)
AbitOf(p, s) == IF (p = "Alice") = (s = "sibling") THEN 1 ELSE 2

Calling(p, op) ==
    /\ st[p].run = "running"
    /\ st[p].todo # <<>>
    /\ Head(st[p].todo).op = op
Arg(p) == Head(st[p].todo).arg
Then(p, calls) == calls \o Tail(st[p].todo)
Fails(p) == [st EXCEPT ![p].run = "failed", ![p].todo = <<>>]

-----------------------------------------------------------------------------
(* Opening: the parties agree on what they run.                            *)

\* Standalone jobs compare a digest; Bob answers before he compares.
ExchangeCircuitDigest(p) ==
    /\ Calling(p, "exchange_digest")
    /\ st' = [st EXCEPT ![p].todo = Then(p,
                 (IF p = "Alice"
                    THEN OnMain(<<Send("circuit", 1), Recv("circuit", 1)>>)
                    ELSE OnMain(<<Recv("circuit", 1), Send("circuit", 1)>>))
                 \o Call("compare_digest", 0))]
    /\ UNCHANGED <<rest, net>>

CompareDigest(p) ==
    /\ Calling(p, "compare_digest")
    /\ st' = IF st[p].got = params[p] THEN [st EXCEPT ![p].todo = Then(p, <<>>)]
             ELSE Fails(p)
    /\ UNCHANGED <<rest, net>>

\* The second connection: Bob connects while Alice's listener is up, and
\* retries for ever when it is not; Alice accepts without a deadline.
OpenSibling(p) ==
    /\ Calling(p, "open_sibling")
    /\ IF p = "Alice" THEN st["Bob"].connected ELSE st["Alice"].run = "running"
    /\ st' = [st EXCEPT ![p].connected = TRUE, ![p].todo = Then(p, <<>>)]
    /\ UNCHANGED <<rest, net>>

\* A frame is a length and a body.
SendFrame(kind) == <<Send("length", 1), Send(kind, 1)>>
RecvFrame(kind) == <<Recv("length", 1), Recv(kind, 1)>>

\* Jobs over a JobStream prove their parameters to each other.
RunSessionHandshake(p) ==
    /\ Calling(p, "handshake")
    /\ st' = [st EXCEPT ![p].todo = Then(p,
                 IF p = "Alice"
                   THEN OnMain(SendFrame("start") \o RecvFrame("ack")
                               \o RecvFrame("start") \o SendFrame("ack"))
                   ELSE OnMain(RecvFrame("start") \o SendFrame("ack")
                               \o SendFrame("start") \o RecvFrame("ack")))]
    /\ UNCHANGED <<rest, net>>

-----------------------------------------------------------------------------
(* Transcripts: counts of the words each way since enable_fs.              *)

\* Mutant: each party hashes its own direction first.
SameOrder(p) == TRUE

\* Whether a party hashes its own direction first: only Alice does.
SendFirst(p) == p = "Alice"

GetDigest(f) ==
    IF f.first THEN <<f.sent, f.recd>> ELSE <<f.recd, f.sent>>

\* A public coin both parties draw from both transcripts.
DrawCoin(p) ==
    /\ Calling(p, "coin")
    /\ st' = [st EXCEPT
                ![p].coins = Append(@, <<GetDigest(st[p].fs["main"]),
                                         GetDigest(st[p].fs["sibling"])>>),
                ![p].todo = Then(p, <<>>)]
    /\ UNCHANGED <<rest, net>>

-----------------------------------------------------------------------------
(* Correlated OT.                                                          *)

CswRecv ==
    <<Send("seed", 1), Send("points", BaseOts), Recv("z", 1),
      Recv("chi", BaseOts), Recv("proof", 1), Recv("c0", BaseOts),
      Recv("c1", BaseOts), Send("otans", 1)>>
CswSend ==
    <<Recv("seed", 1), Recv("points", BaseOts), Send("z", 1),
      Send("chi", BaseOts), Send("proof", 1), Send("c0", BaseOts),
      Send("c1", BaseOts), Recv("otans", 1)>>

\* The OT sender plays the receiver of the base OTs, and the reverse.
BootstrapSend == CswRecv \o <<Recv("t_buf", ChunkBlocks), Recv("pprf", 1)>>
BootstrapRecv == CswSend \o <<Send("t_buf", ChunkBlocks), Send("pprf", 1)>>

\* Mutant: the OT sender's begin does not reset what was left over.
BegunKeepingSent(k, abit) ==
    [setup |-> TRUE, left |-> IF k = 1 THEN abit.left ELSE 0, check |-> <<>>]

\* What begin leaves of an abit: set up, nothing left over, a fresh check.
Begun(k, abit) == [setup |-> TRUE, left |-> 0, check |-> <<>>]

BeginAbits(p) ==
    /\ Calling(p, "begin_abits")
    /\ st' = [st EXCEPT
                ![p].abit = [k \in 1..2 |-> Begun(k, st[p].abit[k])],
                ![p].todo = Then(p, OnAbits(p,
                    IF st[p].abit[1].setup THEN <<>> ELSE BootstrapSend,
                    IF st[p].abit[2].setup THEN <<>> ELSE BootstrapRecv))]
    /\ UNCHANGED <<rest, net>>

\* next_n drains what the last chunk left and then draws whole chunks.
Drained(left, n) == Smaller(left, n)
ChunksFor(left, n) == CeilDiv(n - Drained(left, n), ChunkOts)
LeftAfter(left, n) ==
    left - Drained(left, n) + ChunksFor(left, n) * ChunkOts
         - (n - Drained(left, n))

GenCotShares(p) ==
    /\ Calling(p, "gen_cot")
    /\ LET n == Arg(p)
           chunks(k) == ChunksFor(st[p].abit[k].left, n)
       IN  st' = [st EXCEPT
                    ![p].minted = TRUE,
                    ![p].abit = [k \in 1..2 |->
                        [st[p].abit[k] EXCEPT !.left = LeftAfter(@, n)]],
                    ![p].todo = Then(p, OnAbits(p,
                        Times(chunks(1), <<Recv("d", ChunkBlocks)>>),
                        Times(chunks(2), <<Send("d", ChunkBlocks)>>)))]
    /\ UNCHANGED <<rest, net>>

\* The consistency check of every correlation since begin.
EndAbits(p) ==
    /\ Calling(p, "end_abits")
    /\ st' = [st EXCEPT ![p].todo = Then(p, OnAbits(p,
                 <<Recv("d", 1), Recv("x", 1), Recv("t", 1)>>,
                 <<Send("d", 1), Send("x", 1), Send("t", 1)>>))]
    /\ UNCHANGED <<rest, net>>

\* Mutant: the check waits for the end of the session.
NeverFlush(p) == FALSE

ShouldFlushCotCheck(p) == st[p].minted

MaybeFlushCotCheck(p) ==
    /\ Calling(p, "maybe_flush")
    /\ st' = IF ShouldFlushCotCheck(p)
             THEN [st EXCEPT ![p].minted = FALSE,
                             ![p].todo = Then(p, Call("end_abits", 0)
                                                 \o Call("begin_abits", 0))]
             ELSE [st EXCEPT ![p].todo = Then(p, <<>>)]
    /\ UNCHANGED <<rest, net>>

End(p) ==
    /\ Calling(p, "end")
    /\ st' = [st EXCEPT ![p].minted = FALSE,
                        ![p].todo = Then(p, Call("end_abits", 0))]
    /\ UNCHANGED <<rest, net>>

\* Dropping idle buffers drops the left-over correlations with them.
TrimIdleAllocations(p) ==
    /\ Calling(p, "trim")
    /\ st' = [st EXCEPT
                ![p].abit = [k \in 1..2 |-> [@[k] EXCEPT !.left = 0]],
                ![p].todo = Then(p, <<>>)]
    /\ UNCHANGED <<rest, net>>

-----------------------------------------------------------------------------
(* Authenticated AND triples.                                              *)

BoolWireLen(l) == (l + 7) \div 8

LeakyAndHalfgate(p, l) ==
    Exchange(p, <<Send("w", l)>>, <<Recv("w", l)>>)
    \o Exchange(p, <<Send("s", BoolWireLen(l))>>,
                   <<Recv("s", BoolWireLen(l))>>)

\* The smallest bucket with log2(max(l, 1024)) * (bucket - 1) > ssp; every
\* program here has fewer than 1024 ANDs, so the logarithm is 10.
GetBucketSize(ssp) == CHOOSE b \in 2..(ssp + 2) :
    /\ 10 * (b - 1) > ssp
    /\ \A c \in 2..(b - 1) : 10 * (c - 1) <= ssp

LayeredBucket(p, l, ssp) ==
    Times(GetBucketSize(ssp) - 1,
          Call("gen_cot", 3 * l) \o LeakyAndHalfgate(p, l) \o Call("coin", 0)
          \o Exchange(p, <<Send("shift", BoolWireLen(l))>>,
                         <<Recv("shift", BoolWireLen(l))>>))

\* Equality of the two parties' hashes, committed before it is opened.
FeqCheck(p) ==
    IF p = "Alice"
    THEN OnMain(<<Send("commit", 1), Recv("feq", 1), Send("feq", 1),
                  Send("nonce", 1)>>)
    ELSE OnMain(<<Recv("commit", 1), Send("feq", 1), Recv("feq", 1),
                  Recv("nonce", 1)>>)

ComputeInplace(p) ==
    /\ Calling(p, "compute")
    /\ LET l == Arg(p)
           bits == BoolWireLen(l)
       IN  st' = [st EXCEPT ![p].todo = Then(p,
                    IF l = 0 THEN <<>>
                    ELSE Call("gen_cot", l) \o LeakyAndHalfgate(p, l)
                         \o LayeredBucket(p, l, params[p].ssp) \o FeqCheck(p)
                         \o Exchange(p,
                              <<Send("open_a", bits), Send("open_b", bits)>>,
                              <<Recv("open_a", bits), Recv("open_b", bits)>>))]
    /\ UNCHANGED <<rest, net>>

-----------------------------------------------------------------------------
(* The protocol on top of them.                                            *)

\* Streams start their transcripts, and the abits are set up.
Setup(p) ==
    /\ Calling(p, "setup")
    /\ st' = [st EXCEPT
                ![p].fs = [s \in Stream |->
                    [on |-> TRUE, first |-> SendFirst(p),
                     sent |-> 0, recd |-> 0]],
                ![p].todo = Then(p, Call("begin_abits", 0))]
    /\ UNCHANGED <<rest, net>>

\* One owner's input bits: masked, opened, and given labels by Alice.
ProcessInputs(p) ==
    /\ Calling(p, "process_inputs")
    /\ LET n == ValueBits
           mine == Arg(p) = p
       IN  st' = [st EXCEPT ![p].todo = Then(p,
             Call("gen_cot", n)
             \o Exchange(p,
                  <<Send("share", n), Send("mac", 1)>>
                    \o IF mine THEN <<Send("masked", n)>> ELSE <<>>,
                  <<Recv("share", n), Recv("mac", 1)>>
                    \o IF mine THEN <<>> ELSE <<Recv("masked", n)>>)
             \o OnMain(IF p = "Alice" THEN <<Send("labels", n)>>
                                      ELSE <<Recv("labels", n)>>))]
    /\ UNCHANGED <<rest, net>>

\* Garbled ANDs travel in chunks, the last one short: tables, then bits.
GarbleSize(ands, i) == Smaller(GarbleChunk, ands - (i - 1) * GarbleChunk)
GarbleChunks(dir, ands) ==
    [i \in 1..(2 * CeilDiv(ands, GarbleChunk)) |->
        IF i % 2 = 1
        THEN [dir |-> dir, kind |-> "g", n |-> 2 * GarbleSize(ands, CeilDiv(i, 2))]
        ELSE [dir |-> dir, kind |-> "b", n |-> GarbleSize(ands, CeilDiv(i, 2))]]
GarblerPath(ands) ==
    GarbleChunks("send", ands)
    \o IF ands > 0 THEN <<Recv("lambda", BoolWireLen(ands)), Send("gamma", 1)>>
                   ELSE <<>>
EvaluatorPath(ands) ==
    GarbleChunks("recv", ands)
    \o IF ands > 0 THEN <<Send("lambda", BoolWireLen(ands)), Recv("gamma", 1)>>
                   ELSE <<>>

\* Masks, triples, garbling and the check of what they consumed.
RunProgram(p) ==
    /\ Calling(p, "run_program")
    /\ LET ands == Arg(p)
       IN  st' = [st EXCEPT
                    ![p].coins = <<>>,
                    ![p].todo = Then(p,
                        Times(CeilDiv(ands, MaskBatch),
                              Call("gen_cot", MaskBatch))
                        \o Call("compute", ands) \o Call("coin", 0)
                        \o Call(IF p = "Alice" THEN "garble" ELSE "evaluate", ands)
                        \o Call("maybe_flush", 0))]
    /\ UNCHANGED <<rest, net>>

Garble(p) ==
    /\ Calling(p, "garble")
    /\ st' = [st EXCEPT ![p].todo = Then(p, OnMain(GarblerPath(Arg(p))))]
    /\ UNCHANGED <<rest, net>>

Evaluate(p) ==
    /\ Calling(p, "evaluate")
    /\ st' = [st EXCEPT ![p].todo = Then(p, OnMain(EvaluatorPath(Arg(p))))]
    /\ UNCHANGED <<rest, net>>

\* Public opening: Bob checks Alice's share and sends the value back.
Decode(p) ==
    /\ Calling(p, "decode")
    /\ LET n == ValueBits
       IN  st' = [st EXCEPT ![p].todo = Then(p,
             IF p = "Alice"
             THEN OnMain(<<Send("share", n), Send("mac", 1), Recv("bits", n)>>)
             ELSE OnMain(<<Recv("share", n), Recv("mac", 1), Send("bits", n)>>))]
    /\ UNCHANGED <<rest, net>>

-----------------------------------------------------------------------------
(* A daemon session: Alice names targets, Bob follows.                     *)

RequestTarget(p) ==
    /\ Calling(p, "request")
    /\ st' = [st EXCEPT ![p].got = Arg(p),
                        ![p].todo = Then(p, OnMain(<<Send("target", 1)>>)
                                            \o Call("precompute", 0))]
    /\ UNCHANGED <<rest, net>>

ServeTarget(p) ==
    /\ Calling(p, "serve")
    /\ st' = [st EXCEPT ![p].todo = Then(p, OnMain(<<Recv("target", 1)>>)
                                            \o Call("precompute", 0)
                                            \o Call("serve", 0))]
    /\ UNCHANGED <<rest, net>>

\* A command that is no index is refused; a target found whole in the
\* session's cache runs and trims nothing.
PrecomputeTarget(p) ==
    /\ Calling(p, "precompute")
    /\ st' = IF st[p].got \in DOMAIN Targets
             THEN LET programs == Targets[st[p].got]
                  IN  [st EXCEPT ![p].todo = Then(p,
                          Calls("run_program", programs)
                          \o IF programs = <<>> THEN <<>> ELSE Call("trim", 0))]
             ELSE Fails(p)
    /\ UNCHANGED <<rest, net>>

SeedInputs == Call("process_inputs", "Bob") \o Call("process_inputs", "Alice")
OpenStreams == Call("exchange_digest", 0) \o Call("open_sibling", 0)

RunDerivationBatch ==
    Call("setup", 0) \o SeedInputs \o Calls("run_program", Programs)
    \o Times(Len(Programs), Call("decode", 0)) \o Call("end", 0)
RevealNodeJob == Call("setup", 0) \o Call("decode", 0) \o Call("end", 0)
RevealNodeFastJob == Call("decode", 0)
PrecomputeSession(p) ==
    Call("setup", 0) \o SeedInputs
    \o IF p = "Alice" THEN [k \in DOMAIN Targets |-> [op |-> "request", arg |-> k]]
                      ELSE Call("serve", 0)

\* Standalone jobs open their own streams, a session gets open ones.
Body(j, p) ==
    IF j = "session" THEN Call("handshake", 0) \o PrecomputeSession(p)
    ELSE OpenStreams \o [derive |-> RunDerivationBatch, reveal |-> RevealNodeJob,
                         fast |-> RevealNodeFastJob][j]

Finish(p) ==
    /\ st[p].run = "running" /\ st[p].todo = <<>>
    /\ st' = [st EXCEPT ![p].run = "done"]
    /\ UNCHANGED <<rest, net>>

-----------------------------------------------------------------------------
(* The streams.                                                            *)

\* The operation a branch of the current join is at.
Busy(p, s, dir) ==
    /\ Calling(p, "join")
    /\ Head(st[p].todo)[s] # <<>>
    /\ Head(Head(st[p].todo)[s]).dir = dir
Op(p, s) == Head(Head(st[p].todo)[s])

\* The stack once the branch is past its operation: a join whose branches
\* are both through returns.
Past(p, s) ==
    LET left == [Head(st[p].todo) EXCEPT ![s] = Tail(@)]
    IN  Join(left.main, left.sibling) \o Tail(st[p].todo)

\* The stack while the branch is in an operation with n more words to move.
Within(p, s, n) ==
    <<[Head(st[p].todo) EXCEPT ![s] = <<[Op(p, s) EXCEPT !.n = n]>> \o Tail(@)]>>
    \o Tail(st[p].todo)

\* What the words of a message stand for, where a check looks at them.
Payload(p, kind) ==
    CASE kind \in {"start", "ack", "circuit"} -> params[p]
      [] kind = "target" -> st[p].got
      [] kind = "t"      -> st[p].abit[2].check
      [] kind = "gamma"  -> st[p].coins
      [] OTHER           -> <<>>

\* Mutant: session parameters are received and not compared.
NoSessionChecks == {}

\* The handshake messages whose parameters are compared.
SessionChecks == {"start", "ack"}

\* A message that is checked is accepted when it says what this party
\* expects; any other is taken as it comes.
Accepts(p, kind, word) ==
    kind \in SessionChecks \cup {"t", "gamma"} =>
        /\ word.kind = kind
        /\ word.val = CASE kind = "t"     -> st[p].abit[1].check
                        [] kind = "gamma" -> st[p].coins
                        [] OTHER          -> params[p]

\* The transcript advances, and a chunk of OT draws its coin from it.
Moved(p, s, dir, n) ==
    IF st[p].fs[s].on
    THEN [st[p].fs EXCEPT ![s][IF dir = "send" THEN "sent" ELSE "recd"] = @ + n]
    ELSE st[p].fs
Absorbed(p, s, kind, fs) ==
    IF kind # "d" THEN st[p].abit
    ELSE [st[p].abit EXCEPT ![AbitOf(p, s)].check = Append(@, GetDigest(fs[s]))]

\* One frame of a message; a full stream holds the sender back.
SendData(p, s) ==
    /\ Busy(p, s, "send")
    /\ Len(wire[p][s]) < Capacity
    /\ LET op == Op(p, s)
           n  == Smaller(op.n, FrameWords)
           fs == Moved(p, s, "send", n)
       IN  /\ wire' = [wire EXCEPT ![p][s] = Append(@,
                 [i \in 1..n |-> [kind |-> op.kind, val |-> Payload(p, op.kind)]])]
           /\ st' = IF op.n > n
                    THEN [st EXCEPT ![p].fs = fs,
                                    ![p].todo = Within(p, s, op.n - n)]
                    ELSE [st EXCEPT ![p].fs = fs,
                                    ![p].abit = Absorbed(p, s, op.kind, fs),
                                    ![p].todo = Past(p, s)]
    /\ UNCHANGED <<buf, rest>>

\* A receiver pulls frames until it has the words it asked for.
PullFrame(p, s) ==
    /\ Busy(p, s, "recv")
    /\ Len(buf[p][s]) < Op(p, s).n
    /\ wire[Peer(p)][s] # <<>>
    /\ buf' = [buf EXCEPT ![p][s] = @ \o Head(wire[Peer(p)][s])]
    /\ wire' = [wire EXCEPT ![Peer(p)][s] = Tail(@)]
    /\ UNCHANGED <<st, rest>>

RecvData(p, s) ==
    /\ Busy(p, s, "recv")
    /\ Len(buf[p][s]) >= Op(p, s).n
    /\ LET op == Op(p, s)
           last == buf[p][s][op.n]
           fs == Moved(p, s, "recv", op.n)
       IN  /\ buf' = [buf EXCEPT ![p][s] = SubSeq(@, op.n + 1, Len(@))]
           /\ st' = IF Accepts(p, op.kind, last)
                    THEN [st EXCEPT
                            ![p].fs = fs,
                            ![p].abit = Absorbed(p, s, op.kind, fs),
                            ![p].got = IF op.kind \in {"circuit", "target"}
                                       THEN last.val ELSE @,
                            ![p].todo = Past(p, s)]
                    ELSE Fails(p)
    /\ UNCHANGED <<wire, rest>>

\* Mutant: a receive waits for words that never come.
RecvNeverCloses(p, s) == FALSE

\* A peer that ended closes the stream.  What it sent before it finished
\* still arrives; what a failed peer sent may be lost.
RecvSeesClose(p, s) ==
    /\ Len(buf[p][s]) < Op(p, s).n
    /\ \/ st[Peer(p)].run = "failed"
       \/ st[Peer(p)].run = "done" /\ wire[Peer(p)][s] = <<>>

\* The follower's wait for a next target ends this way in every session.
StreamClosed(p, s) ==
    /\ \/ Busy(p, s, "recv") /\ RecvSeesClose(p, s)
       \/ Busy(p, s, "send") /\ st[Peer(p)].run # "running"
    /\ st' = IF Op(p, s) = Recv("target", 1)
             THEN [st EXCEPT ![p].run = "done", ![p].todo = <<>>]
             ELSE Fails(p)
    /\ UNCHANGED <<rest, net>>

\* A party refuses a target, is aborted, or crashes, anywhere.
Fail(p) ==
    /\ st[p].run = "running" /\ faults < MaxFaults
    /\ faults' = faults + 1
    /\ st' = Fails(p)
    /\ UNCHANGED <<job, params, net>>

-----------------------------------------------------------------------------
Agreed == [job |-> 1, ssp |-> Ssp, digest |-> 1, binding |-> 1]

\* Parties configured differently differ in something; standalone jobs
\* compare only the digest, which covers the rest.
Configurations(j) ==
    {Agreed} \cup {[Agreed EXCEPT !.digest = 2]}
    \cup IF j = "session"
         THEN {[Agreed EXCEPT !.job = 2], [Agreed EXCEPT !.ssp = @ + 10],
               [Agreed EXCEPT !.binding = 2]}
         ELSE {}

Init ==
    /\ job \in Jobs
    /\ \E other \in Configurations(job) :
          params = [p \in Party |-> IF p = "Alice" THEN Agreed ELSE other]
    /\ st = [p \in Party |->
               [run |-> "running", todo |-> Body(job, p), minted |-> FALSE,
                abit |-> [k \in 1..2 |->
                             [setup |-> FALSE, left |-> 0, check |-> <<>>]],
                coins |-> <<>>, got |-> 0, connected |-> job = "session",
                fs |-> [s \in Stream |-> [on |-> FALSE, first |-> FALSE,
                                          sent |-> 0, recd |-> 0]]]]
    /\ wire = [p \in Party |-> [s \in Stream |-> <<>>]]
    /\ buf = [p \in Party |-> [s \in Stream |-> <<>>]]
    /\ faults = 0

Step(p) ==
    \/ ExchangeCircuitDigest(p) \/ CompareDigest(p) \/ OpenSibling(p)
    \/ RunSessionHandshake(p) \/ DrawCoin(p) \/ BeginAbits(p)
    \/ GenCotShares(p) \/ EndAbits(p) \/ MaybeFlushCotCheck(p) \/ End(p)
    \/ TrimIdleAllocations(p) \/ ComputeInplace(p) \/ Setup(p)
    \/ ProcessInputs(p) \/ RunProgram(p) \/ Garble(p) \/ Evaluate(p)
    \/ Decode(p) \/ RequestTarget(p) \/ ServeTarget(p) \/ PrecomputeTarget(p)
    \/ Finish(p)
    \/ \E s \in Stream : SendData(p, s) \/ PullFrame(p, s) \/ RecvData(p, s)
                         \/ StreamClosed(p, s)

Next == \E p \in Party : Step(p) \/ Fail(p)

Spec == Init /\ [][Next]_vars

\* A ready task is polled: neither party stops while it can go on.
FairSpec == Spec /\ \A p \in Party : WF_vars(Step(p))

-----------------------------------------------------------------------------
(* Properties.                                                             *)

\* Words stay in step.  Every word a party consumes is one its peer sent for
\* that very receive: chunk counts, left-over correlations, bucket layers
\* and garbling chunks computed apart never put the two byte streams out of
\* step (softspoken.rs next_n, triple_pool.rs, session.rs).
WordsInStep ==
    \A p \in Party, s \in Stream :
        Busy(p, s, "recv") =>
            \A i \in 1..Smaller(Op(p, s).n, Len(buf[p][s])) :
                buf[p][s][i].kind = Op(p, s).kind

\* An honest run passes.  When the parties are configured alike and neither
\* fails by itself, no check of the protocol rejects and no stream closes on
\* a party that still needs it: the coins both draw from their transcripts
\* agree although the streams advance in any interleaving.
HonestRunSucceeds ==
    faults = 0 /\ params["Alice"] = params["Bob"] =>
        \A p \in Party : st[p].run # "failed"

\* Nobody starts alone.  A party goes past the digest exchange, or past the
\* session handshake, only when both are configured alike.
AgreedBeforeStart ==
    \A p \in Party :
        st[p].fs["main"].on \/ (job # "session" /\ st[p].connected) =>
            params["Alice"] = params["Bob"]

\* Nothing is opened on unchecked correlations: when a value is revealed,
\* every OT chunk drawn so far has been through a consistency check.
CheckedBeforeOpened ==
    \A p \in Party : Calling(p, "decode") =>
        \A k \in 1..2 : st[p].abit[k].check = <<>>

\* accept_emp and connect_emp have no deadline.
AwaitsGonePeer(p) ==
    Calling(p, "open_sibling") /\ st[Peer(p)].run # "running"

\* Every job ends for both parties, through bounded streams and when either
\* fails anywhere, with one exception that the code has: a standalone party
\* that waits for the second connection of a peer that is gone.
JobEnds ==
    <>(\A p \in Party : st[p].run # "running" \/ AwaitsGonePeer(p))

=============================================================================
