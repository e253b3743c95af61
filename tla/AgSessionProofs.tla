-------------------------- MODULE AgSessionProofs --------------------------
(***************************************************************************)
(* Proofs about AgSession: whatever the sizes, programs, targets, frames   *)
(* and queues, and whoever fails, parties configured apart never start and *)
(* nothing is opened on unchecked correlations.                            *)
(***************************************************************************)
EXTENDS AgSession, SequenceTheorems, TLAPS

-----------------------------------------------------------------------------
(* Types.                                                                  *)

Digest == Int \X Int
Param == [job : Int, ssp : Nat, digest : Int, binding : Int]
Val == Param \cup Int \cup Seq(Digest) \cup Seq(Digest \X Digest)

\* What words are sent for; only those of a chunk draw a coin.
QuietKind == {"circuit", "length", "start", "ack", "seed", "points", "z", "chi",
              "proof", "c0", "c1", "otans", "t_buf", "pprf", "x", "t", "w", "s",
              "shift", "commit", "feq", "nonce", "open_a", "open_b", "share", "mac",
              "masked", "labels", "g", "b", "lambda", "gamma", "bits", "target"}
Kind == QuietKind \cup {"d"}
Word == [kind : Kind, val : Val]
Message == [dir : {"send", "recv"}, kind : Kind, n : Nat \ {0}]
QuietMessage == [dir : {"send", "recv"}, kind : QuietKind, n : Nat \ {0}]

\* What the body of a call may call, and what only the body of a job calls.
InnerOp == {"exchange_digest", "compare_digest", "handshake", "coin",
            "begin_abits", "gen_cot", "maybe_flush", "trim", "compute", "setup",
            "run_program", "garble", "evaluate", "request", "serve", "precompute"}
OuterOp == {"open_sibling", "decode", "end"}

QuietJoin == [op : {"join"}, main : Seq(QuietMessage), sibling : Seq(QuietMessage)]
InnerCall == [op : InnerOp, arg : Nat] \cup [op : {"process_inputs"}, arg : Party]
             \cup QuietJoin
QuietCall == InnerCall \cup [op : OuterOp, arg : Nat]
NoisyCall == [op : {"end_abits"}, arg : Nat]
             \cup [op : {"join"}, main : Seq(Message), sibling : Seq(Message)]
AnyCall == QuietCall \cup NoisyCall

FsRec == [on : BOOLEAN, first : BOOLEAN, sent : Int, recd : Int]
AbitRec == [setup : BOOLEAN, left : Int, check : Seq(Digest)]
PartyRec == [run : {"running", "done", "failed"}, todo : Seq(AnyCall),
             minted : BOOLEAN, abit : [1..2 -> AbitRec],
             coins : Seq(Digest \X Digest), got : Val, connected : BOOLEAN,
             fs : [Stream -> FsRec]]

TypeOK ==
    /\ job \in Jobs
    /\ params \in [Party -> Param]
    /\ st \in [Party -> PartyRec]
    /\ wire \in [Party -> [Stream -> Seq(Seq(Word))]]
    /\ buf \in [Party -> [Stream -> Seq(Word)]]

-----------------------------------------------------------------------------
(* What is left of a job, as far as openings are concerned.                *)

\* No correlation is waiting for its check.
Clean(r) == \A k \in 1..2 : r.abit[k].check = <<>>

\* Only the call a party is in draws coins of the OT extension.
QuietTail(t) == \A i \in DOMAIN t : i > 1 => t[i] \in QuietCall

\* The calls after which a decode may come: they leave nothing unchecked.
Checking == {"decode", "run_program", "maybe_flush", "begin_abits", "setup",
             "open_sibling"}
DecodesReady(r) ==
    \A i \in DOMAIN r.todo : r.todo[i].op = "decode" =>
        \/ i = 1 /\ Clean(r)
        \/ i > 1 /\ r.todo[i - 1].op \in Checking
        \/ i = 2 /\ r.todo[1] \in QuietJoin /\ Clean(r)

\* Before the sibling stream is open nothing is drawn.
Early == [op : {"exchange_digest", "compare_digest"}, arg : Nat] \cup QuietJoin
OpensClean(r) ==
    \A i \in DOMAIN r.todo : r.todo[i].op = "open_sibling" =>
        Clean(r) /\ \A j \in 1..(i - 1) : r.todo[j] \in Early

NoDecode(t) == \A i \in DOMAIN t : t[i].op # "decode"
EndIsLast(t) ==
    \A i, j \in DOMAIN t : i < j /\ t[i].op = "end" => t[j].op # "decode"

\* Correlations drawn and not checked are marked, or are being checked, or
\* nothing is opened any more.
Unchecked(r) == ~Clean(r) \/ (r.todo # <<>> /\ r.todo[1] \notin QuietCall)
MarkedOrChecking(r) ==
    Unchecked(r) /\ ~r.minted =>
        \/ r.todo # <<>> /\ r.todo[1].op = "begin_abits"
        \/ Len(r.todo) > 1 /\ r.todo[1].op \in {"end_abits", "join"}
           /\ r.todo[2].op = "begin_abits"
        \/ NoDecode(r.todo)

CheckInv(r) == /\ QuietTail(r.todo) /\ DecodesReady(r) /\ OpensClean(r)
               /\ EndIsLast(r.todo) /\ MarkedOrChecking(r)

-----------------------------------------------------------------------------
(* What parties configured apart can be doing.                             *)

Apart == params["Alice"] # params["Bob"]

\* The words of the opening carry their sender's parameters.
Says(p, word) ==
    IF job = "session" THEN word.kind \in {"start", "ack"} => word.val = params[p]
                       ELSE word.val = params[p]
WordsOK ==
    \A p \in Party, s \in Stream :
        /\ \A i \in DOMAIN wire[p][s] : \A j \in DOMAIN wire[p][s][i] :
              Says(p, wire[p][s][i][j])
        /\ \A j \in DOMAIN buf[p][s] : Says(Peer(p), buf[p][s][j])

OpeningKind(kind) ==
    IF job = "session" THEN kind \in {"length", "start", "ack"} ELSE kind = "circuit"
OpeningJoin(call) ==
    /\ call.op = "join" /\ call.sibling = <<>>
    /\ \A i \in DOMAIN call.main : OpeningKind(call.main[i].kind) /\ call.main[i].n = 1
Receives(main, kinds) ==
    \E i \in DOMAIN main : main[i].dir = "recv" /\ main[i].kind \in kinds

\* A party is before a check that will fail, or its run is over.
OpensSession(p) ==
    LET t == st[p].todo
    IN  \/ t[1].op = "handshake"
        \/ OpeningJoin(t[1]) /\ Receives(t[1].main, SessionChecks)
OpensStandalone(p) ==
    LET t == st[p].todo
        learnt == st[p].got = params[Peer(p)]
    IN  \/ t[1].op = "exchange_digest"
        \/ /\ OpeningJoin(t[1]) /\ Len(t) > 1 /\ t[2].op = "compare_digest"
           /\ Receives(t[1].main, {"circuit"}) \/ learnt
        \/ t[1].op = "compare_digest" /\ learnt
Opening(p) ==
    /\ ~st[p].fs["main"].on
    /\ job # "session" => ~st[p].connected
    /\ st[p].run = "running" =>
          /\ st[p].todo # <<>>
          /\ IF job = "session" THEN OpensSession(p) ELSE OpensStandalone(p)
OpensOK == \A p \in Party : Opening(p)

ApartInv == Apart => WordsOK /\ OpensOK

IInv == TypeOK /\ ApartInv /\ \A p \in Party : CheckInv(st[p])

-----------------------------------------------------------------------------
(* Sequences of calls.                                                     *)

\* What a stack is once its first call has become the calls of its body.
LEMMA Pushed ==
    ASSUME NEW S, NEW t \in Seq(S), t # <<>>, NEW X \in Seq(S)
    PROVE  /\ X \o Tail(t) \in Seq(S)
           /\ Len(t) \in Nat \ {0} /\ Len(X) \in Nat
           /\ Len(X \o Tail(t)) = Len(X) + Len(t) - 1
           /\ DOMAIN (X \o Tail(t)) = 1..(Len(X) + Len(t) - 1)
           /\ \A i \in 1..Len(X) : (X \o Tail(t))[i] = X[i]
           /\ \A i \in (Len(X) + 1)..(Len(X) + Len(t) - 1) :
                 (X \o Tail(t))[i] = t[i - Len(X) + 1]
<1>1. Len(t) \in Nat \ {0} /\ Len(X) \in Nat /\ t[1] = Head(t)
  BY EmptySeq
<1>2. Tail(t) \in Seq(S) /\ Len(Tail(t)) = Len(t) - 1
      /\ \A i \in 1..(Len(t) - 1) : Tail(t)[i] = t[i + 1]
  BY <1>1
<1>3. /\ X \o Tail(t) \in Seq(S)
      /\ Len(X \o Tail(t)) = Len(X) + Len(Tail(t))
      /\ \A i \in 1..(Len(X) + Len(Tail(t))) :
            (X \o Tail(t))[i] = IF i <= Len(X) THEN X[i] ELSE Tail(t)[i - Len(X)]
  BY <1>2
<1>4. DOMAIN (X \o Tail(t)) = 1..(Len(X) + Len(t) - 1)
  BY <1>3, <1>2, <1>1
<1>5. ASSUME NEW i \in (Len(X) + 1)..(Len(X) + Len(t) - 1)
      PROVE  (X \o Tail(t))[i] = t[i - Len(X) + 1]
  <2>1. i - Len(X) \in 1..(Len(t) - 1) /\ i \in 1..(Len(X) + Len(Tail(t))) /\ ~(i <= Len(X))
    BY <1>1, <1>2
  <2>2. (X \o Tail(t))[i] = Tail(t)[i - Len(X)]
    BY <2>1, <1>3
  <2>3. Tail(t)[i - Len(X)] = t[i - Len(X) + 1]
    BY <2>1, <1>2
  <2>4. QED
    BY <2>2, <2>3
<1>6. ASSUME NEW i \in 1..Len(X) PROVE (X \o Tail(t))[i] = X[i]
  BY <1>1, <1>2, <1>3
<1>7. QED
  BY <1>1, <1>2, <1>3, <1>4, <1>5, <1>6

LEMMA TimesType ==
    ASSUME NEW S, NEW seq \in Seq(S), NEW n \in Int
    PROVE  Times(n, seq) \in Seq(S)
<1> DEFINE m == n * Len(seq)
<1>1. Len(seq) \in Nat /\ m \in Int
  OBVIOUS
<1>2. \A i \in 1..m : seq[((i - 1) % Len(seq)) + 1] \in S
  <2> SUFFICES ASSUME NEW i \in 1..m PROVE seq[((i - 1) % Len(seq)) + 1] \in S
    OBVIOUS
  <2>1. Len(seq) # 0
    BY <1>1
  <2>2. (i - 1) % Len(seq) \in 0..(Len(seq) - 1)
    BY <1>1, <2>1
  <2>3. QED
    BY <2>2, <1>1
<1>3. Times(n, seq) = [i \in 1..m |-> seq[((i - 1) % Len(seq)) + 1]]
  BY DEF Times
<1> HIDE DEF m
<1>4. CASE m \in Nat
  BY <1>2, <1>3, <1>4, SeqDef
<1>5. CASE m \notin Nat
  <2>1. 1..m = 1..0
    BY <1>1, <1>5
  <2>2. [i \in 1..m |-> seq[((i - 1) % Len(seq)) + 1]] \in [1..0 -> S]
    BY <1>2, <2>1
  <2>3. Times(n, seq) \in [1..0 -> S]
    BY <2>2, <1>3
  <2>4. [1..0 -> S] \subseteq Seq(S)
    <3>1. 0 \in Nat
      OBVIOUS
    <3>2. QED
      BY <3>1, SeqDef, Zenon
  <2>5. QED
    BY <2>3, <2>4
<1>6. QED
  BY <1>4, <1>5

-----------------------------------------------------------------------------
(* The bodies of calls are calls.                                          *)

LEMMA Sizes ==
    /\ ChunkOts \in Nat \ {0} /\ ChunkBlocks \in Nat \ {0} /\ BaseOts \in Nat \ {0}
    /\ MaskBatch \in Nat \ {0} /\ GarbleChunk \in Nat \ {0} /\ ValueBits \in Nat \ {0}
    /\ FrameWords \in Nat \ {0} /\ Capacity \in Nat \ {0}
BY SizesArePositive

LEMMA Counts ==
    ASSUME NEW a \in Int, NEW b \in Int
    PROVE  /\ Smaller(a, b) \in Int
           /\ a > 0 => BoolWireLen(a) \in Nat \ {0}
           /\ \A c \in Nat \ {0} : CeilDiv(a, c) \in Int
<1>1. \A c \in Nat \ {0} : (a + c - 1) \div c \in Int
  OBVIOUS
<1>2. a > 0 => (a + 7) \div 8 \in Nat \ {0}
  OBVIOUS
<1> QED BY <1>1, <1>2 DEF Smaller, BoolWireLen, CeilDiv

LEMMA QuietMessages ==
    ASSUME NEW kind \in QuietKind, NEW n \in Nat \ {0}
    PROVE  Send(kind, n) \in QuietMessage /\ Recv(kind, n) \in QuietMessage
BY DEF Send, Recv, QuietMessage

LEMMA Messages ==
    /\ QuietMessage \subseteq Message
    /\ Seq(QuietMessage) \subseteq Seq(Message)
    /\ \A kind \in Kind, n \in Nat \ {0} :
          Send(kind, n) \in Message /\ Recv(kind, n) \in Message
<1>1. QuietMessage \subseteq Message
  BY DEF QuietMessage, Message, Kind
<1>2. Seq(QuietMessage) \subseteq Seq(Message)
  BY <1>1
<1>3. \A kind \in Kind, n \in Nat \ {0} :
          Send(kind, n) \in Message /\ Recv(kind, n) \in Message
  BY DEF Send, Recv, Message
<1> QED BY <1>1, <1>2, <1>3

LEMMA CallSets ==
    /\ InnerCall \subseteq QuietCall /\ QuietCall \subseteq AnyCall
    /\ NoisyCall \subseteq AnyCall /\ QuietJoin \subseteq InnerCall
    /\ Seq(InnerCall) \subseteq Seq(QuietCall) /\ Seq(QuietCall) \subseteq Seq(AnyCall)
    /\ Seq(InnerCall) \subseteq Seq(AnyCall)
<1>1. InnerCall \subseteq QuietCall /\ QuietCall \subseteq AnyCall
      /\ NoisyCall \subseteq AnyCall /\ QuietJoin \subseteq InnerCall
  BY DEF InnerCall, QuietCall, AnyCall
<1>2. \A A, B : A \subseteq B => Seq(A) \subseteq Seq(B)
  OBVIOUS
<1> QED BY <1>1, <1>2

LEMMA InnerCalls ==
    /\ \A op \in InnerOp, arg \in Nat : Call(op, arg) \in Seq(InnerCall)
    /\ \A arg \in Party : Call("process_inputs", arg) \in Seq(InnerCall)
    /\ \A op \in InnerOp, args \in Seq(Nat) : Calls(op, args) \in Seq(InnerCall)
<1>1. ASSUME NEW op \in InnerOp, NEW arg \in Nat
      PROVE  [op |-> op, arg |-> arg] \in InnerCall
  BY DEF InnerCall
<1>2. ASSUME NEW op \in InnerOp, NEW arg \in Nat PROVE Call(op, arg) \in Seq(InnerCall)
  BY <1>1 DEF Call
<1>3. ASSUME NEW arg \in Party PROVE Call("process_inputs", arg) \in Seq(InnerCall)
  BY DEF Call, InnerCall
<1>4. ASSUME NEW op \in InnerOp, NEW args \in Seq(Nat)
      PROVE  Calls(op, args) \in Seq(InnerCall)
  <2>1. Len(args) \in Nat /\ DOMAIN args = 1..Len(args)
        /\ \A i \in 1..Len(args) : args[i] \in Nat
    OBVIOUS
  <2>2. \A i \in 1..Len(args) : [op |-> op, arg |-> args[i]] \in InnerCall
    BY <1>1, <2>1
  <2>3. Calls(op, args) \in [1..Len(args) -> InnerCall]
    BY <2>1, <2>2 DEF Calls
  <2>4. QED
    BY <2>1, <2>3, SeqDef
<1> QED BY <1>2, <1>3, <1>4

\* A join of quiet branches is one quiet call, or none.
LEMMA QuietJoins ==
    ASSUME NEW a \in Seq(QuietMessage), NEW b \in Seq(QuietMessage), NEW p \in Party
    PROVE  /\ Join(a, b) \in Seq(QuietJoin) /\ Len(Join(a, b)) <= 1
           /\ Exchange(p, a, b) \in Seq(InnerCall)
           /\ OnAbits(p, a, b) \in Seq(QuietJoin) /\ Len(OnAbits(p, a, b)) <= 1
           /\ OnMain(a) \in Seq(QuietJoin) /\ Len(OnMain(a)) <= 1
           /\ OnMain(a) \in Seq(InnerCall)
<1>1. ASSUME NEW c \in Seq(QuietMessage), NEW d \in Seq(QuietMessage)
      PROVE  Join(c, d) \in Seq(QuietJoin) /\ Len(Join(c, d)) <= 1
  <2>1. [op |-> "join", main |-> c, sibling |-> d] \in QuietJoin
    BY DEF QuietJoin
  <2>2. QED
    BY <2>1 DEF Join
<1>2. Seq(QuietJoin) \subseteq Seq(InnerCall)
  BY CallSets
<1>3. <<>> \in Seq(QuietMessage)
  OBVIOUS
<1>4. Join(a, b) \in Seq(QuietJoin) /\ Join(b, a) \in Seq(QuietJoin) /\ Join(a, <<>>) \in Seq(QuietJoin)
      /\ Len(Join(a, b)) <= 1 /\ Len(Join(b, a)) <= 1 /\ Len(Join(a, <<>>)) <= 1
  BY <1>1, <1>3
<1> QED BY <1>2, <1>4 DEF Exchange, OnAbits, OnMain

\* A join of any branches is one call that may draw coins, or none.
LEMMA NoisyJoins ==
    ASSUME NEW a \in Seq(Message), NEW b \in Seq(Message), NEW p \in Party
    PROVE  /\ Join(a, b) \in Seq(NoisyCall) /\ Len(Join(a, b)) <= 1
           /\ OnAbits(p, a, b) \in Seq(NoisyCall) /\ Len(OnAbits(p, a, b)) <= 1
<1>1. ASSUME NEW c \in Seq(Message), NEW d \in Seq(Message)
      PROVE  Join(c, d) \in Seq(NoisyCall) /\ Len(Join(c, d)) <= 1
  <2>1. [op |-> "join", main |-> c, sibling |-> d] \in NoisyCall
    BY DEF NoisyCall
  <2>2. QED
    BY <2>1 DEF Join
<1> QED BY <1>1 DEF OnAbits

LEMMA BucketSize ==
    ASSUME NEW ssp \in Nat
    PROVE  GetBucketSize(ssp) \in Int
<1> DEFINE q == ssp \div 10
<1>1. q \in Nat /\ 10 * q <= ssp /\ ssp < 10 * q + 10
  OBVIOUS
<1> HIDE DEF q
<1>2. q + 2 \in 2..(ssp + 2) /\ 10 * (q + 2 - 1) > ssp
  BY <1>1
<1>3. \A c \in 2..(q + 2 - 1) : 10 * (c - 1) <= ssp
  BY <1>1
<1>4. \E b \in 2..(ssp + 2) : /\ 10 * (b - 1) > ssp
                              /\ \A c \in 2..(b - 1) : 10 * (c - 1) <= ssp
  <2> DEFINE b == q + 2
  <2>1. b \in 2..(ssp + 2) /\ 10 * (b - 1) > ssp
    BY <1>1, <1>2
  <2>2. \A c \in 2..(b - 1) : 10 * (c - 1) <= ssp
    BY <1>1, <1>3
  <2> HIDE DEF b
  <2> QED BY <2>1, <2>2
<1>5. GetBucketSize(ssp) \in 2..(ssp + 2)
  BY <1>4 DEF GetBucketSize
<1> QED BY <1>5

\* The bodies of the calls that move words.
LEMMA MessageBodies ==
    ASSUME NEW p \in Party
    PROVE  /\ SendFrame("start") \o RecvFrame("ack") \o RecvFrame("start")
                \o SendFrame("ack") \in Seq(QuietMessage)
           /\ RecvFrame("start") \o SendFrame("ack") \o SendFrame("start")
                \o RecvFrame("ack") \in Seq(QuietMessage)
           /\ BootstrapSend \in Seq(QuietMessage)
           /\ BootstrapRecv \in Seq(QuietMessage)
           /\ FeqCheck(p) \in Seq(InnerCall)
<1>1. \A k \in {"length", "start", "ack"} :
          Send(k, 1) \in QuietMessage /\ Recv(k, 1) \in QuietMessage
  BY QuietMessages DEF QuietKind
<1>2. \A k \in {"start", "ack"} :
          SendFrame(k) \in Seq(QuietMessage) /\ RecvFrame(k) \in Seq(QuietMessage)
  BY <1>1 DEF SendFrame, RecvFrame
<1>3. \A k \in {"seed", "points", "z", "chi", "proof", "c0", "c1", "otans", "t_buf", "pprf",
                "commit", "feq", "nonce"} :
          \A n \in {1, BaseOts, ChunkBlocks} :
             Send(k, n) \in QuietMessage /\ Recv(k, n) \in QuietMessage
  BY QuietMessages, Sizes DEF QuietKind
<1>4. CswRecv \in Seq(QuietMessage) /\ CswSend \in Seq(QuietMessage)
  BY <1>3 DEF CswRecv, CswSend
<1>5. BootstrapSend \in Seq(QuietMessage) /\ BootstrapRecv \in Seq(QuietMessage)
  BY <1>3, <1>4 DEF BootstrapSend, BootstrapRecv
<1>6. FeqCheck(p) \in Seq(InnerCall)
  <2> DEFINE a == <<Send("commit", 1), Recv("feq", 1), Send("feq", 1), Send("nonce", 1)>>
             b == <<Recv("commit", 1), Send("feq", 1), Recv("feq", 1), Recv("nonce", 1)>>
  <2>1. a \in Seq(QuietMessage) /\ b \in Seq(QuietMessage)
    BY <1>3
  <2> HIDE DEF a, b
  <2>2. OnMain(a) \in Seq(InnerCall) /\ OnMain(b) \in Seq(InnerCall)
    BY <2>1, QuietJoins
  <2> QED BY <2>2 DEF FeqCheck, a, b
<1> QED BY <1>2, <1>5, <1>6

\* Leaky ANDs, and the layers of the bucket that combine them.
LEMMA BucketBodies ==
    ASSUME NEW p \in Party, NEW l \in Nat \ {0}, NEW ssp \in Nat
    PROVE  /\ LeakyAndHalfgate(p, l) \in Seq(InnerCall)
           /\ LayeredBucket(p, l, ssp) \in Seq(InnerCall)
<1>0. BoolWireLen(l) \in Nat \ {0}
  BY Counts
<1>1. \A k \in {"w", "s", "shift"} : \A n \in {l, BoolWireLen(l)} :
          <<Send(k, n)>> \in Seq(QuietMessage) /\ <<Recv(k, n)>> \in Seq(QuietMessage)
  BY <1>0, QuietMessages DEF QuietKind
<1>2. \A k \in {"w", "s", "shift"} : \A n \in {l, BoolWireLen(l)} :
          Exchange(p, <<Send(k, n)>>, <<Recv(k, n)>>) \in Seq(InnerCall)
  BY <1>1, QuietJoins
<1>3. LeakyAndHalfgate(p, l) \in Seq(InnerCall)
  BY <1>2 DEF LeakyAndHalfgate
<1>4. Call("gen_cot", 3 * l) \in Seq(InnerCall) /\ Call("coin", 0) \in Seq(InnerCall)
  <2>1. 3 * l \in Nat /\ 0 \in Nat /\ {"gen_cot", "coin"} \subseteq InnerOp
    BY DEF InnerOp
  <2> QED BY <2>1, InnerCalls
<1>5. Call("gen_cot", 3 * l) \o LeakyAndHalfgate(p, l) \o Call("coin", 0)
          \o Exchange(p, <<Send("shift", BoolWireLen(l))>>,
                         <<Recv("shift", BoolWireLen(l))>>) \in Seq(InnerCall)
  BY <1>2, <1>3, <1>4
<1>6. GetBucketSize(ssp) - 1 \in Int
  BY BucketSize
<1>7. LayeredBucket(p, l, ssp) \in Seq(InnerCall)
  BY <1>5, <1>6, TimesType DEF LayeredBucket
<1> QED BY <1>3, <1>7

LEMMA ComputeBody ==
    ASSUME NEW p \in Party, NEW l \in Nat \ {0}, NEW ssp \in Nat
    PROVE  Call("gen_cot", l) \o LeakyAndHalfgate(p, l)
               \o LayeredBucket(p, l, ssp) \o FeqCheck(p)
               \o Exchange(p,
                    <<Send("open_a", BoolWireLen(l)), Send("open_b", BoolWireLen(l))>>,
                    <<Recv("open_a", BoolWireLen(l)), Recv("open_b", BoolWireLen(l))>>)
           \in Seq(InnerCall)
<1> DEFINE n == BoolWireLen(l)
<1>1. n \in Nat \ {0}
  BY Counts
<1> HIDE DEF n
<1>2. <<Send("open_a", n), Send("open_b", n)>> \in Seq(QuietMessage)
      /\ <<Recv("open_a", n), Recv("open_b", n)>> \in Seq(QuietMessage)
  BY <1>1, QuietMessages DEF QuietKind
<1>3. Exchange(p, <<Send("open_a", n), Send("open_b", n)>>,
                  <<Recv("open_a", n), Recv("open_b", n)>>) \in Seq(InnerCall)
  BY <1>2, QuietJoins
<1>4. Call("gen_cot", l) \in Seq(InnerCall)
  BY InnerCalls DEF InnerOp
<1>5. FeqCheck(p) \in Seq(InnerCall)
  BY MessageBodies
<1> QED BY <1>3, <1>4, <1>5, BucketBodies DEF n

LEMMA InputsBody ==
    ASSUME NEW p \in Party, NEW mine \in BOOLEAN
    PROVE  Call("gen_cot", ValueBits)
             \o Exchange(p,
                  <<Send("share", ValueBits), Send("mac", 1)>>
                    \o IF mine THEN <<Send("masked", ValueBits)>> ELSE <<>>,
                  <<Recv("share", ValueBits), Recv("mac", 1)>>
                    \o IF mine THEN <<>> ELSE <<Recv("masked", ValueBits)>>)
             \o OnMain(IF p = "Alice" THEN <<Send("labels", ValueBits)>>
                                      ELSE <<Recv("labels", ValueBits)>>)
           \in Seq(InnerCall)
<1>1. \A k \in {"share", "mac", "masked", "labels"} : \A n \in {1, ValueBits} :
          Send(k, n) \in QuietMessage /\ Recv(k, n) \in QuietMessage
  BY QuietMessages, Sizes DEF QuietKind
<1> DEFINE a == <<Send("share", ValueBits), Send("mac", 1)>>
                    \o IF mine THEN <<Send("masked", ValueBits)>> ELSE <<>>
           b == <<Recv("share", ValueBits), Recv("mac", 1)>>
                    \o IF mine THEN <<>> ELSE <<Recv("masked", ValueBits)>>
           c == IF p = "Alice" THEN <<Send("labels", ValueBits)>>
                               ELSE <<Recv("labels", ValueBits)>>
<1>2. a \in Seq(QuietMessage) /\ b \in Seq(QuietMessage) /\ c \in Seq(QuietMessage)
  BY <1>1
<1>3. Call("gen_cot", ValueBits) \in Seq(InnerCall)
  BY InnerCalls, Sizes DEF InnerOp
<1> HIDE DEF a, b, c
<1>4. Exchange(p, a, b) \in Seq(InnerCall) /\ OnMain(c) \in Seq(InnerCall)
  BY <1>2, QuietJoins
<1>5. Call("gen_cot", ValueBits) \o Exchange(p, a, b) \o OnMain(c) \in Seq(InnerCall)
  BY <1>3, <1>4
<1> QED BY <1>5 DEF a, b, c

LEMMA GarbleChunkBodies ==
    ASSUME NEW ands \in Nat
    PROVE  \A dir \in {"send", "recv"} : GarbleChunks(dir, ands) \in Seq(QuietMessage)
<1> DEFINE m == 2 * CeilDiv(ands, GarbleChunk)
<1>1. m \in Int
  BY Counts, Sizes
<1> HIDE DEF m
<1>2. \A i \in 1..m : GarbleSize(ands, CeilDiv(i, 2)) \in Nat \ {0}
  <2> SUFFICES ASSUME NEW i \in 1..m PROVE GarbleSize(ands, CeilDiv(i, 2)) \in Nat \ {0}
    OBVIOUS
  <2> DEFINE g == GarbleChunk
             c == CeilDiv(ands, g)
             k == CeilDiv(i, 2)
  <2>1. g \in Nat \ {0} /\ c \in Int /\ c * g <= ands + g - 1
    BY Sizes DEF CeilDiv
  <2>2. i \in 1..(2 * c)
    BY DEF m
  <2>3. k \in 1..c
    BY <2>1, <2>2 DEF CeilDiv
  <2> HIDE DEF g, c, k
  <2>4. (k - 1) * g <= (c - 1) * g /\ (k - 1) * g \in Int
    BY <2>1, <2>3
  <2>5. ands - (k - 1) * g \in Int /\ ands - (k - 1) * g > 0
    BY <2>1, <2>3, <2>4
  <2> QED BY <2>1, <2>5 DEF GarbleSize, Smaller, g, k
<1>3. ASSUME NEW dir \in {"send", "recv"} PROVE GarbleChunks(dir, ands) \in Seq(QuietMessage)
  <2>1. GarbleChunks(dir, ands) \in [1..m -> QuietMessage]
    BY <1>2 DEF GarbleChunks, QuietMessage, QuietKind, m
  <2>2. CASE m \in Nat
    BY <2>1, <2>2, SeqDef
  <2>3. CASE m \notin Nat
    <3>1. 1..m = 1..0 /\ 0 \in Nat
      BY <1>1, <2>3
    <3>2. [1..0 -> QuietMessage] \subseteq Seq(QuietMessage)
      BY <3>1, SeqDef, Zenon
    <3>3. QED
      BY <3>1, <3>2, <2>1
  <2> QED BY <2>2, <2>3
<1> QED BY <1>3

LEMMA GarbleBodies ==
    ASSUME NEW ands \in Nat
    PROVE  /\ GarblerPath(ands) \in Seq(QuietMessage)
           /\ EvaluatorPath(ands) \in Seq(QuietMessage)
<1>0. ands > 0 => BoolWireLen(ands) \in Nat \ {0}
  BY Counts
<1>4. ands > 0 => \A k \in {"lambda", "gamma"} : \A n \in {1, BoolWireLen(ands)} :
          Send(k, n) \in QuietMessage /\ Recv(k, n) \in QuietMessage
  BY <1>0, QuietMessages DEF QuietKind
<1> QED BY <1>4, GarbleChunkBodies DEF GarblerPath, EvaluatorPath

\* The body of run_program ends in the check.
LEMMA ProgramBody ==
    ASSUME NEW p \in Party, NEW ands \in Nat
    PROVE  \E Y \in Seq(InnerCall) :
             Times(CeilDiv(ands, MaskBatch), Call("gen_cot", MaskBatch))
               \o Call("compute", ands) \o Call("coin", 0)
               \o Call(IF p = "Alice" THEN "garble" ELSE "evaluate", ands)
               \o Call("maybe_flush", 0) = Y \o Call("maybe_flush", 0)
<1>1. CeilDiv(ands, MaskBatch) \in Int
  BY Counts, Sizes
<1>2. Call("gen_cot", MaskBatch) \in Seq(InnerCall) /\ Call("compute", ands) \in Seq(InnerCall)
      /\ Call("coin", 0) \in Seq(InnerCall)
      /\ Call(IF p = "Alice" THEN "garble" ELSE "evaluate", ands) \in Seq(InnerCall)
  <2>1. MaskBatch \in Nat /\ 0 \in Nat
    BY Sizes
  <2>2. {"gen_cot", "compute", "coin", IF p = "Alice" THEN "garble" ELSE "evaluate"}
          \subseteq InnerOp
    BY DEF InnerOp
  <2> QED BY <2>1, <2>2, InnerCalls
<1>3. Times(CeilDiv(ands, MaskBatch), Call("gen_cot", MaskBatch)) \in Seq(InnerCall)
  BY <1>1, <1>2, TimesType
<1>4. Times(CeilDiv(ands, MaskBatch), Call("gen_cot", MaskBatch))
          \o Call("compute", ands) \o Call("coin", 0)
          \o Call(IF p = "Alice" THEN "garble" ELSE "evaluate", ands) \in Seq(InnerCall)
  BY <1>2, <1>3
<1> QED BY <1>4, Zenon

LEMMA DecodeBodies ==
    /\ <<Send("share", ValueBits), Send("mac", 1), Recv("bits", ValueBits)>> \in Seq(QuietMessage)
    /\ <<Recv("share", ValueBits), Recv("mac", 1), Send("bits", ValueBits)>> \in Seq(QuietMessage)
BY QuietMessages, Sizes DEF QuietKind

-----------------------------------------------------------------------------
(* Expanding a call keeps what is left of the job in order.                *)

\* Calls of a body that may go on a stack: only the first draws coins.
Body1(X) == \A i \in DOMAIN X : X[i].op \notin OuterOp /\ (i > 1 => X[i] \in InnerCall)

\* What may stand before a decode once the first call of a stack is done or
\* has become X.
LeadsToDecode(r, u, X) ==
    Len(r.todo) > 1 /\ r.todo[2].op = "decode" =>
        \/ Len(X) = 0 /\ Clean(u)
        \/ Len(X) > 0 /\ X[Len(X)].op \in Checking
        \/ Len(X) = 1 /\ X[1] \in QuietJoin /\ Clean(u)

\* What may happen while the sibling stream is to be opened.
LeadsToOpen(r, u, X) ==
    \A j \in DOMAIN r.todo : j > 1 /\ r.todo[j].op = "open_sibling" =>
        Clean(u) /\ \A i \in DOMAIN X : X[i] \in Early

LEMMA PushKeeps ==
    ASSUME NEW r \in PartyRec, NEW u \in PartyRec, NEW X \in Seq(AnyCall),
           CheckInv(r), r.todo # <<>>, u.todo = X \o Tail(r.todo), Body1(X),
           LeadsToDecode(r, u, X), LeadsToOpen(r, u, X), MarkedOrChecking(u)
    PROVE  CheckInv(u)
<1> DEFINE t == r.todo
           v == u.todo
           m == Len(X)
<1>1. t \in Seq(AnyCall) /\ v = X \o Tail(t) /\ t # <<>>
  BY DEF PartyRec
<1>2. Len(t) \in Nat \ {0} /\ m \in Nat /\ DOMAIN t = 1..Len(t) /\ DOMAIN X = 1..m
  BY <1>1, Pushed
<1>3. /\ DOMAIN v = 1..(m + Len(t) - 1)
      /\ \A i \in 1..m : v[i] = X[i]
      /\ \A i \in (m + 1)..(m + Len(t) - 1) : v[i] = t[i - m + 1]
  BY <1>1, Pushed
<1>4. /\ QuietTail(t) /\ DecodesReady(r) /\ OpensClean(r) /\ EndIsLast(t)
  BY DEF CheckInv
<1> HIDE DEF t, v, m
<1>5. ASSUME NEW i \in DOMAIN v, i > m
      PROVE  /\ i - m + 1 \in DOMAIN t /\ i - m + 1 > 1 /\ v[i] = t[i - m + 1]
  <2>1. i \in (m + 1)..(m + Len(t) - 1)
    BY <1>2, <1>3, <1>5
  <2>2. v[i] = t[i - m + 1]
    BY <2>1, <1>3
  <2> QED BY <1>2, <2>1, <2>2
<1>6. ASSUME NEW i \in DOMAIN v, ~(i > m)
      PROVE  /\ i \in DOMAIN X /\ v[i] = X[i] /\ X[i].op \notin OuterOp
             /\ i > 1 => X[i] \in InnerCall
  BY <1>2, <1>3, <1>6 DEF Body1
<1>7. QuietTail(v)
  <2> SUFFICES ASSUME NEW i \in DOMAIN v, i > 1 PROVE v[i] \in QuietCall
    BY DEF QuietTail
  <2>1. CASE i > m
    BY <2>1, <1>4, <1>5 DEF QuietTail
  <2>2. CASE ~(i > m)
    BY <2>2, <1>6, CallSets
  <2> QED BY <2>1, <2>2
<1>8. DecodesReady(u)
  <2> SUFFICES ASSUME NEW i \in DOMAIN v, v[i].op = "decode"
               PROVE  \/ i = 1 /\ Clean(u)
                      \/ i > 1 /\ v[i - 1].op \in Checking
                      \/ i = 2 /\ v[1] \in QuietJoin /\ Clean(u)
    BY DEF DecodesReady, v
  <2>1. i > m
    BY <1>6 DEF OuterOp
  <2> DEFINE j == i - m + 1
  <2>2. j \in DOMAIN t /\ j > 1 /\ t[j].op = "decode"
    BY <2>1, <1>5
  <2>3. CASE j = 2
    <3>1. Len(t) > 1 /\ t[2].op = "decode" /\ i = m + 1
      <4>1. i \in Int /\ i = m + 1
        BY <2>3, <1>2, <1>3
      <4>2. t[2].op = "decode" /\ 2 \in DOMAIN t
        BY <2>2, <2>3
      <4> QED BY <4>1, <4>2, <1>2
    <3>2. \/ m = 0 /\ Clean(u)
          \/ m > 0 /\ X[m].op \in Checking
          \/ m = 1 /\ X[1] \in QuietJoin /\ Clean(u)
      BY <3>1 DEF LeadsToDecode, t, m
    <3>3. m > 0 => v[m] = X[m]
      BY <1>2, <1>3
    <3> QED BY <3>1, <3>2, <3>3, <1>2
  <2>4. CASE j # 2
    <3>1. t[j - 1].op \in Checking
      BY <2>2, <2>4, <1>2, <1>4 DEF DecodesReady, t
    <3>2. i - 1 \in DOMAIN v /\ i - 1 > m /\ i > 1
      BY <2>2, <2>4, <1>2, <1>3
    <3>3. v[i - 1] = t[j - 1]
      BY <3>2, <1>5, <1>2, <1>3
    <3> QED BY <3>1, <3>2, <3>3
  <2> QED BY <2>3, <2>4
<1>9. OpensClean(u)
  <2> SUFFICES ASSUME NEW i \in DOMAIN v, v[i].op = "open_sibling"
               PROVE  Clean(u) /\ \A k \in 1..(i - 1) : v[k] \in Early
    BY DEF OpensClean, v
  <2>1. i > m
    BY <1>6 DEF OuterOp
  <2> DEFINE j == i - m + 1
  <2>2. j \in DOMAIN t /\ j > 1 /\ t[j].op = "open_sibling"
    BY <2>1, <1>5
  <2>3. Clean(u) /\ \A k \in DOMAIN X : X[k] \in Early
    BY <2>2 DEF LeadsToOpen, t
  <2>4. \A k \in 1..(j - 1) : t[k] \in Early
    BY <2>2, <1>4 DEF OpensClean, t
  <2>5. ASSUME NEW k \in 1..(i - 1) PROVE v[k] \in Early
    <3>0. k \in DOMAIN v
      BY <1>2, <1>3
    <3>1. CASE k > m
      <4>1. k - m + 1 \in 1..(j - 1) /\ v[k] = t[k - m + 1]
        BY <3>0, <3>1, <1>5, <1>2, <1>3
      <4> QED BY <4>1, <2>4
    <3>2. CASE ~(k > m)
      BY <3>0, <3>2, <1>6, <2>3
    <3> QED BY <3>1, <3>2
  <2> QED BY <2>3, <2>5
<1>10. EndIsLast(v)
  <2> SUFFICES ASSUME NEW i \in DOMAIN v, NEW j \in DOMAIN v, i < j, v[i].op = "end"
               PROVE  v[j].op # "decode"
    BY DEF EndIsLast
  <2>1. i > m
    BY <1>6 DEF OuterOp
  <2>2. j > m
    BY <2>1, <1>2, <1>3
  <2>3. i - m + 1 < j - m + 1
    BY <1>2, <1>3
  <2> QED BY <2>1, <2>2, <2>3, <1>4, <1>5 DEF EndIsLast
<1> QED BY <1>7, <1>8, <1>9, <1>10 DEF CheckInv, v

\* A stack without decodes stays without.
LEMMA PushNoDecode ==
    ASSUME NEW t \in Seq(AnyCall), t # <<>>, NEW X \in Seq(AnyCall), Body1(X),
           \A i \in DOMAIN t : i > 1 => t[i].op # "decode"
    PROVE  NoDecode(X \o Tail(t))
<1> DEFINE v == X \o Tail(t)
<1>1. /\ Len(t) \in Nat \ {0} /\ Len(X) \in Nat
      /\ DOMAIN v = 1..(Len(X) + Len(t) - 1)
      /\ \A i \in 1..Len(X) : v[i] = X[i]
      /\ \A i \in (Len(X) + 1)..(Len(X) + Len(t) - 1) : v[i] = t[i - Len(X) + 1]
  BY Pushed
<1> HIDE DEF v
<1> SUFFICES ASSUME NEW i \in DOMAIN v PROVE v[i].op # "decode"
  BY DEF NoDecode, v
<1>2. CASE i \in 1..Len(X)
  BY <1>1, <1>2 DEF Body1, OuterOp
<1>3. CASE i \in (Len(X) + 1)..(Len(X) + Len(t) - 1)
  <2>1. i - Len(X) + 1 \in DOMAIN t /\ i - Len(X) + 1 > 1
    BY <1>1, <1>3
  <2> QED BY <2>1, <1>1, <1>3
<1> QED BY <1>1, <1>2, <1>3

\* The first call of a stack that was pushed on.
LEMMA PushHead ==
    ASSUME NEW t \in Seq(AnyCall), t # <<>>, NEW X \in Seq(AnyCall), QuietTail(t)
    PROVE  /\ Len(X) > 0 => X \o Tail(t) # <<>> /\ (X \o Tail(t))[1] = X[1]
           /\ Len(X) = 0 /\ X \o Tail(t) # <<>> =>
                 Len(t) > 1 /\ (X \o Tail(t))[1] = t[2] /\ t[2] \in QuietCall
           /\ Len(X) = 1 /\ Len(t) > 1 =>
                 Len(X \o Tail(t)) > 1 /\ (X \o Tail(t))[2] = t[2]
           /\ Len(X) = 2 =>
                 Len(X \o Tail(t)) > 1 /\ (X \o Tail(t))[2] = X[2]
<1> DEFINE v == X \o Tail(t)
<1>1. /\ Len(t) \in Nat \ {0} /\ Len(X) \in Nat /\ v \in Seq(AnyCall)
      /\ Len(v) = Len(X) + Len(t) - 1
      /\ \A i \in 1..Len(X) : v[i] = X[i]
      /\ \A i \in (Len(X) + 1)..(Len(X) + Len(t) - 1) : v[i] = t[i - Len(X) + 1]
  BY Pushed
<1> HIDE DEF v
<1>2. v # <<>> <=> Len(v) > 0
  BY <1>1, EmptySeq
<1>3. Len(X) > 0 => v # <<>> /\ v[1] = X[1]
  BY <1>1, <1>2
<1>4. Len(X) = 0 /\ v # <<>> => Len(t) > 1 /\ v[1] = t[2] /\ t[2] \in QuietCall
  BY <1>1, <1>2 DEF QuietTail
<1>5. Len(X) = 1 /\ Len(t) > 1 => Len(v) > 1 /\ v[2] = t[2]
  BY <1>1
<1>6. Len(X) = 2 => Len(v) > 1 /\ v[2] = X[2]
  BY <1>1
<1> QED BY <1>3, <1>4, <1>5, <1>6 DEF v

LEMMA InnerBody ==
    ASSUME NEW X \in Seq(InnerCall)
    PROVE  Body1(X) /\ X \in Seq(AnyCall) /\ \A i \in DOMAIN X : X[i] \in QuietCall
<1>1. \A c \in InnerCall : c.op \notin OuterOp
  BY DEF InnerCall, OuterOp, InnerOp, QuietJoin
<1>2. \A i \in DOMAIN X : X[i] \in InnerCall
  OBVIOUS
<1> QED BY <1>1, <1>2, CallSets DEF Body1

\* A call that does not itself draw or check correlations.
LEMMA QuietPush ==
    ASSUME NEW r \in PartyRec, NEW u \in PartyRec, NEW X \in Seq(InnerCall),
           CheckInv(r), r.todo # <<>>, u.todo = X \o Tail(r.todo),
           r.todo[1].op \notin {"join", "begin_abits", "end_abits"},
           Clean(r) => Clean(u), u.minted = r.minted,
           r.todo[1].op \in Checking => LeadsToDecode(r, u, X),
           r.todo[1].op \in {"exchange_digest", "compare_digest"} =>
               \A i \in DOMAIN X : X[i] \in Early
    PROVE  CheckInv(u)
<1> DEFINE t == r.todo
<1>1. /\ t \in Seq(AnyCall) /\ t # <<>> /\ Len(t) \in Nat \ {0}
      /\ DOMAIN t = 1..Len(t)
  BY EmptySeq DEF PartyRec
<1>2. /\ QuietTail(t) /\ DecodesReady(r) /\ OpensClean(r) /\ EndIsLast(t)
      /\ MarkedOrChecking(r)
  BY DEF CheckInv
<1>3. Body1(X) /\ X \in Seq(AnyCall) /\ Len(X) \in Nat
      /\ \A i \in DOMAIN X : X[i] \in QuietCall
  BY InnerBody
<1>4. t[1] \notin QuietJoin
  BY DEF QuietJoin
<1>0. u.todo = X \o Tail(t) /\ t[1].op \notin {"join", "begin_abits", "end_abits"}
  OBVIOUS
<1> HIDE DEF t
<1>5. LeadsToDecode(r, u, X)
  <2>1. ASSUME t[1].op \notin Checking, Len(t) > 1, t[2].op = "decode" PROVE FALSE
    <3>1. 2 \in DOMAIN t
      BY <2>1, <1>1
    <3>2. \A i \in DOMAIN t : t[i].op = "decode" =>
              \/ i = 1 /\ Clean(r)
              \/ i > 1 /\ t[i - 1].op \in Checking
              \/ i = 2 /\ t[1] \in QuietJoin /\ Clean(r)
      BY <1>2 DEF DecodesReady, t
    <3>3. \/ 2 = 1 /\ Clean(r)
          \/ 2 > 1 /\ t[2 - 1].op \in Checking
          \/ 2 = 2 /\ t[1] \in QuietJoin /\ Clean(r)
      BY <2>1, <3>1, <3>2
    <3>4. 2 - 1 = 1 /\ 2 # 1
      OBVIOUS
    <3> QED BY <2>1, <3>3, <3>4, <1>4
  <2> QED BY <2>1 DEF LeadsToDecode, t
<1>6. LeadsToOpen(r, u, X)
  <2> SUFFICES ASSUME NEW j \in DOMAIN t, j > 1, t[j].op = "open_sibling"
               PROVE  Clean(u) /\ \A i \in DOMAIN X : X[i] \in Early
    BY DEF LeadsToOpen, t
  <2>1. Clean(r) /\ t[1] \in Early
    BY <1>1, <1>2 DEF OpensClean, t
  <2>2. t[1].op \in {"exchange_digest", "compare_digest"}
    BY <2>1, <1>4 DEF Early
  <2> QED BY <2>1, <2>2 DEF t
<1>7. MarkedOrChecking(u)
  <2> SUFFICES ASSUME Unchecked(u), ~u.minted PROVE NoDecode(u.todo)
    BY DEF MarkedOrChecking
  <2>0. /\ Len(X) > 0 => X \o Tail(t) # <<>> /\ (X \o Tail(t))[1] = X[1]
        /\ Len(X) = 0 /\ X \o Tail(t) # <<>> =>
              Len(t) > 1 /\ (X \o Tail(t))[1] = t[2] /\ t[2] \in QuietCall
    BY <1>1, <1>2, <1>3, PushHead, Zenon
  <2>1. u.todo = <<>> \/ u.todo[1] \in QuietCall
    <3>1. CASE Len(X) > 0
      <4>1. X[1] \in QuietCall
        BY <3>1, <1>3
      <4> QED BY <4>1, <3>1, <1>0, <2>0, Zenon
    <3>2. CASE Len(X) = 0
      BY <3>2, <1>0, <2>0, Zenon
    <3> QED BY <3>1, <3>2, <1>3
  <2>2. ~Clean(r)
    BY <2>1 DEF Unchecked
  <2>3. NoDecode(t)
    BY <2>2, <1>0, <1>2 DEF Unchecked, MarkedOrChecking, t
  <2>4. \A i \in DOMAIN t : i > 1 => t[i].op # "decode"
    BY <2>3 DEF NoDecode
  <2> QED BY <2>4, <1>0, <1>1, <1>3, PushNoDecode
<1> QED BY <1>3, <1>5, <1>6, <1>7, PushKeeps

\* A party that stops has nothing left to open.
LEMMA StopKeeps ==
    ASSUME NEW u \in PartyRec, u.todo = <<>>
    PROVE  CheckInv(u)
BY DEF CheckInv, QuietTail, DecodesReady, OpensClean, EndIsLast, MarkedOrChecking, NoDecode

\* What the first call of a stack says of the rest.
LEMMA FirstCall ==
    ASSUME NEW r \in PartyRec, NEW t, t = r.todo, CheckInv(r), t # <<>>
    PROVE  /\ t \in Seq(AnyCall) /\ Len(t) \in Nat \ {0} /\ DOMAIN t = 1..Len(t)
           /\ QuietTail(t)
           /\ Len(t) > 1 /\ t[2].op = "decode" =>
                 t[1].op \in Checking \/ (t[1] \in QuietJoin /\ Clean(r))
           /\ \A j \in DOMAIN t : j > 1 /\ t[j].op = "open_sibling" =>
                 Clean(r) /\ t[1] \in Early
           /\ t[1].op \in {"decode", "open_sibling"} => Clean(r)
           /\ t[1].op = "end" => \A i \in DOMAIN t : i > 1 => t[i].op # "decode"
           /\ (~Clean(r) \/ t[1] \notin QuietCall) /\ ~r.minted =>
                 \/ t[1].op = "begin_abits"
                 \/ Len(t) > 1 /\ t[1].op \in {"end_abits", "join"} /\ t[2].op = "begin_abits"
                 \/ NoDecode(t)
<1>1. t \in Seq(AnyCall) /\ Len(t) \in Nat \ {0} /\ DOMAIN t = 1..Len(t)
  BY EmptySeq DEF PartyRec
<1>2. QuietTail(t) /\ EndIsLast(t)
  BY DEF CheckInv
<1>3. \A i \in DOMAIN t : t[i].op = "decode" =>
              \/ i = 1 /\ Clean(r)
              \/ i > 1 /\ t[i - 1].op \in Checking
              \/ i = 2 /\ t[1] \in QuietJoin /\ Clean(r)
  BY DEF DecodesReady, CheckInv
<1>4. \A i \in DOMAIN t : t[i].op = "open_sibling" =>
        Clean(r) /\ \A j \in 1..(i - 1) : t[j] \in Early
  BY DEF OpensClean, CheckInv
<1>5. ASSUME Len(t) > 1, t[2].op = "decode"
      PROVE  t[1].op \in Checking \/ (t[1] \in QuietJoin /\ Clean(r))
  <2>1. 2 \in DOMAIN t
    BY <1>1, <1>5
  <2>2. \/ 2 = 1 /\ Clean(r)
        \/ 2 > 1 /\ t[2 - 1].op \in Checking
        \/ 2 = 2 /\ t[1] \in QuietJoin /\ Clean(r)
    BY <2>1, <1>3, <1>5
  <2>3. 2 - 1 = 1 /\ 2 # 1
    OBVIOUS
  <2> QED BY <2>2, <2>3
<1>6. ASSUME NEW j \in DOMAIN t, j > 1, t[j].op = "open_sibling"
      PROVE  Clean(r) /\ t[1] \in Early
  BY <1>1, <1>4, <1>6
<1>7. 1 \in DOMAIN t /\ ~(1 > 1) /\ 1 # 2
  BY <1>1
<1>8. t[1].op \in {"decode", "open_sibling"} => Clean(r)
  BY <1>3, <1>4, <1>7, Zenon
<1>9. t[1].op = "end" => \A i \in DOMAIN t : i > 1 => t[i].op # "decode"
  BY <1>1, <1>2, <1>7 DEF EndIsLast
<1>10. (~Clean(r) \/ t[1] \notin QuietCall) /\ ~r.minted =>
         \/ t[1].op = "begin_abits"
         \/ Len(t) > 1 /\ t[1].op \in {"end_abits", "join"} /\ t[2].op = "begin_abits"
         \/ NoDecode(t)
  BY Zenon DEF CheckInv, MarkedOrChecking, Unchecked
<1> QED BY <1>1, <1>2, <1>5, <1>6, <1>8, <1>9, <1>10

\* A call that draws correlations marks them.
LEMMA DrawPush ==
    ASSUME NEW r \in PartyRec, NEW u \in PartyRec, NEW X \in Seq(NoisyCall),
           CheckInv(r), r.todo # <<>>, u.todo = X \o Tail(r.todo),
           Len(X) <= 1, r.todo[1].op = "gen_cot", u.minted
    PROVE  CheckInv(u)
<1> DEFINE t == r.todo
<1>1. /\ Len(t) > 1 /\ t[2].op = "decode" =>
            t[1].op \in Checking \/ (t[1] \in QuietJoin /\ Clean(r))
      /\ \A j \in DOMAIN t : j > 1 /\ t[j].op = "open_sibling" => t[1] \in Early
  BY FirstCall
<1>2. t[1].op \notin Checking /\ t[1] \notin QuietJoin /\ t[1] \notin Early
  BY DEF Checking, QuietJoin, Early
<1>3. X \in Seq(AnyCall) /\ Body1(X)
  <2>1. \A c \in NoisyCall : c.op \notin OuterOp
    BY DEF NoisyCall, OuterOp
  <2>2. Len(X) \in Nat /\ DOMAIN X = 1..Len(X) /\ \A i \in DOMAIN X : X[i] \in NoisyCall
    OBVIOUS
  <2>3. Body1(X)
    BY <2>1, <2>2 DEF Body1
  <2>4. X \in Seq(AnyCall)
    BY CallSets
  <2> QED BY <2>3, <2>4
<1>4. LeadsToDecode(r, u, X) /\ LeadsToOpen(r, u, X)
  BY <1>1, <1>2, Zenon DEF LeadsToDecode, LeadsToOpen
<1>5. MarkedOrChecking(u)
  BY DEF MarkedOrChecking
<1> QED BY <1>3, <1>4, <1>5, PushKeeps

\* Setting the abits up leaves nothing unchecked.
LEMMA BeginPush ==
    ASSUME NEW r \in PartyRec, NEW u \in PartyRec, NEW X \in Seq(QuietJoin),
           CheckInv(r), r.todo # <<>>, u.todo = X \o Tail(r.todo),
           Len(X) <= 1, r.todo[1].op = "begin_abits", Clean(u)
    PROVE  CheckInv(u)
<1> DEFINE t == r.todo
<1>1. /\ t \in Seq(AnyCall) /\ QuietTail(t)
      /\ \A j \in DOMAIN t : j > 1 /\ t[j].op = "open_sibling" => t[1] \in Early
  BY FirstCall
<1>2. t[1] \notin Early
  BY DEF QuietJoin, Early
<1>3. X \in Seq(InnerCall) /\ Len(X) \in Nat /\ (Len(X) = 1 => X[1] \in QuietJoin)
  BY CallSets
<1>4. X \in Seq(AnyCall) /\ Body1(X) /\ \A i \in DOMAIN X : X[i] \in QuietCall
  BY <1>3, InnerBody
<1>5. LeadsToDecode(r, u, X) /\ LeadsToOpen(r, u, X)
  <2>0. \A n \in Nat : n <= 1 => n = 0 \/ n = 1
    OBVIOUS
  <2>1. Len(X) = 0 \/ Len(X) = 1
    BY <1>3, <2>0, Zenon
  <2>2. LeadsToDecode(r, u, X)
    BY <2>1, <1>3, Zenon DEF LeadsToDecode
  <2> QED BY <2>2, <1>1, <1>2, Zenon DEF LeadsToOpen
<1>6. MarkedOrChecking(u)
  <2>1. /\ Len(X) > 0 => X \o Tail(t) # <<>> /\ (X \o Tail(t))[1] = X[1]
        /\ Len(X) = 0 /\ X \o Tail(t) # <<>> =>
              Len(t) > 1 /\ (X \o Tail(t))[1] = t[2] /\ t[2] \in QuietCall
    BY <1>1, <1>4, PushHead, Zenon
  <2>2. Len(X) > 0 => X[1] \in QuietCall
    BY <1>3, <1>4
  <2>3. u.todo # <<>> => u.todo[1] \in QuietCall
    BY <2>1, <2>2, <1>3
  <2> QED BY <2>3, Zenon DEF MarkedOrChecking, Unchecked
<1> QED BY <1>4, <1>5, <1>6, PushKeeps

\* The check, once asked for, is followed by a new start.
LEMMA FlushPush ==
    ASSUME NEW r \in PartyRec, NEW u \in PartyRec, CheckInv(r), r.todo # <<>>,
           r.todo[1].op = "maybe_flush",
           u.todo = (Call("end_abits", 0) \o Call("begin_abits", 0)) \o Tail(r.todo)
    PROVE  CheckInv(u)
<1> DEFINE t == r.todo
           a == [op |-> "end_abits", arg |-> 0]
           b == [op |-> "begin_abits", arg |-> 0]
           X == <<a, b>>
<1>1. /\ t \in Seq(AnyCall) /\ t # <<>> /\ Len(t) \in Nat \ {0} /\ QuietTail(t)
      /\ \A j \in DOMAIN t : j > 1 /\ t[j].op = "open_sibling" => t[1] \in Early
  BY FirstCall
<1>2. t[1] \notin Early
  BY DEF QuietJoin, Early
<1>3. a \in NoisyCall /\ b \in InnerCall /\ a.op = "end_abits" /\ b.op = "begin_abits"
  BY DEF NoisyCall, InnerCall, InnerOp
<1>4. u.todo = X \o Tail(t)
  BY DEF Call
<1> HIDE DEF a, b
<1>5. X \in Seq(AnyCall) /\ Len(X) = 2 /\ DOMAIN X = {1, 2} /\ X[1] = a /\ X[2] = b
  BY <1>3, CallSets
<1>6. Body1(X)
  BY <1>3, <1>5 DEF Body1, OuterOp
<1>7. LeadsToDecode(r, u, X) /\ LeadsToOpen(r, u, X)
  <2>1. Len(X) > 0 /\ X[Len(X)].op \in Checking
    BY <1>3, <1>5 DEF Checking
  <2> QED BY <2>1, <1>1, <1>2, Zenon DEF LeadsToDecode, LeadsToOpen
<1> HIDE DEF X
<1>8. MarkedOrChecking(u)
  <2>1. /\ Len(X) > 0 => X \o Tail(t) # <<>> /\ (X \o Tail(t))[1] = X[1]
        /\ Len(X) = 2 => Len(X \o Tail(t)) > 1 /\ (X \o Tail(t))[2] = X[2]
    BY <1>1, <1>5, PushHead, Zenon
  <2>2. Len(X) > 0
    BY <1>5
  <2>3. Len(u.todo) > 1 /\ u.todo[1] = a /\ u.todo[2] = b
    BY <2>1, <2>2, <1>4, <1>5, Zenon
  <2> QED BY <2>3, <1>3 DEF MarkedOrChecking
<1> QED BY <1>4, <1>5, <1>6, <1>7, <1>8, PushKeeps

\* After the last check nothing is opened.
LEMMA EndPush ==
    ASSUME NEW r \in PartyRec, NEW u \in PartyRec, CheckInv(r), r.todo # <<>>,
           r.todo[1].op = "end", u.todo = Call("end_abits", 0) \o Tail(r.todo)
    PROVE  CheckInv(u)
<1> DEFINE t == r.todo
           a == [op |-> "end_abits", arg |-> 0]
           X == <<a>>
<1>1. /\ t \in Seq(AnyCall) /\ t # <<>> /\ Len(t) \in Nat \ {0} /\ DOMAIN t = 1..Len(t)
      /\ \A j \in DOMAIN t : j > 1 /\ t[j].op = "open_sibling" => t[1] \in Early
      /\ \A i \in DOMAIN t : i > 1 => t[i].op # "decode"
  BY FirstCall
<1>2. t[1] \notin Early
  BY DEF QuietJoin, Early
<1>3. a \in NoisyCall /\ a.op = "end_abits"
  BY DEF NoisyCall
<1>4. u.todo = X \o Tail(t)
  BY DEF Call
<1> HIDE DEF a
<1>5. X \in Seq(AnyCall) /\ Len(X) = 1 /\ DOMAIN X = {1} /\ X[1] = a
  BY <1>3, CallSets
<1>6. Body1(X)
  BY <1>3, <1>5 DEF Body1, OuterOp
<1>7. LeadsToDecode(r, u, X) /\ LeadsToOpen(r, u, X)
  <2>1. Len(t) > 1 => t[2].op # "decode"
    BY <1>1
  <2> QED BY <2>1, <1>1, <1>2, Zenon DEF LeadsToDecode, LeadsToOpen
<1> HIDE DEF X
<1>8. NoDecode(X \o Tail(t))
  BY <1>1, <1>5, <1>6, PushNoDecode
<1>9. MarkedOrChecking(u)
  BY <1>4, <1>8 DEF MarkedOrChecking
<1> QED BY <1>4, <1>5, <1>6, <1>7, <1>9, PushKeeps

\* The check itself, and the moves of a join: what follows stays.
LEMMA JoinPush ==
    ASSUME NEW r \in PartyRec, NEW u \in PartyRec, NEW X \in Seq(NoisyCall),
           CheckInv(r), r.todo # <<>>, u.todo = X \o Tail(r.todo),
           Len(X) <= 1, r.todo[1].op \in {"join", "end_abits"},
           Len(X) = 1 => X[1].op = "join",
           Len(X) = 0 => r.todo[1].op = "join",
           u.minted = r.minted,
           r.todo[1] \in QuietCall =>
               u.abit = r.abit /\ (Len(X) = 1 => X[1] \in QuietJoin)
    PROVE  CheckInv(u)
<1> DEFINE t == r.todo
<1>1. /\ t \in Seq(AnyCall) /\ t # <<>> /\ Len(t) \in Nat \ {0} /\ DOMAIN t = 1..Len(t)
      /\ QuietTail(t)
      /\ Len(t) > 1 /\ t[2].op = "decode" =>
            t[1].op \in Checking \/ (t[1] \in QuietJoin /\ Clean(r))
      /\ \A j \in DOMAIN t : j > 1 /\ t[j].op = "open_sibling" =>
            Clean(r) /\ t[1] \in Early
      /\ (~Clean(r) \/ t[1] \notin QuietCall) /\ ~r.minted =>
            \/ t[1].op = "begin_abits"
            \/ Len(t) > 1 /\ t[1].op \in {"end_abits", "join"} /\ t[2].op = "begin_abits"
            \/ NoDecode(t)
  BY FirstCall
<1>2. /\ t[1].op \notin Checking /\ t[1].op # "begin_abits"
      /\ t[1] \in Early => t[1] \in QuietJoin
  BY DEF Checking, Early
<1>3. QuietJoin \subseteq QuietCall /\ QuietJoin \subseteq Early
  BY CallSets DEF Early
<1>4. t[1] \in QuietCall => Clean(u) = Clean(r)
  BY DEF Clean
<1>5. /\ X \in Seq(AnyCall) /\ Len(X) \in Nat /\ DOMAIN X = 1..Len(X)
      /\ Len(X) = 0 \/ Len(X) = 1
  <2>1. \A n \in Nat : n <= 1 => n = 0 \/ n = 1
    OBVIOUS
  <2>2. X \in Seq(AnyCall)
    BY CallSets
  <2>3. Len(X) \in Nat /\ DOMAIN X = 1..Len(X)
    OBVIOUS
  <2> QED BY <2>1, <2>2, <2>3, Zenon
<1>6. Body1(X)
  BY <1>5 DEF Body1, OuterOp
<1>7. LeadsToDecode(r, u, X)
  BY <1>1, <1>2, <1>3, <1>4, <1>5, Zenon DEF LeadsToDecode
<1>8. LeadsToOpen(r, u, X)
  <2>1. \A i \in DOMAIN X : Len(X) = 1 /\ i = 1
    BY <1>5
  <2> QED BY <2>1, <1>1, <1>2, <1>3, <1>4, Zenon DEF LeadsToOpen
<1>9. MarkedOrChecking(u)
  <2>0. /\ Len(X) > 0 => X \o Tail(t) # <<>> /\ (X \o Tail(t))[1] = X[1]
        /\ Len(X) = 0 /\ X \o Tail(t) # <<>> =>
              Len(t) > 1 /\ (X \o Tail(t))[1] = t[2] /\ t[2] \in QuietCall
        /\ Len(X) = 1 /\ Len(t) > 1 =>
              Len(X \o Tail(t)) > 1 /\ (X \o Tail(t))[2] = t[2]
    BY <1>1, <1>5, PushHead, Zenon
  <2> SUFFICES ASSUME Unchecked(u), ~u.minted
               PROVE  \/ u.todo # <<>> /\ u.todo[1].op = "begin_abits"
                      \/ Len(u.todo) > 1 /\ u.todo[1].op \in {"end_abits", "join"}
                         /\ u.todo[2].op = "begin_abits"
                      \/ NoDecode(u.todo)
    BY DEF MarkedOrChecking
  <2>1. ~Clean(r) \/ t[1] \notin QuietCall
    <3> SUFFICES ASSUME t[1] \in QuietCall PROVE ~Clean(r)
      OBVIOUS
    <3>1. u.todo = <<>> \/ u.todo[1] \in QuietCall
      BY <2>0, <1>3, <1>5
    <3> QED BY <3>1, <1>4, Zenon DEF Unchecked
  <2>2. \/ Len(t) > 1 /\ t[2].op = "begin_abits"
        \/ NoDecode(t)
    BY <2>1, <1>1, <1>2, Zenon
  <2>3. CASE NoDecode(t)
    <3>1. \A i \in DOMAIN t : i > 1 => t[i].op # "decode"
      BY <2>3 DEF NoDecode
    <3> QED BY <3>1, <1>1, <1>5, <1>6, PushNoDecode
  <2>4. CASE Len(t) > 1 /\ t[2].op = "begin_abits"
    <3>1. CASE Len(X) = 1
      BY <3>1, <2>0, <2>4, SMTT(30)
    <3>2. CASE Len(X) = 0
      <4>1. Len(X \o Tail(t)) = Len(X) + Len(t) - 1 /\ X \o Tail(t) \in Seq(AnyCall)
        BY <1>1, <1>5, Pushed
      <4>2. X \o Tail(t) # <<>>
        BY <4>1, <3>2, <2>4, <1>1
      <4> QED BY <4>2, <3>2, <2>0, <2>4, Zenon
    <3> QED BY <3>1, <3>2, <1>5
  <2> QED BY <2>2, <2>3, <2>4
<1> QED BY <1>5, <1>6, <1>7, <1>8, <1>9, PushKeeps

-----------------------------------------------------------------------------
(* Steps of a party.                                                       *)

\* A step of p keeps the types and the order of what is left of p's job.
Keeps(p) == /\ st' \in [Party -> PartyRec]
            /\ \A q \in Party \ {p} : st'[q] = st[q]
            /\ CheckInv(st'[p])

LEMMA InCall ==
    ASSUME TypeOK, NEW p \in Party, NEW op, Calling(p, op)
    PROVE  /\ st[p] \in PartyRec
           /\ st[p].todo \in Seq(AnyCall) /\ st[p].todo # <<>>
           /\ st[p].todo[1] \in AnyCall /\ Head(st[p].todo) = st[p].todo[1]
           /\ st[p].todo[1].op = op
           /\ Tail(st[p].todo) \in Seq(AnyCall)
BY DEF TypeOK, PartyRec, Calling

\* The numbers a call is given.
LEMMA Args ==
    ASSUME NEW c \in AnyCall
    PROVE  /\ c.op \in InnerOp \cup OuterOp => c.arg \in Nat
           /\ c.op = "process_inputs" => c.arg \in Party
           /\ c.op = "join" => c.main \in Seq(Message) /\ c.sibling \in Seq(Message)
           /\ c.op = "join" /\ c \in QuietCall => c \in QuietJoin
<1>1. c.op \in InnerOp \cup OuterOp => c.arg \in Nat
  BY DEF AnyCall, QuietCall, NoisyCall, InnerCall, InnerOp, OuterOp, QuietJoin
<1>2. c.op = "process_inputs" => c.arg \in Party
  BY DEF AnyCall, QuietCall, NoisyCall, InnerCall, InnerOp, OuterOp, QuietJoin
<1>3. c.op = "join" /\ c \in QuietCall => c \in QuietJoin
  BY DEF QuietCall, InnerCall, InnerOp, OuterOp, QuietJoin
<1>4. c.op = "join" => c.main \in Seq(Message) /\ c.sibling \in Seq(Message)
  <2>1. ASSUME c \in QuietJoin PROVE c.main \in Seq(Message) /\ c.sibling \in Seq(Message)
    BY <2>1, Messages DEF QuietJoin
  <2>2. ASSUME c \in NoisyCall, c.op = "join"
        PROVE  c.main \in Seq(Message) /\ c.sibling \in Seq(Message)
    BY <2>2 DEF NoisyCall
  <2> QED BY <1>3, <2>1, <2>2 DEF AnyCall
<1> QED BY <1>1, <1>2, <1>3, <1>4

\* A party's state with one field changed.
LEMMA Fields ==
    ASSUME NEW r \in PartyRec
    PROVE  /\ r = [f \in {"run", "todo", "minted", "abit", "coins", "got", "connected", "fs"} |-> r[f]]
           /\ r.run \in {"running", "done", "failed"} /\ r.todo \in Seq(AnyCall)
           /\ r.minted \in BOOLEAN /\ r.abit \in [1..2 -> AbitRec]
           /\ r.coins \in Seq(Digest \X Digest) /\ r.got \in Val
           /\ r.connected \in BOOLEAN /\ r.fs \in [Stream -> FsRec]
BY Zenon DEF PartyRec

LEMMA WithRun ==
    ASSUME NEW r \in PartyRec, NEW x \in {"done", "failed"}
    PROVE  /\ [r EXCEPT !.run = x] \in PartyRec /\ [r EXCEPT !.run = x].run = x
           /\ [r EXCEPT !.run = x].todo = r.todo /\ [r EXCEPT !.run = x].minted = r.minted
           /\ [r EXCEPT !.run = x].abit = r.abit /\ [r EXCEPT !.run = x].coins = r.coins
           /\ [r EXCEPT !.run = x].got = r.got /\ [r EXCEPT !.run = x].connected = r.connected
           /\ [r EXCEPT !.run = x].fs = r.fs
BY Fields DEF PartyRec

LEMMA WithTodo ==
    ASSUME NEW r \in PartyRec, NEW x \in Seq(AnyCall)
    PROVE  /\ [r EXCEPT !.todo = x] \in PartyRec /\ [r EXCEPT !.todo = x].todo = x
           /\ [r EXCEPT !.todo = x].run = r.run /\ [r EXCEPT !.todo = x].minted = r.minted
           /\ [r EXCEPT !.todo = x].abit = r.abit /\ [r EXCEPT !.todo = x].coins = r.coins
           /\ [r EXCEPT !.todo = x].got = r.got /\ [r EXCEPT !.todo = x].connected = r.connected
           /\ [r EXCEPT !.todo = x].fs = r.fs
BY Fields DEF PartyRec

LEMMA WithMinted ==
    ASSUME NEW r \in PartyRec, NEW x \in BOOLEAN
    PROVE  /\ [r EXCEPT !.minted = x] \in PartyRec /\ [r EXCEPT !.minted = x].minted = x
           /\ [r EXCEPT !.minted = x].run = r.run /\ [r EXCEPT !.minted = x].todo = r.todo
           /\ [r EXCEPT !.minted = x].abit = r.abit /\ [r EXCEPT !.minted = x].coins = r.coins
           /\ [r EXCEPT !.minted = x].got = r.got /\ [r EXCEPT !.minted = x].connected = r.connected
           /\ [r EXCEPT !.minted = x].fs = r.fs
BY Fields DEF PartyRec

LEMMA WithAbit ==
    ASSUME NEW r \in PartyRec, NEW x \in [1..2 -> AbitRec]
    PROVE  /\ [r EXCEPT !.abit = x] \in PartyRec /\ [r EXCEPT !.abit = x].abit = x
           /\ [r EXCEPT !.abit = x].run = r.run /\ [r EXCEPT !.abit = x].todo = r.todo
           /\ [r EXCEPT !.abit = x].minted = r.minted /\ [r EXCEPT !.abit = x].coins = r.coins
           /\ [r EXCEPT !.abit = x].got = r.got /\ [r EXCEPT !.abit = x].connected = r.connected
           /\ [r EXCEPT !.abit = x].fs = r.fs
BY Fields DEF PartyRec

LEMMA WithCoins ==
    ASSUME NEW r \in PartyRec, NEW x \in Seq(Digest \X Digest)
    PROVE  /\ [r EXCEPT !.coins = x] \in PartyRec /\ [r EXCEPT !.coins = x].coins = x
           /\ [r EXCEPT !.coins = x].run = r.run /\ [r EXCEPT !.coins = x].todo = r.todo
           /\ [r EXCEPT !.coins = x].minted = r.minted /\ [r EXCEPT !.coins = x].abit = r.abit
           /\ [r EXCEPT !.coins = x].got = r.got /\ [r EXCEPT !.coins = x].connected = r.connected
           /\ [r EXCEPT !.coins = x].fs = r.fs
BY Fields DEF PartyRec

LEMMA WithGot ==
    ASSUME NEW r \in PartyRec, NEW x \in Val
    PROVE  /\ [r EXCEPT !.got = x] \in PartyRec /\ [r EXCEPT !.got = x].got = x
           /\ [r EXCEPT !.got = x].run = r.run /\ [r EXCEPT !.got = x].todo = r.todo
           /\ [r EXCEPT !.got = x].minted = r.minted /\ [r EXCEPT !.got = x].abit = r.abit
           /\ [r EXCEPT !.got = x].coins = r.coins /\ [r EXCEPT !.got = x].connected = r.connected
           /\ [r EXCEPT !.got = x].fs = r.fs
BY Fields DEF PartyRec

LEMMA WithConnected ==
    ASSUME NEW r \in PartyRec, NEW x \in BOOLEAN
    PROVE  /\ [r EXCEPT !.connected = x] \in PartyRec /\ [r EXCEPT !.connected = x].connected = x
           /\ [r EXCEPT !.connected = x].run = r.run /\ [r EXCEPT !.connected = x].todo = r.todo
           /\ [r EXCEPT !.connected = x].minted = r.minted /\ [r EXCEPT !.connected = x].abit = r.abit
           /\ [r EXCEPT !.connected = x].coins = r.coins /\ [r EXCEPT !.connected = x].got = r.got
           /\ [r EXCEPT !.connected = x].fs = r.fs
BY Fields DEF PartyRec

LEMMA WithFs ==
    ASSUME NEW r \in PartyRec, NEW x \in [Stream -> FsRec]
    PROVE  /\ [r EXCEPT !.fs = x] \in PartyRec /\ [r EXCEPT !.fs = x].fs = x
           /\ [r EXCEPT !.fs = x].run = r.run /\ [r EXCEPT !.fs = x].todo = r.todo
           /\ [r EXCEPT !.fs = x].minted = r.minted /\ [r EXCEPT !.fs = x].abit = r.abit
           /\ [r EXCEPT !.fs = x].coins = r.coins /\ [r EXCEPT !.fs = x].got = r.got
           /\ [r EXCEPT !.fs = x].connected = r.connected
BY Fields DEF PartyRec

\* A call that only becomes the calls of its body.
LEMMA Expanding ==
    ASSUME TypeOK, NEW p \in Party, NEW X \in Seq(AnyCall), st[p].todo # <<>>,
           st' = [st EXCEPT ![p].todo = X \o Tail(st[p].todo)]
    PROVE  /\ st' \in [Party -> PartyRec] /\ st'[p] \in PartyRec
           /\ \A q \in Party \ {p} : st'[q] = st[q]
           /\ st'[p] = [st[p] EXCEPT !.todo = X \o Tail(st[p].todo)]
           /\ st'[p].todo = X \o Tail(st[p].todo)
           /\ st'[p].minted = st[p].minted /\ st'[p].abit = st[p].abit
           /\ Clean(st[p]) => Clean(st'[p])
<1>1. st \in [Party -> PartyRec]
  BY DEF TypeOK
<1>2. X \o Tail(st[p].todo) \in Seq(AnyCall)
  BY <1>1, Pushed DEF PartyRec
<1>3. st'[p] = [st[p] EXCEPT !.todo = X \o Tail(st[p].todo)]
      /\ \A q \in Party \ {p} : st'[q] = st[q]
  BY <1>1
<1>4. st'[p] \in PartyRec /\ st'[p].todo = X \o Tail(st[p].todo)
      /\ st'[p].minted = st[p].minted /\ st'[p].abit = st[p].abit
  BY <1>1, <1>2, <1>3, WithTodo, ZenonT(40)
<1>5. st' \in [Party -> PartyRec]
  BY <1>1, <1>4
<1>6. Clean(st[p]) => Clean(st'[p])
  BY <1>4 DEF Clean
<1> QED BY <1>3, <1>4, <1>5, <1>6

\* Of these, the ones after which neither a decode nor the opening of the
\* sibling stream can come.
LEMMA ExpandingInside ==
    ASSUME TypeOK, NEW p \in Party, CheckInv(st[p]), NEW X \in Seq(InnerCall), NEW op,
           Calling(p, op), st' = [st EXCEPT ![p].todo = X \o Tail(st[p].todo)],
           op \notin Checking \cup {"join", "end_abits", "exchange_digest", "compare_digest"}
    PROVE  Keeps(p)
<1>1. X \in Seq(AnyCall)
  BY CallSets
<1>2. st[p] \in PartyRec /\ st[p].todo # <<>> /\ st[p].todo[1].op = op
  BY InCall
<1>3. /\ st' \in [Party -> PartyRec] /\ st'[p] \in PartyRec
      /\ \A q \in Party \ {p} : st'[q] = st[q]
      /\ st'[p].todo = X \o Tail(st[p].todo)
      /\ st'[p].minted = st[p].minted
      /\ Clean(st[p]) => Clean(st'[p])
  BY <1>1, <1>2, Expanding
<1>4. /\ st[p].todo[1].op \notin {"join", "begin_abits", "end_abits"}
      /\ st[p].todo[1].op \notin Checking
      /\ st[p].todo[1].op \notin {"exchange_digest", "compare_digest"}
  BY <1>2 DEF Checking
<1>5. CheckInv(st'[p])
  BY <1>2, <1>3, <1>4, QuietPush
<1> QED BY <1>3, <1>5 DEF Keeps

\* A party that fails or is done.
LEMMA Stopping ==
    ASSUME TypeOK, NEW p \in Party, NEW run \in {"done", "failed"},
           st' = [st EXCEPT ![p].run = run, ![p].todo = <<>>]
    PROVE  Keeps(p)
<1>1. st \in [Party -> PartyRec]
  BY DEF TypeOK
<1>2. st'[p] = [[st[p] EXCEPT !.run = run] EXCEPT !.todo = <<>>]
      /\ \A q \in Party \ {p} : st'[q] = st[q]
  BY <1>1
<1>3. st'[p] \in PartyRec /\ st'[p].todo = <<>>
  <2> DEFINE r == [st[p] EXCEPT !.run = run]
  <2>1. st[p] \in PartyRec /\ <<>> \in Seq(AnyCall)
    BY <1>1
  <2>2. r \in PartyRec
    BY <2>1, WithRun
  <2> HIDE DEF r
  <2>3. [r EXCEPT !.todo = <<>>] \in PartyRec /\ [r EXCEPT !.todo = <<>>].todo = <<>>
    BY <2>1, <2>2, WithTodo
  <2> QED BY <2>3, <1>2 DEF r
<1>4. st' \in [Party -> PartyRec]
  BY <1>1, <1>3
<1> QED BY <1>2, <1>3, <1>4, StopKeeps DEF Keeps

LEMMA HandshakeKeeps ==
    ASSUME TypeOK, NEW p \in Party, CheckInv(st[p]), RunSessionHandshake(p)
    PROVE  Keeps(p)
<1> DEFINE X == IF p = "Alice"
                  THEN OnMain(SendFrame("start") \o RecvFrame("ack")
                              \o RecvFrame("start") \o SendFrame("ack"))
                  ELSE OnMain(RecvFrame("start") \o SendFrame("ack")
                              \o SendFrame("start") \o RecvFrame("ack"))
<1>1. X \in Seq(InnerCall)
  BY MessageBodies, QuietJoins
<1>2. Calling(p, "handshake") /\ st' = [st EXCEPT ![p].todo = X \o Tail(st[p].todo)]
  BY DEF RunSessionHandshake, Then
<1> HIDE DEF X
<1>3. "handshake" \notin Checking \cup {"join", "end_abits", "exchange_digest", "compare_digest"}
  BY DEF Checking
<1> QED BY <1>1, <1>2, <1>3, ExpandingInside

LEMMA ComputeKeeps ==
    ASSUME TypeOK, NEW p \in Party, CheckInv(st[p]), ComputeInplace(p)
    PROVE  Keeps(p)
<1> DEFINE l == Arg(p)
           bits == BoolWireLen(l)
           Y == Call("gen_cot", l) \o LeakyAndHalfgate(p, l)
                  \o LayeredBucket(p, l, params[p].ssp) \o FeqCheck(p)
                  \o Exchange(p,
                       <<Send("open_a", bits), Send("open_b", bits)>>,
                       <<Recv("open_a", bits), Recv("open_b", bits)>>)
           X == IF l = 0 THEN <<>> ELSE Y
<1>1. Calling(p, "compute") /\ st' = [st EXCEPT ![p].todo = X \o Tail(st[p].todo)]
  BY DEF ComputeInplace, Then
<1>2. l \in Nat
  BY <1>1, InCall, Args DEF Arg, InnerOp
<1>3. l # 0 => Y \in Seq(InnerCall)
  <2>1. l # 0 => l \in Nat \ {0}
    BY <1>2
  <2>2. params[p].ssp \in Nat
    BY DEF TypeOK, Param
  <2> HIDE DEF l
  <2> QED BY <2>1, <2>2, ComputeBody
<1> HIDE DEF Y
<1>4. X \in Seq(InnerCall)
  BY <1>3
<1> HIDE DEF X
<1>5. "compute" \notin Checking \cup {"join", "end_abits", "exchange_digest", "compare_digest"}
  BY DEF Checking
<1> QED BY <1>1, <1>4, <1>5, ExpandingInside

LEMMA InputsKeep ==
    ASSUME TypeOK, NEW p \in Party, CheckInv(st[p]), ProcessInputs(p)
    PROVE  Keeps(p)
<1> DEFINE n == ValueBits
           mine == Arg(p) = p
           X == Call("gen_cot", n)
             \o Exchange(p,
                  <<Send("share", n), Send("mac", 1)>>
                    \o IF mine THEN <<Send("masked", n)>> ELSE <<>>,
                  <<Recv("share", n), Recv("mac", 1)>>
                    \o IF mine THEN <<>> ELSE <<Recv("masked", n)>>)
             \o OnMain(IF p = "Alice" THEN <<Send("labels", n)>>
                                      ELSE <<Recv("labels", n)>>)
<1>1. Calling(p, "process_inputs") /\ st' = [st EXCEPT ![p].todo = X \o Tail(st[p].todo)]
  BY DEF ProcessInputs, Then
<1>2. mine \in BOOLEAN
  OBVIOUS
<1>3. X \in Seq(InnerCall)
  <2> HIDE DEF mine
  <2> QED BY <1>2, InputsBody
<1> HIDE DEF X
<1>5. "process_inputs" \notin Checking \cup {"join", "end_abits", "exchange_digest", "compare_digest"}
  BY DEF Checking
<1> QED BY <1>1, <1>3, <1>5, ExpandingInside

LEMMA GarbleKeeps ==
    ASSUME TypeOK, NEW p \in Party, CheckInv(st[p]), Garble(p) \/ Evaluate(p)
    PROVE  Keeps(p)
<1>1. ASSUME NEW op \in {"garble", "evaluate"}, Calling(p, op) PROVE Arg(p) \in Nat
  BY <1>1, InCall, Args DEF Arg, InnerOp
<1>2. {"garble", "evaluate"}
        \cap (Checking \cup {"join", "end_abits", "exchange_digest", "compare_digest"}) = {}
  BY DEF Checking
<1>3. CASE Garble(p)
  <2> DEFINE X == OnMain(GarblerPath(Arg(p)))
  <2>1. Calling(p, "garble") /\ st' = [st EXCEPT ![p].todo = X \o Tail(st[p].todo)]
    BY <1>3 DEF Garble, Then
  <2>2. X \in Seq(InnerCall)
    BY <1>1, <2>1, GarbleBodies, QuietJoins
  <2> HIDE DEF X
  <2> QED BY <1>2, <2>1, <2>2, ExpandingInside
<1>4. CASE Evaluate(p)
  <2> DEFINE X == OnMain(EvaluatorPath(Arg(p)))
  <2>1. Calling(p, "evaluate") /\ st' = [st EXCEPT ![p].todo = X \o Tail(st[p].todo)]
    BY <1>4 DEF Evaluate, Then
  <2>2. X \in Seq(InnerCall)
    BY <1>1, <2>1, GarbleBodies, QuietJoins
  <2> HIDE DEF X
  <2> QED BY <1>2, <2>1, <2>2, ExpandingInside
<1> QED BY <1>3, <1>4

LEMMA TargetMessages ==
    ASSUME NEW p \in Party
    PROVE  OnMain(<<Send("target", 1)>>) \in Seq(InnerCall)
           /\ OnMain(<<Recv("target", 1)>>) \in Seq(InnerCall)
<1>1. <<Send("target", 1)>> \in Seq(QuietMessage) /\ <<Recv("target", 1)>> \in Seq(QuietMessage)
  BY QuietMessages DEF QuietKind
<1> QED BY <1>1, QuietJoins

LEMMA ServeKeeps ==
    ASSUME TypeOK, NEW p \in Party, CheckInv(st[p]), ServeTarget(p)
    PROVE  Keeps(p)
<1> DEFINE X == OnMain(<<Recv("target", 1)>>) \o Call("precompute", 0) \o Call("serve", 0)
<1>1. Calling(p, "serve") /\ st' = [st EXCEPT ![p].todo = X \o Tail(st[p].todo)]
  BY DEF ServeTarget, Then
<1>2. Call("precompute", 0) \in Seq(InnerCall) /\ Call("serve", 0) \in Seq(InnerCall)
  <2>1. "precompute" \in InnerOp /\ "serve" \in InnerOp /\ 0 \in Nat
    BY DEF InnerOp
  <2> QED BY <2>1, InnerCalls, Zenon
<1>3. X \in Seq(InnerCall)
  BY <1>2, TargetMessages
<1> HIDE DEF X
<1>5. "serve" \notin Checking \cup {"join", "end_abits", "exchange_digest", "compare_digest"}
  BY DEF Checking
<1> QED BY <1>1, <1>3, <1>5, ExpandingInside

LEMMA PrecomputeKeeps ==
    ASSUME TypeOK, NEW p \in Party, CheckInv(st[p]), PrecomputeTarget(p)
    PROVE  Keeps(p)
<1>1. CASE st[p].got \in DOMAIN Targets
  <2> DEFINE programs == Targets[st[p].got]
             X == Calls("run_program", programs)
                    \o IF programs = <<>> THEN <<>> ELSE Call("trim", 0)
  <2>1. Calling(p, "precompute") /\ st' = [st EXCEPT ![p].todo = X \o Tail(st[p].todo)]
    BY <1>1 DEF PrecomputeTarget, Then
  <2>2. programs \in Seq(Nat)
    <3>1. programs \in Seq(Nat)
      BY <1>1, JobsAssumption
    <3> QED BY <3>1
  <2> HIDE DEF programs
  <2>3. Calls("run_program", programs) \in Seq(InnerCall) /\ Call("trim", 0) \in Seq(InnerCall)
    BY <2>2, InnerCalls DEF InnerOp
  <2>4. X \in Seq(InnerCall)
    BY <2>3
  <2> HIDE DEF X
  <2>5. "precompute" \notin Checking \cup {"join", "end_abits", "exchange_digest", "compare_digest"}
    BY DEF Checking
  <2> QED BY <2>1, <2>4, <2>5, ExpandingInside
<1>2. CASE st[p].got \notin DOMAIN Targets
  <2>1. st' = [st EXCEPT ![p].run = "failed", ![p].todo = <<>>]
    BY <1>2 DEF PrecomputeTarget, Fails
  <2> QED BY <2>1, Stopping
<1> QED BY <1>1, <1>2

\* A call that changes other parts of the party's state to those of r.
LEMMA ExpandingWith ==
    ASSUME TypeOK, NEW p \in Party, NEW r \in PartyRec, NEW X \in Seq(AnyCall),
           st[p].todo # <<>>,
           st' = [st EXCEPT ![p] = [r EXCEPT !.todo = X \o Tail(st[p].todo)]]
    PROVE  /\ st' \in [Party -> PartyRec] /\ st'[p] \in PartyRec
           /\ \A q \in Party \ {p} : st'[q] = st[q]
           /\ st'[p].todo = X \o Tail(st[p].todo)
           /\ st'[p].minted = r.minted /\ st'[p].abit = r.abit
           /\ Clean(r) => Clean(st'[p])
<1>1. st \in [Party -> PartyRec]
  BY DEF TypeOK
<1>2. X \o Tail(st[p].todo) \in Seq(AnyCall)
  BY <1>1, Pushed DEF PartyRec
<1>3. st'[p] = [r EXCEPT !.todo = X \o Tail(st[p].todo)]
      /\ \A q \in Party \ {p} : st'[q] = st[q]
  BY <1>1
<1>4. st'[p] \in PartyRec /\ st'[p].todo = X \o Tail(st[p].todo)
      /\ st'[p].minted = r.minted /\ st'[p].abit = r.abit
  <2> DEFINE x == X \o Tail(st[p].todo)
  <2> HIDE DEF x
  <2>1. x \in Seq(AnyCall)
    BY <1>2 DEF x
  <2>2. [r EXCEPT !.todo = x] \in PartyRec /\ [r EXCEPT !.todo = x].todo = x
        /\ [r EXCEPT !.todo = x].minted = r.minted /\ [r EXCEPT !.todo = x].abit = r.abit
    BY <2>1, WithTodo, Zenon
  <2> QED BY <2>2, <1>3, Zenon DEF x
<1>5. st' \in [Party -> PartyRec]
  BY <1>1, <1>4
<1>6. Clean(r) => Clean(st'[p])
  BY <1>4 DEF Clean
<1> QED BY <1>3, <1>4, <1>5, <1>6

LEMMA DigestKeeps ==
    ASSUME TypeOK, NEW p \in Party, CheckInv(st[p]), ExchangeCircuitDigest(p)
    PROVE  Keeps(p)
<1> DEFINE a == <<Send("circuit", 1), Recv("circuit", 1)>>
           b == <<Recv("circuit", 1), Send("circuit", 1)>>
           c == [op |-> "compare_digest", arg |-> 0]
           Y == IF p = "Alice" THEN OnMain(a) ELSE OnMain(b)
           X == Y \o <<c>>
<1>1. Calling(p, "exchange_digest") /\ st' = [st EXCEPT ![p].todo = X \o Tail(st[p].todo)]
  BY DEF ExchangeCircuitDigest, Then, Call
<1>2. a \in Seq(QuietMessage) /\ b \in Seq(QuietMessage)
  BY QuietMessages DEF QuietKind
<1> HIDE DEF a, b
<1>3. Y \in Seq(QuietJoin)
  BY <1>2, QuietJoins
<1>4. c \in Early /\ c \in InnerCall /\ QuietJoin \subseteq Early /\ QuietJoin \subseteq InnerCall
  BY CallSets DEF Early, InnerCall, InnerOp
<1> HIDE DEF Y, c
<1>5. X \in Seq(InnerCall) /\ X \in Seq(Early)
  BY <1>3, <1>4
<1>6. \A i \in DOMAIN X : X[i] \in Early
  BY <1>5
<1> HIDE DEF X
<1>7. X \in Seq(AnyCall)
  BY <1>5, CallSets
<1>8. st[p] \in PartyRec /\ st[p].todo # <<>> /\ st[p].todo[1].op = "exchange_digest"
  BY <1>1, InCall
<1>9. /\ st' \in [Party -> PartyRec] /\ st'[p] \in PartyRec
      /\ \A q \in Party \ {p} : st'[q] = st[q]
      /\ st'[p].todo = X \o Tail(st[p].todo)
      /\ st'[p].minted = st[p].minted
      /\ Clean(st[p]) => Clean(st'[p])
  BY <1>1, <1>7, <1>8, Expanding
<1>10. CheckInv(st'[p])
  BY <1>5, <1>6, <1>8, <1>9, QuietPush DEF Checking
<1> QED BY <1>9, <1>10 DEF Keeps

LEMMA CompareKeeps ==
    ASSUME TypeOK, NEW p \in Party, CheckInv(st[p]), CompareDigest(p)
    PROVE  Keeps(p)
<1>1. Calling(p, "compare_digest")
  BY DEF CompareDigest
<1>2. CASE st[p].got = params[p]
  <2> DEFINE X == <<>>
  <2>1. st' = [st EXCEPT ![p].todo = X \o Tail(st[p].todo)]
    BY <1>2 DEF CompareDigest, Then
  <2>2. X \in Seq(InnerCall) /\ X \in Seq(AnyCall) /\ \A i \in DOMAIN X : X[i] \in Early
    OBVIOUS
  <2> HIDE DEF X
  <2>3. st[p] \in PartyRec /\ st[p].todo # <<>> /\ st[p].todo[1].op = "compare_digest"
    BY <1>1, InCall
  <2>4. /\ st' \in [Party -> PartyRec] /\ st'[p] \in PartyRec
        /\ \A q \in Party \ {p} : st'[q] = st[q]
        /\ st'[p].todo = X \o Tail(st[p].todo)
        /\ st'[p].minted = st[p].minted
        /\ Clean(st[p]) => Clean(st'[p])
    BY <2>1, <2>2, <2>3, Expanding
  <2>5. CheckInv(st'[p])
    BY <2>2, <2>3, <2>4, QuietPush DEF Checking
  <2> QED BY <2>4, <2>5 DEF Keeps
<1>3. CASE st[p].got # params[p]
  <2>1. st' = [st EXCEPT ![p].run = "failed", ![p].todo = <<>>]
    BY <1>3 DEF CompareDigest, Fails
  <2> QED BY <2>1, Stopping
<1> QED BY <1>2, <1>3

LEMMA SiblingKeeps ==
    ASSUME TypeOK, NEW p \in Party, CheckInv(st[p]), OpenSibling(p)
    PROVE  Keeps(p)
<1> DEFINE X == <<>>
           r == [st[p] EXCEPT !.connected = TRUE]
<1>1. Calling(p, "open_sibling")
  BY DEF OpenSibling
<1>2. st[p] \in PartyRec /\ st[p].todo # <<>> /\ st[p].todo[1].op = "open_sibling"
  BY <1>1, InCall
<1>3. st' = [st EXCEPT ![p] = [r EXCEPT !.todo = X \o Tail(st[p].todo)]]
  BY <1>2 DEF OpenSibling, Then, TypeOK
<1>4. r \in PartyRec /\ r.minted = st[p].minted /\ r.abit = st[p].abit
  BY <1>2, WithConnected
<1>5. X \in Seq(InnerCall) /\ X \in Seq(AnyCall) /\ Len(X) = 0
  OBVIOUS
<1> HIDE DEF X, r
<1>6. /\ st' \in [Party -> PartyRec] /\ st'[p] \in PartyRec
      /\ \A q \in Party \ {p} : st'[q] = st[q]
      /\ st'[p].todo = X \o Tail(st[p].todo)
      /\ st'[p].minted = r.minted
      /\ Clean(r) => Clean(st'[p])
  BY <1>2, <1>3, <1>4, <1>5, ExpandingWith, ZenonT(40)
<1>7. Clean(st[p])
  BY <1>2, FirstCall
<1>8. Clean(st'[p])
  BY <1>4, <1>6, <1>7 DEF Clean
<1>9. LeadsToDecode(st[p], st'[p], X)
  BY <1>5, <1>8 DEF LeadsToDecode
<1>10. CheckInv(st'[p])
  BY <1>2, <1>4, <1>5, <1>6, <1>8, <1>9, QuietPush
<1> QED BY <1>6, <1>10 DEF Keeps

LEMMA DecodeKeeps ==
    ASSUME TypeOK, NEW p \in Party, CheckInv(st[p]), Decode(p)
    PROVE  Keeps(p)
<1> DEFINE a == <<Send("share", ValueBits), Send("mac", 1), Recv("bits", ValueBits)>>
           b == <<Recv("share", ValueBits), Recv("mac", 1), Send("bits", ValueBits)>>
           X == IF p = "Alice" THEN OnMain(a) ELSE OnMain(b)
<1>1. Calling(p, "decode") /\ st' = [st EXCEPT ![p].todo = X \o Tail(st[p].todo)]
  BY DEF Decode, Then
<1>2. a \in Seq(QuietMessage) /\ b \in Seq(QuietMessage) /\ a # <<>> /\ b # <<>>
  BY DecodeBodies
<1> HIDE DEF a, b
<1>3. X \in Seq(QuietJoin) /\ Len(X) <= 1
  BY <1>2, QuietJoins
<1>4. Len(X) = 1
  BY <1>2 DEF OnMain, Join
<1> HIDE DEF X
<1>5. X \in Seq(InnerCall) /\ X \in Seq(AnyCall) /\ X[1] \in QuietJoin
  BY <1>3, <1>4, CallSets
<1>6. st[p] \in PartyRec /\ st[p].todo # <<>> /\ st[p].todo[1].op = "decode"
  BY <1>1, InCall
<1>7. /\ st' \in [Party -> PartyRec] /\ st'[p] \in PartyRec
      /\ \A q \in Party \ {p} : st'[q] = st[q]
      /\ st'[p].todo = X \o Tail(st[p].todo)
      /\ st'[p].minted = st[p].minted
      /\ Clean(st[p]) => Clean(st'[p])
  BY <1>1, <1>5, <1>6, Expanding
<1>8. Clean(st'[p])
  BY <1>6, <1>7, FirstCall
<1>9. LeadsToDecode(st[p], st'[p], X)
  BY <1>4, <1>5, <1>8 DEF LeadsToDecode
<1>10. CheckInv(st'[p])
  BY <1>5, <1>6, <1>7, <1>9, QuietPush
<1> QED BY <1>7, <1>10 DEF Keeps

LEMMA ProgramKeeps ==
    ASSUME TypeOK, NEW p \in Party, CheckInv(st[p]), RunProgram(p)
    PROVE  Keeps(p)
<1> DEFINE ands == Arg(p)
           f == [op |-> "maybe_flush", arg |-> 0]
           Z == Times(CeilDiv(ands, MaskBatch), Call("gen_cot", MaskBatch))
                  \o Call("compute", ands) \o Call("coin", 0)
                  \o Call(IF p = "Alice" THEN "garble" ELSE "evaluate", ands)
                  \o Call("maybe_flush", 0)
           r == [st[p] EXCEPT !.coins = <<>>]
<1>1. Calling(p, "run_program")
  BY DEF RunProgram
<1>2. st[p] \in PartyRec /\ st[p].todo # <<>> /\ st[p].todo[1].op = "run_program"
  BY <1>1, InCall
<1>3. st' = [st EXCEPT ![p] = [r EXCEPT !.todo = Z \o Tail(st[p].todo)]]
  BY <1>2 DEF RunProgram, Then, TypeOK
<1>4. r \in PartyRec /\ r.minted = st[p].minted /\ r.abit = st[p].abit
  <2>1. <<>> \in Seq(Digest \X Digest)
    OBVIOUS
  <2> QED BY <1>2, <2>1, WithCoins
<1>5. ands \in Nat
  BY <1>1, InCall, Args DEF Arg, InnerOp
<1>6. PICK Y \in Seq(InnerCall) : Z = Y \o Call("maybe_flush", 0)
  BY <1>5, ProgramBody
<1>7. f \in InnerCall /\ f.op \in Checking
  BY DEF InnerCall, InnerOp, Checking
<1> HIDE DEF Z, r, f
<1>8. Z = Y \o <<f>>
  BY <1>6 DEF Call, f
<1>9. Z \in Seq(InnerCall) /\ Len(Z) > 0 /\ Z[Len(Z)] = f
  BY <1>7, <1>8
<1>10. Z \in Seq(AnyCall)
  BY <1>9, CallSets
<1>11. /\ st' \in [Party -> PartyRec] /\ st'[p] \in PartyRec
       /\ \A q \in Party \ {p} : st'[q] = st[q]
       /\ st'[p].todo = Z \o Tail(st[p].todo)
       /\ st'[p].minted = r.minted
       /\ Clean(r) => Clean(st'[p])
  BY <1>2, <1>3, <1>4, <1>10, ExpandingWith, ZenonT(40)
<1>12. Clean(st[p]) => Clean(st'[p])
  BY <1>4, <1>11 DEF Clean
<1>13. LeadsToDecode(st[p], st'[p], Z)
  BY <1>7, <1>9 DEF LeadsToDecode
<1>14. CheckInv(st'[p])
  BY <1>2, <1>4, <1>9, <1>11, <1>12, <1>13, QuietPush
<1> QED BY <1>11, <1>14 DEF Keeps

LEMMA SetupKeeps ==
    ASSUME TypeOK, NEW p \in Party, CheckInv(st[p]), Setup(p)
    PROVE  Keeps(p)
<1> DEFINE fs == [s \in Stream |-> [on |-> TRUE, first |-> SendFirst(p),
                                    sent |-> 0, recd |-> 0]]
           b == [op |-> "begin_abits", arg |-> 0]
           X == <<b>>
           r == [st[p] EXCEPT !.fs = fs]
<1>1. Calling(p, "setup")
  BY DEF Setup
<1>2. st[p] \in PartyRec /\ st[p].todo # <<>> /\ st[p].todo[1].op = "setup"
  BY <1>1, InCall
<1>3. st' = [st EXCEPT ![p] = [r EXCEPT !.todo = X \o Tail(st[p].todo)]]
  BY <1>2 DEF Setup, Then, TypeOK, Call
<1>4. fs \in [Stream -> FsRec]
  BY DEF FsRec, SendFirst
<1> HIDE DEF fs
<1>5. r \in PartyRec /\ r.minted = st[p].minted /\ r.abit = st[p].abit
  BY <1>2, <1>4, WithFs
<1>6. b \in InnerCall /\ b.op \in Checking
  BY DEF InnerCall, InnerOp, Checking
<1> HIDE DEF r, b
<1>7. X \in Seq(InnerCall) /\ Len(X) > 0 /\ X[Len(X)] = b
  BY <1>6
<1> HIDE DEF X
<1>8. X \in Seq(AnyCall)
  BY <1>7, CallSets
<1>9. /\ st' \in [Party -> PartyRec] /\ st'[p] \in PartyRec
      /\ \A q \in Party \ {p} : st'[q] = st[q]
      /\ st'[p].todo = X \o Tail(st[p].todo)
      /\ st'[p].minted = r.minted
      /\ Clean(r) => Clean(st'[p])
  BY <1>2, <1>3, <1>5, <1>8, ExpandingWith, ZenonT(40)
<1>10. Clean(st[p]) => Clean(st'[p])
  BY <1>5, <1>9 DEF Clean
<1>11. LeadsToDecode(st[p], st'[p], X)
  BY <1>6, <1>7 DEF LeadsToDecode
<1>12. CheckInv(st'[p])
  BY <1>2, <1>5, <1>7, <1>9, <1>10, <1>11, QuietPush
<1> QED BY <1>9, <1>12 DEF Keeps

\* Calls that change other parts of the state, and after which neither a
\* decode nor the opening of the sibling stream can come.
LEMMA ExpandingInsideWith ==
    ASSUME TypeOK, NEW p \in Party, CheckInv(st[p]), NEW X \in Seq(InnerCall), NEW op,
           NEW r \in PartyRec, r.minted = st[p].minted, Clean(st[p]) => Clean(r),
           Calling(p, op), st' = [st EXCEPT ![p] = [r EXCEPT !.todo = X \o Tail(st[p].todo)]],
           op \notin Checking \cup {"join", "end_abits", "exchange_digest", "compare_digest"}
    PROVE  Keeps(p)
<1>1. X \in Seq(AnyCall)
  BY CallSets
<1>2. st[p] \in PartyRec /\ st[p].todo # <<>> /\ st[p].todo[1].op = op
  BY InCall
<1>3. /\ st' \in [Party -> PartyRec] /\ st'[p] \in PartyRec
      /\ \A q \in Party \ {p} : st'[q] = st[q]
      /\ st'[p].todo = X \o Tail(st[p].todo)
      /\ st'[p].minted = st[p].minted
      /\ Clean(st[p]) => Clean(st'[p])
  BY <1>1, <1>2, ExpandingWith
<1>4. /\ st[p].todo[1].op \notin {"join", "begin_abits", "end_abits"}
      /\ st[p].todo[1].op \notin Checking
      /\ st[p].todo[1].op \notin {"exchange_digest", "compare_digest"}
  BY <1>2 DEF Checking
<1>5. CheckInv(st'[p])
  BY <1>2, <1>3, <1>4, QuietPush
<1> QED BY <1>3, <1>5 DEF Keeps

LEMMA Digests ==
    ASSUME NEW f \in FsRec
    PROVE  GetDigest(f) \in Digest
BY DEF FsRec, GetDigest, Digest

LEMMA CoinKeeps ==
    ASSUME TypeOK, NEW p \in Party, CheckInv(st[p]), DrawCoin(p)
    PROVE  Keeps(p)
<1> DEFINE coin == <<GetDigest(st[p].fs["main"]), GetDigest(st[p].fs["sibling"])>>
           c == Append(st[p].coins, coin)
           X == <<>>
           r == [st[p] EXCEPT !.coins = c]
<1>1. Calling(p, "coin")
  BY DEF DrawCoin
<1>2. st[p] \in PartyRec
  BY <1>1, InCall
<1>3. st' = [st EXCEPT ![p] = [r EXCEPT !.todo = X \o Tail(st[p].todo)]]
  BY <1>2 DEF DrawCoin, Then, TypeOK
<1>4. coin \in Digest \X Digest
  BY <1>2, Fields, Digests DEF Stream
<1> HIDE DEF coin
<1>5. c \in Seq(Digest \X Digest)
  BY <1>2, <1>4, Fields
<1> HIDE DEF c
<1>6. r \in PartyRec /\ r.minted = st[p].minted /\ r.abit = st[p].abit
  BY <1>2, <1>5, WithCoins
<1>7. X \in Seq(InnerCall)
  OBVIOUS
<1> HIDE DEF r, X
<1>8. Clean(st[p]) => Clean(r)
  BY <1>6 DEF Clean
<1>9. "coin" \notin Checking \cup {"join", "end_abits", "exchange_digest", "compare_digest"}
  BY DEF Checking
<1> QED BY <1>1, <1>3, <1>6, <1>7, <1>8, <1>9, ExpandingInsideWith

LEMMA RequestKeeps ==
    ASSUME TypeOK, NEW p \in Party, CheckInv(st[p]), RequestTarget(p)
    PROVE  Keeps(p)
<1> DEFINE X == OnMain(<<Send("target", 1)>>) \o Call("precompute", 0)
           r == [st[p] EXCEPT !.got = Arg(p)]
<1>1. Calling(p, "request")
  BY DEF RequestTarget
<1>2. st[p] \in PartyRec
  BY <1>1, InCall
<1>3. st' = [st EXCEPT ![p] = [r EXCEPT !.todo = X \o Tail(st[p].todo)]]
  BY <1>2 DEF RequestTarget, Then, TypeOK
<1>4. Arg(p) \in Nat
  BY <1>1, InCall, Args DEF Arg, InnerOp
<1>5. Arg(p) \in Val
  BY <1>4 DEF Val
<1>6. r \in PartyRec /\ r.minted = st[p].minted /\ r.abit = st[p].abit
  BY <1>2, <1>5, WithGot
<1>7. X \in Seq(InnerCall)
  <2>1. "precompute" \in InnerOp /\ 0 \in Nat
    BY DEF InnerOp
  <2>2. Call("precompute", 0) \in Seq(InnerCall)
    BY <2>1, InnerCalls, Zenon
  <2> QED BY <2>2, TargetMessages
<1> HIDE DEF r, X
<1>8. Clean(st[p]) => Clean(r)
  BY <1>6 DEF Clean
<1>9. "request" \notin Checking \cup {"join", "end_abits", "exchange_digest", "compare_digest"}
  BY DEF Checking
<1> QED BY <1>1, <1>3, <1>6, <1>7, <1>8, <1>9, ExpandingInsideWith

LEMMA TrimKeeps ==
    ASSUME TypeOK, NEW p \in Party, CheckInv(st[p]), TrimIdleAllocations(p)
    PROVE  Keeps(p)
<1> DEFINE a == [k \in 1..2 |-> [st[p].abit[k] EXCEPT !.left = 0]]
           X == <<>>
           r == [st[p] EXCEPT !.abit = a]
<1>1. Calling(p, "trim")
  BY DEF TrimIdleAllocations
<1>2. st[p] \in PartyRec
  BY <1>1, InCall
<1>3. st' = [st EXCEPT ![p] = [r EXCEPT !.todo = X \o Tail(st[p].todo)]]
  BY <1>2 DEF TrimIdleAllocations, Then, TypeOK
<1>4. st[p].abit \in [1..2 -> AbitRec]
  BY <1>2, Fields
<1>5. a \in [1..2 -> AbitRec] /\ \A k \in 1..2 : a[k].check = st[p].abit[k].check
  BY <1>4 DEF AbitRec
<1> HIDE DEF a
<1>6. r \in PartyRec /\ r.minted = st[p].minted /\ r.abit = a
  BY <1>2, <1>5, WithAbit
<1>7. X \in Seq(InnerCall)
  OBVIOUS
<1> HIDE DEF r, X
<1>8. Clean(st[p]) => Clean(r)
  BY <1>5, <1>6 DEF Clean
<1>9. "trim" \notin Checking \cup {"join", "end_abits", "exchange_digest", "compare_digest"}
  BY DEF Checking
<1> QED BY <1>1, <1>3, <1>6, <1>7, <1>8, <1>9, ExpandingInsideWith

LEMMA GenCotKeeps ==
    ASSUME TypeOK, NEW p \in Party, CheckInv(st[p]), GenCotShares(p)
    PROVE  Keeps(p)
<1> DEFINE n == Arg(p)
           chunks(k) == ChunksFor(st[p].abit[k].left, n)
           a == [k \in 1..2 |-> [st[p].abit[k] EXCEPT !.left = LeftAfter(st[p].abit[k].left, n)]]
           b == Times(chunks(1), <<Recv("d", ChunkBlocks)>>)
           c == Times(chunks(2), <<Send("d", ChunkBlocks)>>)
           X == OnAbits(p, b, c)
           q == [st[p] EXCEPT !.minted = TRUE]
           r == [q EXCEPT !.abit = a]
<1>1. Calling(p, "gen_cot")
  BY DEF GenCotShares
<1>2. st[p] \in PartyRec /\ st[p].todo # <<>> /\ st[p].todo[1].op = "gen_cot"
  BY <1>1, InCall
<1>3. st' = [st EXCEPT ![p] = [r EXCEPT !.todo = X \o Tail(st[p].todo)]]
  <2>1. st' = [st EXCEPT ![p].minted = TRUE, ![p].abit = a,
                         ![p].todo = X \o Tail(st[p].todo)]
    BY DEF GenCotShares, Then
  <2>2. st \in [Party -> PartyRec]
    BY DEF TypeOK
  <2> HIDE DEF a, X
  <2> QED BY <2>1, <2>2
<1>4. n \in Nat
  BY <1>1, InCall, Args DEF Arg, InnerOp
<1>5. st[p].abit \in [1..2 -> AbitRec]
  BY <1>2, Fields
<1> HIDE DEF n
<1>6. ASSUME NEW left \in Int
      PROVE  ChunksFor(left, n) \in Int /\ LeftAfter(left, n) \in Int
  <2>1. Drained(left, n) \in Int
    BY <1>4, Counts DEF Drained
  <2>2. ChunksFor(left, n) \in Int
    <3>1. n - Drained(left, n) \in Int
      BY <2>1, <1>4
    <3> QED BY <3>1, Counts, Sizes DEF ChunksFor
  <2>3. ChunksFor(left, n) * ChunkOts \in Int
    BY <2>2, Sizes
  <2> QED BY <2>1, <2>2, <2>3, <1>4 DEF LeftAfter
<1>7. a \in [1..2 -> AbitRec]
  BY <1>5, <1>6 DEF AbitRec
<1>8. chunks(1) \in Int /\ chunks(2) \in Int
  <2>1. st[p].abit[1].left \in Int /\ st[p].abit[2].left \in Int
    BY <1>5 DEF AbitRec
  <2> QED BY <2>1, <1>6
<1> HIDE DEF chunks, a
<1>9. <<Recv("d", ChunkBlocks)>> \in Seq(Message) /\ <<Send("d", ChunkBlocks)>> \in Seq(Message)
  BY Messages, Sizes DEF Kind
<1>10. b \in Seq(Message) /\ c \in Seq(Message)
  BY <1>8, <1>9, TimesType
<1> HIDE DEF b, c
<1>11. X \in Seq(NoisyCall) /\ Len(X) <= 1
  BY <1>10, NoisyJoins
<1> HIDE DEF X
<1>12. X \in Seq(AnyCall)
  BY <1>11, CallSets
<1>13. q \in PartyRec /\ q.minted = TRUE
  BY <1>2, WithMinted
<1> HIDE DEF q
<1>14. r \in PartyRec /\ r.minted = TRUE
  BY <1>7, <1>13, WithAbit
<1> HIDE DEF r
<1>15. /\ st' \in [Party -> PartyRec] /\ st'[p] \in PartyRec
       /\ \A o \in Party \ {p} : st'[o] = st[o]
       /\ st'[p].todo = X \o Tail(st[p].todo)
       /\ st'[p].minted = r.minted
  BY <1>2, <1>3, <1>12, <1>14, ExpandingWith
<1>16. CheckInv(st'[p])
  BY <1>2, <1>11, <1>14, <1>15, DrawPush
<1> QED BY <1>15, <1>16 DEF Keeps

LEMMA BeginKeeps ==
    ASSUME TypeOK, NEW p \in Party, CheckInv(st[p]), BeginAbits(p)
    PROVE  Keeps(p)
<1> DEFINE a == [k \in 1..2 |-> Begun(k, st[p].abit[k])]
           b == IF st[p].abit[1].setup THEN <<>> ELSE BootstrapSend
           c == IF st[p].abit[2].setup THEN <<>> ELSE BootstrapRecv
           X == OnAbits(p, b, c)
           r == [st[p] EXCEPT !.abit = a]
<1>1. Calling(p, "begin_abits")
  BY DEF BeginAbits
<1>2. st[p] \in PartyRec /\ st[p].todo # <<>> /\ st[p].todo[1].op = "begin_abits"
  BY <1>1, InCall
<1>3. st' = [st EXCEPT ![p] = [r EXCEPT !.todo = X \o Tail(st[p].todo)]]
  BY <1>2 DEF BeginAbits, Then, TypeOK
<1>4. a \in [1..2 -> AbitRec] /\ \A k \in 1..2 : a[k].check = <<>>
  BY DEF AbitRec, Begun
<1>5. b \in Seq(QuietMessage) /\ c \in Seq(QuietMessage)
  BY MessageBodies
<1> HIDE DEF a, b, c
<1>6. X \in Seq(QuietJoin) /\ Len(X) <= 1
  BY <1>5, QuietJoins
<1> HIDE DEF X
<1>7. X \in Seq(AnyCall)
  BY <1>6, CallSets
<1>8. r \in PartyRec /\ r.abit = a
  BY <1>2, <1>4, WithAbit
<1> HIDE DEF r
<1>9. Clean(r)
  BY <1>4, <1>8 DEF Clean
<1>10. /\ st' \in [Party -> PartyRec] /\ st'[p] \in PartyRec
       /\ \A q \in Party \ {p} : st'[q] = st[q]
       /\ st'[p].todo = X \o Tail(st[p].todo)
       /\ Clean(st'[p])
  BY <1>2, <1>3, <1>7, <1>8, <1>9, ExpandingWith
<1>11. CheckInv(st'[p])
  BY <1>2, <1>6, <1>10, BeginPush
<1> QED BY <1>10, <1>11 DEF Keeps

LEMMA EndAbitsKeeps ==
    ASSUME TypeOK, NEW p \in Party, CheckInv(st[p]), EndAbits(p)
    PROVE  Keeps(p)
<1> DEFINE b == <<Recv("d", 1), Recv("x", 1), Recv("t", 1)>>
           c == <<Send("d", 1), Send("x", 1), Send("t", 1)>>
           X == OnAbits(p, b, c)
<1>1. Calling(p, "end_abits") /\ st' = [st EXCEPT ![p].todo = X \o Tail(st[p].todo)]
  BY DEF EndAbits, Then
<1>2. st[p] \in PartyRec /\ st[p].todo # <<>> /\ st[p].todo[1].op = "end_abits"
  BY <1>1, InCall
<1>3. b \in Seq(Message) /\ c \in Seq(Message) /\ b # <<>> /\ c # <<>>
  BY Messages DEF Kind, QuietKind
<1> HIDE DEF b, c
<1>4. X \in Seq(NoisyCall) /\ Len(X) <= 1
  BY <1>3, NoisyJoins
<1>5. Len(X) = 1 /\ X[1].op = "join"
  BY <1>3 DEF OnAbits, Join
<1> HIDE DEF X
<1>6. X \in Seq(AnyCall)
  BY <1>4, CallSets
<1>7. /\ st' \in [Party -> PartyRec] /\ st'[p] \in PartyRec
      /\ \A q \in Party \ {p} : st'[q] = st[q]
      /\ st'[p].todo = X \o Tail(st[p].todo)
      /\ st'[p].minted = st[p].minted
  BY <1>1, <1>2, <1>6, Expanding
<1>8. st[p].todo[1] \notin QuietCall
  BY <1>2 DEF QuietCall, InnerCall, InnerOp, OuterOp, QuietJoin
<1>9. CheckInv(st'[p])
  <2>1. Len(X) # 0 /\ st[p].todo[1].op \in {"join", "end_abits"}
    BY <1>2, <1>5
  <2> QED BY <2>1, <1>2, <1>4, <1>5, <1>7, <1>8, JoinPush
<1> QED BY <1>7, <1>9 DEF Keeps

LEMMA FlushKeeps ==
    ASSUME TypeOK, NEW p \in Party, CheckInv(st[p]), MaybeFlushCotCheck(p)
    PROVE  Keeps(p)
<1>1. Calling(p, "maybe_flush")
  BY DEF MaybeFlushCotCheck
<1>2. st[p] \in PartyRec /\ st[p].todo # <<>> /\ st[p].todo[1].op = "maybe_flush"
  BY <1>1, InCall
<1>3. CASE ShouldFlushCotCheck(p)
  <2> DEFINE X == Call("end_abits", 0) \o Call("begin_abits", 0)
             r == [st[p] EXCEPT !.minted = FALSE]
  <2>1. st' = [st EXCEPT ![p] = [r EXCEPT !.todo = X \o Tail(st[p].todo)]]
    BY <1>2, <1>3 DEF MaybeFlushCotCheck, Then, TypeOK
  <2>2. r \in PartyRec
    BY <1>2, WithMinted
  <2>3. X \in Seq(AnyCall)
    <3>1. [op |-> "end_abits", arg |-> 0] \in AnyCall
      BY DEF AnyCall, NoisyCall
    <3>2. [op |-> "begin_abits", arg |-> 0] \in AnyCall
      BY CallSets DEF InnerCall, InnerOp
    <3> QED BY <3>1, <3>2 DEF Call
  <2> HIDE DEF r
  <2>4. /\ st' \in [Party -> PartyRec] /\ st'[p] \in PartyRec
        /\ \A q \in Party \ {p} : st'[q] = st[q]
        /\ st'[p].todo = X \o Tail(st[p].todo)
    BY <1>2, <2>1, <2>2, <2>3, ExpandingWith, ZenonT(40)
  <2>5. CheckInv(st'[p])
    BY <1>2, <2>4, FlushPush
  <2> QED BY <2>4, <2>5 DEF Keeps
<1>4. CASE ~ShouldFlushCotCheck(p)
  <2> DEFINE X == <<>>
  <2>1. st' = [st EXCEPT ![p].todo = X \o Tail(st[p].todo)] /\ ~st[p].minted
    BY <1>4 DEF MaybeFlushCotCheck, Then, ShouldFlushCotCheck
  <2>2. X \in Seq(InnerCall) /\ X \in Seq(AnyCall) /\ Len(X) = 0
    OBVIOUS
  <2> HIDE DEF X
  <2>3. /\ st' \in [Party -> PartyRec] /\ st'[p] \in PartyRec
        /\ \A q \in Party \ {p} : st'[q] = st[q]
        /\ st'[p].todo = X \o Tail(st[p].todo)
        /\ st'[p].minted = st[p].minted
        /\ Clean(st[p]) => Clean(st'[p])
    BY <1>2, <2>1, <2>2, Expanding
  <2>4. LeadsToDecode(st[p], st'[p], X)
    <3> SUFFICES ASSUME Len(st[p].todo) > 1, st[p].todo[2].op = "decode"
                 PROVE  Clean(st[p])
      BY <2>2, <2>3 DEF LeadsToDecode
    <3>1. /\ Len(st[p].todo) \in Nat /\ DOMAIN st[p].todo = 1..Len(st[p].todo)
          /\ ~Clean(st[p]) /\ ~st[p].minted => NoDecode(st[p].todo)
      BY <1>2, FirstCall
    <3>2. ~NoDecode(st[p].todo)
      BY <3>1 DEF NoDecode
    <3> QED BY <3>1, <3>2, <2>1
  <2>5. CheckInv(st'[p])
    BY <1>2, <2>2, <2>3, <2>4, QuietPush
  <2> QED BY <2>3, <2>5 DEF Keeps
<1> QED BY <1>3, <1>4

LEMMA EndKeeps ==
    ASSUME TypeOK, NEW p \in Party, CheckInv(st[p]), End(p)
    PROVE  Keeps(p)
<1> DEFINE X == Call("end_abits", 0)
           r == [st[p] EXCEPT !.minted = FALSE]
<1>1. Calling(p, "end")
  BY DEF End
<1>2. st[p] \in PartyRec /\ st[p].todo # <<>> /\ st[p].todo[1].op = "end"
  BY <1>1, InCall
<1>3. st' = [st EXCEPT ![p] = [r EXCEPT !.todo = X \o Tail(st[p].todo)]]
  BY <1>2 DEF End, Then, TypeOK
<1>4. r \in PartyRec
  BY <1>2, WithMinted
<1>5. X \in Seq(AnyCall)
  <2>1. [op |-> "end_abits", arg |-> 0] \in AnyCall
    BY DEF AnyCall, NoisyCall
  <2> QED BY <2>1 DEF Call
<1> HIDE DEF r
<1>6. /\ st' \in [Party -> PartyRec] /\ st'[p] \in PartyRec
      /\ \A q \in Party \ {p} : st'[q] = st[q]
      /\ st'[p].todo = X \o Tail(st[p].todo)
  BY <1>2, <1>3, <1>4, <1>5, ExpandingWith
<1>7. CheckInv(st'[p])
  BY <1>2, <1>6, EndPush
<1> QED BY <1>6, <1>7 DEF Keeps

LEMMA FinishKeeps ==
    ASSUME TypeOK, NEW p \in Party, Finish(p)
    PROVE  Keeps(p)
<1>1. st \in [Party -> PartyRec] /\ st[p].todo = <<>>
  BY DEF TypeOK, Finish
<1>2. st'[p] = [st[p] EXCEPT !.run = "done"] /\ \A q \in Party \ {p} : st'[q] = st[q]
  BY <1>1 DEF Finish
<1>3. st'[p] \in PartyRec /\ st'[p].todo = <<>>
  <2>1. st[p] \in PartyRec /\ "done" \in {"done", "failed"}
    BY <1>1
  <2>2. PICK run \in {"done", "failed"} : run = "done"
    OBVIOUS
  <2>3. [st[p] EXCEPT !.run = run] \in PartyRec /\ [st[p] EXCEPT !.run = run].todo = st[p].todo
    BY <2>1, WithRun
  <2> QED BY <2>2, <2>3, <1>1, <1>2
<1>4. st' \in [Party -> PartyRec]
  BY <1>1, <1>3 DEF Finish
<1> QED BY <1>2, <1>3, <1>4, StopKeeps DEF Keeps

-----------------------------------------------------------------------------
(* Steps of a join.                                                        *)

JoinOf(M) == [op : {"join"}, main : Seq(M), sibling : Seq(M)]

LEMMA Branches ==
    ASSUME NEW M, NEW c \in JoinOf(M), NEW s \in Stream
    PROVE  /\ c[s] \in Seq(M) /\ c.main \in Seq(M) /\ c.sibling \in Seq(M)
           /\ \A x \in Seq(M) : [c EXCEPT ![s] = x] \in JoinOf(M)
           /\ \A x \in Seq(M) : /\ [c EXCEPT ![s] = x].main \in Seq(M)
                                /\ [c EXCEPT ![s] = x].sibling \in Seq(M)
                                /\ [c EXCEPT ![s] = x].op = "join"
<1>1. CASE s = "main"
  BY <1>1 DEF JoinOf
<1>2. CASE s = "sibling"
  BY <1>2 DEF JoinOf
<1> QED BY <1>1, <1>2 DEF Stream

\* A join once a branch is past an operation, or further in it.
LEMMA JoinMoves ==
    ASSUME NEW M, NEW c \in JoinOf(M), NEW s \in Stream, c[s] # <<>>,
           \A m \in M, n \in Nat \ {0} : [m EXCEPT !.n = n] \in M, NEW n \in Nat \ {0}
    PROVE  LET left == [c EXCEPT ![s] = Tail(@)]
               X == Join(left.main, left.sibling)
               Y == <<[c EXCEPT ![s] = <<[Head(c[s]) EXCEPT !.n = n]>> \o Tail(@)]>>
           IN  /\ X \in Seq(JoinOf(M)) /\ Len(X) <= 1
               /\ Y \in Seq(JoinOf(M)) /\ Len(Y) <= 1
<1> DEFINE left == [c EXCEPT ![s] = Tail(c[s])]
           x == <<[Head(c[s]) EXCEPT !.n = n]>> \o Tail(c[s])
           d == [c EXCEPT ![s] = x]
<1>1. Head(c[s]) \in M /\ Tail(c[s]) \in Seq(M)
  BY Branches
<1>2. left.main \in Seq(M) /\ left.sibling \in Seq(M)
  BY <1>1, Branches
<1>3. x \in Seq(M)
  <2>1. [Head(c[s]) EXCEPT !.n = n] \in M
    BY <1>1
  <2> QED BY <2>1, <1>1
<1> HIDE DEF x
<1>4. d \in JoinOf(M)
  BY <1>3, Branches
<1>5. Join(left.main, left.sibling) \in Seq(JoinOf(M)) /\ Len(Join(left.main, left.sibling)) <= 1
  <2> HIDE DEF left
  <2>1. [op |-> "join", main |-> left.main, sibling |-> left.sibling] \in JoinOf(M)
    BY <1>2 DEF JoinOf
  <2> QED BY <2>1 DEF Join
<1>6. <<d>> \in Seq(JoinOf(M)) /\ Len(<<d>>) <= 1
  <2> HIDE DEF d
  <2> QED BY <1>4
<1> QED BY <1>5, <1>6 DEF x

LEMMA MessageSets ==
    /\ \A m \in Message, n \in Nat \ {0} : [m EXCEPT !.n = n] \in Message
    /\ \A m \in QuietMessage, n \in Nat \ {0} : [m EXCEPT !.n = n] \in QuietMessage
    /\ JoinOf(QuietMessage) = QuietJoin /\ JoinOf(Message) \subseteq NoisyCall
    /\ \A c \in AnyCall : c.op = "join" =>
          c \in JoinOf(Message) /\ (c \in QuietCall => c \in JoinOf(QuietMessage))
<1>1. \A m \in Message, n \in Nat \ {0} : [m EXCEPT !.n = n] \in Message
  BY DEF Message
<1>2. \A m \in QuietMessage, n \in Nat \ {0} : [m EXCEPT !.n = n] \in QuietMessage
  BY DEF QuietMessage
<1>3. JoinOf(QuietMessage) = QuietJoin /\ JoinOf(Message) \subseteq NoisyCall
  BY DEF JoinOf, QuietJoin, NoisyCall
<1>4. ASSUME NEW c \in AnyCall, c.op = "join"
      PROVE  c \in JoinOf(Message) /\ (c \in QuietCall => c \in JoinOf(QuietMessage))
  <2>1. c \in QuietCall => c \in JoinOf(QuietMessage)
    BY <1>3, <1>4, Args
  <2>2. JoinOf(QuietMessage) \subseteq JoinOf(Message)
    BY Messages DEF JoinOf
  <2>3. c \in NoisyCall => c \in JoinOf(Message)
    BY <1>4 DEF NoisyCall, JoinOf
  <2> QED BY <2>1, <2>2, <2>3 DEF AnyCall
<1> QED BY <1>1, <1>2, <1>3, <1>4

\* The operation a busy branch is at.
LEMMA BusyFacts ==
    ASSUME TypeOK, NEW p \in Party, NEW s \in Stream, NEW dir, Busy(p, s, dir)
    PROVE  /\ Calling(p, "join") /\ st[p] \in PartyRec /\ st[p].todo # <<>>
           /\ st[p].todo \in Seq(AnyCall)
           /\ Head(st[p].todo) = st[p].todo[1] /\ st[p].todo[1].op = "join"
           /\ st[p].todo[1] \in JoinOf(Message)
           /\ st[p].todo[1][s] # <<>> /\ Op(p, s) = Head(st[p].todo[1][s])
           /\ Op(p, s) \in Message /\ Op(p, s).dir = dir
           /\ st[p].todo[1] \in QuietCall => Op(p, s) \in QuietMessage
<1>1. Calling(p, "join")
  BY DEF Busy
<1>2. /\ st[p] \in PartyRec /\ st[p].todo # <<>> /\ st[p].todo \in Seq(AnyCall)
      /\ Head(st[p].todo) = st[p].todo[1] /\ st[p].todo[1].op = "join"
      /\ st[p].todo[1] \in AnyCall
  BY <1>1, InCall
<1> DEFINE c == st[p].todo[1]
<1>3. c \in JoinOf(Message) /\ (c \in QuietCall => c \in JoinOf(QuietMessage))
  BY <1>2, MessageSets
<1>4. c[s] # <<>> /\ Op(p, s) = Head(c[s]) /\ Op(p, s).dir = dir
  BY <1>2 DEF Busy, Op
<1> HIDE DEF c
<1>5. c[s] \in Seq(Message) /\ (c \in QuietCall => c[s] \in Seq(QuietMessage))
  BY <1>3, Branches
<1>6. Head(c[s]) \in Message /\ (c \in QuietCall => Head(c[s]) \in QuietMessage)
  BY <1>4, <1>5
<1> QED BY <1>1, <1>2, <1>3, <1>4, <1>6 DEF c

\* What a join becomes.
LEMMA BranchMoves ==
    ASSUME TypeOK, NEW p \in Party, NEW s \in Stream, NEW dir, Busy(p, s, dir), NEW n \in Nat \ {0}
    PROVE  /\ \E X \in Seq(NoisyCall) :
                 /\ Past(p, s) = X \o Tail(st[p].todo)
                 /\ Len(X) <= 1 /\ (Len(X) = 1 => X[1].op = "join")
                 /\ st[p].todo[1] \in QuietCall => (Len(X) = 1 => X[1] \in QuietJoin)
           /\ \E X \in Seq(NoisyCall) :
                 /\ Within(p, s, n) = X \o Tail(st[p].todo)
                 /\ Len(X) <= 1 /\ (Len(X) = 1 => X[1].op = "join")
                 /\ st[p].todo[1] \in QuietCall => (Len(X) = 1 => X[1] \in QuietJoin)
<1> DEFINE c == st[p].todo[1]
           left == [c EXCEPT ![s] = Tail(@)]
           X == Join(left.main, left.sibling)
           Y == <<[c EXCEPT ![s] = <<[Head(c[s]) EXCEPT !.n = n]>> \o Tail(@)]>>
<1>1. /\ Head(st[p].todo) = c /\ c.op = "join" /\ c[s] # <<>>
      /\ c \in JoinOf(Message) /\ Op(p, s) = Head(c[s])
      /\ c \in QuietCall => c \in JoinOf(QuietMessage)
  <2>1. c \in AnyCall
    BY BusyFacts, InCall
  <2> QED BY <2>1, BusyFacts, MessageSets
<1>2. Past(p, s) = X \o Tail(st[p].todo) /\ Within(p, s, n) = Y \o Tail(st[p].todo)
  BY <1>1 DEF Past, Within
<1> HIDE DEF c
<1>3. /\ X \in Seq(JoinOf(Message)) /\ Len(X) <= 1
      /\ Y \in Seq(JoinOf(Message)) /\ Len(Y) <= 1
  BY <1>1, JoinMoves, MessageSets
<1>4. ASSUME c \in QuietCall
      PROVE  X \in Seq(JoinOf(QuietMessage)) /\ Y \in Seq(JoinOf(QuietMessage))
  BY <1>1, <1>4, JoinMoves, MessageSets
<1> HIDE DEF X, Y
<1>5. \A Z \in Seq(JoinOf(Message)) :
          Z \in Seq(NoisyCall) /\ (Len(Z) = 1 => Z[1].op = "join")
  <2>1. \A d \in JoinOf(Message) : d.op = "join"
    BY DEF JoinOf
  <2> QED BY <2>1, MessageSets
<1>6. \A Z \in Seq(JoinOf(QuietMessage)) : Len(Z) = 1 => Z[1] \in QuietJoin
  BY MessageSets
<1> QED BY <1>2, <1>3, <1>4, <1>5, <1>6 DEF c


\* A join that moves, and changes other parts of the party's state to r's.
LEMMA JoinKeeps ==
    ASSUME TypeOK, NEW p \in Party, CheckInv(st[p]), NEW r \in PartyRec,
           NEW X \in Seq(NoisyCall), Len(X) <= 1, Len(X) = 1 => X[1].op = "join",
           Calling(p, "join"), r.minted = st[p].minted,
           st[p].todo[1] \in QuietCall =>
               r.abit = st[p].abit /\ (Len(X) = 1 => X[1] \in QuietJoin),
           st' = [st EXCEPT ![p] = [r EXCEPT !.todo = X \o Tail(st[p].todo)]]
    PROVE  Keeps(p) /\ st'[p].todo = X \o Tail(st[p].todo)
<1>1. st[p] \in PartyRec /\ st[p].todo # <<>> /\ st[p].todo[1].op = "join"
  BY InCall
<1>2. X \in Seq(AnyCall)
  BY CallSets
<1>3. /\ st' \in [Party -> PartyRec] /\ st'[p] \in PartyRec
      /\ \A q \in Party \ {p} : st'[q] = st[q]
      /\ st'[p].todo = X \o Tail(st[p].todo)
      /\ st'[p].minted = r.minted /\ st'[p].abit = r.abit
  BY <1>1, <1>2, ExpandingWith, ZenonT(40)
<1>4. st[p].todo[1].op \in {"join", "end_abits"}
  BY <1>1
<1>5. CheckInv(st'[p])
  BY <1>1, <1>3, <1>4, JoinPush
<1> QED BY <1>3, <1>5 DEF Keeps

\* The transcripts and the checks once words have moved.
LEMMA Transcripts ==
    ASSUME TypeOK, NEW p \in Party, NEW s \in Stream, NEW dir, NEW n \in Int, NEW kind
    PROVE  /\ Moved(p, s, dir, n) \in [Stream -> FsRec]
           /\ \A fs \in [Stream -> FsRec] : Absorbed(p, s, kind, fs) \in [1..2 -> AbitRec]
           /\ \A fs \in [Stream -> FsRec] : kind # "d" => Absorbed(p, s, kind, fs) = st[p].abit
<1>1. st[p].fs \in [Stream -> FsRec] /\ st[p].abit \in [1..2 -> AbitRec]
  BY Fields DEF TypeOK
<1> DEFINE f == st[p].fs
<1>2. ASSUME NEW way \in {"sent", "recd"} PROVE [f EXCEPT ![s][way] = @ + n] \in [Stream -> FsRec]
  <2>1. [f[s] EXCEPT ![way] = f[s][way] + n] \in FsRec
    BY <1>1 DEF FsRec
  <2> QED BY <2>1, <1>1
<1>3. Moved(p, s, dir, n) \in [Stream -> FsRec]
  BY <1>1, <1>2 DEF Moved
<1>4. ASSUME NEW fs \in [Stream -> FsRec]
      PROVE  Absorbed(p, s, kind, fs) \in [1..2 -> AbitRec]
  <2> DEFINE g == GetDigest(fs[s])
             a == st[p].abit
             k == AbitOf(p, s)
  <2>1. g \in Digest /\ k \in 1..2
    BY Digests DEF AbitOf
  <2> HIDE DEF g, k
  <2>2. [a[k] EXCEPT !.check = Append(a[k].check, g)] \in AbitRec
    <3> DEFINE x == Append(a[k].check, g)
    <3>1. a[k] \in AbitRec
      BY <1>1, <2>1
    <3>2. x \in Seq(Digest)
      BY <3>1, <2>1 DEF AbitRec
    <3> HIDE DEF x
    <3>3. [a[k] EXCEPT !.check = x] \in AbitRec
      BY <3>1, <3>2 DEF AbitRec
    <3> QED BY <3>3 DEF x
  <2>3. [a EXCEPT ![k].check = Append(@, g)] \in [1..2 -> AbitRec]
    BY <1>1, <2>1, <2>2
  <2> QED BY <1>1, <2>3 DEF Absorbed, g, k
<1> QED BY <1>3, <1>4 DEF Absorbed

\* What a message says.
LEMMA Payloads ==
    ASSUME TypeOK, NEW p \in Party, NEW kind
    PROVE  Payload(p, kind) \in Val
<1>1. /\ params[p] \in Param /\ st[p].got \in Val /\ st[p].abit \in [1..2 -> AbitRec]
      /\ st[p].coins \in Seq(Digest \X Digest)
  BY Fields DEF TypeOK
<1>2. st[p].abit[2].check \in Seq(Digest)
  BY <1>1 DEF AbitRec
<1>3. <<>> \in Seq(Digest)
  OBVIOUS
<1> QED BY <1>1, <1>2, <1>3, Zenon DEF Payload, Val

LEMMA SendKeeps ==
    ASSUME TypeOK, NEW p \in Party, CheckInv(st[p]), NEW s \in Stream, SendData(p, s)
    PROVE  Keeps(p) /\ wire' \in [Party -> [Stream -> Seq(Seq(Word))]]
<1> DEFINE op == Op(p, s)
           n == Smaller(op.n, FrameWords)
           fs == Moved(p, s, "send", n)
           a == Absorbed(p, s, op.kind, fs)
<1>1. /\ Calling(p, "join") /\ st[p] \in PartyRec /\ op \in Message
      /\ st[p].todo[1] \in QuietCall => op \in QuietMessage
      /\ Busy(p, s, "send")
  BY BusyFacts DEF SendData
<1>2. op.n \in Nat \ {0} /\ n \in Nat \ {0} /\ op.kind \in Kind
      /\ (st[p].todo[1] \in QuietCall => op.kind # "d")
  <2>1. op.n \in Nat \ {0} /\ op.kind \in Kind
    BY <1>1 DEF Message
  <2>2. FrameWords \in Nat \ {0}
    BY Sizes
  <2>3. n \in Nat \ {0}
    BY <2>1, <2>2 DEF Smaller
  <2>4. op \in QuietMessage => op.kind # "d"
    BY DEF QuietMessage, QuietKind
  <2> QED BY <1>1, <2>1, <2>3, <2>4
<1>3. /\ fs \in [Stream -> FsRec] /\ a \in [1..2 -> AbitRec]
      /\ st[p].todo[1] \in QuietCall => a = st[p].abit
  BY <1>2, Transcripts
<1>4. Keeps(p)
  <2>1. CASE op.n > n
    <3> DEFINE r == [st[p] EXCEPT !.fs = fs]
    <3>1. st' = [st EXCEPT ![p].fs = fs, ![p].todo = Within(p, s, op.n - n)]
      BY <2>1 DEF SendData
    <3>2. PICK X \in Seq(NoisyCall) :
             /\ Within(p, s, op.n - n) = X \o Tail(st[p].todo)
             /\ Len(X) <= 1 /\ (Len(X) = 1 => X[1].op = "join")
             /\ st[p].todo[1] \in QuietCall => (Len(X) = 1 => X[1] \in QuietJoin)
      <4>1. op.n - n \in Nat \ {0}
        BY <1>2, <2>1
      <4> QED BY <4>1, <1>1, BranchMoves
    <3>3. r \in PartyRec /\ r.minted = st[p].minted /\ r.abit = st[p].abit
      BY <1>1, <1>3, WithFs
    <3>4. st' = [st EXCEPT ![p] = [r EXCEPT !.todo = X \o Tail(st[p].todo)]]
      <4> HIDE DEF fs, op, n
      <4> QED BY <3>1, <3>2 DEF TypeOK
    <3> HIDE DEF r
    <3> QED BY <1>1, <3>2, <3>3, <3>4, JoinKeeps
  <2>2. CASE ~(op.n > n)
    <3> DEFINE q == [st[p] EXCEPT !.fs = fs]
               r == [q EXCEPT !.abit = a]
    <3>1. st' = [st EXCEPT ![p].fs = fs, ![p].abit = a, ![p].todo = Past(p, s)]
      BY <2>2 DEF SendData
    <3>2. PICK X \in Seq(NoisyCall) :
             /\ Past(p, s) = X \o Tail(st[p].todo)
             /\ Len(X) <= 1 /\ (Len(X) = 1 => X[1].op = "join")
             /\ st[p].todo[1] \in QuietCall => (Len(X) = 1 => X[1] \in QuietJoin)
      BY <1>1, <1>2, BranchMoves
    <3>3. st' = [st EXCEPT ![p] = [r EXCEPT !.todo = X \o Tail(st[p].todo)]]
      <4> HIDE DEF fs, op, n, a
      <4> QED BY <3>1, <3>2 DEF TypeOK
    <3>4. q \in PartyRec /\ q.minted = st[p].minted /\ q.abit = st[p].abit
      BY <1>1, <1>3, WithFs
    <3> HIDE DEF q
    <3>5. r \in PartyRec /\ r.minted = st[p].minted /\ r.abit = a
      <4> HIDE DEF a
      <4> QED BY <1>3, <3>4, WithAbit
    <3> HIDE DEF r
    <3> QED BY <1>1, <1>3, <3>2, <3>3, <3>5, JoinKeeps
  <2> QED BY <2>1, <2>2
<1>5. wire' \in [Party -> [Stream -> Seq(Seq(Word))]]
  <2> DEFINE w == [kind |-> op.kind, val |-> Payload(p, op.kind)]
             frame == [i \in 1..n |-> w]
  <2>1. w \in Word
    BY <1>2, Payloads DEF Word
  <2>2. wire' = [wire EXCEPT ![p][s] = Append(@, frame)]
    BY DEF SendData
  <2> HIDE DEF w
  <2>3. frame \in Seq(Word)
    <3> HIDE DEF n
    <3> QED BY <1>2, <2>1
  <2> HIDE DEF frame
  <2> QED BY <2>2, <2>3 DEF TypeOK
<1> QED BY <1>4, <1>5

LEMMA PullKeeps ==
    ASSUME TypeOK, NEW p \in Party, NEW s \in Stream, PullFrame(p, s)
    PROVE  /\ wire' \in [Party -> [Stream -> Seq(Seq(Word))]]
           /\ buf' \in [Party -> [Stream -> Seq(Word)]]
<1>1. Peer(p) \in Party
  BY DEF Peer, Party
<1> DEFINE q == Peer(p)
<1>2. wire[q][s] \in Seq(Seq(Word)) /\ wire[q][s] # <<>> /\ buf[p][s] \in Seq(Word)
  BY <1>1 DEF TypeOK, PullFrame
<1>3. Tail(wire[q][s]) \in Seq(Seq(Word)) /\ Head(wire[q][s]) \in Seq(Word)
  BY <1>2
<1>4. buf[p][s] \o Head(wire[q][s]) \in Seq(Word)
  BY <1>2, <1>3
<1> HIDE DEF q
<1>5. /\ buf' = [buf EXCEPT ![p][s] = buf[p][s] \o Head(wire[q][s])]
      /\ wire' = [wire EXCEPT ![q][s] = Tail(wire[q][s])]
  BY DEF PullFrame, q
<1>6. buf' \in [Party -> [Stream -> Seq(Word)]]
  BY <1>4, <1>5 DEF TypeOK
<1>7. wire' \in [Party -> [Stream -> Seq(Seq(Word))]]
  BY <1>1, <1>3, <1>5 DEF TypeOK, q
<1> QED BY <1>6, <1>7

LEMMA RecvKeeps ==
    ASSUME TypeOK, NEW p \in Party, CheckInv(st[p]), NEW s \in Stream, RecvData(p, s)
    PROVE  Keeps(p) /\ buf' \in [Party -> [Stream -> Seq(Word)]]
<1> DEFINE op == Op(p, s)
           last == buf[p][s][op.n]
           fs == Moved(p, s, "recv", op.n)
           a == Absorbed(p, s, op.kind, fs)
           g == IF op.kind \in {"circuit", "target"} THEN last.val ELSE st[p].got
<1>1. /\ Calling(p, "join") /\ st[p] \in PartyRec /\ op \in Message
      /\ st[p].todo[1] \in QuietCall => op \in QuietMessage
      /\ Busy(p, s, "recv")
  BY BusyFacts DEF RecvData
<1>2. op.n \in Nat \ {0} /\ op.kind \in Kind
      /\ (st[p].todo[1] \in QuietCall => op.kind # "d")
  <2>1. op.n \in Nat \ {0} /\ op.kind \in Kind
    BY <1>1 DEF Message
  <2>2. op \in QuietMessage => op.kind # "d"
    BY DEF QuietMessage, QuietKind
  <2> QED BY <1>1, <2>1, <2>2
<1>3. /\ fs \in [Stream -> FsRec] /\ a \in [1..2 -> AbitRec]
      /\ st[p].todo[1] \in QuietCall => a = st[p].abit
  <2>1. op.n \in Int
    BY <1>2
  <2> HIDE DEF op
  <2> QED BY <1>2, <2>1, Transcripts
<1>4. Keeps(p)
  <2>1. CASE Accepts(p, op.kind, last)
    <3> DEFINE q == [st[p] EXCEPT !.fs = fs]
               u == [q EXCEPT !.abit = a]
               r == [u EXCEPT !.got = g]
    <3>1. st' = [st EXCEPT ![p].fs = fs, ![p].abit = a, ![p].got = g, ![p].todo = Past(p, s)]
      BY <2>1 DEF RecvData
    <3>2. PICK X \in Seq(NoisyCall) :
             /\ Past(p, s) = X \o Tail(st[p].todo)
             /\ Len(X) <= 1 /\ (Len(X) = 1 => X[1].op = "join")
             /\ st[p].todo[1] \in QuietCall => (Len(X) = 1 => X[1] \in QuietJoin)
      BY <1>1, <1>2, BranchMoves
    <3>3. st' = [st EXCEPT ![p] = [r EXCEPT !.todo = X \o Tail(st[p].todo)]]
      <4> HIDE DEF fs, op, a, g, last
      <4> QED BY <3>1, <3>2 DEF TypeOK
    <3>4. q \in PartyRec /\ q.minted = st[p].minted
      BY <1>1, <1>3, WithFs
    <3> HIDE DEF q
    <3>5. u \in PartyRec /\ u.minted = st[p].minted /\ u.abit = a
      <4> HIDE DEF a
      <4> QED BY <1>3, <3>4, WithAbit
    <3> HIDE DEF u
    <3>6. g \in Val
      <4>1. st[p].got \in Val
        BY <1>1, Fields
      <4>2. last \in Word
        <5>1. buf[p][s] \in Seq(Word) /\ Len(buf[p][s]) >= op.n
          BY DEF TypeOK, RecvData
        <5> QED BY <5>1, <1>2
      <4> QED BY <4>1, <4>2 DEF Word
    <3>7. r \in PartyRec /\ r.minted = st[p].minted /\ r.abit = a
      <4> HIDE DEF a, g
      <4> QED BY <3>5, <3>6, WithGot
    <3> HIDE DEF r
    <3> QED BY <1>1, <1>3, <3>2, <3>3, <3>7, JoinKeeps
  <2>2. CASE ~Accepts(p, op.kind, last)
    BY <2>2, Stopping DEF RecvData, Fails
  <2> QED BY <2>1, <2>2
<1>5. buf' \in [Party -> [Stream -> Seq(Word)]]
  <2> DEFINE b == buf[p][s]
  <2>1. b \in Seq(Word) /\ Len(b) >= op.n /\ Len(b) \in Nat
    BY DEF TypeOK, RecvData
  <2>2. SubSeq(b, op.n + 1, Len(b)) \in Seq(Word)
    BY <2>1, <1>2
  <2>3. buf' = [buf EXCEPT ![p][s] = SubSeq(b, op.n + 1, Len(b))]
    BY DEF RecvData
  <2> HIDE DEF op, b
  <2> QED BY <2>2, <2>3 DEF TypeOK
<1> QED BY <1>4, <1>5

LEMMA CloseKeeps ==
    ASSUME TypeOK, NEW p \in Party, NEW s \in Stream, StreamClosed(p, s)
    PROVE  Keeps(p)
<1>1. st' = [st EXCEPT ![p].run = "done", ![p].todo = <<>>]
      \/ st' = [st EXCEPT ![p].run = "failed", ![p].todo = <<>>]
  BY DEF StreamClosed, Fails
<1> QED BY <1>1, Stopping

\* Every step keeps the types, and the order of what is left of each job.
LEMMA StepKeeps ==
    ASSUME TypeOK, \A q \in Party : CheckInv(st[q]), NEW p \in Party, Step(p) \/ Fail(p)
    PROVE  TypeOK' /\ \A q \in Party : CheckInv(st'[q])
<1>0. CheckInv(st[p])
  OBVIOUS
<1>1. ASSUME Keeps(p), wire' \in [Party -> [Stream -> Seq(Seq(Word))]],
             buf' \in [Party -> [Stream -> Seq(Word)]], job' = job, params' = params
      PROVE  TypeOK' /\ \A q \in Party : CheckInv(st'[q])
  <2>1. TypeOK'
    BY <1>1 DEF TypeOK, Keeps
  <2>2. \A q \in Party : CheckInv(st'[q])
    BY <1>1, Zenon DEF Keeps
  <2> QED BY <2>1, <2>2
<1>2. ASSUME Keeps(p), UNCHANGED <<rest, net>>
      PROVE  TypeOK' /\ \A q \in Party : CheckInv(st'[q])
  BY <1>1, <1>2 DEF TypeOK, rest, net
<1>3. CASE \/ ExchangeCircuitDigest(p) \/ CompareDigest(p) \/ OpenSibling(p)
           \/ RunSessionHandshake(p)
  <2>1. UNCHANGED <<rest, net>>
    BY <1>3 DEF ExchangeCircuitDigest, CompareDigest, OpenSibling, RunSessionHandshake
  <2>2. Keeps(p)
    BY <1>0, <1>3, DigestKeeps, CompareKeeps, SiblingKeeps, HandshakeKeeps
  <2> QED BY <1>2, <2>1, <2>2
<1>4. CASE \/ DrawCoin(p) \/ BeginAbits(p) \/ GenCotShares(p) \/ EndAbits(p)
           \/ MaybeFlushCotCheck(p) \/ End(p) \/ TrimIdleAllocations(p)
  <2>1. UNCHANGED <<rest, net>>
    BY <1>4 DEF DrawCoin, BeginAbits, GenCotShares, EndAbits, MaybeFlushCotCheck, End,
                TrimIdleAllocations
  <2>2. Keeps(p)
    BY <1>0, <1>4, CoinKeeps, BeginKeeps, GenCotKeeps, EndAbitsKeeps, FlushKeeps, EndKeeps,
       TrimKeeps
  <2> QED BY <1>2, <2>1, <2>2
<1>5. CASE \/ ComputeInplace(p) \/ Setup(p) \/ ProcessInputs(p) \/ RunProgram(p)
           \/ Garble(p) \/ Evaluate(p) \/ Decode(p)
  <2>1. UNCHANGED <<rest, net>>
    BY <1>5 DEF ComputeInplace, Setup, ProcessInputs, RunProgram, Garble, Evaluate, Decode
  <2>2. Keeps(p)
    BY <1>0, <1>5, ComputeKeeps, SetupKeeps, InputsKeep, ProgramKeeps, GarbleKeeps, DecodeKeeps
  <2> QED BY <1>2, <2>1, <2>2
<1>6. CASE RequestTarget(p) \/ ServeTarget(p) \/ PrecomputeTarget(p) \/ Finish(p)
  <2>1. UNCHANGED <<rest, net>>
    BY <1>6 DEF RequestTarget, ServeTarget, PrecomputeTarget, Finish
  <2>2. Keeps(p)
    BY <1>0, <1>6, RequestKeeps, ServeKeeps, PrecomputeKeeps, FinishKeeps
  <2> QED BY <1>2, <2>1, <2>2
<1>7. ASSUME NEW s \in Stream, SendData(p, s)
      PROVE  TypeOK' /\ \A q \in Party : CheckInv(st'[q])
  <2>1. Keeps(p) /\ wire' \in [Party -> [Stream -> Seq(Seq(Word))]]
    BY <1>0, <1>7, SendKeeps
  <2>2. buf' \in [Party -> [Stream -> Seq(Word)]] /\ job' = job /\ params' = params
    BY <1>7 DEF SendData, rest, TypeOK
  <2> QED BY <1>1, <2>1, <2>2
<1>8. ASSUME NEW s \in Stream, PullFrame(p, s)
      PROVE  TypeOK' /\ \A q \in Party : CheckInv(st'[q])
  <2>1. /\ wire' \in [Party -> [Stream -> Seq(Seq(Word))]]
        /\ buf' \in [Party -> [Stream -> Seq(Word)]]
    BY <1>8, PullKeeps
  <2>2. job' = job /\ params' = params /\ st' = st
    BY <1>8 DEF PullFrame, rest
  <2>3. Keeps(p)
    BY <1>0, <2>2 DEF Keeps, TypeOK
  <2> QED BY <1>1, <2>1, <2>2, <2>3
<1>9. ASSUME NEW s \in Stream, RecvData(p, s)
      PROVE  TypeOK' /\ \A q \in Party : CheckInv(st'[q])
  <2>1. Keeps(p) /\ buf' \in [Party -> [Stream -> Seq(Word)]]
    BY <1>0, <1>9, RecvKeeps
  <2>2. wire' \in [Party -> [Stream -> Seq(Seq(Word))]] /\ job' = job /\ params' = params
    BY <1>9 DEF RecvData, rest, TypeOK
  <2> QED BY <1>1, <2>1, <2>2
<1>10. ASSUME NEW s \in Stream, StreamClosed(p, s)
       PROVE  TypeOK' /\ \A q \in Party : CheckInv(st'[q])
  <2>1. UNCHANGED <<rest, net>>
    BY <1>10 DEF StreamClosed
  <2> QED BY <1>2, <1>10, <2>1, CloseKeeps
<1>11. CASE Fail(p)
  <2>1. Keeps(p)
    <3>1. PICK run \in {"done", "failed"} : run = "failed"
      OBVIOUS
    <3>2. st' = [st EXCEPT ![p].run = run, ![p].todo = <<>>]
      BY <1>11, <3>1 DEF Fail, Fails
    <3> QED BY <3>2, Stopping
  <2>2. wire' = wire /\ buf' = buf /\ job' = job /\ params' = params
    BY <1>11 DEF Fail, net
  <2>3. wire' \in [Party -> [Stream -> Seq(Seq(Word))]] /\ buf' \in [Party -> [Stream -> Seq(Word)]]
    BY <2>2 DEF TypeOK
  <2> QED BY <1>1, <2>1, <2>2, <2>3
<1> QED BY <1>3, <1>4, <1>5, <1>6, <1>7, <1>8, <1>9, <1>10, <1>11 DEF Step

-----------------------------------------------------------------------------
(* The bodies of jobs.                                                     *)

\* A decode comes first or after a call that leaves nothing unchecked, and
\* not after the end.
Ordered(t) == /\ \A i \in DOMAIN t : t[i].op = "decode" => i = 1 \/ t[i - 1].op \in Checking
              /\ EndIsLast(t)

LEMMA Joined ==
    ASSUME NEW S, NEW t \in Seq(S), NEW u \in Seq(S)
    PROVE  /\ t \o u \in Seq(S) /\ Len(t) \in Nat /\ Len(u) \in Nat
           /\ Len(t \o u) = Len(t) + Len(u) /\ DOMAIN (t \o u) = 1..(Len(t) + Len(u))
           /\ \A i \in 1..Len(t) : (t \o u)[i] = t[i]
           /\ \A i \in (Len(t) + 1)..(Len(t) + Len(u)) : (t \o u)[i] = u[i - Len(t)]
OBVIOUS

LEMMA JoinedOnes ==
    ASSUME NEW S, NEW a \in S, NEW b \in S
    PROVE  /\ <<a>> \o <<b>> \in Seq(S) /\ Len(<<a>> \o <<b>>) = 2
           /\ (<<a>> \o <<b>>)[1] = a /\ (<<a>> \o <<b>>)[2] = b
<1> DEFINE t == <<a>>
           u == <<b>>
<1>1. t \in Seq(S) /\ u \in Seq(S) /\ Len(t) = 1 /\ Len(u) = 1 /\ t[1] = a /\ u[1] = b
  OBVIOUS
<1> HIDE DEF t, u
<1>3. /\ t \o u \in Seq(S) /\ Len(t) \in Nat /\ Len(u) \in Nat
      /\ Len(t \o u) = Len(t) + Len(u) /\ DOMAIN (t \o u) = 1..(Len(t) + Len(u))
      /\ \A i \in 1..Len(t) : (t \o u)[i] = t[i]
      /\ \A i \in (Len(t) + 1)..(Len(t) + Len(u)) : (t \o u)[i] = u[i - Len(t)]
  BY <1>1, Joined, Zenon
<1>2. /\ t \o u \in Seq(S) /\ Len(t \o u) = 2
      /\ (t \o u)[1] = t[1] /\ (t \o u)[2] = u[1]
  BY <1>1, <1>3
<1> QED BY <1>1, <1>2 DEF t, u

\* A job that opens its own streams.
LEMMA StandaloneBody ==
    ASSUME NEW R \in Seq(QuietCall), Ordered(R), \A i \in DOMAIN R : R[i].op # "open_sibling"
    PROVE  LET B == OpenStreams \o R
           IN  /\ B \in Seq(QuietCall) /\ B # <<>> /\ B[1].op = "exchange_digest"
               /\ \A i \in DOMAIN B : B[i].op = "decode" => i > 1 /\ B[i - 1].op \in Checking
               /\ \A i \in DOMAIN B : B[i].op = "open_sibling" =>
                     \A j \in 1..(i - 1) : B[j] \in Early
               /\ EndIsLast(B)
<1> DEFINE a == [op |-> "exchange_digest", arg |-> 0]
           b == [op |-> "open_sibling", arg |-> 0]
           O == <<a>> \o <<b>>
           B == O \o R
<1>1. OpenStreams = O
  BY DEF OpenStreams, Call
<1>2. a \in QuietCall /\ b \in QuietCall /\ a \in Early
  BY DEF QuietCall, InnerCall, InnerOp, OuterOp, Early
<1>3. a.op = "exchange_digest" /\ b.op = "open_sibling" /\ b.op \in Checking
  BY DEF Checking
<1> HIDE DEF a, b
<1>9. O \in Seq(QuietCall) /\ Len(O) = 2 /\ O[1] = a /\ O[2] = b
  BY <1>2, JoinedOnes
<1> HIDE DEF O
<1>10. /\ O \o R \in Seq(QuietCall) /\ Len(O) \in Nat /\ Len(R) \in Nat
       /\ Len(O \o R) = Len(O) + Len(R) /\ DOMAIN (O \o R) = 1..(Len(O) + Len(R))
       /\ \A i \in 1..Len(O) : (O \o R)[i] = O[i]
       /\ \A i \in (Len(O) + 1)..(Len(O) + Len(R)) : (O \o R)[i] = R[i - Len(O)]
  BY <1>9, Joined, Zenon
<1>4. /\ B \in Seq(QuietCall) /\ Len(R) \in Nat /\ DOMAIN R = 1..Len(R)
      /\ Len(B) = Len(R) + 2 /\ DOMAIN B = 1..(Len(R) + 2)
      /\ B[1] = a /\ B[2] = b
      /\ \A i \in 3..(Len(R) + 2) : B[i] = R[i - 2] /\ i - 2 \in DOMAIN R
  BY <1>9, <1>10
<1> HIDE DEF B
<1>5. ASSUME NEW i \in DOMAIN B, B[i].op = "decode" PROVE i > 1 /\ B[i - 1].op \in Checking
  <2>1. i \in 3..(Len(R) + 2) /\ R[i - 2].op = "decode"
    BY <1>3, <1>4, <1>5
  <2>2. CASE i = 3
    BY <2>2, <1>3, <1>4
  <2>3. CASE i # 3
    <3>1. i - 1 \in 3..(Len(R) + 2) /\ i - 2 \in DOMAIN R /\ i - 2 # 1 /\ (i - 2) - 1 = (i - 1) - 2
      BY <2>1, <2>3, <1>4
    <3>2. R[(i - 2) - 1].op \in Checking
      BY <3>1, <2>1 DEF Ordered
    <3>3. B[i - 1] = R[(i - 1) - 2]
      BY <3>1, <1>4
    <3> QED BY <3>1, <3>2, <3>3, SMTT(30)
  <2> QED BY <2>2, <2>3
<1>6. ASSUME NEW i \in DOMAIN B, B[i].op = "open_sibling", NEW j \in 1..(i - 1)
      PROVE  B[j] \in Early
  <2>1. i = 2
    BY <1>3, <1>4, <1>6
  <2> QED BY <2>1, <1>2, <1>4
<1>7. EndIsLast(B)
  <2> SUFFICES ASSUME NEW i \in DOMAIN B, NEW j \in DOMAIN B, i < j, B[i].op = "end"
               PROVE  B[j].op # "decode"
    BY DEF EndIsLast
  <2>1. i \in 3..(Len(R) + 2) /\ j \in 3..(Len(R) + 2)
    BY <1>3, <1>4
  <2>2. B[i] = R[i - 2] /\ B[j] = R[j - 2] /\ i - 2 \in DOMAIN R /\ j - 2 \in DOMAIN R /\ i - 2 < j - 2
    BY <2>1, <1>4
  <2> QED BY <2>2 DEF Ordered, EndIsLast
<1>8. B # <<>> /\ B[1].op = "exchange_digest"
  BY <1>3, <1>4
<1> QED BY <1>1, <1>4, <1>5, <1>6, <1>7, <1>8 DEF B

LEMMA RevealBodies ==
    /\ RevealNodeJob \in Seq(QuietCall) /\ Ordered(RevealNodeJob)
    /\ \A i \in DOMAIN RevealNodeJob : RevealNodeJob[i].op # "open_sibling"
    /\ RevealNodeFastJob \in Seq(QuietCall) /\ Ordered(RevealNodeFastJob)
    /\ \A i \in DOMAIN RevealNodeFastJob : RevealNodeFastJob[i].op # "open_sibling"
<1> DEFINE a == [op |-> "setup", arg |-> 0]
           b == [op |-> "decode", arg |-> 0]
           c == [op |-> "end", arg |-> 0]
           O == <<a>> \o <<b>>
           L == <<c>>
           R == O \o L
           F == <<b>>
<1>1. RevealNodeJob = R /\ RevealNodeFastJob = F
  BY DEF RevealNodeJob, RevealNodeFastJob, Call
<1>2. a \in QuietCall /\ b \in QuietCall /\ c \in QuietCall
  BY DEF QuietCall, InnerCall, InnerOp, OuterOp
<1>3. a.op = "setup" /\ b.op = "decode" /\ c.op = "end" /\ a.op \in Checking
  BY DEF Checking
<1> HIDE DEF a, b, c
<1>4. /\ O \in Seq(QuietCall) /\ Len(O) = 2 /\ O[1] = a /\ O[2] = b
      /\ L \in Seq(QuietCall) /\ Len(L) = 1 /\ L[1] = c
      /\ F \in Seq(QuietCall) /\ DOMAIN F = 1..1 /\ F[1] = b
  BY <1>2, JoinedOnes
<1> HIDE DEF O, L, F
<1>9. /\ O \o L \in Seq(QuietCall) /\ Len(O) \in Nat /\ Len(L) \in Nat
      /\ Len(O \o L) = Len(O) + Len(L) /\ DOMAIN (O \o L) = 1..(Len(O) + Len(L))
      /\ \A i \in 1..Len(O) : (O \o L)[i] = O[i]
      /\ \A i \in (Len(O) + 1)..(Len(O) + Len(L)) : (O \o L)[i] = L[i - Len(O)]
  BY <1>4, Joined, Zenon
<1>5. R \in Seq(QuietCall) /\ DOMAIN R = 1..3 /\ R[1] = a /\ R[2] = b /\ R[3] = c
  BY <1>4, <1>9
<1> HIDE DEF R
<1>6. Ordered(R)
  BY <1>3, <1>5 DEF Ordered, EndIsLast
<1>7. Ordered(F)
  BY <1>3, <1>4 DEF Ordered, EndIsLast
<1>8. /\ \A i \in DOMAIN R : R[i].op # "open_sibling"
      /\ \A i \in DOMAIN F : F[i].op # "open_sibling"
  BY <1>3, <1>4, <1>5
<1> QED BY <1>1, <1>4, <1>5, <1>6, <1>7, <1>8

LEMMA DerivationBody ==
    /\ RunDerivationBatch \in Seq(QuietCall) /\ Ordered(RunDerivationBatch)
    /\ \A i \in DOMAIN RunDerivationBatch : RunDerivationBatch[i].op # "open_sibling"
<1> DEFINE a == [op |-> "setup", arg |-> 0]
           x == [op |-> "process_inputs", arg |-> "Bob"]
           y == [op |-> "process_inputs", arg |-> "Alice"]
           d == [op |-> "decode", arg |-> 0]
           e == [op |-> "end", arg |-> 0]
           n == Len(Programs)
           C == Calls("run_program", Programs)
           D == Times(n, <<d>>)
           R == <<a>> \o (<<x>> \o <<y>>) \o C \o D \o <<e>>
<1>1. RunDerivationBatch = R
  BY DEF RunDerivationBatch, SeedInputs, Call
<1>2. a \in QuietCall /\ x \in QuietCall /\ y \in QuietCall /\ d \in QuietCall /\ e \in QuietCall
  <2>1. "Alice" \in Party /\ "Bob" \in Party
    BY DEF Party
  <2> QED BY <2>1 DEF QuietCall, InnerCall, InnerOp, OuterOp
<1>3. /\ a.op = "setup" /\ x.op = "process_inputs" /\ y.op = "process_inputs"
      /\ d.op = "decode" /\ e.op = "end"
  OBVIOUS
<1> HIDE DEF a, x, y, d, e
<1>4. n \in Nat /\ Programs \in Seq(Nat)
  BY JobsAssumption
<1>5. /\ C \in Seq(QuietCall) /\ Len(C) = n
      /\ \A i \in 1..n : C[i].op = "run_program"
  <2>1. C \in Seq(QuietCall)
    BY <1>4, InnerCalls, CallSets DEF InnerOp
  <2>2. C = [i \in 1..n |-> [op |-> "run_program", arg |-> Programs[i]]]
    BY <1>4 DEF Calls
  <2>3. DOMAIN C = 1..n /\ \A i \in 1..n : C[i].op = "run_program"
    BY <2>2
  <2> HIDE DEF C
  <2> QED BY <2>1, <2>3, <1>4
<1>6. /\ D \in Seq(QuietCall) /\ Len(D) = n
      /\ \A i \in 1..n : D[i] = d
  <2>1. <<d>> \in Seq(QuietCall) /\ Len(<<d>>) = 1
    BY <1>2
  <2>2. D \in Seq(QuietCall)
    <3> DEFINE q == <<d>>
    <3> HIDE DEF q, n
    <3>1. Times(n, q) \in Seq(QuietCall)
      <4>1. q \in Seq(QuietCall) /\ n \in Int
        BY <2>1, <1>4 DEF q
      <4> QED BY <4>1, TimesType, Zenon
    <3> QED BY <3>1 DEF q
  <2>3. D = [i \in 1..(n * 1) |-> <<d>>[((i - 1) % 1) + 1]]
    BY <2>1, Zenon DEF Times
  <2>4. n * 1 = n /\ \A i \in 1..n : ((i - 1) % 1) + 1 = 1
    BY <1>4
  <2>5. DOMAIN D = 1..n /\ \A i \in 1..n : D[i] = d
    BY <2>3, <2>4
  <2> HIDE DEF D
  <2> QED BY <2>2, <2>5, <1>4
<1> HIDE DEF C, D, n
<1>7. /\ R \in Seq(QuietCall) /\ DOMAIN R = 1..(2 * n + 4)
      /\ R[1] = a /\ R[2] = x /\ R[3] = y /\ R[2 * n + 4] = e
      /\ \A i \in 4..(n + 3) : R[i] = C[i - 3]
      /\ \A i \in (n + 4)..(2 * n + 3) : R[i] = D[i - n - 3]
  <2> DEFINE A == <<a>> \o (<<x>> \o <<y>>)
             B == A \o C
             E == B \o D
  <2>1. A \in Seq(QuietCall) /\ Len(A) = 3 /\ A[1] = a /\ A[2] = x /\ A[3] = y
    <3> DEFINE P == <<x>> \o <<y>>
               Q == <<a>>
    <3>1. /\ P \in Seq(QuietCall) /\ Len(P) = 2 /\ P[1] = x /\ P[2] = y
          /\ Q \in Seq(QuietCall) /\ Len(Q) = 1 /\ Q[1] = a
      BY <1>2, JoinedOnes
    <3> HIDE DEF P, Q
    <3>3. /\ Q \o P \in Seq(QuietCall) /\ Len(Q) \in Nat /\ Len(P) \in Nat
          /\ Len(Q \o P) = Len(Q) + Len(P) /\ DOMAIN (Q \o P) = 1..(Len(Q) + Len(P))
          /\ \A i \in 1..Len(Q) : (Q \o P)[i] = Q[i]
          /\ \A i \in (Len(Q) + 1)..(Len(Q) + Len(P)) : (Q \o P)[i] = P[i - Len(Q)]
      BY <3>1, Joined, Zenon
    <3>2. Q \o P \in Seq(QuietCall) /\ Len(Q \o P) = 3
          /\ (Q \o P)[1] = a /\ (Q \o P)[2] = x /\ (Q \o P)[3] = y
      BY <3>1, <3>3
    <3> QED BY <3>2 DEF P, Q
  <2> HIDE DEF A
  <2>2. /\ B \in Seq(QuietCall) /\ Len(B) = n + 3 /\ B[1] = a /\ B[2] = x /\ B[3] = y
        /\ \A i \in 4..(n + 3) : B[i] = C[i - 3]
    <3>2. /\ A \o C \in Seq(QuietCall) /\ Len(A) \in Nat /\ Len(C) \in Nat
          /\ Len(A \o C) = Len(A) + Len(C) /\ DOMAIN (A \o C) = 1..(Len(A) + Len(C))
          /\ \A i \in 1..Len(A) : (A \o C)[i] = A[i]
          /\ \A i \in (Len(A) + 1)..(Len(A) + Len(C)) : (A \o C)[i] = C[i - Len(A)]
      BY <1>5, <2>1, Joined, Zenon
    <3>1. /\ B \in Seq(QuietCall) /\ Len(B) = 3 + n /\ \A i \in 1..3 : B[i] = A[i]
          /\ \A i \in 4..(3 + n) : B[i] = C[i - 3]
      BY <1>4, <1>5, <2>1, <3>2
    <3> QED BY <3>1, <2>1, <1>4
  <2> HIDE DEF B
  <2>3. /\ E \in Seq(QuietCall) /\ Len(E) = 2 * n + 3 /\ \A i \in 1..(n + 3) : E[i] = B[i]
        /\ \A i \in (n + 4)..(2 * n + 3) : E[i] = D[i - n - 3]
    <3>5. B \in Seq(QuietCall) /\ D \in Seq(QuietCall)
      BY <1>6, <2>2
    <3>4. /\ B \o D \in Seq(QuietCall) /\ Len(B) \in Nat /\ Len(D) \in Nat
          /\ Len(B \o D) = Len(B) + Len(D) /\ DOMAIN (B \o D) = 1..(Len(B) + Len(D))
          /\ \A i \in 1..Len(B) : (B \o D)[i] = B[i]
          /\ \A i \in (Len(B) + 1)..(Len(B) + Len(D)) : (B \o D)[i] = D[i - Len(B)]
      BY <3>5, Joined, Zenon
    <3>1. /\ E \in Seq(QuietCall) /\ Len(E) = (n + 3) + n /\ \A i \in 1..(n + 3) : E[i] = B[i]
          /\ \A i \in ((n + 3) + 1)..((n + 3) + n) : E[i] = D[i - (n + 3)]
      BY <1>4, <1>6, <2>2, <3>4
    <3>2. \A i \in (n + 4)..(2 * n + 3) : i \in ((n + 3) + 1)..((n + 3) + n) /\ i - (n + 3) = i - n - 3
      BY <1>4
    <3>3. (n + 3) + n = 2 * n + 3
      BY <1>4
    <3> HIDE DEF E
    <3> QED BY <3>1, <3>2, <3>3
  <2> HIDE DEF E
  <2>4. /\ E \o <<e>> \in Seq(QuietCall) /\ DOMAIN (E \o <<e>>) = 1..(2 * n + 4)
        /\ (E \o <<e>>)[2 * n + 4] = e
        /\ \A i \in 1..(2 * n + 3) : (E \o <<e>>)[i] = E[i]
    <3> DEFINE L == <<e>>
               m == 2 * n + 3
    <3>1. L \in Seq(QuietCall) /\ Len(L) = 1 /\ L[1] = e /\ m \in Nat /\ m + 1 = 2 * n + 4
      BY <1>2, <1>4
    <3> HIDE DEF L
    <3>2. Len(E) = m
      BY <2>3
    <3> HIDE DEF m
    <3>4. /\ E \o L \in Seq(QuietCall) /\ Len(E) \in Nat /\ Len(L) \in Nat
          /\ Len(E \o L) = Len(E) + Len(L) /\ DOMAIN (E \o L) = 1..(Len(E) + Len(L))
          /\ \A i \in 1..Len(E) : (E \o L)[i] = E[i]
          /\ \A i \in (Len(E) + 1)..(Len(E) + Len(L)) : (E \o L)[i] = L[i - Len(E)]
      BY <2>3, <3>1, Joined, ZenonT(40)
    <3>3. /\ E \o L \in Seq(QuietCall) /\ DOMAIN (E \o L) = 1..(m + 1)
          /\ (E \o L)[m + 1] = e
          /\ \A i \in 1..m : (E \o L)[i] = E[i]
      <4>1. m + 1 - m = 1 /\ m + 1 \in (m + 1)..(m + 1)
        BY <3>1
      <4> QED BY <3>1, <3>2, <3>4, <4>1
    <3> QED BY <3>1, <3>3 DEF L, m
  <2>5. R = E \o <<e>>
    BY DEF A, B, E
  <2>6. /\ R \in Seq(QuietCall) /\ DOMAIN R = 1..(2 * n + 4) /\ R[2 * n + 4] = e
        /\ \A i \in 1..(2 * n + 3) : R[i] = E[i]
    BY <2>4, <2>5
  <2> HIDE DEF R
  <2>7. R[1] = a /\ R[2] = x /\ R[3] = y
    BY <1>4, <2>2, <2>3, <2>6
  <2>8. ASSUME NEW i \in 4..(n + 3) PROVE R[i] = C[i - 3]
    <3>1. i \in 1..(2 * n + 3) /\ i \in 1..(n + 3)
      BY <1>4
    <3> QED BY <3>1, <2>2, <2>3, <2>6
  <2>9. ASSUME NEW i \in (n + 4)..(2 * n + 3) PROVE R[i] = D[i - n - 3]
    <3>1. i \in 1..(2 * n + 3)
      BY <1>4
    <3> QED BY <3>1, <2>3, <2>6
  <2> QED BY <2>6, <2>7, <2>8, <2>9
<1> HIDE DEF R
<1>8. /\ R[1].op = "setup" /\ R[2].op = "process_inputs" /\ R[3].op = "process_inputs"
      /\ R[2 * n + 4].op = "end"
      /\ \A i \in 4..(n + 3) : R[i].op = "run_program"
      /\ \A i \in (n + 4)..(2 * n + 3) : R[i].op = "decode"
  <2>1. \A i \in 4..(n + 3) : R[i] = C[i - 3] /\ i - 3 \in 1..n
    BY <1>4, <1>7
  <2>2. \A i \in (n + 4)..(2 * n + 3) : R[i] = D[i - n - 3] /\ i - n - 3 \in 1..n
    BY <1>4, <1>7
  <2> QED BY <1>3, <1>5, <1>6, <1>7, <2>1, <2>2
<1>9. \A i \in DOMAIN R : i \in 1..3 \/ i \in 4..(n + 3) \/ i \in (n + 4)..(2 * n + 3) \/ i = 2 * n + 4
  BY <1>4, <1>7, SMTT(30)
<1>10. \A i \in DOMAIN R : R[i].op # "open_sibling"
  BY <1>8, <1>9
<1>11. ASSUME NEW i \in DOMAIN R, R[i].op = "decode" PROVE R[i - 1].op \in Checking
  <2>1. i \in (n + 4)..(2 * n + 3)
    BY <1>8, <1>9, <1>11
  <2>2. i - 1 \in 4..(n + 3) \/ i - 1 \in (n + 4)..(2 * n + 3)
    BY <2>1, <1>4
  <2>3. R[i - 1].op \in {"run_program", "decode"}
    BY <2>2, <1>8
  <2> QED BY <2>3 DEF Checking
<1>12. EndIsLast(R)
  <2> SUFFICES ASSUME NEW i \in DOMAIN R, NEW j \in DOMAIN R, i < j, R[i].op = "end"
               PROVE  FALSE
    BY DEF EndIsLast
  <2>1. i = 2 * n + 4
    BY <1>8, <1>9
  <2> QED BY <2>1, <1>4, <1>7
<1> QED BY <1>1, <1>7, <1>10, <1>11, <1>12 DEF Ordered

\* What a party starts with.
LEMMA JobBody ==
    ASSUME NEW j \in Jobs, NEW p \in Party
    PROVE  LET B == Body(j, p)
           IN  /\ B \in Seq(QuietCall) /\ B # <<>>
               /\ \A i \in DOMAIN B : B[i].op = "decode" => i > 1 /\ B[i - 1].op \in Checking
               /\ \A i \in DOMAIN B : B[i].op = "open_sibling" =>
                     \A k \in 1..(i - 1) : B[k] \in Early
               /\ EndIsLast(B)
               /\ B[1].op = IF j = "session" THEN "handshake" ELSE "exchange_digest"
<1>1. j \in {"derive", "reveal", "fast", "session"}
  BY JobsAssumption
<1>2. ASSUME NEW R \in Seq(QuietCall), Ordered(R), \A i \in DOMAIN R : R[i].op # "open_sibling",
             Body(j, p) = OpenStreams \o R, j # "session"
      PROVE  LET B == Body(j, p)
             IN  /\ B \in Seq(QuietCall) /\ B # <<>>
                 /\ \A i \in DOMAIN B : B[i].op = "decode" => i > 1 /\ B[i - 1].op \in Checking
                 /\ \A i \in DOMAIN B : B[i].op = "open_sibling" =>
                       \A k \in 1..(i - 1) : B[k] \in Early
                 /\ EndIsLast(B)
                 /\ B[1].op = IF j = "session" THEN "handshake" ELSE "exchange_digest"
  BY <1>2, StandaloneBody, Zenon
<1>3. CASE j = "derive"
  <2>1. Body(j, p) = OpenStreams \o RunDerivationBatch
    BY <1>3 DEF Body
  <2> QED BY <1>2, <1>3, <2>1, DerivationBody
<1>4. CASE j = "reveal"
  <2>1. Body(j, p) = OpenStreams \o RevealNodeJob
    BY <1>4 DEF Body
  <2> QED BY <1>2, <1>4, <2>1, RevealBodies
<1>5. CASE j = "fast"
  <2>1. Body(j, p) = OpenStreams \o RevealNodeFastJob
    BY <1>5 DEF Body
  <2> QED BY <1>2, <1>5, <2>1, RevealBodies
<1>6. CASE j = "session"
  <2> DEFINE h == [op |-> "handshake", arg |-> 0]
             t == <<h>>
             S == PrecomputeSession(p)
             B == t \o S
  <2>1. Body(j, p) = B
    BY <1>6 DEF Body, Call
  <2>2. t \in Seq(InnerCall) /\ Len(t) = 1 /\ t[1] = h /\ h.op = "handshake"
    BY DEF InnerCall, InnerOp
  <2>3. S \in Seq(InnerCall)
    <3> DEFINE a == Call("setup", 0)
               b == SeedInputs
               c == IF p = "Alice" THEN [k \in DOMAIN Targets |-> [op |-> "request", arg |-> k]]
                                   ELSE Call("serve", 0)
    <3>1. a \in Seq(InnerCall) /\ Call("serve", 0) \in Seq(InnerCall)
      <4>1. "setup" \in InnerOp /\ "serve" \in InnerOp /\ 0 \in Nat
        BY DEF InnerOp
      <4> QED BY <4>1, InnerCalls
    <3>2. b \in Seq(InnerCall)
      <4>1. "Alice" \in Party /\ "Bob" \in Party
        BY DEF Party
      <4> QED BY <4>1, InnerCalls DEF SeedInputs
    <3>3. [k \in DOMAIN Targets |-> [op |-> "request", arg |-> k]] \in Seq(InnerCall)
      <4>1. Len(Targets) \in Nat /\ DOMAIN Targets = 1..Len(Targets)
        BY JobsAssumption
      <4>2. \A k \in 1..Len(Targets) : [op |-> "request", arg |-> k] \in InnerCall
        BY <4>1 DEF InnerCall, InnerOp
      <4> QED BY <4>1, <4>2
    <3>4. c \in Seq(InnerCall)
      BY <3>1, <3>3
    <3> HIDE DEF a, b, c
    <3>5. a \o b \o c \in Seq(InnerCall)
      BY <3>1, <3>2, <3>4
    <3> QED BY <3>5 DEF PrecomputeSession, a, b, c
  <2> HIDE DEF h, t, S
  <2>4. B \in Seq(InnerCall) /\ B # <<>> /\ B[1] = h
    <3>1. /\ B \in Seq(InnerCall) /\ Len(S) \in Nat
          /\ Len(B) = Len(t) + Len(S) /\ \A i \in 1..Len(t) : B[i] = t[i]
      BY <2>2, <2>3, Joined, Zenon
    <3> HIDE DEF B
    <3> QED BY <3>1, <2>2
  <2> HIDE DEF B
  <2>5. \A i \in DOMAIN B : B[i].op \notin OuterOp
    BY <2>4 DEF InnerCall, InnerOp, OuterOp, QuietJoin
  <2>6. \A i \in DOMAIN B : B[i].op \notin {"decode", "open_sibling", "end"}
    BY <2>5 DEF OuterOp
  <2>7. EndIsLast(B)
    BY <2>6 DEF EndIsLast
  <2>8. B \in Seq(QuietCall)
    BY <2>4, CallSets
  <2> QED BY <1>6, <2>1, <2>2, <2>4, <2>6, <2>7, <2>8
<1> QED BY <1>1, <1>3, <1>4, <1>5, <1>6

LEMMA FreshStack ==
    ASSUME NEW r \in PartyRec, Clean(r), r.todo \in Seq(QuietCall), EndIsLast(r.todo),
           \A i \in DOMAIN r.todo : r.todo[i].op = "decode" =>
               i > 1 /\ r.todo[i - 1].op \in Checking,
           \A i \in DOMAIN r.todo : r.todo[i].op = "open_sibling" =>
               \A k \in 1..(i - 1) : r.todo[k] \in Early
    PROVE  CheckInv(r)
<1>1. QuietTail(r.todo) /\ (r.todo # <<>> => r.todo[1] \in QuietCall)
  BY DEF QuietTail
<1>2. MarkedOrChecking(r)
  BY <1>1 DEF MarkedOrChecking, Unchecked
<1>3. DecodesReady(r) /\ OpensClean(r)
  BY DEF DecodesReady, OpensClean
<1> QED BY <1>1, <1>2, <1>3 DEF CheckInv

LEMMA InitHolds == Init => IInv
<1> SUFFICES ASSUME Init PROVE IInv
  OBVIOUS
<1>1. job \in Jobs
  BY DEF Init
<1>2. params \in [Party -> Param]
  <2>1. Agreed \in Param /\ Ssp \in Nat
    BY SizesArePositive DEF Agreed, Param
  <2>2. \A other \in Configurations(job) : other \in Param
    <3>1. \A x \in Int : [Agreed EXCEPT !.digest = x] \in Param /\ [Agreed EXCEPT !.job = x] \in Param
                         /\ [Agreed EXCEPT !.binding = x] \in Param
      BY <2>1 DEF Param
    <3>2. [Agreed EXCEPT !.ssp = @ + 10] \in Param
      BY <2>1 DEF Param
    <3>3. 2 \in Int
      OBVIOUS
    <3> QED BY <2>1, <3>1, <3>2, <3>3, Zenon DEF Configurations
  <2> QED BY <2>1, <2>2 DEF Init
<1> DEFINE abit == [k \in 1..2 |-> [setup |-> FALSE, left |-> 0, check |-> <<>>]]
           fs == [s \in Stream |-> [on |-> FALSE, first |-> FALSE, sent |-> 0, recd |-> 0]]
           start(p) == [run |-> "running", todo |-> Body(job, p), minted |-> FALSE, abit |-> abit,
                        coins |-> <<>>, got |-> 0, connected |-> job = "session", fs |-> fs]
<1>3. st = [p \in Party |-> start(p)]
  BY DEF Init
<1>4. abit \in [1..2 -> AbitRec] /\ \A k \in 1..2 : abit[k].check = <<>>
  BY DEF AbitRec
<1>5. fs \in [Stream -> FsRec] /\ \A s \in Stream : fs[s].on = FALSE
  BY DEF FsRec
<1> HIDE DEF abit, fs
<1>6. ASSUME NEW p \in Party
      PROVE  /\ start(p) \in PartyRec /\ start(p).todo = Body(job, p)
             /\ start(p).abit = abit /\ start(p).fs = fs /\ start(p).connected = (job = "session")
  <2>1. Body(job, p) \in Seq(AnyCall)
    BY <1>1, JobBody, CallSets
  <2>2. 0 \in Val
    BY DEF Val
  <2>3. <<>> \in Seq(Digest \X Digest)
    OBVIOUS
  <2> QED BY <2>1, <2>2, <2>3, <1>4, <1>5 DEF PartyRec
<1> HIDE DEF start
<1>7. st \in [Party -> PartyRec]
  BY <1>3, <1>6
<1>8. wire \in [Party -> [Stream -> Seq(Seq(Word))]] /\ buf \in [Party -> [Stream -> Seq(Word)]]
      /\ \A p \in Party, s \in Stream : wire[p][s] = <<>> /\ buf[p][s] = <<>>
  BY DEF Init
<1>9. TypeOK
  BY <1>1, <1>2, <1>7, <1>8 DEF TypeOK
<1>10. ASSUME NEW p \in Party PROVE CheckInv(st[p])
  <2>1. st[p] \in PartyRec /\ st[p].todo = Body(job, p) /\ Clean(st[p])
    BY <1>3, <1>4, <1>6 DEF Clean
  <2>2. /\ Body(job, p) \in Seq(QuietCall)
        /\ \A i \in DOMAIN Body(job, p) : Body(job, p)[i].op = "decode" =>
              i > 1 /\ Body(job, p)[i - 1].op \in Checking
        /\ \A i \in DOMAIN Body(job, p) : Body(job, p)[i].op = "open_sibling" =>
              \A k \in 1..(i - 1) : Body(job, p)[k] \in Early
        /\ EndIsLast(Body(job, p))
    BY <1>1, JobBody, Zenon
  <2> QED BY <2>1, <2>2, FreshStack
<1>11. WordsOK
  BY <1>8 DEF WordsOK
<1>12. OpensOK
  <2> SUFFICES ASSUME NEW p \in Party
               PROVE  /\ ~st[p].fs["main"].on
                      /\ job # "session" => ~st[p].connected
                      /\ st[p].todo # <<>>
                      /\ IF job = "session" THEN OpensSession(p) ELSE OpensStandalone(p)
    BY Zenon DEF OpensOK, Opening
  <2>1. st[p].todo = Body(job, p) /\ st[p].fs = fs /\ st[p].connected = (job = "session")
    BY <1>3, <1>6
  <2>2. Body(job, p) # <<>>
        /\ Body(job, p)[1].op = IF job = "session" THEN "handshake" ELSE "exchange_digest"
    BY <1>1, JobBody, Zenon
  <2>3. ~st[p].fs["main"].on
    BY <2>1, <1>5 DEF Stream
  <2> QED BY <2>1, <2>2, <2>3 DEF OpensSession, OpensStandalone
<1> QED BY <1>9, <1>10, <1>11, <1>12 DEF IInv, ApartInv

-----------------------------------------------------------------------------
(* Parties configured apart.                                               *)

LEMMA Peers ==
    ASSUME NEW p \in Party
    PROVE  /\ Peer(p) \in Party /\ Peer(Peer(p)) = p
           /\ Apart => params[Peer(p)] # params[p]
BY DEF Party, Peer, Apart

\* The messages left of a branch still hold a receive that was not the first.
LEMMA StillReceives ==
    ASSUME NEW main \in Seq(Message), NEW kinds, Receives(main, kinds),
           ~(main[1].dir = "recv" /\ main[1].kind \in kinds)
    PROVE  Tail(main) # <<>> /\ Receives(Tail(main), kinds)
<1>1. PICK i \in DOMAIN main : main[i].dir = "recv" /\ main[i].kind \in kinds
  BY DEF Receives
<1>2. i \in 2..Len(main) /\ Len(main) \in Nat
  BY <1>1
<1>3. main # <<>> /\ Tail(main) \in Seq(Message) /\ Len(Tail(main)) = Len(main) - 1
      /\ i - 1 \in DOMAIN Tail(main) /\ Tail(main)[i - 1] = main[i]
  BY <1>2
<1>4. Tail(main) # <<>>
  BY <1>2, <1>3
<1> QED BY <1>1, <1>3, <1>4 DEF Receives

\* A join of the opening once its only branch is past a message.
LEMMA MainPast ==
    ASSUME TypeOK, NEW p \in Party, NEW s \in Stream, NEW dir, Busy(p, s, dir),
           OpeningJoin(st[p].todo[1])
    PROVE  LET t == st[p].todo
               main == t[1].main
           IN  /\ s = "main" /\ main \in Seq(Message) /\ main # <<>> /\ Op(p, s) = main[1]
               /\ main[1].dir = dir /\ OpeningKind(main[1].kind) /\ main[1].n = 1
               /\ Past(p, s) \in Seq(AnyCall)
               /\ Tail(main) # <<>> =>
                     /\ Past(p, s) # <<>> /\ OpeningJoin(Past(p, s)[1])
                     /\ Past(p, s)[1].main = Tail(main)
                     /\ Len(t) > 1 => Len(Past(p, s)) > 1 /\ Past(p, s)[2] = t[2]
               /\ Tail(main) = <<>> /\ Len(t) > 1 =>
                     Past(p, s) # <<>> /\ Past(p, s)[1] = t[2]
<1> DEFINE t == st[p].todo
           c == t[1]
           main == c.main
<1>1. /\ t \in Seq(AnyCall) /\ t # <<>> /\ Head(t) = c /\ c \in JoinOf(Message)
      /\ c[s] # <<>> /\ Op(p, s) = Head(c[s]) /\ Op(p, s).dir = dir
  BY BusyFacts
<1>2. /\ c.sibling = <<>> /\ c.op = "join"
      /\ \A i \in DOMAIN main : OpeningKind(main[i].kind) /\ main[i].n = 1
  BY DEF OpeningJoin
<1>3. s = "main"
  BY <1>1, <1>2 DEF Stream
<1> HIDE DEF c, t
<1>4. /\ main \in Seq(Message) /\ main # <<>> /\ Op(p, s) = main[1]
      /\ main[1].dir = dir /\ 1 \in DOMAIN main
  BY <1>1, <1>3 DEF JoinOf
<1>5. OpeningKind(main[1].kind) /\ main[1].n = 1
  BY <1>2, <1>4
<1> DEFINE rem == Tail(main)
           X == Join(rem, <<>>)
           j == [op |-> "join", main |-> rem, sibling |-> <<>>]
<1>6. Past(p, s) = X \o Tail(t)
  <2> DEFINE left == [c EXCEPT !["main"] = Tail(@)]
  <2>1. left.main = Tail(main) /\ left.sibling = <<>>
    BY <1>1, <1>2 DEF JoinOf
  <2>2. Past(p, s) = Join(left.main, left.sibling) \o Tail(t)
    BY <1>1, <1>3 DEF Past, t
  <2> QED BY <2>1, <2>2
<1>7. /\ rem \in Seq(Message) /\ Len(rem) = Len(main) - 1 /\ Len(main) \in Nat
      /\ \A i \in 1..Len(rem) : rem[i] = main[i + 1]
  BY <1>4
<1> HIDE DEF main
<1>8. OpeningJoin(j) /\ j.main = rem
  <2>1. \A i \in DOMAIN rem : i + 1 \in DOMAIN main /\ rem[i] = main[i + 1]
    BY <1>4, <1>7
  <2>2. \A i \in DOMAIN rem : OpeningKind(rem[i].kind) /\ rem[i].n = 1
    BY <2>1, <1>2 DEF main
  <2> HIDE DEF rem
  <2> QED BY <2>2 DEF OpeningJoin
<1> HIDE DEF rem
<1>9. X \in Seq(AnyCall) /\ Len(X) <= 1
  <2>1. <<>> \in Seq(Message)
    OBVIOUS
  <2>2. X \in Seq(NoisyCall) /\ Len(X) <= 1
    BY <1>7, <2>1, NoisyJoins, Zenon
  <2> HIDE DEF X
  <2> QED BY <2>2, CallSets
<1>10. rem # <<>> => X = <<j>> /\ Len(X) = 1 /\ X[1] = j
  BY DEF Join
<1>11. rem = <<>> => X = <<>> /\ Len(X) = 0
  BY DEF Join
<1> HIDE DEF X, j
<1> DEFINE v == X \o Tail(t)
<1>12. /\ v \in Seq(AnyCall)
       /\ Len(t) \in Nat \ {0} /\ Len(X) \in Nat
       /\ Len(v) = Len(X) + Len(t) - 1
       /\ \A i \in 1..Len(X) : v[i] = X[i]
       /\ \A i \in (Len(X) + 1)..(Len(X) + Len(t) - 1) : v[i] = t[i - Len(X) + 1]
  BY <1>1, <1>9, Pushed
<1> HIDE DEF v
<1>13. ASSUME rem # <<>>
       PROVE  /\ v # <<>> /\ v[1] = j
              /\ Len(t) > 1 => Len(v) > 1 /\ v[2] = t[2]
  <2>1. Len(X) = 1 /\ X[1] = j
    BY <1>10, <1>13
  <2>2. Len(v) = Len(t) /\ v[1] = X[1]
    BY <2>1, <1>12
  <2>3. Len(t) > 1 => v[2] = t[2]
    BY <2>1, <1>12
  <2> QED BY <2>1, <2>2, <2>3, <1>12
<1>14. rem = <<>> /\ Len(t) > 1 => v # <<>> /\ v[1] = t[2]
  BY <1>11, <1>12
<1> QED BY <1>3, <1>4, <1>5, <1>6, <1>8, <1>12, <1>13, <1>14 DEF t, c, main, rem, v

LEMMA Elsewhere ==
    ASSUME OpensOK, NEW p \in Party, \A q \in Party \ {p} : st'[q] = st[q],
           job' = job, params' = params, Opening(p)'
    PROVE  OpensOK'
<1> SUFFICES ASSUME NEW q \in Party PROVE Opening(q)'
  BY DEF OpensOK
<1>1. CASE q = p
  BY <1>1
<1>2. CASE q # p
  <2>1. st'[q] = st[q] /\ Opening(q)
    BY <1>2 DEF OpensOK
  <2> QED BY <2>1, ZenonT(40)
      DEF Opening, OpensSession, OpensStandalone, OpeningJoin, OpeningKind, Receives
<1> QED BY <1>1, <1>2

LEMMA StopOpening ==
    ASSUME TypeOK, OpensOK, NEW p \in Party, NEW run \in {"done", "failed"},
           st' = [st EXCEPT ![p].run = run, ![p].todo = <<>>], job' = job, params' = params
    PROVE  OpensOK'
<1>1. st \in [Party -> PartyRec] /\ Opening(p)
  BY DEF TypeOK, OpensOK
<1>2. st'[p] = [[st[p] EXCEPT !.run = run] EXCEPT !.todo = <<>>]
      /\ \A q \in Party \ {p} : st'[q] = st[q]
  BY <1>1
<1>3. st'[p].run = run /\ st'[p].fs = st[p].fs /\ st'[p].connected = st[p].connected
  BY <1>1, <1>2 DEF PartyRec
<1>4. st'[p].run # "running"
  BY <1>3
<1>5. Opening(p)'
  BY <1>1, <1>3, <1>4 DEF Opening
<1> QED BY <1>2, <1>5, Elsewhere

\* What a party configured apart may be in.
LEMMA ApartCalls ==
    ASSUME TypeOK, OpensOK, NEW p \in Party, NEW op, Calling(p, op)
    PROVE  /\ op \in {"handshake", "join", "exchange_digest", "compare_digest"}
           /\ op = "handshake" => job = "session"
           /\ op = "exchange_digest" => job # "session"
           /\ op = "compare_digest" => job # "session" /\ st[p].got = params[Peer(p)]
           /\ op = "join" =>
                 /\ OpeningJoin(st[p].todo[1])
                 /\ job = "session" => Receives(st[p].todo[1].main, SessionChecks)
                 /\ job # "session" =>
                       /\ Len(st[p].todo) > 1 /\ st[p].todo[2].op = "compare_digest"
                       /\ \/ Receives(st[p].todo[1].main, {"circuit"})
                          \/ st[p].got = params[Peer(p)]
<1>1. st[p].todo[1].op = op /\ st[p].run = "running" /\ Opening(p)
  BY InCall DEF Calling, OpensOK
<1>2. CASE job = "session"
  <2>1. OpensSession(p)
    BY <1>1, <1>2 DEF Opening
  <2> QED BY <1>1, <1>2, <2>1 DEF OpensSession, OpeningJoin
<1>3. CASE job # "session"
  <2>1. OpensStandalone(p)
    BY <1>1, <1>3 DEF Opening
  <2> QED BY <1>1, <1>3, <2>1 DEF OpensStandalone, OpeningJoin
<1> QED BY <1>2, <1>3

LEMMA PushFirst ==
    ASSUME NEW t \in Seq(AnyCall), t # <<>>, NEW X \in Seq(AnyCall), Len(X) > 0
    PROVE  /\ X \o Tail(t) \in Seq(AnyCall) /\ X \o Tail(t) # <<>>
           /\ (X \o Tail(t))[1] = X[1]
           /\ Len(X) > 1 => Len(X \o Tail(t)) > 1 /\ (X \o Tail(t))[2] = X[2]
<1> DEFINE v == X \o Tail(t)
<1>1. /\ v \in Seq(AnyCall) /\ Len(t) \in Nat \ {0} /\ Len(X) \in Nat
      /\ Len(v) = Len(X) + Len(t) - 1
      /\ \A i \in 1..Len(X) : v[i] = X[i]
  BY Pushed
<1> HIDE DEF v
<1>2. v # <<>> /\ v[1] = X[1] /\ (Len(X) > 1 => Len(v) > 1 /\ v[2] = X[2])
  BY <1>1
<1> QED BY <1>1, <1>2 DEF v

LEMMA ApartDigest ==
    ASSUME TypeOK, OpensOK, NEW p \in Party, ExchangeCircuitDigest(p)
    PROVE  OpensOK'
<1> DEFINE a == <<Send("circuit", 1), Recv("circuit", 1)>>
           b == <<Recv("circuit", 1), Send("circuit", 1)>>
           m == IF p = "Alice" THEN a ELSE b
           j == [op |-> "join", main |-> m, sibling |-> <<>>]
           c == [op |-> "compare_digest", arg |-> 0]
           X == <<j>> \o <<c>>
<1>1. Calling(p, "exchange_digest") /\ job' = job /\ params' = params
  BY DEF ExchangeCircuitDigest, rest
<1>2. job # "session" /\ st[p] \in PartyRec /\ st[p].todo # <<>>
  BY <1>1, ApartCalls, InCall
<1>3. st' = [st EXCEPT ![p].todo = X \o Tail(st[p].todo)]
  <2>1. a # <<>> /\ b # <<>>
    OBVIOUS
  <2> HIDE DEF a, b
  <2>2. (IF p = "Alice" THEN OnMain(a) ELSE OnMain(b)) = <<j>>
    BY <2>1 DEF OnMain, Join
  <2>3. st' = [st EXCEPT ![p].todo = ((IF p = "Alice" THEN OnMain(a) ELSE OnMain(b)) \o <<c>>)
                                     \o Tail(st[p].todo)]
    BY DEF ExchangeCircuitDigest, Then, Call, a, b
  <2> HIDE DEF j, c
  <2> QED BY <2>2, <2>3
<1>4. /\ m \in Seq(QuietMessage) /\ DOMAIN m = 1..2
      /\ \A i \in 1..2 : m[i].kind = "circuit" /\ m[i].n = 1
      /\ \E i \in 1..2 : m[i].dir = "recv"
  <2>1. a \in Seq(QuietMessage) /\ b \in Seq(QuietMessage)
    BY QuietMessages DEF QuietKind
  <2>2. a[2].dir = "recv" /\ b[1].dir = "recv" /\ Len(a) = 2 /\ Len(b) = 2
    BY DEF Recv, Send
  <2>3. \A i \in 1..2 : a[i].kind = "circuit" /\ a[i].n = 1 /\ b[i].kind = "circuit" /\ b[i].n = 1
    BY DEF Recv, Send
  <2> HIDE DEF a, b
  <2> QED BY <2>1, <2>2, <2>3
<1> HIDE DEF m
<1>5. OpeningJoin(j) /\ Receives(j.main, {"circuit"})
  BY <1>2, <1>4 DEF OpeningJoin, OpeningKind, Receives
<1>6. j \in AnyCall /\ c \in AnyCall /\ c.op = "compare_digest"
  <2>1. j \in QuietJoin
    BY <1>4 DEF QuietJoin
  <2>2. c \in InnerCall
    BY DEF InnerCall, InnerOp
  <2> HIDE DEF j, c
  <2>3. j \in AnyCall /\ c \in AnyCall
    BY <2>1, <2>2, CallSets
  <2> QED BY <2>3 DEF c
<1> HIDE DEF j, c
<1>7. X \in Seq(AnyCall) /\ Len(X) = 2 /\ X[1] = j /\ X[2] = c
  BY <1>6, JoinedOnes
<1> HIDE DEF X
<1>8. /\ \A q \in Party \ {p} : st'[q] = st[q]
      /\ st'[p] = [st[p] EXCEPT !.todo = X \o Tail(st[p].todo)]
      /\ st'[p].todo = X \o Tail(st[p].todo)
  BY <1>2, <1>3, <1>7, Expanding
<1> DEFINE v == X \o Tail(st[p].todo)
<1>9. v \in Seq(AnyCall) /\ v # <<>> /\ v[1] = X[1] /\ Len(v) > 1 /\ v[2] = X[2]
  <2>1. st[p].todo \in Seq(AnyCall) /\ Len(X) > 0 /\ Len(X) > 1
    BY <1>2, <1>7, Fields
  <2> QED BY <1>2, <1>7, <2>1, PushFirst, Zenon
<1>10. st'[p].todo = v /\ st'[p].fs = st[p].fs /\ st'[p].connected = st[p].connected
  <2> HIDE DEF v
  <2>1. v \in Seq(AnyCall) /\ st'[p] = [st[p] EXCEPT !.todo = v]
    BY <1>8, <1>9 DEF v
  <2> QED BY <2>1, <1>2, WithTodo
<1> HIDE DEF v
<1>11. v # <<>> /\ Len(v) > 1 /\ v[1] = j /\ v[2] = c
  BY <1>7, <1>9
<1>12. Opening(p)'
  <2>1. Opening(p)
    BY DEF OpensOK
  <2>2. OpeningJoin(j)' /\ Receives(j.main, {"circuit"})
    BY <1>1, <1>5 DEF OpeningJoin, OpeningKind
  <2>3. OpensStandalone(p)'
    BY <1>6, <1>10, <1>11, <1>5, <1>2, <1>1 DEF OpensStandalone, OpeningJoin, OpeningKind
  <2> QED BY <1>1, <1>2, <1>10, <1>11, <2>1, <2>3 DEF Opening
<1> QED BY <1>1, <1>8, <1>12, Elsewhere

LEMMA ApartCompare ==
    ASSUME TypeOK, Apart, OpensOK, NEW p \in Party, CompareDigest(p)
    PROVE  OpensOK'
<1>1. Calling(p, "compare_digest") /\ job' = job /\ params' = params
  BY DEF CompareDigest, rest
<1>2. st[p].got # params[p]
  BY <1>1, ApartCalls, Peers
<1>3. PICK run \in {"done", "failed"} : run = "failed"
  OBVIOUS
<1>4. st' = [st EXCEPT ![p].run = run, ![p].todo = <<>>]
  BY <1>2, <1>3 DEF CompareDigest, Fails
<1> QED BY <1>1, <1>4, StopOpening

\* The messages of the session's handshake.
HandshakeMessage == [dir : {"send", "recv"}, kind : {"length", "start", "ack"}, n : {1}]

LEMMA HandshakeMessages ==
    LET a == SendFrame("start") \o RecvFrame("ack") \o RecvFrame("start") \o SendFrame("ack")
        b == RecvFrame("start") \o SendFrame("ack") \o SendFrame("start") \o RecvFrame("ack")
    IN  \A m \in {a, b} : m \in Seq(HandshakeMessage) /\ m # <<>> /\ Receives(m, SessionChecks)
<1> DEFINE S == HandshakeMessage
<1>1. ASSUME NEW k \in {"start", "ack"}
      PROVE  /\ SendFrame(k) \in Seq(S) /\ Len(SendFrame(k)) = 2
             /\ RecvFrame(k) \in Seq(S) /\ Len(RecvFrame(k)) = 2
             /\ RecvFrame(k)[2].dir = "recv" /\ RecvFrame(k)[2].kind = k
  <2>1. Send("length", 1) \in S /\ Send(k, 1) \in S /\ Recv("length", 1) \in S /\ Recv(k, 1) \in S
    BY DEF Send, Recv, HandshakeMessage
  <2>2. Recv(k, 1).dir = "recv" /\ Recv(k, 1).kind = k
    BY DEF Recv
  <2> QED BY <2>1, <2>2 DEF SendFrame, RecvFrame
<1> DEFINE x == SendFrame("start")
           y == RecvFrame("ack")
           z == RecvFrame("start")
           w == SendFrame("ack")
<1>2. /\ x \in Seq(S) /\ Len(x) = 2 /\ y \in Seq(S) /\ Len(y) = 2
      /\ z \in Seq(S) /\ Len(z) = 2 /\ w \in Seq(S) /\ Len(w) = 2
      /\ y[2].dir = "recv" /\ y[2].kind = "ack" /\ z[2].dir = "recv" /\ z[2].kind = "start"
  BY <1>1
<1> HIDE DEF x, y, z, w, S
<1>3. ASSUME NEW t \in Seq(S), NEW u \in Seq(S), Receives(t, SessionChecks)
      PROVE  t \o u \in Seq(S) /\ Receives(t \o u, SessionChecks)
  <2>1. PICK i \in DOMAIN t : t[i].dir = "recv" /\ t[i].kind \in SessionChecks
    BY <1>3 DEF Receives
  <2> DEFINE v == t \o u
  <2>2. v \in Seq(S) /\ i \in DOMAIN v /\ v[i] = t[i]
    BY <2>1
  <2> HIDE DEF v
  <2>3. Receives(v, SessionChecks)
    BY <2>1, <2>2 DEF Receives
  <2> QED BY <2>2, <2>3 DEF v
<1>4. x \o y \in Seq(S) /\ Receives(x \o y, SessionChecks)
  <2> DEFINE v == x \o y
  <2>0. /\ v \in Seq(S) /\ Len(x) \in Nat /\ Len(y) \in Nat
        /\ DOMAIN v = 1..(Len(x) + Len(y))
        /\ \A i \in (Len(x) + 1)..(Len(x) + Len(y)) : v[i] = y[i - Len(x)]
    BY <1>2, Joined, ZenonT(40)
  <2>1. v \in Seq(S) /\ 4 \in DOMAIN v /\ v[4] = y[2]
    <3> HIDE DEF v
    <3> QED BY <1>2, <2>0
  <2> HIDE DEF v
  <2>2. Receives(v, SessionChecks)
    BY <2>1, <1>2 DEF Receives, SessionChecks
  <2> QED BY <2>1, <2>2 DEF v
<1>5. Receives(z, SessionChecks)
  BY <1>2 DEF Receives, SessionChecks
<1>6. x \o y \o z \o w \in Seq(S) /\ Receives(x \o y \o z \o w, SessionChecks)
  BY <1>2, <1>3, <1>4, Zenon
<1>7. z \o w \o x \o y \in Seq(S) /\ Receives(z \o w \o x \o y, SessionChecks)
  BY <1>2, <1>3, <1>5, Zenon
<1>8. ASSUME NEW m \in Seq(S), Receives(m, SessionChecks) PROVE m # <<>>
  BY <1>8 DEF Receives
<1> QED BY <1>6, <1>7, <1>8, Zenon DEF x, y, z, w, S

LEMMA ApartHandshake ==
    ASSUME TypeOK, OpensOK, NEW p \in Party, RunSessionHandshake(p)
    PROVE  OpensOK'
<1> DEFINE a == SendFrame("start") \o RecvFrame("ack") \o RecvFrame("start") \o SendFrame("ack")
           b == RecvFrame("start") \o SendFrame("ack") \o SendFrame("start") \o RecvFrame("ack")
           m == IF p = "Alice" THEN a ELSE b
           j == [op |-> "join", main |-> m, sibling |-> <<>>]
           X == <<j>>
<1>1. Calling(p, "handshake") /\ job' = job /\ params' = params
  BY DEF RunSessionHandshake, rest
<1>2. job = "session" /\ st[p] \in PartyRec /\ st[p].todo # <<>>
  BY <1>1, ApartCalls, InCall
<1>3. st' = [st EXCEPT ![p].todo =
                (IF p = "Alice" THEN OnMain(a) ELSE OnMain(b)) \o Tail(st[p].todo)]
  BY DEF RunSessionHandshake, Then
<1>4. m \in Seq(HandshakeMessage) /\ m # <<>> /\ Receives(m, SessionChecks)
  BY HandshakeMessages, Zenon
<1>5. st' = [st EXCEPT ![p].todo = X \o Tail(st[p].todo)]
  <2> HIDE DEF a, b
  <2>1. (IF p = "Alice" THEN OnMain(a) ELSE OnMain(b)) = X
    BY <1>4 DEF OnMain, Join
  <2> HIDE DEF X
  <2> QED BY <1>3, <2>1
<1> HIDE DEF m
<1>6. OpeningJoin(j) /\ Receives(j.main, SessionChecks)
  <2>1. \A i \in DOMAIN m : m[i] \in HandshakeMessage
    BY <1>4
  <2>2. \A i \in DOMAIN m : OpeningKind(m[i].kind) /\ m[i].n = 1
    BY <1>2, <2>1 DEF OpeningKind, HandshakeMessage
  <2>3. j.op = "join" /\ j.main = m /\ j.sibling = <<>>
    OBVIOUS
  <2> HIDE DEF j
  <2> QED BY <1>4, <2>2, <2>3 DEF OpeningJoin
<1>7. j \in AnyCall
  <2>1. Seq(HandshakeMessage) \subseteq Seq(QuietMessage)
    <3>1. HandshakeMessage \subseteq QuietMessage
      BY DEF HandshakeMessage, QuietMessage, QuietKind
    <3> QED BY <3>1
  <2>2. j \in QuietJoin
    BY <1>4, <2>1 DEF QuietJoin
  <2> HIDE DEF j
  <2> QED BY <2>2, CallSets
<1> HIDE DEF j
<1>8. X \in Seq(AnyCall) /\ Len(X) = 1 /\ X[1] = j
  BY <1>7
<1> HIDE DEF X
<1>9. /\ \A q \in Party \ {p} : st'[q] = st[q]
      /\ st'[p] = [st[p] EXCEPT !.todo = X \o Tail(st[p].todo)]
  BY <1>2, <1>5, <1>8, Expanding
<1> DEFINE v == X \o Tail(st[p].todo)
<1>10. v \in Seq(AnyCall) /\ v # <<>> /\ v[1] = X[1]
  <2>1. st[p].todo \in Seq(AnyCall) /\ Len(X) > 0
    BY <1>2, <1>8, Fields
  <2> QED BY <1>2, <1>8, <2>1, PushFirst, Zenon
<1>11. st'[p].todo = v /\ st'[p].fs = st[p].fs
  <2> HIDE DEF v
  <2>1. v \in Seq(AnyCall) /\ st'[p] = [st[p] EXCEPT !.todo = v]
    BY <1>9, <1>10 DEF v
  <2> QED BY <2>1, <1>2, WithTodo
<1> HIDE DEF v
<1>12. v # <<>> /\ v[1] = j
  BY <1>8, <1>10
<1>13. Opening(p)'
  <2>1. Opening(p)
    BY DEF OpensOK
  <2>2. OpensSession(p)'
    BY <1>1, <1>6, <1>11, <1>12 DEF OpensSession, OpeningJoin, OpeningKind
  <2> QED BY <1>1, <1>2, <1>11, <1>12, <2>1, <2>2 DEF Opening
<1> QED BY <1>1, <1>9, <1>13, Elsewhere

\* A message of the opening that does not end it.
LEMMA ApartPast ==
    ASSUME TypeOK, OpensOK, NEW p \in Party, NEW s \in Stream, NEW dir, Busy(p, s, dir),
           \A q \in Party \ {p} : st'[q] = st[q], job' = job, params' = params,
           st'[p].todo = Past(p, s), st'[p].fs = st[p].fs, st'[p].connected = st[p].connected,
           job = "session" => ~(dir = "recv" /\ Op(p, s).kind \in SessionChecks),
           job # "session" => \/ st'[p].got = params[Peer(p)]
                              \/ dir # "recv" /\ st'[p].got = st[p].got
    PROVE  OpensOK'
<1> DEFINE t == st[p].todo
           main == t[1].main
           v == Past(p, s)
<1>1. Calling(p, "join") /\ st[p].run = "running" /\ Opening(p)
  BY DEF Busy, Calling, OpensOK
<1>2. /\ OpeningJoin(t[1])
      /\ job = "session" => Receives(main, SessionChecks)
      /\ job # "session" =>
            /\ Len(t) > 1 /\ t[2].op = "compare_digest"
            /\ Receives(main, {"circuit"}) \/ st[p].got = params[Peer(p)]
  BY <1>1, ApartCalls
<1>3. /\ main \in Seq(Message) /\ Op(p, s) = main[1] /\ main[1].dir = dir
      /\ Tail(main) # <<>> =>
            /\ v # <<>> /\ OpeningJoin(v[1]) /\ v[1].main = Tail(main)
            /\ Len(t) > 1 => Len(v) > 1 /\ v[2] = t[2]
      /\ Tail(main) = <<>> /\ Len(t) > 1 => v # <<>> /\ v[1] = t[2]
  BY <1>2, MainPast, SMTT(30)
<1> HIDE DEF v, main, t
<1>4. \A c : OpeningJoin(c)' <=> OpeningJoin(c)
  BY DEF OpeningJoin, OpeningKind
<1>5. st'[p].todo = v
  BY DEF v
<1>6. CASE job = "session"
  <2>1. Tail(main) # <<>> /\ Receives(Tail(main), SessionChecks)
    BY <1>2, <1>3, <1>6, StillReceives
  <2>2. v # <<>> /\ OpeningJoin(v[1]) /\ Receives(v[1].main, SessionChecks)
    BY <1>3, <2>1
  <2>3. OpensSession(p)'
    <3>1. OpeningJoin(st'[p].todo[1]) /\ Receives(st'[p].todo[1].main, SessionChecks)
      BY <1>5, <2>2
    <3> QED BY <3>1 DEF OpensSession, OpeningJoin, OpeningKind
  <2> QED BY <1>1, <1>5, <1>6, <2>2, <2>3, Elsewhere DEF Opening
<1>7. CASE job # "session"
  <2>1. st'[p].got = params[Peer(p)] \/ (Receives(main, {"circuit"}) /\ dir # "recv")
    BY <1>2, <1>7
  <2>2. \/ /\ v # <<>> /\ OpeningJoin(v[1]) /\ Len(v) > 1 /\ v[2].op = "compare_digest"
           /\ Receives(v[1].main, {"circuit"}) \/ st'[p].got = params[Peer(p)]
        \/ v # <<>> /\ v[1].op = "compare_digest" /\ st'[p].got = params[Peer(p)]
    <3>1. CASE st'[p].got = params[Peer(p)]
      BY <1>2, <1>3, <1>7, <3>1
    <3>2. CASE Receives(main, {"circuit"}) /\ dir # "recv"
      <4>1. Tail(main) # <<>> /\ Receives(Tail(main), {"circuit"})
        BY <1>3, <3>2, StillReceives
      <4> QED BY <1>2, <1>3, <1>7, <4>1
    <3> QED BY <2>1, <3>1, <3>2
  <2>3. OpensStandalone(p)' /\ v # <<>>
    <3>1. CASE /\ v # <<>> /\ OpeningJoin(v[1]) /\ Len(v) > 1 /\ v[2].op = "compare_digest"
               /\ Receives(v[1].main, {"circuit"}) \/ st'[p].got = params[Peer(p)]
      <4>1. /\ OpeningJoin(st'[p].todo[1]) /\ Len(st'[p].todo) > 1
            /\ st'[p].todo[2].op = "compare_digest"
            /\ Receives(st'[p].todo[1].main, {"circuit"}) \/ st'[p].got = params'[Peer(p)]
        BY <1>5, <3>1
      <4> QED BY <3>1, <4>1 DEF OpensStandalone, OpeningJoin, OpeningKind
    <3>2. CASE v # <<>> /\ v[1].op = "compare_digest" /\ st'[p].got = params[Peer(p)]
      BY <1>5, <3>2 DEF OpensStandalone
    <3> QED BY <2>2, <3>1, <3>2
  <2> QED BY <1>1, <1>5, <1>7, <2>3, Elsewhere DEF Opening
<1> QED BY <1>6, <1>7

LEMMA WordsNext ==
    ASSUME job' = job, params' = params,
           \A p \in Party, s \in Stream :
               /\ \A i \in DOMAIN wire'[p][s] : \A j \in DOMAIN wire'[p][s][i] :
                     Says(p, wire'[p][s][i][j])
               /\ \A j \in DOMAIN buf'[p][s] : Says(Peer(p), buf'[p][s][j])
    PROVE  WordsOK'
BY DEF WordsOK, Says

LEMMA WordsStay ==
    ASSUME WordsOK, UNCHANGED <<job, params, wire, buf>>
    PROVE  WordsOK'
BY DEF WordsOK, Says

\* Before the transcripts start, nothing but the messages themselves moves.
LEMMA OpeningQuiet ==
    ASSUME TypeOK, OpensOK, NEW p \in Party, NEW s \in Stream, NEW dir, Busy(p, s, dir)
    PROVE  /\ s = "main" /\ Op(p, s).n = 1 /\ OpeningKind(Op(p, s).kind) /\ Calling(p, "join")
           /\ \A n \in Int : Moved(p, s, dir, n) = st[p].fs
           /\ \A fs : Absorbed(p, s, Op(p, s).kind, fs) = st[p].abit
           /\ Past(p, s) \in Seq(AnyCall) /\ st[p] \in PartyRec
<1>1. Calling(p, "join") /\ ~st[p].fs["main"].on
  BY DEF Busy, OpensOK, Opening
<1>2. OpeningJoin(st[p].todo[1])
  BY <1>1, ApartCalls
<1>3. s = "main" /\ Op(p, s).n = 1 /\ OpeningKind(Op(p, s).kind) /\ Past(p, s) \in Seq(AnyCall)
  BY <1>2, MainPast, Zenon
<1>4. Op(p, s).kind # "d"
  BY <1>3 DEF OpeningKind
<1> QED BY <1>1, <1>3, <1>4, InCall DEF Moved, Absorbed

LEMMA ApartSend ==
    ASSUME TypeOK, WordsOK, OpensOK, NEW p \in Party, NEW s \in Stream, SendData(p, s)
    PROVE  WordsOK' /\ OpensOK'
<1> DEFINE op == Op(p, s)
           w == [kind |-> op.kind, val |-> Payload(p, op.kind)]
           frame == [i \in 1..1 |-> w]
<1>1. Busy(p, s, "send") /\ job' = job /\ params' = params /\ buf' = buf
  BY DEF SendData, rest
<1>2. /\ op.n = 1 /\ OpeningKind(op.kind) /\ st[p] \in PartyRec /\ Past(p, s) \in Seq(AnyCall)
      /\ Moved(p, s, "send", 1) = st[p].fs
      /\ \A fs : Absorbed(p, s, op.kind, fs) = st[p].abit
  BY <1>1, OpeningQuiet
<1>3. Smaller(op.n, FrameWords) = 1
  BY <1>2, Sizes DEF Smaller
<1>4. /\ wire' = [wire EXCEPT ![p][s] = Append(@, frame)]
      /\ st' = [st EXCEPT ![p].fs = st[p].fs, ![p].abit = st[p].abit, ![p].todo = Past(p, s)]
  <2> DEFINE n == Smaller(op.n, FrameWords)
             fs == Moved(p, s, "send", n)
  <2>1. /\ wire' = [wire EXCEPT ![p][s] = Append(@, [i \in 1..n |-> w])]
        /\ ~(op.n > n) => st' = [st EXCEPT ![p].fs = fs,
                                          ![p].abit = Absorbed(p, s, op.kind, fs),
                                          ![p].todo = Past(p, s)]
    BY DEF SendData
  <2>2. n = 1 /\ ~(op.n > n)
    BY <1>2, <1>3
  <2> HIDE DEF n, w, op
  <2>3. fs = st[p].fs
    BY <1>2, <2>2
  <2>4. Absorbed(p, s, op.kind, fs) = st[p].abit
    BY <1>2 DEF op
  <2> HIDE DEF fs
  <2> QED BY <2>1, <2>2, <2>3, <2>4
<1>5. OpensOK'
  <2> DEFINE v == Past(p, s)
  <2> HIDE DEF v
  <2>1. st' = [st EXCEPT ![p].fs = st[p].fs, ![p].abit = st[p].abit, ![p].todo = v]
        /\ v \in Seq(AnyCall) /\ st \in [Party -> PartyRec]
    BY <1>2, <1>4 DEF v, TypeOK
  <2>2. /\ st'[p].todo = v /\ st'[p].fs = st[p].fs /\ st'[p].connected = st[p].connected
        /\ st'[p].got = st[p].got
        /\ \A q \in Party \ {p} : st'[q] = st[q]
    BY <2>1, <1>2 DEF PartyRec
  <2>3. "send" # "recv"
    OBVIOUS
  <2> QED BY <1>1, <2>2, <2>3, ApartPast, Zenon DEF v
<1>6. Says(p, w)
  BY <1>2 DEF OpeningKind, Says, Payload
<1> HIDE DEF w
<1>7. WordsOK'
  <2> SUFFICES ASSUME NEW q \in Party, NEW x \in Stream
               PROVE  /\ \A i \in DOMAIN wire'[q][x] : \A j \in DOMAIN wire'[q][x][i] :
                            Says(q, wire'[q][x][i][j])
                      /\ \A j \in DOMAIN buf'[q][x] : Says(Peer(q), buf'[q][x][j])
    BY <1>1, WordsNext, Zenon
  <2>1. \A j \in DOMAIN buf'[q][x] : Says(Peer(q), buf'[q][x][j])
    BY <1>1, Zenon DEF WordsOK
  <2>2. \A i \in DOMAIN wire[q][x] : \A j \in DOMAIN wire[q][x][i] : Says(q, wire[q][x][i][j])
    BY Zenon DEF WordsOK
  <2>3. CASE q = p /\ x = s
    <3> DEFINE u == wire[p][s]
    <3>1. u \in Seq(Seq(Word)) /\ wire'[q][x] = Append(u, frame)
      BY <1>4, <2>3 DEF TypeOK
    <3> HIDE DEF u
    <3>2. ASSUME NEW i \in DOMAIN Append(u, frame)
          PROVE  \A j \in DOMAIN Append(u, frame)[i] : Says(q, Append(u, frame)[i][j])
      <4> HIDE DEF frame
      <4>1. (i \in DOMAIN u /\ Append(u, frame)[i] = u[i]) \/ Append(u, frame)[i] = frame
        BY <3>1
      <4>2. \A j \in DOMAIN frame : Says(q, frame[j])
        BY <1>6, <2>3 DEF frame
      <4>3. \A k \in DOMAIN u : \A j \in DOMAIN u[k] : Says(q, u[k][j])
        BY <2>2, <2>3 DEF u
      <4> QED BY <4>1, <4>2, <4>3
    <3> QED BY <2>1, <3>1, <3>2
  <2>4. CASE ~(q = p /\ x = s)
    <3>1. wire'[q][x] = wire[q][x]
      BY <1>4, <2>4 DEF TypeOK
    <3> QED BY <2>1, <2>2, <3>1
  <2> QED BY <2>3, <2>4
<1> QED BY <1>5, <1>7

LEMMA ApartPull ==
    ASSUME TypeOK, WordsOK, OpensOK, NEW p \in Party, NEW s \in Stream, PullFrame(p, s)
    PROVE  WordsOK' /\ OpensOK'
<1>1. job' = job /\ params' = params /\ st' = st
  BY DEF PullFrame, rest
<1>2. OpensOK'
  <2>1. Opening(p)
    BY DEF OpensOK
  <2>2. Opening(p)'
    BY <1>1, <2>1, Zenon
       DEF Opening, OpensSession, OpensStandalone, OpeningJoin, OpeningKind, Receives
  <2> QED BY <1>1, <2>2, Elsewhere
<1> DEFINE q == Peer(p)
           f == wire[q][s]
           h == Head(f)
           b == buf[p][s]
<1>3. /\ buf' = [buf EXCEPT ![p][s] = b \o h] /\ wire' = [wire EXCEPT ![q][s] = Tail(f)]
      /\ f # <<>>
  BY DEF PullFrame
<1>4. q \in Party /\ f \in Seq(Seq(Word)) /\ b \in Seq(Word)
  BY Peers DEF TypeOK
<1> HIDE DEF q
<1>5. /\ \A i \in DOMAIN f : \A j \in DOMAIN f[i] : Says(q, f[i][j])
      /\ \A j \in DOMAIN b : Says(q, b[j])
  BY <1>4, Zenon DEF WordsOK, q
<1>6. WordsOK'
  <2> SUFFICES ASSUME NEW r \in Party, NEW x \in Stream
               PROVE  /\ \A i \in DOMAIN wire'[r][x] : \A j \in DOMAIN wire'[r][x][i] :
                            Says(r, wire'[r][x][i][j])
                      /\ \A j \in DOMAIN buf'[r][x] : Says(Peer(r), buf'[r][x][j])
    BY <1>1, WordsNext, Zenon
  <2>1. /\ \A i \in DOMAIN wire[r][x] : \A j \in DOMAIN wire[r][x][i] : Says(r, wire[r][x][i][j])
        /\ \A j \in DOMAIN buf[r][x] : Says(Peer(r), buf[r][x][j])
    BY Zenon DEF WordsOK
  <2>2. \A i \in DOMAIN wire'[r][x] : \A j \in DOMAIN wire'[r][x][i] : Says(r, wire'[r][x][i][j])
    <3>1. CASE r = q /\ x = s
      <4>1. wire'[r][x] = Tail(f)
        BY <1>3, <1>4, <3>1 DEF TypeOK
      <4> HIDE DEF f
      <4>2. \A i \in DOMAIN Tail(f) : i + 1 \in DOMAIN f /\ Tail(f)[i] = f[i + 1]
        BY <1>3, <1>4
      <4> QED BY <1>5, <3>1, <4>1, <4>2
    <3>2. CASE ~(r = q /\ x = s)
      <4>1. wire'[r][x] = wire[r][x]
        BY <1>3, <1>4, <3>2 DEF TypeOK
      <4> QED BY <2>1, <4>1
    <3> QED BY <3>1, <3>2
  <2>3. \A j \in DOMAIN buf'[r][x] : Says(Peer(r), buf'[r][x][j])
    <3>1. CASE r = p /\ x = s
      <4> DEFINE c == b \o h
      <4>1. buf'[r][x] = c
        BY <1>3, <1>4, <3>1 DEF TypeOK
      <4>2. h \in Seq(Word) /\ \A j \in DOMAIN h : Says(q, h[j])
        <5> HIDE DEF f
        <5>1. 1 \in DOMAIN f /\ h = f[1] /\ f[1] \in Seq(Word)
          BY <1>3, <1>4
        <5> QED BY <5>1, <1>5
      <4> HIDE DEF b, h
      <4>3. \A j \in DOMAIN c : (j \in DOMAIN b /\ c[j] = b[j])
                                 \/ (j - Len(b) \in DOMAIN h /\ c[j] = h[j - Len(b)])
        BY <1>4, <4>2
      <4> HIDE DEF c
      <4>4. \A j \in DOMAIN c : Says(q, c[j])
        BY <4>3, <4>2, <1>5
      <4>5. Peer(r) = q
        BY <3>1 DEF q
      <4> QED BY <4>1, <4>4, <4>5
    <3>2. CASE ~(r = p /\ x = s)
      <4>1. buf'[r][x] = buf[r][x]
        BY <1>3, <3>2 DEF TypeOK
      <4> QED BY <2>1, <4>1
    <3> QED BY <3>1, <3>2
  <2> QED BY <2>2, <2>3
<1> QED BY <1>2, <1>6

LEMMA ApartRecv ==
    ASSUME TypeOK, Apart, WordsOK, OpensOK, NEW p \in Party, NEW s \in Stream, RecvData(p, s)
    PROVE  WordsOK' /\ OpensOK'
<1> DEFINE op == Op(p, s)
           b == buf[p][s]
           last == b[1]
           got == IF op.kind \in {"circuit", "target"} THEN last.val ELSE st[p].got
<1>1. Busy(p, s, "recv") /\ job' = job /\ params' = params /\ wire' = wire
  BY DEF RecvData, rest
<1>2. /\ op.n = 1 /\ OpeningKind(op.kind) /\ st[p] \in PartyRec /\ Past(p, s) \in Seq(AnyCall)
      /\ Moved(p, s, "recv", 1) = st[p].fs
      /\ \A fs : Absorbed(p, s, op.kind, fs) = st[p].abit
  BY <1>1, OpeningQuiet
<1>3. b \in Seq(Word) /\ Len(b) >= 1 /\ 1 \in DOMAIN b /\ Says(Peer(p), last)
  <2>1. b \in Seq(Word) /\ Len(b) >= 1
    BY <1>2 DEF TypeOK, RecvData
  <2>2. 1 \in DOMAIN b
    BY <2>1
  <2> QED BY <2>1, <2>2 DEF WordsOK
<1>4. /\ buf' = [buf EXCEPT ![p][s] = SubSeq(@, 2, Len(@))]
      /\ Accepts(p, op.kind, last) =>
            st' = [st EXCEPT ![p].fs = st[p].fs, ![p].abit = st[p].abit,
                             ![p].got = got, ![p].todo = Past(p, s)]
      /\ ~Accepts(p, op.kind, last) => st' = [st EXCEPT ![p].run = "failed", ![p].todo = <<>>]
  <2> DEFINE fs == Moved(p, s, "recv", op.n)
  <2>1. /\ buf' = [buf EXCEPT ![p][s] = SubSeq(@, op.n + 1, Len(@))]
        /\ Accepts(p, op.kind, buf[p][s][op.n]) =>
            st' = [st EXCEPT ![p].fs = fs, ![p].abit = Absorbed(p, s, op.kind, fs),
                             ![p].got = IF op.kind \in {"circuit", "target"}
                                        THEN buf[p][s][op.n].val ELSE st[p].got,
                             ![p].todo = Past(p, s)]
        /\ ~Accepts(p, op.kind, buf[p][s][op.n]) => st' = Fails(p)
    BY DEF RecvData
  <2>2. fs = st[p].fs
    BY <1>2
  <2>3. Absorbed(p, s, op.kind, fs) = st[p].abit
    BY <1>2
  <2>4. op.n = 1 /\ op.n + 1 = 2
    BY <1>2
  <2> HIDE DEF fs, op
  <2> QED BY <2>1, <2>2, <2>3, <2>4 DEF Fails
<1>5. OpensOK'
  <2>1. CASE Accepts(p, op.kind, last)
    <3> DEFINE v == Past(p, s)
    <3> HIDE DEF v
    <3>1. st' = [st EXCEPT ![p].fs = st[p].fs, ![p].abit = st[p].abit, ![p].got = got, ![p].todo = v]
          /\ v \in Seq(AnyCall) /\ st \in [Party -> PartyRec]
      BY <1>2, <1>4, <2>1 DEF v, TypeOK
    <3>2. /\ st'[p].todo = v /\ st'[p].fs = st[p].fs /\ st'[p].connected = st[p].connected
          /\ st'[p].got = got
          /\ \A q \in Party \ {p} : st'[q] = st[q]
      <4> HIDE DEF got
      <4> QED BY <3>1, <1>2 DEF PartyRec
    <3>3. job = "session" => op.kind \notin SessionChecks
      <4> SUFFICES ASSUME job = "session", op.kind \in {"start", "ack"} PROVE FALSE
        BY DEF SessionChecks
      <4>1. last.kind = op.kind /\ last.val = params[p]
        BY <2>1 DEF Accepts, SessionChecks
      <4>2. last.val = params[Peer(p)]
        BY <1>3, <4>1 DEF Says
      <4> QED BY <4>1, <4>2, Peers
    <3>4. job # "session" => st'[p].got = params[Peer(p)]
      <4> SUFFICES ASSUME job # "session" PROVE st'[p].got = params[Peer(p)]
        OBVIOUS
      <4>1. op.kind = "circuit" /\ last.val = params[Peer(p)]
        BY <1>2, <1>3 DEF OpeningKind, Says
      <4> QED BY <3>2, <4>1
    <3> QED BY <1>1, <3>2, <3>3, <3>4, ApartPast, Zenon DEF v
  <2>2. CASE ~Accepts(p, op.kind, last)
    <3>1. PICK run \in {"done", "failed"} : run = "failed"
      OBVIOUS
    <3>2. st' = [st EXCEPT ![p].run = run, ![p].todo = <<>>]
      BY <1>4, <2>2, <3>1
    <3> QED BY <1>1, <3>2, StopOpening
  <2> QED BY <2>1, <2>2
<1>6. WordsOK'
  <2> SUFFICES ASSUME NEW q \in Party, NEW x \in Stream
               PROVE  /\ \A i \in DOMAIN wire'[q][x] : \A j \in DOMAIN wire'[q][x][i] :
                            Says(q, wire'[q][x][i][j])
                      /\ \A j \in DOMAIN buf'[q][x] : Says(Peer(q), buf'[q][x][j])
    BY <1>1, WordsNext, Zenon
  <2>1. /\ \A i \in DOMAIN wire'[q][x] : \A j \in DOMAIN wire'[q][x][i] : Says(q, wire'[q][x][i][j])
        /\ \A j \in DOMAIN buf[q][x] : Says(Peer(q), buf[q][x][j])
    BY <1>1, Zenon DEF WordsOK
  <2>2. CASE q = p /\ x = s
    <3> DEFINE c == SubSeq(b, 2, Len(b))
    <3>1. buf'[q][x] = c
      BY <1>4, <2>2 DEF TypeOK
    <3>2. \A j \in DOMAIN b : Says(Peer(q), b[j])
      BY <2>1, <2>2
    <3> HIDE DEF b
    <3>3. \A j \in DOMAIN c : j + 1 \in DOMAIN b /\ c[j] = b[j + 1]
      BY <1>3
    <3> HIDE DEF c
    <3>4. \A j \in DOMAIN c : Says(Peer(q), c[j])
      BY <3>2, <3>3
    <3> QED BY <2>1, <3>1, <3>4
  <2>3. CASE ~(q = p /\ x = s)
    <3>1. buf'[q][x] = buf[q][x]
      BY <1>4, <2>3 DEF TypeOK
    <3> QED BY <2>1, <3>1
  <2> QED BY <2>2, <2>3
<1> QED BY <1>5, <1>6

\* Every step of parties configured apart leaves both before a check that
\* fails.
LEMMA ApartStep ==
    ASSUME TypeOK, Apart, WordsOK, OpensOK, NEW p \in Party, Step(p) \/ Fail(p)
    PROVE  WordsOK' /\ OpensOK'
<1>1. ASSUME NEW op, Calling(p, op),
             op \notin {"handshake", "join", "exchange_digest", "compare_digest"}
      PROVE  FALSE
  BY <1>1, ApartCalls
<1>2. CASE \/ ExchangeCircuitDigest(p) \/ CompareDigest(p) \/ RunSessionHandshake(p)
  <2>1. UNCHANGED <<job, params, wire, buf>>
    BY <1>2 DEF ExchangeCircuitDigest, CompareDigest, RunSessionHandshake, rest, net
  <2> QED BY <1>2, <2>1, ApartDigest, ApartCompare, ApartHandshake, WordsStay
<1>3. CASE \/ OpenSibling(p) \/ DrawCoin(p) \/ BeginAbits(p) \/ GenCotShares(p)
           \/ EndAbits(p) \/ MaybeFlushCotCheck(p) \/ End(p) \/ TrimIdleAllocations(p)
           \/ ComputeInplace(p) \/ Setup(p) \/ ProcessInputs(p) \/ RunProgram(p)
           \/ Garble(p) \/ Evaluate(p) \/ Decode(p) \/ RequestTarget(p)
           \/ ServeTarget(p) \/ PrecomputeTarget(p)
  <2>1. \E op \in {"open_sibling", "coin", "begin_abits", "gen_cot", "end_abits", "maybe_flush",
                   "end", "trim", "compute", "setup", "process_inputs", "run_program", "garble",
                   "evaluate", "decode", "request", "serve", "precompute"} : Calling(p, op)
    BY <1>3 DEF OpenSibling, DrawCoin, BeginAbits, GenCotShares, EndAbits, MaybeFlushCotCheck,
                End, TrimIdleAllocations, ComputeInplace, Setup, ProcessInputs, RunProgram,
                Garble, Evaluate, Decode, RequestTarget, ServeTarget, PrecomputeTarget
  <2> QED BY <1>1, <2>1
<1>4. CASE Finish(p)
  BY <1>4 DEF Finish, OpensOK, Opening
<1>5. ASSUME NEW s \in Stream, SendData(p, s) \/ PullFrame(p, s) \/ RecvData(p, s)
      PROVE  WordsOK' /\ OpensOK'
  BY <1>5, ApartSend, ApartPull, ApartRecv
<1>6. ASSUME NEW s \in Stream, StreamClosed(p, s) PROVE WordsOK' /\ OpensOK'
  <2>1. UNCHANGED <<job, params, wire, buf>>
    BY <1>6 DEF StreamClosed, rest, net
  <2>2. PICK run \in {"done", "failed"} : st' = [st EXCEPT ![p].run = run, ![p].todo = <<>>]
    BY <1>6 DEF StreamClosed, Fails
  <2> QED BY <2>1, <2>2, StopOpening, WordsStay
<1>7. CASE Fail(p)
  <2>1. UNCHANGED <<job, params, wire, buf>>
    BY <1>7 DEF Fail, net
  <2>2. PICK run \in {"done", "failed"} : st' = [st EXCEPT ![p].run = run, ![p].todo = <<>>]
    BY <1>7 DEF Fail, Fails
  <2> QED BY <2>1, <2>2, StopOpening, WordsStay
<1> QED BY <1>2, <1>3, <1>4, <1>5, <1>6, <1>7 DEF Step

LEMMA NextHolds == IInv /\ [Next]_vars => IInv'
<1> SUFFICES ASSUME IInv, [Next]_vars PROVE IInv'
  OBVIOUS
<1>1. TypeOK /\ ApartInv /\ \A q \in Party : CheckInv(st[q])
  BY DEF IInv
<1>2. CASE UNCHANGED vars
  <2>1. st' = st /\ UNCHANGED <<job, params, wire, buf>>
    BY <1>2 DEF vars
  <2>2. TypeOK'
    BY <1>1, <2>1 DEF TypeOK
  <2>3. \A q \in Party : CheckInv(st'[q])
    BY <1>1, <2>1
  <2>4. ASSUME Apart' PROVE WordsOK' /\ OpensOK'
    <3>1. WordsOK /\ OpensOK
      BY <1>1, <2>1, <2>4 DEF ApartInv, Apart
    <3>2. WordsOK'
      BY <2>1, <3>1, WordsStay
    <3>3. OpensOK'
      BY <2>1, <3>1, ZenonT(40) DEF OpensOK, Opening, OpensSession, OpensStandalone, OpeningJoin,
                               OpeningKind, Receives
    <3> QED BY <3>2, <3>3
  <2> QED BY <2>2, <2>3, <2>4 DEF IInv, ApartInv
<1>3. ASSUME NEW p \in Party, Step(p) \/ Fail(p) PROVE IInv'
  <2>1. TypeOK' /\ \A q \in Party : CheckInv(st'[q])
    BY <1>1, <1>3, StepKeeps
  <2>2. params' = params
    BY <1>3 DEF Step, Fail, ExchangeCircuitDigest, CompareDigest, OpenSibling,
        RunSessionHandshake, DrawCoin, BeginAbits, GenCotShares, EndAbits, MaybeFlushCotCheck,
        End, TrimIdleAllocations, ComputeInplace, Setup, ProcessInputs, RunProgram, Garble,
        Evaluate, Decode, RequestTarget, ServeTarget, PrecomputeTarget, Finish, SendData,
        PullFrame, RecvData, StreamClosed, rest
  <2>3. Apart' => Apart
    BY <2>2 DEF Apart
  <2>4. Apart' => WordsOK' /\ OpensOK'
    BY <1>1, <1>3, <2>3, ApartStep DEF ApartInv
  <2> QED BY <2>1, <2>4 DEF IInv, ApartInv
<1> QED BY <1>2, <1>3 DEF Next

LEMMA InvariantHolds == Spec => []IInv
<1> QED BY InitHolds, NextHolds, PTL DEF Spec

\* Whatever the job, its sizes and programs, however frames are cut, queued
\* and pulled, and whoever fails when, a party's state stays typed: no call
\* gets an argument that is no count, and no send or receive is for zero
\* words (softspoken.rs, triple_pool.rs, session.rs).
THEOREM TypeCorrect == Spec => []TypeOK
<1>1. IInv => TypeOK
  BY DEF IInv
<1> QED BY <1>1, InvariantHolds, PTL

\* Parties that are configured apart never start: neither turns its
\* transcripts on, and neither opens the sibling stream of a standalone job,
\* because every way past the digest exchange (circuit digests compared) and
\* past the session handshake (start and ack compared) reads a word that
\* carries the peer's parameters.
THEOREM AgreedCorrect == Spec => []AgreedBeforeStart
<1>1. IInv => AgreedBeforeStart
  BY Zenon DEF IInv, ApartInv, Apart, OpensOK, Opening, AgreedBeforeStart
<1> QED BY <1>1, InvariantHolds, PTL

\* When a party comes to a decode, in any job, every OT chunk it drew has
\* been through the consistency check: begin, flush and end keep the order
\* that maybe_flush_cot_check and run_program set up, for every program.
THEOREM CheckedCorrect == Spec => []CheckedBeforeOpened
<1>1. IInv => CheckedBeforeOpened
  <2> SUFFICES ASSUME IInv, NEW p \in Party, Calling(p, "decode")
               PROVE  \A k \in 1..2 : st[p].abit[k].check = <<>>
    BY DEF CheckedBeforeOpened
  <2>1. /\ st[p].todo \in Seq(AnyCall) /\ st[p].todo # <<>> /\ st[p].todo[1].op = "decode"
        /\ DecodesReady(st[p])
    BY InCall DEF IInv, CheckInv
  <2>2. 1 \in DOMAIN st[p].todo
    BY <2>1
  <2>3. Clean(st[p]) \/ 1 > 1 \/ 1 = 2
    BY <2>1, <2>2, Zenon DEF DecodesReady
  <2>4. Clean(st[p])
    BY <2>3
  <2> QED BY <2>4 DEF Clean
<1> QED BY <1>1, InvariantHolds, PTL
=============================================================================
