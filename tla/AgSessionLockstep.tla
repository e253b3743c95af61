------------------------- MODULE AgSessionLockstep --------------------------
(***************************************************************************)
(* The run of a job: what both parties of AgSession do when neither fails, *)
(* as one sequence of states.  Both stacks of calls are expanded side by   *)
(* side and each stream is followed message by message, so the run depends *)
(* on the job and the parameters and not on how the parties interleave.    *)
(* For every size, program list and target the two stacks fit: what one    *)
(* party sends on a stream, the other receives there.  A party that makes  *)
(* a call, in whatever interleaving, makes the call of the run.            *)
(***************************************************************************)
EXTENDS AgSessionProofs, WellFoundedInduction

-----------------------------------------------------------------------------
(* Functions on the numbers by recursion: the first n values exist and are *)
(* unique for every n, hence the function does.                            *)

\* A set of numbers has a least one.
LEMMA LeastNat ==
    ASSUME NEW S, S \subseteq Nat, S # {}
    PROVE  \E n \in S : \A m \in S : n <= m
  <1> DEFINE R == {ss \in Nat \X Nat : ss[1] < ss[2]}
  <1>1. IsWellFoundedOn(R, Nat)
    BY NatLessThanWellFounded, Zenon DEF OpToRel
  <1>3. \A x, y \in Nat : x < y => <<x, y>> \in R
    OBVIOUS
  <1> HIDE DEF R
  <1>2. PICK x \in S : \A y \in S : ~ (<<y, x>> \in R)
    BY <1>1, WFMin
  <1>4. ASSUME NEW y \in S PROVE x <= y
    <2>1. x \in Nat /\ y \in Nat
      OBVIOUS
    <2>2. ~(y < x)
      BY <1>2, <1>3, <2>1
    <2> QED BY <2>1, <2>2
  <1> QED BY <1>4

\* Induction over the numbers, for the members of a set.
LEMMA NatInd ==
    ASSUME NEW S, 0 \in S, \A n \in Nat : n \in S => n + 1 \in S
    PROVE  Nat \subseteq S
  <1> DEFINE B == Nat \ S
  <1> SUFFICES ASSUME B # {} PROVE FALSE
    OBVIOUS
  <1>1. PICK n \in B : \A m \in B : n <= m
    <2>1. B \subseteq Nat OBVIOUS
    <2> HIDE DEF B
    <2> QED BY <2>1, LeastNat
  <1>2. n \in Nat /\ n # 0 /\ n - 1 \in Nat
    OBVIOUS
  <1>3. n - 1 \in S
    BY <1>1, <1>2
  <1>4. (n - 1) + 1 \in S
    BY <1>2, <1>3
  <1> QED BY <1>2, <1>4

\* Finitely many steps from e.
Steps(S, e, F, n, f) ==
    f \in [0..n -> S] /\ f[0] = e /\ \A i \in 0..(n - 1) : f[i + 1] = F[i][f[i]]

\* F can be iterated n times, whatever n.
LEMMA FiniteSteps ==
    ASSUME NEW S, NEW e \in S, NEW F \in [Nat -> [S -> S]]
    PROVE  \A n \in Nat : \E f : Steps(S, e, F, n, f)
  <1> DEFINE D == {n \in Nat : \E f : Steps(S, e, F, n, f)}
  <1>1. 0 \in D
    <2>1. Steps(S, e, F, 0, [i \in 0..0 |-> e])
      BY DEF Steps
    <2> QED BY <2>1
  <1>2. ASSUME NEW n \in Nat, n \in D PROVE n + 1 \in D
    <2>1. PICK f : Steps(S, e, F, n, f)
      BY <1>2
    <2>2. f[n] \in S
      BY <2>1 DEF Steps
    <2> DEFINE v == F[n][f[n]]
    <2>3. v \in S
      BY <2>2
    <2> DEFINE g == [i \in 0..(n + 1) |-> IF i = n + 1 THEN v ELSE f[i]]
    <2>4. g[n + 1] = v /\ g[n] = f[n] /\ \A i \in 0..n : g[i] = f[i]
      OBVIOUS
    <2>5. g \in [0..(n + 1) -> S]
      <3> HIDE DEF v
      <3> SUFFICES ASSUME NEW i \in 0..(n + 1) PROVE (IF i = n + 1 THEN v ELSE f[i]) \in S
        OBVIOUS
      <3>1. CASE i = n + 1
        BY <3>1, <2>3
      <3>2. CASE i # n + 1
        <4>1. i \in 0..n
          BY <3>2
        <4> QED BY <4>1, <3>2, <2>1 DEF Steps
      <3> QED BY <3>1, <3>2
    <2>6. ASSUME NEW i \in 0..((n + 1) - 1) PROVE g[i + 1] = F[i][g[i]]
      <3> HIDE DEF g
      <3>1. CASE i = n
        BY <3>1, <2>4
      <3>2. CASE i # n
        <4>1. i \in 0..(n - 1) /\ i \in 0..n /\ i + 1 \in 0..n
          BY <3>2
        <4> QED BY <4>1, <2>4, <2>1 DEF Steps
      <3> QED BY <3>1, <3>2
    <2>7. Steps(S, e, F, n + 1, g)
      <3>1. g[0] = e
        BY <2>4, <2>1 DEF Steps
      <3> HIDE DEF g
      <3> QED BY <3>1, <2>5, <2>6 DEF Steps
    <2> HIDE DEF g
    <2> QED BY <2>7
  <1> HIDE DEF D
  <1>3. Nat \subseteq D
    BY <1>1, <1>2, NatInd
  <1> QED BY <1>3 DEF D

LEMMA StepsUnique ==
    ASSUME NEW S, NEW e \in S, NEW F \in [Nat -> [S -> S]],
           NEW m \in Nat, NEW n \in Nat, NEW f, NEW g,
           Steps(S, e, F, m, f), Steps(S, e, F, n, g)
    PROVE  \A i \in Nat : i <= m /\ i <= n => f[i] = g[i]
  <1> DEFINE D == {i \in Nat : i <= m /\ i <= n => f[i] = g[i]}
  <1>1. 0 \in D
    BY DEF Steps
  <1>2. ASSUME NEW i \in Nat, i \in D PROVE i + 1 \in D
    <2>1. SUFFICES ASSUME i + 1 <= m, i + 1 <= n PROVE f[i + 1] = g[i + 1]
      OBVIOUS
    <2>2. f[i] = g[i] /\ i \in 0..(m - 1) /\ i \in 0..(n - 1)
      BY <2>1, <1>2
    <2> QED BY <2>2 DEF Steps
  <1> HIDE DEF D
  <1>3. Nat \subseteq D
    BY <1>1, <1>2, NatInd
  <1> QED BY <1>3 DEF D

Iterates(S, e, F, f) ==
    f \in [Nat -> S] /\ f[0] = e /\ \A n \in Nat : f[n + 1] = F[n][f[n]]

\* F can be iterated for ever.
LEMMA Recursion ==
    ASSUME NEW S, NEW e \in S, NEW F \in [Nat -> [S -> S]]
    PROVE  \E f : Iterates(S, e, F, f)
  <1> DEFINE G(n) == CHOOSE f : Steps(S, e, F, n, f)
             f == [n \in Nat |-> G(n)[n]]
  <1>1. ASSUME NEW n \in Nat PROVE Steps(S, e, F, n, G(n))
    BY FiniteSteps
  <1>2. ASSUME NEW n \in Nat PROVE G(n)[n] \in S /\ G(n + 1)[n] = G(n)[n]
    <2> HIDE DEF G
    <2>1. n + 1 \in Nat /\ Steps(S, e, F, n, G(n)) /\ Steps(S, e, F, n + 1, G(n + 1))
      BY <1>1
    <2>2. G(n)[n] \in S
      BY <2>1 DEF Steps
    <2>3. n <= n /\ n <= n + 1
      OBVIOUS
    <2>4. G(n + 1)[n] = G(n)[n]
      BY <2>1, <2>3, StepsUnique, SMTT(30)
    <2> QED BY <2>2, <2>4
  <1>3. f[0] = e
    BY <1>1 DEF Steps
  <1>4. ASSUME NEW n \in Nat PROVE f[n + 1] = F[n][f[n]]
    <2>1. f[n + 1] = G(n + 1)[n + 1] /\ f[n] = G(n)[n]
      OBVIOUS
    <2> HIDE DEF G, f
    <2>2. Steps(S, e, F, n + 1, G(n + 1)) /\ n \in 0..((n + 1) - 1)
      BY <1>1
    <2>3. G(n + 1)[n + 1] = F[n][G(n + 1)[n]]
      BY <2>2 DEF Steps
    <2> QED BY <2>1, <2>3, <1>2
  <1>5. f \in [Nat -> S]
    BY <1>2
  <1> HIDE DEF f
  <1> QED BY <1>3, <1>4, <1>5 DEF Iterates

-----------------------------------------------------------------------------
(* What the two stacks have to do with each other.                         *)

\* One party sends what the other receives; the correlations of a stream are
\* drawn by the party whose second abit it carries.
DualMessage(s, a, b) ==
    /\ a \in Message /\ b \in Message
    /\ a.kind = b.kind /\ a.n = b.n /\ a.dir # b.dir
    /\ a.kind \in {"d", "t"} => (a.dir = "send") = (s = "main")
    /\ a.kind \in {"circuit", "target"} => s = "main"
DualBranch(s, a, b) ==
    /\ a \in Seq(Message) /\ b \in Seq(Message) /\ Len(a) = Len(b)
    /\ \A i \in 1..Len(a) : DualMessage(s, a[i], b[i])
DualJoin(a, b) ==
    /\ \A s \in Stream : DualBranch(s, a[s], b[s])
    /\ a.main # <<>> \/ a.sibling # <<>>
DualCall(a, b) ==
    /\ a \in AnyCall /\ b \in AnyCall
    /\ a.op \notin {"request", "serve", "evaluate"}
    /\ CASE a.op = "join"   -> b.op = "join" /\ DualJoin(a, b)
         [] a.op = "garble" -> b = [op |-> "evaluate", arg |-> a.arg]
         [] OTHER           -> b = a

\* Calls that wait for nothing a join before them brings.
Plain(c) == c.op \notin {"compare_digest", "precompute"}
Dual(X, Y) ==
    /\ X \in Seq(AnyCall) /\ Y \in Seq(AnyCall) /\ Len(X) = Len(Y)
    /\ \A i \in 1..Len(X) : DualCall(X[i], Y[i]) /\ Plain(X[i])

\* The stacks: in a session Alice's ends in requests, Bob's in one serve.
DualStacks(j, a, b) ==
    LET n == IF j = "session" THEN Len(b) - 1 ELSE Len(b)
    IN  /\ a \in Seq(AnyCall) /\ b \in Seq(AnyCall)
        /\ n \in 0..Len(a)
        /\ \A i \in 1..n : DualCall(a[i], b[i])
        /\ \A i \in (n + 1)..Len(a) :
              j = "session" /\ a[i].op = "request" /\ a[i].arg \in DOMAIN Targets
        /\ j = "session" => b[n + 1] = [op |-> "serve", arg |-> 0]

-----------------------------------------------------------------------------
(* The streams.                                                            *)

\* A stream: words counted in the transcripts, the coins of its OT, all
\* words so far, and what each party learnt from it.
StreamState == [cnt : [Party -> Int], chk : Seq(Digest), tot : [Party -> Int],
                got : [Party -> Val]]

Sender(m) == IF m.dir = "send" THEN "Alice" ELSE "Bob"
Counted(e) == <<e.cnt["Alice"], e.cnt["Bob"]>>

\* What a message says, from its sender p.
Carries(par, coins, e, p, kind) ==
    CASE kind \in {"start", "ack", "circuit"} -> par[p]
      [] kind = "target" -> e.got[p]
      [] kind = "t"      -> e.chk
      [] kind = "gamma"  -> coins
      [] OTHER           -> <<>>

\* A stream after a message, as Alice sees it.
Passed(par, z, e, m) ==
    LET p   == Sender(m)
        cnt == IF z.on THEN [e.cnt EXCEPT ![p] = @ + m.n] ELSE e.cnt
    IN  [cnt |-> cnt,
         chk |-> IF m.kind = "d" THEN Append(e.chk, <<cnt["Alice"], cnt["Bob"]>>)
                                 ELSE e.chk,
         tot |-> [e.tot EXCEPT ![p] = @ + m.n],
         got |-> IF m.kind \in {"circuit", "target"}
                 THEN [e.got EXCEPT ![Peer(p)] = Carries(par, z.coins, e, p, m.kind)]
                 ELSE e.got]

-----------------------------------------------------------------------------
(* The run in lockstep.                                                    *)

\* A state of the run: both stacks, the OT state both parties share (softspoken.rs),
\* the coins drawn, whether the transcripts are on, and the two streams.
LockState == [todo : [Party -> Seq(AnyCall)], minted : BOOLEAN, setup : BOOLEAN,
              left : Int, coins : Seq(Digest \X Digest), on : BOOLEAN,
              str : [Stream -> StreamState]]

\* Both parties are in a join, whose branches are lists of messages.
InJoin(z) == z.todo["Alice"] # <<>> /\ z.todo["Alice"][1].op = "join"
Messages1(z, s) == IF InJoin(z) THEN z.todo["Alice"][1][s] ELSE <<>>

\* A stream through the messages of a join, one after the other.
IsBranch(par, z, s, f) ==
    /\ f \in [Nat -> StreamState]
    /\ f[0] = z.str[s]
    /\ \A n \in Nat : f[n + 1] = IF n < Len(Messages1(z, s))
                              THEN Passed(par, z, f[n], Messages1(z, s)[n + 1])
                              ELSE f[n]
Branch(par, z, s) == CHOOSE f : IsBranch(par, z, s, f)

\* Bodies of calls.
ComputeCalls(p, l) ==
    Call("gen_cot", l) \o LeakyAndHalfgate(p, l)
    \o LayeredBucket(p, l, Ssp) \o FeqCheck(p)
    \o Exchange(p, <<Send("open_a", BoolWireLen(l)), Send("open_b", BoolWireLen(l))>>,
                   <<Recv("open_a", BoolWireLen(l)), Recv("open_b", BoolWireLen(l))>>)
InputCalls(p, n) ==
    Call("gen_cot", ValueBits)
    \o Exchange(p,
         <<Send("share", ValueBits), Send("mac", 1)>>
           \o IF n = p THEN <<Send("masked", ValueBits)>> ELSE <<>>,
         <<Recv("share", ValueBits), Recv("mac", 1)>>
           \o IF n = p THEN <<>> ELSE <<Recv("masked", ValueBits)>>)
    \o OnMain(IF p = "Alice" THEN <<Send("labels", ValueBits)>>
                             ELSE <<Recv("labels", ValueBits)>>)
ProgramCalls(p, n) ==
    Times(CeilDiv(n, MaskBatch), Call("gen_cot", MaskBatch))
    \o Call("compute", n) \o Call("coin", 0)
    \o Call(IF p = "Alice" THEN "garble" ELSE "evaluate", n)
    \o Call("maybe_flush", 0)

\* The calls a call of p expands into.
Expand(p, z, op, n) ==
    CASE op = "exchange_digest" ->
           (IF p = "Alice"
              THEN OnMain(<<Send("circuit", 1), Recv("circuit", 1)>>)
              ELSE OnMain(<<Recv("circuit", 1), Send("circuit", 1)>>))
           \o Call("compare_digest", 0)
      [] op = "handshake" ->
           IF p = "Alice"
           THEN OnMain(SendFrame("start") \o RecvFrame("ack")
                       \o RecvFrame("start") \o SendFrame("ack"))
           ELSE OnMain(RecvFrame("start") \o SendFrame("ack")
                       \o SendFrame("start") \o RecvFrame("ack"))
      [] op = "begin_abits" ->
           OnAbits(p, IF z.setup THEN <<>> ELSE BootstrapSend,
                      IF z.setup THEN <<>> ELSE BootstrapRecv)
      [] op = "gen_cot" ->
           OnAbits(p, Times(ChunksFor(z.left, n), <<Recv("d", ChunkBlocks)>>),
                      Times(ChunksFor(z.left, n), <<Send("d", ChunkBlocks)>>))
      [] op = "end_abits" ->
           OnAbits(p, <<Recv("d", 1), Recv("x", 1), Recv("t", 1)>>,
                      <<Send("d", 1), Send("x", 1), Send("t", 1)>>)
      [] op = "maybe_flush" ->
           IF z.minted THEN Call("end_abits", 0) \o Call("begin_abits", 0) ELSE <<>>
      [] op = "end" -> Call("end_abits", 0)
      [] op = "compute" -> IF n = 0 THEN <<>> ELSE ComputeCalls(p, n)
      [] op = "setup" -> Call("begin_abits", 0)
      [] op = "process_inputs" -> InputCalls(p, n)
      [] op = "run_program" -> ProgramCalls(p, n)
      [] op = "garble" -> OnMain(GarblerPath(n))
      [] op = "evaluate" -> OnMain(EvaluatorPath(n))
      [] op = "decode" ->
           IF p = "Alice"
           THEN OnMain(<<Send("share", ValueBits), Send("mac", 1), Recv("bits", ValueBits)>>)
           ELSE OnMain(<<Recv("share", ValueBits), Recv("mac", 1), Send("bits", ValueBits)>>)
      [] op = "request" -> OnMain(<<Send("target", 1)>>) \o Call("precompute", 0)
      [] op = "serve" -> OnMain(<<Recv("target", 1)>>) \o Call("precompute", 0)
                           \o Call("serve", 0)
      [] op = "precompute" ->
           LET programs == Targets[z.str["main"].got[p]]
           IN  Calls("run_program", programs)
               \o IF programs = <<>> THEN <<>> ELSE Call("trim", 0)
      [] OTHER -> <<>>
Expansion(p, z) == Expand(p, z, z.todo[p][1].op, z.todo[p][1].arg)

\* Both parties take their call.
Lockstep(par, z) ==
    LET op == z.todo["Alice"][1].op
        n  == z.todo["Alice"][1].arg
    IN  [todo   |-> [p \in Party |-> Expansion(p, z) \o Tail(z.todo[p])],
         minted |-> op = "gen_cot" \/ (z.minted /\ op \notin {"maybe_flush", "end"}),
         setup  |-> z.setup \/ op = "begin_abits",
         left   |-> CASE op \in {"begin_abits", "trim"} -> 0
                      [] op = "gen_cot" -> LeftAfter(z.left, n)
                      [] OTHER -> z.left,
         coins  |-> CASE op = "run_program" -> <<>>
                      [] op = "coin" -> Append(z.coins, <<Counted(z.str["main"]),
                                                          Counted(z.str["sibling"])>>)
                      [] OTHER -> z.coins,
         on     |-> z.on \/ op = "setup",
         str    |-> [s \in Stream |->
             CASE op = "join" -> Branch(par, z, s)[Len(Messages1(z, s))]
               [] op = "setup" -> [z.str[s] EXCEPT !.cnt = [p \in Party |-> 0]]
               [] op = "begin_abits" -> [z.str[s] EXCEPT !.chk = <<>>]
               [] op = "request" -> [z.str[s] EXCEPT !.got["Alice"] = n]
               [] OTHER -> z.str[s]]]
Ended(z) == z.todo["Alice"] = <<>>
Advance(par, z) == IF Ended(z) THEN z ELSE Lockstep(par, z)

Start(j) ==
    [todo |-> [p \in Party |-> Body(j, p)], minted |-> FALSE, setup |-> FALSE,
     left |-> 0, coins |-> <<>>, on |-> FALSE,
     str |-> [s \in Stream |->
         [cnt |-> [p \in Party |-> 0], chk |-> <<>>, tot |-> [p \in Party |-> 0],
          got |-> [p \in Party |-> 0]]]]

\* A comparison comes with what it compares, a target with its name.
Awaited(par, z) ==
    LET t == z.todo["Alice"]
        got == z.str["main"].got
    IN  \A i \in DOMAIN t :
          /\ t[i].op = "compare_digest" =>
                \/ i = 1 /\ \A p \in Party : got[p] = par[Peer(p)]
                \/ i = 2 /\ t[1].op = "join"
                   /\ t[1].main = <<Send("circuit", 1), Recv("circuit", 1)>>
          /\ t[i].op = "precompute" =>
                /\ got["Alice"] \in DOMAIN Targets
                /\ \/ i = 1 /\ got["Bob"] = got["Alice"]
                   \/ i = 2 /\ t[1].op = "join" /\ t[1].main = <<Send("target", 1)>>

\* Stacks that fit, where what is compared has been received.
InLockstep(j, par) ==
    {z \in LockState : DualStacks(j, z.todo["Alice"], z.todo["Bob"]) /\ Awaited(par, z)}

\* The run of a job: one call of both parties after the other.
IsRun(j, par, f) ==
    /\ f \in [Nat -> InLockstep(j, par)]
    /\ f[0] = Start(j)
    /\ \A n \in Nat : f[n + 1] = Advance(par, f[n])
Run(j, par) == CHOOSE f : IsRun(j, par, f)

-----------------------------------------------------------------------------
(* The bodies of a call fit together.                                      *)

PlainKind == QuietKind \ {"t", "circuit", "target"}

\* A receive fits a send of the same kind and number of words.
LEMMA DualMessages ==
    ASSUME NEW s \in Stream, NEW kind \in PlainKind, NEW n \in Nat \ {0}
    PROVE  /\ DualMessage(s, Send(kind, n), Recv(kind, n))
           /\ DualMessage(s, Recv(kind, n), Send(kind, n))
<1>1. kind \in Kind /\ kind \notin {"d", "t"} /\ kind \notin {"circuit", "target"}
  BY DEF PlainKind, QuietKind, Kind
<1>2. Send(kind, n) \in Message /\ Recv(kind, n) \in Message
  BY <1>1, Messages
<1> QED BY <1>1, <1>2 DEF DualMessage, Send, Recv

LEMMA DualBranches ==
    ASSUME NEW s \in Stream
    PROVE  /\ DualBranch(s, <<>>, <<>>)
           /\ \A a, b : DualMessage(s, a, b) => DualBranch(s, <<a>>, <<b>>)
           /\ \A a, b, c, d : DualBranch(s, a, b) /\ DualBranch(s, c, d)
                                => DualBranch(s, a \o c, b \o d)
<1>1. DualBranch(s, <<>>, <<>>)
  BY DEF DualBranch
<1>2. ASSUME NEW a, NEW b, DualMessage(s, a, b) PROVE DualBranch(s, <<a>>, <<b>>)
  <2>1. a \in Message /\ b \in Message
    BY <1>2 DEF DualMessage
  <2> QED BY <1>2, <2>1 DEF DualBranch
<1>3. ASSUME NEW a, NEW b, NEW c, NEW d, DualBranch(s, a, b), DualBranch(s, c, d)
      PROVE  DualBranch(s, a \o c, b \o d)
  <2>1. a \in Seq(Message) /\ b \in Seq(Message) /\ c \in Seq(Message) /\ d \in Seq(Message)
        /\ Len(a) = Len(b) /\ Len(c) = Len(d)
    BY <1>3 DEF DualBranch
  <2>2. a \o c \in Seq(Message) /\ b \o d \in Seq(Message) /\ Len(a \o c) = Len(b \o d)
    BY <2>1
  <2>3. ASSUME NEW i \in 1..Len(a \o c) PROVE DualMessage(s, (a \o c)[i], (b \o d)[i])
    <3>1. CASE i <= Len(a)
      <4>1. (a \o c)[i] = a[i] /\ (b \o d)[i] = b[i] /\ i \in 1..Len(a)
        BY <3>1, <2>1
      <4> QED BY <4>1, <1>3 DEF DualBranch
    <3>2. CASE ~(i <= Len(a))
      <4>1. (a \o c)[i] = c[i - Len(a)] /\ (b \o d)[i] = d[i - Len(a)] /\ i - Len(a) \in 1..Len(c)
        BY <3>2, <2>1
      <4> QED BY <4>1, <1>3 DEF DualBranch
    <3> QED BY <3>1, <3>2
  <2> QED BY <2>2, <2>3 DEF DualBranch
<1> QED BY <1>1, <1>2, <1>3

\* What fits can be made one after the other.
LEMMA DualSequences ==
    /\ Dual(<<>>, <<>>)
    /\ \A X, Y, U, V : Dual(X, Y) /\ Dual(U, V) => Dual(X \o U, Y \o V)
<1>1. Dual(<<>>, <<>>)
  BY DEF Dual
<1>3. ASSUME NEW a, NEW b, NEW c, NEW d, Dual(a, b), Dual(c, d)
      PROVE  Dual(a \o c, b \o d)
  <2>1. a \in Seq(AnyCall) /\ b \in Seq(AnyCall) /\ c \in Seq(AnyCall) /\ d \in Seq(AnyCall)
        /\ Len(a) = Len(b) /\ Len(c) = Len(d)
    BY <1>3 DEF Dual
  <2>2. a \o c \in Seq(AnyCall) /\ b \o d \in Seq(AnyCall) /\ Len(a \o c) = Len(b \o d)
    BY <2>1
  <2>3. ASSUME NEW i \in 1..Len(a \o c)
        PROVE  DualCall((a \o c)[i], (b \o d)[i]) /\ Plain((a \o c)[i])
    <3>1. CASE i <= Len(a)
      <4>1. (a \o c)[i] = a[i] /\ (b \o d)[i] = b[i] /\ i \in 1..Len(a)
        BY <3>1, <2>1
      <4> QED BY <4>1, <1>3 DEF Dual
    <3>2. CASE ~(i <= Len(a))
      <4>1. (a \o c)[i] = c[i - Len(a)] /\ (b \o d)[i] = d[i - Len(a)] /\ i - Len(a) \in 1..Len(c)
        BY <3>2, <2>1
      <4> QED BY <4>1, <1>3 DEF Dual
    <3> QED BY <3>1, <3>2
  <2> QED BY <2>2, <2>3 DEF Dual
<1> QED BY <1>1, <1>3

LEMMA DualOne ==
    ASSUME NEW a, NEW b, DualCall(a, b), Plain(a)
    PROVE  Dual(<<a>>, <<b>>)
<1>1. a \in AnyCall /\ b \in AnyCall
  BY DEF DualCall
<1> HIDE DEF DualCall, Plain
<1> QED BY <1>1 DEF Dual

LEMMA DualJoins ==
    ASSUME NEW a, NEW b, NEW c, NEW d,
           DualBranch("main", a, b), DualBranch("sibling", c, d)
    PROVE  Dual(Join(a, c), Join(b, d))
<1>1. a \in Seq(Message) /\ b \in Seq(Message) /\ c \in Seq(Message) /\ d \in Seq(Message)
      /\ Len(a) = Len(b) /\ Len(c) = Len(d)
  BY DEF DualBranch
<1>2. CASE a = <<>> /\ c = <<>>
  <2>1. b = <<>> /\ d = <<>>
    BY <1>1, <1>2
  <2> QED BY <2>1, <1>2, DualSequences DEF Join
<1>3. CASE ~(a = <<>> /\ c = <<>>)
  <2> DEFINE x == [op |-> "join", main |-> a, sibling |-> c]
             y == [op |-> "join", main |-> b, sibling |-> d]
  <2>1. ~(b = <<>> /\ d = <<>>)
    BY <1>1, <1>3
  <2>2. Join(a, c) = <<x>> /\ Join(b, d) = <<y>>
    BY <2>1, <1>3 DEF Join
  <2>3. x \in AnyCall /\ y \in AnyCall
    BY <1>1 DEF AnyCall, NoisyCall
  <2>4. DualJoin(x, y)
    BY <1>3 DEF DualJoin, Stream
  <2>5. DualCall(x, y) /\ Plain(x)
    BY <2>3, <2>4 DEF DualCall, Plain
  <2> HIDE DEF x, y
  <2> QED BY <2>2, <2>5, DualOne
<1> QED BY <1>2, <1>3

LEMMA DualMeets ==
    ASSUME NEW a, NEW b, NEW c, NEW d
    PROVE  /\ DualBranch("main", a, d) /\ DualBranch("sibling", b, c)
                => Dual(Exchange("Alice", a, b), Exchange("Bob", c, d))
           /\ DualBranch("main", b, c) /\ DualBranch("sibling", a, d)
                => Dual(OnAbits("Alice", a, b), OnAbits("Bob", c, d))
           /\ DualBranch("main", a, b) => Dual(OnMain(a), OnMain(b))
BY DualJoins, DualBranches DEF Exchange, OnAbits, OnMain, Stream

\* Calls that both parties make alike.
EvenOp == {"handshake", "coin", "begin_abits", "gen_cot", "maybe_flush", "trim",
           "compute", "setup", "run_program", "open_sibling", "decode", "end",
           "end_abits", "exchange_digest"}

LEMMA EvenCall ==
    ASSUME NEW op \in EvenOp, NEW arg \in Nat
    PROVE  DualCall([op |-> op, arg |-> arg], [op |-> op, arg |-> arg])
           /\ Plain([op |-> op, arg |-> arg])
<1>1. [op |-> op, arg |-> arg] \in AnyCall
  BY DEF EvenOp, AnyCall, QuietCall, InnerCall, InnerOp, OuterOp, NoisyCall
<1> QED BY <1>1 DEF DualCall, Plain, EvenOp

LEMMA DualCalls ==
    /\ \A op \in EvenOp, arg \in Nat : Dual(Call(op, arg), Call(op, arg))
    /\ \A op \in EvenOp, args \in Seq(Nat) : Dual(Calls(op, args), Calls(op, args))
    /\ \A arg \in Party : Dual(Call("process_inputs", arg), Call("process_inputs", arg))
    /\ \A arg \in Nat : Dual(Call("garble", arg), Call("evaluate", arg))
<1>1. ASSUME NEW op \in EvenOp, NEW arg \in Nat PROVE Dual(Call(op, arg), Call(op, arg))
  BY EvenCall, DualOne DEF Call
<1>2. ASSUME NEW op \in EvenOp, NEW args \in Seq(Nat)
      PROVE  Dual(Calls(op, args), Calls(op, args))
  <2>1. DOMAIN args = 1..Len(args) /\ Len(args) \in Nat
    OBVIOUS
  <2>2. ASSUME NEW i \in 1..Len(args)
        PROVE  /\ Calls(op, args)[i] = [op |-> op, arg |-> args[i]]
               /\ Calls(op, args)[i] \in AnyCall
               /\ DualCall(Calls(op, args)[i], Calls(op, args)[i]) /\ Plain(Calls(op, args)[i])
    <3>1. Calls(op, args)[i] = [op |-> op, arg |-> args[i]] /\ args[i] \in Nat
      BY <2>1 DEF Calls
    <3>2. DualCall(Calls(op, args)[i], Calls(op, args)[i]) /\ Plain(Calls(op, args)[i])
      BY <3>1, EvenCall
    <3>3. Calls(op, args)[i] \in AnyCall
      BY <3>2 DEF DualCall
    <3> QED BY <3>1, <3>2, <3>3
  <2>3. Calls(op, args) \in [1..Len(args) -> AnyCall]
    BY <2>1, <2>2 DEF Calls
  <2>4. Calls(op, args) \in Seq(AnyCall) /\ Len(Calls(op, args)) = Len(args)
    BY <2>1, <2>3, SeqDef
  <2> QED BY <2>2, <2>4 DEF Dual
<1>3. ASSUME NEW arg \in Party
      PROVE  Dual(Call("process_inputs", arg), Call("process_inputs", arg))
  <2> DEFINE c == [op |-> "process_inputs", arg |-> arg]
  <2>1. c \in AnyCall
    BY DEF AnyCall, QuietCall, InnerCall
  <2>2. DualCall(c, c) /\ Plain(c)
    BY <2>1 DEF DualCall, Plain
  <2> HIDE DEF c
  <2>3. Dual(<<c>>, <<c>>)
    BY <2>2, DualOne
  <2> QED BY <2>3 DEF Call, c
<1>4. ASSUME NEW arg \in Nat PROVE Dual(Call("garble", arg), Call("evaluate", arg))
  <2> DEFINE c == [op |-> "garble", arg |-> arg]
             d == [op |-> "evaluate", arg |-> arg]
  <2>1. c \in AnyCall /\ d \in AnyCall
    BY DEF AnyCall, QuietCall, InnerCall, InnerOp
  <2>2. DualCall(c, d) /\ Plain(c)
    BY <2>1 DEF DualCall, Plain
  <2> HIDE DEF c, d
  <2>3. Dual(<<c>>, <<d>>)
    BY <2>2, DualOne
  <2> QED BY <2>3 DEF Call, c, d
<1> QED BY <1>1, <1>2, <1>3, <1>4

\* What a loop repeats.
LEMMA TimesParts ==
    ASSUME NEW S, NEW n \in Int, NEW seq \in Seq(S)
    PROVE  /\ Times(n, seq) \in Seq(S)
           /\ \A t2 \in Seq(S) : Len(t2) = Len(seq) => Len(Times(n, t2)) = Len(Times(n, seq))
           /\ \A i \in 1..Len(Times(n, seq)) :
                 \E k \in 1..Len(seq) : \A t2 \in Seq(S) :
                     Len(t2) = Len(seq) => Times(n, t2)[i] = t2[k]
<1>1. Times(n, seq) \in Seq(S)
  BY TimesType
<1>2. ASSUME NEW t2 \in Seq(S), Len(t2) = Len(seq)
      PROVE  Times(n, t2) \in Seq(S) /\ DOMAIN Times(n, t2) = 1..(n * Len(seq))
  BY <1>2, TimesType DEF Times
<1>3. DOMAIN Times(n, seq) = 1..(n * Len(seq))
  BY DEF Times
<1>4. ASSUME NEW t2 \in Seq(S), Len(t2) = Len(seq)
      PROVE  Len(Times(n, t2)) = Len(Times(n, seq))
  BY <1>1, <1>2, <1>3, <1>4
<1>5. ASSUME NEW i \in 1..Len(Times(n, seq))
      PROVE  \E k \in 1..Len(seq) : \A t2 \in Seq(S) :
                     Len(t2) = Len(seq) => Times(n, t2)[i] = t2[k]
  <2> DEFINE k == ((i - 1) % Len(seq)) + 1
             m == n * Len(seq)
  <2>1. Len(seq) \in Nat /\ m \in Int /\ i \in 1..m
    BY <1>1, <1>3
  <2>2. Len(seq) # 0
    BY <2>1
  <2>3. k \in 1..Len(seq)
    BY <2>1, <2>2
  <2>4. ASSUME NEW t2 \in Seq(S), Len(t2) = Len(seq) PROVE Times(n, t2)[i] = t2[k]
    BY <2>1, <2>4 DEF Times
  <2> HIDE DEF k
  <2> QED BY <2>3, <2>4
<1> QED BY <1>1, <1>4, <1>5

LEMMA DualTimes ==
    ASSUME NEW n \in Int
    PROVE  /\ \A X, Y : Dual(X, Y) => Dual(Times(n, X), Times(n, Y))
           /\ \A s \in Stream : \A a, b :
                 DualBranch(s, a, b) => DualBranch(s, Times(n, a), Times(n, b))
<1>1. ASSUME NEW X, NEW Y, Dual(X, Y) PROVE Dual(Times(n, X), Times(n, Y))
  <2>1. X \in Seq(AnyCall) /\ Y \in Seq(AnyCall) /\ Len(X) = Len(Y)
    BY <1>1 DEF Dual
  <2>2. Times(n, X) \in Seq(AnyCall) /\ Times(n, Y) \in Seq(AnyCall)
        /\ Len(Times(n, X)) = Len(Times(n, Y))
    BY <2>1, TimesParts
  <2>3. ASSUME NEW i \in 1..Len(Times(n, X))
        PROVE  DualCall(Times(n, X)[i], Times(n, Y)[i]) /\ Plain(Times(n, X)[i])
    <3>1. PICK k \in 1..Len(X) : \A t2 \in Seq(AnyCall) :
                     Len(t2) = Len(X) => Times(n, t2)[i] = t2[k]
      BY <2>1, TimesParts
    <3>2. Times(n, X)[i] = X[k] /\ Times(n, Y)[i] = Y[k]
      BY <2>1, <3>1
    <3> QED BY <3>2, <1>1 DEF Dual
  <2> QED BY <2>2, <2>3 DEF Dual
<1>2. ASSUME NEW s \in Stream, NEW X, NEW Y, DualBranch(s, X, Y)
      PROVE  DualBranch(s, Times(n, X), Times(n, Y))
  <2>1. X \in Seq(Message) /\ Y \in Seq(Message) /\ Len(X) = Len(Y)
    BY <1>2 DEF DualBranch
  <2>2. Times(n, X) \in Seq(Message) /\ Times(n, Y) \in Seq(Message)
        /\ Len(Times(n, X)) = Len(Times(n, Y))
    BY <2>1, TimesParts
  <2>3. ASSUME NEW i \in 1..Len(Times(n, X))
        PROVE  DualMessage(s, Times(n, X)[i], Times(n, Y)[i])
    <3>1. PICK k \in 1..Len(X) : \A t2 \in Seq(Message) :
                     Len(t2) = Len(X) => Times(n, t2)[i] = t2[k]
      BY <2>1, TimesParts
    <3>2. Times(n, X)[i] = X[k] /\ Times(n, Y)[i] = Y[k]
      BY <2>1, <3>1
    <3> QED BY <3>2, <1>2 DEF DualBranch
  <2> QED BY <2>2, <2>3 DEF DualBranch
<1> QED BY <1>1, <1>2

\* Two messages that fit.
LEMMA DualOnes ==
    ASSUME NEW s \in Stream, NEW kind \in PlainKind, NEW n \in Nat \ {0}
    PROVE  /\ DualBranch(s, <<Send(kind, n)>>, <<Recv(kind, n)>>)
           /\ DualBranch(s, <<Recv(kind, n)>>, <<Send(kind, n)>>)
BY DualMessages, DualBranches

LEMMA DualThree ==
    ASSUME NEW s, NEW a, NEW b, NEW c, NEW x, NEW y, NEW z,
           DualMessage(s, a, x), DualMessage(s, b, y), DualMessage(s, c, z)
    PROVE  DualBranch(s, <<a, b, c>>, <<x, y, z>>)
<1>1. /\ a \in Message /\ b \in Message /\ c \in Message
      /\ x \in Message /\ y \in Message /\ z \in Message
  BY DEF DualMessage
<1>2. <<a, b, c>> \in Seq(Message) /\ <<x, y, z>> \in Seq(Message)
      /\ Len(<<a, b, c>>) = 3 /\ Len(<<x, y, z>>) = 3
  BY <1>1
<1>3. ASSUME NEW i \in 1..3 PROVE DualMessage(s, <<a, b, c>>[i], <<x, y, z>>[i])
  <2>1. CASE i = 1
    BY <2>1
  <2>2. CASE i = 2
    BY <2>2
  <2>3. CASE i = 3
    BY <2>3
  <2> QED BY <2>1, <2>2, <2>3
<1> QED BY <1>2, <1>3 DEF DualBranch

LEMMA DualTwo ==
    ASSUME NEW s, NEW a, NEW b, NEW x, NEW y,
           DualMessage(s, a, x), DualMessage(s, b, y)
    PROVE  DualBranch(s, <<a, b>>, <<x, y>>)
<1>1. a \in Message /\ b \in Message /\ x \in Message /\ y \in Message
  BY DEF DualMessage
<1>2. <<a, b>> \in Seq(Message) /\ <<x, y>> \in Seq(Message)
      /\ Len(<<a, b>>) = 2 /\ Len(<<x, y>>) = 2
  BY <1>1
<1>3. ASSUME NEW i \in 1..2 PROVE DualMessage(s, <<a, b>>[i], <<x, y>>[i])
  <2>1. CASE i = 1
    BY <2>1
  <2>2. CASE i = 2
    BY <2>2
  <2> QED BY <2>1, <2>2
<1> QED BY <1>2, <1>3 DEF DualBranch

LEMMA DualFour ==
    ASSUME NEW s, NEW a, NEW b, NEW c, NEW d, NEW x, NEW y, NEW z, NEW w,
           DualMessage(s, a, x), DualMessage(s, b, y), DualMessage(s, c, z), DualMessage(s, d, w)
    PROVE  DualBranch(s, <<a, b, c, d>>, <<x, y, z, w>>)
<1>1. /\ a \in Message /\ b \in Message /\ c \in Message /\ d \in Message
      /\ x \in Message /\ y \in Message /\ z \in Message /\ w \in Message
  BY DEF DualMessage
<1>2. <<a, b, c, d>> \in Seq(Message) /\ <<x, y, z, w>> \in Seq(Message)
      /\ Len(<<a, b, c, d>>) = 4 /\ Len(<<x, y, z, w>>) = 4
  BY <1>1
<1>3. ASSUME NEW i \in 1..4 PROVE DualMessage(s, <<a, b, c, d>>[i], <<x, y, z, w>>[i])
  <2>1. CASE i = 1
    BY <2>1
  <2>2. CASE i = 2
    BY <2>2
  <2>3. CASE i = 3
    BY <2>3
  <2>4. CASE i = 4
    BY <2>4
  <2> QED BY <2>1, <2>2, <2>3, <2>4
<1> QED BY <1>2, <1>3 DEF DualBranch

LEMMA DualBootstrap ==
    ASSUME NEW s \in Stream
    PROVE  /\ DualBranch(s, BootstrapSend, BootstrapRecv)
           /\ DualBranch(s, BootstrapRecv, BootstrapSend)
<1>1. \A k \in {"seed", "points", "z", "chi", "proof", "c0", "c1", "otans", "t_buf", "pprf"} :
          \A n \in {1, BaseOts, ChunkBlocks} :
             DualMessage(s, Send(k, n), Recv(k, n)) /\ DualMessage(s, Recv(k, n), Send(k, n))
  BY DualMessages, Sizes DEF PlainKind, QuietKind
<1>2. \A k \in {"seed", "points", "z", "chi", "proof", "c0", "c1", "otans", "t_buf", "pprf"} :
          \A n \in {1, BaseOts, ChunkBlocks} : Send(k, n) \in Message /\ Recv(k, n) \in Message
  BY <1>1 DEF DualMessage
<1>3. CswRecv \in Seq(Message) /\ CswSend \in Seq(Message) /\ Len(CswRecv) = 8 /\ Len(CswSend) = 8
  BY <1>2 DEF CswRecv, CswSend
<1>4. DualBranch(s, CswRecv, CswSend) /\ DualBranch(s, CswSend, CswRecv)
  <2>1. ASSUME NEW i \in 1..8
        PROVE  DualMessage(s, CswRecv[i], CswSend[i]) /\ DualMessage(s, CswSend[i], CswRecv[i])
    <3>1. i \in {1, 2, 3, 4, 5, 6, 7, 8}
      OBVIOUS
    <3> QED BY <1>1, <3>1 DEF CswRecv, CswSend
  <2> QED BY <1>3, <2>1 DEF DualBranch
<1>5. /\ DualBranch(s, <<Recv("t_buf", ChunkBlocks), Recv("pprf", 1)>>,
                       <<Send("t_buf", ChunkBlocks), Send("pprf", 1)>>)
      /\ DualBranch(s, <<Send("t_buf", ChunkBlocks), Send("pprf", 1)>>,
                       <<Recv("t_buf", ChunkBlocks), Recv("pprf", 1)>>)
  BY <1>1, <1>2 DEF DualBranch
<1> QED BY <1>4, <1>5, DualBranches DEF BootstrapSend, BootstrapRecv

LEMMA DualHandshake ==
    DualBranch("main", SendFrame("start") \o RecvFrame("ack")
                       \o RecvFrame("start") \o SendFrame("ack"),
                       RecvFrame("start") \o SendFrame("ack")
                       \o SendFrame("start") \o RecvFrame("ack"))
<1>1. \A k \in {"length", "start", "ack"} :
             /\ DualMessage("main", Send(k, 1), Recv(k, 1))
             /\ DualMessage("main", Recv(k, 1), Send(k, 1))
  BY DualMessages DEF PlainKind, QuietKind, Stream
<1>2. \A k \in {"length", "start", "ack"} : Send(k, 1) \in Message /\ Recv(k, 1) \in Message
  BY <1>1 DEF DualMessage
<1>3. ASSUME NEW k \in {"start", "ack"}
      PROVE  /\ DualBranch("main", SendFrame(k), RecvFrame(k))
             /\ DualBranch("main", RecvFrame(k), SendFrame(k))
  BY <1>1, <1>2 DEF SendFrame, RecvFrame, DualBranch
<1> QED BY <1>3, DualBranches DEF Stream

LEMMA DualDigest ==
    DualBranch("main", <<Send("circuit", 1), Recv("circuit", 1)>>,
                       <<Recv("circuit", 1), Send("circuit", 1)>>)
<1>1. Send("circuit", 1) \in Message /\ Recv("circuit", 1) \in Message
  BY Messages DEF Kind, QuietKind
<1>2. DualMessage("main", Send("circuit", 1), Recv("circuit", 1))
      /\ DualMessage("main", Recv("circuit", 1), Send("circuit", 1))
  BY <1>1 DEF DualMessage, Send, Recv
<1> QED BY <1>1, <1>2 DEF DualBranch

LEMMA DualTarget ==
    DualBranch("main", <<Send("target", 1)>>, <<Recv("target", 1)>>)
<1>1. Send("target", 1) \in Message /\ Recv("target", 1) \in Message
  BY Messages DEF Kind, QuietKind
<1>2. DualMessage("main", Send("target", 1), Recv("target", 1))
  BY <1>1 DEF DualMessage, Send, Recv
<1> QED BY <1>2, DualBranches DEF Stream

LEMMA DualDraws ==
    /\ \A n \in Nat \ {0} :
          /\ DualBranch("main", <<Send("d", n)>>, <<Recv("d", n)>>)
          /\ DualBranch("sibling", <<Recv("d", n)>>, <<Send("d", n)>>)
    /\ DualBranch("main", <<Send("d", 1), Send("x", 1), Send("t", 1)>>,
                          <<Recv("d", 1), Recv("x", 1), Recv("t", 1)>>)
    /\ DualBranch("sibling", <<Recv("d", 1), Recv("x", 1), Recv("t", 1)>>,
                             <<Send("d", 1), Send("x", 1), Send("t", 1)>>)
<1>1. \A k \in {"d", "x", "t"}, n \in Nat \ {0} : Send(k, n) \in Message /\ Recv(k, n) \in Message
  BY Messages DEF Kind, QuietKind
<1>2. ASSUME NEW k \in {"d", "x", "t"}, NEW n \in Nat \ {0}
      PROVE  DualMessage("main", Send(k, n), Recv(k, n))
             /\ DualMessage("sibling", Recv(k, n), Send(k, n))
  BY <1>1 DEF DualMessage, Send, Recv
<1>3. 1 \in Nat \ {0}
  OBVIOUS
<1>4. ASSUME NEW n \in Nat \ {0}
      PROVE  /\ DualBranch("main", <<Send("d", n)>>, <<Recv("d", n)>>)
             /\ DualBranch("sibling", <<Recv("d", n)>>, <<Send("d", n)>>)
  BY <1>2, DualBranches DEF Stream
<1>5. /\ DualBranch("main", <<Send("d", 1), Send("x", 1), Send("t", 1)>>,
                          <<Recv("d", 1), Recv("x", 1), Recv("t", 1)>>)
      /\ DualBranch("sibling", <<Recv("d", 1), Recv("x", 1), Recv("t", 1)>>,
                             <<Send("d", 1), Send("x", 1), Send("t", 1)>>)
  <2>1. /\ DualMessage("main", Send("x", 1), Recv("x", 1))
        /\ DualMessage("main", Send("d", 1), Recv("d", 1))
        /\ DualMessage("main", Send("t", 1), Recv("t", 1))
        /\ DualMessage("sibling", Recv("x", 1), Send("x", 1))
        /\ DualMessage("sibling", Recv("d", 1), Send("d", 1))
        /\ DualMessage("sibling", Recv("t", 1), Send("t", 1))
    BY <1>2, <1>3
  <2> QED BY <2>1, DualThree
<1> QED BY <1>4, <1>5

\* Each sends the other one message of a kind.
LEMMA DualSwap ==
    ASSUME NEW kind \in PlainKind, NEW n \in Nat \ {0}
    PROVE  Dual(Exchange("Alice", <<Send(kind, n)>>, <<Recv(kind, n)>>),
                Exchange("Bob", <<Send(kind, n)>>, <<Recv(kind, n)>>))
<1>1. DualBranch("main", <<Send(kind, n)>>, <<Recv(kind, n)>>)
      /\ DualBranch("sibling", <<Recv(kind, n)>>, <<Send(kind, n)>>)
  BY DualOnes DEF Stream
<1> QED BY <1>1, DualMeets

LEMMA DualTriples ==
    ASSUME NEW l \in Nat \ {0}, NEW ssp \in Nat
    PROVE  /\ Dual(LeakyAndHalfgate("Alice", l), LeakyAndHalfgate("Bob", l))
           /\ Dual(LayeredBucket("Alice", l, ssp), LayeredBucket("Bob", l, ssp))
<1>0. BoolWireLen(l) \in Nat \ {0}
  BY Counts
<1>1. \A k \in {"w", "s", "shift"} : \A n \in {l, BoolWireLen(l)} :
          Dual(Exchange("Alice", <<Send(k, n)>>, <<Recv(k, n)>>),
               Exchange("Bob", <<Send(k, n)>>, <<Recv(k, n)>>))
  BY <1>0, DualSwap DEF PlainKind, QuietKind
<1>2. Dual(LeakyAndHalfgate("Alice", l), LeakyAndHalfgate("Bob", l))
  BY <1>1, DualSequences DEF LeakyAndHalfgate
<1>3. Dual(Call("gen_cot", 3 * l), Call("gen_cot", 3 * l)) /\ Dual(Call("coin", 0), Call("coin", 0))
  <2>1. 3 * l \in Nat /\ 0 \in Nat /\ {"gen_cot", "coin"} \subseteq EvenOp
    BY DEF EvenOp
  <2> QED BY <2>1, DualCalls
<1> DEFINE X(p) == Call("gen_cot", 3 * l) \o LeakyAndHalfgate(p, l) \o Call("coin", 0)
                   \o Exchange(p, <<Send("shift", BoolWireLen(l))>>,
                                  <<Recv("shift", BoolWireLen(l))>>)
<1>4. Dual(X("Alice"), X("Bob"))
  BY <1>1, <1>2, <1>3, DualSequences
<1>5. GetBucketSize(ssp) - 1 \in Int
  BY BucketSize
<1>6. LayeredBucket("Alice", l, ssp) = Times(GetBucketSize(ssp) - 1, X("Alice"))
      /\ LayeredBucket("Bob", l, ssp) = Times(GetBucketSize(ssp) - 1, X("Bob"))
  BY DEF LayeredBucket
<1> HIDE DEF X
<1>7. Dual(LayeredBucket("Alice", l, ssp), LayeredBucket("Bob", l, ssp))
  BY <1>4, <1>5, <1>6, DualTimes
<1> QED BY <1>2, <1>7

LEMMA DualFeq == Dual(FeqCheck("Alice"), FeqCheck("Bob"))
<1>1. \A k \in {"commit", "feq", "nonce"} :
             /\ DualMessage("main", Send(k, 1), Recv(k, 1))
             /\ DualMessage("main", Recv(k, 1), Send(k, 1))
  BY DualMessages DEF PlainKind, QuietKind, Stream
<1>4. DualBranch("main", <<Send("commit", 1), Recv("feq", 1), Send("feq", 1), Send("nonce", 1)>>,
                         <<Recv("commit", 1), Send("feq", 1), Recv("feq", 1), Recv("nonce", 1)>>)
  BY <1>1, DualFour
<1>5. Dual(OnMain(<<Send("commit", 1), Recv("feq", 1), Send("feq", 1), Send("nonce", 1)>>),
           OnMain(<<Recv("commit", 1), Send("feq", 1), Recv("feq", 1), Recv("nonce", 1)>>))
  BY <1>4, DualMeets
<1> QED BY <1>5 DEF FeqCheck

\* The preprocessing of both parties fits, for every number of triples: bucket
\* layers and chunks are counted alike (triple_pool.rs, session.rs).
LEMMA DualCompute ==
    ASSUME NEW l \in Nat \ {0}
    PROVE  Dual(ComputeCalls("Alice", l), ComputeCalls("Bob", l))
<1> DEFINE n == BoolWireLen(l)
<1>1. n \in Nat \ {0}
  BY Counts
<1> HIDE DEF n
<1>2. \A s \in Stream : \A k \in {"open_a", "open_b"} :
          DualMessage(s, Send(k, n), Recv(k, n)) /\ DualMessage(s, Recv(k, n), Send(k, n))
  BY <1>1, DualMessages DEF PlainKind, QuietKind
<1>5. /\ DualBranch("main", <<Send("open_a", n), Send("open_b", n)>>,
                            <<Recv("open_a", n), Recv("open_b", n)>>)
      /\ DualBranch("sibling", <<Recv("open_a", n), Recv("open_b", n)>>,
                            <<Send("open_a", n), Send("open_b", n)>>)
  BY <1>2, DualTwo DEF Stream
<1>6. Dual(Exchange("Alice", <<Send("open_a", n), Send("open_b", n)>>,
                             <<Recv("open_a", n), Recv("open_b", n)>>),
           Exchange("Bob", <<Send("open_a", n), Send("open_b", n)>>,
                           <<Recv("open_a", n), Recv("open_b", n)>>))
  BY <1>5, DualMeets
<1>7. Dual(Call("gen_cot", l), Call("gen_cot", l))
  BY DualCalls DEF EvenOp
<1>8. Ssp \in Nat
  BY SizesArePositive
<1> QED BY <1>6, <1>7, <1>8, DualTriples, DualFeq, DualSequences DEF ComputeCalls, n

\* Inputs of both parties fit, whatever their number (program.rs).
LEMMA DualInputs ==
    ASSUME NEW n \in Party
    PROVE  Dual(InputCalls("Alice", n), InputCalls("Bob", n))
<1> DEFINE v == ValueBits
<1>1. v \in Nat \ {0}
  BY Sizes
<1> HIDE DEF v
<1>2. \A s \in Stream : \A k \in {"share", "mac", "masked", "labels"}, m \in {1, v} :
          /\ DualBranch(s, <<Send(k, m)>>, <<Recv(k, m)>>)
          /\ DualBranch(s, <<Recv(k, m)>>, <<Send(k, m)>>)
  BY <1>1, DualOnes DEF PlainKind, QuietKind
<1>3. \A s \in Stream : \A k \in {"share", "mac"}, m \in {1, v} :
          DualMessage(s, Send(k, m), Recv(k, m)) /\ DualMessage(s, Recv(k, m), Send(k, m))
  BY <1>1, DualMessages DEF PlainKind, QuietKind
<1>4. \A s \in Stream : /\ DualBranch(s, <<Send("share", v), Send("mac", 1)>>,
                                         <<Recv("share", v), Recv("mac", 1)>>)
                        /\ DualBranch(s, <<Recv("share", v), Recv("mac", 1)>>,
                                         <<Send("share", v), Send("mac", 1)>>)
  BY <1>3, DualTwo
<1> DEFINE snd == <<Send("share", v), Send("mac", 1)>>
           rcv == <<Recv("share", v), Recv("mac", 1)>>
           out(p) == snd \o IF n = p THEN <<Send("masked", v)>> ELSE <<>>
           in(p)  == rcv \o IF n = p THEN <<>> ELSE <<Recv("masked", v)>>
<1>5. DualBranch("main", snd, rcv) /\ DualBranch("sibling", rcv, snd)
  BY <1>4 DEF Stream
<1> HIDE DEF snd, rcv
<1>6. DualBranch("main", out("Alice"), in("Bob"))
  <2>1. CASE n = "Alice"
    <3>1. out("Alice") = snd \o <<Send("masked", v)>> /\ in("Bob") = rcv \o <<Recv("masked", v)>>
      BY <2>1
    <3>2. DualBranch("main", <<Send("masked", v)>>, <<Recv("masked", v)>>)
      BY <1>2 DEF Stream
    <3> QED BY <3>1, <3>2, <1>5, DualBranches DEF Stream
  <2>2. CASE n = "Bob"
    <3>1. out("Alice") = snd \o <<>> /\ in("Bob") = rcv \o <<>>
      BY <2>2
    <3> QED BY <3>1, <1>5, DualBranches DEF Stream
  <2> QED BY <2>1, <2>2 DEF Party
<1>7. DualBranch("sibling", in("Alice"), out("Bob"))
  <2>1. CASE n = "Bob"
    <3>1. in("Alice") = rcv \o <<Recv("masked", v)>> /\ out("Bob") = snd \o <<Send("masked", v)>>
      BY <2>1
    <3>2. DualBranch("sibling", <<Recv("masked", v)>>, <<Send("masked", v)>>)
      BY <1>2 DEF Stream
    <3> QED BY <3>1, <3>2, <1>5, DualBranches DEF Stream
  <2>2. CASE n = "Alice"
    <3>1. in("Alice") = rcv \o <<>> /\ out("Bob") = snd \o <<>>
      BY <2>2
    <3> QED BY <3>1, <1>5, DualBranches DEF Stream
  <2> QED BY <2>1, <2>2 DEF Party
<1> HIDE DEF out, in
<1>8. Dual(Exchange("Alice", out("Alice"), in("Alice")), Exchange("Bob", out("Bob"), in("Bob")))
  BY <1>6, <1>7, DualMeets
<1>9. Dual(OnMain(<<Send("labels", v)>>), OnMain(<<Recv("labels", v)>>))
  BY <1>2, DualMeets DEF Stream
<1>10. Dual(Call("gen_cot", v), Call("gen_cot", v))
  BY <1>1, DualCalls DEF EvenOp
<1>11. InputCalls("Alice", n) = Call("gen_cot", v) \o Exchange("Alice", out("Alice"), in("Alice"))
                                \o OnMain(<<Send("labels", v)>>)
       /\ InputCalls("Bob", n) = Call("gen_cot", v) \o Exchange("Bob", out("Bob"), in("Bob"))
                                \o OnMain(<<Recv("labels", v)>>)
  BY DEF InputCalls, out, in, snd, rcv, v
<1> QED BY <1>8, <1>9, <1>10, <1>11, DualSequences

\* The chunks the garbler sends are those the evaluator receives.
LEMMA DualGarble ==
    ASSUME NEW ands \in Nat
    PROVE  Dual(OnMain(GarblerPath(ands)), OnMain(EvaluatorPath(ands)))
<1> DEFINE m == 2 * CeilDiv(ands, GarbleChunk)
           a == GarbleChunks("send", ands)
           b == GarbleChunks("recv", ands)
<1>1. GarblerPath(ands) \in Seq(Message) /\ EvaluatorPath(ands) \in Seq(Message)
  BY GarbleBodies, Messages
<1>2. a \in Seq(QuietMessage) /\ b \in Seq(QuietMessage)
  BY GarbleChunkBodies
<1>3. DOMAIN a = 1..m /\ DOMAIN b = 1..m
  BY DEF GarbleChunks
<1>4. ASSUME NEW i \in 1..m
      PROVE  a[i].kind \in {"g", "b"} /\ a[i].kind = b[i].kind /\ a[i].n = b[i].n
             /\ a[i].dir = "send" /\ b[i].dir = "recv"
  BY DEF GarbleChunks
<1> HIDE DEF a, b, m
<1>5. a \in Seq(Message) /\ b \in Seq(Message) /\ Len(a) = Len(b)
  BY <1>2, <1>3, Messages
<1>6. ASSUME NEW i \in 1..Len(a) PROVE DualMessage("main", a[i], b[i])
  <2>0. DOMAIN a = 1..Len(a)
    BY <1>5
  <2>1. i \in 1..m
    BY <1>3, <2>0, Zenon
  <2>2. a[i] \in Message /\ b[i] \in Message
    BY <1>5
  <2> QED BY <2>1, <2>2, <1>4 DEF DualMessage
<1>7. DualBranch("main", a, b)
  BY <1>5, <1>6 DEF DualBranch
<1>8. CASE ands > 0
  <2>0. BoolWireLen(ands) \in Nat \ {0}
    BY <1>8, Counts
  <2>1. /\ DualMessage("main", Recv("lambda", BoolWireLen(ands)), Send("lambda", BoolWireLen(ands)))
        /\ DualMessage("main", Send("gamma", 1), Recv("gamma", 1))
    BY <2>0, DualMessages DEF PlainKind, QuietKind, Stream
  <2>4. DualBranch("main", <<Recv("lambda", BoolWireLen(ands)), Send("gamma", 1)>>,
                           <<Send("lambda", BoolWireLen(ands)), Recv("gamma", 1)>>)
    BY <2>1, DualTwo
  <2>5. DualBranch("main", GarblerPath(ands), EvaluatorPath(ands))
    BY <1>7, <2>4, <1>8, DualBranches DEF GarblerPath, EvaluatorPath, a, b, Stream
  <2> QED BY <2>5, DualMeets
<1>9. CASE ~(ands > 0)
  <2>5. DualBranch("main", GarblerPath(ands), EvaluatorPath(ands))
    BY <1>7, <1>9, DualBranches DEF GarblerPath, EvaluatorPath, a, b, Stream
  <2> QED BY <2>5, DualMeets
<1> QED BY <1>8, <1>9

LEMMA DualProgram ==
    ASSUME NEW n \in Nat
    PROVE  Dual(ProgramCalls("Alice", n), ProgramCalls("Bob", n))
<1>1. CeilDiv(n, MaskBatch) \in Int
  BY Counts, Sizes
<1>2. Dual(Call("gen_cot", MaskBatch), Call("gen_cot", MaskBatch))
      /\ Dual(Call("compute", n), Call("compute", n))
      /\ Dual(Call("coin", 0), Call("coin", 0))
      /\ Dual(Call("maybe_flush", 0), Call("maybe_flush", 0))
  <2>1. MaskBatch \in Nat /\ 0 \in Nat /\ {"gen_cot", "compute", "coin", "maybe_flush"} \subseteq EvenOp
    BY Sizes DEF EvenOp
  <2> QED BY <2>1, DualCalls
<1>3. Dual(Times(CeilDiv(n, MaskBatch), Call("gen_cot", MaskBatch)),
           Times(CeilDiv(n, MaskBatch), Call("gen_cot", MaskBatch)))
  BY <1>1, <1>2, DualTimes
<1>4. Dual(Call("garble", n), Call("evaluate", n))
  BY DualCalls
<1> QED BY <1>2, <1>3, <1>4, DualSequences DEF ProgramCalls

LEMMA DualDecode ==
    Dual(OnMain(<<Send("share", ValueBits), Send("mac", 1), Recv("bits", ValueBits)>>),
         OnMain(<<Recv("share", ValueBits), Recv("mac", 1), Send("bits", ValueBits)>>))
<1>1. DualMessage("main", Send("share", ValueBits), Recv("share", ValueBits))
      /\ DualMessage("main", Send("mac", 1), Recv("mac", 1))
      /\ DualMessage("main", Recv("bits", ValueBits), Send("bits", ValueBits))
  BY DualMessages, Sizes DEF PlainKind, QuietKind, Stream
<1> QED BY <1>1, DualThree, DualMeets

-----------------------------------------------------------------------------
(* A stream through a join.                                                *)

LEMMA TwoParties ==
    /\ \A p \in Party : Peer(p) \in Party /\ Peer(p) # p /\ Peer(Peer(p)) = p
    /\ \A p, q \in Party : q = p \/ q = Peer(p)
    /\ \A m : Sender(m) \in Party
BY DEF Party, Peer, Sender

LEMMA CarriesType ==
    ASSUME NEW par \in [Party -> Param], NEW coins \in Seq(Digest \X Digest),
           NEW e \in StreamState, NEW p \in Party, NEW kind
    PROVE  Carries(par, coins, e, p, kind) \in Val
<1>1. e.got[p] \in Val /\ e.chk \in Val /\ coins \in Val /\ par[p] \in Val /\ <<>> \in Val
  BY DEF StreamState, Val
<1> QED BY <1>1 DEF Carries

\* The streams of a state in lockstep.
Streams(z) ==
    /\ z.on \in BOOLEAN /\ z.coins \in Seq(Digest \X Digest)
    /\ z.str \in [Stream -> StreamState]
    /\ \A s \in Stream : Messages1(z, s) \in Seq(Message)

LEMMA PassedFacts ==
    ASSUME NEW par \in [Party -> Param], NEW z, Streams(z),
           NEW e \in StreamState, NEW m \in Message
    PROVE  LET p == Sender(m)
               x == Passed(par, z, e, m)
           IN  /\ x \in StreamState
               /\ x.tot[p] = e.tot[p] + m.n /\ x.tot[Peer(p)] = e.tot[Peer(p)]
               /\ x.cnt[p] = e.cnt[p] + (IF z.on THEN m.n ELSE 0)
               /\ x.cnt[Peer(p)] = e.cnt[Peer(p)]
               /\ x.chk = IF m.kind = "d" THEN Append(e.chk, Counted(x)) ELSE e.chk
               /\ x.got[p] = e.got[p]
               /\ x.got[Peer(p)] = IF m.kind \in {"circuit", "target"}
                                   THEN Carries(par, z.coins, e, p, m.kind)
                                   ELSE e.got[Peer(p)]
<1> DEFINE p == Sender(m)
           q == Peer(p)
           v == Carries(par, z.coins, e, p, m.kind)
           cnt == IF z.on THEN [e.cnt EXCEPT ![p] = @ + m.n] ELSE e.cnt
           x == Passed(par, z, e, m)
           tot == [e.tot EXCEPT ![p] = @ + m.n]
           got == IF m.kind \in {"circuit", "target"} THEN [e.got EXCEPT ![q] = v] ELSE e.got
           chk == IF m.kind = "d" THEN Append(e.chk, <<cnt["Alice"], cnt["Bob"]>>) ELSE e.chk
<1>1. p \in Party /\ q \in Party /\ q # p /\ "Alice" \in Party /\ "Bob" \in Party
  BY TwoParties DEF Party
<1>2. z.on \in BOOLEAN /\ v \in Val
  BY <1>1, CarriesType DEF Streams
<1>3. e.cnt \in [Party -> Int] /\ e.tot \in [Party -> Int] /\ e.got \in [Party -> Val]
      /\ e.chk \in Seq(Digest) /\ m.n \in Nat
  BY DEF StreamState, Message
<1>4. x = [cnt |-> cnt, chk |-> chk, tot |-> tot, got |-> got]
  BY DEF Passed
<1> HIDE DEF p, v, x
<1>5. cnt \in [Party -> Int] /\ cnt[p] = e.cnt[p] + (IF z.on THEN m.n ELSE 0) /\ cnt[q] = e.cnt[q]
  <2>1. CASE z.on
    BY <2>1, <1>1, <1>3
  <2>2. CASE ~z.on
    BY <2>2, <1>1, <1>3
  <2> QED BY <2>1, <2>2
<1>6. tot \in [Party -> Int] /\ tot[p] = e.tot[p] + m.n /\ tot[q] = e.tot[q]
  BY <1>1, <1>3
<1>7. got \in [Party -> Val] /\ got[p] = e.got[p]
      /\ got[q] = IF m.kind \in {"circuit", "target"} THEN v ELSE e.got[q]
  BY <1>1, <1>2, <1>3
<1> HIDE DEF cnt, tot, got
<1>8. chk \in Seq(Digest)
  BY <1>1, <1>3, <1>5 DEF Digest
<1>9. x.cnt = cnt /\ x.tot = tot /\ x.got = got /\ x.chk = chk
  BY <1>4
<1>10. x \in StreamState
  BY <1>4, <1>5, <1>6, <1>7, <1>8 DEF StreamState
<1>11. x.chk = IF m.kind = "d" THEN Append(e.chk, Counted(x)) ELSE e.chk
  BY <1>9 DEF Counted
<1> QED BY <1>5, <1>6, <1>7, <1>9, <1>10, <1>11 DEF p, x, v

\* A stream has a state after every number of messages.
LEMMA BranchIs ==
    ASSUME NEW par \in [Party -> Param], NEW z, Streams(z), NEW s \in Stream
    PROVE  IsBranch(par, z, s, Branch(par, z, s))
<1> DEFINE M == Messages1(z, s)
           F == [n \in Nat |-> [e \in StreamState |->
                    IF n < Len(M) THEN Passed(par, z, e, M[n + 1]) ELSE e]]
<1>1. M \in Seq(Message) /\ z.str[s] \in StreamState
  BY DEF Streams
<1> HIDE DEF M
<1>2. ASSUME NEW n \in Nat, NEW e \in StreamState
      PROVE  (IF n < Len(M) THEN Passed(par, z, e, M[n + 1]) ELSE e) \in StreamState
  <2>1. CASE n < Len(M)
    <3>1. M[n + 1] \in Message
      BY <2>1, <1>1
    <3>2. Passed(par, z, e, M[n + 1]) \in StreamState
      BY <3>1, PassedFacts
    <3> QED BY <3>2, <2>1
  <2>2. CASE ~(n < Len(M))
    BY <2>2
  <2> QED BY <2>1, <2>2
<1>3. F \in [Nat -> [StreamState -> StreamState]]
  BY <1>2
<1>4. \A n \in Nat, e \in StreamState :
          F[n][e] = IF n < Len(M) THEN Passed(par, z, e, M[n + 1]) ELSE e
  OBVIOUS
<1> HIDE DEF F
<1>5. PICK f \in [Nat -> StreamState] :
          f[0] = z.str[s] /\ \A n \in Nat : f[n + 1] = F[n][f[n]]
  <2> DEFINE e == z.str[s]
  <2>1. e \in StreamState
    BY <1>1
  <2> HIDE DEF e
  <2>2. \E f : Iterates(StreamState, e, F, f)
    BY <2>1, <1>3, Recursion
  <2> QED BY <2>2 DEF e, Iterates
<1>6. IsBranch(par, z, s, f)
  BY <1>4, <1>5 DEF IsBranch, M
<1> QED BY <1>6 DEF Branch

\* A branch, message by message.
LEMMA BranchStep ==
    ASSUME NEW par \in [Party -> Param], NEW z, Streams(z), NEW s \in Stream
    PROVE  /\ Branch(par, z, s) \in [Nat -> StreamState]
           /\ Branch(par, z, s)[0] = z.str[s]
           /\ \A n \in Nat : n < Len(Messages1(z, s)) =>
                 /\ Messages1(z, s)[n + 1] \in Message
                 /\ Branch(par, z, s)[n + 1]
                       = Passed(par, z, Branch(par, z, s)[n], Messages1(z, s)[n + 1])
<1>1. Messages1(z, s) \in Seq(Message)
  BY DEF Streams
<1>2. \A n \in Nat : n < Len(Messages1(z, s)) => Messages1(z, s)[n + 1] \in Message
  BY <1>1
<1> QED BY <1>2, BranchIs DEF IsBranch

\* Words are only added to a stream.
LEMMA BranchGrows ==
    ASSUME NEW par \in [Party -> Param], NEW z, Streams(z), NEW s \in Stream, NEW p \in Party,
           NEW i \in Nat
    PROVE  \A j \in Nat : i <= j => Branch(par, z, s)[i].tot[p] <= Branch(par, z, s)[j].tot[p]
<1> DEFINE f == Branch(par, z, s)
           D == {j \in Nat : i <= j => f[i].tot[p] <= f[j].tot[p]}
<1>0. \A n \in Nat : f[n] \in StreamState /\ f[n].tot[p] \in Int
  <2>1. f \in [Nat -> StreamState]
    BY BranchIs DEF IsBranch
  <2> HIDE DEF f
  <2> QED BY <2>1 DEF StreamState
<1>1. ASSUME NEW n \in Nat PROVE f[n].tot[p] <= f[n + 1].tot[p]
  <2>1. CASE n < Len(Messages1(z, s))
    <3> DEFINE m == Messages1(z, s)[n + 1]
    <3>1. m \in Message /\ f[n + 1] = Passed(par, z, f[n], m)
      BY <2>1, BranchStep
    <3> HIDE DEF f, m
    <3>2. /\ f[n + 1].tot[Sender(m)] = f[n].tot[Sender(m)] + m.n
          /\ f[n + 1].tot[Peer(Sender(m))] = f[n].tot[Peer(Sender(m))]
      BY <3>1, <1>0, PassedFacts
    <3>3. m.n \in Nat
      BY <3>1 DEF Message
    <3>4. p = Sender(m) \/ p = Peer(Sender(m))
      BY TwoParties
    <3> QED BY <3>2, <3>3, <3>4, <1>0
  <2>2. CASE ~(n < Len(Messages1(z, s)))
    <3>1. f[n + 1] = f[n]
      BY <2>2, BranchIs DEF IsBranch
    <3> HIDE DEF f
    <3> QED BY <3>1, <1>0
  <2> QED BY <2>1, <2>2
<1> HIDE DEF f
<1>2. 0 \in D
  <2>1. i <= 0 => i = 0
    OBVIOUS
  <2> QED BY <2>1, <1>0
<1>3. ASSUME NEW n \in Nat, n \in D PROVE n + 1 \in D
  <2>1. CASE i <= n
    <3>1. f[i].tot[p] <= f[n].tot[p] /\ f[n].tot[p] <= f[n + 1].tot[p]
      BY <2>1, <1>3, <1>1
    <3>2. f[i].tot[p] \in Int /\ f[n].tot[p] \in Int /\ f[n + 1].tot[p] \in Int
      BY <1>0
    <3> QED BY <3>1, <3>2
  <2>2. CASE ~(i <= n)
    <3>1. i <= n + 1 => i = n + 1
      BY <2>2
    <3> QED BY <3>1, <1>0
  <2> QED BY <2>1, <2>2
<1> HIDE DEF D
<1>4. Nat \subseteq D
  BY <1>2, <1>3, NatInd
<1> QED BY <1>4 DEF D, f

\* The arguments of calls.
LEMMA CallArgs ==
    ASSUME NEW c \in AnyCall
    PROVE  /\ c.op = "join" => c.main \in Seq(Message) /\ c.sibling \in Seq(Message)
           /\ c.op = "process_inputs" => c.arg \in Party
           /\ c.op \notin {"join", "process_inputs"} => c.arg \in Nat
           /\ c.op \in {"join", "process_inputs", "end_abits"} \cup InnerOp \cup OuterOp
<1>1. CASE c \in [op : InnerOp, arg : Nat]
  BY <1>1 DEF InnerOp
<1>2. CASE c \in [op : {"process_inputs"}, arg : Party]
  BY <1>2
<1>3. CASE c \in QuietJoin
  BY <1>3, Messages DEF QuietJoin
<1>4. CASE c \in [op : OuterOp, arg : Nat]
  BY <1>4 DEF OuterOp
<1>5. CASE c \in [op : {"end_abits"}, arg : Nat]
  BY <1>5
<1>6. CASE c \in [op : {"join"}, main : Seq(Message), sibling : Seq(Message)]
  BY <1>6
<1> QED BY <1>1, <1>2, <1>3, <1>4, <1>5, <1>6 DEF AnyCall, QuietCall, InnerCall, NoisyCall

\* Calls of the two parties that fit.
LEMMA Duals ==
    ASSUME NEW a, NEW b, DualCall(a, b)
    PROVE  /\ a \in AnyCall /\ b \in AnyCall
           /\ a.op \notin {"request", "serve", "evaluate"}
           /\ a.op = "join" => b.op = "join" /\ DualJoin(a, b)
           /\ a.op = "garble" => b = [op |-> "evaluate", arg |-> a.arg]
           /\ a.op \notin {"join", "garble"} => b = a
BY Zenon DEF DualCall

LEMMA LockTypes ==
    ASSUME NEW z \in LockState
    PROVE  /\ z.todo["Alice"] \in Seq(AnyCall) /\ z.todo["Bob"] \in Seq(AnyCall)
           /\ z.minted \in BOOLEAN /\ z.setup \in BOOLEAN /\ z.left \in Int
           /\ z.coins \in Seq(Digest \X Digest) /\ z.on \in BOOLEAN
           /\ z.str \in [Stream -> StreamState]
BY DEF LockState, Party

\* The first calls of two stacks.
LEMMA Heads ==
    ASSUME NEW j, NEW a, NEW b, DualStacks(j, a, b), a # <<>>
    PROVE  /\ b # <<>> /\ a[1] \in AnyCall /\ b[1] \in AnyCall
           /\ a[1].op # "request" => DualCall(a[1], b[1])
           /\ a[1].op = "request" =>
                 /\ j = "session" /\ a[1].arg \in DOMAIN Targets
                 /\ b = <<[op |-> "serve", arg |-> 0]>>
                 /\ \A i \in 1..Len(a) : a[i].op = "request"
<1> DEFINE n == IF j = "session" THEN Len(b) - 1 ELSE Len(b)
<1>1. /\ a \in Seq(AnyCall) /\ b \in Seq(AnyCall)
      /\ n \in 0..Len(a)
      /\ \A i \in 1..n : DualCall(a[i], b[i])
      /\ \A i \in (n + 1)..Len(a) :
              j = "session" /\ a[i].op = "request" /\ a[i].arg \in DOMAIN Targets
      /\ j = "session" => b[n + 1] = [op |-> "serve", arg |-> 0]
  BY DEF DualStacks
<1>2. Len(b) \in Nat /\ Len(a) \in Nat \ {0} /\ n \in Nat /\ a[1] \in AnyCall
  BY <1>1, EmptySeq
<1>3. n <= Len(b) /\ (j = "session" => Len(b) = n + 1) /\ (j # "session" => Len(b) = n)
  BY <1>2
<1> HIDE DEF n
<1>4. CASE n > 0
  <2>1. 1 \in 1..n /\ b # <<>> /\ b[1] \in AnyCall
    BY <1>1, <1>2, <1>3, <1>4
  <2>2. DualCall(a[1], b[1])
    BY <1>1, <2>1
  <2>3. a[1].op # "request"
    BY <2>2, Duals
  <2> QED BY <2>1, <2>2, <2>3, <1>2
<1>5. CASE n = 0
  <2>1. 1 \in (n + 1)..Len(a) /\ \A i \in 1..Len(a) : i \in (n + 1)..Len(a)
    BY <1>2, <1>5
  <2>2. j = "session" /\ a[1].op = "request" /\ a[1].arg \in DOMAIN Targets
        /\ \A i \in 1..Len(a) : a[i].op = "request"
    BY <1>1, <2>1
  <2>3. Len(b) = 1 /\ b[1] = [op |-> "serve", arg |-> 0]
    BY <2>2, <1>1, <1>3, <1>5
  <2>4. b = <<[op |-> "serve", arg |-> 0]>>
    BY <2>3, <1>1
  <2>5. b[1] \in AnyCall
    <3>1. b \in Seq(AnyCall) /\ 1 \in 1..Len(b)
      BY <2>3, <1>1
    <3> QED BY <3>1
  <2> QED BY <2>2, <2>4, <2>5, <1>2
<1> QED BY <1>2, <1>4, <1>5

Fitting(X, Y) ==
    /\ X \in Seq(AnyCall) /\ Y \in Seq(AnyCall) /\ Len(X) = Len(Y)
    /\ \A i \in 1..Len(X) : DualCall(X[i], Y[i])

\* Fitting calls in place of the first ones.
LEMMA PushFitting ==
    ASSUME NEW j, NEW a, NEW b, DualStacks(j, a, b), a # <<>>, a[1].op # "request",
           NEW X, NEW Y, Fitting(X, Y)
    PROVE  DualStacks(j, X \o Tail(a), Y \o Tail(b))
<1> DEFINE n == IF j = "session" THEN Len(b) - 1 ELSE Len(b)
           A == X \o Tail(a)
           B == Y \o Tail(b)
           N == IF j = "session" THEN Len(B) - 1 ELSE Len(B)
<1>1. /\ a \in Seq(AnyCall) /\ b \in Seq(AnyCall)
      /\ n \in 0..Len(a)
      /\ \A i \in 1..n : DualCall(a[i], b[i])
      /\ \A i \in (n + 1)..Len(a) :
              j = "session" /\ a[i].op = "request" /\ a[i].arg \in DOMAIN Targets
      /\ j = "session" => b[n + 1] = [op |-> "serve", arg |-> 0]
  BY DEF DualStacks
<1>2. b # <<>> /\ a \in Seq(AnyCall) /\ b \in Seq(AnyCall)
  BY <1>1, Heads
<1>3. X \in Seq(AnyCall) /\ Y \in Seq(AnyCall) /\ Len(X) = Len(Y)
      /\ \A i \in 1..Len(X) : DualCall(X[i], Y[i])
  BY DEF Fitting
<1>4. /\ A \in Seq(AnyCall) /\ Len(a) \in Nat \ {0} /\ Len(X) \in Nat
      /\ Len(A) = Len(X) + Len(a) - 1
      /\ \A i \in 1..Len(X) : A[i] = X[i]
      /\ \A i \in (Len(X) + 1)..(Len(X) + Len(a) - 1) : A[i] = a[i - Len(X) + 1]
  <2>1. X \in Seq(AnyCall) /\ a \in Seq(AnyCall)
    BY <1>2, <1>3
  <2> QED BY <2>1, Pushed
<1>5. /\ B \in Seq(AnyCall) /\ Len(b) \in Nat \ {0}
      /\ Len(B) = Len(X) + Len(b) - 1
      /\ \A i \in 1..Len(X) : B[i] = Y[i]
      /\ \A i \in (Len(X) + 1)..(Len(X) + Len(b) - 1) : B[i] = b[i - Len(X) + 1]
  <2>1. Y \in Seq(AnyCall) /\ Len(X) = Len(Y)
    BY <1>3
  <2> QED BY <2>1, <1>2, Pushed
<1>6. n \in Int /\ n > 0 /\ N = Len(X) + n - 1
      /\ (j = "session" => Len(b) = n + 1) /\ (j # "session" => Len(b) = n)
  <2>1. n \in Int /\ N = Len(X) + n - 1
        /\ (j = "session" => Len(b) = n + 1) /\ (j # "session" => Len(b) = n)
    <3>1. Len(B) \in Int /\ Len(B) = Len(X) + Len(b) - 1 /\ Len(b) \in Nat /\ Len(X) \in Nat
      BY <1>4, <1>5
    <3> HIDE DEF B
    <3>2. CASE j = "session"
      BY <3>1, <3>2
    <3>3. CASE j # "session"
      BY <3>1, <3>3
    <3> QED BY <3>2, <3>3
  <2> HIDE DEF n, N
  <2>2. n # 0
    <3> SUFFICES ASSUME n = 0 PROVE FALSE
      OBVIOUS
    <3>1. 1 \in (n + 1)..Len(a)
      BY <1>4
    <3> QED BY <1>1, <3>1
  <2> QED BY <2>1, <2>2, <1>1, <1>4
<1> HIDE DEF n, A, B, N
<1>7. N \in 0..Len(A)
  BY <1>1, <1>4, <1>6
<1>8. ASSUME NEW i \in 1..N PROVE DualCall(A[i], B[i])
  <2>1. CASE i \in 1..Len(X)
    BY <2>1, <1>3, <1>4, <1>5
  <2>2. CASE i \notin 1..Len(X)
    <3> DEFINE k == i - Len(X) + 1
    <3>1. i \in (Len(X) + 1)..(Len(X) + Len(a) - 1) /\ i \in (Len(X) + 1)..(Len(X) + Len(b) - 1)
          /\ k \in 1..n
      BY <2>2, <1>1, <1>4, <1>5, <1>6, SMTT(30)
    <3>2. A[i] = a[k] /\ B[i] = b[k]
      BY <3>1, <1>4, <1>5
    <3> HIDE DEF k
    <3> QED BY <3>1, <3>2, <1>1
  <2> QED BY <2>1, <2>2
<1>9. ASSUME NEW i \in (N + 1)..Len(A)
      PROVE  j = "session" /\ A[i].op = "request" /\ A[i].arg \in DOMAIN Targets
  <2> DEFINE k == i - Len(X) + 1
  <2>1. i \in (Len(X) + 1)..(Len(X) + Len(a) - 1) /\ k \in (n + 1)..Len(a)
    BY <1>1, <1>4, <1>6
  <2>2. A[i] = a[k]
    BY <2>1, <1>4
  <2> HIDE DEF k
  <2> QED BY <2>1, <2>2, <1>1
<1>10. j = "session" => B[N + 1] = [op |-> "serve", arg |-> 0]
  <2> SUFFICES ASSUME j = "session" PROVE B[N + 1] = [op |-> "serve", arg |-> 0]
    OBVIOUS
  <2>1. N + 1 \in (Len(X) + 1)..(Len(X) + Len(b) - 1) /\ (N + 1) - Len(X) + 1 = n + 1
    <3>1. n \in Int /\ n > 0 /\ N = Len(X) + n - 1 /\ Len(b) = n + 1 /\ Len(X) \in Nat
      BY <1>4, <1>6
    <3> QED BY <3>1
  <2>2. B[N + 1] = b[n + 1]
    BY <2>1, <1>5
  <2> QED BY <2>2, <1>1
<1> QED BY <1>4, <1>5, <1>7, <1>8, <1>9, <1>10 DEF DualStacks, A, B, N

LEMMA DualFits ==
    ASSUME NEW X, NEW Y, Dual(X, Y)
    PROVE  Fitting(X, Y) /\ \A i \in 1..Len(X) : Plain(X[i])
BY DEF Dual, Fitting

\* The calls both parties begin with once they have agreed to compare.
DigestJoin(p) ==
    [op |-> "join", sibling |-> <<>>,
     main |-> IF p = "Alice" THEN <<Send("circuit", 1), Recv("circuit", 1)>>
                             ELSE <<Recv("circuit", 1), Send("circuit", 1)>>]
TargetJoin(p) ==
    [op |-> "join", sibling |-> <<>>,
     main |-> IF p = "Alice" THEN <<Send("target", 1)>> ELSE <<Recv("target", 1)>>]
Compare == [op |-> "compare_digest", arg |-> 0]
Precompute == [op |-> "precompute", arg |-> 0]
Serve == [op |-> "serve", arg |-> 0]

LEMMA JoinOne ==
    ASSUME NEW a, a # <<>>
    PROVE  OnMain(a) = <<[op |-> "join", main |-> a, sibling |-> <<>>]>>
BY DEF OnMain, Join

LEMMA Tuples ==
    ASSUME NEW a, NEW b, NEW c
    PROVE  <<a>> \o <<b>> = <<a, b>> /\ <<a, b>> \o <<c>> = <<a, b, c>>
<1> DEFINE S == {a, b, c}
<1>1. /\ <<a>> \in Seq(S) /\ <<b>> \in Seq(S) /\ <<c>> \in Seq(S)
      /\ <<a, b>> \in Seq(S) /\ <<a, b, c>> \in Seq(S)
      /\ Len(<<a>>) = 1 /\ Len(<<b>>) = 1 /\ Len(<<c>>) = 1
      /\ Len(<<a, b>>) = 2 /\ Len(<<a, b, c>>) = 3
  OBVIOUS
<1> HIDE DEF S
<1>2. /\ <<a>> \o <<b>> \in Seq(S) /\ Len(<<a>> \o <<b>>) = 2
      /\ <<a, b>> \o <<c>> \in Seq(S) /\ Len(<<a, b>> \o <<c>>) = 3
  BY <1>1
<1>3. ASSUME NEW i \in 1..2 PROVE (<<a>> \o <<b>>)[i] = <<a, b>>[i]
  <2>1. CASE i = 1
    BY <1>1, <2>1
  <2>2. CASE i = 2
    BY <1>1, <2>2
  <2> QED BY <2>1, <2>2
<1>4. ASSUME NEW i \in 1..3 PROVE (<<a, b>> \o <<c>>)[i] = <<a, b, c>>[i]
  <2>1. CASE i = 1
    BY <1>1, <2>1
  <2>2. CASE i = 2
    BY <1>1, <2>2
  <2>3. CASE i = 3
    BY <1>1, <2>3
  <2> QED BY <2>1, <2>2, <2>3
<1>5. <<a>> \o <<b>> = <<a, b>>
  BY <1>1, <1>2, <1>3, SeqEqual
<1>6. <<a, b>> \o <<c>> = <<a, b, c>>
  BY <1>1, <1>2, <1>4, SeqEqual
<1> QED BY <1>5, <1>6

LEMMA OpeningBodies ==
    /\ \A p \in Party : OnMain(DigestJoin(p).main) \o Call("compare_digest", 0)
                        = <<DigestJoin(p), Compare>>
    /\ OnMain(<<Send("target", 1)>>) \o Call("precompute", 0) = <<TargetJoin("Alice"), Precompute>>
    /\ OnMain(<<Recv("target", 1)>>) \o Call("precompute", 0) \o Call("serve", 0)
          = <<TargetJoin("Bob"), Precompute, Serve>>
<1>1. ASSUME NEW p \in Party
      PROVE  OnMain(DigestJoin(p).main) \o Call("compare_digest", 0) = <<DigestJoin(p), Compare>>
  <2>1. DigestJoin(p).main # <<>>
    BY DEF DigestJoin
  <2>2. OnMain(DigestJoin(p).main) = <<DigestJoin(p)>>
    BY <2>1, JoinOne DEF DigestJoin
  <2> QED BY <2>2, Tuples DEF Call, Compare
<1>2. OnMain(<<Send("target", 1)>>) = <<TargetJoin("Alice")>>
      /\ OnMain(<<Recv("target", 1)>>) = <<TargetJoin("Bob")>>
  BY JoinOne DEF TargetJoin
<1> HIDE DEF TargetJoin, DigestJoin
<1>3. OnMain(<<Send("target", 1)>>) \o Call("precompute", 0) = <<TargetJoin("Alice"), Precompute>>
  BY <1>2, Tuples DEF Call, Precompute
<1>4. <<TargetJoin("Bob")>> \o Call("precompute", 0) = <<TargetJoin("Bob"), Precompute>>
  BY Tuples DEF Call, Precompute
<1>5. <<TargetJoin("Bob"), Precompute>> \o Call("serve", 0) = <<TargetJoin("Bob"), Precompute, Serve>>
  BY Tuples DEF Call, Serve
<1> QED BY <1>1, <1>2, <1>3, <1>4, <1>5

LEMMA OpeningCalls ==
    /\ DualCall(DigestJoin("Alice"), DigestJoin("Bob")) /\ DualCall(Compare, Compare)
    /\ DualCall(TargetJoin("Alice"), TargetJoin("Bob")) /\ DualCall(Precompute, Precompute)
    /\ Serve \in AnyCall
<1>1. Dual(OnMain(<<Send("circuit", 1), Recv("circuit", 1)>>),
           OnMain(<<Recv("circuit", 1), Send("circuit", 1)>>))
      /\ Dual(OnMain(<<Send("target", 1)>>), OnMain(<<Recv("target", 1)>>))
  BY DualDigest, DualTarget, DualMeets
<1>2. /\ OnMain(<<Send("circuit", 1), Recv("circuit", 1)>>) = <<DigestJoin("Alice")>>
      /\ OnMain(<<Recv("circuit", 1), Send("circuit", 1)>>) = <<DigestJoin("Bob")>>
      /\ OnMain(<<Send("target", 1)>>) = <<TargetJoin("Alice")>>
      /\ OnMain(<<Recv("target", 1)>>) = <<TargetJoin("Bob")>>
  BY JoinOne DEF DigestJoin, TargetJoin
<1>3. ASSUME NEW a, NEW b, Dual(<<a>>, <<b>>) PROVE DualCall(a, b)
  <2>1. 1 \in 1..Len(<<a>>) /\ <<a>>[1] = a /\ <<b>>[1] = b
    OBVIOUS
  <2> QED BY <1>3, <2>1 DEF Dual
<1>4. DualCall(DigestJoin("Alice"), DigestJoin("Bob")) /\ DualCall(TargetJoin("Alice"), TargetJoin("Bob"))
  BY <1>1, <1>2, <1>3
<1>5. Compare \in AnyCall /\ Precompute \in AnyCall /\ Serve \in AnyCall
  BY DEF AnyCall, QuietCall, InnerCall, InnerOp, Compare, Precompute, Serve
<1>6. DualCall(Compare, Compare) /\ DualCall(Precompute, Precompute)
  BY <1>5 DEF DualCall, Compare, Precompute
<1> QED BY <1>4, <1>5, <1>6

\* A call that both parties make expands alike.
LEMMA DualExpand ==
    ASSUME NEW j, NEW par, NEW z \in InLockstep(j, par), z.todo["Alice"] # <<>>,
           z.todo["Alice"][1].op \notin {"join", "request"}
    PROVE  /\ Fitting(Expansion("Alice", z), Expansion("Bob", z))
           /\ z.todo["Alice"][1].op # "exchange_digest" =>
                 \A i \in 1..Len(Expansion("Alice", z)) : Plain(Expansion("Alice", z)[i])
           /\ z.todo["Alice"][1].op = "exchange_digest" =>
                 Expansion("Alice", z) = <<DigestJoin("Alice"), Compare>>
<1> DEFINE a == z.todo["Alice"][1]
           b == z.todo["Bob"][1]
           EA == Expansion("Alice", z)
           EB == Expansion("Bob", z)
<1>1. /\ z \in LockState /\ DualStacks(j, z.todo["Alice"], z.todo["Bob"]) /\ Awaited(par, z)
  BY DEF InLockstep
<1>2. DualCall(a, b)
  BY <1>1, Heads
<1>3. /\ a \in AnyCall /\ a.op \notin {"request", "serve", "evaluate"}
      /\ a.op = "garble" => b.op = "evaluate" /\ b.arg = a.arg
      /\ a.op # "garble" => b = a
  BY <1>2, Duals
<1>4. /\ a.op = "process_inputs" => a.arg \in Party
      /\ a.op # "process_inputs" => a.arg \in Nat
      /\ a.op \in {"process_inputs", "end_abits"} \cup InnerOp \cup OuterOp
  BY <1>3, CallArgs
<1>5. z.minted \in BOOLEAN /\ z.setup \in BOOLEAN /\ z.left \in Int
  BY <1>1, LockTypes
<1>6. /\ EA = Expand("Alice", z, a.op, a.arg)
      /\ a.op # "garble" => EB = Expand("Bob", z, a.op, a.arg)
      /\ a.op = "garble" => EB = Expand("Bob", z, "evaluate", a.arg)
      /\ "Alice" # "Bob"
  BY <1>3 DEF Expansion
<1> HIDE DEF EA, EB
<1>7. SUFFICES \/ Dual(EA, EB) /\ a.op # "exchange_digest"
               \/ /\ Fitting(EA, EB) /\ a.op = "exchange_digest"
                  /\ EA = <<DigestJoin("Alice"), Compare>>
  BY DualFits DEF EA, EB
<1>8. CASE a.op = "exchange_digest"
  <2>1. EA = OnMain(<<Send("circuit", 1), Recv("circuit", 1)>>) \o Call("compare_digest", 0)
        /\ EB = OnMain(<<Recv("circuit", 1), Send("circuit", 1)>>) \o Call("compare_digest", 0)
    BY <1>6, <1>8 DEF Expand
  <2>2. EA = <<DigestJoin("Alice"), Compare>> /\ EB = <<DigestJoin("Bob"), Compare>>
    BY <2>1, OpeningBodies DEF DigestJoin, Party
  <2>3. /\ DualCall(DigestJoin("Alice"), DigestJoin("Bob")) /\ DualCall(Compare, Compare)
        /\ DigestJoin("Alice") \in AnyCall /\ DigestJoin("Bob") \in AnyCall /\ Compare \in AnyCall
    BY OpeningCalls, Duals
  <2>4. Fitting(EA, EB)
    BY <2>2, <2>3 DEF Fitting
  <2> QED BY <2>2, <2>4, <1>8
<1>9. CASE a.op = "handshake"
  <2>1. /\ EA = OnMain(SendFrame("start") \o RecvFrame("ack")
                       \o RecvFrame("start") \o SendFrame("ack"))
        /\ EB = OnMain(RecvFrame("start") \o SendFrame("ack")
                       \o SendFrame("start") \o RecvFrame("ack"))
    BY <1>6, <1>9 DEF Expand
  <2> QED BY <1>9, <2>1, DualHandshake, DualMeets
<1>10. CASE a.op = "begin_abits"
  <2>1. /\ EA = OnAbits("Alice", IF z.setup THEN <<>> ELSE BootstrapSend,
                                 IF z.setup THEN <<>> ELSE BootstrapRecv)
        /\ EB = OnAbits("Bob", IF z.setup THEN <<>> ELSE BootstrapSend,
                               IF z.setup THEN <<>> ELSE BootstrapRecv)
    BY <1>6, <1>10 DEF Expand
  <2>2. CASE z.setup
    <3>1. EA = OnAbits("Alice", <<>>, <<>>) /\ EB = OnAbits("Bob", <<>>, <<>>)
      BY <2>1, <2>2
    <3> QED BY <1>10, <3>1, DualBranches, DualMeets DEF Stream
  <2>3. CASE ~z.setup
    <3>1. EA = OnAbits("Alice", BootstrapSend, BootstrapRecv)
          /\ EB = OnAbits("Bob", BootstrapSend, BootstrapRecv)
      BY <2>1, <2>3
    <3> QED BY <1>10, <3>1, DualBootstrap, DualMeets DEF Stream
  <2> QED BY <2>2, <2>3
<1>11. CASE a.op = "gen_cot"
  <2> DEFINE k == ChunksFor(z.left, a.arg)
  <2>1. /\ EA = OnAbits("Alice", Times(k, <<Recv("d", ChunkBlocks)>>), Times(k, <<Send("d", ChunkBlocks)>>))
        /\ EB = OnAbits("Bob", Times(k, <<Recv("d", ChunkBlocks)>>), Times(k, <<Send("d", ChunkBlocks)>>))
    BY <1>6, <1>11 DEF Expand
  <2>2. a.arg \in Int /\ z.left \in Int /\ Drained(z.left, a.arg) \in Int
    <3>1. a.arg \in Int /\ z.left \in Int
      BY <1>4, <1>5, <1>11
    <3> HIDE DEF a
    <3> QED BY <3>1, Counts DEF Drained
  <2>3. a.arg - Drained(z.left, a.arg) \in Int
    BY <2>2
  <2>4. k \in Int
    BY <2>3, Sizes, Counts DEF ChunksFor
  <2> HIDE DEF k
  <2>5. /\ DualBranch("main", Times(k, <<Send("d", ChunkBlocks)>>), Times(k, <<Recv("d", ChunkBlocks)>>))
        /\ DualBranch("sibling", Times(k, <<Recv("d", ChunkBlocks)>>), Times(k, <<Send("d", ChunkBlocks)>>))
    BY <2>4, DualDraws, DualTimes, Sizes DEF Stream
  <2> QED BY <1>11, <2>1, <2>5, DualMeets
<1>12. CASE a.op = "end_abits"
  <2>1. /\ EA = OnAbits("Alice", <<Recv("d", 1), Recv("x", 1), Recv("t", 1)>>,
                                 <<Send("d", 1), Send("x", 1), Send("t", 1)>>)
        /\ EB = OnAbits("Bob", <<Recv("d", 1), Recv("x", 1), Recv("t", 1)>>,
                               <<Send("d", 1), Send("x", 1), Send("t", 1)>>)
    BY <1>6, <1>12 DEF Expand
  <2> QED BY <1>12, <2>1, DualDraws, DualMeets
<1>13. CASE a.op = "maybe_flush"
  <2>1. Dual(Call("end_abits", 0), Call("end_abits", 0))
        /\ Dual(Call("begin_abits", 0), Call("begin_abits", 0))
    BY DualCalls DEF EvenOp
  <2>2. Dual(Call("end_abits", 0) \o Call("begin_abits", 0),
             Call("end_abits", 0) \o Call("begin_abits", 0)) /\ Dual(<<>>, <<>>)
    BY <2>1, DualSequences
  <2>3. /\ EA = IF z.minted THEN Call("end_abits", 0) \o Call("begin_abits", 0) ELSE <<>>
        /\ EB = IF z.minted THEN Call("end_abits", 0) \o Call("begin_abits", 0) ELSE <<>>
    BY <1>6, <1>13 DEF Expand
  <2> QED BY <1>13, <2>2, <2>3
<1>14. CASE a.op \in {"end", "setup"}
  <2>1. Dual(Call("end_abits", 0), Call("end_abits", 0))
        /\ Dual(Call("begin_abits", 0), Call("begin_abits", 0))
    BY DualCalls DEF EvenOp
  <2>2. EA = EB /\ EA \in {Call("end_abits", 0), Call("begin_abits", 0)}
    BY <1>6, <1>14 DEF Expand
  <2> QED BY <1>14, <2>1, <2>2
<1>15. CASE a.op = "compute"
  <2>1. /\ EA = IF a.arg = 0 THEN <<>> ELSE ComputeCalls("Alice", a.arg)
        /\ EB = IF a.arg = 0 THEN <<>> ELSE ComputeCalls("Bob", a.arg)
    BY <1>6, <1>15 DEF Expand
  <2>2. a.arg # 0 => Dual(ComputeCalls("Alice", a.arg), ComputeCalls("Bob", a.arg))
    BY <1>4, <1>15, DualCompute
  <2> QED BY <1>15, <2>1, <2>2, DualSequences
<1>16. CASE a.op = "process_inputs"
  <2>1. EA = InputCalls("Alice", a.arg) /\ EB = InputCalls("Bob", a.arg)
    BY <1>6, <1>16 DEF Expand
  <2> QED BY <1>4, <1>16, <2>1, DualInputs
<1>17. CASE a.op = "run_program"
  <2>1. EA = ProgramCalls("Alice", a.arg) /\ EB = ProgramCalls("Bob", a.arg)
    BY <1>6, <1>17 DEF Expand
  <2> QED BY <1>4, <1>17, <2>1, DualProgram
<1>18. CASE a.op = "garble"
  <2>1. EA = OnMain(GarblerPath(a.arg)) /\ EB = OnMain(EvaluatorPath(a.arg))
    BY <1>6, <1>18 DEF Expand
  <2> QED BY <1>4, <1>18, <2>1, DualGarble
<1>19. CASE a.op = "decode"
  <2>1. /\ EA = OnMain(<<Send("share", ValueBits), Send("mac", 1), Recv("bits", ValueBits)>>)
        /\ EB = OnMain(<<Recv("share", ValueBits), Recv("mac", 1), Send("bits", ValueBits)>>)
    BY <1>6, <1>19 DEF Expand
  <2> QED BY <1>19, <2>1, DualDecode
<1>20. CASE a.op = "precompute"
  <2> DEFINE g == z.str["main"].got["Alice"]
  <2>0. z.todo["Alice"] \in Seq(AnyCall)
    BY <1>1, LockTypes
  <2>1. g \in DOMAIN Targets /\ z.str["main"].got["Bob"] = g
    <3>1. 1 \in DOMAIN z.todo["Alice"]
      BY <2>0
    <3> QED BY <1>1, <1>20, <3>1 DEF Awaited
  <2>2. Targets[g] \in Seq(Nat)
    BY <2>1, JobsAssumption
  <2>3. /\ EA = Calls("run_program", Targets[g]) \o IF Targets[g] = <<>> THEN <<>> ELSE Call("trim", 0)
        /\ EB = Calls("run_program", Targets[g]) \o IF Targets[g] = <<>> THEN <<>> ELSE Call("trim", 0)
    BY <1>6, <1>20, <2>1 DEF Expand
  <2>4. Dual(Calls("run_program", Targets[g]), Calls("run_program", Targets[g]))
        /\ Dual(Call("trim", 0), Call("trim", 0)) /\ Dual(<<>>, <<>>)
    BY <2>2, DualCalls, DualSequences DEF EvenOp
  <2> QED BY <1>20, <2>3, <2>4, DualSequences
<1>21. CASE a.op \in {"compare_digest", "open_sibling", "coin", "trim"}
  <2>1. EA = <<>> /\ EB = <<>>
    BY <1>6, <1>21 DEF Expand
  <2> QED BY <1>21, <2>1, DualSequences
<1> QED BY <1>3, <1>4, <1>8, <1>9, <1>10, <1>11, <1>12, <1>13, <1>14, <1>15, <1>16, <1>17,
           <1>18, <1>19, <1>20, <1>21 DEF InnerOp, OuterOp

-----------------------------------------------------------------------------
(* The run stays in lockstep.                                              *)

\* What holds of every state of the run.
LEMMA InLock ==
    ASSUME NEW j, NEW par, NEW z \in InLockstep(j, par)
    PROVE  /\ z \in LockState /\ DualStacks(j, z.todo["Alice"], z.todo["Bob"])
           /\ Awaited(par, z) /\ Streams(z)
<1>1. z \in LockState /\ DualStacks(j, z.todo["Alice"], z.todo["Bob"]) /\ Awaited(par, z)
  BY DEF InLockstep
<1>2. ASSUME NEW s \in Stream PROVE Messages1(z, s) \in Seq(Message)
  <2>1. CASE InJoin(z)
    <3>1. z.todo["Alice"][1] \in AnyCall /\ z.todo["Alice"][1].op = "join"
      BY <2>1, <1>1, Heads DEF InJoin
    <3>2. z.todo["Alice"][1].main \in Seq(Message) /\ z.todo["Alice"][1].sibling \in Seq(Message)
      BY <3>1, CallArgs
    <3> QED BY <3>2, <2>1 DEF Messages1, Stream
  <2>2. CASE ~InJoin(z)
    BY <2>2 DEF Messages1
  <2> QED BY <2>1, <2>2
<1>3. Streams(z)
  BY <1>1, <1>2, LockTypes DEF Streams
<1> QED BY <1>1, <1>3

\* The stacks fit after a call when they fit before it.
LEMMA NextStacks ==
    ASSUME NEW j, NEW par, NEW z \in InLockstep(j, par), z.todo["Alice"] # <<>>
    PROVE  DualStacks(j, Expansion("Alice", z) \o Tail(z.todo["Alice"]),
                         Expansion("Bob", z) \o Tail(z.todo["Bob"]))
<1> DEFINE a == z.todo["Alice"]
           b == z.todo["Bob"]
           EA == Expansion("Alice", z)
           EB == Expansion("Bob", z)
<1>1. DualStacks(j, a, b)
  BY InLock
<1>2. /\ b # <<>> /\ a[1] \in AnyCall /\ b[1] \in AnyCall
      /\ a[1].op # "request" => DualCall(a[1], b[1])
  BY <1>1, Heads
<1>3. CASE a[1].op \notin {"join", "request"}
  <2>1. Fitting(EA, EB)
    BY <1>3, DualExpand
  <2> HIDE DEF a, b, EA, EB
  <2>2. DualStacks(j, EA \o Tail(a), EB \o Tail(b))
    BY <2>1, <1>1, <1>3, PushFitting DEF a
  <2> QED BY <2>2 DEF a, b, EA, EB
<1>4. CASE a[1].op = "join"
  <2>1. b[1].op = "join"
    BY <1>2, <1>4, Duals
  <2>2. EA = <<>> /\ EB = <<>>
    BY <1>4, <2>1 DEF Expansion, Expand
  <2> HIDE DEF a, b, EA, EB
  <2>3. Fitting(EA, EB)
    BY <2>2 DEF Fitting
  <2>4. DualStacks(j, EA \o Tail(a), EB \o Tail(b))
    BY <2>3, <1>1, <1>4, PushFitting DEF a
  <2> QED BY <2>4 DEF a, b, EA, EB
<1>5. CASE a[1].op = "request"
  <2>1. /\ j = "session" /\ b = <<Serve>>
        /\ a \in Seq(AnyCall)
    BY <1>1, <1>5, Heads DEF Serve, DualStacks
  <2>2. EA = <<TargetJoin("Alice"), Precompute>> /\ EB = <<TargetJoin("Bob"), Precompute, Serve>>
    <3>1. b[1].op = "serve"
      BY <2>1 DEF Serve
    <3> QED BY <1>5, <3>1, OpeningBodies DEF Expansion, Expand
  <2>3. /\ DualCall(TargetJoin("Alice"), TargetJoin("Bob")) /\ DualCall(Precompute, Precompute)
        /\ Serve \in AnyCall /\ TargetJoin("Alice") \in AnyCall /\ TargetJoin("Bob") \in AnyCall
        /\ Precompute \in AnyCall
    BY OpeningCalls, Duals
  <2>4. \A i \in 1..Len(a) : a[i].op = "request" /\ a[i].arg \in DOMAIN Targets
    <3> HIDE DEF a, b
    <3>1. Len(b) - 1 = 0
      BY <2>1
    <3> QED BY <3>1, <2>1, <1>1 DEF DualStacks
  <2>5. EA \in Seq(AnyCall) /\ Len(EA) = 2 /\ EA[1] = TargetJoin("Alice") /\ EA[2] = Precompute
    <3> HIDE DEF EA
    <3> QED BY <2>2, <2>3
  <2>6. Tail(b) = <<>> /\ EB \in Seq(AnyCall) /\ Len(EB) = 3 /\ EB[1] = TargetJoin("Bob")
        /\ EB[2] = Precompute /\ EB[3] = Serve
    <3> HIDE DEF EB, b
    <3>1. Tail(b) = <<>>
      BY <2>1
    <3> QED BY <2>1, <2>2, <2>3, <3>1
  <2> DEFINE A == EA \o Tail(a)
             B == EB \o Tail(b)
  <2>7. B = EB
    <3> HIDE DEF EB, b
    <3>1. EB \o <<>> = EB
      BY <2>6
    <3> QED BY <2>6, <3>1
  <2>8. /\ A \in Seq(AnyCall) /\ Len(a) \in Nat \ {0}
        /\ Len(A) = 2 + Len(a) - 1
        /\ \A i \in 1..2 : A[i] = EA[i]
        /\ \A i \in (2 + 1)..(2 + Len(a) - 1) : A[i] = a[i - 2 + 1]
    <3> HIDE DEF EA, a
    <3>1. a # <<>>
      BY DEF a
    <3>2. /\ A \in Seq(AnyCall) /\ Len(a) \in Nat \ {0}
          /\ Len(A) = Len(EA) + Len(a) - 1
          /\ \A i \in 1..Len(EA) : A[i] = EA[i]
          /\ \A i \in (Len(EA) + 1)..(Len(EA) + Len(a) - 1) : A[i] = a[i - Len(EA) + 1]
      <4>1. EA \in Seq(AnyCall) /\ a \in Seq(AnyCall)
        BY <2>1, <2>5
      <4> QED BY <3>1, <4>1, Pushed
    <3> QED BY <3>2, <2>5
  <2> HIDE DEF A, B, a, b, EA, EB
  <2>9. ASSUME NEW i \in 3..Len(A) PROVE A[i].op = "request" /\ A[i].arg \in DOMAIN Targets
    <3>1. A[i] = a[i - 2 + 1] /\ i - 2 + 1 \in 1..Len(a)
      BY <2>8
    <3> QED BY <3>1, <2>4
  <2>10. ASSUME NEW i \in 1..2 PROVE DualCall(A[i], B[i])
    <3>1. i = 1 \/ i = 2
      OBVIOUS
    <3> QED BY <3>1, <2>3, <2>5, <2>6, <2>7, <2>8
  <2>11. Len(B) - 1 = 2 /\ 2 \in 0..Len(A) /\ 2 + 1 = 3 /\ B[3] = Serve /\ B \in Seq(AnyCall)
    BY <2>6, <2>7, <2>8
  <2>12. DualStacks(j, A, B)
    BY <2>1, <2>8, <2>9, <2>10, <2>11 DEF DualStacks, Serve
  <2> QED BY <2>12 DEF A, B, a, b, EA, EB
<1> QED BY <1>3, <1>4, <1>5

\* The exchange of digests brings each party the parameters of its peer.
LEMMA CircuitBrings ==
    ASSUME NEW par \in [Party -> Param], NEW z, Streams(z),
           Messages1(z, "main") = <<Send("circuit", 1), Recv("circuit", 1)>>
    PROVE  \A p \in Party : Branch(par, z, "main")[2].got[p] = par[Peer(p)]
<1> DEFINE f == Branch(par, z, "main")
           m == Send("circuit", 1)
           n == Recv("circuit", 1)
           M == Messages1(z, "main")
<1>1. "main" \in Stream /\ Len(M) = 2 /\ M[1] = m /\ M[2] = n
  BY DEF Stream
<1>2. /\ f \in [Nat -> StreamState]
      /\ \A i \in Nat : i < Len(M) => M[i + 1] \in Message /\ f[i + 1] = Passed(par, z, f[i], M[i + 1])
  BY <1>1, BranchStep
<1> HIDE DEF f, M
<1>3. /\ m \in Message /\ n \in Message /\ f[1] = Passed(par, z, f[0], m) /\ f[2] = Passed(par, z, f[1], n)
      /\ f[0] \in StreamState /\ f[1] \in StreamState
  <2>1. 0 < Len(M) /\ 1 < Len(M) /\ 0 + 1 = 1 /\ 1 + 1 = 2 /\ 0 \in Nat /\ 1 \in Nat
    BY <1>1
  <2> QED BY <2>1, <1>1, <1>2
<1>4. Sender(m) = "Alice" /\ Sender(n) = "Bob" /\ Peer("Alice") = "Bob" /\ Peer("Bob") = "Alice"
      /\ m.kind = "circuit" /\ n.kind = "circuit"
  BY DEF Sender, Send, Recv, Peer
<1> HIDE DEF m, n
<1>5. f[1].got["Bob"] = Carries(par, z.coins, f[0], "Alice", "circuit")
  BY <1>3, <1>4, PassedFacts
<1>6. f[2].got["Alice"] = Carries(par, z.coins, f[1], "Bob", "circuit") /\ f[2].got["Bob"] = f[1].got["Bob"]
  BY <1>3, <1>4, PassedFacts
<1>7. f[1].got["Bob"] = par["Alice"] /\ f[2].got["Alice"] = par["Bob"]
  BY <1>5, <1>6 DEF Carries
<1> QED BY <1>4, <1>6, <1>7 DEF f, Party

\* A request brings Bob the target Alice names.
LEMMA TargetBrings ==
    ASSUME NEW par \in [Party -> Param], NEW z, Streams(z),
           Messages1(z, "main") = <<Send("target", 1)>>
    PROVE  /\ Branch(par, z, "main")[1].got["Alice"] = z.str["main"].got["Alice"]
           /\ Branch(par, z, "main")[1].got["Bob"] = z.str["main"].got["Alice"]
<1> DEFINE f == Branch(par, z, "main")
           m == Send("target", 1)
           M == Messages1(z, "main")
<1>1. "main" \in Stream /\ Len(M) = 1 /\ M[1] = m
  BY DEF Stream
<1>2. /\ f \in [Nat -> StreamState] /\ f[0] = z.str["main"]
      /\ \A i \in Nat : i < Len(M) => M[i + 1] \in Message /\ f[i + 1] = Passed(par, z, f[i], M[i + 1])
  BY <1>1, BranchStep
<1> HIDE DEF f, M
<1>3. m \in Message /\ f[1] = Passed(par, z, f[0], m) /\ f[0] \in StreamState
  <2>1. 0 < Len(M) /\ 0 + 1 = 1 /\ 0 \in Nat
    BY <1>1
  <2> QED BY <2>1, <1>1, <1>2
<1>4. Sender(m) = "Alice" /\ Peer("Alice") = "Bob" /\ m.kind = "target"
  BY DEF Sender, Send, Recv, Peer
<1> HIDE DEF m
<1>5. f[1].got["Bob"] = Carries(par, z.coins, f[0], "Alice", "target") /\ f[1].got["Alice"] = f[0].got["Alice"]
  BY <1>3, <1>4, PassedFacts
<1>7. f[1].got["Bob"] = f[0].got["Alice"]
  BY <1>5 DEF Carries
<1> QED BY <1>2, <1>5, <1>7 DEF f

\* A stack in which nothing waits.
LEMMA NothingAwaited ==
    ASSUME NEW par, NEW z, \A i \in DOMAIN z.todo["Alice"] : Plain(z.todo["Alice"][i])
    PROVE  Awaited(par, z)
BY DEF Awaited, Plain

\* What a comparison or a precomputation waits for has come when it is next.
LEMMA NextAwaited ==
    ASSUME NEW j, NEW par \in [Party -> Param], NEW z \in InLockstep(j, par), z.todo["Alice"] # <<>>
    PROVE  Awaited(par, Lockstep(par, z))
<1> DEFINE t == z.todo["Alice"]
           y == Lockstep(par, z)
           E == Expansion("Alice", z)
           u == E \o Tail(t)
           U == Expansion("Bob", z) \o Tail(z.todo["Bob"])
<1>1. z \in LockState /\ DualStacks(j, t, z.todo["Bob"]) /\ Awaited(par, z) /\ Streams(z)
  BY InLock
<1>2. t \in Seq(AnyCall) /\ DOMAIN t = 1..Len(t)
  BY <1>1, LockTypes
<1>3. y.todo["Alice"] = u
  BY DEF Lockstep, Party
<1>4. ASSUME NEW k \in 2..Len(t), t[1].op # "join" PROVE Plain(t[k])
  <2>1. k \in DOMAIN t /\ k # 1
    BY <1>2
  <2> HIDE DEF t
  <2> QED BY <2>1, <1>1, <1>4 DEF Awaited, Plain, t
<1>5. DualStacks(j, u, U)
  BY NextStacks
<1>6. DualStacks(j, u, U) => u \in Seq(AnyCall)
  BY DEF DualStacks
<1>7. u \in Seq(AnyCall) /\ DOMAIN u = 1..Len(u) /\ Len(u) \in Nat /\ Len(t) \in Nat \ {0}
  <2>1. u \in Seq(AnyCall)
    BY <1>5, <1>6
  <2> HIDE DEF u, t
  <2> QED BY <2>1, <1>2, EmptySeq DEF t
<1>8. ASSUME NEW X \in Seq(AnyCall), E = X
      PROVE  /\ Len(X) \in Nat /\ DOMAIN u = 1..(Len(X) + Len(t) - 1)
             /\ \A i \in 1..Len(X) : u[i] = X[i]
             /\ \A i \in (Len(X) + 1)..(Len(X) + Len(t) - 1) : u[i] = t[i - Len(X) + 1]
  <2>1. X \in Seq(AnyCall) /\ t \in Seq(AnyCall) /\ t # <<>>
    BY <1>2
  <2> HIDE DEF t, E
  <2> QED BY <2>1, <1>8, Pushed
<1>9. y.str["main"] = CASE t[1].op = "join" -> Branch(par, z, "main")[Len(Messages1(z, "main"))]
               [] t[1].op = "setup" -> [z.str["main"] EXCEPT !.cnt = [p \in Party |-> 0]]
               [] t[1].op = "begin_abits" -> [z.str["main"] EXCEPT !.chk = <<>>]
               [] t[1].op = "request" -> [z.str["main"] EXCEPT !.got["Alice"] = t[1].arg]
               [] OTHER -> z.str["main"]
  BY DEF Lockstep, Stream
<1> HIDE DEF y, u
<1>10. CASE t[1].op \notin {"join", "request", "exchange_digest"}
  <2>1. E \in Seq(AnyCall) /\ \A i \in 1..Len(E) : Plain(E[i])
    BY <1>10, DualExpand DEF Fitting
  <2>2. ASSUME NEW i \in DOMAIN u PROVE Plain(u[i])
    <3> HIDE DEF E, t
    <3>1. CASE i \in 1..Len(E)
      BY <3>1, <2>1, <1>8
    <3>2. CASE i \notin 1..Len(E)
      <4>1. i \in (Len(E) + 1)..(Len(E) + Len(t) - 1) /\ i - Len(E) + 1 \in 2..Len(t)
        BY <3>2, <1>7, <2>1, <1>8
      <4>2. u[i] = t[i - Len(E) + 1]
        BY <4>1, <2>1, <1>8
      <4> QED BY <4>1, <4>2, <1>4, <1>10
    <3> QED BY <3>1, <3>2
  <2>3. \A i \in DOMAIN y.todo["Alice"] : Plain(y.todo["Alice"][i])
    BY <1>3, <2>2
  <2>4. Awaited(par, y)
    BY <2>3, NothingAwaited
  <2> QED BY <2>4 DEF y
<1>11. CASE t[1].op = "exchange_digest"
  <2>1. E = <<DigestJoin("Alice"), Compare>> /\ E \in Seq(AnyCall)
    BY <1>11, DualExpand DEF Fitting
  <2>2. Len(E) = 2 /\ E[1] = DigestJoin("Alice") /\ E[2] = Compare
    <3> HIDE DEF E
    <3> QED BY <2>1
  <2> HIDE DEF E, t
  <2>a. /\ DOMAIN u = 1..(Len(E) + Len(t) - 1)
        /\ \A i \in 1..Len(E) : u[i] = E[i]
        /\ \A i \in (Len(E) + 1)..(Len(E) + Len(t) - 1) : u[i] = t[i - Len(E) + 1]
    BY <2>1, <1>8
  <2>3. u[1] = DigestJoin("Alice") /\ u[2] = Compare
    BY <2>2, <2>a
  <2>4. ASSUME NEW i \in DOMAIN u, i # 1, i # 2 PROVE Plain(u[i])
    <3>1. i \in (Len(E) + 1)..(Len(E) + Len(t) - 1) /\ i - Len(E) + 1 \in 2..Len(t)
      BY <2>2, <2>4, <2>a, <1>7
    <3>2. u[i] = t[i - Len(E) + 1]
      BY <3>1, <2>a
    <3> QED BY <3>1, <3>2, <1>4, <1>11
  <2>5. /\ DigestJoin("Alice").op = "join" /\ Compare.op = "compare_digest"
        /\ DigestJoin("Alice").main = <<Send("circuit", 1), Recv("circuit", 1)>>
    BY DEF DigestJoin, Compare
  <2>6. ASSUME NEW i \in DOMAIN u
        PROVE  /\ u[i].op # "precompute"
               /\ u[i].op = "compare_digest" => i = 2
    BY <2>3, <2>4, <2>5 DEF Plain
  <2>7. Awaited(par, y)
    BY <2>3, <2>5, <2>6, <1>3 DEF Awaited
  <2> QED BY <2>7 DEF y
<1>12. CASE t[1].op = "join"
  <2>1. E = <<>> /\ <<>> \in Seq(AnyCall) /\ Len(<<>>) = 0
    BY <1>12 DEF Expansion, Expand
  <2>2. y.str["main"] = Branch(par, z, "main")[Len(Messages1(z, "main"))]
    BY <1>9, <1>12
  <2>3. Messages1(z, "main") = t[1].main
    BY <1>12 DEF Messages1, InJoin
  <2> HIDE DEF E, t
  <2>4. ASSUME NEW i \in DOMAIN u PROVE i + 1 \in DOMAIN t /\ u[i] = t[i + 1] /\ i \in Nat /\ i >= 1
    <3> DEFINE X == <<>>
    <3>1. E = X /\ X \in Seq(AnyCall) /\ Len(X) = 0
      BY <2>1
    <3>2. /\ DOMAIN u = 1..(0 + Len(t) - 1)
          /\ \A k \in (0 + 1)..(0 + Len(t) - 1) : u[k] = t[k - 0 + 1]
      BY <3>1, <1>8
    <3>3. i \in (0 + 1)..(0 + Len(t) - 1) /\ i - 0 + 1 = i + 1 /\ i + 1 \in 1..Len(t)
      BY <3>2, <1>7
    <3> QED BY <3>2, <3>3, <1>2
  <2>5. ASSUME NEW i \in DOMAIN u, u[i].op = "compare_digest"
        PROVE  i = 1 /\ \A p \in Party : y.str["main"].got[p] = par[Peer(p)]
    <3>1. i + 1 \in DOMAIN t /\ t[i + 1].op = "compare_digest" /\ i + 1 # 1 /\ i \in Nat
      BY <2>4, <2>5
    <3>2. i + 1 = 2 /\ t[1].main = <<Send("circuit", 1), Recv("circuit", 1)>>
      BY <3>1, <1>1 DEF Awaited, t
    <3>3. Len(Messages1(z, "main")) = 2
      BY <3>2, <2>3
    <3>4. \A p \in Party : Branch(par, z, "main")[2].got[p] = par[Peer(p)]
      BY <3>2, <2>3, <1>1, CircuitBrings
    <3>5. y.str["main"] = Branch(par, z, "main")[2]
      BY <3>3, <2>2
    <3> QED BY <3>1, <3>2, <3>4, <3>5
  <2>6. ASSUME NEW i \in DOMAIN u, u[i].op = "precompute"
        PROVE  /\ i = 1 /\ y.str["main"].got["Alice"] \in DOMAIN Targets
               /\ y.str["main"].got["Bob"] = y.str["main"].got["Alice"]
    <3>1. i + 1 \in DOMAIN t /\ t[i + 1].op = "precompute" /\ i + 1 # 1 /\ i \in Nat
      BY <2>4, <2>6
    <3>2. i + 1 = 2 /\ t[1].main = <<Send("target", 1)>> /\ z.str["main"].got["Alice"] \in DOMAIN Targets
      BY <3>1, <1>1 DEF Awaited, t
    <3>3. Len(Messages1(z, "main")) = 1
      BY <3>2, <2>3
    <3>4. /\ Branch(par, z, "main")[1].got["Alice"] = z.str["main"].got["Alice"]
          /\ Branch(par, z, "main")[1].got["Bob"] = z.str["main"].got["Alice"]
      BY <3>2, <2>3, <1>1, TargetBrings
    <3>5. y.str["main"] = Branch(par, z, "main")[1]
      BY <3>3, <2>2
    <3> QED BY <3>1, <3>2, <3>4, <3>5
  <2>7. Awaited(par, y)
    BY <2>5, <2>6, <1>3 DEF Awaited
  <2> QED BY <2>7 DEF y
<1>13. CASE t[1].op = "request"
  <2>1. /\ t[1].arg \in DOMAIN Targets
        /\ \A i \in 1..Len(t) : t[i].op = "request"
    BY <1>1, <1>13, Heads
  <2>2. E = <<TargetJoin("Alice"), Precompute>>
    BY <1>13, OpeningBodies DEF Expansion, Expand
  <2>3. TargetJoin("Alice") \in AnyCall /\ Precompute \in AnyCall
    BY OpeningCalls, Duals
  <2>4. E \in Seq(AnyCall) /\ Len(E) = 2 /\ E[1] = TargetJoin("Alice") /\ E[2] = Precompute
    <3> HIDE DEF E
    <3> QED BY <2>2, <2>3
  <2> HIDE DEF E, t
  <2>a. /\ DOMAIN u = 1..(Len(E) + Len(t) - 1)
        /\ \A i \in 1..Len(E) : u[i] = E[i]
        /\ \A i \in (Len(E) + 1)..(Len(E) + Len(t) - 1) : u[i] = t[i - Len(E) + 1]
    BY <2>4, <1>8
  <2>5. u[1] = TargetJoin("Alice") /\ u[2] = Precompute
    BY <2>4, <2>a
  <2>6. ASSUME NEW i \in DOMAIN u, i # 1, i # 2 PROVE u[i].op = "request"
    <3>1. i \in (Len(E) + 1)..(Len(E) + Len(t) - 1) /\ i - Len(E) + 1 \in 1..Len(t)
      BY <2>4, <2>6, <1>7, <2>a
    <3>2. u[i] = t[i - Len(E) + 1]
      BY <3>1, <2>a
    <3> QED BY <3>1, <3>2, <2>1
  <2>7. TargetJoin("Alice").op = "join" /\ Precompute.op = "precompute"
        /\ TargetJoin("Alice").main = <<Send("target", 1)>>
    BY DEF TargetJoin, Precompute
  <2>8. ASSUME NEW i \in DOMAIN u
        PROVE  /\ u[i].op # "compare_digest"
               /\ u[i].op = "precompute" => i = 2
    BY <2>5, <2>6, <2>7
  <2>9. y.str["main"].got["Alice"] \in DOMAIN Targets
    <3>1. z.str["main"] \in StreamState
      BY <1>1 DEF Streams, Stream
    <3>2. y.str["main"] = [z.str["main"] EXCEPT !.got["Alice"] = t[1].arg]
      BY <1>9, <1>13
    <3>3. y.str["main"].got["Alice"] = t[1].arg
      BY <3>1, <3>2 DEF StreamState, Party
    <3> QED BY <3>3, <2>1
  <2>10. Awaited(par, y)
    BY <2>5, <2>7, <2>8, <2>9, <1>3 DEF Awaited
  <2> QED BY <2>10 DEF y
<1> QED BY <1>10, <1>11, <1>12, <1>13

\* A call in lockstep leaves the run in lockstep.
LEMMA NextIn ==
    ASSUME NEW j, NEW par \in [Party -> Param], NEW z \in InLockstep(j, par)
    PROVE  Advance(par, z) \in InLockstep(j, par)
<1>1. CASE Ended(z)
  BY <1>1 DEF Advance
<1>2. CASE ~Ended(z)
  <2> DEFINE t == z.todo["Alice"]
             A == Expansion("Alice", z) \o Tail(t)
             B == Expansion("Bob", z) \o Tail(z.todo["Bob"])
             y == Lockstep(par, z)
             op == t[1].op
             n == t[1].arg
  <2>1. t # <<>>
    BY <1>2 DEF Ended
  <2>2. DualStacks(j, A, B) /\ Awaited(par, y)
    BY <2>1, NextStacks, NextAwaited
  <2>3. A \in Seq(AnyCall) /\ B \in Seq(AnyCall)
    <3> HIDE DEF A, B
    <3> QED BY <2>2 DEF DualStacks
  <2>4. y.todo = [p \in Party |-> Expansion(p, z) \o Tail(z.todo[p])]
    BY DEF Lockstep
  <2>5. y.todo["Alice"] = A /\ y.todo["Bob"] = B
    BY <2>4 DEF Party
  <2>6. y.todo \in [Party -> Seq(AnyCall)]
    <3>1. \A p \in Party : Expansion(p, z) \o Tail(z.todo[p]) \in Seq(AnyCall)
      BY <2>3 DEF Party
    <3> QED BY <2>4, <3>1
  <2>7. z \in LockState /\ Streams(z) /\ DualStacks(j, t, z.todo["Bob"])
    BY InLock
  <2>8. t[1] \in AnyCall
    BY <2>7, <2>1, Heads
  <2>9. /\ z.minted \in BOOLEAN /\ z.setup \in BOOLEAN /\ z.left \in Int
        /\ z.coins \in Seq(Digest \X Digest) /\ z.on \in BOOLEAN
        /\ z.str \in [Stream -> StreamState]
    BY <2>7, LockTypes
  <2>10. (op \notin {"join", "process_inputs"} => n \in Nat)
    BY <2>8, CallArgs
  <2> HIDE DEF t
  <2>11. op = "gen_cot" => LeftAfter(z.left, n) \in Int
    <3> SUFFICES ASSUME op = "gen_cot" PROVE LeftAfter(z.left, n) \in Int
      OBVIOUS
    <3>1. n \in Int /\ z.left \in Int
      BY <2>9, <2>10
    <3> HIDE DEF n
    <3>2. Drained(z.left, n) \in Int
      BY <3>1, Counts DEF Drained
    <3>3. n - Drained(z.left, n) \in Int
      BY <3>1, <3>2
    <3>4. ChunksFor(z.left, n) \in Int
      BY <3>3, Sizes, Counts DEF ChunksFor
    <3>5. ChunkOts \in Int
      BY Sizes
    <3>6. ChunksFor(z.left, n) * ChunkOts \in Int
      BY <3>4, <3>5
    <3> QED BY <3>1, <3>2, <3>6 DEF LeftAfter
  <2>12. y = [todo |-> y.todo,
              minted |-> op = "gen_cot" \/ (z.minted /\ op \notin {"maybe_flush", "end"}),
              setup |-> z.setup \/ op = "begin_abits",
              left |-> CASE op \in {"begin_abits", "trim"} -> 0
                         [] op = "gen_cot" -> LeftAfter(z.left, n)
                         [] OTHER -> z.left,
              coins |-> CASE op = "run_program" -> <<>>
                      [] op = "coin" -> Append(z.coins, <<Counted(z.str["main"]),
                                                          Counted(z.str["sibling"])>>)
                      [] OTHER -> z.coins,
              on |-> z.on \/ op = "setup",
              str |-> y.str]
    BY DEF Lockstep, t
  <2>13. y.str = [s \in Stream |->
             CASE op = "join" -> Branch(par, z, s)[Len(Messages1(z, s))]
               [] op = "setup" -> [z.str[s] EXCEPT !.cnt = [p \in Party |-> 0]]
               [] op = "begin_abits" -> [z.str[s] EXCEPT !.chk = <<>>]
               [] op = "request" -> [z.str[s] EXCEPT !.got["Alice"] = n]
               [] OTHER -> z.str[s]]
    BY DEF Lockstep, t
  <2> HIDE DEF y, op, n, A, B
  <2>14. y.minted \in BOOLEAN /\ y.setup \in BOOLEAN /\ y.on \in BOOLEAN
    <3>1. /\ y.minted = (op = "gen_cot" \/ (z.minted /\ op \notin {"maybe_flush", "end"}))
          /\ y.setup = (z.setup \/ op = "begin_abits") /\ y.on = (z.on \/ op = "setup")
      BY <2>12
    <3> QED BY <3>1, <2>9
  <2>15. y.left \in Int
    <3>1. y.left = CASE op \in {"begin_abits", "trim"} -> 0
                         [] op = "gen_cot" -> LeftAfter(z.left, n)
                         [] OTHER -> z.left
      BY <2>12
    <3> QED BY <3>1, <2>9, <2>11
  <2>16. y.coins \in Seq(Digest \X Digest)
    <3>1. y.coins = CASE op = "run_program" -> <<>>
                      [] op = "coin" -> Append(z.coins, <<Counted(z.str["main"]),
                                                          Counted(z.str["sibling"])>>)
                      [] OTHER -> z.coins
      BY <2>12
    <3>2. ASSUME NEW s \in Stream PROVE Counted(z.str[s]) \in Digest
      <4>1. z.str[s] \in StreamState
        BY <2>9
      <4>2. z.str[s].cnt["Alice"] \in Int /\ z.str[s].cnt["Bob"] \in Int
        BY <4>1 DEF StreamState, Party
      <4> QED BY <4>2 DEF Counted, Digest
    <3>3. Counted(z.str["main"]) \in Digest /\ Counted(z.str["sibling"]) \in Digest
      BY <3>2 DEF Stream
    <3>4. Append(z.coins, <<Counted(z.str["main"]), Counted(z.str["sibling"])>>)
            \in Seq(Digest \X Digest)
      BY <3>3, <2>9
    <3> QED BY <3>1, <3>4, <2>9
  <2>17. y.str \in [Stream -> StreamState]
    <3> SUFFICES ASSUME NEW s \in Stream PROVE y.str[s] \in StreamState
      BY <2>13
    <3>1. z.str[s] \in StreamState
      BY <2>9
    <3>2. CASE op = "join"
      <4>1. Branch(par, z, s) \in [Nat -> StreamState]
        BY <2>7, BranchStep
      <4>2. Len(Messages1(z, s)) \in Nat
        BY <2>7 DEF Streams
      <4>3. y.str[s] = Branch(par, z, s)[Len(Messages1(z, s))]
        BY <2>13, <3>2
      <4> QED BY <4>1, <4>2, <4>3
    <3>3. CASE op = "setup"
      <4> DEFINE none == [p \in Party |-> 0]
      <4>1. y.str[s] = [z.str[s] EXCEPT !.cnt = none]
        BY <2>13, <3>3
      <4>2. none \in [Party -> Int]
        OBVIOUS
      <4> HIDE DEF none
      <4> QED BY <4>1, <4>2, <3>1 DEF StreamState
    <3>4. CASE op = "begin_abits"
      <4> DEFINE none == <<>>
      <4>1. y.str[s] = [z.str[s] EXCEPT !.chk = none]
        BY <2>13, <3>4
      <4>2. none \in Seq(Digest)
        OBVIOUS
      <4> HIDE DEF none
      <4> QED BY <4>1, <4>2, <3>1 DEF StreamState
    <3>5. CASE op = "request"
      <4>1. y.str[s] = [z.str[s] EXCEPT !.got["Alice"] = n]
        BY <2>13, <3>5
      <4>2. n \in Val
        BY <3>5, <2>10 DEF Val
      <4>3. [z.str[s].got EXCEPT !["Alice"] = n] \in [Party -> Val]
        BY <4>2, <3>1 DEF StreamState
      <4> QED BY <4>1, <4>3, <3>1 DEF StreamState
    <3>6. CASE op \notin {"join", "setup", "begin_abits", "request"}
      BY <2>13, <3>6, <3>1
    <3> QED BY <3>2, <3>3, <3>4, <3>5, <3>6
  <2>18. y \in LockState
    <3>1. y = [todo |-> y.todo, minted |-> y.minted, setup |-> y.setup, left |-> y.left,
               coins |-> y.coins, on |-> y.on, str |-> y.str]
      BY <2>12
    <3> QED BY <3>1, <2>6, <2>14, <2>15, <2>16, <2>17 DEF LockState
  <2>19. y \in InLockstep(j, par)
    BY <2>2, <2>5, <2>18 DEF InLockstep
  <2> QED BY <2>19, <1>2 DEF Advance, y
<1> QED BY <1>1, <1>2

LEMMA JoinFitting ==
    ASSUME NEW j, NEW a, NEW b, DualStacks(j, a, b), NEW X, NEW Y, Fitting(X, Y)
    PROVE  DualStacks(j, X \o a, Y \o b)
<1> DEFINE n == IF j = "session" THEN Len(b) - 1 ELSE Len(b)
           A == X \o a
           B == Y \o b
           N == IF j = "session" THEN Len(B) - 1 ELSE Len(B)
<1>1. /\ a \in Seq(AnyCall) /\ b \in Seq(AnyCall)
      /\ n \in 0..Len(a)
      /\ \A i \in 1..n : DualCall(a[i], b[i])
      /\ \A i \in (n + 1)..Len(a) :
              j = "session" /\ a[i].op = "request" /\ a[i].arg \in DOMAIN Targets
      /\ j = "session" => b[n + 1] = [op |-> "serve", arg |-> 0]
  BY DEF DualStacks
<1>3. X \in Seq(AnyCall) /\ Y \in Seq(AnyCall) /\ Len(X) = Len(Y)
      /\ \A i \in 1..Len(X) : DualCall(X[i], Y[i])
  BY DEF Fitting
<1>4. /\ A \in Seq(AnyCall) /\ Len(a) \in Nat /\ Len(X) \in Nat
      /\ Len(A) = Len(X) + Len(a)
      /\ \A i \in 1..Len(X) : A[i] = X[i]
      /\ \A i \in (Len(X) + 1)..(Len(X) + Len(a)) : A[i] = a[i - Len(X)]
  <2>1. X \in Seq(AnyCall) /\ a \in Seq(AnyCall)
    BY <1>1, <1>3
  <2> QED BY <2>1, Joined
<1>5. /\ B \in Seq(AnyCall) /\ Len(b) \in Nat
      /\ Len(B) = Len(X) + Len(b)
      /\ \A i \in 1..Len(X) : B[i] = Y[i]
      /\ \A i \in (Len(X) + 1)..(Len(X) + Len(b)) : B[i] = b[i - Len(X)]
  <2>1. Y \in Seq(AnyCall) /\ b \in Seq(AnyCall)
    BY <1>1, <1>3
  <2>2. /\ B \in Seq(AnyCall) /\ Len(b) \in Nat
        /\ Len(B) = Len(Y) + Len(b)
        /\ \A i \in 1..Len(Y) : B[i] = Y[i]
        /\ \A i \in (Len(Y) + 1)..(Len(Y) + Len(b)) : B[i] = b[i - Len(Y)]
    BY <2>1, Joined
  <2> QED BY <2>2, <1>3
<1>6. n \in Nat /\ N = Len(X) + n
      /\ (j = "session" => Len(b) = n + 1) /\ (j # "session" => Len(b) = n)
  <2>1. Len(B) \in Int /\ Len(B) = Len(X) + Len(b) /\ Len(b) \in Nat /\ Len(X) \in Nat
    BY <1>4, <1>5
  <2>4. n \in Nat
    BY <1>1, <1>4
  <2> HIDE DEF B
  <2>2. CASE j = "session"
    BY <2>1, <2>2, <2>4
  <2>3. CASE j # "session"
    BY <2>1, <2>3, <2>4
  <2> QED BY <2>2, <2>3
<1> HIDE DEF n, A, B, N
<1>7. N \in 0..Len(A)
  BY <1>1, <1>4, <1>6
<1>8. ASSUME NEW i \in 1..N PROVE DualCall(A[i], B[i])
  <2>1. CASE i \in 1..Len(X)
    BY <2>1, <1>3, <1>4, <1>5
  <2>2. CASE i \notin 1..Len(X)
    <3> DEFINE k == i - Len(X)
    <3>1. i \in (Len(X) + 1)..(Len(X) + Len(a)) /\ i \in (Len(X) + 1)..(Len(X) + Len(b))
          /\ k \in 1..n
      BY <2>2, <1>1, <1>4, <1>5, <1>6, SMTT(30)
    <3>2. A[i] = a[k] /\ B[i] = b[k]
      BY <3>1, <1>4, <1>5
    <3> HIDE DEF k
    <3> QED BY <3>1, <3>2, <1>1
  <2> QED BY <2>1, <2>2
<1>9. ASSUME NEW i \in (N + 1)..Len(A)
      PROVE  j = "session" /\ A[i].op = "request" /\ A[i].arg \in DOMAIN Targets
  <2> DEFINE k == i - Len(X)
  <2>1. i \in (Len(X) + 1)..(Len(X) + Len(a)) /\ k \in (n + 1)..Len(a)
    BY <1>1, <1>4, <1>6
  <2>2. A[i] = a[k]
    BY <2>1, <1>4
  <2> HIDE DEF k
  <2> QED BY <2>1, <2>2, <1>1
<1>10. j = "session" => B[N + 1] = [op |-> "serve", arg |-> 0]
  <2> SUFFICES ASSUME j = "session" PROVE B[N + 1] = [op |-> "serve", arg |-> 0]
    OBVIOUS
  <2>1. N + 1 \in (Len(X) + 1)..(Len(X) + Len(b)) /\ (N + 1) - Len(X) = n + 1
    <3>1. n \in Nat /\ N = Len(X) + n /\ Len(b) = n + 1 /\ Len(X) \in Nat
      BY <1>4, <1>6
    <3> QED BY <3>1
  <2>2. B[N + 1] = b[n + 1]
    BY <2>1, <1>5
  <2> QED BY <2>2, <1>1
<1> QED BY <1>4, <1>5, <1>7, <1>8, <1>9, <1>10 DEF DualStacks, A, B, N

LEMMA PlainJoined ==
    ASSUME NEW X \in Seq(AnyCall), NEW Y \in Seq(AnyCall),
           \A i \in 1..Len(X) : Plain(X[i]), \A i \in 1..Len(Y) : Plain(Y[i])
    PROVE  X \o Y \in Seq(AnyCall) /\ \A i \in 1..Len(X \o Y) : Plain((X \o Y)[i])
<1>1. X \o Y \in Seq(AnyCall)
  OBVIOUS
<1>2. ASSUME NEW i \in 1..Len(X \o Y) PROVE Plain((X \o Y)[i])
  <2>1. CASE i <= Len(X)
    <3>1. (X \o Y)[i] = X[i] /\ i \in 1..Len(X)
      BY <2>1
    <3> QED BY <3>1
  <2>2. CASE ~(i <= Len(X))
    <3>1. (X \o Y)[i] = Y[i - Len(X)] /\ i - Len(X) \in 1..Len(Y)
      BY <2>2
    <3> QED BY <3>1
  <2> QED BY <2>1, <2>2
<1> QED BY <1>1, <1>2

LEMMA SeedsFit == Dual(SeedInputs, SeedInputs)
BY DualCalls, DualSequences DEF SeedInputs, Party

\* The jobs of a standalone derivation and of a reveal begin with stacks that fit.
LEMMA StandaloneFits ==
    ASSUME NEW j \in {"derive", "reveal", "fast"}, NEW p
    PROVE  Dual(Body(j, p), Body(j, p))
<1>1. /\ Dual(Call("setup", 0), Call("setup", 0)) /\ Dual(Call("decode", 0), Call("decode", 0))
      /\ Dual(Call("end", 0), Call("end", 0)) /\ Dual(Call("exchange_digest", 0), Call("exchange_digest", 0))
      /\ Dual(Call("open_sibling", 0), Call("open_sibling", 0))
  BY DualCalls DEF EvenOp
<1>2. Dual(Calls("run_program", Programs), Calls("run_program", Programs))
  BY DualCalls, JobsAssumption DEF EvenOp
<1>3. Dual(Times(Len(Programs), Call("decode", 0)), Times(Len(Programs), Call("decode", 0)))
  <2>1. Len(Programs) \in Int
    BY JobsAssumption
  <2> QED BY <1>1, <2>1, DualTimes
<1>4. Dual(OpenStreams, OpenStreams)
  BY <1>1, DualSequences DEF OpenStreams
<1>5. Dual(RevealNodeJob, RevealNodeJob) /\ Dual(RevealNodeFastJob, RevealNodeFastJob)
  BY <1>1, DualSequences DEF RevealNodeJob, RevealNodeFastJob
<1>6. Dual(RunDerivationBatch, RunDerivationBatch)
  BY <1>1, <1>2, <1>3, SeedsFit, DualSequences DEF RunDerivationBatch
<1>7. Body(j, p) \in {OpenStreams \o RunDerivationBatch, OpenStreams \o RevealNodeJob,
                      OpenStreams \o RevealNodeFastJob}
  <2>1. CASE j = "derive"
    BY <2>1 DEF Body
  <2>2. CASE j = "reveal"
    BY <2>2 DEF Body
  <2>3. CASE j = "fast"
    BY <2>3 DEF Body
  <2> QED BY <2>1, <2>2, <2>3
<1> QED BY <1>4, <1>5, <1>6, <1>7, DualSequences

\* So does a daemon's session, whatever Alice will request of Bob.
LEMMA SessionFits ==
    /\ DualStacks("session", Body("session", "Alice"), Body("session", "Bob"))
    /\ \A i \in DOMAIN Body("session", "Alice") : Plain(Body("session", "Alice")[i])
<1> DEFINE R == [k \in DOMAIN Targets |-> [op |-> "request", arg |-> k]]
           S == <<Serve>>
           X == Call("setup", 0) \o SeedInputs
           H == Call("handshake", 0)
<1>1. Body("session", "Alice") = H \o (X \o R) /\ Body("session", "Bob") = H \o (X \o S)
  BY DEF Body, PrecomputeSession, Call, Serve
<1>2. Targets \in Seq(Seq(Nat)) /\ DOMAIN Targets = 1..Len(Targets) /\ Len(Targets) \in Nat
  BY JobsAssumption
<1>3. ASSUME NEW k \in DOMAIN Targets
      PROVE  R[k] \in AnyCall /\ R[k].op = "request" /\ R[k].arg = k /\ Plain(R[k])
  <2>1. k \in Nat
    BY <1>2
  <2> QED BY <2>1 DEF AnyCall, QuietCall, InnerCall, InnerOp, Plain
<1>4. R \in Seq(AnyCall) /\ Len(R) = Len(Targets)
  <2>1. R \in [1..Len(Targets) -> AnyCall]
    BY <1>2, <1>3
  <2> DEFINE m == Len(Targets)
  <2>2. R \in [1..m -> AnyCall] /\ m \in Nat
    BY <2>1, <1>2
  <2> HIDE DEF R, m
  <2>3. R \in Seq(AnyCall)
    BY <2>2, SeqDef
  <2>4. Len(R) = m
    BY <2>2, <2>3
  <2> QED BY <2>3, <2>4 DEF m
<1>5. S \in Seq(AnyCall) /\ Len(S) = 1 /\ S[1] = [op |-> "serve", arg |-> 0]
  BY OpeningCalls DEF Serve
<1> HIDE DEF R, S
<1>6. DualStacks("session", R, S)
  <2>1. \A i \in (0 + 1)..Len(R) : R[i].op = "request" /\ R[i].arg \in DOMAIN Targets
    <3> SUFFICES ASSUME NEW i \in (0 + 1)..Len(R)
                 PROVE  R[i].op = "request" /\ R[i].arg \in DOMAIN Targets
      OBVIOUS
    <3>1. i \in DOMAIN Targets
      BY <1>2, <1>4
    <3> QED BY <3>1, <1>3
  <2>2. Len(S) - 1 = 0 /\ 0 \in 0..Len(R) /\ 1..0 = {}
    BY <1>2, <1>4, <1>5
  <2> QED BY <2>1, <2>2, <1>4, <1>5 DEF DualStacks
<1>7. Dual(H, H) /\ Dual(X, X)
  <2>1. Dual(Call("handshake", 0), Call("handshake", 0)) /\ Dual(Call("setup", 0), Call("setup", 0))
    BY DualCalls DEF EvenOp
  <2> QED BY <2>1, SeedsFit, DualSequences
<1> HIDE DEF H, X
<1>8. /\ Fitting(H, H) /\ Fitting(X, X) /\ X \in Seq(AnyCall) /\ H \in Seq(AnyCall)
      /\ \A i \in 1..Len(X) : Plain(X[i])
      /\ \A i \in 1..Len(H) : Plain(H[i])
  BY <1>7, DualFits DEF Dual
<1>9. DualStacks("session", X \o R, X \o S)
  BY <1>6, <1>8, JoinFitting
<1>10. DualStacks("session", H \o (X \o R), H \o (X \o S))
  BY <1>8, <1>9, JoinFitting
<1>11. \A i \in 1..Len(R) : Plain(R[i])
  BY <1>2, <1>3, <1>4
<1>12. X \o R \in Seq(AnyCall) /\ \A i \in 1..Len(X \o R) : Plain((X \o R)[i])
  BY <1>4, <1>8, <1>11, PlainJoined
<1> DEFINE XR == X \o R
<1> HIDE DEF XR
<1>13. H \o XR \in Seq(AnyCall) /\ \A i \in 1..Len(H \o XR) : Plain((H \o XR)[i])
  BY <1>8, <1>12, PlainJoined DEF XR
<1>14. \A i \in DOMAIN (H \o XR) : Plain((H \o XR)[i])
  BY <1>13
<1> QED BY <1>1, <1>10, <1>14 DEF XR

\* The run begins in lockstep.
LEMMA StartIn ==
    ASSUME NEW j \in Jobs, NEW par
    PROVE  Start(j) \in InLockstep(j, par)
<1> DEFINE z == Start(j)
<1>1. z.todo = [p \in Party |-> Body(j, p)] /\ z.todo["Alice"] = Body(j, "Alice") /\ z.todo["Bob"] = Body(j, "Bob")
  BY DEF Start, Party
<1>2. /\ DualStacks(j, Body(j, "Alice"), Body(j, "Bob"))
      /\ \A i \in DOMAIN Body(j, "Alice") : Plain(Body(j, "Alice")[i])
  <2>1. CASE j = "session"
    BY <2>1, SessionFits
  <2>2. CASE j # "session"
    <3>1. j \in {"derive", "reveal", "fast"}
      BY <2>2, JobsAssumption
    <3>2. Dual(Body(j, "Alice"), Body(j, "Alice"))
      BY <3>1, StandaloneFits
    <3>3. Body(j, "Bob") = Body(j, "Alice")
      BY <3>1 DEF Body
    <3> DEFINE a == Body(j, "Alice")
    <3> HIDE DEF a
    <3>4. a \in Seq(AnyCall) /\ \A i \in 1..Len(a) : DualCall(a[i], a[i]) /\ Plain(a[i])
      BY <3>2 DEF Dual, a
    <3>5. DualStacks(j, a, a)
      <4>1. Len(a) \in 0..Len(a) /\ (Len(a) + 1)..Len(a) = {}
        BY <3>4
      <4> QED BY <3>4, <4>1, <2>2 DEF DualStacks
    <3>6. \A i \in DOMAIN a : Plain(a[i])
      BY <3>4
    <3> QED BY <3>3, <3>5, <3>6 DEF a
  <2> QED BY <2>1, <2>2
<1>3. Awaited(par, z)
  BY <1>1, <1>2, NothingAwaited
<1>4. Body(j, "Alice") \in Seq(AnyCall) /\ Body(j, "Bob") \in Seq(AnyCall)
  BY <1>2 DEF DualStacks
<1>5. z.todo \in [Party -> Seq(AnyCall)]
  <2>1. \A p \in Party : Body(j, p) \in Seq(AnyCall)
    BY <1>4 DEF Party
  <2> QED BY <1>1, <2>1
<1>6. z.str \in [Stream -> StreamState]
  <2> DEFINE none == <<>>
             zero == [p \in Party |-> 0]
  <2>1. none \in Seq(Digest) /\ zero \in [Party -> Int] /\ zero \in [Party -> Val]
    BY DEF Val
  <2>2. z.str = [s \in Stream |-> [cnt |-> zero, chk |-> none, tot |-> zero, got |-> zero]]
    BY DEF Start
  <2> HIDE DEF none, zero, z
  <2>3. [cnt |-> zero, chk |-> none, tot |-> zero, got |-> zero] \in StreamState
    BY <2>1 DEF StreamState
  <2> QED BY <2>2, <2>3
<1>7. z \in LockState
  <2>1. z = [todo |-> z.todo, minted |-> FALSE, setup |-> FALSE, left |-> 0, coins |-> <<>>,
             on |-> FALSE, str |-> z.str]
    BY DEF Start
  <2> DEFINE none == <<>>
  <2>2. none \in Seq(Digest \X Digest)
    OBVIOUS
  <2> HIDE DEF z, none
  <2>3. z = [todo |-> z.todo, minted |-> FALSE, setup |-> FALSE, left |-> 0, coins |-> none,
             on |-> FALSE, str |-> z.str]
    BY <2>1 DEF none
  <2> DEFINE todo == z.todo
             str == z.str
             no == FALSE
             zero == 0
  <2>4. todo \in [Party -> Seq(AnyCall)] /\ str \in [Stream -> StreamState]
        /\ no \in BOOLEAN /\ zero \in Int
    BY <1>5, <1>6
  <2>5. z = [todo |-> todo, minted |-> no, setup |-> no, left |-> zero, coins |-> none,
             on |-> no, str |-> str]
    BY <2>3
  <2> HIDE DEF todo, str, no, zero
  <2> QED BY <2>2, <2>4, <2>5 DEF LockState
<1> HIDE DEF z
<1>8. z \in InLockstep(j, par)
  BY <1>1, <1>2, <1>3, <1>7 DEF InLockstep
<1> QED BY <1>8 DEF z

\* There is a run, and every state of it is in lockstep.
LEMMA RunIs ==
    ASSUME NEW j \in Jobs, NEW par \in [Party -> Param]
    PROVE  IsRun(j, par, Run(j, par))
<1> DEFINE S == InLockstep(j, par)
           e == Start(j)
           G == [z \in S |-> Advance(par, z)]
           F == [n \in Nat |-> G]
<1>1. e \in S /\ \A z \in S : Advance(par, z) \in S
  BY StartIn, NextIn
<1> HIDE DEF S, e
<1>2. G \in [S -> S]
  BY <1>1
<1>3. \A z \in S : G[z] = Advance(par, z)
  OBVIOUS
<1> HIDE DEF G
<1>4. F \in [Nat -> [S -> S]] /\ \A n \in Nat : F[n] = G
  BY <1>2
<1> HIDE DEF F
<1>5. \E f : Iterates(S, e, F, f)
  BY <1>1, <1>4, Recursion
<1>6. PICK f : Iterates(S, e, F, f)
  BY <1>5
<1>7. f \in [Nat -> S] /\ f[0] = e /\ \A n \in Nat : f[n + 1] = Advance(par, f[n])
  BY <1>3, <1>4, <1>6 DEF Iterates
<1>8. IsRun(j, par, f)
  BY <1>7 DEF IsRun, S, e
<1> QED BY <1>8 DEF Run

\* The run, call by call.
LEMMA RunStep ==
    ASSUME NEW j \in Jobs, NEW par \in [Party -> Param]
    PROVE  /\ Run(j, par)[0] = Start(j)
           /\ \A n \in Nat : /\ Run(j, par)[n] \in InLockstep(j, par)
                             /\ Run(j, par)[n + 1] = Advance(par, Run(j, par)[n])
<1>1. IsRun(j, par, Run(j, par))
  BY RunIs
<1> DEFINE f == Run(j, par)
<1> HIDE DEF f
<1>2. IsRun(j, par, f)
  BY <1>1 DEF f
<1>3. /\ f \in [Nat -> InLockstep(j, par)]
      /\ f[0] = Start(j)
      /\ \A n \in Nat : f[n + 1] = Advance(par, f[n])
  BY <1>2 DEF IsRun
<1>4. \A n \in Nat : f[n] \in InLockstep(j, par)
  BY <1>3
<1> QED BY <1>3, <1>4 DEF f

-----------------------------------------------------------------------------
(* The words of the run.                                                   *)

\* The words of a stream are counted by numbers.
LEMMA Totals ==
    ASSUME NEW j, NEW par \in [Party -> Param], NEW z \in InLockstep(j, par),
           NEW s \in Stream, NEW p \in Party
    PROVE  /\ Len(Messages1(z, s)) \in Nat
           /\ \A i \in Nat : Branch(par, z, s)[i] \in StreamState
                             /\ Branch(par, z, s)[i].tot[p] \in Int
           /\ z.str[s] \in StreamState /\ z.str[s].tot[p] \in Int
           /\ Branch(par, z, s)[0] = z.str[s]
           /\ \A i, n \in Nat : i <= n => Branch(par, z, s)[i].tot[p] <= Branch(par, z, s)[n].tot[p]
           /\ Advance(par, z).str[s].tot[p] = Branch(par, z, s)[Len(Messages1(z, s))].tot[p]
           /\ z.str[s].tot[p] <= Advance(par, z).str[s].tot[p]
<1> DEFINE f == Branch(par, z, s)
           M == Messages1(z, s)
           y == Advance(par, z)
<1>1. Streams(z) /\ z \in LockState
  BY InLock
<1>2. f \in [Nat -> StreamState] /\ f[0] = z.str[s]
  BY <1>1, BranchStep
<1>3. Len(M) \in Nat /\ z.str[s] \in StreamState
  BY <1>1 DEF Streams
<1>4. \A i, n \in Nat : i <= n => f[i].tot[p] <= f[n].tot[p]
  BY <1>1, BranchGrows
<1>5. ASSUME NEW e \in StreamState PROVE e.tot[p] \in Int
  BY DEF StreamState
<1>6. y.str[s].tot[p] = f[Len(M)].tot[p]
  <2>1. CASE InJoin(z)
    <3>1. y = Lockstep(par, z) /\ z.todo["Alice"][1].op = "join"
      BY <2>1 DEF Advance, Ended, InJoin
    <3>2. y.str[s] = f[Len(M)]
      BY <3>1 DEF Lockstep
    <3> QED BY <3>2
  <2>2. CASE ~InJoin(z)
    <3>1. M = <<>> /\ Len(<<>>) = 0
      BY <2>2 DEF Messages1
    <3>2. CASE Ended(z)
      <4>1. y = z
        BY <3>2 DEF Advance
      <4> QED BY <4>1, <3>1, <1>2
    <3>3. CASE ~Ended(z)
      <4>1. y = Lockstep(par, z) /\ z.todo["Alice"][1].op # "join"
        BY <2>2, <3>3 DEF Advance, Ended, InJoin
      <4> DEFINE op == z.todo["Alice"][1].op
                 n == z.todo["Alice"][1].arg
      <4>2. y.str[s] = CASE op = "setup" -> [z.str[s] EXCEPT !.cnt = [q \in Party |-> 0]]
                         [] op = "begin_abits" -> [z.str[s] EXCEPT !.chk = <<>>]
                         [] op = "request" -> [z.str[s] EXCEPT !.got["Alice"] = n]
                         [] OTHER -> z.str[s]
        BY <4>1 DEF Lockstep
      <4> HIDE DEF op, n, y
      <4>3. y.str[s].tot = z.str[s].tot
        <5>1. CASE op = "setup"
          BY <5>1, <4>2, <1>3 DEF StreamState
        <5>2. CASE op = "begin_abits"
          BY <5>2, <4>2, <1>3 DEF StreamState
        <5>3. CASE op = "request"
          BY <5>3, <4>2, <1>3 DEF StreamState
        <5>4. CASE op \notin {"setup", "begin_abits", "request"}
          BY <5>4, <4>2
        <5> QED BY <5>1, <5>2, <5>3, <5>4
      <4> QED BY <4>3, <3>1, <1>2
    <3> QED BY <3>2, <3>3
  <2> QED BY <2>1, <2>2
<1>7. z.str[s].tot[p] <= y.str[s].tot[p]
  <2>1. f[0].tot[p] <= f[Len(M)].tot[p]
    <3> HIDE DEF f, M
    <3> QED BY <1>3, <1>4
  <2> QED BY <2>1, <1>2, <1>6
<1>8. \A i \in Nat : f[i] \in StreamState /\ f[i].tot[p] \in Int
  <2> HIDE DEF f
  <2> QED BY <1>2, <1>5
<1> QED BY <1>2, <1>3, <1>4, <1>5, <1>6, <1>7, <1>8

\* Words only add up, and none is sent once both are through.
LEMMA RunGrows ==
    ASSUME NEW j \in Jobs, NEW par \in [Party -> Param], NEW s \in Stream, NEW p \in Party,
           NEW k \in Nat
    PROVE  \A l \in Nat : /\ k <= l => Run(j, par)[k].str[s].tot[p] <= Run(j, par)[l].str[s].tot[p]
                          /\ k <= l /\ Ended(Run(j, par)[k]) => Run(j, par)[l] = Run(j, par)[k]
<1> DEFINE f == Run(j, par)
           D == {l \in Nat : k <= l => /\ f[k].str[s].tot[p] <= f[l].str[s].tot[p]
                                       /\ Ended(f[k]) => f[l] = f[k]}
<1>1. \A n \in Nat : f[n] \in InLockstep(j, par) /\ f[n + 1] = Advance(par, f[n])
  BY RunStep
<1>2. ASSUME NEW n \in Nat
      PROVE  /\ f[n].str[s].tot[p] \in Int
             /\ f[n].str[s].tot[p] <= f[n + 1].str[s].tot[p]
             /\ Ended(f[n]) => f[n + 1] = f[n]
  <2>1. f[n] \in InLockstep(j, par) /\ f[n + 1] = Advance(par, f[n])
    BY <1>1
  <2> HIDE DEF f
  <2>2. f[n].str[s].tot[p] \in Int /\ f[n].str[s].tot[p] <= Advance(par, f[n]).str[s].tot[p]
    BY <2>1, Totals
  <2>3. Ended(f[n]) => f[n + 1] = f[n]
    BY <2>1 DEF Advance
  <2> QED BY <2>1, <2>2, <2>3
<1> HIDE DEF f
<1>3. 0 \in D
  <2>1. k <= 0 => k = 0
    OBVIOUS
  <2> QED BY <2>1, <1>2
<1>4. ASSUME NEW n \in Nat, n \in D PROVE n + 1 \in D
  <2>1. CASE k <= n
    <3>1. f[k].str[s].tot[p] <= f[n].str[s].tot[p] /\ (Ended(f[k]) => f[n] = f[k])
      BY <2>1, <1>4
    <3>2. f[k].str[s].tot[p] <= f[n + 1].str[s].tot[p]
      <4>1. f[k].str[s].tot[p] \in Int /\ f[n].str[s].tot[p] \in Int /\ f[n + 1].str[s].tot[p] \in Int
        BY <1>2
      <4> QED BY <4>1, <3>1, <1>2
    <3>3. Ended(f[k]) => f[n + 1] = f[k]
      BY <3>1, <1>2
    <3> QED BY <3>2, <3>3
  <2>2. CASE ~(k <= n)
    <3>1. k <= n + 1 => k = n + 1
      BY <2>2
    <3> QED BY <3>1, <1>2
  <2> QED BY <2>1, <2>2
<1> HIDE DEF D
<1>5. Nat \subseteq D
  BY <1>3, <1>4, NatInd
<1> QED BY <1>5 DEF D, f

\* The i-th message of the k-th call brings p's n-th word on s.
Brings(f, par, p, s, n, k, i) ==
    LET m == Messages1(f[k], s)[i]
        e == Branch(par, f[k], s)[i - 1]
    IN  /\ i \in 1..Len(Messages1(f[k], s)) /\ Sender(m) = p
        /\ e.tot[p] < n /\ n <= e.tot[p] + m.n
WordOf(f, par, p, s, k, i) ==
    LET kind == Messages1(f[k], s)[i].kind
    IN  [kind |-> kind, val |-> Carries(par, f[k].coins, Branch(par, f[k], s)[i - 1], p, kind)]
Sent(f, par, p, s, n, w) ==
    \E k \in Nat, i \in Nat : Brings(f, par, p, s, n, k, i) /\ w = WordOf(f, par, p, s, k, i)

\* Where a message lies in the run.
LEMMA Brought ==
    ASSUME NEW j \in Jobs, NEW par \in [Party -> Param], NEW p \in Party, NEW s \in Stream,
           NEW n \in Int, NEW k \in Nat, NEW i \in Nat,
           Brings(Run(j, par), par, p, s, n, k, i)
    PROVE  /\ i - 1 \in Nat /\ i <= Len(Messages1(Run(j, par)[k], s))
           /\ Branch(par, Run(j, par)[k], s)[i - 1].tot[p] < n
           /\ n <= Branch(par, Run(j, par)[k], s)[i].tot[p]
           /\ Run(j, par)[k].str[s].tot[p] < n
           /\ n <= Run(j, par)[k + 1].str[s].tot[p]
<1> DEFINE z == Run(j, par)[k]
           M == Messages1(z, s)
           e == Branch(par, z, s)
           m == M[i]
<1>1. z \in InLockstep(j, par) /\ Run(j, par)[k + 1] = Advance(par, z)
  BY RunStep
<1>2. /\ i \in 1..Len(M) /\ Sender(m) = p /\ e[i - 1].tot[p] < n /\ n <= e[i - 1].tot[p] + m.n
  BY DEF Brings
<1>3. Streams(z)
  BY <1>1, InLock
<1>4. /\ Len(M) \in Nat
      /\ \A l \in Nat : e[l] \in StreamState /\ e[l].tot[p] \in Int
      /\ z.str[s].tot[p] \in Int
      /\ e[0] = z.str[s]
      /\ \A l, o \in Nat : l <= o => e[l].tot[p] <= e[o].tot[p]
      /\ Advance(par, z).str[s].tot[p] = e[Len(M)].tot[p]
  <2> HIDE DEF z
  <2> QED BY <1>1, Totals
<1>5. i - 1 \in Nat /\ i - 1 < Len(M) /\ (i - 1) + 1 = i
  BY <1>2, <1>4
<1>6. m \in Message /\ e[i] = Passed(par, z, e[i - 1], m)
  <2>1. \A l \in Nat : l < Len(M) => M[l + 1] \in Message /\ e[l + 1] = Passed(par, z, e[l], M[l + 1])
    BY <1>3, BranchStep
  <2> HIDE DEF M, e
  <2> QED BY <1>5, <2>1
<1> HIDE DEF M, e, m, z
<1>7. e[i].tot[p] = e[i - 1].tot[p] + m.n
  BY <1>2, <1>3, <1>4, <1>5, <1>6, PassedFacts
<1>8. e[0].tot[p] <= e[i - 1].tot[p] /\ e[i].tot[p] <= e[Len(M)].tot[p] /\ i <= Len(M)
  BY <1>2, <1>4, <1>5
<1>9. e[i - 1].tot[p] \in Int /\ e[i].tot[p] \in Int /\ e[Len(M)].tot[p] \in Int /\ e[0].tot[p] \in Int
  BY <1>4, <1>5
<1>10. z.str[s].tot[p] < n /\ n <= e[i].tot[p] /\ n <= e[Len(M)].tot[p]
  BY <1>2, <1>4, <1>7, <1>8, <1>9, SMTT(30)
<1> QED BY <1>1, <1>2, <1>4, <1>5, <1>8, <1>10 DEF e, z, M, m

\* The run says of every word what it is.
LEMMA SentOnce ==
    ASSUME NEW j \in Jobs, NEW par \in [Party -> Param], NEW p \in Party, NEW s \in Stream,
           NEW n \in Int, NEW w, Sent(Run(j, par), par, p, s, n, w)
    PROVE  \A k \in Nat, i \in Nat : Brings(Run(j, par), par, p, s, n, k, i)
                => w = WordOf(Run(j, par), par, p, s, k, i)
<1> DEFINE f == Run(j, par)
<1>1. PICK k \in Nat, i \in Nat : Brings(f, par, p, s, n, k, i) /\ w = WordOf(f, par, p, s, k, i)
  BY DEF Sent
<1>2. SUFFICES ASSUME NEW l \in Nat, NEW q \in Nat, Brings(f, par, p, s, n, l, q)
               PROVE  k = l /\ i = q
  BY <1>1
<1>3. /\ i - 1 \in Nat
      /\ Branch(par, f[k], s)[i - 1].tot[p] < n /\ n <= Branch(par, f[k], s)[i].tot[p]
      /\ f[k].str[s].tot[p] < n /\ n <= f[k + 1].str[s].tot[p]
  BY <1>1, Brought
<1>4. /\ q - 1 \in Nat
      /\ Branch(par, f[l], s)[q - 1].tot[p] < n /\ n <= Branch(par, f[l], s)[q].tot[p]
      /\ f[l].str[s].tot[p] < n /\ n <= f[l + 1].str[s].tot[p]
  BY <1>2, Brought
<1>5. ASSUME NEW x \in Nat
      PROVE  /\ f[x].str[s].tot[p] \in Int
             /\ \A y \in Nat : x <= y => f[x].str[s].tot[p] <= f[y].str[s].tot[p]
             /\ \A y \in Nat : Branch(par, f[x], s)[y].tot[p] \in Int
             /\ \A y, v \in Nat : y <= v => Branch(par, f[x], s)[y].tot[p] <= Branch(par, f[x], s)[v].tot[p]
  <2>1. f[x] \in InLockstep(j, par)
    BY RunStep
  <2>2. \A y \in Nat : x <= y => f[x].str[s].tot[p] <= f[y].str[s].tot[p]
    BY RunGrows
  <2> HIDE DEF f
  <2> QED BY <2>1, <2>2, Totals
<1> HIDE DEF f
<1>6. k = l
  <2>1. ASSUME k < l PROVE FALSE
    <3>1. k + 1 \in Nat /\ k + 1 <= l
      BY <2>1
    <3>2. f[k + 1].str[s].tot[p] <= f[l].str[s].tot[p]
      BY <3>1, <1>5
    <3> QED BY <3>1, <3>2, <1>3, <1>4, <1>5
  <2>2. ASSUME l < k PROVE FALSE
    <3>1. l + 1 \in Nat /\ l + 1 <= k
      BY <2>2
    <3>2. f[l + 1].str[s].tot[p] <= f[k].str[s].tot[p]
      BY <3>1, <1>5
    <3> QED BY <3>1, <3>2, <1>3, <1>4, <1>5
  <2> QED BY <2>1, <2>2
<1>7. i = q
  <2> DEFINE e == Branch(par, f[k], s)
  <2>0. /\ e[i - 1].tot[p] < n /\ n <= e[i].tot[p] /\ e[q - 1].tot[p] < n /\ n <= e[q].tot[p]
        /\ \A y \in Nat : e[y].tot[p] \in Int
        /\ \A y, v \in Nat : y <= v => e[y].tot[p] <= e[v].tot[p]
    BY <1>3, <1>4, <1>5, <1>6
  <2> HIDE DEF e
  <2>1. ASSUME i < q PROVE FALSE
    <3>1. i <= q - 1
      BY <2>1
    <3>2. e[i].tot[p] <= e[q - 1].tot[p]
      BY <3>1, <1>4, <2>0
    <3> QED BY <3>2, <1>4, <2>0
  <2>2. ASSUME q < i PROVE FALSE
    <3>1. q <= i - 1
      BY <2>2
    <3>2. e[q].tot[p] <= e[i - 1].tot[p]
      BY <3>1, <1>3, <2>0
    <3> QED BY <3>2, <1>3, <2>0
  <2> QED BY <2>1, <2>2
<1> QED BY <1>6, <1>7

-----------------------------------------------------------------------------
(* Where the parties are in the run.                                       *)

\* Where a party is in the run: in the k-th call, i messages through a branch of
\* it, and part words into the next.
Position == [k : Nat, i : [Stream -> Nat], part : [Stream -> Nat]]
OnStream(f, par, o, s) == Branch(par, f[o.k], s)[o.i[s]]

\* What is left of a branch: i messages are through, and part of the next.
Rest(O, i, part, R) ==
    /\ Len(R) = Len(O) - i
    /\ \A x \in 1..Len(R) : R[x] = IF x = 1 THEN [O[i + 1] EXCEPT !.n = @ - part]
                                            ELSE O[i + x]

\* Only a sender stops within a message.
Valid(f, p, o) ==
    \A s \in Stream :
        LET M == Messages1(f[o.k], s)
        IN  /\ o.i[s] \in 0..Len(M)
            /\ o.part[s] > 0 => /\ o.i[s] < Len(M)
                                /\ o.part[s] < M[o.i[s] + 1].n
                                /\ Sender(M[o.i[s] + 1]) = p

\* A party's own state agrees with where it is.
AgreesOn(f, par, p, r, o, s) ==
    LET e == OnStream(f, par, o, s)
        on == f[o.k].on
    IN  /\ r.fs[s] = [on |-> on, first |-> on /\ p = "Alice",
                      sent |-> e.cnt[p] + (IF on THEN o.part[s] ELSE 0),
                      recd |-> e.cnt[Peer(p)]]
        /\ r.abit[AbitOf(p, s)] = [setup |-> f[o.k].setup, left |-> f[o.k].left, check |-> e.chk]
Agrees(f, par, p, r, o) ==
    /\ r.minted = f[o.k].minted /\ r.coins = f[o.k].coins
    /\ r.got = OnStream(f, par, o, "main").got[p]
    /\ \A s \in Stream : AgreesOn(f, par, p, r, o, s)

\* Its stack is what the run leaves of it.
Stacked(f, p, r, o) ==
    LET t == f[o.k].todo[p]
    IN  IF InJoin(f[o.k])
        THEN /\ r.todo # <<>> /\ Tail(r.todo) = Tail(t) /\ r.todo[1].op = "join"
             /\ r.todo[1].main # <<>> \/ r.todo[1].sibling # <<>>
             /\ \A s \in Stream : Rest(t[1][s], o.i[s], o.part[s], r.todo[1][s])
        ELSE r.todo = t

\* Bob waits for a target that will not be named.
Idle(j, f, p, r, o) ==
    /\ p = "Bob" /\ Ended(f[o.k]) /\ j = "session"
    /\ r.todo = <<TargetJoin("Bob"), Precompute, Serve>>

\* A party is at o; one that has failed has left the run there.
Placed(j, f, par, p, r, o) ==
    /\ Valid(f, p, o)
    /\ r.run = "running" => (Stacked(f, p, r, o) \/ Idle(j, f, p, r, o)) /\ Agrees(f, par, p, r, o)

\* The words of a stream a party has sent and consumed, at o.
HasSent(f, par, p, o, s) == OnStream(f, par, o, s).tot[p] + o.part[s]
HasReceived(f, par, p, o, s) == OnStream(f, par, o, s).tot[Peer(p)]

\* The words between what a party has consumed and what its peer has sent.
OnTheWay(f, par, p, s, W, B, from, to) ==
    /\ \A x \in 1..Len(B) : Sent(f, par, p, s, from + x, B[x])
    /\ \E off \in [0..Len(W) -> Int] :
          /\ off[0] = from + Len(B) /\ off[Len(W)] = to /\ from + Len(B) <= to
          /\ \A y \in 1..Len(W) :
                /\ off[y] = off[y - 1] + Len(W[y])
                /\ \A x \in 1..Len(W[y]) : Sent(f, par, p, s, off[y - 1] + x, W[y][x])

-----------------------------------------------------------------------------
(* A party between two calls.                                              *)

\* A party's state is the one the run has between two calls.
Fits(z, p, r) ==
    /\ r.todo = z.todo[p]
    /\ r.minted = z.minted /\ r.coins = z.coins /\ r.got = z.str["main"].got[p]
    /\ \A s \in Stream :
          /\ r.fs[s] = [on |-> z.on, first |-> z.on /\ p = "Alice",
                        sent |-> z.str[s].cnt[p], recd |-> z.str[s].cnt[Peer(p)]]
          /\ r.abit[AbitOf(p, s)] = [setup |-> z.setup, left |-> z.left, check |-> z.str[s].chk]

\* At the start of the k-th call.
AtStart(k) == [k |-> k, i |-> [s \in Stream |-> 0], part |-> [s \in Stream |-> 0]]

LEMMA Still ==
    ASSUME NEW j, NEW par \in [Party -> Param], NEW z \in InLockstep(j, par), ~InJoin(z),
           NEW s \in Stream, NEW p \in Party
    PROVE  Advance(par, z).str[s].tot[p] = z.str[s].tot[p]
<1>1. Messages1(z, s) = <<>> /\ Len(<<>>) = 0
  BY DEF Messages1
<1>2. /\ Branch(par, z, s)[0] = z.str[s]
      /\ Advance(par, z).str[s].tot[p] = Branch(par, z, s)[Len(Messages1(z, s))].tot[p]
  BY Totals
<1> QED BY <1>1, <1>2

LEMMA DualMine ==
    ASSUME NEW s, NEW a, NEW b, DualMessage(s, a, b)
    PROVE  /\ a \in Message /\ b \in Message /\ b.kind = a.kind /\ b.n = a.n
           /\ a.dir = "send" <=> Sender(a) = "Alice"
           /\ b.dir = "send" <=> Sender(a) = "Bob"
           /\ a.kind \in {"d", "t"} => (Sender(a) = "Alice") = (s = "main")
           /\ a.kind \in {"circuit", "target"} => s = "main"
<1>1. /\ a \in Message /\ b \in Message
      /\ a.kind = b.kind /\ a.n = b.n /\ a.dir # b.dir
      /\ a.kind \in {"d", "t"} => (a.dir = "send") = (s = "main")
      /\ a.kind \in {"circuit", "target"} => s = "main"
  BY DEF DualMessage
<1>2. a.dir \in {"send", "recv"} /\ b.dir \in {"send", "recv"}
  BY <1>1 DEF Message
<1>3. a.dir = "send" <=> Sender(a) = "Alice"
  BY DEF Sender
<1>4. b.dir = "send" <=> Sender(a) = "Bob"
  BY <1>1, <1>2 DEF Sender
<1> QED BY <1>1, <1>3, <1>4

\* A join, as each party has it on its stack.
JoinSides(z, p, s, O, M) ==
    /\ O \in Seq(Message) /\ M \in Seq(Message) /\ Len(O) = Len(M)
    /\ \A i \in 1..Len(M) :
          LET m == M[i]
              o == O[i]
          IN  /\ m \in Message /\ o \in Message /\ o.kind = m.kind /\ o.n = m.n
              /\ o.dir = "send" <=> Sender(m) = p
              /\ m.kind \in {"d", "t"} => (Sender(m) = "Alice") = (s = "main")
              /\ m.kind \in {"circuit", "target"} => s = "main"
LEMMA JoinHere ==
    ASSUME NEW j, NEW par, NEW z \in InLockstep(j, par), InJoin(z), NEW p \in Party
    PROVE  /\ z.todo[p] \in Seq(AnyCall) /\ z.todo[p] # <<>> /\ z.todo[p][1].op = "join"
           /\ z.todo[p][1].main # <<>> \/ z.todo[p][1].sibling # <<>>
           /\ \A s \in Stream : JoinSides(z, p, s, z.todo[p][1][s], Messages1(z, s))
<1> DEFINE a == z.todo["Alice"][1]
           b == z.todo["Bob"][1]
<1>1. DualStacks(j, z.todo["Alice"], z.todo["Bob"]) /\ z \in LockState
  BY InLock
<1>2. z.todo["Alice"] # <<>> /\ a.op = "join"
  BY DEF InJoin
<1>3. z.todo["Bob"] # <<>> /\ DualCall(a, b)
  BY <1>1, <1>2, Heads
<1>4. b.op = "join" /\ DualJoin(a, b)
  BY <1>2, <1>3, Duals
<1>5. z.todo["Alice"] \in Seq(AnyCall) /\ z.todo["Bob"] \in Seq(AnyCall)
  BY <1>1, LockTypes
<1>6. \A s \in Stream : Messages1(z, s) = a[s]
  BY DEF Messages1
<1> HIDE DEF a, b
<1>7. (a.main # <<>> \/ a.sibling # <<>>) /\ \A s \in Stream : DualBranch(s, a[s], b[s])
  BY <1>4 DEF DualJoin
<1>8. ASSUME NEW s \in Stream
      PROVE  /\ a[s] \in Seq(Message) /\ b[s] \in Seq(Message) /\ Len(a[s]) = Len(b[s])
             /\ \A i \in 1..Len(a[s]) : DualMessage(s, a[s][i], b[s][i])
  <2>1. DualBranch(s, a[s], b[s])
    BY <1>7
  <2> QED BY <2>1 DEF DualBranch
<1>9. b.main # <<>> \/ b.sibling # <<>>
  <2>1. a["main"] = a.main /\ a["sibling"] = a.sibling /\ b["main"] = b.main /\ b["sibling"] = b.sibling
    OBVIOUS
  <2>2. ASSUME NEW u \in Seq(Message), NEW v \in Seq(Message), Len(u) = Len(v), v = <<>> PROVE u = <<>>
    BY <2>2
  <2>3. b.main = <<>> => a.main = <<>>
    BY <1>8, <2>2 DEF Stream
  <2>4. b.sibling = <<>> => a.sibling = <<>>
    BY <1>8, <2>2 DEF Stream
  <2> QED BY <1>7, <2>3, <2>4
<1>10. ASSUME NEW s \in Stream, NEW i \in 1..Len(a[s]), NEW c, c = z.todo[p][1]
       PROVE  LET m == a[s][i]
                  o == c[s][i]
              IN  /\ m \in Message /\ o \in Message /\ o.kind = m.kind /\ o.n = m.n
                  /\ o.dir = "send" <=> Sender(m) = p
                  /\ m.kind \in {"d", "t"} => (Sender(m) = "Alice") = (s = "main")
                  /\ m.kind \in {"circuit", "target"} => s = "main"
  <2>1. DualMessage(s, a[s][i], b[s][i])
    BY <1>8
  <2> DEFINE m == a[s][i]
             v == b[s][i]
  <2> HIDE DEF m, v
  <2>2. /\ m \in Message /\ v \in Message /\ v.kind = m.kind /\ v.n = m.n
        /\ m.dir = "send" <=> Sender(m) = "Alice"
        /\ v.dir = "send" <=> Sender(m) = "Bob"
        /\ m.kind \in {"d", "t"} => (Sender(m) = "Alice") = (s = "main")
        /\ m.kind \in {"circuit", "target"} => s = "main"
    BY <2>1, DualMine DEF m, v
  <2>3. CASE p = "Alice"
    <3>1. c = a
      BY <2>3, <1>10 DEF a
    <3> QED BY <2>2, <2>3, <3>1 DEF m
  <2>4. CASE p = "Bob"
    <3>1. c = b
      BY <2>4, <1>10 DEF b
    <3> QED BY <2>2, <2>4, <3>1 DEF m, v
  <2> QED BY <2>3, <2>4 DEF Party
<1>11. z.todo[p][1] = a \/ z.todo[p][1] = b
  BY DEF a, b, Party
<1>12. z.todo[p] \in Seq(AnyCall) /\ z.todo[p] # <<>>
  BY <1>2, <1>3, <1>5 DEF Party
<1> DEFINE c == z.todo[p][1]
<1>13. c = a \/ c = b
  BY <1>11
<1> HIDE DEF c
<1>14. c.op = "join" /\ (c.main # <<>> \/ c.sibling # <<>>)
  BY <1>2, <1>4, <1>7, <1>9, <1>13
<1>15. \A s \in Stream : c[s] \in Seq(Message) /\ Len(c[s]) = Len(a[s]) /\ a[s] \in Seq(Message)
  BY <1>8, <1>13
<1>16. \A s \in Stream : \A i \in 1..Len(a[s]) :
              LET m == a[s][i]
                  o == c[s][i]
              IN  /\ m \in Message /\ o \in Message /\ o.kind = m.kind /\ o.n = m.n
                  /\ o.dir = "send" <=> Sender(m) = p
                  /\ m.kind \in {"d", "t"} => (Sender(m) = "Alice") = (s = "main")
                  /\ m.kind \in {"circuit", "target"} => s = "main"
  BY <1>10 DEF c
<1>17. \A s \in Stream : JoinSides(z, p, s, c[s], a[s])
  BY <1>15, <1>16 DEF JoinSides
<1>18. \A s \in Stream : JoinSides(z, p, s, c[s], Messages1(z, s))
  BY <1>6, <1>17
<1> QED BY <1>12, <1>14, <1>18 DEF c

\* A party at the start of a call.
Starts(j, par, p, k, r) ==
    LET f == Run(j, par)
        o == AtStart(k)
    IN  /\ o \in Position /\ o.k = k
        /\ Placed(j, f, par, p, r, o)
        /\ \A q \in Party, s \in Stream :
              /\ HasSent(f, par, q, o, s) = f[k].str[s].tot[q]
              /\ HasReceived(f, par, q, o, s) = f[k].str[s].tot[Peer(q)]

\* A party whose state fits is at the start of the call.
LEMMA StartsPlaced ==
    ASSUME NEW j \in Jobs, NEW par \in [Party -> Param], NEW p \in Party, NEW k \in Nat,
           NEW r, Fits(Run(j, par)[k], p, r)
    PROVE  Starts(j, par, p, k, r)
<1> DEFINE f == Run(j, par)
           z == f[k]
           o == AtStart(k)
<1>1. z \in InLockstep(j, par)
  BY RunStep
<1>2. o \in Position /\ o.k = k /\ \A s \in Stream : o.i[s] = 0 /\ o.part[s] = 0
  BY DEF AtStart, Position
<1>3. ASSUME NEW s \in Stream
      PROVE  /\ OnStream(f, par, o, s) = z.str[s] /\ z.str[s] \in StreamState
             /\ Len(Messages1(z, s)) \in Nat
             /\ \A q \in Party : z.str[s].tot[q] \in Int /\ z.str[s].cnt[q] \in Int
  <2>1. OnStream(f, par, o, s) = Branch(par, z, s)[0]
    BY <1>2 DEF OnStream
  <2> HIDE DEF z
  <2>2. /\ Branch(par, z, s)[0] = z.str[s] /\ z.str[s] \in StreamState
        /\ Len(Messages1(z, s)) \in Nat
        /\ \A q \in Party : z.str[s].tot[q] \in Int
    BY <1>1, Totals DEF Party
  <2>3. \A q \in Party : z.str[s].cnt[q] \in Int
    BY <2>2 DEF StreamState
  <2> QED BY <2>1, <2>2, <2>3
<1>4. Valid(f, p, o)
  <2> SUFFICES ASSUME NEW s \in Stream
               PROVE  0 \in 0..Len(Messages1(z, s)) /\ ~(0 > 0)
    BY <1>2 DEF Valid
  <2> QED BY <1>3
<1>5. ASSUME NEW s \in Stream PROVE AgreesOn(f, par, p, r, o, s)
  <2>1. /\ r.fs[s] = [on |-> z.on, first |-> z.on /\ p = "Alice",
                      sent |-> z.str[s].cnt[p], recd |-> z.str[s].cnt[Peer(p)]]
        /\ r.abit[AbitOf(p, s)] = [setup |-> z.setup, left |-> z.left, check |-> z.str[s].chk]
    BY DEF Fits
  <2>2. z.str[s].cnt[p] + (IF z.on THEN 0 ELSE 0) = z.str[s].cnt[p]
    BY <1>3
  <2>3. OnStream(f, par, o, s) = z.str[s] /\ o.part[s] = 0 /\ f[o.k] = z
    BY <1>2, <1>3
  <2> HIDE DEF z, o
  <2> QED BY <2>1, <2>2, <2>3 DEF AgreesOn
<1>6. Agrees(f, par, p, r, o)
  <2>1. r.minted = z.minted /\ r.coins = z.coins /\ r.got = z.str["main"].got[p]
    BY DEF Fits
  <2>2. OnStream(f, par, o, "main") = z.str["main"] /\ f[o.k] = z
    BY <1>2, <1>3 DEF Stream
  <2> HIDE DEF z, o, f
  <2> QED BY <1>5, <2>1, <2>2 DEF Agrees
<1>7. Stacked(f, p, r, o)
  <2>1. r.todo = z.todo[p] /\ f[o.k] = z
    BY <1>2 DEF Fits
  <2>2. CASE ~InJoin(z)
    BY <2>1, <2>2 DEF Stacked
  <2>3. CASE InJoin(z)
    <3>1. /\ z.todo[p] # <<>> /\ z.todo[p][1].op = "join"
          /\ z.todo[p][1].main # <<>> \/ z.todo[p][1].sibling # <<>>
          /\ \A s \in Stream : z.todo[p][1][s] \in Seq(Message)
      BY <1>1, <2>3, JoinHere DEF JoinSides
    <3>2. ASSUME NEW s \in Stream PROVE Rest(z.todo[p][1][s], 0, 0, z.todo[p][1][s])
      <4> DEFINE O == z.todo[p][1][s]
      <4>1. O \in Seq(Message)
        BY <3>1
      <4> HIDE DEF O
      <4>2. ASSUME NEW x \in 1..Len(O)
            PROVE  O[x] = IF x = 1 THEN [O[0 + 1] EXCEPT !.n = @ - 0] ELSE O[0 + x]
        <5>1. CASE x = 1
          <6>1. O[1] \in Message
            BY <4>1, <5>1
          <6>2. O[1].n - 0 = O[1].n
            BY <6>1 DEF Message
          <6>3. [O[1] EXCEPT !.n = O[1].n] = O[1]
            BY <6>1 DEF Message
          <6> QED BY <5>1, <6>2, <6>3
        <5>2. CASE x # 1
          BY <5>2
        <5> QED BY <5>1, <5>2
      <4>3. Rest(O, 0, 0, O)
        <5>1. Len(O) = Len(O) - 0
          BY <4>1
        <5> QED BY <4>2, <5>1 DEF Rest
      <4> QED BY <4>3 DEF O
    <3>3. \A s \in Stream : Rest(z.todo[p][1][s], o.i[s], o.part[s], z.todo[p][1][s])
      BY <1>2, <3>2
    <3> HIDE DEF z, o
    <3> QED BY <2>1, <2>3, <3>1, <3>3 DEF Stacked
  <2> QED BY <2>2, <2>3
<1>8. ASSUME NEW q \in Party, NEW s \in Stream
      PROVE  /\ HasSent(f, par, q, o, s) = z.str[s].tot[q]
             /\ HasReceived(f, par, q, o, s) = z.str[s].tot[Peer(q)]
  <2>1. OnStream(f, par, o, s) = z.str[s] /\ o.part[s] = 0 /\ z.str[s].tot[q] \in Int
    BY <1>2, <1>3
  <2> HIDE DEF z, o, f
  <2> QED BY <2>1 DEF HasSent, HasReceived
<1>9. Placed(j, f, par, p, r, o)
  <2> HIDE DEF f, z, o
  <2> QED BY <1>4, <1>6, <1>7 DEF Placed
<1> QED BY <1>2, <1>8, <1>9, Zenon DEF Starts

\* A party in a call that is no join has the state the run has before it.
LEMMA PlacedFits ==
    ASSUME NEW j \in Jobs, NEW par \in [Party -> Param], NEW p \in Party, NEW o \in Position,
           NEW r, ~InJoin(Run(j, par)[o.k]), Valid(Run(j, par), p, o),
           Stacked(Run(j, par), p, r, o), Agrees(Run(j, par), par, p, r, o)
    PROVE  /\ o.k \in Nat /\ o = AtStart(o.k) /\ Fits(Run(j, par)[o.k], p, r)
<1> DEFINE f == Run(j, par)
           z == f[o.k]
<1>1. o.k \in Nat /\ o.i \in [Stream -> Nat] /\ o.part \in [Stream -> Nat]
      /\ o = [k |-> o.k, i |-> o.i, part |-> o.part]
  BY DEF Position
<1>2. z \in InLockstep(j, par)
  BY <1>1, RunStep
<1>3. ASSUME NEW s \in Stream PROVE o.i[s] = 0 /\ o.part[s] = 0
  <2>1. Messages1(z, s) = <<>> /\ Len(<<>>) = 0
    BY DEF Messages1
  <2>2. o.i[s] \in 0..0 /\ (o.part[s] > 0 => o.i[s] < 0)
    BY <2>1 DEF Valid
  <2>3. o.i[s] \in Nat /\ o.part[s] \in Nat
    BY <1>1
  <2> QED BY <2>2, <2>3
<1>4. o = AtStart(o.k)
  <2>1. o.i = [s \in Stream |-> 0] /\ o.part = [s \in Stream |-> 0]
    BY <1>1, <1>3
  <2> QED BY <2>1, <1>1 DEF AtStart
<1>5. ASSUME NEW s \in Stream
      PROVE  OnStream(f, par, o, s) = z.str[s] /\ \A q \in Party : z.str[s].cnt[q] \in Int
  <2>1. OnStream(f, par, o, s) = Branch(par, z, s)[0]
    BY <1>3 DEF OnStream
  <2> HIDE DEF z
  <2>2. Branch(par, z, s)[0] = z.str[s] /\ z.str[s] \in StreamState
    BY <1>2, Totals DEF Party
  <2>3. \A q \in Party : z.str[s].cnt[q] \in Int
    BY <2>2 DEF StreamState
  <2> QED BY <2>1, <2>2, <2>3
<1> HIDE DEF z
<1>6. r.todo = z.todo[p]
  BY DEF Stacked, z
<1>7. /\ r.minted = z.minted /\ r.coins = z.coins
      /\ r.got = OnStream(f, par, o, "main").got[p]
      /\ \A s \in Stream : AgreesOn(f, par, p, r, o, s)
  BY DEF Agrees, z
<1>8. OnStream(f, par, o, "main") = z.str["main"]
  BY <1>5 DEF Stream
<1>9. ASSUME NEW s \in Stream
      PROVE  /\ r.fs[s] = [on |-> z.on, first |-> z.on /\ p = "Alice",
                           sent |-> z.str[s].cnt[p], recd |-> z.str[s].cnt[Peer(p)]]
             /\ r.abit[AbitOf(p, s)] = [setup |-> z.setup, left |-> z.left, check |-> z.str[s].chk]
  <2>1. AgreesOn(f, par, p, r, o, s)
    BY <1>7
  <2>2. OnStream(f, par, o, s) = z.str[s] /\ o.part[s] = 0 /\ z.str[s].cnt[p] \in Int
    BY <1>3, <1>5
  <2>3. z.str[s].cnt[p] + (IF z.on THEN 0 ELSE 0) = z.str[s].cnt[p]
    BY <2>2
  <2> QED BY <2>1, <2>2, <2>3 DEF AgreesOn, z
<1>10. Fits(z, p, r)
  BY <1>6, <1>7, <1>8, <1>9 DEF Fits
<1> QED BY <1>1, <1>4, <1>10 DEF z

-----------------------------------------------------------------------------
(* Transcripts that are off count nothing.                                 *)

LEMMA BranchOff ==
    ASSUME NEW par \in [Party -> Param], NEW z, Streams(z), NEW s \in Stream, ~z.on
    PROVE  \A n \in Nat : Branch(par, z, s)[n].cnt = z.str[s].cnt
<1> DEFINE f == Branch(par, z, s)
           D == {n \in Nat : f[n].cnt = z.str[s].cnt}
<1>1. /\ f[0] = z.str[s]
      /\ \A n \in Nat : f[n + 1] = IF n < Len(Messages1(z, s))
                              THEN Passed(par, z, f[n], Messages1(z, s)[n + 1])
                              ELSE f[n]
  <2>1. IsBranch(par, z, s, f)
    BY BranchIs
  <2> HIDE DEF f
  <2> QED BY <2>1 DEF IsBranch
<1> HIDE DEF f
<1>2. 0 \in D
  BY <1>1
<1>3. ASSUME NEW n \in Nat, n \in D PROVE n + 1 \in D
  <2>1. \A e, m : Passed(par, z, e, m).cnt = e.cnt
    BY DEF Passed
  <2>2. f[n + 1].cnt = f[n].cnt
    BY <2>1, <1>1, ZenonT(40)
  <2> QED BY <2>2, <1>3
<1> HIDE DEF D
<1>4. Nat \subseteq D
  BY <1>2, <1>3, NatInd
<1> QED BY <1>4 DEF D, f

Uncounted(z) == ~z.on => \A s \in Stream, p \in Party : z.str[s].cnt[p] = 0

LEMMA OffZero ==
    ASSUME NEW j \in Jobs, NEW par \in [Party -> Param]
    PROVE  \A k \in Nat : Uncounted(Run(j, par)[k])
<1> DEFINE f == Run(j, par)
           D == {k \in Nat : Uncounted(f[k])}
<1>1. f[0] = Start(j) /\ \A n \in Nat : f[n] \in InLockstep(j, par) /\ f[n + 1] = Advance(par, f[n])
  BY RunStep
<1> HIDE DEF f
<1>2. 0 \in D
  <2>1. Uncounted(Start(j))
    BY DEF Uncounted, Start
  <2> QED BY <2>1, <1>1
<1>3. ASSUME NEW n \in Nat, n \in D PROVE n + 1 \in D
  <2> DEFINE z == f[n]
             y == Advance(par, z)
  <2>1. z \in InLockstep(j, par) /\ f[n + 1] = y /\ Uncounted(z)
    BY <1>1, <1>3
  <2> HIDE DEF z
  <2>2. Streams(z)
    BY <2>1, InLock
  <2>3. Uncounted(y)
    <3> SUFFICES ASSUME ~y.on, NEW s \in Stream, NEW p \in Party PROVE y.str[s].cnt[p] = 0
      BY DEF Uncounted
    <3>1. CASE Ended(z)
      <4>1. y = z
        BY <3>1 DEF Advance
      <4> QED BY <4>1, <2>1 DEF Uncounted
    <3>2. CASE ~Ended(z)
      <4> DEFINE op == z.todo["Alice"][1].op
      <4>1. y = Lockstep(par, z)
        BY <3>2 DEF Advance
      <4>2. /\ y.on = (z.on \/ op = "setup")
            /\ y.str[s] = CASE op = "join" -> Branch(par, z, s)[Len(Messages1(z, s))]
                            [] op = "setup" -> [z.str[s] EXCEPT !.cnt = [q \in Party |-> 0]]
                            [] op = "begin_abits" -> [z.str[s] EXCEPT !.chk = <<>>]
                            [] op = "request" -> [z.str[s] EXCEPT !.got["Alice"] = z.todo["Alice"][1].arg]
                            [] OTHER -> z.str[s]
        BY <4>1 DEF Lockstep
      <4> HIDE DEF y, op
      <4>3. ~z.on /\ op # "setup"
        BY <4>2
      <4>4. z.str[s].cnt[p] = 0 /\ z.str[s] \in StreamState
        BY <4>3, <2>1, <2>2 DEF Uncounted, Streams
      <4>5. y.str[s].cnt = z.str[s].cnt
        <5>1. CASE op = "join"
          <6>1. Len(Messages1(z, s)) \in Nat
            BY <2>2 DEF Streams
          <6>2. Branch(par, z, s)[Len(Messages1(z, s))].cnt = z.str[s].cnt
            BY <6>1, <4>3, <2>2, BranchOff
          <6> QED BY <6>2, <5>1, <4>2
        <5>2. CASE op = "begin_abits"
          BY <5>2, <4>2, <4>4 DEF StreamState
        <5>3. CASE op = "request"
          BY <5>3, <4>2, <4>4 DEF StreamState
        <5>4. CASE op \notin {"join", "begin_abits", "request"}
          BY <5>4, <4>2, <4>3
        <5> QED BY <5>1, <5>2, <5>3, <5>4
      <4> QED BY <4>4, <4>5
    <3> QED BY <3>1, <3>2
  <2> QED BY <2>1, <2>3
<1> HIDE DEF D
<1>4. Nat \subseteq D
  BY <1>2, <1>3, NatInd
<1> QED BY <1>4 DEF D, f

\* Both parties hash a transcript alike.
LEMMA AlikeDigest ==
    ASSUME NEW p \in Party, NEW on \in BOOLEAN, NEW e \in StreamState,
           ~on => \A q \in Party : e.cnt[q] = 0,
           NEW fr, fr = [on |-> on, first |-> on /\ p = "Alice", sent |-> e.cnt[p], recd |-> e.cnt[Peer(p)]]
    PROVE  GetDigest(fr) = Counted(e)
<1>1. CASE on
  <2>1. CASE p = "Alice"
    BY <1>1, <2>1 DEF GetDigest, Counted, Peer
  <2>2. CASE p = "Bob"
    BY <1>1, <2>2 DEF GetDigest, Counted, Peer
  <2> QED BY <2>1, <2>2 DEF Party
<1>2. CASE ~on
  BY <1>2 DEF GetDigest, Counted, Peer, Party
<1> QED BY <1>1, <1>2

-----------------------------------------------------------------------------
(* A call both parties make changes a party's state as the run says.       *)

NextState(z, y, op, n) ==
    /\ \A p \in Party : y.todo[p] = Expansion(p, z) \o Tail(z.todo[p])
    /\ y.minted = (op = "gen_cot" \/ (z.minted /\ op \notin {"maybe_flush", "end"}))
    /\ y.setup = (z.setup \/ op = "begin_abits")
    /\ y.left = CASE op \in {"begin_abits", "trim"} -> 0
                  [] op = "gen_cot" -> LeftAfter(z.left, n)
                  [] OTHER -> z.left
    /\ y.coins = CASE op = "run_program" -> <<>>
           [] op = "coin" -> Append(z.coins, <<Counted(z.str["main"]),
                                               Counted(z.str["sibling"])>>)
           [] OTHER -> z.coins
    /\ y.on = (z.on \/ op = "setup")
    /\ \A s \in Stream, q \in Party :
          /\ y.str[s].cnt[q] = IF op = "setup" THEN 0 ELSE z.str[s].cnt[q]
          /\ y.str[s].chk = IF op = "begin_abits" THEN <<>> ELSE z.str[s].chk
          /\ y.str[s].got[q] = IF op = "request" /\ q = "Alice" THEN n ELSE z.str[s].got[q]

LEMMA NextFields ==
    ASSUME NEW j, NEW par, NEW z \in InLockstep(j, par), NEW op, NEW n,
           op = z.todo["Alice"][1].op, n = z.todo["Alice"][1].arg, op # "join"
    PROVE  NextState(z, Lockstep(par, z), op, n)
<1> DEFINE y == Lockstep(par, z)
<1>1. /\ \A p \in Party : y.todo[p] = Expansion(p, z) \o Tail(z.todo[p])
      /\ y.minted = (op = "gen_cot" \/ (z.minted /\ op \notin {"maybe_flush", "end"}))
      /\ y.setup = (z.setup \/ op = "begin_abits")
      /\ y.left = CASE op \in {"begin_abits", "trim"} -> 0
                             [] op = "gen_cot" -> LeftAfter(z.left, n)
                             [] OTHER -> z.left
      /\ y.coins = CASE op = "run_program" -> <<>>
                      [] op = "coin" -> Append(z.coins, <<Counted(z.str["main"]),
                                                          Counted(z.str["sibling"])>>)
                      [] OTHER -> z.coins
      /\ y.on = (z.on \/ op = "setup")
  BY DEF Lockstep
<1>2. ASSUME NEW s \in Stream, NEW q \in Party
      PROVE  /\ y.str[s].cnt[q] = IF op = "setup" THEN 0 ELSE z.str[s].cnt[q]
             /\ y.str[s].chk = IF op = "begin_abits" THEN <<>> ELSE z.str[s].chk
             /\ y.str[s].got[q] = IF op = "request" /\ q = "Alice" THEN n ELSE z.str[s].got[q]
  <2> DEFINE zero == [x \in Party |-> 0]
             none == <<>>
  <2>1. y.str[s] = CASE op = "setup" -> [z.str[s] EXCEPT !.cnt = zero]
                     [] op = "begin_abits" -> [z.str[s] EXCEPT !.chk = none]
                     [] op = "request" -> [z.str[s] EXCEPT !.got["Alice"] = n]
                     [] OTHER -> z.str[s]
    BY DEF Lockstep
  <2>2. zero[q] = 0
    OBVIOUS
  <2>3. z.str[s] \in StreamState
    BY InLock DEF Streams
  <2> HIDE DEF y, zero, none
  <2>4. CASE op = "setup"
    BY <2>1, <2>2, <2>3, <2>4 DEF StreamState
  <2>5. CASE op = "begin_abits"
    BY <2>1, <2>3, <2>5 DEF StreamState, none
  <2>6. CASE op = "request"
    BY <2>1, <2>3, <2>6, ZenonT(40) DEF StreamState
  <2>7. CASE op \notin {"setup", "begin_abits", "request"}
    BY <2>1, <2>7
  <2> QED BY <2>4, <2>5, <2>6, <2>7
<1> HIDE DEF y
<1>3. NextState(z, y, op, n)
  BY <1>1, <1>2 DEF NextState
<1> QED BY <1>3 DEF y

\* What a call does to the state of the party that makes it.
Made(p, z, op, n, r, x) ==
    /\ x.todo = Expansion(p, z) \o Tail(z.todo[p])
    /\ x.minted = (op = "gen_cot" \/ (r.minted /\ op \notin {"maybe_flush", "end"}))
    /\ x.coins = CASE op = "run_program" -> <<>>
                   [] op = "coin" -> Append(r.coins, <<GetDigest(r.fs["main"]), GetDigest(r.fs["sibling"])>>)
                   [] OTHER -> r.coins
    /\ x.got = IF op = "request" /\ p = "Alice" THEN n ELSE r.got
    /\ \A s \in Stream :
          x.fs[s] = IF op = "setup"
                    THEN [on |-> TRUE, first |-> p = "Alice", sent |-> 0, recd |-> 0]
                    ELSE r.fs[s]
    /\ \A k \in 1..2 :
          x.abit[k] = CASE op = "begin_abits" -> [setup |-> TRUE, left |-> 0, check |-> <<>>]
                        [] op = "gen_cot" -> [r.abit[k] EXCEPT !.left = LeftAfter(@, n)]
                        [] op = "trim" -> [r.abit[k] EXCEPT !.left = 0]
                        [] OTHER -> r.abit[k]

\* A party that makes the call has the state the run has after it.
LEMMA FitsNext ==
    ASSUME NEW j \in Jobs, NEW par \in [Party -> Param], NEW k \in Nat, NEW p \in Party, NEW z,
           z = Run(j, par)[k], ~Ended(z), NEW op, NEW n,
           op = z.todo["Alice"][1].op, n = z.todo["Alice"][1].arg, op # "join",
           NEW r, NEW x, Fits(z, p, r), Made(p, z, op, n, r, x)
    PROVE  Fits(Run(j, par)[k + 1], p, x)
<1> DEFINE y == Lockstep(par, z)
<1>1. z \in InLockstep(j, par) /\ Run(j, par)[k + 1] = y /\ Uncounted(z)
  BY RunStep, OffZero DEF Advance
<1>2. /\ \A q \in Party : y.todo[q] = Expansion(q, z) \o Tail(z.todo[q])
      /\ y.minted = (op = "gen_cot" \/ (z.minted /\ op \notin {"maybe_flush", "end"}))
      /\ y.setup = (z.setup \/ op = "begin_abits")
      /\ y.left = CASE op \in {"begin_abits", "trim"} -> 0
                    [] op = "gen_cot" -> LeftAfter(z.left, n)
                    [] OTHER -> z.left
      /\ y.coins = CASE op = "run_program" -> <<>>
             [] op = "coin" -> Append(z.coins, <<Counted(z.str["main"]),
                                                 Counted(z.str["sibling"])>>)
             [] OTHER -> z.coins
      /\ y.on = (z.on \/ op = "setup")
      /\ \A s \in Stream, q \in Party :
            /\ y.str[s].cnt[q] = IF op = "setup" THEN 0 ELSE z.str[s].cnt[q]
            /\ y.str[s].chk = IF op = "begin_abits" THEN <<>> ELSE z.str[s].chk
            /\ y.str[s].got[q] = IF op = "request" /\ q = "Alice" THEN n ELSE z.str[s].got[q]
  <2>1. z \in InLockstep(j, par)
    BY <1>1
  <2>2. NextState(z, y, op, n)
    BY <2>1, NextFields
  <2> HIDE DEF y
  <2> QED BY <2>2 DEF NextState
<1>3. z.str \in [Stream -> StreamState] /\ z.on \in BOOLEAN /\ z.setup \in BOOLEAN
  <2>1. z \in LockState
    BY <1>1, InLock
  <2> QED BY <2>1, LockTypes
<1> HIDE DEF y
<1>4. x.todo = y.todo[p]
  BY <1>2 DEF Made
<1>5. x.minted = y.minted
  <2>1. r.minted = z.minted
    BY DEF Fits
  <2> QED BY <1>2, <2>1, Zenon DEF Made
<1>6. x.coins = y.coins
  <2>1. ASSUME NEW s \in Stream PROVE GetDigest(r.fs[s]) = Counted(z.str[s])
    <3> DEFINE fr == r.fs[s]
    <3>1. fr = [on |-> z.on, first |-> z.on /\ p = "Alice", sent |-> z.str[s].cnt[p],
                recd |-> z.str[s].cnt[Peer(p)]]
      BY DEF Fits
    <3>2. ~z.on => \A q \in Party : z.str[s].cnt[q] = 0
      BY <1>1 DEF Uncounted
    <3>3. z.str[s] \in StreamState
      BY <1>3
    <3> HIDE DEF fr
    <3>4. GetDigest(fr) = Counted(z.str[s])
      BY <1>3, <3>1, <3>2, <3>3, AlikeDigest
    <3> QED BY <3>4 DEF fr
  <2>2. GetDigest(r.fs["main"]) = Counted(z.str["main"])
        /\ GetDigest(r.fs["sibling"]) = Counted(z.str["sibling"])
    BY <2>1 DEF Stream
  <2>3. r.coins = z.coins
    BY DEF Fits
  <2>4. x.coins = CASE op = "run_program" -> <<>>
                   [] op = "coin" -> Append(r.coins, <<GetDigest(r.fs["main"]), GetDigest(r.fs["sibling"])>>)
                   [] OTHER -> r.coins
    BY DEF Made
  <2> QED BY <1>2, <2>2, <2>3, <2>4
<1>7. x.got = y.str["main"].got[p]
  <2>1. x.got = IF op = "request" /\ p = "Alice" THEN n ELSE r.got
    BY DEF Made
  <2>2. r.got = z.str["main"].got[p]
    BY DEF Fits
  <2>3. y.str["main"].got[p] = IF op = "request" /\ p = "Alice" THEN n ELSE z.str["main"].got[p]
    BY <1>2 DEF Stream
  <2> QED BY <2>1, <2>2, <2>3
<1>8. ASSUME NEW s \in Stream
      PROVE  x.fs[s] = [on |-> y.on, first |-> y.on /\ p = "Alice",
                        sent |-> y.str[s].cnt[p], recd |-> y.str[s].cnt[Peer(p)]]
  <2>1. x.fs[s] = IF op = "setup"
                    THEN [on |-> TRUE, first |-> p = "Alice", sent |-> 0, recd |-> 0]
                    ELSE r.fs[s]
    BY DEF Made
  <2>2. r.fs[s] = [on |-> z.on, first |-> z.on /\ p = "Alice",
                   sent |-> z.str[s].cnt[p], recd |-> z.str[s].cnt[Peer(p)]]
    BY DEF Fits
  <2>3. Peer(p) \in Party
    BY TwoParties
  <2>4. /\ y.str[s].cnt[p] = IF op = "setup" THEN 0 ELSE z.str[s].cnt[p]
        /\ y.str[s].cnt[Peer(p)] = IF op = "setup" THEN 0 ELSE z.str[s].cnt[Peer(p)]
        /\ y.on = (z.on \/ op = "setup")
    BY <1>2, <2>3
  <2>5. CASE op = "setup"
    <3>1. y.on = TRUE
      BY <2>4, <2>5
    <3>2. (y.on /\ p = "Alice") = (p = "Alice")
      BY <3>1
    <3> QED BY <2>1, <2>4, <2>5, <3>1, <3>2
  <2>6. CASE op # "setup"
    <3>1. y.on = z.on
      BY <2>4, <2>6, <1>3
    <3> QED BY <2>1, <2>2, <2>4, <2>6, <3>1
  <2> QED BY <2>5, <2>6
<1>9. ASSUME NEW s \in Stream
      PROVE  x.abit[AbitOf(p, s)] = [setup |-> y.setup, left |-> y.left, check |-> y.str[s].chk]
  <2> DEFINE k2 == AbitOf(p, s)
             z2 == [setup |-> z.setup, left |-> z.left, check |-> z.str[s].chk]
  <2>1. k2 \in 1..2
    BY DEF AbitOf
  <2>2. r.abit[k2] = z2
    BY DEF Fits
  <2> HIDE DEF k2
  <2>3. x.abit[k2] = CASE op = "begin_abits" -> [setup |-> TRUE, left |-> 0, check |-> <<>>]
                        [] op = "gen_cot" -> [z2 EXCEPT !.left = LeftAfter(@, n)]
                        [] op = "trim" -> [z2 EXCEPT !.left = 0]
                        [] OTHER -> z2
    <3> HIDE DEF z2
    <3> QED BY <2>1, <2>2 DEF Made
  <2>4. /\ y.setup = (z.setup \/ op = "begin_abits")
        /\ y.left = CASE op \in {"begin_abits", "trim"} -> 0
                    [] op = "gen_cot" -> LeftAfter(z.left, n)
                    [] OTHER -> z.left
        /\ y.str[s].chk = IF op = "begin_abits" THEN <<>> ELSE z.str[s].chk
    BY <1>2
  <2>5. CASE op = "begin_abits"
    <3>1. y.setup = TRUE /\ y.left = 0 /\ y.str[s].chk = <<>>
      BY <2>4, <2>5
    <3> QED BY <2>3, <2>5, <3>1 DEF k2
  <2>6. CASE op # "begin_abits"
    <3>1. y.setup = z.setup /\ y.str[s].chk = z.str[s].chk
      BY <2>4, <2>6, <1>3
    <3>2. CASE op = "gen_cot"
      <4>1. y.left = LeftAfter(z.left, n)
        BY <2>4, <3>2
      <4> QED BY <2>3, <3>1, <3>2, <4>1 DEF k2
    <3>3. CASE op = "trim"
      <4>1. y.left = 0
        BY <2>4, <3>3
      <4> QED BY <2>3, <3>1, <3>3, <4>1 DEF k2
    <3>4. CASE op \notin {"gen_cot", "trim"}
      <4>1. y.left = z.left
        BY <2>4, <2>6, <3>4
      <4> QED BY <2>3, <2>6, <3>1, <3>4, <4>1 DEF k2
    <3> QED BY <3>2, <3>3, <3>4
  <2> QED BY <2>5, <2>6
<1>10. Fits(y, p, x)
  BY <1>4, <1>5, <1>6, <1>7, <1>8, <1>9 DEF Fits
<1> QED BY <1>1, <1>10

-----------------------------------------------------------------------------
(* The parties follow the run.                                             *)

\* Nobody fails by itself, and both are configured alike.
Honest == faults = 0 /\ ~Apart

\* Each party is at its position, and what lies between two parties is what the
\* run lets one send and the other has not consumed.
Follows(f, pos) ==
    /\ \A p \in Party :
          /\ Placed(job, f, params, p, st[p], pos[p])
          /\ Honest /\ st[p].run = "done" => Ended(f[pos[p].k])
    /\ \A p \in Party, s \in Stream :
          OnTheWay(f, params, p, s, wire[p][s], buf[Peer(p)][s],
                   HasReceived(f, params, Peer(p), pos[Peer(p)], s),
                   HasSent(f, params, p, pos[p], s))

\* Alice is configured as agreed, and no honest party has failed.
Tracked ==
    /\ params["Alice"] = Agreed /\ faults \in Nat
    /\ Honest => \A p \in Party : st[p].run # "failed"
Tracks(f, pos) ==
    /\ f = Run(job, params) /\ pos \in [Party -> Position]
    /\ Follows(f, pos)

\* The inductive invariant: the parties follow the run of their job.
LockInv == Tracked /\ \E f, pos : Tracks(f, pos)

\* A step that moves p to o.
LEMMA Move ==
    ASSUME NEW f, NEW pos, Tracks(f, pos), Tracked,
           NEW p \in Party, NEW o \in Position,
           UNCHANGED <<job, params>>, \A q \in Party \ {p} : st'[q] = st[q],
           Honest' => Honest, faults' \in Nat,
           Placed(job, f, params, p, st'[p], o),
           Honest' /\ st'[p].run = "done" => Ended(f[o.k]),
           Honest' => st'[p].run # "failed",
           \A s \in Stream : OnTheWay(f, params, p, s, wire'[p][s], buf'[Peer(p)][s],
                                HasReceived(f, params, Peer(p), pos[Peer(p)], s),
                                HasSent(f, params, p, o, s)),
           \A s \in Stream : OnTheWay(f, params, Peer(p), s, wire'[Peer(p)][s], buf'[p][s],
                                HasReceived(f, params, p, o, s),
                                HasSent(f, params, Peer(p), pos[Peer(p)], s))
    PROVE  LockInv'
<1> DEFINE pos2 == [pos EXCEPT ![p] = o]
           P == Peer(p)
<1>1. P \in Party /\ P # p /\ Peer(P) = p /\ \A q \in Party : q = p \/ q = P
  BY TwoParties
<1>2. pos \in [Party -> Position] /\ Follows(f, pos) /\ f = Run(job, params)
  BY DEF Tracks
<1>3. pos2 \in [Party -> Position] /\ pos2[p] = o /\ pos2[P] = pos[P]
  BY <1>1, <1>2
<1> HIDE DEF pos2, P
<1>4. st'[P] = st[P]
  BY <1>1
<1>5. ASSUME NEW q \in Party
      PROVE  /\ Placed(job, f, params, q, st'[q], pos2[q])
             /\ Honest' /\ st'[q].run = "done" => Ended(f[pos2[q].k])
             /\ Honest' => st'[q].run # "failed"
  <2>1. CASE q = p
    BY <2>1, <1>3
  <2>2. CASE q = P
    <3>1. Placed(job, f, params, P, st[P], pos[P]) /\ (Honest /\ st[P].run = "done" => Ended(f[pos[P].k]))
      BY <1>1, <1>2 DEF Follows
    <3>2. Honest => st[P].run # "failed"
      BY <1>1 DEF Tracked
    <3> QED BY <2>2, <3>1, <3>2, <1>3, <1>4
  <2> QED BY <2>1, <2>2, <1>1
<1>6. ASSUME NEW q \in Party, NEW s \in Stream
      PROVE  OnTheWay(f, params, q, s, wire'[q][s], buf'[Peer(q)][s],
                      HasReceived(f, params, Peer(q), pos2[Peer(q)], s),
                      HasSent(f, params, q, pos2[q], s))
  <2>1. CASE q = p
    BY <2>1, <1>3 DEF P
  <2>2. CASE q = P
    BY <2>2, <1>1, <1>3 DEF P
  <2> QED BY <2>1, <2>2, <1>1
<1>7. Follows(f, pos2)'
  BY <1>5, <1>6 DEF Follows
<1>8. Tracks(f, pos2)'
  BY <1>2, <1>3, <1>7 DEF Tracks
<1>9. Tracked'
  BY <1>5 DEF Tracked
<1> QED BY <1>8, <1>9 DEF LockInv

\* A step that moves no word.
LEMMA Turn ==
    ASSUME NEW f, NEW pos, Tracks(f, pos), Tracked,
           NEW p \in Party, NEW o \in Position,
           UNCHANGED <<job, params, wire, buf>>, \A q \in Party \ {p} : st'[q] = st[q],
           Honest' => Honest, faults' \in Nat,
           Placed(job, f, params, p, st'[p], o),
           Honest' /\ st'[p].run = "done" => Ended(f[o.k]),
           Honest' => st'[p].run # "failed",
           \A s \in Stream : /\ HasSent(f, params, p, o, s) = HasSent(f, params, p, pos[p], s)
                             /\ HasReceived(f, params, p, o, s) = HasReceived(f, params, p, pos[p], s)
    PROVE  LockInv'
<1>1. Peer(p) \in Party /\ Peer(Peer(p)) = p
  BY TwoParties
<1>2. \A q \in Party, s \in Stream :
          OnTheWay(f, params, q, s, wire[q][s], buf[Peer(q)][s],
                   HasReceived(f, params, Peer(q), pos[Peer(q)], s),
                   HasSent(f, params, q, pos[q], s))
  BY DEF Tracks, Follows
<1>3. ASSUME NEW s \in Stream
      PROVE  /\ OnTheWay(f, params, p, s, wire'[p][s], buf'[Peer(p)][s],
                                HasReceived(f, params, Peer(p), pos[Peer(p)], s),
                                HasSent(f, params, p, o, s))
             /\ OnTheWay(f, params, Peer(p), s, wire'[Peer(p)][s], buf'[p][s],
                                HasReceived(f, params, p, o, s),
                                HasSent(f, params, Peer(p), pos[Peer(p)], s))
  <2>1. OnTheWay(f, params, p, s, wire[p][s], buf[Peer(p)][s],
                   HasReceived(f, params, Peer(p), pos[Peer(p)], s),
                   HasSent(f, params, p, pos[p], s))
    BY <1>2
  <2>2. OnTheWay(f, params, Peer(p), s, wire[Peer(p)][s], buf[p][s],
                   HasReceived(f, params, p, pos[p], s),
                   HasSent(f, params, Peer(p), pos[Peer(p)], s))
    BY <1>1, <1>2
  <2> QED BY <2>1, <2>2
<1>4. \A s \in Stream : OnTheWay(f, params, p, s, wire'[p][s], buf'[Peer(p)][s],
                                HasReceived(f, params, Peer(p), pos[Peer(p)], s),
                                HasSent(f, params, p, o, s))
  BY <1>3
<1>5. \A s \in Stream : OnTheWay(f, params, Peer(p), s, wire'[Peer(p)][s], buf'[p][s],
                                HasReceived(f, params, p, o, s),
                                HasSent(f, params, Peer(p), pos[Peer(p)], s))
  BY <1>3
<1> QED BY <1>4, <1>5, Move

\* The call of the run a position is in.
At(f, o, k, z) == k = o.k /\ z = f[k]
Heading(z, aop, n) ==
    ~Ended(z) /\ aop = z.todo["Alice"][1].op /\ n = z.todo["Alice"][1].arg
\* What the run says of a party in a call.
AtCall(j, z, p, r, op) ==
    LET a == z.todo["Alice"][1]
        c == z.todo[p][1]
    IN  /\ Fits(z, p, r) /\ ~InJoin(z)
        /\ r.todo = z.todo[p] /\ z.todo[p] # <<>> /\ c.op = op
        /\ Ended(z) => op = "serve" /\ p = "Bob" /\ j = "session" /\ z.todo[p] = <<Serve>>
        /\ ~Ended(z) =>
              /\ op \notin {"evaluate", "serve"} => a = c
              /\ op \in {"garble", "request"} => p = "Alice"
              /\ op \in {"evaluate", "serve"} => p = "Bob"
              /\ op = "evaluate" => a.op = "garble" /\ a.arg = c.arg
              /\ op = "serve" => a.op = "request"

Between(j, par, o, k, z, p, r, op) ==
    /\ k \in Nat /\ o = AtStart(k) /\ z = Run(j, par)[k]
    /\ z \in InLockstep(j, par) /\ AtCall(j, z, p, r, op)
\* A party in a call other than a join is between two calls of the run.
LEMMA Called ==
    ASSUME TypeOK, NEW f, NEW pos, Tracks(f, pos), NEW p \in Party, NEW op, Calling(p, op), op # "join",
           NEW k, NEW zz, At(f, pos[p], k, zz)
    PROVE  Between(job, params, pos[p], k, zz, p, st[p], op)
<1> DEFINE o == pos[p]
           z == f[o.k]
           a == z.todo["Alice"]
           b == z.todo["Bob"]
<1>1. /\ f = Run(job, params) /\ o \in Position /\ job \in Jobs /\ params \in [Party -> Param]
      /\ Placed(job, f, params, p, st[p], o)
  BY DEF Tracks, Follows, TypeOK
<1>2. st[p].run = "running" /\ st[p].todo # <<>> /\ st[p].todo[1].op = op
      /\ Head(st[p].todo) = st[p].todo[1]
  BY InCall DEF Calling
<1>3. o.k \in Nat
  BY <1>1 DEF Position
<1>4. z \in InLockstep(job, params)
  BY <1>1, <1>3, RunStep
<1>5. Valid(f, p, o) /\ Stacked(f, p, st[p], o) /\ Agrees(f, params, p, st[p], o)
  <2>1. ~Idle(job, f, p, st[p], o)
    <3>1. TargetJoin("Bob").op = "join"
      BY DEF TargetJoin
    <3> QED BY <3>1, <1>2 DEF Idle
  <2> QED BY <1>1, <1>2, <2>1 DEF Placed
<1>6. ~InJoin(z)
  BY <1>2, <1>5 DEF Stacked
<1>7. o = AtStart(o.k) /\ Fits(z, p, st[p])
  BY <1>1, <1>5, <1>6, PlacedFits
<1>8. st[p].todo = z.todo[p] /\ z.todo[p][1].op = op /\ Arg(p) = z.todo[p][1].arg
  BY <1>2, <1>7 DEF Fits, Arg
<1>9. DualStacks(job, a, b)
  BY <1>4, InLock
<1>10. ASSUME Ended(z) PROVE p = "Bob" /\ op = "serve" /\ job = "session" /\ b = <<Serve>>
  <2>1. a = <<>> /\ p = "Bob" /\ b # <<>> /\ b[1].op = op
    BY <1>2, <1>8, <1>10 DEF Ended, Party
  <2> HIDE DEF a, b
  <2>2. Len(b) \in Nat \ {0} /\ b \in Seq(AnyCall)
    BY <1>9, <2>1, EmptySeq DEF DualStacks
  <2>3. Len(a) = 0
    BY <2>1
  <2>4. job = "session" /\ Len(b) = 1
    BY <1>9, <2>2, <2>3 DEF DualStacks
  <2>5. b[1] = Serve
    BY <1>9, <2>4 DEF DualStacks, Serve
  <2>6. b = <<Serve>>
    BY <2>2, <2>4, <2>5
  <2> QED BY <2>1, <2>4, <2>5, <2>6 DEF Serve
<1>11. ASSUME ~Ended(z)
       PROVE  /\ op \notin {"evaluate", "serve"} => a[1] = z.todo[p][1]
              /\ op \in {"garble", "request"} => p = "Alice"
              /\ op \in {"evaluate", "serve"} => p = "Bob"
              /\ op = "evaluate" => a[1].op = "garble" /\ a[1].arg = z.todo[p][1].arg
              /\ op = "serve" => a[1].op = "request"
  <2>1. a # <<>>
    BY <1>11 DEF Ended
  <2>2. /\ a[1].op # "request" => DualCall(a[1], b[1])
        /\ a[1].op = "request" => b = <<[op |-> "serve", arg |-> 0]>>
    BY <1>9, <2>1, Heads
  <2>3. /\ a[1].op # "request" =>
              /\ a[1].op \notin {"serve", "evaluate"}
              /\ a[1].op = "garble" => b[1].op = "evaluate" /\ b[1].arg = a[1].arg
              /\ a[1].op # "garble" => b[1] = a[1]
        /\ a[1].op = "request" => b[1].op = "serve"
    <3>1. a[1].op # "join"
      BY <1>6, <2>1 DEF InJoin
    <3>2. CASE a[1].op # "request"
      <4>1. DualCall(a[1], b[1])
        BY <2>2, <3>2
      <4> HIDE DEF a, b
      <4> QED BY <4>1, <3>1, <3>2, Duals
    <3>3. CASE a[1].op = "request"
      BY <2>2, <3>3
    <3> QED BY <3>2, <3>3
  <2>4. CASE p = "Alice"
    <3>1. z.todo[p] = a
      BY <2>4
    <3> HIDE DEF z, a, b
    <3> QED BY <2>3, <2>4, <3>1, <1>8
  <2>5. CASE p = "Bob"
    <3>1. z.todo[p] = b
      BY <2>5
    <3> HIDE DEF z, a, b
    <3> QED BY <2>3, <2>5, <3>1, <1>8
  <2> QED BY <2>4, <2>5 DEF Party
<1>12. AtCall(job, z, p, st[p], op)
  <2>1. z.todo[p] # <<>>
    BY <1>2, <1>8
  <2> HIDE DEF z, o
  <2> QED BY <2>1, <1>6, <1>7, <1>8, <1>10, <1>11 DEF AtCall
<1>13. zz = z /\ k = o.k
  BY DEF At
<1> HIDE DEF z, o
<1>14. zz = Run(job, params)[k]
  BY <1>1, <1>13 DEF z
<1>15. pos[p] = AtStart(k) /\ k \in Nat
  BY <1>3, <1>7, <1>13 DEF o
<1> QED BY <1>4, <1>12, <1>13, <1>14, <1>15 DEF Between

LEMMA HeadingFits ==
    ASSUME NEW j \in Jobs, NEW par \in [Party -> Param], NEW k \in Nat, NEW p \in Party, NEW z,
           z = Run(j, par)[k], NEW op, NEW n, Heading(z, op, n), op # "join",
           NEW r, NEW x, Fits(z, p, r), Made(p, z, op, n, r, x)
    PROVE  Fits(Run(j, par)[k + 1], p, x)
BY FitsNext DEF Heading

\* A step that makes the call of the run.
LEMMA Makes ==
    ASSUME TypeOK, NEW f, NEW pos, Tracks(f, pos), Tracked,
           NEW p \in Party, NEW op, Calling(p, op), op # "join",
           NEW k, NEW z, At(f, pos[p], k, z), NEW aop, NEW n, Heading(z, aop, n),
           UNCHANGED <<rest, net>>, \A q \in Party \ {p} : st'[q] = st[q],
           st'[p].run = "running", Made(p, z, aop, n, st[p], st'[p])
    PROVE  LockInv'
<1> DEFINE o == AtStart(k + 1)
<1>1. /\ f = Run(job, params) /\ job \in Jobs /\ params \in [Party -> Param] /\ pos[p] \in Position
  BY DEF Tracks, TypeOK
<1>2. /\ k \in Nat /\ pos[p] = AtStart(k) /\ z = Run(job, params)[k] /\ z \in InLockstep(job, params)
      /\ AtCall(job, z, p, st[p], op)
  <2>1. Between(job, params, pos[p], k, z, p, st[p], op)
    BY Called
  <2> QED BY <2>1 DEF Between
<1>3. Fits(z, p, st[p]) /\ ~InJoin(z)
  BY <1>2 DEF AtCall
<1>4. aop # "join"
  BY <1>3 DEF InJoin, Ended, Heading
<1>5. k + 1 \in Nat /\ Fits(Run(job, params)[k + 1], p, st'[p])
  <2> DEFINE r == st[p]
             x == st'[p]
  <2>1. Fits(z, p, r) /\ Made(p, z, aop, n, r, x)
    BY <1>3
  <2> HIDE DEF r, x
  <2>2. Fits(Run(job, params)[k + 1], p, x)
    BY <2>1, <1>1, <1>2, <1>4, HeadingFits
  <2>3. k + 1 \in Nat
    BY <1>2
  <2> QED BY <2>2, <2>3, Zenon DEF x
<1>6. Starts(job, params, p, k + 1, st'[p])
  <2> DEFINE r == st'[p]
             k1 == k + 1
  <2>1. k1 \in Nat /\ Fits(Run(job, params)[k1], p, r)
    BY <1>5
  <2> HIDE DEF r, k1
  <2>2. Starts(job, params, p, k1, r)
    BY <2>1, <1>1, StartsPlaced
  <2> QED BY <2>2 DEF r, k1
<1>7. Starts(job, params, p, k, st[p])
  <2> DEFINE r == st[p]
  <2>1. Fits(Run(job, params)[k], p, r)
    BY <1>2, <1>3
  <2> HIDE DEF r
  <2>2. Starts(job, params, p, k, r)
    BY <2>1, <1>1, <1>2, StartsPlaced
  <2> QED BY <2>2 DEF r
<1>8. ASSUME NEW q \in Party, NEW s \in Stream PROVE f[k + 1].str[s].tot[q] = f[k].str[s].tot[q]
  <2>1. f[k + 1] = Advance(params, z)
    BY <1>1, <1>2, RunStep DEF At
  <2>2. Advance(params, z).str[s].tot[q] = z.str[s].tot[q]
    BY <1>1, <1>2, <1>3, Still
  <2> QED BY <2>1, <2>2 DEF At
<1>9. /\ o \in Position /\ o.k = k + 1
      /\ Placed(job, f, params, p, st'[p], o)
      /\ \A q \in Party, s \in Stream :
               /\ HasSent(f, params, q, o, s) = f[k + 1].str[s].tot[q]
               /\ HasReceived(f, params, q, o, s) = f[k + 1].str[s].tot[Peer(q)]
  BY <1>1, <1>6, Zenon DEF Starts
<1>10. \A q \in Party, s \in Stream :
               /\ HasSent(f, params, q, pos[p], s) = f[k].str[s].tot[q]
               /\ HasReceived(f, params, q, pos[p], s) = f[k].str[s].tot[Peer(q)]
  BY <1>1, <1>2, <1>7, ZenonT(40) DEF Starts
<1> HIDE DEF o
<1>11. \A s \in Stream : /\ HasSent(f, params, p, o, s) = HasSent(f, params, p, pos[p], s)
                         /\ HasReceived(f, params, p, o, s) = HasReceived(f, params, p, pos[p], s)
  <2> SUFFICES ASSUME NEW s \in Stream
               PROVE  /\ HasSent(f, params, p, o, s) = HasSent(f, params, p, pos[p], s)
                      /\ HasReceived(f, params, p, o, s) = HasReceived(f, params, p, pos[p], s)
    OBVIOUS
  <2>1. Peer(p) \in Party
    BY TwoParties
  <2>2. f[k + 1].str[s].tot[p] = f[k].str[s].tot[p] /\ f[k + 1].str[s].tot[Peer(p)] = f[k].str[s].tot[Peer(p)]
    BY <2>1, <1>8
  <2>3. HasSent(f, params, p, o, s) = f[k + 1].str[s].tot[p]
        /\ HasReceived(f, params, p, o, s) = f[k + 1].str[s].tot[Peer(p)]
    BY <1>9
  <2>4. HasSent(f, params, p, pos[p], s) = f[k].str[s].tot[p]
        /\ HasReceived(f, params, p, pos[p], s) = f[k].str[s].tot[Peer(p)]
    BY <1>10
  <2> QED BY <2>2, <2>3, <2>4
<1>12. UNCHANGED <<job, params, wire, buf>> /\ faults' = faults
  BY DEF rest, net
<1>13. Honest' => Honest
  BY <1>12 DEF Honest, Apart
<1>14. st'[p].run \notin {"done", "failed"}
  OBVIOUS
<1>15. o \in Position /\ Placed(job, f, params, p, st'[p], o)
  BY <1>9
<1>16. Honest' /\ st'[p].run = "done" => Ended(f[o.k])
  BY <1>14
<1>17. faults' \in Nat
  BY <1>12 DEF Tracked
<1> QED BY <1>11, <1>12, <1>13, <1>14, <1>15, <1>16, <1>17, Turn

-----------------------------------------------------------------------------
(* The calls of a party are the calls of the run.                          *)

\* Party p follows the run, in its k-th call, from the state z.
Following(f, pos, p, k, z) ==
    /\ IInv /\ Tracks(f, pos) /\ Tracked /\ p \in Party /\ At(f, pos[p], k, z)

\* Alice's side of a call.
AsAlice(op) == CASE op = "evaluate" -> "garble" [] op = "serve" -> "request" [] OTHER -> op

\* What a call changes besides the stack.
MadeRest(p, op, n, r, x) ==
    /\ x.minted = (op = "gen_cot" \/ (r.minted /\ op \notin {"maybe_flush", "end"}))
    /\ x.coins = CASE op = "run_program" -> <<>>
                   [] op = "coin" -> Append(r.coins, <<GetDigest(r.fs["main"]), GetDigest(r.fs["sibling"])>>)
                   [] OTHER -> r.coins
    /\ x.got = IF op = "request" /\ p = "Alice" THEN n ELSE r.got
    /\ \A s \in Stream :
          x.fs[s] = IF op = "setup"
                    THEN [on |-> TRUE, first |-> p = "Alice", sent |-> 0, recd |-> 0]
                    ELSE r.fs[s]
    /\ \A k \in 1..2 :
          x.abit[k] = CASE op = "begin_abits" -> [setup |-> TRUE, left |-> 0, check |-> <<>>]
                        [] op = "gen_cot" -> [r.abit[k] EXCEPT !.left = LeftAfter(@, n)]
                        [] op = "trim" -> [r.abit[k] EXCEPT !.left = 0]
                        [] OTHER -> r.abit[k]

\* What Following says of a call.
LEMMA Followed ==
    ASSUME NEW f, NEW pos, NEW p, NEW k, NEW z, Following(f, pos, p, k, z),
           NEW op, Calling(p, op), op # "join"
    PROVE  /\ TypeOK /\ p \in Party /\ st[p] \in PartyRec /\ st[p].todo # <<>>
           /\ Between(job, params, pos[p], k, z, p, st[p], op)
           /\ Fits(z, p, st[p]) /\ Arg(p) = z.todo[p][1].arg /\ st[p].todo = z.todo[p]
           /\ op # "serve" => ~Ended(z)
           /\ ~Ended(z) =>
                /\ z.todo["Alice"][1].op = AsAlice(op)
                /\ op # "serve" => z.todo["Alice"][1].arg = Arg(p)
           /\ op \in {"garble", "request"} => p = "Alice"
           /\ op \in {"evaluate", "serve"} => p = "Bob"
           /\ z.todo[p][1].op = op /\ st[p].run = "running"
<1>1. TypeOK /\ p \in Party /\ Tracks(f, pos) /\ At(f, pos[p], k, z)
  BY DEF Following, IInv
<1>2. Between(job, params, pos[p], k, z, p, st[p], op)
  BY <1>1, Called
<1>3. AtCall(job, z, p, st[p], op)
  BY <1>2 DEF Between
<1>4. st[p] \in PartyRec
  BY <1>1 DEF TypeOK
<1>5. st[p].todo # <<>> /\ Head(st[p].todo) = st[p].todo[1] /\ st[p].run = "running"
  BY <1>1, InCall DEF Calling
<1> DEFINE a == z.todo["Alice"][1]
           c == z.todo[p][1]
<1>6. /\ Fits(z, p, st[p]) /\ st[p].todo = z.todo[p] /\ c.op = op
      /\ Ended(z) => op = "serve" /\ p = "Bob"
      /\ ~Ended(z) => /\ op \notin {"evaluate", "serve"} => a = c
                      /\ op \in {"garble", "request"} => p = "Alice"
                      /\ op \in {"evaluate", "serve"} => p = "Bob"
                      /\ op = "evaluate" => a.op = "garble" /\ a.arg = c.arg
                      /\ op = "serve" => a.op = "request"
  BY <1>3 DEF AtCall
<1>7. Arg(p) = c.arg
  BY <1>5, <1>6 DEF Arg
<1> HIDE DEF a, c
<1>8. ~Ended(z) => a.op = AsAlice(op) /\ (op # "serve" => a.arg = Arg(p))
  BY <1>6, <1>7 DEF AsAlice
<1>9. /\ op \in {"garble", "request"} => p = "Alice"
      /\ op \in {"evaluate", "serve"} => p = "Bob"
  BY <1>6
<1>10. op # "serve" => ~Ended(z)
  BY <1>6
<1> QED BY <1>1, <1>2, <1>4, <1>5, <1>6, <1>7, <1>8, <1>9, <1>10 DEF a, c

\* A party that makes the call it is in still follows the run.
LEMMA MakesHere ==
    ASSUME NEW f, NEW pos, NEW p, NEW k, NEW z, Following(f, pos, p, k, z),
           NEW op, Calling(p, op), op # "join", ~Ended(z),
           UNCHANGED <<rest, net>>, \A q \in Party \ {p} : st'[q] = st[q],
           st'[p].run = "running", st'[p].todo = Then(p, Expand(p, z, op, Arg(p))),
           \A n : op = "serve" \/ n = Arg(p) => MadeRest(p, AsAlice(op), n, st[p], st'[p])
    PROVE  LockInv'
<1> DEFINE aop == z.todo["Alice"][1].op
           n == z.todo["Alice"][1].arg
<1>1. /\ TypeOK /\ p \in Party
      /\ Arg(p) = z.todo[p][1].arg /\ st[p].todo = z.todo[p] /\ z.todo[p][1].op = op
      /\ aop = AsAlice(op) /\ (op = "serve" \/ n = Arg(p))
  BY Followed
<1>2. st'[p].todo = Expansion(p, z) \o Tail(z.todo[p])
  BY <1>1 DEF Then, Expansion
<1>3. Heading(z, aop, n)
  BY DEF Heading
<1> HIDE DEF aop, n
<1>4. MadeRest(p, aop, n, st[p], st'[p])
  BY <1>1
<1>5. Made(p, z, aop, n, st[p], st'[p])
  BY <1>2, <1>4, Zenon DEF Made, MadeRest
<1>6. Tracks(f, pos) /\ Tracked /\ At(f, pos[p], k, z)
  BY DEF Following
<1> QED BY <1>1, <1>3, <1>5, <1>6, Makes

\* Calls that only become the calls of their bodies.
PushOp == {"exchange_digest", "compare_digest", "open_sibling", "handshake", "end_abits",
           "compute", "process_inputs", "garble", "evaluate", "decode", "serve", "precompute"}
SameRest(r, x) ==
    /\ x.run = r.run /\ x.minted = r.minted /\ x.coins = r.coins /\ x.got = r.got
    /\ x.fs = r.fs /\ x.abit = r.abit

LEMMA Pushes ==
    ASSUME NEW f, NEW pos, NEW p, NEW k, NEW z, Following(f, pos, p, k, z),
           NEW op \in PushOp, Calling(p, op), ~Ended(z),
           UNCHANGED <<rest, net>>, \A q \in Party \ {p} : st'[q] = st[q],
           SameRest(st[p], st'[p]), st'[p].todo = Then(p, Expand(p, z, op, Arg(p)))
    PROVE  LockInv'
<1>1. /\ st[p] \in PartyRec /\ (op = "serve" => p = "Bob") /\ st[p].run = "running" /\ op # "join"
  BY Followed DEF PushOp
<1> DEFINE aop == AsAlice(op)
           r == st[p]
           x == st'[p]
<1>2. /\ aop \notin {"gen_cot", "maybe_flush", "end", "run_program", "coin", "setup", "begin_abits", "trim"}
      /\ ~(aop = "request" /\ p = "Alice")
  BY <1>1 DEF AsAlice, PushOp
<1>3. SameRest(r, x) /\ r.minted \in BOOLEAN
  BY <1>1 DEF PartyRec
<1> HIDE DEF aop, r, x
<1>4. ASSUME NEW n PROVE MadeRest(p, aop, n, r, x)
  <2>1. x.minted = (aop = "gen_cot" \/ (r.minted /\ aop \notin {"maybe_flush", "end"}))
    BY <1>2, <1>3 DEF SameRest
  <2>2. x.coins = CASE aop = "run_program" -> <<>>
                   [] aop = "coin" -> Append(r.coins, <<GetDigest(r.fs["main"]), GetDigest(r.fs["sibling"])>>)
                   [] OTHER -> r.coins
    BY <1>2, <1>3 DEF SameRest
  <2>3. \A l \in 1..2 :
          x.abit[l] = CASE aop = "begin_abits" -> [setup |-> TRUE, left |-> 0, check |-> <<>>]
                        [] aop = "gen_cot" -> [r.abit[l] EXCEPT !.left = LeftAfter(@, n)]
                        [] aop = "trim" -> [r.abit[l] EXCEPT !.left = 0]
                        [] OTHER -> r.abit[l]
    BY <1>2, <1>3 DEF SameRest
  <2>4. /\ x.got = IF aop = "request" /\ p = "Alice" THEN n ELSE r.got
        /\ \A s \in Stream :
          x.fs[s] = IF aop = "setup"
                    THEN [on |-> TRUE, first |-> p = "Alice", sent |-> 0, recd |-> 0]
                    ELSE r.fs[s]
    BY <1>2, <1>3 DEF SameRest
  <2> QED BY <2>1, <2>2, <2>3, <2>4 DEF MadeRest
<1>5. st'[p].run = "running"
  BY <1>1, <1>3 DEF SameRest, r, x
<1>6. \A n : op = "serve" \/ n = Arg(p) => MadeRest(p, AsAlice(op), n, st[p], st'[p])
  BY <1>4 DEF aop, r, x
<1> QED BY <1>1, <1>5, <1>6, MakesHere

\* Both abits are as the run has them.
LEMMA AbitsFit ==
    ASSUME NEW z, NEW p \in Party, NEW r, Fits(z, p, r), NEW k \in 1..2
    PROVE  r.abit[k].setup = z.setup /\ r.abit[k].left = z.left
<1>1. \E s \in Stream : k = AbitOf(p, s)
  <2>1. k = 1 \/ k = 2
    OBVIOUS
  <2>2. AbitOf(p, "main") = (IF p = "Alice" THEN 2 ELSE 1) /\ AbitOf(p, "sibling") = (IF p = "Alice" THEN 1 ELSE 2)
    BY DEF AbitOf
  <2> QED BY <2>1, <2>2 DEF Stream
<1>2. PICK s \in Stream : k = AbitOf(p, s)
  BY <1>1
<1>3. r.abit[AbitOf(p, s)] = [setup |-> z.setup, left |-> z.left, check |-> z.str[s].chk]
  BY DEF Fits
<1> DEFINE a == r.abit[k]
<1>4. a = [setup |-> z.setup, left |-> z.left, check |-> z.str[s].chk]
  BY <1>2, <1>3
<1> QED BY <1>4

LEMMA PushStep ==
    ASSUME NEW f, NEW pos, NEW p, NEW k, NEW z, Following(f, pos, p, k, z),
           NEW op \in PushOp, Calling(p, op), op = "serve" => ~Ended(z),
           UNCHANGED <<rest, net>>,
           st' = [st EXCEPT ![p].todo = Then(p, Expand(p, z, op, Arg(p)))]
    PROVE  LockInv'
<1> DEFINE X == Then(p, Expand(p, z, op, Arg(p)))
<1>1. TypeOK /\ p \in Party /\ st[p] \in PartyRec /\ ~Ended(z)
  BY Followed DEF PushOp
<1>2. st \in [Party -> PartyRec]
  BY <1>1 DEF TypeOK
<1>3. st' = [st EXCEPT ![p].todo = X]
  OBVIOUS
<1> HIDE DEF X
<1>4. st'[p] = [st[p] EXCEPT !.todo = X] /\ \A q \in Party \ {p} : st'[q] = st[q]
  BY <1>1, <1>2, <1>3
<1>5. SameRest(st[p], st'[p]) /\ st'[p].todo = X
  BY <1>1, <1>4 DEF SameRest, PartyRec
<1> QED BY <1>1, <1>4, <1>5, Pushes DEF X

\* A step that leaves a party where it is, and moves no word.
LEMMA Stays ==
    ASSUME NEW f, NEW pos, NEW p, NEW k, NEW z, Following(f, pos, p, k, z),
           UNCHANGED <<job, params, wire, buf>>, faults' \in Nat, Honest' => Honest,
           \A q \in Party \ {p} : st'[q] = st[q],
           st'[p].run = "running" =>
               /\ Stacked(f, p, st'[p], pos[p]) \/ Idle(job, f, p, st'[p], pos[p])
               /\ Agrees(f, params, p, st'[p], pos[p]),
           Honest' /\ st'[p].run = "done" => Ended(z),
           Honest' => st'[p].run # "failed"
    PROVE  LockInv'
<1>1. TypeOK /\ p \in Party /\ Tracks(f, pos) /\ Tracked /\ k = pos[p].k /\ z = f[k]
  BY DEF Following, IInv, At
<1>2. pos[p] \in Position /\ Placed(job, f, params, p, st[p], pos[p])
  BY <1>1 DEF Tracks, Follows
<1>3. Placed(job, f, params, p, st'[p], pos[p])
  BY <1>2 DEF Placed
<1>4. Honest' /\ st'[p].run = "done" => Ended(f[pos[p].k])
  BY <1>1
<1> DEFINE o == pos[p]
<1>5. \A s \in Stream : HasSent(f, params, p, o, s) = HasSent(f, params, p, pos[p], s)
                        /\ HasReceived(f, params, p, o, s) = HasReceived(f, params, p, pos[p], s)
  OBVIOUS
<1> HIDE DEF o
<1>6. o \in Position /\ Placed(job, f, params, p, st'[p], o)
      /\ (Honest' /\ st'[p].run = "done" => Ended(f[o.k]))
  BY <1>2, <1>3, <1>4 DEF o
<1> QED BY <1>1, <1>5, <1>6, Turn

\* A party stops where it is.
LEMMA Stops ==
    ASSUME NEW f, NEW pos, NEW p, NEW k, NEW z, Following(f, pos, p, k, z),
           UNCHANGED <<job, params, wire, buf>>, faults' \in Nat, ~Honest', st' = Fails(p)
    PROVE  LockInv'
<1>1. TypeOK /\ p \in Party /\ st \in [Party -> PartyRec]
  BY DEF Following, IInv, TypeOK
<1>2. st'[p].run = "failed" /\ \A q \in Party \ {p} : st'[q] = st[q]
  BY <1>1 DEF Fails, PartyRec
<1> QED BY <1>2, Stays

LEMMA AgreesSame ==
    ASSUME NEW f, NEW par, NEW p, NEW r, NEW x, NEW o, SameRest(r, x), Agrees(f, par, p, r, o)
    PROVE  Agrees(f, par, p, x, o)
<1>1. ASSUME NEW s \in Stream, AgreesOn(f, par, p, r, o, s) PROVE AgreesOn(f, par, p, x, o, s)
  <2>1. r.fs = x.fs /\ r.abit = x.abit
    BY DEF SameRest
  <2> QED BY <2>1, <1>1 DEF AgreesOn
<1>2. \A s \in Stream : AgreesOn(f, par, p, r, o, s)
  BY DEF Agrees
<1>3. \A s \in Stream : AgreesOn(f, par, p, x, o, s)
  BY <1>1, <1>2
<1>4. x.minted = f[o.k].minted /\ x.coins = f[o.k].coins
      /\ x.got = OnStream(f, par, o, "main").got[p]
  BY DEF Agrees, SameRest
<1> QED BY <1>3, <1>4 DEF Agrees

LEMMA DigestTracks ==
    ASSUME NEW f, NEW pos, NEW p, NEW k, NEW z, Following(f, pos, p, k, z), ExchangeCircuitDigest(p)
    PROVE  LockInv'
<1>1. /\ Calling(p, "exchange_digest") /\ UNCHANGED <<rest, net>>
      /\ st' = [st EXCEPT ![p].todo = Then(p, Expand(p, z, "exchange_digest", Arg(p)))]
  BY DEF ExchangeCircuitDigest, Expand
<1> QED BY <1>1, PushStep DEF PushOp

LEMMA HandshakeTracks ==
    ASSUME NEW f, NEW pos, NEW p, NEW k, NEW z, Following(f, pos, p, k, z), RunSessionHandshake(p)
    PROVE  LockInv'
<1>1. /\ Calling(p, "handshake") /\ UNCHANGED <<rest, net>>
      /\ st' = [st EXCEPT ![p].todo = Then(p, Expand(p, z, "handshake", Arg(p)))]
  BY DEF RunSessionHandshake, Expand
<1> QED BY <1>1, PushStep DEF PushOp

LEMMA EndAbitsTracks ==
    ASSUME NEW f, NEW pos, NEW p, NEW k, NEW z, Following(f, pos, p, k, z), EndAbits(p)
    PROVE  LockInv'
<1>1. /\ Calling(p, "end_abits") /\ UNCHANGED <<rest, net>>
      /\ st' = [st EXCEPT ![p].todo = Then(p, Expand(p, z, "end_abits", Arg(p)))]
  BY DEF EndAbits, Expand
<1> QED BY <1>1, PushStep DEF PushOp

LEMMA InputsTracks ==
    ASSUME NEW f, NEW pos, NEW p, NEW k, NEW z, Following(f, pos, p, k, z), ProcessInputs(p)
    PROVE  LockInv'
<1>1. /\ Calling(p, "process_inputs") /\ UNCHANGED <<rest, net>>
      /\ st' = [st EXCEPT ![p].todo = Then(p, Expand(p, z, "process_inputs", Arg(p)))]
  BY DEF ProcessInputs, Expand, InputCalls
<1> QED BY <1>1, PushStep DEF PushOp

LEMMA GarbleTracks ==
    ASSUME NEW f, NEW pos, NEW p, NEW k, NEW z, Following(f, pos, p, k, z), Garble(p)
    PROVE  LockInv'
<1>1. /\ Calling(p, "garble") /\ UNCHANGED <<rest, net>>
      /\ st' = [st EXCEPT ![p].todo = Then(p, Expand(p, z, "garble", Arg(p)))]
  BY DEF Garble, Expand
<1> QED BY <1>1, PushStep DEF PushOp

LEMMA EvaluateTracks ==
    ASSUME NEW f, NEW pos, NEW p, NEW k, NEW z, Following(f, pos, p, k, z), Evaluate(p)
    PROVE  LockInv'
<1>1. /\ Calling(p, "evaluate") /\ UNCHANGED <<rest, net>>
      /\ st' = [st EXCEPT ![p].todo = Then(p, Expand(p, z, "evaluate", Arg(p)))]
  BY DEF Evaluate, Expand
<1> QED BY <1>1, PushStep DEF PushOp

LEMMA DecodeTracks ==
    ASSUME NEW f, NEW pos, NEW p, NEW k, NEW z, Following(f, pos, p, k, z), Decode(p)
    PROVE  LockInv'
<1>1. /\ Calling(p, "decode") /\ UNCHANGED <<rest, net>>
      /\ st' = [st EXCEPT ![p].todo = Then(p, Expand(p, z, "decode", Arg(p)))]
  BY DEF Decode, Expand
<1> QED BY <1>1, PushStep DEF PushOp

LEMMA ComputeTracks ==
    ASSUME NEW f, NEW pos, NEW p, NEW k, NEW z, Following(f, pos, p, k, z), ComputeInplace(p)
    PROVE  LockInv'
<1>1. Calling(p, "compute") /\ UNCHANGED <<rest, net>>
  BY DEF ComputeInplace
<1>2. TypeOK /\ ApartInv /\ p \in Party /\ params["Alice"] = Agreed
  BY DEF Following, IInv, Tracked
<1>3. ~Apart
  <2> SUFFICES ASSUME Apart PROVE FALSE
    OBVIOUS
  <2>1. OpensOK
    BY <1>2 DEF ApartInv
  <2> QED BY <2>1, <1>1, <1>2, ApartCalls
<1>4. params[p].ssp = Ssp
  BY <1>2, <1>3 DEF Apart, Party, Agreed
<1>5. st' = [st EXCEPT ![p].todo = Then(p, Expand(p, z, "compute", Arg(p)))]
  BY <1>4 DEF ComputeInplace, Expand, ComputeCalls
<1> QED BY <1>1, <1>5, PushStep DEF PushOp

LEMMA OpenTracks ==
    ASSUME NEW f, NEW pos, NEW p, NEW k, NEW z, Following(f, pos, p, k, z), OpenSibling(p)
    PROVE  LockInv'
<1> DEFINE X == Then(p, <<>>)
           op == "open_sibling"
<1>1. /\ Calling(p, op) /\ UNCHANGED <<rest, net>>
      /\ st' = [st EXCEPT ![p].connected = TRUE, ![p].todo = X]
  BY DEF OpenSibling
<1>2. op \in PushOp /\ op # "serve"
  BY DEF PushOp
<1>3. X = Then(p, Expand(p, z, op, Arg(p)))
  BY DEF Expand
<1> HIDE DEF X, op
<1>4. TypeOK /\ p \in Party /\ st[p] \in PartyRec /\ ~Ended(z)
  BY <1>1, <1>2, Followed DEF PushOp
<1>5. st \in [Party -> PartyRec]
  BY <1>4 DEF TypeOK
<1>6. SameRest(st[p], st'[p]) /\ st'[p].todo = X /\ \A q \in Party \ {p} : st'[q] = st[q]
  BY <1>1, <1>4, <1>5 DEF SameRest, PartyRec
<1> QED BY <1>1, <1>2, <1>3, <1>4, <1>6, Pushes

\* What Bob and Alice wait for has come.
LEMMA CameIn ==
    ASSUME NEW f, NEW pos, NEW p, NEW k, NEW z, Following(f, pos, p, k, z),
           NEW op \in {"compare_digest", "precompute"}, Calling(p, op)
    PROVE  /\ op = "compare_digest" => st[p].got = params[Peer(p)]
           /\ op = "precompute" => st[p].got \in DOMAIN Targets
                                   /\ z.str["main"].got[p] = st[p].got
<1>1. /\ p \in Party /\ Between(job, params, pos[p], k, z, p, st[p], op) /\ Fits(z, p, st[p])
      /\ ~Ended(z) /\ z.todo["Alice"][1].op = op
  BY Followed DEF AsAlice
<1>2. z \in InLockstep(job, params)
  BY <1>1 DEF Between
<1>3. Awaited(params, z) /\ DualStacks(job, z.todo["Alice"], z.todo["Bob"])
  BY <1>2, InLock
<1> DEFINE t == z.todo["Alice"]
           got == z.str["main"].got
<1>4. t # <<>> /\ t \in Seq(AnyCall)
  BY <1>1, <1>3 DEF Ended, DualStacks
<1>5. \A i \in DOMAIN t :
          /\ t[i].op = "compare_digest" =>
                \/ i = 1 /\ \A q \in Party : got[q] = params[Peer(q)]
                \/ i = 2
          /\ t[i].op = "precompute" =>
                /\ got["Alice"] \in DOMAIN Targets
                /\ \/ i = 1 /\ got["Bob"] = got["Alice"]
                   \/ i = 2
  BY <1>3 DEF Awaited
<1>6. t[1].op = op
  BY <1>1
<1>7. st[p].got = got[p]
  BY <1>1 DEF Fits
<1> HIDE DEF t, got
<1>8. 1 \in DOMAIN t
  BY <1>4
<1>9. op = "compare_digest" => got[p] = params[Peer(p)]
  BY <1>1, <1>5, <1>6, <1>8
<1>10. op = "precompute" => got["Alice"] \in DOMAIN Targets /\ got["Bob"] = got["Alice"]
  BY <1>5, <1>6, <1>8
<1>11. op = "precompute" => got[p] \in DOMAIN Targets
  BY <1>1, <1>10 DEF Party
<1> QED BY <1>7, <1>9, <1>11 DEF got

\* The compared digests differ only when the parties are configured apart.
LEMMA CompareTracks ==
    ASSUME NEW f, NEW pos, NEW p, NEW k, NEW z, Following(f, pos, p, k, z), CompareDigest(p)
    PROVE  LockInv'
<1>1. Calling(p, "compare_digest") /\ UNCHANGED <<rest, net>>
  BY DEF CompareDigest
<1>2. CASE st[p].got = params[p]
  <2>1. st' = [st EXCEPT ![p].todo = Then(p, Expand(p, z, "compare_digest", Arg(p)))]
    BY <1>2 DEF CompareDigest, Expand
  <2> QED BY <2>1, <1>1, PushStep DEF PushOp
<1>3. CASE st[p].got # params[p]
  <2>1. st' = Fails(p)
    BY <1>3 DEF CompareDigest
  <2>2. st[p].got = params[Peer(p)] /\ p \in Party
    BY <1>1, CameIn DEF Following
  <2>3. Apart
    BY <2>2, <1>3 DEF Apart, Peer, Party
  <2>4. UNCHANGED <<job, params, wire, buf>> /\ faults' = faults
    BY <1>1 DEF rest, net
  <2>5. faults' \in Nat /\ ~Honest'
    BY <2>3, <2>4 DEF Honest, Apart, Following, Tracked
  <2> QED BY <2>1, <2>4, <2>5, Stops
<1> QED BY <1>2, <1>3

LEMMA PrecomputeTracks ==
    ASSUME NEW f, NEW pos, NEW p, NEW k, NEW z, Following(f, pos, p, k, z), PrecomputeTarget(p)
    PROVE  LockInv'
<1>1. Calling(p, "precompute") /\ UNCHANGED <<rest, net>>
  BY DEF PrecomputeTarget
<1>2. st[p].got \in DOMAIN Targets /\ z.str["main"].got[p] = st[p].got
  BY <1>1, CameIn
<1>3. st' = [st EXCEPT ![p].todo = Then(p, Expand(p, z, "precompute", Arg(p)))]
  BY <1>2 DEF PrecomputeTarget, Expand
<1> QED BY <1>1, <1>3, PushStep DEF PushOp

\* A party that fails by itself is no longer honest.
LEMMA FailTracks ==
    ASSUME NEW f, NEW pos, NEW p, NEW k, NEW z, Following(f, pos, p, k, z), Fail(p)
    PROVE  LockInv'
<1>1. UNCHANGED <<job, params, wire, buf>> /\ faults' = faults + 1 /\ st' = Fails(p)
  BY DEF Fail, net
<1>2. faults \in Nat
  BY DEF Following, Tracked
<1>3. faults' \in Nat /\ ~Honest'
  BY <1>1, <1>2 DEF Honest
<1> QED BY <1>1, <1>3, Stops

\* Where a party that runs is.
LEMMA Standing ==
    ASSUME NEW f, NEW pos, NEW p, NEW k, NEW z, Following(f, pos, p, k, z), st[p].run = "running"
    PROVE  /\ pos[p] \in Position /\ k = pos[p].k /\ z = f[k] /\ f = Run(job, params)
           /\ k \in Nat /\ z \in InLockstep(job, params)
           /\ Valid(f, p, pos[p]) /\ Agrees(f, params, p, st[p], pos[p])
           /\ Stacked(f, p, st[p], pos[p]) \/ Idle(job, f, p, st[p], pos[p])
<1>1. TypeOK /\ p \in Party /\ Tracks(f, pos) /\ k = pos[p].k /\ z = f[k]
  BY DEF Following, IInv, At
<1>2. pos[p] \in Position /\ Placed(job, f, params, p, st[p], pos[p]) /\ f = Run(job, params)
  BY <1>1 DEF Tracks, Follows
<1>3. k \in Nat
  BY <1>1, <1>2 DEF Position
<1>4. z \in InLockstep(job, params)
  BY <1>1, <1>2, <1>3, RunStep DEF TypeOK
<1> QED BY <1>1, <1>2, <1>3, <1>4 DEF Placed

\* A party is done only when its run has ended.
LEMMA FinishTracks ==
    ASSUME NEW f, NEW pos, NEW p, NEW k, NEW z, Following(f, pos, p, k, z), Finish(p)
    PROVE  LockInv'
<1>1. /\ st[p].run = "running" /\ st[p].todo = <<>> /\ st' = [st EXCEPT ![p].run = "done"]
      /\ UNCHANGED <<rest, net>>
  BY DEF Finish
<1>2. TypeOK /\ p \in Party /\ st \in [Party -> PartyRec] /\ faults \in Nat
  BY DEF Following, IInv, TypeOK, Tracked
<1>3. st'[p].run = "done" /\ \A q \in Party \ {p} : st'[q] = st[q]
  BY <1>1, <1>2 DEF PartyRec
<1>4. Ended(z)
  <2>1. /\ k = pos[p].k /\ z = f[k] /\ z \in InLockstep(job, params)
        /\ Stacked(f, p, st[p], pos[p]) \/ Idle(job, f, p, st[p], pos[p])
    BY <1>1, Standing
  <2>2. Stacked(f, p, st[p], pos[p])
    BY <1>1, <2>1 DEF Idle
  <2>3. st[p].todo = z.todo[p]
    BY <1>1, <2>1, <2>2 DEF Stacked
  <2>4. DualStacks(job, z.todo["Alice"], z.todo["Bob"])
    BY <2>1, InLock
  <2>5. CASE p = "Alice"
    BY <2>5, <2>3, <1>1 DEF Ended
  <2>6. CASE p = "Bob"
    <3>1. z.todo["Bob"] = <<>>
      BY <2>6, <2>3, <1>1
    <3>2. z.todo["Alice"] = <<>>
      BY <3>1, <2>4, Heads
    <3> QED BY <3>2 DEF Ended
  <2> QED BY <2>5, <2>6, <1>2 DEF Party
<1>5. UNCHANGED <<job, params, wire, buf>> /\ faults' = faults
  BY <1>1 DEF rest, net
<1>6. Honest' => Honest
  BY <1>5 DEF Honest, Apart
<1> QED BY <1>2, <1>3, <1>4, <1>5, <1>6, Stays

\* Bob serves until Alice has named all her targets, and then waits for one more.
LEMMA ServeTracks ==
    ASSUME NEW f, NEW pos, NEW p, NEW k, NEW z, Following(f, pos, p, k, z), ServeTarget(p)
    PROVE  LockInv'
<1>1. /\ Calling(p, "serve") /\ UNCHANGED <<rest, net>>
      /\ st' = [st EXCEPT ![p].todo = Then(p, Expand(p, z, "serve", Arg(p)))]
  BY DEF ServeTarget, Expand
<1>2. CASE ~Ended(z)
  BY <1>1, <1>2, PushStep DEF PushOp
<1>3. CASE Ended(z)
  <2>1. /\ TypeOK /\ p \in Party /\ st[p] \in PartyRec /\ st[p].run = "running"
        /\ Between(job, params, pos[p], k, z, p, st[p], "serve") /\ st[p].todo = z.todo[p]
    BY <1>1, Followed
  <2>2. p = "Bob" /\ job = "session" /\ z.todo[p] = <<Serve>>
    <3>1. AtCall(job, z, p, st[p], "serve")
      BY <2>1 DEF Between
    <3> QED BY <3>1, <1>3 DEF AtCall
  <2>3. st \in [Party -> PartyRec] /\ faults \in Nat
    BY <2>1 DEF Following, TypeOK, Tracked
  <2> DEFINE X == <<TargetJoin("Bob"), Precompute, Serve>>
  <2>4. Then(p, Expand(p, z, "serve", Arg(p))) = X
    <3>1. Expand(p, z, "serve", Arg(p)) = OnMain(<<Recv("target", 1)>>) \o Call("precompute", 0) \o Call("serve", 0)
      BY DEF Expand
    <3>2. Expand(p, z, "serve", Arg(p)) = X
      BY <3>1, OpeningBodies
    <3>3. Tail(st[p].todo) = <<>>
      <4>1. st[p].todo = <<Serve>>
        BY <2>1, <2>2
      <4> HIDE DEF Serve
      <4> QED BY <4>1
    <3>4. X \o <<>> = X
      <4> DEFINE a == TargetJoin("Bob")
                 b == Precompute
                 c == Serve
      <4>1. <<a, b, c>> \o <<>> = <<a, b, c>>
        <5> HIDE DEF a, b, c
        <5> QED OBVIOUS
      <4> QED BY <4>1
    <3> QED BY <3>2, <3>3, <3>4 DEF Then
  <2> HIDE DEF X
  <2>5. st' = [st EXCEPT ![p].todo = X]
    BY <1>1, <2>4
  <2>6. SameRest(st[p], st'[p]) /\ st'[p].todo = X /\ \A q \in Party \ {p} : st'[q] = st[q]
    BY <2>1, <2>3, <2>5 DEF SameRest, PartyRec
  <2>7. Agrees(f, params, p, st[p], pos[p]) /\ k = pos[p].k /\ z = f[k]
    BY <2>1, Standing
  <2>8. Agrees(f, params, p, st'[p], pos[p])
    <3> DEFINE r == st[p]
               x == st'[p]
               o == pos[p]
    <3>1. SameRest(r, x) /\ Agrees(f, params, p, r, o)
      BY <2>6, <2>7
    <3> HIDE DEF r, x, o
    <3>2. Agrees(f, params, p, x, o)
      BY <3>1, AgreesSame
    <3> QED BY <3>2 DEF x, o
  <2>9. Idle(job, f, p, st'[p], pos[p])
    <3>1. Ended(f[pos[p].k])
      BY <2>7, <1>3
    <3> QED BY <3>1, <2>2, <2>6 DEF Idle, X
  <2>10. UNCHANGED <<job, params, wire, buf>> /\ faults' = faults
    BY <1>1 DEF rest, net
  <2>11. Honest' => Honest
    BY <2>10 DEF Honest, Apart
  <2>12. st'[p].run = "running"
    BY <2>1, <2>6 DEF SameRest
  <2>13. faults' \in Nat
    BY <2>3, <2>10
  <2> QED BY <2>6, <2>8, <2>9, <2>10, <2>11, <2>12, <2>13, Stays
<1> QED BY <1>2, <1>3

\* A call that changes one other field of its party.
LEMMA Changes ==
    ASSUME NEW f, NEW pos, NEW p, NEW k, NEW z, Following(f, pos, p, k, z),
           NEW op, Calling(p, op), op \notin {"join", "serve"},
           UNCHANGED <<rest, net>>,
           NEW x, st' = [st EXCEPT ![p] = x], x.run = st[p].run,
           x.todo = Then(p, Expand(p, z, op, Arg(p))),
           MadeRest(p, AsAlice(op), Arg(p), st[p], x)
    PROVE  LockInv'
<1>1. TypeOK /\ p \in Party /\ ~Ended(z) /\ st[p].run = "running"
  BY Followed
<1>2. st'[p] = x /\ \A q \in Party \ {p} : st'[q] = st[q]
  BY <1>1 DEF TypeOK
<1>3. \A n : op = "serve" \/ n = Arg(p) => MadeRest(p, AsAlice(op), n, st[p], st'[p])
  BY <1>2
<1> QED BY <1>1, <1>2, <1>3, MakesHere

LEMMA CoinTracks ==
    ASSUME NEW f, NEW pos, NEW p, NEW k, NEW z, Following(f, pos, p, k, z), DrawCoin(p)
    PROVE  LockInv'
<1> DEFINE op == "coin"
           r == st[p]
           n == Arg(p)
           C == Append(r.coins, <<GetDigest(r.fs["main"]), GetDigest(r.fs["sibling"])>>)
           X == Then(p, Expand(p, z, op, Arg(p)))
           x == [r EXCEPT !.coins = C, !.todo = X]
<1>1. Calling(p, op) /\ UNCHANGED <<rest, net>> /\ st' = [st EXCEPT ![p] = x]
  BY DEF DrawCoin, Expand
<1>2. r \in PartyRec
  BY <1>1, Followed
<1> HIDE DEF r, n, C, X
<1>3. x.run = r.run /\ x.todo = X /\ x.coins = C /\ x.minted = r.minted /\ x.got = r.got
      /\ x.fs = r.fs /\ x.abit = r.abit /\ r.minted \in BOOLEAN
  BY <1>2 DEF PartyRec
<1> HIDE DEF x
<1>4. MadeRest(p, "coin", n, r, x)
  BY <1>3 DEF MadeRest, C
<1>5. AsAlice(op) = "coin"
  BY DEF AsAlice
<1> QED
  <2>1. MadeRest(p, AsAlice(op), Arg(p), st[p], x) /\ x.run = st[p].run
    BY <1>1, <1>3, <1>4, <1>5 DEF r, n
  <2>2. x.todo = Then(p, Expand(p, z, op, Arg(p)))
    BY <1>1, <1>3, <1>4, <1>5 DEF X
  <2>3. op \notin {"join", "serve"}
    OBVIOUS
  <2>4. Calling(p, op) /\ UNCHANGED <<rest, net>> /\ st' = [st EXCEPT ![p] = x]
    BY <1>1, <1>3, <1>4, <1>5
  <2> HIDE DEF op
  <2> QED BY <2>1, <2>2, <2>3, <2>4, Changes

\* The consistency check at the end of abits.
LEMMA EndTracks ==
    ASSUME NEW f, NEW pos, NEW p, NEW k, NEW z, Following(f, pos, p, k, z), End(p)
    PROVE  LockInv'
<1> DEFINE op == "end"
           r == st[p]
           n == Arg(p)
           X == Then(p, Expand(p, z, op, Arg(p)))
           x == [r EXCEPT !.minted = FALSE, !.todo = X]
<1>1. Calling(p, op) /\ UNCHANGED <<rest, net>> /\ st' = [st EXCEPT ![p] = x]
  BY DEF End, Expand
<1>2. r \in PartyRec
  BY <1>1, Followed
<1> HIDE DEF r, n, X
<1>3. x.run = r.run /\ x.todo = X /\ x.coins = r.coins /\ x.minted = FALSE /\ x.got = r.got
      /\ x.fs = r.fs /\ x.abit = r.abit
  BY <1>2 DEF PartyRec
<1> HIDE DEF x
<1>4. MadeRest(p, "end", n, r, x)
  BY <1>3 DEF MadeRest
<1>5. AsAlice(op) = "end"
  BY DEF AsAlice
<1> QED
  <2>1. MadeRest(p, AsAlice(op), Arg(p), st[p], x) /\ x.run = st[p].run
    BY <1>1, <1>3, <1>4, <1>5 DEF r, n
  <2>2. x.todo = Then(p, Expand(p, z, op, Arg(p)))
    BY <1>1, <1>3, <1>4, <1>5 DEF X
  <2>3. op \notin {"join", "serve"}
    OBVIOUS
  <2>4. Calling(p, op) /\ UNCHANGED <<rest, net>> /\ st' = [st EXCEPT ![p] = x]
    BY <1>1, <1>3, <1>4, <1>5
  <2> HIDE DEF op
  <2> QED BY <2>1, <2>2, <2>3, <2>4, Changes

LEMMA ProgramTracks ==
    ASSUME NEW f, NEW pos, NEW p, NEW k, NEW z, Following(f, pos, p, k, z), RunProgram(p)
    PROVE  LockInv'
<1> DEFINE op == "run_program"
           r == st[p]
           n == Arg(p)
           none == <<>>
           X == Then(p, Expand(p, z, op, Arg(p)))
           x == [r EXCEPT !.coins = none, !.todo = X]
<1>1. Calling(p, op) /\ UNCHANGED <<rest, net>> /\ st' = [st EXCEPT ![p] = x]
  BY DEF RunProgram, Expand, ProgramCalls
<1>2. r \in PartyRec
  BY <1>1, Followed
<1> HIDE DEF r, n, X, none
<1>3. x.run = r.run /\ x.todo = X /\ x.coins = none /\ x.minted = r.minted /\ x.got = r.got
      /\ x.fs = r.fs /\ x.abit = r.abit /\ r.minted \in BOOLEAN
  BY <1>2 DEF PartyRec
<1> HIDE DEF x
<1>4. MadeRest(p, "run_program", n, r, x)
  BY <1>3 DEF MadeRest, none
<1>5. AsAlice(op) = "run_program"
  BY DEF AsAlice
<1> QED
  <2>1. MadeRest(p, AsAlice(op), Arg(p), st[p], x) /\ x.run = st[p].run
    BY <1>1, <1>3, <1>4, <1>5 DEF r, n
  <2>2. x.todo = Then(p, Expand(p, z, op, Arg(p)))
    BY <1>1, <1>3, <1>4, <1>5 DEF X
  <2>3. op \notin {"join", "serve"}
    OBVIOUS
  <2>4. Calling(p, op) /\ UNCHANGED <<rest, net>> /\ st' = [st EXCEPT ![p] = x]
    BY <1>1, <1>3, <1>4, <1>5
  <2> HIDE DEF op
  <2> QED BY <2>1, <2>2, <2>3, <2>4, Changes

LEMMA FlushTracks ==
    ASSUME NEW f, NEW pos, NEW p, NEW k, NEW z, Following(f, pos, p, k, z), MaybeFlushCotCheck(p)
    PROVE  LockInv'
<1> DEFINE op == "maybe_flush"
           r == st[p]
           n == Arg(p)
           X == Then(p, Expand(p, z, op, Arg(p)))
           x == [r EXCEPT !.minted = FALSE, !.todo = X]
<1>1. Calling(p, op) /\ UNCHANGED <<rest, net>>
  BY DEF MaybeFlushCotCheck
<1>2. r \in PartyRec /\ Fits(z, p, r) /\ p \in Party
  BY <1>1, Followed
<1>3. r.minted = z.minted /\ r.minted \in BOOLEAN
  BY <1>2 DEF Fits, PartyRec
<1>4. st' = [st EXCEPT ![p] = x]
  <2>1. CASE r.minted
    <3>1. X = Then(p, Call("end_abits", 0) \o Call("begin_abits", 0))
      BY <2>1, <1>3 DEF Expand
    <3> HIDE DEF X
    <3> QED BY <2>1, <3>1 DEF MaybeFlushCotCheck, ShouldFlushCotCheck
  <2>2. CASE ~r.minted
    <3>1. X = Then(p, <<>>)
      BY <2>2, <1>3 DEF Expand
    <3>2. r.minted = FALSE
      BY <2>2, <1>3
    <3> HIDE DEF X
    <3>3. st' = [st EXCEPT ![p].todo = X]
      BY <2>2, <3>1 DEF MaybeFlushCotCheck, ShouldFlushCotCheck
    <3>4. [r EXCEPT !.todo = X] = x
      <4> HIDE DEF r
      <4> QED BY <3>2, <1>2 DEF PartyRec
    <3>5. st \in [Party -> PartyRec]
      BY DEF Following, IInv, TypeOK
    <3> QED BY <3>3, <3>4, <3>5
  <2> QED BY <2>1, <2>2, <1>3
<1> HIDE DEF r, n, X
<1>5. x.run = r.run /\ x.todo = X /\ x.coins = r.coins /\ x.minted = FALSE /\ x.got = r.got
      /\ x.fs = r.fs /\ x.abit = r.abit
  BY <1>2 DEF PartyRec
<1> HIDE DEF x
<1>6. MadeRest(p, "maybe_flush", n, r, x)
  BY <1>5 DEF MadeRest
<1>7. AsAlice(op) = "maybe_flush"
  BY DEF AsAlice
<1> QED
  <2>1. MadeRest(p, AsAlice(op), Arg(p), st[p], x) /\ x.run = st[p].run
    BY <1>1, <1>4, <1>5, <1>6, <1>7 DEF r, n
  <2>2. x.todo = Then(p, Expand(p, z, op, Arg(p)))
    BY <1>1, <1>4, <1>5, <1>6, <1>7 DEF X
  <2>3. op \notin {"join", "serve"}
    OBVIOUS
  <2>4. Calling(p, op) /\ UNCHANGED <<rest, net>> /\ st' = [st EXCEPT ![p] = x]
    BY <1>1, <1>4, <1>5, <1>6, <1>7
  <2> HIDE DEF op
  <2> QED BY <2>1, <2>2, <2>3, <2>4, Changes

LEMMA TrimTracks ==
    ASSUME NEW f, NEW pos, NEW p, NEW k, NEW z, Following(f, pos, p, k, z), TrimIdleAllocations(p)
    PROVE  LockInv'
<1> DEFINE op == "trim"
           r == st[p]
           n == Arg(p)
           A == [l \in 1..2 |-> [r.abit[l] EXCEPT !.left = 0]]
           X == Then(p, Expand(p, z, op, Arg(p)))
           x == [r EXCEPT !.abit = A, !.todo = X]
<1>1. Calling(p, op) /\ UNCHANGED <<rest, net>>
  BY DEF TrimIdleAllocations
<1>2. r \in PartyRec /\ p \in Party
  BY <1>1, Followed
<1>3. X = Then(p, <<>>) /\ st \in [Party -> PartyRec]
  BY DEF Expand, Following, IInv, TypeOK
<1>4. st' = [st EXCEPT ![p] = x]
  BY <1>2, <1>3 DEF TrimIdleAllocations
<1> HIDE DEF r, n, X
<1>5. \A l \in 1..2 : A[l] = [r.abit[l] EXCEPT !.left = 0]
  OBVIOUS
<1> HIDE DEF A
<1>6. x.run = r.run /\ x.todo = X /\ x.coins = r.coins /\ x.minted = r.minted /\ x.got = r.got
      /\ x.fs = r.fs /\ x.abit = A /\ r.minted \in BOOLEAN
  BY <1>2 DEF PartyRec
<1> HIDE DEF x
<1>7. MadeRest(p, "trim", n, r, x)
  BY <1>5, <1>6 DEF MadeRest
<1>8. AsAlice(op) = "trim"
  BY DEF AsAlice
<1> QED
  <2>1. MadeRest(p, AsAlice(op), Arg(p), st[p], x) /\ x.run = st[p].run
    BY <1>1, <1>4, <1>6, <1>7, <1>8 DEF r, n
  <2>2. x.todo = Then(p, Expand(p, z, op, Arg(p)))
    BY <1>1, <1>4, <1>6, <1>7, <1>8 DEF X
  <2>3. op \notin {"join", "serve"}
    OBVIOUS
  <2>4. Calling(p, op) /\ UNCHANGED <<rest, net>> /\ st' = [st EXCEPT ![p] = x]
    BY <1>1, <1>4, <1>6, <1>7, <1>8
  <2> HIDE DEF op
  <2> QED BY <2>1, <2>2, <2>3, <2>4, Changes

\* Chunks are counted alike from the correlations left over (softspoken.rs next_n).
LEMMA CotTracks ==
    ASSUME NEW f, NEW pos, NEW p, NEW k, NEW z, Following(f, pos, p, k, z), GenCotShares(p)
    PROVE  LockInv'
<1> DEFINE op == "gen_cot"
           r == st[p]
           n == Arg(p)
           A == [l \in 1..2 |-> [r.abit[l] EXCEPT !.left = LeftAfter(@, n)]]
           X == Then(p, Expand(p, z, op, Arg(p)))
           x == [r EXCEPT !.minted = TRUE, !.abit = A, !.todo = X]
<1>1. Calling(p, op) /\ UNCHANGED <<rest, net>>
  BY DEF GenCotShares
<1>2. r \in PartyRec /\ p \in Party /\ Fits(z, p, r)
  BY <1>1, Followed
<1>3. r.abit[1].left = z.left /\ r.abit[2].left = z.left
  BY <1>2, AbitsFit
<1>4. st' = [st EXCEPT ![p] = x]
  <2>1. X = Then(p, OnAbits(p,
                        Times(ChunksFor(st[p].abit[1].left, n), <<Recv("d", ChunkBlocks)>>),
                        Times(ChunksFor(st[p].abit[2].left, n), <<Send("d", ChunkBlocks)>>)))
    BY <1>3 DEF Expand
  <2> HIDE DEF X
  <2> QED BY <2>1 DEF GenCotShares
<1> HIDE DEF r, n, X
<1>5. \A l \in 1..2 : A[l] = [r.abit[l] EXCEPT !.left = LeftAfter(@, n)]
  OBVIOUS
<1> HIDE DEF A
<1>6. x.run = r.run /\ x.todo = X /\ x.coins = r.coins /\ x.minted = TRUE /\ x.got = r.got
      /\ x.fs = r.fs /\ x.abit = A
  BY <1>2 DEF PartyRec
<1> HIDE DEF x
<1>7. MadeRest(p, "gen_cot", n, r, x)
  BY <1>5, <1>6 DEF MadeRest
<1>8. AsAlice(op) = "gen_cot"
  BY DEF AsAlice
<1> QED
  <2>1. MadeRest(p, AsAlice(op), Arg(p), st[p], x) /\ x.run = st[p].run
    BY <1>1, <1>4, <1>6, <1>7, <1>8 DEF r, n
  <2>2. x.todo = Then(p, Expand(p, z, op, Arg(p)))
    BY <1>1, <1>4, <1>6, <1>7, <1>8 DEF X
  <2>3. op \notin {"join", "serve"}
    OBVIOUS
  <2>4. Calling(p, op) /\ UNCHANGED <<rest, net>> /\ st' = [st EXCEPT ![p] = x]
    BY <1>1, <1>4, <1>6, <1>7, <1>8
  <2> HIDE DEF op
  <2> QED BY <2>1, <2>2, <2>3, <2>4, Changes

LEMMA BeginTracks ==
    ASSUME NEW f, NEW pos, NEW p, NEW k, NEW z, Following(f, pos, p, k, z), BeginAbits(p)
    PROVE  LockInv'
<1> DEFINE op == "begin_abits"
           r == st[p]
           n == Arg(p)
           A == [l \in 1..2 |-> Begun(l, r.abit[l])]
           X == Then(p, Expand(p, z, op, Arg(p)))
           x == [r EXCEPT !.abit = A, !.todo = X]
<1>1. Calling(p, op) /\ UNCHANGED <<rest, net>>
  BY DEF BeginAbits
<1>2. r \in PartyRec /\ p \in Party /\ Fits(z, p, r)
  BY <1>1, Followed
<1>3. r.abit[1].setup = z.setup /\ r.abit[2].setup = z.setup
  BY <1>2, AbitsFit
<1>4. st' = [st EXCEPT ![p] = x]
  <2>1. X = Then(p, OnAbits(p,
                    IF st[p].abit[1].setup THEN <<>> ELSE BootstrapSend,
                    IF st[p].abit[2].setup THEN <<>> ELSE BootstrapRecv))
    BY <1>3 DEF Expand
  <2> HIDE DEF X
  <2> QED BY <2>1 DEF BeginAbits
<1> HIDE DEF r, n, X
<1>5. \A l \in 1..2 : A[l] = [setup |-> TRUE, left |-> 0, check |-> <<>>]
  BY DEF Begun
<1> HIDE DEF A
<1>6. x.run = r.run /\ x.todo = X /\ x.coins = r.coins /\ x.minted = r.minted /\ x.got = r.got
      /\ x.fs = r.fs /\ x.abit = A /\ r.minted \in BOOLEAN
  BY <1>2 DEF PartyRec
<1> HIDE DEF x
<1>7. MadeRest(p, "begin_abits", n, r, x)
  BY <1>5, <1>6 DEF MadeRest
<1>8. AsAlice(op) = "begin_abits"
  BY DEF AsAlice
<1> QED
  <2>1. MadeRest(p, AsAlice(op), Arg(p), st[p], x) /\ x.run = st[p].run
    BY <1>1, <1>4, <1>6, <1>7, <1>8 DEF r, n
  <2>2. x.todo = Then(p, Expand(p, z, op, Arg(p)))
    BY <1>1, <1>4, <1>6, <1>7, <1>8 DEF X
  <2>3. op \notin {"join", "serve"}
    OBVIOUS
  <2>4. Calling(p, op) /\ UNCHANGED <<rest, net>> /\ st' = [st EXCEPT ![p] = x]
    BY <1>1, <1>4, <1>6, <1>7, <1>8
  <2> HIDE DEF op
  <2> QED BY <2>1, <2>2, <2>3, <2>4, Changes

LEMMA SetupTracks ==
    ASSUME NEW f, NEW pos, NEW p, NEW k, NEW z, Following(f, pos, p, k, z), Setup(p)
    PROVE  LockInv'
<1> DEFINE op == "setup"
           r == st[p]
           n == Arg(p)
           F == [s \in Stream |-> [on |-> TRUE, first |-> SendFirst(p), sent |-> 0, recd |-> 0]]
           X == Then(p, Expand(p, z, op, Arg(p)))
           x == [r EXCEPT !.fs = F, !.todo = X]
<1>1. Calling(p, op) /\ UNCHANGED <<rest, net>> /\ st' = [st EXCEPT ![p] = x]
  BY DEF Setup, Expand
<1>2. r \in PartyRec
  BY <1>1, Followed
<1> HIDE DEF r, n, X
<1>3. \A s \in Stream : F[s] = [on |-> TRUE, first |-> p = "Alice", sent |-> 0, recd |-> 0]
  BY DEF SendFirst
<1> HIDE DEF F
<1>4. x.run = r.run /\ x.todo = X /\ x.coins = r.coins /\ x.minted = r.minted /\ x.got = r.got
      /\ x.fs = F /\ x.abit = r.abit /\ r.minted \in BOOLEAN
  BY <1>2 DEF PartyRec
<1> HIDE DEF x
<1>5. MadeRest(p, "setup", n, r, x)
  BY <1>3, <1>4 DEF MadeRest
<1>6. AsAlice(op) = "setup"
  BY DEF AsAlice
<1> QED
  <2>1. MadeRest(p, AsAlice(op), Arg(p), st[p], x) /\ x.run = st[p].run
    BY <1>1, <1>4, <1>5, <1>6 DEF r, n
  <2>2. x.todo = Then(p, Expand(p, z, op, Arg(p)))
    BY <1>1, <1>4, <1>5, <1>6 DEF X
  <2>3. op \notin {"join", "serve"}
    OBVIOUS
  <2>4. Calling(p, op) /\ UNCHANGED <<rest, net>> /\ st' = [st EXCEPT ![p] = x]
    BY <1>1, <1>4, <1>5, <1>6
  <2> HIDE DEF op
  <2> QED BY <2>1, <2>2, <2>3, <2>4, Changes

LEMMA RequestTracks ==
    ASSUME NEW f, NEW pos, NEW p, NEW k, NEW z, Following(f, pos, p, k, z), RequestTarget(p)
    PROVE  LockInv'
<1> DEFINE op == "request"
           r == st[p]
           n == Arg(p)
           X == Then(p, Expand(p, z, op, Arg(p)))
           x == [r EXCEPT !.got = n, !.todo = X]
<1>1. Calling(p, op) /\ UNCHANGED <<rest, net>> /\ st' = [st EXCEPT ![p] = x]
  BY DEF RequestTarget, Expand
<1>2. r \in PartyRec /\ p = "Alice"
  BY <1>1, Followed
<1> HIDE DEF r, n, X
<1>3. x.run = r.run /\ x.todo = X /\ x.coins = r.coins /\ x.minted = r.minted /\ x.got = n
      /\ x.fs = r.fs /\ x.abit = r.abit /\ r.minted \in BOOLEAN
  BY <1>2 DEF PartyRec
<1> HIDE DEF x
<1>4. MadeRest(p, "request", n, r, x)
  BY <1>2, <1>3 DEF MadeRest
<1>5. AsAlice(op) = "request"
  BY DEF AsAlice
<1> QED
  <2>1. MadeRest(p, AsAlice(op), Arg(p), st[p], x) /\ x.run = st[p].run
    BY <1>1, <1>3, <1>4, <1>5 DEF r, n
  <2>2. x.todo = Then(p, Expand(p, z, op, Arg(p)))
    BY <1>1, <1>3, <1>4, <1>5 DEF X
  <2>3. op \notin {"join", "serve"}
    OBVIOUS
  <2>4. Calling(p, op) /\ UNCHANGED <<rest, net>> /\ st' = [st EXCEPT ![p] = x]
    BY <1>1, <1>3, <1>4, <1>5
  <2> HIDE DEF op
  <2> QED BY <2>1, <2>2, <2>3, <2>4, Changes

=============================================================================
