-------------------------- MODULE AgSessionStreams --------------------------
(***************************************************************************)
(* Words that move: a frame sent, pulled or consumed, and a stream that    *)
(* closes, leave every party somewhere on the run of its job, and between  *)
(* two parties lie exactly the words of the run one has sent and the other *)
(* has not consumed.  So the streams stay in step whoever fails, and a run *)
(* in which nobody fails by itself passes every check.                     *)
(***************************************************************************)
EXTENDS AgSessionLockstep

-----------------------------------------------------------------------------
(* A party within a join.                                                  *)

\* Bob's stack once Alice's is through.
LEMMA OneServe ==
    ASSUME NEW j, NEW a, NEW b, DualStacks(j, a, b), Len(a) = 0, b # <<>>
    PROVE  j = "session" /\ b[1] = Serve /\ b = <<Serve>>
<1>1. b \in Seq(AnyCall) /\ Len(b) \in Nat \ {0}
  BY EmptySeq DEF DualStacks
<1>2. j = "session" /\ Len(b) = 1
  BY <1>1 DEF DualStacks
<1>3. b[1] = Serve
  BY <1>2 DEF DualStacks, Serve
<1>4. b = <<Serve>>
  BY <1>1, <1>2, <1>3
<1> QED BY <1>2, <1>3, <1>4

\* One party is in a join when both are.
LEMMA JoinBoth ==
    ASSUME NEW j, NEW par, NEW z \in InLockstep(j, par), NEW p \in Party,
           z.todo[p] # <<>>, z.todo[p][1].op = "join"
    PROVE  InJoin(z)
<1> DEFINE a == z.todo["Alice"]
           b == z.todo["Bob"]
<1>1. DualStacks(j, a, b)
  BY InLock
<1>2. CASE p = "Alice"
  BY <1>2 DEF InJoin
<1>3. CASE p = "Bob"
  <2>1. b # <<>> /\ b[1].op = "join"
    BY <1>3
  <2> HIDE DEF a, b
  <2>2. a # <<>>
    <3> SUFFICES ASSUME a = <<>> PROVE FALSE
      OBVIOUS
    <3>1. Len(a) = 0
      OBVIOUS
    <3>2. b[1] = Serve
      BY <3>1, <2>1, <1>1, OneServe
    <3> QED BY <3>2, <2>1 DEF Serve
  <2>3. a[1].op = "join"
    <3>1. CASE a[1].op = "request"
      <4>1. b[1].op = "serve"
        BY <3>1, <2>2, <1>1, Heads
      <4> QED BY <4>1, <2>1
    <3>2. CASE a[1].op # "request"
      <4>1. DualCall(a[1], b[1])
        BY <3>2, <2>2, <1>1, Heads
      <4> DEFINE c == a[1]
                 d == b[1]
      <4>2. DualCall(c, d) /\ d.op = "join"
        BY <4>1, <2>1
      <4> HIDE DEF c, d
      <4>3. c.op = "join"
        BY <4>2, Duals
      <4> QED BY <4>3 DEF c
    <3> QED BY <3>1, <3>2
  <2> QED BY <2>2, <2>3 DEF InJoin, a
<1> QED BY <1>2, <1>3 DEF Party

\* The message the branch of s is at.
InMessage(par, z, p, R, o, s, m, e) ==
    LET i == o.i[s]
        M == Messages1(z, s)
        c == R[1]
    IN  /\ i \in Nat /\ Len(M) \in Nat /\ i < Len(M) /\ m = M[i + 1] /\ m \in Message
        /\ e = Branch(par, z, s)[i] /\ e \in StreamState
        /\ Branch(par, z, s)[i + 1] = Passed(par, z, e, m)
        /\ o.part[s] \in Nat /\ c.kind = m.kind /\ c.n = m.n - o.part[s]
        /\ c.dir = "send" <=> Sender(m) = p
        /\ Sender(m) # p => o.part[s] = 0
        /\ m.kind \in {"d", "t"} => (Sender(m) = "Alice") = (s = "main")
        /\ m.kind \in {"circuit", "target"} => s = "main"

LEMMA AtMessage ==
    ASSUME NEW j \in Jobs, NEW par \in [Party -> Param], NEW p \in Party, NEW o \in Position,
           NEW z, z = Run(j, par)[o.k], Valid(Run(j, par), p, o), InJoin(z),
           NEW s \in Stream, NEW R, R # <<>>, R \in Seq(Message),
           Rest(z.todo[p][1][s], o.i[s], o.part[s], R)
    PROVE  InMessage(par, z, p, R, o, s, Messages1(z, s)[o.i[s] + 1], Branch(par, z, s)[o.i[s]])
<1> DEFINE i == o.i[s]
           part == o.part[s]
           M == Messages1(z, s)
           O == z.todo[p][1][s]
           m == M[i + 1]
           e == Branch(par, z, s)[i]
           c == R[1]
<1>1. o.k \in Nat /\ i \in Nat /\ part \in Nat
  BY DEF Position
<1>2. z \in InLockstep(j, par)
  BY <1>1, RunStep
<1>3. /\ O \in Seq(Message) /\ M \in Seq(Message) /\ Len(O) = Len(M)
      /\ \A x \in 1..Len(M) : LET a == M[x]
                                  b == O[x]
                  IN  /\ a \in Message /\ b \in Message /\ b.kind = a.kind /\ b.n = a.n
                      /\ b.dir = "send" <=> Sender(a) = p
                      /\ a.kind \in {"d", "t"} => (Sender(a) = "Alice") = (s = "main")
                      /\ a.kind \in {"circuit", "target"} => s = "main"
  <2>1. JoinSides(z, p, s, O, M)
    BY <1>2, JoinHere
  <2> HIDE DEF O, M
  <2> QED BY <2>1 DEF JoinSides
<1>4. Streams(z)
  BY <1>2, InLock
<1>5. i \in 0..Len(M) /\ (part > 0 => Sender(m) = p)
  BY DEF Valid
<1>6. Len(R) = Len(O) - i /\ c = [O[i + 1] EXCEPT !.n = @ - part]
  <2> HIDE DEF i, part, O, M, m, c
  <2>1. /\ Len(R) = Len(O) - i
        /\ \A x \in 1..Len(R) : R[x] = IF x = 1 THEN [O[i + 1] EXCEPT !.n = @ - part]
                                            ELSE O[i + x]
    BY DEF Rest, i, part, O
  <2>2. 1 \in 1..Len(R)
    OBVIOUS
  <2> QED BY <2>1, <2>2 DEF c
<1>7. Len(M) \in Nat /\ i < Len(M) /\ i + 1 \in 1..Len(M)
  <2> HIDE DEF i, O, M
  <2>1. Len(R) \in Nat \ {0} /\ Len(M) \in Nat
    BY <1>3
  <2> QED BY <2>1, <1>1, <1>3, <1>5, <1>6
<1>8. e \in StreamState /\ Branch(par, z, s)[i + 1] = Passed(par, z, e, m)
  <2> HIDE DEF i, M
  <2>1. /\ Branch(par, z, s) \in [Nat -> StreamState]
        /\ \A n \in Nat : n < Len(M) =>
              Branch(par, z, s)[n + 1] = Passed(par, z, Branch(par, z, s)[n], M[n + 1])
    BY <1>4, BranchStep DEF M
  <2> QED BY <2>1, <1>1, <1>7
<1> DEFINE b == O[i + 1]
<1>9. /\ m \in Message /\ b \in Message /\ b.kind = m.kind /\ b.n = m.n
      /\ b.dir = "send" <=> Sender(m) = p
      /\ m.kind \in {"d", "t"} => (Sender(m) = "Alice") = (s = "main")
      /\ m.kind \in {"circuit", "target"} => s = "main"
  <2> HIDE DEF O, M, i
  <2> QED BY <1>3, <1>7
<1>10. c.kind = m.kind /\ c.n = m.n - part /\ c.dir = b.dir
  <2>1. c = [b EXCEPT !.n = @ - part]
    BY <1>6
  <2> HIDE DEF c, b, m, part
  <2> QED BY <2>1, <1>9 DEF Message
<1>11. Sender(m) # p => part = 0
  BY <1>1, <1>5
<1> HIDE DEF i, part, M, O, m, e, c, b
<1>12. /\ i \in Nat /\ Len(M) \in Nat /\ i < Len(M) /\ m = M[i + 1] /\ m \in Message
       /\ e = Branch(par, z, s)[i] /\ e \in StreamState
       /\ Branch(par, z, s)[i + 1] = Passed(par, z, e, m)
       /\ part \in Nat /\ c.kind = m.kind /\ c.n = m.n - part
       /\ c.dir = "send" <=> Sender(m) = p
       /\ Sender(m) # p => part = 0
       /\ m.kind \in {"d", "t"} => (Sender(m) = "Alice") = (s = "main")
       /\ m.kind \in {"circuit", "target"} => s = "main"
  BY <1>1, <1>7, <1>8, <1>9, <1>10, <1>11 DEF m, e
<1> QED BY <1>12, Zenon DEF InMessage, i, part, M, m, e, c

\* Past the message, and further in it.
Onward(o, s) == [k |-> o.k, i |-> [o.i EXCEPT ![s] = @ + 1], part |-> [o.part EXCEPT ![s] = 0]]
Further(o, s, n) == [k |-> o.k, i |-> o.i, part |-> [o.part EXCEPT ![s] = @ + n]]

LEMMA PositionsAhead ==
    ASSUME NEW o \in Position, NEW s \in Stream, NEW n \in Nat
    PROVE  /\ Onward(o, s) \in Position /\ Onward(o, s).k = o.k
           /\ Onward(o, s).i[s] = o.i[s] + 1 /\ Onward(o, s).part[s] = 0
           /\ \A t \in Stream \ {s} : Onward(o, s).i[t] = o.i[t] /\ Onward(o, s).part[t] = o.part[t]
           /\ Further(o, s, n) \in Position /\ Further(o, s, n).k = o.k
           /\ \A t \in Stream : Further(o, s, n).i[t] = o.i[t]
           /\ Further(o, s, n).part[s] = o.part[s] + n
           /\ \A t \in Stream \ {s} : Further(o, s, n).part[t] = o.part[t]
<1>1. o.k \in Nat /\ o.i \in [Stream -> Nat] /\ o.part \in [Stream -> Nat]
  BY DEF Position
<1> DEFINE i1 == [o.i EXCEPT ![s] = @ + 1]
           p1 == [o.part EXCEPT ![s] = 0]
           p2 == [o.part EXCEPT ![s] = @ + n]
<1>2. /\ i1 \in [Stream -> Nat] /\ i1[s] = o.i[s] + 1 /\ \A t \in Stream \ {s} : i1[t] = o.i[t]
      /\ p1 \in [Stream -> Nat] /\ p1[s] = 0 /\ \A t \in Stream \ {s} : p1[t] = o.part[t]
      /\ p2 \in [Stream -> Nat] /\ p2[s] = o.part[s] + n /\ \A t \in Stream \ {s} : p2[t] = o.part[t]
  BY <1>1
<1>3. Onward(o, s) = [k |-> o.k, i |-> i1, part |-> p1]
      /\ Further(o, s, n) = [k |-> o.k, i |-> o.i, part |-> p2]
  BY DEF Onward, Further
<1> HIDE DEF i1, p1, p2
<1> QED BY <1>1, <1>2, <1>3 DEF Position

LEMMA RestOnward ==
    ASSUME NEW O \in Seq(Message), NEW i \in Nat, NEW part, NEW R, R # <<>>, R \in Seq(Message),
           Rest(O, i, part, R)
    PROVE  Rest(O, i + 1, 0, Tail(R)) /\ Tail(R) \in Seq(Message)
<1>1. /\ Len(R) = Len(O) - i
      /\ \A x \in 1..Len(R) : R[x] = IF x = 1 THEN [O[i + 1] EXCEPT !.n = @ - part]
                                            ELSE O[i + x]
  BY DEF Rest
<1>2. /\ Len(R) \in Nat \ {0} /\ Len(Tail(R)) = Len(R) - 1 /\ Len(O) \in Nat /\ Tail(R) \in Seq(Message)
      /\ \A x \in 1..(Len(R) - 1) : Tail(R)[x] = R[x + 1]
  OBVIOUS
<1> DEFINE T == Tail(R)
<1> HIDE DEF T
<1>3. ASSUME NEW x \in 1..Len(T)
      PROVE  T[x] = IF x = 1 THEN [O[(i + 1) + 1] EXCEPT !.n = @ - 0] ELSE O[(i + 1) + x]
  <2>1. x + 1 \in 1..Len(R) /\ x + 1 # 1 /\ x \in 1..(Len(R) - 1)
    BY <1>2 DEF T
  <2>2. R[x + 1] = O[i + (x + 1)]
    BY <1>1, <2>1
  <2>3. T[x] = R[x + 1]
    BY <1>2, <2>1 DEF T
  <2>4. i + (x + 1) = (i + 1) + x /\ (i + 1) + x \in 1..Len(O)
    BY <2>1, <1>1, <1>2
  <2>5. T[x] = O[(i + 1) + x]
    BY <2>2, <2>3, <2>4
  <2>6. CASE x = 1
    <3> DEFINE c == O[(i + 1) + 1]
    <3>1. c \in Message
      BY <2>4, <2>6
    <3> HIDE DEF c
    <3>2. c.n - 0 = c.n /\ [c EXCEPT !.n = c.n] = c
      BY <3>1 DEF Message
    <3>3. [c EXCEPT !.n = @ - 0] = c
      BY <3>2
    <3> QED BY <2>5, <2>6, <3>3 DEF c
  <2>7. CASE x # 1
    BY <2>5, <2>7
  <2> QED BY <2>6, <2>7
<1>4. Len(T) = Len(O) - (i + 1)
  BY <1>1, <1>2 DEF T
<1> QED BY <1>2, <1>3, <1>4 DEF Rest, T

LEMMA RestFurther ==
    ASSUME NEW O \in Seq(Message), NEW i \in Nat, NEW part \in Nat, NEW R, R # <<>>, R \in Seq(Message),
           Rest(O, i, part, R), NEW n \in Nat
    PROVE  Rest(O, i, part + n, <<[R[1] EXCEPT !.n = R[1].n - n]>> \o Tail(R))
           /\ <<[R[1] EXCEPT !.n = R[1].n - n]>> \o Tail(R) # <<>>
<1>1. /\ Len(R) = Len(O) - i
      /\ \A x \in 1..Len(R) : R[x] = IF x = 1 THEN [O[i + 1] EXCEPT !.n = @ - part]
                                            ELSE O[i + x]
  BY DEF Rest
<1>2. /\ Len(R) \in Nat \ {0} /\ Len(O) \in Nat /\ i + 1 \in 1..Len(O)
  BY <1>1
<1> DEFINE b == O[i + 1]
           c == R[1]
           d == [c EXCEPT !.n = c.n - n]
           T == <<d>> \o Tail(R)
<1>3. c = [b EXCEPT !.n = @ - part] /\ b \in Message
  <2>1. b \in Message
    BY <1>2
  <2>2. 1 \in 1..Len(R)
    BY <1>2
  <2>3. R[1] = [O[i + 1] EXCEPT !.n = @ - part]
    BY <1>1, <2>2
  <2> QED BY <2>1, <2>3
<1> HIDE DEF b, c
<1>4. d = [b EXCEPT !.n = @ - (part + n)]
  <2>1. c = [b EXCEPT !.n = b.n - part] /\ c.n = b.n - part /\ b.n \in Nat
    BY <1>3 DEF Message
  <2>2. (b.n - part) - n = b.n - (part + n)
    BY <2>1
  <2>3. [c EXCEPT !.n = b.n - (part + n)] = [b EXCEPT !.n = b.n - (part + n)]
    BY <2>1, <1>3 DEF Message
  <2> QED BY <2>1, <2>2, <2>3
<1> HIDE DEF d
<1>5. /\ Len(T) = Len(R) /\ T[1] = d /\ T # <<>>
      /\ \A x \in 2..Len(R) : T[x] = R[x]
  BY <1>2
<1> HIDE DEF T
<1>6. ASSUME NEW x \in 1..Len(T)
      PROVE  T[x] = IF x = 1 THEN [O[i + 1] EXCEPT !.n = @ - (part + n)] ELSE O[i + x]
  <2>1. CASE x = 1
    BY <2>1, <1>4, <1>5 DEF b
  <2>2. CASE x # 1
    <3>1. x \in 2..Len(R) /\ x \in 1..Len(R)
      BY <2>2, <1>2, <1>5
    <3> QED BY <3>1, <2>2, <1>1, <1>5
  <2> QED BY <2>1, <2>2
<1>7. Rest(O, i, part + n, T)
  BY <1>1, <1>5, <1>6 DEF Rest
<1> QED BY <1>5, <1>7 DEF T, d, c

-----------------------------------------------------------------------------
(* A join moves on.                                                        *)

\* What the run says of the end of a join.
JoinEnd(par, z, y, p) ==
    /\ y.todo[p] = Tail(z.todo[p]) /\ y.minted = z.minted /\ y.setup = z.setup
    /\ y.left = z.left /\ y.coins = z.coins /\ y.on = z.on
    /\ \A s \in Stream : y.str[s] = Branch(par, z, s)[Len(Messages1(z, s))]

\* A join that is over leaves what comes after it.
LEMMA NextJoin ==
    ASSUME NEW j, NEW par, NEW z \in InLockstep(j, par), InJoin(z), NEW p \in Party
    PROVE  JoinEnd(par, z, Advance(par, z), p)
<1> DEFINE y == Lockstep(par, z)
           op == z.todo["Alice"][1].op
<1>1. op = "join" /\ Advance(par, z) = y
  BY DEF InJoin, Advance, Ended
<1>2. z.todo[p][1].op = "join" /\ z.todo[p] \in Seq(AnyCall) /\ z.todo[p] # <<>>
  BY JoinHere
<1>3. z.minted \in BOOLEAN /\ z.setup \in BOOLEAN /\ z.on \in BOOLEAN
  BY InLock, LockTypes
<1>4. Expansion(p, z) = <<>>
  BY <1>2 DEF Expansion, Expand
<1>5. y.todo[p] = Tail(z.todo[p])
  <2>1. y.todo[p] = Expansion(p, z) \o Tail(z.todo[p])
    BY DEF Lockstep
  <2>2. Tail(z.todo[p]) \in Seq(AnyCall)
    BY <1>2
  <2> HIDE DEF y
  <2> DEFINE T == Tail(z.todo[p])
  <2> HIDE DEF T
  <2>3. <<>> \o T = T
    BY <2>2 DEF T
  <2> QED BY <2>1, <2>3, <1>4 DEF T
<1>6. /\ y.minted = (op = "gen_cot" \/ (z.minted /\ op \notin {"maybe_flush", "end"}))
      /\ y.setup = (z.setup \/ op = "begin_abits")
      /\ y.on = (z.on \/ op = "setup")
      /\ y.left = CASE op \in {"begin_abits", "trim"} -> 0
                             [] op = "gen_cot" -> LeftAfter(z.left, z.todo["Alice"][1].arg)
                             [] OTHER -> z.left
      /\ y.coins = CASE op = "run_program" -> <<>>
                      [] op = "coin" -> Append(z.coins, <<Counted(z.str["main"]),
                                                          Counted(z.str["sibling"])>>)
                      [] OTHER -> z.coins
      /\ \A s \in Stream : op = "join" => y.str[s] = Branch(par, z, s)[Len(Messages1(z, s))]
  BY DEF Lockstep
<1> HIDE DEF y, op
<1>7. y.left = z.left /\ y.coins = z.coins /\ \A s \in Stream : y.str[s] = Branch(par, z, s)[Len(Messages1(z, s))]
  BY <1>1, <1>6
<1>8. y.minted = z.minted /\ y.setup = z.setup /\ y.on = z.on
  BY <1>1, <1>3, <1>6
<1> QED BY <1>1, <1>5, <1>7, <1>8 DEF JoinEnd

Settles(j, par, p, r, v) ==
    LET f == Run(j, par)
    IN  \E o \in Position :
           /\ Placed(j, f, par, p, r, o)
           /\ \A s \in Stream : /\ HasSent(f, par, p, o, s) = HasSent(f, par, p, v, s)
                                /\ HasReceived(f, par, p, o, s) = HasReceived(f, par, p, v, s)

LEMMA JoinRecord ==
    \A L : LET J == [op |-> "join", main |-> L.main, sibling |-> L.sibling]
          IN  J.op = "join" /\ J.main = L.main /\ J.sibling = L.sibling /\ \A s \in Stream : J[s] = L[s]
  BY DEF Stream

\* A party that has gone through a join is at the start of the next call.
LEMMA Settle ==
    ASSUME NEW j \in Jobs, NEW par \in [Party -> Param], NEW p \in Party, NEW v \in Position,
           NEW z, z = Run(j, par)[v.k], InJoin(z), Valid(Run(j, par), p, v),
           NEW r, NEW L \in JoinOf(Message), r.todo = Join(L.main, L.sibling) \o Tail(z.todo[p]),
           \A s \in Stream : Rest(z.todo[p][1][s], v.i[s], v.part[s], L[s]),
           Agrees(Run(j, par), par, p, r, v)
    PROVE  Settles(j, par, p, r, v)
<1> DEFINE f == Run(j, par)
           k == v.k
           T == Tail(z.todo[p])
<1>1. k \in Nat /\ z = f[k] /\ v.i \in [Stream -> Nat] /\ v.part \in [Stream -> Nat]
  BY DEF Position
<1>2. z \in InLockstep(j, par) /\ f[k + 1] = Advance(par, z)
  BY <1>1, RunStep
<1>3. z.todo[p] \in Seq(AnyCall) /\ z.todo[p] # <<>> /\ \A s \in Stream : JoinSides(z, p, s, z.todo[p][1][s], Messages1(z, s))
  BY <1>2, JoinHere
<1>4. T \in Seq(AnyCall)
  BY <1>3
<1>5. CASE L.main # <<>> \/ L.sibling # <<>>
  <2> DEFINE J == [op |-> "join", main |-> L.main, sibling |-> L.sibling]
  <2>1. Join(L.main, L.sibling) = <<J>>
    BY <1>5 DEF Join
  <2>2. J.op = "join" /\ (J.main # <<>> \/ J.sibling # <<>>) /\ \A s \in Stream : J[s] = L[s]
    <3> HIDE DEF T, f
    <3>1. J.op = "join" /\ J.main = L.main /\ J.sibling = L.sibling /\ \A s \in Stream : J[s] = L[s]
      BY JoinRecord, Zenon
    <3> QED BY <1>5, <3>1
  <2> HIDE DEF J, T
  <2>3. r.todo # <<>> /\ Tail(r.todo) = T /\ r.todo[1] = J
    <3>1. r.todo = <<J>> \o T
      BY <2>1 DEF T
    <3>2. <<J>> \o T # <<>> /\ Tail(<<J>> \o T) = T /\ (<<J>> \o T)[1] = J
      BY <1>4
    <3> QED BY <3>1, <3>2
  <2>4. Stacked(f, p, r, v)
    <3>1. \A s \in Stream : Rest(z.todo[p][1][s], v.i[s], v.part[s], r.todo[1][s])
      BY <2>2, <2>3
    <3>2. r.todo[1].op = "join" /\ (r.todo[1].main # <<>> \/ r.todo[1].sibling # <<>>)
      BY <2>2, <2>3
    <3> HIDE DEF f
    <3> QED BY <1>1, <2>3, <3>1, <3>2 DEF Stacked, T
  <2>5. Placed(j, f, par, p, r, v)
    BY <2>4 DEF Placed
  <2> QED BY <2>5 DEF Settles
<1>6. CASE L.main = <<>> /\ L.sibling = <<>>
  <2> DEFINE y == f[k + 1]
  <2>1. r.todo = T
    <3>1. Join(L.main, L.sibling) = <<>>
      BY <1>6 DEF Join
    <3> HIDE DEF T
    <3>2. <<>> \o T = T
      BY <1>4
    <3> QED BY <3>1, <3>2 DEF T
  <2>2. JoinEnd(par, z, y, p)
    BY <1>2, NextJoin
  <2>3. ASSUME NEW s \in Stream
        PROVE  v.part[s] = 0 /\ OnStream(f, par, v, s) = y.str[s] /\ y.str[s] \in StreamState
    <3> DEFINE O == z.todo[p][1][s]
               M == Messages1(z, s)
               Q == L[s]
    <3>1. Q = <<>>
      BY <1>6 DEF Stream
    <3>2. JoinSides(z, p, s, O, M) /\ Rest(O, v.i[s], v.part[s], Q)
      BY <1>3
    <3>3. v.i[s] \in Nat /\ v.part[s] \in Nat
      BY <1>1
    <3>4. v.i[s] \in 0..Len(M) /\ (v.part[s] > 0 => v.i[s] < Len(M))
      BY DEF Valid
    <3> HIDE DEF O, M, Q
    <3>5. Len(O) = Len(M) /\ Len(M) \in Nat
      BY <3>2 DEF JoinSides
    <3>6. Len(Q) = Len(O) - v.i[s] /\ Len(Q) = 0
      BY <3>1, <3>2 DEF Rest
    <3>7. v.i[s] = Len(M) /\ v.part[s] = 0
      BY <3>3, <3>4, <3>5, <3>6
    <3>8. OnStream(f, par, v, s) = Branch(par, z, s)[Len(M)]
      BY <1>1, <3>7 DEF OnStream
    <3>9. y.str[s] = Branch(par, z, s)[Len(M)]
      BY <2>2 DEF JoinEnd, M
    <3>10. Branch(par, z, s)[Len(M)] \in StreamState
      <4>1. Streams(z)
        BY <1>2, InLock
      <4>2. Branch(par, z, s) \in [Nat -> StreamState]
        BY <4>1, BranchStep
      <4> QED BY <4>2, <3>5
    <3> QED BY <3>7, <3>8, <3>9, <3>10
  <2> HIDE DEF y
  <2>4. Fits(y, p, r)
    <3>1. r.todo = y.todo[p]
      BY <2>1, <2>2 DEF JoinEnd
    <3>2. r.minted = z.minted /\ r.coins = z.coins /\ r.got = OnStream(f, par, v, "main").got[p]
          /\ \A s \in Stream : AgreesOn(f, par, p, r, v, s)
      BY DEF Agrees
    <3>3. OnStream(f, par, v, "main") = y.str["main"]
      BY <2>3 DEF Stream
    <3>4. r.minted = y.minted /\ r.coins = y.coins /\ r.got = y.str["main"].got[p]
      BY <3>2, <3>3, <2>2 DEF JoinEnd
    <3>5. ASSUME NEW s \in Stream
          PROVE  /\ r.fs[s] = [on |-> y.on, first |-> y.on /\ p = "Alice",
                        sent |-> y.str[s].cnt[p], recd |-> y.str[s].cnt[Peer(p)]]
                 /\ r.abit[AbitOf(p, s)] = [setup |-> y.setup, left |-> y.left, check |-> y.str[s].chk]
      <4>1. AgreesOn(f, par, p, r, v, s)
        BY <3>2
      <4>2. v.part[s] = 0 /\ OnStream(f, par, v, s) = y.str[s] /\ y.str[s] \in StreamState
        BY <2>3
      <4>3. f[v.k].on = y.on /\ f[v.k].setup = y.setup /\ f[v.k].left = y.left
        BY <1>1, <2>2 DEF JoinEnd
      <4>4. y.str[s].cnt[p] + (IF y.on THEN 0 ELSE 0) = y.str[s].cnt[p]
        BY <4>2 DEF StreamState
      <4> HIDE DEF f, k
      <4> QED BY <4>1, <4>2, <4>3, <4>4 DEF AgreesOn
    <3> QED BY <3>1, <3>4, <3>5 DEF Fits
  <2> DEFINE k1 == k + 1
             o == AtStart(k1)
  <2>5. k1 \in Nat /\ Fits(Run(j, par)[k1], p, r)
    BY <1>1, <2>4 DEF y
  <2> HIDE DEF k1
  <2>6. Starts(j, par, p, k1, r)
    BY <2>5, StartsPlaced
  <2>7. o \in Position /\ Placed(j, f, par, p, r, o)
        /\ \A q \in Party, s \in Stream :
              /\ HasSent(f, par, q, o, s) = f[k1].str[s].tot[q]
              /\ HasReceived(f, par, q, o, s) = f[k1].str[s].tot[Peer(q)]
    BY <2>6, Zenon DEF Starts
  <2>8. ASSUME NEW s \in Stream
        PROVE  /\ HasSent(f, par, p, o, s) = HasSent(f, par, p, v, s)
               /\ HasReceived(f, par, p, o, s) = HasReceived(f, par, p, v, s)
    <3>1. v.part[s] = 0 /\ OnStream(f, par, v, s) = y.str[s] /\ y.str[s] \in StreamState
      BY <2>3
    <3>2. y.str[s].tot[p] \in Int
      BY <3>1 DEF StreamState
    <3>3. HasSent(f, par, p, o, s) = y.str[s].tot[p] /\ HasReceived(f, par, p, o, s) = y.str[s].tot[Peer(p)]
      BY <2>7 DEF y, k1
    <3> HIDE DEF f, o
    <3>4. HasSent(f, par, p, v, s) = y.str[s].tot[p] /\ HasReceived(f, par, p, v, s) = y.str[s].tot[Peer(p)]
      BY <3>1, <3>2 DEF HasSent, HasReceived
    <3> QED BY <3>3, <3>4
  <2>9. \A s \in Stream :
               /\ HasSent(f, par, p, o, s) = HasSent(f, par, p, v, s)
               /\ HasReceived(f, par, p, o, s) = HasReceived(f, par, p, v, s)
    BY <2>8
  <2> HIDE DEF o
  <2> QED BY <2>7, <2>9 DEF Settles
<1> QED BY <1>5, <1>6

-----------------------------------------------------------------------------
(* A party's own state as words move.                                      *)

MovedOf(fr, sends, n) ==
    [on |-> fr.on, first |-> fr.first, sent |-> fr.sent + (IF fr.on /\ sends THEN n ELSE 0),
     recd |-> fr.recd + (IF fr.on /\ ~sends THEN n ELSE 0)]

LEMMA PassedZero ==
    ASSUME NEW j \in Jobs, NEW par \in [Party -> Param], NEW k \in Nat, NEW z, z = Run(j, par)[k],
           NEW s \in Stream, NEW i \in Nat, ~z.on
    PROVE  \A q \in Party : Branch(par, z, s)[i].cnt[q] = 0
<1>1. z \in InLockstep(j, par)
  BY RunStep
<1>2. Streams(z)
  BY <1>1, InLock
<1>3. Branch(par, z, s)[i].cnt = z.str[s].cnt
  BY <1>2, BranchOff
<1>4. Uncounted(z)
  BY OffZero
<1> QED BY <1>3, <1>4 DEF Uncounted

\* A party's state agrees with the run after a message when it did before.
LEMMA AgreesPassed ==
    ASSUME NEW j \in Jobs, NEW par \in [Party -> Param], NEW p \in Party, NEW o \in Position,
           NEW z, z = Run(j, par)[o.k], NEW s \in Stream, NEW R, NEW m, NEW e,
           InMessage(par, z, p, R, o, s, m, e), NEW r, AgreesOn(Run(j, par), par, p, r, o, s),
           NEW x, x.fs[s] = MovedOf(r.fs[s], Sender(m) = p, R[1].n),
           x.abit[AbitOf(p, s)] = IF m.kind = "d"
               THEN [r.abit[AbitOf(p, s)] EXCEPT !.check = Append(@, GetDigest(x.fs[s]))]
               ELSE r.abit[AbitOf(p, s)]
    PROVE  AgreesOn(Run(j, par), par, p, x, Onward(o, s), s)
<1> DEFINE f == Run(j, par)
           v == Onward(o, s)
           e1 == Passed(par, z, e, m)
           n == R[1].n
           part == o.part[s]
           a == r.abit[AbitOf(p, s)]
           fr == r.fs[s]
           fx == x.fs[s]
<1>1. o.k \in Nat /\ v.k = o.k /\ v.i[s] = o.i[s] + 1 /\ v.part[s] = 0
  <2>1. o.k \in Nat
    BY DEF Position
  <2>2. 0 \in Nat
    OBVIOUS
  <2> HIDE DEF v
  <2> QED BY <2>1, <2>2, PositionsAhead DEF v
<1>2. z \in InLockstep(j, par) /\ Streams(z) /\ z.on \in BOOLEAN
  <2>1. z \in InLockstep(j, par)
    BY <1>1, RunStep
  <2> QED BY <2>1, InLock DEF Streams
<1>3. /\ o.i[s] \in Nat /\ m \in Message /\ e = Branch(par, z, s)[o.i[s]] /\ e \in StreamState
      /\ Branch(par, z, s)[o.i[s] + 1] = e1
      /\ part \in Nat /\ n = m.n - part
      /\ Sender(m) # p => part = 0
  BY DEF InMessage
<1>4. OnStream(f, par, o, s) = e /\ OnStream(f, par, v, s) = e1
  BY <1>1, <1>3 DEF OnStream
<1>5. /\ fr = [on |-> z.on, first |-> z.on /\ p = "Alice",
                      sent |-> e.cnt[p] + (IF z.on THEN part ELSE 0), recd |-> e.cnt[Peer(p)]]
      /\ a = [setup |-> z.setup, left |-> z.left, check |-> e.chk]
  <2>1. AgreesOn(f, par, p, r, o, s) /\ f[o.k] = z
    OBVIOUS
  <2> HIDE DEF f
  <2> QED BY <1>4, <2>1 DEF AgreesOn
<1>6. LET q == Sender(m)
      IN  /\ e1 \in StreamState
          /\ e1.cnt[q] = e.cnt[q] + (IF z.on THEN m.n ELSE 0)
          /\ e1.cnt[Peer(q)] = e.cnt[Peer(q)]
          /\ e1.chk = IF m.kind = "d" THEN Append(e.chk, Counted(e1)) ELSE e.chk
  <2>1. Streams(z) /\ m \in Message /\ e \in StreamState
    BY <1>2, <1>3
  <2> HIDE DEF e1
  <2> QED BY <2>1, PassedFacts DEF e1
<1> HIDE DEF f, v, e1, n, part, a, fr, fx
<1>7. \A q \in Party : e.cnt[q] \in Int /\ e1.cnt[q] \in Int
  BY <1>3, <1>6 DEF StreamState
<1>8. Peer(p) \in Party /\ Peer(Peer(p)) = p /\ (Sender(m) # p => Sender(m) = Peer(p)) /\ m.n \in Int
  BY <1>3, TwoParties DEF Message
<1>9. fx = [on |-> z.on, first |-> z.on /\ p = "Alice", sent |-> e1.cnt[p], recd |-> e1.cnt[Peer(p)]]
  <2>1. fx = MovedOf(fr, Sender(m) = p, n)
    BY DEF fx, fr, n
  <2>2. fr.on = z.on /\ fr.first = (z.on /\ p = "Alice")
        /\ fr.sent = e.cnt[p] + (IF z.on THEN part ELSE 0) /\ fr.recd = e.cnt[Peer(p)]
    BY <1>5
  <2>3. /\ fr.sent \in Int /\ fr.recd \in Int /\ part \in Int /\ n = m.n - part /\ m.n \in Int
        /\ e.cnt[p] \in Int /\ e.cnt[Peer(p)] \in Int
    <3>1. e.cnt[p] \in Int /\ e.cnt[Peer(p)] \in Int /\ part \in Int
      BY <1>3, <1>7, <1>8
    <3>2. n = m.n - part /\ m.n \in Int
      BY <1>3, <1>8
    <3> HIDE DEF fr
    <3> QED BY <2>2, <3>1, <3>2
  <2>4. Sender(m) = p =>
           e1.cnt[p] = e.cnt[p] + (IF z.on THEN m.n ELSE 0) /\ e1.cnt[Peer(p)] = e.cnt[Peer(p)]
    BY <1>6
  <2>5. Sender(m) # p =>
           e1.cnt[Peer(p)] = e.cnt[Peer(p)] + (IF z.on THEN m.n ELSE 0) /\ e1.cnt[p] = e.cnt[p]
    BY <1>6, <1>8
  <2> DEFINE cp == e.cnt[p]
             cq == e.cnt[Peer(p)]
             dp == e1.cnt[p]
             dq == e1.cnt[Peer(p)]
             N == m.n
             S == fr.sent
             D == fr.recd
  <2>6. CASE Sender(m) = p
    <3>1. dp = cp + (IF z.on THEN N ELSE 0) /\ dq = cq
      BY <2>4, <2>6
    <3>2. S = cp + (IF z.on THEN part ELSE 0) /\ D = cq /\ S \in Int /\ D \in Int /\ part \in Int
          /\ n = N - part /\ N \in Int /\ cp \in Int /\ cq \in Int
      BY <2>2, <2>3
    <3>3. fx = [on |-> z.on, first |-> z.on /\ p = "Alice", sent |-> S + (IF z.on THEN n ELSE 0),
                recd |-> D + (IF FALSE THEN n ELSE 0)]
      BY <2>1, <2>2, <2>6 DEF MovedOf
    <3> HIDE DEF cp, cq, dp, dq, N, S, D
    <3>4. S + (IF z.on THEN n ELSE 0) = dp /\ D + (IF FALSE THEN n ELSE 0) = dq
      BY <3>1, <3>2
    <3> QED BY <3>3, <3>4 DEF dp, dq
  <2>7. CASE Sender(m) # p
    <3>1. dq = cq + (IF z.on THEN N ELSE 0) /\ dp = cp
      BY <2>5, <2>7
    <3>2. S = cp + (IF z.on THEN part ELSE 0) /\ D = cq /\ S \in Int /\ D \in Int /\ part = 0
          /\ n = N - part /\ N \in Int /\ cp \in Int /\ cq \in Int
      BY <2>2, <2>3, <2>7, <1>3
    <3>3. fx = [on |-> z.on, first |-> z.on /\ p = "Alice", sent |-> S + (IF FALSE THEN n ELSE 0),
                recd |-> D + (IF z.on THEN n ELSE 0)]
      BY <2>1, <2>2, <2>7 DEF MovedOf
    <3> HIDE DEF cp, cq, dp, dq, N, S, D
    <3>4. S + (IF FALSE THEN n ELSE 0) = dp /\ D + (IF z.on THEN n ELSE 0) = dq
      BY <3>1, <3>2
    <3> QED BY <3>3, <3>4 DEF dp, dq
  <2> QED BY <2>6, <2>7
<1>10. GetDigest(fx) = Counted(e1)
  <2>1. ~z.on => \A q \in Party : e1.cnt[q] = 0
    <3> SUFFICES ASSUME ~z.on PROVE \A q \in Party : e1.cnt[q] = 0
      OBVIOUS
    <3> DEFINE i1 == o.i[s] + 1
    <3>1. i1 \in Nat /\ Branch(par, z, s)[i1] = e1
      BY <1>3
    <3> HIDE DEF i1
    <3>2. \A q \in Party : Branch(par, z, s)[i1].cnt[q] = 0
      BY <1>1, <3>1, PassedZero
    <3> QED BY <3>1, <3>2
  <2> QED BY <2>1, <1>2, <1>6, <1>9, AlikeDigest
<1>11. x.abit[AbitOf(p, s)] = [setup |-> z.setup, left |-> z.left, check |-> e1.chk]
  <2>1. x.abit[AbitOf(p, s)] = IF m.kind = "d" THEN [a EXCEPT !.check = Append(@, Counted(e1))] ELSE a
    BY <1>10 DEF a, fx
  <2>2. CASE m.kind = "d"
    <3>1. e1.chk = Append(e.chk, Counted(e1)) /\ a.check = e.chk
      BY <2>2, <1>5, <1>6
    <3> QED BY <2>1, <2>2, <3>1, <1>5
  <2>3. CASE m.kind # "d"
    BY <2>1, <2>3, <1>5, <1>6
  <2> QED BY <2>2, <2>3
<1>12. e1.cnt[p] + (IF z.on THEN 0 ELSE 0) = e1.cnt[p] /\ f[v.k] = z
  BY <1>1, <1>7 DEF f
<1>13. AgreesOn(f, par, p, x, v, s)
  BY <1>1, <1>4, <1>9, <1>11, <1>12 DEF AgreesOn, fx
<1> QED BY <1>13 DEF f, v

\* And within a message.
LEMMA AgreesFurther ==
    ASSUME NEW j \in Jobs, NEW par \in [Party -> Param], NEW p \in Party, NEW o \in Position,
           NEW z, z = Run(j, par)[o.k], NEW s \in Stream, NEW R, NEW m, NEW e,
           InMessage(par, z, p, R, o, s, m, e), NEW r, AgreesOn(Run(j, par), par, p, r, o, s),
           NEW n \in Nat, NEW x, x.fs[s] = MovedOf(r.fs[s], TRUE, n),
           x.abit[AbitOf(p, s)] = r.abit[AbitOf(p, s)]
    PROVE  AgreesOn(Run(j, par), par, p, x, Further(o, s, n), s)
<1> DEFINE f == Run(j, par)
           v == Further(o, s, n)
           part == o.part[s]
           fr == r.fs[s]
           fx == x.fs[s]
<1>1. v.k = o.k /\ v.i[s] = o.i[s] /\ v.part[s] = part + n
  <2> HIDE DEF v, part
  <2> QED BY PositionsAhead DEF v, part
<1>2. o.i[s] \in Nat /\ e = Branch(par, z, s)[o.i[s]] /\ e \in StreamState /\ part \in Nat
  BY DEF InMessage
<1>3. OnStream(f, par, o, s) = e /\ OnStream(f, par, v, s) = e
  BY <1>1, <1>2 DEF OnStream
<1>4. f[o.k] = z /\ f[v.k] = z /\ AgreesOn(f, par, p, r, o, s)
  BY <1>1
<1> HIDE DEF f, v, part, fr, fx
<1>5. fr = [on |-> z.on, first |-> z.on /\ p = "Alice",
                      sent |-> e.cnt[p] + (IF z.on THEN part ELSE 0), recd |-> e.cnt[Peer(p)]]
      /\ r.abit[AbitOf(p, s)] = [setup |-> z.setup, left |-> z.left, check |-> e.chk]
  BY <1>3, <1>4 DEF AgreesOn, fr, part
<1>6. e.cnt[p] \in Int /\ e.cnt[Peer(p)] \in Int
  BY <1>2, TwoParties DEF StreamState
<1>7. fx = [on |-> z.on, first |-> z.on /\ p = "Alice",
                      sent |-> e.cnt[p] + (IF z.on THEN part + n ELSE 0), recd |-> e.cnt[Peer(p)]]
  <2>1. fx = MovedOf(fr, TRUE, n)
    BY DEF fx, fr
  <2>2. fr.on = z.on /\ fr.first = (z.on /\ p = "Alice")
        /\ fr.sent = e.cnt[p] + (IF z.on THEN part ELSE 0) /\ fr.recd = e.cnt[Peer(p)]
    BY <1>5
  <2>3. fr.sent + (IF z.on THEN n ELSE 0) = e.cnt[p] + (IF z.on THEN part + n ELSE 0)
        /\ fr.recd + 0 = e.cnt[Peer(p)]
    BY <2>2, <1>2, <1>6
  <2> QED BY <2>1, <2>2, <2>3 DEF MovedOf
<1>8. AgreesOn(f, par, p, x, v, s)
  BY <1>1, <1>3, <1>4, <1>5, <1>7 DEF AgreesOn, fx
<1> QED BY <1>8 DEF f, v

\* The other stream stays where it is.
LEMMA AgreesElse ==
    ASSUME NEW f, NEW par, NEW p, NEW r, NEW x, NEW o, NEW v, NEW s \in Stream,
           Agrees(f, par, p, r, o), v.k = o.k,
           \A t \in Stream \ {s} :
               /\ v.i[t] = o.i[t] /\ v.part[t] = o.part[t]
               /\ x.fs[t] = r.fs[t] /\ x.abit[AbitOf(p, t)] = r.abit[AbitOf(p, t)],
           AgreesOn(f, par, p, x, v, s), x.minted = r.minted, x.coins = r.coins,
           x.got = OnStream(f, par, v, "main").got[p]
    PROVE  Agrees(f, par, p, x, v)
<1>1. ASSUME NEW t \in Stream, t # s PROVE AgreesOn(f, par, p, x, v, t)
  <2>1. AgreesOn(f, par, p, r, o, t)
    BY DEF Agrees
  <2>2. /\ v.i[t] = o.i[t] /\ v.part[t] = o.part[t]
        /\ x.fs[t] = r.fs[t] /\ x.abit[AbitOf(p, t)] = r.abit[AbitOf(p, t)]
    BY <1>1
  <2>3. OnStream(f, par, v, t) = OnStream(f, par, o, t)
    BY <2>2 DEF OnStream
  <2> QED BY <2>1, <2>2, <2>3 DEF AgreesOn
<1>2. \A t \in Stream : AgreesOn(f, par, p, x, v, t)
  BY <1>1
<1>3. x.minted = f[v.k].minted /\ x.coins = f[v.k].coins
  BY DEF Agrees
<1> QED BY <1>2, <1>3 DEF Agrees

-----------------------------------------------------------------------------
(* Words that move.                                                        *)

\* A party has sent no more than the call it is in lets it.
SentWithin(j, par, p, o, s) ==
    LET f == Run(j, par)
    IN  /\ HasSent(f, par, p, o, s) \in Int /\ HasReceived(f, par, p, o, s) \in Int
        /\ HasSent(f, par, p, o, s) <= f[o.k + 1].str[s].tot[p]
        /\ HasReceived(f, par, p, o, s) >= f[o.k].str[s].tot[Peer(p)]
        /\ f[o.k].str[s].tot[p] <= HasSent(f, par, p, o, s)
        /\ HasReceived(f, par, p, o, s) <= f[o.k + 1].str[s].tot[Peer(p)]

LEMMA SentBounded ==
    ASSUME NEW j \in Jobs, NEW par \in [Party -> Param], NEW p \in Party, NEW o \in Position,
           Valid(Run(j, par), p, o), NEW s \in Stream
    PROVE  SentWithin(j, par, p, o, s)
<1> DEFINE f == Run(j, par)
           z == f[o.k]
           y == f[o.k + 1]
           M == Messages1(z, s)
           g == Branch(par, z, s)
           i == o.i[s]
           part == o.part[s]
           q == Peer(p)
<1>1. o.k \in Nat /\ i \in Nat /\ part \in Nat /\ q \in Party
  BY TwoParties DEF Position
<1>2. z \in InLockstep(j, par) /\ y = Advance(par, z)
  BY <1>1, RunStep
<1>3. /\ i \in 0..Len(M)
      /\ part > 0 => /\ i < Len(M) /\ part < M[i + 1].n /\ Sender(M[i + 1]) = p
  BY DEF Valid
<1>4. HasSent(f, par, p, o, s) = g[i].tot[p] + part /\ HasReceived(f, par, p, o, s) = g[i].tot[q]
  BY DEF HasSent, HasReceived, OnStream
<1> HIDE DEF z, y
<1>5. Streams(z)
  BY <1>2, InLock
<1>6. ASSUME NEW u \in Party
      PROVE  /\ Len(M) \in Nat
             /\ \A l \in Nat : g[l] \in StreamState /\ g[l].tot[u] \in Int
             /\ z.str[s].tot[u] \in Int
             /\ g[0] = z.str[s]
             /\ \A l, n \in Nat : l <= n => g[l].tot[u] <= g[n].tot[u]
             /\ y.str[s].tot[u] = g[Len(M)].tot[u]
  <2>1. Advance(par, z).str[s].tot[u] = y.str[s].tot[u]
    BY <1>2
  <2> QED BY <2>1, <1>2, Totals
<1>7. \A n \in Nat : n < Len(M) => M[n + 1] \in Message /\ g[n + 1] = Passed(par, z, g[n], M[n + 1])
  BY <1>5, BranchStep
<1> DEFINE m == M[i + 1]
<1>8. part > 0 => m \in Message /\ g[i + 1].tot[p] = g[i].tot[p] + m.n /\ i + 1 <= Len(M)
  <2> SUFFICES ASSUME part > 0
               PROVE  m \in Message /\ g[i + 1].tot[p] = g[i].tot[p] + m.n /\ i + 1 <= Len(M)
    OBVIOUS
  <2>1. i < Len(M) /\ Sender(m) = p
    BY <1>3
  <2> HIDE DEF M, g, i
  <2>2. m \in Message /\ g[i + 1] = Passed(par, z, g[i], m) /\ g[i] \in StreamState
    BY <2>1, <1>1, <1>6, <1>7
  <2> HIDE DEF m
  <2>3. Passed(par, z, g[i], m).tot[p] = g[i].tot[p] + m.n
    BY <2>1, <2>2, <1>5, PassedFacts
  <2>4. Len(M) \in Nat
    BY <1>6
  <2> QED BY <2>1, <2>2, <2>3, <2>4, <1>1
<1> HIDE DEF M, g, i, part, m, q, f
<1>9. Len(M) \in Nat /\ g[i].tot[p] \in Int /\ g[i].tot[q] \in Int /\ g[Len(M)].tot[p] \in Int
      /\ z.str[s].tot[q] \in Int /\ i <= Len(M)
      /\ z.str[s].tot[p] \in Int /\ g[Len(M)].tot[q] \in Int
  BY <1>1, <1>3, <1>6
<1>10. /\ g[i].tot[p] <= g[Len(M)].tot[p] /\ z.str[s].tot[q] <= g[i].tot[q]
       /\ g[i].tot[q] <= g[Len(M)].tot[q] /\ z.str[s].tot[p] <= g[i].tot[p]
  BY <1>1, <1>6, <1>9
<1>11. g[i].tot[p] + part <= g[Len(M)].tot[p]
  <2>1. CASE part = 0
    BY <2>1, <1>9, <1>10
  <2>2. CASE part > 0
    <3>1. i + 1 \in Nat /\ i + 1 <= Len(M) /\ m.n \in Int /\ part < m.n
      BY <2>2, <1>1, <1>3, <1>8 DEF Message, m
    <3>2. g[i + 1].tot[p] <= g[Len(M)].tot[p] /\ g[i + 1].tot[p] = g[i].tot[p] + m.n
      BY <2>2, <3>1, <1>6, <1>8, <1>9
    <3>3. part \in Int /\ g[i].tot[p] \in Int /\ g[Len(M)].tot[p] \in Int
      BY <1>1, <1>9
    <3> DEFINE a == g[i].tot[p]
               b == g[Len(M)].tot[p]
               c == g[i + 1].tot[p]
    <3>4. a \in Int /\ b \in Int /\ c <= b /\ c = a + m.n
      BY <3>2, <3>3
    <3> HIDE DEF a, b, c
    <3>5. a + part <= b
      BY <3>1, <3>3, <3>4
    <3> QED BY <3>5 DEF a, b
  <2> QED BY <2>1, <2>2, <1>1
<1>12. y.str[s].tot[p] = g[Len(M)].tot[p] /\ y.str[s].tot[q] = g[Len(M)].tot[q]
  BY <1>1, <1>6
<1>13. /\ HasSent(f, par, p, o, s) \in Int /\ HasReceived(f, par, p, o, s) \in Int
       /\ HasSent(f, par, p, o, s) <= y.str[s].tot[p]
       /\ HasReceived(f, par, p, o, s) >= z.str[s].tot[q]
       /\ z.str[s].tot[p] <= HasSent(f, par, p, o, s)
       /\ HasReceived(f, par, p, o, s) <= y.str[s].tot[q]
  BY <1>1, <1>4, <1>9, <1>10, <1>11, <1>12, SMTT(30)
<1> QED BY <1>13 DEF SentWithin, f, y, z, q

\* A frame is sent.
LEMMA WaySend ==
    ASSUME NEW f, NEW par, NEW p, NEW s, NEW W \in Seq(Seq(Word)), NEW B \in Seq(Word),
           NEW from \in Int, NEW to \in Int, OnTheWay(f, par, p, s, W, B, from, to),
           NEW F \in Seq(Word), \A x \in 1..Len(F) : Sent(f, par, p, s, to + x, F[x])
    PROVE  OnTheWay(f, par, p, s, Append(W, F), B, from, to + Len(F))
<1>1. \A x \in 1..Len(B) : Sent(f, par, p, s, from + x, B[x])
  BY DEF OnTheWay
<1>2. PICK off \in [0..Len(W) -> Int] :
          /\ off[0] = from + Len(B) /\ off[Len(W)] = to /\ from + Len(B) <= to
          /\ \A y \in 1..Len(W) :
                /\ off[y] = off[y - 1] + Len(W[y])
                /\ \A x \in 1..Len(W[y]) : Sent(f, par, p, s, off[y - 1] + x, W[y][x])
  BY DEF OnTheWay
<1> DEFINE V == Append(W, F)
           N == Len(W)
           off2 == [y \in 0..(N + 1) |-> IF y = N + 1 THEN to + Len(F) ELSE off[y]]
<1>3. /\ Len(V) = N + 1 /\ N \in Nat /\ V[N + 1] = F /\ Len(F) \in Nat /\ Len(B) \in Nat
      /\ \A y \in 1..N : V[y] = W[y]
  OBVIOUS
<1> HIDE DEF V
<1>4. \A y \in 0..N : off[y] \in Int
  BY <1>2
<1>5. /\ off2 \in [0..Len(V) -> Int] /\ off2[N + 1] = to + Len(F) /\ \A y \in 0..N : off2[y] = off[y]
  BY <1>3, <1>4
<1> HIDE DEF off2
<1>6. ASSUME NEW y \in 1..Len(V)
      PROVE  /\ off2[y] = off2[y - 1] + Len(V[y])
             /\ \A x \in 1..Len(V[y]) : Sent(f, par, p, s, off2[y - 1] + x, V[y][x])
  <2>1. CASE y = N + 1
    <3>1. y - 1 = N /\ off2[y - 1] = to /\ V[y] = F /\ off2[y] = to + Len(F)
      BY <2>1, <1>2, <1>3, <1>5
    <3> QED BY <3>1
  <2>2. CASE y # N + 1
    <3>1. y \in 1..N /\ y - 1 \in 0..N /\ y \in 0..N
      BY <2>2, <1>3
    <3>2. off2[y] = off[y] /\ off2[y - 1] = off[y - 1] /\ V[y] = W[y]
      BY <3>1, <1>3, <1>5
    <3> QED BY <3>1, <3>2, <1>2
  <2> QED BY <2>1, <2>2
<1>7. off2[0] = from + Len(B) /\ off2[Len(V)] = to + Len(F) /\ from + Len(B) <= to + Len(F)
  BY <1>2, <1>3, <1>5
<1> HIDE DEF N
<1> QED BY <1>1, <1>5, <1>6, <1>7 DEF OnTheWay, V

\* A frame is pulled.
LEMMA WayPull ==
    ASSUME NEW f, NEW par, NEW p, NEW s, NEW W \in Seq(Seq(Word)), NEW B \in Seq(Word),
           NEW from \in Int, NEW to \in Int, OnTheWay(f, par, p, s, W, B, from, to), W # <<>>
    PROVE  OnTheWay(f, par, p, s, Tail(W), B \o Head(W), from, to)
<1>1. \A x \in 1..Len(B) : Sent(f, par, p, s, from + x, B[x])
  BY DEF OnTheWay
<1>2. PICK off \in [0..Len(W) -> Int] :
          /\ off[0] = from + Len(B) /\ off[Len(W)] = to /\ from + Len(B) <= to
          /\ \A y \in 1..Len(W) :
                /\ off[y] = off[y - 1] + Len(W[y])
                /\ \A x \in 1..Len(W[y]) : Sent(f, par, p, s, off[y - 1] + x, W[y][x])
  BY DEF OnTheWay
<1> DEFINE V == Tail(W)
           H == Head(W)
           C == B \o H
           N == Len(W)
           off2 == [y \in 0..(N - 1) |-> off[y + 1]]
<1>3. /\ Len(V) = N - 1 /\ N \in Nat \ {0} /\ H = W[1] /\ H \in Seq(Word) /\ Len(H) \in Nat /\ Len(B) \in Nat
      /\ \A y \in 1..(N - 1) : V[y] = W[y + 1]
      /\ \A y \in 1..N : Len(W[y]) \in Nat
  OBVIOUS
<1>4. /\ Len(C) = Len(B) + Len(H) /\ \A x \in 1..Len(B) : C[x] = B[x]
      /\ \A x \in 1..Len(C) : x > Len(B) => x - Len(B) \in 1..Len(H) /\ C[x] = H[x - Len(B)]
  BY <1>3
<1> HIDE DEF V, H, C
<1>5. \A y \in 0..N : off[y] \in Int
  BY <1>2
<1>6. /\ off2 \in [0..Len(V) -> Int] /\ \A y \in 0..(N - 1) : off2[y] = off[y + 1]
  <2>1. \A y \in 0..(N - 1) : y + 1 \in 0..N
    BY <1>3
  <2> QED BY <2>1, <1>3, <1>5
<1> HIDE DEF off2, N
<1>7. off[1] = from + Len(B) + Len(H)
  <2>1. 1 \in 1..N /\ 1 - 1 = 0
    BY <1>3
  <2>2. off[1] = off[1 - 1] + Len(W[1])
    BY <2>1, <1>2 DEF N
  <2> QED BY <2>1, <2>2, <1>2, <1>3
<1>8. off2[0] = from + Len(C) /\ off2[Len(V)] = to
  BY <1>2, <1>3, <1>4, <1>6, <1>7 DEF N
<1>9. from + Len(C) <= to
  <2> DEFINE D == {y \in Nat : y <= N - 1 => off2[0] <= off2[y]}
  <2>1. 0 \in D
    <3>1. 0 \in 0..(N - 1)
      BY <1>3
    <3>2. off2[0] \in Int
      BY <3>1, <1>3, <1>6
    <3> QED BY <3>2
  <2>2. ASSUME NEW y \in Nat, y \in D PROVE y + 1 \in D
    <3> SUFFICES ASSUME y + 1 <= N - 1 PROVE off2[0] <= off2[y + 1]
      OBVIOUS
    <3>1. y \in 0..(N - 1) /\ y + 1 \in 0..(N - 1) /\ 0 \in 0..(N - 1) /\ y + 2 \in 1..N /\ (y + 2) - 1 = y + 1
      BY <1>3
    <3>2. off2[0] <= off2[y] /\ off2[0] \in Int /\ off2[y] \in Int
      BY <3>1, <2>2, <1>3, <1>6
    <3>3. off[y + 2] = off[y + 1] + Len(W[y + 2]) /\ Len(W[y + 2]) \in Nat
      <4>1. off[y + 2] = off[(y + 2) - 1] + Len(W[y + 2])
        BY <3>1, <1>2 DEF N
      <4> QED BY <4>1, <3>1, <1>3
    <3>4. off2[y] = off[y + 1] /\ off2[y + 1] = off[(y + 1) + 1] /\ (y + 1) + 1 = y + 2
      BY <3>1, <1>6
    <3> QED BY <3>2, <3>3, <3>4, SMTT(30)
  <2> HIDE DEF D
  <2>3. Nat \subseteq D
    BY <2>1, <2>2, NatInd
  <2>4. N - 1 \in Nat
    BY <1>3
  <2>5. off2[0] <= off2[N - 1]
    BY <2>3, <2>4 DEF D
  <2> QED BY <2>5, <1>3, <1>8
<1>10. ASSUME NEW x \in 1..Len(C) PROVE Sent(f, par, p, s, from + x, C[x])
  <2>1. CASE x <= Len(B)
    <3>1. x \in 1..Len(B)
      BY <2>1, <1>3
    <3> QED BY <3>1, <1>1, <1>4
  <2>2. CASE x > Len(B)
    <3> DEFINE n == x - Len(B)
    <3>1. n \in 1..Len(H) /\ C[x] = H[n]
      BY <2>2, <1>4
    <3>2. 1 \in 1..N
      BY <1>3
    <3>3. \A u \in 1..Len(W[1]) : Sent(f, par, p, s, off[1 - 1] + u, W[1][u])
      BY <3>2, <1>2 DEF N
    <3>4. off[1 - 1] + n = from + x
      BY <1>2, <1>3
    <3>5. Sent(f, par, p, s, off[1 - 1] + n, H[n])
      BY <3>1, <3>3, <1>3
    <3> QED BY <3>1, <3>4, <3>5
  <2> QED BY <2>1, <2>2, <1>3, <1>4
<1>11. ASSUME NEW y \in 1..Len(V)
       PROVE  /\ off2[y] = off2[y - 1] + Len(V[y])
              /\ \A x \in 1..Len(V[y]) : Sent(f, par, p, s, off2[y - 1] + x, V[y][x])
  <2>1. y \in 1..(N - 1) /\ y \in 0..(N - 1) /\ y - 1 \in 0..(N - 1) /\ y + 1 \in 1..N /\ (y + 1) - 1 = y /\ (y - 1) + 1 = y
    BY <1>3
  <2>2. off2[y] = off[y + 1] /\ off2[y - 1] = off[y] /\ V[y] = W[y + 1]
    <3>1. off2[y - 1] = off[(y - 1) + 1]
      BY <2>1, <1>6
    <3> QED BY <2>1, <3>1, <1>3, <1>6
  <2>3. /\ off[y + 1] = off[(y + 1) - 1] + Len(W[y + 1])
        /\ \A x \in 1..Len(W[y + 1]) : Sent(f, par, p, s, off[(y + 1) - 1] + x, W[y + 1][x])
    BY <2>1, <1>2 DEF N
  <2> QED BY <2>1, <2>2, <2>3
<1> QED BY <1>6, <1>8, <1>9, <1>10, <1>11 DEF OnTheWay, V, C, H

\* A party consumes words.
LEMMA WayRecv ==
    ASSUME NEW f, NEW par, NEW p, NEW s, NEW W \in Seq(Seq(Word)), NEW B \in Seq(Word),
           NEW from \in Int, NEW to \in Int, OnTheWay(f, par, p, s, W, B, from, to),
           NEW n \in Nat, n <= Len(B)
    PROVE  OnTheWay(f, par, p, s, W, SubSeq(B, n + 1, Len(B)), from + n, to)
<1>1. \A x \in 1..Len(B) : Sent(f, par, p, s, from + x, B[x])
  BY DEF OnTheWay
<1>2. PICK off \in [0..Len(W) -> Int] :
          /\ off[0] = from + Len(B) /\ off[Len(W)] = to /\ from + Len(B) <= to
          /\ \A y \in 1..Len(W) :
                /\ off[y] = off[y - 1] + Len(W[y])
                /\ \A x \in 1..Len(W[y]) : Sent(f, par, p, s, off[y - 1] + x, W[y][x])
  BY DEF OnTheWay
<1> DEFINE C == SubSeq(B, n + 1, Len(B))
<1>3. Len(C) = Len(B) - n /\ Len(B) \in Nat /\ \A x \in 1..(Len(B) - n) : C[x] = B[x + n]
  OBVIOUS
<1> HIDE DEF C
<1>4. ASSUME NEW x \in 1..Len(C) PROVE Sent(f, par, p, s, (from + n) + x, C[x])
  <2>1. x + n \in 1..Len(B) /\ C[x] = B[x + n] /\ (from + n) + x = from + (x + n)
    BY <1>3
  <2> QED BY <2>1, <1>1
<1>5. off[0] = (from + n) + Len(C) /\ (from + n) + Len(C) <= to
  BY <1>2, <1>3
<1> QED BY <1>2, <1>4, <1>5 DEF OnTheWay, C

-----------------------------------------------------------------------------
(* A party and one message of a join.                                      *)

LEMMA OnTop ==
    ASSUME NEW S, NEW T \in Seq(S), NEW a
    PROVE  <<a>> \o T # <<>> /\ Tail(<<a>> \o T) = T /\ (<<a>> \o T)[1] = a
OBVIOUS

LEMMA OnTopSeq ==
    ASSUME NEW S, NEW T \in Seq(S), NEW a \in S
    PROVE  <<a>> \o T # <<>> /\ <<a>> \o T \in Seq(S)
OBVIOUS

\* What a message changes of the party that has sent or received it.
MovedRest(par, z, p, s, m, e, n, r, x) ==
    /\ x.minted = r.minted /\ x.coins = r.coins
    /\ x.fs[s] = MovedOf(r.fs[s], Sender(m) = p, n)
    /\ x.abit[AbitOf(p, s)] = IF m.kind = "d"
               THEN [r.abit[AbitOf(p, s)] EXCEPT !.check = Append(@, GetDigest(x.fs[s]))]
               ELSE r.abit[AbitOf(p, s)]
    /\ \A t \in Stream \ {s} : x.fs[t] = r.fs[t] /\ x.abit[AbitOf(p, t)] = r.abit[AbitOf(p, t)]
    /\ x.got = IF m.kind \in {"circuit", "target"} /\ Sender(m) # p
               THEN Carries(par, z.coins, e, Peer(p), m.kind) ELSE r.got

\* A branch in a message, in a join that may have several.
Branching(f, par, p, o, z, L, s, m, e) ==
    /\ z = f[o.k] /\ InJoin(z) /\ Valid(f, p, o) /\ L \in JoinOf(Message) /\ L[s] # <<>>
    /\ \A t \in Stream : Rest(z.todo[p][1][t], o.i[t], o.part[t], L[t])
    /\ InMessage(par, z, p, L[s], o, s, m, e)

LEMMA OnwardValid ==
    ASSUME NEW f, NEW par, NEW p, NEW o \in Position, NEW z, NEW L, NEW s \in Stream, NEW m, NEW e,
           Branching(f, par, p, o, z, L, s, m, e)
    PROVE  Valid(f, p, Onward(o, s))
<1> DEFINE v == Onward(o, s)
<1>1. v.k = o.k /\ v.i[s] = o.i[s] + 1 /\ v.part[s] = 0
      /\ \A t \in Stream \ {s} : v.i[t] = o.i[t] /\ v.part[t] = o.part[t]
  <2>1. 0 \in Nat
    OBVIOUS
  <2> HIDE DEF v
  <2> QED BY <2>1, PositionsAhead DEF v
<1>2. Valid(f, p, o) /\ z = f[o.k] /\ InMessage(par, z, p, L[s], o, s, m, e)
  BY DEF Branching
<1>3. o.i[s] \in Nat /\ Len(Messages1(z, s)) \in Nat /\ o.i[s] < Len(Messages1(z, s))
  BY <1>2 DEF InMessage
<1> HIDE DEF v
<1>4. ASSUME NEW t \in Stream
      PROVE  /\ v.i[t] \in 0..Len(Messages1(f[v.k], t))
             /\ v.part[t] > 0 => /\ v.i[t] < Len(Messages1(f[v.k], t))
                                 /\ v.part[t] < Messages1(f[v.k], t)[v.i[t] + 1].n
                                 /\ Sender(Messages1(f[v.k], t)[v.i[t] + 1]) = p
  <2>1. CASE t = s
    <3>1. f[v.k] = z
      BY <1>1, <1>2
    <3> QED BY <2>1, <3>1, <1>1, <1>3
  <2>2. CASE t # s
    <3>1. v.k = o.k /\ v.i[t] = o.i[t] /\ v.part[t] = o.part[t]
      BY <2>2, <1>1
    <3> QED BY <3>1, <1>2 DEF Valid
  <2> QED BY <2>1, <2>2
<1> QED BY <1>4, Zenon DEF Valid, v

\* The words a message has moved.
OnwardWords(f, par, p, o, s, m, n) ==
    \A t \in Stream :
       /\ HasSent(f, par, p, Onward(o, s), t) = HasSent(f, par, p, o, t)
                + (IF t = s /\ Sender(m) = p THEN n ELSE 0)
       /\ HasReceived(f, par, p, Onward(o, s), t) = HasReceived(f, par, p, o, t)
                + (IF t = s /\ Sender(m) # p THEN n ELSE 0)

LEMMA OnwardMoves ==
    ASSUME NEW j \in Jobs, NEW par \in [Party -> Param], NEW p \in Party, NEW o \in Position,
           NEW z, NEW L, NEW s \in Stream, NEW m, NEW e,
           Branching(Run(j, par), par, p, o, z, L, s, m, e)
    PROVE  OnwardWords(Run(j, par), par, p, o, s, m, L[s][1].n)
<1> DEFINE f == Run(j, par)
           v == Onward(o, s)
           n == L[s][1].n
           q == Peer(p)
           e1 == Passed(par, z, e, m)
<1>1. v.k = o.k /\ v.i[s] = o.i[s] + 1 /\ v.part[s] = 0 /\ o.k \in Nat
      /\ \A t \in Stream \ {s} : v.i[t] = o.i[t] /\ v.part[t] = o.part[t]
  <2>1. 0 \in Nat /\ o.k \in Nat
    BY DEF Position
  <2> HIDE DEF v
  <2> QED BY <2>1, PositionsAhead DEF v
<1>2. Valid(f, p, o) /\ z = f[o.k] /\ InMessage(par, z, p, L[s], o, s, m, e)
  BY DEF Branching
<1>3. /\ o.i[s] \in Nat /\ m \in Message
      /\ e = Branch(par, z, s)[o.i[s]] /\ e \in StreamState
      /\ Branch(par, z, s)[o.i[s] + 1] = e1
      /\ o.part[s] \in Nat /\ n = m.n - o.part[s]
      /\ Sender(m) # p => o.part[s] = 0
  BY <1>2 DEF InMessage
<1>4. z \in InLockstep(j, par)
  BY <1>1, <1>2, RunStep
<1>5. Streams(z)
  BY <1>4, InLock
<1>6. /\ e1 \in StreamState
      /\ e1.tot[Sender(m)] = e.tot[Sender(m)] + m.n /\ e1.tot[Peer(Sender(m))] = e.tot[Peer(Sender(m))]
  <2> HIDE DEF e1
  <2> QED BY <1>3, <1>5, PassedFacts DEF e1
<1>7. q \in Party /\ Peer(q) = p /\ (Sender(m) # p => Sender(m) = q) /\ m.n \in Int
  BY <1>3, TwoParties DEF Message
<1>8. OnStream(f, par, o, s) = e /\ OnStream(f, par, v, s) = e1
  <2> HIDE DEF v, e1
  <2> QED BY <1>1, <1>2, <1>3 DEF OnStream
<1>9. e.tot[p] \in Int /\ e.tot[q] \in Int
  BY <1>3, <1>7 DEF StreamState
<1> HIDE DEF v, n, q, e1, f
<1>10. ASSUME NEW t \in Stream
       PROVE  /\ HasSent(f, par, p, v, t) = HasSent(f, par, p, o, t)
                        + (IF t = s /\ Sender(m) = p THEN n ELSE 0)
              /\ HasReceived(f, par, p, v, t) = HasReceived(f, par, p, o, t)
                        + (IF t = s /\ Sender(m) # p THEN n ELSE 0)
  <2>1. CASE t = s
    <3>1. /\ HasSent(f, par, p, v, t) = e1.tot[p] + 0 /\ HasReceived(f, par, p, v, t) = e1.tot[q]
          /\ HasSent(f, par, p, o, t) = e.tot[p] + o.part[s] /\ HasReceived(f, par, p, o, t) = e.tot[q]
      BY <2>1, <1>1, <1>8 DEF HasSent, HasReceived, q
    <3>2. CASE Sender(m) = p
      <4>1. e1.tot[p] = e.tot[p] + m.n /\ e1.tot[q] = e.tot[q]
        BY <3>2, <1>6 DEF q
      <4> QED BY <2>1, <3>1, <3>2, <4>1, <1>3, <1>7, <1>9
    <3>3. CASE Sender(m) # p
      <4>1. e1.tot[q] = e.tot[q] + m.n /\ e1.tot[p] = e.tot[p]
        BY <3>3, <1>6, <1>7
      <4>2. o.part[s] = 0
        BY <3>3, <1>3
      <4> QED BY <2>1, <3>1, <3>3, <4>1, <4>2, <1>3, <1>7, <1>9
    <3> QED BY <3>2, <3>3
  <2>2. CASE t # s
    <3>1. v.k = o.k /\ v.i[t] = o.i[t] /\ v.part[t] = o.part[t]
      BY <2>2, <1>1
    <3>2. HasSent(f, par, p, v, t) = HasSent(f, par, p, o, t)
          /\ HasReceived(f, par, p, v, t) = HasReceived(f, par, p, o, t)
      BY <3>1 DEF HasSent, HasReceived, OnStream
    <3>3. SentWithin(j, par, p, o, t)
      BY <1>2, SentBounded DEF f
    <3>4. HasSent(f, par, p, o, t) \in Int /\ HasReceived(f, par, p, o, t) \in Int
      BY <3>3, Zenon DEF SentWithin, f
    <3> QED BY <2>2, <3>2, <3>4
  <2> QED BY <2>1, <2>2
<1> QED BY <1>10 DEF OnwardWords, f, v, n

\* A party that has sent or received a whole message.
LEMMA StepOnward ==
    ASSUME NEW j \in Jobs, NEW par \in [Party -> Param], NEW p \in Party, NEW o \in Position,
           NEW z, NEW L, NEW s \in Stream, NEW m, NEW e,
           Branching(Run(j, par), par, p, o, z, L, s, m, e),
           NEW r, Agrees(Run(j, par), par, p, r, o), NEW n, n = L[s][1].n,
           NEW x, MovedRest(par, z, p, s, m, e, n, r, x),
           NEW K, K = [L EXCEPT ![s] = Tail(@)],
           x.todo = Join(K.main, K.sibling) \o Tail(z.todo[p])
    PROVE  Settles(j, par, p, x, Onward(o, s))
<1> DEFINE f == Run(j, par)
           v == Onward(o, s)
           e1 == Passed(par, z, e, m)
<1>1. v \in Position /\ v.k = o.k /\ v.i[s] = o.i[s] + 1 /\ v.part[s] = 0 /\ o.k \in Nat
      /\ \A t \in Stream \ {s} : v.i[t] = o.i[t] /\ v.part[t] = o.part[t]
  <2>1. 0 \in Nat /\ o.k \in Nat
    BY DEF Position
  <2> HIDE DEF v
  <2> QED BY <2>1, PositionsAhead DEF v
<1>2. /\ Valid(f, p, o) /\ z = f[o.k] /\ InMessage(par, z, p, L[s], o, s, m, e) /\ InJoin(z)
      /\ L \in JoinOf(Message) /\ L[s] # <<>>
      /\ \A t \in Stream : Rest(z.todo[p][1][t], o.i[t], o.part[t], L[t])
  BY DEF Branching
<1>3. Valid(f, p, v)
  BY OnwardValid
<1>4. z \in InLockstep(j, par) /\ Streams(z)
  <2>1. z \in InLockstep(j, par)
    BY <1>1, <1>2, RunStep
  <2> QED BY <2>1, InLock
<1>5. K \in JoinOf(Message) /\ \A t \in Stream : Rest(z.todo[p][1][t], v.i[t], v.part[t], K[t])
  <2>1. \A t \in Stream : L[t] \in Seq(Message)
    BY <1>2, Branches
  <2>2. Tail(L[s]) \in Seq(Message)
    BY <2>1, <1>2
  <2>3. K \in JoinOf(Message)
    BY <2>2, <1>2, Branches
  <2>4. K[s] = Tail(L[s]) /\ \A t \in Stream \ {s} : K[t] = L[t]
    <3>1. L = [op |-> L.op, main |-> L.main, sibling |-> L.sibling]
      BY <1>2 DEF JoinOf
    <3> QED BY <3>1 DEF Stream
  <2>5. ASSUME NEW t \in Stream PROVE Rest(z.todo[p][1][t], v.i[t], v.part[t], K[t])
    <3>1. CASE t = s
      <4> DEFINE O == z.todo[p][1][s]
                 R == L[s]
      <4>1. JoinSides(z, p, s, O, Messages1(z, s))
        BY <1>2, <1>4, JoinHere
      <4>2. O \in Seq(Message)
        BY <4>1 DEF JoinSides
      <4>3. R # <<>> /\ R \in Seq(Message) /\ Rest(O, o.i[s], o.part[s], R) /\ o.i[s] \in Nat
        BY <2>1, <1>2 DEF InMessage
      <4> HIDE DEF O, R
      <4>4. Rest(O, o.i[s] + 1, 0, Tail(R))
        BY <4>2, <4>3, RestOnward
      <4> QED BY <3>1, <4>4, <2>4, <1>1 DEF O, R
    <3>2. CASE t # s
      <4>1. v.i[t] = o.i[t] /\ v.part[t] = o.part[t] /\ K[t] = L[t]
        BY <3>2, <1>1, <2>4
      <4> QED BY <4>1, <1>2
    <3> QED BY <3>1, <3>2
  <2> QED BY <2>3, <2>5
<1>6. /\ x.minted = r.minted /\ x.coins = r.coins
      /\ x.fs[s] = MovedOf(r.fs[s], Sender(m) = p, L[s][1].n)
      /\ x.abit[AbitOf(p, s)] = IF m.kind = "d"
               THEN [r.abit[AbitOf(p, s)] EXCEPT !.check = Append(@, GetDigest(x.fs[s]))]
               ELSE r.abit[AbitOf(p, s)]
      /\ \A t \in Stream \ {s} : x.fs[t] = r.fs[t] /\ x.abit[AbitOf(p, t)] = r.abit[AbitOf(p, t)]
      /\ x.got = IF m.kind \in {"circuit", "target"} /\ Sender(m) # p
                 THEN Carries(par, z.coins, e, Peer(p), m.kind) ELSE r.got
  BY DEF MovedRest
<1>7. AgreesOn(f, par, p, x, v, s)
  <2>1. AgreesOn(f, par, p, r, o, s)
    BY DEF Agrees
  <2> DEFINE R == L[s]
  <2>2. InMessage(par, z, p, R, o, s, m, e) /\ x.fs[s] = MovedOf(r.fs[s], Sender(m) = p, R[1].n)
    BY <1>2, <1>6
  <2>3. x.abit[AbitOf(p, s)] = IF m.kind = "d"
               THEN [r.abit[AbitOf(p, s)] EXCEPT !.check = Append(@, GetDigest(x.fs[s]))]
               ELSE r.abit[AbitOf(p, s)]
    BY <1>6
  <2>4. z = Run(j, par)[o.k]
    BY <1>2
  <2> HIDE DEF R
  <2>5. AgreesOn(Run(j, par), par, p, x, Onward(o, s), s)
    BY <2>1, <2>2, <2>3, <2>4, AgreesPassed, ZenonT(40)
  <2> QED BY <2>5, Zenon
<1>8. x.got = OnStream(f, par, v, "main").got[p]
  <2>1. r.got = OnStream(f, par, o, "main").got[p]
    BY DEF Agrees
  <2>2. /\ e = Branch(par, z, s)[o.i[s]] /\ e \in StreamState /\ m \in Message
        /\ Branch(par, z, s)[o.i[s] + 1] = e1
        /\ m.kind \in {"circuit", "target"} => s = "main"
    BY <1>2 DEF InMessage
  <2>3. OnStream(f, par, o, s) = e /\ OnStream(f, par, v, s) = e1
    <3> HIDE DEF v, e1
    <3> QED BY <1>1, <1>2, <2>2 DEF OnStream
  <2>4. /\ e1.got[Sender(m)] = e.got[Sender(m)]
        /\ e1.got[Peer(Sender(m))] = IF m.kind \in {"circuit", "target"}
                                     THEN Carries(par, z.coins, e, Sender(m), m.kind)
                                     ELSE e.got[Peer(Sender(m))]
    <3> HIDE DEF e1
    <3> QED BY <1>4, <2>2, PassedFacts DEF e1
  <2>5. Peer(Peer(p)) = p /\ (Sender(m) # p => Sender(m) = Peer(p))
    BY TwoParties
  <2> HIDE DEF v, e1, f
  <2>6. CASE s = "main"
    <3>1. r.got = e.got[p] /\ OnStream(f, par, v, "main") = e1
      BY <2>1, <2>3, <2>6
    <3>2. CASE Sender(m) = p
      <4>1. e1.got[p] = e.got[p]
        BY <2>4, <3>2
      <4> QED BY <3>1, <3>2, <4>1, <1>6
    <3>3. CASE Sender(m) # p
      <4>1. e1.got[p] = IF m.kind \in {"circuit", "target"}
                        THEN Carries(par, z.coins, e, Peer(p), m.kind) ELSE e.got[p]
        BY <2>4, <2>5, <3>3
      <4> QED BY <3>1, <3>3, <4>1, <1>6
    <3> QED BY <3>2, <3>3
  <2>7. CASE s # "main"
    <3>1. "main" \in Stream \ {s} /\ m.kind \notin {"circuit", "target"}
      BY <2>2, <2>7 DEF Stream
    <3>2. OnStream(f, par, v, "main") = OnStream(f, par, o, "main")
      BY <3>1, <1>1 DEF OnStream
    <3> QED BY <3>1, <3>2, <2>1, <1>6
  <2> QED BY <2>6, <2>7
<1>9. Agrees(f, par, p, x, v)
  <2> HIDE DEF f, v
  <2> QED BY <1>1, <1>6, <1>7, <1>8, AgreesElse DEF f
<1>10. z = Run(j, par)[v.k]
  BY <1>1, <1>2
<1> HIDE DEF v
<1>11. Settles(j, par, p, x, v)
  BY <1>1, <1>2, <1>3, <1>5, <1>9, <1>10, Settle
<1> QED BY <1>11 DEF v

\* A party that has sent a part of a message.
FurtherOn(j, par, p, x, o, s, n) ==
    LET f == Run(j, par)
        v == Further(o, s, n)
    IN  /\ v \in Position /\ v.k = o.k /\ Placed(j, f, par, p, x, v)
        /\ \A t \in Stream :
             /\ HasSent(f, par, p, v, t) = HasSent(f, par, p, o, t) + (IF t = s THEN n ELSE 0)
             /\ HasReceived(f, par, p, v, t) = HasReceived(f, par, p, o, t)
\* The steps of a message, as what they leave of the party.
Shortened(L, s, n) == <<[L[s][1] EXCEPT !.n = L[s][1].n - n]>> \o Tail(L[s])
PartStep(j, par, p, o, z, L, s, m, e, r, n, x, R, K) ==
    /\ j \in Jobs /\ par \in [Party -> Param] /\ p \in Party /\ o \in Position /\ s \in Stream
    /\ Branching(Run(j, par), par, p, o, z, L, s, m, e)
    /\ Agrees(Run(j, par), par, p, r, o) /\ n \in Nat /\ n < L[s][1].n /\ Sender(m) = p
    /\ x.minted = r.minted /\ x.coins = r.coins /\ x.got = r.got /\ x.abit = r.abit
    /\ x.fs[s] = MovedOf(r.fs[s], TRUE, n) /\ \A t \in Stream \ {s} : x.fs[t] = r.fs[t]
    /\ R = Shortened(L, s, n)
    /\ K = [L EXCEPT ![s] = R]
    /\ x.todo = <<K>> \o Tail(z.todo[p])

LEMMA StepFurther ==
    ASSUME NEW j, NEW par, NEW p, NEW o, NEW z, NEW L, NEW s, NEW m, NEW e, NEW r, NEW n, NEW x,
           NEW R, NEW K, PartStep(j, par, p, o, z, L, s, m, e, r, n, x, R, K)
    PROVE  FurtherOn(j, par, p, x, o, s, n)
<1> SUFFICES ASSUME
           j \in Jobs, par \in [Party -> Param], p \in Party, o \in Position, s \in Stream,
           Branching(Run(j, par), par, p, o, z, L, s, m, e),
           Agrees(Run(j, par), par, p, r, o), n \in Nat, n < L[s][1].n, Sender(m) = p,
           x.minted = r.minted, x.coins = r.coins, x.got = r.got, x.abit = r.abit,
           x.fs[s] = MovedOf(r.fs[s], TRUE, n), \A t \in Stream \ {s} : x.fs[t] = r.fs[t],
           R = Shortened(L, s, n),
           K = [L EXCEPT ![s] = R],
           x.todo = <<K>> \o Tail(z.todo[p])
           PROVE FurtherOn(j, par, p, x, o, s, n)
  BY Zenon DEF PartStep
<1> DEFINE f == Run(j, par)
           v == Further(o, s, n)
<1>1. /\ v \in Position /\ v.k = o.k /\ o.k \in Nat /\ \A t \in Stream : v.i[t] = o.i[t]
      /\ v.part[s] = o.part[s] + n /\ \A t \in Stream \ {s} : v.part[t] = o.part[t]
  <2>1. o.k \in Nat
    BY DEF Position
  <2> HIDE DEF v
  <2> QED BY <2>1, PositionsAhead, ZenonT(40) DEF v
<1>2. /\ Valid(f, p, o) /\ z = f[o.k] /\ InMessage(par, z, p, L[s], o, s, m, e) /\ InJoin(z)
      /\ L \in JoinOf(Message) /\ L[s] # <<>>
      /\ \A t \in Stream : Rest(z.todo[p][1][t], o.i[t], o.part[t], L[t])
  BY DEF Branching
<1>3. /\ o.i[s] \in Nat /\ m \in Message /\ Len(Messages1(z, s)) \in Nat /\ o.i[s] < Len(Messages1(z, s))
      /\ m = Messages1(z, s)[o.i[s] + 1]
      /\ e = Branch(par, z, s)[o.i[s]] /\ e \in StreamState
      /\ o.part[s] \in Nat /\ L[s][1].n = m.n - o.part[s]
  BY <1>2 DEF InMessage
<1>4. z \in InLockstep(j, par) /\ \A t \in Stream : o.part[t] \in Nat
  <2>1. o.part \in [Stream -> Nat]
    BY DEF Position
  <2> QED BY <2>1, <1>1, <1>2, RunStep
<1>5. Valid(f, p, v)
  <2> HIDE DEF v
  <2>1. ASSUME NEW t \in Stream
        PROVE  /\ v.i[t] \in 0..Len(Messages1(f[v.k], t))
               /\ v.part[t] > 0 => /\ v.i[t] < Len(Messages1(f[v.k], t))
                                   /\ v.part[t] < Messages1(f[v.k], t)[v.i[t] + 1].n
                                   /\ Sender(Messages1(f[v.k], t)[v.i[t] + 1]) = p
    <3>1. CASE t = s
      <4>1. f[v.k] = z /\ v.i[t] = o.i[s] /\ v.part[t] = o.part[s] + n
        BY <3>1, <1>1, <1>2
      <4>2. o.part[s] + n < m.n
        <5>1. m.n \in Int
          BY <1>3 DEF Message
        <5> QED BY <5>1, <1>3, SMTT(30)
      <4>3. Sender(m) = p
        OBVIOUS
      <4> DEFINE M == Messages1(z, s)
                 c == o.i[s]
      <4>4. c \in Nat /\ Len(M) \in Nat /\ c < Len(M) /\ m = M[c + 1]
        BY <1>3
      <4> HIDE DEF M, c
      <4>5. c \in 0..Len(M) /\ c < Len(M) /\ o.part[s] + n < M[c + 1].n /\ Sender(M[c + 1]) = p
        BY <4>2, <4>3, <4>4
      <4>6. Messages1(f[v.k], t) = M /\ v.i[t] = c /\ v.part[t] = o.part[s] + n
        BY <3>1, <4>1 DEF M, c
      <4> QED BY <4>5, <4>6
    <3>2. CASE t # s
      <4>1. v.k = o.k /\ v.i[t] = o.i[t] /\ v.part[t] = o.part[t]
        BY <3>2, <1>1
      <4>2. Valid(f, p, o)
        BY <1>2
      <4> HIDE DEF f
      <4> QED BY <4>1, <4>2, ZenonT(40) DEF Valid
    <3> QED BY <3>1, <3>2
  <2> QED BY <2>1, Zenon DEF Valid
<1>6. \A t \in Stream : Rest(z.todo[p][1][t], v.i[t], v.part[t], K[t])
  <2>1. \A t \in Stream : L[t] \in Seq(Message)
    BY <1>2, Branches
  <2>2. K[s] = R /\ \A t \in Stream \ {s} : K[t] = L[t]
    <3>1. L = [op |-> L.op, main |-> L.main, sibling |-> L.sibling]
      BY <1>2 DEF JoinOf
    <3> QED BY <3>1 DEF Stream
  <2>3. ASSUME NEW t \in Stream PROVE Rest(z.todo[p][1][t], v.i[t], v.part[t], K[t])
    <3>1. CASE t = s
      <4> DEFINE O == z.todo[p][1][s]
                 Q == L[s]
      <4>1. JoinSides(z, p, s, O, Messages1(z, s))
        BY <1>2, <1>4, JoinHere
      <4>2. O \in Seq(Message)
        BY <4>1 DEF JoinSides
      <4>3. /\ Q # <<>> /\ Q \in Seq(Message) /\ Rest(O, o.i[s], o.part[s], Q)
            /\ R = <<[Q[1] EXCEPT !.n = Q[1].n - n]>> \o Tail(Q)
        <5>1. Q # <<>> /\ Q \in Seq(Message) /\ Rest(O, o.i[s], o.part[s], Q)
          BY <2>1, <1>2
        <5>2. R = <<[Q[1] EXCEPT !.n = Q[1].n - n]>> \o Tail(Q)
          BY Zenon DEF Shortened
        <5> QED BY <5>1, <5>2
      <4> HIDE DEF O, Q
      <4> DEFINE i == o.i[s]
                 part == o.part[s]
      <4>5. i \in Nat /\ part \in Nat /\ Rest(O, i, part, Q)
        BY <4>3, <1>3
      <4> HIDE DEF i, part
      <4>6. Rest(O, i, part + n, <<[Q[1] EXCEPT !.n = Q[1].n - n]>> \o Tail(Q))
        BY <4>2, <4>3, <4>5, RestFurther, Zenon
      <4>4. Rest(O, o.i[s], o.part[s] + n, R)
        BY <4>3, <4>6, Zenon DEF i, part
      <4> QED BY <3>1, <4>4, <2>2, <1>1 DEF O
    <3>2. CASE t # s
      <4>1. v.i[t] = o.i[t] /\ v.part[t] = o.part[t] /\ K[t] = L[t]
        BY <3>2, <1>1, <2>2
      <4> QED BY <4>1, <1>2
    <3> QED BY <3>1, <3>2
  <2> QED BY <2>3
<1>7. K \in JoinOf(Message) /\ R # <<>> /\ K[s] = R
  <2>1. L[s] \in Seq(Message)
    BY <1>2, Branches
  <2>2. L[s][1] \in Message /\ Tail(L[s]) \in Seq(Message)
    BY <2>1, <1>2
  <2>3. L[s][1].n - n \in Nat \ {0}
    <3> DEFINE l == L[s][1].n
    <3>1. l \in Nat
      BY <2>2 DEF Message
    <3>2. n < l
      OBVIOUS
    <3> HIDE DEF l
    <3>3. l - n \in Nat \ {0}
      BY <3>1, <3>2
    <3> QED BY <3>3 DEF l
  <2>4. [L[s][1] EXCEPT !.n = L[s][1].n - n] \in Message
    BY <2>2, <2>3, MessageSets
  <2> DEFINE d == [L[s][1] EXCEPT !.n = L[s][1].n - n]
             T == Tail(L[s])
  <2>5. d \in Message /\ T \in Seq(Message) /\ R = <<d>> \o T
    BY <2>2, <2>4, Zenon DEF Shortened
  <2> HIDE DEF d, T
  <2>6. R \in Seq(Message) /\ R # <<>>
    <3>1. <<d>> \o T # <<>> /\ <<d>> \o T \in Seq(Message)
      BY <2>5, OnTopSeq, Zenon
    <3> QED BY <2>5, <3>1, Zenon
  <2>7. K \in JoinOf(Message)
    BY <2>6, <1>2, Branches
  <2>8. K[s] = R
    <3>1. L = [op |-> L.op, main |-> L.main, sibling |-> L.sibling]
      BY <1>2 DEF JoinOf
    <3> QED BY <3>1 DEF Stream
  <2> QED BY <2>6, <2>7, <2>8
<1>8. Stacked(f, p, x, v)
  <2> DEFINE T == Tail(z.todo[p])
  <2>1. T \in Seq(AnyCall)
    BY <1>2, <1>4, JoinHere
  <2>2. x.todo = <<K>> \o T
    OBVIOUS
  <2> HIDE DEF T
  <2>3. x.todo # <<>> /\ Tail(x.todo) = T /\ x.todo[1] = K
    <3>1. <<K>> \o T # <<>> /\ Tail(<<K>> \o T) = T /\ (<<K>> \o T)[1] = K
      BY <2>1, OnTop
    <3> QED BY <2>2, <3>1, Zenon
  <2>4. K.op = "join" /\ (K.main # <<>> \/ K.sibling # <<>>)
    <3>1. K.op = "join"
      BY <1>7 DEF JoinOf
    <3> QED BY <3>1, <1>7 DEF Stream
  <2>5. f[v.k] = z
    BY <1>1, <1>2
  <2> HIDE DEF f, v
  <2> QED BY <2>3, <2>4, <2>5, <1>2, <1>6 DEF Stacked, T
<1>9. OnStream(f, par, v, s) = OnStream(f, par, o, s)
      /\ \A t \in Stream : OnStream(f, par, v, t) = OnStream(f, par, o, t)
  <2> HIDE DEF v, f
  <2> QED BY <1>1 DEF OnStream
<1>10. Agrees(f, par, p, x, v)
  <2>1. AgreesOn(f, par, p, r, o, s)
    BY DEF Agrees
  <2> DEFINE Q == L[s]
  <2>2. InMessage(par, z, p, Q, o, s, m, e)
    BY <1>2
  <2> HIDE DEF Q
  <2>3. AgreesOn(f, par, p, x, v, s)
    BY <2>1, <2>2, <1>2, AgreesFurther
  <2>4. x.got = OnStream(f, par, v, "main").got[p]
    <3>1. r.got = OnStream(f, par, o, "main").got[p]
      BY DEF Agrees
    <3>2. OnStream(f, par, v, "main") = OnStream(f, par, o, "main")
      BY <1>9 DEF Stream
    <3> QED BY <3>1, <3>2
  <2> HIDE DEF f, v
  <2> QED BY <1>1, <2>3, <2>4, AgreesElse DEF f
<1>11. Placed(j, f, par, p, x, v)
  BY <1>5, <1>8, <1>10 DEF Placed
<1>12. ASSUME NEW t \in Stream
       PROVE  /\ HasSent(f, par, p, v, t) = HasSent(f, par, p, o, t) + (IF t = s THEN n ELSE 0)
              /\ HasReceived(f, par, p, v, t) = HasReceived(f, par, p, o, t)
  <2> DEFINE g == OnStream(f, par, o, t)
  <2>1. HasReceived(f, par, p, v, t) = HasReceived(f, par, p, o, t)
    BY <1>9 DEF HasReceived
  <2>2. HasSent(f, par, p, v, t) = g.tot[p] + v.part[t] /\ HasSent(f, par, p, o, t) = g.tot[p] + o.part[t]
    BY <1>9 DEF HasSent
  <2>3. g.tot[p] \in Int
    <3>1. g = Branch(par, z, t)[o.i[t]]
      BY <1>2 DEF OnStream
    <3>2. o.i[t] \in Nat
      BY DEF Position
    <3> HIDE DEF g
    <3>3. Branch(par, z, t)[o.i[t]].tot[p] \in Int
      BY <3>2, <1>4, Totals, ZenonT(40)
    <3> QED BY <3>1, <3>3
  <2>4. o.part[t] \in Nat /\ v.part[t] = o.part[t] + (IF t = s THEN n ELSE 0)
    BY <1>1, <1>4
  <2> HIDE DEF g
  <2> QED BY <2>1, <2>2, <2>3, <2>4
<1> HIDE DEF v
<1>13. /\ v \in Position /\ v.k = o.k /\ Placed(j, f, par, p, x, v)
       /\ \A t \in Stream :
             /\ HasSent(f, par, p, v, t) = HasSent(f, par, p, o, t) + (IF t = s THEN n ELSE 0)
             /\ HasReceived(f, par, p, v, t) = HasReceived(f, par, p, o, t)
  BY <1>1, <1>11, <1>12
<1> QED BY <1>13, Zenon DEF FurtherOn, v

-----------------------------------------------------------------------------
(* A party within a message.                                               *)

LEMMA IdleOp ==
    ASSUME NEW j, NEW f, NEW p, NEW o, Idle(j, f, p, st[p], o), NEW s \in Stream, NEW dir, Busy(p, s, dir)
    PROVE  /\ s = "main" /\ dir = "recv" /\ Op(p, s) = Recv("target", 1) /\ Ended(f[o.k])
           /\ p = "Bob"
<1> DEFINE c == TargetJoin("Bob")
<1>1. st[p].todo = <<c, Precompute, Serve>> /\ Ended(f[o.k]) /\ p = "Bob"
  BY DEF Idle
<1>2. c.main = <<Recv("target", 1)>> /\ c.sibling = <<>>
  BY DEF TargetJoin
<1>3. c["main"] = c.main /\ c["sibling"] = c.sibling
  OBVIOUS
<1> HIDE DEF c
<1>4. Head(st[p].todo) = c
  BY <1>1
<1>5. c[s] # <<>> /\ Head(c[s]).dir = dir /\ Op(p, s) = Head(c[s])
  BY <1>4 DEF Busy, Op
<1>6. s = "main"
  BY <1>2, <1>3, <1>5 DEF Stream
<1>7. Head(c[s]) = Recv("target", 1)
  BY <1>2, <1>3, <1>6
<1>8. dir = "recv"
  BY <1>5, <1>7 DEF Recv
<1> QED BY <1>1, <1>5, <1>6, <1>7, <1>8

AtWork(f, pos, p, k, z, s, dir, m, e) ==
    /\ TypeOK /\ p \in Party /\ Tracks(f, pos) /\ Tracked
    /\ pos[p] \in Position /\ k = pos[p].k /\ k \in Nat /\ f = Run(job, params)
    /\ job \in Jobs /\ params \in [Party -> Param] /\ z \in InLockstep(job, params)
    /\ Branching(Run(job, params), params, p, pos[p], z, st[p].todo[1], s, m, e)
    /\ Agrees(Run(job, params), params, p, st[p], pos[p])
    /\ Op(p, s) = st[p].todo[1][s][1] /\ Op(p, s) \in Message
    /\ Sender(m) = p <=> dir = "send"
    /\ Op(p, s).kind = m.kind
    /\ Tail(st[p].todo) = Tail(z.todo[p]) /\ Head(st[p].todo) = st[p].todo[1]
    /\ st[p].run = "running" /\ st[p].todo[1][s] # <<>>

LEMMA AtWorkHere ==
    ASSUME NEW f, NEW pos, NEW p, NEW k, NEW z, Following(f, pos, p, k, z), NEW s \in Stream,
           NEW dir \in {"send", "recv"}, Busy(p, s, dir), ~Idle(job, f, p, st[p], pos[p]),
           NEW m, m = Messages1(z, s)[pos[p].i[s] + 1], NEW e, e = Branch(params, z, s)[pos[p].i[s]]
    PROVE  AtWork(f, pos, p, k, z, s, dir, m, e)
<1> DEFINE o == pos[p]
           L == st[p].todo[1]
           R == L[s]
<1>1. TypeOK /\ p \in Party /\ Tracks(f, pos) /\ Tracked /\ job \in Jobs /\ params \in [Party -> Param]
  BY DEF Following, IInv, TypeOK
<1>2. st[p].run = "running"
  BY DEF Busy, Calling
<1>3. /\ o \in Position /\ k = o.k /\ z = f[k] /\ f = Run(job, params)
      /\ k \in Nat /\ z \in InLockstep(job, params)
      /\ Valid(f, p, o) /\ Agrees(f, params, p, st[p], o)
      /\ Stacked(f, p, st[p], o)
  BY <1>2, Standing
<1>4. /\ st[p].todo # <<>> /\ Head(st[p].todo) = L /\ L.op = "join" /\ L \in JoinOf(Message)
      /\ L[s] # <<>> /\ Op(p, s) = Head(L[s]) /\ Op(p, s) \in Message /\ Op(p, s).dir = dir
  BY <1>1, BusyFacts
<1>5. InJoin(z)
  <2>1. CASE ~InJoin(z)
    <3>1. st[p].todo = z.todo[p]
      BY <2>1, <1>3 DEF Stacked
    <3>2. InJoin(z)
      BY <3>1, <1>1, <1>3, <1>4, JoinBoth
    <3> QED BY <3>2
  <2> QED BY <2>1
<1>6. Tail(st[p].todo) = Tail(z.todo[p]) /\ \A t \in Stream : Rest(z.todo[p][1][t], o.i[t], o.part[t], L[t])
  BY <1>3, <1>5 DEF Stacked
<1>7. R # <<>> /\ R \in Seq(Message)
  BY <1>4, Branches
<1>8. Rest(z.todo[p][1][s], o.i[s], o.part[s], R)
  BY <1>6
<1> HIDE DEF o, L
<1>9. InMessage(params, z, p, R, o, s, Messages1(z, s)[o.i[s] + 1], Branch(params, z, s)[o.i[s]])
  <2>1. z = Run(job, params)[o.k] /\ Valid(Run(job, params), p, o)
    BY <1>3
  <2> HIDE DEF R
  <2> QED BY <2>1, <1>1, <1>3, <1>5, <1>7, <1>8, AtMessage
<1>10. InMessage(params, z, p, R, o, s, m, e)
  <2>1. m = Messages1(z, s)[o.i[s] + 1] /\ e = Branch(params, z, s)[o.i[s]]
    BY DEF o
  <2> HIDE DEF R
  <2> QED BY <2>1, <1>9
<1>11. Branching(f, params, p, o, z, L, s, m, e)
  BY <1>3, <1>4, <1>5, <1>6, <1>10 DEF Branching
<1>12. Op(p, s) = L[s][1]
  BY <1>4, <1>7
<1>13. (Sender(m) = p <=> dir = "send") /\ L[s][1].kind = m.kind
  <2>1. (R[1].dir = "send" <=> Sender(m) = p) /\ R[1].kind = m.kind
    BY <1>10 DEF InMessage
  <2> QED BY <2>1, <1>4, <1>12
<1> QED BY <1>1, <1>2, <1>3, <1>4, <1>6, <1>7, <1>11, <1>12, <1>13 DEF AtWork, o, L

\* The words a party sends are those of the run.
LEMMA SentHere ==
    ASSUME NEW f, NEW par, NEW p \in Party, NEW o \in Position,
           NEW z, z = f[o.k], NEW s \in Stream, NEW R, NEW m, NEW e,
           InMessage(par, z, p, R, o, s, m, e), Sender(m) = p, NEW x \in 1..R[1].n
    PROVE  Sent(f, par, p, s, HasSent(f, par, p, o, s) + x,
                [kind |-> m.kind, val |-> Carries(par, z.coins, e, p, m.kind)])
<1> DEFINE k == o.k
           i == o.i[s] + 1
           n == HasSent(f, par, p, o, s) + x
           w == [kind |-> m.kind, val |-> Carries(par, z.coins, e, p, m.kind)]
           M == Messages1(z, s)
<1>1. k \in Nat
  BY DEF Position
<1>2. /\ o.i[s] \in Nat /\ Len(M) \in Nat /\ o.i[s] < Len(M) /\ m = M[i] /\ m \in Message
      /\ e = Branch(par, z, s)[o.i[s]] /\ e \in StreamState
      /\ o.part[s] \in Nat /\ R[1].n = m.n - o.part[s]
  BY DEF InMessage
<1>3. i \in Nat /\ i \in 1..Len(M) /\ i - 1 = o.i[s]
  <2> HIDE DEF M
  <2> QED BY <1>2
<1>4. HasSent(f, par, p, o, s) = e.tot[p] + o.part[s]
  BY <1>2 DEF HasSent, OnStream
<1>5. e.tot[p] \in Int /\ m.n \in Int
  <2> HIDE DEF n, w, M
  <2> QED BY <1>2 DEF StreamState, Message
<1>6. e.tot[p] < n /\ n <= e.tot[p] + m.n
  <2> DEFINE a == e.tot[p]
             b == o.part[s]
             c == m.n
  <2>1. a \in Int /\ b \in Nat /\ c \in Int
    BY <1>2, <1>5
  <2>2. x \in 1..(c - b)
    BY <1>2
  <2>3. n = (a + b) + x
    BY <1>4
  <2> HIDE DEF a, b, c, n, w, M
  <2>4. a < n /\ n <= a + c
    BY <2>1, <2>2, <2>3
  <2> QED BY <2>4 DEF a, c
<1> HIDE DEF n, i, k
<1>7. Brings(f, par, p, s, n, k, i)
  <2>1. f[k] = z /\ Messages1(f[k], s)[i] = m /\ Branch(par, f[k], s)[i - 1] = e
    BY <1>2, <1>3 DEF k
  <2>2. i \in 1..Len(Messages1(f[k], s))
    BY <2>1, <1>3
  <2> HIDE DEF M
  <2> QED BY <2>1, <2>2, <1>6 DEF Brings
<1>8. w = WordOf(f, par, p, s, k, i)
  <2>1. f[k] = z /\ Messages1(f[k], s)[i] = m /\ Branch(par, f[k], s)[i - 1] = e
    BY <1>2, <1>3 DEF k
  <2> QED BY <2>1 DEF WordOf
<1> HIDE DEF w
<1>9. Sent(f, par, p, s, n, w)
  BY <1>1, <1>3, <1>7, <1>8 DEF Sent
<1> QED BY <1>9 DEF n, w

\* The word p is due in the message m.
Due(par, z, e, p, m) == [kind |-> m.kind, val |-> Carries(par, z.coins, e, Peer(p), m.kind)]

\* The words a party has at hand are those of the message it waits for.
HearsOf(j, par, p, o, z, s, R, m, e, x, w) ==
    /\ j \in Jobs /\ par \in [Party -> Param] /\ p \in Party /\ o \in Position
    /\ z = Run(j, par)[o.k] /\ s \in Stream
    /\ InMessage(par, z, p, R, o, s, m, e) /\ Sender(m) # p /\ x \in 1..R[1].n
    /\ Sent(Run(j, par), par, Peer(p), s, HasReceived(Run(j, par), par, p, o, s) + x, w)

LEMMA ReceivedHere ==
    ASSUME NEW j, NEW par, NEW p, NEW o, NEW z, NEW s, NEW R, NEW m, NEW e, NEW x, NEW w,
           HearsOf(j, par, p, o, z, s, R, m, e, x, w)
    PROVE  w = Due(par, z, e, p, m)
<1> SUFFICES ASSUME
       j \in Jobs, par \in [Party -> Param], p \in Party, o \in Position,
       z = Run(j, par)[o.k], s \in Stream,
       InMessage(par, z, p, R, o, s, m, e), Sender(m) # p, x \in 1..R[1].n,
       Sent(Run(j, par), par, Peer(p), s, HasReceived(Run(j, par), par, p, o, s) + x, w)
       PROVE w = Due(par, z, e, p, m)
  BY Zenon DEF HearsOf
<1> DEFINE f == Run(j, par)
           k == o.k
           q == Peer(p)
           i == o.i[s] + 1
           n == HasReceived(f, par, p, o, s) + x
           M == Messages1(z, s)
<1>1. k \in Nat /\ q \in Party /\ Sender(m) = q
  BY TwoParties DEF Position
<1>2. /\ o.i[s] \in Nat /\ Len(M) \in Nat /\ o.i[s] < Len(M) /\ m = M[i] /\ m \in Message
      /\ e = Branch(par, z, s)[o.i[s]] /\ e \in StreamState
      /\ o.part[s] = 0 /\ R[1].n = m.n - o.part[s]
  BY DEF InMessage
<1>3. i \in Nat /\ i \in 1..Len(M) /\ i - 1 = o.i[s]
  <2> HIDE DEF M
  <2> QED BY <1>2
<1>4. HasReceived(f, par, p, o, s) = e.tot[q]
  BY <1>2 DEF HasReceived, OnStream
<1>5. e.tot[q] \in Int /\ m.n \in Int
  <2> HIDE DEF f, n, M, q
  <2> QED BY <1>1, <1>2 DEF StreamState, Message
<1>6. e.tot[q] < n /\ n <= e.tot[q] + m.n /\ n \in Int
  <2>1. R[1].n = m.n
    BY <1>2, <1>5
  <2>2. x \in 1..m.n
    BY <2>1
  <2>3. n = e.tot[q] + x
    BY <1>4
  <2> HIDE DEF n, q
  <2> QED BY <2>2, <2>3, <1>5
<1>7. Sent(f, par, q, s, n, w)
  OBVIOUS
<1> HIDE DEF n, i, k, q, f
<1>8. Brings(f, par, q, s, n, k, i)
  <2>1. f[k] = z /\ Messages1(f[k], s)[i] = m /\ Branch(par, f[k], s)[i - 1] = e
    BY <1>2, <1>3 DEF k, f
  <2>2. i \in 1..Len(Messages1(f[k], s))
    BY <2>1, <1>3
  <2> HIDE DEF M
  <2> QED BY <2>1, <2>2, <1>1, <1>6 DEF Brings
<1>9. w = WordOf(f, par, q, s, k, i)
  BY <1>1, <1>3, <1>6, <1>7, <1>8, SentOnce DEF f
<1>10. f[k] = z /\ Messages1(f[k], s)[i] = m /\ Branch(par, f[k], s)[i - 1] = e
  BY <1>2, <1>3 DEF k, f
<1> QED BY <1>9, <1>10 DEF WordOf, q, Due

\* What a party says of itself is what the run says of it.
LEMMA Spoken ==
    ASSUME NEW f, NEW pos, NEW p, NEW k, NEW z, NEW s \in Stream, NEW m, NEW e,
           AtWork(f, pos, p, k, z, s, "send", m, e)
    PROVE  Payload(p, m.kind) = Carries(params, z.coins, e, p, m.kind)
<1> DEFINE o == pos[p]
           r == st[p]
<1>1. /\ p \in Party /\ Agrees(f, params, p, r, o) /\ Sender(m) = p
      /\ Branching(f, params, p, o, z, r.todo[1], s, m, e)
  BY DEF AtWork
<1>2. z = f[o.k] /\ InMessage(params, z, p, r.todo[1][s], o, s, m, e)
  BY <1>1 DEF Branching
<1>3. /\ e = Branch(params, z, s)[o.i[s]]
      /\ m.kind \in {"d", "t"} => (Sender(m) = "Alice") = (s = "main")
      /\ m.kind \in {"circuit", "target"} => s = "main"
  BY <1>2 DEF InMessage
<1>4. OnStream(f, params, o, s) = e
  BY <1>2, <1>3 DEF OnStream
<1>5. r.coins = z.coins
  BY <1>1, <1>2 DEF Agrees
<1>6. m.kind = "target" => r.got = e.got[p]
  BY <1>1, <1>3, <1>4 DEF Agrees
<1>7. m.kind = "t" => r.abit[2].check = e.chk
  <2> SUFFICES ASSUME m.kind = "t" PROVE r.abit[2].check = e.chk
    OBVIOUS
  <2>1. AbitOf(p, s) = 2
    BY <1>1, <1>3 DEF AbitOf, Party, Stream
  <2>2. AgreesOn(f, params, p, r, o, s)
    BY <1>1 DEF Agrees
  <2> HIDE DEF r, o
  <2>3. r.abit[AbitOf(p, s)].check = e.chk
    BY <2>2, <1>4 DEF AgreesOn
  <2> QED BY <2>1, <2>3
<1> QED BY <1>5, <1>6, <1>7 DEF Payload, Carries

\* What a party checks is what the run says of its peer.
LEMMA Heard ==
    ASSUME NEW f, NEW pos, NEW p, NEW k, NEW z, NEW s \in Stream, NEW m, NEW e,
           AtWork(f, pos, p, k, z, s, "recv", m, e), ~Apart,
           NEW w, w = [kind |-> m.kind, val |-> Carries(params, z.coins, e, Peer(p), m.kind)]
    PROVE  Accepts(p, m.kind, w)
<1> DEFINE o == pos[p]
           r == st[p]
<1>1. /\ p \in Party /\ Agrees(f, params, p, r, o) /\ Sender(m) # p
      /\ Branching(f, params, p, o, z, r.todo[1], s, m, e)
  BY DEF AtWork
<1>2. z = f[o.k] /\ InMessage(params, z, p, r.todo[1][s], o, s, m, e)
  BY <1>1 DEF Branching
<1>3. /\ e = Branch(params, z, s)[o.i[s]]
      /\ m.kind \in {"d", "t"} => (Sender(m) = "Alice") = (s = "main")
  BY <1>2 DEF InMessage
<1>4. OnStream(f, params, o, s) = e
  BY <1>2, <1>3 DEF OnStream
<1>5. r.coins = z.coins
  BY <1>1, <1>2 DEF Agrees
<1>6. params[Peer(p)] = params[p]
  BY <1>1 DEF Apart, Peer, Party
<1>7. m.kind = "t" => r.abit[1].check = e.chk
  <2> SUFFICES ASSUME m.kind = "t" PROVE r.abit[1].check = e.chk
    OBVIOUS
  <2>1. AbitOf(p, s) = 1
    <3>1. Sender(m) = Peer(p)
      BY <1>1, TwoParties
    <3> QED BY <3>1, <1>1, <1>3 DEF AbitOf, Party, Stream, Peer
  <2>2. AgreesOn(f, params, p, r, o, s)
    BY <1>1 DEF Agrees
  <2> HIDE DEF r, o
  <2>3. r.abit[AbitOf(p, s)].check = e.chk
    BY <2>2, <1>4 DEF AgreesOn
  <2> QED BY <2>1, <2>3
<1>8. w.kind = m.kind /\ w.val = Carries(params, z.coins, e, Peer(p), m.kind)
  OBVIOUS
<1> QED BY <1>5, <1>6, <1>7, <1>8 DEF Accepts, Carries, SessionChecks

\* The transcripts and the checks as words move.
LEMMA MovedIs ==
    ASSUME TypeOK, NEW p \in Party, NEW s \in Stream, NEW dir \in {"send", "recv"}, NEW n \in Int,
           NEW fs, fs = Moved(p, s, dir, n)
    PROVE  /\ fs \in [Stream -> FsRec] /\ fs[s] = MovedOf(st[p].fs[s], dir = "send", n)
           /\ \A t \in Stream \ {s} : fs[t] = st[p].fs[t]
<1> DEFINE g == st[p].fs
<1>1. g \in [Stream -> FsRec]
  BY Fields DEF TypeOK
<1>2. fs \in [Stream -> FsRec]
  BY Transcripts
<1>3. fs = IF g[s].on THEN [g EXCEPT ![s][IF dir = "send" THEN "sent" ELSE "recd"] = @ + n] ELSE g
  BY DEF Moved
<1> HIDE DEF g
<1>4. g[s] \in FsRec
  BY <1>1
<1>5. /\ g[s].on \in BOOLEAN /\ g[s].sent \in Int /\ g[s].recd \in Int
      /\ g[s] = [on |-> g[s].on, first |-> g[s].first, sent |-> g[s].sent, recd |-> g[s].recd]
  BY <1>4 DEF FsRec
<1>6. CASE ~g[s].on
  <2>1. fs = g
    BY <1>3, <1>6
  <2>2. g[s].sent + 0 = g[s].sent /\ g[s].recd + 0 = g[s].recd
    BY <1>5
  <2>3. MovedOf(g[s], dir = "send", n) = [on |-> g[s].on, first |-> g[s].first,
                sent |-> g[s].sent + 0, recd |-> g[s].recd + 0]
    BY <1>6 DEF MovedOf
  <2>4. MovedOf(g[s], dir = "send", n) = g[s]
    BY <2>2, <2>3, <1>5
  <2> QED BY <2>1, <2>4, <1>2 DEF g
<1>7. CASE g[s].on
  <2>1. CASE dir = "send"
    <3>1. fs = [g EXCEPT ![s].sent = @ + n]
      BY <1>3, <1>7, <2>1
    <3>2. fs[s] = [g[s] EXCEPT !.sent = @ + n] /\ \A t \in Stream \ {s} : fs[t] = g[t]
      BY <3>1, <1>1
    <3>3. g[s].recd + 0 = g[s].recd
      BY <1>5
    <3>4. fs[s] = [on |-> g[s].on, first |-> g[s].first, sent |-> g[s].sent + n, recd |-> g[s].recd + 0]
      BY <3>2, <3>3, <1>5
    <3>5. fs[s] = MovedOf(g[s], dir = "send", n)
      BY <3>4, <2>1, <1>7 DEF MovedOf
    <3> QED BY <3>2, <3>5, <1>2 DEF g
  <2>2. CASE dir = "recv"
    <3>1. fs = [g EXCEPT ![s].recd = @ + n]
      BY <1>3, <1>7, <2>2
    <3>2. fs[s] = [g[s] EXCEPT !.recd = @ + n] /\ \A t \in Stream \ {s} : fs[t] = g[t]
      BY <3>1, <1>1
    <3>3. g[s].sent + 0 = g[s].sent
      BY <1>5
    <3>4. fs[s] = [on |-> g[s].on, first |-> g[s].first, sent |-> g[s].sent + 0, recd |-> g[s].recd + n]
      BY <3>2, <3>3, <1>5
    <3>5. fs[s] = MovedOf(g[s], dir = "send", n)
      BY <3>4, <2>2, <1>7 DEF MovedOf
    <3> QED BY <3>2, <3>5, <1>2 DEF g
  <2> QED BY <2>1, <2>2
<1> QED BY <1>6, <1>7

\* The checks once a message has been sent or received.
Absorbs(p, s, kind, fs, a) ==
    /\ a \in [1..2 -> AbitRec]
    /\ a[AbitOf(p, s)] = IF kind = "d"
            THEN [st[p].abit[AbitOf(p, s)] EXCEPT !.check = Append(@, GetDigest(fs[s]))]
            ELSE st[p].abit[AbitOf(p, s)]
    /\ \A t \in Stream \ {s} : a[AbitOf(p, t)] = st[p].abit[AbitOf(p, t)]

LEMMA AbsorbedIs ==
    ASSUME TypeOK, NEW p \in Party, NEW s \in Stream, NEW kind, NEW fs \in [Stream -> FsRec],
           NEW a, a = Absorbed(p, s, kind, fs)
    PROVE  Absorbs(p, s, kind, fs, a)
<1> SUFFICES
    /\ a \in [1..2 -> AbitRec]
    /\ a[AbitOf(p, s)] = IF kind = "d"
            THEN [st[p].abit[AbitOf(p, s)] EXCEPT !.check = Append(@, GetDigest(fs[s]))]
            ELSE st[p].abit[AbitOf(p, s)]
    /\ \A t \in Stream \ {s} : a[AbitOf(p, t)] = st[p].abit[AbitOf(p, t)]
  BY Zenon DEF Absorbs
<1> DEFINE b == st[p].abit
           g == GetDigest(fs[s])
<1>1. b \in [1..2 -> AbitRec]
  BY Fields DEF TypeOK
<1>2. a \in [1..2 -> AbitRec]
  <2>1. 0 \in Int
    OBVIOUS
  <2> QED BY <2>1, Transcripts
<1>3. a = IF kind # "d" THEN b ELSE [b EXCEPT ![AbitOf(p, s)].check = Append(@, g)]
  BY DEF Absorbed
<1>4. \A t \in Stream : AbitOf(p, t) \in 1..2 /\ (t # s => AbitOf(p, t) # AbitOf(p, s))
  BY DEF AbitOf, Stream
<1> HIDE DEF b, g
<1> DEFINE i == AbitOf(p, s)
<1>5. i \in 1..2
  BY <1>4
<1> HIDE DEF i
<1>6. CASE kind = "d"
  <2>1. a = [b EXCEPT ![i].check = Append(@, g)]
    BY <1>3, <1>6 DEF i
  <2>2. a[i] = [b[i] EXCEPT !.check = Append(@, g)] /\ \A l \in 1..2 : l # i => a[l] = b[l]
    BY <2>1, <1>1, <1>5
  <2>3. \A t \in Stream \ {s} : a[AbitOf(p, t)] = b[AbitOf(p, t)]
    BY <2>2, <1>4 DEF i
  <2> QED BY <2>2, <2>3, <1>2, <1>6 DEF b, g, i
<1>7. CASE kind # "d"
  BY <1>2, <1>3, <1>7 DEF b
<1> QED BY <1>6, <1>7

-----------------------------------------------------------------------------
(* Steps that move words.                                                  *)

\* The words between q and its peer.
Way(f, pos, q, s) ==
    OnTheWay(f, params, q, s, wire[q][s], buf[Peer(q)][s],
             HasReceived(f, params, Peer(q), pos[Peer(q)], s), HasSent(f, params, q, pos[q], s))

LEMMA WayHere ==
    ASSUME NEW f, NEW pos, NEW p, NEW k, NEW z, Following(f, pos, p, k, z)
    PROVE  /\ \A q \in Party, s \in Stream :
                 /\ Way(f, pos, q, s)
                 /\ wire[q][s] \in Seq(Seq(Word)) /\ buf[q][s] \in Seq(Word)
                 /\ HasSent(f, params, q, pos[q], s) \in Int /\ HasReceived(f, params, q, pos[q], s) \in Int
           /\ wire \in [Party -> [Stream -> Seq(Seq(Word))]] /\ buf \in [Party -> [Stream -> Seq(Word)]]
           /\ p \in Party /\ Peer(p) \in Party /\ Peer(p) # p /\ Peer(Peer(p)) = p
           /\ \A q \in Party : q = p \/ q = Peer(p)
           /\ Tracks(f, pos) /\ Tracked /\ TypeOK /\ st \in [Party -> PartyRec]
<1>1. TypeOK /\ p \in Party /\ Tracks(f, pos) /\ Tracked
  BY DEF Following, IInv
<1>2. /\ wire \in [Party -> [Stream -> Seq(Seq(Word))]] /\ buf \in [Party -> [Stream -> Seq(Word)]]
      /\ st \in [Party -> PartyRec] /\ job \in Jobs /\ params \in [Party -> Param]
  BY <1>1 DEF TypeOK
<1>3. ASSUME NEW q \in Party, NEW s \in Stream
      PROVE  /\ Way(f, pos, q, s)
             /\ wire[q][s] \in Seq(Seq(Word)) /\ buf[q][s] \in Seq(Word)
             /\ HasSent(f, params, q, pos[q], s) \in Int /\ HasReceived(f, params, q, pos[q], s) \in Int
  <2>1. Way(f, pos, q, s)
    BY <1>1 DEF Tracks, Follows, Way
  <2>2. wire[q][s] \in Seq(Seq(Word)) /\ buf[q][s] \in Seq(Word)
    BY <1>2
  <2>3. Valid(f, q, pos[q]) /\ f = Run(job, params) /\ pos[q] \in Position
    BY <1>1 DEF Tracks, Follows, Placed
  <2>4. SentWithin(job, params, q, pos[q], s)
    BY <1>2, <2>3, SentBounded
  <2>5. HasSent(f, params, q, pos[q], s) \in Int /\ HasReceived(f, params, q, pos[q], s) \in Int
    BY <2>3, <2>4, Zenon DEF SentWithin
  <2> QED BY <2>1, <2>2, <2>5
<1>4. Peer(p) \in Party /\ Peer(p) # p /\ Peer(Peer(p)) = p /\ \A q \in Party : q = p \/ q = Peer(p)
  BY <1>1, TwoParties
<1> QED BY <1>1, <1>2, <1>3, <1>4

\* A step that sends the words F, which are those of the run, and leaves p at o.
GoesOut(f, pos, p, s, o, F) ==
    /\ s \in Stream /\ o \in Position /\ F \in Seq(Word)
    /\ wire' = [wire EXCEPT ![p][s] = Append(@, F)]
    /\ UNCHANGED <<buf, rest>> /\ \A q \in Party \ {p} : st'[q] = st[q]
    /\ st'[p].run = "running" /\ Placed(job, f, params, p, st'[p], o)
    /\ \A t \in Stream :
          /\ HasSent(f, params, p, o, t) = HasSent(f, params, p, pos[p], t) + (IF t = s THEN Len(F) ELSE 0)
          /\ HasReceived(f, params, p, o, t) = HasReceived(f, params, p, pos[p], t)
    /\ \A x \in 1..Len(F) : Sent(f, params, p, s, HasSent(f, params, p, pos[p], s) + x, F[x])

\* Words of the run that are sent keep the parties on it.
LEMMA MovesOut ==
    ASSUME NEW f, NEW pos, NEW p, NEW k, NEW z, Following(f, pos, p, k, z), NEW s, NEW o, NEW F,
           GoesOut(f, pos, p, s, o, F)
    PROVE  LockInv'
<1> SUFFICES ASSUME
           s \in Stream, o \in Position, F \in Seq(Word), wire' = [wire EXCEPT ![p][s] = Append(@, F)],
           UNCHANGED <<buf, rest>>, \A q \in Party \ {p} : st'[q] = st[q],
           st'[p].run = "running", Placed(job, f, params, p, st'[p], o),
           \A t \in Stream :
              /\ HasSent(f, params, p, o, t) = HasSent(f, params, p, pos[p], t) + (IF t = s THEN Len(F) ELSE 0)
              /\ HasReceived(f, params, p, o, t) = HasReceived(f, params, p, pos[p], t),
           \A x \in 1..Len(F) : Sent(f, params, p, s, HasSent(f, params, p, pos[p], s) + x, F[x])
           PROVE LockInv'
  BY Zenon DEF GoesOut
<1> DEFINE q == Peer(p)
<1>1. /\ \A u \in Party, t \in Stream :
                 /\ Way(f, pos, u, t)
                 /\ wire[u][t] \in Seq(Seq(Word)) /\ buf[u][t] \in Seq(Word)
                 /\ HasSent(f, params, u, pos[u], t) \in Int /\ HasReceived(f, params, u, pos[u], t) \in Int
      /\ wire \in [Party -> [Stream -> Seq(Seq(Word))]]
      /\ p \in Party /\ q \in Party /\ q # p /\ Peer(q) = p
      /\ Tracks(f, pos) /\ Tracked
  BY WayHere
<1> HIDE DEF q
<1>2. /\ wire'[p][s] = Append(wire[p][s], F) /\ \A t \in Stream \ {s} : wire'[p][t] = wire[p][t]
      /\ \A t \in Stream : wire'[q][t] = wire[q][t]
  BY <1>1
<1>3. buf' = buf /\ UNCHANGED <<job, params>> /\ faults' = faults
  BY DEF rest
<1>4. ASSUME NEW t \in Stream
      PROVE  OnTheWay(f, params, p, t, wire'[p][t], buf'[q][t],
                      HasReceived(f, params, q, pos[q], t), HasSent(f, params, p, o, t))
  <2>1. OnTheWay(f, params, p, t, wire[p][t], buf[q][t],
                 HasReceived(f, params, q, pos[q], t), HasSent(f, params, p, pos[p], t))
    BY <1>1 DEF Way, q
  <2> DEFINE from == HasReceived(f, params, q, pos[q], t)
             to == HasSent(f, params, p, pos[p], t)
             W == wire[p][t]
             B == buf[q][t]
  <2>2. from \in Int /\ to \in Int /\ W \in Seq(Seq(Word)) /\ B \in Seq(Word)
    BY <1>1
  <2>3. CASE t = s
    <3>1. HasSent(f, params, p, o, t) = to + Len(F)
      BY <2>3
    <3>2. wire'[p][t] = Append(W, F) /\ buf'[q][t] = B
      BY <2>3, <1>2, <1>3
    <3>3. \A x \in 1..Len(F) : Sent(f, params, p, s, to + x, F[x])
      BY <2>3
    <3>4. OnTheWay(f, params, p, s, W, B, from, to)
      BY <2>1, <2>3
    <3>7. wire'[p][s] = Append(W, F) /\ buf'[q][s] = B /\ HasSent(f, params, p, o, s) = to + Len(F)
          /\ HasReceived(f, params, q, pos[q], s) = from
      BY <2>3, <3>1, <3>2
    <3> HIDE DEF from, to, W, B
    <3>5. OnTheWay(f, params, p, s, Append(W, F), B, from, to + Len(F))
      BY <2>2, <3>3, <3>4, WaySend
    <3>6. OnTheWay(f, params, p, s, wire'[p][s], buf'[q][s],
                      HasReceived(f, params, q, pos[q], s), HasSent(f, params, p, o, s))
      BY <3>5, <3>7
    <3> QED BY <2>3, <3>6
  <2>4. CASE t # s
    <3>1. HasSent(f, params, p, o, t) = to
      <4>1. HasSent(f, params, p, o, t) = to + 0
        BY <2>4
      <4> HIDE DEF to
      <4> QED BY <4>1, <2>2
    <3>2. wire'[p][t] = W /\ buf'[q][t] = B
      BY <2>4, <1>2, <1>3
    <3> QED BY <2>1, <3>1, <3>2
  <2> QED BY <2>3, <2>4
<1>5. ASSUME NEW t \in Stream
      PROVE  OnTheWay(f, params, q, t, wire'[q][t], buf'[p][t],
                      HasReceived(f, params, p, o, t), HasSent(f, params, q, pos[q], t))
  <2>1. OnTheWay(f, params, q, t, wire[q][t], buf[p][t],
                 HasReceived(f, params, p, pos[p], t), HasSent(f, params, q, pos[q], t))
    BY <1>1 DEF Way
  <2>2. HasReceived(f, params, p, o, t) = HasReceived(f, params, p, pos[p], t)
    OBVIOUS
  <2>3. wire'[q][t] = wire[q][t] /\ buf'[p][t] = buf[p][t]
    BY <1>2, <1>3
  <2> QED BY <2>1, <2>2, <2>3
<1>6. Honest' => Honest
  BY <1>3 DEF Honest, Apart
<1>7. faults' \in Nat
  BY <1>1, <1>3 DEF Tracked
<1>8. st'[p].run \notin {"done", "failed"}
  OBVIOUS
<1>9. /\ \A t \in Stream : OnTheWay(f, params, p, t, wire'[p][t], buf'[Peer(p)][t],
                      HasReceived(f, params, Peer(p), pos[Peer(p)], t), HasSent(f, params, p, o, t))
      /\ \A t \in Stream : OnTheWay(f, params, Peer(p), t, wire'[Peer(p)][t], buf'[p][t],
                      HasReceived(f, params, p, o, t), HasSent(f, params, Peer(p), pos[Peer(p)], t))
  BY <1>4, <1>5 DEF q
<1>10. /\ Honest' /\ st'[p].run = "done" => Ended(f[o.k])
       /\ Honest' => st'[p].run # "failed"
  BY <1>8
<1> QED BY <1>1, <1>3, <1>6, <1>7, <1>9, <1>10, Move

\* A step that consumes n words and leaves p at o.
ComesIn(f, pos, p, s, o, n) ==
    /\ s \in Stream /\ o \in Position /\ n \in Nat /\ n <= Len(buf[p][s])
    /\ buf' = [buf EXCEPT ![p][s] = SubSeq(@, n + 1, Len(@))]
    /\ UNCHANGED <<wire, rest>> /\ \A q \in Party \ {p} : st'[q] = st[q]
    /\ st'[p].run # "done" /\ (Honest' => st'[p].run # "failed")
    /\ Placed(job, f, params, p, st'[p], o)
    /\ \A t \in Stream :
          /\ HasReceived(f, params, p, o, t) = HasReceived(f, params, p, pos[p], t) + (IF t = s THEN n ELSE 0)
          /\ HasSent(f, params, p, o, t) = HasSent(f, params, p, pos[p], t)

\* Words that are consumed keep the parties on the run.
LEMMA MovesIn ==
    ASSUME NEW f, NEW pos, NEW p, NEW k, NEW z, Following(f, pos, p, k, z), NEW s, NEW o, NEW n,
           ComesIn(f, pos, p, s, o, n)
    PROVE  LockInv'
<1> SUFFICES ASSUME
           s \in Stream, o \in Position, n \in Nat, n <= Len(buf[p][s]),
           buf' = [buf EXCEPT ![p][s] = SubSeq(@, n + 1, Len(@))],
           UNCHANGED <<wire, rest>>, \A q \in Party \ {p} : st'[q] = st[q],
           st'[p].run # "done", Honest' => st'[p].run # "failed",
           Placed(job, f, params, p, st'[p], o),
           \A t \in Stream :
              /\ HasReceived(f, params, p, o, t) = HasReceived(f, params, p, pos[p], t) + (IF t = s THEN n ELSE 0)
              /\ HasSent(f, params, p, o, t) = HasSent(f, params, p, pos[p], t)
           PROVE LockInv'
  BY Zenon DEF ComesIn
<1> DEFINE q == Peer(p)
<1>1. /\ \A u \in Party, t \in Stream :
                 /\ Way(f, pos, u, t)
                 /\ wire[u][t] \in Seq(Seq(Word)) /\ buf[u][t] \in Seq(Word)
                 /\ HasSent(f, params, u, pos[u], t) \in Int /\ HasReceived(f, params, u, pos[u], t) \in Int
      /\ buf \in [Party -> [Stream -> Seq(Word)]]
      /\ p \in Party /\ q \in Party /\ q # p /\ Peer(q) = p
      /\ Tracks(f, pos) /\ Tracked
  BY WayHere
<1> HIDE DEF q
<1>2. /\ buf'[p][s] = SubSeq(buf[p][s], n + 1, Len(buf[p][s])) /\ \A t \in Stream \ {s} : buf'[p][t] = buf[p][t]
      /\ \A t \in Stream : buf'[q][t] = buf[q][t]
  <2> DEFINE X == SubSeq(buf[p][s], n + 1, Len(buf[p][s]))
  <2>1. buf' = [buf EXCEPT ![p][s] = X]
    OBVIOUS
  <2> HIDE DEF X
  <2>2. buf'[p][s] = X /\ \A t \in Stream \ {s} : buf'[p][t] = buf[p][t]
    BY <2>1, <1>1
  <2>3. buf'[q] = buf[q]
    BY <2>1, <1>1
  <2> QED BY <2>2, <2>3 DEF X
<1>3. wire' = wire /\ UNCHANGED <<job, params>> /\ faults' = faults
  BY DEF rest
<1>4. ASSUME NEW t \in Stream
      PROVE  OnTheWay(f, params, q, t, wire'[q][t], buf'[p][t],
                      HasReceived(f, params, p, o, t), HasSent(f, params, q, pos[q], t))
  <2> DEFINE from == HasReceived(f, params, p, pos[p], t)
             to == HasSent(f, params, q, pos[q], t)
             W == wire[q][t]
             B == buf[p][t]
             C == SubSeq(B, n + 1, Len(B))
  <2>1. OnTheWay(f, params, q, t, W, B, from, to)
    BY <1>1 DEF Way
  <2>2. from \in Int /\ to \in Int /\ W \in Seq(Seq(Word)) /\ B \in Seq(Word)
    BY <1>1
  <2>3. CASE t = s
    <3>1. HasReceived(f, params, p, o, s) = from + n /\ HasSent(f, params, q, pos[q], s) = to
      BY <2>3
    <3>2. wire'[q][s] = W /\ buf'[p][s] = C
      <4>1. buf'[p][s] = C
        BY <2>3, <1>2
      <4>2. wire'[q][s] = W
        BY <2>3, <1>3
      <4> QED BY <4>1, <4>2
    <3>3. n <= Len(B) /\ OnTheWay(f, params, q, s, W, B, from, to)
      BY <2>1, <2>3
    <3> HIDE DEF from, to, W, B
    <3>4. OnTheWay(f, params, q, s, W, C, from + n, to)
      BY <2>2, <3>3, WayRecv
    <3> HIDE DEF C
    <3>5. OnTheWay(f, params, q, s, wire'[q][s], buf'[p][s],
                      HasReceived(f, params, p, o, s), HasSent(f, params, q, pos[q], s))
      BY <3>1, <3>2, <3>4
    <3> QED BY <2>3, <3>5
  <2>4. CASE t # s
    <3>1. HasReceived(f, params, p, o, t) = from
      <4>1. HasReceived(f, params, p, o, t) = from + 0
        BY <2>4
      <4> HIDE DEF from
      <4> QED BY <4>1, <2>2
    <3>2. wire'[q][t] = W /\ buf'[p][t] = B
      BY <2>4, <1>2, <1>3
    <3> QED BY <2>1, <3>1, <3>2
  <2> QED BY <2>3, <2>4
<1>5. ASSUME NEW t \in Stream
      PROVE  OnTheWay(f, params, p, t, wire'[p][t], buf'[q][t],
                      HasReceived(f, params, q, pos[q], t), HasSent(f, params, p, o, t))
  <2>1. OnTheWay(f, params, p, t, wire[p][t], buf[q][t],
                 HasReceived(f, params, q, pos[q], t), HasSent(f, params, p, pos[p], t))
    BY <1>1 DEF Way, q
  <2>2. HasSent(f, params, p, o, t) = HasSent(f, params, p, pos[p], t)
    OBVIOUS
  <2>3. wire'[p][t] = wire[p][t] /\ buf'[q][t] = buf[q][t]
    BY <1>2, <1>3
  <2> QED BY <2>1, <2>2, <2>3
<1>6. Honest' => Honest
  BY <1>3 DEF Honest, Apart
<1>7. faults' \in Nat
  BY <1>1, <1>3 DEF Tracked
<1>9. /\ \A t \in Stream : OnTheWay(f, params, p, t, wire'[p][t], buf'[Peer(p)][t],
                      HasReceived(f, params, Peer(p), pos[Peer(p)], t), HasSent(f, params, p, o, t))
      /\ \A t \in Stream : OnTheWay(f, params, Peer(p), t, wire'[Peer(p)][t], buf'[p][t],
                      HasReceived(f, params, p, o, t), HasSent(f, params, Peer(p), pos[Peer(p)], t))
  BY <1>4, <1>5 DEF q
<1>10. Honest' /\ st'[p].run = "done" => Ended(f[o.k])
  OBVIOUS
<1> QED BY <1>1, <1>3, <1>6, <1>7, <1>9, <1>10, Move

\* A frame that is pulled moves words, none of which is consumed.
LEMMA PullTracks ==
    ASSUME NEW f, NEW pos, NEW p, NEW k, NEW z, Following(f, pos, p, k, z), NEW s \in Stream,
           PullFrame(p, s)
    PROVE  LockInv'
<1> DEFINE q == Peer(p)
           o == pos[p]
<1>1. /\ \A u \in Party, t \in Stream :
                 /\ Way(f, pos, u, t)
                 /\ wire[u][t] \in Seq(Seq(Word)) /\ buf[u][t] \in Seq(Word)
                 /\ HasSent(f, params, u, pos[u], t) \in Int /\ HasReceived(f, params, u, pos[u], t) \in Int
      /\ buf \in [Party -> [Stream -> Seq(Word)]] /\ wire \in [Party -> [Stream -> Seq(Seq(Word))]]
      /\ p \in Party /\ q \in Party /\ q # p /\ Peer(q) = p
      /\ Tracks(f, pos) /\ Tracked
  BY WayHere
<1>2. /\ wire[q][s] # <<>> /\ buf' = [buf EXCEPT ![p][s] = @ \o Head(wire[q][s])]
      /\ wire' = [wire EXCEPT ![q][s] = Tail(@)]
      /\ UNCHANGED <<st, rest>> /\ st[p].run = "running"
  BY DEF PullFrame, Busy, Calling
<1> HIDE DEF q
<1>3. /\ buf'[p][s] = buf[p][s] \o Head(wire[q][s]) /\ \A t \in Stream \ {s} : buf'[p][t] = buf[p][t]
      /\ \A t \in Stream : buf'[q][t] = buf[q][t]
      /\ wire'[q][s] = Tail(wire[q][s]) /\ \A t \in Stream \ {s} : wire'[q][t] = wire[q][t]
      /\ \A t \in Stream : wire'[p][t] = wire[p][t]
  <2> DEFINE X == buf[p][s] \o Head(wire[q][s])
             Y == Tail(wire[q][s])
  <2>1. buf' = [buf EXCEPT ![p][s] = X] /\ wire' = [wire EXCEPT ![q][s] = Y]
    BY <1>2
  <2> HIDE DEF X, Y
  <2>2. buf'[p][s] = X /\ \A t \in Stream \ {s} : buf'[p][t] = buf[p][t]
    BY <2>1, <1>1
  <2>3. wire'[q][s] = Y /\ \A t \in Stream \ {s} : wire'[q][t] = wire[q][t]
    BY <2>1, <1>1
  <2>4. buf'[q] = buf[q] /\ wire'[p] = wire[p]
    BY <2>1, <1>1
  <2> QED BY <2>2, <2>3, <2>4 DEF X, Y
<1>4. ASSUME NEW t \in Stream
      PROVE  OnTheWay(f, params, q, t, wire'[q][t], buf'[p][t],
                      HasReceived(f, params, p, o, t), HasSent(f, params, q, pos[q], t))
  <2> DEFINE from == HasReceived(f, params, p, pos[p], t)
             to == HasSent(f, params, q, pos[q], t)
             W == wire[q][t]
             B == buf[p][t]
  <2>1. OnTheWay(f, params, q, t, W, B, from, to)
    BY <1>1 DEF Way
  <2>2. from \in Int /\ to \in Int /\ W \in Seq(Seq(Word)) /\ B \in Seq(Word)
    BY <1>1
  <2>3. CASE t = s
    <3>1. W # <<>> /\ wire'[q][t] = Tail(W) /\ buf'[p][t] = B \o Head(W)
      BY <2>3, <1>2, <1>3
    <3>2. HasReceived(f, params, p, o, t) = from /\ HasSent(f, params, q, pos[q], t) = to
      OBVIOUS
    <3> HIDE DEF from, to, W, B, o
    <3>3. OnTheWay(f, params, q, t, Tail(W), B \o Head(W), from, to)
      BY <2>1, <2>2, <3>1, WayPull
    <3> QED BY <3>1, <3>2, <3>3
  <2>4. CASE t # s
    <3>1. wire'[q][t] = W /\ buf'[p][t] = B
      BY <2>4, <1>3
    <3> QED BY <2>1, <3>1
  <2> QED BY <2>3, <2>4
<1>5. ASSUME NEW t \in Stream
      PROVE  OnTheWay(f, params, p, t, wire'[p][t], buf'[q][t],
                      HasReceived(f, params, q, pos[q], t), HasSent(f, params, p, o, t))
  <2>1. OnTheWay(f, params, p, t, wire[p][t], buf[q][t],
                 HasReceived(f, params, q, pos[q], t), HasSent(f, params, p, pos[p], t))
    BY <1>1 DEF Way, q
  <2>3. wire'[p][t] = wire[p][t] /\ buf'[q][t] = buf[q][t]
    BY <1>3
  <2> QED BY <2>1, <2>3
<1>6. UNCHANGED <<job, params>> /\ faults' = faults /\ st' = st
  BY <1>2 DEF rest
<1>7. Honest' => Honest
  BY <1>6 DEF Honest, Apart
<1>8. faults' \in Nat
  BY <1>1, <1>6 DEF Tracked
<1>9. /\ \A t \in Stream : OnTheWay(f, params, p, t, wire'[p][t], buf'[Peer(p)][t],
                      HasReceived(f, params, Peer(p), pos[Peer(p)], t), HasSent(f, params, p, o, t))
      /\ \A t \in Stream : OnTheWay(f, params, Peer(p), t, wire'[Peer(p)][t], buf'[p][t],
                      HasReceived(f, params, p, o, t), HasSent(f, params, Peer(p), pos[Peer(p)], t))
  BY <1>4, <1>5 DEF q
<1>10. st'[p].run \notin {"done", "failed"} /\ \A u \in Party \ {p} : st'[u] = st[u]
  BY <1>2, <1>6
<1>11. o \in Position /\ Placed(job, f, params, p, st'[p], o)
  BY <1>1, <1>6 DEF Tracks, Follows
<1> HIDE DEF o
<1>12. /\ Honest' /\ st'[p].run = "done" => Ended(f[o.k])
       /\ Honest' => st'[p].run # "failed"
  BY <1>10
<1> QED BY <1>1, <1>6, <1>7, <1>8, <1>9, <1>10, <1>11, <1>12, Move

-----------------------------------------------------------------------------
(* A party after a part of a message, and after a whole one.               *)

LEMMA SetPart ==
    ASSUME st \in [Party -> PartyRec], NEW p \in Party, NEW fs, NEW t,
           st' = [st EXCEPT ![p].fs = fs, ![p].todo = t]
    PROVE  /\ st'[p].fs = fs /\ st'[p].todo = t /\ st'[p].abit = st[p].abit
           /\ st'[p].got = st[p].got /\ st'[p].run = st[p].run
           /\ st'[p].minted = st[p].minted /\ st'[p].coins = st[p].coins
           /\ \A q \in Party \ {p} : st'[q] = st[q]
BY DEF PartyRec

LEMMA SetWhole ==
    ASSUME st \in [Party -> PartyRec], NEW p \in Party, NEW fs, NEW a, NEW t,
           st' = [st EXCEPT ![p].fs = fs, ![p].abit = a, ![p].todo = t]
    PROVE  /\ st'[p].fs = fs /\ st'[p].todo = t /\ st'[p].abit = a
           /\ st'[p].got = st[p].got /\ st'[p].run = st[p].run
           /\ st'[p].minted = st[p].minted /\ st'[p].coins = st[p].coins
           /\ \A q \in Party \ {p} : st'[q] = st[q]
BY DEF PartyRec

LEMMA SetHeard ==
    ASSUME st \in [Party -> PartyRec], NEW p \in Party, NEW fs, NEW a, NEW g, NEW t,
           st' = [st EXCEPT ![p].fs = fs, ![p].abit = a, ![p].got = g, ![p].todo = t]
    PROVE  /\ st'[p].fs = fs /\ st'[p].todo = t /\ st'[p].abit = a
           /\ st'[p].got = g /\ st'[p].run = st[p].run
           /\ st'[p].minted = st[p].minted /\ st'[p].coins = st[p].coins
           /\ \A q \in Party \ {p} : st'[q] = st[q]
BY DEF PartyRec

\* A party settles after a whole message, wherever that leaves its stack.
Settled(j, par, p, x, o, s, sent, recd) ==
    LET f == Run(j, par)
    IN  \E v \in Position :
           /\ Placed(j, f, par, p, x, v)
           /\ \A t \in Stream :
                 /\ HasSent(f, par, p, v, t) = HasSent(f, par, p, o, t) + (IF t = s THEN sent ELSE 0)
                 /\ HasReceived(f, par, p, v, t) = HasReceived(f, par, p, o, t) + (IF t = s THEN recd ELSE 0)
LEMMA SettleOnward ==
    ASSUME NEW j \in Jobs, NEW par \in [Party -> Param], NEW p \in Party, NEW o \in Position,
           NEW s \in Stream, NEW m, NEW n, NEW x,
           Settles(j, par, p, x, Onward(o, s)), OnwardWords(Run(j, par), par, p, o, s, m, n),
           NEW sent, NEW recd, sent = (IF Sender(m) = p THEN n ELSE 0),
           recd = (IF Sender(m) # p THEN n ELSE 0)
    PROVE  Settled(j, par, p, x, o, s, sent, recd)
<1> DEFINE f == Run(j, par)
<1>1. PICK v \in Position :
           /\ Placed(j, f, par, p, x, v)
           /\ \A t \in Stream : /\ HasSent(f, par, p, v, t) = HasSent(f, par, p, Onward(o, s), t)
                                /\ HasReceived(f, par, p, v, t) = HasReceived(f, par, p, Onward(o, s), t)
  BY Zenon DEF Settles
<1>2. \A t \in Stream :
       /\ HasSent(f, par, p, Onward(o, s), t) = HasSent(f, par, p, o, t)
                + (IF t = s /\ Sender(m) = p THEN n ELSE 0)
       /\ HasReceived(f, par, p, Onward(o, s), t) = HasReceived(f, par, p, o, t)
                + (IF t = s /\ Sender(m) # p THEN n ELSE 0)
  BY DEF OnwardWords
<1> HIDE DEF f
<1>3. ASSUME NEW t \in Stream
      PROVE  /\ HasSent(f, par, p, v, t) = HasSent(f, par, p, o, t) + (IF t = s THEN sent ELSE 0)
             /\ HasReceived(f, par, p, v, t) = HasReceived(f, par, p, o, t) + (IF t = s THEN recd ELSE 0)
  <2>1. (IF t = s /\ Sender(m) = p THEN n ELSE 0) = (IF t = s THEN sent ELSE 0)
    OBVIOUS
  <2>2. (IF t = s /\ Sender(m) # p THEN n ELSE 0) = (IF t = s THEN recd ELSE 0)
    OBVIOUS
  <2>3. /\ HasSent(f, par, p, v, t) = HasSent(f, par, p, Onward(o, s), t)
        /\ HasReceived(f, par, p, v, t) = HasReceived(f, par, p, Onward(o, s), t)
    BY <1>1
  <2>4. /\ HasSent(f, par, p, Onward(o, s), t) = HasSent(f, par, p, o, t)
                + (IF t = s /\ Sender(m) = p THEN n ELSE 0)
        /\ HasReceived(f, par, p, Onward(o, s), t) = HasReceived(f, par, p, o, t)
                + (IF t = s /\ Sender(m) # p THEN n ELSE 0)
    BY <1>2
  <2> QED BY <2>1, <2>2, <2>3, <2>4
<1>4. \A t \in Stream :
             /\ HasSent(f, par, p, v, t) = HasSent(f, par, p, o, t) + (IF t = s THEN sent ELSE 0)
             /\ HasReceived(f, par, p, v, t) = HasReceived(f, par, p, o, t) + (IF t = s THEN recd ELSE 0)
  BY <1>3
<1> QED BY <1>1, <1>4, Zenon DEF Settled, f

\* What is in hand when a party is at work on a message.
Working(f, pos, p, z, s, dir, m, e, L, op) ==
    /\ TypeOK /\ p \in Party /\ st \in [Party -> PartyRec] /\ pos[p] \in Position
    /\ f = Run(job, params) /\ job \in Jobs /\ params \in [Party -> Param] /\ z \in InLockstep(job, params)
    /\ Branching(Run(job, params), params, p, pos[p], z, L, s, m, e)
    /\ Agrees(Run(job, params), params, p, st[p], pos[p])
    /\ InMessage(params, z, p, L[s], pos[p], s, m, e) /\ z = f[pos[p].k]
    /\ op = L[s][1] /\ op \in Message /\ op.n \in Nat \ {0} /\ op.kind = m.kind /\ op.kind \in Kind
    /\ Sender(m) = p <=> dir = "send"
    /\ Past(p, s) = LET K == [L EXCEPT ![s] = Tail(@)]
                    IN  Join(K.main, K.sibling) \o Tail(z.todo[p])
    /\ \A n : Within(p, s, n) = <<[L EXCEPT ![s] = <<[op EXCEPT !.n = n]>> \o Tail(@)]>>
                                \o Tail(z.todo[p])
    /\ st[p].run = "running"

LEMMA WorkFacts ==
    ASSUME NEW f, NEW pos, NEW p, NEW k, NEW z, NEW s \in Stream, NEW dir, NEW m, NEW e,
           AtWork(f, pos, p, k, z, s, dir, m, e), NEW L, L = st[p].todo[1], NEW op, op = Op(p, s)
    PROVE  Working(f, pos, p, z, s, dir, m, e, L, op)
<1> SUFFICES
        /\ TypeOK /\ p \in Party /\ st \in [Party -> PartyRec] /\ pos[p] \in Position
        /\ f = Run(job, params) /\ job \in Jobs /\ params \in [Party -> Param] /\ z \in InLockstep(job, params)
        /\ Branching(Run(job, params), params, p, pos[p], z, L, s, m, e)
        /\ Agrees(Run(job, params), params, p, st[p], pos[p])
        /\ InMessage(params, z, p, L[s], pos[p], s, m, e) /\ z = f[pos[p].k]
        /\ op = L[s][1] /\ op \in Message /\ op.n \in Nat \ {0} /\ op.kind = m.kind /\ op.kind \in Kind
        /\ Sender(m) = p <=> dir = "send"
        /\ Past(p, s) = LET K == [L EXCEPT ![s] = Tail(@)]
                        IN  Join(K.main, K.sibling) \o Tail(z.todo[p])
        /\ \A n : Within(p, s, n) = <<[L EXCEPT ![s] = <<[op EXCEPT !.n = n]>> \o Tail(@)]>>
                                    \o Tail(z.todo[p])
        /\ st[p].run = "running"
  BY Zenon DEF Working
<1>1. /\ TypeOK /\ p \in Party
      /\ pos[p] \in Position /\ f = Run(job, params)
      /\ job \in Jobs /\ params \in [Party -> Param] /\ z \in InLockstep(job, params)
      /\ Branching(Run(job, params), params, p, pos[p], z, L, s, m, e)
      /\ Agrees(Run(job, params), params, p, st[p], pos[p])
      /\ op = L[s][1] /\ op \in Message
      /\ Sender(m) = p <=> dir = "send"
      /\ op.kind = m.kind
      /\ Tail(st[p].todo) = Tail(z.todo[p]) /\ Head(st[p].todo) = L
      /\ st[p].run = "running"
  BY DEF AtWork
<1>2. st \in [Party -> PartyRec]
  BY <1>1 DEF TypeOK
<1>3. op.n \in Nat \ {0} /\ op.kind \in Kind
  BY <1>1 DEF Message
<1>4. InMessage(params, z, p, L[s], pos[p], s, m, e) /\ z = f[pos[p].k]
  BY <1>1 DEF Branching
<1>5. Past(p, s) = LET K == [L EXCEPT ![s] = Tail(@)]
                   IN  Join(K.main, K.sibling) \o Tail(z.todo[p])
  BY <1>1 DEF Past
<1>6. \A n : Within(p, s, n) = <<[L EXCEPT ![s] = <<[op EXCEPT !.n = n]>> \o Tail(@)]>> \o Tail(z.todo[p])
  BY <1>1 DEF Within
<1> QED BY <1>1, <1>2, <1>3, <1>4, <1>5, <1>6

\* What a message sent or received whole leaves of the party that was at work
\* on it.
WholeStep(j, par, p, o, z, L, s, m, e, r, n, x, K) ==
    /\ j \in Jobs /\ par \in [Party -> Param] /\ p \in Party /\ o \in Position /\ s \in Stream
    /\ Branching(Run(j, par), par, p, o, z, L, s, m, e)
    /\ Agrees(Run(j, par), par, p, r, o) /\ n = L[s][1].n
    /\ MovedRest(par, z, p, s, m, e, n, r, x)
    /\ K = [L EXCEPT ![s] = Tail(@)]
    /\ x.todo = Join(K.main, K.sibling) \o Tail(z.todo[p])

\* The party is past the message then.
LEMMA WholeStepped ==
    ASSUME NEW j, NEW par, NEW p, NEW o, NEW z, NEW L, NEW s, NEW m, NEW e, NEW r, NEW n, NEW x,
           NEW K, WholeStep(j, par, p, o, z, L, s, m, e, r, n, x, K),
           NEW sent, NEW recd, sent = (IF Sender(m) = p THEN n ELSE 0),
           recd = (IF Sender(m) # p THEN n ELSE 0)
    PROVE  Settled(j, par, p, x, o, s, sent, recd)
<1>1. /\ j \in Jobs /\ par \in [Party -> Param] /\ p \in Party /\ o \in Position /\ s \in Stream
      /\ Branching(Run(j, par), par, p, o, z, L, s, m, e) /\ n = L[s][1].n
  BY DEF WholeStep
<1>2. Settles(j, par, p, x, Onward(o, s))
  BY StepOnward DEF WholeStep
<1>3. OnwardWords(Run(j, par), par, p, o, s, m, n)
  BY <1>1, OnwardMoves
<1> QED BY <1>1, <1>2, <1>3, SettleOnward

-----------------------------------------------------------------------------
(* A party sends.                                                          *)

\* A frame a party sends carries words of the run, whatever the frame size.
LEMMA SendTracks ==
    ASSUME NEW f, NEW pos, NEW p, NEW k, NEW z, Following(f, pos, p, k, z), NEW s \in Stream,
           SendData(p, s)
    PROVE  LockInv'
<1> DEFINE m == Messages1(z, s)[pos[p].i[s] + 1]
           e == Branch(params, z, s)[pos[p].i[s]]
           L == st[p].todo[1]
           op == Op(p, s)
           n == Smaller(op.n, FrameWords)
           fs == Moved(p, s, "send", n)
           a == Absorbed(p, s, op.kind, fs)
           w == [kind |-> op.kind, val |-> Payload(p, op.kind)]
           F == [i \in 1..n |-> w]
<1>1. Busy(p, s, "send") /\ UNCHANGED <<buf, rest>> /\ wire' = [wire EXCEPT ![p][s] = Append(@, F)]
      /\ st' = IF op.n > n
                    THEN [st EXCEPT ![p].fs = fs, ![p].todo = Within(p, s, op.n - n)]
                    ELSE [st EXCEPT ![p].fs = fs, ![p].abit = a, ![p].todo = Past(p, s)]
  BY DEF SendData
<1>2. AtWork(f, pos, p, k, z, s, "send", m, e)
  <2>1. ~Idle(job, f, p, st[p], pos[p])
    <3> SUFFICES ASSUME Idle(job, f, p, st[p], pos[p]) PROVE FALSE
      OBVIOUS
    <3>1. "send" = "recv"
      BY <1>1, IdleOp
    <3> QED BY <3>1
  <2> QED BY <1>1, <2>1, AtWorkHere
<1>3. Payload(p, m.kind) = Carries(params, z.coins, e, p, m.kind)
  <2> HIDE DEF m, e
  <2> QED BY <1>2, Spoken
<1> HIDE DEF m, e
<1>30. L = st[p].todo[1] /\ op = Op(p, s)
  OBVIOUS
<1> HIDE DEF L, op
<1>4. Working(f, pos, p, z, s, "send", m, e, L, op)
  BY <1>2, <1>30, WorkFacts
<1>20. TypeOK /\ p \in Party /\ st \in [Party -> PartyRec] /\ pos[p] \in Position
  BY <1>4 DEF Working
<1>21. f = Run(job, params) /\ job \in Jobs /\ params \in [Party -> Param] /\ z = f[pos[p].k]
  BY <1>4 DEF Working
<1>22. Branching(Run(job, params), params, p, pos[p], z, L, s, m, e)
       /\ Agrees(Run(job, params), params, p, st[p], pos[p])
  BY <1>4 DEF Working
<1>23. InMessage(params, z, p, L[s], pos[p], s, m, e) /\ Sender(m) = p
  BY <1>4 DEF Working
<1>24. op = L[s][1] /\ op.n \in Nat \ {0} /\ op.kind = m.kind /\ op.kind \in Kind
  BY <1>4 DEF Working
<1>25. Past(p, s) = LET K == [L EXCEPT ![s] = Tail(@)]
                      IN  Join(K.main, K.sibling) \o Tail(z.todo[p])
  BY <1>4 DEF Working
<1>26. \A c : Within(p, s, c) = <<[L EXCEPT ![s] = <<[op EXCEPT !.n = c]>> \o Tail(@)]>>
                                  \o Tail(z.todo[p])
  BY <1>4 DEF Working
<1>27. st[p].run = "running"
  BY <1>4 DEF Working
<1>5. n \in Nat \ {0} /\ n <= op.n
  <2>1. FrameWords \in Nat \ {0}
    BY Sizes
  <2> QED BY <2>1, <1>24 DEF Smaller
<1> HIDE DEF n
<1>6. fs \in [Stream -> FsRec] /\ fs[s] = MovedOf(st[p].fs[s], TRUE, n) /\ \A t \in Stream \ {s} : fs[t] = st[p].fs[t]
  <2>1. n \in Int /\ "send" \in {"send", "recv"} /\ ("send" = "send") = TRUE
    BY <1>5
  <2>2. fs \in [Stream -> FsRec] /\ fs[s] = MovedOf(st[p].fs[s], "send" = "send", n)
        /\ \A t \in Stream \ {s} : fs[t] = st[p].fs[t]
    <3> HIDE DEF fs
    <3>1. fs = Moved(p, s, "send", n)
      BY DEF fs
    <3> QED BY <2>1, <3>1, <1>20, MovedIs
  <2> QED BY <2>1, <2>2
<1> HIDE DEF fs
<1>7. F \in Seq(Word) /\ Len(F) = n /\ \A i \in 1..n : F[i] = w
  <2>1. w \in Word
    BY <1>20, <1>24, Payloads DEF Word
  <2> HIDE DEF w
  <2> QED BY <2>1, <1>5
<1>8. w = [kind |-> m.kind, val |-> Carries(params, z.coins, e, p, m.kind)]
  BY <1>3, <1>24
<1> HIDE DEF w, F
<1>9. \A i \in 1..Len(F) : Sent(f, params, p, s, HasSent(f, params, p, pos[p], s) + i, F[i])
  <2> SUFFICES ASSUME NEW i \in 1..n PROVE Sent(f, params, p, s, HasSent(f, params, p, pos[p], s) + i, w)
    BY <1>7
  <2> DEFINE R == L[s]
             o == pos[p]
  <2>1. R[1].n = op.n /\ InMessage(params, z, p, R, o, s, m, e) /\ Sender(m) = p
        /\ p \in Party /\ o \in Position /\ z = f[o.k]
    BY <1>20, <1>21, <1>23, <1>24
  <2>2. i \in 1..op.n
    BY <1>5, <1>24
  <2>5. HasSent(f, params, p, o, s) = HasSent(f, params, p, pos[p], s)
    OBVIOUS
  <2> HIDE DEF R, o
  <2>3. i \in 1..R[1].n
    BY <2>1, <2>2
  <2>4. Sent(f, params, p, s, HasSent(f, params, p, o, s) + i,
             [kind |-> m.kind, val |-> Carries(params, z.coins, e, p, m.kind)])
    BY <2>1, <2>3, SentHere
  <2> QED BY <2>4, <2>5, <1>8
<1>10. CASE op.n > n
  <2> DEFINE R == <<[L[s][1] EXCEPT !.n = L[s][1].n - n]>> \o Tail(L[s])
             K == [L EXCEPT ![s] = R]
             T == Within(p, s, op.n - n)
  <2>1. T = <<K>> \o Tail(z.todo[p])
    BY <1>24, <1>26
  <2>9. R = <<[L[s][1] EXCEPT !.n = L[s][1].n - n]>> \o Tail(L[s]) /\ K = [L EXCEPT ![s] = R]
    OBVIOUS
  <2> HIDE DEF R, K
  <2>2. st' = [st EXCEPT ![p].fs = fs, ![p].todo = T]
    BY <1>1, <1>10
  <2> HIDE DEF T
  <2>3. /\ st'[p].fs = fs /\ st'[p].todo = T /\ st'[p].abit = st[p].abit
        /\ st'[p].got = st[p].got /\ st'[p].run = st[p].run
        /\ st'[p].minted = st[p].minted /\ st'[p].coins = st[p].coins
        /\ \A q \in Party \ {p} : st'[q] = st[q]
    BY <2>2, <1>20, SetPart
  <2>4. FurtherOn(job, params, p, st'[p], pos[p], s, n)
    <3>1. n < L[s][1].n /\ n \in Nat
      BY <1>5, <1>10, <1>24
    <3>2. st'[p].todo = <<K>> \o Tail(z.todo[p])
      BY <2>1, <2>3
    <3>3. st'[p].fs[s] = MovedOf(st[p].fs[s], TRUE, n) /\ \A t \in Stream \ {s} : st'[p].fs[t] = st[p].fs[t]
      BY <2>3, <1>6
    <3>4. PartStep(job, params, p, pos[p], z, L, s, m, e, st[p], n, st'[p], R, K)
      BY <3>1, <3>2, <3>3, <2>9, <2>3, <1>20, <1>21, <1>22, <1>23 DEF PartStep, Shortened
    <3> QED BY <3>4, StepFurther
  <2> DEFINE v == Further(pos[p], s, n)
  <2>5. /\ v \in Position /\ Placed(job, Run(job, params), params, p, st'[p], v)
        /\ \A t \in Stream :
             /\ HasSent(Run(job, params), params, p, v, t) = HasSent(Run(job, params), params, p, pos[p], t) + (IF t = s THEN n ELSE 0)
             /\ HasReceived(Run(job, params), params, p, v, t) = HasReceived(Run(job, params), params, p, pos[p], t)
    BY <2>4, Zenon DEF FurtherOn
  <2> HIDE DEF v
  <2>6. GoesOut(f, pos, p, s, v, F)
    <3>1. \A t \in Stream :
             /\ HasSent(f, params, p, v, t) = HasSent(f, params, p, pos[p], t) + (IF t = s THEN Len(F) ELSE 0)
             /\ HasReceived(f, params, p, v, t) = HasReceived(f, params, p, pos[p], t)
      BY <2>5, <1>7, <1>21
    <3>2. st'[p].run = "running" /\ Placed(job, f, params, p, st'[p], v)
      BY <2>3, <2>5, <1>21, <1>27
    <3>3. v \in Position /\ \A q \in Party \ {p} : st'[q] = st[q]
      BY <2>3, <2>5
    <3>4. wire' = [wire EXCEPT ![p][s] = Append(@, F)] /\ UNCHANGED <<buf, rest>>
      BY <1>1
    <3>5. F \in Seq(Word)
      BY <1>7
    <3> QED BY <3>1, <3>2, <3>3, <3>4, <3>5, <1>9, Zenon DEF GoesOut
  <2> QED BY <2>6, MovesOut
<1>11. CASE ~(op.n > n)
  <2> DEFINE K == [L EXCEPT ![s] = Tail(@)]
             T == Past(p, s)
  <2>1. T = Join(K.main, K.sibling) \o Tail(z.todo[p])
    BY <1>25
  <2>8. K = [L EXCEPT ![s] = Tail(@)]
    OBVIOUS
  <2>2. st' = [st EXCEPT ![p].fs = fs, ![p].abit = a, ![p].todo = T]
    BY <1>1, <1>11
  <2>12. a = Absorbed(p, s, m.kind, fs)
    BY <1>24
  <2> HIDE DEF K, T, a
  <2>3. /\ st'[p].fs = fs /\ st'[p].todo = T /\ st'[p].abit = a
        /\ st'[p].got = st[p].got /\ st'[p].run = st[p].run
        /\ st'[p].minted = st[p].minted /\ st'[p].coins = st[p].coins
        /\ \A q \in Party \ {p} : st'[q] = st[q]
    BY <2>2, <1>20, SetWhole
  <2>4. n = L[s][1].n
    BY <1>24, <1>5, <1>11
  <2>5. /\ a[AbitOf(p, s)] = IF m.kind = "d"
                  THEN [st[p].abit[AbitOf(p, s)] EXCEPT !.check = Append(@, GetDigest(fs[s]))]
                  ELSE st[p].abit[AbitOf(p, s)]
        /\ \A t \in Stream \ {s} : a[AbitOf(p, t)] = st[p].abit[AbitOf(p, t)]
    <3>1. fs \in [Stream -> FsRec]
      BY <1>6
    <3>2. Absorbs(p, s, m.kind, fs, a)
      BY <3>1, <2>12, <1>20, AbsorbedIs
    <3> QED BY <3>2, Zenon DEF Absorbs
  <2>6. MovedRest(params, z, p, s, m, e, n, st[p], st'[p])
    <3>1. st'[p].fs[s] = MovedOf(st[p].fs[s], Sender(m) = p, n)
      <4>1. (Sender(m) = p) = TRUE
        BY <1>23
      <4> QED BY <4>1, <2>3, <1>6
    <3>2. st'[p].got = IF m.kind \in {"circuit", "target"} /\ Sender(m) # p
               THEN Carries(params, z.coins, e, Peer(p), m.kind) ELSE st[p].got
      BY <2>3, <1>23
    <3>3. /\ st'[p].abit[AbitOf(p, s)] = IF m.kind = "d"
                  THEN [st[p].abit[AbitOf(p, s)] EXCEPT !.check = Append(@, GetDigest(st'[p].fs[s]))]
                  ELSE st[p].abit[AbitOf(p, s)]
          /\ \A t \in Stream \ {s} : st'[p].fs[t] = st[p].fs[t] /\ st'[p].abit[AbitOf(p, t)] = st[p].abit[AbitOf(p, t)]
      BY <2>3, <2>5, <1>6
    <3> QED BY <3>1, <3>2, <3>3, <2>3, Zenon DEF MovedRest
  <2>7. WholeStep(job, params, p, pos[p], z, L, s, m, e, st[p], n, st'[p], K)
    <3>1. st'[p].todo = Join(K.main, K.sibling) \o Tail(z.todo[p])
      BY <2>1, <2>3
    <3> QED BY <3>1, <2>4, <2>6, <2>8, <1>20, <1>21, <1>22, Zenon DEF WholeStep
  <2>10. Settled(job, params, p, st'[p], pos[p], s, n, 0)
    <3>1. n = (IF Sender(m) = p THEN n ELSE 0) /\ 0 = (IF Sender(m) # p THEN n ELSE 0)
      BY <1>23
    <3> QED BY <3>1, <2>7, WholeStepped
  <2>11. PICK v \in Position :
           /\ Placed(job, Run(job, params), params, p, st'[p], v)
           /\ \A t \in Stream :
                 /\ HasSent(Run(job, params), params, p, v, t) = HasSent(Run(job, params), params, p, pos[p], t) + (IF t = s THEN n ELSE 0)
                 /\ HasReceived(Run(job, params), params, p, v, t) = HasReceived(Run(job, params), params, p, pos[p], t) + (IF t = s THEN 0 ELSE 0)
    BY <2>10, Zenon DEF Settled
  <2>6a. GoesOut(f, pos, p, s, v, F)
    <3>1. ASSUME NEW t \in Stream
          PROVE
             /\ HasSent(f, params, p, v, t) = HasSent(f, params, p, pos[p], t) + (IF t = s THEN Len(F) ELSE 0)
             /\ HasReceived(f, params, p, v, t) = HasReceived(f, params, p, pos[p], t)
      <4>1. HasReceived(f, params, p, pos[p], t) \in Int
        BY WayHere
      <4>2. HasReceived(f, params, p, v, t) = HasReceived(f, params, p, pos[p], t) + 0
        BY <2>11, <1>21
      <4> QED BY <4>1, <4>2, <2>11, <1>7, <1>21
    <3>2. st'[p].run = "running" /\ Placed(job, f, params, p, st'[p], v)
      BY <2>3, <2>11, <1>21, <1>27
    <3>3. v \in Position /\ \A q \in Party \ {p} : st'[q] = st[q]
      BY <2>3
    <3>4. wire' = [wire EXCEPT ![p][s] = Append(@, F)] /\ UNCHANGED <<buf, rest>>
      BY <1>1
    <3>5. F \in Seq(Word)
      BY <1>7
    <3> QED BY <3>1, <3>2, <3>3, <3>4, <3>5, <1>9, Zenon DEF GoesOut
  <2> QED BY <2>6a, MovesOut
<1> QED BY <1>10, <1>11

-----------------------------------------------------------------------------
(* Parties at the end of the run.                                          *)

\* The totals of the run, as numbers that only grow.
LEMMA TotalsGrow ==
    ASSUME NEW j \in Jobs, NEW par \in [Party -> Param], NEW s \in Stream, NEW p \in Party,
           NEW k \in Nat, NEW l \in Nat
    PROVE  /\ Run(j, par)[k].str[s].tot[p] \in Int
           /\ k <= l => Run(j, par)[k].str[s].tot[p] <= Run(j, par)[l].str[s].tot[p]
           /\ Ended(Run(j, par)[k]) => Run(j, par)[l].str[s].tot[p] <= Run(j, par)[k].str[s].tot[p]
<1> DEFINE f == Run(j, par)
<1>1. \A n \in Nat : f[n].str[s].tot[p] \in Int
  <2> SUFFICES ASSUME NEW n \in Nat PROVE f[n].str[s].tot[p] \in Int
    OBVIOUS
  <2>1. f[n] \in InLockstep(j, par)
    BY RunStep
  <2> HIDE DEF f
  <2> QED BY <2>1, Totals
<1>2. /\ k <= l => f[k].str[s].tot[p] <= f[l].str[s].tot[p]
      /\ k <= l /\ Ended(f[k]) => f[l] = f[k]
  BY RunGrows
<1>3. l <= k => f[l].str[s].tot[p] <= f[k].str[s].tot[p]
  BY RunGrows
<1> HIDE DEF f
<1>4. Ended(f[k]) => f[l].str[s].tot[p] <= f[k].str[s].tot[p]
  <2> SUFFICES ASSUME Ended(f[k]) PROVE f[l].str[s].tot[p] <= f[k].str[s].tot[p]
    OBVIOUS
  <2>1. CASE k <= l
    <3>1. f[l] = f[k]
      BY <2>1, <1>2
    <3>2. f[k].str[s].tot[p] \in Int
      BY <1>1
    <3> QED BY <3>1, <3>2
  <2>2. CASE l <= k
    BY <2>2, <1>3
  <2> QED BY <2>1, <2>2
<1> QED BY <1>1, <1>2, <1>4 DEF f

\* A party whose run has ended has received all there is to receive.
LEMMA EndedHears ==
    ASSUME NEW j \in Jobs, NEW par \in [Party -> Param], NEW p \in Party,
           NEW o \in Position, Valid(Run(j, par), p, o), Ended(Run(j, par)[o.k]),
           NEW v \in Position, Valid(Run(j, par), Peer(p), v), NEW s \in Stream
    PROVE  HasSent(Run(j, par), par, Peer(p), v, s) <= HasReceived(Run(j, par), par, p, o, s)
<1> DEFINE f == Run(j, par)
           q == Peer(p)
           sent == HasSent(f, par, q, v, s)
           recd == HasReceived(f, par, p, o, s)
           low == f[o.k].str[s].tot[q]
           high == f[v.k + 1].str[s].tot[q]
<1>1. q \in Party /\ o.k \in Nat /\ v.k + 1 \in Nat
  BY TwoParties DEF Position
<1>2. SentWithin(j, par, p, o, s) /\ SentWithin(j, par, q, v, s)
  BY <1>1, SentBounded
<1>3. recd \in Int /\ recd >= low
  BY <1>2, Zenon DEF SentWithin
<1>4. sent \in Int /\ sent <= high
  BY <1>2, Zenon DEF SentWithin
<1>5. high \in Int /\ low \in Int
  BY <1>1, TotalsGrow
<1>6. high <= low
  BY <1>1, TotalsGrow
<1> HIDE DEF sent, recd, low, high
<1>7. sent <= recd
  BY <1>3, <1>4, <1>5, <1>6
<1> QED BY <1>7 DEF sent, recd

\* A party whose run has ended has sent all that its peer can ask for.
LEMMA EndedSpoke ==
    ASSUME NEW j \in Jobs, NEW par \in [Party -> Param], NEW p \in Party,
           NEW o \in Position, Valid(Run(j, par), p, o), Ended(Run(j, par)[o.k]),
           NEW v \in Position, Valid(Run(j, par), Peer(p), v), NEW s \in Stream
    PROVE  HasReceived(Run(j, par), par, Peer(p), v, s) <= HasSent(Run(j, par), par, p, o, s)
<1> DEFINE f == Run(j, par)
           q == Peer(p)
           sent == HasSent(f, par, p, o, s)
           recd == HasReceived(f, par, q, v, s)
           low == f[o.k].str[s].tot[p]
           high == f[v.k + 1].str[s].tot[p]
<1>1. q \in Party /\ Peer(q) = p /\ o.k \in Nat /\ v.k + 1 \in Nat
  BY TwoParties DEF Position
<1>2. SentWithin(j, par, p, o, s) /\ SentWithin(j, par, q, v, s)
  BY <1>1, SentBounded
<1>3. sent \in Int /\ low <= sent
  BY <1>2, Zenon DEF SentWithin
<1>4. recd \in Int /\ recd <= high
  <2>1. recd \in Int /\ recd <= f[v.k + 1].str[s].tot[Peer(q)]
    BY <1>2, Zenon DEF SentWithin
  <2> QED BY <2>1, <1>1
<1>5. high \in Int /\ low \in Int
  BY <1>1, TotalsGrow
<1>6. high <= low
  BY <1>1, TotalsGrow
<1> HIDE DEF sent, recd, low, high
<1>7. recd <= sent
  BY <1>3, <1>4, <1>5, <1>6
<1> QED BY <1>7 DEF sent, recd

\* What is on the way is bounded by the two counts.
LEMMA WayLength ==
    ASSUME NEW f, NEW par, NEW p, NEW s, NEW W, NEW B \in Seq(Word), NEW from \in Int, NEW to \in Int,
           OnTheWay(f, par, p, s, W, B, from, to)
    PROVE  from + Len(B) <= to /\ (W = <<>> => from + Len(B) = to)
<1>1. PICK off \in [0..Len(W) -> Int] :
          off[0] = from + Len(B) /\ off[Len(W)] = to /\ from + Len(B) <= to
  BY DEF OnTheWay
<1>2. W = <<>> => Len(W) = 0
  OBVIOUS
<1> QED BY <1>1, <1>2

\* The buffers of a party whose run has ended are empty.
LEMMA IdleQuiet ==
    ASSUME NEW f, NEW pos, NEW p, NEW k, NEW z, Following(f, pos, p, k, z), Ended(f[pos[p].k]),
           NEW s \in Stream
    PROVE  Len(buf[p][s]) = 0
<1> DEFINE q == Peer(p)
           B == buf[p][s]
           from == HasReceived(f, params, p, pos[p], s)
           to == HasSent(f, params, q, pos[q], s)
           W == wire[q][s]
<1>1. p \in Party /\ q \in Party /\ Peer(q) = p /\ Tracks(f, pos) /\ TypeOK
  BY WayHere
<1>2. Way(f, pos, q, s) /\ B \in Seq(Word) /\ from \in Int /\ to \in Int
  BY <1>1, WayHere
<1>3. OnTheWay(f, params, q, s, W, B, from, to)
  BY <1>1, <1>2 DEF Way
<1>4. f = Run(job, params) /\ job \in Jobs /\ params \in [Party -> Param]
      /\ pos[p] \in Position /\ pos[q] \in Position /\ Valid(f, p, pos[p]) /\ Valid(f, q, pos[q])
  BY <1>1 DEF Tracks, Follows, Placed, TypeOK
<1>5. to <= from
  BY <1>1, <1>4, EndedHears
<1> HIDE DEF q, B, from, to, W
<1>6. from + Len(B) <= to
  BY <1>2, <1>3, WayLength
<1>7. Len(B) \in Nat
  BY <1>2
<1>8. Len(B) = 0
  BY <1>2, <1>5, <1>6, <1>7
<1> QED BY <1>8 DEF B

-----------------------------------------------------------------------------
(* A party receives.                                                       *)

\* The words at hand are those of the message the party waits for.
LEMMA AtHand ==
    ASSUME NEW f, NEW pos, NEW p, NEW k, NEW z, Following(f, pos, p, k, z), NEW s \in Stream,
           NEW m, NEW e, NEW L, NEW op, Working(f, pos, p, z, s, "recv", m, e, L, op),
           NEW i \in 1..op.n, i <= Len(buf[p][s])
    PROVE  buf[p][s][i] = Due(params, z, e, p, m)
<1> DEFINE q == Peer(p)
           B == buf[p][s]
           R == L[s]
           o == pos[p]
           w == B[i]
           from == HasReceived(f, params, p, o, s)
<1>1. /\ p \in Party /\ o \in Position
      /\ f = Run(job, params) /\ job \in Jobs /\ params \in [Party -> Param]
      /\ InMessage(params, z, p, R, o, s, m, e) /\ z = f[o.k]
      /\ op = L[s][1] /\ op.n \in Nat \ {0}
  BY DEF Working
<1>2. Sender(m) # p
  <2>1. Sender(m) = p <=> "recv" = "send"
    BY DEF Working
  <2> QED BY <2>1
<1>3. q \in Party /\ Peer(q) = p /\ Way(f, pos, q, s) /\ B \in Seq(Word)
  BY WayHere
<1>4. OnTheWay(f, params, q, s, wire[q][s], B, from, HasSent(f, params, q, pos[q], s))
  BY <1>3 DEF Way
<1>5. i \in 1..Len(B)
  BY <1>1, <1>3
<1>6. Sent(f, params, q, s, from + i, w)
  BY <1>4, <1>5 DEF OnTheWay
<1>7. i \in 1..R[1].n
  BY <1>1
<1>8. z = Run(job, params)[o.k]
  BY <1>1
<1>9. Sent(Run(job, params), params, Peer(p), s, HasReceived(Run(job, params), params, p, o, s) + i, w)
  BY <1>1, <1>6
<1> HIDE DEF w, R, o
<1>11. job \in Jobs /\ params \in [Party -> Param] /\ p \in Party /\ o \in Position
  BY <1>1
<1>12. InMessage(params, z, p, R, o, s, m, e)
  BY <1>1
<1>10. w = Due(params, z, e, p, m)
  <2>1. s \in Stream
    OBVIOUS
  <2>2. HearsOf(job, params, p, o, z, s, R, m, e, i, w)
    BY <2>1, <1>2, <1>7, <1>8, <1>9, <1>11, <1>12, Zenon DEF HearsOf
  <2> QED BY <2>2, ReceivedHere
<1> QED BY <1>10 DEF w

\* Where a party is after a failure.
LEMMA SetFailed ==
    ASSUME st \in [Party -> PartyRec], NEW p \in Party, st' = Fails(p)
    PROVE  /\ st'[p].run = "failed" /\ \A q \in Party \ {p} : st'[q] = st[q]
<1>1. st' = [st EXCEPT ![p] = [st[p] EXCEPT !.run = "failed", !.todo = <<>>]]
  BY DEF Fails
<1>2. st'[p] = [st[p] EXCEPT !.run = "failed", !.todo = <<>>]
  BY <1>1
<1>3. st[p] = [st[p] EXCEPT !.run = st[p].run]
  BY DEF PartyRec
<1> QED BY <1>1, <1>2 DEF PartyRec

\* A party that consumes the words it waits for finds in them what the run says,
\* and rejects them only when the parties are configured apart.
LEMMA RecvTracks ==
    ASSUME NEW f, NEW pos, NEW p, NEW k, NEW z, Following(f, pos, p, k, z), NEW s \in Stream,
           RecvData(p, s)
    PROVE  LockInv'
<1> DEFINE m == Messages1(z, s)[pos[p].i[s] + 1]
           e == Branch(params, z, s)[pos[p].i[s]]
           L == st[p].todo[1]
           op == Op(p, s)
           B == buf[p][s]
           last == B[op.n]
           n == op.n
           fs == Moved(p, s, "recv", n)
           a == Absorbed(p, s, op.kind, fs)
           g == IF op.kind \in {"circuit", "target"} THEN last.val ELSE st[p].got
           w == [kind |-> m.kind, val |-> Carries(params, z.coins, e, Peer(p), m.kind)]
<1>1. Busy(p, s, "recv") /\ UNCHANGED <<wire, rest>> /\ buf' = [buf EXCEPT ![p][s] = SubSeq(@, n + 1, Len(@))]
      /\ n <= Len(B)
  BY DEF RecvData
<1>1a. st' = IF Accepts(p, op.kind, last)
             THEN [st EXCEPT ![p].fs = fs, ![p].abit = a, ![p].got = g, ![p].todo = Past(p, s)]
             ELSE Fails(p)
  BY DEF RecvData
<1>2. AtWork(f, pos, p, k, z, s, "recv", m, e)
  <2>1. ~Idle(job, f, p, st[p], pos[p])
    <3> SUFFICES ASSUME Idle(job, f, p, st[p], pos[p]) PROVE FALSE
      OBVIOUS
    <3>1. Op(p, s) = Recv("target", 1) /\ Ended(f[pos[p].k])
      BY <1>1, IdleOp
    <3>2. n = 1
      BY <3>1 DEF Recv
    <3>3. Len(B) = 0
      BY <3>1, IdleQuiet
    <3> QED BY <3>2, <3>3, <1>1
  <2> QED BY <1>1, <2>1, AtWorkHere
<1> HIDE DEF m, e
<1>30. L = st[p].todo[1] /\ op = Op(p, s)
  OBVIOUS
<1> HIDE DEF L, op
<1>4. Working(f, pos, p, z, s, "recv", m, e, L, op)
  BY <1>2, <1>30, WorkFacts
<1>20. TypeOK /\ p \in Party /\ st \in [Party -> PartyRec] /\ pos[p] \in Position
  BY <1>4 DEF Working
<1>21. f = Run(job, params) /\ job \in Jobs /\ params \in [Party -> Param] /\ z = f[pos[p].k]
  BY <1>4 DEF Working
<1>22. Branching(Run(job, params), params, p, pos[p], z, L, s, m, e)
       /\ Agrees(Run(job, params), params, p, st[p], pos[p])
  BY <1>4 DEF Working
<1>23. Sender(m) # p
  <2>1. Sender(m) = p <=> "recv" = "send"
    BY <1>4 DEF Working
  <2> QED BY <2>1
<1>24. op = L[s][1] /\ op.n \in Nat \ {0} /\ op.kind = m.kind /\ op.kind \in Kind
  BY <1>4 DEF Working
<1>25. Past(p, s) = LET K == [L EXCEPT ![s] = Tail(@)]
                      IN  Join(K.main, K.sibling) \o Tail(z.todo[p])
  BY <1>4 DEF Working
<1>27. st[p].run = "running"
  BY <1>4 DEF Working
<1>5. n \in Nat \ {0} /\ n = L[s][1].n
  BY <1>24
<1>31. last = w
  <2>1. n \in 1..op.n /\ n <= Len(buf[p][s])
    BY <1>1, <1>5
  <2> HIDE DEF n
  <2>2. buf[p][s][n] = Due(params, z, e, p, m)
    BY <1>4, <2>1, AtHand
  <2> QED BY <2>2 DEF n, Due
<1> HIDE DEF n, B
<1>32. OnwardWords(Run(job, params), params, p, pos[p], s, m, n)
  <2>1. OnwardWords(Run(job, params), params, p, pos[p], s, m, L[s][1].n)
    BY <1>20, <1>21, <1>22, OnwardMoves
  <2> QED BY <2>1, <1>5
<1>33. n <= Len(buf[p][s])
  BY <1>1 DEF B
<1>6. fs \in [Stream -> FsRec] /\ fs[s] = MovedOf(st[p].fs[s], FALSE, n) /\ \A t \in Stream \ {s} : fs[t] = st[p].fs[t]
  <2>1. n \in Int /\ "recv" \in {"send", "recv"} /\ ("recv" = "send") = FALSE
    BY <1>5
  <2>2. fs \in [Stream -> FsRec] /\ fs[s] = MovedOf(st[p].fs[s], "recv" = "send", n)
        /\ \A t \in Stream \ {s} : fs[t] = st[p].fs[t]
    <3> HIDE DEF fs
    <3>1. fs = Moved(p, s, "recv", n)
      BY DEF fs
    <3> QED BY <2>1, <3>1, <1>20, MovedIs
  <2> QED BY <2>1, <2>2
<1> HIDE DEF fs, w
<1>11. CASE Accepts(p, op.kind, last)
  <2> DEFINE K == [L EXCEPT ![s] = Tail(@)]
             T == Past(p, s)
  <2>1. T = Join(K.main, K.sibling) \o Tail(z.todo[p])
    BY <1>25
  <2>8. K = [L EXCEPT ![s] = Tail(@)]
    OBVIOUS
  <2>2. st' = [st EXCEPT ![p].fs = fs, ![p].abit = a, ![p].got = g, ![p].todo = T]
    BY <1>1a, <1>11
  <2>12. a = Absorbed(p, s, m.kind, fs)
    BY <1>24
  <2>13. g = IF m.kind \in {"circuit", "target"} THEN Carries(params, z.coins, e, Peer(p), m.kind) ELSE st[p].got
    BY <1>24, <1>31 DEF w
  <2> HIDE DEF K, T, a, g
  <2>3. /\ st'[p].fs = fs /\ st'[p].todo = T /\ st'[p].abit = a
        /\ st'[p].got = g /\ st'[p].run = st[p].run
        /\ st'[p].minted = st[p].minted /\ st'[p].coins = st[p].coins
        /\ \A q \in Party \ {p} : st'[q] = st[q]
    BY <2>2, <1>20, SetHeard
  <2>5. /\ a[AbitOf(p, s)] = IF m.kind = "d"
                  THEN [st[p].abit[AbitOf(p, s)] EXCEPT !.check = Append(@, GetDigest(fs[s]))]
                  ELSE st[p].abit[AbitOf(p, s)]
        /\ \A t \in Stream \ {s} : a[AbitOf(p, t)] = st[p].abit[AbitOf(p, t)]
    <3>1. fs \in [Stream -> FsRec]
      BY <1>6
    <3>2. Absorbs(p, s, m.kind, fs, a)
      BY <3>1, <2>12, <1>20, AbsorbedIs
    <3> QED BY <3>2, Zenon DEF Absorbs
  <2>6. MovedRest(params, z, p, s, m, e, n, st[p], st'[p])
    <3>1. st'[p].fs[s] = MovedOf(st[p].fs[s], Sender(m) = p, n)
      <4>1. (Sender(m) = p) = FALSE
        BY <1>23
      <4> QED BY <4>1, <2>3, <1>6
    <3>2. st'[p].got = IF m.kind \in {"circuit", "target"} /\ Sender(m) # p
               THEN Carries(params, z.coins, e, Peer(p), m.kind) ELSE st[p].got
      BY <2>3, <2>13, <1>23
    <3>3. /\ st'[p].abit[AbitOf(p, s)] = IF m.kind = "d"
                  THEN [st[p].abit[AbitOf(p, s)] EXCEPT !.check = Append(@, GetDigest(st'[p].fs[s]))]
                  ELSE st[p].abit[AbitOf(p, s)]
          /\ \A t \in Stream \ {s} : st'[p].fs[t] = st[p].fs[t] /\ st'[p].abit[AbitOf(p, t)] = st[p].abit[AbitOf(p, t)]
      BY <2>3, <2>5, <1>6
    <3> QED BY <3>1, <3>2, <3>3, <2>3, Zenon DEF MovedRest
  <2>7. WholeStep(job, params, p, pos[p], z, L, s, m, e, st[p], n, st'[p], K)
    <3>1. st'[p].todo = Join(K.main, K.sibling) \o Tail(z.todo[p])
      BY <2>1, <2>3
    <3> QED BY <3>1, <1>5, <2>6, <2>8, <1>20, <1>21, <1>22, Zenon DEF WholeStep
  <2>10. Settled(job, params, p, st'[p], pos[p], s, 0, n)
    <3>1. 0 = (IF Sender(m) = p THEN n ELSE 0) /\ n = (IF Sender(m) # p THEN n ELSE 0)
      BY <1>23
    <3> QED BY <3>1, <2>7, WholeStepped
  <2>11. PICK v \in Position :
           /\ Placed(job, Run(job, params), params, p, st'[p], v)
           /\ \A t \in Stream :
                 /\ HasSent(Run(job, params), params, p, v, t) = HasSent(Run(job, params), params, p, pos[p], t) + (IF t = s THEN 0 ELSE 0)
                 /\ HasReceived(Run(job, params), params, p, v, t) = HasReceived(Run(job, params), params, p, pos[p], t) + (IF t = s THEN n ELSE 0)
    BY <2>10, Zenon DEF Settled
  <2>14. ComesIn(f, pos, p, s, v, n)
    <3>1. ASSUME NEW t \in Stream
          PROVE
             /\ HasReceived(f, params, p, v, t) = HasReceived(f, params, p, pos[p], t) + (IF t = s THEN n ELSE 0)
             /\ HasSent(f, params, p, v, t) = HasSent(f, params, p, pos[p], t)
      <4>1. HasSent(f, params, p, pos[p], t) \in Int
        BY <1>20, WayHere
      <4>2. HasSent(f, params, p, v, t) = HasSent(f, params, p, pos[p], t) + 0
        BY <2>11, <1>21
      <4> QED BY <4>1, <4>2, <2>11, <1>21
    <3>2. st'[p].run = "running" /\ Placed(job, f, params, p, st'[p], v)
      BY <2>3, <2>11, <1>21, <1>27
    <3>3. v \in Position /\ \A q \in Party \ {p} : st'[q] = st[q]
      BY <2>3
    <3>4. buf' = [buf EXCEPT ![p][s] = SubSeq(@, n + 1, Len(@))] /\ UNCHANGED <<wire, rest>>
      BY <1>1
    <3>5. n \in Nat /\ st'[p].run # "done" /\ st'[p].run # "failed"
      BY <3>2, <1>5
    <3> QED BY <3>1, <3>2, <3>3, <3>4, <3>5, <1>33, Zenon DEF ComesIn
  <2> QED BY <2>14, MovesIn
<1>12. CASE ~Accepts(p, op.kind, last)
  <2>1. st' = Fails(p)
    BY <1>1a, <1>12
  <2>2. st'[p].run = "failed" /\ \A q \in Party \ {p} : st'[q] = st[q]
    BY <2>1, <1>20, SetFailed
  <2>3. Apart
    <3> SUFFICES ASSUME ~Apart PROVE FALSE
      OBVIOUS
    <3>1. w = [kind |-> m.kind, val |-> Carries(params, z.coins, e, Peer(p), m.kind)]
      BY DEF w
    <3>2. Accepts(p, m.kind, w)
      BY <3>1, <1>2, Heard
    <3> QED BY <3>2, <1>12, <1>24, <1>31
  <2>4. ~Honest'
    <3>1. UNCHANGED params
      BY <1>1 DEF rest
    <3> QED BY <2>3, <3>1 DEF Honest, Apart
  <2> DEFINE v == Onward(pos[p], s)
  <2>5. v \in Position
    <3>1. 0 \in Nat
      OBVIOUS
    <3> QED BY <3>1, <1>20, PositionsAhead
  <2>6. Valid(Run(job, params), p, v)
    BY <1>20, <1>22, OnwardValid
  <2>7. \A t \in Stream :
         /\ HasSent(Run(job, params), params, p, v, t) = HasSent(Run(job, params), params, p, pos[p], t)
                + (IF t = s /\ Sender(m) = p THEN n ELSE 0)
         /\ HasReceived(Run(job, params), params, p, v, t) = HasReceived(Run(job, params), params, p, pos[p], t)
                + (IF t = s /\ Sender(m) # p THEN n ELSE 0)
    BY <1>32, Zenon DEF OnwardWords
  <2> HIDE DEF v
  <2>14. ComesIn(f, pos, p, s, v, n)
    <3>1. ASSUME NEW t \in Stream
          PROVE
             /\ HasReceived(f, params, p, v, t) = HasReceived(f, params, p, pos[p], t) + (IF t = s THEN n ELSE 0)
             /\ HasSent(f, params, p, v, t) = HasSent(f, params, p, pos[p], t)
      <4>1. HasSent(f, params, p, pos[p], t) \in Int
        BY <1>20, WayHere
      <4>2. HasSent(f, params, p, v, t) = HasSent(f, params, p, pos[p], t) + 0
        BY <2>7, <1>21, <1>23
      <4>3. (IF t = s /\ Sender(m) # p THEN n ELSE 0) = (IF t = s THEN n ELSE 0)
        BY <1>23
      <4> QED BY <4>1, <4>2, <4>3, <2>7, <1>21
    <3>2. st'[p].run = "failed" /\ Placed(job, f, params, p, st'[p], v)
      BY <2>2, <2>6, <1>21 DEF Placed
    <3>4. buf' = [buf EXCEPT ![p][s] = SubSeq(@, n + 1, Len(@))] /\ UNCHANGED <<wire, rest>>
      BY <1>1
    <3>5. n \in Nat /\ st'[p].run # "done" /\ (Honest' => st'[p].run # "failed")
      BY <3>2, <1>5, <2>4
    <3> QED BY <3>1, <3>2, <2>2, <2>5, <3>4, <3>5, <1>33, Zenon DEF ComesIn
  <2> QED BY <2>14, MovesIn
<1> QED BY <1>11, <1>12

-----------------------------------------------------------------------------
(* A stream closes.                                                        *)

\* An honest party never closes its stream on a peer that is not through.
LEMMA NotClosed ==
    ASSUME NEW f, NEW pos, NEW p, NEW k, NEW z, Following(f, pos, p, k, z), NEW s \in Stream,
           StreamClosed(p, s), ~Idle(job, f, p, st[p], pos[p])
    PROVE  ~Honest
<1> SUFFICES ASSUME Honest PROVE FALSE
  OBVIOUS
<1> DEFINE m == Messages1(z, s)[pos[p].i[s] + 1]
           e == Branch(params, z, s)[pos[p].i[s]]
           L == st[p].todo[1]
           op == Op(p, s)
           q == Peer(p)
           n == op.n
           v == Onward(pos[p], s)
<1>1. PICK dir \in {"send", "recv"} :
         /\ Busy(p, s, dir)
         /\ dir = "recv" => RecvSeesClose(p, s)
         /\ dir = "send" => st[Peer(p)].run # "running"
  BY DEF StreamClosed
<1>2. AtWork(f, pos, p, k, z, s, dir, m, e)
  BY <1>1, AtWorkHere
<1> HIDE DEF m, e
<1>30. L = st[p].todo[1] /\ op = Op(p, s)
  OBVIOUS
<1> HIDE DEF L, op
<1>4. Working(f, pos, p, z, s, dir, m, e, L, op)
  BY <1>2, <1>30, WorkFacts
<1>20. TypeOK /\ p \in Party /\ pos[p] \in Position
  BY <1>4 DEF Working
<1>21. f = Run(job, params) /\ job \in Jobs /\ params \in [Party -> Param]
  BY <1>4 DEF Working
<1>22. Branching(Run(job, params), params, p, pos[p], z, L, s, m, e)
  BY <1>4 DEF Working
<1>23. (Sender(m) = p <=> dir = "send")
  BY <1>4 DEF Working
<1>24. op = L[s][1] /\ n \in Nat \ {0}
  BY <1>4 DEF Working
<1>5. q \in Party /\ Peer(q) = p /\ Tracks(f, pos) /\ Tracked /\ q # p
  BY WayHere
<1>6. pos[q] \in Position /\ Valid(Run(job, params), q, pos[q])
  BY <1>5, <1>21 DEF Tracks, Follows, Placed
<1>7. v \in Position
  <2>1. 0 \in Nat
    OBVIOUS
  <2> QED BY <2>1, <1>20, PositionsAhead
<1>8. Valid(Run(job, params), p, v)
  BY <1>20, <1>22, OnwardValid
<1>9. OnwardWords(Run(job, params), params, p, pos[p], s, m, n)
  <2>1. OnwardWords(Run(job, params), params, p, pos[p], s, m, L[s][1].n)
    BY <1>20, <1>21, <1>22, OnwardMoves
  <2> QED BY <2>1, <1>24
<1>10. /\ HasSent(Run(job, params), params, p, v, s) = HasSent(Run(job, params), params, p, pos[p], s)
                + (IF s = s /\ Sender(m) = p THEN n ELSE 0)
       /\ HasReceived(Run(job, params), params, p, v, s) = HasReceived(Run(job, params), params, p, pos[p], s)
                + (IF s = s /\ Sender(m) # p THEN n ELSE 0)
  BY <1>9 DEF OnwardWords
<1>11. st[q].run = "done" => Ended(Run(job, params)[pos[q].k])
  BY <1>5, <1>21 DEF Tracks, Follows
<1>12. st[q].run # "failed"
  BY <1>5 DEF Tracked
<1> HIDE DEF v, n
<1>13. CASE dir = "recv"
  <2> DEFINE B == buf[p][s]
             W == wire[q][s]
             from == HasReceived(f, params, p, pos[p], s)
             to == HasSent(f, params, q, pos[q], s)
  <2>1. Len(B) < n /\ st[q].run = "done" /\ W = <<>>
    BY <1>1, <1>12, <1>13 DEF RecvSeesClose, n, op
  <2>2. HasReceived(Run(job, params), params, Peer(q), v, s) <= HasSent(Run(job, params), params, q, pos[q], s)
    BY <2>1, <1>5, <1>6, <1>7, <1>8, <1>11, <1>21, EndedSpoke
  <2>3. HasReceived(Run(job, params), params, p, v, s) = from + n
    BY <1>10, <1>13, <1>21, <1>23
  <2>4. from + n <= to
    BY <2>2, <2>3, <1>5, <1>21
  <2>5. from \in Int /\ to \in Int /\ B \in Seq(Word) /\ Way(f, pos, q, s)
    BY <1>5, <1>20, WayHere
  <2>6. OnTheWay(f, params, q, s, W, B, from, to)
    BY <2>5, <1>5 DEF Way
  <2> HIDE DEF from, to, B, W
  <2>7. from + Len(B) = to
    BY <2>1, <2>5, <2>6, WayLength
  <2>8. Len(B) \in Nat
    BY <2>5
  <2> QED BY <2>1, <2>4, <2>5, <2>7, <2>8, <1>24
<1>14. CASE dir = "send"
  <2> DEFINE B == buf[q][s]
             W == wire[p][s]
             from == HasReceived(f, params, q, pos[q], s)
             to == HasSent(f, params, p, pos[p], s)
  <2>1. st[q].run = "done"
    <3>1. st[q].run \in {"running", "done", "failed"}
      BY <1>5, <1>20 DEF TypeOK, PartyRec
    <3> QED BY <3>1, <1>1, <1>12, <1>14
  <2>2. HasSent(Run(job, params), params, Peer(q), v, s) <= HasReceived(Run(job, params), params, q, pos[q], s)
    BY <2>1, <1>5, <1>6, <1>7, <1>8, <1>11, <1>21, EndedHears
  <2>3. HasSent(Run(job, params), params, p, v, s) = to + n
    BY <1>10, <1>14, <1>21, <1>23
  <2>4. to + n <= from
    BY <2>2, <2>3, <1>5, <1>21
  <2>5. from \in Int /\ to \in Int /\ B \in Seq(Word) /\ Way(f, pos, p, s)
    BY <1>5, <1>20, WayHere
  <2>6. OnTheWay(f, params, p, s, W, B, from, to)
    BY <2>5 DEF Way
  <2> HIDE DEF from, to, B, W
  <2>7. from + Len(B) <= to
    BY <2>5, <2>6, WayLength
  <2>8. Len(B) \in Nat
    BY <2>5
  <2> QED BY <2>4, <2>5, <2>7, <2>8, <1>24
<1> QED BY <1>13, <1>14

\* A closed stream is found only by a party waiting for a target that will not be
\* named, or where somebody has failed.
LEMMA CloseTracks ==
    ASSUME NEW f, NEW pos, NEW p, NEW k, NEW z, Following(f, pos, p, k, z), NEW s \in Stream,
           StreamClosed(p, s)
    PROVE  LockInv'
<1>1. /\ p \in Party /\ st \in [Party -> PartyRec] /\ Tracked /\ k = pos[p].k /\ z = f[k]
  BY WayHere DEF Following, At
<1>2. PICK dir \in {"send", "recv"} : Busy(p, s, dir)
  BY DEF StreamClosed
<1>3. UNCHANGED <<rest, net>>
  BY DEF StreamClosed
<1>4. /\ st' = IF Op(p, s) = Recv("target", 1)
               THEN [st EXCEPT ![p].run = "done", ![p].todo = <<>>]
               ELSE Fails(p)
  BY DEF StreamClosed
<1>5. UNCHANGED <<job, params, wire, buf>> /\ faults' \in Nat /\ (Honest' => Honest)
  BY <1>1, <1>3 DEF rest, net, Tracked, Honest, Apart
<1>6. /\ \A q \in Party \ {p} : st'[q] = st[q]
      /\ st'[p].run = IF Op(p, s) = Recv("target", 1) THEN "done" ELSE "failed"
  <2>1. CASE Op(p, s) = Recv("target", 1)
    <3>1. st' = [st EXCEPT ![p].run = "done", ![p].todo = <<>>]
      BY <2>1, <1>4
    <3>2. st' = [st EXCEPT ![p] = [st[p] EXCEPT !.run = "done", !.todo = <<>>]]
      BY <3>1
    <3>3. st'[p] = [st[p] EXCEPT !.run = "done", !.todo = <<>>] /\ \A q \in Party \ {p} : st'[q] = st[q]
      BY <3>2, <1>1
    <3>4. st[p] \in PartyRec
      BY <1>1
    <3> QED BY <2>1, <3>3, <3>4 DEF PartyRec
  <2>2. CASE Op(p, s) # Recv("target", 1)
    <3>1. st' = Fails(p)
      BY <2>2, <1>4
    <3> QED BY <2>2, <3>1, <1>1, SetFailed
  <2> QED BY <2>1, <2>2
<1>7. st'[p].run # "running"
  BY <1>6
<1>8. CASE Idle(job, f, p, st[p], pos[p])
  <2>1. Op(p, s) = Recv("target", 1) /\ Ended(z)
    BY <1>1, <1>2, <1>8, IdleOp
  <2>2. st'[p].run = "done"
    BY <2>1, <1>6
  <2> QED BY <2>1, <2>2, <1>5, <1>6, Stays
<1>9. CASE ~Idle(job, f, p, st[p], pos[p])
  <2>1. ~Honest
    BY <1>9, NotClosed
  <2> QED BY <2>1, <1>5, <1>6, <1>7, Stays
<1> QED BY <1>8, <1>9

-----------------------------------------------------------------------------
(* The theorems.                                                           *)

\* Nothing lies between two parties at the start.
LEMMA EmptyWay ==
    ASSUME NEW f, NEW par, NEW p, NEW s
    PROVE  OnTheWay(f, par, p, s, <<>>, <<>>, 0, 0)
<1> DEFINE off == [i \in 0..0 |-> 0]
<1>1. Len(<<>>) = 0
  OBVIOUS
<1>2. off \in [0..0 -> Int] /\ off[0] = 0
  OBVIOUS
<1> HIDE DEF off
<1>3. \E h \in [0..0 -> Int] :
          /\ h[0] = 0 + 0 /\ h[0] = 0 /\ 0 + 0 <= 0
          /\ \A y \in 1..0 :
                /\ h[y] = h[y - 1] + Len((<<>>)[y])
                /\ \A x \in 1..Len((<<>>)[y]) : Sent(f, par, p, s, h[y - 1] + x, (<<>>)[y][x])
  BY <1>2
<1> QED BY <1>1, <1>3 DEF OnTheWay

\* The parties begin at the start of the run.
LEMMA InitTracked == Init => LockInv
<1> SUFFICES ASSUME Init PROVE LockInv
  OBVIOUS
<1> DEFINE f == Run(job, params)
           pos == [p \in Party |-> AtStart(0)]
           z == Start(job)
<1>1. IInv /\ job \in Jobs /\ params \in [Party -> Param]
  BY InitHolds DEF IInv, TypeOK
<1>2. Tracked
  <2>1. params["Alice"] = Agreed /\ faults = 0
    BY DEF Init, Party
  <2>2. \A p \in Party : st[p].run = "running"
    BY DEF Init
  <2> QED BY <2>1, <2>2 DEF Tracked
<1>3. f[0] = z
  BY <1>1, RunStep
<1>4. ASSUME NEW p \in Party PROVE Fits(z, p, st[p])
  <2>1. /\ st[p].todo = Body(job, p) /\ st[p].minted = FALSE /\ st[p].coins = <<>> /\ st[p].got = 0
        /\ \A s \in Stream : st[p].fs[s] = [on |-> FALSE, first |-> FALSE, sent |-> 0, recd |-> 0]
        /\ \A k \in 1..2 : st[p].abit[k] = [setup |-> FALSE, left |-> 0, check |-> <<>>]
    BY DEF Init
  <2>2. Peer(p) \in Party /\ \A s \in Stream : AbitOf(p, s) \in 1..2
    BY TwoParties DEF AbitOf
  <2>3. /\ z.todo[p] = Body(job, p) /\ z.minted = FALSE /\ z.coins = <<>> /\ z.on = FALSE
        /\ z.setup = FALSE /\ z.left = 0
    BY DEF Start
  <2>4. ASSUME NEW s \in Stream, NEW q \in Party
        PROVE  z.str[s].cnt[q] = 0 /\ z.str[s].chk = <<>> /\ z.str[s].got[q] = 0
    BY DEF Start
  <2>5. "main" \in Stream
    BY DEF Stream
  <2> HIDE DEF z
  <2> QED BY <2>1, <2>2, <2>3, <2>4, <2>5 DEF Fits
<1>5. ASSUME NEW p \in Party PROVE Starts(job, params, p, 0, st[p])
  <2>1. Fits(Run(job, params)[0], p, st[p])
    BY <1>3, <1>4
  <2> QED BY <2>1, <1>1, StartsPlaced
<1>6. ASSUME NEW p \in Party
      PROVE  /\ pos[p] \in Position /\ Placed(job, f, params, p, st[p], pos[p]) /\ st[p].run = "running"
             /\ \A s \in Stream : /\ HasSent(f, params, p, pos[p], s) = 0
                                  /\ HasReceived(f, params, p, pos[p], s) = 0
  <2>1. /\ AtStart(0) \in Position /\ Placed(job, Run(job, params), params, p, st[p], AtStart(0))
        /\ \A q \in Party, s \in Stream :
              /\ HasSent(Run(job, params), params, q, AtStart(0), s) = Run(job, params)[0].str[s].tot[q]
              /\ HasReceived(Run(job, params), params, q, AtStart(0), s) = Run(job, params)[0].str[s].tot[Peer(q)]
    BY <1>5, Zenon DEF Starts
  <2>2. pos[p] = AtStart(0)
    OBVIOUS
  <2>3. st[p].run = "running"
    BY DEF Init
  <2>4. \A q \in Party, s \in Stream : z.str[s].tot[q] = 0
    BY DEF Start
  <2>5. Peer(p) \in Party
    BY TwoParties
  <2> HIDE DEF z, pos
  <2> QED BY <2>1, <2>2, <2>3, <2>4, <2>5, <1>3
<1>7. pos \in [Party -> Position]
  BY <1>6
<1>8. ASSUME NEW p \in Party, NEW s \in Stream
      PROVE  OnTheWay(f, params, p, s, wire[p][s], buf[Peer(p)][s],
                   HasReceived(f, params, Peer(p), pos[Peer(p)], s),
                   HasSent(f, params, p, pos[p], s))
  <2>1. Peer(p) \in Party
    BY TwoParties
  <2>2. wire[p][s] = <<>> /\ buf[Peer(p)][s] = <<>>
    BY <2>1 DEF Init
  <2>3. HasReceived(f, params, Peer(p), pos[Peer(p)], s) = 0 /\ HasSent(f, params, p, pos[p], s) = 0
    BY <2>1, <1>6
  <2> HIDE DEF f, pos
  <2> QED BY <2>2, <2>3, EmptyWay
<1> HIDE DEF pos
<1>9. Follows(f, pos)
  <2>1. \A p \in Party : st[p].run # "done"
    BY <1>6
  <2> HIDE DEF f
  <2> QED BY <2>1, <1>6, <1>8 DEF Follows
<1> HIDE DEF f
<1>10. Tracks(f, pos)
  BY <1>7, <1>9 DEF Tracks, f
<1> QED BY <1>2, <1>10 DEF LockInv

\* Every step of a party, and every failure, keeps the parties on the run.
LEMMA StepTracked ==
    ASSUME IInv, LockInv, NEW p \in Party, Step(p) \/ Fail(p)
    PROVE  LockInv'
<1>1. Tracked /\ \E f, pos : Tracks(f, pos)
  BY DEF LockInv
<1>2. PICK f, pos : Tracks(f, pos)
  BY <1>1
<1> DEFINE k == pos[p].k
           z == f[k]
<1>3. Following(f, pos, p, k, z)
  BY <1>1, <1>2 DEF Following, At
<1> HIDE DEF k, z
<1>4. CASE ExchangeCircuitDigest(p)
  BY <1>3, <1>4, DigestTracks
<1>5. CASE CompareDigest(p)
  BY <1>3, <1>5, CompareTracks
<1>6. CASE OpenSibling(p)
  BY <1>3, <1>6, OpenTracks
<1>7. CASE RunSessionHandshake(p)
  BY <1>3, <1>7, HandshakeTracks
<1>8. CASE DrawCoin(p)
  BY <1>3, <1>8, CoinTracks
<1>9. CASE BeginAbits(p)
  BY <1>3, <1>9, BeginTracks
<1>10. CASE GenCotShares(p)
  BY <1>3, <1>10, CotTracks
<1>11. CASE EndAbits(p)
  BY <1>3, <1>11, EndAbitsTracks
<1>12. CASE MaybeFlushCotCheck(p)
  BY <1>3, <1>12, FlushTracks
<1>13. CASE End(p)
  BY <1>3, <1>13, EndTracks
<1>14. CASE TrimIdleAllocations(p)
  BY <1>3, <1>14, TrimTracks
<1>15. CASE ComputeInplace(p)
  BY <1>3, <1>15, ComputeTracks
<1>16. CASE Setup(p)
  BY <1>3, <1>16, SetupTracks
<1>17. CASE ProcessInputs(p)
  BY <1>3, <1>17, InputsTracks
<1>18. CASE RunProgram(p)
  BY <1>3, <1>18, ProgramTracks
<1>19. CASE Garble(p)
  BY <1>3, <1>19, GarbleTracks
<1>20. CASE Evaluate(p)
  BY <1>3, <1>20, EvaluateTracks
<1>21. CASE Decode(p)
  BY <1>3, <1>21, DecodeTracks
<1>22. CASE RequestTarget(p)
  BY <1>3, <1>22, RequestTracks
<1>23. CASE ServeTarget(p)
  BY <1>3, <1>23, ServeTracks
<1>24. CASE PrecomputeTarget(p)
  BY <1>3, <1>24, PrecomputeTracks
<1>25. CASE Finish(p)
  BY <1>3, <1>25, FinishTracks
<1>26. CASE Fail(p)
  BY <1>3, <1>26, FailTracks
<1>27. ASSUME NEW s \in Stream, SendData(p, s) PROVE LockInv'
  BY <1>3, <1>27, SendTracks
<1>28. ASSUME NEW s \in Stream, PullFrame(p, s) PROVE LockInv'
  BY <1>3, <1>28, PullTracks
<1>29. ASSUME NEW s \in Stream, RecvData(p, s) PROVE LockInv'
  BY <1>3, <1>29, RecvTracks
<1>30. ASSUME NEW s \in Stream, StreamClosed(p, s) PROVE LockInv'
  BY <1>3, <1>30, CloseTracks
<1> QED BY <1>4, <1>5, <1>6, <1>7, <1>8, <1>9, <1>10, <1>11, <1>12, <1>13, <1>14, <1>15, <1>16,
           <1>17, <1>18, <1>19, <1>20, <1>21, <1>22, <1>23, <1>24, <1>25, <1>26, <1>27, <1>28,
           <1>29, <1>30, Zenon DEF Step

\* The parties follow the run in every step.
LEMMA NextTracked == IInv /\ LockInv /\ [Next]_vars => LockInv'
<1> SUFFICES ASSUME IInv, LockInv, [Next]_vars PROVE LockInv'
  OBVIOUS
<1>1. CASE UNCHANGED vars
  <2>1. Tracked /\ \E f, pos : Tracks(f, pos)
    BY DEF LockInv
  <2>2. PICK f, pos : Tracks(f, pos)
    BY <2>1
  <2>3. UNCHANGED <<job, params, st, wire, buf, faults>>
    BY <1>1 DEF vars, rest, net
  <2>4. Tracked'
    BY <2>1, <2>3 DEF Tracked, Honest, Apart
  <2>5. Tracks(f, pos)'
    <3>1. f = Run(job, params) /\ pos \in [Party -> Position] /\ Follows(f, pos)
      BY <2>2 DEF Tracks
    <3>2. Follows(f, pos)'
      <4>1. \A p \in Party :
               /\ Placed(job, f, params, p, st[p], pos[p])
               /\ Honest /\ st[p].run = "done" => Ended(f[pos[p].k])
        BY <3>1 DEF Follows
      <4>2. \A p \in Party, s \in Stream :
               OnTheWay(f, params, p, s, wire[p][s], buf[Peer(p)][s],
                   HasReceived(f, params, Peer(p), pos[Peer(p)], s),
                   HasSent(f, params, p, pos[p], s))
        BY <3>1 DEF Follows
      <4>3. Honest' = Honest
        BY <2>3 DEF Honest, Apart
      <4> QED BY <2>3, <4>1, <4>2, <4>3 DEF Follows
    <3> QED BY <2>3, <3>1, <3>2 DEF Tracks
  <2> QED BY <2>4, <2>5 DEF LockInv
<1>2. CASE Next
  BY <1>2, StepTracked DEF Next
<1> QED BY <1>1, <1>2

\* The parties follow the run in every reachable state.
LEMMA TrackedHolds == Spec => [](IInv /\ LockInv)
<1>1. Init => IInv /\ LockInv
  BY InitHolds, InitTracked
<1>2. IInv /\ LockInv /\ [Next]_vars => IInv' /\ LockInv'
  BY NextHolds, NextTracked
<1> QED BY <1>1, <1>2, PTL DEF Spec

\* Every word a party consumes is one its peer sent for that very receive,
\* whatever the sizes, programs, frames and queues, and whoever fails when:
\* chunk counts, left-over correlations, bucket layers and garbling chunks that
\* both parties compute apart never put the byte streams out of step
\* (softspoken.rs next_n, triple_pool.rs, session.rs).
THEOREM WordsInStepCorrect == Spec => []WordsInStep
<1>1. IInv /\ LockInv => WordsInStep
  <2> SUFFICES ASSUME IInv, LockInv, NEW p \in Party, NEW s \in Stream, Busy(p, s, "recv"),
                      NEW i \in 1..Smaller(Op(p, s).n, Len(buf[p][s]))
               PROVE  buf[p][s][i].kind = Op(p, s).kind
    BY DEF WordsInStep
  <2>1. Tracked /\ \E f, pos : Tracks(f, pos)
    BY DEF LockInv
  <2>2. PICK f, pos : Tracks(f, pos)
    BY <2>1
  <2> DEFINE k == pos[p].k
             z == f[k]
             m == Messages1(z, s)[pos[p].i[s] + 1]
             e == Branch(params, z, s)[pos[p].i[s]]
             L == st[p].todo[1]
             op == Op(p, s)
  <2>3. Following(f, pos, p, k, z)
    BY <2>1, <2>2 DEF Following, At
  <2> HIDE DEF k, z
  <2>4. Len(buf[p][s]) \in Nat
    <3>1. buf[p][s] \in Seq(Word)
      BY DEF IInv, TypeOK
    <3> QED BY <3>1
  <2>5. CASE Idle(job, f, p, st[p], pos[p])
    <3>1. Ended(f[pos[p].k]) /\ op.n = 1
      <4>1. Op(p, s) = Recv("target", 1) /\ Ended(f[pos[p].k])
        BY <2>5, IdleOp
      <4> QED BY <4>1 DEF Recv
    <3>2. Len(buf[p][s]) = 0
      BY <2>3, <3>1, IdleQuiet
    <3>3. FALSE
      BY <3>1, <3>2 DEF Smaller
    <3> QED BY <3>3
  <2>6. CASE ~Idle(job, f, p, st[p], pos[p])
    <3>1. AtWork(f, pos, p, k, z, s, "recv", m, e)
      BY <2>3, <2>6, AtWorkHere
    <3> HIDE DEF m, e
    <3>2. L = st[p].todo[1] /\ op = Op(p, s)
      OBVIOUS
    <3> HIDE DEF L, op
    <3>3. Working(f, pos, p, z, s, "recv", m, e, L, op)
      BY <3>1, <3>2, WorkFacts
    <3>4. op.n \in Nat \ {0} /\ op.kind = m.kind
      BY <3>3 DEF Working
    <3>5. i \in 1..op.n /\ i <= Len(buf[p][s])
      BY <3>2, <3>4, <2>4 DEF Smaller
    <3>6. buf[p][s][i] = Due(params, z, e, p, m)
      BY <2>3, <3>3, <3>5, AtHand
    <3>7. buf[p][s][i].kind = m.kind
      BY <3>6 DEF Due
    <3> QED BY <3>2, <3>4, <3>7
  <2> QED BY <2>5, <2>6
<1> QED BY <1>1, TrackedHolds, PTL

\* Parties configured alike, neither of which fails by itself, never fail: the
\* coins both draw from their transcripts agree in every interleaving of the two
\* streams, so no comparison or consistency check rejects, and no
\* stream closes on a party that still needs it (softspoken.rs, program.rs,
\* session.rs).
THEOREM HonestRunCorrect == Spec => []HonestRunSucceeds
<1>1. IInv /\ LockInv => HonestRunSucceeds
  BY DEF LockInv, Tracked, Honest, Apart, HonestRunSucceeds
<1> QED BY <1>1, TrackedHolds, PTL

=============================================================================
