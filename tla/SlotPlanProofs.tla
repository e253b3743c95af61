--------------------------- MODULE SlotPlanProofs ---------------------------
(***************************************************************************)
(* Proofs about SlotPlan: for every program, whatever its length and its   *)
(* gates, and every number of inputs and outputs, sharing slots between    *)
(* wires cannot be seen.                                                   *)
(***************************************************************************)
EXTENDS SlotPlan, SequenceTheorems, TLAPS

\* What a gate makes of the values of its operands.
GateValue(f, g) ==
    IF gates[g].typ = "And" THEN {GateOut(g)}
    ELSE Combined(f, gates[g], value[f][gates[g].in0], value[f][gates[g].in1])

\* The program is in order: a gate reads wires before its own, and the value
\* of its output is what the gate makes of theirs.
ProgramOK ==
    \A g \in 1..Len(gates) :
        /\ \A w \in Operands(gates[g]) : w < GateOut(g)
        /\ \A f \in Field : value[f][GateOut(g)] = GateValue(f, g)

\* Before the slot pass nothing has been given away.
Untouched ==
    /\ pass = "build" => at = 1
    /\ pass \in {"build", "liveness"} => freelist = <<>> /\ numSlots = NumInputs
    /\ pass = "liveness" =>
          \A w \in Wires : w < NumInputs => phys[w] = w
    /\ pass = "gather" => at = 1

\* Gates the liveness pass has seen.
Seen == IF pass = "liveness" THEN at - 1 ELSE Len(gates)

\* What the liveness pass has found out so far is right.
LivenessOK ==
    pass # "build" =>
        /\ \A w \in Wires : w < NumInputs => persist[w]
        /\ \A g \in 1..Seen :
              /\ gates[g].typ = "And" => persist[GateOut(g)]
              /\ \A w \in Operands(gates[g]) : g <= lastUse[w]
        /\ pass # "liveness" => \A w \in Outputs : persist[w]

\* The wires below Top have slots.
Top == IF pass = "mask" THEN Out ELSE NumWires

\* Two wires share a slot only when neither persists and the first is read
\* for the last time before the gate of the second.
PlanOK ==
    pass \notin {"build", "liveness"} =>
        /\ numSlots <= Top
        /\ \A w \in Wires : w < NumInputs => phys[w] = w
        /\ \A w \in Wires : w < Top => phys[w] \in 0..(numSlots - 1)
        /\ \A u, v \in Wires :
              u < v /\ v < Top /\ phys[u] = phys[v] =>
                  ~persist[u] /\ ~persist[v] /\ lastUse[u] + NumInputs <= v

\* A slot is on the freelist once, and only when every wire that had it is
\* read no more.
FreelistOK ==
    pass = "mask" =>
        /\ \A i \in DOMAIN freelist : freelist[i] \in 0..(numSlots - 1)
        /\ \A i, j \in DOMAIN freelist : freelist[i] = freelist[j] => i = j
        /\ \A i \in DOMAIN freelist : \A w \in Wires :
              w < Out /\ phys[w] = freelist[i] => ~persist[w] /\ lastUse[w] < at

\* Of the wires below top, those whose slot no later one of them has taken
\* are found in field f of their slots.
Holds(f, top) ==
    \A w \in Wires :
        w < top /\ (\A v \in Wires : w < v /\ v < top => phys[v] # phys[w]) =>
            slot[f][phys[w]] = value[f][w]

\* The fields a pass is computing, and those that earlier ones have finished.
Computing ==
    IF pass = "mask" THEN {"share"}
    ELSE IF pass \in DOMAIN Computed THEN Computed[pass] ELSE {}
Finished ==
    IF pass = "gamma" THEN {"label"}
    ELSE IF pass = "gather"
    THEN {"share", IF party = "Alice" THEN "label" ELSE "eval"}
         \cup (IF party = "Alice" /\ numAnds = 0 THEN {} ELSE {"lambda"})
    ELSE {}

\* Every field of the inputs is in place, so is the share of every AND since
\* the slot pass, and the rest as far as the passes have come.
ContentsOK ==
    /\ pass # "build" => \A f \in Field : \A w \in Wires :
          w < NumInputs => slot[f][w] = value[f][w]
    /\ pass \notin {"build", "liveness"} =>
          /\ \A f \in Computing : Holds(f, Out)
          /\ \A f \in Finished : Holds(f, NumWires)
          /\ \A g \in 1..Len(gates) :
                gates[g].typ = "And" /\ GateOut(g) < Top =>
                    slot["share"][phys[GateOut(g)]] = value["share"][GateOut(g)]

\* Whose pass it is.
PassOK == /\ pass = "garble" => party = "Alice"
          /\ pass = "gamma" => party = "Alice" /\ numAnds # 0
          /\ pass = "evaluate" => party = "Bob"

IInv ==
    /\ TypeOK
    /\ ProgramOK
    /\ Untouched
    /\ LivenessOK
    /\ PlanOK
    /\ FreelistOK
    /\ ContentsOK
    /\ PassOK

-----------------------------------------------------------------------------
(* Facts about programs. *)

GateRecord == [typ : {"And", "Xor", "Inv"}, in0 : Nat, in1 : Nat]

\* Wires are numbered from 0, the output of the g-th gate is one of them.
LEMMA WireFacts ==
    ASSUME TypeOK
    PROVE  /\ NumInputs \in Nat \ {0}
           /\ Len(gates) \in Nat
           /\ NumWires = NumInputs + Len(gates)
           /\ Wires = 0..(NumWires - 1)
           /\ DOMAIN gates = 1..Len(gates)
           /\ \A g \in 1..Len(gates) :
                 /\ gates[g] \in GateRecord
                 /\ GateOut(g) = NumInputs + g - 1
                 /\ GateOut(g) \in Wires
<1>1. NumInputs \in Nat \ {0}
  BY InputsAssumption
<1>2. gates \in Seq(GateRecord)
  BY DEF TypeOK, GateRecord
<1>3. /\ Len(gates) \in Nat /\ DOMAIN gates = 1..Len(gates)
      /\ \A g \in 1..Len(gates) : gates[g] \in GateRecord
  BY <1>2
<1> QED BY <1>1, <1>3 DEF NumWires, Wires, GateOut

\* The operands of a gate are wires before its output.
LEMMA OperandFacts ==
    ASSUME TypeOK, ProgramOK, NEW g \in 1..Len(gates)
    PROVE  /\ gates[g].in0 \in Operands(gates[g])
           /\ gates[g].typ # "Inv" => gates[g].in1 \in Operands(gates[g])
           /\ \A w \in Operands(gates[g]) : w \in Wires /\ w < GateOut(g)
<1>1. gates[g] \in GateRecord
  BY WireFacts
<1>2. \A w \in Operands(gates[g]) : w \in Nat
  BY <1>1 DEF Operands, GateRecord
<1>3. \A w \in Operands(gates[g]) : w < GateOut(g)
  BY DEF ProgramOK
<1>4. GateOut(g) \in Wires
  BY WireFacts
<1>5. \A w \in Operands(gates[g]) : w \in Wires
  BY <1>2, <1>3, <1>4, WireFacts
<1> QED BY <1>3, <1>5 DEF Operands

\* The sums of sets of terms are sets of terms.
LEMMA TermFacts ==
    ASSUME NEW u \in SUBSET Int, NEW v \in SUBSET Int, NEW f \in Field
    PROVE  Xor(u, v) \in SUBSET Int /\ Inverted(f, u) \in SUBSET Int
BY DEF Xor, Inverted, One

\* A linear gate depends on the operands it reads only.
LEMMA CombinedFacts ==
    ASSUME NEW f \in Field, NEW gate \in GateRecord,
           NEW u \in SUBSET Int, NEW v, NEW w, gate.typ # "Inv" => v \in SUBSET Int,
           gate.typ # "Inv" => w = v
    PROVE  /\ Combined(f, gate, u, v) \in SUBSET Int
           /\ Combined(f, gate, u, w) = Combined(f, gate, u, v)
<1>1. CASE gate.typ = "Xor"
  BY <1>1, TermFacts DEF Combined
<1>2. CASE gate.typ # "Xor"
  BY <1>2, u \in SUBSET Int, {} \in SUBSET Int, TermFacts DEF Combined
<1> QED BY <1>1, <1>2

LEMMA InitInv == Init => IInv
<1> SUFFICES ASSUME Init PROVE IInv
  OBVIOUS
<1>1. /\ gates = <<>> /\ Len(gates) = 0 /\ NumWires = NumInputs
      /\ Wires = 0..(NumInputs - 1) /\ NumInputs \in Nat \ {0}
  BY InputsAssumption DEF Init, NumWires, Wires
<1>2. value \in [Field -> [Wires -> SUBSET Int]]
  BY <1>1 DEF Init
<1>3. TypeOK
  BY <1>1, <1>2 DEF Init, TypeOK
<1>4. ProgramOK
  BY <1>1 DEF ProgramOK
<1> QED BY <1>3, <1>4 DEF Init, IInv, Untouched, LivenessOK, PlanOK, FreelistOK,
             ContentsOK, PassOK

-----------------------------------------------------------------------------
(* Building the program. *)

LEMMA PushGateInv ==
    ASSUME IInv, NEW gate \in GateRecord, PushGate(gate)
    PROVE  IInv'
<1> DEFINE n == Len(gates)
<1>1. TypeOK /\ pass = "build"
  BY DEF IInv, PushGate
<1>2. /\ gates \in Seq(GateRecord) /\ gates' = Append(gates, gate)
      /\ n \in Nat /\ Len(gates') = n + 1 /\ gates' \in Seq(GateRecord)
      /\ gates'[n + 1] = gate
      /\ \A g \in 1..n : gates'[g] = gates[g]
  BY <1>1 DEF TypeOK, PushGate, GateRecord
<1>3. /\ NumWires \in Nat /\ NumWires' = NumWires + 1 /\ NumWires = NumInputs + n
      /\ Wires = 0..(NumWires - 1) /\ Wires' = 0..NumWires /\ NumInputs \in Nat \ {0}
  BY <1>2, InputsAssumption DEF NumWires, Wires
<1>4. /\ \A w \in Operands(gate) : w \in Wires
      /\ gate.in0 \in Wires /\ (gate.typ # "Inv" => gate.in1 \in Wires)
  BY DEF PushGate, Operands
<1>5. /\ \A f \in Field : \A w \in Wires : value'[f][w] = value[f][w]
      /\ gate.typ = "And" => \A f \in Field : value'[f][NumWires] = {NumWires}
      /\ gate.typ # "And" => \A f \in Field : value'[f][NumWires] =
            Combined(f, gate, value[f][gate.in0], value[f][gate.in1])
  <2>1. value' = [f \in Field |-> [w \in 0..NumWires |->
          IF w \in Wires THEN value[f][w]
          ELSE IF gate.typ = "And" THEN {w}
          ELSE Combined(f, gate, value[f][gate.in0], value[f][gate.in1])]]
    BY DEF PushGate
  <2>2. /\ \A w \in Wires : w \in 0..NumWires
        /\ NumWires \in 0..NumWires /\ NumWires \notin Wires
    BY <1>3
  <2> HIDE DEF n
  <2>3. \A f \in Field : \A w \in Wires : value'[f][w] = value[f][w]
    BY <2>1, <2>2, Zenon
  <2>4. gate.typ = "And" => \A f \in Field : value'[f][NumWires] = {NumWires}
    BY <2>1, <2>2, Zenon
  <2>5. gate.typ # "And" => \A f \in Field : value'[f][NumWires] =
            Combined(f, gate, value[f][gate.in0], value[f][gate.in1])
    BY <2>1, <2>2, Zenon
  <2> QED BY <2>3, <2>4, <2>5
<1>6. value' \in [Field -> [Wires' -> SUBSET Int]]
  <2>1. \A f \in Field : \A w \in Wires : value[f][w] \in SUBSET Int
    BY <1>1 DEF TypeOK
  <2>2. ASSUME NEW f \in Field, NEW w \in Wires'
        PROVE  value'[f][w] \in SUBSET Int
    <3>1. CASE w \in Wires
      BY <3>1, <1>5, <2>1
    <3>2. CASE w = NumWires /\ gate.typ = "And"
      <4>1. value'[f][w] = {NumWires}
        BY <3>2, <1>5
      <4> QED BY <4>1, <1>3
    <3>3. CASE w = NumWires /\ gate.typ # "And"
      <4>1. value'[f][w] = Combined(f, gate, value[f][gate.in0], value[f][gate.in1])
        BY <3>3, <1>5
      <4> QED BY <4>1, <1>4, <2>1, CombinedFacts
    <3>4. w \in Wires \/ w = NumWires
      BY <1>3
    <3> QED BY <3>1, <3>2, <3>3, <3>4
  <2>3. value' = [f \in Field |-> [w \in Wires' |-> value'[f][w]]]
    BY <1>3 DEF PushGate
  <2> QED BY <2>2, <2>3
<1>7. /\ pass' = "build" /\ at = 1 /\ at' = 1 /\ freelist' = <<>>
      /\ numSlots' = NumInputs /\ party' = party /\ outLen' = outLen /\ numAnds' = numAnds
  BY <1>1 DEF PushGate, IInv, Untouched, plan
<1>8. TypeOK'
  BY <1>1, <1>2, <1>3, <1>6, <1>7 DEF TypeOK, GateRecord
<1>9. ProgramOK'
  <2> SUFFICES ASSUME NEW g \in 1..(n + 1)
               PROVE  /\ \A w \in Operands(gates'[g]) : w < GateOut(g)
                      /\ \A f \in Field : value'[f][GateOut(g)] = GateValue(f, g)'
    BY <1>2 DEF ProgramOK, GateOut
  <2>1. CASE g \in 1..n
    <3>1. gates'[g] = gates[g] /\ GateOut(g) \in Wires
      BY <2>1, <1>1, <1>2, WireFacts
    <3>2. ProgramOK
      BY DEF IInv
    <3>3. /\ gates[g].in0 \in Wires
          /\ gates[g].typ # "Inv" => gates[g].in1 \in Wires
      BY <2>1, <3>2, <1>1, OperandFacts
    <3>4. \A f \in Field : \A w \in Wires : value'[f][w] = value[f][w]
      BY <1>5
    <3>5. \A f \in Field : value[f][GateOut(g)] = GateValue(f, g)
      BY <2>1, <3>2 DEF ProgramOK
    <3>6. ASSUME NEW f \in Field
          PROVE  GateValue(f, g)' = GateValue(f, g)
      <4>1. /\ gates[g] \in GateRecord
            /\ value'[f][gates[g].in0] = value[f][gates[g].in0]
            /\ value[f][gates[g].in0] \in SUBSET Int
            /\ gates[g].typ # "Inv" =>
                  /\ value'[f][gates[g].in1] = value[f][gates[g].in1]
                  /\ value[f][gates[g].in1] \in SUBSET Int
        <5>1. gates[g] \in GateRecord
          BY <2>1, <1>1, WireFacts
        <5> QED BY <5>1, <3>3, <3>4, <1>1 DEF TypeOK
      <4> QED BY <4>1, <3>1, CombinedFacts DEF GateValue, GateOut
    <3>7. \A w \in Operands(gates'[g]) : w < GateOut(g)
      BY <2>1, <3>1, <3>2 DEF ProgramOK
    <3> QED BY <3>1, <3>4, <3>5, <3>6, <3>7
  <2>2. CASE g = n + 1
    <3>1. gates'[g] = gate /\ GateOut(g) = NumWires /\ NumWires \in Wires' /\ NumWires \notin Wires
      BY <2>2, <1>2, <1>3 DEF GateOut
    <3>2. \A w \in Operands(gate) : w < NumWires
      BY <1>3, <1>4
    <3>3. ASSUME NEW f \in Field
          PROVE  value'[f][NumWires] = GateValue(f, g)'
      <4>1. \A w \in Wires : value'[f][w] = value[f][w]
        BY <1>5
      <4>2. /\ gate.typ = "And" => value'[f][NumWires] = {NumWires}
            /\ gate.typ # "And" => value'[f][NumWires] =
                  Combined(f, gate, value[f][gate.in0], value[f][gate.in1])
        BY <1>5
      <4>3. GateValue(f, g)' =
              IF gate.typ = "And" THEN {NumWires}
              ELSE Combined(f, gate, value'[f][gate.in0], value'[f][gate.in1])
        BY <3>1 DEF GateValue, GateOut
      <4>4. /\ value'[f][gate.in0] = value[f][gate.in0]
            /\ value[f][gate.in0] \in SUBSET Int
            /\ gate.typ # "Inv" =>
                  /\ value'[f][gate.in1] = value[f][gate.in1]
                  /\ value[f][gate.in1] \in SUBSET Int
        BY <4>1, <1>4, <1>1 DEF TypeOK
      <4>5. CASE gate.typ = "And"
        BY <4>5, <4>2, <4>3
      <4>6. CASE gate.typ # "And"
        <5>1. Combined(f, gate, value'[f][gate.in0], value'[f][gate.in1])
              = Combined(f, gate, value[f][gate.in0], value[f][gate.in1])
          BY <4>4, CombinedFacts
        <5> QED BY <5>1, <4>6, <4>2, <4>3
      <4> QED BY <4>5, <4>6
    <3> QED BY <3>1, <3>2, <3>3
  <2> QED BY <2>1, <2>2, <1>2
<1> QED BY <1>7, <1>8, <1>9 DEF IInv, Untouched, LivenessOK, PlanOK, FreelistOK,
             ContentsOK, PassOK

\* The other actions leave the program alone.
LEMMA SameProgram ==
    ASSUME TypeOK, ProgramOK, UNCHANGED <<gates, value>>
    PROVE  /\ ProgramOK'
           /\ NumWires' = NumWires /\ Wires' = Wires
<1>1. NumWires' = NumWires /\ Wires' = Wires
  BY DEF NumWires, Wires
<1>2. \A f, g : GateValue(f, g)' = GateValue(f, g)
  BY DEF GateValue
<1> QED BY <1>1, <1>2 DEF ProgramOK

\* The gate a pass is at, its output and its operands.
LEMMA GateFacts ==
    ASSUME TypeOK, ProgramOK, at <= Len(gates)
    PROVE  /\ at \in 1..Len(gates)
           /\ Gate = gates[at] /\ Gate \in GateRecord
           /\ Out = GateOut(at) /\ Out = NumInputs + at - 1
           /\ Out \in Wires /\ Out \in NumInputs..(NumWires - 1)
           /\ Gate.in0 \in Operands(Gate)
           /\ Gate.typ # "Inv" => Gate.in1 \in Operands(Gate)
           /\ \A w \in Operands(Gate) : w \in Wires /\ w < Out
<1>1. at \in 1..Len(gates)
  BY WireFacts DEF TypeOK
<1>2. Gate = gates[at] /\ Gate \in GateRecord /\ Out = GateOut(at)
  BY <1>1, WireFacts DEF Gate, Out
<1>3. Out = NumInputs + at - 1 /\ Out \in Wires
  BY <1>1, <1>2, WireFacts
<1>4. Out \in NumInputs..(NumWires - 1)
  BY <1>1, <1>3, WireFacts
<1> QED BY <1>1, <1>2, <1>3, <1>4, OperandFacts

-----------------------------------------------------------------------------
(* The liveness pass. *)

LEMMA StartInv ==
    ASSUME IInv, NEW len \in OutputLens, Start(len)
    PROVE  IInv'
<1>1. TypeOK /\ ProgramOK /\ pass = "build" /\ at = 1
  BY DEF IInv, Start, Untouched
<1>2. ProgramOK' /\ NumWires' = NumWires /\ Wires' = Wires
  BY <1>1, SameProgram DEF Start
<1>3. /\ pass' = "liveness" /\ at' = 1 /\ freelist' = <<>> /\ numSlots' = NumInputs
      /\ numAnds' = numAnds /\ party' = party /\ gates' = gates /\ value' = value
  BY <1>1 DEF Start, IInv, Untouched
<1>4. outLen' \in Nat
  BY BoundsAssumption DEF Start
<1>5. /\ lastUse' = [w \in Wires |-> 0]
      /\ persist' = [w \in Wires |-> w < NumInputs]
      /\ phys' = [w \in Wires |-> IF w < NumInputs THEN w ELSE Unassigned]
      /\ slot' = [f \in Field |-> [s \in Wires |->
                     IF s < NumInputs THEN value[f][s] ELSE Zero]]
  BY DEF Start
<1>6. slot' \in [Field -> [Wires -> SUBSET Int]]
  <2>1. \A f \in Field : \A s \in Wires : value[f][s] \in SUBSET Int
    BY <1>1 DEF TypeOK
  <2> QED BY <2>1, <1>5 DEF Zero
<1>7. TypeOK'
  <2>1. lastUse' \in [Wires -> 0..Len(gates)]
    BY <1>1, <1>5, WireFacts
  <2>2. persist' \in [Wires -> BOOLEAN]
    BY <1>5
  <2>3. phys' \in [Wires -> Wires \cup {Unassigned}]
    BY <1>5
  <2>4. /\ at' \in 1..(Len(gates) + 1) /\ freelist' \in Seq(Wires)
        /\ numSlots' \in NumInputs..NumWires
    BY <1>1, <1>3, WireFacts
  <2> QED BY <2>1, <2>2, <2>3, <2>4, <1>1, <1>2, <1>3, <1>4, <1>6 DEF TypeOK
<1>8. LivenessOK'
  <2>1. Seen' = 0
    BY <1>3 DEF Seen
  <2>2. \A w \in Wires : w < NumInputs => persist'[w]
    BY <1>5, Zenon
  <2>3. \A g \in 1..0 : FALSE
    OBVIOUS
  <2> QED BY <2>1, <2>2, <2>3, <1>2, <1>3 DEF LivenessOK
<1>9. Untouched'
  BY <1>2, <1>3, <1>5 DEF Untouched
<1>10. ContentsOK'
  BY <1>2, <1>3, <1>5 DEF ContentsOK
<1> QED BY <1>2, <1>3, <1>7, <1>8, <1>9, <1>10 DEF IInv, PlanOK, FreelistOK, PassOK

LEMMA LivenessGateInv ==
    ASSUME IInv, LivenessGate
    PROVE  IInv'
<1>1. /\ TypeOK /\ ProgramOK /\ pass = "liveness" /\ at <= Len(gates)
      /\ Len(gates) \in Nat /\ NumInputs \in Nat /\ at \in 1..Len(gates)
  BY GateFacts, WireFacts DEF IInv, LivenessGate
<1>2. /\ pass' = pass /\ at' = at + 1 /\ freelist' = freelist /\ numSlots' = numSlots
      /\ phys' = phys /\ slot' = slot /\ gates' = gates /\ value' = value
      /\ outLen' = outLen /\ party' = party
  BY DEF LivenessGate, program
<1>3. ProgramOK' /\ NumWires' = NumWires /\ Wires' = Wires
  BY <1>1, <1>2, SameProgram
<1>4. /\ lastUse' = [w \in Wires |-> IF w \in Operands(Gate) THEN at ELSE lastUse[w]]
      /\ lastUse' \in [Wires -> 0..Len(gates)]
      /\ \A w \in Wires : lastUse[w] \in 0..Len(gates)
  BY <1>1 DEF LivenessGate, Uses, TypeOK
<1>5. /\ persist' \in [Wires -> BOOLEAN]
      /\ persist'[Out] = (Gate.typ = "And")
      /\ \A w \in Wires : w # Out => persist'[w] = persist[w]
  BY <1>1, GateFacts DEF LivenessGate, TypeOK
<1>6. TypeOK'
  <2>1. numAnds' \in Nat
    BY <1>1 DEF LivenessGate, TypeOK
  <2> QED BY <2>1, <1>1, <1>2, <1>3, <1>4, <1>5 DEF TypeOK
<1>7. LivenessOK'
  <2>1. Seen' = at /\ Seen = at - 1
    BY <1>1, <1>2 DEF Seen
  <2>2. /\ \A w \in Wires : w < NumInputs => persist[w]
        /\ \A g \in 1..(at - 1) :
              /\ gates[g].typ = "And" => persist[GateOut(g)]
              /\ \A w \in Operands(gates[g]) : g <= lastUse[w]
    BY <2>1, <1>1 DEF IInv, LivenessOK
  <2>3. \A w \in Wires : w < NumInputs => persist'[w]
    <3>1. Out \in NumInputs..(NumWires - 1)
      BY <1>1, GateFacts
    <3>2. \A w \in Wires : w < NumInputs => w # Out
      BY <3>1, <1>1
    <3> QED BY <2>2, <1>5, <3>2
  <2>4. ASSUME NEW g \in 1..at
        PROVE  /\ gates[g].typ = "And" => persist'[GateOut(g)]
               /\ \A w \in Operands(gates[g]) : g <= lastUse'[w]
    <3>1. CASE g = at
      BY <3>1, <1>1, <1>4, <1>5, GateFacts
    <3>2. CASE g # at
      <4>1. g \in 1..(at - 1) /\ g \in 1..Len(gates)
        BY <3>2, <1>1
      <4>2. GateOut(g) \in Wires /\ GateOut(g) # Out
        BY <3>2, <4>1, <1>1, WireFacts, GateFacts
      <4>3. \A w \in Operands(gates[g]) : w \in Wires
        BY <4>1, <1>1, OperandFacts
      <4>4. gates[g].typ = "And" => persist'[GateOut(g)]
        BY <4>1, <4>2, <2>2, <1>5
      <4>5. ASSUME NEW w \in Operands(gates[g])
            PROVE  g <= lastUse'[w]
        <5>1. g <= lastUse[w] /\ w \in Wires
          BY <4>1, <4>3, <2>2
        <5> QED BY <5>1, <4>1, <1>1, <1>4
      <4> QED BY <4>4, <4>5
    <3> QED BY <3>1, <3>2
  <2> QED BY <2>1, <2>3, <2>4, <1>1, <1>2, <1>3 DEF LivenessOK
<1>8. Untouched'
  BY <1>1, <1>2, <1>3 DEF IInv, Untouched
<1>9. ContentsOK'
  BY <1>1, <1>2, <1>3 DEF IInv, ContentsOK
<1> QED BY <1>1, <1>2, <1>3, <1>6, <1>7, <1>8, <1>9 DEF IInv, PlanOK, FreelistOK, PassOK

LEMMA LivenessEndInv ==
    ASSUME IInv, LivenessEnd
    PROVE  IInv'
<1>1. /\ TypeOK /\ ProgramOK /\ pass = "liveness" /\ at - 1 = Len(gates)
      /\ Len(gates) \in Nat /\ NumInputs \in Nat \ {0} /\ NumWires = NumInputs + Len(gates)
      /\ Wires = 0..(NumWires - 1)
      /\ freelist = <<>> /\ numSlots = NumInputs
      /\ \A w \in Wires : w < NumInputs => phys[w] = w
  BY WireFacts DEF IInv, LivenessEnd, TypeOK, Untouched
<1>2. /\ pass' = "mask" /\ at' = 1 /\ freelist' = freelist /\ numSlots' = numSlots
      /\ phys' = phys /\ slot' = slot /\ gates' = gates /\ value' = value
      /\ outLen' = outLen /\ party' = party /\ lastUse' = lastUse /\ numAnds' = numAnds
  BY DEF LivenessEnd, program
<1>3. ProgramOK' /\ NumWires' = NumWires /\ Wires' = Wires /\ Outputs' = Outputs
  BY <1>1, <1>2, SameProgram DEF Outputs
<1>4. /\ persist' \in [Wires -> BOOLEAN]
      /\ \A w \in Wires : persist[w] => persist'[w]
      /\ \A w \in Outputs : persist'[w]
  BY <1>1 DEF LivenessEnd, Kept, TypeOK, Outputs
<1>5. TypeOK'
  BY <1>1, <1>2, <1>3, <1>4 DEF TypeOK
<1>6. LivenessOK'
  <2>1. Seen = Len(gates) /\ Seen' = Len(gates)
    BY <1>1, <1>2 DEF Seen
  <2>2. /\ \A w \in Wires : w < NumInputs => persist[w]
        /\ \A g \in 1..Len(gates) :
              /\ gates[g].typ = "And" => persist[GateOut(g)]
              /\ \A w \in Operands(gates[g]) : g <= lastUse[w]
    BY <2>1, <1>1 DEF IInv, LivenessOK
  <2>3. \A g \in 1..Len(gates) : gates[g].typ = "And" => persist'[GateOut(g)]
    BY <2>2, <1>1, <1>4, WireFacts
  <2> QED BY <2>1, <2>2, <2>3, <1>2, <1>3, <1>4 DEF LivenessOK
<1>7. Top' = NumInputs /\ Out' = NumInputs
  BY <1>1, <1>2 DEF Top, Out, GateOut
<1>8. PlanOK'
  BY <1>1, <1>2, <1>3, <1>7 DEF PlanOK
<1>9. FreelistOK'
  BY <1>1, <1>2 DEF FreelistOK
<1>10. ContentsOK'
  <2>1. \A f \in Field : \A w \in Wires : w < NumInputs => slot[f][w] = value[f][w]
    BY <1>1 DEF IInv, ContentsOK
  <2>2. Computing' = {"share"} /\ Finished' = {}
    BY <1>2 DEF Computing, Finished
  <2>3. Holds("share", Out)'
    BY <2>1, <1>1, <1>2, <1>3, <1>7 DEF Holds, Field
  <2>4. \A g \in 1..Len(gates) : ~(GateOut(g) < NumInputs)
    BY <1>1 DEF GateOut
  <2> QED BY <2>1, <2>2, <2>3, <2>4, <1>2, <1>3, <1>7 DEF ContentsOK
<1>11. Untouched'
  BY <1>2 DEF Untouched
<1> QED BY <1>2, <1>3, <1>5, <1>6, <1>8, <1>9, <1>10, <1>11 DEF IInv, PassOK

-----------------------------------------------------------------------------
(* Reading operands. *)

\* No operand of the gate a pass is at has lost its slot to a wire before
\* that gate, so what it reads of a field computed so far is right.
LEMMA ReadRight ==
    ASSUME TypeOK, ProgramOK, LivenessOK, PlanOK, pass \notin {"build", "liveness"},
           at <= Len(gates), NEW f \in Field, Holds(f, Out), NEW w \in Operands(Gate)
    PROVE  Read(f, w) = value[f][w]
<1>1. /\ at \in 1..Len(gates) /\ Out = NumInputs + at - 1 /\ w \in Wires /\ w < Out
      /\ Out \in NumInputs..(NumWires - 1) /\ Gate = gates[at]
      /\ NumInputs \in Nat /\ Len(gates) \in Nat /\ NumWires = NumInputs + Len(gates)
      /\ Wires = 0..(NumWires - 1)
  BY GateFacts, WireFacts
<1>2. at <= lastUse[w] /\ lastUse[w] \in Nat
  <2>1. \A g \in 1..Len(gates) : \A u \in Operands(gates[g]) : g <= lastUse[u]
    BY DEF LivenessOK, Seen
  <2>2. lastUse \in [Wires -> 0..Len(gates)]
    BY DEF TypeOK
  <2>3. at <= lastUse[w]
    BY <2>1, <1>1
  <2> QED BY <2>2, <2>3, <1>1
<1>3. Out <= Top /\ Top \in Int
  BY <1>1 DEF Top
<1>4. ASSUME NEW v \in Wires, w < v, v < Out, phys[v] = phys[w]
      PROVE  FALSE
  <2>1. lastUse[w] + NumInputs <= v
    BY <1>1, <1>3, <1>4 DEF PlanOK
  <2> QED BY <2>1, <1>1, <1>2, <1>4
<1> QED BY <1>1, <1>4 DEF Holds, Read

\* So a linear gate computes the value of its output.
LEMMA LinearRight ==
    ASSUME TypeOK, ProgramOK, LivenessOK, PlanOK, pass \notin {"build", "liveness"},
           at <= Len(gates), NEW f \in Field, Holds(f, Out), Gate.typ # "And"
    PROVE  Linear(f) = value[f][Out]
<1>1. /\ at \in 1..Len(gates) /\ Gate = gates[at] /\ Gate \in GateRecord /\ Out = GateOut(at)
      /\ Gate.in0 \in Operands(Gate) /\ (Gate.typ # "Inv" => Gate.in1 \in Operands(Gate))
      /\ \A w \in Operands(Gate) : w \in Wires
  BY GateFacts
<1>2. \A w \in Operands(Gate) : Read(f, w) = value[f][w]
  BY ReadRight
<1>3. \A w \in Wires : value[f][w] \in SUBSET Int
  BY DEF TypeOK
<1>4. value[f][Out] = Combined(f, Gate, value[f][Gate.in0], value[f][Gate.in1])
  BY <1>1 DEF ProgramOK, GateValue
<1>5. Combined(f, Gate, value[f][Gate.in0], Read(f, Gate.in1))
      = Combined(f, Gate, value[f][Gate.in0], value[f][Gate.in1])
  BY <1>1, <1>2, <1>3, CombinedFacts
<1>6. Read(f, Gate.in0) = value[f][Gate.in0]
  BY <1>1, <1>2
<1> QED BY <1>4, <1>5, <1>6 DEF Linear

-----------------------------------------------------------------------------
(* The slot pass. *)

\* Where the elements of a concatenation come from.
LEMMA ConcatFacts ==
    ASSUME NEW S, NEW a \in Seq(S), NEW b \in Seq(S)
    PROVE  /\ a \o b \in Seq(S)
           /\ Len(a) \in Nat /\ Len(b) \in Nat
           /\ DOMAIN a = 1..Len(a) /\ DOMAIN b = 1..Len(b)
           /\ DOMAIN (a \o b) = 1..(Len(a) + Len(b))
           /\ \A i \in 1..Len(a) : (a \o b)[i] = a[i]
           /\ \A i \in (Len(a) + 1)..(Len(a) + Len(b)) : (a \o b)[i] = b[i - Len(a)]
OBVIOUS

\* Two lists without repetitions that have no element in common make one
\* without repetitions.
LEMMA ConcatInjective ==
    ASSUME NEW S, NEW a \in Seq(S), NEW b \in Seq(S),
           \A i, j \in DOMAIN a : a[i] = a[j] => i = j,
           \A i, j \in DOMAIN b : b[i] = b[j] => i = j,
           \A i \in DOMAIN a, j \in DOMAIN b : a[i] # b[j]
    PROVE  \A i, j \in DOMAIN (a \o b) : (a \o b)[i] = (a \o b)[j] => i = j
<1> DEFINE c == a \o b
           m == Len(a)
           k == Len(b)
<1>1. /\ m \in Nat /\ k \in Nat /\ DOMAIN a = 1..m /\ DOMAIN b = 1..k
      /\ DOMAIN c = 1..(m + k)
      /\ \A i \in 1..m : c[i] = a[i]
      /\ \A i \in (m + 1)..(m + k) : c[i] = b[i - m]
  BY ConcatFacts
<1> HIDE DEF c, m, k
<1>2. \A i \in DOMAIN c : i \in 1..m \/ (i \in (m + 1)..(m + k) /\ i - m \in 1..k)
  BY <1>1
<1> SUFFICES ASSUME NEW i \in DOMAIN c, NEW j \in DOMAIN c, c[i] = c[j]
             PROVE  i = j
  BY DEF c
<1>3. CASE i \in 1..m /\ j \in 1..m
  BY <1>3, <1>1
<1>4. CASE i \in 1..m /\ j \notin 1..m
  BY <1>4, <1>1, <1>2
<1>5. CASE i \notin 1..m /\ j \in 1..m
  BY <1>5, <1>1, <1>2
<1>6. CASE i \notin 1..m /\ j \notin 1..m
  <2>1. /\ i \in (m + 1)..(m + k) /\ i - m \in 1..k
        /\ j \in (m + 1)..(m + k) /\ j - m \in 1..k
    BY <1>6, <1>2
  <2>2. b[i - m] = b[j - m]
    BY <2>1, <1>1
  <2>3. i - m = j - m
    BY <2>1, <2>2, <1>1
  <2> QED BY <2>1, <2>3, <1>1
<1> QED BY <1>3, <1>4, <1>5, <1>6

\* Lists of up to one element, concatenated.
LEMMA ShortLists ==
    ASSUME NEW a, NEW b
    PROVE  <<a>> \o <<b>> = <<a, b>> /\ <<a>> \o <<>> = <<a>> /\ <<>> \o <<b>> = <<b>>
<1>1. <<a>> \in Seq({a, b}) /\ <<b>> \in Seq({a, b}) /\ <<a, b>> \in Seq({a, b})
  OBVIOUS
<1>2. <<a>> \o <<>> = <<a>> /\ <<>> \o <<b>> = <<b>>
  BY <1>1, ConcatEmptySeq
<1>3. <<a>> \o <<b>> = <<a, b>>
  <2>1. /\ Len(<<a>> \o <<b>>) = 2 /\ Len(<<a, b>>) = 2
        /\ <<a>> \o <<b>> \in Seq({a, b})
        /\ (<<a>> \o <<b>>)[1] = a /\ (<<a>> \o <<b>>)[2] = b
    BY <1>1, ConcatProperties
  <2>2. \A i \in 1..2 : i = 1 \/ i = 2
    OBVIOUS
  <2>3. \A i \in 1..2 : (<<a>> \o <<b>>)[i] = <<a, b>>[i]
    BY <2>1, <2>2
  <2> DEFINE s == <<a>> \o <<b>>
             t == <<a, b>>
  <2>4. /\ s \in Seq({a, b}) /\ t \in Seq({a, b}) /\ Len(s) = 2 /\ Len(t) = 2
        /\ \A i \in 1..2 : s[i] = t[i]
    BY <2>1, <2>3, <1>1
  <2> HIDE DEF s, t
  <2>5. s = t
    BY <2>4, SeqEqual
  <2> QED BY <2>5 DEF s, t
<1> QED BY <1>2, <1>3

\* The wires a gate frees are operands of it that nobody reads after it.
LEMMA DeadFacts ==
    ASSUME TypeOK, ProgramOK, at <= Len(gates)
    PROVE  /\ Dead(at) \in Seq(Wires)
           /\ DOMAIN Dead(at) = 1..Len(Dead(at)) /\ Len(Dead(at)) \in Nat
           /\ \A i \in DOMAIN Dead(at) :
                 /\ Dead(at)[i] \in Operands(Gate)
                 /\ ~persist[Dead(at)[i]] /\ lastUse[Dead(at)[i]] = at
           /\ \A i, j \in DOMAIN Dead(at) : Dead(at)[i] = Dead(at)[j] => i = j
<1> DEFINE a == gates[at].in0
           b == gates[at].in1
           dies(w) == ~persist[w] /\ lastUse[w] = at
           both == gates[at].typ # "Inv" /\ b # a /\ dies(b)
           dead == Dead(at)
<1>1. /\ Gate = gates[at] /\ a \in Operands(Gate) /\ (gates[at].typ # "Inv" => b \in Operands(Gate))
      /\ \A w \in Operands(Gate) : w \in Wires
  BY GateFacts
<1>2. dead = (IF dies(a) THEN <<a>> ELSE <<>>) \o (IF both THEN <<b>> ELSE <<>>)
  BY DEF Dead
<1> HIDE DEF dead
<1>3. CASE dies(a) /\ both
  <2>1. dead = <<a, b>>
    <3>1. dead = <<a>> \o <<b>>
      BY <1>2, <1>3, Zenon
    <3> QED BY <3>1, ShortLists
  <2>2. a \in Wires /\ b \in Wires /\ a \in Operands(Gate) /\ b \in Operands(Gate) /\ a # b
    BY <1>1, <1>3
  <2>3. ~persist[a] /\ lastUse[a] = at /\ ~persist[b] /\ lastUse[b] = at
    BY <1>3
  <2> HIDE DEF a, b
  <2>4. /\ dead \in Seq(Wires) /\ DOMAIN dead = 1..2 /\ Len(dead) = 2
        /\ dead[1] = a /\ dead[2] = b
    BY <2>1, <2>2
  <2>5. \A i \in 1..2 : i = 1 \/ i = 2
    OBVIOUS
  <2> QED BY <2>2, <2>3, <2>4, <2>5 DEF dead
<1>4. CASE dies(a) /\ ~both
  <2>1. dead = <<a>>
    <3>1. dead = <<a>> \o <<>>
      BY <1>2, <1>4, Zenon
    <3> QED BY <3>1, ShortLists
  <2>2. a \in Wires /\ a \in Operands(Gate) /\ ~persist[a] /\ lastUse[a] = at
    BY <1>1, <1>4
  <2> HIDE DEF a
  <2>4. dead \in Seq(Wires) /\ DOMAIN dead = 1..1 /\ Len(dead) = 1 /\ dead[1] = a
    BY <2>1, <2>2
  <2>5. \A i \in 1..1 : i = 1
    OBVIOUS
  <2> QED BY <2>2, <2>4, <2>5 DEF dead
<1>5. CASE ~dies(a) /\ both
  <2>1. dead = <<b>>
    <3>1. dead = <<>> \o <<b>>
      BY <1>2, <1>5, Zenon
    <3> QED BY <3>1, ShortLists
  <2>2. b \in Wires /\ b \in Operands(Gate) /\ ~persist[b] /\ lastUse[b] = at
    BY <1>1, <1>5
  <2> HIDE DEF b
  <2>4. dead \in Seq(Wires) /\ DOMAIN dead = 1..1 /\ Len(dead) = 1 /\ dead[1] = b
    BY <2>1, <2>2
  <2>5. \A i \in 1..1 : i = 1
    OBVIOUS
  <2> QED BY <2>2, <2>4, <2>5 DEF dead
<1>6. CASE ~dies(a) /\ ~both
  <2>1. dead = <<>>
    BY <1>2, <1>6, SMTT(30)
  <2> QED BY <2>1 DEF dead
<1> QED BY <1>3, <1>4, <1>5, <1>6

\* The slot the allocator gives is below the first unused one or that one
\* itself, and what it leaves of the freelist does not have it any more.
LEMMA AllocFacts ==
    ASSUME TypeOK, FreelistOK, pass = "mask", NEW b \in BOOLEAN,
           NEW s, s = Allocated(b, freelist, numSlots),
           NEW rem, rem = Remaining(b, freelist)
    PROVE  /\ rem \in Seq(Wires) /\ DOMAIN rem = 1..Len(rem) /\ Len(rem) \in Nat
           /\ \A i \in DOMAIN rem : i \in DOMAIN freelist /\ rem[i] = freelist[i]
           /\ \A i \in DOMAIN rem : rem[i] # s
           /\ \/ s = numSlots
              \/ ~b /\ s \in 0..(numSlots - 1) /\ \E i \in DOMAIN freelist : s = freelist[i]
<1>1. /\ freelist \in Seq(Wires) /\ DOMAIN freelist = 1..Len(freelist) /\ Len(freelist) \in Nat
      /\ \A i \in DOMAIN freelist : freelist[i] \in 0..(numSlots - 1)
      /\ \A i, j \in DOMAIN freelist : freelist[i] = freelist[j] => i = j
      /\ numSlots \in Nat
  <2>1. freelist \in Seq(Wires) /\ numSlots \in Nat
    BY WireFacts DEF TypeOK
  <2> QED BY <2>1 DEF FreelistOK
<1>2. CASE Pops(b, freelist)
  <2> DEFINE k == Len(freelist)
  <2>1. ~b /\ k \in Nat /\ k # 0 /\ k \in DOMAIN freelist
    BY <1>1, <1>2, EmptySeq DEF Pops
  <2>2. s = freelist[k] /\ rem = SubSeq(freelist, 1, k - 1)
    BY <1>2 DEF Allocated, Remaining
  <2>3. /\ rem \in Seq(Wires) /\ Len(rem) = k - 1
        /\ \A i \in 1..(k - 1) : rem[i] = freelist[i]
    BY <2>1, <2>2, <1>1
  <2>4. DOMAIN rem = 1..(k - 1)
    BY <2>3
  <2>5. DOMAIN freelist = 1..k
    BY <1>1
  <2> HIDE DEF k
  <2>6. \A i \in 1..(k - 1) : i \in DOMAIN freelist /\ i # k
    BY <2>1, <2>5
  <2> QED BY <2>1, <2>2, <2>3, <2>4, <2>6, <1>1
<1>3. CASE ~Pops(b, freelist)
  <2>1. s = numSlots /\ rem = freelist
    BY <1>3 DEF Allocated, Remaining
  <2>2. \A i \in DOMAIN freelist : freelist[i] # numSlots
    BY <1>1
  <2> QED BY <2>1, <2>2, <1>1
<1> QED BY <1>2, <1>3

\* Slots in use stay in use.
LEMMA RangeGrows ==
    ASSUME NEW m \in Nat, NEW n \in Nat, m <= n
    PROVE  \A e \in 0..(m - 1) : e \in 0..(n - 1)
OBVIOUS

LEMMA SlotMaskGateInv ==
    ASSUME IInv, SlotMaskGate
    PROVE  IInv'
<1> DEFINE s == Allocated(persist[Out], freelist, numSlots)
           rem == Remaining(persist[Out], freelist)
           dead == Dead(at)
           freed == [i \in DOMAIN dead |-> phys[dead[i]]]
           share == IF Gate.typ = "And" THEN value["share"][Out] ELSE Linear("share")
<1>1. /\ TypeOK /\ ProgramOK /\ LivenessOK /\ PlanOK /\ FreelistOK /\ ContentsOK
      /\ pass = "mask" /\ at <= Len(gates)
  BY DEF IInv, SlotMaskGate
<1>2. /\ at \in 1..Len(gates) /\ Out = NumInputs + at - 1 /\ Out \in Wires
      /\ Out \in NumInputs..(NumWires - 1) /\ Out = GateOut(at) /\ Gate = gates[at]
      /\ NumInputs \in Nat /\ Len(gates) \in Nat /\ NumWires = NumInputs + Len(gates)
      /\ Wires = 0..(NumWires - 1)
      /\ numSlots \in NumInputs..NumWires
      /\ \A w \in Wires : lastUse[w] \in 0..Len(gates) /\ persist[w] \in BOOLEAN
      /\ phys \in [Wires -> Wires \cup {Unassigned}]
      /\ \A w \in Operands(Gate) : w \in Wires /\ w < Out
  BY <1>1, GateFacts, WireFacts DEF TypeOK
<1>3. /\ pass' = "mask" /\ at' = at + 1 /\ lastUse' = lastUse /\ persist' = persist
      /\ numAnds' = numAnds /\ gates' = gates /\ value' = value /\ outLen' = outLen
      /\ party' = party
      /\ phys' = [phys EXCEPT ![Out] = s]
      /\ numSlots' = IF s = numSlots THEN numSlots + 1 ELSE numSlots
      /\ freelist' = rem \o freed
      /\ slot' = [slot EXCEPT !["share"][s] = share, !["lambda"][s] = Zero]
  BY <1>1 DEF SlotMaskGate, program
<1>4. ProgramOK' /\ NumWires' = NumWires /\ Wires' = Wires /\ Outputs' = Outputs
  BY <1>1, <1>3, SameProgram DEF Outputs
<1>5. Top = Out /\ Top' = Out + 1 /\ Out' = Out + 1
  BY <1>1, <1>2, <1>3 DEF Top, Out, GateOut
<1>6. /\ numSlots <= Out
      /\ \A w \in Wires : w < NumInputs => phys[w] = w /\ persist[w]
      /\ \A w \in Wires : w < Out => phys[w] \in 0..(numSlots - 1)
      /\ \A u, v \in Wires :
              u < v /\ v < Out /\ phys[u] = phys[v] =>
                  ~persist[u] /\ ~persist[v] /\ lastUse[u] + NumInputs <= v
  BY <1>1, <1>5 DEF PlanOK, LivenessOK
<1>7. /\ rem \in Seq(Wires) /\ DOMAIN rem = 1..Len(rem) /\ Len(rem) \in Nat
      /\ \A i \in DOMAIN rem : i \in DOMAIN freelist /\ rem[i] = freelist[i]
      /\ \A i \in DOMAIN rem : rem[i] # s
      /\ \/ s = numSlots
         \/ ~persist[Out] /\ s \in 0..(numSlots - 1) /\ \E i \in DOMAIN freelist : s = freelist[i]
  BY <1>1, <1>2, AllocFacts
<1>8. /\ dead \in Seq(Wires) /\ DOMAIN dead = 1..Len(dead) /\ Len(dead) \in Nat
      /\ \A i \in DOMAIN dead : /\ dead[i] \in Wires /\ dead[i] < Out
                                /\ ~persist[dead[i]] /\ lastUse[dead[i]] = at
      /\ \A i, j \in DOMAIN dead : dead[i] = dead[j] => i = j
  BY <1>1, <1>2, DeadFacts
<1> HIDE DEF s, rem, dead, share
<1>N. /\ at \in Nat /\ Out \in Nat /\ NumInputs \in Nat /\ Out = NumInputs + at - 1
      /\ 1 <= at /\ at <= Len(gates) /\ Len(gates) \in Nat
  BY <1>2
<1>9. /\ \A i \in DOMAIN freelist : freelist[i] \in 0..(numSlots - 1)
      /\ \A i, j \in DOMAIN freelist : freelist[i] = freelist[j] => i = j
      /\ \A i \in DOMAIN freelist : \A w \in Wires :
              w < Out /\ phys[w] = freelist[i] => ~persist[w] /\ lastUse[w] < at
  BY <1>1 DEF FreelistOK
\* Whoever had the slot before is read no more.
<1>10. \A w \in Wires : w < Out /\ phys[w] = s =>
          ~persist[w] /\ ~persist[Out] /\ lastUse[w] < at
  BY <1>2, <1>6, <1>7, <1>9
<1>11. /\ s \in Wires /\ s \in 0..numSlots
       /\ s \in 0..(numSlots' - 1) /\ numSlots <= numSlots' /\ numSlots' <= Out + 1
       /\ numSlots' \in NumInputs..NumWires
  <2>1. s = numSlots \/ s \in 0..(numSlots - 1)
    BY <1>7
  <2>2. /\ numSlots \in Nat /\ NumInputs \in Nat /\ Out \in Nat /\ NumWires \in Nat
        /\ NumInputs <= numSlots /\ numSlots <= Out /\ Out <= NumWires - 1
    BY <1>2, <1>6
  <2>3. numSlots' = IF s = numSlots THEN numSlots + 1 ELSE numSlots
    BY <1>3
  <2>4. s \in 0..numSlots /\ s \in 0..(NumWires - 1)
    BY <2>1, <2>2
  <2>5. CASE s = numSlots
    BY <2>2, <2>3, <2>4, <2>5, <1>2
  <2>6. CASE s # numSlots
    BY <2>1, <2>2, <2>3, <2>4, <2>6, <1>2
  <2> QED BY <2>5, <2>6
<1>M. \A e \in 0..(numSlots - 1) : e \in 0..(numSlots' - 1)
  <2>1. numSlots \in Nat /\ numSlots' \in Nat /\ numSlots <= numSlots'
    BY <1>2, <1>11
  <2> QED BY <2>1, RangeGrows
<1>12. /\ phys'[Out] = s /\ \A w \in Wires : w # Out => phys'[w] = phys[w]
       /\ phys' \in [Wires -> Wires \cup {Unassigned}]
  BY <1>2, <1>3, <1>11
<1>13. PlanOK'
  <2>1. ASSUME NEW w \in Wires, w < Out + 1
        PROVE  phys'[w] \in 0..(numSlots' - 1)
    <3>1. CASE w = Out
      BY <3>1, <1>11, <1>12
    <3>2. CASE w # Out
      <4>1. w < Out /\ phys'[w] = phys[w]
        BY <3>2, <2>1, <1>2, <1>12
      <4>2. phys[w] \in 0..(numSlots - 1)
        BY <4>1, <1>6
      <4> QED BY <4>1, <4>2, <1>2, <1>11, SMTT(30)
    <3> QED BY <3>1, <3>2
  <2>2. ASSUME NEW u \in Wires, NEW v \in Wires, u < v, v < Out + 1, phys'[u] = phys'[v]
        PROVE  ~persist[u] /\ ~persist[v] /\ lastUse[u] + NumInputs <= v
    <3>1. u < Out /\ phys'[u] = phys[u]
      BY <2>2, <1>2, <1>12
    <3>2. CASE v = Out
      <4>1. ~persist[u] /\ ~persist[Out] /\ lastUse[u] < at
        BY <3>1, <3>2, <2>2, <1>10, <1>12
      <4> QED BY <4>1, <3>2, <1>2, SMTT(30)
    <3>3. CASE v # Out
      <4>1. v < Out /\ phys'[v] = phys[v]
        BY <3>3, <2>2, <1>2, <1>12
      <4> QED BY <4>1, <3>1, <2>2, <1>6
    <3> QED BY <3>2, <3>3
  <2>3. \A w \in Wires : w < NumInputs => phys'[w] = w
    BY <1>2, <1>6, <1>12
  <2> QED BY <2>1, <2>2, <2>3, <1>3, <1>4, <1>5, <1>11 DEF PlanOK
<1>14. /\ freed \in Seq(Wires) /\ DOMAIN freed = DOMAIN dead
       /\ \A i \in DOMAIN freed : freed[i] = phys[dead[i]] /\ freed[i] \in 0..(numSlots - 1)
  <2>1. \A i \in DOMAIN dead : phys[dead[i]] \in 0..(numSlots - 1)
    BY <1>6, <1>8
  <2>2. \A i \in DOMAIN dead : phys[dead[i]] \in Wires
    BY <2>1, <1>2
  <2> QED BY <2>1, <2>2, <1>8
<1> HIDE DEF freed
\* The slots freed now are those of no other wire that is still read.
<1>15. ASSUME NEW i \in DOMAIN freed, NEW w \in Wires, w < Out, phys[w] = freed[i]
       PROVE  ~persist[w] /\ lastUse[w] < at + 1 /\ (w # dead[i] => lastUse[w] < at)
  <2>1. /\ dead[i] \in Wires /\ dead[i] < Out /\ ~persist[dead[i]] /\ lastUse[dead[i]] = at
        /\ phys[w] = phys[dead[i]]
    BY <1>8, <1>14, <1>15
  <2>2. CASE w = dead[i]
    BY <2>1, <2>2, <1>2
  <2>3. CASE w < dead[i]
    <3>1. ~persist[w] /\ lastUse[w] + NumInputs <= dead[i]
      BY <2>1, <2>3, <1>6, <1>15
    <3>2. lastUse[w] \in Nat /\ dead[i] \in Nat /\ dead[i] < Out
      BY <2>1, <1>2
    <3>3. lastUse[w] < at
      BY <3>1, <3>2, <1>N
    <3> QED BY <3>1, <3>2, <3>3, <1>N
  <2>4. CASE dead[i] < w
    <3>1. lastUse[dead[i]] + NumInputs <= w
      BY <2>1, <2>4, <1>6, <1>15
    <3>2. w \in Nat
      BY <1>2
    <3> QED BY <3>1, <3>2, <2>1, <1>N, <1>15
  <2>5. w < dead[i] \/ w = dead[i] \/ dead[i] < w
    BY <2>1, <1>2
  <2> QED BY <2>2, <2>3, <2>4, <2>5, Zenon
<1>16. \A i \in DOMAIN freed : freed[i] # s
  <2> SUFFICES ASSUME NEW i \in DOMAIN freed, freed[i] = s
               PROVE  FALSE
    OBVIOUS
  <2>1. dead[i] \in Wires /\ dead[i] < Out /\ lastUse[dead[i]] = at /\ phys[dead[i]] = s
    BY <1>8, <1>14
  <2>2. lastUse[dead[i]] < at
    BY <2>1, <1>10
  <2> QED BY <2>1, <2>2, <1>N
<1>17. FreelistOK' /\ freelist' \in Seq(Wires)
  <2>1. \A i, j \in DOMAIN rem : rem[i] = rem[j] => i = j
    BY <1>7, <1>9
  <2>2. ASSUME NEW i \in DOMAIN freed, NEW j \in DOMAIN freed, freed[i] = freed[j]
        PROVE  i = j
    <3>1. dead[j] \in Wires /\ dead[j] < Out /\ phys[dead[j]] = freed[i] /\ lastUse[dead[j]] = at
      BY <2>2, <1>8, <1>14
    <3>2. dead[j] = dead[i]
      BY <3>1, <1>2, <1>15, SMTT(30)
    <3> QED BY <3>2, <1>8, <1>14
  <2>3. \A i \in DOMAIN rem, j \in DOMAIN freed : rem[i] # freed[j]
    <3>1. SUFFICES ASSUME NEW i \in DOMAIN rem, NEW j \in DOMAIN freed, rem[i] = freed[j]
                   PROVE  FALSE
      OBVIOUS
    <3>2. dead[j] \in Wires /\ dead[j] < Out /\ phys[dead[j]] = rem[i] /\ lastUse[dead[j]] = at
      BY <3>1, <1>8, <1>14
    <3>3. lastUse[dead[j]] < at
      BY <3>2, <1>7, <1>9
    <3> QED BY <3>2, <3>3, <1>2
  <2>4. \A i, j \in DOMAIN freelist' : freelist'[i] = freelist'[j] => i = j
    BY <2>1, <2>2, <2>3, <1>3, <1>7, <1>14, ConcatInjective
  <2>5. ASSUME NEW i \in DOMAIN freelist'
        PROVE  \/ \E k \in DOMAIN rem : freelist'[i] = rem[k]
               \/ \E k \in DOMAIN freed : freelist'[i] = freed[k]
    <3>1. /\ Len(freed) \in Nat /\ DOMAIN freed = 1..Len(freed)
          /\ DOMAIN freelist' = 1..(Len(rem) + Len(freed))
          /\ \A k \in 1..Len(rem) : freelist'[k] = rem[k]
          /\ \A k \in (Len(rem) + 1)..(Len(rem) + Len(freed)) : freelist'[k] = freed[k - Len(rem)]
      BY <1>3, <1>7, <1>14, ConcatFacts
    <3>2. CASE i \in 1..Len(rem)
      BY <3>1, <3>2, <1>7
    <3>3. CASE i \notin 1..Len(rem)
      <4>1. i \in (Len(rem) + 1)..(Len(rem) + Len(freed)) /\ i - Len(rem) \in 1..Len(freed)
        BY <3>1, <3>3, <1>7
      <4> QED BY <4>1, <3>1
    <3> QED BY <3>2, <3>3
  <2>6. ASSUME NEW i \in DOMAIN freelist'
        PROVE  /\ freelist'[i] \in 0..(numSlots' - 1)
               /\ \A w \in Wires : w < Out + 1 /\ phys'[w] = freelist'[i] =>
                     ~persist[w] /\ lastUse[w] < at + 1
    <3> DEFINE e == freelist'[i]
    <3>1. /\ e \in 0..(numSlots - 1) /\ e # s
          /\ \A w \in Wires : w < Out /\ phys[w] = e => ~persist[w] /\ lastUse[w] < at + 1
      <4>1. CASE \E k \in DOMAIN rem : e = rem[k]
        <5>1. PICK k \in DOMAIN rem : e = rem[k]
          BY <4>1
        <5>2. k \in DOMAIN freelist /\ e = freelist[k] /\ e # s
          BY <5>1, <1>7
        <5> HIDE DEF e
        <5>3. \A w \in Wires : w < Out /\ phys[w] = e => ~persist[w] /\ lastUse[w] < at + 1
          BY <5>2, <1>2, <1>9, SMTT(30)
        <5> QED BY <5>2, <5>3, <1>9
      <4>2. CASE \E k \in DOMAIN freed : e = freed[k]
        <5>1. PICK k \in DOMAIN freed : e = freed[k]
          BY <4>2
        <5> HIDE DEF e
        <5> QED BY <5>1, <1>14, <1>15, <1>16
      <4> QED BY <4>1, <4>2, <2>5
    <3> HIDE DEF e
    <3>2. \A w \in Wires : w < Out + 1 /\ phys'[w] = e => w < Out /\ phys[w] = e
      <4>1. \A w \in Wires : w < Out + 1 /\ w # Out => w < Out
        BY <1>2
      <4> QED BY <4>1, <3>1, <1>12
    <3>3. e \in 0..(numSlots' - 1)
      BY <3>1, <1>M, Zenon
    <3> QED BY <3>1, <3>2, <3>3 DEF e
  <2>7. freelist' \in Seq(Wires)
    BY <1>3, <1>7, <1>14, ConcatFacts
  <2> QED BY <2>4, <2>6, <2>7, <1>3, <1>4, <1>5 DEF FreelistOK
\* The output's share is right, whatever the gate.
<1>18. share = value["share"][Out] /\ Holds("share", Out)
  <2>1. "share" \in Field /\ Holds("share", Out)
    BY <1>1 DEF ContentsOK, Computing, Field
  <2>2. Gate.typ # "And" => Linear("share") = value["share"][Out]
    BY <2>1, <1>1, LinearRight
  <2> QED BY <2>1, <2>2 DEF share
<1>19. /\ slot' \in [Field -> [Wires -> SUBSET Int]]
       /\ slot'["share"][s] = value["share"][Out]
       /\ \A f \in Field : \A r \in Wires : r # s => slot'[f][r] = slot[f][r]
  <2>1. slot \in [Field -> [Wires -> SUBSET Int]] /\ value["share"][Out] \in SUBSET Int
    BY <1>1, <1>2 DEF TypeOK, Field
  <2>2. slot' = [f \in Field |-> [r \in Wires |->
           IF r # s THEN slot[f][r] ELSE IF f = "lambda" THEN Zero
           ELSE IF f = "share" THEN value["share"][Out] ELSE slot[f][r]]]
    BY <2>1, <1>3, <1>11, <1>18 DEF Field
  <2>3. \A f \in Field : \A r \in Wires : slot[f][r] \in SUBSET Int
    BY <2>1
  <2>4. "share" \in Field
    BY DEF Field
  <2> QED BY <2>1, <2>2, <2>3, <2>4, <1>11 DEF Zero
<1>20. ContentsOK'
  <2>1. Computing' = {"share"} /\ Finished' = {} /\ "share" \in Field
    BY <1>3 DEF Computing, Finished, Field
  <2>2. \A w \in Wires : w < NumInputs => w # s
    <3>1. \A w \in Wires : w < NumInputs => w < Out
      BY <1>2
    <3> QED BY <3>1, <1>6, <1>10
  <2>3. \A f \in Field : \A w \in Wires : w < NumInputs => slot'[f][w] = value[f][w]
    BY <2>2, <1>1, <1>19 DEF ContentsOK
  <2>4. Holds("share", Out)'
    <3> SUFFICES ASSUME NEW w \in Wires, w < Out + 1,
                        \A v \in Wires : w < v /\ v < Out + 1 => phys'[v] # phys'[w]
                 PROVE  slot'["share"][phys'[w]] = value["share"][w]
      BY <1>3, <1>4, <1>5 DEF Holds
    <3>1. CASE w = Out
      BY <3>1, <1>12, <1>19
    <3>2. CASE w # Out
      <4>1. w < Out /\ phys'[w] = phys[w] /\ phys[w] # s
        BY <3>2, <1>2, <1>12
      <4>2. \A v \in Wires : w < v /\ v < Out => phys[v] # phys[w]
        BY <4>1, <1>2, <1>12
      <4>3. slot["share"][phys[w]] = value["share"][w]
        BY <4>1, <4>2, <1>18 DEF Holds
      <4>4. phys[w] \in Wires
        BY <4>1, <1>2, <1>6
      <4> QED BY <4>1, <4>3, <4>4, <2>1, <1>19
    <3> QED BY <3>1, <3>2
  <2>5. ASSUME NEW g \in 1..Len(gates), gates[g].typ = "And", GateOut(g) < Out + 1
        PROVE  slot'["share"][phys'[GateOut(g)]] = value["share"][GateOut(g)]
    <3>1. CASE GateOut(g) = Out
      BY <3>1, <1>12, <1>19
    <3>2. CASE GateOut(g) # Out
      <4>1. GateOut(g) \in Wires /\ GateOut(g) < Out
        BY <3>2, <2>5, <1>1, <1>2, WireFacts
      <4>2. persist[GateOut(g)]
        BY <2>5, <1>1 DEF LivenessOK, Seen
      <4>3. phys[GateOut(g)] \in Wires /\ phys[GateOut(g)] # s
        BY <4>1, <4>2, <1>2, <1>6, <1>10, SMTT(30)
      <4>4. slot["share"][phys[GateOut(g)]] = value["share"][GateOut(g)]
        BY <4>1, <2>5, <1>1, <1>5 DEF ContentsOK
      <4> QED BY <4>1, <4>3, <4>4, <2>1, <1>12, <1>19, <3>2
    <3> QED BY <3>1, <3>2
  <2> QED BY <2>1, <2>3, <2>4, <2>5, <1>3, <1>4, <1>5, ZenonT(40) DEF ContentsOK
<1>21. TypeOK'
  <2>1. at' \in 1..(Len(gates) + 1)
    <3>1. at' = at + 1
      BY <1>3
    <3> QED BY <3>1, <1>N
  <2> QED BY <2>1, <1>1, <1>3, <1>4, <1>11, <1>12, <1>17, <1>19 DEF TypeOK
<1>22. LivenessOK'
  BY <1>1, <1>3, <1>4 DEF LivenessOK, Seen
<1> QED BY <1>3, <1>4, <1>13, <1>17, <1>20, <1>21, <1>22 DEF IInv, Untouched, PassOK

-----------------------------------------------------------------------------
(* The passes over the plan. *)

\* A pass ends and the next begins with what the inputs and the finished
\* fields hold.
LEMMA PassEnds ==
    ASSUME IInv, pass \in {"mask", "garble", "evaluate", "gamma"}, at > Len(gates),
           UNCHANGED <<program, plan, slot>>, at' = 1,
           pass' \in {"garble", "evaluate", "gamma", "gather"},
           Finished' \subseteq Computing \cup Finished, PassOK'
    PROVE  IInv'
<1>1. /\ TypeOK /\ ProgramOK /\ LivenessOK /\ PlanOK /\ ContentsOK /\ at = Len(gates) + 1
      /\ pass \notin {"build", "liveness"} /\ pass' \notin {"build", "liveness", "mask"}
      /\ Len(gates) \in Nat /\ NumInputs \in Nat /\ NumWires = NumInputs + Len(gates)
  <2>1. TypeOK /\ ProgramOK /\ LivenessOK /\ PlanOK /\ ContentsOK
    BY DEF IInv
  <2>2. Len(gates) \in Nat /\ NumInputs \in Nat /\ NumWires = NumInputs + Len(gates)
    BY <2>1, WireFacts
  <2>3. at \in 1..(Len(gates) + 1)
    BY <2>1 DEF TypeOK
  <2> QED BY <2>1, <2>2, <2>3
<1>2. /\ gates' = gates /\ value' = value /\ outLen' = outLen /\ party' = party
      /\ lastUse' = lastUse /\ persist' = persist /\ phys' = phys /\ freelist' = freelist
      /\ numSlots' = numSlots /\ numAnds' = numAnds /\ slot' = slot
  BY DEF program, plan
<1>3. ProgramOK' /\ NumWires' = NumWires /\ Wires' = Wires /\ Outputs' = Outputs
  BY <1>1, <1>2, SameProgram DEF Outputs
<1>4. Out = NumWires /\ Out' = NumInputs /\ Top = NumWires /\ Top' = NumWires
  BY <1>1, <1>3 DEF Top, Out, GateOut
<1>5. TypeOK'
  BY <1>1, <1>2, <1>3 DEF TypeOK
<1>6. LivenessOK'
  BY <1>1, <1>2, <1>3 DEF LivenessOK, Seen
<1>7. PlanOK'
  BY <1>1, <1>2, <1>3, <1>4 DEF PlanOK
<1>8. ContentsOK'
  <2>1. \A f \in Field : \A w \in Wires : w < NumInputs => slot[f][w] = value[f][w]
    BY <1>1 DEF ContentsOK
  <2>2. Computing' \subseteq Field
    BY <1>1 DEF Computing, Computed, Field
  <2>3. \A f \in Field : Holds(f, Out)'
    <3>1. \A w \in Wires : w < NumInputs => phys[w] = w
      BY <1>1 DEF PlanOK
    <3> QED BY <3>1, <2>1, <1>2, <1>3, <1>4 DEF Holds
  <2>4. \A f \in Computing \cup Finished : Holds(f, NumWires)
    BY <1>1, <1>4 DEF ContentsOK
  <2>5. \A f : Holds(f, NumWires) => Holds(f, NumWires)'
    BY <1>2, <1>3 DEF Holds
  <2>6. \A f \in Finished' : Holds(f, NumWires)'
    BY <2>4, <2>5
  <2>7. \A g \in 1..Len(gates) :
                gates[g].typ = "And" /\ GateOut(g) < Top =>
                    slot["share"][phys[GateOut(g)]] = value["share"][GateOut(g)]
    BY <1>1 DEF ContentsOK
  <2> QED BY <2>1, <2>2, <2>3, <2>6, <2>7, <1>1, <1>2, <1>3, <1>4 DEF ContentsOK
<1> QED BY <1>1, <1>3, <1>5, <1>6, <1>7, <1>8 DEF IInv, Untouched, FreelistOK

LEMMA EndsInv ==
    ASSUME IInv, SlotMaskEnd \/ GarblerEnd \/ LastEnd
    PROVE  IInv'
<1>1. /\ party \in {"Alice", "Bob"} /\ numAnds \in Nat /\ PassOK
      /\ at > Len(gates) /\ at' = 1 /\ UNCHANGED <<program, plan, slot>>
  BY DEF IInv, TypeOK, SlotMaskEnd, GarblerEnd, LastEnd
<1>2. party' = party /\ numAnds' = numAnds
  BY <1>1 DEF program, plan
<1>3. CASE SlotMaskEnd
  <2>1. pass = "mask" /\ pass' = IF party = "Alice" THEN "garble" ELSE "evaluate"
    BY <1>3 DEF SlotMaskEnd
  <2>2. pass' \in {"garble", "evaluate"} /\ Finished' = {} /\ PassOK'
    BY <2>1, <1>1, <1>2 DEF Finished, PassOK
  <2> QED BY <2>1, <2>2, <1>1, PassEnds
<1>4. CASE GarblerEnd
  <2>1. /\ pass = "garble" /\ pass' = IF numAnds > 0 THEN "gamma" ELSE "gather"
        /\ party = "Alice"
    BY <1>4, <1>1 DEF GarblerEnd, PassOK
  <2>2. Computing = {"share", "label"}
    BY <2>1 DEF Computing, Computed
  <2>3. Finished' \subseteq {"share", "label"}
    BY <2>1, <1>1, <1>2 DEF Finished
  <2>4. PassOK' /\ pass' \in {"gamma", "gather"}
    BY <2>1, <1>1, <1>2 DEF PassOK
  <2> QED BY <2>1, <2>2, <2>3, <2>4, <1>1, PassEnds
<1>5. CASE LastEnd
  <2>1. pass \in {"evaluate", "gamma"} /\ pass' = "gather"
    BY <1>5 DEF LastEnd
  <2>2. PassOK'
    BY <2>1 DEF PassOK
  <2>3. CASE pass = "evaluate"
    <3>1. Computing = {"share", "eval", "lambda"} /\ party' = "Bob"
      BY <2>3, <1>1, <1>2 DEF Computing, Computed, PassOK
    <3>2. Finished' = {"share", "eval"} \cup {"lambda"}
      BY <3>1, <2>1 DEF Finished
    <3> QED BY <3>1, <3>2, <2>1, <2>2, <2>3, <1>1, PassEnds
  <2>4. CASE pass = "gamma"
    <3>1. Computing = {"share", "lambda"} /\ Finished = {"label"} /\ party' = "Alice"
      BY <2>4, <1>1, <1>2 DEF Computing, Computed, Finished, PassOK
    <3>2. Finished' \subseteq {"share", "label", "lambda"}
      BY <3>1, <2>1 DEF Finished
    <3> QED BY <3>1, <3>2, <2>1, <2>2, <2>4, <1>1, PassEnds
  <2> QED BY <2>1, <2>3, <2>4
<1> QED BY <1>3, <1>4, <1>5

LEMMA RunGateInv ==
    ASSUME IInv, NEW p \in {"garble", "evaluate", "gamma"}, RunGate(p)
    PROVE  IInv'
<1>1. /\ TypeOK /\ ProgramOK /\ LivenessOK /\ PlanOK /\ ContentsOK /\ PassOK
      /\ pass = p /\ at <= Len(gates)
  BY DEF IInv, RunGate
<1>2. /\ at \in 1..Len(gates) /\ Out = NumInputs + at - 1 /\ Out \in Wires
      /\ Out \in NumInputs..(NumWires - 1) /\ Out = GateOut(at) /\ Gate = gates[at]
      /\ NumInputs \in Nat /\ Len(gates) \in Nat /\ NumWires = NumInputs + Len(gates)
      /\ Wires = 0..(NumWires - 1)
  BY <1>1, GateFacts, WireFacts
<1>3. /\ pass' = p /\ at' = at + 1 /\ lastUse' = lastUse /\ persist' = persist
      /\ numAnds' = numAnds /\ gates' = gates /\ value' = value /\ outLen' = outLen
      /\ party' = party /\ phys' = phys /\ freelist' = freelist /\ numSlots' = numSlots
  BY <1>1 DEF RunGate, program, plan
<1>4. ProgramOK' /\ NumWires' = NumWires /\ Wires' = Wires /\ Outputs' = Outputs
  BY <1>1, <1>3, SameProgram DEF Outputs
<1>5. Top = NumWires /\ Top' = NumWires /\ Out' = Out + 1
  BY <1>1, <1>2, <1>3, <1>4 DEF Top, Out, GateOut
<1>6. /\ \A w \in Wires : w < NumInputs => phys[w] = w
      /\ \A w \in Wires : persist[w] /\ w # Out => phys[w] # phys[Out]
      /\ \A w \in Wires : phys[w] \in Wires
      /\ \A w \in Wires : w < NumInputs => persist[w]
  <2>1. /\ \A w \in Wires : w < NumInputs => phys[w] = w
        /\ \A w \in Wires : w < NumWires => phys[w] \in 0..(numSlots - 1)
        /\ \A u, v \in Wires : u < v /\ v < NumWires /\ phys[u] = phys[v] =>
              ~persist[u] /\ ~persist[v]
    BY <1>1, <1>5 DEF PlanOK
  <2>2. \A w \in Wires : w < NumWires /\ (w # Out => w < Out \/ Out < w)
    BY <1>2
  <2>3. \A w \in Wires : persist[w] /\ w # Out => phys[w] # phys[Out]
    BY <2>1, <2>2, <1>2
  <2>4. numSlots \in NumInputs..NumWires
    BY <1>1 DEF TypeOK
  <2>5. \A x \in 0..(numSlots - 1) : x \in Wires
    BY <2>4, <1>2
  <2>6. \A w \in Wires : w < NumInputs => persist[w]
    BY <1>1 DEF LivenessOK
  <2> QED BY <2>1, <2>2, <2>3, <2>5, <2>6
<1>7. /\ Computing = Computed[p] /\ Computing' = Computed[p]
      /\ Computed[p] \subseteq Field /\ "share" \in Computed[p]
      /\ Finished' = Finished /\ Finished \cap Computed[p] = {} /\ Finished \subseteq Field
  BY <1>1, <1>3 DEF Computing, Computed, Finished, Field
<1>8. \A f \in Computed[p] : Holds(f, Out)
  BY <1>1, <1>7 DEF ContentsOK
\* A field the pass computes gets the value of the gate's output; the share
\* of an AND has it already.
<1>9. ASSUME NEW f \in Field
      PROVE  /\ f \in Computed[p] => slot'[f][phys[Out]] = value[f][Out]
             /\ \A r \in Wires : r # phys[Out] => slot'[f][r] = slot[f][r]
             /\ f \notin Computed[p] \/ (Gate.typ = "And" /\ f = "share") => slot'[f] = slot[f]
             /\ slot'[f] \in [Wires -> SUBSET Int]
  <2>1. slot[f] \in [Wires -> SUBSET Int] /\ phys[Out] \in Wires /\ value[f][Out] \in SUBSET Int
    <3>1. /\ slot \in [Field -> [Wires -> SUBSET Int]]
          /\ value \in [Field -> [Wires -> SUBSET Int]]
      BY <1>1 DEF TypeOK
    <3>2. slot[f] \in [Wires -> SUBSET Int] /\ value[f] \in [Wires -> SUBSET Int]
      BY <3>1, Zenon
    <3>3. phys[Out] \in Wires /\ Out \in Wires
      BY <1>2, <1>6
    <3> QED BY <3>2, <3>3
  <2>2. CASE f \notin Computed[p] \/ (Gate.typ = "And" /\ f = "share")
    <3>1. slot'[f] = slot[f]
      BY <2>2 DEF RunGate
    <3>2. Gate.typ = "And" => slot["share"][phys[Out]] = value["share"][Out]
      <4>1. Out < Top /\ at \in 1..Len(gates) /\ GateOut(at) = Out /\ Gate = gates[at]
        BY <1>2, <1>5
      <4> QED BY <4>1, <1>1 DEF ContentsOK
    <3> QED BY <2>1, <2>2, <3>1, <3>2
  <2>3. CASE ~(f \notin Computed[p] \/ (Gate.typ = "And" /\ f = "share"))
    <3>1. slot'[f] = [slot[f] EXCEPT ![phys[Out]] =
              IF Gate.typ = "And" THEN value[f][Out] ELSE Linear(f)]
      BY <2>3 DEF RunGate
    <3>2. Gate.typ # "And" => Linear(f) = value[f][Out]
      BY <2>3, <1>1, <1>8, LinearRight
    <3>3. slot'[f] = [slot[f] EXCEPT ![phys[Out]] = value[f][Out]]
      BY <3>1, <3>2
    <3> QED BY <3>3, <2>1, <2>3
  <2> QED BY <2>2, <2>3
<1>10. ASSUME NEW f \in Computed[p]
       PROVE  Holds(f, Out)'
  <2> SUFFICES ASSUME NEW w \in Wires, w < Out + 1,
                      \A v \in Wires : w < v /\ v < Out + 1 => phys[v] # phys[w]
               PROVE  slot'[f][phys[w]] = value[f][w]
    BY <1>3, <1>4, <1>5 DEF Holds
  <2>1. CASE w = Out
    BY <2>1, <1>7, <1>9
  <2>2. CASE w # Out
    <3>1. w < Out /\ Out < Out + 1 /\ \A v \in Wires : v < Out => v < Out + 1
      BY <2>2, <1>2
    <3>2. phys[w] # phys[Out]
      BY <3>1, <1>2
    <3>3. slot[f][phys[w]] = value[f][w]
      BY <3>1, <1>8 DEF Holds
    <3> QED BY <3>2, <3>3, <1>6, <1>7, <1>9
  <2> QED BY <2>1, <2>2
<1>11. ASSUME NEW f \in Finished
       PROVE  Holds(f, NumWires)'
  <2>1. Holds(f, NumWires)
    BY <1>1 DEF ContentsOK
  <2>2. slot'[f] = slot[f]
    BY <1>7, <1>9
  <2> QED BY <2>1, <2>2, <1>3, <1>4 DEF Holds
<1>12. ASSUME NEW g \in 1..Len(gates), gates[g].typ = "And"
       PROVE  slot'["share"][phys[GateOut(g)]] = value["share"][GateOut(g)]
  <2>1. GateOut(g) \in Wires /\ GateOut(g) < NumWires /\ "share" \in Field
    BY <1>1, <1>2, WireFacts DEF Field
  <2>2. slot["share"][phys[GateOut(g)]] = value["share"][GateOut(g)] /\ persist[GateOut(g)]
    BY <2>1, <1>1, <1>5, <1>12 DEF ContentsOK, LivenessOK, Seen
  <2>3. CASE Gate.typ = "And"
    BY <2>1, <2>2, <2>3, <1>9
  <2>4. CASE Gate.typ # "And"
    <3>1. GateOut(g) # Out
      <4>1. g # at
        BY <2>4, <1>2, <1>12
      <4> QED BY <4>1, <1>2 DEF GateOut
    <3> QED BY <3>1, <2>1, <2>2, <1>6, <1>9
  <2> QED BY <2>3, <2>4
<1>13. ContentsOK'
  <2>1. \A f \in Field : \A w \in Wires : w < NumInputs => slot'[f][w] = value[f][w]
    <3>1. \A w \in Wires : w < NumInputs => w # phys[Out]
      <4>1. \A w \in Wires : w < NumInputs => w # Out
        BY <1>2
      <4> QED BY <4>1, <1>6
    <3>2. \A f \in Field : \A w \in Wires : w < NumInputs => slot[f][w] = value[f][w]
      BY <1>1 DEF ContentsOK
    <3> QED BY <3>1, <3>2, <1>9
  <2> QED BY <2>1, <1>3, <1>4, <1>5, <1>7, <1>10, <1>11, <1>12 DEF ContentsOK
<1>14. TypeOK'
  <2>1. slot' \in [Field -> [Wires -> SUBSET Int]]
    <3>1. slot' = [f \in Field |-> slot'[f]]
      BY DEF RunGate
    <3> QED BY <3>1, <1>9
  <2>2. at' \in 1..(Len(gates) + 1)
    BY <1>2, <1>3
  <2> QED BY <2>1, <2>2, <1>1, <1>3, <1>4 DEF TypeOK
<1>15. LivenessOK'
  BY <1>1, <1>3, <1>4 DEF LivenessOK, Seen
<1>16. PlanOK'
  BY <1>1, <1>3, <1>4, <1>5 DEF PlanOK
<1> QED BY <1>1, <1>3, <1>4, <1>13, <1>14, <1>15, <1>16 DEF IInv, Untouched, FreelistOK, PassOK

-----------------------------------------------------------------------------
(* Theorems. *)

LEMMA NextInv ==
    ASSUME IInv, [Next]_vars
    PROVE  IInv'
<1>1. CASE \E typ \in {"And", "Xor"}, in0, in1 \in Wires :
              PushGate([typ |-> typ, in0 |-> in0, in1 |-> in1])
  <2>1. PICK typ \in {"And", "Xor"}, in0 \in Wires, in1 \in Wires :
              PushGate([typ |-> typ, in0 |-> in0, in1 |-> in1])
    BY <1>1
  <2>2. in0 \in Nat /\ in1 \in Nat
    BY WireFacts DEF IInv, Wires
  <2>3. [typ |-> typ, in0 |-> in0, in1 |-> in1] \in GateRecord
    BY <2>2 DEF GateRecord
  <2> QED BY <2>1, <2>3, PushGateInv
<1>2. CASE \E in0 \in Wires : PushGate([typ |-> "Inv", in0 |-> in0, in1 |-> 0])
  <2>1. PICK in0 \in Wires : PushGate([typ |-> "Inv", in0 |-> in0, in1 |-> 0])
    BY <1>2
  <2>2. in0 \in Nat
    BY WireFacts DEF IInv, Wires
  <2>3. [typ |-> "Inv", in0 |-> in0, in1 |-> 0] \in GateRecord
    BY <2>2 DEF GateRecord
  <2> QED BY <2>1, <2>3, PushGateInv
<1>3. CASE \E len \in OutputLens : Start(len)
  BY <1>3, StartInv
<1>4. CASE LivenessGate
  BY <1>4, LivenessGateInv
<1>5. CASE LivenessEnd
  BY <1>5, LivenessEndInv
<1>6. CASE SlotMaskGate
  BY <1>6, SlotMaskGateInv
<1>7. CASE SlotMaskEnd \/ GarblerEnd \/ LastEnd
  BY <1>7, EndsInv
<1>8. CASE GarblerGate \/ EvaluatorGate \/ GammaGate
  BY <1>8, RunGateInv DEF GarblerGate, EvaluatorGate, GammaGate
<1>9. CASE UNCHANGED vars
  <2>1. /\ gates' = gates /\ value' = value /\ outLen' = outLen /\ party' = party
        /\ pass' = pass /\ at' = at /\ lastUse' = lastUse /\ persist' = persist
        /\ phys' = phys /\ freelist' = freelist /\ numSlots' = numSlots
        /\ numAnds' = numAnds /\ slot' = slot
    BY <1>9 DEF vars, program, plan
  <2>2. /\ NumWires' = NumWires /\ Wires' = Wires /\ Outputs' = Outputs /\ Seen' = Seen
        /\ Top' = Top /\ Out' = Out /\ Computing' = Computing /\ Finished' = Finished
        /\ \A f, top : Holds(f, top)' = Holds(f, top)
    BY <2>1 DEF Seen, Top, Out, NumWires, Wires, Outputs, Holds, Computing, Finished
  <2>3. TypeOK' /\ ProgramOK' /\ Untouched' /\ PassOK'
    BY <2>1, <2>2, SameProgram DEF IInv, TypeOK, Untouched, PassOK
  <2>4. LivenessOK' /\ PlanOK' /\ FreelistOK'
    BY <2>1, <2>2 DEF IInv, LivenessOK, PlanOK, FreelistOK
  <2>5. ContentsOK'
    <3>1. \A f : Holds(f, Out)' = Holds(f, Out) /\ Holds(f, NumWires)' = Holds(f, NumWires)
      BY <2>1, <2>2 DEF Holds
    <3> QED BY <3>1, <2>1, <2>2 DEF IInv, ContentsOK
  <2> QED BY <2>3, <2>4, <2>5 DEF IInv
<1> QED BY <1>1, <1>2, <1>3, <1>4, <1>5, <1>6, <1>7, <1>8, <1>9 DEF Next

\* The inductive invariant holds in every state of every run.
LEMMA Invariance == Spec => []IInv
<1>1. IInv /\ [Next]_vars => IInv'
  BY NextInv
<1> QED BY InitInv, <1>1, PTL DEF Spec

\* Every variable keeps its type: a slot number is a wire number, the slots
\* in use are never more than the wires, and a gate is in range.
THEOREM TypeCorrect == Spec => []TypeOK
<1>1. IInv => TypeOK
  BY DEF IInv
<1> QED BY <1>1, Invariance, PTL

\* Sharing slots is invisible for every program: in the slot pass and in each
\* of the passes over its plan a gate reads of its operands what a run with a
\* cell for every wire would have left there, and an AND finds its mask.
THEOREM ReadsCorrect == Spec => []ReadsAreRight
<1>1. ASSUME IInv
      PROVE  ReadsAreRight
  <2>1. /\ TypeOK /\ ProgramOK /\ LivenessOK /\ PlanOK /\ ContentsOK
    BY <1>1 DEF IInv
  <2>2. Computing \subseteq Field
    BY DEF Computing, Computed, Field
  <2> SUFFICES ASSUME at <= Len(gates), NEW f \in Computing
               PROVE  /\ \A w \in Operands(Gate) : Read(f, w) = value[f][w]
                      /\ pass # "mask" /\ Gate.typ = "And" =>
                            Read("share", Out) = value["share"][Out]
    BY DEF ReadsAreRight, Computing
  <2>3. pass \notin {"build", "liveness"}
    BY DEF Computing, Computed
  <2>4. Holds(f, Out) /\ f \in Field
    BY <2>1, <2>2, <2>3 DEF ContentsOK
  <2>5. \A w \in Operands(Gate) : Read(f, w) = value[f][w]
    BY <2>1, <2>3, <2>4, ReadRight
  <2>6. ASSUME pass # "mask", Gate.typ = "And"
        PROVE  Read("share", Out) = value["share"][Out]
    <3>1. /\ at \in 1..Len(gates) /\ GateOut(at) = Out /\ Gate = gates[at] /\ Top = NumWires
          /\ Out < NumWires
      BY <2>1, <2>6, GateFacts, WireFacts DEF Top
    <3> QED BY <3>1, <2>1, <2>3, <2>6 DEF ContentsOK, Read
  <2> QED BY <2>5, <2>6
<1> QED BY <1>1, Invariance, PTL

\* What a party carries away of every output, for every program: its share,
\* its label and its masked value are the wire's (Alice's masked values of a
\* program without ANDs excepted).
THEOREM OutputsCorrect == Spec => []OutputsAreRight
<1>1. ASSUME IInv
      PROVE  OutputsAreRight
  <2>1. /\ TypeOK /\ ProgramOK /\ LivenessOK /\ PlanOK /\ ContentsOK
    BY <1>1 DEF IInv
  <2> SUFFICES ASSUME pass = "gather", NEW w \in Outputs, NEW f \in DOMAIN Gathered(w)
               PROVE  \/ Gathered(w)[f] = value[f][w]
                      \/ f = "lambda" /\ party = "Alice" /\ numAnds = 0
    BY DEF OutputsAreRight
  <2>2. /\ f \in {"share", "lambda", IF party = "Alice" THEN "label" ELSE "eval"}
        /\ Gathered(w)[f] = slot[f][phys[w]]
    BY DEF Gathered, Read
  <2>3. CASE f = "lambda" /\ party = "Alice" /\ numAnds = 0
    BY <2>3
  <2>4. CASE ~(f = "lambda" /\ party = "Alice" /\ numAnds = 0)
    <3>1. f \in Finished
      BY <2>2, <2>4 DEF Finished
    <3>2. Holds(f, NumWires)
      BY <3>1, <2>1 DEF ContentsOK
    <3>3. w \in Wires /\ w < NumWires /\ persist[w]
      BY <2>1, WireFacts DEF LivenessOK, Outputs
    <3>4. \A v \in Wires : w < v /\ v < NumWires => phys[v] # phys[w]
      BY <3>3, <2>1 DEF PlanOK, Top
    <3> QED BY <3>2, <3>3, <3>4, <2>2 DEF Holds
  <2> QED BY <2>3, <2>4
<1> QED BY <1>1, Invariance, PTL

-----------------------------------------------------------------------------
(* The capacity reserved beforehand.  CapacityAfter is a recursive         *)
(* function; that there is one, and that every one gives the slot pass's   *)
(* own numbers, is shown along the slot pass, gate by gate.                *)

\* A sequence of counters for the gates up to n.
Counts(h, n) ==
    h = [g \in 0..n |-> IF g = 0 THEN CapacityStart ELSE CapacityGate(h[g - 1], g)]

\* A counter that has come as far as the slot pass agrees with it.
Agrees(acc) ==
    /\ acc.slots = numSlots
    /\ acc.free = freelist
    /\ acc.phys = [w \in Wires |-> acc.phys[w]]
    /\ \A w \in Wires : w < Out => acc.phys[w] = phys[w]

CapacityInv ==
    /\ pass = "mask" =>
          /\ \E h : Counts(h, at - 1)
          /\ \A h : Counts(h, Len(gates)) => Agrees(h[at - 1])
    /\ pass \notin {"build", "liveness", "mask"} =>
          /\ \E h : Counts(h, Len(gates))
          /\ \A h : Counts(h, Len(gates)) => h[Len(gates)].slots = numSlots

\* The count depends on the program and on what the liveness pass found.
LEMMA CountsStable ==
    ASSUME UNCHANGED <<gates, lastUse, persist>>
    PROVE  /\ \A acc, g : CapacityGate(acc, g)' = CapacityGate(acc, g)
           /\ CapacityStart' = CapacityStart
           /\ \A h, n : Counts(h, n)' <=> Counts(h, n)
<1>1. \A g : Dead(g)' = Dead(g)
  BY DEF Dead
<1>2. ASSUME NEW acc, NEW g
      PROVE  CapacityGate(acc, g)' = CapacityGate(acc, g)
  <2> DEFINE persists == persist[GateOut(g)]
             s == Allocated(persists, acc.free, acc.slots)
             slots == [acc.phys EXCEPT ![GateOut(g)] = s]
  <2>1. persists' = persists /\ s' = s /\ slots' = slots
    OBVIOUS
  <2>2. [i \in DOMAIN Dead(g) |-> slots[Dead(g)[i]]]' = [i \in DOMAIN Dead(g) |-> slots[Dead(g)[i]]]
    BY <2>1, <1>1
  <2> QED BY <2>1, <2>2 DEF CapacityGate
<1>3. CapacityStart' = CapacityStart
  BY DEF CapacityStart, Wires, NumWires
<1> QED BY <1>2, <1>3 DEF Counts

\* Before the first gate there is nothing to count.
LEMMA CapacityBegins ==
    ASSUME IInv, LivenessEnd, IInv'
    PROVE  CapacityInv'
<1>1. /\ pass' = "mask" /\ at' = 1 /\ gates' = gates /\ TypeOK' /\ Len(gates) \in Nat
      /\ freelist' = <<>> /\ numSlots' = NumInputs /\ NumInputs \in Nat
  BY WireFacts DEF IInv, LivenessEnd, Untouched, program
<1>2. Out' = NumInputs
  BY <1>1 DEF Out, GateOut
<1>3. \A w \in Wires' : w < NumInputs => phys'[w] = w
  BY <1>1 DEF IInv, PlanOK
<1>4. \E h : Counts(h, 0)'
  <2>1. PICK h : h = [g \in 0..0 |-> CapacityStart']
    OBVIOUS
  <2>2. h = [g \in 0..0 |-> IF g = 0 THEN CapacityStart' ELSE CapacityGate(h[g - 1], g)']
    BY <2>1
  <2>3. Counts(h, 0)'
    BY <2>2 DEF Counts
  <2> QED BY <2>3
<1>5. ASSUME NEW h, Counts(h, Len(gates))'
      PROVE  Agrees(h[0])'
  <2>1. h[0] = CapacityStart'
    BY <1>1, <1>5 DEF Counts
  <2> QED BY <2>1, <1>1, <1>2, <1>3 DEF Agrees, CapacityStart
<1>6. at' - 1 = 0
  BY <1>1
<1> QED BY <1>1, <1>4, <1>5, <1>6 DEF CapacityInv

\* A gate of the slot pass is a gate of the count.
LEMMA CapacityGoesOn ==
    ASSUME IInv, CapacityInv, SlotMaskGate
    PROVE  CapacityInv'
<1> DEFINE n == Len(gates)
           s == Allocated(persist[Out], freelist, numSlots)
           dead == Dead(at)
<1>1. /\ TypeOK /\ ProgramOK /\ pass = "mask" /\ at <= n
      /\ n \in Nat /\ at \in 1..n /\ Out = GateOut(at) /\ Out \in Wires
      /\ Out = NumInputs + at - 1 /\ NumInputs \in Nat /\ Wires = 0..(NumWires - 1)
  BY GateFacts, WireFacts DEF IInv, SlotMaskGate
<1>2. /\ pass' = "mask" /\ at' = at + 1 /\ lastUse' = lastUse /\ persist' = persist
      /\ gates' = gates /\ Wires' = Wires /\ Out' = Out + 1
      /\ phys' = [phys EXCEPT ![Out] = s]
      /\ numSlots' = IF s = numSlots THEN numSlots + 1 ELSE numSlots
      /\ freelist' = Remaining(persist[Out], freelist) \o [i \in DOMAIN dead |-> phys[dead[i]]]
  BY <1>1 DEF SlotMaskGate, program, Wires, NumWires, Out, GateOut
<1>3. /\ \E h : Counts(h, at - 1)
      /\ \A h : Counts(h, n) => Agrees(h[at - 1])
  BY <1>1 DEF CapacityInv
<1>4. \E h : Counts(h, at - 1)'
  <2>1. PICK h : Counts(h, at - 1)
    BY <1>3
  <2>k. PICK k : k = [g \in 0..at |-> IF g = at THEN CapacityGate(h[at - 1], at) ELSE h[g]]
    OBVIOUS
  <2>2. /\ h = [g \in 0..(at - 1) |-> IF g = 0 THEN CapacityStart ELSE CapacityGate(h[g - 1], g)]
    BY <2>1 DEF Counts
  <2>3. k = [g \in 0..at |-> IF g = 0 THEN CapacityStart ELSE CapacityGate(k[g - 1], g)]
    <3> SUFFICES ASSUME NEW g \in 0..at
                 PROVE  k[g] = IF g = 0 THEN CapacityStart ELSE CapacityGate(k[g - 1], g)
      BY <2>k
    <3>1. CASE g = 0
      BY <3>1, <2>2, <2>k, <1>1
    <3>2. CASE g = at
      <4>1. k[g] = CapacityGate(h[at - 1], at) /\ k[at - 1] = h[at - 1] /\ g # 0
        BY <3>2, <2>k, <1>1
      <4> QED BY <4>1, <3>2
    <3>3. CASE g # 0 /\ g # at
      <4>1. g \in 0..(at - 1) /\ g - 1 \in 0..at /\ g - 1 # at
        BY <3>3, <1>1
      <4>2. k[g] = h[g] /\ k[g - 1] = h[g - 1] /\ h[g] = CapacityGate(h[g - 1], g)
        BY <4>1, <3>3, <2>2, <2>k
      <4> QED BY <4>2, <3>3
    <3> QED BY <3>1, <3>2, <3>3
  <2>4. /\ \A acc, g : CapacityGate(acc, g)' = CapacityGate(acc, g)
        /\ CapacityStart' = CapacityStart
    BY <1>2, CountsStable
  <2>5. at' - 1 = at
    BY <1>1, <1>2
  <2>6. k = [g \in 0..(at' - 1) |->
               IF g = 0 THEN CapacityStart' ELSE CapacityGate(k[g - 1], g)']
    BY <2>3, <2>4, <2>5
  <2>7. Counts(k, at - 1)'
    BY <2>6 DEF Counts
  <2> QED BY <2>7
<1>5. ASSUME NEW h, Counts(h, n)'
      PROVE  Agrees(h[at - 1])'
  <2> DEFINE acc == h[at - 1]
             next == h[at]
  <2>1. Counts(h, n)
    <3>1. /\ \A a, g : CapacityGate(a, g)' = CapacityGate(a, g)
          /\ CapacityStart' = CapacityStart
      BY <1>2, CountsStable
    <3> QED BY <3>1, <1>2, <1>5 DEF Counts
  <2>2. Agrees(acc) /\ next = CapacityGate(acc, at)
    <3>1. Agrees(acc)
      BY <2>1, <1>3
    <3>2. h = [g \in 0..n |-> IF g = 0 THEN CapacityStart ELSE CapacityGate(h[g - 1], g)]
      BY <2>1 DEF Counts
    <3>3. at \in 0..n /\ at # 0
      BY <1>1
    <3>4. next = CapacityGate(acc, at)
      BY <3>2, <3>3, Zenon
    <3> QED BY <3>1, <3>4
  <2> HIDE DEF acc, next
  <2>3. /\ acc.slots = numSlots /\ acc.free = freelist
        /\ acc.phys = [w \in Wires |-> acc.phys[w]]
        /\ \A w \in Wires : w < Out => acc.phys[w] = phys[w]
    BY <2>2 DEF Agrees
  <2> DEFINE slots == [acc.phys EXCEPT ![Out] = s]
             freed == [i \in DOMAIN dead |-> slots[dead[i]]]
  <2>4. next = [phys |-> slots,
                slots |-> IF s = numSlots THEN s + 1 ELSE numSlots,
                free |-> Remaining(persist[Out], freelist) \o freed]
    <3> DEFINE s0 == Allocated(persist[GateOut(at)], acc.free, acc.slots)
               slots0 == [acc.phys EXCEPT ![GateOut(at)] = s0]
    <3>1. CapacityGate(acc, at) =
            [phys |-> slots0,
             slots |-> IF s0 = acc.slots THEN s0 + 1 ELSE acc.slots,
             free |-> Remaining(persist[GateOut(at)], acc.free)
                      \o [i \in DOMAIN dead |-> slots0[dead[i]]]]
      BY DEF CapacityGate
    <3>2. s0 = s /\ slots0 = slots
      BY <2>3, <1>1
    <3> HIDE DEF s0, slots0, s, slots, dead
    <3>3. [i \in DOMAIN dead |-> slots0[dead[i]]] = freed
      BY <3>2
    <3>4. /\ GateOut(at) = Out /\ acc.free = freelist /\ acc.slots = numSlots
          /\ next = CapacityGate(acc, at)
      BY <2>2, <2>3, <1>1
    <3> HIDE DEF freed
    <3> QED BY <3>1, <3>2, <3>3, <3>4
  <2>5. /\ slots = [w \in Wires |-> slots[w]] /\ slots[Out] = s
        /\ \A w \in Wires : w # Out => slots[w] = acc.phys[w]
    BY <2>3, <1>1
  <2>6. \A i \in DOMAIN dead : dead[i] \in Wires /\ dead[i] < Out
    BY <1>1, DeadFacts, GateFacts
  <2>7. freed = [i \in DOMAIN dead |-> phys[dead[i]]]
    <3>1. \A w \in Wires : w < Out => w # Out
      BY <1>1
    <3>2. \A i \in DOMAIN dead : slots[dead[i]] = phys[dead[i]]
      BY <3>1, <2>3, <2>5, <2>6
    <3> HIDE DEF slots
    <3> QED BY <3>2
  <2> HIDE DEF slots, freed, s
  <2>8. \A w \in Wires : w < Out + 1 => slots[w] = phys'[w]
    <3>1. phys'[Out] = s /\ \A w \in Wires : w # Out => phys'[w] = phys[w]
      BY <1>1, <1>2 DEF IInv, TypeOK
    <3>2. \A w \in Wires : w < Out + 1 /\ w # Out => w < Out
      BY <1>1
    <3> QED BY <3>1, <3>2, <2>3, <2>5
  <2>9. /\ next.slots = numSlots' /\ next.free = freelist' /\ next.phys = slots
    BY <2>4, <2>7, <1>2
  <2>10. at' - 1 = at
    BY <1>1, <1>2
  <2>11. h[at' - 1] = next
    BY <2>10 DEF next
  <2> QED BY <2>5, <2>8, <2>9, <2>11, <1>2 DEF Agrees
<1> QED BY <1>2, <1>4, <1>5 DEF CapacityInv

LEMMA CapacityStep ==
    ASSUME IInv, IInv', CapacityInv, [Next]_vars
    PROVE  CapacityInv'
<1>1. CASE LivenessEnd
  BY <1>1, CapacityBegins
<1>2. CASE SlotMaskGate
  BY <1>2, CapacityGoesOn
<1>3. ASSUME UNCHANGED <<gates, lastUse, persist, phys, freelist, numSlots>>,
             pass \notin {"build", "liveness"},
             \/ pass' = pass /\ at' = at
             \/ pass' \notin {"build", "liveness", "mask"} /\ (pass = "mask" => at > Len(gates))
      PROVE  CapacityInv'
  <2>1. /\ \A acc, g : CapacityGate(acc, g)' = CapacityGate(acc, g)
        /\ CapacityStart' = CapacityStart
    BY <1>3, CountsStable
  <2>2. /\ gates' = gates /\ phys' = phys /\ freelist' = freelist /\ numSlots' = numSlots
        /\ Wires' = Wires /\ Len(gates) \in Nat
        /\ at \in 1..(Len(gates) + 1)
    BY <1>3, WireFacts DEF IInv, TypeOK, Wires, NumWires
  <2>3. \A h : Counts(h, Len(gates))' <=> Counts(h, Len(gates))
    BY <2>1, <2>2 DEF Counts
  <2>4. CASE pass' = pass /\ at' = at
    <3>1. \A h : Counts(h, at - 1)' <=> Counts(h, at - 1)
      BY <2>1, <2>4 DEF Counts
    <3>2. \A h : Agrees(h[at - 1])' <=> Agrees(h[at - 1])
      BY <2>2, <2>4 DEF Agrees, Out
    <3> QED BY <3>1, <3>2, <2>2, <2>3, <2>4 DEF CapacityInv
  <2>5. CASE pass' \notin {"build", "liveness", "mask"} /\ (pass = "mask" => at > Len(gates))
    <3>1. CASE pass = "mask"
      <4>1. at - 1 = Len(gates)
        BY <3>1, <2>2, <2>5
      <4>2. \A h : Counts(h, Len(gates)) => Agrees(h[Len(gates)])
        BY <4>1, <3>1 DEF CapacityInv
      <4>3. \E h : Counts(h, Len(gates))
        BY <4>1, <3>1 DEF CapacityInv
      <4>4. \A h : Counts(h, Len(gates)) => h[Len(gates)].slots = numSlots
        BY <4>2 DEF Agrees
      <4> QED BY <4>3, <4>4, <2>2, <2>3, <2>5 DEF CapacityInv
    <3>2. CASE pass # "mask"
      BY <3>2, <1>3, <2>2, <2>3, <2>5 DEF CapacityInv
    <3> QED BY <3>1, <3>2
  <2> QED BY <1>3, <2>4, <2>5
<1>4. CASE pass' \in {"build", "liveness"}
  BY <1>4 DEF CapacityInv
<1>5. CASE SlotMaskEnd \/ GarblerEnd \/ LastEnd
  <2>1. UNCHANGED <<gates, lastUse, persist, phys, freelist, numSlots>>
    BY <1>5 DEF SlotMaskEnd, GarblerEnd, LastEnd, program, plan
  <2> QED BY <2>1, <1>3, <1>5 DEF SlotMaskEnd, GarblerEnd, LastEnd
<1>6. CASE GarblerGate \/ EvaluatorGate \/ GammaGate
  <2>1. UNCHANGED <<gates, lastUse, persist, phys, freelist, numSlots>>
    BY <1>6 DEF GarblerGate, EvaluatorGate, GammaGate, RunGate, program, plan
  <2> QED BY <2>1, <1>3, <1>6 DEF GarblerGate, EvaluatorGate, GammaGate, RunGate
<1>7. CASE UNCHANGED vars
  <2>1. UNCHANGED <<gates, lastUse, persist, phys, freelist, numSlots, pass, at>>
    BY <1>7 DEF vars, program, plan
  <2>2. CASE pass \in {"build", "liveness"}
    BY <2>1, <2>2, <1>4
  <2> QED BY <2>1, <2>2, <1>3
<1>8. (\E gate : PushGate(gate)) \/ (\E len : Start(len)) \/ LivenessGate
         => pass' \in {"build", "liveness"}
  BY DEF PushGate, Start, LivenessGate
<1> QED BY <1>1, <1>2, <1>4, <1>5, <1>6, <1>7, <1>8 DEF Next

\* The capacity reserved before the slot pass is the number of slots the pass
\* takes, for every program: the two copies of the allocation agree.
THEOREM CapacityCorrect == Spec => []CapacityIsExact
<1>1. Init => CapacityInv
  BY DEF Init, CapacityInv
<1>2. IInv /\ IInv' /\ CapacityInv /\ [Next]_vars => CapacityInv'
  BY CapacityStep
<1>3. ASSUME CapacityInv
      PROVE  CapacityIsExact
  <2> SUFFICES ASSUME pass \notin {"build", "liveness", "mask"}
               PROVE  numSlots = SlotCapacity
    BY DEF CapacityIsExact
  <2>1. /\ \E h : Counts(h, Len(gates))
        /\ \A h : Counts(h, Len(gates)) => h[Len(gates)].slots = numSlots
    BY <1>3 DEF CapacityInv
  <2>2. CapacityAfter = CHOOSE h : Counts(h, Len(gates))
    BY DEF CapacityAfter, Counts
  <2>3. Counts(CapacityAfter, Len(gates))
    BY <2>1, <2>2
  <2> QED BY <2>1, <2>3 DEF SlotCapacity
<1> QED BY <1>1, <1>2, <1>3, Invariance, PTL DEF Spec

=============================================================================
