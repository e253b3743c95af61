------------------------------ MODULE SlotPlan ------------------------------
(***************************************************************************)
(* One party runs one program: how wires share slots.                      *)
(*                                                                         *)
(* A program has far more wires than a party keeps cells for.  The slot    *)
(* pass gives each gate's output a physical slot, and takes the slot of a  *)
(* wire nobody reads any more for a later one, unless the wire has to      *)
(* persist.  The passes that follow read and write the wires through the   *)
(* slots of that one plan, each again from the first gate to the last,     *)
(* rebuilding the XOR and INV wires whose slots others have used since.    *)
(*                                                                         *)
(* Alice garbles and then computes the digest of the gamma check, Bob      *)
(* evaluates; party is the one this behaviour is about.  A wire's share,   *)
(* masked value and labels are affine over GF(2) in those of the inputs    *)
(* and of the AND outputs: a value is the set of the terms it is the sum   *)
(* of.                                                                     *)
(***************************************************************************)
EXTENDS Integers, Sequences

CONSTANTS NumInputs,   \* inputs of the program
          MaxGates,    \* bound on its gates
          OutputLens   \* output lengths it may be finished with

ASSUME InputsAssumption == NumInputs \in Nat \ {0}
ASSUME BoundsAssumption == MaxGates \in Nat /\ OutputLens \subseteq Nat

VARIABLES
    gates,     \* the program's gates
    value,     \* value[f][w]: what field f of wire w stands for
    outLen,    \* how many of the last wires are outputs
    party,     \* whose run this is
    pass,      \* the pass it is in
    at,        \* the gate the pass is at
    lastUse,   \* the last gate that reads a wire, 0 for none
    persist,   \* wires whose slot is never given away
    phys,      \* the slot of a wire
    freelist,  \* slots to give away, the next one last
    numSlots,  \* slots in use
    slot,      \* slot[f][s]: what field f of slot s holds
    numAnds    \* AND gates counted

program == <<gates, value, outLen, party>>
plan == <<lastUse, persist, phys, freelist, numSlots, numAnds>>
vars == <<program, pass, at, plan, slot>>

\* wire_slot, mask_input, label_slot, eval_slot
Field == {"share", "lambda", "label", "eval"}

NumWires   == NumInputs + Len(gates)
Wires      == 0..(NumWires - 1)
GateOut(g) == NumInputs + g - 1
Outputs    == {w \in Wires : w >= NumWires - outLen}

\* The wires a gate reads.
Operands(gate) == IF gate.typ = "Inv" THEN {gate.in0} ELSE {gate.in0, gate.in1}

Gate == gates[at]
Out  == GateOut(at)
Read(f, w) == slot[f][phys[w]]

\* The constant 1 of a masked value, Delta of a label.
One == -1
Xor(u, v) == (u \ v) \cup (v \ u)
Zero      == {}

\* What INV makes of a value: a share stays, and so does Bob's label.
Inverted(f, v) == IF f \in {"lambda", "label"} THEN Xor(v, {One}) ELSE v

\* A linear gate's output, from the values u and v of its operands.
Combined(f, gate, u, v) == IF gate.typ = "Xor" THEN Xor(u, v) ELSE Inverted(f, u)

\* The same from its operands' slots.
Linear(f) == Combined(f, Gate, Read(f, Gate.in0), Read(f, Gate.in1))

\* u32::MAX, the slot of a wire that has none yet.
Unassigned == -1

-----------------------------------------------------------------------------
(* The program is built gate by gate, every operand a wire before it.      *)

Init ==
    /\ gates = <<>> /\ outLen = 0
    /\ value = [f \in Field |-> [w \in 0..(NumInputs - 1) |-> {w}]]
    /\ party \in {"Alice", "Bob"}
    /\ pass = "build" /\ at = 1
    /\ lastUse = <<>> /\ persist = <<>> /\ phys = <<>> /\ freelist = <<>>
    /\ numSlots = NumInputs /\ numAnds = 0
    /\ slot = <<>>

\* An AND's output has a mask and labels of its own, a term nobody else has.
PushGate(gate) ==
    /\ pass = "build" /\ Len(gates) < MaxGates
    /\ Operands(gate) \subseteq Wires
    /\ gates' = Append(gates, gate)
    /\ value' = [f \in Field |-> [w \in 0..NumWires |->
          IF w \in Wires THEN value[f][w]
          ELSE IF gate.typ = "And" THEN {w}
          ELSE Combined(f, gate, value[f][gate.in0], value[f][gate.in1])]]
    /\ UNCHANGED <<outLen, party, pass, at, plan, slot>>

\* The run starts with the inputs in the first slots.
Start(len) ==
    /\ pass = "build" /\ len <= NumWires
    /\ outLen' = len
    /\ pass' = "liveness"
    /\ lastUse' = [w \in Wires |-> 0]
    /\ persist' = [w \in Wires |-> w < NumInputs]
    /\ phys' = [w \in Wires |-> IF w < NumInputs THEN w ELSE Unassigned]
    /\ slot' = [f \in Field |-> [s \in Wires |->
                   IF s < NumInputs THEN value[f][s] ELSE Zero]]
    /\ UNCHANGED <<gates, value, party, at, freelist, numSlots, numAnds>>

-----------------------------------------------------------------------------
(* The liveness pass.                                                      *)

\* Mutant: only the first operand counts as a use.
UsesFirst(gate) == {gate.in0}

\* The wires whose last use a gate is so far.
Uses(gate) == Operands(gate)

LivenessGate ==
    /\ pass = "liveness" /\ at <= Len(gates)
    /\ persist' = [persist EXCEPT ![Out] = Gate.typ = "And"]
    /\ lastUse' = [w \in Wires |->
                      IF w \in Uses(Gate) THEN at ELSE lastUse[w]]
    /\ numAnds' = IF Gate.typ = "And" THEN numAnds + 1 ELSE numAnds
    /\ at' = at + 1
    /\ UNCHANGED <<program, pass, phys, freelist, numSlots, slot>>

\* Mutant: outputs persist only when they are ANDs.
KeptForGates(w) == persist[w]

\* The wires that persist once the outputs are known.
Kept(w) == persist[w] \/ w \in Outputs

LivenessEnd ==
    /\ pass = "liveness" /\ at > Len(gates)
    /\ persist' = [w \in Wires |-> Kept(w)]
    /\ pass' = "mask" /\ at' = 1
    /\ UNCHANGED <<program, lastUse, phys, freelist, numSlots, slot, numAnds>>

-----------------------------------------------------------------------------
(* The slot pass.                                                          *)

\* Which operands of gate g are freed after it, in the order they are.
Dead(g) ==
    LET gate == gates[g]
        dies(w) == ~persist[w] /\ lastUse[w] = g
    IN  (IF dies(gate.in0) THEN <<gate.in0>> ELSE <<>>)
        \o IF gate.typ # "Inv" /\ gate.in1 # gate.in0 /\ dies(gate.in1)
           THEN <<gate.in1>> ELSE <<>>

\* The slot a wire is given, and what that leaves of the freelist.
Pops(persists, free) == ~persists /\ free # <<>>

\* Mutant: a new slot is one past the next.
AllocatedPast(persists, free, fresh) ==
    IF Pops(persists, free) THEN free[Len(free)] ELSE fresh + 1

Allocated(persists, free, fresh) ==
    IF Pops(persists, free) THEN free[Len(free)] ELSE fresh
Remaining(persists, free) ==
    IF Pops(persists, free) THEN SubSeq(free, 1, Len(free) - 1) ELSE free

SlotMaskGate ==
    /\ pass = "mask" /\ at <= Len(gates)
    /\ LET s == Allocated(persist[Out], freelist, numSlots)
           share == IF Gate.typ = "And" THEN value["share"][Out] ELSE Linear("share")
           dead == Dead(at)
       IN  /\ phys' = [phys EXCEPT ![Out] = s]
           /\ numSlots' = IF s = numSlots THEN numSlots + 1 ELSE numSlots
           /\ freelist' = Remaining(persist[Out], freelist)
                          \o [i \in DOMAIN dead |-> phys[dead[i]]]
           /\ slot' = [slot EXCEPT !["share"][s] = share, !["lambda"][s] = Zero]
    /\ at' = at + 1
    /\ UNCHANGED <<program, pass, lastUse, persist, numAnds>>

\* Mutant: the capacity pass takes a freed slot for a wire that persists.
ReusesForAll(acc, g) ==
    LET s == Allocated(FALSE, acc.free, acc.slots)
        slots == [acc.phys EXCEPT ![GateOut(g)] = s]
    IN  [phys |-> slots,
         slots |-> IF s = acc.slots THEN s + 1 ELSE acc.slots,
         free |-> Remaining(FALSE, acc.free)
                  \o [i \in DOMAIN Dead(g) |-> slots[Dead(g)[i]]]]

\* The number of slots, as it is reserved before the pass: a second copy of
\* the allocation that only counts.
CapacityGate(acc, g) ==
    LET persists == persist[GateOut(g)]
        s == Allocated(persists, acc.free, acc.slots)
        slots == [acc.phys EXCEPT ![GateOut(g)] = s]
    IN  [phys |-> slots,
         slots |-> IF s = acc.slots THEN s + 1 ELSE acc.slots,
         free |-> Remaining(persists, acc.free)
                  \o [i \in DOMAIN Dead(g) |-> slots[Dead(g)[i]]]]
CapacityStart ==
    [phys |-> [w \in Wires |-> IF w < NumInputs THEN w ELSE Unassigned],
     slots |-> NumInputs, free |-> <<>>]
CapacityAfter[g \in 0..Len(gates)] ==
    IF g = 0 THEN CapacityStart ELSE CapacityGate(CapacityAfter[g - 1], g)
SlotCapacity == CapacityAfter[Len(gates)].slots

SlotMaskEnd ==
    /\ pass = "mask" /\ at > Len(gates)
    /\ pass' = IF party = "Alice" THEN "garble" ELSE "evaluate"
    /\ at' = 1
    /\ UNCHANGED <<program, plan, slot>>

-----------------------------------------------------------------------------
(* The passes over the plan.                                               *)

\* The fields a pass computes for the output of a linear gate, and for that
\* of an AND, whose share keeps the mask it drew.
Computed == [garble   |-> {"share", "label"},
             evaluate |-> {"share", "eval", "lambda"},
             gamma    |-> {"share", "lambda"}]

RunGate(p) ==
    /\ pass = p /\ at <= Len(gates)
    /\ slot' = [f \in Field |->
           IF f \notin Computed[p] \/ (Gate.typ = "And" /\ f = "share")
           THEN slot[f]
           ELSE [slot[f] EXCEPT ![phys[Out]] =
                    IF Gate.typ = "And" THEN value[f][Out] ELSE Linear(f)]]
    /\ at' = at + 1
    /\ UNCHANGED <<program, pass, plan>>

GarblerGate   == RunGate("garble")
EvaluatorGate == RunGate("evaluate")
GammaGate     == RunGate("gamma")

\* Without an AND there is nothing to check, and Alice skips the pass.
GarblerEnd ==
    /\ pass = "garble" /\ at > Len(gates)
    /\ pass' = IF numAnds > 0 THEN "gamma" ELSE "gather"
    /\ at' = 1
    /\ UNCHANGED <<program, plan, slot>>

LastEnd ==
    /\ pass \in {"evaluate", "gamma"} /\ at > Len(gates)
    /\ pass' = "gather" /\ at' = 1
    /\ UNCHANGED <<program, plan, slot>>

Next ==
    \/ \E typ \in {"And", "Xor"}, in0, in1 \in Wires :
          PushGate([typ |-> typ, in0 |-> in0, in1 |-> in1])
    \/ \E in0 \in Wires : PushGate([typ |-> "Inv", in0 |-> in0, in1 |-> 0])
    \/ \E len \in OutputLens : Start(len)
    \/ LivenessGate \/ LivenessEnd \/ SlotMaskGate \/ SlotMaskEnd
    \/ GarblerGate \/ EvaluatorGate \/ GammaGate \/ GarblerEnd \/ LastEnd

Spec == Init /\ [][Next]_vars

\* What is gathered of an output wire.
Gathered(w) ==
    [f \in {"share", "lambda", IF party = "Alice" THEN "label" ELSE "eval"} |->
        Read(f, w)]

-----------------------------------------------------------------------------
(* Properties.                                                             *)

TypeOK ==
    /\ gates \in Seq([typ : {"And", "Xor", "Inv"}, in0 : Nat, in1 : Nat])
    /\ outLen \in Nat /\ numAnds \in Nat
    /\ value \in [Field -> [Wires -> SUBSET Int]]
    /\ party \in {"Alice", "Bob"}
    /\ pass \in {"build", "liveness", "mask", "garble", "evaluate", "gamma",
                  "gather"}
    /\ at \in 1..(Len(gates) + 1)
    /\ freelist \in Seq(Wires)
    /\ numSlots \in NumInputs..NumWires
    /\ pass # "build" =>
          /\ lastUse \in [Wires -> 0..Len(gates)]
          /\ persist \in [Wires -> BOOLEAN]
          /\ phys \in [Wires -> Wires \cup {Unassigned}]
          /\ slot \in [Field -> [Wires -> SUBSET Int]]

\* Sharing slots is invisible.  Whatever the program, in each pass every
\* gate reads of its operands exactly what a run with a cell for every wire
\* would have left there, and an AND finds the mask it drew: no slot was
\* given away while somebody would still read it (ag2pc_alloc_slot,
\* ag2pc_free_if_dead, and the passes that read through phys).
ReadsAreRight ==
    at <= Len(gates) =>
        \A f \in (IF pass = "mask" THEN {"share"}
                  ELSE IF pass \in DOMAIN Computed THEN Computed[pass] ELSE {}) :
            /\ \A w \in Operands(Gate) : Read(f, w) = value[f][w]
            /\ pass # "mask" /\ Gate.typ = "And" =>
                  Read("share", Out) = value["share"][Out]

\* The capacity reserved beforehand is the number of slots the pass takes:
\* the two copies of the allocation agree (ag2pc_slot_capacity).
CapacityIsExact ==
    pass \notin {"build", "liveness", "mask"} =>
        numSlots = SlotCapacity

\* What a party carries away of an output opens it to the right value: its
\* share, label and masked value are the wire's.  The masked values of a
\* program without ANDs are the exception on Alice's side.
OutputsAreRight ==
    pass = "gather" =>
        \A w \in Outputs : \A f \in DOMAIN Gathered(w) :
            \/ Gathered(w)[f] = value[f][w]
            \/ f = "lambda" /\ party = "Alice" /\ numAnds = 0

=============================================================================
