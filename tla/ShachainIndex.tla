---------------------------- MODULE ShachainIndex ----------------------------
(***************************************************************************)
(* Arithmetic of shachain indices and the circuits built from them         *)
(* (shachain2pc-party helpers.rs, shachain2pc-circuit lib.rs, program.rs). *)
(*                                                                         *)
(* An index is a natural number below 2^IndexBits.  A value is the         *)
(* sequence of the bits flipped and hashed on the way from the seed, so    *)
(* the seed is <<>> and two values are equal only if the same hashes made  *)
(* them.                                                                   *)
(***************************************************************************)
EXTENDS Integers, Sequences, FiniteSets, FiniteSetsExt, SequencesExt

CONSTANT IndexBits      \* INDEX_BITS: 48 in the code

Index == 0 .. 2^IndexBits - 1
BitSet(n) == {b \in 0 .. IndexBits - 1 : (n \div 2^b) % 2 = 1}
CountOnes(n) == Cardinality(BitSet(n))
TrailingZeros(n) == Min(BitSet(n))

\* The bits of an index from the highest to the lowest.
SetBitsDesc(n) ==
    SelectSeq([i \in 1 .. IndexBits |-> IndexBits - i], LAMBDA b : b \in BitSet(n))

\* The reference: the value of index n, from BOLT 3's generate_from_seed.
GenerateFromSeed(n) == SetBitsDesc(n)

\* Mutant: any subset of the target's bits is taken for an ancestor.
CanDeriveSubset(from, to) == BitSet(from) \subseteq BitSet(to)

CanDerive(from, to) ==
    /\ BitSet(from) \subseteq BitSet(to)
    /\ from # 0 => \A b \in BitSet(to) \ BitSet(from) : b < TrailingZeros(from)

MaxDerivable(from) ==
    IF from = 0 THEN 2^IndexBits - 1 ELSE from + 2^TrailingZeros(from) - 1

\* Mutant: only the target is kept, not what later targets start from.
RetainTarget(mask, target) == mask = target

RetainForFuture(mask, target) == mask = target \/ MaxDerivable(mask) > target

\* The set bits of n in groups of at most `size`; one empty group for n = 0.
SplitChainBits(n, size) ==
    LET bits   == SetBitsDesc(n)
        count  == IF bits = <<>> THEN 1 ELSE (Len(bits) + size - 1) \div size
        end(g) == IF g * size < Len(bits) THEN g * size ELSE Len(bits)
    IN  [g \in 1 .. count |-> SubSeq(bits, (g - 1) * size + 1, end(g))]

\* The highest bit in which an index differs from the first one, or -1.
RangeSplit(first, indices) ==
    LET differ == {b \in 0 .. IndexBits - 1 :
                      \E i \in indices : (b \in BitSet(i)) # (b \in BitSet(first))}
    IN  IF differ = {} THEN -1 ELSE Max(differ)

\* Levels of tiles that cover `depth` bits, the short one on top.
PlanTileLevels(depth, height) ==
    LET r    == depth % height
        full == [k \in 1 .. depth \div height |->
                    [offset |-> depth - r - k * height, height |-> height]]
    IN  (IF r = 0 THEN <<>> ELSE <<[offset |-> depth - r, height |-> r]>>) \o full

\* The leaves of one tile: leaf s is its parent, s without its lowest bit,
\* hashed with that bit.
TileLeaves(offset, height) ==
    LET leaf[s \in 0 .. 2^height - 1] ==
            IF s = 0 THEN <<>>
            ELSE Append(leaf[s - 2^TrailingZeros(s)], offset + TrailingZeros(s))
    IN  leaf
=============================================================================
