----------------------------- MODULE Derivation -----------------------------
(***************************************************************************)
(* How the parties get from the shared seed to the values of indices       *)
(* (shachain2pc-party: run_party and the modes of standalone_modes.rs, the *)
(* jobs and the PrecomputeSession of jobs.rs).  Both parties run the same  *)
(* control on inputs whose digest they compared, so one machine stands for *)
(* both; a step is one run_program or one reveal_public.                   *)
(*                                                                         *)
(* Authenticated wires are a value with their labels: run_program needs    *)
(* labels, strip_labels_for_reveal removes them, and the wires of the two  *)
(* seed shares are an input of another width than a value's.  A program on *)
(* an input it does not fit gives Bad.  The test-only tampering hook       *)
(* (SHACHAIN2PC_TAMPER) is left out.                                       *)
(***************************************************************************)
EXTENDS ShachainIndex

CONSTANTS
    CacheTileHeight,   \* CACHE_TILE_HEIGHT: 4 in the code
    ChunkSizes,        \* the chunk sizes tried; 0 stands for "not set"
    MaxTargets         \* bound: targets of one precompute session

ASSUME SizeAssumption ==
    /\ IndexBits \in Nat \ {0}
    /\ CacheTileHeight \in 1 .. IndexBits
    /\ ChunkSizes \subseteq Nat
    /\ MaxTargets \in Nat

VARIABLES
    job,      \* the call: mode, range, chunk size and tile fan-out
    pc,       \* where its control is
    wires,    \* the wires carried along the trunk or the target's path
    groups,   \* groups of bits the trunk has still to hash
    index,    \* the loop's index
    levels,   \* recursive tiling: levels not run yet
    roots,    \* recursive tiling: roots of the current level
    next,     \* recursive tiling: what the current level has made so far
    stack,    \* CacheStack: bits and the wires after each of them
    outs,     \* wires to be revealed, by index (a tile fills its indices)
    results,  \* values revealed, by index
    cache,    \* PrecomputeSession::cache, as the masks held with their wires
    mask,     \* precompute_target: the index `wires` is the value of
    planned,  \* units planned_checked_units announced for the target
    hashed,   \* hashes evaluated for the target
    computed, \* history: every mask the session has computed
    targets   \* history: the targets asked for, in order

trunkVars == <<wires, groups>>
cacheVars == <<levels, roots, next, stack>>
sessionVars == <<cache, mask, planned, hashed, computed, targets>>
vars == <<job, pc, trunkVars, index, cacheVars, outs, results, sessionVars>>

-----------------------------------------------------------------------------
Wires(label, v) == [label |-> label, value |-> v]
SeedInputs == Wires("seed", <<>>)
NoWires == Wires("none", <<>>)
Bad == Wires("bad", <<>>)
NoValue == <<-1>>
WrongValue == <<-2>>

\* Ag2pcProgram::chunk_from_sha run on w: a first chunk joins the two seed
\* shares, a later one takes a value; each bit is flipped and hashed.
RunChunk(bits, first, w) ==
    IF w.label = (IF first THEN "seed" ELSE "live")
    THEN Wires("live", w.value \o bits) ELSE Bad

\* build_derivation_circuit run on w: every hash of an index in one circuit.
RunDerivation(n, w) == RunChunk(SetBitsDesc(n), TRUE, w)

\* Ag2pcProgram::tile_from_sha run on w: all leaves of one tile.
RunTile(offset, height, w) ==
    [s \in 0 .. 2^height - 1 |->
        IF w.label = "live" THEN Wires("live", w.value \o TileLeaves(offset, height)[s])
        ELSE Bad]

StripLabels(w) == IF w.label = "live" THEN Wires("stripped", w.value) ELSE w

\* reveal_public opens any authenticated wires, labels or not.
Reveal(w) == IF w.label \in {"live", "stripped"} THEN w.value ELSE WrongValue

-----------------------------------------------------------------------------
Modes == {"batch", "tree", "cache", "chunked", "path", "session"}
Fanouts == {2^h : h \in 0 .. CacheTileHeight}
Requested == job.lo .. job.hi
Split == RangeSplit(job.lo, IF job.mode = "cache" THEN {job.lo, job.hi} ELSE Requested)
LowSize == 2^(Split + 1)                     \* low_mask + 1
Low(n) == n % LowSize                        \* n & low_mask
High(n) == n - Low(n)                        \* n & high_mask
ChunkSize == IF job.chunk > 0 THEN job.chunk ELSE IndexBits
TileHeight == CHOOSE h \in 0 .. CacheTileHeight : 2^h = job.fanout
Aligned == Split >= 0 /\ Low(job.lo) = 0 /\ Low(job.hi) = LowSize - 1
Recursive == TileHeight >= 1 /\ Aligned /\ Split + 1 >= TileHeight
TileSize == 2^CacheTileHeight
CanTile == job.fanout >= 2 /\ Split >= CacheTileHeight - 1

Jobs ==
    {[mode |-> m, lo |-> lo, hi |-> hi, chunk |-> c, fanout |-> f] :
        m \in Modes, lo \in Index, hi \in Index, c \in ChunkSizes, f \in Fanouts}

\* Calls that run_party and the daemon make: ranges for the range modes, one
\* index for the others, and only the settings that the mode reads.
Callable(j) ==
    /\ j.lo <= j.hi
    /\ j.mode \in {"chunked", "path", "session"} => j.lo = j.hi
    /\ j.mode = "chunked" => j.chunk > 0
    /\ j.mode \in {"batch", "path", "session"} => j.chunk = Min(ChunkSizes)
    /\ j.mode # "cache" => j.fanout = 1
    /\ j.mode = "session" => j.lo = 0

Init ==
    /\ job \in {j \in Jobs : Callable(j)}
    /\ pc = "start"
    /\ wires = SeedInputs
    /\ groups = <<>>
    /\ index = 0
    /\ levels = <<>> /\ roots = <<>> /\ next = <<>>
    /\ stack = [bits |-> <<>>, vals |-> <<>>]
    /\ outs = [i \in Index |-> NoWires]
    /\ results = [i \in Index |-> NoValue]
    /\ cache = {}
    /\ mask = 0 /\ planned = 0 /\ hashed = 0
    /\ computed = {} /\ targets = <<>>

-----------------------------------------------------------------------------
\* Full mode and ranges of it: one circuit per index, from the seed.
StartBatch ==
    /\ pc = "start" /\ job.mode = "batch"
    /\ pc' = "batch"
    /\ index' = job.lo
    /\ UNCHANGED <<job, trunkVars, cacheVars, outs, results, sessionVars>>

BatchItem ==
    /\ pc = "batch"
    /\ outs' = [outs EXCEPT ![index] = StripLabels(RunDerivation(index, SeedInputs))]
    /\ IF index = job.hi THEN pc' = "reveal_up" /\ index' = job.lo
                         ELSE pc' = pc /\ index' = index + 1
    /\ UNCHANGED <<job, trunkVars, cacheVars, results, sessionVars>>

\* Tree, cache and chunked mode begin with a trunk: the high bits the range
\* shares, or all bits of a single index.  A range without a shared hash is
\* refused before any stream is opened.
StartTrunk ==
    /\ pc = "start" /\ job.mode \in {"tree", "cache", "chunked"}
    /\ LET bits == IF job.mode = "chunked" THEN job.lo ELSE High(job.lo)
           gs   == SplitChainBits(bits, ChunkSize)
       IN  IF job.mode # "chunked" /\ \A g \in DOMAIN gs : gs[g] = <<>>
           THEN pc' = "refused" /\ UNCHANGED groups
           ELSE pc' = "trunk" /\ groups' = gs
    /\ UNCHANGED <<job, wires, index, cacheVars, outs, results, sessionVars>>

AfterTrunk ==
    CASE job.mode = "chunked" -> "reveal_up"
      [] job.mode = "tree"    -> "branch"
      [] Recursive            -> "tile_level"
      [] OTHER                -> "fallback"

TrunkGroup ==
    /\ pc = "trunk"
    /\ LET w == RunChunk(Head(groups), wires = SeedInputs, wires)
           last == Len(groups) = 1
       IN  /\ wires' = w
           /\ groups' = Tail(groups)
           /\ pc' = IF last THEN AfterTrunk ELSE pc
           /\ outs' = IF last /\ job.mode = "chunked"
                      THEN [outs EXCEPT ![job.lo] = StripLabels(w)] ELSE outs
           /\ stack' = IF last THEN [bits |-> <<>>, vals |-> <<w>>] ELSE stack
           /\ roots' = IF last THEN <<w>> ELSE roots
           /\ levels' = IF last /\ job.mode = "cache" /\ Recursive
                        THEN PlanTileLevels(Split + 1, TileHeight) ELSE levels
           /\ index' = CASE ~last -> index
                       [] job.mode = "cache" -> job.hi
                       [] OTHER -> job.lo
    /\ UNCHANGED <<job, next, results, sessionVars>>

\* Tree mode: the low bits of every index from the shared trunk.
Branch ==
    /\ pc = "branch"
    /\ outs' = [outs EXCEPT ![index] =
                   StripLabels(RunChunk(SetBitsDesc(Low(index)), FALSE, wires))]
    /\ IF index = job.hi THEN pc' = "reveal_up" /\ index' = job.lo
                         ELSE pc' = pc /\ index' = index + 1
    /\ UNCHANGED <<job, trunkVars, cacheVars, results, sessionVars>>

\* Reveals in the order the indices were asked for.
RevealUp ==
    /\ pc = "reveal_up"
    /\ results' = [results EXCEPT ![index] = Reveal(outs[index])]
    /\ IF index = job.hi THEN pc' = "done" /\ UNCHANGED index
                         ELSE pc' = pc /\ index' = index + 1
    /\ UNCHANGED <<job, trunkVars, cacheVars, outs, sessionVars>>

-----------------------------------------------------------------------------
\* Cache mode over an aligned range: tiles of tiles.  One step runs the tile
\* of the level's first root; the leaves of all tiles are the next level's
\* roots, those of the bottom level are the values.
TileRoot ==
    /\ pc = "tile_level"
    /\ LET l == Head(levels)
           tile == RunTile(l.offset, l.height, Head(roots))
           made == next \o [k \in 1 .. 2^l.height |-> tile[k - 1]]
           levelDone == Len(roots) = 1
           bottom == Len(levels) = 1
       IN  /\ roots' = IF levelDone /\ ~bottom THEN made ELSE Tail(roots)
           /\ next' = IF levelDone /\ ~bottom THEN <<>> ELSE made
           /\ levels' = IF levelDone /\ ~bottom THEN Tail(levels) ELSE levels
           /\ pc' = IF levelDone /\ bottom THEN "reveal_tiles" ELSE pc
    /\ UNCHANGED <<job, trunkVars, index, stack, outs, results, sessionVars>>

\* The leaf of an index is found by its tile and its slot in it.
RevealTiles ==
    /\ pc = "reveal_tiles"
    /\ LET size == 2^Head(levels).height
           tile == Low(index) \div size
           slot == Low(index) % size
       IN  results' = [results EXCEPT ![index] =
                          Reveal(StripLabels(next[tile * size + slot + 1]))]
    /\ IF index = job.lo THEN pc' = "done" /\ UNCHANGED index
                         ELSE pc' = pc /\ index' = index - 1
    /\ UNCHANGED <<job, trunkVars, cacheVars, outs, sessionVars>>

-----------------------------------------------------------------------------
\* Cache mode otherwise: from hi down to lo, a stack of one-bit steps kept
\* aligned with the index, and a whole tile where one fits.
TileBase == index - (index % TileSize)
FullTile ==
    /\ CanTile
    /\ index % TileSize = TileSize - 1
    /\ TileBase >= job.lo /\ TileBase + TileSize - 1 <= job.hi

StackTarget ==
    SetBitsDesc(IF FullTile THEN Low(TileBase) - (Low(TileBase) % TileSize)
                            ELSE Low(index))

\* Bits of the stack that the target starts with as well.
CommonPrefix ==
    Max({k \in 0 .. Min({Len(stack.bits), Len(StackTarget)}) :
            SubSeq(stack.bits, 1, k) = SubSeq(StackTarget, 1, k)})

\* align_cache_stack drops what the target does not share, then hashes the
\* target's missing bits one by one.
AlignDrop ==
    /\ pc = "fallback"
    /\ stack' = [bits |-> SubSeq(stack.bits, 1, CommonPrefix),
                 vals |-> SubSeq(stack.vals, 1, CommonPrefix + 1)]
    /\ pc' = "align"
    /\ UNCHANGED <<job, trunkVars, index, levels, roots, next, outs, results,
                   sessionVars>>

AlignHash ==
    /\ pc = "align"
    /\ Len(stack.bits) < Len(StackTarget)
    /\ LET bit == StackTarget[Len(stack.bits) + 1]
       IN  stack' = [bits |-> Append(stack.bits, bit),
                     vals |-> Append(stack.vals,
                                     RunChunk(<<bit>>, FALSE, Last(stack.vals)))]
    /\ UNCHANGED <<job, pc, trunkVars, index, levels, roots, next, outs, results,
                   sessionVars>>

\* Mutant: a single value also moves the cursor by a whole tile.
DescendByTile(base) ==
    IF TileBase <= job.lo THEN pc' = "reveal_down" /\ index' = job.hi
                          ELSE pc' = "fallback" /\ index' = TileBase - 1

\* After a value or a tile: on to the next lower index, or to the reveals.
Descend(base) ==
    IF base = job.lo THEN pc' = "reveal_down" /\ index' = job.hi
                     ELSE pc' = "fallback" /\ index' = base - 1

RunFullTile ==
    /\ pc = "align" /\ FullTile
    /\ Len(stack.bits) = Len(StackTarget)
    /\ LET tile == RunTile(0, CacheTileHeight, Last(stack.vals))
       IN  outs' = [i \in Index |->
                       IF i - (i % TileSize) = TileBase
                       THEN StripLabels(tile[i % TileSize]) ELSE outs[i]]
    /\ Descend(TileBase)
    /\ UNCHANGED <<job, trunkVars, cacheVars, results, sessionVars>>

Single ==
    /\ pc = "align" /\ ~FullTile
    /\ Len(stack.bits) = Len(StackTarget)
    /\ outs' = [outs EXCEPT ![index] = StripLabels(Last(stack.vals))]
    /\ Descend(index)
    /\ UNCHANGED <<job, trunkVars, cacheVars, results, sessionVars>>

RevealDown ==
    /\ pc = "reveal_down"
    /\ results' = [results EXCEPT ![index] = Reveal(outs[index])]
    /\ IF index = job.lo THEN pc' = "done" /\ UNCHANGED index
                         ELSE pc' = pc /\ index' = index - 1
    /\ UNCHANGED <<job, trunkVars, cacheVars, outs, sessionVars>>

-----------------------------------------------------------------------------
\* run_precompute_path_with_streams: every node on the path of one index.
StartPath ==
    /\ pc = "start" /\ job.mode = "path"
    /\ groups' = IF job.lo = 0 THEN <<<<>>>> ELSE SplitChainBits(job.lo, 1)
    /\ pc' = "path"
    /\ UNCHANGED <<job, wires, index, cacheVars, outs, results, sessionVars>>

PathBit ==
    /\ pc = "path"
    /\ LET w == RunChunk(Head(groups), wires = SeedInputs, wires)
           m == FoldSeq(LAMBDA b, sum : sum + 2^b, index, Head(groups))
       IN  /\ wires' = w
           /\ index' = m
           /\ outs' = [outs EXCEPT ![m] = StripLabels(w)]
    /\ groups' = Tail(groups)
    /\ pc' = IF Len(groups) = 1 THEN "stored" ELSE pc
    /\ UNCHANGED <<job, cacheVars, results, sessionVars>>

-----------------------------------------------------------------------------
\* PrecomputeSession: a cache of nodes, one for each number of trailing
\* zeros, from which the next target is derived.
BestParent(c, target) ==
    LET fits == {e \in c : CanDerive(e.mask, target)}
    IN  IF fits = {} THEN [mask |-> 0, wires |-> SeedInputs]
        ELSE CHOOSE e \in fits : \A f \in fits : CountOnes(f.mask) <= CountOnes(e.mask)

MissingBits(c, target) ==
    SelectSeq(SetBitsDesc(target), LAMBDA b : b \notin BitSet(BestParent(c, target).mask))

\* Mutant: the whole path is announced, cached parent or not.
PlannedWholePath(c, target) == CountOnes(target)

PlannedUnits(c, target) == Len(MissingBits(c, target))

\* The map's insert replaces the entry with the same number of trailing zeros.
CacheInsert(c, m, w) ==
    {e \in c : TrailingZeros(e.mask) # TrailingZeros(m)} \cup {[mask |-> m, wires |-> w]}

PruneCache(c, target) == {e \in c : RetainForFuture(e.mask, target)}

\* planned_checked_units and the head of precompute_target: a parent, the
\* bits it lacks, and an early return when the target itself is cached.
PrecomputeTarget(t) ==
    /\ pc = "start" /\ job.mode = "session" /\ Len(targets) < MaxTargets
    /\ LET parent == BestParent(cache, t)
           missing == MissingBits(cache, t)
       IN  /\ planned' = PlannedUnits(cache, t)
           /\ targets' = Append(targets, t)
           /\ hashed' = 0
           /\ index' = t
           /\ IF t = 0
              THEN /\ outs' = [outs EXCEPT ![0] = StripLabels(RunChunk(<<>>, TRUE, SeedInputs))]
                   /\ UNCHANGED <<pc, mask, wires, groups>>
              ELSE IF parent.mask = t
              THEN /\ outs' = [outs EXCEPT ![t] = StripLabels(parent.wires)]
                   /\ UNCHANGED <<pc, mask, wires, groups>>
              ELSE /\ pc' = "target"
                   /\ mask' = parent.mask
                   /\ wires' = parent.wires
                   /\ groups' = [k \in DOMAIN missing |-> <<missing[k]>>]
                   /\ UNCHANGED outs
    /\ UNCHANGED <<job, cacheVars, results, cache, computed>>

\* One hash; the node is kept if a later target can be derived from it.
HashBit ==
    /\ pc = "target" /\ groups # <<>>
    /\ LET w == RunChunk(Head(groups), wires = SeedInputs, wires)
           m == mask + 2^Head(Head(groups))
       IN  /\ wires' = w
           /\ mask' = m
           /\ cache' = IF RetainForFuture(m, index) THEN CacheInsert(cache, m, w) ELSE cache
           /\ computed' = computed \cup {[mask |-> m, wires |-> w]}
    /\ groups' = Tail(groups)
    /\ hashed' = hashed + 1
    /\ UNCHANGED <<job, pc, index, cacheVars, outs, results, planned, targets>>

FinishTarget ==
    /\ pc = "target" /\ groups = <<>>
    /\ cache' = PruneCache(cache, index)
    /\ outs' = [outs EXCEPT ![index] = StripLabels(wires)]
    /\ wires' = SeedInputs
    /\ pc' = "start"
    /\ UNCHANGED <<job, groups, index, cacheVars, results, mask, planned, hashed,
                   computed, targets>>

Next ==
    \/ StartBatch \/ BatchItem
    \/ StartTrunk \/ TrunkGroup \/ Branch
    \/ RevealUp
    \/ TileRoot \/ RevealTiles
    \/ AlignDrop \/ AlignHash \/ RunFullTile \/ Single \/ RevealDown
    \/ StartPath \/ PathBit
    \/ \E t \in Index : PrecomputeTarget(t)
    \/ HashBit \/ FinishTarget

Spec == Init /\ [][Next]_vars

-----------------------------------------------------------------------------
\* Every value that is opened, and every node that is kept for later, is the
\* value BOLT 3 gives its index, whichever mode, chunking, tiling or cached
\* parent it came from; no program is run on an input that does not fit it
\* (run_derivation_batch, _tree, _cache, _chunked, PrecomputeSession).
ValuesExact ==
    /\ \A i \in Index : results[i] \in {NoValue, GenerateFromSeed(i)}
    /\ \A i \in Index : outs[i] \in {NoWires, Wires("stripped", GenerateFromSeed(i))}
    /\ \A e \in cache : e.wires = Wires("live", GenerateFromSeed(e.mask))

\* A call that returns has a value for every index it was asked for: no index
\* falls between two tiles, levels or stack positions ("missing cached
\* output", "missing recursive cached tile").
NothingMissing ==
    /\ pc = "done" => \A i \in Requested : results[i] # NoValue
    /\ pc = "reveal_down" => \A i \in Requested : outs[i] # NoWires
    /\ pc = "stored" => outs[job.lo] # NoWires

\* The checked units announced for a target, which both daemons charge to the
\* lifetime cap, are the hashes the session then evaluates.
PlannedUnitsAreRun ==
    pc = "target" => hashed + Len(groups) = planned

\* Targets asked for in increasing order cost no more hashes than they would
\* with everything the session ever computed still cached: replacing entries
\* of the same layer and pruning lose nothing the scheduler will need.
PruningIsFree ==
    (pc = "start" /\ \A k \in 1 .. Len(targets) - 1 : targets[k] <= targets[k + 1]) =>
        \A t \in Index :
            (\A k \in DOMAIN targets : targets[k] <= t) =>
                Len(MissingBits(cache, t)) = Len(MissingBits(computed, t))
=============================================================================
