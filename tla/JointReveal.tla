---------------------------- MODULE JointReveal ----------------------------
(***************************************************************************)
(* What the two daemons promise together about the secrets of a channel:   *)
(* a party comes to know a secret only once both operators have asked for  *)
(* its index, what it then knows is the true secret and everything that    *)
(* derives from it, and it forgets only by losing its database.            *)
(***************************************************************************)
EXTENDS Naturals

CONSTANTS Indices,   \* the indices operators ask for
          Derives    \* pairs of indices: the first one's secret yields the other's

VARIABLES asked,     \* asked[p]: the indices p's operator has asked for
          knows,     \* knows[p][i]: what p would answer for i
          losses     \* databases lost or rolled back so far

vars == <<asked, knows, losses>>

Party == {"Alice", "Bob"}

Init ==
    /\ asked = [p \in Party |-> {}]
    /\ knows = [p \in Party |-> [i \in Indices |-> "none"]]
    /\ losses = 0

Ask(p, i) ==
    /\ asked' = [asked EXCEPT ![p] = @ \cup {i}]
    /\ UNCHANGED <<knows, losses>>

\* The parties learn apart: an answer may be lost between them.
Learn(p, i) ==
    /\ \A q \in Party : i \in asked[q]
    /\ knows[p][i] # "good"
    /\ knows' = [knows EXCEPT ![p] =
                    [j \in Indices |-> IF <<i, j>> \in Derives THEN "good"
                                       ELSE knows[p][j]]]
    /\ UNCHANGED <<asked, losses>>

Lose(p) ==
    /\ losses' = losses + 1
    /\ \E kept \in SUBSET Indices :
          knows' = [knows EXCEPT ![p] =
                       [i \in Indices |-> IF i \in kept THEN knows[p][i]
                                          ELSE "none"]]
    /\ UNCHANGED asked

Next == \E p \in Party :
            \/ \E i \in Indices : Ask(p, i) \/ Learn(p, i)
            \/ Lose(p)

Spec == Init /\ [][Next]_vars

=============================================================================
