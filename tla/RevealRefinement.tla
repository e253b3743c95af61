-------------------------- MODULE RevealRefinement --------------------------
(* CachedReveal implements JointReveal.                                    *)
EXTENDS CachedReveal

\* What a daemon that holds the secrets s answers for i: derive_known looks
\* for a stored secret that derives it.
Answer(s, i) ==
    IF \E j \in Indices : s[j] = "good" /\ CanDerive(j, i) THEN "good" ELSE s[i]

Lineage == {d \in Indices \X Indices : CanDerive(d[1], d[2])}
Knowledge == [p \in Party |-> [i \in Indices |-> Answer(known_secrets[p], i)]]

Joint == INSTANCE JointReveal WITH
    Derives <- Lineage, asked <- auth, knows <- Knowledge, losses <- crashes

\* The daemons keep their joint promise: through every interleaving of calls,
\* handlers, fallbacks, lost answers and restarts a daemon learns only what
\* both operators asked for, learns it right, and forgets only in a restart.
ImplementsJointReveal == Joint!Spec

=============================================================================
