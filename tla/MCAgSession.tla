---------------------------- MODULE MCAgSession ----------------------------
(* A small instance of AgSession for TLC.                                  *)
EXTENDS AgSession

\* A derivation of two items, one of them free of AND gates, whose masks
\* and garbled gates take more than one batch and chunk.
MCPrograms == <<3, 0>>

\* A session whose second target is found in its cache, and whose third is
\* the seed root: a program without ANDs.
MCTargets == <<<<2, 1>>, <<>>, <<0>>>>

=============================================================================
