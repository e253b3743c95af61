----------------------------- MODULE MCDbStore -----------------------------
(* Instances of DbStore: two tasks.                                         *)
EXTENDS DbStore

CONSTANTS t1, t2

TwoTasks == {t1, t2}

=============================================================================
