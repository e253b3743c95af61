------------------------- MODULE DbMigrationProofs -------------------------
(***************************************************************************)
(* Proofs about DbMigration for any number of starts.  The inductive       *)
(* invariant says which directory states exist at all (Sound) and which of *)
(* them each step of DbStore::open can be at (AtStep).                     *)
(***************************************************************************)
EXTENDS DbMigration, TLAPS

\* With a blob to migrate there are three kinds of directory: the blob is
\* still at path, its retired copy waits for the store to be installed, or the
\* store is installed.  Without one there is nothing, or a new store.
Sound(d) ==
    IF legacy
    THEN \/ d.path = "legacy"
         \/ d.path = "none" /\ d.temp = "copy" /\ d.migrated = "legacy"
         \/ d.path = "copy" /\ d.temp = "none" /\ d.migrated = "legacy"
    ELSE d.path \in {"none", "empty"} /\ d.temp = "none"

\* What a step of DbStore::open knows of the directory.
AtStep ==
    /\ pc \in {"clear", "create", "fill", "forget", "retire"} => fs.path = "legacy"
    /\ pc \in {"forget", "retire"} => fs.temp = "copy"
    /\ pc \in {"retire_sync", "install"} => legacy /\ fs.path = "none"
    /\ pc \in {"install_sync", "recover_sync"} => fs.path = "copy"
    /\ pc = "check" /\ legacy => fs.path # "none"
    /\ pc = "open" /\ legacy => fs.path = "copy"
    /\ pc = "serving" => fs.path = IF legacy THEN "copy" ELSE "empty"

\* The inductive invariant.
MigrationInv ==
    /\ TypeOK
    /\ \A d \in maybe : Sound(d)
    /\ AtStep

\* A directory operation that leaves a sound directory keeps the types and
\* the soundness of what a power loss may leave.
LEMMA ChangeKeeps ==
    ASSUME MigrationInv, NEW new \in Files, NEW next \in Steps, Change(new, next),
           Sound(new)
    PROVE  /\ TypeOK'
           /\ \A d \in maybe' : Sound(d)'
           /\ fs' = new /\ pc' = next /\ legacy' = legacy
BY DEF MigrationInv, TypeOK, Change, Sound

\* The initial states satisfy the invariant.
LEMMA InitMigrationInv == Init => MigrationInv
<1> SUFFICES ASSUME Init PROVE MigrationInv
  OBVIOUS
<1>1. PICK m \in {"none", "older"} :
         fs = [path |-> IF legacy THEN "legacy" ELSE "none", temp |-> "none", migrated |-> m]
  BY DEF Init
<1>2. fs \in Files /\ Sound(fs)
  BY <1>1 DEF Files, Sound
<1>3. TypeOK
  BY <1>2, StartAssumption DEF Init, TypeOK, Steps
<1>4. AtStep
  BY DEF Init, AtStep
<1> QED BY <1>2, <1>3, <1>4 DEF Init, MigrationInv

\* Every step keeps the invariant.
LEMMA NextMigrationInv == MigrationInv /\ [Next]_vars => MigrationInv'
<1> SUFFICES ASSUME MigrationInv, [Next]_vars PROVE MigrationInv'
  OBVIOUS
<1>0. fs \in Files /\ Sound(fs) /\ AtStep /\ TypeOK
  BY DEF MigrationInv, TypeOK
<1>1. CASE UNCHANGED vars
  BY <1>1 DEF vars, MigrationInv, TypeOK, Sound, AtStep
<1>2. CASE RecoverIncompleteMigration
  <2>1. CASE fs.path # "none"
    <3> DEFINE new == [fs EXCEPT !.temp = "none"]
    <3>1. new \in Files /\ Sound(new) /\ Change(new, "check") /\ new.path # "none"
      BY <1>0, <1>2, <2>1 DEF RecoverIncompleteMigration, Files, Sound
    <3> HIDE DEF new
    <3> QED BY <3>1, ChangeKeeps DEF Steps, MigrationInv, AtStep
  <2>2. CASE fs.path = "none" /\ fs.temp # "none"
    <3> DEFINE new == [fs EXCEPT !.path = fs.temp, !.temp = "none"]
    <3>1. /\ new \in Files /\ Sound(new) /\ Change(new, "recover_sync")
          /\ new.path = "copy"
      BY <1>0, <1>2, <2>2 DEF RecoverIncompleteMigration, Files, Sound
    <3> HIDE DEF new
    <3> QED BY <3>1, ChangeKeeps DEF Steps, MigrationInv, AtStep
  <2>3. CASE fs.path = "none" /\ fs.temp = "none"
    <3>1. ~legacy /\ Go("check")
      BY <1>0, <1>2, <2>3 DEF RecoverIncompleteMigration, Sound
    <3> QED BY <3>1 DEF Go, MigrationInv, TypeOK, Steps, Sound, AtStep
  <2> QED BY <2>1, <2>2, <2>3
<1>3. CASE \/ SyncParentDir("recover_sync", "check")
           \/ SyncParentDir("retire_sync", "install")
           \/ SyncParentDir("install_sync", "recover")
  BY <1>0, <1>3 DEF SyncParentDir, MigrationInv, TypeOK, Steps, Sound, AtStep
<1>4. CASE IsLegacyDbFile
  BY <1>0, <1>4 DEF IsLegacyDbFile, Go, MigrationInv, TypeOK, Steps, Sound, AtStep
<1>5. CASE RemoveTemp
  <2> DEFINE new == [fs EXCEPT !.temp = "none"]
  <2>1. new \in Files /\ Sound(new) /\ Change(new, "create") /\ new.path = "legacy"
    BY <1>0, <1>5 DEF RemoveTemp, Files, Sound, AtStep
  <2> HIDE DEF new
  <2> QED BY <2>1, ChangeKeeps DEF Steps, MigrationInv, AtStep
<1>6. CASE CreateTemp
  <2> DEFINE new == [fs EXCEPT !.temp = "partial"]
  <2>1. new \in Files /\ Sound(new) /\ Change(new, "fill") /\ new.path = "legacy"
    BY <1>0, <1>6 DEF CreateTemp, Files, Sound, AtStep
  <2> HIDE DEF new
  <2> QED BY <2>1, ChangeKeeps DEF Steps, MigrationInv, AtStep
<1>7. CASE FillTemp
  <2> DEFINE new == [fs EXCEPT !.temp = "copy"]
  <2>1. /\ new \in Files /\ Sound(new) /\ Change(new, "forget")
        /\ new.path = "legacy" /\ new.temp = "copy"
    BY <1>0, <1>7 DEF FillTemp, Files, Sound, AtStep
  <2> HIDE DEF new
  <2> QED BY <2>1, ChangeKeeps DEF Steps, MigrationInv, AtStep
<1>8. CASE RemoveOldBackup
  <2> DEFINE new == [fs EXCEPT !.migrated = "none"]
  <2>1. /\ new \in Files /\ Sound(new) /\ Change(new, "retire")
        /\ new.path = "legacy" /\ new.temp = "copy"
    BY <1>0, <1>8 DEF RemoveOldBackup, Files, Sound, AtStep
  <2> HIDE DEF new
  <2> QED BY <2>1, ChangeKeeps DEF Steps, MigrationInv, AtStep
<1>9. CASE RetireLegacy
  <2> DEFINE new == [fs EXCEPT !.path = "none", !.migrated = fs.path]
  <2>1. /\ new \in Files /\ Sound(new) /\ Change(new, "retire_sync")
        /\ legacy /\ new.path = "none"
    BY <1>0, <1>9 DEF RetireLegacy, Files, Sound, AtStep
  <2> HIDE DEF new
  <2> QED BY <2>1, ChangeKeeps DEF Steps, MigrationInv, AtStep
<1>10. CASE InstallTemp
  <2> DEFINE new == [fs EXCEPT !.path = fs.temp, !.temp = "none"]
  <2>1. /\ new \in Files /\ Sound(new) /\ Change(new, "install_sync")
        /\ new.path = "copy"
    BY <1>0, <1>10 DEF InstallTemp, Files, Sound, AtStep
  <2> HIDE DEF new
  <2> QED BY <2>1, ChangeKeeps DEF Steps, MigrationInv, AtStep
<1>11. CASE OpenDatabase
  <2>1. CASE fs.path = "none"
    <3> DEFINE new == [fs EXCEPT !.path = "empty"]
    <3>1. /\ new \in Files /\ Sound(new) /\ Change(new, "serving")
          /\ ~legacy /\ new.path = "empty"
      BY <1>0, <1>11, <2>1 DEF OpenDatabase, Files, Sound, AtStep
    <3> HIDE DEF new
    <3> QED BY <3>1, ChangeKeeps DEF Steps, MigrationInv, AtStep
  <2>2. CASE fs.path # "none"
    BY <1>0, <1>11, <2>2 DEF OpenDatabase, Go, MigrationInv, TypeOK, Steps, Sound, AtStep
  <2> QED BY <2>1, <2>2
<1>12. CASE Fails \/ PowerLoss
  <2>1. starts' \in 0 .. MaxStart
    BY <1>0, <1>12, StartAssumption DEF Fails, PowerLoss, TypeOK
  <2> QED BY <1>0, <1>12, <2>1 DEF Fails, PowerLoss, MigrationInv, TypeOK, Steps, Sound, AtStep
<1> QED BY <1>1, <1>2, <1>3, <1>4, <1>5, <1>6, <1>7, <1>8, <1>9, <1>10, <1>11, <1>12
           DEF Next, OpenStep

\* The inductive invariant holds throughout.
LEMMA MigrationInvariant == Spec => []MigrationInv
BY InitMigrationInv, NextMigrationInv, PTL DEF Spec

\* The files are never other than the model names: in particular no partial
\* store is ever installed at path.
THEOREM MigrationTypes == Spec => []TypeOK
<1>1. MigrationInv => TypeOK
  BY DEF MigrationInv
<1> QED BY <1>1, MigrationInvariant, PTL

\* Whatever directory a failure or a power loss leaves, at any step of any
\* start, the next start finds the records of the legacy blob.
THEOREM MigrationLosesNothing == Spec => []NoMigrationLoss
<1>1. MigrationInv => NoMigrationLoss
  BY DEF MigrationInv, Sound, NoMigrationLoss, Recoverable
<1> QED BY <1>1, MigrationInvariant, PTL

\* A daemon serves the migrated records or, without a blob, a new store.
THEOREM MigrationServes == Spec => []ServesMigrated
<1>1. MigrationInv => ServesMigrated
  BY DEF MigrationInv, Sound, AtStep, TypeOK, ServesMigrated
<1> QED BY <1>1, MigrationInvariant, PTL

=============================================================================
