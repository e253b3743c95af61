---------------------------- MODULE DbMigration ----------------------------
(***************************************************************************)
(* DbStore::open (shachain2pc-daemon, db.rs): the one-time migration of a  *)
(* legacy encrypted blob into a redb store, file step by file step, with   *)
(* failures and power losses at every step and the recovery that the next  *)
(* start begins with.                                                      *)
(*                                                                         *)
(* Abstractions.                                                           *)
(*  - A file is named by what reading it gives: "legacy" the blob, "copy"  *)
(*    a redb store with the blob's records, "partial" a store whose        *)
(*    records are not all committed, "empty" a new store, "older" the blob *)
(*    of an earlier migration, "none" no file.                             *)
(*  - A power loss leaves the directory as it was at some moment since it  *)
(*    was last synced: directory operations become durable in their order. *)
(*    The content of the temporary store is durable when its last commit   *)
(*    returns, as its durability is immediate.                             *)
(***************************************************************************)
EXTENDS Integers

CONSTANT MaxStart   \* bound: starts of the daemon

ASSUME StartAssumption == MaxStart \in Nat

VARIABLES
    fs,      \* the files at path, *.migrating and *.migrated
    maybe,   \* the directory states a power loss may leave
    pc,      \* the next step of DbStore::open, or "serving"
    legacy,  \* whether there was a blob to migrate
    starts   \* starts so far

vars == <<fs, maybe, pc, legacy, starts>>

Files == [path     : {"none", "legacy", "copy", "empty"},
          temp     : {"none", "partial", "copy"},
          migrated : {"none", "older", "legacy"}]
Steps == {"recover", "recover_sync", "check", "clear", "create", "fill",
          "forget", "retire", "retire_sync", "install", "install_sync",
          "open", "serving"}

\* The shape of the state: a partial store is never at path, and the current
\* directory is among those a power loss may leave.
TypeOK ==
    /\ fs \in Files
    /\ maybe \in SUBSET Files
    /\ fs \in maybe
    /\ pc \in Steps
    /\ legacy \in BOOLEAN
    /\ starts \in 0 .. MaxStart

Init ==
    /\ legacy \in BOOLEAN
    /\ fs \in {[path     |-> IF legacy THEN "legacy" ELSE "none",
                temp     |-> "none",
                migrated |-> m] : m \in {"none", "older"}}
    /\ maybe = {fs}
    /\ pc = "recover"
    /\ starts = 0

-----------------------------------------------------------------------------
\* A directory operation, which no sync has made durable yet.
Change(new, next) ==
    /\ fs' = new
    /\ maybe' = maybe \cup {new}
    /\ pc' = next
    /\ UNCHANGED <<legacy, starts>>

Go(next) == pc' = next /\ UNCHANGED <<fs, maybe, legacy, starts>>

SyncParentDir(from, to) ==
    /\ pc = from
    /\ maybe' = {fs}
    /\ pc' = to
    /\ UNCHANGED <<fs, legacy, starts>>

\* Mutant: a finished copy is installed beside the database it replaces only.
RecoverNeedsDatabase ==
    /\ pc = "recover"
    /\ fs.path # "none"
    /\ Change([fs EXCEPT !.temp = "none"], "check")

\* recover_incomplete_migration: a temporary store beside the database is
\* discarded, one without it is the finished copy and is installed.
RecoverIncompleteMigration ==
    /\ pc = "recover"
    /\ \/ /\ fs.path # "none"
          /\ Change([fs EXCEPT !.temp = "none"], "check")
       \/ /\ fs.path = "none"
          /\ fs.temp # "none"
          /\ Change([fs EXCEPT !.path = fs.temp, !.temp = "none"], "recover_sync")
       \/ /\ fs.path = "none"
          /\ fs.temp = "none"
          /\ Go("check")

IsLegacyDbFile ==
    /\ pc = "check"
    /\ Go(IF fs.path = "legacy" THEN "clear" ELSE "open")

RemoveTemp ==
    /\ pc = "clear"
    /\ Change([fs EXCEPT !.temp = "none"], "create")

\* migrate_legacy_db creates the store and commits the records to it.
CreateTemp ==
    /\ pc = "create"
    /\ Change([fs EXCEPT !.temp = "partial"], "fill")

\* Mutant: the blob is renamed before its records are committed.
FillLater ==
    /\ pc = "fill"
    /\ Go("forget")

FillTemp ==
    /\ pc = "fill"
    /\ Change([fs EXCEPT !.temp = "copy"], "forget")

RemoveOldBackup ==
    /\ pc = "forget"
    /\ Change([fs EXCEPT !.migrated = "none"], "retire")

\* Mutant: the blob is deleted instead of being kept beside the new store.
RetireDeletes ==
    /\ pc = "retire"
    /\ Change([fs EXCEPT !.path = "none"], "retire_sync")

RetireLegacy ==
    /\ pc = "retire"
    /\ Change([fs EXCEPT !.path = "none", !.migrated = fs.path], "retire_sync")

InstallTemp ==
    /\ pc = "install"
    /\ Change([fs EXCEPT !.path = fs.temp, !.temp = "none"], "install_sync")

\* Opening or creating the redb store at path, loading it and serving.
OpenDatabase ==
    /\ pc = "open"
    /\ \/ /\ fs.path = "none"
          /\ Change([fs EXCEPT !.path = "empty"], "serving")
       \/ /\ fs.path # "none"
          /\ Go("serving")

\* An error of a step ends the daemon and leaves the files; so does a stop.
Fails ==
    /\ starts < MaxStart
    /\ starts' = starts + 1
    /\ pc' = "recover"
    /\ UNCHANGED <<fs, maybe, legacy>>

PowerLoss ==
    /\ starts < MaxStart
    /\ starts' = starts + 1
    /\ fs' \in maybe
    /\ maybe' = {fs'}
    /\ pc' = "recover"
    /\ UNCHANGED legacy

OpenStep ==
    \/ RecoverIncompleteMigration
    \/ SyncParentDir("recover_sync", "check")
    \/ IsLegacyDbFile
    \/ RemoveTemp
    \/ CreateTemp
    \/ FillTemp
    \/ RemoveOldBackup
    \/ RetireLegacy
    \/ SyncParentDir("retire_sync", "install")
    \/ InstallTemp
    \/ SyncParentDir("install_sync", "recover")
    \/ OpenDatabase

Next == OpenStep \/ Fails \/ PowerLoss

Spec == Init /\ [][Next]_vars

\* The daemon carries on with DbStore::open; failures and power losses are
\* bounded by MaxStart.
FairSpec == Spec /\ WF_vars(OpenStep)

-----------------------------------------------------------------------------
\* The records of the blob are at path, or in the store that the recovery is
\* going to install there.
Recoverable(d) ==
    \/ d.path \in {"legacy", "copy"}
    \/ d.path = "none" /\ d.temp = "copy"

\* No failure or power loss between two file steps loses the records of the
\* legacy blob: whatever directory state is left, the next start finds them
\* (instead of creating an empty store).
NoMigrationLoss == legacy => \A d \in maybe : Recoverable(d)

\* A daemon that serves has the migrated records and the blob beside them as
\* *.migrated; one without a blob serves a new store.
ServesMigrated ==
    pc = "serving" =>
        IF legacy THEN fs.path = "copy" /\ fs.migrated = "legacy" /\ fs.temp = "none"
                  ELSE fs.path = "empty"

\* Every start gets to serving, interrupted migrations included.
EventuallyServes == <>[](pc = "serving")

=============================================================================
