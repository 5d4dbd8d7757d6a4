-------------------------- MODULE RestoreTransaction --------------------------
(***************************************************************************)
(* appliance/lib/restore_transaction.py: the journaled replacement of N    *)
(* fixed paths by staged copies.  Every rename is a step of its own and so *)
(* is the fsync that follows it, so a fault can fall between any two of    *)
(* them.  The journal record is written by save_record (temporary file,    *)
(* fsync, os.replace, directory fsync) and is atomic and durable here.     *)
(*                                                                         *)
(* Two faults are told apart because they lose different things: "kill"    *)
(* ends the process (or raises out of the running method) and keeps the    *)
(* page cache; "power" also loses renames that no fsync has made durable,  *)
(* each one or not.  A behaviour fixes in its initial state which of the   *)
(* two it meets.                                                           *)
(***************************************************************************)
EXTENDS Naturals

CONSTANT N    \* number of targets; apply visits 1..N, rollback N..1

ASSUME NAssumption == N \in Nat \ {0}

Keys == 1..N
Trees == {"none", "old", "partial", "new"}
Slots == {"target", "incoming", "previous", "rejected"}

VARIABLES
  journal,    \* the durable record's state, "none" while there is no file
  existed,    \* the record's map of which targets existed at prepare
  slot,       \* slot[k][s]: what the path s of target k holds
  disk,       \* the part of slot that would survive a power loss
  pc,         \* where the running method is, "idle" when none runs
  key,        \* the target the running method works on
  faults      \* the kinds of fault this behaviour can meet

transaction == <<journal, existed, slot, disk, pc, key>>
vars == <<transaction, faults>>

Journals == {"none", "preparing", "ready", "installing", "installed",
             "committed", "rolling-back", "rolled-back"}
PCs == {"idle", "stage", "copy", "sync-copy", "retire", "sync-retire",
        "install", "sync-install", "reject", "sync-reject",
        "reinstate", "sync-reinstate"}

Orig(k) == IF existed[k] THEN "old" ELSE "none"

Empty(k) == [s \in Slots |-> IF s = "target" THEN Orig(k) ELSE "none"]

Init ==
  /\ journal = "none"
  /\ existed \in [Keys -> BOOLEAN]
  /\ slot = [k \in Keys |-> Empty(k)]
  /\ disk = slot
  /\ pc = "idle"
  /\ key = 1
  /\ faults \in SUBSET {"kill", "power"}

Exists(k, s) == slot[k][s] # "none"

(* os.rename(from, to) inside the parent directory of target k. *)
Rename(k, from, to) ==
  slot' = [slot EXCEPT ![k] = [@ EXCEPT ![from] = "none", ![to] = slot[k][from]]]

(* sync_directory(target.parent); sync_directory(location) *)
SyncDirectories == disk' = [disk EXCEPT ![key] = slot[key]]

-------------------------------------------------------------------------------
(* prepare(sources) *)

Prepare ==
  /\ pc = "idle"
  /\ journal = "none"
  /\ journal' = "preparing"
  /\ pc' = "stage"
  /\ key' = 1
  /\ UNCHANGED <<existed, slot, disk>>

(* location.mkdir(), and the copy of the first files into location/incoming *)
StageIncoming ==
  /\ pc = "stage"
  /\ slot' = [slot EXCEPT ![key] = [@ EXCEPT !["incoming"] = "partial"]]
  /\ pc' = "copy"
  /\ UNCHANGED <<journal, existed, disk, key>>

CopyOwned ==
  /\ pc = "copy"
  /\ slot' = [slot EXCEPT ![key] = [@ EXCEPT !["incoming"] = "new"]]
  /\ pc' = "sync-copy"
  /\ UNCHANGED <<journal, existed, disk, key>>

SyncIncoming ==
  /\ pc = "sync-copy"
  /\ SyncDirectories
  /\ IF key < N
       THEN pc' = "stage" /\ key' = key + 1 /\ UNCHANGED journal
       ELSE pc' = "idle" /\ journal' = "ready" /\ UNCHANGED key
  /\ UNCHANGED <<existed, slot>>

-------------------------------------------------------------------------------
(* apply() *)

(* Mutant: apply resumes after an interruption. *)
ApplyAgain ==
  /\ pc = "idle"
  /\ journal \in {"ready", "installing"}
  /\ journal' = "installing"
  /\ pc' = "retire"
  /\ key' = 1
  /\ UNCHANGED <<existed, slot, disk>>

Apply ==
  /\ pc = "idle"
  /\ journal = "ready"
  /\ journal' = "installing"
  /\ pc' = "retire"
  /\ key' = 1
  /\ UNCHANGED <<existed, slot, disk>>

RetirePrevious ==
  /\ pc = "retire"
  /\ IF existed[key]
       THEN Rename(key, "target", "previous") /\ pc' = "sync-retire"
       ELSE UNCHANGED slot /\ pc' = "install"
  /\ UNCHANGED <<journal, existed, disk, key>>

SyncRetired ==
  /\ pc = "sync-retire"
  /\ SyncDirectories
  /\ pc' = "install"
  /\ UNCHANGED <<journal, existed, slot, key>>

InstallIncoming ==
  /\ pc = "install"
  /\ Rename(key, "incoming", "target")
  /\ pc' = "sync-install"
  /\ UNCHANGED <<journal, existed, disk, key>>

(* Mutant: the rename into place is not made durable. *)
InstalledUnsynced ==
  /\ pc = "sync-install"
  /\ IF key < N
       THEN pc' = "retire" /\ key' = key + 1 /\ UNCHANGED journal
       ELSE pc' = "idle" /\ journal' = "installed" /\ UNCHANGED key
  /\ UNCHANGED <<existed, slot, disk>>

SyncInstalled ==
  /\ pc = "sync-install"
  /\ SyncDirectories
  /\ IF key < N
       THEN pc' = "retire" /\ key' = key + 1 /\ UNCHANGED journal
       ELSE pc' = "idle" /\ journal' = "installed" /\ UNCHANGED key
  /\ UNCHANGED <<existed, slot>>

-------------------------------------------------------------------------------
(* rollback() *)

(* Mutants: an interrupted rollback is not taken up; a committed one is. *)
RollbackOnce ==
  /\ pc = "idle"
  /\ journal \notin {"none", "committed", "rolling-back", "rolled-back"}
  /\ journal' = "rolling-back"
  /\ pc' = "reject"
  /\ key' = N
  /\ UNCHANGED <<existed, slot, disk>>

RollbackCommitted ==
  /\ pc = "idle"
  /\ journal \notin {"none", "rolled-back"}
  /\ journal' = "rolling-back"
  /\ pc' = "reject"
  /\ key' = N
  /\ UNCHANGED <<existed, slot, disk>>

(* A record that is already rolled back returns at once. *)
Rollback ==
  /\ pc = "idle"
  /\ journal \notin {"none", "committed", "rolled-back"}
  /\ journal' = "rolling-back"
  /\ pc' = "reject"
  /\ key' = N
  /\ UNCHANGED <<existed, slot, disk>>

(* Mutant: the first target is left as it is. *)
FirstKeySkipped ==
  IF key > 2
    THEN pc' = "reject" /\ key' = key - 1 /\ UNCHANGED journal
    ELSE pc' = "idle" /\ journal' = "rolled-back" /\ UNCHANGED key

NextRollbackKey ==
  IF key > 1
    THEN pc' = "reject" /\ key' = key - 1 /\ UNCHANGED journal
    ELSE pc' = "idle" /\ journal' = "rolled-back" /\ UNCHANGED key

(* The target is in the way of the previous tree, or it is a new tree where *)
(* nothing existed.                                                         *)
MustReject(k) ==
  /\ Exists(k, "target")
  /\ \/ Exists(k, "previous")
     \/ ~existed[k] /\ ~Exists(k, "incoming")

RejectTarget ==
  /\ pc = "reject"
  /\ MustReject(key)
  /\ Rename(key, "target", "rejected")
  /\ pc' = "sync-reject"
  /\ UNCHANGED <<journal, existed, disk, key>>

SyncRejected ==
  /\ pc = "sync-reject"
  /\ SyncDirectories
  /\ IF Exists(key, "previous")
       THEN pc' = "reinstate" /\ UNCHANGED <<journal, key>>
       ELSE NextRollbackKey
  /\ UNCHANGED <<existed, slot>>

ReinstatePrevious ==
  /\ \/ pc = "reinstate"
     \/ pc = "reject" /\ Exists(key, "previous") /\ ~Exists(key, "target")
  /\ Rename(key, "previous", "target")
  /\ pc' = "sync-reinstate"
  /\ UNCHANGED <<journal, existed, disk, key>>

SyncReinstated ==
  /\ pc = "sync-reinstate"
  /\ SyncDirectories
  /\ NextRollbackKey
  /\ UNCHANGED <<existed, slot>>

SkipTarget ==
  /\ pc = "reject"
  /\ ~MustReject(key)
  /\ ~Exists(key, "previous")
  /\ NextRollbackKey
  /\ UNCHANGED <<existed, slot, disk>>

-------------------------------------------------------------------------------
(* commit() *)
Commit ==
  /\ pc = "idle"
  /\ journal = "installed"
  /\ journal' = "committed"
  /\ UNCHANGED <<existed, slot, disk, pc, key>>

(* The process dies, or a step raises out of the running method. *)
Kill ==
  /\ "kill" \in faults
  /\ pc # "idle"
  /\ pc' = "idle"
  /\ UNCHANGED <<journal, existed, slot, disk, key>>

(* The machine stops: each target keeps its unsynced changes or loses them. *)
PowerLoss ==
  /\ "power" \in faults
  /\ pc' = "idle"
  /\ \E kept \in SUBSET Keys :
       slot' = [k \in Keys |-> IF k \in kept THEN slot[k] ELSE disk[k]]
  /\ disk' = slot'
  /\ UNCHANGED <<journal, existed, key>>

MethodStep ==
  \/ StageIncoming \/ CopyOwned \/ SyncIncoming
  \/ RetirePrevious \/ SyncRetired \/ InstallIncoming \/ SyncInstalled
  \/ RejectTarget \/ SyncRejected \/ ReinstatePrevious \/ SyncReinstated
  \/ SkipTarget

Call == Prepare \/ Apply \/ Rollback \/ Commit

Next == (Call \/ MethodStep \/ Kill \/ PowerLoss) /\ UNCHANGED faults

Spec == Init /\ [][Next]_vars

-------------------------------------------------------------------------------
(* Properties *)

(* The variables only hold what the code can write into them. *)
TypeOK ==
  /\ journal \in Journals
  /\ existed \in [Keys -> BOOLEAN]
  /\ slot \in [Keys -> [Slots -> Trees]]
  /\ disk \in [Keys -> [Slots -> Trees]]
  /\ pc \in PCs
  /\ key \in Keys
  /\ faults \subseteq {"kill", "power"}

(* With kills only the page cache decides, with power losses only nothing   *)
(* stays unsynced behind a method; with both neither holds.                 *)
OneKindOfFault == ~({"kill", "power"} \subseteq faults)

(* A record that says installed or committed stands over new trees only, and *)
(* one that says rolled-back over exactly what prepare found: apply and a    *)
(* rollback that was interrupted anywhere and rerun never leave a mixture.   *)
(* The second needs faults of one kind: a kill leaves a rename unsynced that *)
(* the next rollback does not sync again, and a power loss takes it back.    *)
WholeGeneration ==
  /\ journal \in {"installed", "committed"} =>
       \A k \in Keys : slot[k]["target"] = "new"
  /\ journal = "rolled-back" /\ OneKindOfFault =>
       \A k \in Keys : slot[k]["target"] = Orig(k)

(* "Previous trees deliberately remain private and recoverable"              *)
(* (restore_transaction.py:152): no sequence of calls and interruptions      *)
(* overwrites the original tree of a target, wherever it is at the moment.   *)
OldTreeRetained ==
  \A k \in Keys : existed[k] => \E s \in Slots : slot[k][s] = "old"

(* When the record names a resting state no rename is left unsynced, so a    *)
(* power loss cannot take back what installed, committed or rolled-back says *)
(* (where no method was killed before the fsync of its last rename).         *)
RestIsDurable ==
  "kill" \notin faults /\ journal \in {"ready", "installed", "committed", "rolled-back"} => disk = slot

(* A target never exposes an incomplete copy, whatever was lost.             *)
TargetIsWhole ==
  \A k \in Keys : slot[k]["target"] \in {Orig(k), "none", "new"}

(* Seen by its caller the transaction is an AtomicSwitch of its targets; one *)
(* that meets both kinds of fault promises no outcome, only the trees it may *)
(* show.                                                                     *)
Switch == INSTANCE AtomicSwitch WITH
  New <- "new",
  original <- [k \in Keys |-> Orig(k)],
  live <- [k \in Keys |-> slot[k]["target"]],
  outcome <- IF OneKindOfFault /\ journal = "committed" THEN "committed"
             ELSE IF OneKindOfFault /\ journal = "rolled-back" THEN "restored"
             ELSE "open"

ImplementsSwitch == Switch!SwitchSpec

(* Once faults stop, a transaction that was begun is decided: rollback can   *)
(* be rerun from whatever state the interrupted method left.                 *)
EventuallyDecided ==
  <>[][~Kill /\ ~PowerLoss]_transaction =>
    ((journal # "none") ~> (journal \in {"committed", "rolled-back"}))

===============================================================================
