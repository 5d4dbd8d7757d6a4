----------------------- MODULE RestoreCoordinator_proofs -----------------------
(***************************************************************************)
(* Proofs about RestoreCoordinator for every number of trees, every set of *)
(* services that ran before the restore and any number of interruptions of *)
(* the kinds that may happen.                                              *)
(*                                                                         *)
(* The properties of the record follow from what each holder of the        *)
(* maintenance lock knows (HolderInv, RecordInv, SourcesInv, WritersInv)   *)
(* and from what the transaction's renames have left, in memory and on the *)
(* disk (OriginalsInv, StagedInv, InstalledInv, RevertedInv, DurableInv).  *)
(* Unlike in RestoreTransaction a step of the transaction runs under a     *)
(* lock holder here, and a boot may put a directory where a tree was.      *)
(***************************************************************************)
EXTENDS RestoreCoordinator, TLAPS

(* What a path may hold: the trees of the transaction, and the directory a  *)
(* boot makes for a target it misses.                                       *)
Content == Trees \cup {"made"}

(* The steps of prepare, apply and rollback between two of their renames    *)
(* and synchronisations.                                                    *)
PreparePCs == {"stage", "copy", "sync-copy"}
ApplyPCs == {"retire", "sync-retire", "install", "sync-install"}
RollbackPCs == {"reject", "sync-reject", "reinstate", "sync-reinstate"}

(* An original tree stands at its target, or was put aside under the name   *)
(* its previous version gets.                                               *)
Standing(f) == f["target"] = "old" /\ f["previous"] = "none"
Aside(f)    == f["target"] # "old" /\ f["previous"] = "old"

(* Types: those of the run's invariant, and those of the transaction's own  *)
(* variables.                                                               *)
CoordinatorTypeOK ==
  /\ RestoreTypeOK
  /\ existed \in [Keys -> BOOLEAN]
  /\ disk \in [Keys -> [Slots -> Content]]
  /\ pc \in PCs
  /\ key \in Keys
  /\ faults \subseteq {"kill", "power"}

(* The steps of RestoreCoordinator.restore, and of recover_locked.          *)
RestoreSteps == {"stop-graphics", "stop-compose", "checkpoint", "archive", "prepare", "preparing",
                 "apply", "applying", "resume", "resume-graphics", "commit", "complete", "release"}

RecoverSteps == {"stop-graphics", "stop-compose", "files", "rolling-back", "resume",
                 "resume-graphics", "done", "release"}

(* Who holds the maintenance lock: restore runs only its own steps and      *)
(* recovery its own, and a method of the transaction is under way only      *)
(* inside the step that called it, with the journal in the state that       *)
(* method wrote first.                                                      *)
HolderInv ==
  /\ at \in {Nobody} \cup ({"restore"} \X RestoreSteps) \cup ({"recover"} \X RecoverSteps)
  /\ at # Nobody => up
  /\ pc \in PreparePCs => journal = "preparing" /\ Restore("preparing")
  /\ pc \in ApplyPCs => journal = "installing" /\ Restore("applying")
  /\ pc \in RollbackPCs => journal = "rolling-back" /\ Recover("rolling-back")

(* The maintenance record and the journal agree: the record is decided      *)
(* only by an outcome the journal has, and each step of restore is reached  *)
(* with the journal the steps before it left.                               *)
RecordInv ==
  /\ state = "none" => at = Nobody /\ journal = "none"
  /\ state = "completed" => journal = "committed"
  /\ state = "rolled-back" => journal \in {"none", "rolled-back"}
  /\ state \in Decided => at = Nobody \/ at[2] = "release"
  /\ at[2] = "release" => state \in Decided
  /\ at[1] = "restore" /\ at[2] \in {"stop-graphics", "stop-compose", "checkpoint", "archive", "prepare"}
       => journal = "none"
  /\ Restore("preparing") /\ pc = "idle" => journal = "ready"
  /\ Restore("apply") => journal = "ready"
  /\ Restore("applying") /\ pc = "idle" => journal = "installed"
  /\ at[1] = "restore" /\ at[2] \in {"resume", "resume-graphics", "commit"} => journal = "installed"
  /\ Restore("complete") => journal = "committed"
  /\ Recover("rolling-back") /\ pc = "idle" => journal = "rolled-back"
  /\ at[1] = "recover" /\ at[2] \in {"resume", "resume-graphics", "done"}
       => journal \in {"none", "committed", "rolled-back"}

(* What an undecided restore would go back to is there: the archive from    *)
(* the first journal on, and the pin of the checkpoint until the restore    *)
(* is decided.                                                              *)
SourcesInv ==
  /\ journal # "none" => archived
  /\ journal # "none" /\ ~pinned => state \in Decided
  /\ at[1] = "restore" => pinned \/ at[2] \in {"stop-graphics", "stop-compose", "checkpoint"}
  /\ Restore("prepare") => archived

(* The steps between the last service stopped and the first one started.    *)
Quiet == at[2] \in {"checkpoint", "archive", "prepare", "preparing", "apply", "applying",
                    "files", "rolling-back"}

(* What HostServices has stopped and started so far, of the services that   *)
(* the record saved: the settings' locks keep the graphics down.            *)
WritersInv ==
  /\ ~up => late = {}
  /\ Quiet => running \cap saved \subseteq late
  /\ at[2] = "stop-compose" => "graphics" \notin running \cap saved
  /\ at[2] = "resume-graphics" => saved \cap Compose \subseteq running
  /\ at[2] \in {"commit", "complete", "done"} => saved \subseteq running \cup {s \in {"graphics"} : asked}

(* Every original tree is at its target or aside, in memory and on the      *)
(* disk alike, and it has not moved before the journal says that the trees  *)
(* are being installed.                                                     *)
OriginalsInv ==
  \A k \in Keys : existed[k] =>
    /\ Standing(slot[k]) \/ Aside(slot[k])
    /\ Standing(disk[k]) \/ Aside(disk[k])
    /\ journal \in {"none", "preparing", "ready"} => Standing(slot[k]) /\ Standing(disk[k])

(* The trees staged so far: those of the keys before the current one, and   *)
(* all of them once prepare has returned.                                   *)
StagedInv ==
  /\ pc \in PreparePCs => \A k \in Keys : k < key => slot[k]["incoming"] = "new"
  /\ pc = "sync-copy" => slot[key]["incoming"] = "new"
  /\ (Restore("preparing") /\ pc = "idle") \/ Restore("apply") =>
       \A k \in Keys : slot[k]["incoming"] = "new"

(* The trees installed so far, in memory and on the disk: the renames of a  *)
(* key are synchronised before apply goes on to the next one.               *)
InstalledInv ==
  /\ pc \in ApplyPCs =>
       \A k \in Keys : /\ k < key => slot[k]["target"] = "new" /\ disk[k]["target"] = "new"
                       /\ k > key => /\ slot[k]["incoming"] = "new"
                                     /\ existed[k] => Standing(slot[k])
  /\ pc \in {"retire", "sync-retire", "install"} => slot[key]["incoming"] = "new"
  /\ pc = "retire" /\ existed[key] => Standing(slot[key])
  /\ pc \in {"sync-retire", "install"} /\ existed[key] => Aside(slot[key])
  /\ pc = "sync-install" => slot[key]["target"] = "new"
  /\ journal \in {"installed", "committed"} =>
       \A k \in Keys : slot[k]["target"] = "new" /\ disk[k]["target"] = "new"

(* The trees put back so far, from the last key down.  A target that a      *)
(* boot makes again after a kill stands in the way of the tree that         *)
(* recovery puts back, so that the last part needs one kind of fault only.  *)
RevertedInv ==
  /\ pc \in RollbackPCs => \A k \in Keys : k > key /\ existed[k] => Standing(slot[k])
  /\ pc \in {"sync-reject", "reinstate"} => slot[key]["target"] = "none"
  /\ pc = "sync-reinstate" /\ existed[key] => Standing(slot[key])
  /\ OneKindOfFault /\ journal = "rolled-back" => \A k \in Keys : existed[k] => Standing(slot[k])

(* Without kills nothing is put back in memory that is not on the disk,     *)
(* but for the tree whose rename is being synchronised: recovery runs       *)
(* after a power loss, and both agree then.                                 *)
DurableInv ==
  "kill" \notin faults =>
    \A k \in Keys : existed[k] /\ Standing(slot[k]) =>
       Standing(disk[k]) \/ (k = key /\ pc = "sync-reinstate")

(* The inductive invariant of the coordinator.                              *)
CoordinatorInv ==
  /\ CoordinatorTypeOK /\ HolderInv /\ RecordInv /\ SourcesInv /\ WritersInv
  /\ OriginalsInv /\ StagedInv /\ InstalledInv /\ RevertedInv /\ DurableInv

-------------------------------------------------------------------------------
(* A rename changes the two paths it names and nothing else.                *)
LEMMA RenameEffect ==
  ASSUME CoordinatorTypeOK, NEW from \in Slots, NEW to \in Slots, from # to, Rename(key, from, to)
  PROVE  /\ slot' \in [Keys -> [Slots -> Content]]
         /\ slot'[key][from] = "none"
         /\ slot'[key][to] = slot[key][from]
         /\ \A s \in Slots : s \notin {from, to} => slot'[key][s] = slot[key][s]
         /\ \A k \in Keys : k # key => slot'[k] = slot[k]
<1> USE DEF CoordinatorTypeOK, RestoreTypeOK, Content, Trees
<1>1. slot' = [slot EXCEPT ![key] = [slot[key] EXCEPT ![from] = "none", ![to] = slot[key][from]]]
  BY DEF Rename
<1>2. [slot[key] EXCEPT ![from] = "none", ![to] = slot[key][from]] \in [Slots -> Content]
  OBVIOUS
<1> QED
  BY <1>1, <1>2

(* A synchronisation of a key's directories makes that key durable and no   *)
(* other.                                                                   *)
LEMMA SyncEffect ==
  ASSUME CoordinatorTypeOK, SyncDirectories
  PROVE  /\ disk' \in [Keys -> [Slots -> Content]]
         /\ disk'[key] = slot[key]
         /\ \A k \in Keys : k # key => disk'[k] = disk[k]
  BY DEF CoordinatorTypeOK, RestoreTypeOK, SyncDirectories, Content

(* The invariant holds before the restore: every original stands at its     *)
(* target.                                                                  *)
LEMMA InitInvariant == RestoreInit => CoordinatorInv
<1> SUFFICES ASSUME RestoreInit
             PROVE  CoordinatorInv
  OBVIOUS
<1> USE NAssumption DEF RestoreInit, Init
<1>1. slot = [k \in Keys |-> Empty(k)] /\ disk = slot /\ existed \in [Keys -> BOOLEAN]
  OBVIOUS
<1>2. \A k \in Keys : /\ slot[k] \in [Slots -> Content]
                      /\ slot[k]["target"] = Orig(k) /\ slot[k]["previous"] = "none"
  BY <1>1 DEF Empty, Slots, Orig, Content, Trees
<1>3. CoordinatorTypeOK
  <2>1. slot \in [Keys -> [Slots -> Content]]
    BY <1>1, <1>2
  <2>2. RestoreTypeOK
    BY <2>1 DEF RestoreTypeOK, Journals, Content, Nobody, Started
  <2> QED
    BY <1>1, <2>1, <2>2 DEF CoordinatorTypeOK, Keys, PCs
<1>4. OriginalsInv
  BY <1>1, <1>2 DEF OriginalsInv, Standing, Orig
<1>5. HolderInv /\ RecordInv /\ SourcesInv /\ WritersInv
  BY DEF HolderInv, RecordInv, SourcesInv, WritersInv, Quiet, Nobody, Restore, Recover,
         PreparePCs, ApplyPCs, RollbackPCs, Decided
<1>6. StagedInv /\ InstalledInv /\ RevertedInv
  BY DEF StagedInv, InstalledInv, RevertedInv, Nobody, Restore, PreparePCs, ApplyPCs, RollbackPCs
<1>7. DurableInv
  BY <1>1 DEF DurableInv
<1> QED
  BY <1>3, <1>4, <1>5, <1>6, <1>7 DEF CoordinatorInv

(* What does not touch the trees leaves what is known of them.              *)
LEMMA TreesLeft ==
  ASSUME CoordinatorInv, UNCHANGED <<transaction, faults>>
  PROVE  /\ existed' \in [Keys -> BOOLEAN] /\ disk' \in [Keys -> [Slots -> Content]]
         /\ slot' \in [Keys -> [Slots -> Content]]
         /\ pc' \in PCs /\ key' \in Keys /\ faults' \subseteq {"kill", "power"}
         /\ journal' \in Journals
         /\ OriginalsInv' /\ InstalledInv' /\ RevertedInv' /\ DurableInv'
  BY DEF transaction, CoordinatorInv, CoordinatorTypeOK, RestoreTypeOK, OriginalsInv,
         InstalledInv, RevertedInv, DurableInv, Standing, Aside, OneKindOfFault, Content

(* The steps of the coordinator, and around it, that move no tree.          *)
HostStep ==
  \/ StopGraphics \/ StopCompose \/ ResumeCompose \/ ResumeGraphics
  \/ TakeCheckpoint \/ MakeRollback \/ TreesPrepared \/ TreesApplied \/ Complete \/ ReleaseCheckpoint
  \/ KeepTrees \/ TreesRolledBack \/ Recovered
  \/ StartContainer \/ RestartGraphics \/ GraphicsStarts

(* The steps of restore and of recovery between two methods of the          *)
(* transaction preserve the invariant.                                      *)
LEMMA HostInvariant ==
  ASSUME CoordinatorInv, UNCHANGED faults, BeginRestore \/ BeginRecover \/ HostStep
  PROVE  CoordinatorInv'
<1>0. UNCHANGED transaction
  BY DEF HostStep, BeginRestore, BeginRecover, StopGraphics, StopCompose, ResumeCompose,
         ResumeGraphics, TakeCheckpoint, MakeRollback, TreesPrepared, TreesApplied, Complete,
         ReleaseCheckpoint, KeepTrees, TreesRolledBack, Recovered, StartContainer, RestartGraphics,
         GraphicsStarts
<1>T. /\ UNCHANGED <<journal, existed, slot, disk, pc, key>>
      /\ UNCHANGED <<transaction, faults>>
  BY <1>0 DEF transaction
<1> USE DEF CoordinatorInv, CoordinatorTypeOK, RestoreTypeOK, HolderInv, RecordInv, SourcesInv,
        WritersInv, StagedInv, Quiet, Nobody, Restore, Recover, Step, Goto, Decided, RestoreSteps,
        RecoverSteps, Services, Compose, PCs, PreparePCs, ApplyPCs, RollbackPCs
<1>1. CASE BeginRestore
  BY <1>T, <1>1, TreesLeft DEF BeginRestore
<1>2. CASE BeginRecover
  BY <1>T, <1>2, TreesLeft DEF BeginRecover
<1>3. CASE StopGraphics
  BY <1>T, <1>3, TreesLeft DEF StopGraphics
<1>4. CASE StopCompose
  BY <1>T, <1>4, TreesLeft DEF StopCompose, StopContainers
<1>5. CASE ResumeCompose
  BY <1>T, <1>5, TreesLeft DEF ResumeCompose
<1>6. CASE ResumeGraphics
  BY <1>T, <1>6, TreesLeft DEF ResumeGraphics
<1>7. CASE TakeCheckpoint
  BY <1>T, <1>7, TreesLeft DEF TakeCheckpoint
<1>8. CASE MakeRollback
  BY <1>T, <1>8, TreesLeft DEF MakeRollback
<1>9. CASE TreesPrepared
  BY <1>T, <1>9, TreesLeft DEF TreesPrepared
<1>10. CASE TreesApplied
  BY <1>T, <1>10, TreesLeft DEF TreesApplied
<1>11. CASE Complete
  BY <1>T, <1>11, TreesLeft DEF Complete
<1>12. CASE ReleaseCheckpoint
  BY <1>T, <1>12, TreesLeft DEF ReleaseCheckpoint
<1>13. CASE KeepTrees
  BY <1>T, <1>13, TreesLeft DEF KeepTrees
<1>14. CASE TreesRolledBack
  BY <1>T, <1>14, TreesLeft DEF TreesRolledBack
<1>15. CASE Recovered
  BY <1>T, <1>15, TreesLeft DEF Recovered
<1>16. CASE StartContainer
  BY <1>T, <1>16, TreesLeft DEF StartContainer
<1>17. CASE RestartGraphics
  BY <1>T, <1>17, TreesLeft DEF RestartGraphics
<1>18. CASE GraphicsStarts
  <2>1. ~Quiet /\ at[2] # "stop-compose"
    BY <1>18 DEF GraphicsStarts, SettingsHeld
  <2>2. UNCHANGED <<state, saved, late, up, at, pinned, archived>> /\ up /\ asked' = FALSE
        /\ running' = running \cup {"graphics"}
    BY <1>18 DEF GraphicsStarts
  <2>4. CoordinatorTypeOK'
    BY <1>T, <2>2, TreesLeft
  <2>5. HolderInv' /\ RecordInv' /\ SourcesInv' /\ StagedInv'
    BY <1>T, <2>2
  <2>3. WritersInv'
    BY <1>T, <1>18, <2>1 DEF GraphicsStarts
  <2> QED
    BY <1>T, <2>3, <2>4, <2>5, TreesLeft
<1> QED
  BY <1>1, <1>2, <1>3, <1>4, <1>5, <1>6, <1>7, <1>8, <1>9, <1>10, <1>11, <1>12, <1>13, <1>14,
         <1>15, <1>16, <1>17, <1>18 DEF HostStep
-------------------------------------------------------------------------------
(* The steps of the transaction.                                           *)

(* prepare writes its journal and begins with the first key.                *)
LEMMA PrepareTreesStep ==
  ASSUME CoordinatorInv, UNCHANGED faults, PrepareTrees
  PROVE  CoordinatorInv'
<1> USE NAssumption DEF CoordinatorInv, CoordinatorTypeOK, RestoreTypeOK, host
<1>T. CoordinatorTypeOK'
  BY DEF PrepareTrees, Prepare, Goto, PCs, Journals, Keys, Restore
<1>H. HolderInv' /\ RecordInv' /\ SourcesInv' /\ WritersInv'
  BY DEF PrepareTrees, Prepare, HolderInv, RecordInv, SourcesInv, WritersInv, Quiet, Restore,
         Goto, ApplyPCs, RollbackPCs, Nobody, RestoreSteps
<1>O. OriginalsInv'
  BY DEF PrepareTrees, Prepare, OriginalsInv
<1>S. StagedInv'
  BY DEF PrepareTrees, Prepare, StagedInv, Keys, Goto, Restore
<1>I. InstalledInv'
  BY DEF PrepareTrees, Prepare, InstalledInv, ApplyPCs
<1>R. RevertedInv'
  BY DEF PrepareTrees, Prepare, RevertedInv, RollbackPCs
<1>D. DurableInv'
  BY DEF PrepareTrees, Prepare, DurableInv
<1> QED
  BY <1>T, <1>H, <1>O, <1>S, <1>I, <1>R, <1>D

(* apply begins with every tree staged and every original at its target.    *)
LEMMA ApplyTreesStep ==
  ASSUME CoordinatorInv, UNCHANGED faults, ApplyTrees
  PROVE  CoordinatorInv'
<1> USE NAssumption DEF CoordinatorInv, CoordinatorTypeOK, RestoreTypeOK, host
<1>T. CoordinatorTypeOK'
  BY DEF ApplyTrees, Apply, Goto, PCs, Journals, Keys, Restore
<1>H. HolderInv' /\ RecordInv' /\ SourcesInv' /\ WritersInv'
  BY DEF ApplyTrees, Apply, HolderInv, RecordInv, SourcesInv, WritersInv, Quiet, Restore, Goto,
         PreparePCs, RollbackPCs, Nobody, RestoreSteps
<1>O. OriginalsInv'
  BY DEF ApplyTrees, Apply, OriginalsInv
<1>S. StagedInv'
  BY DEF ApplyTrees, Apply, StagedInv
<1>I. InstalledInv'
  BY DEF ApplyTrees, Apply, InstalledInv, StagedInv, OriginalsInv, Keys
<1>R. RevertedInv'
  BY DEF ApplyTrees, Apply, RevertedInv, RollbackPCs
<1>D. DurableInv'
  BY DEF ApplyTrees, Apply, DurableInv
<1> QED
  BY <1>T, <1>H, <1>O, <1>S, <1>I, <1>R, <1>D

(* rollback begins with the last key, whatever is staged or installed.      *)
LEMMA RollBackTreesStep ==
  ASSUME CoordinatorInv, UNCHANGED faults, RollBackTrees
  PROVE  CoordinatorInv'
<1> USE NAssumption DEF CoordinatorInv, CoordinatorTypeOK, RestoreTypeOK, host
<1>T. CoordinatorTypeOK'
  BY DEF RollBackTrees, Rollback, Goto, PCs, Journals, Keys, Recover
<1>H. HolderInv' /\ RecordInv' /\ SourcesInv' /\ WritersInv'
  BY DEF RollBackTrees, Rollback, HolderInv, RecordInv, SourcesInv, WritersInv, Quiet, Restore,
         Recover, Goto, PreparePCs, ApplyPCs, Nobody, RecoverSteps
<1>O. OriginalsInv'
  BY DEF RollBackTrees, Rollback, OriginalsInv
<1>S. StagedInv'
  BY DEF RollBackTrees, Rollback, StagedInv, Goto, Restore, PreparePCs
<1>I. InstalledInv'
  BY DEF RollBackTrees, Rollback, InstalledInv, ApplyPCs
<1>R. RevertedInv'
  BY DEF RollBackTrees, Rollback, RevertedInv, Keys
<1>D. DurableInv'
  BY DEF RollBackTrees, Rollback, DurableInv
<1> QED
  BY <1>T, <1>H, <1>O, <1>S, <1>I, <1>R, <1>D

(* commit is reached with every tree installed and durable.                 *)
LEMMA CommitTreesStep ==
  ASSUME CoordinatorInv, UNCHANGED faults, CommitTrees
  PROVE  CoordinatorInv'
<1> USE NAssumption DEF CoordinatorInv, CoordinatorTypeOK, RestoreTypeOK, host
<1>T. CoordinatorTypeOK'
  BY DEF CommitTrees, Commit, Goto, Journals, Restore
<1>H. HolderInv' /\ RecordInv' /\ SourcesInv' /\ WritersInv'
  BY DEF CommitTrees, Commit, HolderInv, RecordInv, SourcesInv, WritersInv, Quiet, Restore,
         Recover, Goto, Nobody, RestoreSteps
<1>O. OriginalsInv'
  BY DEF CommitTrees, Commit, OriginalsInv
<1>S. StagedInv'
  BY DEF CommitTrees, Commit, StagedInv, Goto, Restore
<1>I. InstalledInv'
  BY DEF CommitTrees, Commit, InstalledInv
<1>R. RevertedInv'
  BY DEF CommitTrees, Commit, RevertedInv
<1>D. DurableInv'
  BY DEF CommitTrees, Commit, DurableInv
<1> QED
  BY <1>T, <1>H, <1>O, <1>S, <1>I, <1>R, <1>D

(* The copy of a backup's tree is under way: it is nobody's yet.            *)
LEMMA StageIncomingStep ==
  ASSUME CoordinatorInv, UNCHANGED faults, StageIncoming, at # Nobody, UNCHANGED host
  PROVE  CoordinatorInv'
<1> USE NAssumption DEF CoordinatorInv, CoordinatorTypeOK, RestoreTypeOK, host
<1>e. /\ slot' \in [Keys -> [Slots -> Content]]
      /\ slot'[key]["incoming"] = "partial"
      /\ \A s \in Slots : s # "incoming" => slot'[key][s] = slot[key][s]
      /\ \A k \in Keys : k # key => slot'[k] = slot[k]
  BY DEF StageIncoming, Slots, Content, Trees
<1>T. CoordinatorTypeOK'
  BY <1>e DEF StageIncoming, PCs, Content
<1>H. HolderInv' /\ RecordInv' /\ SourcesInv' /\ WritersInv'
  BY DEF StageIncoming, HolderInv, RecordInv, SourcesInv, WritersInv, Quiet, Restore, PreparePCs,
         ApplyPCs, RollbackPCs
<1>O. OriginalsInv'
  BY DEF StageIncoming, OriginalsInv, Standing, HolderInv, PreparePCs
<1>S. StagedInv'
  BY DEF StageIncoming, StagedInv, HolderInv, Keys, Restore, PreparePCs
<1>I. InstalledInv'
  BY DEF StageIncoming, InstalledInv, ApplyPCs
<1>R. RevertedInv'
  BY DEF StageIncoming, RevertedInv, HolderInv, PreparePCs, RollbackPCs
<1>D. DurableInv'
  BY DEF StageIncoming, DurableInv, Standing
<1> QED
  BY <1>T, <1>H, <1>O, <1>S, <1>I, <1>R, <1>D

(* The copy of a backup's tree is complete.                                 *)
LEMMA CopyOwnedStep ==
  ASSUME CoordinatorInv, UNCHANGED faults, CopyOwned, at # Nobody, UNCHANGED host
  PROVE  CoordinatorInv'
<1> USE NAssumption DEF CoordinatorInv, CoordinatorTypeOK, RestoreTypeOK, host
<1>e. /\ slot' \in [Keys -> [Slots -> Content]]
      /\ slot'[key]["incoming"] = "new"
      /\ \A s \in Slots : s # "incoming" => slot'[key][s] = slot[key][s]
      /\ \A k \in Keys : k # key => slot'[k] = slot[k]
  BY DEF CopyOwned, Slots, Content, Trees
<1>T. CoordinatorTypeOK'
  BY <1>e DEF CopyOwned, PCs, Content
<1>H. HolderInv' /\ RecordInv' /\ SourcesInv' /\ WritersInv'
  BY DEF CopyOwned, HolderInv, RecordInv, SourcesInv, WritersInv, Quiet, Restore, PreparePCs,
         ApplyPCs, RollbackPCs
<1>O. OriginalsInv'
  BY DEF CopyOwned, OriginalsInv, Standing, HolderInv, PreparePCs
<1>S. StagedInv'
  BY <1>e DEF CopyOwned, StagedInv, Restore, PreparePCs
<1>I. InstalledInv'
  BY DEF CopyOwned, InstalledInv, ApplyPCs
<1>R. RevertedInv'
  BY DEF CopyOwned, RevertedInv, HolderInv, PreparePCs, RollbackPCs
<1>D. DurableInv'
  BY DEF CopyOwned, DurableInv, Standing
<1> QED
  BY <1>T, <1>H, <1>O, <1>S, <1>I, <1>R, <1>D

(* A copy is durable, and prepare goes on to the next key or is ready.      *)
LEMMA SyncIncomingStep ==
  ASSUME CoordinatorInv, UNCHANGED faults, SyncIncoming, at # Nobody, UNCHANGED host
  PROVE  CoordinatorInv'
<1> USE NAssumption DEF CoordinatorInv, CoordinatorTypeOK, RestoreTypeOK, host
<1>e. /\ disk' \in [Keys -> [Slots -> Content]] /\ disk'[key] = slot[key]
      /\ \A k \in Keys : k # key => disk'[k] = disk[k]
  BY SyncEffect DEF SyncIncoming
<1>T. CoordinatorTypeOK'
  BY <1>e DEF SyncIncoming, PCs, Journals, Keys
<1>H. HolderInv' /\ RecordInv' /\ SourcesInv' /\ WritersInv'
  BY DEF SyncIncoming, HolderInv, RecordInv, SourcesInv, WritersInv, Quiet, Restore, Recover,
         PreparePCs, ApplyPCs, RollbackPCs
<1>O. OriginalsInv'
  BY <1>e DEF SyncIncoming, OriginalsInv, HolderInv, PreparePCs
<1>S. StagedInv'
  BY <1>e DEF SyncIncoming, StagedInv, Keys, Slots, Restore, PreparePCs
<1>I. InstalledInv'
  BY <1>e DEF SyncIncoming, InstalledInv, ApplyPCs
<1>R. RevertedInv'
  BY DEF SyncIncoming, RevertedInv, OneKindOfFault, RollbackPCs
<1>D. DurableInv'
  BY <1>e DEF SyncIncoming, DurableInv
<1> QED
  BY <1>T, <1>H, <1>O, <1>S, <1>I, <1>R, <1>D

(* The original of the key is put aside, before anything takes its place.   *)
LEMMA RetirePreviousStep ==
  ASSUME CoordinatorInv, UNCHANGED faults, RetirePrevious, at # Nobody, UNCHANGED host
  PROVE  CoordinatorInv'
<1> USE NAssumption DEF CoordinatorInv, CoordinatorTypeOK, RestoreTypeOK, host
<1>e. /\ slot' \in [Keys -> [Slots -> Content]]
      /\ existed[key] => /\ slot'[key]["target"] = "none"
                         /\ slot'[key]["previous"] = slot[key]["target"]
                         /\ \A s \in Slots : s \notin {"target", "previous"} => slot'[key][s] = slot[key][s]
      /\ ~existed[key] => slot' = slot
      /\ \A k \in Keys : k # key => slot'[k] = slot[k]
  BY RenameEffect DEF RetirePrevious, Slots, Content
<1>T. CoordinatorTypeOK'
  BY <1>e DEF RetirePrevious, PCs, Content
<1>H. HolderInv' /\ RecordInv' /\ SourcesInv' /\ WritersInv'
  BY DEF RetirePrevious, HolderInv, RecordInv, SourcesInv, WritersInv, Quiet, Restore, PreparePCs,
         ApplyPCs, RollbackPCs
<1>O. OriginalsInv'
  BY <1>e DEF RetirePrevious, OriginalsInv, InstalledInv, Standing, Aside, HolderInv, ApplyPCs
<1>S. StagedInv'
  BY <1>e DEF RetirePrevious, StagedInv, Slots, Restore, PreparePCs
<1>I. InstalledInv'
  BY <1>e DEF RetirePrevious, InstalledInv, Standing, Aside, Slots, ApplyPCs
<1>R. RevertedInv'
  BY DEF RetirePrevious, RevertedInv, HolderInv, ApplyPCs, RollbackPCs
<1>D. DurableInv'
  BY <1>e DEF RetirePrevious, DurableInv, Standing
<1> QED
  BY <1>T, <1>H, <1>O, <1>S, <1>I, <1>R, <1>D

(* The original that was put aside is durable there.                        *)
LEMMA SyncRetiredStep ==
  ASSUME CoordinatorInv, UNCHANGED faults, SyncRetired, at # Nobody, UNCHANGED host
  PROVE  CoordinatorInv'
<1> USE NAssumption DEF CoordinatorInv, CoordinatorTypeOK, RestoreTypeOK, host
<1>e. /\ disk' \in [Keys -> [Slots -> Content]] /\ disk'[key] = slot[key]
      /\ \A k \in Keys : k # key => disk'[k] = disk[k]
  BY SyncEffect DEF SyncRetired
<1>T. CoordinatorTypeOK'
  BY <1>e DEF SyncRetired, PCs
<1>H. HolderInv' /\ RecordInv' /\ SourcesInv' /\ WritersInv'
  BY DEF SyncRetired, HolderInv, RecordInv, SourcesInv, WritersInv, Quiet, Restore, PreparePCs,
         ApplyPCs, RollbackPCs
<1>O. OriginalsInv'
  BY <1>e DEF SyncRetired, OriginalsInv
<1>S. StagedInv'
  BY DEF SyncRetired, StagedInv, Restore, PreparePCs
<1>I. InstalledInv'
  BY <1>e DEF SyncRetired, InstalledInv, Keys, ApplyPCs
<1>R. RevertedInv'
  BY DEF SyncRetired, RevertedInv, OneKindOfFault, RollbackPCs
<1>D. DurableInv'
  BY <1>e DEF SyncRetired, DurableInv
<1> QED
  BY <1>T, <1>H, <1>O, <1>S, <1>I, <1>R, <1>D

(* The new tree takes the place of the original.                            *)
LEMMA InstallIncomingStep ==
  ASSUME CoordinatorInv, UNCHANGED faults, InstallIncoming, at # Nobody, UNCHANGED host
  PROVE  CoordinatorInv'
<1> USE NAssumption DEF CoordinatorInv, CoordinatorTypeOK, RestoreTypeOK, host
<1>e. /\ slot' \in [Keys -> [Slots -> Content]]
      /\ slot'[key]["incoming"] = "none" /\ slot'[key]["target"] = slot[key]["incoming"]
      /\ \A s \in Slots : s \notin {"incoming", "target"} => slot'[key][s] = slot[key][s]
      /\ \A k \in Keys : k # key => slot'[k] = slot[k]
  BY RenameEffect DEF InstallIncoming, Slots
<1>T. CoordinatorTypeOK'
  BY <1>e DEF InstallIncoming, PCs, Content
<1>H. HolderInv' /\ RecordInv' /\ SourcesInv' /\ WritersInv'
  BY DEF InstallIncoming, HolderInv, RecordInv, SourcesInv, WritersInv, Quiet, Restore,
         PreparePCs, ApplyPCs, RollbackPCs
<1>O. OriginalsInv'
  BY <1>e DEF InstallIncoming, OriginalsInv, InstalledInv, Aside, HolderInv, Slots, ApplyPCs
<1>S. StagedInv'
  BY DEF InstallIncoming, StagedInv, HolderInv, Restore, PreparePCs, ApplyPCs
<1>I. InstalledInv'
  BY <1>e DEF InstallIncoming, InstalledInv, Keys, ApplyPCs
<1>R. RevertedInv'
  BY DEF InstallIncoming, RevertedInv, HolderInv, ApplyPCs, RollbackPCs
<1>D. DurableInv'
  BY <1>e DEF InstallIncoming, DurableInv, OriginalsInv, Standing, Aside, Slots
<1> QED
  BY <1>T, <1>H, <1>O, <1>S, <1>I, <1>R, <1>D

(* The new tree is durable in its place, and apply goes on to the next key  *)
(* or has installed them all.                                               *)
LEMMA SyncInstalledStep ==
  ASSUME CoordinatorInv, UNCHANGED faults, SyncInstalled, at # Nobody, UNCHANGED host
  PROVE  CoordinatorInv'
<1> USE NAssumption DEF CoordinatorInv, CoordinatorTypeOK, RestoreTypeOK, host
<1>e. /\ disk' \in [Keys -> [Slots -> Content]] /\ disk'[key] = slot[key]
      /\ \A k \in Keys : k # key => disk'[k] = disk[k]
  BY SyncEffect DEF SyncInstalled
<1>T. CoordinatorTypeOK'
  BY <1>e DEF SyncInstalled, PCs, Journals, Keys
<1>H. HolderInv' /\ RecordInv' /\ SourcesInv' /\ WritersInv'
  BY DEF SyncInstalled, HolderInv, RecordInv, SourcesInv, WritersInv, Quiet, Restore, Recover,
         PreparePCs, ApplyPCs, RollbackPCs
<1>O. OriginalsInv'
  BY <1>e DEF SyncInstalled, OriginalsInv
<1>S. StagedInv'
  BY DEF SyncInstalled, StagedInv, HolderInv, Restore, PreparePCs, ApplyPCs
<1>I. InstalledInv'
  <2> USE <1>e DEF InstalledInv, SyncInstalled, PreparePCs, ApplyPCs, Standing
  <2>1. \A k \in Keys : k <= key => slot'[k]["target"] = "new" /\ disk'[k]["target"] = "new"
    BY DEF Keys
  <2>2. CASE key < N
    BY <2>1 DEF Keys
  <2>3. CASE key = N
    <3>1. \A k \in Keys : k <= key
      BY <2>3 DEF Keys
    <3> QED
      BY <2>3, <3>1
  <2> QED
    BY <2>2, <2>3 DEF Keys
<1>R. RevertedInv'
  BY DEF SyncInstalled, RevertedInv, OneKindOfFault, RollbackPCs
<1>D. DurableInv'
  BY <1>e DEF SyncInstalled, DurableInv
<1> QED
  BY <1>T, <1>H, <1>O, <1>S, <1>I, <1>R, <1>D

(* Rollback puts the new tree out of the way of the original.               *)
LEMMA RejectTargetStep ==
  ASSUME CoordinatorInv, UNCHANGED faults, RejectTarget, at # Nobody, UNCHANGED host
  PROVE  CoordinatorInv'
<1> USE NAssumption DEF CoordinatorInv, CoordinatorTypeOK, RestoreTypeOK, host
<1>e. /\ slot' \in [Keys -> [Slots -> Content]]
      /\ slot'[key]["target"] = "none" /\ slot'[key]["rejected"] = slot[key]["target"]
      /\ \A s \in Slots : s \notin {"target", "rejected"} => slot'[key][s] = slot[key][s]
      /\ \A k \in Keys : k # key => slot'[k] = slot[k]
  BY RenameEffect DEF RejectTarget, Slots
<1>T. CoordinatorTypeOK'
  BY <1>e DEF RejectTarget, PCs, Content
<1>H. HolderInv' /\ RecordInv' /\ SourcesInv' /\ WritersInv'
  BY DEF RejectTarget, HolderInv, RecordInv, SourcesInv, WritersInv, Quiet, Restore, Recover,
         PreparePCs, ApplyPCs, RollbackPCs
<1>O. OriginalsInv'
  BY <1>e DEF RejectTarget, OriginalsInv, MustReject, Exists, Standing, Aside, Slots
<1>S. StagedInv'
  BY <1>e DEF RejectTarget, StagedInv, Slots, Restore, PreparePCs
<1>I. InstalledInv'
  BY DEF RejectTarget, InstalledInv, HolderInv, ApplyPCs, RollbackPCs
<1>R. RevertedInv'
  BY <1>e DEF RejectTarget, RevertedInv, HolderInv, Keys, RollbackPCs
<1>D. DurableInv'
  BY <1>e DEF RejectTarget, DurableInv, Standing, Slots
<1> QED
  BY <1>T, <1>H, <1>O, <1>S, <1>I, <1>R, <1>D

(* The rejected tree is durable there, and the key is done where there is   *)
(* no original to put back.                                                 *)
LEMMA SyncRejectedStep ==
  ASSUME CoordinatorInv, UNCHANGED faults, SyncRejected, at # Nobody, UNCHANGED host
  PROVE  CoordinatorInv'
<1> USE NAssumption DEF CoordinatorInv, CoordinatorTypeOK, RestoreTypeOK, host
<1>e. /\ disk' \in [Keys -> [Slots -> Content]] /\ disk'[key] = slot[key]
      /\ \A k \in Keys : k # key => disk'[k] = disk[k]
  BY SyncEffect DEF SyncRejected
<1>T. CoordinatorTypeOK'
  BY <1>e DEF SyncRejected, NextRollbackKey, PCs, Journals, Keys
<1>H. HolderInv' /\ RecordInv' /\ SourcesInv' /\ WritersInv'
  BY DEF SyncRejected, NextRollbackKey, HolderInv, RecordInv, SourcesInv, WritersInv, Quiet,
         Restore, Recover, PreparePCs, ApplyPCs, RollbackPCs
<1>O. OriginalsInv'
  BY <1>e DEF SyncRejected, NextRollbackKey, OriginalsInv
<1>S. StagedInv'
  BY DEF SyncRejected, NextRollbackKey, StagedInv, HolderInv, Restore, Recover, PreparePCs,
         RollbackPCs
<1>I. InstalledInv'
  BY <1>e DEF SyncRejected, NextRollbackKey, InstalledInv, ApplyPCs
<1>R. RevertedInv'
  BY DEF SyncRejected, NextRollbackKey, RevertedInv, OriginalsInv, Exists, Aside, Keys,
         OneKindOfFault, RollbackPCs
<1>D. DurableInv'
  BY <1>e DEF SyncRejected, DurableInv
<1> QED
  BY <1>T, <1>H, <1>O, <1>S, <1>I, <1>R, <1>D

(* The original is put back at its target.                                  *)
LEMMA ReinstatePreviousStep ==
  ASSUME CoordinatorInv, UNCHANGED faults, ReinstatePrevious, at # Nobody, UNCHANGED host
  PROVE  CoordinatorInv'
<1> USE NAssumption DEF CoordinatorInv, CoordinatorTypeOK, RestoreTypeOK, host
<1>e. /\ slot' \in [Keys -> [Slots -> Content]]
      /\ slot'[key]["previous"] = "none" /\ slot'[key]["target"] = slot[key]["previous"]
      /\ \A s \in Slots : s \notin {"previous", "target"} => slot'[key][s] = slot[key][s]
      /\ \A k \in Keys : k # key => slot'[k] = slot[k]
  BY RenameEffect DEF ReinstatePrevious, Slots
<1>T. CoordinatorTypeOK'
  BY <1>e DEF ReinstatePrevious, PCs, Content
<1>H. HolderInv' /\ RecordInv' /\ SourcesInv' /\ WritersInv'
  BY DEF ReinstatePrevious, HolderInv, RecordInv, SourcesInv, WritersInv, Quiet, Restore, Recover,
         PreparePCs, ApplyPCs, RollbackPCs
<1>O. OriginalsInv'
  BY <1>e DEF ReinstatePrevious, OriginalsInv, RevertedInv, Exists, Standing, Aside, Slots
<1>S. StagedInv'
  BY <1>e DEF ReinstatePrevious, StagedInv, Slots, Restore, PreparePCs
<1>I. InstalledInv'
  BY DEF ReinstatePrevious, InstalledInv, HolderInv, ApplyPCs, RollbackPCs
<1>R. RevertedInv'
  BY <1>e DEF ReinstatePrevious, RevertedInv, OriginalsInv, Exists, Standing, Aside, Keys,
         OneKindOfFault, RollbackPCs
<1>D. DurableInv'
  BY <1>e DEF ReinstatePrevious, DurableInv
<1> QED
  BY <1>T, <1>H, <1>O, <1>S, <1>I, <1>R, <1>D

(* The original is durable at its target, and rollback goes on to the key   *)
(* before it or has put them all back.                                      *)
LEMMA SyncReinstatedStep ==
  ASSUME CoordinatorInv, UNCHANGED faults, SyncReinstated, at # Nobody, UNCHANGED host
  PROVE  CoordinatorInv'
<1> USE NAssumption DEF CoordinatorInv, CoordinatorTypeOK, RestoreTypeOK, host
<1>e. /\ disk' \in [Keys -> [Slots -> Content]] /\ disk'[key] = slot[key]
      /\ \A k \in Keys : k # key => disk'[k] = disk[k]
  BY SyncEffect DEF SyncReinstated
<1>T. CoordinatorTypeOK'
  BY <1>e DEF SyncReinstated, NextRollbackKey, PCs, Journals, Keys
<1>H. HolderInv' /\ RecordInv' /\ SourcesInv' /\ WritersInv'
  BY DEF SyncReinstated, NextRollbackKey, HolderInv, RecordInv, SourcesInv, WritersInv, Quiet,
         Restore, Recover, PreparePCs, ApplyPCs, RollbackPCs
<1>O. OriginalsInv'
  BY <1>e DEF SyncReinstated, NextRollbackKey, OriginalsInv
<1>S. StagedInv'
  BY DEF SyncReinstated, NextRollbackKey, StagedInv, HolderInv, Restore, Recover, PreparePCs,
         RollbackPCs
<1>I. InstalledInv'
  BY <1>e DEF SyncReinstated, NextRollbackKey, InstalledInv, ApplyPCs
<1>R. RevertedInv'
  BY DEF SyncReinstated, NextRollbackKey, RevertedInv, Keys, OneKindOfFault, RollbackPCs
<1>D. DurableInv'
  BY <1>e DEF SyncReinstated, DurableInv
<1> QED
  BY <1>T, <1>H, <1>O, <1>S, <1>I, <1>R, <1>D

(* Nothing is in the way of the original: rollback puts it back, or goes    *)
(* on where it stands already.                                              *)
LEMMA SkipTargetStep ==
  ASSUME CoordinatorInv, UNCHANGED faults, SkipTarget, at # Nobody, UNCHANGED host
  PROVE  CoordinatorInv'
<1> USE NAssumption DEF CoordinatorInv, CoordinatorTypeOK, RestoreTypeOK, host
<1>T. CoordinatorTypeOK'
  BY DEF SkipTarget, NextRollbackKey, Goto, Nobody, PCs, Journals, Keys, Content, Restore, Recover
<1>H. HolderInv' /\ RecordInv' /\ SourcesInv' /\ WritersInv'
  BY DEF SkipTarget, NextRollbackKey, HolderInv, RecordInv, SourcesInv, WritersInv, Quiet,
         Restore, Recover, Goto, PCs, PreparePCs, ApplyPCs, RollbackPCs
<1>O. OriginalsInv'
  BY DEF SkipTarget, NextRollbackKey, OriginalsInv, InstalledInv, RevertedInv, MustReject, Exists,
         Standing, Aside, HolderInv, Slots, Recover, PreparePCs, ApplyPCs, RollbackPCs
<1>S. StagedInv'
  BY DEF SkipTarget, NextRollbackKey, StagedInv, HolderInv, RecordInv, Keys, Goto, Slots, Restore,
         Recover, PreparePCs, ApplyPCs, RollbackPCs
<1>I. InstalledInv'
  BY DEF SkipTarget, NextRollbackKey, InstalledInv, StagedInv, OriginalsInv, Standing, Aside,
         HolderInv, RecordInv, Keys, Slots, Restore, Recover, Goto, PreparePCs, ApplyPCs,
         RollbackPCs
<1>R. RevertedInv'
  BY DEF SkipTarget, NextRollbackKey, RevertedInv, OriginalsInv, MustReject, Exists, Standing,
         Aside, HolderInv, RecordInv, Keys, Slots, OneKindOfFault, Restore, Recover, PreparePCs,
         ApplyPCs, RollbackPCs
<1>D. DurableInv'
  BY DEF SkipTarget, NextRollbackKey, DurableInv, RevertedInv, OriginalsInv, HolderInv, Standing,
         Aside, Slots, PreparePCs, ApplyPCs, RollbackPCs
<1> QED
  BY <1>T, <1>H, <1>O, <1>S, <1>I, <1>R, <1>D

(* The rename of a target over a rejected tree fails, and the lock is       *)
(* free.                                                                    *)
LEMMA RejectFailsStep ==
  ASSUME CoordinatorInv, UNCHANGED faults, RejectFails
  PROVE  CoordinatorInv'
<1> USE DEF CoordinatorInv, CoordinatorTypeOK, RestoreTypeOK, RejectFails, MustFail, Nobody
<1>1. CoordinatorTypeOK'
  BY DEF PCs
<1>2. HolderInv' /\ RecordInv' /\ SourcesInv' /\ WritersInv'
  BY DEF HolderInv, RecordInv, SourcesInv, WritersInv, Quiet, Restore, Recover, PreparePCs,
         ApplyPCs, RollbackPCs
<1>3. OriginalsInv' /\ StagedInv' /\ InstalledInv' /\ RevertedInv' /\ DurableInv'
  BY DEF OriginalsInv, StagedInv, InstalledInv, RevertedInv, DurableInv, Standing, Aside,
         PreparePCs, ApplyPCs, RollbackPCs, Restore, OneKindOfFault
<1> QED
  BY <1>1, <1>2, <1>3

(* An exception and a kill leave the trees, the journal and the sources as  *)
(* they were: every method of the transaction may be left at any of its     *)
(* steps.                                                                   *)
LEMMA StopStep ==
  ASSUME CoordinatorInv, UNCHANGED faults, Raise \/ Interrupt
  PROVE  CoordinatorInv'
<1> USE DEF CoordinatorInv, CoordinatorTypeOK, RestoreTypeOK, Raise, Interrupt, Nobody
<1>1. CoordinatorTypeOK'
  BY DEF PCs
<1>2. HolderInv' /\ RecordInv' /\ SourcesInv' /\ WritersInv'
  BY DEF HolderInv, RecordInv, SourcesInv, WritersInv, Quiet, Restore, Recover, PreparePCs,
         ApplyPCs, RollbackPCs, Decided, RestoreSteps, RecoverSteps
<1>3. OriginalsInv' /\ StagedInv' /\ InstalledInv' /\ RevertedInv' /\ DurableInv'
  BY DEF OriginalsInv, StagedInv, InstalledInv, RevertedInv, DurableInv, Standing, Aside,
         PreparePCs, ApplyPCs, RollbackPCs, Restore, OneKindOfFault
<1> QED
  BY <1>1, <1>2, <1>3

(* After a power loss every path holds what was durable or what was in      *)
(* memory, one path at a time; either is an original at its target or       *)
(* aside.                                                                   *)
LEMMA PowerStep ==
  ASSUME CoordinatorInv, UNCHANGED faults, LosePower
  PROVE  CoordinatorInv'
<1> USE DEF CoordinatorInv, CoordinatorTypeOK, RestoreTypeOK, LosePower, PowerLoss, Halt, Nobody
<1>1. slot' \in [Keys -> [Slots -> Content]] /\ disk' = slot'
  BY DEF Content
<1>2. \A k \in Keys : slot'[k] = slot[k] \/ slot'[k] = disk[k]
  OBVIOUS
<1>3. CoordinatorTypeOK'
  BY <1>1 DEF PCs, Content
<1>4. HolderInv' /\ RecordInv' /\ SourcesInv' /\ WritersInv'
  BY DEF HolderInv, RecordInv, SourcesInv, WritersInv, Quiet, Restore, Recover, PreparePCs,
         ApplyPCs, RollbackPCs
<1>5. OriginalsInv'
  BY <1>1, <1>2 DEF OriginalsInv, Standing, Aside
<1>6. StagedInv'
  BY DEF StagedInv, PreparePCs, Restore
<1>7. InstalledInv'
  BY <1>1, <1>2 DEF InstalledInv, ApplyPCs
<1>8. RevertedInv'
  <2> SUFFICES ASSUME OneKindOfFault, journal = "rolled-back"
               PROVE  \A k \in Keys : existed[k] => Standing(slot'[k])
    BY DEF RevertedInv, OneKindOfFault, RollbackPCs, Standing
  <2>1. "kill" \notin faults /\ pc # "sync-reinstate"
    BY DEF OneKindOfFault, HolderInv, RollbackPCs
  <2> QED
    BY <1>2, <2>1 DEF RevertedInv, DurableInv, Standing
<1>9. DurableInv'
  BY <1>1 DEF DurableInv
<1> QED
  BY <1>3, <1>4, <1>5, <1>6, <1>7, <1>8, <1>9

(* A shutdown touches no tree.                                              *)
LEMMA RebootStep ==
  ASSUME CoordinatorInv, UNCHANGED faults, Reboot
  PROVE  CoordinatorInv'
<1> USE DEF CoordinatorInv, CoordinatorTypeOK, RestoreTypeOK, Reboot, Halt, Nobody, transaction
<1>1. CoordinatorTypeOK'
  OBVIOUS
<1>2. HolderInv' /\ RecordInv' /\ SourcesInv' /\ WritersInv'
  BY DEF HolderInv, RecordInv, SourcesInv, WritersInv, Quiet, Restore, Recover
<1>3. OriginalsInv' /\ StagedInv' /\ InstalledInv' /\ RevertedInv' /\ DurableInv'
  BY TreesLeft DEF StagedInv, Restore
<1> QED
  BY <1>1, <1>2, <1>3

(* prepare-admin makes a directory only where there is no target, so that   *)
(* no original is taken for it.                                             *)
LEMMA BootStep ==
  ASSUME CoordinatorInv, UNCHANGED faults, Boot
  PROVE  CoordinatorInv'
<1> USE DEF CoordinatorInv, CoordinatorTypeOK, RestoreTypeOK, Nobody
<1>1. at = Nobody /\ pc \notin PreparePCs \cup ApplyPCs \cup RollbackPCs
  BY DEF Boot, HolderInv, Restore, Recover
<1>2. PICK made \in SUBSET {k \in Keys : journal # "none" /\ existed[k] /\ ~Exists(k, "target")} :
        slot' = [k \in Keys |-> IF k \in made THEN [slot[k] EXCEPT !["target"] = "made"] ELSE slot[k]]
  BY DEF Boot
<1>3. slot' \in [Keys -> [Slots -> Content]]
  BY <1>2 DEF Content, Slots
<1>4. \A k \in Keys : /\ \A s \in Slots : s # "target" => slot'[k][s] = slot[k][s]
                      /\ \/ slot'[k]["target"] = slot[k]["target"]
                         \/ slot'[k]["target"] = "made" /\ slot[k]["target"] = "none"
  BY <1>2 DEF Exists, Slots, Content
<1>5. CoordinatorTypeOK'
  BY <1>3 DEF Boot, Content, Services, Started, WritersInv
<1>6. HolderInv' /\ RecordInv' /\ SourcesInv' /\ WritersInv'
  BY <1>1 DEF Boot, HolderInv, RecordInv, SourcesInv, WritersInv, Quiet, Restore, Recover
<1>7. \A k \in Keys : /\ Standing(slot'[k]) <=> Standing(slot[k])
                      /\ Aside(slot[k]) => Aside(slot'[k])
  BY <1>4 DEF Standing, Aside, Slots
<1>8. OriginalsInv'
  BY <1>7 DEF Boot, OriginalsInv, Standing, Aside
<1>9. InstalledInv'
  BY <1>1, <1>4 DEF Boot, InstalledInv, ApplyPCs
<1>10. StagedInv' /\ RevertedInv' /\ DurableInv'
  BY <1>1, <1>7 DEF Boot, StagedInv, RevertedInv, DurableInv, Restore, PreparePCs, RollbackPCs,
         OneKindOfFault, Standing
<1> QED
  BY <1>5, <1>6, <1>8, <1>9, <1>10

(* Every step of the transaction's methods preserves the invariant.         *)
LEMMA TreeStepInvariant ==
  ASSUME CoordinatorInv, UNCHANGED faults, TreeStep
  PROVE  CoordinatorInv'
<1>1. at # Nobody /\ UNCHANGED host /\ MethodStep
  BY DEF TreeStep
<1> QED
  BY <1>1, StageIncomingStep, CopyOwnedStep, SyncIncomingStep, RetirePreviousStep,
         SyncRetiredStep, InstallIncomingStep, SyncInstalledStep, RejectTargetStep,
         SyncRejectedStep, ReinstatePreviousStep, SyncReinstatedStep, SkipTargetStep DEF
         MethodStep

(* Every step of the system preserves the invariant.                        *)
LEMMA NextInvariant == CoordinatorInv /\ [RestoreNext]_restoreVars => CoordinatorInv'
<1> SUFFICES ASSUME CoordinatorInv, [RestoreNext]_restoreVars
             PROVE  CoordinatorInv'
  OBVIOUS
<1>1. CASE UNCHANGED restoreVars
  <2> USE <1>1 DEF restoreVars, coordinated, host, transaction
  <2>1. CoordinatorTypeOK' /\ HolderInv' /\ RecordInv' /\ SourcesInv' /\ WritersInv'
    BY DEF CoordinatorInv, CoordinatorTypeOK, RestoreTypeOK, HolderInv, RecordInv, SourcesInv,
           WritersInv, Quiet, Restore, Recover
  <2>2. OriginalsInv' /\ StagedInv' /\ InstalledInv' /\ RevertedInv' /\ DurableInv'
    BY TreesLeft DEF CoordinatorInv, StagedInv, Restore
  <2> QED
    BY <2>1, <2>2 DEF CoordinatorInv
<1>2. CASE RestoreNext
  BY <1>2, HostInvariant, PrepareTreesStep, ApplyTreesStep, RollBackTreesStep, CommitTreesStep,
         TreeStepInvariant, RejectFailsStep, StopStep, PowerStep, RebootStep, BootStep DEF
         RestoreNext, CoordinatorStep, HostStep
<1> QED
  BY <1>1, <1>2

(* The invariant holds at every step of a restore, however it is            *)
(* interrupted.                                                             *)
LEMMA Invariance == RestoreSpec => []CoordinatorInv
  BY InitInvariant, NextInvariant, PTL DEF RestoreSpec

(* The maintenance record never reports an outcome that the trees do not    *)
(* have, and while a restore is undecided and a tree may have moved its     *)
(* rollback archive and its pinned checkpoint are there (restore and        *)
(* recover_locked), for every number of trees and whatever is interrupted.  *)
THEOREM SpecRestoreSound == RestoreSpec => []RestoreSound
<1>1. CoordinatorInv => RestoreSound
  <2> SUFFICES ASSUME CoordinatorInv
               PROVE  OutcomeMatchesTrees /\ RollbackSourcesHeld
    BY DEF RestoreSound, CoordinatorInv, CoordinatorTypeOK
  <2>1. state = "completed" => \A k \in Keys : slot[k]["target"] = "new"
    BY DEF CoordinatorInv, RecordInv, InstalledInv
  <2>2. OneKindOfFault /\ state = "rolled-back" =>
          \A k \in Keys : existed[k] => slot[k]["target"] = "old"
    BY DEF CoordinatorInv, RecordInv, RevertedInv, OriginalsInv, Standing
  <2>3. RollbackSourcesHeld
    BY DEF CoordinatorInv, SourcesInv, RollbackSourcesHeld
  <2> QED
    BY <2>1, <2>2, <2>3 DEF OutcomeMatchesTrees
<1> QED
  BY <1>1, Invariance, PTL

(* No step of restore, of its recovery, of a crash or of a boot loses an    *)
(* original tree, for every number of trees: apply and rollback only        *)
(* rename, to names that are free.                                          *)
THEOREM SpecOriginalsRetained == RestoreSpec => []OldTreeRetained
<1>1. CoordinatorInv => OldTreeRetained
  BY DEF CoordinatorInv, OriginalsInv, OldTreeRetained, Standing, Aside, Slots
<1> QED
  BY <1>1, Invariance, PTL

(* No step of the transaction moves a tree while a service that the record  *)
(* saved is running: restore and recover_locked stop both groups first,     *)
(* those included that a boot or a resume that failed has started again.    *)
(* Foundry or the Mindflayer server, started under no lock since, is the    *)
(* exception; the administration and the kiosk are none.                    *)
THEOREM SpecNoSwitchUnderWriters == RestoreSpec => NoSwitchUnderWriters
<1>1. CoordinatorInv /\ [RestoreNext]_restoreVars
        => [slot' # slot => running \cap saved \subseteq late \/ up' # up]_restoreVars
  <2> SUFFICES ASSUME CoordinatorInv, RestoreNext, slot' # slot
               PROVE  running \cap saved \subseteq late \/ up' # up
    OBVIOUS
  <2>1. \/ Boot \/ LosePower \/ TreeStep
    BY DEF RestoreNext, CoordinatorStep, BeginRestore, BeginRecover, StopGraphics, StopCompose,
           ResumeCompose, ResumeGraphics, TakeCheckpoint, MakeRollback, PrepareTrees, Prepare,
           TreesPrepared, ApplyTrees, Apply, TreesApplied, CommitTrees, Commit, Complete,
           ReleaseCheckpoint, KeepTrees, RollBackTrees, Rollback, TreesRolledBack, Recovered,
           RejectFails, Raise, Interrupt, Reboot, StartContainer, RestartGraphics, GraphicsStarts,
           transaction
  <2>2. CASE Boot \/ LosePower
    BY <2>2 DEF Boot, LosePower, Halt
  <2>3. CASE TreeStep
    <3>1. pc \in PreparePCs \cup ApplyPCs \cup RollbackPCs
      BY <2>3 DEF TreeStep, MethodStep, StageIncoming, CopyOwned, SyncIncoming, RetirePrevious,
             SyncRetired, InstallIncoming, SyncInstalled, RejectTarget, SyncRejected,
             ReinstatePrevious, SyncReinstated, SkipTarget, PreparePCs, ApplyPCs, RollbackPCs
    <3>2. Quiet
      BY <3>1 DEF CoordinatorInv, HolderInv, Quiet, Restore, Recover
    <3> QED
      BY <3>2 DEF CoordinatorInv, WritersInv
  <2> QED
    BY <2>1, <2>2, <2>3
<1> QED
  BY <1>1, Invariance, PTL DEF RestoreSpec, NoSwitchUnderWriters

(* A restore is decided only with every service running again that ran      *)
(* before it, or being restarted: complete and recover_locked come after    *)
(* resume_restored.                                                         *)
THEOREM SpecServicesComeBack == RestoreSpec => ServicesComeBack
<1>1. CoordinatorInv /\ [RestoreNext]_restoreVars
        => [state \notin Decided /\ state' \in Decided =>
              saved \subseteq running \cup {s \in {"graphics"} : asked}]_restoreVars
  <2> SUFFICES ASSUME CoordinatorInv, RestoreNext, state \notin Decided, state' \in Decided
               PROVE  saved \subseteq running \cup {s \in {"graphics"} : asked}
    OBVIOUS
  <2>1. Complete \/ Recovered
    BY DEF RestoreNext, CoordinatorStep, BeginRestore, BeginRecover, StopGraphics, StopCompose,
           ResumeCompose, ResumeGraphics, TakeCheckpoint, MakeRollback, PrepareTrees,
           TreesPrepared, ApplyTrees, TreesApplied, CommitTrees, ReleaseCheckpoint, KeepTrees,
           RollBackTrees, TreesRolledBack, RejectFails, Raise, Interrupt, Reboot, Boot, LosePower,
           Halt, TreeStep, StartContainer, RestartGraphics, GraphicsStarts, host, Decided
  <2> QED
    BY <2>1 DEF Complete, Recovered, Restore, Recover, CoordinatorInv, WritersInv
<1> QED
  BY <1>1, Invariance, PTL DEF RestoreSpec, ServicesComeBack
===============================================================================
