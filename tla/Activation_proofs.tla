--------------------------- MODULE Activation_proofs ---------------------------
(***************************************************************************)
(* What Activation promises, for any number of releases, updates, user     *)
(* writes and faults, with and without concurrent jobs and maintenance.    *)
(***************************************************************************)
EXTENDS Activation, TLAPS

USE BoundsAssumption

InUpdate == m.state \notin Terminal

(* The new release may have touched the data, and they are still to be put  *)
(* back if the update does not commit.                                      *)
DataAtStake == m.dataMayHaveChanged /\ ~m.dataRolledBack /\ tx # "committed"

(* The locks are held by one process, as far as the machine is up.          *)
BootInv ==
  /\ pc[1] = "nobody" <=> pc[2] = "idle"
  /\ pc[1] = "worker" => boot \in {"up", "degraded", "started"}
  /\ pc[1] = "finish" => boot = "started"
  /\ pc[1] = "early" <=> boot = "early"
  /\ boot \in {"off", "early", "blocked"} => running = NoRelease
  /\ asked.preparing => boot \in {"up", "degraded", "started"}

(* Between updates the accepted release is installed, over data it can read. *)
SettledInv ==
  ~InUpdate =>
    /\ m.state \in {"none", "completed", "rolled-back"}
    /\ live = policy
    /\ data.schema \in 0..policy
    /\ running \in {NoRelease, policy}
    /\ m.state = "none" => m.operation = "none"
    /\ m.operation = "update" /\ m.state = "completed" => tx = "committed" /\ policy = m.rel
    /\ m.operation = "update" /\ m.state = "rolled-back" => tx # "committed" /\ policy < m.rel

(* What the journal of the code switch says of the trees and of the release. *)
UpdateInv ==
  InUpdate =>
    /\ m.operation = "update"
    /\ job \notin {"completed", "rolled-back"}
    /\ policy <= m.rel
    /\ m.dataRolledBack => m.dataMayHaveChanged
    /\ tx # "none" => base <= policy /\ base < m.rel
    /\ tx # "committed" => policy < m.rel
    /\ tx \notin {"none", "committed"} => base = policy
    /\ tx \in {"none", "preparing", "ready", "rolled-back"} => live = policy
    /\ tx \in {"none", "preparing", "ready", "installing"} => ~m.dataMayHaveChanged
    /\ tx \in {"installed", "committed"} => live = m.rel
    /\ tx = "committed" => m.dataMayHaveChanged /\ ~m.dataRolledBack /\ dtx = "none"
    /\ tx = "rolling-back" => live \in {policy, NoRelease}
    /\ tx \in {"preparing", "ready", "installing", "rolling-back"} => running = NoRelease
    /\ m.state = "files-recovered" =>
         tx \in {"none", "rolled-back", "committed"} /\ ~DataAtStake

(* What the two records say of the data, and of the checkpoint that can     *)
(* still be put back.                                                       *)
DataInv ==
  InUpdate =>
    /\ running \in {NoRelease, live}
    /\ ~m.dataMayHaveChanged \/ m.dataRolledBack => data.schema \in 0..policy
    /\ ~m.dataMayHaveChanged => dtx = "none"
    /\ tx = "committed" => data.schema \in 0..m.rel
    /\ m.dataMayHaveChanged => m.id \in pins /\ snap.schema \in 0..base
    /\ DataAtStake =>
         /\ tx = "rolled-back" \/ dtx # "none" => running = NoRelease
         /\ dtx # "none" => tx = "rolled-back"
         /\ dtx = "none" => data.schema \in 0..m.rel
         /\ dtx = "open" => data = Mixed
         /\ dtx = "committed" => data = snap
         /\ snap.schema \in 0..policy /\ snap.writes = settled

Activating == ActivateSteps \ {"release"}
Protected == m.id \in pins /\ snap = data /\ running = NoRelease
Undoing == {"recover-stop", "restore-files", "rolling-back", "restore-data",
            "restoring-data", "data-restored", "refresh", "recover-accept", "recovered"}

(* Where an activation is.                                                  *)
ActivateInv ==
  /\ pc[2] \in Activating => pc[1] = "worker" /\ InUpdate /\ ~m.dataRolledBack /\ dtx = "none"
  /\ pc[2] \in {"stop", "checkpoint", "protect"} => tx = "none"
  /\ pc[2] = "checkpoint" => running = NoRelease
  /\ pc[2] \in {"protect", "prepare", "apply", "applied", "verify", "start"} => Protected
  /\ pc[2] = "prepare" => tx = "preparing"
  /\ pc[2] = "apply" => tx = "ready"
  /\ pc[2] = "applied" => tx = "installing"
  /\ pc[2] = "verify" => tx = "installed" /\ ~m.dataMayHaveChanged
  /\ pc[2] \in {"start", "commit"} => tx = "installed" /\ m.dataMayHaveChanged
  /\ pc[2] \in {"accept", "complete"} => tx = "committed"
  /\ pc[2] = "accept" => policy = base
  /\ pc[2] = "complete" => policy = m.rel
  /\ pc[2] \in {"commit", "accept", "complete"} => running = m.rel /\ data.schema # NoRelease
  /\ pc[1] = "worker" /\ pc[2] = "release" =>
       /\ m.state = "completed" /\ m.dataMayHaveChanged /\ ~m.dataRolledBack /\ dtx = "none"
       /\ m.id \in pins /\ snap.schema \in 0..base /\ base < m.rel
  /\ pc[1] = "worker" => job \notin {"completed", "rolled-back"}

(* Where a recovery, or what follows an update, is.                         *)
RecoverInv ==
  /\ pc[2] = "recover" => m.operation = "update"
  /\ pc[1] = "worker" /\ pc[2] = "recover" => InUpdate
  /\ pc[2] \in Undoing => m.state = "recovery-required"
  /\ pc[2] \in Undoing \ {"recover-stop", "recover-accept", "recovered"} => running = NoRelease
  /\ pc[2] = "rolling-back" => tx = "rolling-back"
  /\ pc[2] = "restore-data" => tx \in {"none", "rolled-back"}
  /\ pc[2] = "restoring-data" => DataAtStake /\ dtx = "open"
  /\ pc[2] = "data-restored" => DataAtStake /\ dtx = "committed"
  /\ pc[2] \in {"refresh", "recover-accept", "recovered"} =>
       tx \in {"none", "rolled-back", "committed"} /\ ~DataAtStake
  /\ pc[2] = "recover-accept" => tx = "committed" /\ running = m.rel
  /\ pc[2] = "recovered" => (tx = "committed" => policy = m.rel)
  /\ pc[2] = "end" => ~InUpdate \/ m.state = "files-recovered"
  /\ pc[2] \in {"release", "release-failed"} => m.operation = "update" /\ Finished
  /\ pc[2] = "release-failed" => pc[1] = "worker"
  /\ pc[2] \in {"select", "reconcile"} => ~InUpdate
  /\ pc[2] = "select" => policy = m.rel
  /\ pc[2] = "reconcile" /\ m.operation = "update" /\ m.state = "completed" => selector = m.rel
  /\ pc[1] = "early" => pc[2] \in (Undoing \ {"recover-stop", "recover-accept", "recovered"}) \cup {"recover", "end"}

(* A new operation's pin is its own, and the newest job is the one of the   *)
(* newest operation or of the next.                                         *)
IdsInv ==
  /\ pins \subseteq 1..m.id
  /\ m.operation = "update" => m.id >= 1
  /\ asked.id \in {m.id, m.id + 1}
  /\ asked.preparing => asked.id = m.id + 1 /\ job = "running"
  /\ pc[1] = "worker" => Began /\ ~asked.preparing /\ m.operation # "none"
  /\ Began /\ job # "none" => m.operation # "none"

IInv == /\ TypeOK /\ BootInv /\ SettledInv /\ UpdateInv /\ DataInv /\ ActivateInv
        /\ RecoverInv /\ IdsInv /\ NoSettledWriteLost /\ JobOutcomeTruthful

-------------------------------------------------------------------------------
(* A pin of the present operation is one of those so far.                   *)
LEMMA OwnPin ==
  ASSUME NEW n \in 1..MaxUpdates, NEW S, S \subseteq 1..n
  PROVE  S \cup {n} \subseteq 1..n /\ S \cup {n} \subseteq 1..MaxUpdates
  OBVIOUS

LEMMA InitInvariant == Init => IInv
  BY SMTT(60) DEF Init, IInv, TypeOK, BootInv, SettledInv, UpdateInv, DataInv, ActivateInv, RecoverInv,
         IdsInv, NoSettledWriteLost, JobOutcomeTruthful, Began, InUpdate, DataAtStake, Terminal,
         Finished, Releases, NoRelease, ReleaseOrNone, UpdateStates, ActivateSteps,
         Activating, Protected, Undoing, Mixed, Idle

(* The steps of an activation.                                              *)
LEMMA UpdateInvariant ==
  ASSUME IInv, UpdateStep
  PROVE  IInv'
<1> USE DEF IInv, TypeOK, BootInv, SettledInv, UpdateInv, DataInv, ActivateInv, RecoverInv,
            IdsInv, NoSettledWriteLost, JobOutcomeTruthful, Began, InUpdate, DataAtStake, Terminal,
            Finished, Releases, NoRelease, ReleaseOrNone, UpdateStates, ActivateSteps,
            Activating, Protected, Undoing, Mixed, Idle
<1>1. CASE StopServices
  <2>1. TypeOK'
    BY <1>1 DEF StopServices, Worker, Goto
  <2>2. BootInv' /\ IdsInv'
    BY <1>1 DEF StopServices, Worker, Goto
  <2>3. SettledInv' /\ UpdateInv' /\ DataInv'
    BY <1>1 DEF StopServices, Worker, Goto
  <2>4. ActivateInv' /\ RecoverInv'
    BY <1>1 DEF StopServices, Worker, Goto
  <2>5. NoSettledWriteLost' /\ JobOutcomeTruthful'
    BY <1>1 DEF StopServices, Worker, Goto
  <2> QED
    BY <2>1, <2>2, <2>3, <2>4, <2>5
<1>2. CASE TakeCheckpoint
  <2>1. m' = m /\ pins' = pins \cup {m.id} /\ m.id \in 1..MaxUpdates
    BY <1>2 DEF TakeCheckpoint, Worker, Goto
  <2>2. pins' \subseteq 1..m'.id /\ pins' \subseteq 1..MaxUpdates
    <3>1. pins \subseteq 1..m.id
      OBVIOUS
    <3> HIDE DEF IInv
    <3> QED
      BY <2>1, <3>1, OwnPin, Zenon
  <2>3. TypeOK'
    BY <1>2, <2>2 DEF TakeCheckpoint, Worker, Goto
  <2>4. BootInv' /\ IdsInv'
    BY <1>2, <2>2 DEF TakeCheckpoint, Worker, Goto
  <2>5. SettledInv' /\ UpdateInv' /\ DataInv'
    BY <1>2 DEF TakeCheckpoint, Worker, Goto
  <2>6. ActivateInv' /\ RecoverInv'
    BY <1>2 DEF TakeCheckpoint, Worker, Goto
  <2>7. NoSettledWriteLost' /\ JobOutcomeTruthful'
    BY <1>2 DEF TakeCheckpoint, Worker, Goto
  <2> QED
    BY <2>3, <2>4, <2>5, <2>6, <2>7
<1>3. CASE ProtectUpdate
  <2>1. TypeOK'
    BY <1>3 DEF ProtectUpdate, Worker, Goto
  <2>2. BootInv' /\ IdsInv'
    BY <1>3 DEF ProtectUpdate, Worker, Goto
  <2>3. SettledInv' /\ UpdateInv' /\ DataInv'
    BY <1>3 DEF ProtectUpdate, Worker, Goto
  <2>4. ActivateInv' /\ RecoverInv'
    BY <1>3 DEF ProtectUpdate, Worker, Goto
  <2>5. NoSettledWriteLost' /\ JobOutcomeTruthful'
    BY <1>3 DEF ProtectUpdate, Worker, Goto
  <2> QED
    BY <2>1, <2>2, <2>3, <2>4, <2>5
<1>4. CASE PrepareFiles
  <2>1. TypeOK'
    BY <1>4 DEF PrepareFiles, Worker, Goto
  <2>2. BootInv' /\ IdsInv'
    BY <1>4 DEF PrepareFiles, Worker, Goto
  <2>3. SettledInv' /\ UpdateInv' /\ DataInv'
    BY <1>4 DEF PrepareFiles, Worker, Goto
  <2>4. ActivateInv' /\ RecoverInv'
    BY <1>4 DEF PrepareFiles, Worker, Goto
  <2>5. NoSettledWriteLost' /\ JobOutcomeTruthful'
    BY <1>4 DEF PrepareFiles, Worker, Goto
  <2> QED
    BY <2>1, <2>2, <2>3, <2>4, <2>5
<1>5. CASE ApplyFiles
  <2>1. TypeOK'
    BY <1>5 DEF ApplyFiles, Worker, Goto
  <2>2. BootInv' /\ IdsInv'
    BY <1>5 DEF ApplyFiles, Worker, Goto
  <2>3. SettledInv' /\ UpdateInv' /\ DataInv'
    BY <1>5 DEF ApplyFiles, Worker, Goto
  <2>4. ActivateInv' /\ RecoverInv'
    BY <1>5 DEF ApplyFiles, Worker, Goto
  <2>5. NoSettledWriteLost' /\ JobOutcomeTruthful'
    BY <1>5 DEF ApplyFiles, Worker, Goto
  <2> QED
    BY <2>1, <2>2, <2>3, <2>4, <2>5
<1>6. CASE FilesApplied
  <2>1. TypeOK'
    BY <1>6 DEF FilesApplied, Worker, Goto
  <2>2. BootInv' /\ IdsInv'
    BY <1>6 DEF FilesApplied, Worker, Goto
  <2>3. SettledInv' /\ UpdateInv' /\ DataInv'
    BY <1>6 DEF FilesApplied, Worker, Goto
  <2>4. ActivateInv' /\ RecoverInv'
    BY <1>6 DEF FilesApplied, Worker, Goto
  <2>5. NoSettledWriteLost' /\ JobOutcomeTruthful'
    BY <1>6 DEF FilesApplied, Worker, Goto
  <2> QED
    BY <2>1, <2>2, <2>3, <2>4, <2>5
<1>7. CASE MarkDataMayHaveChanged
  <2>1. TypeOK'
    <3>1. m' = [operation |-> m.operation, state |-> "verifying-update", id |-> m.id, rel |-> m.rel,
              dataMayHaveChanged |-> TRUE, dataRolledBack |-> m.dataRolledBack]
      BY <1>7 DEF MarkDataMayHaveChanged, Worker, Goto
    <3>2. m' \in [operation : {"none", "update", "other"}, state : Terminal \cup UpdateStates,
                 id : 0..MaxUpdates, rel : Releases,
                 dataMayHaveChanged : BOOLEAN, dataRolledBack : BOOLEAN]
      BY <3>1
    <3> QED
      BY <1>7, <3>2 DEF MarkDataMayHaveChanged, Worker, Goto
  <2>2. BootInv' /\ IdsInv'
    BY <1>7 DEF MarkDataMayHaveChanged, Worker, Goto
  <2>3. SettledInv' /\ UpdateInv' /\ DataInv'
    BY <1>7 DEF MarkDataMayHaveChanged, Worker, Goto
  <2>4. ActivateInv' /\ RecoverInv'
    BY <1>7 DEF MarkDataMayHaveChanged, Worker, Goto
  <2>5. NoSettledWriteLost' /\ JobOutcomeTruthful'
    BY <1>7 DEF MarkDataMayHaveChanged, Worker, Goto
  <2> QED
    BY <2>1, <2>2, <2>3, <2>4, <2>5
<1>8. CASE ResumeRestored
  <2>1. TypeOK'
    BY <1>8 DEF ResumeRestored, Worker, Goto, StartServices
  <2>2. BootInv' /\ IdsInv'
    BY <1>8 DEF ResumeRestored, Worker, Goto, StartServices
  <2>3. SettledInv' /\ UpdateInv' /\ DataInv'
    BY <1>8 DEF ResumeRestored, Worker, Goto, StartServices
  <2>4. ActivateInv' /\ RecoverInv'
    BY <1>8 DEF ResumeRestored, Worker, Goto, StartServices
  <2>5. NoSettledWriteLost' /\ JobOutcomeTruthful'
    BY <1>8 DEF ResumeRestored, Worker, Goto, StartServices
  <2> QED
    BY <2>1, <2>2, <2>3, <2>4, <2>5
<1>9. CASE CommitFiles
  <2>1. TypeOK'
    BY <1>9 DEF CommitFiles, Worker, Goto
  <2>2. BootInv' /\ IdsInv'
    BY <1>9 DEF CommitFiles, Worker, Goto
  <2>3. SettledInv' /\ UpdateInv' /\ DataInv'
    BY <1>9 DEF CommitFiles, Worker, Goto
  <2>4. ActivateInv' /\ RecoverInv'
    BY <1>9 DEF CommitFiles, Worker, Goto
  <2>5. NoSettledWriteLost' /\ JobOutcomeTruthful'
    BY <1>9 DEF CommitFiles, Worker, Goto
  <2> QED
    BY <2>1, <2>2, <2>3, <2>4, <2>5
<1>10. CASE AcceptRelease
  <2>1. TypeOK'
    BY <1>10 DEF AcceptRelease, Worker, Goto, CommitRelease
  <2>2. BootInv' /\ IdsInv'
    BY <1>10 DEF AcceptRelease, Worker, Goto, CommitRelease
  <2>3. SettledInv' /\ UpdateInv' /\ DataInv'
    BY <1>10 DEF AcceptRelease, Worker, Goto, CommitRelease
  <2>4. ActivateInv' /\ RecoverInv'
    BY <1>10 DEF AcceptRelease, Worker, Goto, CommitRelease
  <2>5. NoSettledWriteLost' /\ JobOutcomeTruthful'
    BY <1>10 DEF AcceptRelease, Worker, Goto, CommitRelease
  <2> QED
    BY <2>1, <2>2, <2>3, <2>4, <2>5
<1>11. CASE Complete
  <2>1. TypeOK'
    BY <1>11 DEF Complete, Worker, Goto
  <2>2. BootInv' /\ IdsInv'
    BY <1>11 DEF Complete, Worker, Goto
  <2>3. SettledInv' /\ UpdateInv' /\ DataInv'
    BY <1>11 DEF Complete, Worker, Goto
  <2>4. ActivateInv' /\ RecoverInv'
    BY <1>11 DEF Complete, Worker, Goto
  <2>5. NoSettledWriteLost' /\ JobOutcomeTruthful'
    BY SMTT(60), <1>11 DEF Complete, Worker, Goto
  <2> QED
    BY <2>1, <2>2, <2>3, <2>4, <2>5
<1> QED
  BY ZenonT(60), <1>1, <1>2, <1>3, <1>4, <1>5, <1>6, <1>7, <1>8, <1>9, <1>10, <1>11 DEF UpdateStep

(* The steps of a recovery, by the worker or by a boot.                     *)
LEMMA RecoveryInvariant ==
  ASSUME IInv, RecoveryStep
  PROVE  IInv'
<1> USE DEF IInv, TypeOK, BootInv, SettledInv, UpdateInv, DataInv, ActivateInv, RecoverInv,
            IdsInv, NoSettledWriteLost, JobOutcomeTruthful, Began, InUpdate, DataAtStake, Terminal,
            Finished, Releases, NoRelease, ReleaseOrNone, UpdateStates, ActivateSteps,
            Activating, Protected, Undoing, Mixed, Idle
<1>1. CASE BeginRecovery
  <2>1. TypeOK'
    BY <1>1 DEF BeginRecovery, Recovering, Goto
  <2>2. BootInv' /\ IdsInv'
    BY <1>1 DEF BeginRecovery, Recovering, Goto
  <2>3. SettledInv' /\ UpdateInv' /\ DataInv'
    BY <1>1 DEF BeginRecovery, Recovering, Goto
  <2>4. ActivateInv' /\ RecoverInv'
    <3>1. CASE Finished
      BY <1>1, <3>1 DEF BeginRecovery, Recovering, Goto
    <3>2. CASE ~Finished
      BY <1>1, <3>2 DEF BeginRecovery, Recovering, Goto
    <3> QED
      BY <3>1, <3>2
  <2>5. NoSettledWriteLost' /\ JobOutcomeTruthful'
    BY <1>1 DEF BeginRecovery, Recovering, Goto
  <2> QED
    BY <2>1, <2>2, <2>3, <2>4, <2>5
<1>2. CASE RecoverStop
  <2>1. TypeOK'
    BY <1>2 DEF RecoverStop, InRecovery, Goto
  <2>2. BootInv' /\ IdsInv'
    BY <1>2 DEF RecoverStop, InRecovery, Goto
  <2>3. SettledInv' /\ UpdateInv' /\ DataInv'
    BY <1>2 DEF RecoverStop, InRecovery, Goto
  <2>4. ActivateInv' /\ RecoverInv'
    BY <1>2 DEF RecoverStop, InRecovery, Goto
  <2>5. NoSettledWriteLost' /\ JobOutcomeTruthful'
    BY <1>2 DEF RecoverStop, InRecovery, Goto
  <2> QED
    BY <2>1, <2>2, <2>3, <2>4, <2>5
<1>3. CASE KeepFiles
  <2>1. TypeOK'
    BY <1>3 DEF KeepFiles, Recovering, Goto
  <2>2. BootInv' /\ IdsInv'
    BY <1>3 DEF KeepFiles, Recovering, Goto
  <2>3. SettledInv' /\ UpdateInv' /\ DataInv'
    BY <1>3 DEF KeepFiles, Recovering, Goto
  <2>4. ActivateInv' /\ RecoverInv'
    BY <1>3 DEF KeepFiles, Recovering, Goto
  <2>5. NoSettledWriteLost' /\ JobOutcomeTruthful'
    BY <1>3 DEF KeepFiles, Recovering, Goto
  <2> QED
    BY <2>1, <2>2, <2>3, <2>4, <2>5
<1>4. CASE RollBackFiles
  <2>1. TypeOK'
    BY <1>4 DEF RollBackFiles, Recovering, Goto
  <2>2. BootInv' /\ IdsInv'
    BY <1>4 DEF RollBackFiles, Recovering, Goto
  <2>3. SettledInv' /\ UpdateInv' /\ DataInv'
    BY <1>4 DEF RollBackFiles, Recovering, Goto
  <2>4. ActivateInv' /\ RecoverInv'
    BY <1>4 DEF RollBackFiles, Recovering, Goto
  <2>5. NoSettledWriteLost' /\ JobOutcomeTruthful'
    BY <1>4 DEF RollBackFiles, Recovering, Goto
  <2> QED
    BY <2>1, <2>2, <2>3, <2>4, <2>5
<1>5. CASE FilesRolledBack
  <2>1. TypeOK'
    BY <1>5 DEF FilesRolledBack, Recovering, Goto
  <2>2. BootInv' /\ IdsInv'
    BY <1>5 DEF FilesRolledBack, Recovering, Goto
  <2>3. SettledInv' /\ UpdateInv' /\ DataInv'
    BY <1>5 DEF FilesRolledBack, Recovering, Goto
  <2>4. ActivateInv' /\ RecoverInv'
    BY <1>5 DEF FilesRolledBack, Recovering, Goto
  <2>5. NoSettledWriteLost' /\ JobOutcomeTruthful'
    BY <1>5 DEF FilesRolledBack, Recovering, Goto
  <2> QED
    BY <2>1, <2>2, <2>3, <2>4, <2>5
<1>6. CASE KeepData
  <2>1. TypeOK'
    BY <1>6 DEF KeepData, Recovering, Goto, DataMustRollBack
  <2>2. BootInv' /\ IdsInv'
    BY <1>6 DEF KeepData, Recovering, Goto, DataMustRollBack
  <2>3. SettledInv' /\ UpdateInv' /\ DataInv'
    BY <1>6 DEF KeepData, Recovering, Goto, DataMustRollBack
  <2>4. ActivateInv' /\ RecoverInv'
    BY <1>6 DEF KeepData, Recovering, Goto, DataMustRollBack
  <2>5. NoSettledWriteLost' /\ JobOutcomeTruthful'
    BY <1>6 DEF KeepData, Recovering, Goto, DataMustRollBack
  <2> QED
    BY <2>1, <2>2, <2>3, <2>4, <2>5
<1>7. CASE RestoreCheckpoint
  <2>1. m' = m /\ pins' = pins \cup {m.id} /\ m.id \in 1..MaxUpdates
    BY <1>7 DEF RestoreCheckpoint, Recovering, Goto, DataMustRollBack
  <2>2. pins' \subseteq 1..m'.id /\ pins' \subseteq 1..MaxUpdates
    <3>1. pins \subseteq 1..m.id
      OBVIOUS
    <3> HIDE DEF IInv
    <3> QED
      BY <2>1, <3>1, OwnPin, Zenon
  <2>3. TypeOK'
    BY <1>7, <2>2 DEF RestoreCheckpoint, Recovering, Goto, DataMustRollBack
  <2>4. BootInv' /\ IdsInv'
    BY <1>7, <2>2 DEF RestoreCheckpoint, Recovering, Goto, DataMustRollBack
  <2>5. SettledInv' /\ UpdateInv' /\ DataInv'
    BY <1>7 DEF RestoreCheckpoint, Recovering, Goto, DataMustRollBack
  <2>6. ActivateInv' /\ RecoverInv'
    BY <1>7 DEF RestoreCheckpoint, Recovering, Goto, DataMustRollBack
  <2>7. NoSettledWriteLost' /\ JobOutcomeTruthful'
    BY <1>7 DEF RestoreCheckpoint, Recovering, Goto, DataMustRollBack
  <2> QED
    BY <2>3, <2>4, <2>5, <2>6, <2>7
<1>8. CASE CheckpointRestored
  <2>1. TypeOK'
    BY <1>8 DEF CheckpointRestored, Recovering, Goto
  <2>2. BootInv' /\ IdsInv'
    BY <1>8 DEF CheckpointRestored, Recovering, Goto
  <2>3. SettledInv' /\ UpdateInv' /\ DataInv'
    BY <1>8 DEF CheckpointRestored, Recovering, Goto
  <2>4. ActivateInv' /\ RecoverInv'
    BY <1>8 DEF CheckpointRestored, Recovering, Goto
  <2>5. NoSettledWriteLost' /\ JobOutcomeTruthful'
    BY <1>8 DEF CheckpointRestored, Recovering, Goto
  <2> QED
    BY <2>1, <2>2, <2>3, <2>4, <2>5
<1>9. CASE MarkDataRolledBack
  <2>1. TypeOK'
    <3>1. m' = [operation |-> m.operation, state |-> "recovery-required", id |-> m.id, rel |-> m.rel,
              dataMayHaveChanged |-> m.dataMayHaveChanged, dataRolledBack |-> TRUE]
      BY <1>9 DEF MarkDataRolledBack, Recovering, Goto
    <3>2. m' \in [operation : {"none", "update", "other"}, state : Terminal \cup UpdateStates,
                 id : 0..MaxUpdates, rel : Releases,
                 dataMayHaveChanged : BOOLEAN, dataRolledBack : BOOLEAN]
      BY <3>1
    <3> QED
      BY <1>9, <3>2 DEF MarkDataRolledBack, Recovering, Goto
  <2>2. BootInv' /\ IdsInv'
    BY <1>9 DEF MarkDataRolledBack, Recovering, Goto
  <2>3. SettledInv' /\ UpdateInv' /\ DataInv'
    BY <1>9 DEF MarkDataRolledBack, Recovering, Goto
  <2>4. ActivateInv' /\ RecoverInv'
    BY <1>9 DEF MarkDataRolledBack, Recovering, Goto
  <2>5. NoSettledWriteLost' /\ JobOutcomeTruthful'
    BY <1>9 DEF MarkDataRolledBack, Recovering, Goto
  <2> QED
    BY <2>1, <2>2, <2>3, <2>4, <2>5
<1>10. CASE FilesRecovered
  <2>1. TypeOK'
    BY <1>10 DEF FilesRecovered, Goto
  <2>2. BootInv' /\ IdsInv'
    BY <1>10 DEF FilesRecovered, Goto
  <2>3. SettledInv' /\ UpdateInv' /\ DataInv'
    BY <1>10 DEF FilesRecovered, Goto
  <2>4. ActivateInv' /\ RecoverInv'
    BY <1>10 DEF FilesRecovered, Goto
  <2>5. NoSettledWriteLost' /\ JobOutcomeTruthful'
    BY <1>10 DEF FilesRecovered, Goto
  <2> QED
    BY <2>1, <2>2, <2>3, <2>4, <2>5
<1>11. CASE RecoverResume
  <2>1. TypeOK'
    BY <1>11 DEF RecoverResume, InRecovery, Goto, StartServices
  <2>2. BootInv' /\ IdsInv'
    BY <1>11 DEF RecoverResume, InRecovery, Goto, StartServices
  <2>3. SettledInv' /\ UpdateInv' /\ DataInv'
    BY <1>11 DEF RecoverResume, InRecovery, Goto, StartServices
  <2>4. ActivateInv' /\ RecoverInv'
    BY <1>11 DEF RecoverResume, InRecovery, Goto, StartServices
  <2>5. NoSettledWriteLost' /\ JobOutcomeTruthful'
    BY <1>11 DEF RecoverResume, InRecovery, Goto, StartServices
  <2> QED
    BY <2>1, <2>2, <2>3, <2>4, <2>5
<1>12. CASE RecoverAccept
  <2>1. TypeOK'
    BY <1>12 DEF RecoverAccept, InRecovery, Goto, CommitRelease
  <2>2. BootInv' /\ IdsInv'
    BY <1>12 DEF RecoverAccept, InRecovery, Goto, CommitRelease
  <2>3. SettledInv' /\ UpdateInv' /\ DataInv'
    BY <1>12 DEF RecoverAccept, InRecovery, Goto, CommitRelease
  <2>4. ActivateInv' /\ RecoverInv'
    BY <1>12 DEF RecoverAccept, InRecovery, Goto, CommitRelease
  <2>5. NoSettledWriteLost' /\ JobOutcomeTruthful'
    BY <1>12 DEF RecoverAccept, InRecovery, Goto, CommitRelease
  <2> QED
    BY <2>1, <2>2, <2>3, <2>4, <2>5
<1>13. CASE Recovered
  <2>1. TypeOK'
    BY <1>13 DEF Recovered, InRecovery, Goto
  <2>2. BootInv' /\ IdsInv'
    BY <1>13 DEF Recovered, InRecovery, Goto
  <2>3. SettledInv' /\ UpdateInv' /\ DataInv'
    BY <1>13 DEF Recovered, InRecovery, Goto
  <2>4. ActivateInv' /\ RecoverInv'
    BY <1>13 DEF Recovered, InRecovery, Goto
  <2>5. NoSettledWriteLost' /\ JobOutcomeTruthful'
    BY <1>13 DEF Recovered, InRecovery, Goto
  <2> QED
    BY <2>1, <2>2, <2>3, <2>4, <2>5
<1>14. CASE ReleaseCheckpoint
  <2>1. m' = m /\ pins' = pins \ {m.id} /\ m.id \in 1..MaxUpdates
    BY <1>14 DEF ReleaseCheckpoint, Goto
  <2>2. pins' \subseteq 1..m'.id /\ pins' \subseteq 1..MaxUpdates
    BY <2>1
  <2>3. TypeOK'
    BY <1>14, <2>2 DEF ReleaseCheckpoint, Goto
  <2>4. BootInv' /\ IdsInv'
    <3>1. BootInv'
      BY <1>14, <2>2 DEF ReleaseCheckpoint, Goto
    <3>2. m.operation # "none" /\ asked' = asked
      BY <1>14 DEF ReleaseCheckpoint, Goto
    <3>3. pc' \in {Idle, <<pc[1], "select">>, <<pc[1], "reconcile">>}
      BY <1>14 DEF ReleaseCheckpoint, Goto
    <3>4. pc'[1] = "worker" => pc[1] = "worker"
      BY <3>3
    <3>5. asked.preparing => job' = "running" /\ pc[1] # "worker"
      BY <1>14 DEF ReleaseCheckpoint, Goto
    <3>6. asked'.id \in {m'.id, m'.id + 1} /\ (m'.operation = "update" => m'.id >= 1)
      BY <2>1, <3>2
    <3>7. asked'.preparing => asked'.id = m'.id + 1 /\ job' = "running"
      BY <2>1, <3>2, <3>5
    <3>8. pc'[1] = "worker" => Began' /\ ~asked'.preparing /\ m'.operation # "none"
      BY <2>1, <3>2, <3>5, <3>4
    <3>9. IdsInv'
      BY <2>1, <2>2, <3>2, <3>6, <3>7, <3>8
    <3> QED
      BY <3>1, <3>9
  <2>5. SettledInv' /\ UpdateInv' /\ DataInv'
    BY <1>14 DEF ReleaseCheckpoint, Goto
  <2>6. ActivateInv' /\ RecoverInv'
    BY <1>14 DEF ReleaseCheckpoint, Goto
  <2>7. NoSettledWriteLost' /\ JobOutcomeTruthful'
    BY SMTT(60), <1>14 DEF ReleaseCheckpoint, Goto
  <2> QED
    BY <2>3, <2>4, <2>5, <2>6, <2>7
<1> QED
  BY ZenonT(60), <1>1, <1>2, <1>3, <1>4, <1>5, <1>6, <1>7, <1>8, <1>9, <1>10, <1>11, <1>12, <1>13, <1>14 DEF RecoveryStep

(* What follows an update.                                                  *)
LEMMA SelectionInvariant ==
  ASSUME IInv, SelectionStep
  PROVE  IInv'
<1> USE DEF IInv, TypeOK, BootInv, SettledInv, UpdateInv, DataInv, ActivateInv, RecoverInv,
            IdsInv, NoSettledWriteLost, JobOutcomeTruthful, Began, InUpdate, DataAtStake, Terminal,
            Finished, Releases, NoRelease, ReleaseOrNone, UpdateStates, ActivateSteps,
            Activating, Protected, Undoing, Mixed, Idle
<1>1. CASE SelectCandidate
  <2>1. TypeOK'
    BY <1>1 DEF SelectCandidate, Goto, Abandoned, Classified
  <2>2. BootInv' /\ IdsInv'
    BY <1>1 DEF SelectCandidate, Goto, Abandoned, Classified
  <2>3. SettledInv' /\ UpdateInv' /\ DataInv'
    BY <1>1 DEF SelectCandidate, Goto, Abandoned, Classified
  <2>4. ActivateInv' /\ RecoverInv'
    BY <1>1 DEF SelectCandidate, Goto, Abandoned, Classified
  <2>5. NoSettledWriteLost' /\ JobOutcomeTruthful'
    BY <1>1 DEF SelectCandidate, Goto, Abandoned, Classified
  <2> QED
    BY <2>1, <2>2, <2>3, <2>4, <2>5
<1>2. CASE SelectRefused
  <2>1. TypeOK'
    BY <1>2 DEF SelectRefused
  <2>2. BootInv' /\ IdsInv'
    <3>1. BootInv'
      BY <1>2 DEF SelectRefused
    <3>2. IdsInv'
      BY <1>2 DEF SelectRefused
    <3> QED
      BY <3>1, <3>2
  <2>3. SettledInv' /\ UpdateInv' /\ DataInv'
    BY <1>2 DEF SelectRefused
  <2>4. ActivateInv' /\ RecoverInv'
    BY <1>2 DEF SelectRefused
  <2>5. NoSettledWriteLost' /\ JobOutcomeTruthful'
    BY <1>2 DEF SelectRefused
  <2> QED
    BY <2>1, <2>2, <2>3, <2>4, <2>5
<1>3. CASE ReconcileUpdate
  <2>1. TypeOK'
    BY <1>3 DEF ReconcileUpdate
  <2>2. BootInv' /\ IdsInv'
    BY <1>3 DEF ReconcileUpdate
  <2>3. SettledInv' /\ UpdateInv' /\ DataInv'
    BY <1>3 DEF ReconcileUpdate
  <2>4. ActivateInv' /\ RecoverInv'
    BY <1>3 DEF ReconcileUpdate
  <2>5. NoSettledWriteLost' /\ JobOutcomeTruthful'
    BY SMTT(60), <1>3 DEF ReconcileUpdate
  <2> QED
    BY <2>1, <2>2, <2>3, <2>4, <2>5
<1> QED
  BY <1>1, <1>2, <1>3 DEF SelectionStep

(* The units of a boot.                                                     *)
LEMMA BootInvariant ==
  ASSUME IInv, BootStep
  PROVE  IInv'
<1> USE DEF IInv, TypeOK, BootInv, SettledInv, UpdateInv, DataInv, ActivateInv, RecoverInv,
            IdsInv, NoSettledWriteLost, JobOutcomeTruthful, Began, InUpdate, DataAtStake, Terminal,
            Finished, Releases, NoRelease, ReleaseOrNone, UpdateStates, ActivateSteps,
            Activating, Protected, Undoing, Mixed, Idle
<1>1. CASE EarlyBoot
  <2>1. TypeOK'
    BY <1>1 DEF EarlyBoot, durable
  <2>2. BootInv' /\ IdsInv'
    BY <1>1 DEF EarlyBoot, durable
  <2>3. SettledInv' /\ UpdateInv' /\ DataInv'
    BY <1>1 DEF EarlyBoot, durable
  <2>4. ActivateInv' /\ RecoverInv'
    BY <1>1 DEF EarlyBoot, durable
  <2>5. NoSettledWriteLost' /\ JobOutcomeTruthful'
    BY <1>1 DEF EarlyBoot, durable
  <2> QED
    BY <2>1, <2>2, <2>3, <2>4, <2>5
<1>2. CASE StartWriters
  <2>1. TypeOK'
    BY <1>2 DEF StartWriters, StartServices
  <2>2. BootInv' /\ IdsInv'
    BY <1>2 DEF StartWriters, StartServices
  <2>3. SettledInv' /\ UpdateInv' /\ DataInv'
    BY <1>2 DEF StartWriters, StartServices
  <2>4. ActivateInv' /\ RecoverInv'
    BY <1>2 DEF StartWriters, StartServices
  <2>5. NoSettledWriteLost' /\ JobOutcomeTruthful'
    BY <1>2 DEF StartWriters, StartServices
  <2> QED
    BY <2>1, <2>2, <2>3, <2>4, <2>5
<1>3. CASE FinalRecovery
  <2>1. TypeOK'
    BY <1>3 DEF FinalRecovery, durable
  <2>2. BootInv' /\ IdsInv'
    BY <1>3 DEF FinalRecovery, durable
  <2>3. SettledInv' /\ UpdateInv' /\ DataInv'
    BY <1>3 DEF FinalRecovery, durable
  <2>4. ActivateInv' /\ RecoverInv'
    BY <1>3 DEF FinalRecovery, durable
  <2>5. NoSettledWriteLost' /\ JobOutcomeTruthful'
    BY <1>3 DEF FinalRecovery, durable
  <2> QED
    BY <2>1, <2>2, <2>3, <2>4, <2>5
<1>4. CASE FinalRefused
  <2>1. TypeOK'
    BY <1>4 DEF FinalRefused, durable
  <2>2. BootInv' /\ IdsInv'
    BY <1>4 DEF FinalRefused, durable
  <2>3. SettledInv' /\ UpdateInv' /\ DataInv'
    BY <1>4 DEF FinalRefused, durable
  <2>4. ActivateInv' /\ RecoverInv'
    BY <1>4 DEF FinalRefused, durable
  <2>5. NoSettledWriteLost' /\ JobOutcomeTruthful'
    BY <1>4 DEF FinalRefused, durable
  <2> QED
    BY <2>1, <2>2, <2>3, <2>4, <2>5
<1> QED
  BY <1>1, <1>2, <1>3, <1>4 DEF BootStep

(* An update that begins.                                                   *)
LEMMA BeginInvariant ==
  ASSUME IInv, NEW r \in Releases, BeginUpdate(r)
  PROVE  IInv'
<1> USE DEF IInv, TypeOK, BootInv, SettledInv, UpdateInv, DataInv, ActivateInv, RecoverInv,
            IdsInv, NoSettledWriteLost, JobOutcomeTruthful, Began, InUpdate, DataAtStake, Terminal,
            Finished, Releases, NoRelease, ReleaseOrNone, UpdateStates, ActivateSteps,
            Activating, Protected, Undoing, Mixed, Idle
<1>1. TypeOK'
  BY DEF BeginUpdate
<1>2. BootInv' /\ IdsInv'
  BY DEF BeginUpdate
<1>3. SettledInv' /\ UpdateInv' /\ DataInv'
  BY DEF BeginUpdate
<1>4. ActivateInv' /\ RecoverInv'
  BY DEF BeginUpdate
<1>5. NoSettledWriteLost' /\ JobOutcomeTruthful'
  BY SMTT(60) DEF BeginUpdate
<1> QED
  BY <1>1, <1>2, <1>3, <1>4, <1>5

(* Readers of the job, other maintenance, users and faults.                 *)
LEMMA OtherInvariant ==
  ASSUME IInv,
         \/ AdmitUpdate \/ ReadJob \/ OtherMaintenance \/ UserWrite \/ Raise
         \/ RecoveryRaises \/ StopPreparing \/ KillWorker \/ PowerLoss \/ Reboot
  PROVE  IInv'
<1> USE DEF IInv, TypeOK, BootInv, SettledInv, UpdateInv, DataInv, ActivateInv, RecoverInv,
            IdsInv, NoSettledWriteLost, JobOutcomeTruthful, Began, InUpdate, DataAtStake, Terminal,
            Finished, Releases, NoRelease, ReleaseOrNone, UpdateStates, ActivateSteps,
            Activating, Protected, Undoing, Mixed, Idle
<1>1. CASE ReadJob
  <2>1. TypeOK'
    BY <1>1 DEF ReadJob, Abandoned, Classified
  <2>2. BootInv' /\ IdsInv'
    BY <1>1 DEF ReadJob, Abandoned, Classified
  <2>3. SettledInv' /\ UpdateInv' /\ DataInv'
    BY <1>1 DEF ReadJob, Abandoned, Classified
  <2>4. ActivateInv' /\ RecoverInv'
    BY <1>1 DEF ReadJob, Abandoned, Classified
  <2>5. NoSettledWriteLost' /\ JobOutcomeTruthful'
    BY <1>1 DEF ReadJob, Abandoned, Classified
  <2> QED
    BY <2>1, <2>2, <2>3, <2>4, <2>5
<1>2. CASE OtherMaintenance
  <2>1. TypeOK'
    <3>1. m' = [operation |-> "other", state |-> "completed", id |-> m.id, rel |-> m.rel,
              dataMayHaveChanged |-> m.dataMayHaveChanged, dataRolledBack |-> m.dataRolledBack]
      BY <1>2 DEF OtherMaintenance
    <3> QED
      BY <1>2, <3>1 DEF OtherMaintenance
  <2>2. BootInv' /\ IdsInv'
    BY <1>2 DEF OtherMaintenance
  <2>3. SettledInv' /\ UpdateInv' /\ DataInv'
    BY <1>2 DEF OtherMaintenance
  <2>4. ActivateInv' /\ RecoverInv'
    BY <1>2 DEF OtherMaintenance
  <2>5. NoSettledWriteLost' /\ JobOutcomeTruthful'
    BY <1>2 DEF OtherMaintenance
  <2> QED
    BY <2>1, <2>2, <2>3, <2>4, <2>5
<1>3. CASE UserWrite
  <2>1. TypeOK'
    BY <1>3 DEF UserWrite
  <2>2. BootInv' /\ IdsInv'
    BY <1>3 DEF UserWrite
  <2>3. SettledInv' /\ UpdateInv' /\ DataInv'
    BY <1>3 DEF UserWrite
  <2>4. ActivateInv' /\ RecoverInv'
    BY <1>3 DEF UserWrite
  <2>5. NoSettledWriteLost' /\ JobOutcomeTruthful'
    BY <1>3 DEF UserWrite
  <2> QED
    BY <2>1, <2>2, <2>3, <2>4, <2>5
<1>4. CASE Raise
  <2>1. TypeOK'
    BY <1>4 DEF Raise, Fault, Goto
  <2>2. BootInv' /\ IdsInv'
    BY <1>4 DEF Raise, Fault, Goto
  <2>3. SettledInv' /\ UpdateInv' /\ DataInv'
    BY <1>4 DEF Raise, Fault, Goto
  <2>4. ActivateInv' /\ RecoverInv'
    BY <1>4 DEF Raise, Fault, Goto
  <2>5. NoSettledWriteLost' /\ JobOutcomeTruthful'
    BY <1>4 DEF Raise, Fault, Goto
  <2> QED
    BY <2>1, <2>2, <2>3, <2>4, <2>5
<1>5. CASE RecoveryRaises
  <2>1. TypeOK'
    BY <1>5 DEF RecoveryRaises, Fault
  <2>2. BootInv' /\ IdsInv'
    <3>1. BootInv'
      BY <1>5 DEF RecoveryRaises, Fault
    <3>2. IdsInv'
      BY <1>5 DEF RecoveryRaises, Fault
    <3> QED
      BY <3>1, <3>2
  <2>3. SettledInv' /\ UpdateInv' /\ DataInv'
    BY <1>5 DEF RecoveryRaises, Fault
  <2>4. ActivateInv' /\ RecoverInv'
    BY <1>5 DEF RecoveryRaises, Fault
  <2>5. NoSettledWriteLost' /\ JobOutcomeTruthful'
    BY <1>5 DEF RecoveryRaises, Fault
  <2> QED
    BY <2>1, <2>2, <2>3, <2>4, <2>5
<1>6. CASE KillWorker
  <2>1. TypeOK'
    BY <1>6 DEF KillWorker, Fault, durable
  <2>2. BootInv' /\ IdsInv'
    BY <1>6 DEF KillWorker, Fault, durable
  <2>3. SettledInv' /\ UpdateInv' /\ DataInv'
    BY <1>6 DEF KillWorker, Fault, durable
  <2>4. ActivateInv' /\ RecoverInv'
    BY <1>6 DEF KillWorker, Fault, durable
  <2>5. NoSettledWriteLost' /\ JobOutcomeTruthful'
    BY <1>6 DEF KillWorker, Fault, durable
  <2> QED
    BY <2>1, <2>2, <2>3, <2>4, <2>5
<1>9. CASE StopPreparing
  <2>1. TypeOK'
    <3>1. asked' = [id |-> asked.id, preparing |-> FALSE]
      BY <1>9 DEF StopPreparing, Fault
    <3>2. asked' \in [id : 0..MaxUpdates, preparing : BOOLEAN]
      BY <3>1
    <3> QED
      BY <3>2, <1>9 DEF StopPreparing, Fault
  <2>2. BootInv' /\ IdsInv'
    BY <1>9 DEF StopPreparing, Fault
  <2>3. SettledInv' /\ UpdateInv' /\ DataInv'
    BY <1>9 DEF StopPreparing, Fault
  <2>4. ActivateInv' /\ RecoverInv'
    BY <1>9 DEF StopPreparing, Fault
  <2>5. NoSettledWriteLost' /\ JobOutcomeTruthful'
    BY <1>9 DEF StopPreparing, Fault
  <2> QED
    BY <2>1, <2>2, <2>3, <2>4, <2>5
<1>10. CASE AdmitUpdate
  <2>1. TypeOK'
    BY <1>10 DEF AdmitUpdate
  <2>2. BootInv' /\ IdsInv'
    BY <1>10 DEF AdmitUpdate
  <2>3. SettledInv' /\ UpdateInv' /\ DataInv'
    BY <1>10 DEF AdmitUpdate
  <2>4. ActivateInv' /\ RecoverInv'
    BY <1>10 DEF AdmitUpdate
  <2>5. NoSettledWriteLost' /\ JobOutcomeTruthful'
    BY <1>10 DEF AdmitUpdate
  <2> QED
    BY <2>1, <2>2, <2>3, <2>4, <2>5
<1>7. CASE PowerLoss
  <2>1. TypeOK'
    <3>1. asked' = [id |-> asked.id, preparing |-> FALSE]
      BY <1>7 DEF PowerLoss, Fault, PowerOff, durable
    <3>2. asked' \in [id : 0..MaxUpdates, preparing : BOOLEAN]
      BY <3>1
    <3> QED
      BY <3>2, <1>7 DEF PowerLoss, Fault, PowerOff, durable
  <2>2. BootInv' /\ IdsInv'
    <3>1. BootInv'
      BY <1>7 DEF PowerLoss, Fault, PowerOff, durable
    <3>2. IdsInv'
      BY <1>7 DEF PowerLoss, Fault, PowerOff, durable
    <3> QED
      BY <3>1, <3>2
  <2>3. SettledInv' /\ UpdateInv' /\ DataInv'
    BY <1>7 DEF PowerLoss, Fault, PowerOff, durable
  <2>4. ActivateInv' /\ RecoverInv'
    BY <1>7 DEF PowerLoss, Fault, PowerOff, durable
  <2>5. NoSettledWriteLost' /\ JobOutcomeTruthful'
    BY <1>7 DEF PowerLoss, Fault, PowerOff, durable
  <2> QED
    BY <2>1, <2>2, <2>3, <2>4, <2>5
<1>8. CASE Reboot
  <2>1. TypeOK'
    <3>1. asked' = [id |-> asked.id, preparing |-> FALSE]
      BY <1>8 DEF Reboot, PowerOff, durable
    <3>2. asked' \in [id : 0..MaxUpdates, preparing : BOOLEAN]
      BY <3>1
    <3> QED
      BY <3>2, <1>8 DEF Reboot, PowerOff, durable
  <2>2. BootInv' /\ IdsInv'
    <3>1. BootInv'
      BY <1>8 DEF Reboot, PowerOff, durable
    <3>2. IdsInv'
      BY <1>8 DEF Reboot, PowerOff, durable
    <3> QED
      BY <3>1, <3>2
  <2>3. SettledInv' /\ UpdateInv' /\ DataInv'
    BY <1>8 DEF Reboot, PowerOff, durable
  <2>4. ActivateInv' /\ RecoverInv'
    BY <1>8 DEF Reboot, PowerOff, durable
  <2>5. NoSettledWriteLost' /\ JobOutcomeTruthful'
    BY <1>8 DEF Reboot, PowerOff, durable
  <2> QED
    BY <2>1, <2>2, <2>3, <2>4, <2>5
<1> QED
  BY ZenonT(60), <1>1, <1>2, <1>3, <1>4, <1>5, <1>6, <1>7, <1>8, <1>9, <1>10

LEMMA NextInvariant ==
  ASSUME IInv, [Next]_vars
  PROVE  IInv'
<1>1. CASE UNCHANGED vars
  BY <1>1 DEF vars, IInv, TypeOK, BootInv, SettledInv, UpdateInv, DataInv, ActivateInv,
              RecoverInv, IdsInv, NoSettledWriteLost, JobOutcomeTruthful, Began, InUpdate,
              DataAtStake, Finished, Protected
<1> QED
  BY <1>1, UpdateInvariant, RecoveryInvariant, SelectionInvariant, BootInvariant,
     BeginInvariant, OtherInvariant DEF Next

LEMMA Invariance == Spec => []IInv
  BY InitInvariant, NextInvariant, PTL DEF Spec

-------------------------------------------------------------------------------
(* Services only run from a whole runtime tree, over whole data.            *)
THEOREM SpecWritersOnWholeRuntime == Spec => []WritersOnWholeRuntime
<1>1. IInv => WritersOnWholeRuntime
  BY DEF IInv, TypeOK, BootInv, SettledInv, UpdateInv, DataInv, InUpdate, DataAtStake,
         NoRelease, Releases, WritersOnWholeRuntime, Mixed
<1> QED
  BY <1>1, Invariance, PTL

(* No write that users made under an accepted release is lost.              *)
THEOREM SpecNoSettledWriteLost == Spec => []NoSettledWriteLost
<1>1. IInv => NoSettledWriteLost
  BY DEF IInv
<1> QED
  BY <1>1, Invariance, PTL

(* Record, policy, runtime and job agree on how an update ended, and what   *)
(* an undecided one would go back to is kept.                               *)
THEOREM SpecUpdateSound == Spec => []UpdateSound
<1>1. ASSUME IInv PROVE OutcomeMatchesPolicy
  BY <1>1 DEF IInv, TypeOK, SettledInv, InUpdate, Releases, Terminal, OutcomeMatchesPolicy
<1>2. ASSUME IInv PROVE RollbackSourceRetained
  BY <1>2 DEF IInv, TypeOK, DataInv, InUpdate, Releases, RollbackSourceRetained, Unfinished
<1>3. IInv => UpdateSound
  BY <1>1, <1>2 DEF IInv, UpdateSound
<1> QED
  BY <1>3, Invariance, PTL

(* A boot that ends well on a completed update has selected its bootstrap.  *)
THEOREM SpecFinishSelects == Spec => FinishSelects
<1>1. ASSUME IInv, [Next]_vars, boot = "started", boot' = "up", m'.operation = "update",
             m'.state = "completed"
      PROVE  selector' = m'.rel
  <2>1. ~UpdateStep
    BY <1>1 DEF UpdateStep, StopServices, TakeCheckpoint, ProtectUpdate, PrepareFiles,
                ApplyFiles, FilesApplied, MarkDataMayHaveChanged, ResumeRestored, CommitFiles,
                AcceptRelease, Complete
  <2>2. ~RecoveryStep
    BY <1>1 DEF RecoveryStep, BeginRecovery, RecoverStop, KeepFiles, RollBackFiles,
                FilesRolledBack, KeepData, RestoreCheckpoint, CheckpointRestored,
                MarkDataRolledBack, FilesRecovered, RecoverResume, RecoverAccept, Recovered,
                ReleaseCheckpoint
  <2>3. SelectionStep => ReconcileUpdate
    BY <1>1 DEF SelectionStep, SelectCandidate, SelectRefused
  <2>4. BootStep => FinalRecovery
    BY <1>1 DEF BootStep, EarlyBoot, StartWriters, FinalRefused
  <2>5. ReconcileUpdate \/ FinalRecovery
    BY <1>1, <2>1, <2>2, <2>3, <2>4
       DEF Next, vars, AdmitUpdate, BeginUpdate, StopPreparing, ReadJob, OtherMaintenance, UserWrite, Raise,
           RecoveryRaises, KillWorker, PowerLoss, Reboot, PowerOff
  <2> QED
    BY <1>1, <2>5 DEF IInv, RecoverInv, ReconcileUpdate, FinalRecovery, durable
<1> QED
  BY <1>1, Invariance, PTL DEF Spec, FinishSelects

(* The steps that ReleaseSwitch sees: a start over data the release can     *)
(* read, and never of one older than the accepted; an acceptance of what    *)
(* runs; and stopped services whose data are put back.                      *)
LEMMA StartsAreAllowed ==
  ASSUME IInv, StartServices(live), policy <= live, data.schema \in 0..live, live \in Releases,
         policy' = policy
  PROVE  [Switch!SwitchNext]_(Switch!switchVars)
  BY DEF IInv, TypeOK, StartServices, Releases, NoRelease, Switch!SwitchNext, Switch!Start,
         Switch!switchVars

LEMMA AcceptsAreAllowed ==
  ASSUME IInv, CommitRelease, running = m.rel, UNCHANGED <<running, data>>
  PROVE  [Switch!SwitchNext]_(Switch!switchVars)
  BY DEF IInv, TypeOK, CommitRelease, Releases, Switch!SwitchNext, Switch!Accept, Switch!switchVars

LEMMA DataReverts ==
  ASSUME IInv, RestoreCheckpoint \/ CheckpointRestored
  PROVE  [Switch!SwitchNext]_(Switch!switchVars)
<1>1. running = NoRelease /\ UNCHANGED <<running, policy>>
  BY DEF IInv, TypeOK, BootInv, RecoverInv, Undoing, RestoreCheckpoint, CheckpointRestored, Recovering
<1>2. data'.schema \in Releases \cup {NoRelease}
  BY DEF IInv, TypeOK, ReleaseOrNone, RestoreCheckpoint, CheckpointRestored, Mixed
<1> QED
  BY <1>1, <1>2 DEF Switch!SwitchNext, Switch!RevertData, Switch!switchVars

LEMMA StepsImplement ==
  ASSUME IInv, [Next]_vars
  PROVE  [Switch!SwitchNext]_(Switch!switchVars)
<1> USE DEF Switch!switchVars
<1>1. CASE UpdateStep
  <2>1. CASE StopServices
    BY <2>1 DEF StopServices, Switch!SwitchNext, Switch!Stop
  <2>2. CASE ResumeRestored
    <3>1. live \in Releases /\ policy <= live /\ data.schema \in 0..live
      BY <2>2 DEF ResumeRestored, Worker, IInv, TypeOK, UpdateInv, DataInv, ActivateInv,
                  Activating, ActivateSteps, InUpdate, DataAtStake, Releases
    <3> QED
      BY <2>2, <3>1, StartsAreAllowed DEF ResumeRestored
  <2>3. CASE AcceptRelease
    BY <2>3, AcceptsAreAllowed DEF AcceptRelease, Worker, IInv, ActivateInv
  <2> QED
    BY <1>1, <2>1, <2>2, <2>3
       DEF UpdateStep, TakeCheckpoint, ProtectUpdate, PrepareFiles, ApplyFiles, FilesApplied,
           MarkDataMayHaveChanged, CommitFiles, Complete
<1>2. CASE RecoveryStep
  <2>1. CASE RecoverStop
    BY <2>1 DEF RecoverStop, Switch!SwitchNext, Switch!Stop
  <2>2. CASE RecoverResume
    <3>1. live \in Releases /\ policy <= live /\ data.schema \in 0..live
      BY <2>2 DEF RecoverResume, InRecovery, IInv, TypeOK, UpdateInv, DataInv, RecoverInv,
                  Undoing, InUpdate, Terminal, DataAtStake, Releases
    <3> QED
      BY <2>2, <3>1, StartsAreAllowed DEF RecoverResume
  <2>3. CASE RecoverAccept
    BY <2>3, AcceptsAreAllowed DEF RecoverAccept, InRecovery, IInv, RecoverInv
  <2>4. CASE RestoreCheckpoint \/ CheckpointRestored
    BY <2>4, DataReverts
  <2> QED
    BY <1>2, <2>1, <2>2, <2>3, <2>4
       DEF RecoveryStep, BeginRecovery, KeepFiles, RollBackFiles, FilesRolledBack, KeepData,
           MarkDataRolledBack, FilesRecovered, Recovered, ReleaseCheckpoint
<1>3. CASE SelectionStep
  BY <1>3 DEF SelectionStep, SelectCandidate, SelectRefused, ReconcileUpdate
<1>4. CASE BootStep
  <2>1. CASE StartWriters
    <3>1. live \in Releases /\ policy <= live /\ data.schema \in 0..live
      BY <2>1 DEF StartWriters, IInv, TypeOK, SettledInv, UpdateInv, DataInv, RecoverInv,
                  InUpdate, DataAtStake, Releases
    <3> QED
      BY <2>1, <3>1, StartsAreAllowed DEF StartWriters
  <2> QED
    BY <1>4, <2>1 DEF BootStep, EarlyBoot, FinalRecovery, FinalRefused, durable
<1>5. CASE PowerLoss \/ Reboot
  BY <1>5 DEF PowerLoss, Reboot, PowerOff, durable, Switch!SwitchNext, Switch!Stop
<1>6. CASE UserWrite
  BY <1>6 DEF UserWrite, IInv, TypeOK
<1>7. CASE UNCHANGED vars
  BY <1>7 DEF vars
<1> QED
  BY <1>1, <1>2, <1>3, <1>4, <1>5, <1>6, <1>7
     DEF Next, AdmitUpdate, BeginUpdate, StopPreparing, ReadJob, OtherMaintenance, Raise, RecoveryRaises, KillWorker, durable

(* The update, with its recoveries and boots, implements ReleaseSwitch.      *)
THEOREM SpecImplementsReleaseSwitch == Spec => ImplementsReleaseSwitch
<1>1. Init => Switch!SwitchInit
  BY DEF Init, Switch!SwitchInit
<1>2. IInv /\ [Next]_vars => [Switch!SwitchNext]_(Switch!switchVars)
  BY StepsImplement
<1> QED
  BY <1>1, <1>2, Invariance, PTL DEF Spec, ImplementsReleaseSwitch, Switch!SwitchSpec

===============================================================================
