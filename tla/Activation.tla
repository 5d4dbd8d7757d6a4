------------------------------ MODULE Activation ------------------------------
(***************************************************************************)
(* The release update: appliance/lib/release_activation.py with the host   *)
(* adapters it is given (release_checkpoints.py, release_policy.py,        *)
(* release_services.py), the worker that calls it (update_job.py), early   *)
(* and final boot recovery (release_recovery.py, started by the units in   *)
(* provisioning/update) and the selection of the candidate bootstrap       *)
(* (release_bootstrap.commit_candidate).                                   *)
(*                                                                         *)
(* One process at a time holds the admission and maintenance locks: the    *)
(* update worker, early recovery ("files") or final recovery ("finish").   *)
(* pc is where it is; the code tree and the user data are replaced by      *)
(* RestoreTransactions, here in the granularity of AtomicSwitch: a tree    *)
(* that is being switched holds no single release.                         *)
(***************************************************************************)
EXTENDS Integers, FiniteSets

CONSTANTS
  MaxRelease,   \* releases 1..MaxRelease can be installed over release 0
  MaxUpdates,   \* bound on the number of activations
  MaxFaults,    \* bound on power losses, worker kills and failing steps
  MaxWrites,    \* bound on the writes of users that must be preserved
  Concurrent    \* whether other jobs and maintenance take their locks between

ASSUME BoundsAssumption ==
  /\ MaxRelease \in Nat
  /\ MaxUpdates \in Nat
  /\ MaxFaults \in Nat
  /\ MaxWrites \in Nat
  /\ Concurrent \in BOOLEAN

Releases == 0..MaxRelease
NoRelease == -1

VARIABLES
  \* durable
  m,          \* maintenance.json
  tx,         \* state of update-<id>.json, the journal of the code switch
  base,       \* the release the retained previous trees hold
  live,       \* the release in the live runtime tree
  dtx,        \* update-data-<id>.json: "none", "open" or "committed"
  data,       \* user data: newest writer and the settled writes it contains
  snap,       \* the data in the checkpoint of operation m.id
  pins,       \* operations whose checkpoint is pinned
  policy,     \* release-policy.json: the highest accepted sequence
  selector,   \* the release whose bootstrap generation is selected
  job,        \* state of the update job's record
  \* volatile
  running,    \* the release whose services run, NoRelease when stopped
  boot,       \* how far the machine is up
  pc,         \* where the process holding the locks is
  asked,      \* the newest job: the operation it is to begin, and whether its
              \* worker still prepares the release
  \* bookkeeping
  settled,    \* writes users made under a release that was not on trial
  faults      \* faults so far

durable == <<m, tx, base, live, dtx, data, snap, pins, policy, selector, job>>
vars == <<m, tx, base, live, dtx, data, snap, pins, policy, selector, job,
          running, boot, pc, asked, settled, faults>>

Idle == <<"nobody", "idle">>

Terminal == {"none", "completed", "failed", "recovered", "rolled-back"}
Finished == m.state \in {"completed", "rolled-back"}

Init ==
  /\ m = [operation |-> "none", state |-> "none", id |-> 0, rel |-> 0,
          dataMayHaveChanged |-> FALSE, dataRolledBack |-> FALSE]
  /\ tx = "none"
  /\ base = 0
  /\ live = 0
  /\ dtx = "none"
  /\ data = [schema |-> 0, writes |-> 0]
  /\ snap = data
  /\ pins = {}
  /\ policy = 0
  /\ selector = 0
  /\ job = "none"
  /\ running = 0
  /\ boot = "up"
  /\ pc = Idle
  /\ asked = [id |-> 0, preparing |-> FALSE]
  /\ settled = 0
  /\ faults = 0

Mixed == [schema |-> NoRelease, writes |-> 0]

Worker(step) == pc = <<"worker", step>>
Goto(step) == pc' = <<pc[1], step>>

(* Services of release r come up and may migrate the data. *)
StartServices(r) ==
  /\ running' = r
  /\ data' \in {data, [data EXCEPT !.schema = r]}

-------------------------------------------------------------------------------
(* run_update and Activation.activate *)

(* An update is confirmed and its worker prepares the release: it verifies, *)
(* downloads and stages it, for the most part without the maintenance lock. *)
(* (Over an unfinished record it would give up at once.)                    *)
AdmitUpdate ==
  /\ boot \in {"up", "degraded"} \cup (IF Concurrent THEN {"started"} ELSE {})
  /\ pc[1] # "worker" /\ ~asked.preparing
  /\ m.state \in Terminal
  /\ policy < MaxRelease
  /\ m.id < MaxUpdates
  /\ asked' = [id |-> m.id + 1, preparing |-> TRUE]
  /\ job' = "running"
  /\ UNCHANGED <<m, tx, base, live, dtx, data, snap, pins, policy, selector,
                 running, boot, pc, settled, faults>>

BeginUpdate(r) ==
  /\ asked.preparing
  /\ pc = Idle
  /\ m.state \in Terminal
  /\ r > policy
  /\ running # NoRelease
  /\ m' = [operation |-> "update", state |-> "stopping", id |-> m.id + 1, rel |-> r,
           dataMayHaveChanged |-> FALSE, dataRolledBack |-> FALSE]
  /\ tx' = "none"
  /\ dtx' = "none"
  /\ asked' = [asked EXCEPT !.preparing = FALSE]
  /\ pc' = <<"worker", "stop">>
  /\ UNCHANGED <<base, live, data, snap, pins, policy, selector, job, running,
                 boot, settled, faults>>

StopServices ==
  /\ Worker("stop")
  /\ running' = NoRelease
  /\ m' = [m EXCEPT !.state = "checkpointing"]
  /\ Goto("checkpoint")
  /\ UNCHANGED <<tx, base, live, dtx, data, snap, pins, policy, selector, job,
                 boot, asked, settled, faults>>

(* The pin is durable before the operation's record names the checkpoint. *)
TakeCheckpoint ==
  /\ Worker("checkpoint")
  /\ snap' = data
  /\ pins' = pins \cup {m.id}
  /\ Goto("protect")
  /\ UNCHANGED <<m, tx, base, live, dtx, data, policy, selector, job, running,
                 boot, asked, settled, faults>>

(* before_switch may refuse the update (Raise); else the switch is prepared. *)
ProtectUpdate ==
  /\ Worker("protect")
  /\ m' = [m EXCEPT !.state = "preparing-update"]
  /\ tx' = "preparing"
  /\ base' = live
  /\ Goto("prepare")
  /\ UNCHANGED <<live, dtx, data, snap, pins, policy, selector, job, running,
                 boot, asked, settled, faults>>

PrepareFiles ==
  /\ Worker("prepare")
  /\ tx' = "ready"
  /\ m' = [m EXCEPT !.state = "installing-update"]
  /\ Goto("apply")
  /\ UNCHANGED <<base, live, dtx, data, snap, pins, policy, selector, job,
                 running, boot, asked, settled, faults>>

ApplyFiles ==
  /\ Worker("apply")
  /\ tx = "ready"
  /\ tx' = "installing"
  /\ live' = NoRelease
  /\ Goto("applied")
  /\ UNCHANGED <<m, base, dtx, data, snap, pins, policy, selector, job, running,
                 boot, asked, settled, faults>>

FilesApplied ==
  /\ Worker("applied")
  /\ live' = m.rel
  /\ tx' = "installed"
  /\ Goto("verify")
  /\ UNCHANGED <<m, base, dtx, data, snap, pins, policy, selector, job, running,
                 boot, asked, settled, faults>>

(* refresh, validate, and the durable warning that data may change. *)
MarkDataMayHaveChanged ==
  /\ Worker("verify")
  /\ m' = [m EXCEPT !.dataMayHaveChanged = TRUE, !.state = "verifying-update"]
  /\ Goto("start")
  /\ UNCHANGED <<tx, base, live, dtx, data, snap, pins, policy, selector, job,
                 running, boot, asked, settled, faults>>

ResumeRestored ==
  /\ Worker("start")
  /\ StartServices(live)
  /\ Goto("commit")
  /\ UNCHANGED <<m, tx, base, live, dtx, snap, pins, policy, selector, job,
                 boot, asked, settled, faults>>

(* Mutant: an update completes without its release being accepted. *)
CommitWithoutAccept ==
  /\ Worker("commit")
  /\ tx = "installed"
  /\ tx' = "committed"
  /\ Goto("complete")
  /\ UNCHANGED <<m, base, live, dtx, data, snap, pins, policy, selector, job,
                 running, boot, asked, settled, faults>>

CommitFiles ==
  /\ Worker("commit")
  /\ tx = "installed"
  /\ tx' = "committed"
  /\ Goto("accept")
  /\ UNCHANGED <<m, base, live, dtx, data, snap, pins, policy, selector, job,
                 running, boot, asked, settled, faults>>

(* ReleasePolicy.commit: a lower sequence is refused, an equal one is kept. *)
CommitRelease ==
  /\ m.rel >= policy
  /\ policy' = m.rel

AcceptRelease ==
  /\ Worker("accept")
  /\ CommitRelease
  /\ Goto("complete")
  /\ UNCHANGED <<m, tx, base, live, dtx, data, snap, pins, selector, job,
                 running, boot, asked, settled, faults>>

Complete ==
  /\ Worker("complete")
  /\ m' = [m EXCEPT !.state = "completed"]
  /\ Goto("release")
  /\ UNCHANGED <<tx, base, live, dtx, data, snap, pins, policy, selector, job,
                 running, boot, asked, settled, faults>>

-------------------------------------------------------------------------------
(* recover_locked and recover_files.  The process that recovers is the      *)
(* worker after an exception, early boot or final boot.                     *)

InRecovery(step) == pc[1] \in {"worker", "finish"} /\ pc[2] = step
Recovering(step) == pc[1] \in {"worker", "finish", "early"} /\ pc[2] = step

(* A terminal record only has its checkpoint released. *)
BeginRecovery ==
  /\ Recovering("recover")
  /\ IF Finished
       THEN Goto(IF pc[1] = "early" THEN "end" ELSE "release") /\ UNCHANGED m
       ELSE /\ m' = [m EXCEPT !.state = "recovery-required"]
            /\ Goto(IF pc[1] = "early" THEN "restore-files" ELSE "recover-stop")
  /\ UNCHANGED <<tx, base, live, dtx, data, snap, pins, policy, selector, job,
                 running, boot, asked, settled, faults>>

(* Mutant: a runtime that never reported healthy is taken for stopped. *)
RecoverWithoutStop ==
  /\ InRecovery("recover-stop")
  /\ running' = IF m.dataMayHaveChanged THEN running ELSE NoRelease
  /\ Goto("restore-files")
  /\ UNCHANGED <<m, tx, base, live, dtx, data, snap, pins, policy, selector, job,
                 boot, asked, settled, faults>>

RecoverStop ==
  /\ InRecovery("recover-stop")
  /\ running' = NoRelease
  /\ Goto("restore-files")
  /\ UNCHANGED <<m, tx, base, live, dtx, data, snap, pins, policy, selector, job,
                 boot, asked, settled, faults>>

(* Nothing prepared, already rolled back, or committed: no tree moves. *)
KeepFiles ==
  /\ Recovering("restore-files")
  /\ tx \in {"none", "rolled-back", "committed"}
  /\ Goto(IF tx = "committed" THEN "refresh" ELSE "restore-data")
  /\ UNCHANGED <<m, tx, base, live, dtx, data, snap, pins, policy, selector, job,
                 running, boot, asked, settled, faults>>

(* Mutant: a committed switch is rolled back as well. *)
RollBackCommitted ==
  /\ Recovering("restore-files")
  /\ tx \notin {"none", "rolled-back"}
  /\ tx' = "rolling-back"
  /\ live' = IF live = base THEN live ELSE NoRelease
  /\ Goto("rolling-back")
  /\ UNCHANGED <<m, base, dtx, data, snap, pins, policy, selector, job, running,
                 boot, asked, settled, faults>>

RollBackFiles ==
  /\ Recovering("restore-files")
  /\ tx \notin {"none", "rolled-back", "committed"}
  /\ tx' = "rolling-back"
  /\ live' = IF live = base THEN live ELSE NoRelease
  /\ Goto("rolling-back")
  /\ UNCHANGED <<m, base, dtx, data, snap, pins, policy, selector, job, running,
                 boot, asked, settled, faults>>

FilesRolledBack ==
  /\ Recovering("rolling-back")
  /\ live' = base
  /\ tx' = "rolled-back"
  /\ Goto("restore-data")
  /\ UNCHANGED <<m, base, dtx, data, snap, pins, policy, selector, job, running,
                 boot, asked, settled, faults>>

DataMustRollBack == m.dataMayHaveChanged /\ ~m.dataRolledBack

KeepData ==
  /\ Recovering("restore-data")
  /\ ~DataMustRollBack
  /\ Goto("refresh")
  /\ UNCHANGED <<m, tx, base, live, dtx, data, snap, pins, policy, selector, job,
                 running, boot, asked, settled, faults>>

(* UpdateCheckpoints.restore: it re-pins the checkpoint, wants the previous *)
(* runtime back in place, and keeps data that its own journal committed.    *)
RestoreCheckpoint ==
  /\ Recovering("restore-data")
  /\ DataMustRollBack
  /\ m.id \in pins
  /\ live = base
  /\ pins' = pins \cup {m.id}
  /\ IF dtx = "committed"
       THEN Goto("data-restored") /\ UNCHANGED <<dtx, data>>
       ELSE dtx' = "open" /\ data' = Mixed /\ Goto("restoring-data")
  /\ UNCHANGED <<m, tx, base, live, snap, policy, selector, job, running, boot,
                 asked, settled, faults>>

CheckpointRestored ==
  /\ Recovering("restoring-data")
  /\ data' = snap
  /\ dtx' = "committed"
  /\ Goto("data-restored")
  /\ UNCHANGED <<m, tx, base, live, snap, pins, policy, selector, job, running,
                 boot, asked, settled, faults>>

MarkDataRolledBack ==
  /\ Recovering("data-restored")
  /\ m' = [m EXCEPT !.dataRolledBack = TRUE, !.state = "recovery-required"]
  /\ Goto("refresh")
  /\ UNCHANGED <<tx, base, live, dtx, data, snap, pins, policy, selector, job,
                 running, boot, asked, settled, faults>>

(* Early recovery starts nothing; the services follow in the boot order. *)
FilesRecovered ==
  /\ pc = <<"early", "refresh">>
  /\ m' = [m EXCEPT !.state = "files-recovered"]
  /\ Goto("end")
  /\ UNCHANGED <<tx, base, live, dtx, data, snap, pins, policy, selector, job,
                 running, boot, asked, settled, faults>>

(* Mutant: recovery accepts the release whatever it recovered to. *)
RecoverAlwaysAccepts ==
  /\ InRecovery("refresh")
  /\ StartServices(live)
  /\ Goto("recover-accept")
  /\ UNCHANGED <<m, tx, base, live, dtx, snap, pins, policy, selector, job,
                 boot, asked, settled, faults>>

RecoverResume ==
  /\ InRecovery("refresh")
  /\ StartServices(live)
  /\ Goto(IF tx = "committed" THEN "recover-accept" ELSE "recovered")
  /\ UNCHANGED <<m, tx, base, live, dtx, snap, pins, policy, selector, job,
                 boot, asked, settled, faults>>

RecoverAccept ==
  /\ InRecovery("recover-accept")
  /\ CommitRelease
  /\ Goto("recovered")
  /\ UNCHANGED <<m, tx, base, live, dtx, data, snap, pins, selector, job,
                 running, boot, asked, settled, faults>>

Recovered ==
  /\ InRecovery("recovered")
  /\ m' = [m EXCEPT !.state = IF tx = "committed" THEN "completed" ELSE "rolled-back"]
  /\ Goto(IF pc[1] = "worker" THEN "release-failed" ELSE "release")
  /\ UNCHANGED <<tx, base, live, dtx, data, snap, pins, policy, selector, job,
                 running, boot, asked, settled, faults>>

(* release_checkpoint, and with it the end of the locked section.  The      *)
(* worker's exception goes on to fail its job; a completed update goes on   *)
(* to the bootstrap selection (for the worker a stage of its job), a        *)
(* rolled-back one to the job's outcome.                                    *)
ReleaseCheckpoint ==
  /\ pc[2] \in {"release", "release-failed"}
  /\ Finished
  /\ pins' = pins \ {m.id}
  /\ IF pc[2] = "release-failed"
       THEN job' = "failed" /\ pc' = Idle
       ELSE /\ Goto(IF m.state = "completed" THEN "select" ELSE "reconcile")
            /\ job' = IF pc[1] = "worker" THEN "committing" ELSE job
  /\ UNCHANGED <<m, tx, base, live, dtx, data, snap, policy, selector, running,
                 boot, asked, settled, faults>>

-------------------------------------------------------------------------------
(* After the locks are released *)

(* What is made of the newest job when its worker is gone: its stage and    *)
(* the maintenance record tell an update that reached its activation from   *)
(* one that did not.                                                        *)
Began == asked.id = m.id
Abandoned == job \in {"running", "committing"} /\ pc[1] # "worker" /\ ~asked.preparing
Classified ==
  IF job = "running" /\ ~(m.operation = "update" /\ Began)
    THEN "failed-before-activation" ELSE "interrupted"

(* commit_candidate takes both locks again.  Its generation is the one the  *)
(* caller's record names, whatever record is the current one by now.  For a *)
(* boot, admission reads the job, and a live one refuses it.                *)
SelectCandidate ==
  /\ pc[2] = "select"
  /\ m.state \in Terminal
  /\ ~asked.preparing
  /\ selector' = m.rel
  /\ IF pc[1] = "worker"
       THEN job' = "completed" /\ pc' = Idle
       ELSE Goto("reconcile") /\ job' = IF Abandoned THEN Classified ELSE job
  /\ UNCHANGED <<m, tx, base, live, dtx, data, snap, pins, policy, running, boot,
                 asked, settled, faults>>

(* Both locks are tried without waiting: an admission or a maintenance      *)
(* operation in progress refuses the selection.                             *)
SelectRefused ==
  /\ Concurrent
  /\ pc[2] = "select"
  /\ pc' = Idle
  /\ IF pc[1] = "worker"
       THEN job' = "failed" /\ UNCHANGED boot
       ELSE boot' = "degraded" /\ UNCHANGED job
  /\ UNCHANGED <<m, tx, base, live, dtx, data, snap, pins, policy, selector,
                 running, asked, settled, faults>>

(* JobStore.reconcile_update, under the maintenance lock and only while the *)
(* record is still the recovered operation's.  A reader of the job that     *)
(* holds its lock makes it give up; a newer job is not touched.             *)
ReconcileUpdate ==
  /\ pc = <<"finish", "reconcile">>
  /\ \/ m.operation = "update" /\ Began /\ job # "completed" /\ job' = m.state
     \/ (Concurrent \/ m.operation # "update" \/ ~Began \/ job = "completed") /\ UNCHANGED job
  /\ pc' = Idle
  /\ boot' = "up"
  /\ UNCHANGED <<m, tx, base, live, dtx, data, snap, pins, policy, selector,
                 running, asked, settled, faults>>

(* Mutant: the outcome is taken from the stage of the job alone.            *)
ReadJobByStage ==
  /\ Concurrent /\ Abandoned
  /\ job' = IF job = "running" THEN "failed-before-activation" ELSE "interrupted"
  /\ UNCHANGED <<m, tx, base, live, dtx, data, snap, pins, policy, selector,
                 running, boot, pc, asked, settled, faults>>

(* JobStore.read, by any reader of the job.                                 *)
ReadJob ==
  /\ Concurrent /\ Abandoned
  /\ job' = Classified
  /\ UNCHANGED <<m, tx, base, live, dtx, data, snap, pins, policy, selector,
                 running, boot, pc, asked, settled, faults>>

(* Another coordinator's complete window, external to this module. *)
OtherMaintenance ==
  /\ Concurrent
  /\ boot \in {"up", "degraded", "started"}
  /\ pc[2] \in {"idle", "select", "reconcile"}
  /\ m.state \in Terminal
  /\ m' = [m EXCEPT !.operation = "other", !.state = "completed"]
  /\ UNCHANGED <<tx, base, live, dtx, data, snap, pins, policy, selector, job,
                 running, boot, pc, asked, settled, faults>>

-------------------------------------------------------------------------------
(* Boot, users and faults *)

(* elderbrain-update-recovery.service, before every writer service *)
EarlyBoot ==
  /\ boot = "off"
  /\ boot' = "early"
  /\ pc' = <<"early", IF m.operation = "update" THEN "recover" ELSE "end">>
  /\ UNCHANGED <<durable, running, asked, settled, faults>>

(* Requires= and After= of the writer units: only after early success. *)
StartWriters ==
  /\ pc = <<"early", "end">>
  /\ StartServices(live)
  /\ boot' = "started"
  /\ pc' = Idle
  /\ UNCHANGED <<m, tx, base, live, dtx, snap, pins, policy, selector, job,
                 asked, settled, faults>>

(* Mutant: final recovery takes recovered files for a finished recovery. *)
FinalRecoveryTrustsFiles ==
  /\ boot = "started"
  /\ pc = Idle
  /\ IF m.operation = "update" /\ m.state # "files-recovered"
       THEN pc' = <<"finish", "recover">> /\ UNCHANGED boot
       ELSE boot' = "up" /\ UNCHANGED pc
  /\ UNCHANGED <<durable, running, asked, settled, faults>>

(* elderbrain-update-finish.service: a record of another operation needs no *)
(* update recovery.                                                         *)
FinalRecovery ==
  /\ boot = "started"
  /\ pc = Idle
  /\ IF m.operation = "update"
       THEN pc' = <<"finish", "recover">> /\ UNCHANGED boot
       ELSE boot' = "up" /\ UNCHANGED pc
  /\ UNCHANGED <<durable, running, asked, settled, faults>>

(* It tries the locks without waiting, while a new job already runs. *)
FinalRefused ==
  /\ boot = "started"
  /\ pc[1] = "worker" \/ (pc = Idle /\ asked.preparing)
  /\ boot' = "degraded"
  /\ UNCHANGED <<durable, running, pc, asked, settled, faults>>

(* Users change data under a release that is not on trial. *)
UserWrite ==
  /\ running # NoRelease
  /\ running <= policy
  /\ settled < MaxWrites
  /\ settled' = settled + 1
  /\ data' = [data EXCEPT !.writes = @ + 1]
  /\ UNCHANGED <<m, tx, base, live, dtx, snap, pins, policy, selector, job,
                 running, boot, pc, asked, faults>>

ActivateSteps == {"stop", "checkpoint", "protect", "prepare", "apply", "applied",
                  "verify", "start", "commit", "accept", "complete", "release"}

Fault == faults < MaxFaults /\ faults' = faults + 1

(* A step of activate raises: the handler marks the record and recovers. *)
Raise ==
  /\ Fault
  /\ pc[1] = "worker"
  /\ pc[2] \in ActivateSteps
  /\ m' = [m EXCEPT !.state = "recovery-required"]
  /\ Goto("recover")
  /\ UNCHANGED <<tx, base, live, dtx, data, snap, pins, policy, selector, job,
                 running, boot, asked, settled>>

(* A step of a recovery or of the selection raises; nothing handles it. *)
RecoveryRaises ==
  /\ Fault
  /\ pc # Idle
  /\ pc[1] = "worker" => pc[2] \notin ActivateSteps
  /\ pc' = Idle
  /\ job' = IF pc[1] = "worker" THEN "failed" ELSE job
  /\ boot' = CASE pc[1] = "early" -> "blocked"
               [] pc[1] = "finish" -> "degraded"
               [] OTHER -> boot
  /\ UNCHANGED <<m, tx, base, live, dtx, data, snap, pins, policy, selector,
                 running, asked, settled>>

(* The preparation fails, or its worker is killed and leaves the job as it is. *)
StopPreparing ==
  /\ Fault
  /\ asked.preparing
  /\ asked' = [asked EXCEPT !.preparing = FALSE]
  /\ job' \in {"failed", job}
  /\ UNCHANGED <<m, tx, base, live, dtx, data, snap, pins, policy, selector,
                 running, boot, pc, settled>>

KillWorker ==
  /\ Fault
  /\ pc[1] = "worker"
  /\ pc' = Idle
  /\ UNCHANGED <<durable, running, boot, asked, settled>>

PowerOff ==
  /\ boot' = "off"
  /\ running' = NoRelease
  /\ pc' = Idle
  /\ asked' = [asked EXCEPT !.preparing = FALSE]
  /\ UNCHANGED <<durable, settled>>

PowerLoss == Fault /\ boot # "off" /\ PowerOff

(* The operator restarts an appliance on which nothing is in progress. *)
Reboot ==
  /\ boot \in {"up", "degraded", "blocked"}
  /\ pc = Idle /\ ~asked.preparing
  /\ PowerOff
  /\ UNCHANGED faults

UpdateStep ==
  \/ StopServices \/ TakeCheckpoint \/ ProtectUpdate \/ PrepareFiles
  \/ ApplyFiles \/ FilesApplied \/ MarkDataMayHaveChanged \/ ResumeRestored
  \/ CommitFiles \/ AcceptRelease \/ Complete

RecoveryStep ==
  \/ BeginRecovery \/ RecoverStop \/ KeepFiles \/ RollBackFiles
  \/ FilesRolledBack \/ KeepData \/ RestoreCheckpoint \/ CheckpointRestored
  \/ MarkDataRolledBack \/ FilesRecovered \/ RecoverResume \/ RecoverAccept
  \/ Recovered \/ ReleaseCheckpoint

SelectionStep == SelectCandidate \/ SelectRefused \/ ReconcileUpdate

BootStep == EarlyBoot \/ StartWriters \/ FinalRecovery \/ FinalRefused

Next ==
  \/ AdmitUpdate
  \/ \E r \in Releases : BeginUpdate(r)
  \/ UpdateStep \/ RecoveryStep \/ SelectionStep \/ BootStep
  \/ ReadJob \/ OtherMaintenance \/ UserWrite
  \/ Raise \/ RecoveryRaises \/ StopPreparing \/ KillWorker \/ PowerLoss \/ Reboot

Spec == Init /\ [][Next]_vars

Unfinished == m.operation = "update" /\ m.state \notin Terminal

(* Processes run on, systemd starts the units of a boot, and somebody       *)
(* restarts an appliance that is left with an unfinished update.            *)
FairSpec ==
  /\ Spec
  /\ WF_vars(UpdateStep \/ RecoveryStep \/ SelectionStep)
  /\ WF_vars(BootStep)
  /\ WF_vars(Reboot /\ Unfinished)
-------------------------------------------------------------------------------
(* Properties *)

ReleaseOrNone == Releases \cup {NoRelease}
UpdateStates == {"stopping", "checkpointing", "preparing-update", "installing-update",
                 "verifying-update", "recovery-required", "files-recovered"}

(* Type invariant. *)
TypeOK ==
  /\ m \in [operation : {"none", "update", "other"}, state : Terminal \cup UpdateStates,
            id : 0..MaxUpdates, rel : Releases,
            dataMayHaveChanged : BOOLEAN, dataRolledBack : BOOLEAN]
  /\ tx \in {"none", "preparing", "ready", "installing", "installed", "committed",
             "rolling-back", "rolled-back"}
  /\ base \in Releases
  /\ live \in ReleaseOrNone
  /\ dtx \in {"none", "open", "committed"}
  /\ data \in [schema : ReleaseOrNone, writes : 0..MaxWrites]
  /\ snap \in [schema : Releases, writes : 0..MaxWrites]
  /\ pins \subseteq 1..MaxUpdates
  /\ policy \in Releases
  /\ selector \in Releases
  /\ job \in {"none", "running", "committing", "completed", "failed", "rolled-back",
             "interrupted", "failed-before-activation"}
  /\ running \in ReleaseOrNone
  /\ boot \in {"off", "early", "blocked", "started", "up", "degraded"}
  /\ pc \in {"nobody", "worker", "early", "finish"} \X
            (ActivateSteps \cup {"idle", "recover", "recover-stop", "restore-files",
             "rolling-back", "restore-data", "restoring-data", "data-restored",
             "refresh", "recover-accept", "recovered", "release-failed", "end",
             "select", "reconcile"})
  /\ asked \in [id : 0..MaxUpdates, preparing : BOOLEAN]
  /\ settled \in 0..MaxWrites
  /\ faults \in 0..MaxFaults

(* Whatever fails and whenever the power goes, services only ever run from  *)
(* a runtime tree that holds one release, over data that is not half        *)
(* restored (stop before rollback, writers after early recovery).           *)
WritersOnWholeRuntime ==
  running # NoRelease => running = live /\ data.schema # NoRelease

(* Nothing users wrote under an accepted release is lost: the checkpoint is *)
(* taken with the writers stopped, put back at most once, and never over    *)
(* what the old release wrote after it was restarted (dataRolledBack).      *)
NoSettledWriteLost == data # Mixed => data.writes = settled

(* The record's outcome, the accepted sequence and the runtime agree: the   *)
(* policy never advances for an update that rolls back, and an update is    *)
(* not completed before its release is accepted.                            *)
OutcomeMatchesPolicy ==
  m.operation = "update" =>
    /\ m.state = "completed" => policy = m.rel /\ live = m.rel
    /\ m.state = "rolled-back" => policy < m.rel /\ live < m.rel /\ data.schema < m.rel

(* As long as the new release may have touched the data and the outcome is  *)
(* open, the pinned checkpoint holds data the retained release can read.    *)
RollbackSourceRetained ==
  /\ Unfinished /\ m.dataMayHaveChanged /\ ~m.dataRolledBack /\ tx # "committed"
  => m.id \in pins /\ snap.schema <= base

(* The update is a release switch (ReleaseSwitch): what runs, what data it  *)
(* runs over and what is accepted change only as that specification allows. *)
Switch == INSTANCE ReleaseSwitch WITH schema <- data.schema, accepted <- policy
ImplementsReleaseSwitch == Switch!SwitchSpec

(* A boot whose final recovery ends well on a completed update's record has *)
(* selected that update's bootstrap generation.                             *)
FinishSelects ==
  [][boot = "started" /\ boot' = "up" /\ m'.operation = "update" /\ m'.state = "completed"
     => selector' = m'.rel]_vars

(* RELEASE-FORMAT.md: final boot recovery closes the crash window between   *)
(* the activation's commit and the selector write, so that a boot that ends *)
(* well leaves the accepted release's bootstrap selected.                   *)
CrashWindowClosed ==
  [][boot = "started" /\ boot' = "up" => selector' = policy']_vars

(* What the newest job says of how its update ended is so: completed or     *)
(* rolled back is the outcome of its own operation, and stopped before      *)
(* activation is said only of an update that never began -- or of one whose *)
(* record other maintenance has since replaced, although its message says   *)
(* that the installed release was not changed (host_jobs.py:24-25).         *)
JobOutcomeTruthful ==
  /\ job = "completed" => Began /\ policy = m.rel
  /\ job = "rolled-back" => Began /\ policy < m.rel
  /\ job = "failed-before-activation" => ~Began \/ m.operation = "other"

(* Every started update is decided: activated and accepted, or rolled back. *)
EventuallyDecided == Unfinished ~> m.state \in Terminal

(* Record, policy, runtime and job agree on how an update ended, and what   *)
(* an undecided one would go back to is kept.                               *)
UpdateSound == TypeOK /\ OutcomeMatchesPolicy /\ RollbackSourceRetained /\ JobOutcomeTruthful

(* An update comes to its end, its bootstrap included.                      *)
UpdateSettles == FinishSelects /\ EventuallyDecided
===============================================================================
