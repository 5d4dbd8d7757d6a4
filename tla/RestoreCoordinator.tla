--------------------------- MODULE RestoreCoordinator ---------------------------
(***************************************************************************)
(* appliance/lib/restore_service.py: one restore of a backup or checkpoint *)
(* over the appliance, from the running services to the decided journal,   *)
(* with its recovery by `elderbrain restore-recover`.  The trees are those *)
(* of RestoreTransaction, rename by rename; HostServices                   *)
(* (backup_service.py) stops and starts what the maintenance record saved. *)
(*                                                                         *)
(* Nothing recovers a restore at boot: after an interruption and a restart *)
(* the services are started over whatever the trees are, and               *)
(* provisioning/prepare-admin creates directories it misses.  The command  *)
(* line and the management service start services under no lock meanwhile. *)
(* "setup" stands for Traefik too, "foundry" for the Mindflayer server too. *)
(***************************************************************************)
EXTENDS RestoreTransaction

CONSTANT Unlocked    \* the services that are started here under no lock

Compose  == {"setup", "foundry"}
Services == {"graphics"} \cup Compose

VARIABLES
  state,     \* the state of maintenance.json, "none" before the restore
  saved,     \* the services the record says were running
  running,   \* the services that run
  asked,     \* a restart of the graphics waits for what it needs
  late,      \* history: the containers that were started under no lock
  up,        \* whether the machine is up
  at,        \* who holds the maintenance lock, and its next step
  pinned,    \* whether the checkpoint before the restore is pinned
  archived   \* whether the rollback archive exists

host == <<state, saved, running, asked, late, up, at, pinned, archived>>
coordinated == <<transaction, host>>
restoreVars == <<coordinated, faults>>

Nobody == <<"nobody", "idle">>
Restore(step) == at = <<"restore", step>>
Recover(step) == at = <<"recover", step>>
Step(step) == at # Nobody /\ at[2] = step
Goto(step) == at' = <<at[1], step>>

Decided == {"completed", "rolled-back"}

\* The graphics wait until the administration answers (wait-ready).
Started == {started \in SUBSET Services : "graphics" \in started => "setup" \in started}

RestoreInit ==
  /\ Init
  /\ state = "none"
  /\ running \in Started
  /\ saved = running
  /\ asked = FALSE
  /\ late = {}
  /\ up = TRUE
  /\ at = Nobody
  /\ pinned = FALSE
  /\ archived = FALSE

-------------------------------------------------------------------------------
(* HostServices.stop and resume_restored: the containers are found by their *)
(* project, and left alone when none of them is in the record; what was not *)
(* running when it was written is not started.                              *)

StopGraphics ==
  /\ Step("stop-graphics")
  /\ running' = running \ (saved \cap {"graphics"})
  /\ asked' = (asked /\ "graphics" \notin saved)
  /\ Goto("stop-compose")
  /\ UNCHANGED <<transaction, state, saved, late, up, pinned, archived>>

StopContainers ==
  /\ running' = IF saved \cap Compose = {} THEN running ELSE running \ Compose
  /\ late' = late \cap running'

(* Mutant: recovery leaves the containers of a failed start running. *)
StopComposeOnce ==
  /\ Step("stop-compose")
  /\ IF at[1] = "restore" THEN StopContainers ELSE UNCHANGED <<running, late>>
  /\ Goto(IF at[1] = "restore" THEN "checkpoint" ELSE "files")
  /\ UNCHANGED <<transaction, state, saved, asked, up, pinned, archived>>

StopCompose ==
  /\ Step("stop-compose")
  /\ StopContainers
  /\ Goto(IF at[1] = "restore" THEN "checkpoint" ELSE "files")
  /\ UNCHANGED <<transaction, state, saved, asked, up, pinned, archived>>

(* The aliases are refreshed and the configuration is validated first. *)
ResumeCompose ==
  /\ Step("resume")
  /\ running' = running \cup (saved \cap Compose)
  /\ Goto("resume-graphics")
  /\ UNCHANGED <<transaction, state, saved, asked, late, up, pinned, archived>>

ResumeGraphics ==
  /\ Step("resume-graphics")
  /\ running' = running \cup (saved \cap {"graphics"})
  /\ asked' = (asked /\ "graphics" \notin saved)
  /\ Goto(IF at[1] = "restore" THEN "commit" ELSE "done")
  /\ UNCHANGED <<transaction, state, saved, late, up, pinned, archived>>

-------------------------------------------------------------------------------
(* What is started under no lock *)

(* start-foundry, restart-foundry and restart-mindflayer. *)
StartContainer ==
  /\ up
  /\ "foundry" \in Unlocked
  /\ running' = running \cup {"foundry"}
  /\ late' = late \cup {"foundry"}
  /\ UNCHANGED <<transaction, state, saved, asked, up, at, pinned, archived>>

(* restart-browser-session, and the restart that a display preview queues. *)
RestartGraphics ==
  /\ up
  /\ "graphics" \in Unlocked
  /\ running' = running \ {"graphics"}
  /\ asked' = TRUE
  /\ UNCHANGED <<transaction, state, saved, late, up, at, pinned, archived>>

(* stable_settings, from before the services are stopped until the trees are moved. *)
SettingsHeld ==
  at # Nobody /\ at[2] \in {"stop-compose", "checkpoint", "archive", "prepare", "preparing",
                            "apply", "applying", "files", "rolling-back"}

(* Its preparation waits for the lock of the display settings. *)
GraphicsStarts ==
  /\ up /\ asked
  /\ "setup" \in running
  /\ ~SettingsHeld
  /\ running' = running \cup {"graphics"}
  /\ asked' = FALSE
  /\ UNCHANGED <<transaction, state, saved, late, up, at, pinned, archived>>

-------------------------------------------------------------------------------
(* RestoreCoordinator.restore *)

BeginRestore ==
  /\ up
  /\ at = Nobody
  /\ state = "none"
  /\ state' = "stopping"
  /\ saved' = running
  /\ at' = <<"restore", "stop-graphics">>
  /\ UNCHANGED <<transaction, running, asked, late, up, pinned, archived>>

TakeCheckpoint ==
  /\ Restore("checkpoint")
  /\ state' = "creating-rollback"
  /\ pinned' = TRUE
  /\ Goto("archive")
  /\ UNCHANGED <<transaction, saved, running, asked, late, up, archived>>

MakeRollback ==
  /\ Restore("archive")
  /\ archived' = TRUE
  /\ state' = "preparing-restore"
  /\ Goto("prepare")
  /\ UNCHANGED <<transaction, saved, running, asked, late, up, pinned>>

PrepareTrees ==
  /\ Restore("prepare")
  /\ Prepare
  /\ Goto("preparing")
  /\ UNCHANGED <<state, saved, running, asked, late, up, pinned, archived>>

TreesPrepared ==
  /\ Restore("preparing")
  /\ pc = "idle"
  /\ state' = "installing-restore"
  /\ Goto("apply")
  /\ UNCHANGED <<transaction, saved, running, asked, late, up, pinned, archived>>

ApplyTrees ==
  /\ Restore("apply")
  /\ Apply
  /\ Goto("applying")
  /\ UNCHANGED <<state, saved, running, asked, late, up, pinned, archived>>

TreesApplied ==
  /\ Restore("applying")
  /\ pc = "idle"
  /\ state' = "verifying-restore"
  /\ Goto("resume")
  /\ UNCHANGED <<transaction, saved, running, asked, late, up, pinned, archived>>

CommitTrees ==
  /\ Restore("commit")
  /\ Commit
  /\ Goto("complete")
  /\ UNCHANGED <<state, saved, running, asked, late, up, pinned, archived>>

Complete ==
  /\ Restore("complete")
  /\ state' = "completed"
  /\ Goto("release")
  /\ UNCHANGED <<transaction, saved, running, asked, late, up, pinned, archived>>

ReleaseCheckpoint ==
  /\ Step("release")
  /\ pinned' = FALSE
  /\ at' = Nobody
  /\ UNCHANGED <<transaction, state, saved, running, asked, late, up, archived>>

-------------------------------------------------------------------------------
(* recover and recover_locked *)

(* Mutant: a record that reached its last state is not looked at again. *)
RecoverUndecided ==
  /\ up
  /\ at = Nobody
  /\ state \notin Decided \cup {"none"}
  /\ state' = "recovery-required"
  /\ at' = <<"recover", "stop-graphics">>
  /\ UNCHANGED <<transaction, saved, running, asked, late, up, pinned, archived>>

(* A decided restore only has its checkpoint released. *)
BeginRecover ==
  /\ up
  /\ at = Nobody
  /\ state # "none"
  /\ IF state \in Decided
       THEN at' = <<"recover", "release">> /\ UNCHANGED state
       ELSE at' = <<"recover", "stop-graphics">> /\ state' = "recovery-required"
  /\ UNCHANGED <<transaction, saved, running, asked, late, up, pinned, archived>>

(* Mutant: where no tree moved the services are taken for running. *)
KeepTreesAndServices ==
  /\ Recover("files")
  /\ journal \in {"none", "committed", "rolled-back"}
  /\ Goto("done")
  /\ UNCHANGED <<transaction, state, saved, running, asked, late, up, pinned, archived>>

KeepTrees ==
  /\ Recover("files")
  /\ journal \in {"none", "committed", "rolled-back"}
  /\ Goto("resume")
  /\ UNCHANGED <<transaction, state, saved, running, asked, late, up, pinned, archived>>

RollBackTrees ==
  /\ Recover("files")
  /\ Rollback
  /\ Goto("rolling-back")
  /\ UNCHANGED <<state, saved, running, asked, late, up, pinned, archived>>

TreesRolledBack ==
  /\ Recover("rolling-back")
  /\ pc = "idle"
  /\ Goto("resume")
  /\ UNCHANGED <<transaction, state, saved, running, asked, late, up, pinned, archived>>

(* Mutant: the outcome is taken from the record instead of the journal. *)
RecoveredByRecord ==
  /\ Recover("done")
  /\ state' = "rolled-back"
  /\ Goto("release")
  /\ UNCHANGED <<transaction, saved, running, asked, late, up, pinned, archived>>

Recovered ==
  /\ Recover("done")
  /\ state' = IF journal = "committed" THEN "completed" ELSE "rolled-back"
  /\ Goto("release")
  /\ UNCHANGED <<transaction, saved, running, asked, late, up, pinned, archived>>

-------------------------------------------------------------------------------
(* The transaction's own steps, while one of its methods runs *)

(* os.rename refuses to put a directory over one that has content. *)
MustFail == pc = "reject" /\ MustReject(key) /\ Exists(key, "rejected")

TreeStep ==
  /\ at # Nobody
  /\ ~MustFail
  /\ MethodStep
  /\ UNCHANGED host

RejectFails ==
  /\ MustFail
  /\ pc' = "idle"
  /\ at' = Nobody
  /\ UNCHANGED <<journal, existed, slot, disk, key,
                 state, saved, running, asked, late, up, pinned, archived>>

-------------------------------------------------------------------------------
(* Faults and the machine *)

(* A step of restore raises: the handler recovers at once. *)
Raise ==
  /\ "kill" \in faults
  /\ at[1] = "restore"
  /\ pc' = "idle"
  /\ state' = "recovery-required"
  /\ at' = <<"recover", "stop-graphics">>
  /\ UNCHANGED <<journal, existed, slot, disk, key, saved, running, asked, late, up, pinned, archived>>

(* The process dies, or a step of its recovery raises. *)
Interrupt ==
  /\ "kill" \in faults
  /\ at # Nobody
  /\ ~MustFail
  /\ pc' = "idle"
  /\ at' = Nobody
  /\ UNCHANGED <<journal, existed, slot, disk, key,
                 state, saved, running, asked, late, up, pinned, archived>>

Halt ==
  /\ up
  /\ up' = FALSE
  /\ running' = {} /\ asked' = FALSE /\ late' = {}
  /\ at' = Nobody
  /\ UNCHANGED <<state, saved, pinned, archived>>

LosePower == state # "none" /\ PowerLoss /\ Halt

Reboot ==
  /\ at = Nobody
  /\ state # "none"
  /\ Halt
  /\ UNCHANGED transaction

(* The enabled services are started, and those whose data is unusable fail. *)
(* prepare-admin runs at every boot: what it makes was there when the       *)
(* restore began.                                                           *)
Boot ==
  /\ ~up
  /\ up' = TRUE
  /\ running' \in Started
  /\ \E made \in SUBSET {k \in Keys : journal # "none" /\ existed[k] /\ ~Exists(k, "target")} :
       slot' = [k \in Keys |-> IF k \in made THEN [slot[k] EXCEPT !["target"] = "made"] ELSE slot[k]]
  /\ UNCHANGED <<journal, existed, disk, pc, key, state, saved, asked, late, at, pinned, archived>>

CoordinatorStep ==
  \/ StopGraphics \/ StopCompose \/ ResumeCompose \/ ResumeGraphics
  \/ TakeCheckpoint \/ MakeRollback \/ PrepareTrees \/ TreesPrepared
  \/ ApplyTrees \/ TreesApplied \/ CommitTrees \/ Complete \/ ReleaseCheckpoint
  \/ KeepTrees \/ RollBackTrees \/ TreesRolledBack \/ Recovered
  \/ TreeStep \/ RejectFails

RestoreNext ==
  /\ \/ BeginRestore \/ BeginRecover \/ CoordinatorStep
     \/ Raise \/ Interrupt \/ LosePower \/ Reboot \/ Boot
     \/ StartContainer \/ RestartGraphics \/ GraphicsStarts
  /\ UNCHANGED faults

RestoreSpec == RestoreInit /\ [][RestoreNext]_restoreVars

Unsettled == state # "none" /\ (state \notin Decided \/ pinned)

(* A process runs on, the machine boots, and the operator recovers a        *)
(* restore that is left unfinished.                                         *)
RestoreFairSpec ==
  /\ RestoreSpec
  /\ WF_coordinated(CoordinatorStep)
  /\ WF_coordinated(Boot)
  /\ WF_coordinated(Unsettled /\ BeginRecover)

-------------------------------------------------------------------------------
(* Properties *)

(* Type invariant. *)
RestoreTypeOK ==
  /\ journal \in Journals
  /\ slot \in [Keys -> [Slots -> Trees \cup {"made"}]]
  /\ state \in Decided \cup {"none", "stopping", "creating-rollback", "preparing-restore",
                             "installing-restore", "verifying-restore", "recovery-required"}
  /\ saved \subseteq Services
  /\ running \subseteq Services
  /\ asked \in BOOLEAN
  /\ late \subseteq running \cap {"foundry"}
  /\ up \in BOOLEAN
  /\ at \in {Nobody} \cup ({"restore", "recover"} \X
       {"stop-graphics", "stop-compose", "checkpoint", "archive", "prepare", "preparing",
        "apply", "applying", "files", "rolling-back", "resume", "resume-graphics",
        "commit", "complete", "done", "release"})
  /\ pinned \in BOOLEAN
  /\ archived \in BOOLEAN

(* No step of the transaction moves a tree under a service that the record  *)
(* saved, the services a boot or a failed resume has started again included, *)
(* but for a container that was started under no lock since it was stopped. *)
(* The administration and the kiosk are never among those.                  *)
NoSwitchUnderWriters ==
  [][slot' # slot => running \cap saved \subseteq late \/ up' # up]_restoreVars

(* "The host coordinator must ... stop all writers before                   *)
(* prepare/apply/rollback" (restore_transaction.py:3), without an exception: *)
(* no live target is moved under a service that the record saved.            *)
WritersStopped ==
  [][(\E k \in Keys : slot'[k]["target"] # slot[k]["target"])
       => running \cap saved = {} \/ up' # up]_restoreVars

(* What the maintenance record reports is what the trees are: all of them   *)
(* from the backup, or every one that existed as it was.                    *)
OutcomeMatchesTrees ==
  OneKindOfFault =>
  /\ state = "completed" => \A k \in Keys : slot[k]["target"] = "new"
  /\ state = "rolled-back" => \A k \in Keys : existed[k] => slot[k]["target"] = "old"

(* "No live target is replaced before that callback succeeds"               *)
(* (restore_service.py:16): while a restore is undecided and a tree may     *)
(* have moved, the rollback archive and the pinned checkpoint are there.    *)
RollbackSourcesHeld ==
  state \notin Decided /\ journal \notin {"none", "preparing", "ready"} => pinned /\ archived

(* The services that ran before a restore run again once it is decided, or  *)
(* are being restarted.                                                     *)
ServicesComeBack ==
  [][state \notin Decided /\ state' \in Decided =>
       saved \subseteq running \cup {s \in {"graphics"} : asked}]_restoreVars

FaultsStop == <>[][~Raise /\ ~Interrupt /\ ~LosePower /\ ~Reboot]_coordinated

(* A target lies in the way of its previous tree, and a rejected tree is     *)
(* already there: a boot has made the target again since.                    *)
Obstructed == \E k \in Keys : MustReject(k) /\ Exists(k, "rejected")

(* An interrupted restore is decided and its checkpoint released once it is  *)
(* left to finish, whatever was interrupted, recovery included, unless a     *)
(* target was made again under it.                                           *)
SettlesUnlessObstructed == FaultsStop => []<>(~Unsettled \/ Obstructed)

(* "`restore-recover` handles interruptions"                                *)
(* (IMPLEMENTATION-ADDITIONS.md:524), without an exception.                 *)
RestoreSettles == FaultsStop => []<>~Unsettled

(* What the record says is so at every step: the outcome it reports is what *)
(* the trees are, and what an undecided restore would go back to is kept.   *)
RestoreSound == RestoreTypeOK /\ OutcomeMatchesTrees /\ RollbackSourcesHeld
===============================================================================
