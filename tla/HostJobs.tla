------------------------------- MODULE HostJobs -------------------------------
(***************************************************************************)
(* host_jobs.py, power_service.py and release_interlocks.py over the       *)
(* maintenance window: the management service admits one job at a time and *)
(* hands the lock that proves it is alive to a worker, the worker to the   *)
(* command it runs; a power request is a job as well.  An operator runs    *)
(* the same commands without a job.                                        *)
(***************************************************************************)
EXTENDS MaintenanceWindow

CONSTANTS
    Jobs,        \* identities of jobs
    Operator,    \* a root shell or the scheduled backup
    JobKinds, OperatorTasks,   \* the operations that they run here
    Unlocked,    \* the services that are started here under no lock
    MaxFaults,   \* bound on kills and failing steps
    MaxBoots     \* bound on boots, after a request or a power loss

ASSUME JobsAssumption == /\ Users = Jobs \cup {Operator} /\ Operator \notin Jobs /\ Nobody \notin Users
                         /\ JobKinds \cup OperatorTasks \subseteq {"backup", "recover", "power"}

VARIABLES
    job,       \* the records jobs/*.json
    lock,      \* lock[j]: who has inherited or taken jobs/j.lock
    gate,      \* who holds admission.lock for a power request; a submitter holds it too
    power,     \* power.json
    settings,  \* a display or network change waits for its confirmation
    work,      \* what each process runs, and where it is
    leaving,   \* systemd has accepted a power transition
    did,       \* history: who did what they were started for
    cut,       \* history: who ended between the power record and the call it announces
    boot, faults

jobVars == <<job, lock, gate, power, settings, work, leaving, did, cut, boot, faults>>
hostVars == <<windowVars, jobVars>>

Resting == [task |-> "none", at |-> "idle"]
Gone    == [task |-> "none", at |-> "gone"]   \* the operator comes once

\* No record or a failed one.
NoPower == [state |-> "none", boot |-> 0, owner |-> Nobody]

HostInit ==
    /\ WindowInit
    /\ job = [j \in Jobs |-> [kind |-> "none", state |-> "new"]]
    /\ lock = [j \in Jobs |-> {}]
    /\ gate = Nobody
    /\ power = NoPower
    /\ settings = "stable"
    /\ work = [u \in Users |-> Resting]
    /\ leaving = FALSE /\ did = {} /\ cut = {}
    /\ boot = 0 /\ faults = 0

-----------------------------------------------------------------------------
Active(j) == job[j].state \in {"queued", "running"}
Live(j)   == lock[j] # {}

PowerPending == power.state \in {"protecting", "requested"} /\ power.boot = boot

\* _completed_power: the accepted request of this job crossed a boot.
CrossedBoot(j) == job[j].kind = "power" /\ power.state = "requested" /\ power.owner = j /\ power.boot # boot

\* Mutant: the lock says nothing, an active record of another boot is enough.
JudgedUnlocked(j) ==
    IF Active(j) THEN [job[j] EXCEPT !.state = IF CrossedBoot(j) THEN "completed" ELSE "interrupted"]
    ELSE job[j]

\* Mutant: a job that never got to run is left as it is.
JudgedRunning(j) ==
    IF job[j].state = "running" /\ ~Live(j)
    THEN [job[j] EXCEPT !.state = IF CrossedBoot(j) THEN "completed" ELSE "interrupted"]
    ELSE job[j]

\* read: an active job whose lock is free has ended.
Judged(j) ==
    IF Active(j) /\ ~Live(j)
    THEN [job[j] EXCEPT !.state = IF CrossedBoot(j) THEN "completed" ELSE "interrupted"]
    ELSE job[j]

AllJudged == [j \in Jobs |-> Judged(j)]

List == /\ job' = AllJudged
        /\ UNCHANGED <<windowVars, lock, gate, power, settings, work, leaving, did, cut, boot, faults>>

GateFree == gate = Nobody /\ \A j \in Jobs : "submitter" \notin lock[j]

OthersActive(u) == \E j \in Jobs \ {u} : Judged(j).state \in {"queued", "running"}

At2(u, at)    == work[u].at = at
Reach(u, at)  == work' = [work EXCEPT ![u].at = at]
Faulty        == faults < MaxFaults /\ faults' = faults + 1

-----------------------------------------------------------------------------
(* JobStore.submit, in the management service *)

\* The submitter waits for the admission lock, and holds the new job's lock
\* before its record is there.
Submit(j, kind) ==
    /\ job[j].state = "new" /\ \A i \in Jobs : i < j => job[i].state # "new"
    /\ GateFree
    /\ ~PowerPending
    /\ ~OthersActive(j)
    /\ job' = [AllJudged EXCEPT ![j] = [kind |-> kind, state |-> "queued"]]
    /\ lock' = [lock EXCEPT ![j] = {"submitter"}]
    /\ UNCHANGED <<windowVars, gate, power, settings, work, leaving, did, cut, boot, faults>>

Spawn(j) ==
    /\ lock[j] = {"submitter"} /\ job[j].state = "queued"
    /\ At2(j, "idle")
    /\ lock' = [lock EXCEPT ![j] = @ \cup {"worker"}]
    /\ work' = [work EXCEPT ![j] = [task |-> job[j].kind, at |-> "starting"]]
    /\ UNCHANGED <<windowVars, job, gate, power, settings, leaving, did, cut, boot, faults>>

SpawnFails(j) ==
    /\ Faulty
    /\ lock[j] = {"submitter"} /\ job[j].state = "queued"
    /\ job' = [job EXCEPT ![j].state = "failed"]
    /\ UNCHANGED <<windowVars, lock, gate, power, settings, work, leaving, did, cut, boot>>

SubmitReturns(j) ==
    /\ "submitter" \in lock[j]
    /\ ~At2(j, "idle") \/ job[j].state # "queued"
    /\ lock' = [lock EXCEPT ![j] = @ \ {"submitter"}]
    /\ UNCHANGED <<windowVars, job, gate, power, settings, work, leaving, did, cut, boot, faults>>

\* The management service is restarted; workers have a scope of their own.
KillServer ==
    /\ Faulty
    /\ \E j \in Jobs : "submitter" \in lock[j]
    /\ lock' = [j \in Jobs |-> lock[j] \ {"submitter"}]
    /\ UNCHANGED <<windowVars, job, gate, power, settings, work, leaving, did, cut, boot>>

-----------------------------------------------------------------------------
(* worker: it runs a power request itself, everything else as a command *)

Start(j) ==
    /\ "worker" \in lock[j] /\ At2(j, "starting")
    /\ job' = [job EXCEPT ![j].state = "running"]
    /\ lock' = [lock EXCEPT ![j] = IF work[j].task = "power" THEN @ ELSE @ \cup {"command"}]
    /\ Reach(j, "ready")
    /\ UNCHANGED <<windowVars, gate, power, settings, leaving, did, cut, boot, faults>>

\* An operator starts the same commands.
Begin(task) ==
    /\ At2(Operator, "idle")
    /\ work' = [work EXCEPT ![Operator] = [task |-> task, at |-> "ready"]]
    /\ UNCHANGED <<windowVars, job, lock, gate, power, settings, leaving, did, cut, boot, faults>>

MayOpen(u) == \/ work[u].task = "backup" /\ At2(u, "ready")
              \/ work[u].task = "power" /\ At2(u, "protecting")

OpenWindow(u) ==
    /\ MayOpen(u)
    /\ Open(u, IF work[u].task = "power" THEN "snapshot" ELSE "backup")
    /\ Reach(u, "window")
    /\ UNCHANGED <<job, lock, gate, power, settings, leaving, did, cut, boot, faults>>

BeginRecovery(u) ==
    /\ work[u].task = "recover" /\ At2(u, "ready")
    /\ Recover(u)
    /\ Reach(u, "window")
    /\ UNCHANGED <<job, lock, gate, power, settings, leaving, did, cut, boot, faults>>

NothingToRecover(u) ==
    /\ work[u].task = "recover" /\ At2(u, "ready")
    /\ holder = Idle /\ m = Settled
    /\ Reach(u, "done")
    /\ did' = did \cup {u}
    /\ UNCHANGED <<windowVars, job, lock, gate, power, settings, leaving, cut, boot, faults>>

\* The maintenance lock is tried, not waited for; so is an unfinished record.
Refused(u) ==
    /\ \/ MayOpen(u) /\ (holder # Idle \/ m # Settled)
       \/ work[u].task = "recover" /\ At2(u, "ready") /\ holder # Idle
    /\ Reach(u, "failed")
    /\ UNCHANGED <<windowVars, job, lock, gate, power, settings, leaving, did, cut, boot, faults>>

\* The window of a checkpoint takes the locks of the settings before it stops
\* anything, and does not go on over a pending change.
SettingsBusy(u) == work[u].task = "power" /\ At(u, "stop-graphics") /\ settings # "stable"

WindowStep(u) ==
    /\ \/ StopGraphics(u) /\ ~SettingsBusy(u)
       \/ StopCompose(u) \/ Captured(u)
    /\ UNCHANGED jobVars

SettingsRefuse(u) ==
    /\ SettingsBusy(u)
    /\ Raise(u)
    /\ UNCHANGED jobVars

WindowFault(u) ==
    /\ Raise(u)
    /\ Faulty
    /\ UNCHANGED <<job, lock, gate, power, settings, work, leaving, did, cut, boot>>

WindowEnds(u) ==
    /\ StartServices(u)
    /\ Reach(u, IF ~holder.ok THEN "failed" ELSE IF work[u].task = "power" THEN "protected" ELSE "done")
    /\ did' = IF holder.ok /\ work[u].task # "power" THEN did \cup {u} ELSE did
    /\ UNCHANGED <<job, lock, gate, power, settings, leaving, cut, boot, faults>>

WindowStuck(u) ==
    /\ StartFails(u)
    /\ Faulty
    /\ Reach(u, "failed")
    /\ UNCHANGED <<job, lock, gate, power, settings, leaving, did, cut, boot>>

\* A command ends, and nobody may be there to report it.
CommandEnds(u) ==
    /\ work[u].at \in {"done", "failed"}
    /\ \/ /\ u = Operator /\ work[u].task # "power"
          /\ work' = [work EXCEPT ![u] = Gone]
          /\ UNCHANGED lock
       \/ /\ u \in Jobs /\ "command" \in lock[u]
          /\ lock' = [lock EXCEPT ![u] = @ \ {"command"}]
          /\ UNCHANGED work
    /\ UNCHANGED <<windowVars, job, gate, power, settings, leaving, did, cut, boot, faults>>

Report(j) ==
    /\ "worker" \in lock[j] /\ "command" \notin lock[j]
    /\ work[j].at \in {"done", "failed"}
    /\ work[j].task = "power" => gate # j
    /\ job' = [job EXCEPT ![j].state = IF At2(j, "done") THEN "completed" ELSE "failed"]
    /\ lock' = [lock EXCEPT ![j] = @ \ {"worker"}]
    /\ work' = [work EXCEPT ![j] = Gone]
    /\ UNCHANGED <<windowVars, gate, power, settings, leaving, did, cut, boot, faults>>

-----------------------------------------------------------------------------
(* power_service.operate *)

\* A worker whose submitter has not returned yet finds the gate closed.
PowerRefused(u) ==
    /\ work[u].task = "power" /\ At2(u, "ready")
    /\ ~GateFree \/ PowerPending \/ OthersActive(u)
    /\ Reach(u, "failed")
    /\ job' = IF GateFree THEN AllJudged ELSE job
    /\ UNCHANGED <<windowVars, lock, gate, power, settings, leaving, did, cut, boot, faults>>

PowerAdmitted(u) ==
    /\ work[u].task = "power" /\ At2(u, "ready")
    /\ GateFree
    /\ ~PowerPending
    /\ ~OthersActive(u)
    /\ gate' = u
    /\ job' = AllJudged
    /\ power' = [state |-> "protecting", boot |-> boot, owner |-> u]
    /\ Reach(u, "protecting")
    /\ UNCHANGED <<windowVars, lock, settings, leaving, did, cut, boot, faults>>

RequestPower(u) ==
    /\ work[u].task = "power" /\ At2(u, "protected")
    /\ holder = Idle /\ m = Settled
    /\ settings = "stable"
    /\ power' = [power EXCEPT !.state = "requested"]
    /\ holder' = [Idle EXCEPT !.by = u, !.op = "power"]
    /\ Reach(u, "asking")
    /\ UNCHANGED <<m, running, asked, wanted, late, job, lock, gate, settings, leaving, did, cut, boot, faults>>

\* Only now systemctl is called, and answers.
PowerAccepted(u) ==
    /\ work[u].task = "power" /\ At2(u, "asking")
    /\ leaving' = TRUE
    /\ did' = did \cup {u}
    /\ ReleaseWindow(u)
    /\ gate' = Nobody
    /\ IF u = Operator THEN work' = [work EXCEPT ![u] = Gone] ELSE Reach(u, "done")
    /\ UNCHANGED <<job, lock, power, settings, cut, boot, faults>>

\* Any exception is recorded and clears the interlock; systemctl may have been
\* heard although it timed out.
PowerFails(u) ==
    /\ work[u].task = "power"
    /\ \/ /\ \/ At2(u, "failed") /\ gate = u
             \/ /\ At2(u, "protected")
                /\ holder # Idle \/ m # Settled \/ settings # "stable"
          /\ UNCHANGED <<faults, leaving>>
       \/ /\ At2(u, "asking")
          /\ Faulty
          /\ leaving' \in {leaving, TRUE}
    /\ power' = NoPower
    /\ gate' = Nobody
    /\ ReleaseWindow(u)
    /\ work' = [work EXCEPT ![u] = IF u = Operator THEN Gone ELSE [@ EXCEPT !.at = "failed"]]
    /\ UNCHANGED <<job, lock, settings, did, cut, boot>>

OperatorRefused ==
    /\ work[Operator].task = "power" /\ At2(Operator, "failed") /\ gate # Operator
    /\ work' = [work EXCEPT ![Operator] = Gone]
    /\ UNCHANGED <<windowVars, job, lock, gate, power, settings, leaving, did, cut, boot, faults>>

-----------------------------------------------------------------------------
(* settings_admission, around the start of a display or network change *)

\* Mutant: a change does not ask whether the appliance is about to go down.
ChangeAnyway ==
    /\ settings = "stable"
    /\ holder = Idle /\ m = Settled
    /\ settings' = "pending"
    /\ UNCHANGED <<windowVars, job, lock, gate, power, work, leaving, did, cut, boot, faults>>

ChangeSettings ==
    /\ settings = "stable"
    /\ holder = Idle /\ m = Settled
    /\ ~PowerPending
    /\ settings' = "pending"
    /\ UNCHANGED <<windowVars, job, lock, gate, power, work, leaving, did, cut, boot, faults>>

ChangeEnds ==
    /\ settings = "pending"
    /\ settings' = "stable"
    /\ UNCHANGED <<windowVars, job, lock, gate, power, work, leaving, did, cut, boot, faults>>

-----------------------------------------------------------------------------
(* Faults *)

Unasked(ended) == cut' = cut \cup {u \in ended : At2(u, "asking")}

Dead(u) == /\ ReleaseWindow(u)
           /\ gate' = IF gate = u THEN Nobody ELSE gate
           /\ Unasked({u})

\* The worker alone is killed, or systemd-run never starts it; its command goes
\* on and keeps the lock.
KillWorker(j) ==
    /\ Faulty
    /\ "worker" \in lock[j]
    /\ lock' = [lock EXCEPT ![j] = @ \ {"worker"}]
    /\ IF "command" \in lock[j]
       THEN UNCHANGED <<windowVars, gate, work, cut>>
       ELSE Dead(j) /\ Reach(j, "failed")
    /\ UNCHANGED <<job, power, settings, leaving, did, boot>>

KillCommand(j) ==
    /\ Faulty
    /\ "command" \in lock[j] /\ work[j].at \notin {"done", "failed"}
    /\ Reach(j, "failed")
    /\ Dead(j)
    /\ UNCHANGED <<job, lock, power, settings, leaving, did, boot>>

KillOperator ==
    /\ Faulty
    /\ work[Operator].at \notin {"idle", "gone"}
    /\ work' = [work EXCEPT ![Operator] = Gone]
    /\ Dead(Operator)
    /\ UNCHANGED <<job, lock, power, settings, leaving, did, boot>>

\* Both transitions that were asked for and power losses end every process.
Boot ==
    /\ boot < MaxBoots
    /\ boot' = boot + 1
    /\ BootServices
    /\ lock' = [j \in Jobs |-> {}]
    /\ gate' = Nobody
    /\ settings' = "stable"
    /\ work' = [u \in Users |-> IF At2(u, "idle") THEN Resting ELSE Gone]
    /\ leaving' = FALSE
    /\ Unasked(Users)
    /\ UNCHANGED <<job, power, did, faults>>

StartUnlocked ==
    /\ \/ \E s \in Unlocked : StartContainer(s)
       \/ "graphics" \in Unlocked /\ RestartGraphics
       \/ GraphicsStarts
    /\ UNCHANGED jobVars

-----------------------------------------------------------------------------
Run(u) == \/ OpenWindow(u) \/ BeginRecovery(u) \/ NothingToRecover(u) \/ Refused(u)
          \/ WindowStep(u) \/ SettingsRefuse(u) \/ WindowEnds(u) \/ CommandEnds(u)
          \/ PowerRefused(u) \/ PowerAdmitted(u) \/ RequestPower(u) \/ PowerAccepted(u) \/ PowerFails(u)

Serve(j) == Spawn(j) \/ SubmitReturns(j) \/ Start(j) \/ Report(j)

HostNext ==
    \/ \E j \in Jobs : \/ \E kind \in JobKinds : Submit(j, kind)
                       \/ Serve(j) \/ SpawnFails(j) \/ KillWorker(j) \/ KillCommand(j)
    \/ \E u \in Users : Run(u) \/ WindowFault(u) \/ WindowStuck(u)
    \/ \E task \in OperatorTasks : Begin(task)
    \/ List \/ OperatorRefused \/ KillServer \/ KillOperator \/ Boot
    \/ ChangeSettings \/ ChangeEnds \/ StartUnlocked

HostSpec == HostInit /\ [][HostNext]_hostVars

\* A process runs on and the web interface keeps listing the jobs.
HostFairSpec ==
    /\ HostSpec
    /\ \A j \in Jobs : WF_hostVars(Serve(j))
    /\ \A u \in Users : WF_hostVars(Run(u))
    /\ WF_hostVars(List)

-----------------------------------------------------------------------------
(* Properties *)

\* The lock is the evidence: no two jobs are at work, one that somebody still
\* works for is not reported as ended by anybody else (a child can outlive its
\* worker, docs/KEYPAD-RECOVERY.md:11), and a completed job did what it was
\* started for, also when it is reported by a reader of a later boot.  The
\* exception is a power request that ended between its record and the call to
\* systemctl (power_service.py:76-77).
JobsTellTheTruth ==
    /\ \A i, j \in Jobs : i # j => ~(Live(i) /\ work[i].at # "idle" /\ Live(j))
    /\ \A j \in Jobs : /\ job[j].state = "interrupted" => lock[j] = {} /\ work[j].at \in {"idle", "done", "failed", "gone"}
                       /\ job[j].state = "completed" => j \in did \cup cut

\* An accepted power request finds the appliance at rest, and nothing that
\* asks for admission begins until the next boot: no other job, no settings
\* change (docs/LIFECYCLE-IMPLEMENTATION.md:1632-1634).
PowerInterlock ==
    power.state = "requested" /\ power.boot = boot =>
        /\ settings = "stable"
        /\ \A j \in Jobs \ {power.owner} : ~Live(j)

\* Every job that was admitted is reported as ended in the end.
JobsEnd == \A j \in Jobs : job[j].state = "queued" ~> job[j].state \in {"completed", "failed", "interrupted"}
=============================================================================
