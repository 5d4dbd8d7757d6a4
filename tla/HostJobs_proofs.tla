---------------------------- MODULE HostJobs_proofs ----------------------------
(***************************************************************************)
(* What HostJobs and the window below it promise, for any set of jobs and  *)
(* any number of faults and boots.                                         *)
(***************************************************************************)
EXTENDS HostJobs, TLAPS

USE JobsAssumption

(* Types of the window.                                                     *)
WindowTypeOK ==
  /\ m \in [state : {"settled", "stopping", "working", "starting", "recovery-required"},
            saved : SUBSET Services]
  /\ holder \in [by : Users \cup {Nobody}, op : {"none", "backup", "snapshot", "recover", "power"},
                 step : Stopping \cup {"none", "start"}, ok : BOOLEAN]
  /\ running \subseteq Services /\ wanted \subseteq Services
  /\ asked \in BOOLEAN /\ late \subseteq Services

(* The holder of the lock works on an unfinished record, a power request    *)
(* holds it over a finished one.                                            *)
HolderInv ==
  /\ holder.by = Nobody => holder = Idle
  /\ holder.op = "none" => holder.by = Nobody
  /\ holder.step \in Stopping => holder.op \in Windows
  /\ holder.step = "start" => holder.op \in Windows \cup {"recover"}
  /\ holder.op \in Windows \cup {"recover"} => m # Settled
  /\ m.state = "settled" => m.saved = {}

(* What runs in an open window is what it has still to stop and what was    *)
(* started behind it; the administration cannot be started, the graphics    *)
(* not while the settings are held.                                         *)
StoppedInv ==
  holder.step \in Stopping =>
    /\ running \subseteq late \cup m.saved
    /\ "setup" \in running => "setup" \in m.saved /\ holder.step # "body"
    /\ "graphics" \in running /\ holder.step # "stop-graphics" =>
         /\ "graphics" \in late
         /\ holder.op = "snapshot" => "graphics" \notin m.saved
    /\ holder.step = "body" => running \subseteq late

WindowInv == WindowTypeOK /\ HolderInv /\ StoppedInv /\ NothingLeftDown /\ QuietCapture

Places == {"idle", "starting", "ready", "window", "protecting", "protected", "asking",
           "done", "failed", "gone"}

JobsTypeOK ==
  /\ job \in [Jobs -> [kind : {"none", "backup", "recover", "power"},
                       state : {"new", "queued", "running", "completed", "failed", "interrupted"}]]
  /\ lock \in [Jobs -> SUBSET {"submitter", "worker", "command"}]
  /\ gate \in Users \cup {Nobody}
  /\ power \in [state : {"none", "protecting", "requested"}, boot : Nat, owner : Users \cup {Nobody}]
  /\ settings \in {"stable", "pending"}
  /\ work \in [Users -> [task : {"none", "backup", "recover", "power"}, at : Places]]
  /\ leaving \in BOOLEAN
  /\ did \subseteq Users /\ cut \subseteq Users
  /\ boot \in Nat

(* Who still works for a job holds its lock, and its record says so.        *)
LockInv ==
  \A j \in Jobs :
    /\ lock[j] \cap {"worker", "command"} # {} => Active(j)
    /\ job[j].state = "new" => lock[j] = {} /\ work[j].at = "idle"
    /\ work[j].at = "starting" => "worker" \in lock[j] /\ "command" \notin lock[j]
    /\ work[j].at \in {"ready", "window"} /\ work[j].task # "power" => "command" \in lock[j]
    /\ work[j].at \in {"ready", "window", "protecting", "protected", "asking"} /\ work[j].task = "power"
         => "worker" \in lock[j] /\ "command" \notin lock[j]

(* One job is alive at a time, and none but the owner's behind a gate.      *)
AloneInv ==
  /\ \A i, j \in Jobs : i # j => ~(Live(i) /\ Live(j))
  /\ gate # Nobody => \A j \in Jobs \ {gate} : ~Live(j)

(* Where each process is, against the lock it holds and the record it made. *)
WorkInv ==
  \A u \in Users :
    /\ holder.by = u /\ holder.op \in Windows \cup {"recover"} => work[u].at = "window"
    /\ work[u].at \in {"protecting", "protected", "asking"} => work[u].task = "power"
    /\ work[u].task = "power" /\ work[u].at \in {"protecting", "window", "protected", "asking"} =>
         /\ gate = u
         /\ power.owner = u /\ power.boot = boot
    /\ gate = u => work[u].at \in {"protecting", "window", "protected", "asking", "failed"}
    /\ gate = u => work[u].task = "power" /\ power.owner = u /\ power.boot = boot
    /\ work[u].at = "done" => u \in did

PowerInv ==
  /\ power.boot <= boot
  /\ power.state = "requested" =>
       power.owner \in Users /\ (power.owner \in did \cup cut \/ work[power.owner].at = "asking")

HostInv == /\ WindowInv /\ JobsTypeOK /\ LockInv /\ AloneInv /\ WorkInv /\ PowerInv
           /\ JobsTellTheTruth /\ PowerInterlock

-------------------------------------------------------------------------------
(* The window below, whoever holds its lock.                                 *)
LEMMA WindowInvariant ==
  ASSUME WindowInv, NEW u \in Users,
         \/ (\E op \in Windows : Open(u, op)) \/ StopGraphics(u) \/ StopCompose(u) \/ Captured(u) \/ Raise(u)
         \/ StartServices(u) \/ StartFails(u) \/ Recover(u) \/ BootServices
         \/ (\E s \in Services : StartContainer(s)) \/ RestartGraphics \/ GraphicsStarts
         \/ ReleaseWindow(u) \/ UNCHANGED windowVars
  PROVE  WindowInv'
<1> USE DEF WindowInv, WindowTypeOK, HolderInv, StoppedInv, NothingLeftDown, QuietCapture,
            Stopping, Windows, Idle, Settled, Nobody, Compose, Services, At, Go, Record
<1>1. CASE \E op \in Windows : Open(u, op)
  <2>1. WindowTypeOK'
    BY <1>1 DEF Open
  <2>2. HolderInv' /\ StoppedInv'
    BY <1>1 DEF Open
  <2>3. NothingLeftDown' /\ QuietCapture'
    BY <1>1 DEF Open
  <2> QED
    BY <2>1, <2>2, <2>3
<1>2. CASE StopGraphics(u)
  <2>1. WindowTypeOK'
    BY <1>2 DEF StopGraphics
  <2>2. HolderInv' /\ StoppedInv'
    BY <1>2 DEF StopGraphics
  <2>3. NothingLeftDown' /\ QuietCapture'
    BY <1>2 DEF StopGraphics
  <2> QED
    BY <2>1, <2>2, <2>3
<1>3. CASE StopCompose(u)
  <2>1. WindowTypeOK'
    BY <1>3 DEF StopCompose
  <2>2. HolderInv' /\ StoppedInv'
    BY <1>3 DEF StopCompose
  <2>3. NothingLeftDown' /\ QuietCapture'
    BY <1>3 DEF StopCompose
  <2> QED
    BY <2>1, <2>2, <2>3
<1>4. CASE Captured(u)
  <2>1. WindowTypeOK'
    BY <1>4 DEF Captured
  <2>2. HolderInv' /\ StoppedInv'
    BY <1>4 DEF Captured
  <2>3. NothingLeftDown' /\ QuietCapture'
    BY <1>4 DEF Captured
  <2> QED
    BY <2>1, <2>2, <2>3
<1>5. CASE Raise(u)
  <2>1. WindowTypeOK'
    BY <1>5 DEF Raise, Stops
  <2>2. HolderInv' /\ StoppedInv'
    BY <1>5 DEF Raise, Stops
  <2>3. NothingLeftDown' /\ QuietCapture'
    BY <1>5 DEF Raise, Stops
  <2> QED
    BY <2>1, <2>2, <2>3
<1>6. CASE StartServices(u)
  <2>1. WindowTypeOK'
    BY <1>6 DEF StartServices
  <2>2. HolderInv' /\ StoppedInv'
    BY <1>6 DEF StartServices
  <2>3. NothingLeftDown' /\ QuietCapture'
    BY <1>6 DEF StartServices
  <2> QED
    BY <2>1, <2>2, <2>3
<1>7. CASE StartFails(u)
  <2>1. WindowTypeOK'
    BY <1>7 DEF StartFails
  <2>2. HolderInv' /\ StoppedInv'
    BY <1>7 DEF StartFails
  <2>3. NothingLeftDown' /\ QuietCapture'
    BY <1>7 DEF StartFails
  <2> QED
    BY <2>1, <2>2, <2>3
<1>8. CASE Recover(u)
  <2>1. WindowTypeOK'
    BY <1>8 DEF Recover
  <2>2. HolderInv' /\ StoppedInv'
    BY <1>8 DEF Recover
  <2>3. NothingLeftDown' /\ QuietCapture'
    BY <1>8 DEF Recover
  <2> QED
    BY <2>1, <2>2, <2>3
<1>9. CASE \E s \in Services : StartContainer(s)
  <2>1. WindowTypeOK'
    BY <1>9 DEF StartContainer, Started, StillStopped
  <2>2. HolderInv' /\ StoppedInv'
    BY <1>9 DEF StartContainer, Started, StillStopped
  <2>3. NothingLeftDown' /\ QuietCapture'
    BY <1>9 DEF StartContainer, Started, StillStopped
  <2> QED
    BY <2>1, <2>2, <2>3
<1>10. CASE BootServices
  <2>1. WindowTypeOK'
    BY <1>10 DEF BootServices
  <2>2. HolderInv' /\ StoppedInv'
    BY <1>10 DEF BootServices
  <2>3. NothingLeftDown' /\ QuietCapture'
    BY <1>10 DEF BootServices
  <2> QED
    BY <2>1, <2>2, <2>3
<1>11. CASE ReleaseWindow(u)
  <2>1. WindowTypeOK'
    BY <1>11 DEF ReleaseWindow
  <2>2. HolderInv' /\ StoppedInv'
    BY <1>11 DEF ReleaseWindow
  <2>3. NothingLeftDown' /\ QuietCapture'
    BY <1>11 DEF ReleaseWindow
  <2> QED
    BY <2>1, <2>2, <2>3
<1>12. CASE UNCHANGED windowVars
  <2>1. WindowTypeOK'
    BY <1>12 DEF windowVars
  <2>2. HolderInv' /\ StoppedInv'
    BY <1>12 DEF windowVars
  <2>3. NothingLeftDown' /\ QuietCapture'
    BY <1>12 DEF windowVars
  <2> QED
    BY <2>1, <2>2, <2>3
<1>13. CASE RestartGraphics
  <2>1. WindowTypeOK'
    BY <1>13 DEF RestartGraphics
  <2>2. HolderInv' /\ StoppedInv'
    BY <1>13 DEF RestartGraphics
  <2>3. NothingLeftDown' /\ QuietCapture'
    BY <1>13 DEF RestartGraphics
  <2> QED
    BY <2>1, <2>2, <2>3
<1>14. CASE GraphicsStarts
  <2>1. WindowTypeOK'
    BY <1>14 DEF GraphicsStarts, Started, StillStopped, SettingsHeld
  <2>2. HolderInv' /\ StoppedInv'
    BY <1>14 DEF GraphicsStarts, Started, StillStopped, SettingsHeld
  <2>3. NothingLeftDown' /\ QuietCapture'
    BY <1>14 DEF GraphicsStarts, Started, StillStopped, SettingsHeld
  <2> QED
    BY <2>1, <2>2, <2>3
<1> QED
  BY <1>1, <1>2, <1>3, <1>4, <1>5, <1>6, <1>7, <1>8, <1>9, <1>10, <1>11, <1>12, <1>13, <1>14

(* What a reader makes of the records.                                       *)
LEMMA JudgedRecords ==
  ASSUME JobsTypeOK, NEW j \in Jobs
  PROVE  /\ Judged(j) \in [kind : {"none", "backup", "recover", "power"},
                            state : {"new", "queued", "running", "completed", "failed", "interrupted"}]
         /\ Live(j) \/ ~Active(j) => Judged(j) = job[j]
         /\ Judged(j).state = "new" => job[j].state = "new"
         /\ Judged(j).state \in {"queued", "running"} => Live(j) /\ Active(j)
         /\ Judged(j).state = "interrupted" => job[j].state = "interrupted" \/ (Active(j) /\ ~Live(j))
         /\ Judged(j).state = "completed" =>
              job[j].state = "completed" \/ (power.state = "requested" /\ power.owner = j /\ ~Live(j))
  BY SMTT(60) DEF JobsTypeOK, Judged, Active, CrossedBoot

(* Submitters and workers.                                                  *)
LEMMA JobInvariant ==
  ASSUME HostInv, NEW j \in Jobs, 
         \/ \E kind \in JobKinds : Submit(j, kind)
         \/ Spawn(j)
         \/ SpawnFails(j)
         \/ SubmitReturns(j)
         \/ Start(j)
         \/ Report(j)
         \/ KillWorker(j)
         \/ KillCommand(j)
  PROVE  HostInv'
<1> USE DEF HostInv, JobsTypeOK, LockInv, AloneInv, WorkInv, PowerInv, JobsTellTheTruth,
            PowerInterlock, Places, Active, Live, At2, Reach, Faulty, GateFree, PowerPending,
            OthersActive, windowVars, Resting, Gone, NoPower, Nobody, Idle, Windows, Unasked
<1>1. CASE \E kind \in JobKinds : Submit(j, kind)
  <2>1. JobsTypeOK'
    BY <1>1, JudgedRecords DEF Submit, AllJudged
  <2>2. LockInv'
    BY <1>1, JudgedRecords DEF Submit, AllJudged
  <2>3. AloneInv'
    BY <1>1, JudgedRecords DEF Submit, AllJudged
  <2>4. WorkInv'
    BY <1>1, JudgedRecords DEF Submit, AllJudged
  <2>5. PowerInv' /\ PowerInterlock'
    BY <1>1, JudgedRecords DEF Submit, AllJudged
  <2>6. JobsTellTheTruth'
    BY <1>1, JudgedRecords DEF Submit, AllJudged
  <2>7. WindowInv'
    BY <1>1, WindowInvariant DEF Submit, AllJudged
  <2> QED
    BY <2>1, <2>2, <2>3, <2>4, <2>5, <2>6, <2>7
<1>2. CASE Spawn(j)
  <2>1. JobsTypeOK'
    BY <1>2 DEF Spawn
  <2>2. LockInv'
    BY <1>2 DEF Spawn
  <2>3. \A i \in Jobs : Live(i)' => Live(i)
    <3>1. lock[j] = {"submitter"} /\ \A i \in Jobs \ {j} : lock'[i] = lock[i]
      BY <1>2 DEF Spawn
    <3> QED
      BY <3>1
  <2>4. AloneInv'
    <3>1. gate' = gate
      BY <1>2 DEF Spawn
    <3>2. \A i, k \in Jobs : i # k => ~(Live(i)' /\ Live(k)')
      BY <2>3
    <3>3. gate' # Nobody => \A i \in Jobs \ {gate'} : ~Live(i)'
      BY <2>3, <3>1
    <3> QED
      BY <3>2, <3>3
  <2>5. WorkInv'
    BY <1>2 DEF Spawn
  <2>6. PowerInv' /\ PowerInterlock'
    <3>1. /\ power' = power /\ settings' = settings /\ boot' = boot
          /\ did' = did /\ cut' = cut
      BY <1>2 DEF Spawn
    <3>2. \A u \in Users : work[u].at = "asking" => work'[u].at = "asking"
      BY <1>2 DEF Spawn
    <3>3. PowerInv /\ PowerInterlock
      OBVIOUS
    <3>4. PowerInv'
      BY <3>1, <3>2, <3>3
    <3>5. PowerInterlock'
      BY <2>3, <3>1, <3>3
    <3> QED
      BY <3>4, <3>5
  <2>7. JobsTellTheTruth'
    <3>1. \A i, k \in Jobs : i # k => ~(Live(i)' /\ work'[i].at # "idle" /\ Live(k)')
      BY <2>4
    <3>2. /\ job' = job /\ did' = did /\ cut' = cut
          /\ \A i \in Jobs \ {j} : lock'[i] = lock[i] /\ work'[i] = work[i]
      BY <1>2 DEF Spawn
    <3>3. job[j].state = "queued"
      BY <1>2 DEF Spawn
    <3> QED
      BY SMTT(60), <3>1, <3>2, <3>3
  <2>8. WindowInv'
    BY <1>2, WindowInvariant DEF Spawn
  <2> QED
    BY <2>1, <2>2, <2>4, <2>5, <2>6, <2>7, <2>8
<1>3. CASE SpawnFails(j)
  <2>1. JobsTypeOK'
    BY <1>3 DEF SpawnFails
  <2>2. LockInv'
    BY <1>3 DEF SpawnFails
  <2>3. AloneInv'
    BY <1>3 DEF SpawnFails
  <2>4. WorkInv'
    BY <1>3 DEF SpawnFails
  <2>5. PowerInv' /\ PowerInterlock'
    BY <1>3 DEF SpawnFails
  <2>6. JobsTellTheTruth'
    BY <1>3 DEF SpawnFails
  <2>7. WindowInv'
    BY <1>3, WindowInvariant DEF SpawnFails
  <2> QED
    BY <2>1, <2>2, <2>3, <2>4, <2>5, <2>6, <2>7
<1>4. CASE SubmitReturns(j)
  <2>1. JobsTypeOK'
    BY <1>4 DEF SubmitReturns
  <2>2. LockInv'
    BY <1>4 DEF SubmitReturns
  <2>3. \A i \in Jobs : Live(i)' => Live(i)
    BY <1>4 DEF SubmitReturns
  <2>4. AloneInv'
    BY <1>4, <2>3 DEF SubmitReturns
  <2>5. WorkInv'
    BY <1>4 DEF SubmitReturns
  <2>6. PowerInv' /\ PowerInterlock'
    BY <1>4 DEF SubmitReturns
  <2>7. JobsTellTheTruth'
    BY <1>4 DEF SubmitReturns
  <2>8. WindowInv'
    BY <1>4, WindowInvariant DEF SubmitReturns
  <2> QED
    BY <2>1, <2>2, <2>4, <2>5, <2>6, <2>7, <2>8
<1>5. CASE Start(j)
  <2>1. JobsTypeOK'
    BY <1>5 DEF Start
  <2>2. LockInv'
    <3>1. "worker" \in lock[j] /\ job' = [job EXCEPT ![j].state = "running"]
      BY <1>5 DEF Start
    <3>2. work'[j].at = "ready" /\ work'[j].task = work[j].task /\ \A i \in Jobs \ {j} : work'[i] = work[i]
      BY <1>5 DEF Start
    <3>3. CASE work[j].task = "power"
      BY <1>5, <3>1, <3>2, <3>3 DEF Start
    <3>4. CASE work[j].task # "power"
      BY <1>5, <3>1, <3>2, <3>4 DEF Start
    <3> QED
      BY <3>3, <3>4
  <2>3. AloneInv'
    BY SMTT(60), <1>5 DEF Start
  <2>4. WorkInv'
    BY <1>5 DEF Start
  <2>5. PowerInv' /\ PowerInterlock'
    BY <1>5 DEF Start
  <2>6. JobsTellTheTruth'
    BY <1>5 DEF Start
  <2>7. WindowInv'
    BY <1>5, WindowInvariant DEF Start
  <2> QED
    BY <2>1, <2>2, <2>3, <2>4, <2>5, <2>6, <2>7
<1>6. CASE Report(j)
  <2>1. JobsTypeOK'
    BY SMTT(60), <1>6 DEF Report
  <2>2. LockInv'
    BY <1>6 DEF Report
  <2>3. \A i \in Jobs : Live(i)' => Live(i)
    BY <1>6 DEF Report
  <2>4. AloneInv'
    BY <1>6, <2>3 DEF Report
  <2>5. WorkInv'
    BY <1>6 DEF Report
  <2>6. PowerInv' /\ PowerInterlock'
    BY <1>6 DEF Report
  <2>7. JobsTellTheTruth'
    <3>1. /\ UNCHANGED <<did, cut>> /\ \A i \in Jobs : lock'[i] \subseteq lock[i]
          /\ \A i \in Jobs \ {j} : job'[i] = job[i] /\ work'[i] = work[i]
          /\ job'[j].state \in {"completed", "failed"}
          /\ job'[j].state = "completed" => j \in did
      BY <1>6 DEF Report
    <3>2. ASSUME NEW i \in Jobs, NEW k \in Jobs, i # k, Live(i)', Live(k)'
          PROVE  FALSE
      BY <2>4, <3>2 DEF AloneInv
    <3>3. ASSUME NEW i \in Jobs, job'[i].state = "interrupted"
          PROVE  lock'[i] = {} /\ work'[i].at \in {"idle", "done", "failed", "gone"}
      BY <3>1, <3>3 DEF JobsTellTheTruth
    <3>4. ASSUME NEW i \in Jobs, job'[i].state = "completed"
          PROVE  i \in did' \cup cut'
      BY <3>1, <3>4 DEF JobsTellTheTruth
    <3> QED
      BY <3>2, <3>3, <3>4 DEF JobsTellTheTruth
  <2>8. WindowInv'
    BY <1>6, WindowInvariant DEF Report
  <2> QED
    BY <2>1, <2>2, <2>4, <2>5, <2>6, <2>7, <2>8
<1>7. CASE KillWorker(j)
  <2>1. /\ lock' = [lock EXCEPT ![j] = @ \ {"worker"}]
        /\ work' = work \/ work' = [work EXCEPT ![j].at = "failed"]
        /\ gate' \in {gate, Nobody}
        /\ UNCHANGED <<job, power, settings, leaving, did, boot>>
        /\ cut \subseteq cut' /\ cut' \subseteq cut \cup {j}
    BY <1>7 DEF KillWorker, Dead
  <2>2. JobsTypeOK'
    BY SMTT(60), <2>1
  <2>3. LockInv'
    <3>1. CASE "command" \in lock[j]
      BY <1>7, <3>1 DEF KillWorker
    <3>2. CASE "command" \notin lock[j]
      BY <1>7, <3>2 DEF KillWorker, Dead
    <3> QED
      BY <3>1, <3>2
  <2>4. AloneInv'
    BY SMTT(60), <1>7 DEF KillWorker, Dead, ReleaseWindow
  <2>5. WorkInv'
    BY <1>7 DEF KillWorker, Dead, ReleaseWindow
  <2>6. PowerInv' /\ PowerInterlock'
    BY <1>7 DEF KillWorker, Dead, ReleaseWindow
  <2>7. JobsTellTheTruth'
    BY <1>7 DEF KillWorker, Dead, ReleaseWindow
  <2>8. WindowInv'
    BY <1>7, WindowInvariant DEF KillWorker, Dead, ReleaseWindow
  <2> QED
    BY <2>2, <2>3, <2>4, <2>5, <2>6, <2>7, <2>8
<1>8. CASE KillCommand(j)
  <2>1. JobsTypeOK'
    BY SMTT(60), <1>8 DEF KillCommand, Dead, ReleaseWindow
  <2>2. LockInv'
    BY <1>8 DEF KillCommand, Dead, ReleaseWindow
  <2>3. AloneInv'
    BY <1>8 DEF KillCommand, Dead, ReleaseWindow
  <2>4. WorkInv'
    BY <1>8 DEF KillCommand, Dead, ReleaseWindow
  <2>5. PowerInv' /\ PowerInterlock'
    BY <1>8 DEF KillCommand, Dead, ReleaseWindow
  <2>6. JobsTellTheTruth'
    BY <1>8 DEF KillCommand, Dead, ReleaseWindow
  <2>7. WindowInv'
    BY SMTT(60), <1>8, WindowInvariant DEF KillCommand, Dead, ReleaseWindow
  <2> QED
    BY <2>1, <2>2, <2>3, <2>4, <2>5, <2>6, <2>7
<1> QED
  BY <1>1, <1>2, <1>3, <1>4, <1>5, <1>6, <1>7, <1>8

(* What a job, or the operator, runs.                                       *)
LEMMA RunInvariant ==
  ASSUME HostInv, NEW u \in Users, 
         \/ OpenWindow(u)
         \/ BeginRecovery(u)
         \/ NothingToRecover(u)
         \/ Refused(u)
         \/ WindowStep(u)
         \/ SettingsRefuse(u)
         \/ WindowEnds(u)
         \/ CommandEnds(u)
         \/ PowerRefused(u)
         \/ PowerAdmitted(u)
         \/ RequestPower(u)
         \/ PowerAccepted(u)
         \/ PowerFails(u)
         \/ WindowFault(u)
         \/ WindowStuck(u)
  PROVE  HostInv'
<1> USE DEF HostInv, JobsTypeOK, LockInv, AloneInv, WorkInv, PowerInv, JobsTellTheTruth,
            PowerInterlock, Places, Active, Live, At2, Reach, Faulty, GateFree, PowerPending,
            OthersActive, windowVars, Resting, Gone, NoPower, Nobody, Idle, Windows, Unasked
<1>1. CASE OpenWindow(u)
  <2>1. JobsTypeOK'
    BY <1>1 DEF OpenWindow, Open, MayOpen
  <2>2. LockInv'
    BY <1>1 DEF OpenWindow, Open, MayOpen
  <2>3. AloneInv'
    BY <1>1 DEF OpenWindow, Open, MayOpen
  <2>4. WorkInv'
    BY <1>1 DEF OpenWindow, Open, MayOpen
  <2>5. PowerInv' /\ PowerInterlock'
    BY <1>1 DEF OpenWindow, Open, MayOpen
  <2>6. JobsTellTheTruth'
    BY <1>1 DEF OpenWindow, Open, MayOpen
  <2>7. WindowInv'
    BY <1>1, WindowInvariant DEF OpenWindow, Open, MayOpen
  <2> QED
    BY <2>1, <2>2, <2>3, <2>4, <2>5, <2>6, <2>7
<1>2. CASE BeginRecovery(u)
  <2>1. JobsTypeOK'
    BY <1>2 DEF BeginRecovery, Recover
  <2>2. LockInv'
    BY <1>2 DEF BeginRecovery, Recover
  <2>3. AloneInv'
    BY <1>2 DEF BeginRecovery, Recover
  <2>4. WorkInv'
    BY <1>2 DEF BeginRecovery, Recover
  <2>5. PowerInv' /\ PowerInterlock'
    BY <1>2 DEF BeginRecovery, Recover
  <2>6. JobsTellTheTruth'
    BY <1>2 DEF BeginRecovery, Recover
  <2>7. WindowInv'
    BY <1>2, WindowInvariant DEF BeginRecovery, Recover
  <2> QED
    BY <2>1, <2>2, <2>3, <2>4, <2>5, <2>6, <2>7
<1>3. CASE NothingToRecover(u)
  <2>1. JobsTypeOK'
    BY <1>3 DEF NothingToRecover
  <2>2. LockInv'
    BY <1>3 DEF NothingToRecover
  <2>3. AloneInv'
    BY <1>3 DEF NothingToRecover
  <2>4. WorkInv'
    BY <1>3 DEF NothingToRecover
  <2>5. PowerInv' /\ PowerInterlock'
    BY <1>3 DEF NothingToRecover
  <2>6. JobsTellTheTruth'
    BY <1>3 DEF NothingToRecover
  <2>7. WindowInv'
    BY <1>3, WindowInvariant DEF NothingToRecover
  <2> QED
    BY <2>1, <2>2, <2>3, <2>4, <2>5, <2>6, <2>7
<1>4. CASE Refused(u)
  <2>1. JobsTypeOK'
    BY <1>4 DEF Refused, MayOpen
  <2>2. LockInv'
    BY <1>4 DEF Refused, MayOpen
  <2>3. AloneInv'
    BY <1>4 DEF Refused, MayOpen
  <2>4. WorkInv'
    BY <1>4 DEF Refused, MayOpen
  <2>5. PowerInv' /\ PowerInterlock'
    BY <1>4 DEF Refused, MayOpen
  <2>6. JobsTellTheTruth'
    BY <1>4 DEF Refused, MayOpen
  <2>7. WindowInv'
    BY <1>4, WindowInvariant DEF Refused, MayOpen
  <2> QED
    BY <2>1, <2>2, <2>3, <2>4, <2>5, <2>6, <2>7
<1>5. CASE WindowStep(u)
  <2>1. JobsTypeOK'
    BY <1>5 DEF WindowStep, StopGraphics, StopCompose, Captured, At, Go, jobVars
  <2>2. LockInv'
    BY <1>5 DEF WindowStep, StopGraphics, StopCompose, Captured, At, Go, jobVars
  <2>3. AloneInv'
    BY <1>5 DEF WindowStep, StopGraphics, StopCompose, Captured, At, Go, jobVars
  <2>4. WorkInv'
    <3>1. holder'.by = holder.by /\ holder'.op = holder.op
      <4>1. holder \in [by : Users \cup {Nobody}, op : {"none", "backup", "snapshot", "recover", "power"},
                        step : Stopping \cup {"none", "start"}, ok : BOOLEAN]
        BY DEF WindowInv, WindowTypeOK
      <4>2. \/ \E step : holder' = [holder EXCEPT !.step = step]
            \/ holder' = [holder EXCEPT !.step = "start", !.ok = TRUE]
        BY <1>5 DEF WindowStep, StopGraphics, StopCompose, Captured, Go
      <4> HIDE DEF HostInv
      <4>3. ASSUME NEW step, holder' = [holder EXCEPT !.step = step]
            PROVE  holder'.by = holder.by /\ holder'.op = holder.op
        BY <4>1, <4>3
      <4>4. CASE holder' = [holder EXCEPT !.step = "start", !.ok = TRUE]
        BY <4>1, <4>4
      <4> QED
        BY <4>2, <4>3, <4>4
    <3>2. UNCHANGED jobVars
      BY <1>5 DEF WindowStep
    <3> QED
      BY <3>1, <3>2 DEF jobVars
  <2>5. PowerInv' /\ PowerInterlock'
    BY <1>5 DEF WindowStep, StopGraphics, StopCompose, Captured, At, Go, jobVars
  <2>6. JobsTellTheTruth'
    BY <1>5 DEF WindowStep, StopGraphics, StopCompose, Captured, At, Go, jobVars
  <2>7. WindowInv'
    BY <1>5, WindowInvariant DEF WindowStep, StopGraphics, StopCompose, Captured, At, Go, jobVars
  <2> QED
    BY <2>1, <2>2, <2>3, <2>4, <2>5, <2>6, <2>7
<1>6. CASE SettingsRefuse(u)
  <2>1. JobsTypeOK'
    BY <1>6 DEF SettingsRefuse, Raise, SettingsBusy, At, Go, jobVars
  <2>2. LockInv'
    BY <1>6 DEF SettingsRefuse, Raise, SettingsBusy, At, Go, jobVars
  <2>3. AloneInv'
    BY <1>6 DEF SettingsRefuse, Raise, SettingsBusy, At, Go, jobVars
  <2>4. WorkInv'
    BY <1>6 DEF SettingsRefuse, Raise, SettingsBusy, At, Go, jobVars
  <2>5. PowerInv' /\ PowerInterlock'
    BY <1>6 DEF SettingsRefuse, Raise, SettingsBusy, At, Go, jobVars
  <2>6. JobsTellTheTruth'
    BY <1>6 DEF SettingsRefuse, Raise, SettingsBusy, At, Go, jobVars
  <2>7. WindowInv'
    BY ZenonT(60), <1>6, WindowInvariant DEF SettingsRefuse, Raise, SettingsBusy, At, Go, jobVars
  <2> QED
    BY <2>1, <2>2, <2>3, <2>4, <2>5, <2>6, <2>7
<1>7. CASE WindowEnds(u)
  <2>1. JobsTypeOK'
    BY <1>7 DEF WindowEnds, StartServices, At
  <2>2. work[u].at = "window" /\ holder.by = u /\ holder' = Idle
    BY <1>7 DEF WindowEnds, StartServices, At, WindowInv, HolderInv
  <2>3. PICK at \in {"failed", "protected", "done"} :
          /\ work' = [work EXCEPT ![u].at = at]
          /\ at = "protected" => work[u].task = "power"
          /\ at = "done" => work[u].task # "power" /\ did' = did \cup {u}
          /\ cut' = cut
          /\ at # "done" => did' = did
    BY <1>7 DEF WindowEnds
  <2>4. UNCHANGED <<job, lock, gate, power, settings, leaving, boot, faults>>
    BY <1>7 DEF WindowEnds
  <2>5. LockInv'
    BY <2>2, <2>3, <2>4
  <2>6. AloneInv'
    BY <1>7 DEF WindowEnds, StartServices, At
  <2>7. WorkInv'
    BY <2>2, <2>3, <2>4
  <2>8. PowerInv' /\ PowerInterlock'
    <3>1. \A v \in Users : work[v].at = "asking" => work'[v] = work[v]
      BY <2>2, <2>3
    <3>2. did \subseteq did' /\ UNCHANGED <<lock, power, settings, cut, boot>>
      BY <2>3, <2>4
    <3> QED
      BY <3>1, <3>2
  <2>9. JobsTellTheTruth'
    BY SMTT(60), <2>2, <2>3, <2>4
  <2>10. WindowInv'
    BY <1>7, WindowInvariant DEF WindowEnds, StartServices, At
  <2> QED
    BY <2>1, <2>5, <2>6, <2>7, <2>8, <2>9, <2>10
<1>8. CASE CommandEnds(u)
  <2>1. \/ UNCHANGED <<work, lock>>
        \/ work' = [work EXCEPT ![u] = [task |-> "none", at |-> "gone"]] /\ UNCHANGED lock
        \/ u \in Jobs /\ lock' = [lock EXCEPT ![u] = @ \ {"command"}] /\ UNCHANGED work
    BY <1>8 DEF CommandEnds
  <2>2. JobsTypeOK'
    BY <1>8, <2>1 DEF CommandEnds
  <2>3. LockInv'
    BY SMTT(60), <1>8 DEF CommandEnds
  <2>4. \A i \in Jobs : Live(i)' => Live(i)
    BY <1>8 DEF CommandEnds
  <2>5. AloneInv'
    BY SMTT(60), <1>8, <2>4 DEF CommandEnds
  <2>6. WorkInv'
    BY <1>8 DEF CommandEnds
  <2>7. PowerInv' /\ PowerInterlock'
    BY <1>8 DEF CommandEnds
  <2>8. JobsTellTheTruth'
    BY SMTT(60), <1>8, <2>4 DEF CommandEnds
  <2>9. WindowInv'
    BY <1>8, WindowInvariant DEF CommandEnds
  <2> QED
    BY <2>2, <2>3, <2>5, <2>6, <2>7, <2>8, <2>9
<1>9. CASE PowerRefused(u)
  <2>1. JobsTypeOK'
    BY <1>9, JudgedRecords DEF PowerRefused, AllJudged
  <2>2. LockInv'
    BY <1>9, JudgedRecords DEF PowerRefused, AllJudged
  <2>3. AloneInv'
    BY SMTT(60), <1>9, JudgedRecords DEF PowerRefused, AllJudged
  <2>4. WorkInv'
    BY <1>9, JudgedRecords DEF PowerRefused, AllJudged
  <2>5. PowerInv' /\ PowerInterlock'
    BY <1>9, JudgedRecords DEF PowerRefused, AllJudged
  <2>6. JobsTellTheTruth'
    BY <1>9, JudgedRecords DEF PowerRefused, AllJudged
  <2>7. WindowInv'
    BY <1>9, WindowInvariant DEF PowerRefused, AllJudged
  <2> QED
    BY <2>1, <2>2, <2>3, <2>4, <2>5, <2>6, <2>7
<1>10. CASE PowerAdmitted(u)
  <2>1. JobsTypeOK'
    BY <1>10, JudgedRecords DEF PowerAdmitted, AllJudged
  <2>2. LockInv'
    BY SMTT(60), <1>10, JudgedRecords DEF PowerAdmitted, AllJudged
  <2>3. \A j \in Jobs \ {u} : ~Live(j)
    <3>1. \A j \in Jobs \ {u} : "submitter" \notin lock[j] /\ ~(Judged(j).state \in {"queued", "running"})
      BY <1>10 DEF PowerAdmitted
    <3>2. \A j \in Jobs \ {u} : Active(j) => ~Live(j)
      BY <3>1, JudgedRecords
    <3>3. \A j \in Jobs \ {u} : lock[j] \cap {"worker", "command"} = {}
      BY <3>2
    <3> QED
      BY <3>1, <3>3
  <2>4. AloneInv'
    BY SMTT(60), <1>10, <2>3 DEF PowerAdmitted
  <2>5. WorkInv'
    BY <1>10, JudgedRecords DEF PowerAdmitted, AllJudged
  <2>6. PowerInv' /\ PowerInterlock'
    BY <1>10, JudgedRecords DEF PowerAdmitted, AllJudged
  <2>7. /\ UNCHANGED <<lock, did, cut>> /\ \A j \in Jobs : job'[j] = Judged(j)
        /\ \A v \in Users \ {u} : work'[v] = work[v]
        /\ work[u].at = "ready" /\ work'[u].at = "protecting" /\ work[u].task = "power"
    BY <1>10 DEF PowerAdmitted, AllJudged
  <2>8. \A j \in Jobs : Judged(j).state = "interrupted" => lock[j] = {} /\ work[j].at \in {"idle", "done", "failed", "gone"}
    BY JudgedRecords
  <2>9. \A j \in Jobs : Judged(j).state = "completed" => j \in did \cup cut
    BY JudgedRecords
  <2>10. JobsTellTheTruth'
    BY <2>3, <2>7, <2>8, <2>9
  <2>11. WindowInv'
    BY <1>10, WindowInvariant DEF PowerAdmitted, AllJudged
  <2> QED
    BY <2>1, <2>2, <2>4, <2>5, <2>6, <2>10, <2>11
<1>11. CASE RequestPower(u)
  <2>1. JobsTypeOK'
    BY <1>11 DEF RequestPower
  <2>2. LockInv'
    BY <1>11 DEF RequestPower
  <2>3. AloneInv'
    BY <1>11 DEF RequestPower
  <2>4. WorkInv'
    BY <1>11 DEF RequestPower
  <2>5. PowerInv' /\ PowerInterlock'
    BY <1>11 DEF RequestPower
  <2>6. JobsTellTheTruth'
    BY <1>11 DEF RequestPower
  <2>7. WindowInv'
    BY ZenonT(60), <1>11 DEF RequestPower, WindowInv, WindowTypeOK, HolderInv, StoppedInv, NothingLeftDown,
                 QuietCapture, Stopping, Settled, StillStopped
  <2> QED
    BY <2>1, <2>2, <2>3, <2>4, <2>5, <2>6, <2>7
<1>12. CASE PowerAccepted(u)
  <2>1. JobsTypeOK'
    BY SMTT(60), <1>12 DEF PowerAccepted, ReleaseWindow
  <2>2. LockInv'
    BY <1>12 DEF PowerAccepted, ReleaseWindow
  <2>3. AloneInv'
    BY <1>12 DEF PowerAccepted, ReleaseWindow
  <2>4. WorkInv'
    BY <1>12 DEF PowerAccepted, ReleaseWindow
  <2>5. PowerInv' /\ PowerInterlock'
    BY <1>12 DEF PowerAccepted, ReleaseWindow
  <2>6. JobsTellTheTruth'
    BY SMTT(60), <1>12 DEF PowerAccepted, ReleaseWindow
  <2>7. WindowInv'
    BY <1>12, WindowInvariant DEF PowerAccepted, ReleaseWindow
  <2> QED
    BY <2>1, <2>2, <2>3, <2>4, <2>5, <2>6, <2>7
<1>13. CASE PowerFails(u)
  <2>1. /\ gate = u /\ gate' = Nobody /\ power' = NoPower
        /\ work' = [work EXCEPT ![u] = IF u = Operator THEN Gone ELSE [@ EXCEPT !.at = "failed"]]
        /\ UNCHANGED <<job, lock, settings, did, cut, boot>>
        /\ leaving' \in BOOLEAN
        /\ holder' = Idle \/ (holder' = holder /\ holder.by # u)
    BY <1>13 DEF PowerFails, ReleaseWindow
  <2>2. /\ \A v \in Users \ {u} : work'[v] = work[v]
        /\ work'[u].at \in {"gone", "failed"} /\ work'[u].task \in {"none", work[u].task}
        /\ work' \in [Users -> [task : {"none", "backup", "recover", "power"}, at : Places]]
    BY <2>1
  <2>3. JobsTypeOK'
    BY <2>1, <2>2
  <2>4. LockInv'
    BY <2>1, <2>2
  <2>5. AloneInv'
    BY <1>13 DEF PowerFails, ReleaseWindow
  <2>6. WorkInv'
    BY <2>1, <2>2
  <2>7. PowerInv' /\ PowerInterlock'
    BY <1>13 DEF PowerFails, ReleaseWindow
  <2>8. JobsTellTheTruth'
    BY <2>1, <2>2
  <2>9. WindowInv'
    BY <1>13, WindowInvariant DEF PowerFails, ReleaseWindow
  <2> QED
    BY <2>3, <2>4, <2>5, <2>6, <2>7, <2>8, <2>9
<1>14. CASE WindowFault(u)
  <2>1. JobsTypeOK'
    BY <1>14 DEF WindowFault, Raise, At, Go
  <2>2. LockInv'
    BY <1>14 DEF WindowFault, Raise, At, Go
  <2>3. AloneInv'
    BY <1>14 DEF WindowFault, Raise, At, Go
  <2>4. WorkInv'
    BY <1>14 DEF WindowFault, Raise, At, Go
  <2>5. PowerInv' /\ PowerInterlock'
    BY <1>14 DEF WindowFault, Raise, At, Go
  <2>6. JobsTellTheTruth'
    BY <1>14 DEF WindowFault, Raise, At, Go
  <2>7. WindowInv'
    BY <1>14, WindowInvariant DEF WindowFault, Raise, At, Go
  <2> QED
    BY <2>1, <2>2, <2>3, <2>4, <2>5, <2>6, <2>7
<1>15. CASE WindowStuck(u)
  <2>1. JobsTypeOK'
    BY <1>15 DEF WindowStuck, StartFails, At
  <2>2. work[u].at = "window"
    BY <1>15 DEF WindowStuck, StartFails, At, WindowInv, HolderInv
  <2>3. work' = [work EXCEPT ![u].at = "failed"] /\ UNCHANGED <<job, lock>>
    BY <1>15 DEF WindowStuck
  <2>4. LockInv'
    BY <2>2, <2>3
  <2>5. AloneInv'
    BY <1>15 DEF WindowStuck, StartFails, At
  <2>6. WorkInv'
    BY <1>15 DEF WindowStuck, StartFails, At
  <2>7. PowerInv' /\ PowerInterlock'
    <3>1. UNCHANGED <<lock, power, settings, did, cut, boot>>
      BY <1>15 DEF WindowStuck
    <3>2. \A v \in Users : work[v].at = "asking" => work'[v] = work[v]
      BY <2>2, <2>3
    <3> QED
      BY <3>1, <3>2
  <2>8. JobsTellTheTruth'
    BY <1>15 DEF WindowStuck, StartFails, At
  <2>9. WindowInv'
    BY <1>15, WindowInvariant DEF WindowStuck, StartFails, At
  <2> QED
    BY <2>1, <2>4, <2>5, <2>6, <2>7, <2>8, <2>9
<1> QED
  BY <1>1, <1>2, <1>3, <1>4, <1>5, <1>6, <1>7, <1>8, <1>9, <1>10, <1>11, <1>12, <1>13, <1>14, <1>15

(* Readers, the settings, and the rest of the appliance.                    *)
LEMMA HostInvariant ==
  ASSUME HostInv, 
         \/ List
         \/ \E task \in OperatorTasks : Begin(task)
         \/ OperatorRefused
         \/ KillServer
         \/ KillOperator
         \/ Boot
         \/ ChangeSettings
         \/ ChangeEnds
         \/ StartUnlocked
  PROVE  HostInv'
<1> USE DEF HostInv, JobsTypeOK, LockInv, AloneInv, WorkInv, PowerInv, JobsTellTheTruth,
            PowerInterlock, Places, Active, Live, At2, Reach, Faulty, GateFree, PowerPending,
            OthersActive, windowVars, Resting, Gone, NoPower, Nobody, Idle, Windows, Unasked
<1>1. CASE List
  <2>1. JobsTypeOK'
    BY <1>1, JudgedRecords DEF List, AllJudged
  <2>2. LockInv'
    BY SMTT(60), <1>1, JudgedRecords DEF List, AllJudged
  <2>3. AloneInv'
    <3>1. lock' = lock /\ gate' = gate
      BY <1>1 DEF List
    <3> QED
      BY <3>1
  <2>4. WorkInv'
    BY <1>1, JudgedRecords DEF List, AllJudged
  <2>5. PowerInv' /\ PowerInterlock'
    BY <1>1, JudgedRecords DEF List, AllJudged
  <2>6. JobsTellTheTruth'
    BY <1>1, JudgedRecords DEF List, AllJudged
  <2>7. WindowInv'
    BY <1>1, WindowInvariant DEF List, AllJudged
  <2> QED
    BY <2>1, <2>2, <2>3, <2>4, <2>5, <2>6, <2>7
<1>2. CASE \E task \in OperatorTasks : Begin(task)
  <2>1. JobsTypeOK'
    BY <1>2 DEF Begin
  <2>2. LockInv'
    BY <1>2 DEF Begin
  <2>3. AloneInv'
    BY SMTT(60), <1>2 DEF Begin
  <2>4. WorkInv'
    BY <1>2 DEF Begin
  <2>5. PowerInv' /\ PowerInterlock'
    BY <1>2 DEF Begin
  <2>6. UNCHANGED <<job, lock, did, cut>> /\ \A j \in Jobs : work'[j] = work[j]
    BY <1>2 DEF Begin
  <2>7. JobsTellTheTruth'
    BY <2>6
  <2>8. WindowInv'
    BY <1>2, WindowInvariant DEF Begin
  <2> QED
    BY <2>1, <2>2, <2>3, <2>4, <2>5, <2>7, <2>8
<1>3. CASE OperatorRefused
  <2>1. JobsTypeOK'
    BY <1>3 DEF OperatorRefused
  <2>2. LockInv'
    BY <1>3 DEF OperatorRefused
  <2>3. AloneInv'
    BY <1>3 DEF OperatorRefused
  <2>4. WorkInv'
    BY <1>3 DEF OperatorRefused
  <2>5. PowerInv' /\ PowerInterlock'
    BY <1>3 DEF OperatorRefused
  <2>6. JobsTellTheTruth'
    BY <1>3 DEF OperatorRefused
  <2>7. WindowInv'
    BY <1>3, WindowInvariant DEF OperatorRefused
  <2> QED
    BY <2>1, <2>2, <2>3, <2>4, <2>5, <2>6, <2>7
<1>4. CASE KillServer
  <2>1. JobsTypeOK'
    BY <1>4 DEF KillServer
  <2>2. LockInv'
    BY <1>4 DEF KillServer
  <2>3. \A i \in Jobs : Live(i)' => Live(i)
    BY <1>4 DEF KillServer
  <2>4. AloneInv'
    BY <1>4, <2>3 DEF KillServer
  <2>5. WorkInv'
    BY <1>4 DEF KillServer
  <2>6. PowerInv' /\ PowerInterlock'
    BY <1>4 DEF KillServer
  <2>7. JobsTellTheTruth'
    <3>1. /\ UNCHANGED <<job, work, did, cut>>
          /\ \A i \in Jobs : lock'[i] \subseteq lock[i]
      BY <1>4 DEF KillServer
    <3> QED
      BY <2>3, <3>1 DEF JobsTellTheTruth
  <2>8. WindowInv'
    BY <1>4, WindowInvariant DEF KillServer
  <2> QED
    BY <2>1, <2>2, <2>4, <2>5, <2>6, <2>7, <2>8
<1>5. CASE KillOperator
  <2>1. JobsTypeOK'
    BY <1>5 DEF KillOperator, Dead, ReleaseWindow
  <2>2. LockInv'
    BY <1>5 DEF KillOperator, Dead, ReleaseWindow
  <2>3. AloneInv'
    BY <1>5 DEF KillOperator, Dead, ReleaseWindow
  <2>4. WorkInv'
    BY <1>5 DEF KillOperator, Dead, ReleaseWindow
  <2>5. PowerInv' /\ PowerInterlock'
    BY <1>5 DEF KillOperator, Dead, ReleaseWindow
  <2>6. JobsTellTheTruth'
    BY <1>5 DEF KillOperator, Dead, ReleaseWindow
  <2>7. WindowInv'
    BY <1>5, WindowInvariant DEF KillOperator, Dead, ReleaseWindow
  <2> QED
    BY <2>1, <2>2, <2>3, <2>4, <2>5, <2>6, <2>7
<1>6. CASE Boot
  <2>1. work' \in [Users -> [task : {"none", "backup", "recover", "power"}, at : Places]]
    BY <1>6 DEF Boot
  <2>2. /\ lock' \in [Jobs -> SUBSET {"submitter", "worker", "command"}]
        /\ boot' \in Nat /\ gate' = Nobody /\ settings' = "stable" /\ leaving' = FALSE
        /\ UNCHANGED <<job, power, did>>
        /\ cut' = cut \cup {u \in Users : work[u].at = "asking"}
    BY <1>6 DEF Boot
  <2>3. JobsTypeOK'
    BY <2>1, <2>2
  <2>4. LockInv'
    BY <1>6 DEF Boot, BootServices
  <2>5. AloneInv'
    BY <1>6 DEF Boot, BootServices
  <2>6. WorkInv'
    BY <1>6 DEF Boot, BootServices
  <2>7. PowerInv' /\ PowerInterlock'
    BY <1>6 DEF Boot, BootServices
  <2>8. JobsTellTheTruth'
    BY <1>6 DEF Boot, BootServices
  <2>9. WindowInv'
    BY <1>6, WindowInvariant DEF Boot, BootServices
  <2> QED
    BY <2>3, <2>4, <2>5, <2>6, <2>7, <2>8, <2>9
<1>7. CASE ChangeSettings
  <2>1. JobsTypeOK'
    BY <1>7 DEF ChangeSettings
  <2>2. LockInv'
    BY <1>7 DEF ChangeSettings
  <2>3. AloneInv'
    BY <1>7 DEF ChangeSettings
  <2>4. WorkInv'
    BY <1>7 DEF ChangeSettings
  <2>5. PowerInv' /\ PowerInterlock'
    BY <1>7 DEF ChangeSettings
  <2>6. JobsTellTheTruth'
    BY <1>7 DEF ChangeSettings
  <2>7. WindowInv'
    BY <1>7, WindowInvariant DEF ChangeSettings
  <2> QED
    BY <2>1, <2>2, <2>3, <2>4, <2>5, <2>6, <2>7
<1>8. CASE ChangeEnds
  <2>1. JobsTypeOK'
    BY <1>8 DEF ChangeEnds
  <2>2. LockInv'
    BY <1>8 DEF ChangeEnds
  <2>3. AloneInv'
    BY <1>8 DEF ChangeEnds
  <2>4. WorkInv'
    BY <1>8 DEF ChangeEnds
  <2>5. PowerInv' /\ PowerInterlock'
    BY <1>8 DEF ChangeEnds
  <2>6. JobsTellTheTruth'
    BY <1>8 DEF ChangeEnds
  <2>7. WindowInv'
    BY <1>8, WindowInvariant DEF ChangeEnds
  <2> QED
    BY <2>1, <2>2, <2>3, <2>4, <2>5, <2>6, <2>7
<1>9. CASE StartUnlocked
  <2>1. JobsTypeOK'
    BY <1>9 DEF StartUnlocked, StartContainer, RestartGraphics, GraphicsStarts, Started, jobVars
  <2>2. LockInv'
    BY <1>9 DEF StartUnlocked, StartContainer, RestartGraphics, GraphicsStarts, Started, jobVars
  <2>3. AloneInv'
    BY <1>9 DEF StartUnlocked, StartContainer, RestartGraphics, GraphicsStarts, Started, jobVars
  <2>4. WorkInv'
    BY <1>9 DEF StartUnlocked, StartContainer, RestartGraphics, GraphicsStarts, Started, jobVars
  <2>5. PowerInv' /\ PowerInterlock'
    BY <1>9 DEF StartUnlocked, StartContainer, RestartGraphics, GraphicsStarts, Started, jobVars
  <2>6. JobsTellTheTruth'
    BY <1>9 DEF StartUnlocked, StartContainer, RestartGraphics, GraphicsStarts, Started, jobVars
  <2>7. WindowInv'
    <3>1. (\E s \in Services : StartContainer(s)) \/ RestartGraphics \/ GraphicsStarts
      BY <1>9 DEF StartUnlocked, StartContainer, Services, Compose
    <3> QED
      BY <3>1, WindowInvariant, JobsAssumption
  <2> QED
    BY <2>1, <2>2, <2>3, <2>4, <2>5, <2>6, <2>7
<1> QED
  BY <1>1, <1>2, <1>3, <1>4, <1>5, <1>6, <1>7, <1>8, <1>9

LEMMA InitInvariant == HostInit => HostInv
<1> SUFFICES ASSUME HostInit
             PROVE  HostInv
  OBVIOUS
<1>1. WindowInv
  BY DEF HostInit, WindowInit, WindowInv, WindowTypeOK, HolderInv, StoppedInv, NothingLeftDown,
         QuietCapture, Stopping, Windows, Idle, Settled, Nobody, Compose, Services
<1>2. JobsTypeOK
  BY DEF HostInit, JobsTypeOK, Places, Resting, NoPower, Nobody
<1>3. LockInv /\ AloneInv
  BY DEF HostInit, LockInv, AloneInv, Active, Live, Resting, Nobody
<1>4. WorkInv /\ PowerInv
  BY DEF HostInit, WindowInit, WorkInv, PowerInv, Resting, NoPower, Nobody, Idle
<1>5. JobsTellTheTruth /\ PowerInterlock
  BY DEF HostInit, JobsTellTheTruth, PowerInterlock, Live, NoPower
<1> QED
  BY <1>1, <1>2, <1>3, <1>4, <1>5 DEF HostInv

LEMMA NextInvariant ==
  ASSUME HostInv, [HostNext]_hostVars
  PROVE  HostInv'
<1>1. CASE UNCHANGED hostVars
  <2>1. WindowInv'
    BY <1>1 DEF hostVars, windowVars, HostInv, WindowInv, WindowTypeOK, HolderInv, StoppedInv,
                NothingLeftDown, QuietCapture
  <2>2. /\ JobsTypeOK' /\ LockInv' /\ AloneInv' /\ WorkInv' /\ PowerInv'
        /\ JobsTellTheTruth' /\ PowerInterlock'
    BY SMTT(60), <1>1 DEF hostVars, windowVars, jobVars, HostInv, JobsTypeOK, LockInv, AloneInv, WorkInv,
                PowerInv, JobsTellTheTruth, PowerInterlock, Active, Live
  <2> QED
    BY <2>1, <2>2 DEF HostInv
<1> QED
  BY <1>1, JobInvariant, RunInvariant, HostInvariant DEF HostNext, Serve, Run

LEMMA Invariance == HostSpec => []HostInv
  BY InitInvariant, NextInvariant, PTL DEF HostSpec

-------------------------------------------------------------------------------
(* No two jobs are at work, none that is alive is reported as ended, and a   *)
(* completed one did its work, or is a power request that ended between its  *)
(* record and its call of systemctl.                                         *)
THEOREM SpecJobsTellTheTruth == HostSpec => []JobsTellTheTruth
<1>1. HostInv => JobsTellTheTruth
  BY DEF HostInv
<1> QED
  BY <1>1, Invariance, PTL

(* From an accepted power request to the next boot no other job is alive and *)
(* no settings change waits.                                                 *)
THEOREM SpecPowerInterlock == HostSpec => []PowerInterlock
<1>1. HostInv => PowerInterlock
  BY DEF HostInv
<1> QED
  BY <1>1, Invariance, PTL

(* What was running and is down is in the record a recovery starts from, or  *)
(* is a container that was started behind a window that had not saved it.    *)
THEOREM SpecNothingLeftDown == HostSpec => []NothingLeftDown
<1>1. HostInv => NothingLeftDown
  BY DEF HostInv, WindowInv
<1> QED
  BY <1>1, Invariance, PTL

(* While data is captured the administration is down, and nothing runs but   *)
(* what was started, under no lock, after the window had stopped its kind;   *)
(* the kiosk that a checkpoint stopped is not even among that.               *)
THEOREM SpecQuietCapture == HostSpec => []QuietCapture
<1>1. HostInv => QuietCapture
  BY DEF HostInv, WindowInv
<1> QED
  BY <1>1, Invariance, PTL

===============================================================================
