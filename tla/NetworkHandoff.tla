---------------------------- MODULE NetworkHandoff ----------------------------
(***************************************************************************)
(* appliance/lib/network_checkpoint_restore.py: the network is restored    *)
(* from a checkpoint by two journals.  A job records a maintenance, stops  *)
(* the services, pins the checkpoint and one to go back to, starts the     *)
(* services and stages a network transaction that it owns.  The network's  *)
(* worker applies, confirms or undoes that transaction whenever it likes,  *)
(* and then ends the maintenance: it releases the pins, leaves a receipt   *)
(* and records the outcome, which the network's record acknowledges.       *)
(***************************************************************************)
EXTENDS Naturals

CONSTANTS
    MaxRestores,      \* bound on the restores
    MaxHandoffFaults  \* bound on errors, kills and boots

ASSUME HandoffAssumption == MaxRestores \in Nat

Restores == 1..MaxRestores
Ended == {"none", "completed", "rolled-back"}
Decided == {"idle", "confirmed", "rolled-back"}
Pins == {"source", "rollback"}

VARIABLES
    maint,     \* maintenance.json: the restore, 0 for another operation, and its state
    net,       \* the network's record: the restore that owns it, phase, cleanupComplete
    receipt,   \* network-restore-<owner>.json: the phase it names
    pins,      \* the checkpoints each restore has pinned
    down,      \* the services are stopped
    holder,    \* who has the maintenance lock, and what it does next
    last,      \* the restores so far
    fate,      \* history: how the network's part of each restore ended
    mishaps

handoffVars == <<maint, net, receipt, pins, down, holder, last, fate, mishaps>>

Nobody == [who |-> "none", next |-> "none"]

HandoffInit ==
    /\ maint = [id |-> 0, state |-> "none"]
    /\ net = [owner |-> 0, phase |-> "idle", clean |-> FALSE]
    /\ receipt = [i \in Restores |-> "none"] /\ pins = [i \in Restores |-> {}]
    /\ down = FALSE /\ holder = Nobody
    /\ last = 0 /\ fate = receipt /\ mishaps = 0

-----------------------------------------------------------------------------
(* start *)

StartRestore ==
    /\ holder = Nobody /\ maint.state \in Ended
    /\ last < MaxRestores /\ last' = last + 1
    /\ maint' = [id |-> last', state |-> "stopping"]
    /\ holder' = [who |-> "job", next |-> "stop"]
    /\ UNCHANGED <<net, receipt, pins, down, fate, mishaps>>

Does(who, step, next) ==
    /\ holder = [who |-> who, next |-> step]
    /\ holder' = [who |-> who, next |-> next]

StopWriters ==
    /\ Does("job", "stop", "pin")
    /\ down' = TRUE /\ maint' = [maint EXCEPT !.state = "working"]
    /\ UNCHANGED <<net, receipt, pins, last, fate, mishaps>>

PinSource ==
    /\ Does("job", "pin", "capture")
    /\ pins' = [pins EXCEPT ![maint.id] = {"source"}]
    /\ UNCHANGED <<maint, net, receipt, down, last, fate, mishaps>>

CaptureRollback ==
    /\ Does("job", "capture", "resume")
    /\ pins' = [pins EXCEPT ![maint.id] = Pins]
    /\ maint' = [maint EXCEPT !.state = "starting"]
    /\ UNCHANGED <<net, receipt, down, last, fate, mishaps>>

ResumeWriters ==
    /\ Does("job", "resume", "await")
    /\ down' = FALSE
    /\ UNCHANGED <<maint, net, receipt, pins, last, fate, mishaps>>

AwaitNetwork ==
    /\ Does("job", "await", "stage")
    /\ maint' = [maint EXCEPT !.state = "awaiting-network"]
    /\ UNCHANGED <<net, receipt, pins, down, last, fate, mishaps>>

\* NetworkTransaction.stage: the last record must be decided and acknowledged.
Stageable == net.phase \in Decided /\ (net.owner # 0 => net.clean)

StageNetwork ==
    /\ IF Stageable
       THEN /\ Does("job", "stage", "return")
            /\ net' = [owner |-> maint.id, phase |-> "staged", clean |-> FALSE]
       ELSE Does("job", "stage", "recover") /\ UNCHANGED net
    /\ UNCHANGED <<maint, receipt, pins, down, last, fate, mishaps>>

JobReturns ==
    /\ holder = [who |-> "job", next |-> "return"]
    /\ holder' = Nobody
    /\ UNCHANGED <<maint, net, receipt, pins, down, last, fate, mishaps>>

\* An error of any step, and one of the staging that has been recorded.
JobFails ==
    /\ mishaps < MaxHandoffFaults /\ mishaps' = mishaps + 1
    /\ holder.who = "job" /\ holder.next \in {"stop", "pin", "capture", "resume", "stage", "return"}
    /\ holder' = [who |-> "job", next |-> "recover"]
    /\ UNCHANGED <<maint, net, receipt, pins, down, last, fate>>

-----------------------------------------------------------------------------
(* recover_locked and release *)

Owned == net.owner # 0 /\ net.owner = maint.id

OperatorRecovers ==
    /\ holder = Nobody /\ maint.state \notin Ended
    /\ holder' = [who |-> "operator", next |-> "recover"]
    /\ UNCHANGED <<maint, net, receipt, pins, down, last, fate, mishaps>>

\* Mutant: a restore whose job is over is one whose network is.
RecoverAnyway ==
    /\ holder.next = "recover"
    /\ holder' = [holder EXCEPT !.next = "unpin"]
    /\ down' = IF Owned THEN down ELSE FALSE
    /\ UNCHANGED <<maint, net, receipt, pins, last, fate, mishaps>>

\* A network that is not decided yet keeps the record and the pins.
RecoverHandoff ==
    /\ holder.next = "recover"
    /\ holder' = IF Owned /\ (maint.state # "awaiting-network" \/ net.phase \notin Decided) THEN Nobody
                 ELSE [holder EXCEPT !.next = "unpin"]
    /\ down' = IF Owned THEN down ELSE FALSE
    /\ UNCHANGED <<maint, net, receipt, pins, last, fate, mishaps>>

UnpinOwner ==
    /\ holder.next = "unpin"
    /\ pins' = [pins EXCEPT ![maint.id] = {}]
    /\ holder' = [holder EXCEPT !.next = IF Owned THEN "receipt" ELSE "outcome"]
    /\ UNCHANGED <<maint, net, receipt, down, last, fate, mishaps>>

LeaveReceipt ==
    /\ holder.next = "receipt"
    /\ receipt' = [receipt EXCEPT ![maint.id] = net.phase]
    /\ holder' = [holder EXCEPT !.next = "outcome"]
    /\ UNCHANGED <<maint, net, pins, down, last, fate, mishaps>>

SaveOutcome ==
    /\ holder.next = "outcome"
    /\ maint' = [maint EXCEPT !.state = IF Owned /\ net.phase = "confirmed" THEN "completed" ELSE "rolled-back"]
    /\ holder' = Nobody
    /\ UNCHANGED <<net, receipt, pins, down, last, fate, mishaps>>

-----------------------------------------------------------------------------
(* The network's worker *)

\* Applied, confirmed, or undone: see NetworkTransaction.
NetworkMoves ==
    \E p \in {"pending", "confirmed", "rolled-back"} :
        /\ \/ net.phase = "staged" /\ p # "confirmed"
           \/ net.phase = "pending" /\ p # "pending"
        /\ net' = [net EXCEPT !.phase = p]
        /\ fate' = IF p = "pending" \/ net.owner = 0 THEN fate ELSE [fate EXCEPT ![net.owner] = p]
        /\ UNCHANGED <<maint, receipt, pins, down, holder, last, mishaps>>

ToFinalize == net.owner # 0 /\ net.phase \in Decided /\ ~net.clean

\* finalize: takes the maintenance lock, then reads the network's record again.
BeginFinalize ==
    /\ ToFinalize /\ holder = Nobody
    /\ maint.id = net.owner /\ maint.state = "awaiting-network"
    /\ holder' = [who |-> "worker", next |-> "unpin"]
    /\ UNCHANGED <<maint, net, receipt, pins, down, last, fate, mishaps>>

\* The outcome is recorded; the receipt tells when the record is another's by now.
Acknowledge ==
    /\ ToFinalize /\ holder = Nobody
    /\ IF maint.id = net.owner THEN maint.state \in Ended ELSE receipt[net.owner] = net.phase
    /\ net' = [net EXCEPT !.clean = TRUE]
    /\ UNCHANGED <<maint, receipt, pins, down, holder, last, fate, mishaps>>

-----------------------------------------------------------------------------
(* The rest of the appliance *)

OtherMaintenance ==
    /\ holder = Nobody /\ maint.state \in Ended /\ maint.id # 0
    /\ maint' = [id |-> 0, state |-> "completed"]
    /\ UNCHANGED <<net, receipt, pins, down, holder, last, fate, mishaps>>

OtherChange ==
    /\ Stageable /\ net.owner # 0
    /\ net' = [owner |-> 0, phase |-> "staged", clean |-> FALSE]
    /\ UNCHANGED <<maint, receipt, pins, down, holder, last, fate, mishaps>>

HolderKilled ==
    /\ mishaps < MaxHandoffFaults /\ mishaps' = mishaps + 1
    /\ holder # Nobody /\ holder' = Nobody
    /\ UNCHANGED <<maint, net, receipt, pins, down, last, fate>>

\* Before the network starts, a change nobody confirmed is undone.
HandoffBoot ==
    /\ mishaps < MaxHandoffFaults /\ mishaps' = mishaps + 1
    /\ holder' = Nobody /\ down' = FALSE
    /\ IF net.phase \in Decided THEN UNCHANGED <<net, fate>>
       ELSE /\ net' = [net EXCEPT !.phase = "rolled-back"]
            /\ fate' = IF net.owner = 0 THEN fate ELSE [fate EXCEPT ![net.owner] = "rolled-back"]
    /\ UNCHANGED <<maint, receipt, pins, last>>

HolderSteps ==
    \/ StopWriters \/ PinSource \/ CaptureRollback \/ ResumeWriters \/ AwaitNetwork
    \/ StageNetwork \/ JobReturns
    \/ RecoverHandoff \/ UnpinOwner \/ LeaveReceipt \/ SaveOutcome

HandoffNext ==
    \/ StartRestore \/ HolderSteps \/ JobFails
    \/ OperatorRecovers \/ NetworkMoves \/ BeginFinalize \/ Acknowledge
    \/ OtherMaintenance \/ OtherChange \/ HolderKilled \/ HandoffBoot

-----------------------------------------------------------------------------
(* What is promised *)

\* While the network's part of a restore is undecided, the maintenance that owns
\* it is not over and both its checkpoints stay pinned.
HandoffKept ==
    (net.owner # 0 /\ net.phase \notin Decided) =>
        /\ maint = [id |-> net.owner, state |-> "awaiting-network"]
        /\ pins[net.owner] = Pins

\* A restore that is over has no pins left and tells how its network ended.
HandoffOutcome ==
    /\ maint.id # 0 /\ maint.state \in Ended =>
           maint.state = (IF fate[maint.id] = "confirmed" THEN "completed" ELSE "rolled-back")
    /\ \A i \in Restores : pins[i] # {} => maint.id = i /\ maint.state \notin Ended

\* Every restore comes to an end, and its network is acknowledged, which lets
\* another network change be staged.
HandoffEnds == /\ (maint.state \notin Ended) ~> (maint.state \in Ended)
               /\ (net.owner # 0) ~> (net.owner # 0 => net.clean)
=============================================================================
