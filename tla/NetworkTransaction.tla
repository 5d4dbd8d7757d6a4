--------------------------- MODULE NetworkTransaction ---------------------------
(***************************************************************************)
(* appliance/lib/network_transaction.py: a Netplan change that is staged   *)
(* by the management service, applied and rolled back by the watchdog      *)
(* (network_worker.py), confirmed by a connection through the new address  *)
(* (network_listener.py) and undone before the network starts after a boot *)
(* (elderbrain-network-recovery.service).                                  *)
(*                                                                         *)
(* Every operation holds the transaction's lock from its first read to its *)
(* last write, so at most one is in progress; task is where it is.  What   *)
(* the lock does not exclude is everything else that edits /etc/netplan.   *)
(*                                                                         *)
(* The content of a Netplan source is an integer: 0 as installed, i > 0    *)
(* the candidate of transaction i, negative what an external edit wrote.   *)
(***************************************************************************)
EXTENDS Integers, FiniteSets

CONSTANTS
  Files,            \* the Netplan sources a transaction changes
  MaxTransactions,  \* bound on the transactions
  MaxEdits,         \* bound on the external edits
  MaxFaults         \* bound on kills, power losses and failing backend calls

ASSUME FilesAssumption == Files # {} /\ IsFiniteSet(Files)
ASSUME BoundsAssumption ==
  MaxTransactions \in Nat /\ MaxEdits \in Nat /\ MaxFaults \in Nat

VARIABLES
  file,      \* the content of each Netplan source
  live,      \* the sources the running or the next network was made from
  phase,     \* the record's phase, "idle" while there is no record
  id,        \* the record's transaction
  before,    \* the record's originals
  deadline,  \* "open", "passed", or "stale" for a record of an earlier boot
  boot,      \* "off", "recovery" (its unit runs), "recovered" (it exited 0),
             \* "blocked" (it failed) or "up" (the network runs)
  task,        \* the operation in progress; raced are the sources that an edit
             \* changed between their comparison and their replacement
  accepted,  \* transactions that were confirmed
  edits, networkFaults

record == <<phase, id, before, deadline>>
networkVars == <<file, live, phase, id, before, deadline, boot, task, accepted, edits,
                 networkFaults>>

NoTask == [op |-> "none", step |-> "idle", left |-> {}, raced |-> {}]
Begin(op, step) == [op |-> op, step |-> step, left |-> Files, raced |-> {}]
Goto(step) == task' = [task EXCEPT !.step = step, !.left = Files]
Done(f) == task' = [task EXCEPT !.left = @ \ {f}]
At(step, f) == task.step = step /\ f \in task.left
Past(step) == task.step = step /\ task.left = {}

Terminal == {"idle", "confirmed", "rolled-back"}

NetworkInit ==
  /\ file = [f \in Files |-> 0]
  /\ live = file
  /\ phase = "idle"
  /\ id = 0
  /\ before = file
  /\ deadline = "open"
  /\ boot = "up"
  /\ task = NoTask
  /\ accepted = {}
  /\ edits = 0
  /\ networkFaults = 0

-------------------------------------------------------------------------------
(* stage *)

(* The originals are read again under the lock and become durable. *)
Stage ==
  /\ boot = "up"
  /\ task = NoTask
  /\ phase \in Terminal
  /\ id < MaxTransactions
  /\ phase' = "staged"
  /\ id' = id + 1
  /\ before' = file
  /\ deadline' = "open"
  /\ UNCHANGED <<file, live, boot, task, accepted, edits, networkFaults>>

-------------------------------------------------------------------------------
(* restore: a staged record is dropped, any other one is rolled back *)

(* The boot's recovery still has its terminal record finalized; the others  *)
(* do so after they have given up the lock (see NetworkHandoff).            *)
Ended(op) == IF op = "boot" THEN Begin("boot", "finalize") ELSE NoTask

(* Mutant: an interrupted application is dropped like a staged record. *)
DropInterrupted(op) ==
  IF phase \in {"staged", "applying"}
    THEN phase' = "rolled-back" /\ task' = Ended(op)
    ELSE phase' = "rolling-back" /\ task' = Begin(op, "compare")

BeginRestore(op) ==
  IF phase = "staged"
    THEN phase' = "rolled-back" /\ task' = Ended(op)
    ELSE phase' = "rolling-back" /\ task' = Begin(op, "compare")

(* Mutant: rollback does not compare. *)
CompareNothing(f) ==
  /\ At("compare", f)
  /\ Done(f)
  /\ UNCHANGED <<file, live, record, boot, accepted, edits, networkFaults>>

(* A third content refuses the rollback; the record stays as it is. *)
CompareFile(f) ==
  /\ At("compare", f)
  /\ IF file[f] \in {before[f], id} THEN Done(f) ELSE task' = NoTask
  /\ boot' = IF task'.step = "idle" /\ task.op = "boot" THEN "blocked" ELSE boot
  /\ UNCHANGED <<file, live, record, accepted, edits, networkFaults>>

Compared ==
  /\ Past("compare")
  /\ Goto("put-back")
  /\ UNCHANGED <<file, live, record, boot, accepted, edits, networkFaults>>

(* Mutant: the sources as installed are put back. *)
RestoreInstalled(f) ==
  /\ At("put-back", f)
  /\ file' = [file EXCEPT ![f] = 0]
  /\ Done(f)
  /\ UNCHANGED <<live, record, boot, accepted, edits, networkFaults>>

RestoreFile(f) ==
  /\ At("put-back", f)
  /\ file' = [file EXCEPT ![f] = before[f]]
  /\ Done(f)
  /\ UNCHANGED <<live, record, boot, accepted, edits, networkFaults>>

(* netplan apply, or netplan generate before the network starts *)
Reactivate ==
  /\ Past("put-back")
  /\ live' = file
  /\ Goto("restored")
  /\ UNCHANGED <<file, record, boot, accepted, edits, networkFaults>>

MarkRolledBack ==
  /\ task.step = "restored"
  /\ phase' = "rolled-back"
  /\ task' = Ended(task.op)
  /\ UNCHANGED <<file, live, id, before, deadline, boot, accepted, edits, networkFaults>>

-------------------------------------------------------------------------------
(* tick, called every second *)

(* Mutant: the watchdog does not look at the deadline.                      *)
TickInterrupted ==
  /\ boot = "up"
  /\ task = NoTask
  /\ phase \in {"applying", "rolling-back"}
  /\ BeginRestore("tick")
  /\ UNCHANGED <<file, live, id, before, deadline, boot, accepted, edits, networkFaults>>

TickRestore ==
  /\ boot = "up"
  /\ task = NoTask
  /\ phase \notin Terminal
  /\ phase \in {"applying", "rolling-back"} \/ deadline # "open"
  /\ BeginRestore("tick")
  /\ UNCHANGED <<file, live, id, before, deadline, boot, accepted, edits, networkFaults>>

TickStaged ==
  /\ boot = "up"
  /\ task = NoTask
  /\ phase = "staged"
  /\ deadline = "open"
  /\ task' = Begin("tick", "check")
  /\ UNCHANGED <<file, live, record, boot, accepted, edits, networkFaults>>

(* An edit before application discards the candidate. *)
CheckSource(f) ==
  /\ At("check", f)
  /\ IF file[f] = before[f]
       THEN Done(f) /\ UNCHANGED phase
       ELSE BeginRestore("tick")
  /\ UNCHANGED <<file, live, id, before, deadline, boot, accepted, edits, networkFaults>>

BeginApply ==
  /\ Past("check")
  /\ phase' = "applying"
  /\ Goto("replace")
  /\ UNCHANGED <<file, live, id, before, deadline, boot, accepted, edits, networkFaults>>

ReplaceFile(f) ==
  /\ At("replace", f)
  /\ file' = [file EXCEPT ![f] = id]
  /\ Done(f)
  /\ UNCHANGED <<live, record, boot, accepted, edits, networkFaults>>

ApplyNetwork ==
  /\ Past("replace")
  /\ live' = file
  /\ Goto("applied")
  /\ UNCHANGED <<file, record, boot, accepted, edits, networkFaults>>

MarkPending ==
  /\ task.step = "applied"
  /\ phase' = "pending"
  /\ task' = NoTask
  /\ UNCHANGED <<file, live, id, before, deadline, boot, accepted, edits, networkFaults>>

-------------------------------------------------------------------------------
(* confirm and cancel *)

ConfirmExpired ==
  /\ boot = "up"
  /\ task = NoTask
  /\ phase = "pending"
  /\ deadline # "open"
  /\ BeginRestore("confirm")
  /\ UNCHANGED <<file, live, id, before, deadline, boot, accepted, edits, networkFaults>>

(* The proof is a connection to an address the candidate configured. *)
BeginConfirm ==
  /\ boot = "up"
  /\ task = NoTask
  /\ phase = "pending"
  /\ deadline = "open"
  /\ \E f \in Files : live[f] = id
  /\ task' = Begin("confirm", "verify")
  /\ UNCHANGED <<file, live, record, boot, accepted, edits, networkFaults>>

VerifyFile(f) ==
  /\ At("verify", f)
  /\ IF file[f] = id THEN Done(f) ELSE task' = NoTask
  /\ UNCHANGED <<file, live, record, boot, accepted, edits, networkFaults>>

MarkConfirmed ==
  /\ Past("verify")
  /\ phase' = "confirmed"
  /\ accepted' = accepted \cup {id}
  /\ task' = NoTask
  /\ UNCHANGED <<file, live, id, before, deadline, boot, edits, networkFaults>>

Cancel ==
  /\ boot = "up"
  /\ task = NoTask
  /\ phase \notin Terminal
  /\ BeginRestore("cancel")
  /\ UNCHANGED <<file, live, id, before, deadline, boot, accepted, edits, networkFaults>>

-------------------------------------------------------------------------------
(* Boot: Netplan's generator reads the sources, the recovery unit undoes an *)
(* unconfirmed change, and only its success lets the network start.         *)

StartBoot ==
  /\ boot = "off"
  /\ boot' = "recovery"
  /\ live' = file
  /\ UNCHANGED <<file, record, task, accepted, edits, networkFaults>>

(* Mutant: only a pending change is undone at boot. *)
RecoverPending ==
  /\ boot = "recovery"
  /\ task = NoTask
  /\ IF phase = "pending"
       THEN BeginRestore("boot")
       ELSE task' = Begin("boot", "finalize") /\ UNCHANGED phase
  /\ UNCHANGED <<file, live, id, before, deadline, boot, accepted, edits, networkFaults>>

RecoverBoot ==
  /\ boot = "recovery"
  /\ task = NoTask
  /\ IF phase \notin Terminal
       THEN BeginRestore("boot")
       ELSE task' = Begin("boot", "finalize") /\ UNCHANGED phase
  /\ UNCHANGED <<file, live, id, before, deadline, boot, accepted, edits, networkFaults>>

(* The unit ends with exit status 0. *)
FinalizeBoot ==
  /\ task.step = "finalize"
  /\ boot' = "recovered"
  /\ task' = NoTask
  /\ UNCHANGED <<file, live, record, accepted, edits, networkFaults>>

(* Requires= and After= of the network's units. *)
StartNetwork ==
  /\ boot = "recovered"
  /\ boot' = "up"
  /\ UNCHANGED <<file, live, record, task, accepted, edits, networkFaults>>

-------------------------------------------------------------------------------
(* The clock, other editors, and faults *)

Expire ==
  /\ phase \notin Terminal
  /\ deadline = "open"
  /\ deadline' = "passed"
  /\ UNCHANGED <<file, live, phase, id, before, boot, task, accepted, edits, networkFaults>>

(* The source has been compared and is still to be replaced. *)
ToReplace(f) ==
  \/ task.step \in {"check", "compare"} /\ f \notin task.left
  \/ task.step \in {"replace", "put-back"} /\ f \in task.left

Edit(f) ==
  /\ edits < MaxEdits
  /\ edits' = edits + 1
  /\ task' = IF ToReplace(f) THEN [task EXCEPT !.raced = @ \cup {f}] ELSE task
  /\ file' = [file EXCEPT ![f] = -(edits + 1)]
  /\ UNCHANGED <<live, record, boot, accepted, networkFaults>>

(* The operator gives way to a rollback that an edit refuses. *)
Resolve(f) ==
  /\ task = NoTask
  /\ phase = "rolling-back"
  /\ file[f] \notin {before[f], id}
  /\ file' = [file EXCEPT ![f] = before[f]]
  /\ UNCHANGED <<live, record, boot, task, accepted, edits, networkFaults>>

Fault == networkFaults < MaxFaults /\ networkFaults' = networkFaults + 1

(* A write or the backend fails while the candidate is applied; a backend   *)
(* that timed out may have taken effect.                                    *)
ApplyFails ==
  /\ Fault
  /\ task.step = "replace"
  /\ live' \in {live} \cup (IF task.left = {} THEN {file} ELSE {})
  /\ BeginRestore("tick")
  /\ UNCHANGED <<file, id, before, deadline, boot, accepted, edits>>

RestoreFails ==
  /\ Fault
  /\ task.step = "put-back"
  /\ live' \in {live} \cup (IF task.left = {} THEN {file} ELSE {})
  /\ task' = NoTask
  /\ boot' = IF task.op = "boot" THEN "blocked" ELSE boot
  /\ UNCHANGED <<file, record, accepted, edits>>

NetworkKilled ==
  /\ Fault
  /\ task # NoTask
  /\ task' = NoTask
  /\ boot' = IF task.op = "boot" THEN "blocked" ELSE boot
  /\ UNCHANGED <<file, live, record, accepted, edits>>

PowerOff ==
  /\ boot' = "off"
  /\ task' = NoTask
  /\ deadline' = "stale"
  /\ UNCHANGED <<file, live, phase, id, before, accepted, edits>>

NetworkPowerLoss == Fault /\ boot # "off" /\ PowerOff

(* Whoever finds the appliance without a network restarts it. *)
Reboot == boot = "blocked" /\ PowerOff /\ UNCHANGED networkFaults

RestoreStep ==
  \/ \E f \in Files : CompareFile(f) \/ RestoreFile(f)
  \/ Compared \/ Reactivate \/ MarkRolledBack

TickStep ==
  \/ TickRestore \/ TickStaged \/ BeginApply \/ ApplyNetwork \/ MarkPending
  \/ \E f \in Files : CheckSource(f) \/ ReplaceFile(f)

ConfirmStep ==
  \/ ConfirmExpired \/ BeginConfirm \/ MarkConfirmed
  \/ \E f \in Files : VerifyFile(f)

BootStep == StartBoot \/ RecoverBoot \/ FinalizeBoot \/ StartNetwork

Environment ==
  \/ Expire
  \/ \E f \in Files : Edit(f) \/ Resolve(f)
  \/ ApplyFails \/ RestoreFails \/ NetworkKilled \/ NetworkPowerLoss \/ Reboot

NetworkNext == Stage \/ Cancel \/ RestoreStep \/ TickStep \/ ConfirmStep \/ BootStep \/ Environment

NetworkSpec == NetworkInit /\ [][NetworkNext]_networkVars

-------------------------------------------------------------------------------
(* Properties *)

Contents == -MaxEdits..MaxTransactions

(* Type invariant. *)
NetworkTypeOK ==
  /\ file \in [Files -> Contents]
  /\ live \in [Files -> Contents]
  /\ phase \in Terminal \cup {"staged", "applying", "pending", "rolling-back"}
  /\ id \in 0..MaxTransactions
  /\ before \in [Files -> Contents]
  /\ deadline \in {"open", "passed", "stale"}
  /\ boot \in {"off", "recovery", "recovered", "blocked", "up"}
  /\ task \in [op : {"none", "tick", "confirm", "cancel", "boot"},
               step : {"idle", "compare", "put-back", "restored", "check", "replace",
                       "applied", "verify", "finalize"},
               left : SUBSET Files, raced : SUBSET Files]
  /\ accepted \subseteq 1..MaxTransactions
  /\ edits \in 0..MaxEdits
  /\ networkFaults \in 0..MaxFaults

Unconfirmed(c) == c > 0 /\ c \notin accepted

(* A candidate nobody confirmed is in a source or in the network only while *)
(* the record still obliges the watchdog or the next boot to undo it.       *)
ObligationRecorded ==
  phase \in Terminal \cup {"staged"} =>
    \A f \in Files : ~Unconfirmed(file[f]) /\ ~Unconfirmed(live[f])

(* "invalidation across boots" (NETWORK-SAFETY.md:17): after a restart the  *)
(* network comes up, if at all, without a candidate that nobody confirmed,  *)
(* neither in its sources nor in what was generated from them at boot.      *)
BootsWithoutCandidate ==
  boot = "up" /\ deadline = "stale" =>
    \A f \in Files : ~Unconfirmed(file[f]) /\ ~Unconfirmed(live[f])

(* What is confirmed is what the network was running when the confirmation  *)
(* came, in full.                                                           *)
ConfirmsWhatRuns ==
  [][phase # "confirmed" /\ phase' = "confirmed" =>
       \A f \in Files : live[f] = id]_networkVars

(* "exact original restoration before reapplying networking" (:17): without *)
(* edits a rolled-back change leaves sources and network as they were.      *)
OriginalsRestored ==
  phase = "rolled-back" /\ edits = 0 /\ boot = "up" => file = before /\ live = before

(* What an operation replaces is what it recorded or wrote itself: an edit, *)
(* whenever it comes, is kept, unless it falls between the comparison of    *)
(* its source and the replacement of it by the same operation (task.raced). *)
EditsKept ==
  [][task # NoTask /\ edits' = edits =>
       \A f \in Files \ task.raced : file'[f] # file[f] => file[f] \in {before[f], id}]_networkVars

(* Every change is decided: confirmed, or undone by the watchdog or a boot. *)
EventuallySettled == phase \notin Terminal ~> phase \in Terminal

(* What the record says of a change is what the sources and the network are *)
(* at, and what it obliges the watchdog and the boots to.                   *)
NetworkSound == NetworkTypeOK /\ ObligationRecorded

(* Changes are decided, and only what runs is decided upon.                 *)
NetworkSettles == ConfirmsWhatRuns /\ EventuallySettled
===============================================================================
