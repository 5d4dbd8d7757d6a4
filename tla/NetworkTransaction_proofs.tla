----------------------- MODULE NetworkTransaction_proofs -----------------------
(***************************************************************************)
(* What NetworkTransaction promises, for any set of sources and any number *)
(* of transactions, external edits and faults.                             *)
(***************************************************************************)
EXTENDS NetworkTransaction, TLAPS

USE FilesAssumption, BoundsAssumption

Restoring == {"compare", "put-back", "restored"}

(* The recovery unit exits 0 with a terminal record, and only then the       *)
(* network starts.                                                          *)
RecoveredInv ==
  /\ boot = "recovered" => phase \in Terminal /\ task = NoTask
  /\ boot = "up" /\ deadline = "stale" => phase \in Terminal
  /\ boot \in {"off", "blocked"} => task = NoTask

(* The operation in progress works on the phase it recorded, and those of  *)
(* the management service and of the watchdog only run with the network.   *)
StepsInv ==
  /\ task.step \in Restoring => phase = "rolling-back"
  /\ task.step = "check" => phase = "staged"
  /\ task.step \in {"replace", "applied"} => phase = "applying"
  /\ task.step = "verify" => phase = "pending"
  /\ task.op \in {"tick", "confirm", "cancel"} => boot = "up"
  /\ task.op = "boot" => boot = "recovery" /\ task.step \in Restoring \cup {"finalize"}
  /\ task.step = "finalize" => phase \in Terminal /\ task.op = "boot"
  /\ task.op = "none" => task = NoTask
  /\ task.step = "idle" => task = NoTask
  /\ phase # "idle" => id >= 1

(* A candidate nobody confirmed is that of the record, and neither an       *)
(* original nor a source that has been put back.                            *)
CandidateInv ==
  /\ \A f \in Files : /\ Unconfirmed(file[f]) => file[f] = id
                      /\ Unconfirmed(live[f]) => live[f] = id
                      /\ ~Unconfirmed(before[f])
                      /\ task.step = "put-back" /\ f \notin task.left => ~Unconfirmed(file[f])
                      /\ task.step = "restored" => ~Unconfirmed(file[f]) /\ ~Unconfirmed(live[f])

(* What an operation is going to replace has been compared, unless an edit  *)
(* came in between.                                                         *)
Compares ==
  \A f \in Files \ task.raced :
    /\ task.step = "check" /\ f \notin task.left => file[f] = before[f]
    /\ task.step = "replace" /\ f \in task.left => file[f] = before[f]
    /\ task.step = "compare" /\ f \notin task.left => file[f] \in {before[f], id}
    /\ task.step = "put-back" /\ f \in task.left => file[f] \in {before[f], id}

(* Without edits the sources are the originals before and after a change,   *)
(* and the network is made from them wherever no change is under way.       *)
OriginalsInv ==
  edits = 0 =>
    /\ phase \in {"staged", "rolled-back"} => file = before
    /\ phase \in Terminal \cup {"staged"} /\ boot \in {"recovery", "recovered", "up"} => live = file
    /\ phase = "pending" /\ boot = "up" => live = file
    /\ task.step = "restored" => file = before /\ live = file
    /\ task.step = "applied" => live = file
    /\ task.step = "put-back" => \A f \in Files \ task.left : file[f] = before[f]

IInv == /\ NetworkTypeOK /\ StepsInv /\ CandidateInv /\ ObligationRecorded
        /\ Compares /\ OriginalsInv /\ RecoveredInv

-------------------------------------------------------------------------------
(* The values of task that the actions make.                                *)
LEMMA PcValues ==
  ASSUME NetworkTypeOK
  PROVE  /\ \A step : Goto(step) => task' = [op |-> task.op, step |-> step, left |-> Files,
                                          raced |-> task.raced]
         /\ \A f : Done(f) => task' = [op |-> task.op, step |-> task.step, left |-> task.left \ {f},
                                    raced |-> task.raced]
  BY DEF NetworkTypeOK, Goto, Done

LEMMA InitInvariant == NetworkInit => IInv
  BY DEF NetworkInit, NoTask, IInv, NetworkTypeOK, Contents, Terminal, Restoring, StepsInv, CandidateInv,
         Unconfirmed, ObligationRecorded, Compares, OriginalsInv, RecoveredInv

LEMMA StageInvariant ==
  ASSUME IInv, Stage
  PROVE  IInv'
<1> USE DEF Stage, NoTask, IInv
<1>1. NetworkTypeOK'
  BY DEF NetworkTypeOK, Contents, Terminal
<1>2. StepsInv' /\ RecoveredInv'
  BY DEF NetworkTypeOK, StepsInv, RecoveredInv, Restoring, Terminal
<1>3. CandidateInv' /\ ObligationRecorded'
  BY DEF CandidateInv, ObligationRecorded, Unconfirmed, Terminal
<1>4. Compares'
  BY DEF Compares
<1>5. OriginalsInv'
  BY DEF OriginalsInv, Terminal
<1> QED
  BY <1>1, <1>2, <1>3, <1>4, <1>5

(* A rollback that begins: nothing changes but the record's phase.          *)
LEMMA BeginRestoreInvariant ==
  ASSUME IInv, NEW op \in {"tick", "confirm", "cancel", "boot"}, BeginRestore(op),
         phase \notin Terminal,
         op = "boot" => boot = "recovery", op # "boot" => boot = "up",
         UNCHANGED <<file, id, before, deadline, boot, accepted, edits>>,
         networkFaults' \in 0..MaxFaults,
         live' = live \/ (live' = file /\ phase = "applying")
  PROVE  IInv'
<1> USE DEF BeginRestore, Begin, Ended, NoTask, IInv
<1>1. NetworkTypeOK'
  BY DEF NetworkTypeOK, Contents, Terminal
<1>2. StepsInv' /\ RecoveredInv'
  BY DEF NetworkTypeOK, StepsInv, RecoveredInv, Restoring, Terminal
<1>3. CandidateInv' /\ ObligationRecorded'
  BY DEF CandidateInv, ObligationRecorded, Unconfirmed, Terminal
<1>4. Compares'
  BY DEF Compares
<1>5. OriginalsInv'
  BY DEF OriginalsInv, Terminal
<1> QED
  BY <1>1, <1>2, <1>3, <1>4, <1>5

(* A source compares, or the rollback is refused.                            *)
LEMMA CompareFileInvariant ==
  ASSUME IInv, NEW f \in Files, CompareFile(f)
  PROVE  IInv'
<1> USE PcValues DEF CompareFile, At, NoTask, record, IInv
<1>1. NetworkTypeOK'
  BY DEF NetworkTypeOK, Contents, Terminal
<1>2. StepsInv' /\ RecoveredInv'
  BY DEF NetworkTypeOK, StepsInv, RecoveredInv, Restoring, Terminal
<1>3. CandidateInv' /\ ObligationRecorded'
  BY DEF NetworkTypeOK, StepsInv, CandidateInv, ObligationRecorded, Unconfirmed, Restoring, Terminal
<1>4. Compares'
  BY DEF NetworkTypeOK, Compares
<1>5. OriginalsInv'
  BY DEF NetworkTypeOK, StepsInv, OriginalsInv, Restoring, Terminal
<1> QED
  BY <1>1, <1>2, <1>3, <1>4, <1>5

LEMMA ComparedInvariant ==
  ASSUME IInv, Compared
  PROVE  IInv'
<1> USE PcValues DEF Compared, Past, NoTask, record, IInv
<1>1. NetworkTypeOK'
  BY DEF NetworkTypeOK, Contents, Terminal
<1>2. StepsInv' /\ RecoveredInv'
  BY DEF NetworkTypeOK, StepsInv, RecoveredInv, Restoring, Terminal
<1>3. CandidateInv' /\ ObligationRecorded'
  BY DEF NetworkTypeOK, StepsInv, CandidateInv, ObligationRecorded, Unconfirmed, Restoring, Terminal
<1>4. Compares'
  BY DEF NetworkTypeOK, Compares
<1>5. OriginalsInv'
  BY DEF NetworkTypeOK, StepsInv, OriginalsInv, Restoring, Terminal
<1> QED
  BY <1>1, <1>2, <1>3, <1>4, <1>5

LEMMA RestoreFileInvariant ==
  ASSUME IInv, NEW f \in Files, RestoreFile(f)
  PROVE  IInv'
<1> USE PcValues DEF RestoreFile, At, NoTask, record, IInv
<1>1. NetworkTypeOK'
  BY DEF NetworkTypeOK, Contents, Terminal
<1>2. StepsInv' /\ RecoveredInv'
  BY DEF NetworkTypeOK, StepsInv, RecoveredInv, Restoring, Terminal
<1>3. CandidateInv' /\ ObligationRecorded'
  BY DEF NetworkTypeOK, StepsInv, CandidateInv, ObligationRecorded, Unconfirmed, Restoring, Terminal
<1>4. Compares'
  BY DEF NetworkTypeOK, Compares
<1>5. OriginalsInv'
  BY DEF NetworkTypeOK, StepsInv, OriginalsInv, Restoring, Terminal
<1> QED
  BY <1>1, <1>2, <1>3, <1>4, <1>5

LEMMA ReactivateInvariant ==
  ASSUME IInv, Reactivate
  PROVE  IInv'
<1> USE PcValues DEF Reactivate, Past, NoTask, record, IInv
<1>1. NetworkTypeOK'
  BY DEF NetworkTypeOK, Contents, Terminal
<1>2. StepsInv' /\ RecoveredInv'
  BY DEF NetworkTypeOK, StepsInv, RecoveredInv, Restoring, Terminal
<1>3. CandidateInv' /\ ObligationRecorded'
  BY DEF NetworkTypeOK, StepsInv, CandidateInv, ObligationRecorded, Unconfirmed, Restoring, Terminal
<1>4. Compares'
  BY DEF NetworkTypeOK, Compares
<1>5. OriginalsInv'
  BY DEF NetworkTypeOK, StepsInv, OriginalsInv, Restoring, Terminal
<1> QED
  BY <1>1, <1>2, <1>3, <1>4, <1>5

(* The rollback ends with every source and the network put back.              *)
LEMMA MarkRolledBackInvariant ==
  ASSUME IInv, MarkRolledBack
  PROVE  IInv'
<1> USE PcValues DEF MarkRolledBack, Begin, Ended, NoTask, record, IInv
<1>1. NetworkTypeOK'
  BY DEF NetworkTypeOK, Contents, Terminal
<1>2. StepsInv' /\ RecoveredInv'
  BY DEF NetworkTypeOK, StepsInv, RecoveredInv, Restoring, Terminal
<1>3. CandidateInv' /\ ObligationRecorded'
  BY DEF NetworkTypeOK, StepsInv, CandidateInv, ObligationRecorded, Unconfirmed, Restoring, Terminal
<1>4. Compares'
  BY DEF NetworkTypeOK, Compares
<1>5. OriginalsInv'
  BY DEF NetworkTypeOK, StepsInv, OriginalsInv, Restoring, Terminal
<1> QED
  BY <1>1, <1>2, <1>3, <1>4, <1>5

LEMMA TickStagedInvariant ==
  ASSUME IInv, TickStaged
  PROVE  IInv'
<1> USE PcValues DEF TickStaged, Begin, NoTask, record, IInv
<1>1. NetworkTypeOK'
  BY DEF NetworkTypeOK, Contents, Terminal
<1>2. StepsInv' /\ RecoveredInv'
  BY DEF NetworkTypeOK, StepsInv, RecoveredInv, Restoring, Terminal
<1>3. CandidateInv' /\ ObligationRecorded'
  BY DEF NetworkTypeOK, StepsInv, CandidateInv, ObligationRecorded, Unconfirmed, Restoring, Terminal
<1>4. Compares'
  BY DEF NetworkTypeOK, Compares
<1>5. OriginalsInv'
  BY DEF NetworkTypeOK, StepsInv, OriginalsInv, Restoring, Terminal
<1> QED
  BY <1>1, <1>2, <1>3, <1>4, <1>5

LEMMA BeginApplyInvariant ==
  ASSUME IInv, BeginApply
  PROVE  IInv'
<1> USE PcValues DEF BeginApply, Past, NoTask, record, IInv
<1>1. NetworkTypeOK'
  BY DEF NetworkTypeOK, Contents, Terminal
<1>2. StepsInv' /\ RecoveredInv'
  BY DEF NetworkTypeOK, StepsInv, RecoveredInv, Restoring, Terminal
<1>3. CandidateInv' /\ ObligationRecorded'
  BY DEF NetworkTypeOK, StepsInv, CandidateInv, ObligationRecorded, Unconfirmed, Restoring, Terminal
<1>4. Compares'
  BY DEF NetworkTypeOK, Compares
<1>5. OriginalsInv'
  BY DEF NetworkTypeOK, StepsInv, OriginalsInv, Restoring, Terminal
<1> QED
  BY <1>1, <1>2, <1>3, <1>4, <1>5

LEMMA ReplaceFileInvariant ==
  ASSUME IInv, NEW f \in Files, ReplaceFile(f)
  PROVE  IInv'
<1> USE PcValues DEF ReplaceFile, At, NoTask, record, IInv
<1>1. NetworkTypeOK'
  BY DEF NetworkTypeOK, Contents, Terminal
<1>2. StepsInv' /\ RecoveredInv'
  BY DEF NetworkTypeOK, StepsInv, RecoveredInv, Restoring, Terminal
<1>3. CandidateInv' /\ ObligationRecorded'
  BY DEF NetworkTypeOK, StepsInv, CandidateInv, ObligationRecorded, Unconfirmed, Restoring, Terminal
<1>4. Compares'
  BY DEF NetworkTypeOK, Compares
<1>5. OriginalsInv'
  BY DEF NetworkTypeOK, StepsInv, OriginalsInv, Restoring, Terminal
<1> QED
  BY <1>1, <1>2, <1>3, <1>4, <1>5

LEMMA ApplyNetworkInvariant ==
  ASSUME IInv, ApplyNetwork
  PROVE  IInv'
<1> USE PcValues DEF ApplyNetwork, Past, NoTask, record, IInv
<1>1. NetworkTypeOK'
  BY DEF NetworkTypeOK, Contents, Terminal
<1>2. StepsInv' /\ RecoveredInv'
  BY DEF NetworkTypeOK, StepsInv, RecoveredInv, Restoring, Terminal
<1>3. CandidateInv' /\ ObligationRecorded'
  BY DEF NetworkTypeOK, StepsInv, CandidateInv, ObligationRecorded, Unconfirmed, Restoring, Terminal
<1>4. Compares'
  BY DEF NetworkTypeOK, Compares
<1>5. OriginalsInv'
  BY DEF NetworkTypeOK, StepsInv, OriginalsInv, Restoring, Terminal
<1> QED
  BY <1>1, <1>2, <1>3, <1>4, <1>5

LEMMA MarkPendingInvariant ==
  ASSUME IInv, MarkPending
  PROVE  IInv'
<1> USE PcValues DEF MarkPending, NoTask, record, IInv
<1>1. NetworkTypeOK'
  BY DEF NetworkTypeOK, Contents, Terminal
<1>2. StepsInv' /\ RecoveredInv'
  BY DEF NetworkTypeOK, StepsInv, RecoveredInv, Restoring, Terminal
<1>3. CandidateInv' /\ ObligationRecorded'
  BY DEF NetworkTypeOK, StepsInv, CandidateInv, ObligationRecorded, Unconfirmed, Restoring, Terminal
<1>4. Compares'
  BY DEF NetworkTypeOK, Compares
<1>5. OriginalsInv'
  BY DEF NetworkTypeOK, StepsInv, OriginalsInv, Restoring, Terminal
<1> QED
  BY <1>1, <1>2, <1>3, <1>4, <1>5

LEMMA BeginConfirmInvariant ==
  ASSUME IInv, BeginConfirm
  PROVE  IInv'
<1> USE PcValues DEF BeginConfirm, Begin, NoTask, record, IInv
<1>1. NetworkTypeOK'
  BY DEF NetworkTypeOK, Contents, Terminal
<1>2. StepsInv' /\ RecoveredInv'
  BY DEF NetworkTypeOK, StepsInv, RecoveredInv, Restoring, Terminal
<1>3. CandidateInv' /\ ObligationRecorded'
  BY DEF NetworkTypeOK, StepsInv, CandidateInv, ObligationRecorded, Unconfirmed, Restoring, Terminal
<1>4. Compares'
  BY DEF NetworkTypeOK, Compares
<1>5. OriginalsInv'
  BY DEF NetworkTypeOK, StepsInv, OriginalsInv, Restoring, Terminal
<1> QED
  BY <1>1, <1>2, <1>3, <1>4, <1>5

LEMMA VerifyFileInvariant ==
  ASSUME IInv, NEW f \in Files, VerifyFile(f)
  PROVE  IInv'
<1> USE PcValues DEF VerifyFile, At, NoTask, record, IInv
<1>1. NetworkTypeOK'
  BY DEF NetworkTypeOK, Contents, Terminal
<1>2. StepsInv' /\ RecoveredInv'
  BY DEF NetworkTypeOK, StepsInv, RecoveredInv, Restoring, Terminal
<1>3. CandidateInv' /\ ObligationRecorded'
  BY DEF NetworkTypeOK, StepsInv, CandidateInv, ObligationRecorded, Unconfirmed, Restoring, Terminal
<1>4. Compares'
  BY DEF NetworkTypeOK, Compares
<1>5. OriginalsInv'
  BY DEF NetworkTypeOK, StepsInv, OriginalsInv, Restoring, Terminal
<1> QED
  BY <1>1, <1>2, <1>3, <1>4, <1>5

LEMMA MarkConfirmedInvariant ==
  ASSUME IInv, MarkConfirmed
  PROVE  IInv'
<1>1. NetworkTypeOK'
  <2>1. NetworkTypeOK /\ id \in 1..MaxTransactions
    BY DEF MarkConfirmed, Past, IInv, NetworkTypeOK, StepsInv, Terminal
  <2> QED
    BY <2>1 DEF MarkConfirmed, NoTask, NetworkTypeOK, Terminal
<1> USE PcValues DEF MarkConfirmed, Past, NoTask, record, IInv
<1>2. StepsInv' /\ RecoveredInv'
  BY DEF NetworkTypeOK, StepsInv, RecoveredInv, Restoring, Terminal
<1>3. CandidateInv' /\ ObligationRecorded'
  BY DEF NetworkTypeOK, StepsInv, CandidateInv, ObligationRecorded, Unconfirmed, Restoring, Terminal
<1>4. Compares'
  BY DEF NetworkTypeOK, Compares
<1>5. OriginalsInv'
  BY DEF NetworkTypeOK, StepsInv, OriginalsInv, Restoring, Terminal
<1> QED
  BY <1>1, <1>2, <1>3, <1>4, <1>5

LEMMA StartBootInvariant ==
  ASSUME IInv, StartBoot
  PROVE  IInv'
<1> USE PcValues DEF StartBoot, NoTask, record, IInv
<1>1. NetworkTypeOK'
  BY DEF NetworkTypeOK, Contents, Terminal
<1>2. StepsInv' /\ RecoveredInv'
  BY DEF NetworkTypeOK, StepsInv, RecoveredInv, Restoring, Terminal
<1>3. CandidateInv' /\ ObligationRecorded'
  BY DEF NetworkTypeOK, StepsInv, CandidateInv, ObligationRecorded, Unconfirmed, Restoring, Terminal
<1>4. Compares'
  BY DEF NetworkTypeOK, Compares
<1>5. OriginalsInv'
  BY DEF NetworkTypeOK, StepsInv, OriginalsInv, Restoring, Terminal
<1> QED
  BY <1>1, <1>2, <1>3, <1>4, <1>5

LEMMA FinalizeBootInvariant ==
  ASSUME IInv, FinalizeBoot
  PROVE  IInv'
<1> USE PcValues DEF FinalizeBoot, NoTask, record, IInv
<1>1. NetworkTypeOK'
  BY DEF NetworkTypeOK, Contents, Terminal
<1>2. StepsInv' /\ RecoveredInv'
  BY DEF NetworkTypeOK, StepsInv, RecoveredInv, Restoring, Terminal
<1>3. CandidateInv' /\ ObligationRecorded'
  BY DEF NetworkTypeOK, StepsInv, CandidateInv, ObligationRecorded, Unconfirmed, Restoring, Terminal
<1>4. Compares'
  BY DEF NetworkTypeOK, Compares
<1>5. OriginalsInv'
  <2>1. boot = "recovery" /\ phase \in Terminal
    BY DEF StepsInv
  <2>2. task'.step = "idle" /\ boot' = "recovered" /\ UNCHANGED <<file, live, before, phase, edits>>
    OBVIOUS
  <2>3. edits = 0 => live = file
    BY <2>1 DEF OriginalsInv
  <2>4. edits = 0 /\ phase = "rolled-back" => file = before
    BY DEF OriginalsInv
  <2> HIDE PcValues DEF IInv
  <2> QED
    BY <2>1, <2>2, <2>3, <2>4 DEF OriginalsInv, Terminal
<1> QED
  BY <1>1, <1>2, <1>3, <1>4, <1>5

LEMMA StartNetworkInvariant ==
  ASSUME IInv, StartNetwork
  PROVE  IInv'
<1> USE PcValues DEF StartNetwork, NoTask, record, IInv
<1>1. NetworkTypeOK'
  BY DEF NetworkTypeOK, Contents, Terminal
<1>2. StepsInv' /\ RecoveredInv'
  BY DEF NetworkTypeOK, StepsInv, RecoveredInv, Restoring, Terminal
<1>3. CandidateInv' /\ ObligationRecorded'
  BY DEF NetworkTypeOK, StepsInv, CandidateInv, ObligationRecorded, Unconfirmed, Restoring, Terminal
<1>4. Compares'
  BY DEF NetworkTypeOK, Compares
<1>5. OriginalsInv'
  BY DEF NetworkTypeOK, StepsInv, RecoveredInv, OriginalsInv, Restoring, Terminal
<1> QED
  BY <1>1, <1>2, <1>3, <1>4, <1>5

LEMMA ExpireInvariant ==
  ASSUME IInv, Expire
  PROVE  IInv'
<1> USE PcValues DEF Expire, NoTask, record, IInv
<1>1. NetworkTypeOK'
  BY DEF NetworkTypeOK, Contents, Terminal
<1>2. StepsInv' /\ RecoveredInv'
  BY DEF NetworkTypeOK, StepsInv, RecoveredInv, Restoring, Terminal
<1>3. CandidateInv' /\ ObligationRecorded'
  BY DEF NetworkTypeOK, StepsInv, CandidateInv, ObligationRecorded, Unconfirmed, Restoring, Terminal
<1>4. Compares'
  BY DEF NetworkTypeOK, Compares
<1>5. OriginalsInv'
  BY DEF NetworkTypeOK, StepsInv, OriginalsInv, Restoring, Terminal
<1> QED
  BY <1>1, <1>2, <1>3, <1>4, <1>5

LEMMA EditInvariant ==
  ASSUME IInv, NEW f \in Files, Edit(f)
  PROVE  IInv'
<1> USE PcValues DEF Edit, NoTask, record, IInv
<1>1. NetworkTypeOK'
  <2>1. task' \in {task, [op |-> task.op, step |-> task.step, left |-> task.left, raced |-> task.raced \cup {f}]}
    <3>1. task = [op |-> task.op, step |-> task.step, left |-> task.left, raced |-> task.raced]
      BY DEF NetworkTypeOK
    <3> QED
      BY <3>1
  <2>2. file' \in [Files -> Contents] /\ edits' \in 0..MaxEdits
    BY DEF NetworkTypeOK, Contents
  <2> QED
    BY <2>1, <2>2 DEF NetworkTypeOK
<1>2. StepsInv' /\ RecoveredInv'
  <2>1. task'.step = task.step /\ task'.op = task.op
    BY DEF NetworkTypeOK
  <2>2. task = NoTask => task' = task
    BY DEF ToReplace
  <2> QED
    BY <2>1, <2>2 DEF StepsInv, RecoveredInv
<1>3. CandidateInv' /\ ObligationRecorded'
  BY DEF NetworkTypeOK, StepsInv, CandidateInv, ObligationRecorded, Unconfirmed, Restoring, Terminal
<1>4. Compares'
  BY DEF NetworkTypeOK, ToReplace, Compares
<1>5. OriginalsInv'
  BY DEF NetworkTypeOK, StepsInv, OriginalsInv, Restoring, Terminal
<1> QED
  BY <1>1, <1>2, <1>3, <1>4, <1>5

LEMMA ResolveInvariant ==
  ASSUME IInv, NEW f \in Files, Resolve(f)
  PROVE  IInv'
<1> USE PcValues DEF Resolve, NoTask, record, IInv
<1>1. NetworkTypeOK'
  BY DEF NetworkTypeOK, Contents, Terminal
<1>2. StepsInv' /\ RecoveredInv'
  BY DEF NetworkTypeOK, StepsInv, RecoveredInv, Restoring, Terminal
<1>3. CandidateInv' /\ ObligationRecorded'
  BY DEF NetworkTypeOK, StepsInv, CandidateInv, ObligationRecorded, Unconfirmed, Restoring, Terminal
<1>4. Compares'
  BY DEF NetworkTypeOK, Compares
<1>5. OriginalsInv'
  BY DEF NetworkTypeOK, StepsInv, OriginalsInv, Restoring, Terminal
<1> QED
  BY <1>1, <1>2, <1>3, <1>4, <1>5

LEMMA RestoreFailsInvariant ==
  ASSUME IInv, RestoreFails
  PROVE  IInv'
<1> USE PcValues DEF RestoreFails, Fault, NoTask, record, IInv
<1>1. NetworkTypeOK'
  BY DEF NetworkTypeOK, Contents, Terminal
<1>2. StepsInv' /\ RecoveredInv'
  BY DEF NetworkTypeOK, StepsInv, RecoveredInv, Restoring, Terminal
<1>3. CandidateInv' /\ ObligationRecorded'
  BY DEF NetworkTypeOK, StepsInv, CandidateInv, ObligationRecorded, Unconfirmed, Restoring, Terminal
<1>4. Compares'
  BY DEF NetworkTypeOK, Compares
<1>5. OriginalsInv'
  BY DEF NetworkTypeOK, StepsInv, OriginalsInv, Restoring, Terminal
<1> QED
  BY <1>1, <1>2, <1>3, <1>4, <1>5

LEMMA KillInvariant ==
  ASSUME IInv, NetworkKilled
  PROVE  IInv'
<1> USE PcValues DEF NetworkKilled, Fault, NoTask, record, IInv
<1>1. NetworkTypeOK'
  BY DEF NetworkTypeOK, Contents, Terminal
<1>2. StepsInv' /\ RecoveredInv'
  BY DEF NetworkTypeOK, StepsInv, RecoveredInv, Restoring, Terminal
<1>3. CandidateInv' /\ ObligationRecorded'
  BY DEF NetworkTypeOK, StepsInv, CandidateInv, ObligationRecorded, Unconfirmed, Restoring, Terminal
<1>4. Compares'
  BY DEF NetworkTypeOK, Compares
<1>5. OriginalsInv'
  BY DEF NetworkTypeOK, StepsInv, OriginalsInv, Restoring, Terminal
<1> QED
  BY <1>1, <1>2, <1>3, <1>4, <1>5

LEMMA PowerOffInvariant ==
  ASSUME IInv, PowerOff, networkFaults' \in 0..MaxFaults
  PROVE  IInv'
<1> USE PcValues DEF PowerOff, NoTask, record, IInv
<1>1. NetworkTypeOK'
  BY DEF NetworkTypeOK, Contents, Terminal
<1>2. StepsInv' /\ RecoveredInv'
  BY DEF NetworkTypeOK, StepsInv, RecoveredInv, Restoring, Terminal
<1>3. CandidateInv' /\ ObligationRecorded'
  BY DEF NetworkTypeOK, StepsInv, CandidateInv, ObligationRecorded, Unconfirmed, Restoring, Terminal
<1>4. Compares'
  BY DEF NetworkTypeOK, Compares
<1>5. OriginalsInv'
  BY DEF NetworkTypeOK, StepsInv, OriginalsInv, Restoring, Terminal
<1> QED
  BY <1>1, <1>2, <1>3, <1>4, <1>5

LEMMA RestoreStepInvariant ==
  ASSUME IInv, RestoreStep
  PROVE  IInv'
  BY CompareFileInvariant, ComparedInvariant, RestoreFileInvariant, ReactivateInvariant,
     MarkRolledBackInvariant DEF RestoreStep

LEMMA TickStepInvariant ==
  ASSUME IInv, TickStep
  PROVE  IInv'
<1>1. CASE TickRestore
  BY <1>1, BeginRestoreInvariant DEF TickRestore, IInv, NetworkTypeOK
<1>2. ASSUME NEW f \in Files, CheckSource(f)
      PROVE  IInv'
  <2>1. CASE file[f] = before[f]
    <3> USE <1>2, <2>1, PcValues DEF CheckSource, At, IInv
    <3>1. NetworkTypeOK'
      BY DEF NetworkTypeOK
    <3>2. StepsInv' /\ RecoveredInv'
      BY DEF NetworkTypeOK, StepsInv, RecoveredInv, NoTask, Restoring
    <3>3. CandidateInv' /\ ObligationRecorded'
      BY DEF NetworkTypeOK, CandidateInv, ObligationRecorded, Unconfirmed
    <3>4. Compares'
      BY DEF NetworkTypeOK, Compares
    <3>5. OriginalsInv'
      BY DEF NetworkTypeOK, OriginalsInv
    <3> QED
      BY <3>1, <3>2, <3>3, <3>4, <3>5
  <2>2. CASE file[f] # before[f]
    <3>1. phase \notin Terminal /\ boot = "up"
      BY <1>2 DEF CheckSource, At, IInv, NetworkTypeOK, StepsInv, Terminal, NoTask, Restoring
    <3> QED
      BY <1>2, <2>2, <3>1, BeginRestoreInvariant DEF CheckSource, IInv, NetworkTypeOK
  <2> QED
    BY <2>1, <2>2
<1> QED
  BY <1>1, <1>2, TickStagedInvariant, BeginApplyInvariant, ReplaceFileInvariant,
     ApplyNetworkInvariant, MarkPendingInvariant DEF TickStep

LEMMA ConfirmStepInvariant ==
  ASSUME IInv, ConfirmStep
  PROVE  IInv'
<1>1. CASE ConfirmExpired
  BY <1>1, BeginRestoreInvariant DEF ConfirmExpired, IInv, NetworkTypeOK, Terminal
<1> QED
  BY <1>1, BeginConfirmInvariant, MarkConfirmedInvariant, VerifyFileInvariant DEF ConfirmStep

LEMMA EnvironmentInvariant ==
  ASSUME IInv, Environment
  PROVE  IInv'
<1>1. CASE ApplyFails
  <2>1. phase = "applying" /\ boot = "up"
    BY <1>1 DEF ApplyFails, IInv, NetworkTypeOK, StepsInv, NoTask, Restoring
  <2>2. networkFaults' \in 0..MaxFaults
    BY <1>1 DEF ApplyFails, Fault, IInv, NetworkTypeOK
  <2> QED
    BY <1>1, <2>1, <2>2, BeginRestoreInvariant DEF ApplyFails, Terminal
<1>2. CASE NetworkPowerLoss
  BY <1>2, PowerOffInvariant DEF NetworkPowerLoss, Fault, IInv, NetworkTypeOK
<1>3. CASE Reboot
  BY <1>3, PowerOffInvariant DEF Reboot, IInv, NetworkTypeOK
<1> QED
  BY <1>1, <1>2, <1>3, ExpireInvariant, EditInvariant, ResolveInvariant,
     RestoreFailsInvariant, KillInvariant DEF Environment

LEMMA NextInvariant ==
  ASSUME IInv, [NetworkNext]_networkVars
  PROVE  IInv'
<1>1. CASE Cancel
  BY <1>1, BeginRestoreInvariant DEF Cancel, IInv, NetworkTypeOK
<1>2. CASE BootStep
  <2>1. CASE RecoverBoot
    <3>1. CASE phase \notin Terminal
      BY <2>1, <3>1, BeginRestoreInvariant DEF RecoverBoot, IInv, NetworkTypeOK
    <3>2. CASE phase \in Terminal
      <4> USE <2>1, <3>2 DEF RecoverBoot, Begin, NoTask, IInv
      <4>1. NetworkTypeOK'
        BY DEF NetworkTypeOK
      <4>2. StepsInv' /\ RecoveredInv'
        BY DEF NetworkTypeOK, StepsInv, RecoveredInv, Restoring
      <4>3. CandidateInv' /\ ObligationRecorded'
        BY DEF NetworkTypeOK, StepsInv, CandidateInv, ObligationRecorded, Unconfirmed
      <4>4. Compares'
        BY DEF NetworkTypeOK, Compares
      <4>5. OriginalsInv'
        BY DEF NetworkTypeOK, StepsInv, OriginalsInv
      <4> QED
        BY <4>1, <4>2, <4>3, <4>4, <4>5
    <3> QED
      BY <3>1, <3>2
  <2> QED
    BY <1>2, <2>1, StartBootInvariant, FinalizeBootInvariant, StartNetworkInvariant DEF BootStep
<1>3. CASE UNCHANGED networkVars
  BY <1>3 DEF networkVars, record, IInv, NetworkTypeOK, StepsInv, CandidateInv, Unconfirmed,
              ObligationRecorded, Compares, OriginalsInv, RecoveredInv
<1> QED
  BY <1>1, <1>2, <1>3, StageInvariant, RestoreStepInvariant, TickStepInvariant,
     ConfirmStepInvariant, EnvironmentInvariant DEF NetworkNext

LEMMA Invariance == NetworkSpec => []IInv
  BY InitInvariant, NextInvariant, PTL DEF NetworkSpec

-------------------------------------------------------------------------------
(* However a change is interrupted, a candidate that nobody confirmed is    *)
(* only left where the record obliges the watchdog or a boot to undo it.    *)
THEOREM SpecNetworkSound == NetworkSpec => []NetworkSound
<1>1. IInv => NetworkSound
  BY DEF IInv, NetworkSound
<1> QED
  BY <1>1, Invariance, PTL

(* After a restart the network comes up without a candidate that nobody      *)
(* confirmed: the unit it requires has exited 0, which it only does with a  *)
(* terminal record, and that obliges nobody to undo anything any more.      *)
THEOREM SpecBootsWithoutCandidate == NetworkSpec => []BootsWithoutCandidate
<1>1. IInv => BootsWithoutCandidate
  BY DEF IInv, RecoveredInv, ObligationRecorded, BootsWithoutCandidate
<1> QED
  BY <1>1, Invariance, PTL

(* A rollback puts back exactly what was there, and the network with it.    *)
THEOREM SpecOriginalsRestored == NetworkSpec => []OriginalsRestored
<1>1. IInv => OriginalsRestored
  BY DEF IInv, OriginalsInv, OriginalsRestored, Terminal
<1> QED
  BY <1>1, Invariance, PTL

(* An external edit is only ever overwritten if it falls between the         *)
(* comparison and the replacement of its source by one operation.           *)
THEOREM SpecEditsKept == NetworkSpec => EditsKept
<1>1. ASSUME IInv, [NetworkNext]_networkVars
      PROVE  [task # NoTask /\ edits' = edits =>
                \A f \in Files \ task.raced : file'[f] # file[f] => file[f] \in {before[f], id}]_networkVars
  <2>1. ASSUME NEW g \in Files, ReplaceFile(g) \/ RestoreFile(g), NEW f \in Files \ task.raced,
               file'[f] # file[f]
        PROVE  file[f] \in {before[f], id}
    <3>1. f = g
      BY <1>1, <2>1 DEF ReplaceFile, RestoreFile, IInv, NetworkTypeOK
    <3> QED
      BY <1>1, <2>1, <3>1 DEF ReplaceFile, RestoreFile, At, IInv, Compares
  <2>2. CASE \E g \in Files : Edit(g) \/ Resolve(g)
    BY <1>1, <2>2 DEF Edit, Resolve, IInv, NetworkTypeOK
  <2>3. CASE UNCHANGED networkVars
    BY <2>3
  <2>4. CASE /\ NetworkNext
             /\ ~\E g \in Files : Edit(g) \/ Resolve(g) \/ ReplaceFile(g) \/ RestoreFile(g)
    <3>1. file' = file
      BY <2>4 DEF NetworkNext, Stage, Cancel, RestoreStep, CompareFile, Compared, Reactivate,
                  MarkRolledBack, TickStep, TickRestore, TickStaged, CheckSource, BeginApply,
                  ApplyNetwork, MarkPending, ConfirmStep, ConfirmExpired, BeginConfirm,
                  VerifyFile, MarkConfirmed, BootStep, StartBoot, RecoverBoot, FinalizeBoot, StartNetwork,
                  Environment, Expire, ApplyFails, RestoreFails, NetworkKilled, NetworkPowerLoss, Reboot, PowerOff
    <3> QED
      BY <3>1
  <2> QED
    BY <1>1, <2>1, <2>2, <2>3, <2>4
<1> QED
  BY <1>1, Invariance, PTL DEF NetworkSpec, EditsKept
(* A source that holds the candidate is one that the network was made from, *)
(* from its application on: what an edit writes is another content.  And a  *)
(* confirmation has found the candidate in the sources it verified.         *)
RunsInv ==
  /\ task.step = "applied" \/ (phase = "pending" /\ boot = "up") =>
       \A f \in Files : file[f] = id => live[f] = id
  /\ task.step = "verify" => \A f \in Files \ task.left : live[f] = id

LEMMA RunsInvariant ==
  ASSUME IInv, RunsInv, [NetworkNext]_networkVars
  PROVE  RunsInv'
<1> USE PcValues DEF RunsInv, IInv, NoTask, record
<1>1. CASE Stage
  BY <1>1 DEF Stage
<1>2. CASE RestoreStep
  <2>1. CASE \E f \in Files : CompareFile(f) \/ RestoreFile(f)
    BY <1>2, <2>1 DEF CompareFile, RestoreFile, At, Done, StepsInv, Restoring
  <2>2. CASE Compared
    BY <2>2 DEF Compared, Past, Goto, NetworkTypeOK, StepsInv, Restoring
  <2>3. CASE Reactivate
    BY <2>3 DEF Reactivate, Past, Goto, NetworkTypeOK, StepsInv, Restoring
  <2>4. CASE MarkRolledBack
    BY <2>4 DEF MarkRolledBack, Begin, Ended
  <2> QED
    BY <1>2, <2>1, <2>2, <2>3, <2>4 DEF RestoreStep
<1>3. CASE TickStep
  <2>1. CASE TickRestore \/ TickStaged
    BY <1>3, <2>1 DEF TickRestore, TickStaged, BeginRestore, Begin, Ended
  <2>3. CASE BeginApply
    BY <2>3 DEF BeginApply, Past, Goto, NetworkTypeOK, StepsInv
  <2>4. CASE ApplyNetwork
    BY <2>4 DEF ApplyNetwork, Past, Goto, NetworkTypeOK, StepsInv
  <2>5. CASE MarkPending
    BY <2>5 DEF MarkPending
  <2>2. CASE \E f \in Files : CheckSource(f) \/ ReplaceFile(f)
    BY <1>3, <2>2 DEF CheckSource, ReplaceFile, BeginRestore, Begin, Ended, At, Done, StepsInv
  <2> QED
    BY <1>3, <2>1, <2>2, <2>3, <2>4, <2>5 DEF TickStep
<1>4. CASE ConfirmStep
  <2>1. CASE ConfirmExpired \/ BeginConfirm \/ MarkConfirmed
    BY <1>4, <2>1 DEF ConfirmExpired, BeginConfirm, MarkConfirmed, BeginRestore, Begin, Ended, Past
  <2>2. CASE \E f \in Files : VerifyFile(f)
    BY <1>4, <2>2 DEF VerifyFile, At, Done, NetworkTypeOK, StepsInv
  <2> QED
    BY <1>4, <2>1, <2>2 DEF ConfirmStep
<1>5. CASE Cancel
  BY <1>5 DEF Cancel, BeginRestore, Begin, Ended
<1>6. CASE BootStep
  <2>1. CASE StartBoot
    BY <2>1 DEF StartBoot, NetworkTypeOK, StepsInv
  <2>2. CASE RecoverBoot
    BY <2>2 DEF RecoverBoot, BeginRestore, Begin, Ended
  <2>3. CASE StartNetwork
    BY <2>3 DEF StartNetwork, RecoveredInv, Terminal
  <2>4. CASE FinalizeBoot
    BY <2>4 DEF FinalizeBoot
  <2> QED
    BY <1>6, <2>1, <2>2, <2>3, <2>4 DEF BootStep
<1>7. CASE Environment
  <2>1. CASE \E f \in Files : Edit(f)
    BY <1>7, <2>1 DEF Edit, ToReplace, NetworkTypeOK, StepsInv
  <2>2. CASE \E f \in Files : Resolve(f)
    BY <1>7, <2>2 DEF Resolve
  <2>3. CASE Expire \/ ApplyFails \/ RestoreFails \/ NetworkKilled \/ NetworkPowerLoss \/ Reboot
    BY <1>7, <2>3 DEF Expire, ApplyFails, RestoreFails, NetworkKilled, NetworkPowerLoss, Reboot, PowerOff, BeginRestore, Begin, Ended,
                      StepsInv
  <2> QED
    BY <1>7, <2>1, <2>2, <2>3 DEF Environment
<1>8. CASE UNCHANGED networkVars
  BY <1>8 DEF networkVars
<1> QED
  BY <1>1, <1>2, <1>3, <1>4, <1>5, <1>6, <1>7, <1>8 DEF NetworkNext

(* What is confirmed is what the network runs, in every source: confirm     *)
(* needs a connection over the candidate and compares every source with it. *)
THEOREM SpecConfirmsWhatRuns == NetworkSpec => ConfirmsWhatRuns
<1> DEFINE Inv == IInv /\ RunsInv
           Runs == phase # "confirmed" /\ phase' = "confirmed" => \A f \in Files : live[f] = id
<1>1. NetworkInit => Inv
  BY InitInvariant DEF NetworkInit, RunsInv, NoTask
<1>2. Inv /\ [NetworkNext]_networkVars => Inv'
  BY NextInvariant, RunsInvariant
<1>3. Inv /\ [NetworkNext]_networkVars => [Runs]_networkVars
  <2> SUFFICES ASSUME Inv, NetworkNext, phase # "confirmed", phase' = "confirmed"
               PROVE  \A f \in Files : live[f] = id
    OBVIOUS
  <2>1. MarkConfirmed
    BY DEF NetworkNext, Stage, Cancel, RestoreStep, CompareFile, RestoreFile, Compared, Reactivate,
           MarkRolledBack, TickStep, TickRestore, TickStaged, CheckSource, BeginApply,
           ReplaceFile, ApplyNetwork, MarkPending, ConfirmStep, ConfirmExpired, BeginConfirm,
           VerifyFile, BootStep, StartBoot, RecoverBoot, FinalizeBoot, StartNetwork, Environment, Expire,
           Edit, Resolve, ApplyFails, RestoreFails, NetworkKilled, NetworkPowerLoss, Reboot, PowerOff,
           BeginRestore, record
  <2> QED
    BY <2>1 DEF MarkConfirmed, Past, RunsInv
<1> QED
  BY <1>1, <1>2, <1>3, PTL DEF NetworkSpec, ConfirmsWhatRuns
================================================================================
