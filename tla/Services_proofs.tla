---------------------------- MODULE Services_proofs ----------------------------
(***************************************************************************)
(* What the services promise, proved for every value of the constants: the *)
(* network part of a restore, the preparation of releases, the remote      *)
(* repository, the generations of recovery code, the installation of       *)
(* keypads, the certificates of the administration, the assignment of the  *)
(* displays and the browsers on them.  Each but the assignment, which is a *)
(* function, has an inductive invariant of its own variables; the steps of *)
(* the other services leave those alone.                                   *)
(***************************************************************************)
EXTENDS Services, FiniteSetTheorems, WellFoundedInduction, TLAPS

-----------------------------------------------------------------------------
(* The network part of a restore                                             *)

Phases == Decided \cup {"staged", "pending"}
Owners == Restores \cup {0}
HandoffSteps == {"none", "stop", "pin", "capture", "resume", "await", "stage", "return", "recover",
                 "unpin", "receipt", "outcome"}

Records == [owner : Owners, phase : Phases, clean : BOOLEAN]

HandoffTypeOK ==
  /\ maint \in [id : Owners, state : Ended \cup {"stopping", "working", "starting", "awaiting-network"}]
  /\ net \in Records
  /\ receipt \in [Restores -> Phases \cup {"none"}]
  /\ pins \in [Restores -> SUBSET Pins]
  /\ down \in BOOLEAN
  /\ holder \in [who : {"none", "job", "operator", "worker"}, next : HandoffSteps]
  /\ last \in Owners
  /\ fate \in [Restores -> {"none", "confirmed", "rolled-back"}]

(* The maintenance is the latest restore's, or another operation's.          *)
LatestInv ==
  /\ maint.id = 0 => maint.state \in Ended
  /\ maint.id # 0 => maint.id = last
  /\ net.owner <= last
  /\ \A i \in Restores : i > last => fate[i] = "none"
  /\ holder # Nobody => maint.state \notin Ended

(* The network's record, when a restore owns it, against the maintenance and *)
(* what became of that restore's part.                                       *)
OwnerInv ==
  /\ net.owner # 0 => net.phase # "idle"
  /\ net.owner # 0 /\ net.phase \notin Decided => fate[net.owner] = "none"
  /\ net.owner # 0 /\ net.phase \in Decided => fate[net.owner] = net.phase
  /\ Owned => maint.state \in Ended \cup {"awaiting-network"}
  /\ Owned /\ net.clean => maint.state \in Ended
  /\ maint.state \notin Ended /\ ~Owned => fate[maint.id] = "none"

(* What the holder of the lock has done before its next step.                *)
StepsInv ==
  /\ holder.who = "none" => holder = Nobody
  /\ holder.next = "none" => holder = Nobody
  /\ holder.next = "stop" => maint.state = "stopping"
  /\ holder.next \in {"pin", "capture"} => maint.state = "working"
  /\ holder.next \in {"resume", "await"} => maint.state = "starting"
  /\ holder.next \in {"stage", "return"} => maint.state = "awaiting-network"
  /\ holder.next \in {"resume", "await", "stage"} => pins[maint.id] = Pins
  /\ holder.next \in {"stop", "pin", "capture", "resume", "await", "stage"} => ~Owned
  /\ holder.next \in {"unpin", "receipt", "outcome"} /\ Owned =>
       maint.state = "awaiting-network" /\ net.phase \in Decided
  /\ holder.next = "receipt" => Owned
  /\ holder.next \in {"receipt", "outcome"} => pins[maint.id] = {}

HandoffInv == HandoffTypeOK /\ LatestInv /\ OwnerInv /\ StepsInv /\ HandoffKept /\ HandoffOutcome

LEMMA HandoffInitInvariant == HandoffInit => HandoffInv
<1> SUFFICES ASSUME HandoffInit PROVE HandoffInv
  OBVIOUS
<1> USE HandoffAssumption DEF HandoffAssumption, HandoffInit, HandoffInv, HandoffTypeOK, LatestInv,
            OwnerInv, StepsInv, HandoffKept, HandoffOutcome, Restores, Ended, Decided, Pins, Nobody,
            Does, Stageable, Owned, ToFinalize, Phases, Owners, HandoffSteps, Records
<1>1. HandoffTypeOK
  OBVIOUS
<1>2. LatestInv
  OBVIOUS
<1>3. OwnerInv
  OBVIOUS
<1>4. StepsInv
  OBVIOUS
<1>5. HandoffKept
  OBVIOUS
<1>6. HandoffOutcome
  BY SMTT(60)
<1> QED
  BY <1>1, <1>2, <1>3, <1>4, <1>5, <1>6

LEMMA HandoffInvariant ==
  ASSUME HandoffInv, [HandoffNext]_handoffVars
  PROVE  HandoffInv'
<1> USE HandoffAssumption DEF HandoffAssumption, HandoffInv, HandoffTypeOK, LatestInv, OwnerInv,
            StepsInv, HandoffKept, HandoffOutcome, Restores, Ended, Decided, Pins, Nobody, Does,
            Stageable, Owned, ToFinalize, Phases, Owners, HandoffSteps, Records
<1>1. CASE StartRestore
  <2>11. /\ last' = last + 1 /\ last' \in Restores /\ holder' = [who |-> "job", next |-> "stop"]
        /\ maint' = [id |-> last + 1, state |-> "stopping"] /\ maint.state \in Ended /\ holder = Nobody
        /\ UNCHANGED <<net, receipt, pins, down, fate>>
    BY <1>1 DEF StartRestore
  <2>1. HandoffTypeOK'
    BY <2>11
  <2>2. LatestInv'
    BY <2>11
  <2>3. OwnerInv'
    BY <2>11
  <2>4. StepsInv'
    BY <2>11
  <2>5. HandoffKept' /\ HandoffOutcome'
    BY <2>11
  <2> QED
    BY <2>1, <2>2, <2>3, <2>4, <2>5
<1>2. CASE StopWriters
  <2>1. HandoffTypeOK'
    BY <1>2 DEF StopWriters
  <2>2. LatestInv'
    BY <1>2 DEF StopWriters
  <2>3. OwnerInv'
    BY <1>2 DEF StopWriters
  <2>4. StepsInv'
    BY <1>2 DEF StopWriters
  <2>5. HandoffKept' /\ HandoffOutcome'
    BY <1>2 DEF StopWriters
  <2> QED
    BY <2>1, <2>2, <2>3, <2>4, <2>5
<1>3. CASE PinSource
  <2>11. holder = [who |-> "job", next |-> "pin"] /\ maint.id \in Restores
    BY <1>3 DEF PinSource
  <2>1. HandoffTypeOK'
    BY <1>3, <2>11 DEF PinSource
  <2>2. LatestInv'
    BY <1>3, <2>11 DEF PinSource
  <2>3. OwnerInv'
    BY <1>3, <2>11 DEF PinSource
  <2>4. StepsInv'
    BY <1>3, <2>11 DEF PinSource
  <2>5. HandoffKept' /\ HandoffOutcome'
    BY <1>3, <2>11 DEF PinSource
  <2> QED
    BY <2>1, <2>2, <2>3, <2>4, <2>5
<1>4. CASE CaptureRollback
  <2>11. holder = [who |-> "job", next |-> "capture"] /\ maint.id \in Restores
    BY <1>4 DEF CaptureRollback
  <2>1. HandoffTypeOK'
    BY <1>4, <2>11 DEF CaptureRollback
  <2>2. LatestInv'
    BY <1>4, <2>11 DEF CaptureRollback
  <2>3. OwnerInv'
    BY <1>4, <2>11 DEF CaptureRollback
  <2>4. StepsInv'
    BY <1>4, <2>11 DEF CaptureRollback
  <2>5. HandoffKept' /\ HandoffOutcome'
    BY <1>4, <2>11 DEF CaptureRollback
  <2> QED
    BY <2>1, <2>2, <2>3, <2>4, <2>5
<1>5. CASE ResumeWriters
  <2>1. HandoffTypeOK'
    BY <1>5 DEF ResumeWriters
  <2>2. LatestInv'
    BY <1>5 DEF ResumeWriters
  <2>3. OwnerInv'
    BY <1>5 DEF ResumeWriters
  <2>4. StepsInv'
    BY <1>5 DEF ResumeWriters
  <2>5. HandoffKept' /\ HandoffOutcome'
    BY <1>5 DEF ResumeWriters
  <2> QED
    BY <2>1, <2>2, <2>3, <2>4, <2>5
<1>6. CASE AwaitNetwork
  <2>1. HandoffTypeOK'
    BY <1>6 DEF AwaitNetwork
  <2>2. LatestInv'
    BY <1>6 DEF AwaitNetwork
  <2>3. OwnerInv'
    BY <1>6 DEF AwaitNetwork
  <2>4. StepsInv'
    BY <1>6 DEF AwaitNetwork
  <2>5. HandoffKept' /\ HandoffOutcome'
    BY <1>6 DEF AwaitNetwork
  <2> QED
    BY <2>1, <2>2, <2>3, <2>4, <2>5
<1>7. CASE StageNetwork
  <2>11. holder = [who |-> "job", next |-> "stage"] /\ maint.id \in Restores
    BY <1>7 DEF StageNetwork
  <2>1. HandoffTypeOK'
    <3>1. net' = net \/ net' = [owner |-> maint.id, phase |-> "staged", clean |-> FALSE]
      BY <1>7, <2>11 DEF StageNetwork
    <3>2. maint.id \in Owners /\ "staged" \in Phases
      BY <2>11
    <3>3. [owner |-> maint.id, phase |-> "staged", clean |-> FALSE] \in Records
      BY <3>2
    <3>4. net' \in Records
      BY <3>1, <3>3
    <3>5. holder' \in [who : {"none", "job", "operator", "worker"}, next : HandoffSteps]
      BY <1>7, <2>11 DEF StageNetwork
    <3> QED
      BY <1>7, <2>11, <3>1, <3>2, <3>3, <3>4, <3>5 DEF StageNetwork
  <2>2. LatestInv'
    <3>1. CASE Stageable
      BY <1>7, <2>11, <3>1 DEF StageNetwork
    <3>2. CASE ~Stageable
      BY <1>7, <2>11, <3>2 DEF StageNetwork
    <3> QED
      BY <3>1, <3>2
  <2>3. OwnerInv'
    <3>1. CASE Stageable
      BY <1>7, <2>11, <3>1 DEF StageNetwork
    <3>2. CASE ~Stageable
      BY <1>7, <2>11, <3>2 DEF StageNetwork
    <3> QED
      BY <3>1, <3>2
  <2>4. StepsInv'
    <3>1. CASE Stageable
      BY <1>7, <2>11, <3>1 DEF StageNetwork
    <3>2. CASE ~Stageable
      BY <1>7, <2>11, <3>2 DEF StageNetwork
    <3> QED
      BY <3>1, <3>2
  <2>5. HandoffKept' /\ HandoffOutcome'
    <3>1. CASE Stageable
      BY <1>7, <2>11, <3>1 DEF StageNetwork
    <3>2. CASE ~Stageable
      BY <1>7, <2>11, <3>2 DEF StageNetwork
    <3> QED
      BY <3>1, <3>2
  <2> QED
    BY <2>1, <2>2, <2>3, <2>4, <2>5
<1>8. CASE JobReturns
  <2>1. HandoffTypeOK'
    BY <1>8 DEF JobReturns
  <2>2. LatestInv'
    BY <1>8 DEF JobReturns
  <2>3. OwnerInv'
    BY <1>8 DEF JobReturns
  <2>4. StepsInv'
    BY <1>8 DEF JobReturns
  <2>5. HandoffKept' /\ HandoffOutcome'
    BY <1>8 DEF JobReturns
  <2> QED
    BY <2>1, <2>2, <2>3, <2>4, <2>5
<1>9. CASE RecoverHandoff
  <2>11. holder.next = "recover" /\ maint.id \in Restores
    BY <1>9 DEF RecoverHandoff
  <2>1. HandoffTypeOK'
    <3>1. holder' \in [who : {"none", "job", "operator", "worker"}, next : HandoffSteps]
      BY <1>9, <2>11 DEF RecoverHandoff
    <3>2. down' \in BOOLEAN
      BY <1>9, <2>11 DEF RecoverHandoff
    <3> QED
      BY ZenonT(60), <1>9, <2>11, <3>1, <3>2 DEF RecoverHandoff
  <2>2. LatestInv'
    <3>1. CASE holder' = Nobody
      BY <1>9, <2>11, <3>1 DEF RecoverHandoff
    <3>2. CASE holder' # Nobody
      BY <1>9, <2>11, <3>2 DEF RecoverHandoff
    <3> QED
      BY <3>1, <3>2
  <2>3. OwnerInv'
    <3>1. CASE holder' = Nobody
      BY <1>9, <2>11, <3>1 DEF RecoverHandoff
    <3>2. CASE holder' # Nobody
      BY <1>9, <2>11, <3>2 DEF RecoverHandoff
    <3> QED
      BY <3>1, <3>2
  <2>4. StepsInv'
    <3>1. CASE holder' = Nobody
      BY <1>9, <2>11, <3>1 DEF RecoverHandoff
    <3>2. CASE holder' # Nobody
      BY <1>9, <2>11, <3>2 DEF RecoverHandoff
    <3> QED
      BY <3>1, <3>2
  <2>5. HandoffKept' /\ HandoffOutcome'
    <3>1. CASE holder' = Nobody
      BY <1>9, <2>11, <3>1 DEF RecoverHandoff
    <3>2. CASE holder' # Nobody
      BY <1>9, <2>11, <3>2 DEF RecoverHandoff
    <3> QED
      BY <3>1, <3>2
  <2> QED
    BY <2>1, <2>2, <2>3, <2>4, <2>5
<1>10. CASE UnpinOwner
  <2>11. holder.next = "unpin" /\ maint.id \in Restores
    BY <1>10 DEF UnpinOwner
  <2>1. HandoffTypeOK'
    <3>1. CASE Owned
      BY <1>10, <2>11, <3>1 DEF UnpinOwner
    <3>2. CASE ~Owned
      BY ZenonT(60), <1>10, <2>11, <3>2 DEF UnpinOwner
    <3> QED
      BY <3>1, <3>2
  <2>2. LatestInv'
    <3>1. CASE Owned
      BY <1>10, <2>11, <3>1 DEF UnpinOwner
    <3>2. CASE ~Owned
      BY <1>10, <2>11, <3>2 DEF UnpinOwner
    <3> QED
      BY <3>1, <3>2
  <2>3. OwnerInv'
    <3>1. CASE Owned
      BY <1>10, <2>11, <3>1 DEF UnpinOwner
    <3>2. CASE ~Owned
      BY <1>10, <2>11, <3>2 DEF UnpinOwner
    <3> QED
      BY <3>1, <3>2
  <2>4. StepsInv'
    <3>1. CASE Owned
      BY <1>10, <2>11, <3>1 DEF UnpinOwner
    <3>2. CASE ~Owned
      BY <1>10, <2>11, <3>2 DEF UnpinOwner
    <3> QED
      BY <3>1, <3>2
  <2>5. HandoffKept' /\ HandoffOutcome'
    <3>1. CASE Owned
      BY <1>10, <2>11, <3>1 DEF UnpinOwner
    <3>2. CASE ~Owned
      BY <1>10, <2>11, <3>2 DEF UnpinOwner
    <3> QED
      BY <3>1, <3>2
  <2> QED
    BY <2>1, <2>2, <2>3, <2>4, <2>5
<1>11. CASE LeaveReceipt
  <2>11. holder.next = "receipt" /\ maint.id \in Restores
    BY <1>11 DEF LeaveReceipt
  <2>1. HandoffTypeOK'
    <3>1. CASE Owned
      BY <1>11, <2>11, <3>1 DEF LeaveReceipt
    <3>2. CASE ~Owned
      BY <1>11, <2>11, <3>2 DEF LeaveReceipt
    <3> QED
      BY <3>1, <3>2
  <2>2. LatestInv'
    <3>1. CASE Owned
      BY <1>11, <2>11, <3>1 DEF LeaveReceipt
    <3>2. CASE ~Owned
      BY <1>11, <2>11, <3>2 DEF LeaveReceipt
    <3> QED
      BY <3>1, <3>2
  <2>3. OwnerInv'
    <3>1. CASE Owned
      BY <1>11, <2>11, <3>1 DEF LeaveReceipt
    <3>2. CASE ~Owned
      BY <1>11, <2>11, <3>2 DEF LeaveReceipt
    <3> QED
      BY <3>1, <3>2
  <2>4. StepsInv'
    <3>1. CASE Owned
      BY <1>11, <2>11, <3>1 DEF LeaveReceipt
    <3>2. CASE ~Owned
      BY <1>11, <2>11, <3>2 DEF LeaveReceipt
    <3> QED
      BY <3>1, <3>2
  <2>5. HandoffKept' /\ HandoffOutcome'
    <3>1. CASE Owned
      BY <1>11, <2>11, <3>1 DEF LeaveReceipt
    <3>2. CASE ~Owned
      BY <1>11, <2>11, <3>2 DEF LeaveReceipt
    <3> QED
      BY <3>1, <3>2
  <2> QED
    BY <2>1, <2>2, <2>3, <2>4, <2>5
<1>12. CASE SaveOutcome
  <2>11. holder.next = "outcome" /\ maint.id \in Restores
    BY <1>12 DEF SaveOutcome
  <2>1. HandoffTypeOK'
    <3>1. CASE Owned
      BY <1>12, <2>11, <3>1 DEF SaveOutcome
    <3>2. CASE ~Owned
      BY <1>12, <2>11, <3>2 DEF SaveOutcome
    <3> QED
      BY <3>1, <3>2
  <2>2. LatestInv'
    <3>1. CASE Owned
      BY <1>12, <2>11, <3>1 DEF SaveOutcome
    <3>2. CASE ~Owned
      BY <1>12, <2>11, <3>2 DEF SaveOutcome
    <3> QED
      BY <3>1, <3>2
  <2>3. OwnerInv'
    <3>1. CASE Owned
      BY <1>12, <2>11, <3>1 DEF SaveOutcome
    <3>2. CASE ~Owned
      BY <1>12, <2>11, <3>2 DEF SaveOutcome
    <3> QED
      BY <3>1, <3>2
  <2>4. StepsInv'
    <3>1. CASE Owned
      BY <1>12, <2>11, <3>1 DEF SaveOutcome
    <3>2. CASE ~Owned
      BY <1>12, <2>11, <3>2 DEF SaveOutcome
    <3> QED
      BY <3>1, <3>2
  <2>5. HandoffKept' /\ HandoffOutcome'
    <3>1. pins[maint.id] = {} /\ maint.state \notin Ended
      BY <1>12, <2>11 DEF SaveOutcome
    <3>2. maint' = [id |-> maint.id, state |-> IF fate[maint.id] = "confirmed" THEN "completed" ELSE "rolled-back"]
      BY <1>12, <2>11 DEF SaveOutcome
    <3>3. net' = net /\ pins' = pins /\ fate' = fate
      BY <1>12 DEF SaveOutcome
    <3>4. net.owner # 0 => net.phase \in Decided
      BY <2>11, <3>1, <1>12 DEF SaveOutcome
    <3> QED
      BY <3>1, <3>2, <3>3, <3>4
  <2> QED
    BY <2>1, <2>2, <2>3, <2>4, <2>5
<1>13. CASE JobFails
  <2>1. HandoffTypeOK'
    BY <1>13 DEF JobFails
  <2>2. LatestInv'
    BY <1>13 DEF JobFails
  <2>3. OwnerInv'
    BY <1>13 DEF JobFails
  <2>4. StepsInv'
    BY <1>13 DEF JobFails
  <2>5. HandoffKept' /\ HandoffOutcome'
    BY <1>13 DEF JobFails
  <2> QED
    BY <2>1, <2>2, <2>3, <2>4, <2>5
<1>14. CASE OperatorRecovers
  <2>1. HandoffTypeOK'
    BY <1>14 DEF OperatorRecovers
  <2>2. LatestInv'
    BY <1>14 DEF OperatorRecovers
  <2>3. OwnerInv'
    BY <1>14 DEF OperatorRecovers
  <2>4. StepsInv'
    BY <1>14 DEF OperatorRecovers
  <2>5. HandoffKept' /\ HandoffOutcome'
    BY <1>14 DEF OperatorRecovers
  <2> QED
    BY <2>1, <2>2, <2>3, <2>4, <2>5
<1>15. CASE NetworkMoves
  <2>1. HandoffTypeOK'
    <3>1. CASE net.owner = 0
      BY ZenonT(60), <1>15, <3>1 DEF NetworkMoves
    <3>2. CASE net.owner # 0
      BY <1>15, <3>2 DEF NetworkMoves
    <3> QED
      BY <3>1, <3>2
  <2>2. LatestInv'
    <3>1. CASE net.owner = 0
      BY <1>15, <3>1 DEF NetworkMoves
    <3>2. CASE net.owner # 0
      BY <1>15, <3>2 DEF NetworkMoves
    <3> QED
      BY <3>1, <3>2
  <2>3. OwnerInv'
    <3>1. CASE net.owner = 0
      BY <1>15, <3>1 DEF NetworkMoves
    <3>2. CASE net.owner # 0
      BY <1>15, <3>2 DEF NetworkMoves
    <3> QED
      BY <3>1, <3>2
  <2>4. StepsInv'
    <3>1. CASE net.owner = 0
      BY <1>15, <3>1 DEF NetworkMoves
    <3>2. CASE net.owner # 0
      BY <1>15, <3>2 DEF NetworkMoves
    <3> QED
      BY <3>1, <3>2
  <2>5. HandoffKept' /\ HandoffOutcome'
    <3>1. CASE net.owner = 0
      BY <1>15, <3>1 DEF NetworkMoves
    <3>2. CASE net.owner # 0
      BY <1>15, <3>2 DEF NetworkMoves
    <3> QED
      BY <3>1, <3>2
  <2> QED
    BY <2>1, <2>2, <2>3, <2>4, <2>5
<1>16. CASE BeginFinalize
  <2>1. HandoffTypeOK'
    BY <1>16 DEF BeginFinalize
  <2>2. LatestInv'
    BY <1>16 DEF BeginFinalize
  <2>3. OwnerInv'
    BY <1>16 DEF BeginFinalize
  <2>4. StepsInv'
    BY <1>16 DEF BeginFinalize
  <2>5. HandoffKept' /\ HandoffOutcome'
    BY <1>16 DEF BeginFinalize
  <2> QED
    BY <2>1, <2>2, <2>3, <2>4, <2>5
<1>17. CASE Acknowledge
  <2>1. HandoffTypeOK'
    BY <1>17 DEF Acknowledge
  <2>2. LatestInv'
    BY <1>17 DEF Acknowledge
  <2>3. OwnerInv'
    BY <1>17 DEF Acknowledge
  <2>4. StepsInv'
    BY <1>17 DEF Acknowledge
  <2>5. HandoffKept' /\ HandoffOutcome'
    BY <1>17 DEF Acknowledge
  <2> QED
    BY <2>1, <2>2, <2>3, <2>4, <2>5
<1>18. CASE OtherMaintenance
  <2>1. HandoffTypeOK'
    BY <1>18 DEF OtherMaintenance
  <2>2. LatestInv'
    BY <1>18 DEF OtherMaintenance
  <2>3. OwnerInv'
    BY <1>18 DEF OtherMaintenance
  <2>4. StepsInv'
    BY <1>18 DEF OtherMaintenance
  <2>5. HandoffKept' /\ HandoffOutcome'
    BY <1>18 DEF OtherMaintenance
  <2> QED
    BY <2>1, <2>2, <2>3, <2>4, <2>5
<1>19. CASE OtherChange
  <2>1. HandoffTypeOK'
    BY <1>19 DEF OtherChange
  <2>2. LatestInv'
    BY <1>19 DEF OtherChange
  <2>3. OwnerInv'
    BY <1>19 DEF OtherChange
  <2>4. StepsInv'
    BY <1>19 DEF OtherChange
  <2>5. HandoffKept' /\ HandoffOutcome'
    BY <1>19 DEF OtherChange
  <2> QED
    BY <2>1, <2>2, <2>3, <2>4, <2>5
<1>20. CASE HolderKilled
  <2>1. HandoffTypeOK'
    BY <1>20 DEF HolderKilled
  <2>2. LatestInv'
    BY <1>20 DEF HolderKilled
  <2>3. OwnerInv'
    BY <1>20 DEF HolderKilled
  <2>4. StepsInv'
    BY <1>20 DEF HolderKilled
  <2>5. HandoffKept' /\ HandoffOutcome'
    BY <1>20 DEF HolderKilled
  <2> QED
    BY <2>1, <2>2, <2>3, <2>4, <2>5
<1>21. CASE HandoffBoot
  <2>1. HandoffTypeOK'
    <3>1. net' \in Records
      BY ZenonT(60), <1>21 DEF HandoffBoot
    <3>2. fate' \in [Restores -> {"none", "confirmed", "rolled-back"}]
      BY <1>21 DEF HandoffBoot
    <3>3. holder' \in [who : {"none", "job", "operator", "worker"}, next : HandoffSteps] /\ down' \in BOOLEAN
      BY <1>21 DEF HandoffBoot
    <3> QED
      BY <1>21, <3>1, <3>2, <3>3 DEF HandoffBoot
  <2>2. LatestInv'
    <3>1. CASE net.phase \in Decided
      BY <1>21, <3>1 DEF HandoffBoot
    <3>2. CASE net.phase \notin Decided /\ net.owner = 0
      BY SMTT(60), <1>21, <3>2 DEF HandoffBoot
    <3>3. CASE net.phase \notin Decided /\ net.owner # 0
      BY <1>21, <3>3 DEF HandoffBoot
    <3> QED
      BY <3>1, <3>2, <3>3
  <2>3. OwnerInv'
    <3>1. CASE net.phase \in Decided
      BY <1>21, <3>1 DEF HandoffBoot
    <3>2. CASE net.phase \notin Decided /\ net.owner = 0
      BY <1>21, <3>2 DEF HandoffBoot
    <3>3. CASE net.phase \notin Decided /\ net.owner # 0
      BY SMTT(60), <1>21, <3>3 DEF HandoffBoot
    <3> QED
      BY <3>1, <3>2, <3>3
  <2>4. StepsInv'
    <3>1. CASE net.phase \in Decided
      BY <1>21, <3>1 DEF HandoffBoot
    <3>2. CASE net.phase \notin Decided /\ net.owner = 0
      BY <1>21, <3>2 DEF HandoffBoot
    <3>3. CASE net.phase \notin Decided /\ net.owner # 0
      BY <1>21, <3>3 DEF HandoffBoot
    <3> QED
      BY <3>1, <3>2, <3>3
  <2>5. HandoffKept' /\ HandoffOutcome'
    <3>1. CASE net.phase \in Decided
      BY <1>21, <3>1 DEF HandoffBoot
    <3>2. CASE net.phase \notin Decided /\ net.owner = 0
      BY <1>21, <3>2 DEF HandoffBoot
    <3>3. CASE net.phase \notin Decided /\ net.owner # 0
      BY <1>21, <3>3 DEF HandoffBoot
    <3> QED
      BY <3>1, <3>2, <3>3
  <2> QED
    BY <2>1, <2>2, <2>3, <2>4, <2>5
<1>22. CASE UNCHANGED handoffVars
  <2>1. HandoffTypeOK'
    BY <1>22 DEF handoffVars
  <2>2. LatestInv'
    BY <1>22 DEF handoffVars
  <2>3. OwnerInv'
    BY <1>22 DEF handoffVars
  <2>4. StepsInv'
    BY <1>22 DEF handoffVars
  <2>5. HandoffKept' /\ HandoffOutcome'
    BY <1>22 DEF handoffVars
  <2> QED
    BY <2>1, <2>2, <2>3, <2>4, <2>5
<1> QED
  BY <1>1, <1>2, <1>3, <1>4, <1>5, <1>6, <1>7, <1>8, <1>9, <1>10, <1>11, <1>12, <1>13, <1>14,
     <1>15,
     <1>16, <1>17, <1>18, <1>19, <1>20, <1>21, <1>22 DEF HandoffNext, HolderSteps

LEMMA HandoffRuns == [ServicesNext]_servicesVars => [HandoffNext]_handoffVars
  BY DEF ServicesNext, servicesVars, Others, handoffVars

(* The two journals of a network restore agree, however its job, an operator *)
(* and the network's worker take turns and whatever ends them.               *)
THEOREM SpecHandoffSound == ServicesSpec => []HandoffSound
<1>1. ServicesInit => HandoffInv
  BY HandoffInitInvariant DEF ServicesInit
<1>2. HandoffInv /\ [ServicesNext]_servicesVars => HandoffInv'
  BY HandoffInvariant, HandoffRuns
<1>3. HandoffInv => HandoffSound
  BY DEF HandoffInv, HandoffSound
<1> QED
  BY <1>1, <1>2, <1>3, PTL DEF ServicesSpec


-----------------------------------------------------------------------------
(* The preparation of a release                                              *)

UpdateSteps == {"none", "fetch", "artifacts", "images", "claim", "fill", "publish", "sync", "check",
                "candidate"}
Claimed == {"fill", "publish", "sync"}

UpdateTypeOK ==
  /\ update \in [selected : Offers \cup {0}, fetched : Offers \cup {0}, step : UpdateSteps]
  /\ images \subseteq Offers /\ confirmed \subseteq Offers
  /\ prefix \in [Versions -> [of : Offers \cup {0}, state : {"absent", "claimed", "installed"}]]
  /\ prepared \in [Versions -> Offers \cup {0}]
  /\ unsettled \subseteq Versions
  /\ running \in Offers \cup {0}

(* The job works on the release that a user confirmed, at a prefix that no   *)
(* other has claimed.                                                        *)
AttemptInv ==
  /\ update.step = "none" => update = NoUpdate
  /\ update.step # "none" => Selected \in confirmed
  /\ update.step \in {"artifacts", "images", "claim"} \cup Claimed => update.fetched = Selected
  /\ update.step \in {"claim"} \cup Claimed => Selected \in images
  /\ update.step = "fill" => prefix[Version] = [of |-> Selected, state |-> "claimed"]
  /\ update.step \in {"publish", "sync"} => prefix[Version] = [of |-> Selected, state |-> "installed"]

VersionsInv == \A v \in Versions : prepared[v] # 0 => VersionOf[prepared[v]] = v

UpdateInv == UpdateTypeOK /\ AttemptInv /\ VersionsInv /\ RunsComplete /\ PreparedIsWhole

LEMMA UpdateInitInvariant == UpdateInit => UpdateInv
<1> SUFFICES ASSUME UpdateInit PROVE UpdateInv
  OBVIOUS
<1> USE OffersAssumption DEF OffersAssumption, UpdateInit, UpdateInv, UpdateTypeOK, AttemptInv,
            VersionsInv, RunsComplete, PreparedIsWhole, Versions, Selected, Version, NoUpdate,
            Unclaimed, Reach, Abandon, Confirmed, New, Candidate, UpdateSteps, Claimed
<1>1. UpdateTypeOK
  OBVIOUS
<1>2. AttemptInv
  OBVIOUS
<1>3. VersionsInv
  OBVIOUS
<1>4. RunsComplete
  OBVIOUS
<1>5. PreparedIsWhole
  BY SMTT(60)
<1> QED
  BY <1>1, <1>2, <1>3, <1>4, <1>5

LEMMA UpdateInvariant ==
  ASSUME UpdateInv, [UpdateNext]_updateVars
  PROVE  UpdateInv'
<1> USE OffersAssumption DEF OffersAssumption, UpdateInv, UpdateTypeOK, AttemptInv, VersionsInv,
            RunsComplete, PreparedIsWhole, Versions, Selected, Version, NoUpdate, Unclaimed, Reach,
            Abandon, Confirmed, New, Candidate, UpdateSteps, Claimed
<1>1. CASE Publish
  <2>1. UpdateTypeOK'
    BY <1>1 DEF Publish
  <2>2. AttemptInv'
    BY <1>1 DEF Publish
  <2>3. VersionsInv'
    BY <1>1 DEF Publish
  <2>4. RunsComplete'
    BY <1>1 DEF Publish
  <2>5. PreparedIsWhole'
    BY <1>1 DEF Publish
  <2> QED
    BY <2>1, <2>2, <2>3, <2>4, <2>5
<1>2. CASE \E n \in Offers : ConfirmUpdate(n)
  <2>1. UpdateTypeOK'
    BY <1>2 DEF ConfirmUpdate
  <2>2. AttemptInv'
    BY <1>2 DEF ConfirmUpdate
  <2>3. VersionsInv'
    BY <1>2 DEF ConfirmUpdate
  <2>4. RunsComplete'
    BY <1>2 DEF ConfirmUpdate
  <2>5. PreparedIsWhole'
    BY <1>2 DEF ConfirmUpdate
  <2> QED
    BY <2>1, <2>2, <2>3, <2>4, <2>5
<1>3. CASE FetchManifest
  <2>1. UpdateTypeOK'
    <3>1. \/ update' = NoUpdate
          \/ update' = [selected |-> Selected, fetched |-> Selected, step |-> "artifacts"]
      BY ZenonT(60), <1>3 DEF FetchManifest
    <3>2. Selected \in Offers \cup {0}
      OBVIOUS
    <3> QED
      BY <1>3, <3>1, <3>2 DEF FetchManifest
  <2>2. AttemptInv'
    <3>1. update.step = "fetch" /\ Selected \in confirmed
      BY <1>3 DEF FetchManifest
    <3>2. \/ update' = NoUpdate
          \/ update' = [selected |-> Selected, fetched |-> Selected, step |-> "artifacts"]
      BY ZenonT(60), <1>3 DEF FetchManifest
    <3> QED
      BY <1>3, <3>1, <3>2 DEF FetchManifest
  <2>3. VersionsInv'
    BY <1>3 DEF FetchManifest
  <2>4. RunsComplete'
    BY <1>3 DEF FetchManifest
  <2>5. PreparedIsWhole'
    BY <1>3 DEF FetchManifest
  <2> QED
    BY <2>1, <2>2, <2>3, <2>4, <2>5
<1>4. CASE FetchArtifacts
  <2>1. UpdateTypeOK'
    BY <1>4 DEF FetchArtifacts
  <2>2. AttemptInv'
    BY <1>4 DEF FetchArtifacts
  <2>3. VersionsInv'
    BY <1>4 DEF FetchArtifacts
  <2>4. RunsComplete'
    BY <1>4 DEF FetchArtifacts
  <2>5. PreparedIsWhole'
    BY <1>4 DEF FetchArtifacts
  <2> QED
    BY <2>1, <2>2, <2>3, <2>4, <2>5
<1>5. CASE PullImages
  <2>1. UpdateTypeOK'
    BY <1>5 DEF PullImages
  <2>2. AttemptInv'
    BY <1>5 DEF PullImages
  <2>3. VersionsInv'
    BY <1>5 DEF PullImages
  <2>4. RunsComplete'
    BY <1>5 DEF PullImages
  <2>5. PreparedIsWhole'
    BY <1>5 DEF PullImages
  <2> QED
    BY <2>1, <2>2, <2>3, <2>4, <2>5
<1>6. CASE ClaimPrefix
  <2>1. UpdateTypeOK'
    BY <1>6 DEF ClaimPrefix
  <2>2. AttemptInv'
    BY <1>6 DEF ClaimPrefix
  <2>3. VersionsInv'
    BY <1>6 DEF ClaimPrefix
  <2>4. RunsComplete'
    BY <1>6 DEF ClaimPrefix
  <2>5. PreparedIsWhole'
    BY <1>6 DEF ClaimPrefix
  <2> QED
    BY <2>1, <2>2, <2>3, <2>4, <2>5
<1>7. CASE FillPrefix
  <2>1. UpdateTypeOK'
    BY <1>7 DEF FillPrefix
  <2>2. AttemptInv'
    BY <1>7 DEF FillPrefix
  <2>3. VersionsInv'
    BY <1>7 DEF FillPrefix
  <2>4. RunsComplete'
    BY <1>7 DEF FillPrefix
  <2>5. PreparedIsWhole'
    BY <1>7 DEF FillPrefix
  <2> QED
    BY <2>1, <2>2, <2>3, <2>4, <2>5
<1>8. CASE PublishPrepared
  <2>1. UpdateTypeOK'
    BY <1>8 DEF PublishPrepared
  <2>2. AttemptInv'
    BY <1>8 DEF PublishPrepared
  <2>3. VersionsInv'
    BY <1>8 DEF PublishPrepared
  <2>4. RunsComplete'
    BY <1>8 DEF PublishPrepared
  <2>5. PreparedIsWhole'
    BY <1>8 DEF PublishPrepared
  <2> QED
    BY <2>1, <2>2, <2>3, <2>4, <2>5
<1>9. CASE SyncPrepared
  <2>1. UpdateTypeOK'
    BY <1>9 DEF SyncPrepared
  <2>2. AttemptInv'
    BY <1>9 DEF SyncPrepared
  <2>3. VersionsInv'
    BY <1>9 DEF SyncPrepared
  <2>4. RunsComplete'
    BY <1>9 DEF SyncPrepared
  <2>5. PreparedIsWhole'
    BY <1>9 DEF SyncPrepared
  <2> QED
    BY <2>1, <2>2, <2>3, <2>4, <2>5
<1>10. CASE CheckPrepared
  <2>1. UpdateTypeOK'
    BY <1>10 DEF CheckPrepared
  <2>2. AttemptInv'
    BY <1>10 DEF CheckPrepared
  <2>3. VersionsInv'
    BY <1>10 DEF CheckPrepared
  <2>4. RunsComplete'
    BY <1>10 DEF CheckPrepared
  <2>5. PreparedIsWhole'
    BY <1>10 DEF CheckPrepared
  <2> QED
    BY <2>1, <2>2, <2>3, <2>4, <2>5
<1>11. CASE ActivatePrepared
  <2>1. UpdateTypeOK'
    BY <1>11 DEF ActivatePrepared
  <2>2. AttemptInv'
    BY <1>11 DEF ActivatePrepared
  <2>3. VersionsInv'
    BY <1>11 DEF ActivatePrepared
  <2>4. RunsComplete'
    BY <1>11 DEF ActivatePrepared
  <2>5. PreparedIsWhole'
    BY <1>11 DEF ActivatePrepared
  <2> QED
    BY <2>1, <2>2, <2>3, <2>4, <2>5
<1>12. CASE UpdateStops
  <2>1. UpdateTypeOK'
    BY <1>12 DEF UpdateStops
  <2>2. AttemptInv'
    BY <1>12 DEF UpdateStops
  <2>3. VersionsInv'
    BY <1>12 DEF UpdateStops
  <2>4. RunsComplete'
    BY <1>12 DEF UpdateStops
  <2>5. PreparedIsWhole'
    BY <1>12 DEF UpdateStops
  <2> QED
    BY <2>1, <2>2, <2>3, <2>4, <2>5
<1>13. CASE UpdatePowerLoss
  <2>1. UpdateTypeOK'
    BY <1>13 DEF UpdatePowerLoss
  <2>2. AttemptInv'
    BY <1>13 DEF UpdatePowerLoss
  <2>3. VersionsInv'
    BY <1>13 DEF UpdatePowerLoss
  <2>4. RunsComplete'
    BY <1>13 DEF UpdatePowerLoss
  <2>5. PreparedIsWhole'
    BY <1>13 DEF UpdatePowerLoss
  <2> QED
    BY <2>1, <2>2, <2>3, <2>4, <2>5
<1>14. CASE UNCHANGED updateVars
  <2>1. UpdateTypeOK'
    BY <1>14 DEF updateVars
  <2>2. AttemptInv'
    BY <1>14 DEF updateVars
  <2>3. VersionsInv'
    BY <1>14 DEF updateVars
  <2>4. RunsComplete'
    BY <1>14 DEF updateVars
  <2>5. PreparedIsWhole'
    BY <1>14 DEF updateVars
  <2> QED
    BY <2>1, <2>2, <2>3, <2>4, <2>5
<1> QED
  BY <1>1, <1>2, <1>3, <1>4, <1>5, <1>6, <1>7, <1>8, <1>9, <1>10, <1>11, <1>12, <1>13,
     <1>14 DEF UpdateNext

LEMMA UpdateRuns == [ServicesNext]_servicesVars => [UpdateNext]_updateVars
  BY DEF ServicesNext, servicesVars, Others, updateVars

(* Whatever the source publishes and wherever an attempt ends, what runs and *)
(* what is prepared is a confirmed release with its own dependencies.        *)
THEOREM SpecUpdatesSound == ServicesSpec => []UpdatesSound
<1>1. ServicesInit => UpdateInv
  BY UpdateInitInvariant DEF ServicesInit
<1>2. UpdateInv /\ [ServicesNext]_servicesVars => UpdateInv'
  BY UpdateInvariant, UpdateRuns
<1>3. UpdateInv => UpdatesSound
  BY DEF UpdateInv, UpdatesSound
<1> QED
  BY <1>1, <1>2, <1>3, PTL DEF ServicesSpec


-----------------------------------------------------------------------------
(* The remote repository                                                     *)

RepositorySteps ==
  Repository \cup {"mount", "render", "validate", "stage", "describe", "create", "prune", "record"}
Transferring == {"stage", "describe", "create", "prune"}
OperationRecords == [kind : Locking \cup {"none", "restore"},
                     step : RepositorySteps \cup {"none", "renew", "write"},
                     archive : Archives \cup {NoArchive},
                     settings : Destinations \cup {NoDestination},
                     overtaken : BOOLEAN]

BorgTypeOK ==
  /\ destination \in Destinations \cup {NoDestination}
  /\ rendered \in Destinations \cup {NoDestination}
  /\ mounted \in Destinations \cup {NoDestination}
  /\ locals \in [Archives -> {"none", "loose", "whole", "torn"}]
  /\ staged \in [archive : Archives \cup {NoArchive}, metadata : Archives \cup {NoArchive}]
  /\ remote \in [Destinations -> SUBSET [archive : Archives, metadata : Archives, whole : BOOLEAN]]
  /\ upload \in [archive : Archives \cup {NoArchive}, whole : BOOLEAN, recorded : BOOLEAN]
  /\ op \in [Operations -> OperationRecords]
  /\ crossed \in BOOLEAN

(* One process uses the repository or configures it, beside any restore.     *)
OneOperation ==
  /\ \A p, q \in Operations : p # q => ~(op[p].kind \in Locking /\ op[q].kind \in Locking)
  /\ \A p \in Operations :
       /\ op[p].kind = "none" => op[p] = NoOperation
       /\ op[p].kind = "none" <=> op[p].step = "none"
       /\ op[p].kind \in Changing <=> op[p].step \in {"renew", "write"}

(* What an operation has prepared stays as it is while it works, unless a    *)
(* restore replaces the settings; the export it has verified stays mounted.  *)
Prepared(p) ==
  op[p].step \in RepositorySteps \ {"mount"} =>
    /\ mounted \in Destinations /\ op[p].settings \in Destinations
    /\ ~op[p].overtaken =>
         /\ mounted = destination /\ op[p].settings = destination
         /\ op[p].step # "render" => rendered = destination

(* What is staged is the archive that is transferred, whole with its own     *)
(* metadata, and what is fetched is whole.                                   *)
Staging(p) ==
  /\ op[p].step \in Transferring \cup {"validate"} => op[p].archive \in Archives
  /\ op[p].step \in Transferring => locals[op[p].archive] # "torn"
  /\ op[p].step \in {"describe", "create", "prune"} => staged.archive = op[p].archive
  /\ op[p].step \in {"create", "prune"} => staged.metadata = op[p].archive
  /\ op[p].step = "record" => upload.archive # NoArchive /\ upload.whole

OperationsInv == \A p \in Operations : Prepared(p) /\ Staging(p)

(* The schedules in hand are those of the settings, unless they crossed.     *)
ScheduleInv ==
  ~crossed =>
    /\ \A p \in Operations : op[p].step = "write" => op[p].settings = destination
    /\ timer = destination \/ \E p \in Operations : op[p].kind \in Changing

BorgInv == BorgTypeOK /\ OneOperation /\ OperationsInv /\ ScheduleInv /\ RemoteIsWhole

LEMMA BorgInitInvariant == BorgInit => BorgInv
<1> SUFFICES ASSUME BorgInit PROVE BorgInv
  OBVIOUS
<1> USE BorgAssumption DEF BorgAssumption, BorgInit, BorgInv, BorgTypeOK, OneOperation,
            OperationsInv, Prepared, Staging, ScheduleInv, RemoteIsWhole, Changing, Archives, NoArchive, NoDestination,
            NoOperation, NoUpload, Repository, Locking, LockFree, Lock, Take, Finish, RemoteOf,
            RepositorySteps, Transferring, OperationRecords
<1>1. BorgTypeOK
  OBVIOUS
<1>2. OneOperation
  OBVIOUS
<1>3. OperationsInv
  OBVIOUS
<1>4. ScheduleInv
  OBVIOUS
<1>5. RemoteIsWhole
  BY SMTT(60)
<1> QED
  BY <1>1, <1>2, <1>3, <1>4, <1>5

(* An operation that goes on stays the only one.                             *)
LEMMA OperationGoesOn ==
  ASSUME BorgTypeOK, OneOperation, BorgTypeOK', NEW p \in Operations,
         op[p].kind \in Repository, op'[p].kind = op[p].kind, op'[p].step \in RepositorySteps,
         \A q \in Operations : q # p => op'[q] = op[q]
  PROVE  OneOperation'
<1> USE DEF BorgTypeOK, OneOperation, Repository, Locking, Changing, RepositorySteps
<1>1. \A q \in Operations : op'[q].kind = op[q].kind
  OBVIOUS
<1>2. \A q, r \in Operations : q # r => ~(op'[q].kind \in Locking /\ op'[r].kind \in Locking)
  BY <1>1
<1>3. ASSUME NEW q \in Operations
      PROVE  /\ op'[q].kind = "none" => op'[q] = NoOperation
             /\ op'[q].kind = "none" <=> op'[q].step = "none"
             /\ op'[q].kind \in Changing <=> op'[q].step \in {"renew", "write"}
  <2>1. CASE q = p
    BY <2>1, <1>1
  <2>2. CASE q # p
    BY <2>2, <1>3
  <2> QED
    BY <2>1, <2>2
<1>4. NoOperation' = NoOperation
  BY DEF NoOperation, NoArchive, NoDestination
<1> QED
  BY <1>2, <1>3, <1>4

LEMMA BorgInvariant ==
  ASSUME BorgInv, [BorgNext]_borgVars
  PROVE  BorgInv'
<1> USE BorgAssumption DEF BorgAssumption, BorgInv, BorgTypeOK, OneOperation, OperationsInv,
            Prepared, Staging, ScheduleInv, RemoteIsWhole, Changing, Archives, NoArchive, NoDestination, NoOperation, NoUpload,
            Repository, Locking, LockFree, Lock, Take, Finish, RemoteOf, RepositorySteps,
            Transferring, OperationRecords
<1>0. BorgTypeOK /\ OneOperation
  OBVIOUS
<1>1. ASSUME NEW p \in Operations, BeginBorg(p)
     PROVE  BorgInv'
  <2>1. BorgTypeOK'
    <3>1. PICK kind \in Repository : Lock(p, kind, "mount")
      BY <1>1 DEF BeginBorg, Idle
    <3>2. [NoOperation EXCEPT !.kind = kind, !.step = "mount"] \in OperationRecords
      OBVIOUS
    <3>3. op' = [op EXCEPT ![p] = [NoOperation EXCEPT !.kind = kind, !.step = "mount"]]
      BY <3>1 DEF BeginBorg, Idle
    <3>4. op' \in [Operations -> OperationRecords]
      BY <3>2, <3>3
    <3> QED
      BY <1>1, <3>1, <3>2, <3>3, <3>4 DEF BeginBorg, Idle
  <2>2. OneOperation'
    <3>1. PICK kind \in Repository :
            /\ LockFree
            /\ op' = [op EXCEPT ![p] = [NoOperation EXCEPT !.kind = kind, !.step = "mount"]]
      BY <1>1 DEF BeginBorg, Idle
    <3>2. op'[p].kind = kind /\ op'[p].step = "mount"
      BY <3>1
    <3>3. \A q \in Operations : q # p => op'[q] = op[q] /\ op[q].kind \notin Locking
      BY <3>1
    <3> HIDE DEF BorgInv, BorgTypeOK, OperationsInv, Prepared, Staging, ScheduleInv,
                RemoteIsWhole, OperationRecords, RemoteOf
    <3> QED
      BY <1>0, <2>1, <3>2, <3>3
  <2>3. OperationsInv'
    BY <1>1 DEF BeginBorg, Idle
  <2>4. ScheduleInv'
    BY <1>1 DEF BeginBorg, Idle
  <2>5. RemoteIsWhole'
    BY <1>1 DEF BeginBorg, Idle
  <2> QED
    BY <2>1, <2>2, <2>3, <2>4, <2>5
<1>2. ASSUME NEW p \in Operations, EnsureNfs(p)
     PROVE  BorgInv'
  <2>0. op[p].step = "mount" /\ op[p].kind \in Repository /\ op[p].kind # "none"
        /\ \A q \in Operations \ {p} : op[q].step \notin RepositorySteps
    BY <1>2 DEF EnsureNfs
  <2>a. UNCHANGED <<destination, rendered, timer, locals, staged, remote, upload, crossed>>
        /\ mounted' \in Destinations \cup {NoDestination}
    BY <1>2 DEF EnsureNfs
  <2>b. CASE destination # NoDestination /\ mounted' = destination
    <3>1. op' = [op EXCEPT ![p] = [op[p] EXCEPT !.step = "render", !.settings = destination]]
      BY <1>2, <2>b DEF EnsureNfs
    <3>2. op[p] \in OperationRecords
      OBVIOUS
    <3>3. \A d \in Destinations : [op[p] EXCEPT !.step = "render", !.settings = d] \in OperationRecords
      BY <3>2
    <3>4. op' \in [Operations -> OperationRecords]
      BY <2>b, <3>1, <3>3
    <3>5. op'[p].kind = op[p].kind /\ op'[p].step = "render" /\ op'[p].settings = destination
      BY <3>1
    <3>6. \A q \in Operations : q # p => op'[q] = op[q]
      BY <3>1
    <3>7. BorgTypeOK'
      BY <2>a, <3>4
    <3>8. OneOperation'
      BY <2>0, <3>5, <3>6, <3>7, OperationGoesOn
    <3>9. OperationsInv'
      BY <2>0, <2>a, <2>b, <3>5, <3>6
    <3>10. ScheduleInv'
      BY <2>0, <2>a, <3>5, <3>6
    <3> QED
      BY <2>a, <3>7, <3>8, <3>9, <3>10
  <2>c. CASE ~(destination # NoDestination /\ mounted' = destination)
    <3>1. op' = [op EXCEPT ![p] = NoOperation]
      BY <1>2, <2>c DEF EnsureNfs
    <3>2. BorgTypeOK'
      BY <2>a, <3>1
    <3>3. OneOperation'
      BY <3>1
    <3>4. OperationsInv'
      BY <2>0, <2>a, <3>1
    <3>5. ScheduleInv'
      BY <2>0, <2>a, <3>1
    <3> QED
      BY <2>a, <3>2, <3>3, <3>4, <3>5
  <2> QED
    BY <2>b, <2>c
<1>3. ASSUME NEW p \in Operations, InspectRepository(p)
     PROVE  BorgInv'
  <2>1. BorgTypeOK'
    BY <1>3 DEF InspectRepository
  <2>2. OneOperation'
    BY <1>3 DEF InspectRepository
  <2>3. OperationsInv'
    BY <1>3 DEF InspectRepository
  <2>4. ScheduleInv'
    BY <1>3 DEF InspectRepository
  <2>5. RemoteIsWhole'
    BY <1>3 DEF InspectRepository
  <2> QED
    BY <2>1, <2>2, <2>3, <2>4, <2>5
<1>4. ASSUME NEW p \in Operations, Capture(p)
     PROVE  BorgInv'
  <2>1. BorgTypeOK'
    <3>1. op[p] \in OperationRecords
      OBVIOUS
    <3>2. PICK a \in Archives : /\ op' = [op EXCEPT ![p] = [@ EXCEPT !.step = "validate", !.archive = a]]
                              /\ locals' = [locals EXCEPT ![a] = "loose"]
      BY <1>4 DEF Capture
    <3>3. \A x \in OperationRecords : [x EXCEPT !.step = "validate", !.archive = a] \in OperationRecords
      OBVIOUS
    <3>4. op' \in [Operations -> OperationRecords]
      BY ZenonT(60), <3>1, <3>2, <3>3
    <3> QED
      BY <1>4, <3>1, <3>2, <3>3, <3>4 DEF Capture
  <2>2. OneOperation'
    <3> HIDE DEF BorgInv, BorgTypeOK, OneOperation, OperationsInv, Prepared, Staging,
                ScheduleInv, RemoteIsWhole, OperationRecords, RemoteOf
    <3>1. op[p].step = "backup" /\ op[p] \in OperationRecords /\ op \in [Operations -> OperationRecords]
      BY <1>0, <1>4 DEF Capture, BorgTypeOK
    <3>2. op[p].kind \in Repository
      BY <1>0, <3>1 DEF OneOperation, OperationRecords
    <3>3. op'[p].kind = op[p].kind /\ op'[p].step = "validate"
      BY <1>4, <3>1, <3>2 DEF Capture, OperationRecords
    <3>4. \A q \in Operations : q # p => op'[q] = op[q]
      BY <1>4, <3>1 DEF Capture
    <3> QED
      BY <1>0, <2>1, <3>2, <3>3, <3>4, OperationGoesOn
  <2>3. OperationsInv'
    BY <1>4 DEF Capture
  <2>4. ScheduleInv'
    BY <1>4 DEF Capture
  <2>5. RemoteIsWhole'
    BY <1>4 DEF Capture
  <2> QED
    BY <2>1, <2>2, <2>3, <2>4, <2>5
<1>5. ASSUME NEW p \in Operations, ChooseArchive(p)
     PROVE  BorgInv'
  <2>1. BorgTypeOK'
    <3>1. op[p] \in OperationRecords
      OBVIOUS
    <3>2. PICK a \in Archives : op' = [op EXCEPT ![p] = [@ EXCEPT !.step = "validate", !.archive = a]]
      BY <1>5 DEF ChooseArchive
    <3>3. \A x \in OperationRecords : [x EXCEPT !.step = "validate", !.archive = a] \in OperationRecords
      OBVIOUS
    <3>4. op' \in [Operations -> OperationRecords]
      BY ZenonT(60), <3>1, <3>2, <3>3
    <3> QED
      BY <1>5, <3>1, <3>2, <3>3, <3>4 DEF ChooseArchive
  <2>2. OneOperation'
    <3> HIDE DEF BorgInv, BorgTypeOK, OneOperation, OperationsInv, Prepared, Staging,
                ScheduleInv, RemoteIsWhole, OperationRecords, RemoteOf
    <3>1. op[p].step = "transfer" /\ op[p] \in OperationRecords /\ op \in [Operations -> OperationRecords]
      BY <1>0, <1>5 DEF ChooseArchive, BorgTypeOK
    <3>2. op[p].kind \in Repository
      BY <1>0, <3>1 DEF OneOperation, OperationRecords
    <3>3. op'[p].kind = op[p].kind /\ op'[p].step = "validate"
      BY <1>5, <3>1, <3>2 DEF ChooseArchive, OperationRecords
    <3>4. \A q \in Operations : q # p => op'[q] = op[q]
      BY <1>5, <3>1 DEF ChooseArchive
    <3> QED
      BY <1>0, <2>1, <3>2, <3>3, <3>4, OperationGoesOn
  <2>3. OperationsInv'
    BY <1>5 DEF ChooseArchive
  <2>4. ScheduleInv'
    BY <1>5 DEF ChooseArchive
  <2>5. RemoteIsWhole'
    BY <1>5 DEF ChooseArchive
  <2> QED
    BY <2>1, <2>2, <2>3, <2>4, <2>5
<1>6. ASSUME NEW p \in Operations, ValidateArchive(p)
     PROVE  BorgInv'
  <2>1. BorgTypeOK'
    <3>1. CASE locals[op[p].archive] # "torn"
      <4>1. op' = [op EXCEPT ![p] = [op[p] EXCEPT !.step = "stage"]] /\ op[p].step = "validate"
        BY <1>6, <3>1 DEF ValidateArchive
      <4>2. op[p] \in OperationRecords
        OBVIOUS
      <4>3. [op[p] EXCEPT !.step = "stage"] \in OperationRecords
        BY <4>2
      <4>4. op' \in [Operations -> OperationRecords]
        BY <4>1, <4>3
      <4> QED
        BY <1>6, <3>1, <4>1, <4>2, <4>3, <4>4 DEF ValidateArchive
    <3>2. CASE ~(locals[op[p].archive] # "torn")
      <4>1. op' = [op EXCEPT ![p] = NoOperation] /\ op[p].step = "validate"
        BY <1>6, <3>2 DEF ValidateArchive
      <4> QED
        BY <1>6, <3>2, <4>1 DEF ValidateArchive
    <3> QED
      BY <3>1, <3>2
  <2>2. OneOperation'
    <3>1. CASE locals[op[p].archive] # "torn"
      <4>1. op' = [op EXCEPT ![p] = [op[p] EXCEPT !.step = "stage"]] /\ op[p].step = "validate"
        BY <1>6, <3>1 DEF ValidateArchive
      <4>2. op'[p].kind = op[p].kind /\ op'[p].step = "stage" /\ op[p].kind \in Repository
        BY <4>1
      <4>3. \A q \in Operations : q # p => op'[q] = op[q]
        BY <4>1
      <4> HIDE DEF BorgInv, BorgTypeOK, OneOperation, OperationsInv, Prepared, Staging,
                ScheduleInv, RemoteIsWhole, OperationRecords, RemoteOf
      <4> QED
        BY <1>0, <2>1, <4>2, <4>3, OperationGoesOn
    <3>2. CASE ~(locals[op[p].archive] # "torn")
      <4>1. op' = [op EXCEPT ![p] = NoOperation] /\ op[p].step = "validate"
        BY <1>6, <3>2 DEF ValidateArchive
      <4> QED
        BY <1>6, <3>2, <4>1 DEF ValidateArchive
    <3> QED
      BY <3>1, <3>2
  <2>3. OperationsInv'
    <3>1. CASE locals[op[p].archive] # "torn"
      <4>1. op' = [op EXCEPT ![p] = [op[p] EXCEPT !.step = "stage"]] /\ op[p].step = "validate"
        BY <1>6, <3>1 DEF ValidateArchive
      <4> QED
        BY <1>6, <3>1, <4>1 DEF ValidateArchive
    <3>2. CASE ~(locals[op[p].archive] # "torn")
      <4>1. op' = [op EXCEPT ![p] = NoOperation] /\ op[p].step = "validate"
        BY <1>6, <3>2 DEF ValidateArchive
      <4> QED
        BY <1>6, <3>2, <4>1 DEF ValidateArchive
    <3> QED
      BY <3>1, <3>2
  <2>4. ScheduleInv'
    BY SMTT(60), <1>6 DEF ValidateArchive
  <2>5. RemoteIsWhole'
    BY <1>6 DEF ValidateArchive
  <2> QED
    BY <2>1, <2>2, <2>3, <2>4, <2>5
<1>7. ASSUME NEW p \in Operations, StageArchive(p)
     PROVE  BorgInv'
  <2>1. BorgTypeOK'
    <3>1. op[p] \in OperationRecords
      OBVIOUS
    <3>2. [op[p] EXCEPT !.step = "describe"] \in OperationRecords
      BY <3>1
    <3>3. op' = [op EXCEPT ![p] = [op[p] EXCEPT !.step = "describe"]]
      BY <1>7 DEF StageArchive
    <3>4. op' \in [Operations -> OperationRecords]
      BY <3>2, <3>3
    <3> QED
      BY <1>7, <3>1, <3>2, <3>3, <3>4 DEF StageArchive
  <2>2. OneOperation'
    <3> HIDE DEF BorgInv, BorgTypeOK, OneOperation, OperationsInv, Prepared, Staging,
                ScheduleInv, RemoteIsWhole, OperationRecords, RemoteOf
    <3>1. op[p].step = "stage" /\ op[p] \in OperationRecords /\ op \in [Operations -> OperationRecords]
      BY <1>0, <1>7 DEF StageArchive, BorgTypeOK
    <3>2. op[p].kind \in Repository
      BY <1>0, <3>1 DEF OneOperation, OperationRecords
    <3>3. op'[p].kind = op[p].kind /\ op'[p].step = "describe"
      BY <1>7, <3>1, <3>2 DEF StageArchive, OperationRecords
    <3>4. \A q \in Operations : q # p => op'[q] = op[q]
      BY <1>7, <3>1 DEF StageArchive
    <3> QED
      BY <1>0, <2>1, <3>2, <3>3, <3>4, OperationGoesOn
  <2>3. OperationsInv'
    BY <1>7 DEF StageArchive
  <2>4. ScheduleInv'
    BY <1>7 DEF StageArchive
  <2>5. RemoteIsWhole'
    BY <1>7 DEF StageArchive
  <2> QED
    BY <2>1, <2>2, <2>3, <2>4, <2>5
<1>8. ASSUME NEW p \in Operations, StageMetadata(p)
     PROVE  BorgInv'
  <2>1. BorgTypeOK'
    <3>1. op[p] \in OperationRecords
      OBVIOUS
    <3>2. [op[p] EXCEPT !.step = "create"] \in OperationRecords
      BY <3>1
    <3>3. op' = [op EXCEPT ![p] = [op[p] EXCEPT !.step = "create"]]
      BY <1>8 DEF StageMetadata
    <3>4. op' \in [Operations -> OperationRecords]
      BY <3>2, <3>3
    <3> QED
      BY <1>8, <3>1, <3>2, <3>3, <3>4 DEF StageMetadata
  <2>2. OneOperation'
    <3> HIDE DEF BorgInv, BorgTypeOK, OneOperation, OperationsInv, Prepared, Staging,
                ScheduleInv, RemoteIsWhole, OperationRecords, RemoteOf
    <3>1. op[p].step = "describe" /\ op[p] \in OperationRecords /\ op \in [Operations -> OperationRecords]
      BY <1>0, <1>8 DEF StageMetadata, BorgTypeOK
    <3>2. op[p].kind \in Repository
      BY <1>0, <3>1 DEF OneOperation, OperationRecords
    <3>3. op'[p].kind = op[p].kind /\ op'[p].step = "create"
      BY <1>8, <3>1, <3>2 DEF StageMetadata, OperationRecords
    <3>4. \A q \in Operations : q # p => op'[q] = op[q]
      BY <1>8, <3>1 DEF StageMetadata
    <3> QED
      BY <1>0, <2>1, <3>2, <3>3, <3>4, OperationGoesOn
  <2>3. OperationsInv'
    BY <1>8 DEF StageMetadata
  <2>4. ScheduleInv'
    BY <1>8 DEF StageMetadata
  <2>5. RemoteIsWhole'
    BY <1>8 DEF StageMetadata
  <2> QED
    BY <2>1, <2>2, <2>3, <2>4, <2>5
<1>9. ASSUME NEW p \in Operations, CreateRemote(p)
     PROVE  BorgInv'
  <2>1. BorgTypeOK'
    <3>1. op[p] \in OperationRecords
      OBVIOUS
    <3>2. [op[p] EXCEPT !.step = "prune"] \in OperationRecords
      BY <3>1
    <3>3. op' = [op EXCEPT ![p] = [op[p] EXCEPT !.step = "prune"]]
      BY <1>9 DEF CreateRemote
    <3>4. op' \in [Operations -> OperationRecords]
      BY <3>2, <3>3
    <3>5. RemoteOf(staged) \in [archive : Archives, metadata : Archives, whole : BOOLEAN]
          /\ mounted \in Destinations
      BY <1>9 DEF CreateRemote
    <3> QED
      BY ZenonT(60), <1>9, <3>1, <3>2, <3>3, <3>4, <3>5 DEF CreateRemote
  <2>2. OneOperation'
    <3> HIDE DEF BorgInv, BorgTypeOK, OneOperation, OperationsInv, Prepared, Staging,
                ScheduleInv, RemoteIsWhole, OperationRecords, RemoteOf
    <3>1. op[p].step = "create" /\ op[p] \in OperationRecords /\ op \in [Operations -> OperationRecords]
      BY <1>0, <1>9 DEF CreateRemote, BorgTypeOK
    <3>2. op[p].kind \in Repository
      BY <1>0, <3>1 DEF OneOperation, OperationRecords
    <3>3. op'[p].kind = op[p].kind /\ op'[p].step = "prune"
      BY <1>9, <3>1, <3>2 DEF CreateRemote, OperationRecords
    <3>4. \A q \in Operations : q # p => op'[q] = op[q]
      BY <1>9, <3>1 DEF CreateRemote
    <3> QED
      BY <1>0, <2>1, <3>2, <3>3, <3>4, OperationGoesOn
  <2>3. OperationsInv'
    BY <1>9 DEF CreateRemote
  <2>4. ScheduleInv'
    BY <1>9 DEF CreateRemote
  <2>5. RemoteIsWhole'
    <3>1. RemoteOf(staged).whole /\ RemoteOf(staged).metadata = RemoteOf(staged).archive
      BY ZenonT(60), <1>9 DEF CreateRemote
    <3>2. mounted \in Destinations /\ upload' = upload
          /\ remote' = [remote EXCEPT ![mounted] = @ \cup {RemoteOf(staged)}]
      BY <1>9 DEF CreateRemote
    <3>3. \A d \in Destinations : \A r \in remote'[d] : r \in remote[d] \/ r = RemoteOf(staged)
      BY <3>2
    <3> QED
      BY <3>1, <3>2, <3>3
  <2> QED
    BY <2>1, <2>2, <2>3, <2>4, <2>5
<1>10. ASSUME NEW p \in Operations, PruneRemote(p)
     PROVE  BorgInv'
  <2>1. BorgTypeOK'
    BY <1>10 DEF PruneRemote
  <2>2. OneOperation'
    BY <1>10 DEF PruneRemote
  <2>3. OperationsInv'
    BY <1>10 DEF PruneRemote
  <2>4. ScheduleInv'
    BY <1>10 DEF PruneRemote
  <2>5. RemoteIsWhole'
    BY <1>10 DEF PruneRemote
  <2> QED
    BY <2>1, <2>2, <2>3, <2>4, <2>5
<1>11. ASSUME NEW p \in Operations, ReceiveUpload(p)
     PROVE  BorgInv'
  <2>1. BorgTypeOK'
    <3>1. CASE remote[mounted] = {}
      <4>1. op' = [op EXCEPT ![p] = NoOperation] /\ op[p].step = "fetch"
        BY <1>11, <3>1 DEF ReceiveUpload
      <4> QED
        BY <1>11, <3>1, <4>1 DEF ReceiveUpload
    <3>2. CASE remote[mounted] # {}
      <4>1. op' = [op EXCEPT ![p] = [op[p] EXCEPT !.step = "record"]] /\ op[p].step = "fetch"
        BY <1>11, <3>2 DEF ReceiveUpload
      <4>2. op[p] \in OperationRecords
        OBVIOUS
      <4>3. [op[p] EXCEPT !.step = "record"] \in OperationRecords
        BY <4>2
      <4>4. op' \in [Operations -> OperationRecords]
        BY <4>1, <4>3
      <4>5. mounted \in Destinations
        BY <4>1
      <4>6. PICK r \in remote[mounted] : upload' = [archive |-> r.archive, whole |-> r.whole, recorded |-> FALSE]
        BY <1>11, <3>2 DEF ReceiveUpload
      <4>7. upload' \in [archive : Archives \cup {NoArchive}, whole : BOOLEAN, recorded : BOOLEAN]
        BY <4>5, <4>6
      <4> QED
        BY <1>11, <3>2, <4>1, <4>2, <4>3, <4>4, <4>5, <4>6, <4>7 DEF ReceiveUpload
    <3> QED
      BY <3>1, <3>2
  <2>2. OneOperation'
    <3>1. CASE remote[mounted] = {}
      <4>1. op' = [op EXCEPT ![p] = NoOperation] /\ op[p].step = "fetch"
        BY <1>11, <3>1 DEF ReceiveUpload
      <4> QED
        BY <1>11, <3>1, <4>1 DEF ReceiveUpload
    <3>2. CASE remote[mounted] # {}
      <4>1. op' = [op EXCEPT ![p] = [op[p] EXCEPT !.step = "record"]] /\ op[p].step = "fetch"
        BY <1>11, <3>2 DEF ReceiveUpload
      <4>2. op'[p].kind = op[p].kind /\ op'[p].step = "record" /\ op[p].kind \in Repository
        BY <4>1
      <4>3. \A q \in Operations : q # p => op'[q] = op[q]
        BY <4>1
      <4> HIDE DEF BorgInv, BorgTypeOK, OneOperation, OperationsInv, Prepared, Staging,
                ScheduleInv, RemoteIsWhole, OperationRecords, RemoteOf
      <4> QED
        BY <1>0, <2>1, <4>2, <4>3, OperationGoesOn
    <3> QED
      BY <3>1, <3>2
  <2>3. OperationsInv'
    <3>1. CASE remote[mounted] = {}
      <4>1. op' = [op EXCEPT ![p] = NoOperation] /\ op[p].step = "fetch"
        BY <1>11, <3>1 DEF ReceiveUpload
      <4> QED
        BY <1>11, <3>1, <4>1 DEF ReceiveUpload
    <3>2. CASE remote[mounted] # {}
      <4>1. op' = [op EXCEPT ![p] = [op[p] EXCEPT !.step = "record"]] /\ op[p].step = "fetch"
        BY <1>11, <3>2 DEF ReceiveUpload
      <4>2. mounted \in Destinations
        BY <4>1
      <4>3. upload'.archive # NoArchive /\ upload'.whole
        BY <1>11, <3>2, <4>2 DEF ReceiveUpload
      <4> QED
        BY <1>11, <3>2, <4>1, <4>2, <4>3 DEF ReceiveUpload
    <3> QED
      BY <3>1, <3>2
  <2>4. ScheduleInv'
    <3>1. op[p].kind \in Repository /\ op'[p].step # "write"
      BY <1>11 DEF ReceiveUpload
    <3>2. \A q \in Operations : q # p => op'[q] = op[q]
      BY <1>11 DEF ReceiveUpload
    <3>3. UNCHANGED <<destination, timer, crossed>>
      BY <1>11 DEF ReceiveUpload
    <3>4. op[p].kind \notin Changing
      BY <3>1
    <3> HIDE DEF BorgTypeOK, OneOperation, OperationsInv, Prepared, Staging, RemoteIsWhole,
                OperationRecords, RemoteOf
    <3> QED
      BY <3>1, <3>2, <3>3, <3>4
  <2>5. RemoteIsWhole'
    BY <1>11 DEF ReceiveUpload
  <2> QED
    BY <2>1, <2>2, <2>3, <2>4, <2>5
<1>12. ASSUME NEW p \in Operations, RecordUpload(p)
     PROVE  BorgInv'
  <2>1. BorgTypeOK'
    BY <1>12 DEF RecordUpload
  <2>2. OneOperation'
    BY <1>12 DEF RecordUpload
  <2>3. OperationsInv'
    BY <1>12 DEF RecordUpload
  <2>4. ScheduleInv'
    BY <1>12 DEF RecordUpload
  <2>5. RemoteIsWhole'
    BY <1>12 DEF RecordUpload
  <2> QED
    BY <2>1, <2>2, <2>3, <2>4, <2>5
<1>13. ASSUME NEW p \in Operations, SaveDestination(p)
     PROVE  BorgInv'
  <2>1. BorgTypeOK'
    BY <1>13 DEF SaveDestination, Idle, Overtakes
  <2>2. OneOperation'
    BY <1>13 DEF SaveDestination, Idle, Overtakes
  <2>3. OperationsInv'
    BY <1>13 DEF SaveDestination, Idle, Overtakes
  <2>4. ScheduleInv'
    BY ZenonT(60), <1>13 DEF SaveDestination, Idle, Overtakes
  <2>5. RemoteIsWhole'
    BY <1>13 DEF SaveDestination, Idle, Overtakes
  <2> QED
    BY <2>1, <2>2, <2>3, <2>4, <2>5
<1>14. ASSUME NEW p \in Operations, RestoreSettings(p)
     PROVE  BorgInv'
  <2>a. UNCHANGED <<timer, mounted, locals, staged, remote, upload>>
        /\ destination' \in Destinations \cup {NoDestination}
        /\ rendered' \in Destinations \cup {NoDestination}
        /\ crossed' = (crossed \/ \E q \in Operations : op[q].step = "write")
    BY <1>14 DEF RestoreSettings, Overtakes
  <2>b. op[p] = NoOperation
    BY <1>14 DEF RestoreSettings, Idle
  <2>c. op'[p] = [NoOperation EXCEPT !.kind = "restore", !.step = "renew"]
    BY <1>14 DEF RestoreSettings
  <2>d. ASSUME NEW q \in Operations, q # p
        PROVE  op'[q] = [op[q] EXCEPT !.overtaken =
                 @ \/ (op[q].kind \in Repository /\ op[q].step # "mount")]
    BY <1>14, <2>d DEF RestoreSettings
  <2>e. ASSUME NEW q \in Operations, q # p
        PROVE  /\ op'[q] \in OperationRecords
               /\ op'[q].kind = op[q].kind /\ op'[q].step = op[q].step
               /\ op'[q].archive = op[q].archive /\ op'[q].settings = op[q].settings
               /\ op[q].kind \in Repository /\ op[q].step # "mount" => op'[q].overtaken
               /\ op[q] = NoOperation => op'[q] = NoOperation
    <3>1. op[q] \in OperationRecords
      OBVIOUS
    <3>2. op'[q] = [op[q] EXCEPT !.overtaken =
             op[q].overtaken \/ (op[q].kind \in Repository /\ op[q].step # "mount")]
      BY <2>d, <2>e
    <3>3. op'[q] \in OperationRecords /\ op'[q].kind = op[q].kind /\ op'[q].step = op[q].step
          /\ op'[q].archive = op[q].archive /\ op'[q].settings = op[q].settings
      BY <3>1, <3>2
    <3>4. op'[q].overtaken = (op[q].overtaken \/ (op[q].kind \in Repository /\ op[q].step # "mount"))
      BY <3>1, <3>2
    <3>5. ASSUME op[q] = NoOperation PROVE op'[q] = NoOperation
      <4>1. ~op'[q].overtaken
        BY <3>4, <3>5
      <4>2. op'[q].overtaken = FALSE
        BY <3>3, <4>1
      <4>3. (op[q].overtaken \/ (op[q].kind \in Repository /\ op[q].step # "mount")) = FALSE
        BY <3>4, <4>2
      <4>4. op'[q] = [NoOperation EXCEPT !.overtaken = FALSE]
        BY <3>2, <3>5, <4>3, Zenon
      <4> QED
        BY <4>4
    <3> QED
      BY <3>3, <3>4, <3>5
  <2>1. BorgTypeOK'
    <3>1. op'[p] \in OperationRecords
      BY <2>c
    <3>2. \A q \in Operations : op'[q] \in OperationRecords
      BY <2>e, <3>1
    <3>3. op' = [q \in Operations |-> op'[q]]
      BY <1>14 DEF RestoreSettings
    <3>4. op' \in [Operations -> OperationRecords]
      BY <3>2, <3>3
    <3> QED
      BY <2>a, <3>4
  <2>2. OneOperation'
    <3>1. op'[p].kind = "restore" /\ op'[p].step = "renew" /\ op[p].kind = "none"
      BY <2>b, <2>c
    <3>2. ASSUME NEW q \in Operations
          PROVE  /\ op'[q].kind = "none" => op'[q] = NoOperation
                 /\ op'[q].kind = "none" <=> op'[q].step = "none"
                 /\ op'[q].kind \in Changing <=> op'[q].step \in {"renew", "write"}
      BY <2>e, <3>1
    <3>3. ASSUME NEW q \in Operations, NEW r \in Operations, q # r
          PROVE  ~(op'[q].kind \in Locking /\ op'[r].kind \in Locking)
      BY <2>e, <3>1, <3>3
    <3> QED
      BY <3>2, <3>3
  <2>3. OperationsInv'
    <3>1. ASSUME NEW q \in Operations, q # p PROVE Prepared(q)'
      <4>1. op[q].step \in RepositorySteps \ {"mount"} => op'[q].overtaken
        BY <2>e, <3>1
      <4> QED
        BY <2>a, <2>e, <3>1, <4>1
    <3>2. ASSUME NEW q \in Operations, q # p PROVE Staging(q)'
      BY <2>a, <2>e, <3>2
    <3>3. Prepared(p)' /\ Staging(p)'
      BY <2>c
    <3> QED
      BY <3>1, <3>2, <3>3
  <2>4. ScheduleInv'
    <3>1. op'[p].kind \in Changing /\ op'[p].step # "write"
      BY <2>c
    <3>2. ~crossed' => \A q \in Operations : op[q].step # "write"
      BY <2>a
    <3> QED
      BY <2>e, <3>1, <3>2
  <2>5. RemoteIsWhole'
    BY <2>a
  <2> QED
    BY <2>1, <2>2, <2>3, <2>4, <2>5
<1>15. ASSUME NEW p \in Operations, ReadSchedule(p)
     PROVE  BorgInv'
  <2>a. UNCHANGED <<destination, rendered, timer, mounted, locals, staged, remote, upload, crossed>>
    BY <1>15 DEF ReadSchedule
  <2>b. op' = [op EXCEPT ![p] = [op[p] EXCEPT !.step = "write", !.settings = destination]]
        /\ op[p].step = "renew"
    BY <1>15 DEF ReadSchedule
  <2>c. op'[p].kind = op[p].kind /\ op'[p].step = "write" /\ op'[p].settings = destination
        /\ op[p].kind \in Changing
    BY <2>b
  <2>d. \A q \in Operations : q # p => op'[q] = op[q]
    BY <2>b
  <2>1. BorgTypeOK'
    <3>1. op[p] \in OperationRecords
      OBVIOUS
    <3>2. \A d \in Destinations \cup {NoDestination} :
            [op[p] EXCEPT !.step = "write", !.settings = d] \in OperationRecords
      BY <3>1
    <3>3. op' \in [Operations -> OperationRecords]
      BY <2>b, <3>2
    <3> QED
      BY <2>a, <3>3
  <2>2. OneOperation'
    <3>1. \A q \in Operations : op'[q].kind = op[q].kind
      BY <2>c, <2>d
    <3>2. ASSUME NEW q \in Operations
          PROVE  /\ op'[q].kind = "none" => op'[q] = NoOperation
                 /\ op'[q].kind = "none" <=> op'[q].step = "none"
                 /\ op'[q].kind \in Changing <=> op'[q].step \in {"renew", "write"}
      <4>1. CASE q = p
        BY <2>c, <4>1
      <4>2. CASE q # p
        <5> HIDE DEF BorgInv, BorgTypeOK, OperationsInv, Prepared, Staging, ScheduleInv,
                     RemoteIsWhole, OperationRecords, RemoteOf
        <5> QED
          BY <1>0, <2>d, <4>2
      <4> QED
        BY <4>1, <4>2
    <3> QED
      BY <3>1, <3>2
  <2>3. OperationsInv'
    BY <2>a, <2>c, <2>d
  <2>4. ScheduleInv'
    BY <2>a, <2>c, <2>d
  <2>5. RemoteIsWhole'
    BY <2>a
  <2> QED
    BY <2>1, <2>2, <2>3, <2>4, <2>5
<1>16. ASSUME NEW p \in Operations, WriteSchedule(p)
     PROVE  BorgInv'
  <2>1. BorgTypeOK'
    BY <1>16 DEF WriteSchedule
  <2>2. OneOperation'
    BY <1>16 DEF WriteSchedule
  <2>3. OperationsInv'
    BY <1>16 DEF WriteSchedule
  <2>4. ScheduleInv'
    BY <1>16 DEF WriteSchedule
  <2>5. RemoteIsWhole'
    BY <1>16 DEF WriteSchedule
  <2> QED
    BY <2>1, <2>2, <2>3, <2>4, <2>5
<1>17. ASSUME NEW p \in Operations, BorgFails(p)
     PROVE  BorgInv'
  <2>1. BorgTypeOK'
    BY <1>17 DEF BorgFails
  <2>2. OneOperation'
    BY <1>17 DEF BorgFails
  <2>3. OperationsInv'
    BY <1>17 DEF BorgFails
  <2>4. ScheduleInv'
    BY ZenonT(60), <1>17 DEF BorgFails
  <2>5. RemoteIsWhole'
    BY <1>17 DEF BorgFails
  <2> QED
    BY <2>1, <2>2, <2>3, <2>4, <2>5
<1>18. CASE WriteBack
  <2>1. BorgTypeOK'
    BY <1>18 DEF WriteBack
  <2>2. OneOperation'
    BY <1>18 DEF WriteBack
  <2>3. OperationsInv'
    BY <1>18 DEF WriteBack
  <2>4. ScheduleInv'
    BY <1>18 DEF WriteBack
  <2>5. RemoteIsWhole'
    BY <1>18 DEF WriteBack
  <2> QED
    BY <2>1, <2>2, <2>3, <2>4, <2>5
<1>19. CASE BorgPowerLoss
  <2>1. BorgTypeOK'
    BY <1>19 DEF BorgPowerLoss
  <2>2. OneOperation'
    BY <1>19 DEF BorgPowerLoss
  <2>3. OperationsInv'
    BY <1>19 DEF BorgPowerLoss
  <2>4. ScheduleInv'
    BY <1>19 DEF BorgPowerLoss
  <2>5. RemoteIsWhole'
    BY <1>19 DEF BorgPowerLoss
  <2> QED
    BY <2>1, <2>2, <2>3, <2>4, <2>5
<1>20. CASE UNCHANGED borgVars
  <2>1. BorgTypeOK'
    BY <1>20 DEF borgVars
  <2>2. OneOperation'
    BY <1>20 DEF borgVars
  <2>3. OperationsInv'
    BY <1>20 DEF borgVars
  <2>4. ScheduleInv'
    BY <1>20 DEF borgVars
  <2>5. RemoteIsWhole'
    BY <1>20 DEF borgVars
  <2> QED
    BY <2>1, <2>2, <2>3, <2>4, <2>5
<1>21. ASSUME NEW p \in Operations, RenderConfig(p)
     PROVE  BorgInv'
  <2>1. BorgTypeOK'
    BY <1>21 DEF RenderConfig
  <2>2. OneOperation'
    <3> HIDE DEF BorgInv, BorgTypeOK, OneOperation, OperationsInv, Prepared, Staging,
                ScheduleInv, RemoteIsWhole, OperationRecords, RemoteOf
    <3>1. op[p].step = "render" /\ op[p] \in OperationRecords /\ op \in [Operations -> OperationRecords]
      BY <1>0, <1>21 DEF RenderConfig, BorgTypeOK
    <3>2. op[p].kind \in Repository
      BY <1>0, <3>1 DEF OneOperation, OperationRecords
    <3>3. op'[p].kind = op[p].kind /\ op'[p].step \in Repository
      BY <1>21, <3>1, <3>2 DEF RenderConfig, OperationRecords
    <3>4. \A q \in Operations : q # p => op'[q] = op[q]
      BY <1>21, <3>1 DEF RenderConfig
    <3> QED
      BY <1>0, <2>1, <3>2, <3>3, <3>4, OperationGoesOn
  <2>3. OperationsInv'
    BY <1>21 DEF RenderConfig
  <2>4. ScheduleInv'
    BY <1>21 DEF RenderConfig
  <2>5. RemoteIsWhole'
    BY <1>21 DEF RenderConfig
  <2> QED
    BY <2>1, <2>2, <2>3, <2>4, <2>5
<1>22. ASSUME NEW p \in Operations, ConfigurationGone(p)
     PROVE  BorgInv'
  <2>1. BorgTypeOK'
    BY <1>22 DEF ConfigurationGone
  <2>2. OneOperation'
    BY <1>22 DEF ConfigurationGone
  <2>3. OperationsInv'
    BY <1>22 DEF ConfigurationGone
  <2>4. ScheduleInv'
    BY <1>22 DEF ConfigurationGone
  <2>5. RemoteIsWhole'
    BY <1>22 DEF ConfigurationGone
  <2> QED
    BY <2>1, <2>2, <2>3, <2>4, <2>5
<1> QED
  BY <1>1, <1>2, <1>3, <1>4, <1>5, <1>6, <1>7, <1>8, <1>9, <1>10, <1>11, <1>12, <1>13, <1>14,
     <1>15,
     <1>16, <1>17, <1>18, <1>19, <1>20, <1>21, <1>22 DEF BorgNext

LEMMA BorgRuns == [ServicesNext]_servicesVars => [BorgNext]_borgVars
  BY DEF ServicesNext, servicesVars, Others, borgVars

(* Remote archives are whole and where the settings say; so is the schedule. *)
THEOREM SpecBackupsSound == ServicesSpec => []BackupsSound
<1>1. ServicesInit => BorgInv
  BY BorgInitInvariant DEF ServicesInit
<1>2. BorgInv /\ [ServicesNext]_servicesVars => BorgInv'
  BY BorgInvariant, BorgRuns
<1>3. BorgInv => BackupsSound
  <2> SUFFICES ASSUME BorgInv PROVE BackupsSound
    OBVIOUS
  <2> USE DEF BorgInv, BorgTypeOK, OneOperation, OperationsInv, Prepared, ScheduleInv
  <2>1. WritesWhereConfigured
    BY BorgAssumption DEF BorgAssumption, NoDestination, WritesWhereConfigured, RepositorySteps
  <2>2. TimerFollows
    <3>1. SUFFICES ASSUME op = [p \in Operations |-> NoOperation], ~crossed PROVE timer = destination
      BY DEF TimerFollows
    <3>2. \A p \in Operations : op[p].kind \notin Changing
      BY <3>1 DEF NoOperation, Changing
    <3> QED
      BY <3>1, <3>2
  <2> QED
    BY <2>1, <2>2 DEF BackupsSound
<1> QED
  BY <1>1, <1>2, <1>3, PTL DEF ServicesSpec


-----------------------------------------------------------------------------
(* The generations of recovery code                                          *)

Disks == [bundles : SUBSET BootReleases, generations : SUBSET BootReleases, anchors : SUBSET Anchors,
          temps : SUBSET BootReleases, active : BootReleases \cup {NoGen}, receipt : BootReleases \cup {NoGen}]
Publishing == {"select", "replace", "receipt"}

BootTypeOK ==
  /\ disk \in Disks /\ unsynced \subseteq Disks /\ dirty \in BOOLEAN
  /\ job \in [kind : {"none", "install", "prepare", "commit"}, rel : BootReleases \cup {NoGen}]
  /\ step \in {"none", "bundle", "generation", "anchors", "return"} \cup Publishing
  /\ candidates \subseteq BootReleases
  /\ installed \in BootReleases \cup {NoGen}

(* What the running operation has written before its next step.              *)
OperationInv ==
  /\ job.kind = "none" => job = NoJob
  /\ step # "none" => job.kind # "none" /\ job.rel \in BootReleases
  /\ step \in {"bundle", "generation"} => job.kind # "commit"
  /\ step = "anchors" => job.kind = "install"
  /\ step \in Publishing => job.kind # "prepare" /\ disk.anchors = Anchors
  /\ step # "none" /\ job.kind # "prepare" => installed = NoGen
  /\ step = "replace" => disk.temps = {job.rel}
  /\ step = "receipt" => disk.active = job.rel
  /\ step = "return" /\ job.kind # "prepare" =>
       disk.active = job.rel /\ disk.receipt = job.rel /\ (dirty \/ unsynced = {})

GenerationsInv == BootTypeOK /\ OperationInv /\ SelectionIsWhole /\ InstalledIsDurable

LEMMA BootInitInvariant == BootInit => GenerationsInv
<1> SUFFICES ASSUME BootInit PROVE GenerationsInv
  OBVIOUS
<1> USE ReleasesAssumption DEF ReleasesAssumption, BootInit, GenerationsInv, BootTypeOK,
            OperationInv, SelectionIsWhole, InstalledIsDurable, Anchors, NoGen, NoJob, Verified,
            BundleLaunched, AnchorsFit, Write, At, Interrupted, AfterPowerLoss, Disks, Publishing,
            AllAnchors
<1>1. BootTypeOK
  OBVIOUS
<1>2. OperationInv
  OBVIOUS
<1>3. SelectionIsWhole
  OBVIOUS
<1>4. InstalledIsDurable
  OBVIOUS
<1> QED
  BY <1>1, <1>2, <1>3, <1>4

LEMMA BootInvariant ==
  ASSUME GenerationsInv, [BootNext]_bootVars
  PROVE  GenerationsInv'
<1> USE ReleasesAssumption DEF ReleasesAssumption, GenerationsInv, BootTypeOK, OperationInv,
            SelectionIsWhole, InstalledIsDurable, Anchors, NoGen, NoJob, Verified, BundleLaunched,
            AnchorsFit, Write, At, Interrupted, AfterPowerLoss, Disks, Publishing, AllAnchors
<1>1. CASE \E r \in BootReleases : BeginInstall(r)
  <2>1. BootTypeOK'
    BY <1>1 DEF BeginInstall
  <2>2. OperationInv'
    BY <1>1 DEF BeginInstall
  <2>3. SelectionIsWhole'
    BY <1>1 DEF BeginInstall
  <2>4. InstalledIsDurable'
    BY <1>1 DEF BeginInstall
  <2> QED
    BY <2>1, <2>2, <2>3, <2>4
<1>2. CASE \E r \in BootReleases : BeginPrepare(r)
  <2>1. BootTypeOK'
    BY <1>2 DEF BeginPrepare
  <2>2. OperationInv'
    BY <1>2 DEF BeginPrepare
  <2>3. SelectionIsWhole'
    BY <1>2 DEF BeginPrepare
  <2>4. InstalledIsDurable'
    BY <1>2 DEF BeginPrepare
  <2> QED
    BY <2>1, <2>2, <2>3, <2>4
<1>3. CASE \E r \in BootReleases : BeginCommit(r)
  <2>1. BootTypeOK'
    BY <1>3 DEF BeginCommit
  <2>2. OperationInv'
    BY <1>3 DEF BeginCommit
  <2>3. SelectionIsWhole'
    BY <1>3 DEF BeginCommit
  <2>4. InstalledIsDurable'
    BY <1>3 DEF BeginCommit
  <2> QED
    BY <2>1, <2>2, <2>3, <2>4
<1>4. CASE SyncDirectory
  <2>1. BootTypeOK'
    BY <1>4 DEF SyncDirectory
  <2>2. OperationInv'
    BY <1>4 DEF SyncDirectory
  <2>3. SelectionIsWhole'
    BY <1>4 DEF SyncDirectory
  <2>4. InstalledIsDurable'
    BY <1>4 DEF SyncDirectory
  <2> QED
    BY <2>1, <2>2, <2>3, <2>4
<1>5. CASE InstallBundle
  <2>1. BootTypeOK'
    <3>1. CASE job.rel \in disk.bundles
      BY <1>5, <3>1 DEF InstallBundle
    <3>2. CASE ~(job.rel \in disk.bundles)
      <4>1. job.rel \in BootReleases
        BY <1>5 DEF InstallBundle
      <4>2. [disk EXCEPT !.bundles = @ \cup {job.rel}] \in Disks
        BY <4>1
      <4>3. disk' \in Disks /\ unsynced' \subseteq Disks
        BY <1>5, <3>2, <4>2 DEF InstallBundle
      <4> QED
        BY <1>5, <3>2, <4>3 DEF InstallBundle
    <3> QED
      BY <3>1, <3>2
  <2>2. OperationInv'
    BY <1>5 DEF InstallBundle
  <2>3. SelectionIsWhole'
    BY <1>5 DEF InstallBundle
  <2>4. InstalledIsDurable'
    BY <1>5 DEF InstallBundle
  <2> QED
    BY <2>1, <2>2, <2>3, <2>4
<1>6. CASE InstallGeneration
  <2>1. BootTypeOK'
    <3>1. CASE job.rel \in disk.generations
      BY <1>6, <3>1 DEF InstallGeneration
    <3>2. CASE ~(job.rel \in disk.generations)
      <4>1. job.rel \in BootReleases
        BY <1>6 DEF InstallGeneration
      <4>2. [disk EXCEPT !.generations = @ \cup {job.rel}] \in Disks
        BY <4>1
      <4>3. disk' \in Disks /\ unsynced' \subseteq Disks
        BY <1>6, <3>2, <4>2 DEF InstallGeneration
      <4> QED
        BY <1>6, <3>2, <4>3 DEF InstallGeneration
    <3> QED
      BY <3>1, <3>2
  <2>2. OperationInv'
    BY <1>6 DEF InstallGeneration
  <2>3. SelectionIsWhole'
    BY <1>6 DEF InstallGeneration
  <2>4. InstalledIsDurable'
    BY <1>6 DEF InstallGeneration
  <2> QED
    BY <2>1, <2>2, <2>3, <2>4
<1>7. CASE InstallAnchor
  <2>1. BootTypeOK'
    <3>1. CASE AllAnchors(disk)
      BY <1>7, <3>1 DEF InstallAnchor
    <3>2. CASE ~AllAnchors(disk)
      <4>1. PICK a \in Anchors : disk' = [disk EXCEPT !.anchors = @ \cup {a}]
        BY <1>7, <3>2 DEF InstallAnchor
      <4>2. disk' \in Disks
        BY <4>1
      <4>3. unsynced' \subseteq Disks
        BY <1>7, <3>2 DEF InstallAnchor
      <4> QED
        BY <1>7, <3>2, <4>2, <4>3 DEF InstallAnchor
    <3> QED
      BY <3>1, <3>2
  <2>2. OperationInv'
    BY <1>7 DEF InstallAnchor
  <2>3. SelectionIsWhole'
    BY <1>7 DEF InstallAnchor
  <2>4. InstalledIsDurable'
    BY <1>7 DEF InstallAnchor
  <2> QED
    BY <2>1, <2>2, <2>3, <2>4
<1>8. CASE RemoveStaleSelectors
  <2>1. BootTypeOK'
    BY <1>8 DEF RemoveStaleSelectors
  <2>2. OperationInv'
    BY <1>8 DEF RemoveStaleSelectors
  <2>3. SelectionIsWhole'
    BY <1>8 DEF RemoveStaleSelectors
  <2>4. InstalledIsDurable'
    BY <1>8 DEF RemoveStaleSelectors
  <2> QED
    BY <2>1, <2>2, <2>3, <2>4
<1>9. CASE NewSelector
  <2>1. BootTypeOK'
    BY <1>9 DEF NewSelector
  <2>2. OperationInv'
    BY <1>9 DEF NewSelector
  <2>3. SelectionIsWhole'
    BY <1>9 DEF NewSelector
  <2>4. InstalledIsDurable'
    BY <1>9 DEF NewSelector
  <2> QED
    BY <2>1, <2>2, <2>3, <2>4
<1>10. CASE ReplaceSelector
  <2>1. BootTypeOK'
    BY ZenonT(60), <1>10 DEF ReplaceSelector
  <2>2. OperationInv'
    BY <1>10 DEF ReplaceSelector
  <2>3. SelectionIsWhole'
    BY ZenonT(60), <1>10 DEF ReplaceSelector
  <2>4. InstalledIsDurable'
    BY <1>10 DEF ReplaceSelector
  <2> QED
    BY <2>1, <2>2, <2>3, <2>4
<1>11. CASE SaveReceipt
  <2>1. BootTypeOK'
    BY <1>11 DEF SaveReceipt
  <2>2. OperationInv'
    BY <1>11 DEF SaveReceipt
  <2>3. SelectionIsWhole'
    BY <1>11 DEF SaveReceipt
  <2>4. InstalledIsDurable'
    BY <1>11 DEF SaveReceipt
  <2> QED
    BY <2>1, <2>2, <2>3, <2>4
<1>12. CASE Return
  <2>1. BootTypeOK'
    BY <1>12 DEF Return
  <2>2. OperationInv'
    BY <1>12 DEF Return
  <2>3. SelectionIsWhole'
    BY <1>12 DEF Return
  <2>4. InstalledIsDurable'
    BY <1>12 DEF Return
  <2> QED
    BY <2>1, <2>2, <2>3, <2>4
<1>13. CASE BootKill
  <2>1. BootTypeOK'
    BY <1>13 DEF BootKill
  <2>2. OperationInv'
    BY <1>13 DEF BootKill
  <2>3. SelectionIsWhole'
    BY <1>13 DEF BootKill
  <2>4. InstalledIsDurable'
    BY <1>13 DEF BootKill
  <2> QED
    BY <2>1, <2>2, <2>3, <2>4
<1>14. CASE BootPowerLoss
  <2>1. BootTypeOK'
    BY <1>14 DEF BootPowerLoss
  <2>2. OperationInv'
    BY <1>14 DEF BootPowerLoss
  <2>3. SelectionIsWhole'
    BY <1>14 DEF BootPowerLoss
  <2>4. InstalledIsDurable'
    BY <1>14 DEF BootPowerLoss
  <2> QED
    BY <2>1, <2>2, <2>3, <2>4
<1>15. CASE UNCHANGED bootVars
  <2>1. BootTypeOK'
    BY <1>15 DEF bootVars
  <2>2. OperationInv'
    BY <1>15 DEF bootVars
  <2>3. SelectionIsWhole'
    BY <1>15 DEF bootVars
  <2>4. InstalledIsDurable'
    BY <1>15 DEF bootVars
  <2> QED
    BY <2>1, <2>2, <2>3, <2>4
<1> QED
  BY <1>1, <1>2, <1>3, <1>4, <1>5, <1>6, <1>7, <1>8, <1>9, <1>10, <1>11, <1>12, <1>13, <1>14,
     <1>15 DEF BootNext, BootBegin, BootStep

LEMMA BootRuns == [ServicesNext]_servicesVars => [BootNext]_bootVars
  BY DEF ServicesNext, servicesVars, Others, bootVars

(* Whatever a loss of power leaves selects a whole generation, and what was  *)
(* installed stays.                                                          *)
THEOREM SpecBootSound == ServicesSpec => []BootSound
<1>1. ServicesInit => GenerationsInv
  BY BootInitInvariant DEF ServicesInit
<1>2. GenerationsInv /\ [ServicesNext]_servicesVars => GenerationsInv'
  BY BootInvariant, BootRuns
<1>3. GenerationsInv => BootSound
  BY DEF GenerationsInv, BootSound
<1> QED
  BY <1>1, <1>2, <1>3, PTL DEF ServicesSpec


-----------------------------------------------------------------------------
(* The installation of keypads                                               *)

WorkSteps == {"none", "inspect", "prepare", "register", "flash", "flashing", "identify", "send", "verify"}
Registered == {"flash", "flashing", "identify", "send", "verify"}
Chips == [id : Nat, rev : 0..revision, firmware : {"old", "torn", "new"}]
Installations(b) ==
  [n : 0..b, step : WorkSteps, kind : {"none", "install", "provision"}, adopt : BOOLEAN,
   rev : 0..revision, mac : Keypads \cup {Unknown}, id : Nat, new : BOOLEAN]

KeypadTypeOK ==
  /\ begun \in Nat /\ revision \in Nat
  /\ keypad \in [Keypads -> Chips]
  /\ port \in Keypads \cup {Unknown}
  /\ registry \subseteq {Fresh(n) : n \in 1..begun}
  /\ work \in Installations(begun)
  /\ flasher \in [n : 0..begun, chip : Keypads \cup {Unknown}]
  /\ receipts \subseteq [n : 1..begun, id : registry, mac : Keypads, rev : 0..revision]
  /\ swapped \in BOOLEAN

(* The installation knows its chip and the identity it is to have, which is  *)
(* the one it has or a new one.                                              *)
InstallationInv ==
  /\ work.step = "none" => work = NoWork
  /\ work.step # "none" => work.n = begun /\ work.n >= 1
  /\ work.step \notin {"none", "inspect"} => work.mac \in Keypads
  /\ work.step = "register" => IF work.new THEN work.id = Fresh(work.n) ELSE work.id \in registry
  /\ work.step \in Registered => work.id \in registry
  /\ work.step \in {"inspect", "prepare", "register"} => Fresh(work.n) \notin registry
  /\ work.step = "flashing" => flasher.n = work.n \/ flasher = NoFlasher
  /\ flasher # NoFlasher =>
       flasher.chip \in Keypads /\ flasher.n >= 1 /\ work.step \in {"none", "flashing"}
  /\ work.step \in {"inspect", "prepare"} => ~work.new
  /\ work.step \in {"register"} \cup Registered /\ ~swapped =>
       /\ \A k \in Keypads : keypad[k].id = work.id => k = work.mac
       /\ keypad[work.mac].id = work.id \/ keypad[work.mac].id \notin registry
  /\ work.step = "send" /\ ~swapped => port = work.mac
  /\ work.step = "verify" /\ ~swapped => keypad[work.mac].id = work.id /\ keypad[work.mac].rev = work.rev
  /\ work.step # "none" => \A r \in receipts : r.rev <= work.rev

(* A registered identity is on one chip, where its receipts say it is, with  *)
(* settings that are no older.                                               *)
ChipsInv ==
  ~swapped =>
    /\ \A k, l \in Keypads : keypad[k].id = keypad[l].id /\ keypad[k].id \in registry => k = l
    /\ \A r \in receipts : keypad[r.mac].id = r.id /\ keypad[r.mac].rev >= r.rev

KeypadInv == KeypadTypeOK /\ InstallationInv /\ ChipsInv /\ KeypadsKnown

LEMMA KeypadInitInvariant == KeypadInit => KeypadInv
<1> SUFFICES ASSUME KeypadInit PROVE KeypadInv
  OBVIOUS
<1> USE KeypadsAssumption DEF KeypadsAssumption, KeypadInit, KeypadInv, KeypadTypeOK,
            InstallationInv, ChipsInv, KeypadsKnown, Unknown, Fresh, Foreign, NoWork, NoFlasher,
            JobLocked, Step, Stop, Same, Online, Gives, Fault, WorkSteps, Registered, Chips,
            Installations
<1>1. KeypadTypeOK
  <2>1. keypad \in [Keypads -> Chips]
    <3>1. \A k \in Keypads : (IF k = 1 THEN 0 ELSE 99) \in Nat
      OBVIOUS
    <3> QED
      BY <3>1
  <2>2. work \in Installations(begun)
    OBVIOUS
  <2>3. flasher \in [n : 0..begun, chip : Keypads \cup {Unknown}]
    OBVIOUS
  <2> QED
    BY <2>1, <2>2, <2>3
<1>2. InstallationInv
  OBVIOUS
<1>3. ChipsInv
  OBVIOUS
<1>4. KeypadsKnown
  BY SMTT(60)
<1> QED
  BY <1>1, <1>2, <1>3, <1>4

LEMMA KeypadInvariant ==
  ASSUME KeypadInv, [KeypadNext]_keypadVars
  PROVE  KeypadInv'
<1> USE KeypadsAssumption DEF KeypadsAssumption, KeypadInv, KeypadTypeOK, InstallationInv, ChipsInv,
            KeypadsKnown, Unknown, Fresh, Foreign, NoWork, NoFlasher, JobLocked, Step, Stop, Same,
            Online, Gives, Fault, WorkSteps, Registered, Chips, Installations
<1>1. CASE \E kind \in {"install", "provision"}, adopt \in BOOLEAN : Admit(kind, adopt)
  <2>1. KeypadTypeOK'
    <3>1. 0..begun \subseteq 0..(begun + 1) /\ begun' = begun + 1 /\ begun + 1 \in 0..(begun + 1)
      BY <1>1 DEF Admit
    <3>2. revision \in 0..revision
      OBVIOUS
    <3>3. PICK kind \in {"install", "provision"}, adopt \in BOOLEAN : Admit(kind, adopt)
      BY <1>1
    <3>4. work' = [n |-> begun + 1, step |-> "inspect", kind |-> kind, adopt |-> adopt, rev |-> revision,
                  mac |-> 0, id |-> 0, new |-> FALSE]
      BY <3>3, <3>1 DEF Admit
    <3>5. work' \in Installations(begun + 1)
      BY <3>1, <3>2, <3>4
    <3>6. registry \subseteq {Fresh(n) : n \in 1..(begun + 1)}
      OBVIOUS
    <3>7. flasher \in [n : 0..(begun + 1), chip : Keypads \cup {Unknown}]
      BY <3>1
    <3>8. receipts \subseteq [n : 1..(begun + 1), id : registry, mac : Keypads, rev : 0..revision]
      OBVIOUS
    <3> QED
      BY <1>1, <3>1, <3>2, <3>3, <3>4, <3>5, <3>6, <3>7, <3>8 DEF Admit
  <2>2. InstallationInv'
    BY <1>1 DEF Admit
  <2>3. ChipsInv'
    BY <1>1 DEF Admit
  <2>4. KeypadsKnown'
    BY <1>1 DEF Admit
  <2> QED
    BY <2>1, <2>2, <2>3, <2>4
<1>2. CASE Inspect
  <2>1. KeypadTypeOK'
    BY <1>2 DEF Inspect
  <2>2. InstallationInv'
    BY <1>2 DEF Inspect
  <2>3. ChipsInv'
    BY <1>2 DEF Inspect
  <2>4. KeypadsKnown'
    BY <1>2 DEF Inspect
  <2> QED
    BY <2>1, <2>2, <2>3, <2>4
<1>3. CASE Prepare
  <2>1. KeypadTypeOK'
    <3>1. work.mac \in Keypads /\ keypad[work.mac].id \in Nat /\ Fresh(work.n) \in Nat
      BY <1>3 DEF Prepare
    <3>2. \/ work' = NoWork
          \/ work' = [work EXCEPT !.step = "register", !.id = keypad[work.mac].id]
          \/ work' = [work EXCEPT !.step = "register", !.id = Fresh(work.n), !.new = TRUE]
      BY <1>3 DEF Prepare
    <3>3. NoWork \in Installations(begun)
      OBVIOUS
    <3>4. [work EXCEPT !.step = "register", !.id = keypad[work.mac].id] \in Installations(begun)
      BY <3>1
    <3>5. [work EXCEPT !.step = "register", !.id = Fresh(work.n), !.new = TRUE] \in Installations(begun)
      BY <3>1
    <3>6. work' \in Installations(begun)
      BY ZenonT(60), <3>2, <3>3, <3>4, <3>5
    <3> QED
      BY <1>3, <3>1, <3>2, <3>3, <3>4, <3>5, <3>6 DEF Prepare
  <2>2. InstallationInv'
    <3>1. work.mac \in Keypads /\ work.n = begun /\ work.n >= 1 /\ Fresh(work.n) \notin registry
          /\ work.step = "prepare"
      BY <1>3 DEF Prepare
    <3>2. UNCHANGED <<keypad, port, registry, revision, flasher, receipts, begun, swapped>>
      BY <1>3 DEF Prepare
    <3>3. CASE work' = NoWork
      BY <3>2, <3>3
    <3>4. CASE keypad[work.mac].id \in registry
      <4>1. work' = [work EXCEPT !.step = "register", !.id = keypad[work.mac].id]
        BY <1>3, <3>4 DEF Prepare
      <4> QED
        BY <3>1, <3>2, <3>4, <4>1
    <3>5. CASE keypad[work.mac].id \notin registry /\ work' # NoWork
      <4>1. work' = [work EXCEPT !.step = "register", !.id = Fresh(work.n), !.new = TRUE]
        BY <1>3, <3>5 DEF Prepare
      <4>2. \A k \in Keypads : keypad[k].id # Fresh(work.n)
        BY <3>1
      <4> QED
        BY <3>1, <3>2, <3>5, <4>1, <4>2
    <3> QED
      BY <3>3, <3>4, <3>5
  <2>3. ChipsInv'
    BY <1>3 DEF Prepare
  <2>4. KeypadsKnown'
    BY <1>3 DEF Prepare
  <2> QED
    BY <2>1, <2>2, <2>3, <2>4
<1>4. CASE Register
  <2>1. KeypadTypeOK'
    BY <1>4 DEF Register
  <2>2. InstallationInv'
    BY <1>4 DEF Register
  <2>3. ChipsInv'
    BY <1>4 DEF Register
  <2>4. KeypadsKnown'
    BY <1>4 DEF Register
  <2> QED
    BY <2>1, <2>2, <2>3, <2>4
<1>5. CASE StartFlasher
  <2>1. KeypadTypeOK'
    BY <1>5 DEF StartFlasher
  <2>2. InstallationInv'
    BY <1>5 DEF StartFlasher
  <2>3. ChipsInv'
    BY <1>5 DEF StartFlasher
  <2>4. KeypadsKnown'
    BY <1>5 DEF StartFlasher
  <2> QED
    BY <2>1, <2>2, <2>3, <2>4
<1>6. CASE FlasherEnds
  <2>1. KeypadTypeOK'
    BY <1>6 DEF FlasherEnds
  <2>2. InstallationInv'
    <3>1. /\ \A k \in Keypads : keypad'[k].id = keypad[k].id /\ keypad'[k].rev = keypad[k].rev
          /\ flasher' = NoFlasher
          /\ UNCHANGED <<port, registry, revision, receipts, begun, swapped>>
      BY <1>6 DEF FlasherEnds
    <3>2. CASE work' = NoWork
      BY <3>1, <3>2
    <3>3. CASE work' = work
      BY <3>1, <3>3
    <3>4. CASE work' # work /\ work' # NoWork
      <4>1. work' = [work EXCEPT !.step = "identify"] /\ work.n = flasher.n
        BY <1>6, <3>4 DEF FlasherEnds
      <4>2. work.step \in Registered
        BY <4>1, <1>6 DEF FlasherEnds
      <4> QED
        BY <3>1, <4>1, <4>2
    <3> QED
      BY <3>2, <3>3, <3>4
  <2>3. ChipsInv'
    BY <1>6 DEF FlasherEnds
  <2>4. KeypadsKnown'
    BY <1>6 DEF FlasherEnds
  <2> QED
    BY <2>1, <2>2, <2>3, <2>4
<1>7. CASE Identify
  <2>1. KeypadTypeOK'
    BY <1>7 DEF Identify
  <2>2. InstallationInv'
    BY <1>7 DEF Identify
  <2>3. ChipsInv'
    BY <1>7 DEF Identify
  <2>4. KeypadsKnown'
    BY <1>7 DEF Identify
  <2> QED
    BY <2>1, <2>2, <2>3, <2>4
<1>8. CASE SendEnvelope
  <2>1. KeypadTypeOK'
    <3>1. port \in Keypads /\ work.id \in Nat /\ work.rev \in 0..revision
      BY <1>8 DEF SendEnvelope
    <3>2. \A i \in Nat, v \in 0..revision : \A x \in Chips :
            [x EXCEPT !.id = i, !.rev = v] \in Chips
      OBVIOUS
    <3>3. keypad[port] \in Chips
      BY <3>1
    <3>4. [keypad[port] EXCEPT !.id = work.id, !.rev = work.rev] \in Chips
      BY <3>1, <3>2, <3>3
    <3>5. keypad' \in [Keypads -> Chips]
      BY <1>8, <3>1, <3>4 DEF SendEnvelope
    <3>6. work' \in Installations(begun)
      BY <1>8 DEF SendEnvelope
    <3>7. UNCHANGED <<port, registry, revision, flasher, receipts, begun, swapped>>
      BY <1>8 DEF SendEnvelope
    <3> QED
      BY <3>1, <3>2, <3>3, <3>4, <3>5, <3>6, <3>7
  <2>2. InstallationInv'
    BY <1>8 DEF SendEnvelope
  <2>3. ChipsInv'
    <3>1. port \in Keypads /\ work.step = "send" /\ UNCHANGED <<port, registry, receipts, swapped>>
      BY <1>8 DEF SendEnvelope
    <3>2. keypad'[port].id = work.id /\ keypad'[port].rev = work.rev /\ \A k \in Keypads \ {port} : keypad'[k] = keypad[k]
      BY <1>8, <3>1 DEF SendEnvelope
    <3>3. ~swapped => \A r \in receipts : r.mac = port => r.id = work.id
      BY <3>1
    <3> QED
      BY <3>1, <3>2, <3>3
  <2>4. KeypadsKnown'
    BY <1>8 DEF SendEnvelope
  <2> QED
    BY <2>1, <2>2, <2>3, <2>4
<1>9. CASE VerifyOnline
  <2>1. KeypadTypeOK'
    BY <1>9 DEF VerifyOnline
  <2>2. InstallationInv'
    BY <1>9 DEF VerifyOnline
  <2>3. ChipsInv'
    BY <1>9 DEF VerifyOnline
  <2>4. KeypadsKnown'
    BY <1>9 DEF VerifyOnline
  <2> QED
    BY <2>1, <2>2, <2>3, <2>4
<1>10. CASE StopsAtStep
  <2>1. KeypadTypeOK'
    BY <1>10 DEF StopsAtStep
  <2>2. InstallationInv'
    BY <1>10 DEF StopsAtStep
  <2>3. ChipsInv'
    BY <1>10 DEF StopsAtStep
  <2>4. KeypadsKnown'
    BY <1>10 DEF StopsAtStep
  <2> QED
    BY <2>1, <2>2, <2>3, <2>4
<1>11. CASE WorkerStops
  <2>1. KeypadTypeOK'
    BY <1>11 DEF WorkerStops
  <2>2. InstallationInv'
    BY <1>11 DEF WorkerStops
  <2>3. ChipsInv'
    BY <1>11 DEF WorkerStops
  <2>4. KeypadsKnown'
    BY <1>11 DEF WorkerStops
  <2> QED
    BY <2>1, <2>2, <2>3, <2>4
<1>12. CASE SaveSettings
  <2>1. KeypadTypeOK'
    BY <1>12 DEF SaveSettings
  <2>2. InstallationInv'
    BY <1>12 DEF SaveSettings
  <2>3. ChipsInv'
    BY <1>12 DEF SaveSettings
  <2>4. KeypadsKnown'
    BY <1>12 DEF SaveSettings
  <2> QED
    BY <2>1, <2>2, <2>3, <2>4
<1>13. CASE \E k \in Keypads \cup {Unknown} : Plug(k)
  <2>1. KeypadTypeOK'
    BY <1>13 DEF Plug
  <2>2. InstallationInv'
    <3>1. UNCHANGED <<keypad, registry, revision, work, flasher, receipts, begun>>
      BY <1>13 DEF Plug
    <3>2. swapped' = (swapped \/ work.step = "send")
      BY <1>13 DEF Plug
    <3> QED
      BY ZenonT(60), <3>1, <3>2
  <2>3. ChipsInv'
    BY <1>13 DEF Plug
  <2>4. KeypadsKnown'
    BY <1>13 DEF Plug
  <2> QED
    BY <2>1, <2>2, <2>3, <2>4
<1>14. CASE UNCHANGED keypadVars
  <2>1. KeypadTypeOK'
    BY <1>14 DEF keypadVars
  <2>2. InstallationInv'
    BY <1>14 DEF keypadVars
  <2>3. ChipsInv'
    BY <1>14 DEF keypadVars
  <2>4. KeypadsKnown'
    BY <1>14 DEF keypadVars
  <2> QED
    BY <2>1, <2>2, <2>3, <2>4
<1> QED
  BY <1>1, <1>2, <1>3, <1>4, <1>5, <1>6, <1>7, <1>8, <1>9, <1>10, <1>11, <1>12, <1>13,
     <1>14 DEF KeypadNext, KeypadSteps

LEMMA KeypadRuns == [ServicesNext]_servicesVars => [KeypadNext]_keypadVars
  BY DEF ServicesNext, servicesVars, Others, keypadVars

(* Keypads have identities the server knows, and a receipt tells which chip  *)
(* has one, unless the chips were swapped behind the installation's back.    *)
THEOREM SpecKeypadsSound == ServicesSpec => []KeypadsSound
<1>1. ServicesInit => KeypadInv
  BY KeypadInitInvariant DEF ServicesInit
<1>2. KeypadInv /\ [ServicesNext]_servicesVars => KeypadInv'
  BY KeypadInvariant, KeypadRuns
<1>3. KeypadInv => KeypadsSound
  <2> SUFFICES ASSUME KeypadInv PROVE KeypadsSound
    OBVIOUS
  <2>1. ASSUME ~swapped, NEW r \in ReceiptShown
        PROVE  keypad[r.mac].rev = revision /\ {k \in Keypads : keypad[k].id = r.id} = {r.mac}
    <3>1. r \in receipts /\ r.rev = revision /\ r.mac \in Keypads /\ r.id \in registry
      BY DEF ReceiptShown, KeypadInv, KeypadTypeOK
    <3>2. keypad[r.mac].id = r.id /\ keypad[r.mac].rev >= revision
      BY <2>1, <3>1 DEF KeypadInv, ChipsInv
    <3>3. keypad[r.mac].rev \in 0..revision /\ revision \in Nat
      BY <3>1 DEF KeypadInv, KeypadTypeOK, Chips
    <3>4. keypad[r.mac].rev = revision
      BY <3>2, <3>3
    <3>5. \A k \in Keypads : keypad[k].id = r.id => k = r.mac
      BY <2>1, <3>1, <3>2 DEF KeypadInv, ChipsInv
    <3> QED
      BY <3>1, <3>2, <3>4, <3>5
  <2> QED
    BY <2>1 DEF KeypadInv, KeypadsSound, ReceiptsTrue
<1> QED
  BY <1>1, <1>2, <1>3, PTL DEF ServicesSpec

-----------------------------------------------------------------------------
(* The certificates of the administration                                    *)

(* What a file may hold, and the steps of the two operations.                *)
Contents == Authorities \cup {Absent, Empty}
EnsureSteps == {"sign", "notify", "return"}
RotateSteps == {"replace", "trust", "forget", "trust-kiosk", "notify", "return", "undo"}

(* The names a certificate may have, and what a rotation keeps to put back.  *)
Names == TlsNames \cup {"domain"}
Backups == [1..5 -> Contents] \X (SUBSET Names) \X Authorities

(* Types, and which steps each operation has.                                *)
TlsTypeOK ==
  /\ auth \in [1..5 -> Contents]
  /\ leaf \subseteq Names /\ system \in Authorities
  /\ tls \in [kind : {"none", "ensure", "rotate"}, step : {"none"} \cup EnsureSteps \cup RotateSteps,
              file : 1..5, new : Authorities, names : SUBSET Names, old : {<<>>} \cup Backups]
  /\ tls.kind = "none" => tls = NoTls
  /\ tls.kind = "ensure" => tls.step \in EnsureSteps /\ tls.file = 1
  /\ tls.kind = "rotate" => tls.step \in RotateSteps /\ tls.old \in Backups

(* The files f, the names l and the trust of the host and of the kiosk are of one authority. *)
Coherent(f, l, s) ==
  /\ ValidFiles(f) /\ f[1] \in Authorities
  /\ promised \subseteq l
  /\ s = TrustOf(f)

(* The kiosk trusts what the host trusts, until a failed step is reported.   *)
Trusting == distrusted \/ kiosk = system

(* What holds while nothing is under way and nothing was interrupted.        *)
AtRest == Coherent(auth, leaf, system) /\ Trusting

(* While names are added the files stay what they are. *)
EnsureInv ==
  tls.kind = "ensure" =>
    /\ AtRest
    /\ tls.step \in {"notify", "return"} => tls.names \subseteq leaf

(* All the files are of the new authority.                                   *)
Rotated == \A i \in 1..5 : auth[i] = tls.new

(* A rotation replaces the files in their order, gives the host and then the *)
(* kiosk the new authority, and can put back what it found: it undoes from   *)
(* the last file to the first.                                               *)
RotateInv ==
  tls.kind = "rotate" =>
    /\ Coherent(tls.old[1], tls.old[2], tls.old[3])
    /\ promised \cup tls.old[2] \subseteq tls.names
    /\ tls.step \in {"replace", "undo"} /\ tls.file = 1 =>
         auth = tls.old[1] /\ leaf = tls.old[2] /\ system = tls.old[3] /\ Trusting
    /\ tls.step = "replace" => \A i \in 1..5 : i < tls.file => auth[i] = tls.new
    /\ tls.step \in {"trust", "forget", "trust-kiosk", "notify", "return"} =>
         tls.file = 5 /\ Rotated /\ leaf = tls.names
    /\ tls.step \in {"forget", "trust-kiosk", "notify", "return"} => system = tls.new
    /\ tls.step \in {"notify", "return"} => kiosk = system

(* Between operations everything is of one authority, unless the power was   *)
(* lost in one.                                                              *)
TlsInv ==
  /\ TlsTypeOK
  /\ ~torn => (tls = NoTls => AtRest) /\ EnsureInv /\ RotateInv

(* The files begin with the authority of the first installation.             *)
LEMMA TlsInitInvariant == TlsInit => TlsInv
<1> SUFFICES ASSUME TlsInit PROVE TlsInv
  OBVIOUS
<1> USE AuthoritiesAssumption DEF TlsInit, NoTls, Names, EnsureSteps, RotateSteps, Contents, Absent, Empty
<1>1. /\ auth \in [1..5 -> Contents]
      /\ auth[1] = 1 /\ auth[2] = 1 /\ auth[3] = Absent /\ auth[4] = 1 /\ auth[5] = 1
  OBVIOUS
<1>2. TlsTypeOK
  BY <1>1 DEF TlsTypeOK
<1>3. AtRest
  BY <1>1 DEF AtRest, Coherent, ValidFiles, TrustOf, Trusting
<1> QED
  BY <1>2, <1>3 DEF TlsInv, EnsureInv, RotateInv

(* A rotation is of one new authority whatever files there were before.      *)
LEMMA RotatedCoherent ==
  ASSUME auth \in [1..5 -> Contents], tls.new \in Authorities, Rotated, promised \subseteq leaf
  PROVE  Coherent(auth, leaf, tls.new)
  BY AuthoritiesAssumption DEF Rotated, Coherent, ValidFiles, TrustOf, Contents, Absent, Empty

(* Every step of adding names and of a rotation preserves the invariant.     *)
LEMMA TlsInvariant ==
  ASSUME TlsInv, [TlsNext]_tlsVars
  PROVE  TlsInv'
<1> USE AuthoritiesAssumption DEF TlsInv, TlsTypeOK, NoTls, EnsureSteps, RotateSteps, tlsDisk, Steps
<1>1. CASE MigrateLayout
  <2> USE <1>1 DEF MigrateLayout
  <2>1. TlsTypeOK'
    OBVIOUS
  <2>2. ~torn' => (tls' = NoTls => AtRest') /\ EnsureInv' /\ RotateInv'
    BY DEF EnsureInv, RotateInv, AtRest, Trusting, Coherent, Rotated
  <2> QED
    BY <2>2
<1>2. CASE SignLeaf
  <2> USE <1>2 DEF SignLeaf
  <2>1. TlsTypeOK'
    OBVIOUS
  <2>2. ~torn' => (tls' = NoTls => AtRest') /\ EnsureInv' /\ RotateInv'
    BY DEF EnsureInv, RotateInv, AtRest, Trusting, Coherent
  <2> QED
    BY <2>2
<1>3. CASE Notify
  <2> USE <1>3 DEF Notify
  <2>1. TlsTypeOK'
    BY DEF Backups
  <2>2. ~torn' => (tls' = NoTls => AtRest') /\ EnsureInv' /\ RotateInv'
    BY DEF EnsureInv, RotateInv, AtRest, Trusting, Coherent, Rotated
  <2> QED
    BY <2>1, <2>2
<1>4. CASE TlsReturns
  <2> USE <1>4 DEF TlsReturns
  <2>1. TlsTypeOK'
    OBVIOUS
  <2>2. ~torn' => (tls' = NoTls => AtRest') /\ EnsureInv' /\ RotateInv'
    BY RotatedCoherent DEF EnsureInv, RotateInv, AtRest, Trusting, Coherent
  <2> QED
    BY <2>2
<1>5. CASE ReplaceAuthority
  <2> USE <1>5 DEF ReplaceAuthority
  <2>f. Len(Files) = 5 /\ \A i \in 1..5 : Files[i] = "admin.crt" <=> i = 5
    <3>1. /\ Files[1] # "admin.crt" /\ Files[2] # "admin.crt" /\ Files[3] # "admin.crt"
          /\ Files[4] # "admin.crt" /\ Files[5] = "admin.crt" /\ Len(Files) = 5
      BY DEF Files
    <3> QED
      BY <3>1
  <2>1. TlsTypeOK' /\ tls'.kind = "rotate" /\ tls'.old = tls.old /\ tls'.names = tls.names /\ tls'.new = tls.new
    BY <2>f DEF Contents
  <2>2. ASSUME ~torn
        PROVE  RotateInv'
    <3>1. RotateInv /\ ~torn
      BY <2>2
    <3>2. CASE auth[tls.file] = Absent
      <4>1. tls.file # 1 /\ UNCHANGED tls
        BY <3>1, <3>2 DEF RotateInv, Coherent, Absent
      <4>2. \A i \in 1..5 : i < tls.file => auth'[i] = tls.new
        BY <3>1 DEF RotateInv
      <4> QED
        BY <3>1, <4>1 DEF RotateInv, Coherent
    <3>3. CASE auth[tls.file] # Absent
      <4>1. \A i \in 1..5 : i <= tls.file => auth'[i] = tls.new
        BY <3>1, <3>3 DEF RotateInv
      <4>2. CASE tls.file = 5
        <5>1. Rotated' /\ leaf' = tls.names /\ tls'.step = "trust" /\ tls'.file = 5
          BY <2>f, <3>3, <4>1, <4>2 DEF Rotated
        <5> QED
          BY <3>1, <5>1 DEF RotateInv, Coherent
      <4>3. CASE tls.file < 5
        <5>1. tls'.file = tls.file + 1 /\ tls'.step = "replace"
          BY <2>f, <3>3, <4>3
        <5> QED
          BY <3>1, <5>1 DEF RotateInv, Coherent
      <4> QED
        BY <4>2, <4>3
    <3> QED
      BY <3>2, <3>3
  <2> QED
    BY <2>1, <2>2 DEF EnsureInv
<1>6. CASE PublishTrust
  <2> USE <1>6 DEF PublishTrust
  <2>1. TlsTypeOK'
    OBVIOUS
  <2>2. ~torn' => (tls' = NoTls => AtRest') /\ EnsureInv' /\ RotateInv'
    BY DEF EnsureInv, RotateInv, Coherent, Rotated
  <2> QED
    BY <2>2
<1>7. CASE ForgetTrust
  <2> USE <1>7 DEF ForgetTrust
  <2>1. TlsTypeOK'
    OBVIOUS
  <2>2. ~torn' => (tls' = NoTls => AtRest') /\ EnsureInv' /\ RotateInv'
    BY DEF EnsureInv, RotateInv, Coherent, Rotated
  <2> QED
    BY <2>2
<1>8. CASE TrustInKiosk
  <2> USE <1>8 DEF TrustInKiosk
  <2>1. TlsTypeOK'
    OBVIOUS
  <2>2. ~torn' => (tls' = NoTls => AtRest') /\ EnsureInv' /\ RotateInv'
    BY DEF EnsureInv, RotateInv, Coherent, Rotated
  <2> QED
    BY <2>2
<1>9. CASE PutBack
  <2> USE <1>9 DEF PutBack
  <2>1. TlsTypeOK'
    <3>1. tls.old \in Backups
      OBVIOUS
    <3>2. tls.old[1] \in [1..5 -> Contents] /\ tls.old[2] \subseteq Names /\ tls.old[3] \in Authorities
      BY DEF Backups
    <3> QED
      BY <3>2
  <2>2. ~torn' => (tls' = NoTls => AtRest') /\ EnsureInv' /\ RotateInv'
    BY DEF EnsureInv, RotateInv, AtRest, Trusting, Coherent
  <2> QED
    BY <2>1, <2>2
<1>10. CASE RotationFails
  <2> USE <1>10 DEF RotationFails
  <2>1. TlsTypeOK'
    OBVIOUS
  <2>2. ~torn' => (tls' = NoTls => AtRest') /\ EnsureInv' /\ RotateInv'
    BY DEF EnsureInv, RotateInv, Trusting, Coherent, TrustOf
  <2> QED
    BY <2>2
<1>11. CASE TlsKilled
  <2> USE <1>11 DEF TlsKilled
  <2>1. TlsTypeOK'
    OBVIOUS
  <2>2. ASSUME ~torn'
        PROVE  AtRest
    <3>1. CASE tls.kind = "ensure"
      BY <2>2, <3>1 DEF EnsureInv
    <3>2. CASE tls.kind = "rotate"
      <4>1. tls.file = 1 /\ ~torn
        BY <2>2
      <4> QED
        BY <3>2, <4>1 DEF RotateInv, AtRest
    <3> QED
      BY <3>1, <3>2
  <2>3. ~torn' => AtRest'
    BY <2>2 DEF AtRest, Coherent, Trusting
  <2> QED
    BY <2>3 DEF EnsureInv, RotateInv
<1>12. CASE Reload
  <2> USE <1>12 DEF Reload
  <2>1. TlsTypeOK'
    OBVIOUS
  <2>2. ~torn' => (tls' = NoTls => AtRest') /\ EnsureInv' /\ RotateInv'
    BY DEF EnsureInv, RotateInv, AtRest, Trusting, Coherent, Rotated
  <2> QED
    BY <2>2
<1>13. CASE \E n \in TlsNames : BeginEnsure({n})
  <2> USE <1>13 DEF BeginEnsure
  <2>1. TlsTypeOK'
    <3>1. PICK n \in TlsNames : BeginEnsure({n})
      BY <1>13
    <3>2. {n} \in SUBSET Names
      BY DEF Names
    <3> QED
      BY <3>1, <3>2
  <2>2. ~torn' => (tls' = NoTls => AtRest') /\ EnsureInv' /\ RotateInv'
    BY DEF EnsureInv, RotateInv, AtRest, Trusting, Coherent
  <2> QED
    BY <2>1, <2>2
<1>14. CASE \E a \in Authorities : BeginRotation(a)
  <2> USE <1>14 DEF BeginRotation
  <2>1. TlsTypeOK'
    <3>1. PICK a \in Authorities : BeginRotation(a)
      OBVIOUS
    <3>2. <<auth, leaf, system>> \in Backups /\ leaf \cup {"domain"} \in SUBSET Names
      BY DEF Backups, Names
    <3> QED
      BY <3>2
  <2>2. ~torn' => (tls' = NoTls => AtRest') /\ EnsureInv' /\ RotateInv'
    BY DEF EnsureInv, RotateInv, AtRest, Trusting, Coherent
  <2> QED
    BY <2>1, <2>2
<1>15. CASE UNCHANGED tlsVars
  BY <1>15 DEF tlsVars, EnsureInv, RotateInv, AtRest, Trusting, Coherent, Rotated
<1> QED
  BY <1>1, <1>2, <1>3, <1>4, <1>5, <1>6, <1>7, <1>8, <1>9, <1>10, <1>11, <1>12, <1>13, <1>14, <1>15
     DEF TlsNext, TlsSteps

(* A step of the services is the administration's or leaves it alone.        *)
LEMMA TlsRuns == [ServicesNext]_servicesVars => [TlsNext]_tlsVars
  BY DEF ServicesNext, servicesVars, Others, tlsVars, tlsDisk

(* The certificate is valid for every name that was promised and of one      *)
(* authority with what host and kiosk trust, unless an operation is under    *)
(* way or was interrupted (admin_tls.py).                                    *)
THEOREM SpecTlsUsable == ServicesSpec => []TlsUsable
<1>1. ServicesInit => TlsInv
  BY TlsInitInvariant DEF ServicesInit
<1>2. TlsInv /\ [ServicesNext]_servicesVars => TlsInv'
  BY TlsInvariant, TlsRuns
<1>3. TlsInv => TlsUsable
  BY DEF TlsInv, TlsUsable, AtRest, Coherent, Trusting, Valid
<1> QED
  BY <1>1, <1>2, <1>3, PTL DEF ServicesSpec

-----------------------------------------------------------------------------
(* The outputs that the views are given                                      *)

(* One view, or two: plan refuses any other number                           *)
(* (browser-session.py:221).                                                 *)
OneOrTwo(views) == DOMAIN views = 1..Len(views) /\ Len(views) \in {1, 2}

(* Every view has a connected output or none; no two views have the same.    *)
Assignments(views, outputs) == [DOMAIN views -> outputs \cup {NoOutput}]

Exclusive(views, outputs, a) ==
  /\ a \in Assignments(views, outputs)
  /\ \A i, j \in DOMAIN views : i # j /\ a[i] = a[j] => a[i] = NoOutput

(* The output of the monitor that a view was saved with, and whether a view  *)
(* has been given it.                                                        *)
Known(views, outputs, monitors, i) == Identified(monitors, outputs, views[i].display)

KnownTaken(views, outputs, monitors, a, i) ==
  Known(views, outputs, monitors, i) # NoOutput =>
    \E j \in DOMAIN views : a[j] = Known(views, outputs, monitors, i)

(* What b gives out is what a did, and more.                                 *)
Extends(views, a, b) == \A i \in DOMAIN views : a[i] # NoOutput => b[i] = a[i]

(* A set of connectors has a first one in the order of their names ...       *)
LEMMA LeastExists ==
  ASSUME NEW S \in SUBSET Nat, S # {}
  PROVE  \E least \in S : \A n \in S : least <= n
<1>1. PICK least \in S : \A n \in S : ~ (<<n, least>> \in OpToRel(<, Nat))
  BY NatLessThanWellFounded, WFMin
<1>2. \A n \in S : ~ (n < least)
  BY <1>1 DEF OpToRel
<1> QED
  BY <1>2

(* ... so that the first free output is a free one.                          *)
LEMMA LowestIsLeast ==
  ASSUME NEW S \in SUBSET Nat, S # {}
  PROVE  Lowest(S) \in S
  BY LeastExists DEF Lowest

(* A monitor is only known where it is connected.                            *)
LEMMA IdentifiedOutput ==
  ASSUME NEW monitors, NEW outputs, NEW display
  PROVE  Identified(monitors, outputs, display) \in outputs \cup {NoOutput}
<1> DEFINE at == {c \in outputs : monitors[c] = display}
<1>1. CASE at = {}
  BY <1>1, FS_EmptySet DEF Identified
<1>2. CASE at # {}
  BY <1>2 DEF Identified
<1> QED
  BY <1>1, <1>2

(* A claim takes a free output or none, and the output of a known monitor    *)
(* has a view after it: this one, or the one that claimed it before.         *)
LEMMA ClaimKeeps ==
  ASSUME NEW views, NEW outputs, NEW monitors, NEW a, NEW i \in DOMAIN views,
         Exclusive(views, outputs, a), a[i] = NoOutput
  PROVE  LET b == Claim(views, outputs, monitors, a, i)
         IN /\ Exclusive(views, outputs, b)
            /\ Extends(views, a, b)
            /\ \A j \in DOMAIN views : j # i => b[j] = a[j]
            /\ KnownTaken(views, outputs, monitors, b, i)
<1> DEFINE known == Known(views, outputs, monitors, i)
           wish == Requested(views, outputs)[i]
           free == Free(a, outputs)
           given == IF known \in free THEN known ELSE IF wish \in free THEN wish ELSE NoOutput
           b == [a EXCEPT ![i] = given]
<1>1. Claim(views, outputs, monitors, a, i) = b
  BY DEF Claim, Known
<1>2. free \subseteq outputs /\ \A j \in DOMAIN views : a[j] \notin free
  BY DEF Free, Exclusive, Assignments
<1>3. given \in free \cup {NoOutput}
  OBVIOUS
<1>4. b[i] = given /\ \A j \in DOMAIN views : j # i => b[j] = a[j]
  BY DEF Exclusive, Assignments
<1>5. Exclusive(views, outputs, b)
  <2>1. b \in Assignments(views, outputs)
    BY <1>2, <1>3 DEF Exclusive, Assignments
  <2> QED
    BY <2>1, <1>2, <1>3, <1>4 DEF Exclusive
<1>6. KnownTaken(views, outputs, monitors, b, i)
  <2> SUFFICES ASSUME known # NoOutput
               PROVE  \E j \in DOMAIN views : b[j] = known
    BY DEF KnownTaken
  <2>1. known \in outputs
    BY IdentifiedOutput DEF Known
  <2>2. CASE known \in free
    BY <1>4, <2>2
  <2>3. CASE known \notin free
    <3>1. PICK j \in DOMAIN views : a[j] = known
      BY <2>1, <2>3 DEF Free, Exclusive, Assignments
    <3> QED
      BY <1>4, <3>1
  <2> QED
    BY <2>2, <2>3
<1> QED
  BY <1>1, <1>4, <1>5, <1>6 DEF Extends

(* A known monitor keeps its view when more is given out.                    *)
LEMMA KnownStays ==
  ASSUME NEW views, NEW outputs, NEW monitors, NEW a, NEW b, Extends(views, a, b),
         NEW i \in DOMAIN views, KnownTaken(views, outputs, monitors, a, i)
  PROVE  KnownTaken(views, outputs, monitors, b, i)
  BY DEF Extends, KnownTaken

(* A view without an output is given a free one, if any is of its family.    *)
LEMMA SettleKeeps ==
  ASSUME NEW views, NEW outputs, outputs \subseteq Nat, NEW a, NEW i \in DOMAIN views,
         Exclusive(views, outputs, a)
  PROVE  LET b == Settle(views, outputs, a, i)
         IN Exclusive(views, outputs, b) /\ Extends(views, a, b)
<1> DEFINE wish == Requested(views, outputs)[i]
           free == IF wish = NoOutput THEN Free(a, outputs) ELSE Related(Free(a, outputs), wish)
           b == [a EXCEPT ![i] = Lowest(free)]
<1>1. free \subseteq outputs /\ \A j \in DOMAIN views : a[j] \notin free
  BY DEF Free, Related, Exclusive, Assignments
<1>2. CASE a[i] = NoOutput /\ free # {}
  <2>1. Settle(views, outputs, a, i) = b
    BY <1>2 DEF Settle
  <2>2. Lowest(free) \in free
    BY <1>1, <1>2, LowestIsLeast
  <2>3. b[i] = Lowest(free) /\ \A j \in DOMAIN views : j # i => b[j] = a[j]
    BY DEF Exclusive, Assignments
  <2>4. b \in Assignments(views, outputs)
    BY <1>1, <2>2 DEF Exclusive, Assignments
  <2>5. Exclusive(views, outputs, b)
    BY <1>1, <2>2, <2>3, <2>4 DEF Exclusive
  <2> QED
    BY <1>2, <2>1, <2>3, <2>5 DEF Extends
<1>3. CASE ~(a[i] = NoOutput /\ free # {})
  <2>1. Settle(views, outputs, a, i) = a
    BY <1>3 DEF Settle
  <2> QED
    BY <2>1 DEF Extends
<1> QED
  BY <1>2, <1>3

(* The administration is given a free output, or the only output there is:   *)
(* with two views it can only miss one if nothing else is connected, and     *)
(* then no monitor is known but the one that it is given.                    *)
LEMMA AdminShown ==
  ASSUME NEW views, OneOrTwo(views), NEW outputs, outputs \subseteq Nat \ {NoOutput}, NEW monitors, NEW a,
         Exclusive(views, outputs, a), \A i \in DOMAIN views : KnownTaken(views, outputs, monitors, a, i)
  PROVE  LET b == ShowAdmin(views, outputs, a)
         IN /\ Exclusive(views, outputs, b)
            /\ \A i \in DOMAIN views : KnownTaken(views, outputs, monitors, b, i)
            /\ Admins(views) # {} /\ outputs # {} => \E i \in Admins(views) : b[i] # NoOutput
<1> DEFINE admin == Lowest(Admins(views))
           free == Free(a, outputs)
           near == Related(free, Requested(views, outputs)[admin])
           near2 == IF near # {} THEN near ELSE free
           b == ShowAdmin(views, outputs, a)
<1>0. a \in Assignments(views, outputs) /\ free \subseteq outputs /\ near \subseteq free
      /\ \A j \in DOMAIN views : a[j] \notin free
  BY DEF Free, Related, Exclusive, Assignments
<1>1. CASE Admins(views) = {} \/ outputs = {}
  BY <1>1 DEF ShowAdmin
<1>2. CASE Admins(views) # {} /\ outputs # {}
  <2>1. admin \in Admins(views) /\ admin \in DOMAIN views
    <3>1. Admins(views) \subseteq DOMAIN views /\ DOMAIN views \subseteq Nat
      BY DEF Admins, OneOrTwo
    <3> QED
      BY <1>2, <3>1, LowestIsLeast
  <2> HIDE DEF admin
  <2>2. CASE a[admin] # NoOutput
    <3>1. b = a
      BY <1>2, <2>2 DEF ShowAdmin, admin
    <3> HIDE DEF b
    <3> QED
      BY <2>1, <2>2, <3>1 DEF b
  <2>3. CASE a[admin] = NoOutput /\ free # {}
    <3> DEFINE new == Lowest(near2)
               d == [a EXCEPT ![admin] = new]
    <3>1. b = d
      BY <1>2, <2>3 DEF ShowAdmin, admin
    <3>2. new \in free
      BY <1>0, <2>3, LowestIsLeast
    <3> HIDE DEF new
    <3>3. d[admin] = new /\ \A j \in DOMAIN views : j # admin => d[j] = a[j]
      BY <1>0, <2>1 DEF Assignments
    <3>4. d \in Assignments(views, outputs)
      BY <1>0, <2>1, <3>2 DEF Assignments
    <3>5. Exclusive(views, outputs, d)
      BY <1>0, <3>2, <3>3, <3>4 DEF Exclusive
    <3>6. \A i \in DOMAIN views : KnownTaken(views, outputs, monitors, d, i)
      <4> SUFFICES ASSUME NEW i \in DOMAIN views, Known(views, outputs, monitors, i) # NoOutput
                   PROVE  \E j \in DOMAIN views : d[j] = Known(views, outputs, monitors, i)
        BY DEF KnownTaken
      <4>1. PICK j \in DOMAIN views : a[j] = Known(views, outputs, monitors, i)
        BY DEF KnownTaken
      <4> QED
        BY <2>3, <3>3, <4>1
    <3>7. d[admin] # NoOutput
      BY <1>0, <3>2, <3>3
    <3> HIDE DEF d, b
    <3> QED
      BY <2>1, <3>1, <3>5, <3>6, <3>7 DEF b
  <2>4. CASE a[admin] = NoOutput /\ free = {}
    <3>1. PICK only \in outputs : outputs = {only}
      <4>1. \A c \in outputs : \E j \in DOMAIN views : a[j] = c
        BY <1>0, <2>4 DEF Free, Assignments
      <4>2. \A c \in outputs : \E j \in DOMAIN views : j # admin /\ a[j] = c
        BY <2>4, <4>1
      <4>3. \A i, j \in DOMAIN views : i # admin /\ j # admin => i = j
        BY <2>1 DEF OneOrTwo
      <4>4. \A c, d \in outputs : c = d
        BY <4>2, <4>3
      <4> QED
        BY <1>2, <4>4
    <3>2. Cardinality(outputs) = 1 /\ Lowest(outputs) = only
      <4>1. Lowest(outputs) \in outputs
        BY <1>2, LowestIsLeast
      <4> QED
        BY <3>1, <4>1, FS_Singleton
    <3> DEFINE d == [i \in DOMAIN views |-> IF i = admin THEN only ELSE NoOutput]
    <3>3. b = d
      BY <1>2, <2>4, <3>2 DEF ShowAdmin, admin
    <3>4. Exclusive(views, outputs, d)
      BY <3>1 DEF Exclusive, Assignments
    <3>5. \A i \in DOMAIN views : KnownTaken(views, outputs, monitors, d, i)
      <4> SUFFICES ASSUME NEW i \in DOMAIN views, Known(views, outputs, monitors, i) # NoOutput
                   PROVE  \E j \in DOMAIN views : d[j] = Known(views, outputs, monitors, i)
        BY DEF KnownTaken
      <4>1. Known(views, outputs, monitors, i) = only
        BY <3>1, IdentifiedOutput DEF Known
      <4> QED
        BY <2>1, <4>1
    <3>6. d[admin] # NoOutput
      BY <2>1, <3>1
    <3> HIDE DEF d, b
    <3> QED
      BY <2>1, <3>3, <3>4, <3>5, <3>6 DEF b
  <2> QED
    BY <2>2, <2>3, <2>4
<1> QED
  BY <1>1, <1>2

(* The claims are made in the order of the views, from nothing assigned.     *)
LEMMA ClaimsInOrder ==
  ASSUME NEW views, NEW outputs, NEW monitors, NEW L \in {1, 2}, Len(views) = L
  PROVE  LET none  == [i \in DOMAIN views |-> NoOutput]
             first == Claim(views, outputs, monitors, none, 1)
         IN Claims(views, outputs, monitors)[L] =
              IF L = 1 THEN first ELSE Claim(views, outputs, monitors, first, 2)
<1> DEFINE start == [i \in DOMAIN views |-> NoOutput]
           first == Claim(views, outputs, monitors, start, 1)
           second == Claim(views, outputs, monitors, first, 2)
           Turn(f, n) == IF n = 0 THEN start ELSE Claim(views, outputs, monitors, f[n - 1], n)
           made == [n \in 0..L |-> IF n = 0 THEN start ELSE IF n = 1 THEN first ELSE second]
           c == CHOOSE f : f = [n \in 0..L |-> Turn(f, n)]
<1>1. made = [n \in 0..L |-> Turn(made, n)]
  <2> HIDE DEF start
  <2> SUFFICES ASSUME NEW n \in 0..L PROVE made[n] = Turn(made, n)
    OBVIOUS
  <2>1. CASE n = 0
    BY <2>1
  <2>2. CASE n = 1
    BY <2>2
  <2>3. CASE n = 2
    <3>1. made[1] = first
      BY <2>3
    <3> QED
      BY <2>3, <3>1
  <2> QED
    BY <2>1, <2>2, <2>3
<1>2. c = [n \in 0..L |-> Turn(c, n)]
  BY <1>1
<1>3. Claims(views, outputs, monitors) = c
  BY DEF Claims
<1>4. c[0] = start
  <2> HIDE DEF c
  <2> QED
    BY <1>2
<1>5. c[1] = Claim(views, outputs, monitors, c[0], 1)
  <2> HIDE DEF c, start
  <2> QED
    BY <1>2
<1>6. L = 2 => c[2] = Claim(views, outputs, monitors, c[1], 2)
  <2> HIDE DEF c, start
  <2> QED
    BY <1>2
<1> HIDE DEF c
<1> QED
  BY <1>3, <1>4, <1>5, <1>6

(* What is left is given out in the order of the views.                      *)
LEMMA SettlementInOrder ==
  ASSUME NEW views, NEW outputs, NEW a, NEW L \in {1, 2}, Len(views) = L
  PROVE  LET first == Settle(views, outputs, a, 1)
         IN Settlement(views, outputs, a)[L] =
              IF L = 1 THEN first ELSE Settle(views, outputs, first, 2)
<1> DEFINE first == Settle(views, outputs, a, 1)
           second == Settle(views, outputs, first, 2)
           Turn(f, n) == IF n = 0 THEN a ELSE Settle(views, outputs, f[n - 1], n)
           made == [n \in 0..L |-> IF n = 0 THEN a ELSE IF n = 1 THEN first ELSE second]
           c == CHOOSE f : f = [n \in 0..L |-> Turn(f, n)]
<1>1. made = [n \in 0..L |-> Turn(made, n)]
  <2> SUFFICES ASSUME NEW n \in 0..L PROVE made[n] = Turn(made, n)
    OBVIOUS
  <2>1. CASE n = 0
    BY <2>1
  <2>2. CASE n = 1
    BY <2>2
  <2>3. CASE n = 2
    <3>1. made[1] = first
      BY <2>3
    <3> QED
      BY <2>3, <3>1
  <2> QED
    BY <2>1, <2>2, <2>3
<1>2. c = [n \in 0..L |-> Turn(c, n)]
  BY <1>1
<1>3. Settlement(views, outputs, a) = c
  BY DEF Settlement
<1> HIDE DEF c
<1>4. c[0] = a
  BY <1>2
<1>5. c[1] = Settle(views, outputs, c[0], 1)
  BY <1>2
<1>6. L = 2 => c[2] = Settle(views, outputs, c[1], 2)
  BY <1>2
<1> QED
  BY <1>3, <1>4, <1>5, <1>6

(* Every view has had its claim: no output is claimed twice, and wherever a  *)
(* monitor is known a view has its output.                                   *)
LEMMA ClaimsSound ==
  ASSUME NEW views, OneOrTwo(views), NEW outputs, NEW monitors
  PROVE  LET a == Claims(views, outputs, monitors)[Len(views)]
         IN /\ Exclusive(views, outputs, a)
            /\ \A i \in DOMAIN views : KnownTaken(views, outputs, monitors, a, i)
<1> DEFINE L == Len(views)
           none == [i \in DOMAIN views |-> NoOutput]
           first == Claim(views, outputs, monitors, none, 1)
           second == Claim(views, outputs, monitors, first, 2)
<1>1. L \in {1, 2} /\ DOMAIN views = 1..L
  BY DEF OneOrTwo
<1>2. Exclusive(views, outputs, none) /\ \A i \in DOMAIN views : none[i] = NoOutput
  BY DEF Exclusive, Assignments
<1> HIDE DEF L, none
<1>3. 1 \in DOMAIN views
  BY <1>1
<1>4. /\ Exclusive(views, outputs, first)
      /\ \A j \in DOMAIN views : j # 1 => first[j] = NoOutput
      /\ KnownTaken(views, outputs, monitors, first, 1)
  BY <1>2, <1>3, ClaimKeeps
<1> HIDE DEF first
<1>5. CASE L = 1
  <2>1. Claims(views, outputs, monitors)[L] = first
    BY <1>1, <1>5, ClaimsInOrder DEF L, none, first
  <2> QED
    BY <1>1, <1>4, <1>5, <2>1 DEF L
<1>6. CASE L = 2
  <2>1. Claims(views, outputs, monitors)[L] = second
    BY <1>1, <1>6, ClaimsInOrder DEF L, none, first
  <2>2. 2 \in DOMAIN views
    BY <1>1, <1>6
  <2>3. /\ Exclusive(views, outputs, second) /\ Extends(views, first, second)
        /\ KnownTaken(views, outputs, monitors, second, 2)
    BY <1>4, <2>2, ClaimKeeps
  <2> HIDE DEF second
  <2>4. KnownTaken(views, outputs, monitors, second, 1)
    BY <1>3, <1>4, <2>3, KnownStays
  <2> QED
    BY <1>1, <1>6, <2>1, <2>3, <2>4 DEF L
<1> QED
  BY <1>1, <1>5, <1>6

(* What is given out last takes no output from a view that has one.          *)
LEMMA SettlementSound ==
  ASSUME NEW views, OneOrTwo(views), NEW outputs, outputs \subseteq Nat, NEW a,
         Exclusive(views, outputs, a)
  PROVE  LET b == Settlement(views, outputs, a)[Len(views)]
         IN Exclusive(views, outputs, b) /\ Extends(views, a, b)
<1> DEFINE L == Len(views)
           first == Settle(views, outputs, a, 1)
           second == Settle(views, outputs, first, 2)
<1>1. L \in {1, 2} /\ DOMAIN views = 1..L
  BY DEF OneOrTwo
<1> HIDE DEF L
<1>2. Exclusive(views, outputs, first) /\ Extends(views, a, first)
  <2>1. 1 \in DOMAIN views
    BY <1>1
  <2> QED
    BY <2>1, SettleKeeps
<1> HIDE DEF first
<1>3. CASE L = 1
  <2>1. Settlement(views, outputs, a)[L] = first
    BY <1>1, <1>3, SettlementInOrder DEF L, first
  <2> QED
    BY <1>2, <2>1 DEF L
<1>4. CASE L = 2
  <2>1. Settlement(views, outputs, a)[L] = second
    BY <1>1, <1>4, SettlementInOrder DEF L, first
  <2>2. 2 \in DOMAIN views
    BY <1>1, <1>4
  <2>3. Exclusive(views, outputs, second) /\ Extends(views, first, second)
    BY <1>2, <2>2, SettleKeeps
  <2> HIDE DEF second
  <2> QED
    BY <1>2, <2>1, <2>3 DEF L, Extends
<1> QED
  BY <1>1, <1>3, <1>4

(* assigned_outputs, for any connectors and monitors: no output is given     *)
(* twice, the administration is visible as long as anything is connected,    *)
(* and a monitor that is known shows a view.                                 *)
THEOREM PlanIsSound ==
  ASSUME NEW views, OneOrTwo(views), NEW outputs, outputs \subseteq Nat \ {NoOutput}, NEW monitors
  PROVE  AssignmentSound(views, outputs, monitors)
<1> DEFINE claimed == Claims(views, outputs, monitors)[Len(views)]
           visible == ShowAdmin(views, outputs, claimed)
           a == Settlement(views, outputs, visible)[Len(views)]
<1>1. Exclusive(views, outputs, claimed) /\ \A i \in DOMAIN views : KnownTaken(views, outputs, monitors, claimed, i)
  BY ClaimsSound
<1> HIDE DEF claimed
<1>2. /\ Exclusive(views, outputs, visible)
      /\ \A i \in DOMAIN views : KnownTaken(views, outputs, monitors, visible, i)
      /\ Admins(views) # {} /\ outputs # {} => \E i \in Admins(views) : visible[i] # NoOutput
  BY <1>1, AdminShown
<1> HIDE DEF visible
<1>3. Exclusive(views, outputs, a) /\ Extends(views, visible, a)
  BY <1>2, SettlementSound
<1>4. AssignedOutputs(views, outputs, monitors) = a
  BY DEF AssignedOutputs, visible, claimed
<1> HIDE DEF a
<1>5. \A i \in DOMAIN views : KnownTaken(views, outputs, monitors, a, i)
  BY <1>2, <1>3, KnownStays
<1>6. Admins(views) # {} /\ outputs # {} => \E i \in Admins(views) : a[i] # NoOutput
  BY <1>2, <1>3 DEF Extends, Admins
<1> QED
  BY <1>3, <1>4, <1>5, <1>6 DEF AssignmentSound, Exclusive, Assignments, KnownTaken, Known

-----------------------------------------------------------------------------
(* The browsers of the kiosk                                                 *)

(* What the status file may say of a view.                                   *)
Reported == {"none", "ready", "pending-verification", "unavailable", "login-failed", "review-required",
             "pairing-required"}

UnitType    == [kind : {"none", "worker", "leaving", "page", "admin"}, rev : Nat]
RefusalType == [rev : Nat, kept : {"held", "unread", "dropped", "forgotten"}]

(* Types; a credential that is read or was read has been saved before.       *)
KioskTypeOK ==
  /\ issued \in Nat /\ cred \in 0..issued /\ seen \in 0..issued
  /\ turn \in {"off", "plan", "reap", "poll", "launch", "report"}
  /\ unit \in [Views -> UnitType]
  /\ retry \in [Views -> [rev : Nat, until : {"past", "soon", "never"}]]
  /\ status \in [Views -> [state : Reported, rev : Nat]]
  /\ pipe \in [Views -> {"none", "ready", "unavailable", "review-required", "login-failed"}]
  /\ refused \in [Views -> RefusalType]

(* What was planned is for the credential that was read; what was started is  *)
(* what was planned, except while a new plan waits for the old views to go.   *)
PlannedInv(i) ==
  /\ desired[i] # NoView /\ Player(i) => desired[i].rev = seen
  /\ desired[i] # NoView => desired[i].page \in Reported \ {"ready"} /\ desired[i].rev \in Nat
  /\ child[i] # NoView => child[i].page \in Reported \ {"ready"} /\ child[i].rev \in Nat
  /\ turn \notin {"reap", "poll"} => child[i] \in {NoView, desired[i]}
  /\ child[i] # NoView /\ Player(i) => status[i].rev = child[i].rev

(* A revision that was replaced does not come back while the session turns.   *)
StaleInv(i) ==
  /\ seen = 0 /\ Player(i) /\ desired[i] # NoView => desired[i].page # "none"
  /\ child[i] # NoView /\ Player(i) /\ child[i].page = "none" =>
       /\ child[i].rev \in 1..issued
       /\ cred = child[i].rev => seen = cred
  /\ refused[i].kept = "held" =>
       /\ refused[i].rev \in 1..issued
       /\ cred = refused[i].rev => seen = cred

(* Workers and pages have a child that the loop knows, and only a worker      *)
(* speaks.                                                                    *)
WorkerInv(i) ==
  /\ child[i] = NoView => unit[i] = NoUnit
  /\ unit[i].kind \in {"worker", "leaving"} =>
       Player(i) /\ child[i].page = "none" /\ unit[i].rev = child[i].rev
  /\ pipe[i] # "none" => child[i] # NoView /\ child[i].page = "none" /\ Player(i)
  /\ status[i].state = "ready" => Player(i) /\ child[i] # NoView /\ child[i].page = "none"

(* A worker that was refused has told so: the loop has read it or will, and   *)
(* does not take the worker for one that runs.                                *)
Telling(i) ==
  /\ child[i] # NoView /\ child[i].page = "none" /\ child[i].rev = refused[i].rev
  /\ unit[i].kind # "worker"
  /\ pipe[i] \in Terminal \/ (pipe[i] = "none" /\ status[i].state \in Terminal)

(* Once it is reaped the credential is held back: its status says why, and as *)
(* long as it is the one that is read, nothing but a page is planned.         *)
HeldBack(i) ==
  /\ child[i] # NoView /\ child[i].page = "none" => child[i].rev # refused[i].rev
  /\ status[i].rev = refused[i].rev => status[i].state \in Terminal
  /\ seen = refused[i].rev =>
       /\ status[i].rev = seen
       /\ retry[i] = [rev |-> seen, until |-> "never"]
       /\ desired[i] # NoView => desired[i].page \in Terminal \cup {"none"}

(* Only views of the world use credentials, so only they can be refused.     *)
ViewInv(i) ==
  /\ PlannedInv(i) /\ StaleInv(i) /\ WorkerInv(i)
  /\ refused[i].kept = "held" => Player(i) /\ (Telling(i) \/ HeldBack(i))

(* While the session is off its variables are what the last one left.        *)
KioskInv ==
  /\ KioskTypeOK
  /\ turn # "off" => \A i \in Views : ViewInv(i)

(* A boot finds no browser running and nothing reported.                     *)
LEMMA KioskInitInvariant == KioskInit => KioskInv
  BY DEF KioskInit, KioskInv, KioskTypeOK, NoUnit, NoRetry, NoStatus, NoRefusal, Reported, UnitType, RefusalType

(* What is planned for a view.                                               *)
LEMMA Planned ==
  ASSUME KioskInv, turn # "off", NEW i \in Views, ViewOf(i) # NoView
  PROVE  /\ ViewOf(i).page \in Reported \ {"ready"} /\ ViewOf(i).rev \in Nat
         /\ Player(i) => /\ ViewOf(i).rev = cred
                         /\ cred = 0 => ViewOf(i).page # "none"
                         /\ refused[i].kept = "held" /\ HeldBack(i) /\ cred = refused[i].rev
                              => ViewOf(i).page \in Terminal
  <1>1. CASE Player(i)
    <2>1. ViewOf(i).page = Placeholder(i) /\ ViewOf(i).rev = cred
      BY <1>1 DEF ViewOf
    <2>2. Placeholder(i) \in Reported \ {"ready"}
      BY DEF Placeholder, KioskInv, ViewInv, KioskTypeOK, Reported
    <2>3. refused[i].kept = "held" /\ HeldBack(i) /\ cred = refused[i].rev => Placeholder(i) \in Terminal
      BY <1>1 DEF Placeholder, KioskInv, ViewInv, KioskTypeOK, StaleInv, HeldBack, Terminal
    <2>4. cred = 0 => Placeholder(i) # "none"
      BY DEF Placeholder
    <2> QED
      BY <2>1, <2>2, <2>3, <2>4 DEF KioskInv, KioskTypeOK
  <1>2. CASE ~Player(i)
    BY <1>2 DEF ViewOf, NoView, Reported
  <1> QED
    BY <1>1, <1>2

(* What is launched for a view, if anything: a page, the administration or a *)
(* worker, and only a worker can fail to take what it is given.              *)
LaunchedView(i) ==
  LET worker == Player(i) /\ desired[i].page = "none"
  IN /\ desired[i] # NoView /\ child[i] = NoView
     /\ worker => ~(retry[i].rev = desired[i].rev /\ retry[i].until # "past")
     /\ \/ /\ child'[i] = desired[i] /\ retry'[i] = retry[i]
           /\ unit'[i] = [kind |-> IF ~Player(i) THEN "admin" ELSE IF worker THEN "worker" ELSE "page",
                          rev |-> desired[i].rev]
        \/ /\ worker /\ child'[i] = NoView /\ unit'[i] = NoUnit
           /\ retry'[i] = [rev |-> desired[i].rev, until |-> "soon"]
     /\ status'[i] = IF Player(i) THEN [state |-> IF worker THEN "pending-verification" ELSE desired[i].page,
                                        rev |-> desired[i].rev]
                     ELSE status[i]

(* A turn launches what is planned for a view and not running, if anything.  *)
LEMMA LaunchEffect ==
  ASSUME LaunchViews
  PROVE  \A i \in Views :
           \/ LaunchedView(i)
           \/ UNCHANGED <<child[i], unit[i], status[i], retry[i]>>
<1>1. \E broken : \A i \in Views :
        /\ child'[i] = Launched(i, broken).child
        /\ unit'[i] = Launched(i, broken).unit
        /\ status'[i] = Launched(i, broken).status
        /\ retry'[i] = Launched(i, broken).retry
  <2>1. PICK broken \in IF events < MaxEvents THEN SUBSET Views ELSE {{}} :
          LET l == [i \in Views |-> Launched(i, broken)] IN
          /\ child' = [i \in Views |-> l[i].child]
          /\ unit' = [i \in Views |-> l[i].unit]
          /\ status' = [i \in Views |-> l[i].status]
          /\ retry' = [i \in Views |-> l[i].retry]
    BY DEF LaunchViews
  <2> QED
    BY <2>1
<1>p. PICK broken : \A i \in Views :
        /\ child'[i] = Launched(i, broken).child
        /\ unit'[i] = Launched(i, broken).unit
        /\ status'[i] = Launched(i, broken).status
        /\ retry'[i] = Launched(i, broken).retry
  BY <1>1
<1>2. SUFFICES ASSUME NEW i \in Views
               PROVE  LaunchedView(i) \/ UNCHANGED <<child[i], unit[i], status[i], retry[i]>>
  OBVIOUS
<1>3. CASE desired[i] # NoView /\ child[i] = NoView
           /\ ~(Player(i) /\ desired[i].page = "none" /\ retry[i].rev = desired[i].rev /\ retry[i].until # "past")
  <2>1. CASE Player(i) /\ desired[i].page = "none" /\ i \in broken
    BY <1>p, <1>3, <2>1 DEF Launched, LaunchedView
  <2>2. CASE ~(Player(i) /\ desired[i].page = "none" /\ i \in broken)
    BY <1>p, <1>3, <2>2 DEF Launched, LaunchedView
  <2> QED
    BY <2>1, <2>2
<1>4. CASE ~(desired[i] # NoView /\ child[i] = NoView
             /\ ~(Player(i) /\ desired[i].page = "none" /\ retry[i].rev = desired[i].rev /\ retry[i].until # "past"))
  BY <1>p, <1>4 DEF Launched
<1> QED
  BY <1>3, <1>4

(* Every phase of the loop preserves the invariant, and so do the workers,   *)
(* the displays and the administration between any two.                      *)
LEMMA KioskInvariant ==
  ASSUME KioskInv, [KioskNext]_kioskVars
  PROVE  KioskInv'
<1> USE DEF KioskInv, ViewInv, kioskEnv, kioskLoop, Player
<1>1. CASE StartSession
  <2>1. KioskTypeOK'
    BY <1>1 DEF StartSession, KioskTypeOK, NoUnit, NoRetry, NoStatus, Reported, UnitType, RefusalType
  <2>2. ASSUME turn' # "off", NEW i \in Views
        PROVE  ViewInv(i)'
    BY <1>1 DEF StartSession, KioskTypeOK, RefusalType, NoUnit, NoStatus, NoView, PlannedInv, StaleInv, WorkerInv, Telling, HeldBack
  <2> QED
    BY <2>1, <2>2
<1>2. CASE SetModes
  <2>1. KioskTypeOK'
    BY <1>2 DEF SetModes, KioskTypeOK
  <2>2. ASSUME turn' # "off", NEW i \in Views
        PROVE  ViewInv(i)'
    BY <1>2 DEF SetModes, PlannedInv, StaleInv, WorkerInv, Telling, HeldBack
  <2> QED
    BY <2>1, <2>2
<1>3. CASE PlanViews
  <2>1. KioskTypeOK'
    BY <1>3 DEF PlanViews, KioskTypeOK
  <2>2. ASSUME turn' # "off", NEW i \in Views
        PROVE  ViewInv(i)'
    BY <1>3, <2>2, Planned DEF PlanViews, KioskTypeOK, NoUnit, NoRetry, NoStatus, NoView,
         Reported, PlannedInv, StaleInv, WorkerInv, Telling, HeldBack, Terminal
  <2> QED
    BY <2>1, <2>2
<1>4. CASE ReapViews
  <2>1. KioskTypeOK'
    <3>1. \A i \in Views : child[i] # NoView => child[i].rev \in Nat
      BY <1>4 DEF ReapViews, PlannedInv
    <3>2. \A i \in Views : [status[i] EXCEPT !.state = "unavailable"] \in [state : Reported, rev : Nat]
      BY DEF KioskTypeOK, Reported
    <3>3. status' \in [Views -> [state : Reported, rev : Nat]]
      BY <1>4, <3>2 DEF ReapViews, KioskTypeOK
    <3>4. retry' \in [Views -> [rev : Nat, until : {"past", "soon", "never"}]]
      BY <1>4, <3>1 DEF ReapViews, ViewEnded, RetryAfter, KioskTypeOK
    <3>5. unit' \in [Views -> UnitType]
      BY <1>4 DEF ReapViews, KioskTypeOK, NoUnit, UnitType
    <3>6. refused' \in [Views -> RefusalType]
      BY <1>4 DEF ReapViews, KioskTypeOK, RefusalType
    <3> QED
      BY <1>4, <3>3, <3>4, <3>5, <3>6 DEF ReapViews, KioskTypeOK
  <2>2. ASSUME turn' # "off", NEW i \in Views
        PROVE  ViewInv(i)'
    <3>0. turn = "poll" /\ ViewInv(i) /\ refused[i] \in RefusalType
      BY <1>4 DEF ReapViews, KioskTypeOK
    <3>1. PlannedInv(i)'
      BY <1>4, <3>0 DEF ReapViews, ViewReaped, ViewEnded, ViewChanged, KioskTypeOK, PlannedInv
    <3>2. StaleInv(i)'
      BY <1>4, <3>0 DEF ReapViews, ViewReaped, ViewEnded, ViewChanged, StaleInv, RefusalType
    <3>3. WorkerInv(i)'
      BY <1>4, <3>0 DEF ReapViews, ViewReaped, ViewEnded, ViewChanged, KioskTypeOK, NoUnit, WorkerInv
    <3>4. ASSUME refused'[i].kept = "held"
          PROVE  Player(i) /\ (Telling(i) \/ HeldBack(i))'
      <4>1. refused[i].kept = "held" /\ refused'[i] = refused[i] /\ Player(i)
        BY <1>4, <3>0, <3>4 DEF ReapViews, RefusalType
      <4>2. CASE Telling(i) /\ ViewReaped(i)
        <5>1. ViewEnded(i) /\ ~ViewChanged(i) /\ pipe[i] \notin Terminal
          BY <1>4, <3>0, <3>4, <4>1, <4>2 DEF ReapViews, ViewReaped, Telling, RefusalType
        <5>2. status[i].state \in Terminal /\ status[i].rev = refused[i].rev
          BY <3>0, <4>1, <4>2, <5>1 DEF Telling, PlannedInv, ViewEnded
        <5>3. status'[i] = status[i] /\ child'[i] = NoView
          BY <1>4, <4>2, <5>2 DEF ReapViews, Terminal
        <5>4. retry'[i] = [rev |-> refused[i].rev, until |-> "never"]
          BY <1>4, <4>1, <4>2, <5>1, <5>2 DEF ReapViews, RetryAfter, Telling
        <5>5. desired[i].page = "none"
          BY <4>2, <5>1 DEF Telling, ViewChanged
        <5> QED
          BY <1>4, <4>1, <5>2, <5>3, <5>4, <5>5 DEF ReapViews, HeldBack
      <4>3. CASE Telling(i) /\ ~ViewReaped(i)
        <5>1. UNCHANGED <<child[i], unit[i], pipe[i]>> /\ status'[i] = status[i]
          BY <1>4, <4>3 DEF ReapViews, KioskTypeOK
        <5> QED
          BY <4>1, <4>3, <5>1 DEF Telling, Terminal
      <4>4. CASE HeldBack(i)
        <5>1. status'[i] = status[i] \/ (status'[i].rev = status[i].rev /\ status[i].state = "ready")
          BY <1>4 DEF ReapViews, KioskTypeOK
        <5>2. status[i].rev = refused[i].rev => status[i].state # "ready"
          BY <4>4 DEF HeldBack, Terminal
        <5>3. ViewEnded(i) /\ ~ViewChanged(i) => child[i].rev = seen /\ child[i] = desired[i] /\ desired[i] # NoView
          BY <3>0, <4>1 DEF ViewEnded, ViewChanged, PlannedInv
        <5>4. child'[i] = child[i] \/ child'[i] = NoView
          BY <1>4 DEF ReapViews
        <5>5. ASSUME seen = refused[i].rev
              PROVE  retry'[i] = [rev |-> seen, until |-> "never"]
          <6>1. CASE ViewEnded(i) /\ ~ViewChanged(i)
            <7>1. retry'[i] = [rev |-> child[i].rev, until |-> RetryAfter(status[i].state)]
              BY <1>4, <4>1, <6>1 DEF ReapViews
            <7>2. status[i].state \in Terminal
              BY <4>4, <5>5 DEF HeldBack
            <7> QED
              BY <5>3, <6>1, <7>1, <7>2 DEF RetryAfter
          <6>2. CASE ~(ViewEnded(i) /\ ~ViewChanged(i))
            BY <1>4, <4>4, <5>5, <6>2 DEF ReapViews, HeldBack
          <6> QED
            BY <6>1, <6>2
        <5> QED
          BY <1>4, <4>1, <4>4, <5>1, <5>2, <5>4, <5>5 DEF ReapViews, HeldBack
      <4> QED
        BY <3>0, <4>1, <4>2, <4>3, <4>4
    <3> QED
      BY <3>1, <3>2, <3>3, <3>4
  <2> QED
    BY <2>1, <2>2
<1>5. CASE LaunchViews
  <2>1. KioskTypeOK'
    <3>1. \A i \in Views : desired[i] # NoView => desired[i].rev \in Nat /\ desired[i].page \in Reported
      BY <1>5 DEF LaunchViews, PlannedInv
    <3>2. \A i \in Views : /\ unit'[i] \in UnitType
                           /\ status'[i] \in [state : Reported, rev : Nat]
                           /\ retry'[i] \in [rev : Nat, until : {"past", "soon", "never"}]
      <4> SUFFICES ASSUME NEW i \in Views
                   PROVE  /\ unit'[i] \in UnitType
                          /\ status'[i] \in [state : Reported, rev : Nat]
                          /\ retry'[i] \in [rev : Nat, until : {"past", "soon", "never"}]
        OBVIOUS
      <4>1. CASE LaunchedView(i)
        <5>1. unit'[i] \in UnitType
          BY <3>1, <4>1 DEF LaunchedView, NoUnit, UnitType
        <5>2. status'[i] \in [state : Reported, rev : Nat]
          BY <3>1, <4>1 DEF LaunchedView, KioskTypeOK, Reported
        <5>3. retry'[i] \in [rev : Nat, until : {"past", "soon", "never"}]
          BY <3>1, <4>1 DEF LaunchedView, KioskTypeOK
        <5> QED
          BY <5>1, <5>2, <5>3
      <4>2. CASE UNCHANGED <<child[i], unit[i], status[i], retry[i]>>
        BY <4>2 DEF KioskTypeOK
      <4> QED
        BY <1>5, <4>1, <4>2, LaunchEffect
    <3>3. /\ unit' = [i \in Views |-> unit'[i]]
          /\ status' = [i \in Views |-> status'[i]]
          /\ retry' = [i \in Views |-> retry'[i]]
      BY <1>5 DEF LaunchViews
    <3>4. /\ unit' \in [Views -> UnitType]
          /\ status' \in [Views -> [state : Reported, rev : Nat]]
          /\ retry' \in [Views -> [rev : Nat, until : {"past", "soon", "never"}]]
      BY <3>2, <3>3
    <3> QED
      BY <1>5, <3>4 DEF LaunchViews, KioskTypeOK
  <2>2. ASSUME turn' # "off", NEW i \in Views
        PROVE  ViewInv(i)'
    <3>0. /\ turn = "launch" /\ turn' = "report"
          /\ UNCHANGED <<cred, issued, seen, desired, pipe, refused>>
          /\ ViewInv(i)
      BY <1>5 DEF LaunchViews
    <3>1. CASE LaunchedView(i)
      <4>1. PlannedInv(i)'
        BY <3>0, <3>1 DEF LaunchedView, PlannedInv
      <4>2. WorkerInv(i)'
        BY <3>0, <3>1 DEF LaunchedView, PlannedInv, WorkerInv, NoUnit
      <4>3. StaleInv(i)'
        BY <1>5, <3>0, <3>1 DEF LaunchedView, PlannedInv, StaleInv, KioskTypeOK
      <4>4. ASSUME refused'[i].kept = "held"
            PROVE  Player(i) /\ HeldBack(i)'
        <5>1. Player(i) /\ HeldBack(i) /\ desired[i].rev = seen
          BY <3>0, <3>1, <4>4 DEF LaunchedView, Telling, PlannedInv
        <5>2. seen = refused[i].rev => desired[i].page \in Terminal
          BY <3>1, <5>1 DEF LaunchedView, HeldBack
        <5>3. Terminal \cap {"none"} = {}
          BY DEF Terminal
        <5> QED
          BY <3>0, <3>1, <5>1, <5>2, <5>3 DEF LaunchedView, HeldBack
      <4> QED
        BY <4>1, <4>2, <4>3, <4>4
    <3>2. CASE UNCHANGED <<child[i], unit[i], status[i], retry[i]>>
      BY <3>0, <3>2 DEF PlannedInv, StaleInv, WorkerInv, Telling, HeldBack
    <3> QED
      BY <1>5, <3>1, <3>2, LaunchEffect
  <2> QED
    BY <2>1, <2>2
<1>6. CASE ReportViews
  <2>1. KioskTypeOK'
    BY <1>6 DEF ReportViews, KioskTypeOK
  <2>2. ASSUME turn' # "off", NEW i \in Views
        PROVE  ViewInv(i)'
    BY <1>6 DEF ReportViews, ViewsRunning, PlannedInv, StaleInv, WorkerInv, Telling, HeldBack
  <2> QED
    BY <2>1, <2>2
<1>7. CASE SessionFails
  <2>1. KioskTypeOK'
    BY <1>7 DEF SessionFails, KioskTypeOK, NoUnit, UnitType
  <2>2. ASSUME turn' # "off", NEW i \in Views
        PROVE  ViewInv(i)'
    BY <1>7, <2>2 DEF SessionFails
  <2> QED
    BY <2>1, <2>2
<1>8. CASE \E i \in Views : WorkerSays(i)
  <2>1. KioskTypeOK'
    <3>1. PICK i \in Views : WorkerSays(i)
      BY <1>8
    <3>2. unit' \in [Views -> UnitType]
      BY <3>1 DEF WorkerSays, KioskTypeOK, UnitType
    <3>3. pipe' \in [Views -> {"none", "ready", "unavailable", "review-required", "login-failed"}]
      BY <3>1 DEF WorkerSays, Answer, KioskTypeOK
    <3>4. refused' \in [Views -> RefusalType]
      BY <3>1 DEF WorkerSays, KioskTypeOK, UnitType, RefusalType
    <3> QED
      BY <3>1, <3>2, <3>3, <3>4 DEF WorkerSays, KioskTypeOK
  <2>2. ASSUME turn' # "off", NEW i \in Views
        PROVE  ViewInv(i)'
    <3>1. PICK j \in Views : WorkerSays(j)
      BY <1>8
    <3>2. CASE i = j
      <4>1. /\ unit[i].kind = "worker" /\ child[i] # NoView /\ turn' = turn
            /\ UNCHANGED <<cred, issued, seen, desired, child, retry, status>>
            /\ ViewInv(i) /\ child[i].page = "none" /\ Player(i) /\ unit[i].rev = child[i].rev
        BY <2>2, <3>1, <3>2 DEF WorkerSays, WorkerInv
      <4>2. /\ pipe'[i] = Answer(unit[i].rev)
            /\ unit'[i] = IF pipe'[i] = "ready" THEN unit[i] ELSE [unit[i] EXCEPT !.kind = "leaving"]
            /\ refused'[i] = IF pipe'[i] \in Terminal THEN [rev |-> unit[i].rev, kept |-> "held"]
                             ELSE refused[i]
            /\ pipe'[i] \in {"ready", "unavailable", "review-required", "login-failed"}
        BY <3>1, <3>2 DEF WorkerSays, Answer, KioskTypeOK
      <4>3. unit'[i].kind \in {"worker", "leaving"} /\ unit'[i].rev = unit[i].rev /\ unit'[i] # NoUnit
            /\ (pipe'[i] # "ready" => unit'[i].kind # "worker")
        BY <4>1, <4>2 DEF KioskTypeOK, UnitType, NoUnit
      <4>4. PlannedInv(i)' /\ WorkerInv(i)'
        BY <4>1, <4>2, <4>3 DEF PlannedInv, WorkerInv
      <4>5. StaleInv(i)'
        BY <4>1, <4>2 DEF StaleInv
      <4>6. CASE pipe'[i] \in Terminal
        <5>1. refused'[i].rev = unit[i].rev /\ unit'[i].kind # "worker"
          BY <4>2, <4>3, <4>6 DEF Terminal
        <5>2. Telling(i)'
          BY <4>1, <4>6, <5>1 DEF Telling, Terminal
        <5> QED
          BY <4>1, <4>4, <4>5, <5>2
      <4>7. CASE pipe'[i] \notin Terminal
        <5>1. refused'[i] = refused[i] /\ ~Telling(i)
          BY <4>1, <4>2, <4>7 DEF Telling
        <5> QED
          BY <4>1, <4>4, <4>5, <5>1 DEF HeldBack
      <4> QED
        BY <4>6, <4>7
    <3>3. CASE i # j
      BY <2>2, <3>1, <3>3 DEF WorkerSays, KioskTypeOK, PlannedInv, StaleInv, WorkerInv, Telling, HeldBack
    <3> QED
      BY <3>2, <3>3
  <2> QED
    BY <2>1, <2>2
<1>9. CASE \E i \in Views : BrowserCrashes(i)
  <2>1. KioskTypeOK'
    BY <1>9 DEF BrowserCrashes, KioskTypeOK, NoUnit, UnitType
  <2>2. ASSUME turn' # "off", NEW i \in Views
        PROVE  ViewInv(i)'
    BY <1>9, <2>2 DEF BrowserCrashes, NoUnit, PlannedInv, StaleInv, WorkerInv, Telling, HeldBack
  <2> QED
    BY <2>1, <2>2
<1>10. CASE \E i \in Views : MinutePasses(i)
  <2>1. KioskTypeOK'
    BY <1>10 DEF MinutePasses, KioskTypeOK, Reported
  <2>2. ASSUME turn' # "off", NEW i \in Views
        PROVE  ViewInv(i)'
    BY <1>10, <2>2 DEF MinutePasses, PlannedInv, StaleInv, WorkerInv, Telling, HeldBack
  <2> QED
    BY <2>1, <2>2
<1>11. CASE Hotplug
  <2>1. KioskTypeOK'
    BY <1>11 DEF Hotplug, KioskTypeOK
  <2>2. ASSUME turn' # "off", NEW i \in Views
        PROVE  ViewInv(i)'
    BY <1>11, <2>2 DEF Hotplug, KioskTypeOK, NoUnit, NoRetry, NoStatus, NoView, Reported,
         PlannedInv, StaleInv, WorkerInv, Telling, HeldBack, Terminal
  <2> QED
    BY <2>1, <2>2
<1>12. CASE CredentialChanges
  <2>1. KioskTypeOK'
    BY <1>12 DEF CredentialChanges, KioskTypeOK
  <2>2. ASSUME turn' # "off", NEW i \in Views
        PROVE  ViewInv(i)'
    BY <1>12, <2>2 DEF CredentialChanges, KioskTypeOK, PlannedInv, StaleInv, WorkerInv, Telling, HeldBack
  <2> QED
    BY <2>1, <2>2
<1>13. CASE FoundryChanges
  <2>1. KioskTypeOK'
    BY <1>13 DEF FoundryChanges, KioskTypeOK
  <2>2. ASSUME turn' # "off", NEW i \in Views
        PROVE  ViewInv(i)'
    BY <1>13, <2>2 DEF FoundryChanges, PlannedInv, StaleInv, WorkerInv, Telling, HeldBack
  <2> QED
    BY <2>1, <2>2
<1>14. CASE KillSession
  <2>1. KioskTypeOK'
    BY <1>14 DEF KillSession, KioskTypeOK, NoUnit, UnitType
  <2>2. ASSUME turn' # "off", NEW i \in Views
        PROVE  ViewInv(i)'
    BY <1>14, <2>2 DEF KillSession
  <2> QED
    BY <2>1, <2>2
<1>16. CASE DrainViews
  <2>1. KioskTypeOK'
    <3>1. \A i \in Views : child[i] # NoView => child[i].rev \in Nat
      BY <1>16 DEF DrainViews, PlannedInv
    <3>2. \A i \in Views : Drained(i) \in [state : Reported, rev : Nat]
      BY <3>1 DEF Drained, KioskTypeOK, Reported
    <3>3. status' \in [Views -> [state : Reported, rev : Nat]]
      BY <1>16, <3>2 DEF DrainViews
    <3> QED
      BY <1>16, <3>3 DEF DrainViews, KioskTypeOK
  <2>2. ASSUME turn' # "off", NEW i \in Views
        PROVE  ViewInv(i)'
    BY <1>16, <2>2 DEF DrainViews, Drained, KioskTypeOK, PlannedInv, StaleInv, WorkerInv, Telling, HeldBack, Terminal
  <2> QED
    BY <2>1, <2>2
<1>17. CASE \E i \in Views : WorkerLeaves(i)
  <2>1. KioskTypeOK'
    BY <1>17 DEF WorkerLeaves, KioskTypeOK, NoUnit, UnitType
  <2>2. ASSUME turn' # "off", NEW i \in Views
        PROVE  ViewInv(i)'
    BY <1>17, <2>2 DEF WorkerLeaves, NoUnit, KioskTypeOK, PlannedInv, StaleInv, WorkerInv, Telling, HeldBack
  <2> QED
    BY <2>1, <2>2
<1>15. CASE UNCHANGED kioskVars
  <2>1. KioskTypeOK'
    BY <1>15 DEF kioskVars, KioskTypeOK
  <2>2. ASSUME turn' # "off", NEW i \in Views
        PROVE  ViewInv(i)'
    BY <1>15, <2>2 DEF kioskVars, PlannedInv, StaleInv, WorkerInv, Telling, HeldBack
  <2> QED
    BY <2>1, <2>2
<1> QED
  BY <1>1, <1>2, <1>3, <1>4, <1>5, <1>6, <1>7, <1>8, <1>9, <1>10, <1>11, <1>12, <1>13, <1>14, <1>15, <1>16, <1>17
     DEF KioskNext, SessionTurn

(* A step of the services is the kiosk's or leaves it alone.                 *)
LEMMA KioskRuns == [ServicesNext]_servicesVars => [KioskNext]_kioskVars
  BY DEF ServicesNext, servicesVars, Others, kioskVars, kioskEnv, kioskLoop

(* The configurations that Services gives to the assignment are of one or    *)
(* two views, on connected outputs.                                          *)
LEMMA ShownIsSound == ASSUME shown \in PlanInputs
                      PROVE  AssignmentSound(shown.views, shown.connected, shown.monitors)
<1>1. shown.connected \subseteq Nat \ {NoOutput}
  BY DEF PlanInputs, PlanConnectors, NoOutput
<1>2. OneOrTwo(shown.views)
  <2>1. shown.views = DefaultViews \/ \E v, w \in PlanViewsSaved : shown.views = <<v, w>>
    BY DEF PlanInputs
  <2>2. Len(DefaultViews) = 1 /\ DOMAIN DefaultViews = 1..1
    BY DEF DefaultViews
  <2>3. \A v, w \in PlanViewsSaved : Len(<<v, w>>) = 2 /\ DOMAIN <<v, w>> = 1..2
    OBVIOUS
  <2> QED
    BY <2>1, <2>2, <2>3 DEF OneOrTwo
<1> QED
  BY <1>1, <1>2, PlanIsSound

(* While the session turns no browser runs that it does not know, none runs  *)
(* with another credential than the one it was started with, and none with a *)
(* credential that was refused (drain_status, next_retry); what is shown     *)
(* where is sound.                                                           *)
THEOREM SpecKioskSound == ServicesSpec => []KioskSound
<1> DEFINE Inv == KioskInv /\ (part = "plan" => shown \in PlanInputs)
<1>1. ServicesInit => Inv
  BY KioskInitInvariant DEF ServicesInit
<1>2. Inv /\ [ServicesNext]_servicesVars => Inv'
  <2> SUFFICES ASSUME Inv, [ServicesNext]_servicesVars
               PROVE  Inv'
    OBVIOUS
  <2>1. KioskInv'
    BY KioskRuns, KioskInvariant
  <2>2. UNCHANGED <<part, shown>>
    BY DEF ServicesNext, servicesVars, Others
  <2> QED
    BY <2>1, <2>2
<1>3. Inv => KioskSound
  <2>1. KioskInv => BrowsersKnown
    BY DEF KioskInv, ViewInv, WorkerInv, Telling, HeldBack, BrowsersKnown, NoUnit
  <2> QED
    BY <2>1, ShownIsSound DEF KioskSound
<1> QED
  BY <1>1, <1>2, <1>3, PTL DEF ServicesSpec

(* The status file never comes to say that a view is ready without a worker  *)
(* of the credential it names: it is written from what the same turn has     *)
(* reaped (browser-session.py:682).                                          *)
THEOREM SpecReadyIsLive == ServicesSpec => ReadyIsLive
<1> DEFINE Live == report' # report =>
                     \A i \in Views : report'[i].state = "ready" =>
                       child[i] # NoView /\ child[i].page = "none" /\ child[i].rev = report'[i].rev
<1>1. ServicesInit => KioskInv
  BY KioskInitInvariant DEF ServicesInit
<1>2. KioskInv /\ [ServicesNext]_servicesVars => KioskInv'
  BY KioskRuns, KioskInvariant
<1>3. KioskInv /\ [ServicesNext]_servicesVars => [Live]_kioskVars
  <2> SUFFICES ASSUME KioskInv, KioskNext, report' # report, NEW i \in Views, report'[i].state = "ready"
               PROVE  child[i] # NoView /\ child[i].page = "none" /\ child[i].rev = report'[i].rev
    BY KioskRuns
  <2>1. report' # NoReport
    BY DEF NoReport, NoStatus
  <2>2. ReportViews
    BY <2>1 DEF KioskNext, SessionTurn, StartSession, SetModes, PlanViews, DrainViews, ReapViews,
         LaunchViews, SessionFails,
                WorkerSays, WorkerLeaves, BrowserCrashes, MinutePasses, Hotplug, CredentialChanges, FoundryChanges, KillSession
  <2>3. report'[i] = status[i] /\ Player(i) /\ turn # "off"
    BY <2>2 DEF ReportViews, NoStatus
  <2> QED
    BY <2>3 DEF KioskInv, ViewInv, WorkerInv, PlannedInv
<1> QED
  BY <1>1, <1>2, <1>3, PTL DEF ServicesSpec, ReadyIsLive
================================================================================
