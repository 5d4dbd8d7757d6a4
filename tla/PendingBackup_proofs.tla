------------------------- MODULE PendingBackup_proofs -------------------------
(***************************************************************************)
(* Proofs about LocalSnapshots and about PendingBackup, which runs on it,  *)
(* for every set of checkpoints, owners and power requests, all clock      *)
(* readings and retention settings, and any number of failures.            *)
(*                                                                         *)
(* The store comes first.  What makes its properties inductive is what the *)
(* holder of the lock knows about the files at each of its steps: which    *)
(* record and which subvolume its own checkpoint has, and that everything  *)
(* it is about to delete was complete and unpinned when it looked, and     *)
(* still is, because nobody changes the store but the holder.              *)
(*                                                                         *)
(* A pending record and every copy a process has made of it are `covered`: *)
(* their checkpoint is pinned, complete and there, or the archive is in    *)
(* the repository.  The pins are safe from the store because retention     *)
(* never touches a pinned checkpoint, and from a process because it        *)
(* releases a pin only after its transfer.                                 *)
(*                                                                         *)
(* That a record says no more and not too little needs the other direction *)
(* as well: which record a process has under its lock, what it found while *)
(* a request had no record yet, and what a request has before it captures. *)
(***************************************************************************)
EXTENDS PendingBackup, WellFoundedInduction, TLAPS

-----------------------------------------------------------------------------
(* The store of LocalSnapshots.                                            *)

CreatingSteps  == {"snapshot", "pin", "record", "record-write", "resume", "select"}
PublishedSteps == {"resume", "finish-old", "select", "mark", "finish", "done"}

(* The operations that reach a step.                                       *)
StepInv ==
  /\ store.step \in CreatingSteps => store.op = "create"
  /\ store.step = "pin-write" => store.op \in {"create", "pin"}

(* The checkpoint the operation makes, or pins.                            *)
HolderInv ==
  /\ store.step \in {"snapshot", "pin", "record"} => meta[store.id] = "none"
  /\ store.step \in {"pin", "record", "record-write"} => store.id \in tree
  /\ store.step = "pin-write" => /\ store.id \in tree
                                 /\ store.op = "create" => meta[store.id] = "none"
                                 /\ store.op = "pin" => meta[store.id] = "complete"
  /\ store.op = "create" /\ store.step \in PublishedSteps =>
       meta[store.id] = "complete" /\ store.id \in tree

(* What retention selected can still be deleted.                           *)
DoomedInv ==
  \A id \in store.doomed :
    meta[id] = "complete" /\ id \notin Pinned /\ id # store.id

IInv ==
  /\ StoreTypeOK
  /\ StepInv
  /\ HolderInv
  /\ DoomedInv
  /\ RecordHasTree
  /\ DeletionNeverBlocked

-----------------------------------------------------------------------------
(* Every set of natural numbers that is not empty has a least element.     *)
LEMMA LeastExists ==
  ASSUME NEW S \in SUBSET Nat, S # {}
  PROVE  \E least \in S : \A n \in S : least <= n
<1>1. PICK least \in S : \A n \in S : ~ (<<n, least>> \in OpToRel(<, Nat))
  BY NatLessThanWellFounded, WFMin
<1>2. \A n \in S : ~ (n < least)
  BY <1>1 DEF OpToRel
<1> QED
  BY <1>2

(* A set of checkpoints that is not empty has an oldest one: retention     *)
(* always deletes a member of what it selected.                            *)
LEMMA OldestIsMember ==
  ASSUME StoreTypeOK, NEW ids \in SUBSET Checkpoints, ids # {}
  PROVE  Oldest(ids) \in ids
<1> DEFINE times == {createdAt[id] : id \in ids}
<1>1. /\ ids \subseteq Nat
      /\ \A id \in ids : createdAt[id] \in Nat
      /\ times \subseteq Nat
      /\ times # {}
  <2>1. ids \subseteq Nat
    BY StoreAssumption
  <2>2. \A id \in ids : createdAt[id] \in Nat
    BY DEF StoreTypeOK
  <2>3. times \subseteq Nat
    BY <2>2
  <2>4. PICK id \in ids : TRUE
    OBVIOUS
  <2>5. createdAt[id] \in times
    BY <2>4
  <2> QED
    BY <2>1, <2>2, <2>3, <2>5
<1>2. PICK earliest \in times : \A t \in times : earliest <= t
  <2> HIDE DEF times
  <2> QED BY <1>1, LeastExists
<1> DEFINE firsts == {id \in ids : createdAt[id] = earliest}
<1>3. firsts \subseteq Nat /\ firsts # {}
  BY <1>1, <1>2
<1>4. PICK id \in firsts : \A other \in firsts : id <= other
  <2> HIDE DEF firsts
  <2> QED BY <1>3, LeastExists
<1>5. \A other \in ids \ {id} : Newer(other, id)
  BY <1>1, <1>2, <1>4 DEF Newer
<1> QED
  BY <1>4, <1>5 DEF Oldest

-----------------------------------------------------------------------------
LEMMA InitInvariant == StoreInit => IInv
BY StoreAssumption
   DEF StoreInit, IInv, StoreTypeOK, StepInv, HolderInv, DoomedInv, RecordHasTree,
       DeletionNeverBlocked, Deleting, Pinned, Idle, None, CreatingSteps, PublishedSteps

-----------------------------------------------------------------------------
(* One step per operation that takes the lock or changes the files at once. *)

LEMMA BeginCreateInvariant ==
  ASSUME IInv, NEW id \in Checkpoints, NEW owner \in Owners \cup {None}, BeginCreate(owner, id)
  PROVE  IInv'
BY DEF IInv, BeginCreate, Fresh, Idle, StoreTypeOK, StepInv, HolderInv, DoomedInv, RecordHasTree,
       DeletionNeverBlocked, Deleting, Pinned, CreatingSteps, PublishedSteps

LEMMA BeginPinInvariant ==
  ASSUME IInv, NEW id \in Checkpoints, NEW owner \in Owners, BeginPin(owner, id)
  PROVE  IInv'
<1> USE DEF BeginPin, Idle
<1>1. StoreTypeOK'
  BY DEF IInv, StoreTypeOK
<1>2. StepInv'
  BY DEF StepInv, CreatingSteps
<1>3. HolderInv' /\ DoomedInv' /\ RecordHasTree'
  BY DEF IInv, HolderInv, DoomedInv, RecordHasTree, PublishedSteps
<1>4. DeletionNeverBlocked'
  BY DEF IInv, StoreTypeOK, DeletionNeverBlocked, Deleting, Pinned
<1> QED
  BY <1>1, <1>2, <1>3, <1>4 DEF IInv

LEMMA UnpinInvariant ==
  ASSUME IInv, NEW id \in Checkpoints, NEW owner \in Owners, Unpin(owner, id)
  PROVE  IInv'
<1> USE DEF Unpin, Idle
<1>1. StoreTypeOK'
  BY DEF IInv, StoreTypeOK
<1>2. StepInv' /\ HolderInv' /\ DoomedInv' /\ RecordHasTree'
  BY DEF IInv, StepInv, HolderInv, DoomedInv, RecordHasTree, CreatingSteps, PublishedSteps
<1>3. DeletionNeverBlocked'
  BY DEF IInv, StoreTypeOK, DeletionNeverBlocked, Deleting, Pinned
<1> QED
  BY <1>1, <1>2, <1>3 DEF IInv

LEMMA UnpinOwnerInvariant ==
  ASSUME IInv, NEW owner \in Owners, UnpinOwner(owner)
  PROVE  IInv'
<1> USE DEF UnpinOwner, Idle
<1>1. StoreTypeOK'
  BY DEF IInv, StoreTypeOK
<1>2. StepInv' /\ HolderInv' /\ DoomedInv' /\ RecordHasTree'
  BY DEF IInv, StepInv, HolderInv, DoomedInv, RecordHasTree, CreatingSteps, PublishedSteps
<1>3. DeletionNeverBlocked'
  BY DEF IInv, StoreTypeOK, DeletionNeverBlocked, Deleting, Pinned
<1> QED
  BY <1>1, <1>2, <1>3 DEF IInv

LEMMA BeginRecoverInvariant ==
  ASSUME IInv, BeginRecover
  PROVE  IInv'
<1> USE DEF BeginRecover, Idle
<1>1. StoreTypeOK'
  BY DEF IInv, StoreTypeOK
<1>2. StepInv' /\ HolderInv' /\ DoomedInv' /\ RecordHasTree' /\ DeletionNeverBlocked'
  BY DEF IInv, StepInv, HolderInv, DoomedInv, RecordHasTree, DeletionNeverBlocked, Deleting,
         Pinned, CreatingSteps, PublishedSteps
<1> QED
  BY <1>1, <1>2 DEF IInv

LEMMA SetRetentionInvariant ==
  ASSUME IInv, SetRetention
  PROVE  IInv'
<1> USE DEF SetRetention, Idle
<1>1. StoreTypeOK'
  BY DEF IInv, StoreTypeOK
<1>2. StepInv' /\ HolderInv' /\ DoomedInv' /\ RecordHasTree' /\ DeletionNeverBlocked'
  BY DEF IInv, StepInv, HolderInv, DoomedInv, RecordHasTree, DeletionNeverBlocked, Deleting,
         Pinned, CreatingSteps, PublishedSteps
<1> QED
  BY <1>1, <1>2 DEF IInv

(* However an operation ends, its checkpoint is nobody's any more.         *)
LEMMA ReleaseInvariant ==
  ASSUME IInv, ReleaseStore
  PROVE  IInv'
BY DEF IInv, ReleaseStore, Idle, None, StoreTypeOK, StepInv, HolderInv, DoomedInv, RecordHasTree,
       DeletionNeverBlocked, Deleting, Pinned, CreatingSteps, PublishedSteps

(* An exception leaves the files as they are.                              *)
LEMMA FailureInvariant ==
  ASSUME IInv, Refuse \/ Raise
  PROVE  IInv'
BY DEF IInv, Refuse, Raise, StoreTypeOK, StepInv, HolderInv, DoomedInv, RecordHasTree,
       DeletionNeverBlocked, Deleting, Pinned, CreatingSteps, PublishedSteps

-----------------------------------------------------------------------------
(* One step per action of the holder of the lock.                           *)

LEMMA TakeSnapshotInvariant ==
  ASSUME IInv, TakeSnapshot
  PROVE  IInv'
<1> USE DEF TakeSnapshot
<1>1. StoreTypeOK'
  BY DEF IInv, StoreTypeOK, StepInv, CreatingSteps
<1>2. StepInv' /\ HolderInv'
  BY DEF IInv, StoreTypeOK, StepInv, HolderInv, CreatingSteps, PublishedSteps
<1>3. DoomedInv' /\ RecordHasTree' /\ DeletionNeverBlocked'
  BY DEF IInv, StoreTypeOK, StepInv, HolderInv, DoomedInv, RecordHasTree, DeletionNeverBlocked,
         Deleting, Pinned, CreatingSteps, PublishedSteps
<1> QED
  BY <1>1, <1>2, <1>3 DEF IInv

LEMMA OpenPinInvariant ==
  ASSUME IInv, OpenPin
  PROVE  IInv'
<1> USE DEF OpenPin
<1>1. StoreTypeOK'
  BY DEF IInv, StoreTypeOK, StepInv, CreatingSteps
<1>2. StepInv' /\ HolderInv'
  BY DEF IInv, StoreTypeOK, StepInv, HolderInv, CreatingSteps, PublishedSteps
<1>3. DoomedInv' /\ RecordHasTree' /\ DeletionNeverBlocked'
  BY DEF IInv, StoreTypeOK, StepInv, HolderInv, DoomedInv, RecordHasTree, DeletionNeverBlocked,
         Deleting, Pinned, CreatingSteps, PublishedSteps
<1> QED
  BY <1>1, <1>2, <1>3 DEF IInv

LEMMA WritePinInvariant ==
  ASSUME IInv, WritePin
  PROVE  IInv'
<1> USE DEF WritePin
<1>1. StoreTypeOK'
  BY DEF IInv, StoreTypeOK, StepInv, CreatingSteps
<1>2. StepInv' /\ HolderInv'
  BY DEF IInv, StoreTypeOK, StepInv, HolderInv, CreatingSteps, PublishedSteps
<1>3. DoomedInv' /\ RecordHasTree' /\ DeletionNeverBlocked'
  BY DEF IInv, StoreTypeOK, StepInv, HolderInv, DoomedInv, RecordHasTree, DeletionNeverBlocked,
         Deleting, Pinned, CreatingSteps, PublishedSteps
<1> QED
  BY <1>1, <1>2, <1>3 DEF IInv

LEMMA OpenRecordInvariant ==
  ASSUME IInv, OpenRecord
  PROVE  IInv'
<1> USE DEF OpenRecord
<1>1. StoreTypeOK'
  BY DEF IInv, StoreTypeOK, StepInv, CreatingSteps
<1>2. StepInv' /\ HolderInv'
  BY DEF IInv, StoreTypeOK, StepInv, HolderInv, CreatingSteps, PublishedSteps
<1>3. DoomedInv' /\ RecordHasTree' /\ DeletionNeverBlocked'
  BY DEF IInv, StoreTypeOK, StepInv, HolderInv, DoomedInv, RecordHasTree, DeletionNeverBlocked,
         Deleting, Pinned, CreatingSteps, PublishedSteps
<1> QED
  BY <1>1, <1>2, <1>3 DEF IInv

LEMMA WriteRecordInvariant ==
  ASSUME IInv, WriteRecord
  PROVE  IInv'
<1> USE DEF WriteRecord
<1>1. StoreTypeOK'
  BY StoreAssumption DEF IInv, StoreTypeOK, StepInv, CreatingSteps
<1>2. StepInv' /\ HolderInv'
  BY DEF IInv, StoreTypeOK, StepInv, HolderInv, CreatingSteps, PublishedSteps
<1>3. DoomedInv' /\ RecordHasTree' /\ DeletionNeverBlocked'
  BY DEF IInv, StoreTypeOK, StepInv, HolderInv, DoomedInv, RecordHasTree, DeletionNeverBlocked,
         Deleting, Pinned, CreatingSteps, PublishedSteps
<1> QED
  BY <1>1, <1>2, <1>3 DEF IInv

LEMMA ResumeInvariant ==
  ASSUME IInv, Resume
  PROVE  IInv'
<1> USE DEF Resume
<1>1. StoreTypeOK'
  BY DEF IInv, StoreTypeOK, StepInv, CreatingSteps
<1>2. StepInv' /\ HolderInv'
  BY DEF IInv, StoreTypeOK, StepInv, HolderInv, CreatingSteps, PublishedSteps
<1>3. DoomedInv' /\ RecordHasTree' /\ DeletionNeverBlocked'
  BY DEF IInv, StoreTypeOK, StepInv, HolderInv, DoomedInv, RecordHasTree, DeletionNeverBlocked,
         Deleting, Pinned, CreatingSteps, PublishedSteps
<1> QED
  BY <1>1, <1>2, <1>3 DEF IInv


LEMMA DeleteTreeInvariant ==
  ASSUME IInv, DeleteTree
  PROVE  IInv'
<1> USE DEF DeleteTree, Finishing
<1>1. StoreTypeOK'
  BY DEF IInv, StoreTypeOK
<1>2. StepInv' /\ HolderInv'
  BY DEF IInv, StepInv, HolderInv, Deleting, CreatingSteps, PublishedSteps
<1>3. DoomedInv' /\ RecordHasTree' /\ DeletionNeverBlocked'
  BY DEF IInv, DoomedInv, RecordHasTree, DeletionNeverBlocked, Deleting, Pinned
<1> QED
  BY <1>1, <1>2, <1>3 DEF IInv

LEMMA ClearIntentInvariant ==
  ASSUME IInv, ClearIntent
  PROVE  IInv'
<1>1. PICK id \in Deleting \ tree : /\ meta' = [meta EXCEPT ![id] = "none"]
                                    /\ createdAt' = [createdAt EXCEPT ![id] = 0]
  BY DEF ClearIntent
<1>2. /\ UNCHANGED <<tree, pin, keep, store>>
      /\ store.step \in {"finish-old", "finish"}
      /\ id \in Checkpoints /\ meta[id] = "deleting"
  BY DEF ClearIntent, Finishing, Deleting
<1>3. StoreTypeOK'
  <2>1. /\ meta' \in [Checkpoints -> {"none", "torn", "complete", "deleting"}]
        /\ createdAt' \in [Checkpoints -> Nat]
    BY <1>1, <1>2 DEF IInv, StoreTypeOK
  <2> QED
    BY <2>1, <1>2 DEF IInv, StoreTypeOK
<1>4. StepInv' /\ HolderInv'
  BY <1>1, <1>2 DEF IInv, StoreTypeOK, StepInv, HolderInv, CreatingSteps, PublishedSteps
<1>5. DoomedInv' /\ RecordHasTree' /\ DeletionNeverBlocked'
  BY <1>1, <1>2 DEF IInv, StoreTypeOK, DoomedInv, RecordHasTree, DeletionNeverBlocked, Deleting,
       Pinned
<1> QED
  BY <1>3, <1>4, <1>5 DEF IInv

(* Only now may something be selected, and nothing selected was touched.    *)
LEMMA DeletionsFinishedInvariant ==
  ASSUME IInv, DeletionsFinished
  PROVE  IInv'
<1> USE DEF DeletionsFinished, Finishing
<1>1. StoreTypeOK'
  BY SMTT(60) DEF IInv, StoreTypeOK
<1>2. StepInv' /\ HolderInv'
  BY DEF IInv, StoreTypeOK, StepInv, HolderInv, CreatingSteps, PublishedSteps
<1>3. DoomedInv' /\ RecordHasTree' /\ DeletionNeverBlocked'
  BY DEF IInv, StoreTypeOK, DoomedInv, RecordHasTree, DeletionNeverBlocked, Deleting, Pinned
<1> QED
  BY <1>1, <1>2, <1>3 DEF IInv

(* A candidate is complete, has no pin and is not the new checkpoint.       *)
LEMMA SelectCandidatesInvariant ==
  ASSUME IInv, SelectCandidates
  PROVE  IInv'
<1> DEFINE candidates == RetentionCandidates(Protected)
<1>1. candidates \subseteq Complete \ Protected
  BY DEF RetentionCandidates
<1>2. /\ store' = [store EXCEPT !.doomed = candidates,
                                !.step = IF candidates = {} THEN "done" ELSE "mark"]
      /\ store.step = "select"
      /\ UNCHANGED <<meta, createdAt, tree, pin, keep>>
  BY DEF SelectCandidates
<1> HIDE DEF candidates
<1>3. StoreTypeOK'
  BY <1>1, <1>2 DEF IInv, StoreTypeOK, Complete
<1>4. StepInv' /\ HolderInv'
  BY <1>2 DEF IInv, StoreTypeOK, StepInv, HolderInv, CreatingSteps, PublishedSteps
<1>5. DoomedInv'
  BY <1>1, <1>2 DEF IInv, StoreTypeOK, Complete, Protected, Pinned, DoomedInv
<1>6. RecordHasTree' /\ DeletionNeverBlocked'
  BY <1>2 DEF IInv, RecordHasTree, DeletionNeverBlocked, Deleting, Pinned
<1> QED
  BY <1>3, <1>4, <1>5, <1>6 DEF IInv

LEMMA MarkDeletingInvariant ==
  ASSUME IInv, MarkDeleting
  PROVE  IInv'
<1> DEFINE oldest == Oldest(store.doomed)
<1>1. oldest \in store.doomed /\ store.doomed \subseteq Checkpoints
  BY OldestIsMember DEF IInv, StoreTypeOK, MarkDeleting
<1>2. /\ store.step = "mark"
      /\ meta' = [meta EXCEPT ![oldest] = "deleting"]
      /\ store' = [store EXCEPT !.doomed = @ \ {oldest}, !.step = "finish"]
      /\ UNCHANGED <<createdAt, tree, pin, keep>>
  BY DEF MarkDeleting
<1> HIDE DEF oldest
<1>3. StoreTypeOK'
  BY <1>1, <1>2 DEF IInv, StoreTypeOK
<1>4. StepInv' /\ HolderInv'
  BY <1>1, <1>2 DEF IInv, StoreTypeOK, StepInv, HolderInv, DoomedInv, CreatingSteps, PublishedSteps
<1>5. DoomedInv'
  BY <1>1, <1>2 DEF IInv, StoreTypeOK, DoomedInv, Pinned
<1>6. RecordHasTree' /\ DeletionNeverBlocked'
  BY <1>1, <1>2 DEF IInv, StoreTypeOK, DoomedInv, RecordHasTree, DeletionNeverBlocked, Deleting,
       Pinned
<1> QED
  BY <1>3, <1>4, <1>5, <1>6 DEF IInv

-----------------------------------------------------------------------------
LEMMA NextInvariant ==
  ASSUME IInv, [StoreNext]_storeVars
  PROVE  IInv'
<1>1. CASE \E id \in Checkpoints, owner \in Owners \cup {None} : BeginCreate(owner, id)
  BY <1>1, BeginCreateInvariant
<1>2. CASE \E id \in Checkpoints, owner \in Owners : BeginPin(owner, id) \/ Unpin(owner, id)
  BY <1>2, BeginPinInvariant, UnpinInvariant
<1>3. CASE \E owner \in Owners : UnpinOwner(owner)
  BY <1>3, UnpinOwnerInvariant
<1>4. CASE StoreStep
  BY <1>4, TakeSnapshotInvariant, OpenPinInvariant, WritePinInvariant, OpenRecordInvariant,
     WriteRecordInvariant, ResumeInvariant, DeleteTreeInvariant, ClearIntentInvariant,
     DeletionsFinishedInvariant, SelectCandidatesInvariant, MarkDeletingInvariant, FailureInvariant
     DEF StoreStep
<1>5. CASE BeginRecover \/ SetRetention \/ Raise
  BY <1>5, BeginRecoverInvariant, SetRetentionInvariant, FailureInvariant
<1>6. CASE Return \/ KillStore
  BY <1>6, ReleaseInvariant DEF Return, KillStore
<1>7. CASE UNCHANGED storeVars
  BY <1>7 DEF storeVars, IInv, StoreTypeOK, StepInv, HolderInv, DoomedInv, RecordHasTree,
              DeletionNeverBlocked, Deleting, Pinned
<1> QED
  BY <1>1, <1>2, <1>3, <1>4, <1>5, <1>6, <1>7 DEF StoreNext

LEMMA SpecInvariant == StoreSpec => []IInv
<1>1. IInv /\ [StoreNext]_storeVars => IInv'
  BY NextInvariant
<1> QED
  BY <1>1, InitInvariant, PTL DEF StoreSpec

(* No record is ever without its subvolume, whatever interrupts the        *)
(* creation or the deletion of a checkpoint.                               *)
THEOREM SpecRecordHasTree == StoreSpec => []RecordHasTree
BY SpecInvariant, PTL DEF IInv

(* No deletion ever meets a pin, so retention never blocks itself.         *)
THEOREM SpecDeletionNeverBlocked == StoreSpec => []DeletionNeverBlocked
BY SpecInvariant, PTL DEF IInv

(* What the records and the pins stand for is there, so that no operation  *)
(* of the store is refused because of what an earlier one left behind.     *)
THEOREM SpecStoreSound == StoreSpec => []StoreSound
BY SpecRecordHasTree, SpecDeletionNeverBlocked, PTL DEF StoreSound

(* The checkpoint an operation reports is there, whatever the clock says   *)
(* and however few checkpoints are kept.                                   *)
THEOREM SpecCreatedCheckpointSurvives == StoreSpec => []CreatedCheckpointSurvives
<1>1. IInv => CreatedCheckpointSurvives
  BY DEF IInv, HolderInv, CreatedCheckpointSurvives, PublishedSteps
<1> QED
  BY <1>1, SpecInvariant, PTL

-----------------------------------------------------------------------------
(* The pending records of PendingBackup.                                   *)

Records == [state : {"none", "checkpoint-ready", "pending-upload", "uploaded", "completed"},
            checkpoint : Checkpoints \cup {None}, createdAt : Nat]

Steps == {"new", "capturing", "queue", "recover-pins", "rewrite", "lock", "match", "archive",
          "archived", "transfer", "transferred", "unpin", "complete", "unlink", "ended"}

OwnedSteps   == {"queue", "lock", "match", "archive", "archived", "transfer", "transferred",
                 "unpin", "complete", "unlink"}
ReadSteps    == {"match", "archive", "archived", "transfer", "transferred", "unpin"}
RemoteSteps  == {"transferred", "unpin", "complete", "unlink"}
PinnedSteps  == {"record", "record-write", "resume", "finish-old", "select", "mark", "finish", "done"}

WorkTypeOK ==
  /\ rec \in [PowerOwners -> Records]
  /\ archive \subseteq PowerOwners
  /\ remote \subseteq PowerOwners
  /\ overwritten \subseteq PowerOwners
  /\ proc \in [Procs -> [step : Steps, owner : PowerOwners \cup {None}, record : Records,
                         lost : SUBSET (Checkpoints \X PowerOwners)]]
  /\ faults \in 0..MaxFaults

(* A power request holds the store only to create its checkpoint, and the  *)
(* pin it wrote stays until it has returned.                               *)
CaptureInv ==
  /\ store.owner \in PowerOwners => store.op = "create"
  /\ store.op = "create" /\ store.owner # None /\ store.step \in PinnedSteps =>
       pin[store.id][store.owner] = "whole"

(* Which steps have a record in hand, and what it says.                    *)
StepsInv ==
  \A p \in Procs :
    /\ proc[p].step \in OwnedSteps => proc[p].owner # None
    /\ proc[p].record.state # "none" => proc[p].owner # None
    /\ proc[p].step \in {"new", "capturing"} => proc[p].owner = None
    /\ proc[p].step \in {"new", "queue"} => p # BootRetry
    /\ proc[p].step = "queue" => proc[p].record.state = "checkpoint-ready"
    /\ proc[p].owner # None /\ proc[p].step # "queue" => rec[proc[p].owner].state # "none"
    /\ proc[p].step \in ReadSteps =>
         proc[p].record.state \in {"checkpoint-ready", "pending-upload", "uploaded"}
    /\ proc[p].step \in RemoteSteps => proc[p].owner \in remote

Kept(o, id) ==
  o \notin remote => /\ id \in Checkpoints
                     /\ pin[id][o] = "whole"
                     /\ meta[id] = "complete"
                     /\ id \in tree

Covered(o, record) ==
  /\ record.state # "none" => Kept(o, record.checkpoint)
  /\ record.state \in {"uploaded", "completed"} => o \in remote

RecordsCovered == \A o \in PowerOwners : Covered(o, rec[o])

CopiesCovered ==
  \A p \in Procs :
    /\ proc[p].owner # None => Covered(proc[p].owner, proc[p].record)
    /\ \A pair \in proc[p].lost : Kept(pair[2], pair[1])

PendingInv ==
  /\ IInv
  /\ WorkTypeOK
  /\ CaptureInv
  /\ StepsInv
  /\ RecordsCovered
  /\ CopiesCovered

-----------------------------------------------------------------------------
(* The boot retry and an operator are no power request.                    *)
LEMMA Identities ==
  /\ PowerOwners \subseteq Owners
  /\ None \notin Owners
  /\ BootRetry \notin PowerOwners
  /\ Others \cap PowerOwners = {}
BY StoreAssumption, PendingAssumption DEF None, BootRetry

LEMMA PendingInitInvariant == PendingInit => PendingInv
<1> SUFFICES ASSUME PendingInit PROVE PendingInv
  OBVIOUS
<1>1. IInv
  BY InitInvariant DEF PendingInit
<1>2. WorkTypeOK
  BY PendingAssumption DEF PendingInit, WorkTypeOK, Ended, NoRecord, Records, Steps
<1>3. CaptureInv
  BY Identities DEF PendingInit, StoreInit, Idle, CaptureInv
<1>4. StepsInv
  BY DEF PendingInit, Ended, NoRecord, StepsInv, OwnedSteps, ReadSteps, RemoteSteps
<1>5. RecordsCovered /\ CopiesCovered
  BY DEF PendingInit, Ended, NoRecord, RecordsCovered, CopiesCovered, Covered, Kept
<1> QED
  BY <1>1, <1>2, <1>3, <1>4, <1>5 DEF PendingInv

(* A record that is queued can be picked: there is an oldest one.          *)
LEMMA OldestQueuedIsQueued ==
  ASSUME WorkTypeOK, Queued # {}
  PROVE  OldestQueued \in Queued
<1> DEFINE times == {rec[o].createdAt : o \in Queued}
<1>1. /\ Queued \subseteq Nat
      /\ \A o \in Queued : rec[o].createdAt \in Nat
  BY StoreAssumption, PendingAssumption DEF WorkTypeOK, Queued, Records
<1>2. times \subseteq Nat /\ times # {}
  <2>1. PICK o \in Queued : TRUE
    OBVIOUS
  <2>2. rec[o].createdAt \in times
    BY <2>1
  <2> QED
    BY <1>1, <2>2
<1>3. PICK earliest \in times : \A t \in times : earliest <= t
  <2> HIDE DEF times
  <2> QED BY <1>2, LeastExists
<1> DEFINE firsts == {o \in Queued : rec[o].createdAt = earliest}
<1>4. firsts \subseteq Nat /\ firsts # {}
  BY <1>1, <1>3
<1>5. PICK o \in firsts : \A other \in firsts : o <= other
  <2> HIDE DEF firsts
  <2> QED BY <1>4, LeastExists
<1>6. \A other \in Queued \ {o} :
        \/ rec[o].createdAt < rec[other].createdAt
        \/ rec[o].createdAt = rec[other].createdAt /\ o < other
  BY <1>1, <1>3, <1>5
<1> QED
  BY <1>5, <1>6 DEF OldestQueued

-----------------------------------------------------------------------------
(* Steps of a process that leave the store alone                           *)

LEMMA StoreUnchanged ==
  ASSUME IInv, CaptureInv, UNCHANGED storeVars
  PROVE  IInv' /\ CaptureInv'
<1>1. IInv'
  BY NextInvariant
<1>2. CaptureInv'
  BY DEF CaptureInv, storeVars
<1> QED
  BY <1>1, <1>2

(* A process's work with its step and one more field replaced, written out. *)
LEMMA RecordReplaced ==
  ASSUME WorkTypeOK, NEW p \in Procs, NEW step \in Steps,
         NEW record \in Records
  PROVE  [proc[p] EXCEPT !.step = step, !.record = record] =
         [step |-> step, owner |-> proc[p].owner, record |-> record, lost |-> proc[p].lost]
<1> DEFINE Work == [step : Steps, owner : PowerOwners \cup {None}, record : Records,
                    lost : SUBSET (Checkpoints \X PowerOwners)]
           work == [proc[p] EXCEPT !.step = step, !.record = record]
<1>1. proc[p] \in Work
  BY DEF WorkTypeOK
<1>2. /\ work \in Work
      /\ work.step = step
      /\ work.owner = proc[p].owner
      /\ work.record = record
      /\ work.lost = proc[p].lost
  BY <1>1
<1> HIDE DEF work
<1>3. work = [step |-> step, owner |-> proc[p].owner, record |-> record, lost |-> proc[p].lost]
  BY <1>2
<1> QED
  BY <1>3 DEF work

LEMMA LostReplaced ==
  ASSUME WorkTypeOK, NEW p \in Procs, NEW step \in Steps,
         NEW lost \in SUBSET (Checkpoints \X PowerOwners)
  PROVE  [proc[p] EXCEPT !.step = step, !.lost = lost] =
         [step |-> step, owner |-> proc[p].owner, record |-> proc[p].record, lost |-> lost]
<1> DEFINE Work == [step : Steps, owner : PowerOwners \cup {None}, record : Records,
                    lost : SUBSET (Checkpoints \X PowerOwners)]
           work == [proc[p] EXCEPT !.step = step, !.lost = lost]
<1>1. proc[p] \in Work
  BY DEF WorkTypeOK
<1>2. /\ work \in Work
      /\ work.step = step
      /\ work.owner = proc[p].owner
      /\ work.record = proc[p].record
      /\ work.lost = lost
  BY <1>1
<1> HIDE DEF work
<1>3. work = [step |-> step, owner |-> proc[p].owner, record |-> proc[p].record, lost |-> lost]
  BY <1>2
<1> QED
  BY <1>3 DEF work

LEMMA OwnerReplaced ==
  ASSUME WorkTypeOK, NEW p \in Procs, NEW step \in Steps,
         NEW owner \in PowerOwners \cup {None}
  PROVE  [proc[p] EXCEPT !.step = step, !.owner = owner] =
         [step |-> step, owner |-> owner, record |-> proc[p].record, lost |-> proc[p].lost]
<1> DEFINE Work == [step : Steps, owner : PowerOwners \cup {None}, record : Records,
                    lost : SUBSET (Checkpoints \X PowerOwners)]
           work == [proc[p] EXCEPT !.step = step, !.owner = owner]
<1>1. proc[p] \in Work
  BY DEF WorkTypeOK
<1>2. /\ work \in Work
      /\ work.step = step
      /\ work.owner = owner
      /\ work.record = proc[p].record
      /\ work.lost = proc[p].lost
  BY <1>1
<1> HIDE DEF work
<1>3. work = [step |-> step, owner |-> owner, record |-> proc[p].record, lost |-> proc[p].lost]
  BY <1>2
<1> QED
  BY <1>3 DEF work

LEMMA LockInvariant ==
  ASSUME PendingInv, NEW p \in Procs, Lock(p)
  PROVE  PendingInv'
<1> DEFINE o == proc[p].owner
<1>1. /\ proc[p].step = "lock"
      /\ UNCHANGED <<storeVars, rec, archive, remote, overwritten, faults>>
  BY DEF Lock
<1>2. IInv' /\ CaptureInv'
  BY <1>1, StoreUnchanged DEF PendingInv
<1>3. RecordsCovered'
  BY <1>1 DEF PendingInv, RecordsCovered, Covered, Kept, storeVars
<1>4. CASE proc' = [proc EXCEPT ![p] = Ended]
  <2>1. WorkTypeOK'
    BY <1>1, <1>4 DEF PendingInv, WorkTypeOK, Records, Steps, Ended, NoRecord
  <2>2. StepsInv'
    BY <1>1, <1>4 DEF PendingInv, WorkTypeOK, StepsInv, Ended, NoRecord, OwnedSteps, ReadSteps,
         RemoteSteps
  <2>3. CopiesCovered'
    BY <1>1, <1>4 DEF PendingInv, WorkTypeOK, CopiesCovered, Covered, Kept, Ended, storeVars
  <2> QED
    BY <1>2, <1>3, <2>1, <2>2, <2>3 DEF PendingInv
<1>5. CASE /\ rec[o].state # "completed"
           /\ proc' = [proc EXCEPT ![p] = [@ EXCEPT !.step = "match", !.record = rec[o]]]
  <2>1. /\ o \in PowerOwners /\ o # None
        /\ rec[o] \in Records /\ Covered(o, rec[o])
        /\ rec[o].state \in {"checkpoint-ready", "pending-upload", "uploaded"}
    BY <1>1, <1>5 DEF PendingInv, WorkTypeOK, StepsInv, OwnedSteps, RecordsCovered, Records
  <2>2. proc' = [proc EXCEPT ![p] = [step |-> "match", owner |-> o, record |-> rec[o],
                                     lost |-> proc[p].lost]]
    <3>1. [proc[p] EXCEPT !.step = "match", !.record = rec[o]] =
          [step |-> "match", owner |-> o, record |-> rec[o], lost |-> proc[p].lost]
      <4>1. WorkTypeOK /\ "match" \in Steps
        BY DEF PendingInv, Steps
      <4> QED
        BY ZenonT(60), <2>1, <4>1, RecordReplaced
    <3> QED
      BY <1>5, <3>1, Zenon
  <2>3. WorkTypeOK'
    BY <1>1, <2>1, <2>2 DEF PendingInv, WorkTypeOK, Steps
  <2>4. StepsInv'
    BY <1>1, <2>1, <2>2 DEF PendingInv, WorkTypeOK, StepsInv, OwnedSteps, ReadSteps, RemoteSteps
  <2>5. CopiesCovered'
    BY <1>1, <2>1, <2>2 DEF PendingInv, WorkTypeOK, CopiesCovered, Covered, Kept, storeVars
  <2> QED
    BY <1>2, <1>3, <2>3, <2>4, <2>5 DEF PendingInv
<1> QED
  BY <1>4, <1>5 DEF Lock, End

LEMMA MatchInvariant ==
  ASSUME PendingInv, NEW p \in Procs, Match(p)
  PROVE  PendingInv'
<1> USE DEF Match, GoTo, End
<1>1. IInv' /\ CaptureInv'
  BY StoreUnchanged DEF PendingInv
<1>2. WorkTypeOK'
  BY SMTT(60) DEF PendingInv, WorkTypeOK, Records, Steps, Ended, NoRecord
<1>3. StepsInv'
  <2>1. CASE proc' = [proc EXCEPT ![p] = Ended]
    BY <2>1 DEF PendingInv, StepsInv, Ended, NoRecord, OwnedSteps, ReadSteps, RemoteSteps
  <2>2. CASE \E next \in {"archive", "transfer", "unpin", "complete"} :
               /\ proc' = [proc EXCEPT ![p].step = next]
               /\ next \in {"unpin", "complete"} => proc[p].record.state = "uploaded"
    <3>1. proc[p].record.state = "uploaded" => proc[p].owner \in remote
      BY DEF PendingInv, StepsInv, CopiesCovered, Covered
    <3> QED
      BY <2>2, <3>1 DEF PendingInv, StepsInv, ReadSteps, RemoteSteps
  <2> QED
    BY <2>1, <2>2 DEF PendingInv, StepsInv, ReadSteps
<1>4. RecordsCovered'
  BY DEF PendingInv, RecordsCovered, Covered, Kept, storeVars
<1>5. CopiesCovered'
  <2>1. CASE proc' = [proc EXCEPT ![p] = Ended]
    BY <2>1 DEF PendingInv, CopiesCovered, Covered, Kept, Ended, storeVars
  <2>2. CASE \E next \in Steps : proc' = [proc EXCEPT ![p].step = next]
    BY <2>2 DEF PendingInv, CopiesCovered, Covered, Kept, storeVars
  <2> QED
    BY <2>1, <2>2 DEF Steps
<1> QED
  BY <1>1, <1>2, <1>3, <1>4, <1>5 DEF PendingInv

LEMMA ArchiveInvariant ==
  ASSUME PendingInv, NEW p \in Procs, Archive(p)
  PROVE  PendingInv'
<1> USE DEF Archive, GoTo
<1>1. IInv' /\ CaptureInv'
  BY StoreUnchanged DEF PendingInv
<1>2. WorkTypeOK'
  BY DEF PendingInv, WorkTypeOK, StepsInv, OwnedSteps, Steps
<1>3. StepsInv'
  BY DEF PendingInv, StepsInv, ReadSteps, RemoteSteps
<1>4. RecordsCovered'
  BY DEF PendingInv, RecordsCovered, Covered, Kept, storeVars
<1>5. CopiesCovered'
  BY DEF PendingInv, CopiesCovered, Covered, Kept, storeVars
<1> QED
  BY <1>1, <1>2, <1>3, <1>4, <1>5 DEF PendingInv

(* What a process writes is what it keeps, and it is covered.               *)
LEMMA AdvanceInvariant ==
  ASSUME PendingInv, NEW p \in Procs, NEW step \in {"transfer", "unpin"},
         NEW state \in {"pending-upload", "uploaded"},
         proc[p].step \in {"archived", "transferred"},
         step = "unpin" \/ state = "uploaded" => proc[p].owner \in remote,
         Advance(p, step, state),
         UNCHANGED <<storeVars, archive, remote, overwritten, faults>>
  PROVE  PendingInv'
<1> DEFINE o == proc[p].owner
           record == [proc[p].record EXCEPT !.state = state]
<1>1. /\ o \in PowerOwners /\ o # None
      /\ proc[p].record \in Records
      /\ proc[p].record.state # "none"
      /\ Kept(o, proc[p].record.checkpoint)
  BY DEF PendingInv, WorkTypeOK, StepsInv, OwnedSteps, ReadSteps, CopiesCovered, Covered
<1>2. /\ record \in Records /\ record.state = state
      /\ record.checkpoint = proc[p].record.checkpoint
  BY <1>1 DEF Records
<1>3. /\ rec' = [rec EXCEPT ![o] = record]
      /\ proc' = [proc EXCEPT ![p] = [step |-> step, owner |-> o, record |-> record,
                                      lost |-> proc[p].lost]]
  <2>1. [proc[p] EXCEPT !.step = step, !.record = record] =
        [step |-> step, owner |-> o, record |-> record, lost |-> proc[p].lost]
    <3>1. WorkTypeOK /\ step \in Steps
      BY DEF PendingInv, Steps
    <3> HIDE DEF record
    <3> QED
      BY <1>2, <3>1, RecordReplaced, Zenon
  <2>2. rec' = [rec EXCEPT ![o] = record]
    BY DEF Advance
  <2>3. proc' = [proc EXCEPT ![p] = [@ EXCEPT !.step = step, !.record = record]]
    BY DEF Advance
  <2> HIDE DEF record
  <2> QED
    BY <2>1, <2>2, <2>3, Zenon
<1> HIDE DEF record
<1>4. IInv' /\ CaptureInv'
  BY StoreUnchanged DEF PendingInv
<1>5. WorkTypeOK'
  BY <1>1, <1>2, <1>3 DEF PendingInv, WorkTypeOK, Steps
<1>6. StepsInv'
  BY <1>1, <1>2, <1>3 DEF PendingInv, WorkTypeOK, StepsInv, OwnedSteps, ReadSteps, RemoteSteps
<1>7. RecordsCovered'
  BY <1>1, <1>2, <1>3 DEF PendingInv, WorkTypeOK, RecordsCovered, Covered, Kept, storeVars
<1>8. CopiesCovered'
  BY <1>1, <1>2, <1>3 DEF PendingInv, WorkTypeOK, CopiesCovered, Covered, Kept, storeVars
<1> QED
  BY <1>4, <1>5, <1>6, <1>7, <1>8 DEF PendingInv

LEMMA MarkArchivedInvariant ==
  ASSUME PendingInv, NEW p \in Procs, MarkArchived(p)
  PROVE  PendingInv'
BY AdvanceInvariant DEF MarkArchived

LEMMA TransferInvariant ==
  ASSUME PendingInv, NEW p \in Procs, Transfer(p)
  PROVE  PendingInv'
<1> USE DEF Transfer, GoTo
<1>1. IInv' /\ CaptureInv'
  BY StoreUnchanged DEF PendingInv
<1>2. WorkTypeOK'
  BY DEF PendingInv, WorkTypeOK, Steps
<1>3. StepsInv'
  BY DEF PendingInv, StepsInv, ReadSteps
<1>4. RecordsCovered'
  BY DEF PendingInv, RecordsCovered, Covered, Kept, storeVars
<1>5. CopiesCovered'
  BY DEF PendingInv, CopiesCovered, Covered, Kept, storeVars
<1> QED
  BY <1>1, <1>2, <1>3, <1>4, <1>5 DEF PendingInv

LEMMA MarkUploadedInvariant ==
  ASSUME PendingInv, NEW p \in Procs, MarkUploaded(p)
  PROVE  PendingInv'
<1>1. proc[p].owner \in remote
  BY DEF MarkUploaded, PendingInv, StepsInv, RemoteSteps
<1> QED
  BY <1>1, AdvanceInvariant DEF MarkUploaded

LEMMA ReleaseRefusedInvariant ==
  ASSUME PendingInv, NEW p \in Procs, ReleaseRefused(p)
  PROVE  PendingInv'
<1> USE DEF ReleaseRefused, End
<1>1. IInv' /\ CaptureInv'
  BY StoreUnchanged DEF PendingInv
<1>2. WorkTypeOK'
  BY DEF PendingInv, WorkTypeOK, Records, Steps, Ended, NoRecord
<1>3. StepsInv'
  BY DEF PendingInv, StepsInv, Ended, NoRecord, OwnedSteps, ReadSteps, RemoteSteps
<1>4. RecordsCovered'
  BY DEF PendingInv, RecordsCovered, Covered, Kept, storeVars
<1>5. CopiesCovered'
  BY DEF PendingInv, CopiesCovered, Covered, Kept, Ended, storeVars
<1> QED
  BY <1>1, <1>2, <1>3, <1>4, <1>5 DEF PendingInv

LEMMA MarkCompletedInvariant ==
  ASSUME PendingInv, NEW p \in Procs, MarkCompleted(p)
  PROVE  PendingInv'
<1> USE DEF MarkCompleted, WriteRecordAs, GoTo
<1>1. IInv' /\ CaptureInv'
  BY StoreUnchanged DEF PendingInv
<1>2. WorkTypeOK'
  <2>1. proc[p].owner \in PowerOwners
    BY DEF PendingInv, WorkTypeOK, StepsInv, OwnedSteps
  <2>2. [proc[p].record EXCEPT !.state = "completed"] \in Records
    BY SMTT(60) DEF PendingInv, WorkTypeOK, Records
  <2>3. rec' \in [PowerOwners -> Records]
    BY <2>1, <2>2 DEF PendingInv, WorkTypeOK
  <2> QED
    BY <2>3 DEF PendingInv, WorkTypeOK, Steps
<1>3. StepsInv'
  BY DEF PendingInv, StepsInv, OwnedSteps, ReadSteps, RemoteSteps
<1>4. RecordsCovered'
  BY DEF PendingInv, StepsInv, RecordsCovered, Covered, Kept, RemoteSteps, storeVars
<1>5. CopiesCovered'
  BY DEF PendingInv, CopiesCovered, Covered, Kept, storeVars
<1> QED
  BY <1>1, <1>2, <1>3, <1>4, <1>5 DEF PendingInv

LEMMA UnlinkArchiveInvariant ==
  ASSUME PendingInv, NEW p \in Procs, UnlinkArchive(p)
  PROVE  PendingInv'
<1> USE DEF UnlinkArchive, End
<1>1. IInv' /\ CaptureInv'
  BY StoreUnchanged DEF PendingInv
<1>2. WorkTypeOK'
  BY DEF PendingInv, WorkTypeOK, Records, Steps, Ended, NoRecord
<1>3. StepsInv'
  BY DEF PendingInv, StepsInv, Ended, NoRecord, OwnedSteps, ReadSteps, RemoteSteps
<1>4. RecordsCovered'
  BY DEF PendingInv, RecordsCovered, Covered, Kept, storeVars
<1>5. CopiesCovered'
  BY DEF PendingInv, CopiesCovered, Covered, Kept, Ended, storeVars
<1> QED
  BY <1>1, <1>2, <1>3, <1>4, <1>5 DEF PendingInv

LEMMA RecordFailureInvariant ==
  ASSUME PendingInv, NEW p \in Procs, RecordFailure(p)
  PROVE  PendingInv'
<1> USE DEF RecordFailure, WriteRecordAs, End, Attempting
<1>1. IInv' /\ CaptureInv'
  BY StoreUnchanged DEF PendingInv
<1>2. WorkTypeOK'
  BY PendingAssumption DEF PendingInv, WorkTypeOK, StepsInv, OwnedSteps, Records, Steps, Ended,
         NoRecord
<1>3. StepsInv'
  BY PendingAssumption DEF PendingInv, StepsInv, Ended, NoRecord, OwnedSteps, ReadSteps,
         RemoteSteps
<1>4. RecordsCovered'
  BY PendingAssumption DEF PendingInv, StepsInv, RecordsCovered, CopiesCovered, Covered, Kept,
         storeVars
<1>5. CopiesCovered'
  BY PendingAssumption DEF PendingInv, CopiesCovered, Covered, Kept, Ended, storeVars
<1> QED
  BY <1>1, <1>2, <1>3, <1>4, <1>5 DEF PendingInv

LEMMA KillProcessInvariant ==
  ASSUME PendingInv, NEW p \in Procs, KillProcess(p)
  PROVE  PendingInv'
<1> USE DEF KillProcess, End
<1>1. IInv' /\ CaptureInv'
  BY StoreUnchanged DEF PendingInv
<1>2. WorkTypeOK'
  BY PendingAssumption DEF PendingInv, WorkTypeOK, Records, Steps, Ended, NoRecord
<1>3. StepsInv'
  BY PendingAssumption DEF PendingInv, StepsInv, Ended, NoRecord, OwnedSteps, ReadSteps,
         RemoteSteps
<1>4. RecordsCovered'
  BY PendingAssumption DEF PendingInv, RecordsCovered, Covered, Kept, storeVars
<1>5. CopiesCovered'
  BY PendingAssumption DEF PendingInv, CopiesCovered, Covered, Kept, Ended, storeVars
<1> QED
  BY <1>1, <1>2, <1>3, <1>4, <1>5 DEF PendingInv

LEMMA QueueInvariant ==
  ASSUME PendingInv, NEW p \in Procs, Queue(p)
  PROVE  PendingInv'
<1> DEFINE o == proc[p].owner
           record == [proc[p].record EXCEPT !.state = "checkpoint-ready"]
<1>1. /\ proc[p].step = "queue"
      /\ rec' = [rec EXCEPT ![o] = record]
      /\ UNCHANGED <<storeVars, archive, remote, faults>>
      /\ p \in PowerOwners
      /\ overwritten' \in {overwritten, overwritten \cup {p}}
  BY DEF Queue, WriteRecordAs, NoteOverwritten, PendingInv, StepsInv, Procs
<1>2. /\ o \in PowerOwners /\ o # None
      /\ proc[p].record \in Records
      /\ proc[p].record.state # "none"
      /\ Kept(o, proc[p].record.checkpoint)
  BY <1>1 DEF PendingInv, WorkTypeOK, StepsInv, OwnedSteps, CopiesCovered, Covered
<1>3. /\ record \in Records /\ record.state = "checkpoint-ready"
      /\ record.checkpoint = proc[p].record.checkpoint
  BY <1>2 DEF Records
<1>4. proc' = [proc EXCEPT ![p] = [step |-> "recover-pins", owner |-> o, record |-> NoRecord,
                                   lost |-> proc[p].lost]]
  <2>1. [proc[p] EXCEPT !.step = "recover-pins", !.record = NoRecord] =
        [step |-> "recover-pins", owner |-> o, record |-> NoRecord, lost |-> proc[p].lost]
    <3>1. NoRecord \in Records /\ WorkTypeOK /\ "recover-pins" \in Steps
      BY DEF NoRecord, Records, PendingInv, Steps
    <3> QED
      BY <3>1, RecordReplaced, Zenon
  <2>2. proc' = [proc EXCEPT ![p] = [@ EXCEPT !.step = "recover-pins", !.record = NoRecord]]
    BY DEF Queue
  <2> QED
    BY <2>1, <2>2, Zenon
<1> HIDE DEF record
<1>5. IInv' /\ CaptureInv'
  BY <1>1, StoreUnchanged DEF PendingInv
<1>6. WorkTypeOK'
  BY <1>1, <1>2, <1>3, <1>4 DEF PendingInv, WorkTypeOK, Steps, Records, NoRecord
<1>7. StepsInv'
  BY <1>1, <1>2, <1>3, <1>4 DEF PendingInv, WorkTypeOK, StepsInv, NoRecord, OwnedSteps,
       ReadSteps, RemoteSteps
<1>8. RecordsCovered'
  BY <1>1, <1>2, <1>3 DEF PendingInv, WorkTypeOK, RecordsCovered, Covered, Kept, storeVars
<1>9. CopiesCovered'
  BY <1>1, <1>4 DEF PendingInv, WorkTypeOK, CopiesCovered, Covered, Kept, NoRecord, storeVars
<1> QED
  BY <1>5, <1>6, <1>7, <1>8, <1>9 DEF PendingInv

LEMMA RecoverPinsInvariant ==
  ASSUME PendingInv, NEW p \in Procs, RecoverPins(p)
  PROVE  PendingInv'
<1>1. /\ proc[p].step = "recover-pins"
      /\ UNCHANGED <<storeVars, rec, archive, remote, overwritten, faults>>
  BY DEF RecoverPins
<1>2. IInv' /\ CaptureInv'
  BY <1>1, StoreUnchanged DEF PendingInv
<1>3. RecordsCovered'
  BY <1>1 DEF PendingInv, RecordsCovered, Covered, Kept, storeVars
<1>4. CASE proc' = [proc EXCEPT ![p] = Ended]
  <2>1. WorkTypeOK'
    BY <1>1, <1>4 DEF PendingInv, WorkTypeOK, Records, Steps, Ended, NoRecord
  <2>2. StepsInv'
    BY <1>1, <1>4 DEF PendingInv, WorkTypeOK, StepsInv, Ended, NoRecord, OwnedSteps, ReadSteps,
         RemoteSteps
  <2>3. CopiesCovered'
    BY <1>1, <1>4 DEF PendingInv, WorkTypeOK, CopiesCovered, Covered, Kept, Ended, storeVars
  <2> QED
    BY <1>2, <1>3, <2>1, <2>2, <2>3 DEF PendingInv
<1> DEFINE lost == {pair \in PinnedPairs : rec[pair[2]].state = "none"}
<1>5. CASE /\ PinsUsable
           /\ proc' = [proc EXCEPT ![p] = [@ EXCEPT !.step = "rewrite", !.lost = lost]]
  <2>1. lost \subseteq Checkpoints \X PowerOwners
    BY DEF PinnedPairs
  <2>2. proc' = [proc EXCEPT ![p] = [step |-> "rewrite", owner |-> proc[p].owner,
                                     record |-> proc[p].record, lost |-> lost]]
    <3> HIDE DEF lost
    <3>1. [proc[p] EXCEPT !.step = "rewrite", !.lost = lost] =
          [step |-> "rewrite", owner |-> proc[p].owner, record |-> proc[p].record, lost |-> lost]
      BY <2>1, LostReplaced DEF PendingInv, Steps
    <3> QED
      BY <1>5, <3>1, Zenon
  <2>3. \A pair \in lost : Kept(pair[2], pair[1])
    BY <1>5 DEF PinnedPairs, PinsUsable, RecordsReadable, Complete, Kept
  <2> HIDE DEF lost
  <2>4. WorkTypeOK'
    BY <1>1, <2>1, <2>2 DEF PendingInv, WorkTypeOK, Steps
  <2>5. StepsInv'
    BY <1>1, <2>2 DEF PendingInv, WorkTypeOK, StepsInv, OwnedSteps, ReadSteps, RemoteSteps
  <2>6. CopiesCovered'
    BY <1>1, <2>2, <2>3 DEF PendingInv, WorkTypeOK, CopiesCovered, Covered, Kept, storeVars
  <2> QED
    BY <1>2, <1>3, <2>4, <2>5, <2>6 DEF PendingInv
<1> QED
  BY <1>4, <1>5 DEF RecoverPins, End

LEMMA RewriteLostInvariant ==
  ASSUME PendingInv, NEW p \in Procs, RewriteLost(p)
  PROVE  PendingInv'
<1> USE DEF RewriteLost, NoteOverwritten, Ready
<1>1. IInv' /\ CaptureInv'
  BY StoreUnchanged DEF PendingInv
<1>2. WorkTypeOK'
  <2>1. PICK pair \in proc[p].lost :
          /\ rec' = [rec EXCEPT ![pair[2]] = Ready(pair[1])]
          /\ proc' = [proc EXCEPT ![p].lost = @ \ {pair}]
          /\ NoteOverwritten(pair[2])
    OBVIOUS
  <2>2. pair[1] \in Checkpoints /\ pair[2] \in PowerOwners
    BY DEF PendingInv, WorkTypeOK
  <2>3. Ready(pair[1]) \in Records
    BY <2>2 DEF PendingInv, IInv, StoreTypeOK, Records
  <2>4. rec' \in [PowerOwners -> Records]
    BY <2>1, <2>3 DEF PendingInv, WorkTypeOK
  <2>5. overwritten' \subseteq PowerOwners
    BY <2>1, <2>2 DEF PendingInv, WorkTypeOK
  <2>6. proc' \in [Procs -> [step : Steps, owner : PowerOwners \cup {None}, record : Records,
                             lost : SUBSET (Checkpoints \X PowerOwners)]]
    BY <2>1 DEF PendingInv, WorkTypeOK
  <2> QED
    BY <2>4, <2>5, <2>6 DEF PendingInv, WorkTypeOK
<1>3. StepsInv'
  BY DEF PendingInv, StepsInv
<1>4. RecordsCovered'
  BY DEF PendingInv, RecordsCovered, CopiesCovered, Covered, Kept, storeVars
<1>5. CopiesCovered'
  BY DEF PendingInv, CopiesCovered, Covered, Kept, storeVars
<1> QED
  BY <1>1, <1>2, <1>3, <1>4, <1>5 DEF PendingInv

LEMMA RewrittenInvariant ==
  ASSUME PendingInv, NEW p \in Procs, Rewritten(p)
  PROVE  PendingInv'
<1>1. /\ proc[p].step = "rewrite"
      /\ UNCHANGED <<storeVars, rec, archive, remote, overwritten, faults>>
  BY DEF Rewritten
<1>2. IInv' /\ CaptureInv'
  BY <1>1, StoreUnchanged DEF PendingInv
<1>3. RecordsCovered'
  BY <1>1 DEF PendingInv, RecordsCovered, Covered, Kept, storeVars
<1>4. CASE proc' = [proc EXCEPT ![p] = Ended]
  <2>1. WorkTypeOK'
    BY <1>1, <1>4 DEF PendingInv, WorkTypeOK, Records, Steps, Ended, NoRecord
  <2>2. StepsInv'
    BY <1>1, <1>4 DEF PendingInv, WorkTypeOK, StepsInv, Ended, NoRecord, OwnedSteps, ReadSteps,
         RemoteSteps
  <2>3. CopiesCovered'
    BY <1>1, <1>4 DEF PendingInv, WorkTypeOK, CopiesCovered, Covered, Kept, Ended, storeVars
  <2> QED
    BY <1>2, <1>3, <2>1, <2>2, <2>3 DEF PendingInv
<1>5. CASE proc[p].owner # None /\ proc' = [proc EXCEPT ![p].step = "lock"]
  <2>1. WorkTypeOK'
    BY <1>1, <1>5 DEF PendingInv, WorkTypeOK, Steps
  <2>2. StepsInv'
    BY <1>1, <1>5 DEF PendingInv, WorkTypeOK, StepsInv, OwnedSteps, ReadSteps, RemoteSteps
  <2>3. CopiesCovered'
    BY <1>1, <1>5 DEF PendingInv, WorkTypeOK, CopiesCovered, Covered, Kept, storeVars
  <2> QED
    BY <1>2, <1>3, <2>1, <2>2, <2>3 DEF PendingInv
<1> DEFINE oldest == OldestQueued
<1>6. CASE /\ Queued # {}
           /\ proc[p].owner = None
           /\ proc' = [proc EXCEPT ![p] = [@ EXCEPT !.step = "recover-pins", !.owner = oldest]]
  <2>1. oldest \in PowerOwners /\ oldest # None /\ rec[oldest].state # "none"
    BY <1>6, OldestQueuedIsQueued, Identities DEF Queued, PendingInv
  <2> HIDE DEF oldest
  <2>2. proc' = [proc EXCEPT ![p] = [step |-> "recover-pins", owner |-> oldest,
                                     record |-> proc[p].record, lost |-> proc[p].lost]]
    <3>1. [proc[p] EXCEPT !.step = "recover-pins", !.owner = oldest] =
          [step |-> "recover-pins", owner |-> oldest, record |-> proc[p].record, lost |-> proc[p].lost]
      BY <2>1, OwnerReplaced DEF PendingInv, Steps
    <3> QED
      BY <1>6, <3>1, Zenon
  <2>3. proc[p].record.state = "none"
    BY <1>6 DEF PendingInv, StepsInv
  <2>4. WorkTypeOK'
    BY <1>1, <2>1, <2>2 DEF PendingInv, WorkTypeOK, Steps
  <2>5. StepsInv'
    BY <1>1, <2>1, <2>2, <2>3 DEF PendingInv, WorkTypeOK, StepsInv, OwnedSteps, ReadSteps,
         RemoteSteps
  <2>6. CopiesCovered'
    BY <1>1, <2>1, <2>2, <2>3 DEF PendingInv, WorkTypeOK, CopiesCovered, Covered, Kept, storeVars
  <2> QED
    BY <1>2, <1>3, <2>4, <2>5, <2>6 DEF PendingInv
<1> QED
  BY <1>4, <1>5, <1>6 DEF Rewritten, GoTo, End

-----------------------------------------------------------------------------
(* Steps of the store: they keep every checkpoint that is complete and      *)
(* pinned by a power request.                                               *)

Reserved(o, id) == pin[id][o] = "whole" /\ meta[id] = "complete" /\ id \in tree

LEMMA StoreStepKeeps ==
  ASSUME IInv, CaptureInv, StoreStep,
         NEW o \in PowerOwners, NEW id \in Checkpoints, Reserved(o, id)
  PROVE  Reserved(o, id)'
<1> USE DEF Reserved
<1>1. CASE TakeSnapshot \/ Resume \/ DeletionsFinished \/ SelectCandidates \/ Refuse
  BY <1>1 DEF TakeSnapshot, Resume, DeletionsFinished, SelectCandidates, Refuse
<1>2. CASE OpenPin
  BY <1>2 DEF OpenPin, IInv, StoreTypeOK, HolderInv
<1>3. CASE WritePin
  BY <1>3, Identities DEF WritePin, IInv, StoreTypeOK
<1>4. CASE OpenRecord
  BY <1>4 DEF OpenRecord, IInv, StoreTypeOK, HolderInv
<1>5. CASE WriteRecord
  BY <1>5 DEF WriteRecord, IInv, StoreTypeOK
<1>6. CASE DeleteTree
  BY <1>6 DEF DeleteTree, Deleting
<1>7. CASE ClearIntent
  BY <1>7 DEF ClearIntent, Deleting, IInv, StoreTypeOK
<1>8. CASE MarkDeleting
  <2>1. Oldest(store.doomed) \in store.doomed /\ store.doomed \subseteq Checkpoints
    BY <1>8, OldestIsMember DEF IInv, StoreTypeOK, MarkDeleting
  <2>2. id \in Pinned
    BY Identities DEF Pinned
  <2>3. Oldest(store.doomed) # id
    BY <2>1, <2>2 DEF IInv, DoomedInv
  <2> QED
    BY <1>8, <2>3 DEF MarkDeleting, IInv, StoreTypeOK
<1> QED
  BY <1>1, <1>2, <1>3, <1>4, <1>5, <1>6, <1>7, <1>8 DEF StoreStep

(* The pin a capture wrote is still whole when it returns.                  *)
LEMMA StoreStepCapture ==
  ASSUME IInv, CaptureInv, StoreStep
  PROVE  CaptureInv'
<1> USE DEF CaptureInv
<1>1. CASE TakeSnapshot \/ Resume \/ DeletionsFinished \/ SelectCandidates \/ Refuse
  BY ZenonT(60), <1>1 DEF TakeSnapshot, Resume, DeletionsFinished, Finishing, SelectCandidates,
       Refuse, IInv, StoreTypeOK,
              StepInv, CreatingSteps, PinnedSteps
<1>2. CASE OpenPin \/ WritePin
  BY <1>2, Identities DEF OpenPin, WritePin, IInv, StoreTypeOK, StepInv, PinnedSteps
<1>3. CASE OpenRecord \/ WriteRecord \/ DeleteTree \/ ClearIntent
  BY <1>3 DEF OpenRecord, WriteRecord, DeleteTree, ClearIntent, IInv, StoreTypeOK, PinnedSteps
<1>4. CASE MarkDeleting
  BY <1>4 DEF MarkDeleting, IInv, StoreTypeOK, PinnedSteps
<1> QED
  BY <1>1, <1>2, <1>3, <1>4 DEF StoreStep

(* What keeps the reserved checkpoints keeps the records and their copies.  *)
LEMMA CoveredWhenKept ==
  ASSUME PendingInv, UNCHANGED <<rec, proc, remote>>,
         \A o \in PowerOwners, id \in Checkpoints : Reserved(o, id) => Reserved(o, id)'
  PROVE  RecordsCovered' /\ CopiesCovered' /\ StepsInv'
<1>1. RecordsCovered'
  BY DEF PendingInv, RecordsCovered, Covered, Kept, Reserved
<1>2. CopiesCovered'
  BY DEF PendingInv, WorkTypeOK, CopiesCovered, Covered, Kept, Reserved
<1>3. StepsInv'
  BY DEF PendingInv, StepsInv
<1> QED
  BY <1>1, <1>2, <1>3

LEMMA StoreProgressInvariant ==
  ASSUME PendingInv, StoreProgress
  PROVE  PendingInv'
<1>1. StoreStep /\ UNCHANGED pendingVars
  BY DEF StoreProgress
<1>2. IInv'
  BY <1>1, NextInvariant DEF PendingInv, StoreNext
<1>3. CaptureInv'
  BY <1>1, StoreStepCapture DEF PendingInv
<1>4. RecordsCovered' /\ CopiesCovered' /\ StepsInv'
  BY <1>1, StoreStepKeeps, CoveredWhenKept DEF PendingInv, pendingVars
<1>5. WorkTypeOK'
  BY <1>1 DEF PendingInv, WorkTypeOK, pendingVars
<1> QED
  BY <1>2, <1>3, <1>4, <1>5 DEF PendingInv

LEMMA OtherReturnInvariant ==
  ASSUME PendingInv, OtherReturn
  PROVE  PendingInv'
<1>1. ReleaseStore /\ Return /\ UNCHANGED pendingVars
  BY DEF OtherReturn, Return
<1>2. IInv'
  BY <1>1, NextInvariant DEF PendingInv, StoreNext
<1>3. CaptureInv'
  BY <1>1, Identities DEF ReleaseStore, Idle, CaptureInv
<1>4. RecordsCovered' /\ CopiesCovered' /\ StepsInv'
  BY <1>1, CoveredWhenKept DEF ReleaseStore, Reserved, pendingVars
<1>5. WorkTypeOK'
  BY <1>1 DEF PendingInv, WorkTypeOK, pendingVars
<1> QED
  BY <1>2, <1>3, <1>4, <1>5 DEF PendingInv

(* Others neither capture for a power request nor touch its pins.           *)
LEMMA OtherOperationInvariant ==
  ASSUME PendingInv, OtherOperation
  PROVE  PendingInv'
<1>1. UNCHANGED pendingVars
  BY DEF OtherOperation
<1>2. CASE \E id \in Checkpoints, owner \in Others : BeginCreate(owner, id)
  <2>1. IInv'
    BY <1>2, PendingAssumption, NextInvariant DEF PendingInv, StoreNext
  <2>2. CaptureInv'
    BY <1>2, Identities DEF BeginCreate, CaptureInv, PinnedSteps
  <2>3. RecordsCovered' /\ CopiesCovered' /\ StepsInv'
    BY <1>1, <1>2, CoveredWhenKept DEF BeginCreate, Reserved, pendingVars
  <2> QED
    BY <1>1, <2>1, <2>2, <2>3 DEF PendingInv, WorkTypeOK, pendingVars
<1>3. CASE \E id \in Checkpoints, owner \in Others \ {None} : BeginPin(owner, id)
  <2>1. IInv'
    BY <1>3, PendingAssumption, NextInvariant DEF PendingInv, StoreNext
  <2>2. CaptureInv'
    BY <1>3, Identities DEF BeginPin, CaptureInv, PinnedSteps
  <2>3. RecordsCovered' /\ CopiesCovered' /\ StepsInv'
    BY <1>1, <1>3, CoveredWhenKept, Identities DEF BeginPin, Reserved, pendingVars, PendingInv,
         IInv, StoreTypeOK
  <2> QED
    BY <1>1, <2>1, <2>2, <2>3 DEF PendingInv, WorkTypeOK, pendingVars
<1>4. CASE BeginRecover \/ SetRetention
  <2>1. IInv'
    BY <1>4, NextInvariant DEF PendingInv, StoreNext
  <2>2. CaptureInv'
    BY <1>4, Identities DEF BeginRecover, SetRetention, Idle, PendingInv, CaptureInv, PinnedSteps
  <2>3. RecordsCovered' /\ CopiesCovered' /\ StepsInv'
    BY <1>1, <1>4, CoveredWhenKept DEF BeginRecover, SetRetention, Reserved, pendingVars
  <2> QED
    BY <1>1, <2>1, <2>2, <2>3 DEF PendingInv, WorkTypeOK, pendingVars
<1>5. CASE \E owner \in Others \ {None} : UnpinOwner(owner)
  <2>1. IInv'
    BY <1>5, PendingAssumption, NextInvariant DEF PendingInv, StoreNext
  <2>2. CaptureInv'
    BY <1>5, Identities DEF UnpinOwner, Idle, CaptureInv, PinnedSteps
  <2>3. RecordsCovered' /\ CopiesCovered' /\ StepsInv'
    BY <1>1, <1>5, CoveredWhenKept, Identities DEF UnpinOwner, Reserved, pendingVars, PendingInv,
         IInv, StoreTypeOK
  <2> QED
    BY <1>1, <2>1, <2>2, <2>3 DEF PendingInv, WorkTypeOK, pendingVars
<1> QED
  BY <1>2, <1>3, <1>4, <1>5 DEF OtherOperation, OtherBegin, OtherEffect

-----------------------------------------------------------------------------
(* Steps of a process that touch the store                                  *)

LEMMA BeginCaptureInvariant ==
  ASSUME PendingInv, NEW o \in PowerOwners, NEW id \in Checkpoints, BeginCapture(o, id)
  PROVE  PendingInv'
<1>1. BeginCreate(o, id) /\ proc[o].step = "new" /\ proc' = [proc EXCEPT ![o].step = "capturing"]
  BY DEF BeginCapture, GoTo
<1>2. UNCHANGED <<meta, tree, pin, rec, archive, remote, overwritten, faults>>
  BY DEF BeginCapture, BeginCreate
<1>3. IInv'
  BY <1>1, Identities, NextInvariant DEF PendingInv, StoreNext
<1>4. CaptureInv'
  BY <1>1 DEF BeginCreate, CaptureInv, PinnedSteps
<1>5. WorkTypeOK'
  BY ZenonT(60), <1>1, <1>2 DEF PendingInv, WorkTypeOK, Steps
<1>6. StepsInv'
  BY <1>1, <1>2 DEF PendingInv, WorkTypeOK, StepsInv, OwnedSteps, ReadSteps, RemoteSteps
<1>7. RecordsCovered' /\ CopiesCovered'
  BY <1>1, <1>2 DEF PendingInv, WorkTypeOK, RecordsCovered, CopiesCovered, Covered, Kept
<1> QED
  BY <1>3, <1>4, <1>5, <1>6, <1>7 DEF PendingInv

(* The captured checkpoint is complete and pinned for its request.          *)
LEMMA CapturedInvariant ==
  ASSUME PendingInv, NEW o \in PowerOwners, Captured(o)
  PROVE  PendingInv'
<1>1. /\ Return /\ ReleaseStore
      /\ proc[o].step = "capturing"
      /\ proc' = [proc EXCEPT ![o] = [@ EXCEPT !.step = "queue", !.owner = o, !.record = Ready(store.id)]]
      /\ store.owner = o /\ store.step = "done"
  BY DEF Captured, Return
<1>2. UNCHANGED <<meta, createdAt, tree, pin, rec, archive, remote, overwritten, faults>>
  BY DEF Captured, Return, ReleaseStore
<1>3. IInv'
  BY <1>1, NextInvariant DEF PendingInv, StoreNext
<1>4. CaptureInv'
  BY <1>1, Identities DEF ReleaseStore, Idle, CaptureInv
<1>5. o # None /\ o \in Procs
  BY Identities DEF Procs
<1>6. store.id \in Checkpoints /\ Reserved(o, store.id)
  BY <1>1, <1>5 DEF PendingInv, CaptureInv, PinnedSteps, IInv, HolderInv, PublishedSteps,
       StoreTypeOK, Reserved
<1>7. Ready(store.id) \in Records /\ Ready(store.id).state = "checkpoint-ready"
      /\ Ready(store.id).checkpoint = store.id
  BY <1>6 DEF Ready, Records, PendingInv, IInv, StoreTypeOK
<1> DEFINE ready == Ready(store.id)
<1>8. proc' = [proc EXCEPT ![o] = [@ EXCEPT !.step = "queue", !.owner = o, !.record = ready]]
  BY <1>1
<1> HIDE DEF ready
<1>9. WorkTypeOK'
  <2>1. ready \in Records
    BY <1>7 DEF ready
  <2>2. proc' \in [Procs -> [step : Steps, owner : PowerOwners \cup {None}, record : Records,
                             lost : SUBSET (Checkpoints \X PowerOwners)]]
    BY ZenonT(60), <1>5, <1>8, <2>1 DEF PendingInv, WorkTypeOK, Steps
  <2> QED
    BY <1>2, <2>2 DEF PendingInv, WorkTypeOK
<1>10. StepsInv'
  <2>1. o # BootRetry
    BY Identities
  <2> QED
    BY <1>2, <1>5, <1>7, <1>8, <2>1 DEF PendingInv, WorkTypeOK, StepsInv, OwnedSteps, ReadSteps,
         RemoteSteps, ready
<1>11. RecordsCovered'
  BY <1>2 DEF PendingInv, RecordsCovered, Covered, Kept
<1>12. CopiesCovered'
  BY <1>2, <1>5, <1>6, <1>7, <1>8 DEF PendingInv, WorkTypeOK, CopiesCovered, Covered, Kept,
       Reserved, ready
<1> QED
  BY <1>3, <1>4, <1>9, <1>10, <1>11, <1>12 DEF PendingInv

LEMMA CaptureFailedInvariant ==
  ASSUME PendingInv, NEW o \in PowerOwners, CaptureFailed(o)
  PROVE  PendingInv'
<1>1. Return /\ ReleaseStore /\ proc' = [proc EXCEPT ![o] = Ended]
  BY DEF CaptureFailed, Return, End
<1>2. UNCHANGED <<meta, createdAt, tree, pin, rec, archive, remote, overwritten, faults>>
  BY DEF CaptureFailed, Return, ReleaseStore
<1>3. IInv'
  BY <1>1, NextInvariant DEF PendingInv, StoreNext
<1>4. CaptureInv'
  BY <1>1, Identities DEF ReleaseStore, Idle, CaptureInv
<1>5. WorkTypeOK' /\ StepsInv'
  BY <1>1, <1>2 DEF PendingInv, WorkTypeOK, StepsInv, Steps, Records, Ended, NoRecord, OwnedSteps,
                    ReadSteps, RemoteSteps
<1>6. RecordsCovered' /\ CopiesCovered'
  BY <1>1, <1>2 DEF PendingInv, WorkTypeOK, RecordsCovered, CopiesCovered, Covered, Kept, Ended,
       NoRecord
<1> QED
  BY <1>3, <1>4, <1>5, <1>6 DEF PendingInv

(* A kill ends one process or all of them; the store's lock goes with it.   *)
LEMMA CrashInvariant ==
  ASSUME PendingInv, KillHolder \/ PowerLoss \/ Reboot
  PROVE  PendingInv'
<1>1. ReleaseStore /\ UNCHANGED <<rec, archive, remote, overwritten>>
  BY DEF KillHolder, KillStore, PowerLoss, Reboot, Restart
<1>2. UNCHANGED <<meta, createdAt, tree, pin>>
  BY <1>1 DEF ReleaseStore
<1>3. \A p \in Procs : \/ proc'[p] = proc[p]
                       \/ proc'[p] = Ended
                       \/ proc'[p] = [Ended EXCEPT !.step = "recover-pins"]
  BY DEF KillHolder, PowerLoss, Reboot, Restart
<1>4. proc' = [p \in Procs |-> proc'[p]]
  BY DEF KillHolder, PowerLoss, Reboot, Restart
<1>5. faults' \in 0..MaxFaults
  BY PendingAssumption DEF KillHolder, PowerLoss, Reboot, PendingInv, WorkTypeOK
<1>6. IInv'
  BY <1>1, ReleaseInvariant DEF PendingInv
<1>7. CaptureInv'
  BY <1>1, Identities DEF ReleaseStore, Idle, CaptureInv
<1>8. WorkTypeOK'
  <2>1. Ended \in [step : Steps, owner : PowerOwners \cup {None}, record : Records,
                   lost : SUBSET (Checkpoints \X PowerOwners)]
    BY DEF Ended, NoRecord, Records, Steps
  <2>2. [Ended EXCEPT !.step = "recover-pins"] \in
          [step : Steps, owner : PowerOwners \cup {None}, record : Records,
           lost : SUBSET (Checkpoints \X PowerOwners)]
    BY DEF Ended, NoRecord, Records, Steps
  <2> QED
    BY <1>1, <1>3, <1>4, <1>5, <2>1, <2>2 DEF PendingInv, WorkTypeOK
<1>9. StepsInv'
  BY <1>1, <1>3 DEF PendingInv, StepsInv, Ended, NoRecord, OwnedSteps, ReadSteps, RemoteSteps
<1>10. RecordsCovered' /\ CopiesCovered'
  BY <1>1, <1>2, <1>3 DEF PendingInv, RecordsCovered, CopiesCovered, Covered, Kept, Ended, NoRecord
<1> QED
  BY <1>6, <1>7, <1>8, <1>9, <1>10 DEF PendingInv

(* A pin is released only by its owner and only after the upload.           *)
LEMMA ReleasePinInvariant ==
  ASSUME PendingInv, NEW p \in Procs, Release(p)
  PROVE  PendingInv'
<1> DEFINE o == proc[p].owner
           id == proc[p].record.checkpoint
<1>1. /\ proc[p].step = "unpin" /\ Unpin(o, id)
      /\ proc' = [proc EXCEPT ![p].step = "complete"]
      /\ UNCHANGED <<rec, archive, remote, overwritten, faults>>
  BY DEF Release, GoTo
<1>2. o \in PowerOwners /\ o \in remote
  BY <1>1 DEF PendingInv, WorkTypeOK, StepsInv, OwnedSteps, RemoteSteps
<1>3. UNCHANGED <<meta, createdAt, tree, store>>
  BY <1>1 DEF Unpin
<1>4. \A other \in PowerOwners \ {o}, c \in Checkpoints : pin'[c][other] = pin[c][other]
  BY <1>1, Identities DEF Unpin, PendingInv, IInv, StoreTypeOK
<1>5. IInv'
  <2>1. CASE id \in Checkpoints
    BY <2>1, <1>1, <1>2, Identities, UnpinInvariant DEF PendingInv
  <2>2. CASE id \notin Checkpoints
    <3>1. pin' = pin
      BY <2>2, <1>1 DEF Unpin, PendingInv, IInv, StoreTypeOK
    <3> QED
      BY <3>1, <1>1, <1>3, StoreUnchanged DEF PendingInv, Unpin, storeVars
  <2> QED
    BY <2>1, <2>2
<1>6. CaptureInv'
  BY <1>1, <1>3, Identities DEF Unpin, Idle, CaptureInv, PinnedSteps
<1>7. WorkTypeOK' /\ StepsInv'
  BY <1>1, <1>2 DEF PendingInv, WorkTypeOK, StepsInv, Steps, OwnedSteps, ReadSteps, RemoteSteps
<1>8. ASSUME NEW other \in PowerOwners, NEW c, Kept(other, c)
      PROVE  Kept(other, c)'
  BY <1>1, <1>2, <1>3, <1>4, <1>8 DEF Kept
<1>9. ASSUME NEW other \in PowerOwners, NEW record, Covered(other, record)
      PROVE  Covered(other, record)'
  BY <1>1, <1>8, <1>9 DEF Covered
<1>10. RecordsCovered'
  <2> SUFFICES ASSUME NEW other \in PowerOwners
               PROVE  Covered(other, rec[other])'
    BY DEF RecordsCovered
  <2>1. Covered(other, rec[other])
    BY DEF PendingInv, RecordsCovered
  <2> QED
    BY <2>1, <1>1, <1>9
<1>11. CopiesCovered'
  <2> SUFFICES ASSUME NEW q \in Procs
               PROVE  (/\ proc[q].owner # None => Covered(proc[q].owner, proc[q].record)
                       /\ \A pair \in proc[q].lost : Kept(pair[2], pair[1]))'
    BY DEF CopiesCovered
  <2>1. /\ proc'[q].owner = proc[q].owner /\ proc'[q].record = proc[q].record
        /\ proc'[q].lost = proc[q].lost
    BY <1>1 DEF PendingInv, WorkTypeOK
  <2>2. /\ proc[q].owner \in PowerOwners \cup {None}
        /\ proc[q].lost \subseteq Checkpoints \X PowerOwners
    BY DEF PendingInv, WorkTypeOK
  <2>3. ASSUME proc[q].owner # None
        PROVE  Covered(proc[q].owner, proc[q].record)'
    <3>1. Covered(proc[q].owner, proc[q].record) /\ proc[q].owner \in PowerOwners
      BY <2>2, <2>3 DEF PendingInv, CopiesCovered
    <3> QED
      BY <3>1, <1>1, <1>3, <1>9, <2>1 DEF Covered, Kept
  <2>4. ASSUME NEW pair \in proc[q].lost
        PROVE  Kept(pair[2], pair[1])'
    <3>1. Kept(pair[2], pair[1]) /\ pair[2] \in PowerOwners
      BY <2>2, <2>4 DEF PendingInv, CopiesCovered
    <3> QED
      BY <3>1, <1>8
  <2> QED
    BY <2>1, <2>3, <2>4
<1> QED
  BY <1>5, <1>6, <1>7, <1>10, <1>11 DEF PendingInv

-----------------------------------------------------------------------------
LEMMA PendingNextInvariant ==
  ASSUME PendingInv, [PendingNext]_allVars
  PROVE  PendingInv'
<1>1. CASE \E p \in Procs : Step(p) \/ KillProcess(p)
  BY <1>1, QueueInvariant, RecoverPinsInvariant, RewriteLostInvariant, RewrittenInvariant,
     LockInvariant, MatchInvariant, ArchiveInvariant, MarkArchivedInvariant, TransferInvariant,
     MarkUploadedInvariant, ReleasePinInvariant, ReleaseRefusedInvariant, MarkCompletedInvariant,
     UnlinkArchiveInvariant, RecordFailureInvariant, KillProcessInvariant
     DEF Step
<1>2. CASE \E o \in PowerOwners, id \in Checkpoints : BeginCapture(o, id)
  BY <1>2, BeginCaptureInvariant
<1>3. CASE HolderStep
  BY <1>3, StoreProgressInvariant, OtherReturnInvariant, CapturedInvariant, CaptureFailedInvariant
     DEF HolderStep
<1>4. CASE KillHolder \/ PowerLoss \/ Reboot
  BY <1>4, CrashInvariant
<1>5. CASE OtherOperation
  BY <1>5, OtherOperationInvariant
<1>6. CASE UNCHANGED allVars
  <2>1. UNCHANGED storeVars /\ UNCHANGED pendingVars
    BY <1>6 DEF allVars
  <2>2. IInv' /\ CaptureInv'
    BY <2>1, StoreUnchanged DEF PendingInv
  <2>3. RecordsCovered' /\ CopiesCovered' /\ StepsInv'
    BY <2>1, CoveredWhenKept DEF Reserved, storeVars, pendingVars
  <2>4. WorkTypeOK'
    BY <2>1 DEF PendingInv, WorkTypeOK, pendingVars
  <2> QED
    BY <2>2, <2>3, <2>4 DEF PendingInv
<1> QED
  BY <1>1, <1>2, <1>3, <1>4, <1>5, <1>6 DEF PendingNext

LEMMA PendingSpecInvariant == PendingSpec => []PendingInv
<1>1. PendingInv /\ [PendingNext]_allVars => PendingInv'
  BY PendingNextInvariant
<1> QED
  BY <1>1, PendingInitInvariant, PTL DEF PendingSpec

(* Type correctness of the queue and of the store under it.                 *)
THEOREM SpecPendingTypeOK == PendingSpec => []PendingTypeOK
<1>1. PendingInv => PendingTypeOK
  <2> SUFFICES ASSUME PendingInv PROVE PendingTypeOK
    OBVIOUS
  <2>1. StoreTypeOK /\ WorkTypeOK /\ StepsInv
    BY DEF PendingInv, IInv
  <2> QED
    BY <2>1 DEF WorkTypeOK, StepsInv, PendingTypeOK, Records, Steps
<1> QED
  BY <1>1, PendingSpecInvariant, PTL

(* A queued generation keeps its checkpoint and its pin until it is in the  *)
(* repository, for any number of requests, checkpoints and failures.        *)
THEOREM SpecGenerationKept == PendingSpec => []GenerationKept
<1>1. PendingInv => GenerationKept
  BY DEF PendingInv, RecordsCovered, Covered, Kept, GenerationKept, Complete
<1> QED
  BY <1>1, PendingSpecInvariant, PTL

(* Seen from the store, power requests and retries are operations of the    *)
(* store and nothing else: what holds of the store holds under them.        *)
THEOREM SpecImplementsStore == PendingSpec => StoreSpec
<1>1. PendingInit => StoreInit
  BY DEF PendingInit
<1>2. ASSUME PendingInv, [PendingNext]_allVars
      PROVE  [StoreNext]_storeVars
  <2>1. CASE \E p \in Procs : Step(p) \/ KillProcess(p)
    <3>1. PICK p \in Procs : Step(p) \/ KillProcess(p)
      BY <2>1
    <3>2. CASE Release(p)
      <4>1. proc[p].owner \in Owners /\ Unpin(proc[p].owner, proc[p].record.checkpoint)
        BY <1>2, <3>2, Identities DEF Release, PendingInv, WorkTypeOK, StepsInv, OwnedSteps
      <4>2. CASE proc[p].record.checkpoint \in Checkpoints
        BY <4>1, <4>2 DEF StoreNext
      <4>3. CASE proc[p].record.checkpoint \notin Checkpoints
        BY <1>2, <4>1, <4>3 DEF Unpin, storeVars, PendingInv, IInv, StoreTypeOK
      <4> QED
        BY <4>2, <4>3
    <3>3. CASE ~Release(p)
      BY <3>1, <3>3 DEF Step, Queue, RecoverPins, RewriteLost, Rewritten, Lock, Match, Archive,
         MarkArchived, Transfer, MarkUploaded, ReleaseRefused, MarkCompleted, UnlinkArchive,
         RecordFailure, KillProcess, storeVars
    <3> QED
      BY <3>2, <3>3
  <2>2. CASE \E o \in PowerOwners, id \in Checkpoints : BeginCapture(o, id)
    BY <2>2, Identities DEF BeginCapture, StoreNext
  <2>3. CASE HolderStep
    BY <2>3 DEF HolderStep, StoreProgress, OtherReturn, Captured, CaptureFailed, StoreNext
  <2>4. CASE KillHolder \/ PowerLoss \/ Reboot
    BY <2>4 DEF KillHolder, PowerLoss, Reboot, Restart, KillStore, ReleaseStore, StoreNext, storeVars
  <2>5. CASE OtherOperation
    BY <2>5, PendingAssumption DEF OtherOperation, OtherBegin, OtherEffect, StoreNext
  <2>6. CASE UNCHANGED allVars
    BY <2>6 DEF allVars
  <2> QED
    BY <1>2, <2>1, <2>2, <2>3, <2>4, <2>5, <2>6 DEF PendingNext
<1> QED
  BY <1>1, <1>2, PendingSpecInvariant, PTL DEF PendingSpec, StoreSpec

-----------------------------------------------------------------------------
(* The records tell the progress.                                          *)

(* The steps under the lock of a record, and of a request that has no      *)
(* checkpoint yet.                                                         *)
LockedSteps == {"match", "archive", "archived", "transfer", "transferred", "unpin", "complete", "unlink"}
Unstarted == {"new", "capturing"}

Named(record) == record.state # "none" => record.checkpoint \in Checkpoints

(* A record that is not uploaded has its checkpoint reserved, unless it was*)
(* written over; a completed one holds none back.                          *)
RecordInv(o) ==
  /\ Named(rec[o])
  /\ rec[o].state \in {"checkpoint-ready", "pending-upload"} /\ o \notin overwritten =>
       Reserved(o, rec[o].checkpoint)
  /\ rec[o].state = "completed" => pin[rec[o].checkpoint][o] = "none"

(* A request that has not captured has no record, and nothing was recovered*)
(* for it; while it captures the store is its own.                         *)
RequestInv(o) ==
  /\ proc[o].step = "new" => \A id \in Checkpoints : pin[id][o] = "none"
  /\ proc[o].step = "capturing" <=> store.owner = o
  /\ proc[o].step \in Unstarted =>
       rec[o].state = "none" /\ \A q \in Procs : \A pair \in proc[q].lost : pair[2] # o
  /\ proc[o].owner = IF proc[o].step \in Unstarted \cup {"ended"} THEN None ELSE o

(* What a process has in hand: the record under its lock is the one on the *)
(* disk, and a pin that it found without a record is of a reserved         *)
(* checkpoint for as long as there is no record.                           *)
AttemptInv(p, work) ==
  /\ Named(work.record)
  /\ work.step \in {"archive", "archived", "transfer", "transferred"} =>
       work.record.state \in {"checkpoint-ready", "pending-upload"}
  /\ work.step \in {"unpin", "complete"} => work.record.state = "uploaded"
  /\ work.step = "complete" => pin[work.record.checkpoint][work.owner] = "none"
  /\ work.step = "queue" /\ rec[p].state = "none" => Reserved(p, work.record.checkpoint)
  /\ \A pair \in work.lost : rec[pair[2]].state = "none" => Reserved(pair[2], pair[1])
  /\ work.step \in LockedSteps \ {"unlink"} /\ work.owner \notin overwritten => work.record = rec[work.owner]

(* No two processes work on one record.                                    *)
LockInv == \A p, q \in Procs : p # q /\ Locked(p) /\ Locked(q) => proc[p].owner # proc[q].owner

(* What the records say, what the processes have read and who may write.   *)
ProgressInv ==
  /\ \A o \in PowerOwners : RecordInv(o) /\ RequestInv(o)
  /\ \A p \in Procs : AttemptInv(p, proc[p])
  /\ LockInv

LEMMA ProgressInit == PendingInit => ProgressInv
<1> SUFFICES ASSUME PendingInit PROVE ProgressInv
  OBVIOUS
<1> USE Identities DEF PendingInit, StoreInit, Idle, Ended, NoRecord, Procs, Unstarted
<1>1. ASSUME NEW o \in PowerOwners
      PROVE  RecordInv(o) /\ RequestInv(o)
  BY DEF RecordInv, RequestInv, Named
<1>2. ASSUME NEW p \in Procs
      PROVE  AttemptInv(p, proc[p])
  BY DEF AttemptInv, Named, LockedSteps
<1>3. LockInv
  BY DEF LockInv, Locked
<1> QED
  BY <1>1, <1>2, <1>3 DEF ProgressInv

(* Steps of the store that are of no process: the pins of a capture are its *)
(* own, and it has no record before it has returned.                        *)
LEMMA StoreQuiet ==
  ASSUME PendingInv, ProgressInv, UNCHANGED <<rec, proc, overwritten>>,
         \A o \in PowerOwners : store'.owner = o <=> store.owner = o,
         \A o \in PowerOwners, id \in Checkpoints :
           /\ Reserved(o, id) => Reserved(o, id)'
           /\ store.owner # o /\ pin[id][o] = "none" => pin'[id][o] = "none"
  PROVE  ProgressInv'
<1>1. ASSUME NEW o \in PowerOwners
      PROVE  RecordInv(o)' /\ RequestInv(o)'
  <2>1. RecordInv(o) /\ RequestInv(o)
    BY DEF ProgressInv
  <2>2. RecordInv(o)'
    BY <2>1 DEF RecordInv, RequestInv, Named, Unstarted
  <2>3. RequestInv(o)'
    BY <2>1 DEF RequestInv
  <2> QED
    BY <2>2, <2>3
<1>2. ASSUME NEW p \in Procs
      PROVE  AttemptInv(p, proc[p])'
  <2>1. AttemptInv(p, proc[p]) /\ proc[p].lost \subseteq Checkpoints \X PowerOwners
        /\ proc[p].owner \in PowerOwners \cup {None}
    BY DEF ProgressInv, PendingInv, WorkTypeOK
  <2>2. proc[p].step = "queue" => p \in PowerOwners /\ proc[p].record.state = "checkpoint-ready"
    BY DEF PendingInv, StepsInv, Procs
  <2>3. ASSUME proc[p].step = "complete"
        PROVE  /\ proc[p].owner \in PowerOwners /\ store.owner # proc[p].owner
               /\ proc[p].record.checkpoint \in Checkpoints
    <3>1. proc[p].owner \in PowerOwners /\ rec[proc[p].owner].state # "none"
      BY <2>1, <2>3 DEF PendingInv, StepsInv, OwnedSteps
    <3>2. RequestInv(proc[p].owner) /\ proc[p].record.checkpoint \in Checkpoints
      BY <2>1, <2>3, <3>1 DEF ProgressInv, AttemptInv, Named
    <3> QED
      BY <3>1, <3>2 DEF RequestInv, Unstarted
  <2>4. ASSUME NEW pair \in proc[p].lost, rec[pair[2]].state = "none"
        PROVE  Reserved(pair[2], pair[1])'
    BY <2>1, <2>4 DEF AttemptInv
  <2> QED
    BY <2>1, <2>2, <2>3, <2>4 DEF AttemptInv, Named
<1>3. LockInv'
  BY DEF ProgressInv, LockInv, Locked
<1> QED
  BY <1>1, <1>2, <1>3 DEF ProgressInv

(* What a process may have written to a record, o's.                        *)
Written(p, o) ==
  /\ RecordInv(o)' /\ rec'[o].state # "none"
  /\ proc[o].step \notin Unstarted
  /\ o \in overwritten' \/ \A q \in Procs \ {p} : Locked(q) => proc[q].owner # o

(* A step of a process, but for the release of a pin and the start of a     *)
(* capture.                                                                 *)
LEMMA ProcessStep ==
  ASSUME PendingInv, ProgressInv, NEW p \in Procs,
         UNCHANGED <<meta, tree, pin, store>>, overwritten \subseteq overwritten',
         \A q \in Procs \ {p} : proc'[q] = proc[q],
         proc[p].step \notin Unstarted, proc'[p].step \notin Unstarted,
         p \in PowerOwners => proc'[p].owner = IF proc'[p].step = "ended" THEN None ELSE p,
         \A pair \in proc'[p].lost : pair[2] \in PowerOwners /\ proc[pair[2]].step \notin Unstarted,
         \A o \in PowerOwners : rec'[o] = rec[o] \/ Written(p, o),
         AttemptInv(p, proc[p])',
         Locked(p)' => \A q \in Procs \ {p} : Locked(q) => proc[q].owner # proc'[p].owner
  PROVE  ProgressInv'
<1>1. ASSUME NEW o \in PowerOwners
      PROVE  RecordInv(o)' /\ RequestInv(o)'
  <2>1. RecordInv(o) /\ RequestInv(o) /\ o \in Procs
    BY DEF ProgressInv, Procs
  <2>2. RecordInv(o)'
    BY <2>1 DEF RecordInv, Written, Named, Reserved
  <2>3. RequestInv(o)'
    <3>1. CASE o = p
      BY <2>1, <3>1 DEF RequestInv, Unstarted
    <3>2. CASE o # p
      BY <2>1, <3>2 DEF RequestInv, Written
    <3> QED
      BY <3>1, <3>2
  <2> QED
    BY <2>2, <2>3
<1>2. ASSUME NEW q \in Procs
      PROVE  AttemptInv(q, proc[q])'
  <2>1. CASE q = p
    BY <2>1
  <2>2. CASE q # p
    <3>1. /\ AttemptInv(q, proc[q]) /\ proc'[q] = proc[q]
          /\ proc[q].lost \subseteq Checkpoints \X PowerOwners
          /\ proc[q].owner \in PowerOwners \cup {None}
          /\ proc[q].step \in OwnedSteps => proc[q].owner # None
          /\ proc[q].step = "queue" => q \in PowerOwners
      BY <2>2 DEF ProgressInv, PendingInv, WorkTypeOK, StepsInv, Procs
    <3>2. \A o \in PowerOwners : rec'[o].state = "none" => rec[o].state = "none"
      BY DEF Written
    <3>3. \A pair \in proc'[q].lost : rec'[pair[2]].state = "none" => Reserved(pair[2], pair[1])'
      BY <3>1, <3>2 DEF AttemptInv, Reserved
    <3>4. proc'[q].step \in LockedSteps \ {"unlink"} /\ proc'[q].owner \notin overwritten' =>
            proc'[q].record = rec'[proc'[q].owner]
      BY <2>2, <3>1 DEF AttemptInv, Written, LockedSteps, OwnedSteps, Locked
    <3> QED
      BY <3>1, <3>2, <3>3, <3>4 DEF AttemptInv, Named, Reserved
  <2> QED
    BY <2>1, <2>2
<1>3. LockInv'
  BY DEF ProgressInv, LockInv, Locked
<1> QED
  BY <1>1, <1>2, <1>3 DEF ProgressInv

(* What a process is and has in hand.                                       *)
LEMMA WorkKnown ==
  ASSUME PendingInv, ProgressInv, NEW p \in Procs
  PROVE  /\ proc \in [Procs -> [step : Steps, owner : PowerOwners \cup {None}, record : Records,
                                lost : SUBSET (Checkpoints \X PowerOwners)]]
         /\ proc[p].step \in OwnedSteps => proc[p].owner \in PowerOwners
         /\ p \in PowerOwners => proc[p].owner = IF proc[p].step \in Unstarted \cup {"ended"} THEN None ELSE p
         /\ AttemptInv(p, proc[p])
         /\ \A pair \in proc[p].lost : pair[2] \in PowerOwners /\ proc[pair[2]].step \notin Unstarted
         /\ Locked(p) => \A q \in Procs \ {p} : Locked(q) => proc[q].owner # proc[p].owner
<1>1. /\ proc \in [Procs -> [step : Steps, owner : PowerOwners \cup {None}, record : Records,
                             lost : SUBSET (Checkpoints \X PowerOwners)]]
      /\ proc[p].step \in OwnedSteps => proc[p].owner # None
  BY DEF PendingInv, WorkTypeOK, StepsInv
<1>2. ASSUME NEW pair \in proc[p].lost
      PROVE  pair[2] \in PowerOwners /\ proc[pair[2]].step \notin Unstarted
  <2>1. pair[2] \in PowerOwners
    BY <1>1
  <2> QED
    BY <2>1 DEF ProgressInv, RequestInv
<1> QED
  BY <1>1, <1>2 DEF ProgressInv, RequestInv, LockInv

(* A process that ends, by itself or killed, leaves the records.           *)
LEMMA EndProgress ==
  ASSUME PendingInv, ProgressInv, NEW p \in Procs, End(p), proc[p].step \notin Unstarted,
         UNCHANGED <<storeVars, rec, overwritten>>
  PROVE  ProgressInv'
<1>1. /\ proc'[p] = Ended /\ proc'[p].step = "ended" /\ proc'[p].lost = {} /\ proc'[p].owner = None
      /\ proc'[p].record.state = "none"
      /\ \A q \in Procs \ {p} : proc'[q] = proc[q]
  BY WorkKnown DEF End, Ended, NoRecord
<1>2. AttemptInv(p, proc[p])'
  BY <1>1 DEF AttemptInv, Named, LockedSteps
<1> QED
  BY <1>1, <1>2, ProcessStep DEF Unstarted, Locked, storeVars

LEMMA KillProgress ==
  ASSUME PendingInv, ProgressInv, NEW p \in Procs,
         KillProcess(p) \/ ReleaseRefused(p) \/ UnlinkArchive(p)
  PROVE  ProgressInv'
BY EndProgress DEF KillProcess, ReleaseRefused, UnlinkArchive, Active, Unstarted

(* A step that changes no more than where the process is.                  *)
LEMMA GoToProgress ==
  ASSUME PendingInv, ProgressInv, NEW p \in Procs, NEW step \in OwnedSteps \ {"queue", "complete"},
         GoTo(p, step), UNCHANGED <<storeVars, rec, overwritten>>,
         proc[p].step \notin Unstarted \cup {"ended"},
         proc[p].owner \in PowerOwners,
         step = "lock" \/ (Locked(p) /\ proc[p].step # "unlink"),
         step \in {"archive", "archived", "transfer", "transferred"} =>
           proc[p].record.state \in {"checkpoint-ready", "pending-upload"},
         step = "unpin" => proc[p].record.state = "uploaded"
  PROVE  ProgressInv'
<1>1. /\ proc'[p].step = step /\ proc'[p].lost = proc[p].lost /\ proc'[p].owner = proc[p].owner
      /\ proc'[p].record = proc[p].record
      /\ \A q \in Procs \ {p} : proc'[q] = proc[q]
  BY WorkKnown DEF GoTo
<1>2. AttemptInv(p, proc[p])'
  BY <1>1, WorkKnown DEF AttemptInv, Named, LockedSteps, OwnedSteps, Reserved, Locked, storeVars
<1>3. step \notin Unstarted \cup {"ended"}
  BY DEF OwnedSteps, Unstarted
<1>4. Locked(p)' => Locked(p)
  BY <1>1 DEF Locked
<1> QED
  BY <1>1, <1>2, <1>3, <1>4, WorkKnown, ProcessStep DEF Locked, storeVars

(* Under the lock the record is read again.                                *)
LEMMA LockProgress ==
  ASSUME PendingInv, ProgressInv, NEW p \in Procs, Lock(p)
  PROVE  ProgressInv'
<1>0. /\ proc[p].step = "lock" /\ UNCHANGED <<storeVars, rec, overwritten>>
      /\ proc[p].owner \in PowerOwners
  BY WorkKnown DEF Lock, OwnedSteps
<1>1. CASE End(p)
  BY <1>0, <1>1, EndProgress DEF Unstarted
<1> DEFINE o == proc[p].owner
<1>2. CASE ~Held(o, p) /\ proc' = [proc EXCEPT ![p] = [@ EXCEPT !.step = "match", !.record = rec[o]]]
  <2>1. rec[o] \in Records /\ "match" \in Steps /\ Named(rec[o])
    BY <1>0 DEF PendingInv, WorkTypeOK, Steps, ProgressInv, RecordInv
  <2>2. proc' = [proc EXCEPT ![p] = [step |-> "match", owner |-> o, record |-> rec[o], lost |-> proc[p].lost]]
    <3>1. [proc[p] EXCEPT !.step = "match", !.record = rec[o]] =
          [step |-> "match", owner |-> o, record |-> rec[o], lost |-> proc[p].lost]
      BY ZenonT(60), <2>1, RecordReplaced DEF PendingInv
    <3> QED
      BY <1>2, <3>1, Zenon
  <2>3. /\ proc'[p].step = "match" /\ proc'[p].lost = proc[p].lost /\ proc'[p].owner = o
        /\ proc'[p].record = rec[o]
        /\ \A q \in Procs \ {p} : proc'[q] = proc[q]
    BY <2>2, WorkKnown
  <2>4. AttemptInv(p, proc[p])'
    BY <1>0, <2>1, <2>3, WorkKnown DEF AttemptInv, Named, Reserved, storeVars
  <2>5. \A q \in Procs \ {p} : Locked(q) => proc[q].owner # o
    BY <1>2 DEF Held
  <2> QED
    BY <1>0, <2>3, <2>4, <2>5, WorkKnown, ProcessStep DEF Unstarted, storeVars
<1> QED
  BY <1>1, <1>2 DEF Lock

(* An uploaded record without its pin is one whose pin was released: the    *)
(* pins can be read and it has none.                                        *)
LEMMA MatchProgress ==
  ASSUME PendingInv, ProgressInv, NEW p \in Procs, Match(p)
  PROVE  ProgressInv'
<1> DEFINE o == proc[p].owner
           id == proc[p].record.checkpoint
<1>0. /\ proc[p].step = "match" /\ UNCHANGED <<storeVars, rec, overwritten>>
      /\ o \in PowerOwners
      /\ proc[p].record.state \in {"checkpoint-ready", "pending-upload", "uploaded"}
  BY WorkKnown DEF Match, OwnedSteps, PendingInv, StepsInv, ReadSteps
<1>1. CASE End(p)
  BY <1>0, <1>1, EndProgress DEF Unstarted
<1>2. CASE GoTo(p, "archive") /\ proc[p].record.state = "checkpoint-ready"
  BY <1>0, <1>2, GoToProgress DEF Unstarted, OwnedSteps, Locked
<1>3. CASE GoTo(p, "transfer") /\ proc[p].record.state = "pending-upload"
  BY <1>0, <1>3, GoToProgress DEF Unstarted, OwnedSteps, Locked
<1>4. CASE GoTo(p, "unpin") /\ proc[p].record.state = "uploaded"
  BY <1>0, <1>4, GoToProgress DEF Unstarted, OwnedSteps, Locked
<1>5. CASE GoTo(p, "complete") /\ proc[p].record.state = "uploaded" /\ PinsUsable /\ pin[id][o] # "whole"
  <2>1. /\ proc'[p].step = "complete" /\ proc'[p].lost = proc[p].lost /\ proc'[p].owner = o
        /\ proc'[p].record = proc[p].record
        /\ \A q \in Procs \ {p} : proc'[q] = proc[q]
    BY <1>5, WorkKnown DEF GoTo
  <2>2. id \in Checkpoints
    BY <1>5, WorkKnown DEF AttemptInv, Named
  <2>3. pin[id][o] = "none"
    BY <1>0, <1>5, <2>2, Identities DEF PinsUsable, PinsReadable, PendingInv, IInv, StoreTypeOK
  <2>4. AttemptInv(p, proc[p])'
    BY <1>0, <1>5, <2>1, <2>3, WorkKnown DEF AttemptInv, Named, Reserved, storeVars, LockedSteps
  <2> QED
    BY <1>0, <2>1, <2>4, WorkKnown, ProcessStep DEF Unstarted, Locked, storeVars
<1> QED
  BY <1>0, <1>1, <1>2, <1>3, <1>4, <1>5 DEF Match

LEMMA ArchiveProgress ==
  ASSUME PendingInv, ProgressInv, NEW p \in Procs, Archive(p) \/ Transfer(p)
  PROVE  ProgressInv'
<1>1. /\ proc[p].step \in {"archive", "transfer"} /\ UNCHANGED <<storeVars, rec, overwritten>>
      /\ proc[p].owner \in PowerOwners
      /\ proc[p].record.state \in {"checkpoint-ready", "pending-upload"}
  BY WorkKnown DEF Archive, Transfer, OwnedSteps, AttemptInv
<1>2. GoTo(p, "archived") \/ GoTo(p, "transferred")
  BY DEF Archive, Transfer
<1> QED
  BY <1>1, <1>2, GoToProgress DEF Unstarted, OwnedSteps, Locked

(* The record in hand is the one on the disk, so that what replaces it can  *)
(* be continued.                                                            *)
LEMMA AdvanceProgress ==
  ASSUME PendingInv, ProgressInv, NEW p \in Procs, MarkArchived(p) \/ MarkUploaded(p)
  PROVE  ProgressInv'
<1>o. PICK o \in PowerOwners : o = proc[p].owner
  BY WorkKnown DEF MarkArchived, MarkUploaded, OwnedSteps
<1>1. PICK step \in {"transfer", "unpin"}, state \in {"pending-upload", "uploaded"} :
        Advance(p, step, state) /\ (step = "transfer" <=> state = "pending-upload")
  BY DEF MarkArchived, MarkUploaded
<1>2. /\ proc[p].step \in {"archived", "transferred"} /\ UNCHANGED <<storeVars, overwritten>>
      /\ o = proc[p].owner /\ Locked(p)
      /\ proc[p].record.state \in {"checkpoint-ready", "pending-upload"}
  BY <1>o, WorkKnown DEF MarkArchived, MarkUploaded, OwnedSteps, AttemptInv, Locked
<1> DEFINE record == [proc[p].record EXCEPT !.state = state]
<1>3. /\ record \in Records /\ record.state = state /\ record.checkpoint = proc[p].record.checkpoint
      /\ step \in Steps
  BY <1>1, WorkKnown DEF Records, Steps
<1>4. /\ rec' = [rec EXCEPT ![o] = record]
      /\ proc' = [proc EXCEPT ![p] = [@ EXCEPT !.step = step, !.record = record]]
  BY <1>1, <1>2 DEF Advance
<1> HIDE DEF record
<1>5. proc' = [proc EXCEPT ![p] = [step |-> step, owner |-> o, record |-> record, lost |-> proc[p].lost]]
  <2>1. [proc[p] EXCEPT !.step = step, !.record = record] =
        [step |-> step, owner |-> o, record |-> record, lost |-> proc[p].lost]
    <3>1. WorkTypeOK
      BY DEF PendingInv
    <3> QED
      BY <1>2, <1>3, <3>1, RecordReplaced, Zenon
  <2> QED
    BY <1>4, <2>1, Zenon
<1>6. /\ proc'[p].step = step /\ proc'[p].lost = proc[p].lost /\ proc'[p].owner = o
      /\ proc'[p].record = record
      /\ \A q \in Procs \ {p} : proc'[q] = proc[q]
  BY <1>5, WorkKnown
<1>7. rec'[o] = record /\ \A other \in PowerOwners \ {o} : rec'[other] = rec[other]
  BY <1>2, <1>4 DEF PendingInv, WorkTypeOK
<1>8. AttemptInv(p, proc[p])'
  BY <1>1, <1>2, <1>3, <1>6, <1>7, WorkKnown DEF AttemptInv, Named, Reserved, storeVars
<1>9. RecordInv(o)'
  <2>1. o \notin overwritten => proc[p].record = rec[o]
    BY <1>2, WorkKnown DEF AttemptInv, LockedSteps
  <2>2. RecordInv(o) /\ Named(proc[p].record)
    BY <1>2, WorkKnown DEF ProgressInv, AttemptInv
  <2> QED
    BY <1>1, <1>2, <1>3, <1>7, <2>1, <2>2 DEF RecordInv, Named, Reserved, storeVars
<1>10. Written(p, o)
  <2>1. proc[o].step \notin Unstarted
    <3>1. rec[o].state # "none"
      BY <1>2 DEF PendingInv, StepsInv
    <3> QED
      BY <1>2, <3>1 DEF ProgressInv, RequestInv
  <2> QED
    BY <1>1, <1>2, <1>3, <1>7, <1>9, <2>1, WorkKnown DEF Written
<1> QED
  BY <1>1, <1>2, <1>6, <1>7, <1>8, <1>10, WorkKnown, ProcessStep DEF Unstarted, Locked, storeVars

(* What could not be done leaves the record as it was read.                 *)
LEMMA RecordFailureProgress ==
  ASSUME PendingInv, ProgressInv, NEW p \in Procs, RecordFailure(p)
  PROVE  ProgressInv'
<1>o. PICK o \in PowerOwners : o = proc[p].owner
  BY WorkKnown DEF RecordFailure, Attempting, OwnedSteps
<1>1. /\ proc[p].step \in {"archive", "archived", "transfer", "transferred"}
      /\ UNCHANGED <<storeVars, overwritten>>
      /\ o = proc[p].owner /\ Locked(p)
      /\ proc[p].record.state \in {"checkpoint-ready", "pending-upload"}
  BY <1>o, WorkKnown DEF RecordFailure, Attempting, OwnedSteps, AttemptInv, Locked
<1>2. rec' = [rec EXCEPT ![o] = proc[p].record]
  <2>1. [proc[p].record EXCEPT !.state = proc[p].record.state] = proc[p].record
    BY WorkKnown DEF Records
  <2> QED
    BY <1>1, <2>1 DEF RecordFailure, WriteRecordAs
<1>3. /\ proc'[p].step = "ended" /\ proc'[p].lost = {} /\ proc'[p].owner = None
      /\ proc'[p].record.state = "none"
      /\ \A q \in Procs \ {p} : proc'[q] = proc[q]
  BY WorkKnown DEF RecordFailure, End, Ended, NoRecord
<1>4. AttemptInv(p, proc[p])'
  BY <1>3 DEF AttemptInv, Named, LockedSteps
<1>5. rec'[o] = proc[p].record /\ \A other \in PowerOwners \ {o} : rec'[other] = rec[other]
  BY <1>1, <1>2 DEF PendingInv, WorkTypeOK
<1>6. RecordInv(o)'
  <2>1. o \notin overwritten => proc[p].record = rec[o]
    BY <1>1, WorkKnown DEF AttemptInv, LockedSteps
  <2>2. RecordInv(o) /\ Named(proc[p].record)
    BY <1>1, WorkKnown DEF ProgressInv, AttemptInv
  <2> QED
    BY <1>1, <1>5, <2>1, <2>2 DEF RecordInv, Named, Reserved, storeVars
<1>7. Written(p, o)
  <2>1. rec[o].state # "none"
    BY <1>1 DEF PendingInv, StepsInv
  <2>2. proc[o].step \notin Unstarted
    BY <1>1, <2>1 DEF ProgressInv, RequestInv
  <2> QED
    BY <1>1, <1>5, <1>6, <2>2, WorkKnown DEF Written
<1> QED
  BY <1>1, <1>3, <1>4, <1>5, <1>7, WorkKnown, ProcessStep DEF Unstarted, Locked, storeVars

(* A record is completed when its pin is gone.                              *)
LEMMA MarkCompletedProgress ==
  ASSUME PendingInv, ProgressInv, NEW p \in Procs, MarkCompleted(p)
  PROVE  ProgressInv'
<1>o. PICK o \in PowerOwners : o = proc[p].owner
  BY WorkKnown DEF MarkCompleted, OwnedSteps
<1> DEFINE record == [proc[p].record EXCEPT !.state = "completed"]
<1>1. /\ proc[p].step = "complete" /\ UNCHANGED <<storeVars, overwritten>>
      /\ o = proc[p].owner /\ Locked(p)
      /\ pin[proc[p].record.checkpoint][o] = "none"
      /\ Named(proc[p].record) /\ proc[p].record.state = "uploaded"
  BY <1>o, WorkKnown DEF MarkCompleted, OwnedSteps, AttemptInv, Locked
<1>2. record.state = "completed" /\ record.checkpoint = proc[p].record.checkpoint
  BY WorkKnown DEF Records
<1>3. rec'[o] = record /\ \A other \in PowerOwners \ {o} : rec'[other] = rec[other]
  BY <1>1 DEF MarkCompleted, WriteRecordAs, PendingInv, WorkTypeOK
<1> HIDE DEF record
<1>4. /\ proc'[p].step = "unlink" /\ proc'[p].lost = proc[p].lost /\ proc'[p].owner = o
      /\ proc'[p].record = proc[p].record
      /\ \A q \in Procs \ {p} : proc'[q] = proc[q]
  BY <1>o, WorkKnown DEF MarkCompleted, GoTo
<1>5. AttemptInv(p, proc[p])'
  BY <1>1, <1>2, <1>3, <1>4, WorkKnown DEF AttemptInv, Named, Reserved, storeVars
<1>6. RecordInv(o)'
  BY <1>1, <1>2, <1>3 DEF RecordInv, Named, storeVars
<1>7. Written(p, o)
  <2>1. rec[o].state # "none"
    BY <1>1 DEF PendingInv, StepsInv
  <2>2. proc[o].step \notin Unstarted
    BY <1>1, <2>1 DEF ProgressInv, RequestInv
  <2> QED
    BY <1>1, <1>2, <1>3, <1>6, <2>2, WorkKnown DEF Written
<1> QED
  BY <1>1, <1>3, <1>4, <1>5, <1>7, WorkKnown, ProcessStep DEF Unstarted, Locked, storeVars

(* The first record of a request finds its checkpoint still reserved, or    *)
(* writes over what a retry has made of its pin meanwhile.                  *)
LEMMA QueueProgress ==
  ASSUME PendingInv, ProgressInv, NEW p \in Procs, Queue(p)
  PROVE  ProgressInv'
<1>1. /\ proc[p].step = "queue" /\ UNCHANGED storeVars
      /\ p \in PowerOwners /\ proc[p].owner = p
      /\ proc[p].record.state = "checkpoint-ready" /\ Named(proc[p].record)
      /\ rec[p].state = "none" => Reserved(p, proc[p].record.checkpoint)
  BY WorkKnown DEF Queue, PendingInv, StepsInv, Procs, Unstarted, AttemptInv
<1> DEFINE record == [proc[p].record EXCEPT !.state = "checkpoint-ready"]
<1>2. record.state = "checkpoint-ready" /\ record.checkpoint = proc[p].record.checkpoint
  BY WorkKnown DEF Records
<1>3. rec'[p] = record /\ \A other \in PowerOwners \ {p} : rec'[other] = rec[other]
  BY <1>1 DEF Queue, WriteRecordAs, PendingInv, WorkTypeOK
<1> HIDE DEF record
<1>4. /\ overwritten \subseteq overwritten'
      /\ p \notin overwritten' => rec[p].state = "none"
  BY DEF Queue, NoteOverwritten
<1>5. /\ proc'[p].step = "recover-pins" /\ proc'[p].lost = proc[p].lost /\ proc'[p].owner = p
      /\ proc'[p].record = NoRecord
      /\ \A q \in Procs \ {p} : proc'[q] = proc[q]
  <2>1. [proc[p] EXCEPT !.step = "recover-pins", !.record = NoRecord] =
        [step |-> "recover-pins", owner |-> proc[p].owner, record |-> NoRecord, lost |-> proc[p].lost]
    <3>1. NoRecord \in Records /\ WorkTypeOK /\ "recover-pins" \in Steps
      BY DEF NoRecord, Records, PendingInv, Steps
    <3> QED
      BY <3>1, RecordReplaced, Zenon
  <2>2. proc' = [proc EXCEPT ![p] = [@ EXCEPT !.step = "recover-pins", !.record = NoRecord]]
    BY DEF Queue
  <2>3. proc' = [proc EXCEPT ![p] = [step |-> "recover-pins", owner |-> proc[p].owner,
                                     record |-> NoRecord, lost |-> proc[p].lost]]
    BY <2>1, <2>2, Zenon
  <2> QED
    BY <1>1, <2>3, WorkKnown
<1>6. AttemptInv(p, proc[p])'
  <2>1. \A pair \in proc[p].lost : rec'[pair[2]].state = "none" => rec[pair[2]].state = "none"
    BY <1>2, <1>3, WorkKnown
  <2> QED
    BY <1>1, <1>5, <2>1, WorkKnown DEF AttemptInv, Named, NoRecord, Reserved, storeVars,
         LockedSteps
<1>7. Written(p, p)
  BY <1>1, <1>2, <1>3, <1>4 DEF Written, RecordInv, Named, Reserved, storeVars, Unstarted,
       ProgressInv,
                                LockInv, Locked, PendingInv, StepsInv
<1> QED
  BY <1>1, <1>3, <1>4, <1>5, <1>6, <1>7, WorkKnown, ProcessStep DEF Unstarted, Locked, storeVars

(* Pins without a record are of requests that have returned from capture.   *)
LEMMA RecoverPinsProgress ==
  ASSUME PendingInv, ProgressInv, NEW p \in Procs, RecoverPins(p)
  PROVE  ProgressInv'
<1>1. proc[p].step = "recover-pins" /\ UNCHANGED <<storeVars, rec, overwritten>> /\ store = Idle
  BY DEF RecoverPins
<1>2. CASE End(p)
  BY <1>1, <1>2, EndProgress DEF Unstarted
<1> DEFINE lost == {pair \in PinnedPairs : rec[pair[2]].state = "none"}
<1>3. CASE /\ PinsUsable
           /\ proc' = [proc EXCEPT ![p] = [@ EXCEPT !.step = "rewrite", !.lost = lost]]
  <2>1. lost \subseteq Checkpoints \X PowerOwners
    BY DEF PinnedPairs
  <2>2. ASSUME NEW pair \in lost
        PROVE  /\ Reserved(pair[2], pair[1])
               /\ pair[2] \in PowerOwners /\ proc[pair[2]].step \notin Unstarted
    <3>1. pair[2] \in PowerOwners /\ pair[1] \in Checkpoints /\ pin[pair[1]][pair[2]] = "whole"
      BY <2>1 DEF PinnedPairs
    <3>2. Reserved(pair[2], pair[1])
      BY <1>3, <3>1 DEF PinnedPairs, PinsUsable, RecordsReadable, Complete, Reserved
    <3>3. proc[pair[2]].step \notin Unstarted
      BY <1>1, <3>1, Identities DEF ProgressInv, RequestInv, Unstarted, Idle
    <3> QED
      BY <3>1, <3>2, <3>3
  <2> HIDE DEF lost
  <2>3. /\ proc'[p].step = "rewrite" /\ proc'[p].lost = lost /\ proc'[p].owner = proc[p].owner
        /\ proc'[p].record = proc[p].record
        /\ \A q \in Procs \ {p} : proc'[q] = proc[q]
    <3>1. [proc[p] EXCEPT !.step = "rewrite", !.lost = lost] =
          [step |-> "rewrite", owner |-> proc[p].owner, record |-> proc[p].record, lost |-> lost]
      BY <2>1, LostReplaced DEF PendingInv, Steps
    <3>2. proc' = [proc EXCEPT ![p] = [step |-> "rewrite", owner |-> proc[p].owner,
                                       record |-> proc[p].record, lost |-> lost]]
      BY <1>3, <3>1, Zenon
    <3> QED
      BY <3>2, WorkKnown
  <2>4. AttemptInv(p, proc[p])'
    BY <1>1, <2>2, <2>3, WorkKnown DEF AttemptInv, Named, Reserved, storeVars, LockedSteps
  <2> QED
    BY <1>1, <2>2, <2>3, <2>4, WorkKnown, ProcessStep DEF Unstarted, Locked, storeVars
<1> QED
  BY <1>2, <1>3 DEF RecoverPins

LEMMA RewriteLostProgress ==
  ASSUME PendingInv, ProgressInv, NEW p \in Procs, RewriteLost(p)
  PROVE  ProgressInv'
<1>1. PICK pair \in proc[p].lost :
        /\ rec' = [rec EXCEPT ![pair[2]] = Ready(pair[1])]
        /\ proc' = [proc EXCEPT ![p].lost = @ \ {pair}]
        /\ NoteOverwritten(pair[2])
  BY DEF RewriteLost
<1>2. /\ proc[p].step = "rewrite" /\ UNCHANGED storeVars
      /\ pair[1] \in Checkpoints /\ pair[2] \in PowerOwners /\ proc[pair[2]].step \notin Unstarted
      /\ rec[pair[2]].state = "none" => Reserved(pair[2], pair[1])
  BY WorkKnown DEF RewriteLost, AttemptInv
<1>3. PICK o \in PowerOwners : o = pair[2]
  BY <1>2
<1>4. /\ rec'[o].state = "checkpoint-ready" /\ rec'[o].checkpoint = pair[1]
      /\ \A other \in PowerOwners \ {o} : rec'[other] = rec[other]
  BY <1>1, <1>3 DEF Ready, PendingInv, WorkTypeOK
<1>5. /\ overwritten \subseteq overwritten'
      /\ o \notin overwritten' => rec[o].state = "none"
  BY <1>1, <1>3 DEF NoteOverwritten
<1>6. /\ proc'[p].step = "rewrite" /\ proc'[p].lost \subseteq proc[p].lost
      /\ proc'[p].owner = proc[p].owner /\ proc'[p].record = proc[p].record
      /\ \A q \in Procs \ {p} : proc'[q] = proc[q]
  BY <1>1, <1>2, WorkKnown
<1>7. AttemptInv(p, proc[p])'
  <2>1. \A other \in proc[p].lost : rec'[other[2]].state = "none" => rec[other[2]].state = "none"
    BY <1>4, WorkKnown
  <2> QED
    BY <1>2, <1>6, <2>1, WorkKnown DEF AttemptInv, Named, Reserved, storeVars, LockedSteps
<1>8. Written(p, o)
  <2>1. RecordInv(o)'
    BY <1>2, <1>3, <1>4, <1>5 DEF RecordInv, Named, Reserved, storeVars
  <2>2. rec[o].state = "none" => \A q \in Procs \ {p} : Locked(q) => proc[q].owner # o
    BY Identities DEF PendingInv, StepsInv, Locked
  <2> QED
    BY <1>2, <1>3, <1>4, <1>5, <2>1, <2>2 DEF Written
<1> QED
  BY <1>2, <1>4, <1>5, <1>6, <1>7, <1>8, WorkKnown, ProcessStep DEF Unstarted, Locked, storeVars

LEMMA RewrittenProgress ==
  ASSUME PendingInv, ProgressInv, NEW p \in Procs, Rewritten(p)
  PROVE  ProgressInv'
<1>1. proc[p].step = "rewrite" /\ proc[p].lost = {} /\ UNCHANGED <<storeVars, rec, overwritten>>
  BY DEF Rewritten
<1>2. CASE End(p)
  BY <1>1, <1>2, EndProgress DEF Unstarted
<1>3. CASE proc[p].owner # None /\ GoTo(p, "lock")
  BY <1>1, <1>3, WorkKnown, GoToProgress DEF Unstarted, OwnedSteps
<1> DEFINE oldest == OldestQueued
<1>4. CASE /\ Queued # {}
           /\ proc[p].owner = None
           /\ proc' = [proc EXCEPT ![p] = [@ EXCEPT !.step = "recover-pins", !.owner = oldest]]
  <2>1. oldest \in PowerOwners
    BY <1>4, OldestQueuedIsQueued DEF Queued, PendingInv
  <2>2. p \notin PowerOwners
    BY <1>1, <1>4, WorkKnown, Identities DEF Unstarted
  <2> HIDE DEF oldest
  <2>3. /\ proc'[p].step = "recover-pins" /\ proc'[p].lost = proc[p].lost
        /\ proc'[p].record = proc[p].record
        /\ \A q \in Procs \ {p} : proc'[q] = proc[q]
    <3>1. [proc[p] EXCEPT !.step = "recover-pins", !.owner = oldest] =
          [step |-> "recover-pins", owner |-> oldest, record |-> proc[p].record, lost |-> proc[p].lost]
      BY <2>1, OwnerReplaced DEF PendingInv, Steps
    <3>2. proc' = [proc EXCEPT ![p] = [step |-> "recover-pins", owner |-> oldest,
                                       record |-> proc[p].record, lost |-> proc[p].lost]]
      BY <1>4, <3>1, Zenon
    <3> QED
      BY <3>2, WorkKnown
  <2>4. AttemptInv(p, proc[p])'
    BY <1>1, <2>3, WorkKnown DEF AttemptInv, Named, Reserved, storeVars, LockedSteps
  <2> QED
    BY <1>1, <2>2, <2>3, <2>4, ProcessStep DEF Unstarted, Locked, storeVars
<1> QED
  BY <1>2, <1>3, <1>4 DEF Rewritten

(* The pin that is released is of an uploaded record, and nobody else's.    *)
LEMMA ReleaseProgress ==
  ASSUME PendingInv, ProgressInv, NEW p \in Procs, Release(p)
  PROVE  ProgressInv'
<1>o. PICK o \in PowerOwners : o = proc[p].owner
  BY WorkKnown DEF Release, OwnedSteps
<1>c. PICK c \in Checkpoints : c = proc[p].record.checkpoint
  BY WorkKnown DEF Release, AttemptInv, Named
<1>1. /\ proc[p].step = "unpin" /\ Unpin(o, c) /\ GoTo(p, "complete")
      /\ UNCHANGED <<rec, overwritten>>
      /\ proc[p].record.state = "uploaded"
      /\ o \notin overwritten => rec[o].state = "uploaded"
      /\ rec[o].state # "none"
  BY <1>o, <1>c, WorkKnown DEF Release, AttemptInv, LockedSteps, PendingInv, StepsInv
<1>2. /\ UNCHANGED <<meta, createdAt, tree, store>>
      /\ pin'[c][o] = "none"
      /\ \A id \in Checkpoints, other \in PowerOwners :
           pin'[id][other] = pin[id][other] \/ (other = o /\ pin'[id][other] = "none")
  BY <1>1, Identities DEF Unpin, PendingInv, IInv, StoreTypeOK
<1>3. /\ proc'[p].step = "complete" /\ proc'[p].lost = proc[p].lost /\ proc'[p].owner = o
      /\ proc'[p].record = proc[p].record
      /\ \A q \in Procs \ {p} : proc'[q] = proc[q]
  BY <1>o, <1>1, WorkKnown DEF GoTo
<1>4. ASSUME NEW other \in PowerOwners
      PROVE  RecordInv(other)' /\ RequestInv(other)'
  <2>1. RecordInv(other) /\ RequestInv(other) /\ other \in Procs
    BY DEF ProgressInv, Procs
  <2>2. RecordInv(other)'
    BY <1>1, <1>2, <2>1 DEF RecordInv, Named, Reserved
  <2>3. RequestInv(other)'
    BY <1>o, <1>1, <1>2, <1>3, <2>1 DEF RequestInv, Unstarted
  <2> QED
    BY <2>2, <2>3
<1>5. ASSUME NEW q \in Procs
      PROVE  AttemptInv(q, proc[q])'
  <2>1. /\ AttemptInv(q, proc[q])
        /\ proc[q].lost \subseteq Checkpoints \X PowerOwners
        /\ proc[q].step \in OwnedSteps => proc[q].owner \in PowerOwners
        /\ proc[q].step = "queue" => q \in PowerOwners /\ proc[q].record.state # "none"
    BY WorkKnown DEF PendingInv, StepsInv, Procs
  <2>2. /\ proc'[q].lost = proc[q].lost /\ proc'[q].owner = proc[q].owner
        /\ proc'[q].record = proc[q].record
        /\ proc'[q].step = IF q = p THEN "complete" ELSE proc[q].step
    BY <1>o, <1>3
  <2>3. \A pair \in proc[q].lost : rec[pair[2]].state = "none" => Reserved(pair[2], pair[1])'
    BY <1>1, <1>2, <2>1 DEF AttemptInv, Reserved
  <2>4. proc'[q].step = "complete" => pin'[proc[q].record.checkpoint][proc[q].owner] = "none"
    BY <1>o, <1>c, <1>2, <2>1, <2>2 DEF AttemptInv, Named, OwnedSteps
  <2>5. proc'[q].step = "queue" /\ rec[q].state = "none" => Reserved(q, proc[q].record.checkpoint)'
    BY <1>1, <1>2, <2>1, <2>2 DEF AttemptInv, Named, Reserved
  <2> QED
    BY <1>1, <2>1, <2>2, <2>3, <2>4, <2>5 DEF AttemptInv, Named, LockedSteps
<1>6. LockInv'
  BY <1>o, <1>1, <1>3 DEF ProgressInv, LockInv, Locked
<1> QED
  BY <1>4, <1>5, <1>6 DEF ProgressInv

(* A request begins without pins and without a record, and others have      *)
(* found nothing of it.                                                     *)
LEMMA BeginCaptureProgress ==
  ASSUME PendingInv, ProgressInv, NEW o \in PowerOwners, NEW id \in Checkpoints, BeginCapture(o, id)
  PROVE  ProgressInv'
<1>1. /\ proc[o].step = "new" /\ store = Idle /\ store'.owner = o
      /\ UNCHANGED <<meta, tree, pin, rec, overwritten>> /\ o \in Procs
  BY DEF BeginCapture, BeginCreate, Procs
<1>2. /\ proc'[o].step = "capturing" /\ proc'[o].lost = proc[o].lost /\ proc'[o].owner = proc[o].owner
      /\ proc'[o].record = proc[o].record
      /\ \A q \in Procs \ {o} : proc'[q] = proc[q]
  BY <1>1, WorkKnown DEF BeginCapture, GoTo
<1>3. ASSUME NEW other \in PowerOwners
      PROVE  RecordInv(other)' /\ RequestInv(other)'
  <2>1. RecordInv(other) /\ RequestInv(other) /\ other \in Procs
    BY DEF ProgressInv, Procs
  <2>2. \A q \in Procs : proc'[q].lost = proc[q].lost
    BY <1>2
  <2>3. RequestInv(other)'
    BY <1>1, <1>2, <2>1, <2>2, Identities DEF RequestInv, Unstarted, Idle
  <2> QED
    BY <1>1, <2>1, <2>3 DEF RecordInv, Named, Reserved
<1>4. ASSUME NEW q \in Procs
      PROVE  AttemptInv(q, proc[q])'
  <2>1. AttemptInv(q, proc[q])
    BY DEF ProgressInv
  <2> QED
    BY <1>1, <1>2, <2>1 DEF AttemptInv, Named, Reserved, LockedSteps
<1>5. LockInv'
  BY <1>1, <1>2 DEF ProgressInv, LockInv, Locked
<1> QED
  BY <1>3, <1>4, <1>5 DEF ProgressInv

(* A request that has captured its checkpoint has it reserved.              *)
LEMMA CapturedProgress ==
  ASSUME PendingInv, ProgressInv, NEW o \in PowerOwners, Captured(o) \/ CaptureFailed(o)
  PROVE  ProgressInv'
<1>1. /\ proc[o].step = "capturing" /\ store.owner = o /\ store' = Idle
      /\ UNCHANGED <<meta, createdAt, tree, pin, rec, overwritten>> /\ o \in Procs
  BY DEF Captured, CaptureFailed, Return, ReleaseStore, Procs
<1>2. \A q \in Procs \ {o} : proc'[q] = proc[q]
  BY DEF Captured, CaptureFailed, End, PendingInv, WorkTypeOK
<1>3. /\ proc'[o].step = "ended" /\ proc'[o].owner = None /\ proc'[o].lost = {}
         /\ proc'[o].record.state = "none"
      \/ /\ proc'[o].step = "queue" /\ proc'[o].owner = o /\ proc'[o].lost = proc[o].lost
         /\ proc'[o].record.checkpoint \in Checkpoints /\ Reserved(o, proc'[o].record.checkpoint)
  <2>1. CASE CaptureFailed(o)
    BY <1>1, <2>1, WorkKnown DEF CaptureFailed, End, Ended, NoRecord
  <2>2. CASE Captured(o)
    <3>1. store.id \in Checkpoints /\ Reserved(o, store.id)
      BY <2>2, Identities DEF Captured, PendingInv, CaptureInv, PinnedSteps, IInv, HolderInv,
           PublishedSteps,
                              StoreTypeOK, Reserved
    <3> DEFINE ready == Ready(store.id)
    <3>2. ready.checkpoint = store.id
      BY DEF Ready
    <3>3. proc' = [proc EXCEPT ![o] = [@ EXCEPT !.step = "queue", !.owner = o, !.record = ready]]
      BY <2>2 DEF Captured
    <3> HIDE DEF ready
    <3>4. /\ proc'[o].step = "queue" /\ proc'[o].owner = o /\ proc'[o].lost = proc[o].lost
          /\ proc'[o].record = ready
      BY <1>1, <3>3, WorkKnown
    <3> QED
      BY <3>1, <3>2, <3>4
  <2> QED
    BY <2>1, <2>2
<1>4. ASSUME NEW other \in PowerOwners
      PROVE  RecordInv(other)' /\ RequestInv(other)'
  <2>1. RecordInv(other) /\ RequestInv(other) /\ other \in Procs
    BY DEF ProgressInv, Procs
  <2>2. \A q \in Procs : proc'[q].lost \subseteq proc[q].lost
    BY <1>2, <1>3
  <2>3. RequestInv(other)'
    BY <1>1, <1>2, <1>3, <2>1, <2>2, Identities DEF RequestInv, Unstarted, Idle
  <2> QED
    BY <1>1, <2>1, <2>3 DEF RecordInv, Named, Reserved
<1>5. ASSUME NEW q \in Procs
      PROVE  AttemptInv(q, proc[q])'
  <2>1. AttemptInv(q, proc[q])
    BY DEF ProgressInv
  <2>2. CASE q = o
    BY <1>1, <1>3, <2>1, <2>2 DEF AttemptInv, Named, Reserved, LockedSteps
  <2>3. CASE q # o
    BY <1>1, <1>2, <2>1, <2>3 DEF AttemptInv, Named, Reserved, LockedSteps
  <2> QED
    BY <2>2, <2>3
<1>6. LockInv'
  BY <1>1, <1>2, <1>3 DEF ProgressInv, LockInv, Locked
<1> QED
  BY <1>4, <1>5, <1>6 DEF ProgressInv

(* What a kill or a power loss leaves running holds nothing of the store.   *)
LEMMA CrashProgress ==
  ASSUME PendingInv, ProgressInv, KillHolder \/ PowerLoss \/ Reboot
  PROVE  ProgressInv'
<1>1. store' = Idle /\ UNCHANGED <<meta, tree, pin, rec, overwritten>>
  BY DEF KillHolder, KillStore, ReleaseStore, PowerLoss, Reboot, Restart
<1>2. ASSUME NEW p \in Procs
      PROVE  /\ \/ proc'[p] = proc[p]
                \/ /\ proc'[p].step \in {"ended", "recover-pins"} /\ proc'[p].owner = None
                   /\ proc'[p].lost = {} /\ proc'[p].record.state = "none"
                   /\ p \in PowerOwners => proc'[p].step = "ended"
             /\ p \in PowerOwners => proc'[p].step # "capturing"
             /\ proc'[p].step = "new" => proc'[p] = proc[p]
  <2>1. CASE KillHolder
    BY <2>1 DEF KillHolder, Ended, NoRecord, ProgressInv, RequestInv
  <2>2. CASE PowerLoss \/ Reboot
    BY <2>2, Identities DEF PowerLoss, Reboot, Restart, Active, Ended, NoRecord
  <2> QED
    BY <2>1, <2>2
<1>3. ASSUME NEW o \in PowerOwners
      PROVE  RecordInv(o)' /\ RequestInv(o)'
  <2>1. RecordInv(o) /\ RequestInv(o) /\ o \in Procs
    BY DEF ProgressInv, Procs
  <2>2. \A q \in Procs : proc'[q].lost \subseteq proc[q].lost
    BY <1>2
  <2>3. RequestInv(o)'
    BY <1>1, <1>2, <2>1, <2>2, Identities DEF RequestInv, Unstarted, Idle
  <2> QED
    BY <1>1, <2>1, <2>3 DEF RecordInv, Named, Reserved
<1>4. ASSUME NEW q \in Procs
      PROVE  AttemptInv(q, proc[q])'
  <2>1. AttemptInv(q, proc[q])
    BY DEF ProgressInv
  <2> QED
    BY <1>1, <1>2, <2>1 DEF AttemptInv, Named, Reserved, LockedSteps
<1>5. LockInv'
  BY <1>2 DEF ProgressInv, LockInv, Locked
<1> QED
  BY <1>3, <1>4, <1>5 DEF ProgressInv

(* An operation of the store writes no pin but of its owner.               *)
LEMMA StoreProgressQuiet ==
  ASSUME PendingInv, ProgressInv, StoreProgress
  PROVE  ProgressInv'
<1>1. UNCHANGED <<rec, proc, overwritten>> /\ StoreStep
  BY DEF StoreProgress, pendingVars
<1>2. store'.owner = store.owner
  BY <1>1 DEF StoreStep, TakeSnapshot, OpenPin, WritePin, OpenRecord, WriteRecord, Resume,
       DeleteTree,
              ClearIntent, DeletionsFinished, SelectCandidates, MarkDeleting, Refuse, PendingInv, IInv,
              StoreTypeOK
<1>3. ASSUME NEW o \in PowerOwners, NEW id \in Checkpoints, store.owner # o
      PROVE  pin'[id][o] = pin[id][o]
  <2>1. CASE OpenPin \/ WritePin
    BY <1>3, <2>1, Identities DEF OpenPin, WritePin, PendingInv, IInv, StoreTypeOK
  <2>2. CASE ~(OpenPin \/ WritePin)
    BY <1>1, <2>2 DEF StoreStep, TakeSnapshot, OpenRecord, WriteRecord, Resume, DeleteTree,
              ClearIntent, DeletionsFinished, SelectCandidates, MarkDeleting, Refuse
  <2> QED
    BY <2>1, <2>2
<1> QED
  BY <1>1, <1>2, <1>3, StoreStepKeeps, StoreQuiet DEF PendingInv

(* Others neither capture for a request nor touch its pins.                *)
LEMMA OtherProgressQuiet ==
  ASSUME PendingInv, ProgressInv, OtherReturn \/ OtherOperation
  PROVE  ProgressInv'
<1>1. UNCHANGED <<rec, proc, overwritten, meta, tree>>
  BY DEF OtherReturn, OtherOperation, OtherBegin, OtherEffect, pendingVars, Return, ReleaseStore,
       BeginCreate,
         BeginPin, BeginRecover, UnpinOwner, SetRetention
<1>2. store.owner \notin PowerOwners /\ store'.owner \notin PowerOwners
  <2>1. Idle.owner \notin PowerOwners /\ [Idle EXCEPT !.op = "recover", !.step = "finish-old"].owner = Idle.owner
    BY Identities DEF Idle
  <2>2. CASE OtherReturn
    BY <2>1, <2>2 DEF OtherReturn, Return, ReleaseStore
  <2>3. CASE BeginRecover \/ SetRetention \/ \E owner \in Others \ {None} : UnpinOwner(owner)
    BY <2>1, <2>3 DEF BeginRecover, SetRetention, UnpinOwner
  <2>4. CASE \/ \E c \in Checkpoints, owner \in Others : BeginCreate(owner, c)
             \/ \E c \in Checkpoints, owner \in Others \ {None} : BeginPin(owner, c)
    BY <2>1, <2>4, Identities DEF BeginCreate, BeginPin
  <2> QED
    BY <2>2, <2>3, <2>4 DEF OtherOperation, OtherBegin, OtherEffect
<1>3. ASSUME NEW o \in PowerOwners, NEW id \in Checkpoints
      PROVE  pin'[id][o] = pin[id][o]
  <2>1. CASE OtherReturn \/ BeginRecover \/ SetRetention
             \/ \E c \in Checkpoints, owner \in Others : BeginCreate(owner, c)
    BY <2>1 DEF OtherReturn, Return, ReleaseStore, BeginCreate, BeginRecover, SetRetention
  <2>2. CASE \E c \in Checkpoints, owner \in Others \ {None} : BeginPin(owner, c)
    BY <2>2, Identities DEF BeginPin, PendingInv, IInv, StoreTypeOK
  <2>3. CASE \E owner \in Others \ {None} : UnpinOwner(owner)
    BY <2>3, Identities DEF UnpinOwner, PendingInv, IInv, StoreTypeOK
  <2> QED
    BY <2>1, <2>2, <2>3 DEF OtherOperation, OtherBegin, OtherEffect
<1> QED
  BY <1>1, <1>2, <1>3, StoreQuiet DEF Reserved

LEMMA ProgressInvariant ==
  ASSUME PendingInv, ProgressInv, [PendingNext]_allVars
  PROVE  ProgressInv'
<1>1. CASE \E p \in Procs : Step(p) \/ KillProcess(p)
  BY <1>1, QueueProgress, RecoverPinsProgress, RewriteLostProgress, RewrittenProgress,
     LockProgress,
     MatchProgress, ArchiveProgress, AdvanceProgress, ReleaseProgress, KillProgress, MarkCompletedProgress,
     RecordFailureProgress
     DEF Step
<1>2. CASE \E o \in PowerOwners, id \in Checkpoints : BeginCapture(o, id)
  BY <1>2, BeginCaptureProgress
<1>3. CASE HolderStep
  BY <1>3, StoreProgressQuiet, OtherProgressQuiet, CapturedProgress DEF HolderStep
<1>4. CASE KillHolder \/ PowerLoss \/ Reboot
  BY <1>4, CrashProgress
<1>5. CASE OtherOperation
  BY <1>5, OtherProgressQuiet
<1>6. CASE UNCHANGED allVars
  BY <1>6, StoreQuiet DEF allVars, storeVars, pendingVars, Reserved
<1> QED
  BY <1>1, <1>2, <1>3, <1>4, <1>5, <1>6 DEF PendingNext

(* No record says more than was done, nor too little to be continued: what  *)
(* is not uploaded has its pin and checkpoint, what is completed holds no   *)
(* checkpoint back.                                                         *)
THEOREM SpecRecordTellsProgress == PendingSpec => []RecordTellsProgress
<1> DEFINE Inv == PendingInv /\ ProgressInv
<1>1. PendingInit => Inv
  BY PendingInitInvariant, ProgressInit
<1>2. Inv /\ [PendingNext]_allVars => Inv'
  BY PendingNextInvariant, ProgressInvariant
<1>3. Inv => RecordTellsProgress
  <2> SUFFICES ASSUME PendingInv, ProgressInv, NEW o \in PowerOwners
               PROVE  /\ rec[o].state \in {"checkpoint-ready", "pending-upload"} /\ o \notin overwritten =>
                           pin[rec[o].checkpoint][o] = "whole" /\ rec[o].checkpoint \in Complete
                      /\ rec[o].state \in {"uploaded", "completed"} => o \in remote
                      /\ rec[o].state = "completed" => pin[rec[o].checkpoint][o] = "none"
    BY DEF RecordTellsProgress
  <2>1. RecordInv(o) /\ Covered(o, rec[o])
    BY DEF PendingInv, RecordsCovered, ProgressInv
  <2> QED
    BY <2>1 DEF RecordInv, Named, Covered, Reserved, Complete
<1> QED
  BY <1>1, <1>2, <1>3, PTL DEF PendingSpec
=============================================================================
