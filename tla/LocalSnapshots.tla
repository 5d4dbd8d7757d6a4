---------------------------- MODULE LocalSnapshots ----------------------------
(***************************************************************************)
(* The checkpoint store of local_snapshots.py: read-only snapshots of the  *)
(* data with a completion record each, pins that reserve a checkpoint for  *)
(* an operation, and retention, which deletes checkpoints without a pin.   *)
(*                                                                         *)
(* Every operation that changes the store runs under one exclusive lock;   *)
(* `store` is the operation that holds it and its next step.  What         *)
(* interrupts an operation is a kill, an exception or a power loss, and    *)
(* each of them leaves the files as they are after the steps taken so far. *)
(***************************************************************************)
EXTENDS Naturals, FiniteSets

CONSTANTS
    Checkpoints,   \* identifiers a checkpoint can get
    Owners,        \* operations that may pin a checkpoint
    Times,         \* what the clock may read; it can be set back
    Keeps          \* retention settings; 0 is "disabled"

None == 0          \* no checkpoint, no owner

ASSUME StoreAssumption ==
    /\ Checkpoints \subseteq Nat \ {None}
    /\ Owners \subseteq Nat \ {None}
    /\ Times \subseteq Nat
    /\ Keeps \subseteq Nat
    /\ Keeps # {}

VARIABLES
    meta,        \* ID.json ("torn", "complete"), or renamed ID.deleting
    createdAt,   \* the time in the record
    tree,        \* the subvolumes that exist
    pin,         \* pin[id][owner]: the file ID.OWNER.pin
    keep,        \* .retention
    store        \* the holder of the exclusive lock

storeVars == <<meta, createdAt, tree, pin, keep, store>>

Idle == [op |-> "none", step |-> "idle", id |-> None, owner |-> None, doomed |-> {}]

StoreInit ==
    /\ meta = [id \in Checkpoints |-> "none"]
    /\ createdAt = [id \in Checkpoints |-> 0]
    /\ tree = {}
    /\ pin = [id \in Checkpoints |-> [o \in Owners |-> "none"]]
    /\ keep \in Keeps
    /\ store = Idle

-----------------------------------------------------------------------------
(* What pins() and records() find; a file they cannot read makes them raise. *)

Complete == {id \in Checkpoints : meta[id] = "complete"}
Deleting == {id \in Checkpoints : meta[id] = "deleting"}
Pinned   == {id \in Checkpoints : \E o \in Owners : pin[id][o] # "none"}

PinsReadable    == \A id \in Checkpoints, o \in Owners : pin[id][o] # "torn"
RecordsReadable == /\ \A id \in Checkpoints : meta[id] # "torn"
                   /\ Complete \subseteq tree

Newer(a, b) ==
    \/ createdAt[a] > createdAt[b]
    \/ createdAt[a] = createdAt[b] /\ a > b

\* retention_candidates: all but the newest `keep` and the protected ones.
RetentionCandidates(protected) ==
    {id \in Complete \ protected :
        Cardinality({other \in Complete : Newer(other, id)}) >= keep}

Oldest(ids) == CHOOSE id \in ids : \A other \in ids \ {id} : Newer(other, id)

Fresh(id) == meta[id] = "none" /\ id \notin tree /\ id \notin Pinned

-----------------------------------------------------------------------------
(* create(reason, owner=, purpose=); the owner is None for a manual one. *)

BeginCreate(owner, id) ==
    /\ store = Idle
    /\ Fresh(id)
    /\ store' = [op |-> "create", step |-> "snapshot", id |-> id, owner |-> owner, doomed |-> {}]
    /\ UNCHANGED <<meta, createdAt, tree, pin, keep>>

\* Snapshot and filesystem sync, while the writers are stopped.
TakeSnapshot ==
    /\ store.step = "snapshot"
    /\ tree' = tree \cup {store.id}
    /\ store' = [store EXCEPT !.step = IF store.owner = None THEN "record" ELSE "pin"]
    /\ UNCHANGED <<meta, createdAt, pin, keep>>

\* write_pin creates the file and then fills and syncs it.
OpenPin ==
    /\ store.step = "pin"
    /\ PinsReadable
    /\ pin' = [pin EXCEPT ![store.id][store.owner] = "torn"]
    /\ store' = [store EXCEPT !.step = "pin-write"]
    /\ UNCHANGED <<meta, createdAt, tree, keep>>

WritePin ==
    /\ store.step = "pin-write"
    /\ pin' = [pin EXCEPT ![store.id][store.owner] = "whole"]
    /\ store' = [store EXCEPT !.step = IF store.op = "create" THEN "record" ELSE "done"]
    /\ UNCHANGED <<meta, createdAt, tree, keep>>

\* The completion record likewise.
OpenRecord ==
    /\ store.step = "record"
    /\ meta' = [meta EXCEPT ![store.id] = "torn"]
    /\ store' = [store EXCEPT !.step = "record-write"]
    /\ UNCHANGED <<createdAt, tree, pin, keep>>

WriteRecord ==
    /\ store.step = "record-write"
    /\ meta' = [meta EXCEPT ![store.id] = "complete"]
    /\ \E now \in Times : createdAt' = [createdAt EXCEPT ![store.id] = now]
    /\ store' = [store EXCEPT !.step = "resume"]
    /\ UNCHANGED <<tree, pin, keep>>

\* The maintenance window ends; retention follows where it is enabled.
Resume ==
    /\ store.step = "resume"
    /\ store' = [store EXCEPT !.step = IF keep = 0 THEN "done" ELSE "finish-old"]
    /\ UNCHANGED <<meta, createdAt, tree, pin, keep>>

-----------------------------------------------------------------------------
(* finish_deletions and prune_locked *)

Finishing == store.step \in {"finish-old", "finish"} /\ PinsReadable /\ Deleting \cap Pinned = {}

DeleteTree ==
    /\ Finishing
    /\ \E id \in Deleting \cap tree : tree' = tree \ {id}
    /\ UNCHANGED <<meta, createdAt, pin, keep, store>>

ClearIntent ==
    /\ Finishing
    /\ \E id \in Deleting \ tree : /\ meta' = [meta EXCEPT ![id] = "none"]
                                   /\ createdAt' = [createdAt EXCEPT ![id] = 0]
    /\ UNCHANGED <<tree, pin, keep, store>>

DeletionsFinished ==
    /\ Finishing
    /\ Deleting = {}
    /\ store' = [store EXCEPT !.step = IF store.step = "finish-old" /\ store.op = "create"
                                       THEN "select"
                                       ELSE IF store.doomed # {} THEN "mark" ELSE "done"]
    /\ UNCHANGED <<meta, createdAt, tree, pin, keep>>

\* Mutants: retention forgets the pins, or the checkpoint just made.
ProtectedNewOnly  == {store.id}
ProtectedPinsOnly == Pinned

\* create protects the checkpoint it has just made, whatever the clock said.
Protected == Pinned \cup {store.id}

SelectCandidates ==
    /\ store.step = "select"
    /\ RecordsReadable
    /\ LET candidates == RetentionCandidates(Protected)
       IN store' = [store EXCEPT !.doomed = candidates,
                                 !.step = IF candidates = {} THEN "done" ELSE "mark"]
    /\ UNCHANGED <<meta, createdAt, tree, pin, keep>>

\* The intent is durable before the subvolume is deleted.
MarkDeleting ==
    /\ store.step = "mark"
    /\ LET id == Oldest(store.doomed)
       IN /\ meta' = [meta EXCEPT ![id] = "deleting"]
          /\ store' = [store EXCEPT !.doomed = @ \ {id}, !.step = "finish"]
    /\ UNCHANGED <<createdAt, tree, pin, keep>>

-----------------------------------------------------------------------------
(* pin, unpin, unpin_owner, recover and the retention setting *)

BeginPin(owner, id) ==
    /\ store = Idle
    /\ RecordsReadable /\ PinsReadable
    /\ meta[id] = "complete"
    /\ pin[id][owner] = "none"
    /\ pin' = [pin EXCEPT ![id][owner] = "torn"]
    /\ store' = [op |-> "pin", step |-> "pin-write", id |-> id, owner |-> owner, doomed |-> {}]
    /\ UNCHANGED <<meta, createdAt, tree, keep>>

Unpin(owner, id) ==
    /\ store = Idle
    /\ PinsReadable
    /\ pin' = [pin EXCEPT ![id][owner] = "none"]
    /\ UNCHANGED <<meta, createdAt, tree, keep, store>>

UnpinOwner(owner) ==
    /\ store = Idle
    /\ PinsReadable
    /\ pin' = [id \in Checkpoints |-> [pin[id] EXCEPT ![owner] = "none"]]
    /\ UNCHANGED <<meta, createdAt, tree, keep, store>>

BeginRecover ==
    /\ store = Idle
    /\ store' = [Idle EXCEPT !.op = "recover", !.step = "finish-old"]
    /\ UNCHANGED <<meta, createdAt, tree, pin, keep>>

SetRetention ==
    /\ store = Idle
    /\ keep' \in Keeps \ {keep}
    /\ UNCHANGED <<meta, createdAt, tree, pin, store>>

-----------------------------------------------------------------------------
(* How an operation ends *)

\* Unreadable or contradictory files stop the operation.
Refuse ==
    /\ \/ store.step \in {"pin", "finish-old", "finish"} /\ ~PinsReadable
       \/ store.step \in {"finish-old", "finish"} /\ Deleting \cap Pinned # {}
       \/ store.step = "select" /\ ~RecordsReadable
    /\ store' = [store EXCEPT !.step = "failed"]
    /\ UNCHANGED <<meta, createdAt, tree, pin, keep>>

\* A command fails, the window is refused, storage is short: any exception.
Raise ==
    /\ store.step \notin {"idle", "done", "failed"}
    /\ store' = [store EXCEPT !.step = "failed"]
    /\ UNCHANGED <<meta, createdAt, tree, pin, keep>>

\* The process ends: the kernel releases its lock.
ReleaseStore ==
    /\ store' = Idle
    /\ UNCHANGED <<meta, createdAt, tree, pin, keep>>

Return == store.step \in {"done", "failed"} /\ ReleaseStore
KillStore   == store # Idle /\ ReleaseStore

StoreStep ==
    \/ TakeSnapshot \/ OpenPin \/ WritePin \/ OpenRecord \/ WriteRecord \/ Resume
    \/ DeleteTree \/ ClearIntent \/ DeletionsFinished \/ SelectCandidates \/ MarkDeleting
    \/ Refuse

StoreNext ==
    \/ \E id \in Checkpoints, owner \in Owners \cup {None} : BeginCreate(owner, id)
    \/ \E id \in Checkpoints, owner \in Owners : BeginPin(owner, id) \/ Unpin(owner, id)
    \/ \E owner \in Owners : UnpinOwner(owner)
    \/ BeginRecover \/ SetRetention \/ StoreStep \/ Raise \/ Return \/ KillStore

StoreSpec == StoreInit /\ [][StoreNext]_storeVars

-----------------------------------------------------------------------------
(* Properties *)

\* The files and the lock hold what the operations write, and an operation at
\* a step that needs an identifier or an owner has one.
StoreTypeOK ==
    /\ meta \in [Checkpoints -> {"none", "torn", "complete", "deleting"}]
    /\ createdAt \in [Checkpoints -> Nat]
    /\ tree \subseteq Checkpoints
    /\ pin \in [Checkpoints -> [Owners -> {"none", "torn", "whole"}]]
    /\ keep \in Keeps
    /\ store \in [op : {"none", "create", "pin", "recover"},
                  step : {"idle", "snapshot", "pin", "pin-write", "record", "record-write", "resume",
                          "finish-old", "select", "mark", "finish", "done", "failed"},
                  id : Checkpoints \cup {None},
                  owner : Owners \cup {None},
                  doomed : SUBSET Checkpoints]
    /\ (store.step = "idle") <=> (store.op = "none")
    /\ store.op \in {"create", "pin"} => store.id \in Checkpoints
    /\ store.step \in {"pin", "pin-write"} => store.owner \in Owners
    /\ store.step = "mark" => store.doomed # {}

\* A published or torn record always stands for a subvolume, or records()
\* would refuse every checkpoint: the subvolume is there before its record,
\* and the record is turned into an intent before the subvolume goes.
RecordHasTree == \A id \in Checkpoints : meta[id] \in {"torn", "complete"} => id \in tree

\* No deletion in progress ever meets a pin: finish_deletions would raise on
\* it, and with it every create under retention, for good.
DeletionNeverBlocked == Deleting \cap Pinned = {}

\* The checkpoint that create reports is there to be used, even when the
\* clock was set back and others count as newer.
CreatedCheckpointSurvives ==
    store.op = "create" /\ store.step = "done" =>
        meta[store.id] = "complete" /\ store.id \in tree

\* Neither the records nor the pins ever stop the operations of the store.
StoreSound == RecordHasTree /\ DeletionNeverBlocked
=============================================================================
