---------------------------- MODULE PendingBackup ----------------------------
(***************************************************************************)
(* backup_pending.py over the checkpoint store: a power request captures a *)
(* pinned checkpoint, queues it in a record, archives it and transfers the *)
(* archive; what could not be transferred is retried by a unit that runs   *)
(* once per boot.  Power requests follow one another, but that unit and a   *)
(* power request run concurrently: nothing but a lock per record and the   *)
(* store's lock is between them.                                           *)
(*                                                                         *)
(* A process is a power request, named by its owner, or the boot's retry.  *)
(***************************************************************************)
EXTENDS LocalSnapshots

CONSTANTS
    PowerOwners,   \* power requests
    Others,        \* who else uses the store: None is an operator, without a pin
    MaxFaults      \* bound on kills, power losses and failing steps

BootRetry == 0
Procs == PowerOwners \cup {BootRetry}

ASSUME PendingAssumption == 
    /\ PowerOwners \subseteq Owners
    /\ Others \subseteq (Owners \ PowerOwners) \cup {None}
    /\ MaxFaults \in Nat

VARIABLES
    rec,          \* rec[o]: the file pending-backup/o.json
    archive,      \* owners whose archive is in backups/
    remote,       \* owners whose archive is in the remote repository
    proc,         \* proc[p]: its step, the record it works on, its owner
    overwritten,  \* history: owners whose record was written as lost but was not
    faults

pendingVars == <<rec, archive, remote, proc, overwritten, faults>>
allVars == <<storeVars, pendingVars>>

NoRecord == [state |-> "none", checkpoint |-> None, createdAt |-> 0]
Ready(id) == [state |-> "checkpoint-ready", checkpoint |-> id, createdAt |-> createdAt[id]]
Ended == [step |-> "ended", owner |-> None, record |-> NoRecord, lost |-> {}]

PendingInit ==
    /\ StoreInit
    /\ rec = [o \in PowerOwners |-> NoRecord]
    /\ archive = {} /\ remote = {} /\ overwritten = {}
    /\ proc = [p \in Procs |-> [Ended EXCEPT !.step = IF p = BootRetry THEN "ended" ELSE "new"]]
    /\ faults = 0

-----------------------------------------------------------------------------
Active(p) == proc[p].step \notin {"new", "ended"}
Queued == {o \in PowerOwners : rec[o].state \notin {"none", "completed"}}

\* read_record: the oldest record that is not completed.
OldestQueued ==
    CHOOSE o \in Queued : \A other \in Queued \ {o} :
        \/ rec[o].createdAt < rec[other].createdAt
        \/ rec[o].createdAt = rec[other].createdAt /\ o < other

GoTo(p, step) == proc' = [proc EXCEPT ![p].step = step]
End(p) == proc' = [proc EXCEPT ![p] = Ended]

\* write: the process's whole copy of the record replaces the file.
WriteRecordAs(p, state) ==
    rec' = [rec EXCEPT ![proc[p].owner] = [proc[p].record EXCEPT !.state = state]]

\* The same with the step that follows; the process keeps what it wrote.
Advance(p, step, state) ==
    LET record == [proc[p].record EXCEPT !.state = state]
    IN /\ rec' = [rec EXCEPT ![proc[p].owner] = record]
       /\ proc' = [proc EXCEPT ![p] = [@ EXCEPT !.step = step, !.record = record]]

\* History: a first record is written although the owner has one already.
NoteOverwritten(o) ==
    overwritten' = IF rec[o].state = "none" THEN overwritten ELSE overwritten \cup {o}

-----------------------------------------------------------------------------
(* capture(owner), up to its call of retry *)

\* operate holds the admission lock of the host jobs: one request at a time.
BeginCapture(o, id) ==
    /\ proc[o].step = "new"
    /\ \A other \in PowerOwners : ~Active(other)
    /\ BeginCreate(o, id)
    /\ GoTo(o, "capturing")
    /\ UNCHANGED <<rec, archive, remote, overwritten, faults>>

Captured(o) ==
    /\ proc[o].step = "capturing"
    /\ store.owner = o /\ store.step = "done"
    /\ Return
    /\ proc' = [proc EXCEPT ![o] = [@ EXCEPT !.step = "queue", !.owner = o, !.record = Ready(store.id)]]
    /\ UNCHANGED <<rec, archive, remote, overwritten, faults>>

CaptureFailed(o) ==
    /\ proc[o].step = "capturing"
    /\ store.owner = o /\ store.step = "failed"
    /\ Return
    /\ End(o)
    /\ UNCHANGED <<rec, archive, remote, overwritten, faults>>

Queue(p) ==
    /\ proc[p].step = "queue"
    /\ WriteRecordAs(p, "checkpoint-ready")
    /\ NoteOverwritten(p)
    /\ proc' = [proc EXCEPT ![p] = [@ EXCEPT !.step = "recover-pins", !.record = NoRecord]]
    /\ UNCHANGED <<storeVars, archive, remote, faults>>

-----------------------------------------------------------------------------
(* recover_pin.  pinned_records waits for the store's lock and raises when a *)
(* file is unreadable or a pin has no complete checkpoint.                   *)

PinnedPairs == {pair \in Checkpoints \X PowerOwners : pin[pair[1]][pair[2]] = "whole"}
PinsUsable  == /\ PinsReadable /\ RecordsReadable
               /\ \A pair \in PinnedPairs : pair[1] \in Complete

RecoverPins(p) ==
    /\ proc[p].step = "recover-pins"
    /\ store = Idle
    /\ IF PinsUsable
       THEN proc' = [proc EXCEPT ![p] =
                [@ EXCEPT !.step = "rewrite",
                          !.lost = {pair \in PinnedPairs : rec[pair[2]].state = "none"}]]
       ELSE End(p)
    /\ UNCHANGED <<storeVars, rec, archive, remote, overwritten, faults>>

\* The records were compared when the pins were read, and are written one by
\* one without the lock of the record.
RewriteLost(p) ==
    /\ proc[p].step = "rewrite"
    /\ \E pair \in proc[p].lost :
        /\ rec' = [rec EXCEPT ![pair[2]] = Ready(pair[1])]
        /\ proc' = [proc EXCEPT ![p].lost = @ \ {pair}]
        /\ NoteOverwritten(pair[2])
    /\ UNCHANGED <<storeVars, archive, remote, faults>>

\* The boot's retry now picks a record, and retry recovers the pins again.
Rewritten(p) ==
    /\ proc[p].step = "rewrite"
    /\ proc[p].lost = {}
    /\ IF proc[p].owner # None THEN GoTo(p, "lock")
       ELSE IF Queued = {} THEN End(p)
       ELSE proc' = [proc EXCEPT ![p] = [@ EXCEPT !.step = "recover-pins", !.owner = OldestQueued]]
    /\ UNCHANGED <<storeVars, rec, archive, remote, overwritten, faults>>

-----------------------------------------------------------------------------
(* retry(record), under the record's lock *)

Locked(p) == proc[p].step \in {"match", "archive", "archived", "transfer", "transferred", "unpin", "complete", "unlink"}

Held(o, p) == \E q \in Procs \ {p} : Locked(q) /\ proc[q].owner = o

\* A lock that is held makes the second process give up; the first reads the
\* record again, for it may have changed since it was picked.
Lock(p) ==
    /\ proc[p].step = "lock"
    /\ LET o == proc[p].owner
       IN IF rec[o].state = "completed" \/ Held(o, p)
          THEN End(p)
          ELSE proc' = [proc EXCEPT ![p] = [@ EXCEPT !.step = "match", !.record = rec[o]]]
    /\ UNCHANGED <<storeVars, rec, archive, remote, overwritten, faults>>

\* Mutant: an uploaded record needs its pin as well.
MatchAlways(p) ==
    /\ proc[p].step = "match"
    /\ store = Idle
    /\ IF ~PinsUsable \/ pin[proc[p].record.checkpoint][proc[p].owner] # "whole"
       THEN End(p)
       ELSE GoTo(p, IF proc[p].record.state = "checkpoint-ready" THEN "archive"
                    ELSE IF proc[p].record.state = "pending-upload" THEN "transfer" ELSE "unpin")
    /\ UNCHANGED <<storeVars, rec, archive, remote, overwritten, faults>>

\* A record that is not uploaded needs its exact pin.
Match(p) ==
    /\ proc[p].step = "match"
    /\ store = Idle
    /\ LET matched == pin[proc[p].record.checkpoint][proc[p].owner] = "whole"
       IN IF ~PinsUsable \/ (proc[p].record.state # "uploaded" /\ ~matched)
          THEN End(p)
          ELSE GoTo(p, IF proc[p].record.state = "checkpoint-ready" THEN "archive"
                       ELSE IF proc[p].record.state = "pending-upload" THEN "transfer"
                       ELSE IF matched THEN "unpin" ELSE "complete")
    /\ UNCHANGED <<storeVars, rec, archive, remote, overwritten, faults>>

\* An archive that is already there is validated and taken over.
Archive(p) ==
    /\ proc[p].step = "archive"
    /\ proc[p].owner \in archive \/ proc[p].record.checkpoint \in tree
    /\ archive' = archive \cup {proc[p].owner}
    /\ GoTo(p, "archived")
    /\ UNCHANGED <<storeVars, rec, remote, overwritten, faults>>

\* Mutant: the checkpoint is released for its archive instead of the upload.
ReleaseArchived(p) ==
    /\ proc[p].step = "archived"
    /\ Advance(p, "unpin", "pending-upload")
    /\ UNCHANGED <<storeVars, archive, remote, overwritten, faults>>

MarkArchived(p) ==
    /\ proc[p].step = "archived"
    /\ Advance(p, "transfer", "pending-upload")
    /\ UNCHANGED <<storeVars, archive, remote, overwritten, faults>>

Transfer(p) ==
    /\ proc[p].step = "transfer"
    /\ proc[p].owner \in archive
    /\ remote' = remote \cup {proc[p].owner}
    /\ GoTo(p, "transferred")
    /\ UNCHANGED <<storeVars, rec, archive, overwritten, faults>>

MarkUploaded(p) ==
    /\ proc[p].step = "transferred"
    /\ Advance(p, "unpin", "uploaded")
    /\ UNCHANGED <<storeVars, archive, remote, overwritten, faults>>

Release(p) ==
    /\ proc[p].step = "unpin"
    /\ Unpin(proc[p].owner, proc[p].record.checkpoint)
    /\ GoTo(p, "complete")
    /\ UNCHANGED <<rec, archive, remote, overwritten, faults>>

\* A torn pin of anybody makes unpin raise.
ReleaseRefused(p) ==
    /\ proc[p].step = "unpin"
    /\ store = Idle
    /\ ~PinsReadable
    /\ End(p)
    /\ UNCHANGED <<storeVars, rec, archive, remote, overwritten, faults>>

MarkCompleted(p) ==
    /\ proc[p].step = "complete"
    /\ WriteRecordAs(p, "completed")
    /\ GoTo(p, "unlink")
    /\ UNCHANGED <<storeVars, archive, remote, overwritten, faults>>

UnlinkArchive(p) ==
    /\ proc[p].step = "unlink"
    /\ archive' = archive \ {proc[p].owner}
    /\ End(p)
    /\ UNCHANGED <<storeVars, rec, remote, overwritten, faults>>

-----------------------------------------------------------------------------
(* Failures.  One that retry catches writes the record back as it was read. *)

Attempting(p) == proc[p].step \in {"archive", "archived", "transfer", "transferred"}

\* The attempt cannot succeed (nothing to archive or to send), or another
\* process uses the repository.
Unavailable(p) ==
    \/ proc[p].step = "archive" /\ proc[p].owner \notin archive /\ proc[p].record.checkpoint \notin tree
    \/ proc[p].step = "transfer" /\ proc[p].owner \notin archive
    \/ proc[p].step = "transfer" /\ \E q \in Procs \ {p} : proc[q].step = "transfer"

RecordFailure(p) ==
    /\ Attempting(p)
    /\ \/ Unavailable(p) /\ faults' = faults
       \/ faults < MaxFaults /\ faults' = faults + 1
    /\ WriteRecordAs(p, proc[p].record.state)
    /\ End(p)
    /\ UNCHANGED <<storeVars, archive, remote, overwritten>>

\* A process is killed, or raises where nothing catches it; so is whoever
\* holds the store, a capture or somebody else.
KillProcess(p) ==
    /\ Active(p) /\ proc[p].step # "capturing"
    /\ faults < MaxFaults
    /\ faults' = faults + 1
    /\ End(p)
    /\ UNCHANGED <<storeVars, rec, archive, remote, overwritten>>

KillHolder ==
    /\ KillStore
    /\ faults < MaxFaults
    /\ faults' = faults + 1
    /\ proc' = [p \in Procs |-> IF proc[p].step = "capturing" /\ store.owner = p THEN Ended ELSE proc[p]]
    /\ UNCHANGED <<rec, archive, remote, overwritten>>

\* Power fails, or the requested power transition takes place; the appliance
\* starts again, and with it the retry unit.
Restart ==
    /\ ReleaseStore
    /\ proc' = [p \in Procs |-> IF p = BootRetry THEN [Ended EXCEPT !.step = "recover-pins"]
                                ELSE IF Active(p) THEN Ended ELSE proc[p]]
    /\ UNCHANGED <<rec, archive, remote, overwritten>>

PowerLoss == faults < MaxFaults /\ faults' = faults + 1 /\ Restart
Reboot    == (\A p \in Procs : ~Active(p)) /\ store = Idle /\ Restart /\ UNCHANGED faults

-----------------------------------------------------------------------------
(* Everybody else who uses the store: manual checkpoints, updates, restores. *)

Referenced(id) == \/ \E o \in PowerOwners : rec[o].checkpoint = id
                  \/ \E p \in Procs : proc[p].record.checkpoint = id

OtherBegin ==
    \/ \E id \in Checkpoints, owner \in Others : ~Referenced(id) /\ BeginCreate(owner, id)
    \/ \E id \in Checkpoints, owner \in Others \ {None} : BeginPin(owner, id)
    \/ Deleting # {} /\ BeginRecover

OtherEffect ==
    \/ \E owner \in Others \ {None} :
            (\E id \in Checkpoints : pin[id][owner] # "none") /\ UnpinOwner(owner)
    \/ SetRetention

OtherOperation ==
    /\ OtherBegin \/ OtherEffect
    /\ UNCHANGED pendingVars

OtherReturn ==
    /\ store.owner \notin PowerOwners
    /\ Return
    /\ UNCHANGED pendingVars

StoreProgress == StoreStep /\ UNCHANGED pendingVars

Step(p) ==
    \/ Queue(p) \/ RecoverPins(p) \/ RewriteLost(p) \/ Rewritten(p) \/ Lock(p) \/ Match(p)
    \/ Archive(p) \/ MarkArchived(p) \/ Transfer(p) \/ MarkUploaded(p) \/ Release(p)
    \/ ReleaseRefused(p) \/ MarkCompleted(p) \/ UnlinkArchive(p)
    \/ RecordFailure(p)

\* Whoever holds the store goes on.
HolderStep == StoreProgress \/ OtherReturn \/ \E o \in PowerOwners : Captured(o) \/ CaptureFailed(o)

PendingNext ==
    \/ \E o \in PowerOwners, id \in Checkpoints : ~Referenced(id) /\ BeginCapture(o, id)
    \/ \E p \in Procs : Step(p) \/ KillProcess(p)
    \/ HolderStep \/ KillHolder \/ OtherOperation
    \/ PowerLoss \/ Reboot

PendingSpec == PendingInit /\ [][PendingNext]_allVars

\* A process and the holder of the store go on, and the appliance is switched
\* on again after a power operation: each boot runs the retry once.
PendingFairSpec ==
    /\ PendingSpec
    /\ WF_allVars(HolderStep)
    /\ \A p \in Procs : WF_allVars(Step(p))
    /\ WF_allVars(Reboot)

-----------------------------------------------------------------------------
(* Properties *)

\* The records, the archives and the processes hold what the code writes.
PendingTypeOK ==
    /\ StoreTypeOK
    /\ rec \in [PowerOwners -> [state : {"none", "checkpoint-ready", "pending-upload", "uploaded", "completed"},
                                checkpoint : Checkpoints \cup {None}, createdAt : Nat]]
    /\ archive \subseteq PowerOwners /\ remote \subseteq PowerOwners /\ overwritten \subseteq PowerOwners
    /\ \A p \in Procs : /\ proc[p].step \in {"new", "capturing", "queue", "recover-pins", "rewrite", "lock",
                                             "match", "archive", "archived", "transfer", "transferred",
                                             "unpin", "complete", "unlink", "ended"}
                        /\ proc[p].owner \in PowerOwners \cup {None}
                        /\ proc[p].record.state # "none" => proc[p].owner \in PowerOwners
    /\ faults \in 0..MaxFaults

\* Until a queued generation is in the remote repository its checkpoint and
\* its pin are there, whatever retention, other power requests, retries, kills
\* and power losses do in between (docs/ADMIN.md:75-81).
GenerationKept ==
    \A o \in PowerOwners : rec[o].state # "none" /\ o \notin remote =>
        /\ pin[rec[o].checkpoint][o] = "whole"
        /\ rec[o].checkpoint \in Complete \cap tree

\* A record never says more than what was done, nor so much less that it
\* cannot be continued: what is not uploaded still has its pin and checkpoint
\* (retry refuses it otherwise), what is uploaded is in the repository, and
\* what is completed no longer holds a checkpoint back from retention.
\* Records written as lost over an existing one are the exception.
RecordTellsProgress ==
    \A o \in PowerOwners :
        /\ rec[o].state \in {"checkpoint-ready", "pending-upload"} /\ o \notin overwritten =>
              pin[rec[o].checkpoint][o] = "whole" /\ rec[o].checkpoint \in Complete
        /\ rec[o].state \in {"uploaded", "completed"} => o \in remote
        /\ rec[o].state = "completed" => pin[rec[o].checkpoint][o] = "none"

\* What stops every retry until somebody repairs the files: a torn file, a
\* pin whose checkpoint was never completed, or a record without its pin at
\* the head of the queue.
Blocked == overwritten # {} \/ (store = Idle /\ ~PinsUsable)

Published(o) == \E id \in Complete : pin[id][o] = "whole"

\* Every generation that was published under a pin is transferred in the end,
\* over as many boots as it takes, unless retries are blocked; so is one whose
\* record was lost between the capture and its first write.
QueueDrains == \A o \in PowerOwners : Published(o) ~> (rec[o].state = "completed" \/ Blocked)

\* docs/ADMIN.md:78-79: "Offline or interrupted uploads retain a private
\* pending record and retry one queued generation after boot".
RetriedAfterBoot == \A o \in PowerOwners : rec[o].state # "none" ~> rec[o].state = "completed"

\* The queue drains, and its records can be continued at every step until then.
QueueSettles == []RecordTellsProgress /\ QueueDrains
=============================================================================
