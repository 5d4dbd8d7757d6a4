----------------------------- MODULE RemoteBackup -----------------------------
(***************************************************************************)
(* appliance/lib/borg_repository.py, borg_service.py, borg_settings.py,    *)
(* backup_archive.py, backup_uploads.py and the capture of                 *)
(* backup_service.py: local archives are captured, staged with their       *)
(* metadata and transferred to the destination that is configured, and     *)
(* archives are fetched back as uploads a restore is offered.  Jobs and the *)
(* command line run at the same time: borg.lock admits one operation, but  *)
(* a restore, which swaps state/elderbrain with the settings and the       *)
(* configuration rendered from them, and then renews the schedule, takes   *)
(* none.  The destinations are NFS exports at one mountpoint.              *)
(***************************************************************************)
EXTENDS Naturals

CONSTANTS
    Operations,      \* processes that use the repository
    Destinations,    \* the destinations an administrator may configure
    MaxArchives,     \* bound on the local archives
    MaxBorgFaults    \* bound on errors, kills and losses of power

ASSUME BorgAssumption == MaxArchives \in Nat /\ 0 \notin Destinations

Archives == 1..MaxArchives
NoArchive == 0
NoDestination == 0

VARIABLES
    destination,  \* settings.json: the destination, NoDestination when absent
    rendered,     \* borgmatic.yaml: the destination it was rendered for
    timer,        \* the destination whose schedule the timer unit has
    mounted,      \* the export at the mountpoint
    locals,       \* local archives: "none", "loose" (not on the disk yet), "whole" or "torn"
    staged,       \* borg-staging: the archive and the archive its metadata is of
    remote,       \* the archives of each destination, each with its metadata
    upload,       \* the upload of the last operation: the archive fetched, whether its record is there
    op,           \* each process: what it does, its next step, its archive, the
                  \*   destination it has read, whether a restore replaced that since
    crossed,      \* history: the settings changed under a schedule that was in
                  \*   hand, or a change ended before it wrote the schedule
    borgFaults

borgVars == <<destination, rendered, timer, mounted, locals, staged, remote, upload, op,
              crossed, borgFaults>>

NoOperation == [kind |-> "none", step |-> "none", archive |-> NoArchive,
                settings |-> NoDestination, overtaken |-> FALSE]
NoUpload == [archive |-> NoArchive, whole |-> TRUE, recorded |-> FALSE]

BorgInit ==
    /\ destination = NoDestination /\ rendered = NoDestination /\ timer = NoDestination
    /\ mounted = NoDestination
    /\ locals = [a \in Archives |-> "none"]
    /\ staged = [archive |-> NoArchive, metadata |-> NoArchive]
    /\ remote = [d \in Destinations |-> {}]
    /\ upload = NoUpload
    /\ op = [p \in Operations |-> NoOperation]
    /\ crossed = FALSE /\ borgFaults = 0

\* The processes are alike: the first that does nothing begins the next operation.
Idle(p) == op[p] = NoOperation /\ \A q \in Operations : q < p => op[q] # NoOperation

\* borg.lock is held from an operation's begin to its end.
Repository == {"backup", "transfer", "fetch", "inspect"}
Locking == Repository \cup {"configure"}
LockFree == \A p \in Operations : op[p].kind \notin Locking

\* Mutant: an operation starts beside another.
LockIgnored(p, kind, step) ==
    /\ Idle(p)
    /\ op' = [op EXCEPT ![p] = [NoOperation EXCEPT !.kind = kind, !.step = step]]

Lock(p, kind, step) ==
    /\ Idle(p) /\ LockFree
    /\ op' = [op EXCEPT ![p] = [NoOperation EXCEPT !.kind = kind, !.step = step]]

Take(p, step, next) ==
    /\ op[p].step = step
    /\ op' = [op EXCEPT ![p].step = next]

Finish(p) == op' = [op EXCEPT ![p] = NoOperation]

-----------------------------------------------------------------------------
(* prepare: the destination is read, its export mounted or verified, and   *)
(* the configuration rendered                                              *)

BeginBorg(p) ==
    /\ \E kind \in Repository : Lock(p, kind, "mount")
    /\ upload' = NoUpload
    /\ UNCHANGED <<destination, rendered, timer, mounted, locals, staged, remote, crossed, borgFaults>>

\* An export is mounted where nothing is; one that is mounted stays, and must
\* be the one that is configured: nothing unmounts it when the settings change.
EnsureNfs(p) ==
    /\ op[p].step = "mount"
    /\ mounted' = IF mounted = NoDestination THEN destination ELSE mounted
    /\ IF destination # NoDestination /\ mounted' = destination
       THEN op' = [op EXCEPT ![p] = [@ EXCEPT !.step = "render", !.settings = destination]]
       ELSE Finish(p)
    /\ UNCHANGED <<destination, rendered, timer, locals, staged, remote, upload, crossed, borgFaults>>

RenderConfig(p) ==
    /\ Take(p, "render", op[p].kind)
    /\ rendered' = op[p].settings
    /\ UNCHANGED <<destination, timer, mounted, locals, staged, remote, upload, crossed, borgFaults>>

\* borgmatic finds no configuration: the one that was rendered is swapped out.
ConfigurationGone(p) ==
    /\ op[p].step \in {"inspect", "create", "prune", "fetch"} /\ rendered = NoDestination
    /\ Finish(p)
    /\ UNCHANGED <<destination, rendered, timer, mounted, locals, staged, remote, upload, crossed,
                   borgFaults>>

\* initialize, list_archives and recovery_kit change nothing that is kept here.
InspectRepository(p) ==
    /\ op[p].step = "inspect" /\ rendered # NoDestination /\ Finish(p)
    /\ UNCHANGED <<destination, rendered, timer, mounted, locals, staged, remote, upload, crossed,
                   borgFaults>>

-----------------------------------------------------------------------------
(* backup and transfer *)

\* create_archive: the archive is compressed and validated aside, and linked.
Capture(p) ==
    /\ op[p].step = "backup"
    /\ \E a \in Archives :
          /\ locals[a] = "none" /\ \A b \in Archives : b < a => locals[b] # "none"
          /\ locals' = [locals EXCEPT ![a] = "loose"]
          /\ op' = [op EXCEPT ![p] = [@ EXCEPT !.step = "validate", !.archive = a]]
    /\ UNCHANGED <<destination, rendered, timer, mounted, staged, remote, upload, crossed, borgFaults>>

\* A retry transfers an archive that was captured before.
ChooseArchive(p) ==
    /\ op[p].step = "transfer"
    /\ \E a \in Archives :
          /\ locals[a] # "none"
          /\ op' = [op EXCEPT ![p] = [@ EXCEPT !.step = "validate", !.archive = a]]
    /\ UNCHANGED <<destination, rendered, timer, mounted, locals, staged, remote, upload, crossed,
                   borgFaults>>

\* backup_archive.validate reads the whole stream against its manifest.
ValidateArchive(p) ==
    /\ op[p].step = "validate"
    /\ IF locals[op[p].archive] # "torn" THEN Take(p, "validate", "stage") ELSE Finish(p)
    /\ UNCHANGED <<destination, rendered, timer, mounted, locals, staged, remote, upload, crossed,
                   borgFaults>>

StageArchive(p) ==
    /\ Take(p, "stage", "describe")
    /\ staged' = [staged EXCEPT !.archive = op[p].archive]
    /\ UNCHANGED <<destination, rendered, timer, mounted, locals, remote, upload, crossed, borgFaults>>

StageMetadata(p) ==
    /\ Take(p, "describe", "create")
    /\ staged' = [staged EXCEPT !.metadata = op[p].archive]
    /\ UNCHANGED <<destination, rendered, timer, mounted, locals, remote, upload, crossed, borgFaults>>

RemoteOf(s) ==
    [archive |-> s.archive, metadata |-> s.metadata, whole |-> locals[s.archive] # "torn"]

\* The rendered configuration names a path at the mountpoint: the archive goes
\* to the export that is mounted there.
CreateRemote(p) ==
    /\ Take(p, "create", "prune") /\ rendered # NoDestination
    /\ remote' = [remote EXCEPT ![mounted] = @ \cup {RemoteOf(staged)}]
    /\ UNCHANGED <<destination, rendered, timer, mounted, locals, staged, upload, crossed, borgFaults>>

\* prune and compact remove any archives but the newest.
PruneRemote(p) ==
    /\ op[p].step = "prune" /\ Finish(p) /\ rendered # NoDestination
    /\ \E kept \in SUBSET remote[mounted] :
          /\ RemoteOf(staged) \in kept
          /\ remote' = [remote EXCEPT ![mounted] = kept]
    /\ UNCHANGED <<destination, rendered, timer, mounted, locals, staged, upload, crossed, borgFaults>>

-----------------------------------------------------------------------------
(* fetch_archive and UploadStore *)

\* receive() syncs the bytes, links them under a new name, and then writes
\* their record.
ReceiveUpload(p) ==
    /\ op[p].step = "fetch" /\ rendered # NoDestination
    /\ IF remote[mounted] = {} THEN Finish(p) /\ UNCHANGED upload
       ELSE /\ \E r \in remote[mounted] :
                upload' = [archive |-> r.archive, whole |-> r.whole, recorded |-> FALSE]
            /\ Take(p, "fetch", "record")
    /\ UNCHANGED <<destination, rendered, timer, mounted, locals, staged, remote, crossed, borgFaults>>

RecordUpload(p) ==
    /\ op[p].step = "record" /\ Finish(p)
    /\ upload' = [upload EXCEPT !.recorded = TRUE]
    /\ UNCHANGED <<destination, rendered, timer, mounted, locals, staged, remote, crossed, borgFaults>>

-----------------------------------------------------------------------------
(* configure and a restore change the settings, and renew the schedule     *)

Changing == {"configure", "restore"}

\* The settings change between another's reading and writing of the schedule.
Overtakes == crossed \/ \E q \in Operations : op[q].step = "write"

SaveDestination(p) ==
    /\ Lock(p, "configure", "renew")
    /\ \E d \in Destinations : destination' = d
    /\ crossed' = Overtakes
    /\ UNCHANGED <<rendered, timer, mounted, locals, staged, remote, upload, borgFaults>>

\* The tree of the archive, of this appliance or another, may hold settings
\* without a configuration, or one of the settings before.
RestoreSettings(p) ==
    /\ Idle(p) /\ \A q \in Operations : op[q].kind # "restore"
    /\ destination' \in Destinations \cup {NoDestination}
    /\ rendered' \in Destinations \cup {NoDestination}
    /\ destination' = NoDestination => rendered' = NoDestination
    /\ op' = [q \in Operations |->
          IF q = p THEN [NoOperation EXCEPT !.kind = "restore", !.step = "renew"]
          ELSE [op[q] EXCEPT !.overtaken = @ \/ (op[q].kind \in Repository /\ op[q].step # "mount")]]
    /\ crossed' = Overtakes
    /\ UNCHANGED <<timer, mounted, locals, staged, remote, upload, borgFaults>>

\* Mutant: the restore leaves the timer as it is.
RenewNothing(p) ==
    /\ op[p].step = "renew" /\ Finish(p)
    /\ UNCHANGED <<destination, rendered, timer, mounted, locals, staged, remote, upload, crossed,
                   borgFaults>>

\* activate_schedule, of the settings it reads again.
ReadSchedule(p) ==
    /\ op[p].step = "renew"
    /\ op' = [op EXCEPT ![p] = [@ EXCEPT !.step = "write", !.settings = destination]]
    /\ UNCHANGED <<destination, rendered, timer, mounted, locals, staged, remote, upload, crossed,
                   borgFaults>>

WriteSchedule(p) ==
    /\ op[p].step = "write" /\ Finish(p)
    /\ timer' = op[p].settings
    /\ UNCHANGED <<destination, rendered, mounted, locals, staged, remote, upload, crossed, borgFaults>>

-----------------------------------------------------------------------------
(* Errors, deadlines and kills.  A local archive is never synced by name: a *)
(* loss of power may tear it until the system has written it back.          *)

BorgFails(p) ==
    /\ borgFaults < MaxBorgFaults /\ borgFaults' = borgFaults + 1
    /\ op[p] # NoOperation /\ Finish(p)
    /\ crossed' = (crossed \/ op[p].kind \in Changing)
    /\ UNCHANGED <<destination, rendered, timer, mounted, locals, staged, remote, upload>>

WriteBack ==
    /\ \E a \in Archives : locals[a] = "loose" /\ locals' = [locals EXCEPT ![a] = "whole"]
    /\ UNCHANGED <<destination, rendered, timer, mounted, staged, remote, upload, op, crossed,
                   borgFaults>>

BorgPowerLoss ==
    /\ borgFaults < MaxBorgFaults /\ borgFaults' = borgFaults + 1
    /\ op' = [p \in Operations |-> NoOperation] /\ mounted' = NoDestination
    /\ locals' = [a \in Archives |-> IF locals[a] = "loose" THEN "torn" ELSE locals[a]]
    /\ crossed' = (crossed \/ \E p \in Operations : op[p].kind \in Changing)
    /\ UNCHANGED <<destination, rendered, timer, staged, remote, upload>>

BorgNext ==
    \/ \E p \in Operations :
          \/ BeginBorg(p) \/ EnsureNfs(p) \/ RenderConfig(p) \/ ConfigurationGone(p)
          \/ InspectRepository(p)
          \/ Capture(p) \/ ChooseArchive(p) \/ ValidateArchive(p)
          \/ StageArchive(p) \/ StageMetadata(p) \/ CreateRemote(p) \/ PruneRemote(p)
          \/ ReceiveUpload(p) \/ RecordUpload(p)
          \/ SaveDestination(p) \/ RestoreSettings(p) \/ ReadSchedule(p) \/ WriteSchedule(p)
          \/ BorgFails(p)
    \/ WriteBack \/ BorgPowerLoss

-----------------------------------------------------------------------------
(* Every remote archive is a whole capture with its own metadata, whichever *)
(* operations, retries, kills and losses of power came between the capture, *)
(* the staging of the two files and the transfer; and so is the archive     *)
(* that was fetched and is offered to a restore.                            *)
RemoteIsWhole ==
    /\ \A d \in Destinations : \A r \in remote[d] : r.whole /\ r.metadata = r.archive
    /\ upload.recorded => upload.archive # NoArchive /\ upload.whole

(* An operation writes to the destination that is configured, never to the *)
(* one before it, unless a restore replaces the settings while it runs      *)
(* (restore_service.py:108); and always to an export that is mounted: a     *)
(* directory of the appliance's own disk is not taken for the repository.   *)
WritesWhereConfigured ==
    \A p \in Operations :
        op[p].step \in {"create", "prune"} =>
            /\ mounted # NoDestination
            /\ ~op[p].overtaken => rendered = destination /\ mounted = destination

(* Once nobody is changing it, the timer has the schedule of the settings   *)
(* that are saved or were restored, unless they changed between another's   *)
(* reading and writing of the schedule, or a change did not end.            *)
TimerFollows ==
    (op = [p \in Operations |-> NoOperation] /\ ~crossed) => timer = destination

===============================================================================
