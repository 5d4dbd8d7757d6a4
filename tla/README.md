# TLA+ models of the Mind Flayer Elderbrain appliance

The appliance is a single Linux host that runs a Foundry VTT stack in
containers and manages itself: it updates its own code, restores backups over
its own data, reconfigures its own network and displays, and has to come back
from a kill or a power loss at any point of that. Nearly all of the logic that
makes this work is in `src/appliance/lib` (Python, started by the management
service, by `systemd` units and by job workers), and nearly all of it is of one
kind: a *journal* (a small JSON record, written atomically) next to a *live
thing* (trees of files, Netplan sources, running services) that cannot be
changed atomically, and a recovery that has to find out from the two what
happened.

That is what these modules model, what the runs check and what the proofs are
about. Definitions keep the names of the code; `PROJECT.json` maps every one of
them to the lines it stands for.

## 1. Inventory

Each entry gives the state a part keeps, its operations, whom it interacts
with, what is hard about it and what makes it correct.

### Journaled tree replacement (`restore_transaction.py`) - modelled

* State: a durable record (`preparing`, `ready`, `installing`, `installed`,
  `committed`, `rolling-back`, `rolled-back`), and for every target up to four
  paths: the target and `incoming`, `previous`, `rejected` beside it.
* Operations: `prepare` copies, `apply` renames in order, `rollback` renames
  back in reverse order, `commit` decides. Each is a loop of renames with an
  fsync of both directories after each rename.
* Used by: restores, updates, the data rollback of an update, the baseline
  migration and single-component checkpoint restores.
* Hard: a fault between any two renames, between a rename and its fsync, or
  between the last rename and the record.
* Correct: no original is ever lost; a record at rest stands over one whole
  generation, durably; `rollback` can be rerun from anywhere.

### Restore coordination (`restore_service.py`, `backup_service.HostServices`) - modelled in part

* State: `maintenance.json` (operation, state, saved services), the running
  services, the pinned checkpoint and the rollback archive made before.
* Operations: `restore` under the maintenance lock, `recover` on the operator's
  command (`elderbrain restore-recover`). Nothing recovers a restore at boot.
* Hard: an exception after services were started; a restart that starts the
  services over half-installed trees; services that the command line starts
  meanwhile, under no lock; a second interruption of the recovery.
* Correct: trees do not move under services that were saved; the record's
  outcome is the journal's; the rollback sources exist before the first tree
  moves.

### Release activation and its recoveries (`release_activation.py`, `release_checkpoints.py`, `release_policy.py`, `release_services.py`, `release_recovery.py`, `update_job.py`) - modelled

* State: the maintenance record with `dataMayHaveChanged` and `dataRolledBack`,
  the code journal, the data journal, pins, the accepted sequence
  (`release-policy.json`), the selected bootstrap generation, the job record.
* Operations: `activate` in the update worker; `recover` in its exception
  handler and in the final boot unit; `recover_files` in the early boot unit;
  `commit_candidate` after the locks are released.
* Hard: four durable records that change one after the other (code journal,
  policy, maintenance record, bootstrap selection); user data that a release
  on trial may migrate; recoveries that are themselves interrupted; another
  job or maintenance operation in the gaps between locks.
* Correct: services run whole releases over data they can read; data is put
  back at most once and only while nobody settled wrote; the policy advances
  exactly for completed updates; every update is decided.

### Maintenance window and services (`backup_service.py`) - modelled

* State: `maintenance.json` with the services to start again, its lock, what runs.
* Operations: `window` (stop what runs, do the work, start it again) for captures
  and checkpoints; `recover` on the operator's command.
* Hard: a kill or a failing stop or start anywhere; a boot in the middle, which
  starts the stack but not Foundry; containers and a kiosk that are started behind
  the window, under no lock (`bin/elderbrain:54-57`, `management-server:85-88`).
* Correct: data is captured while nothing writes it that the window could know of;
  whatever was running and is down is what an unfinished record says to start.

### Bootstrap generations (`release_bootstrap.py`, `release_recovery_bundle.py`, `recovery-launcher.py`) - modelled

* State: immutable bundles and generations, one symbolic link that selects, the
  boot files and unit links of the host that lead through it.
* Operations: `install`, `prepare_candidate` before an activation,
  `commit_candidate` after it; the launcher verifies and starts what is selected
  at every boot and for every update job.
* Hard: a first installation that stops among its links; renames that are not
  synced; the crash window between the commit of an update and the selection.
* Correct: whatever survives, a whole generation is selected; what was reported as
  installed stays; a rerun converges.

### Host jobs, admission and power (`host_jobs.py`, `release_interlocks.py`, `power_service.py`) - modelled in part

* State: one record and one lock file per job, the admission lock, `power.json`.
* Operations: `submit` (the worker inherits the job's lock), `worker` and the
  command it starts, `read` (which turns a job whose lock is free into an
  interrupted one), `list`, `operate` (power), `settings_admission`.
* Hard: the hand-over of a lock across a fork; readers that take the lock
  themselves for an instant; two non-blocking locks taken in a row; a power
  request left half-way.
* Correct: at most one job runs; a live job is never reported interrupted; a
  dead one never blocks for good; an accepted power request finds the appliance at
  rest.

### Network transaction (`network_transaction.py`, `network_worker.py`, `network_confirmation.py`, two units) - modelled

* State: the record with the original bytes and a deadline on two clocks and a
  boot identity; the Netplan sources; what the network was made from.
* Operations: `stage`, `tick` (every second), `confirm` (only through the new
  address), `cancel`, `recover_boot` (before the network starts), `finalize`.
* Hard: sources replaced one by one; a backend that times out after taking
  effect; edits by others; the deadline racing the confirmation; the boot.
* Correct: an unconfirmed candidate always has somebody obliged to undo it;
  what is confirmed is what runs; edits of others survive.

### Display preview (`display_preview.py`, `prepare-browser.py`, two units) - modelled

* State: the record, `config.json`, the published routes, what is on screen.
* Operations: `begin`, `confirm`, `cancel`, `recover` (every second),
  `effective` (when the graphics service starts).
* Hard: a kill inside a confirmation; restarts that fail; other writers.
* Correct: an ended preview leaves the screen; record and configuration agree.

### Local snapshots, pins and retention (`local_snapshots.py`, `snapshot_service.py`) - modelled in part, without the window around a capture

* State: subvolumes with a completion record each, pin files by checkpoint and
  owner, deletion intents, the retention settings, one lock.
* Operations: `create` in a maintenance window, `pin`, `unpin`, `unpin_owner`,
  `recover` (finishes deletions), `prune_locked`, `retention`.
* Hard: files that are created and then filled; a crash between the subvolume,
  the pin and the record, or between the intent and the deletion; a clock that
  is set back; retention that runs while somebody depends on a checkpoint.
* Correct: a pinned checkpoint is never deleted; a record always has its
  subvolume; what `create` reports exists.

### Pending remote backup (`backup_pending.py`) - modelled in part, without `protect_update`

* State: one record per power request, its archive, its pinned checkpoint, what
  is in the remote repository.
* Operations: `capture` (in a power request), `retry` (in a power request and
  in a unit that runs once per boot), `recover_pin` in both.
* Hard: two processes on one record; a crash between the capture and the first
  record, between the upload, the record, the release of the pin and the
  removal of the archive.
* Correct: a queued generation keeps its checkpoint until it is uploaded; a
  record can always be continued; the queue drains.

### Network restore from a checkpoint (`network_checkpoint_restore.py`) - modelled

* State: a maintenance record, two pinned checkpoints, the network's record with
  its `restoreOwner` and `cleanupComplete`, a receipt per restore.
* Operations: `start` stages a network transaction and returns; the network's
  worker ends the maintenance through `finalize`; `recover` on command.
* Hard: two journals under two locks that others take in the opposite order; the
  job may die before the transaction it owns exists; the maintenance record may be
  another operation's by the time the network's is acknowledged.
* Correct: the pins outlive the transaction and nothing else; the recorded outcome
  is the network's; every restore and its acknowledgement come to an end.

### Release distribution (`release_catalog.py`, `release_download.py`, `release_prepare.py`, `release_dependencies.py`, `release_images.py`, `release_runtime.py`, `release_apply.py`) - modelled in part

* State: the prepared release of a version, the prefix of its dependencies, the
  local images, the runtime that is installed.
* Operations: confirm, fetch, pull, claim and fill the prefix, publish, check
  again from the archives, activate (the switch itself is `Activation`'s).
* Hard: a source that moves on, also to another release of the same version;
  attempts that fail or lose power half-way and are repeated.
* Correct: only a confirmed release is prepared; what is prepared or runs has its
  own dependencies, whole.

### Backup archives and Borg (`backup_archive.py`, `backup_uploads.py`, `borg_repository.py`, `borg_service.py`, `borg_settings.py`) - modelled in part, without SSH destinations, formats and encryption

* State: local archives, `borg-staging`, the remote archives of each destination,
  the export that is mounted, the settings, the rendered configuration, the timer.
* Operations: `backup`, `transfer` of an older archive, fetch into an upload,
  `configure`, each a process; `borg.lock` admits one of them. A restore swaps the
  settings and the rendered configuration and renews the schedule without it.
* Hard: a torn local archive after a power loss; the archive and its metadata
  staged one after the other; a destination changed between two operations, or by
  a restore under one.
* Correct: remote archives are whole and under their own metadata; what is written
  goes to an export that is mounted, and to the one that is configured; the timer
  has the schedule of the settings.

### Administration TLS (`admin_tls.py`) - modelled

* State: five files of an authority and a certificate, the trust of the host and
  of the kiosk, the routing configuration, what Traefik has loaded.
* Operations: `ensure_names`, `install_authority`, the migration of the layout.
* Hard: five files replaced one by one and put back from memory; a refresh that is
  interrupted before Traefik is told.
* Correct: at rest the files are of one authority, cover every name granted and
  agree with what is trusted; Traefik comes to use them.

### Keypad installation (`installation_job.py`, `serial_install.py`, `serial_provision.py`, `keypad_inventory.py`) - modelled in part

* State: the journal of the installation, the server's registry, the chip in the
  port, a flasher process of its own, the receipts.
* Operations: inspect, register, flash, provision, verify; each stage is journalled
  before it is taken.
* Hard: a flasher that outlives its worker; a chip that is unplugged and replaced by
  one with the same adapter.
* Correct: no chip gets an identity that the server does not know; a receipt names
  the chip that has it.

### Kiosk browser (`browser-session.py`, `browser_process.py`) - modelled in part, without auxiliary windows

* State: the views with their outputs, the browser units, the workers' status, the
  status file.
* Operations: a loop that plans the outputs, reaps, launches and reports; hotplug,
  crashes, new credentials and restarts of the session happen around it.
* Hard: units that survive a killed session; a status that outlives its worker;
  a worker that ends in the turn in which its view changes; connectors that are
  renumbered; a Foundry whose permissions change while the credential does not.
* Correct: no browser runs that the loop does not know of; a credential whose
  refusal the session holds is not tried again; the administration is always
  visible; displays come to show their view.

### Parts that are listed and not modelled

Network candidates (`network_config.py`, `network_sources.py`,
`network_staging.py`), the confirmation listener, the generation of routes, host
metrics and displays, the management server's dispatch, the web interface and the
release tooling are data conversion, I/O or presentation: their results are the
inputs of the models (a validated candidate, a proof of confirmation). The
baseline migration runs once in the life of an appliance over the same journal and
recovery as an update. The provisioning scripts and the installer medium run once,
in order, with nothing beside them. The Setup server keeps its sessions in the
memory of one process and its account in one file that is replaced by a rename.

### How the parts interact

* Locks, in this order: the admission lock of the jobs, the lock of a pending
  backup's record, the store's lock, the maintenance lock, the display lock, the
  network lock (`stable_settings`). A process only ever waits for the store's
  lock and for the settings locks inside their own stores; all others are
  tried and refused.
* `maintenance.json` is one record for all operations: whoever starts the next
  one overwrites the last one's outcome. Two of the disagreements of section 6
  come from there (`activation_selector`, and the wording of a job's outcome).
* `RestoreTransaction` is called by restores and updates; checkpoints are
  pinned for both; the final boot recovery writes into the job store.
* A job, the command line and the scheduled backup run the same commands; only the
  jobs ask for admission.
* The network's worker ends the maintenance of a network restore: it takes the
  maintenance lock without the network lock, reads the network's record again, and
  acknowledges under the network lock alone.

## 2. Modules

| Module | What it is |
|---|---|
| `AtomicSwitch` | what a journaled replacement promises its caller |
| `RestoreTransaction` | `restore_transaction.py`, rename by rename; implements `AtomicSwitch` |
| `RestoreTransaction_proofs` | its theorems |
| `RestoreCoordinator` | `restore_service.py` around `RestoreTransaction`: EXTENDS it, the trees are the same variables and the actions of the coordinator are conjoined with the transaction's |
| `RestoreCoordinator_proofs` | its theorems |
| `ReleaseSwitch` | what a release update promises |
| `Activation` | the update with its worker, its recoveries and its boots; implements `ReleaseSwitch` |
| `Activation_proofs` | its theorems, among them that `Activation` implements `ReleaseSwitch` |
| `NetworkTransaction` | the network change |
| `NetworkTransaction_proofs` | its theorems |
| `DisplayPreview` | the display preview |
| `DisplayPreview_proofs` | its theorems |
| `LocalSnapshots` | the checkpoint store |
| `Transactions` | `RestoreTransaction`, `NetworkTransaction`, `DisplayPreview` and `LocalSnapshots` side by side, with the fairness of each: an initial state chooses which one runs |
| `PendingBackup` | `backup_pending.py` over the store: EXTENDS `LocalSnapshots`, a capture is the store's `create` |
| `PendingBackup_proofs` | the theorems of `LocalSnapshots` and `PendingBackup`, among them that `PendingSpec` implements `StoreSpec` |
| `MaintenanceWindow` | `Maintenance.window` and `recover` with the services they stop and start |
| `HostJobs` | jobs, their locks, admission and power requests over the window: EXTENDS `MaintenanceWindow`, a job's work is a window |
| `HostJobs_proofs` | the theorems of both |
| `BootstrapGenerations` | the store of recovery code, its publication and its selection |
| `NetworkHandoff` | the network restore: a maintenance and a network transaction that hand over to each other |
| `ReleasePreparation` | an update from its confirmation to its activation |
| `RemoteBackup` | archives, the Borg repository, its configuration and schedule |
| `AdminTls` | the administration's certificate and authority |
| `KeypadInstallation` | the installation of a keypad |
| `OutputPlan` | which view goes to which output, as functions |
| `Kiosk` | the kiosk's session loop: EXTENDS `OutputPlan` |
| `Services` | `BootstrapGenerations`, `NetworkHandoff`, `ReleasePreparation`, `RemoteBackup`, `AdminTls`, `KeypadInstallation`, `OutputPlan` and `Kiosk` side by side: an initial state chooses which one runs |
| `Services_proofs` | the theorems of all of them |

State and actions correspond to the code as follows. A crash is the loss of
every volatile variable between two actions; an exception out of a step that
nothing catches is the same as a kill there, so it has no action of its own
where the two have the same effect. Each module ends with its properties. The
definitions marked as mutants are plausible wrong versions of an action; they
are used only to see that a property notices.

**RestoreTransaction.** `journal` is the record's state, `existed` the map in
it; `slot[k][s]` is what the path `s` of target `k` holds and `disk` the part of
it that survives a power loss. `pc` and `key` are the position in the running
method, "idle" when none runs. One action per rename, per fsync and per record
write; a record write that directly follows an fsync (end of a loop) is merged
with it, because `save_record` is atomic and durable. `Kill` stands for a killed
process and for an exception out of any step. `PowerLoss` lets each target keep
or lose its unsynced renames. `faults` is a rigid variable chosen in `Init`: the
kinds of fault this behaviour can meet. Properties that hold with one kind of
fault only say so (`OneKindOfFault`), so that one run and one theorem cover all
four choices.

**RestoreCoordinator.** `state` and `saved` are the maintenance record, `at` is
who holds the maintenance lock and its next step; the transaction's own `pc`
runs inside the steps `preparing`, `applying` and `rolling-back`. `Boot` starts
any set of services and may create missing targets, as `prepare-admin` does.
Targets are directories; the refresh of aliases and `validate` are part of the
step that resumes the services. `staging-restore` is left out (the sources are
given). Three services stand for the five there are: "setup" also for Traefik,
"foundry" also for the Mindflayer server. `StartContainer` and `RestartGraphics`
are what the command line, the management service and a display preview start
under no lock; a restarted kiosk waits (`asked`) until the administration answers
and the lock of the display settings is free, so it never starts between the stop
and the last rename. `late` is a history of what was started that way. `Unlocked`
says which of these starts a run has; the theorems hold for every value. Not
modelled: a Foundry that is started while its directory is away makes Docker
create an empty one, and the command line's Borg commands create
`secrets/borg` in a missing `state/elderbrain` (`borg_settings.py:37`); either
has the effect of a boot's `prepare-admin` in the run `restore_host_recreated`.
Targets are those of a persistent appliance.

**Activation.** `m` is the maintenance record; `tx` and `dtx` are the code and
data journals, at the granularity of `AtomicSwitch`: while a tree is being
switched it holds no single release (`NoRelease`, `Mixed`). `pc` is a pair of
the process that holds the admission and maintenance locks (update worker,
early or final recovery) and its next step. A write of the record's label is
part of the action it follows. `asked` is the newest job: the operation it is to
begin, and whether its worker still prepares the release (`AdmitUpdate`), which it
does for the most part before it takes the maintenance lock; a reader that finds the
worker gone classifies the job by its stage and by the record (`Classified`). An
update that is admitted over an unfinished record gives up at once and is left out.
`snap`/`pins` are the checkpoint and its pins,
`policy` the accepted sequence, `selector` the selected bootstrap, `job` the
state of the job record. `settled` counts writes of users under a release that
was accepted at that time; writes under a release on trial may be rolled back.
`backing-up` and `before_switch`, the backup before an update (`protect_update`)
among them, are folded into `ProtectUpdate`: it may refuse (`Raise`), and what a
capture does is not repeated here. `OtherMaintenance` is a whole window of another coordinator.

**NetworkTransaction.** Contents of sources are integers: the number of the
transaction that wrote them, negative for an external edit. The record's
`fingerprint` of the other sources, the `restoreOwner` and the cleanup it needs
are left out. A proof of confirmation is that the network runs a candidate
source. `Resolve` is the operator who gives way to a rollback. At boot the recovery
unit restores what was pending, has the record finalized and exits ("recovered");
the network's units require that exit and look at nothing else. `task.raced` are the
sources that were edited after the running operation had compared them and before
it has replaced them; the next operation begins without them.

**DisplayPreview.** Contents of `config.json` are integers in the same way. The
publication of routes is one step. Others write `config.json` only between
operations.

**LocalSnapshots.** `store` is the holder of the exclusive lock with its next
step; the files are `meta` (the completion record, or the deletion intent it is
renamed to), `tree` (the subvolumes), `pin` and `keep`. `write_pin` and the
record of `create` open a file and then fill it, so a pin and a record can be
"torn"; `pins()` and `records()` then raise for everybody, which is `Refuse`.
`finish_deletions` is two actions per intent, the deletion of the subvolume and
the removal of the intent. The clock is any member of `Times` at any moment.
An identifier is random in the code; the model may use one again as soon as
nothing of it is left, which keeps the state finite. Storage guard, free space
and the maintenance window are the exception `Raise`.

**PendingBackup.** A process is a power request, named by the identifier of its
job, or the boot's retry; `proc[p]` has its next step, the owner whose record it
works on, its copy of that record and the records it is about to rewrite as
lost. `rec`, `archive` and `remote` are durable. `recover_pin` compares pins and
records in one action (`RecoverPins`, under the store's lock) and writes the
lost ones one by one later (`RewriteLost`), as the code does. A second power
request cannot start while one runs (`operate` holds the admission lock); it can
while the boot's retry runs. A failing attempt that `retry` catches is
`RecordFailure`; everything else that raises is `KillProcess`. `createdAt` of a
first record is the checkpoint's, not a second reading of the clock. The
settings are those of an appliance with a repository and shutdown backups.
`overwritten` is a history variable: the owners whose record was written as lost
although it was there.

**MaintenanceWindow.** `m` is the record with what it saved, `holder` who has the
lock and at which step, `running` the services. `setup` stands for every service of
the administration's containers, "mindflayer" is the server that the command line
can restart, and Foundry is only started by a user or the record. `StartContainer`
and `RestartGraphics` are the starts under no lock; a restarted kiosk is `asked`
until the administration answers and nobody holds the display settings, which a
checkpoint's window does and a backup's does not. `wanted` and `late` are histories:
what users and boots have started, and what of it behind an open window.

**HostJobs.** `job` is the records, `lock[j]` the set of processes that hold the
job's lock: the submitter, the worker, the command it started. `Judged` is what a
reader makes of a record and is applied wherever the code lists the jobs. A process
runs a backup, a recovery of the window or a power request, and an operator runs the
same without a job. A power request writes its record and then calls `systemctl`,
two actions; `did` are the jobs whose work is done, the call included, and `cut` those
that ended between the two. `protect` (the pending backup of a power request) is the window
of its checkpoint.

**BootstrapGenerations.** `disk` is what processes see of the store and `unsynced`
the states it had since its last sync: a power loss goes back to one of them, for the
names and links are on one journalled filesystem, which keeps their order. A bundle and a generation are verified as one step each, because the
verification compares everything with a hash in its name.

**NetworkHandoff.** `maint` and `net` are the two records, `receipt` the files that
tell of a restore whose maintenance record is gone, `holder` who has the maintenance
lock. The transaction itself is `NetworkTransaction`'s; here it is applied, decided
or undone in one step. `fate` is a history of how each transaction ended.

**ReleasePreparation.** A release is its sequence number and `VersionOf` the version
it carries, so that two may share one. `unsettled` are publications whose directory
is not synced.

**RemoteBackup.** Each process of `op` runs one operation, with `borg.lock` derived
from their steps. A local archive is "loose" until the system has written it; a
power loss can tear it. `rendered` is the destination in `borgmatic.yaml` and
`mounted` the export at the mountpoint, which the configuration names by the same
path for every destination. `RestoreSettings` is a restore, or its rollback: it
swaps settings and configuration, holds no `borg.lock`, and then renews the schedule
like `configure` (`ReadSchedule`, `WriteSchedule`). `overtaken` marks the operations
that had read the settings before. Processes are interchangeable and begin in order,
destinations are symmetric.

**AdminTls.** `auth` names the authority that each of the five files is of, `leaf`
the names in the certificate. The rotation keeps what it read in its process, so a
kill loses it.

**KeypadInstallation.** The registry only grows: a restore of `state/mindflayer`,
which takes it back, is not modelled, so `KeypadsKnown` is about installations
without a restore after them. `keypad` is what each chip holds, `port` the one plugged in,
`work` the journal in hand. The serial port is found by the description of its
adapter, which all keypads share here; only the flasher compares addresses.

**OutputPlan, Kiosk.** A connector is a number, ten of them a family, in the order of
their names. `unit` is what runs, `child` what the loop believes to run, `pipe` and
`status` what workers said and what the loop read of it, `report` the file. `cred` is
the revision of the credential that the loop would read and `issued`, a history, the
last one that was saved: a restore of the settings puts an older one back, which
needs the session to be off. The assignment is written as recursive functions over
the views, so that it can be proved about. One
action per phase of a turn of the loop (plan, drain, poll, launch, report);
`Hotplug`, crashes, credentials and `foundry` change between any two. `foundry` is
what Foundry answers to a login with a good credential: it admits it, is closed for
now, or refuses it in one of the states that the loop takes for terminal (the
pairing, the role, the permissions or the module ask for a review, or a version is
not supported), and `FoundryChanges` takes it from any of these to any other. A
worker reports and then ends ("leaving", `WorkerLeaves`). `refused` is a history: the
revision of the last refusal, and whether the session holds it, has not read it, has
dropped it with a view that changed, or has been restarted since. `Launch` has the
unit running at once, although `systemd-run` returns before its process runs.

**Transactions, Services.** The modules share no variables; `part` chooses the one that runs; in
`Services` it is one of `Chosen`, or a configuration of displays that is given to
`OutputPlan` (`shown`). A run of the sum has the states of each and no more. Their properties
are stated in their modules, and named in `Services` to be
checked together.

## 3. Runs

| Run | Bounds | Distinct states | Shows |
|---|---|---|---|
| `transactions` | see below | 324,475 | the properties of four stores |
| `restore_host` | 2 targets, any faults, boots, Foundry and the graphics started under no lock | 977,034 | `RestoreSound`: outcome and rollback sources; `NoSwitchUnderWriters`, `ServicesComeBack`, `SettlesUnlessObstructed` |
| `restore_writers` | 1 target, Foundry started under no lock | violation | a live tree moves under a Foundry that was started behind the restore |
| `restore_host_recreated` | 1 target | violation | a restore that cannot be recovered |
| `activation` | releases 0..2, 2 updates, 3 faults, 1 write | 152,927 | `WritersOnWholeRuntime`, `NoSettledWriteLost`; `UpdateSound`: record, policy, runtime, job and rollback sources agree; `ImplementsReleaseSwitch`; `UpdateSettles`: decided, and the boot selects |
| `activation_selector` | releases 0..1, 1 update, 1 fault | violation | the crash window is not closed |
| `pending` | 2 checkpoints, 2 power requests, an operator, 2 faults | 217,721 | `GenerationKept`; `QueueSettles`: records tell the progress and the queue drains |
| `pending_blocked` | 2 checkpoints, 2 power requests, 2 faults | violation | one interrupted capture stops every retry |
| `host` | 2 jobs and an operator who recovers or asks for power, 1 fault, 1 boot, Foundry started under no lock | 542,069 | `JobsTellTheTruth`, `PowerInterlock`, `JobsEnd` |
| `window` | 1 job and an operator who backs up or recovers, 2 faults, 1 boot, every start under no lock | 1,566,612 | `NothingLeftDown`, `QuietCapture` |
| `services` | see below | 170,959 | one property per service, and `ServicesProgress` |
| `backup` | 2 processes, 2 destinations, 2 archives, 1 fault | 1,968,034 | `BackupsSound`: whole archives with their own metadata, where mounted and configured, and the timer |

In `transactions`:

| Module | Bounds | Distinct states | Shows |
|---|---|---|---|
| `RestoreTransaction` | 3 targets, any faults | 13,550 | `OldTreeRetained`, `WholeGeneration`, `RestIsDurable`, `ImplementsSwitch`, `EventuallyDecided` |
| `NetworkTransaction` | 2 sources, 2 transactions, 2 edits, 2 faults | 78,595 | `NetworkSound`: obligations; `BootsWithoutCandidate`, `OriginalsRestored`, `EditsKept`; `NetworkSettles`: changes are decided, and only what runs is confirmed |
| `DisplayPreview` | 2 previews, 2 changes, 2 faults | 13,600 | `EndedPreviewNotShown`, `PreviewSound` (record and configuration agree), `ConcurrentChangeKept`, `EventuallyEnds` |
| `LocalSnapshots` | 3 checkpoints, 2 owners, 2 clock readings, keep 0 or 1 | 218,730 | `StoreSound`: records have trees, pins and deletions never meet; `CreatedCheckpointSurvives` |

A property whose name ends in `Sound` or `Settles` is a conjunction of named ones,
each with a comment of its own where it is defined. In `services`:

| Property | Bounds | Says |
|---|---|---|
| `KioskSound` | 2 views, 2 outputs, 2 credentials, 3 events; for the assignment, all pairs of 18 saved views on 3 connectors | no unknown or outdated browser, no login while its refusal is held, the administration is always visible and no output is given twice |
| `BootSound` | 2 releases, 3 faults | whatever survives selects a whole, linked generation; what returned as installed stays |
| `HandoffSound` | 2 restores, 3 faults | the pins and the record outlive the transaction; the outcome is the network's |
| `TlsUsable` | 2 names, 2 authorities, 2 faults | the files agree with each other, with what was granted and with what is trusted |
| `KeypadsSound` | 2 chips, 3 installations, 2 revisions of the settings, 2 faults | identities and receipts are true |
| `UpdatesSound` | 3 releases, two of one version, 3 faults | only what was confirmed, with its own dependencies and images |
| `ServicesProgress` | all of these | "ready" is of a live worker; displays come to show; installations converge; restores are acknowledged; Traefik comes to use the certificate |

Why the bounds suffice. The loops over targets treat them one at a time, so
three targets have a first, a middle and a last one, with every combination of
"existed"; the proofs lift the restriction. Two updates are needed for a record,
a pin or a policy of an earlier update to meet a later one, three releases for a
rolled-back update to be followed by a newer one. Three faults allow a failing
step, an interrupted recovery and an interrupted second recovery. A second
transaction or preview meets the first one's record; two edits or changes can
conflict with a candidate and with its rollback. With three checkpoints and
`keep = 1` retention has more than one to delete, in an order, while a third is
pinned or new; two clock readings are enough to have a new checkpoint count as
the oldest. In `pending` two requests compete for the head of the queue and for
a checkpoint under `keep = 1`, the operator's checkpoint makes retention choose,
and two faults interrupt a request and its retry. Of the stores of `transactions`,
the trees and the checkpoints have no bound on kills. Every liveness run stops its other faults by the bound, or names what
would stop progress for good in the property, as any such property has to.

In `host` two jobs compete for admission and for the window with an operator who
recovers it or asks for power himself, and the fault falls on a worker, its command or
the operator at any step; a boot lets a reader of another boot judge what was left. The
starts under no lock concern the window alone, so `window` has all of them over one job
and one operator with two faults, and `host` only Foundry's. In `restore_host` Foundry
stands for both containers that can be started, which differ in nothing there; the
theorems have every set of them. In `backup` one process operates
while the other restores or operates, and two archives and two destinations can be
mixed up. In `services` two of each actor meet and
the faults allow an interrupted operation and an interrupted repetition of it; three
releases, two of them of one version, let an attempt meet what another release of its
version left; three installations let a chip be installed, replaced and installed
again.

The systems of `Activation`, `RestoreCoordinator`, `PendingBackup` and `HostJobs` never
stop, so deadlock is checked there. A decided `RestoreTransaction`, an appliance that
used up its network transactions and a service of `services` that used up its operations
do stop, so `transactions`, `services` and `backup` do not check it.

## 4. Fairness, and why the code justifies it

* A method or operation that was started runs on (weak fairness of its steps):
  it holds its lock and waits for nobody.
* `transactions`: only of the store that is used, stated in `Transactions`.
  `FairTrees`: the coordinators call `rollback` again on every recovery.
  `FairNetwork`: the watchdog is restarted by `systemd` and ticks every second,
  clocks advance, the boot proceeds, somebody resolves a refused rollback and
  restarts an appliance whose boot recovery failed. `FairDisplay`: the watchdog comes
  back to its lock every second (strong fairness: other operations hold the lock in
  between), `systemd` executes a queued restart. The store of checkpoints is only
  checked for safety here; `pending` has its progress.
* `restore_host`: a restore runs on, the machine boots, and the operator runs
  `restore-recover` when a restore is left unfinished (weak fairness: he need not
  come between two interruptions). `SettlesUnlessObstructed` is about behaviours in
  which the interruptions cease; new restores may still begin, so it says that
  whatever is unsettled is settled later, or obstructed.
* `activation`: `systemd` starts the two recovery units of a boot
  (`WantedBy=multi-user.target`), and somebody restarts an appliance that was
  left with an unfinished update (the early unit blocks the writers, so the
  appliance does not work until then).
* `pending`: whoever holds the store goes on, each process goes on, and the
  appliance is started again once its power requests have ended, which is what
  they are for. Nothing runs the retry but a boot. Nothing is assumed of
  operators and of the processes that have not started.
* `host`: a process that runs goes on, and the web interface keeps listing the jobs
  while it is open. Nothing is assumed of submissions.
* `services`: only of the service that runs. `FairKiosk`: the loop turns, the
  graphics service is restarted by `systemd`, workers answer and, once they have
  reported a refusal, end. `FairBootstrap`:
  provisioning is repeated until it succeeds, and the unit that finishes an update is
  started at every boot. `FairHandoff`: the network's worker ticks every second, so
  it gets a lock that is free again and again (strong fairness), and an operator
  repeats a recovery that was refused. `FairTls`: an operation runs to its return and
  Traefik watches its directory. Keypads, updates and remote backups are only
  checked for safety: their operations are started by people.

## 5. What is proved

All theorems are about every value of the constants, with any number of faults.

| Theorem (`RestoreTransaction_proofs`) | About faults | States |
|---|---|---|
| `SpecTypeOK` | any | `[]TypeOK` |
| `SpecOldTreeRetained` | any | `[]OldTreeRetained` |
| `SpecTargetIsWhole` | any | `[]TargetIsWhole` |
| `SpecWholeGeneration` | not kills and power losses both | `[]WholeGeneration` |
| `SpecRestIsDurable` | no kills | `[]RestIsDurable` |
| `SpecImplementsSwitch` | not both | the steps of `Spec` are steps or stutters of `AtomicSwitch` |

The conditions are part of the properties (they speak about the variable
`faults`), not assumptions of the proof, and they are no convenience: with both
kinds of fault the last three are false (section 6).

None of these is inductive: what a rollback may do depends on which of the four
paths of *every* target are occupied. The invariant `IInv` therefore classifies
the paths of a target into the shapes the methods can leave (`Before`, `Staged`,
`Retired`, `Switched`, `Displaced`, `Reverted`) and says, for each state of the
record and each position of a running method, which shape the targets before, at
and after the one in hand have, in the page cache and on disk. There is one
lemma per action, with one step per conjunct of `IInv`.

| Theorem (`RestoreCoordinator_proofs`) | About faults | States |
|---|---|---|
| `SpecRestoreSound` | outcome: one kind of fault; the rest: any | `RestoreSpec => []RestoreSound` |
| `SpecNoSwitchUnderWriters` | any | `NoSwitchUnderWriters`, a property of steps: no tree moves under a saved service but a container started under no lock since it was stopped |
| `SpecServicesComeBack` | any | `ServicesComeBack`, a property of steps: what was saved runs, or is the kiosk that is being restarted |
| `SpecOriginalsRetained` | any | `[]OldTreeRetained`, around the coordinator and with its boots |

From `NAssumption` (there is a target), for every value of `Unlocked`. The trees are those of `RestoreTransaction`, but
its invariant does not carry over: a boot may put a directory where a tree was, which
the transaction alone never meets, and a method of the transaction runs only inside the
step of the coordinator that called it. So the invariant is one of its own. It says who
holds the lock with which method under way (`HolderInv`), that record and journal agree
at each step (`RecordInv`), what of the rollback sources is there (`SourcesInv`) and
what the services were told so far, and what was started behind that (`WritersInv`). Of the trees it says that an
original stands or is aside, in memory and on the disk (`OriginalsInv`, `DurableInv`),
and what prepare, apply and rollback have behind and before them (`StagedInv`,
`InstalledInv`, `RevertedInv`). Only that a rolled-back restore has its originals back
needs a single kind of fault; the outcome "completed" and everything else holds with
kills and power losses mixed.

| Theorem (`PendingBackup_proofs`, of the store) | States |
|---|---|
| `SpecRecordHasTree` | `StoreSpec => []RecordHasTree` |
| `SpecDeletionNeverBlocked` | `StoreSpec => []DeletionNeverBlocked` |
| `SpecStoreSound` | `StoreSpec => []StoreSound`, the two together |
| `SpecCreatedCheckpointSurvives` | `StoreSpec => []CreatedCheckpointSurvives` |

From `StoreAssumption` (identifiers, times and settings are natural numbers, 0
is no identifier). The invariant adds to the properties what the holder of the
lock knows at each step: which record and subvolume its checkpoint has
(`HolderInv`), and that everything selected for deletion is still complete, not
pinned and not the new checkpoint (`DoomedInv`). That retention deletes a member
of what it selected needs that a set of checkpoints has an oldest one, which
`OldestIsMember` takes from the well-foundedness of the natural numbers.

| Theorem (`PendingBackup_proofs`, of the queue) | States |
|---|---|
| `SpecPendingTypeOK` | `PendingSpec => []PendingTypeOK` |
| `SpecGenerationKept` | `PendingSpec => []GenerationKept` |
| `SpecRecordTellsProgress` | `PendingSpec => []RecordTellsProgress` |
| `SpecImplementsStore` | `PendingSpec => StoreSpec` |

From `StoreAssumption` and `PendingAssumption`. `GenerationKept` speaks of the
record on disk, but a process overwrites it with its own copy, and with pairs it
compared long before; so the invariant says of every copy and of every pair in
hand that it is covered (`CopiesCovered`): the checkpoint is pinned, complete and
there, or the archive is in the repository. The store preserves this because
retention keeps what is pinned (the invariant of the store), the
processes because a pin is only released at a step where the owner is in the
repository (`StepsInv`), and a capture because the pin it wrote stays whole until
it returns (`CaptureInv`).

`RecordTellsProgress` is the other direction and needs an invariant beside that one
(`ProgressInv`): the record that a process has under its lock is the one on the disk,
and no two processes have the same (`AttemptInv`, `LockInv`); a pin that was found
without a record stays of a complete checkpoint for as long as there is none; and a
request that has not captured yet has no record, no pin and nobody who recovers one for
it (`RequestInv`). Where a first record or a recovered one replaces an existing record,
this breaks, which is what `overwritten` excepts (section 6).

| Theorem (`NetworkTransaction_proofs`) | States |
|---|---|
| `SpecNetworkSound` | `[]NetworkSound` |
| `SpecBootsWithoutCandidate` | `[]BootsWithoutCandidate`: neither in the sources nor in what was generated from them |
| `SpecOriginalsRestored` | `[]OriginalsRestored` |
| `SpecEditsKept` | `EditsKept`, a property of steps: but for an edit between comparison and replacement |
| `SpecConfirmsWhatRuns` | `ConfirmsWhatRuns`, a property of steps |

From `FilesAssumption` (a finite, non-empty set of sources) and `BoundsAssumption`.
The operations replace sources one at a time, so the invariant says what holds of
those that a pass has behind it and of those it has before it: an unconfirmed
content is always the record's candidate and never an original (`CandidateInv`), a
source that was compared still compares unless an edit came in between (`Compares`),
and without edits the sources and the network are the originals before and after a
change (`OriginalsInv`). That what is confirmed runs needs one more (`RunsInv`): from the
application on a source that holds the candidate is one the network was made from, and a
confirmation has compared every source it has behind it.

| Theorem (`DisplayPreview_proofs`) | States |
|---|---|
| `SpecPreviewSound` | `[]PreviewSound` |
| `SpecEndedPreviewNotShown` | `[]EndedPreviewNotShown` |
| `SpecConcurrentChangeKept` | `ConcurrentChangeKept`, a property of steps |

From `BoundsAssumption`. The holder of the lock works on the phase it recorded, over
the configuration the preview was based on until it has committed (`StepsInv`); only a
commit puts a candidate into `config.json` (`CandidateInv`); and a rollback that has
asked for the restart finds it queued or done (`ScreenInv`).

| Theorem (`Activation_proofs`) | States |
|---|---|
| `SpecWritersOnWholeRuntime` | `[]WritersOnWholeRuntime` |
| `SpecNoSettledWriteLost` | `[]NoSettledWriteLost` |
| `SpecUpdateSound` | `[]UpdateSound`; of the job, "stopped before activation" only while its record was not replaced |
| `SpecFinishSelects` | `FinishSelects`, a property of steps |
| `SpecImplementsReleaseSwitch` | the steps of `Spec` are steps or stutters of `ReleaseSwitch` |

From `BoundsAssumption`, with and without jobs and maintenance of others in the gaps.
One invariant serves all five. Between updates the accepted release is installed over
data it can read (`SettledInv`). During one, the code journal says which release the
tree holds (`UpdateInv`); the maintenance record and the data journal say whether the
data may be the new release's (`DataAtStake`), and then the checkpoint is pinned,
readable by the old release and has every settled write (`DataInv`). `ActivateInv` and
`RecoverInv` place the running activation or recovery among these. The invariant is
what makes an interrupted recovery safe to repeat: each step of it is allowed by the
records alone.

| Theorem (`HostJobs_proofs`) | States |
|---|---|
| `SpecJobsTellTheTruth` | `HostSpec => []JobsTellTheTruth`; a power request cut off before its call of `systemctl` is excepted |
| `SpecPowerInterlock` | `HostSpec => []PowerInterlock` |
| `SpecNothingLeftDown` | `HostSpec => []NothingLeftDown`; a container started behind a window that had not saved it is excepted |
| `SpecQuietCapture` | `HostSpec => []QuietCapture`; what was started under no lock after its stop is excepted, the administration and a checkpoint's kiosk are not |

From `JobsAssumption` (the users of a window are the jobs and an operator). The part
about the window (`WindowInv`) says what its holder has saved and stopped at each step,
and that what is stopped is saved. The part about jobs says that who
still works for a job holds its lock (`LockInv`), that one job is alive at a time and
none but its owner's behind a gate (`AloneInv`), where each process is against the
locks it holds and the records it made (`WorkInv`), and that a power request that was
passed on was made by its owner (`PowerInv`).

| Theorem (`Services_proofs`) | States | Assumes | Invariant |
|---|---|---|---|
| `SpecHandoffSound` | `ServicesSpec => []HandoffSound` | `HandoffAssumption` | `HandoffInv`: which record belongs to the latest restore, who holds the locks at which step |
| `SpecUpdatesSound` | `ServicesSpec => []UpdatesSound` | `OffersAssumption` | `UpdateInv`: the attempt at each stage has what the earlier ones made, and a prepared version is of its own release |
| `SpecBackupsSound` | `ServicesSpec => []BackupsSound` | `BorgAssumption` | `BorgInv`: one operation at a time beside any restore; the export it verified is mounted, and what it read of the settings is what they are unless a restore came since |
| `SpecBootSound` | `ServicesSpec => []BootSound` | `ReleasesAssumption` | `GenerationsInv`: what an installation has already published and synced |
| `SpecTlsUsable` | `ServicesSpec => []TlsUsable` | `AuthoritiesAssumption` | `TlsInv`: the files are of one authority, or the rotation in hand knows which of them it has replaced and what to put back |
| `SpecKioskSound` | `ServicesSpec => []KioskSound` | none | `KioskInv`: which worker each view has and what it was started with, and that a credential whose refusal is held has its retry deferred |
| `SpecReadyIsLive` | `ServicesSpec => ReadyIsLive`, a property of steps | none | `KioskInv` |
| `PlanIsSound` | `AssignmentSound`, for any connectors and monitors | one or two views | none: it is about a function |
| `SpecKeypadsSound` | `ServicesSpec => []KeypadsSound` | `KeypadsAssumption` | `KeypadInv`: what an installation knows of the chip before it, and what each chip was given |

The assignment of outputs is proved for every set of connectors and every set of known
monitors, not only for those the run tries. It is a recursion over the views, which are
one or two (`browser-session.py:221` refuses other numbers), so the proof unrolls it and
needs no induction. With three views what it says of known monitors would be false: an
administration that finds no free output has all claims dropped, and what it leaves is
given out by connector family.

Each invariant is over the variables of its service; that the steps of the others leave
them alone is a lemma of its own (`HandoffRuns`, `UpdateRuns`, and so on). The
assumptions only separate "none" (0) from the elements of the sets and say that bounds
are numbers, but for `1 \in Keypads`: keypad 1 is the one that has no identity at first.

A word on how the modules are written for this: several fields of one process are
updated one level at a time (`![p] = [@ EXCEPT !.step = .., !.record = ..]`),
because tlapm 1.4.5 mistranslates an `EXCEPT` that gives several nested paths of
the same element and would accept a false step from it.

In the modules with a proof, what stands for "nothing" is "none", 0 or a model value and
never the empty string, which its SMT encoding does not tell from other strings.

Only model-checked: the liveness properties (`EventuallyDecided`,
`SettlesUnlessObstructed`, `UpdateSettles`, `NetworkSettles`, `EventuallyEnds`,
`QueueSettles`, `JobsEnd`, `ServicesProgress`), for fairness and ENABLED are out of the
prover's reach. What they contain of safety is proved (`ConfirmsWhatRuns`,
`RecordTellsProgress`, `FinishSelects`, `ReadyIsLive`). Every other property of a run is
a theorem. Type correctness of the modules is part of their invariants; for
`RestoreTransaction` and `PendingBackup` it is a theorem of its own and therefore not a
property of their runs.

## 6. Where the code and its documents disagree

1. `restore_host_recreated`: a rollback is interrupted between its two renames
   (`restore_transaction.py:131` and `134`) over a rejected tree that it put aside
   there, and `prepare-admin` of the next boot creates the missing directory:
   `restore-recover` fails on the first of the two renames from then on. The tree
   that was put aside is, in the trace, itself one that a boot had made, between
   the two renames of `apply` (108 and 111).
2. `restore_writers`: `start-foundry` takes no lock, so that a Foundry which a
   restore has stopped writes while its tree is moved, although the coordinator
   "must ... stop all writers" (`restore_transaction.py:3`).
3. `activation_selector`: another maintenance operation between a completed
   activation and the next boot hides from final recovery that a bootstrap is
   still to be selected.
4. `pending_blocked`: a capture that loses power between the pin and the
   completion record of its checkpoint leaves a pin without a checkpoint.
   `pinned_records` raises on it, and every retry begins there: no queued
   generation is uploaded after any later boot, until somebody removes the file.

Other disagreements, which a history variable of a property excepts rather than a run
shows:

* A service that is started behind an open window is not stopped with the others and
  writes while data is captured; and a container that started between the snapshot and
  the stop is stopped and not started again, although the services' "previous state"
  is recorded (`ADMIN.md:94-97`): `late` in `NothingLeftDown` and `QuietCapture`.
* A worker killed after its release was accepted leaves a job that still says it was
  activating; once other maintenance has replaced the record, a reader words it as
  stopped before activation, with the installed release not changed
  (`host_jobs.py:24-25`, `250-260`): `JobOutcomeTruthful` says so only while the record
  is that of the update.
* An edit between the comparison of a Netplan source and its replacement by the same
  operation is overwritten, although external edits "are not silently overwritten"
  (`NETWORK-SAFETY.md:18`): `task.raced` in `EditsKept`.
* A power job that ends between its record and the call of `systemctl` is reported as
  completed after any later boot, although a completed result "means the systemd
  request was accepted" (`LIFECYCLE-IMPLEMENTATION.md:1635`): `cut` in
  `JobsTellTheTruth`.
* A refusal of Foundry that is read in the turn in which the view changes, as when the
  displays are unplugged, defers no retry, although errors are kept "stable until
  credentials change" (`browser-session.py:142`): `refused` in `KioskSound`.
* The display asks for a change of permissions in Foundry (`browser-session.py:41`)
  and does not come back when it was made, until the credential is saved again or the
  session restarted; only the message about the role says so
  (`browser-session.py:39`): `DisplaysShow` is about displays that the session did not
  give up.
* A restore replaces the configuration of the repository under an operation that has
  verified its mount, which then follows it onto the export of the old destination;
  operations "verify exact mount source/type and refuse wrong mounts"
  (`IMPLEMENTATION-ADDITIONS.md:565-566`): `overtaken` in `WritesWhereConfigured`.
* A configuration and a restore read and write the schedule without a lock in common,
  and the older may be written last; the state "is reapplied after restore"
  (`IMPLEMENTATION-ADDITIONS.md:575`): `crossed` in `TimerFollows`.
* `recover_pin` and the first record of a `capture` replace a record without its
  lock. Between the boot's retry and a power request this can take a record back
  to `checkpoint-ready` when it is further, even completed, and then no retry
  finds its pin and the queue stands still behind it (`overwritten` in
  `RecordTellsProgress` and `QueueDrains`), although interrupted uploads "retry one
  queued generation after boot" (`ADMIN.md:77-78`).

Behaviour worth knowing that contradicts no document:

* A power worker tries the admission lock that the process which submitted it may
  still hold, and then fails for no other reason. One that is killed after it wrote
  `protecting` or `requested` closes the gate for every job until the next boot.
* Backups and restores from the command line do not ask whether a power request is
  pending; only jobs and settings changes do.
* A rotation of the administration's authority that is killed between its files is
  undone by nothing (`torn` in `TlsUsable`).
* A keypad that is replaced by another between the last identification and the
  opening of the port receives the other's configuration (`swapped` in
  `ReceiptsTrue`).
* The dependencies of a version are prepared in a directory that is claimed once: an
  attempt that failed or was killed makes every later update to that version fail.
* An NFS export stays mounted when the destination is changed, and every operation
  fails until somebody unmounts it.
* A kiosk session that is restarted forgets which credentials were refused and tries
  each of them once more.
* A rollback that is killed between a rename and its fsync and then rerun does
  not sync that directory again; a later power loss can take the rename back
  under a record that says `rolled-back`. `WholeGeneration` and `RestIsDurable`
  are conditional for that reason.
* A restore begun with the services stopped saves none to stop; after a restart
  its recovery moves trees under running writers. `NoSwitchUnderWriters` is
  about the saved services.
* A preview that is killed before it is shown can still be confirmed, and a
  publication of routes that keeps failing keeps an expired preview from being
  rolled back.
* A crash after the completion of a record and before the removal of its archive
  leaves the archive in `backups` for good.

## 7. Plan

Done: all modules of section 2; the proofs of section 5, which hold for the starts of
services under no lock and for a restore beside the backup too.

Left, in this order: a composition of `NetworkHandoff` with `NetworkTransaction` in
place of the one step that decides a transaction, with a proof that the composition
implements `NetworkHandoff`; the same for `Activation` and the two journals that it has
at the granularity of `AtomicSwitch`; the baseline migration as a variant of
`Activation`.
