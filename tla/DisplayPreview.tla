----------------------------- MODULE DisplayPreview -----------------------------
(***************************************************************************)
(* appliance/lib/display_preview.py: display settings that are shown for a *)
(* while and become the committed configuration only on confirmation, with *)
(* the graphics service that reads them when it starts                     *)
(* (provisioning/graphics/prepare-browser.py).                             *)
(*                                                                         *)
(* Operations hold the store's lock from their first read to their last    *)
(* write; doing is where the one in progress is.  The graphics service     *)
(* takes the lock as well to read the effective settings.  The content of  *)
(* config.json is an integer: 0 at first, i > 0 the candidate of preview   *)
(* i, negative what somebody else wrote.                                   *)
(***************************************************************************)
EXTENDS Integers

CONSTANTS
  MaxPreviews,       \* bound on the previews
  MaxChanges,        \* bound on changes of config.json by others
  MaxPreviewFaults   \* bound on kills, power losses and failing calls

ASSUME PreviewBounds ==
  MaxPreviews \in Nat /\ MaxChanges \in Nat /\ MaxPreviewFaults \in Nat

VARIABLES
  config,    \* the committed configuration
  routes,    \* the configuration whose domain routes are published
  preview,   \* the record's phase, "idle" while there is no record
  candidate, \* the record's candidate
  base,      \* the configuration the record's digest is of
  expiry,    \* "open", "passed", or "stale" for a record of an earlier boot
  shown,     \* the settings the graphics service started with
  restart,   \* whether a restart of the graphics service is queued
  doing,     \* the next step of the operation that holds the lock
  changes, previewFaults

previewRecord == <<preview, candidate, base, expiry>>
previewVars == <<config, routes, preview, candidate, base, expiry, shown, restart, doing, changes,
                 previewFaults>>

Open == {"pending", "rolling-back", "committing"}
Expired == expiry # "open"

PreviewInit ==
  /\ config = 0
  /\ routes = 0
  /\ preview = "idle"
  /\ candidate = 0
  /\ base = 0
  /\ expiry = "open"
  /\ shown = 0
  /\ restart = FALSE
  /\ doing = "idle"
  /\ changes = 0
  /\ previewFaults = 0

-------------------------------------------------------------------------------
(* rollback(record): the record first, then the restart, then the record *)

BeginRollback == preview' = "rolling-back" /\ doing' = "rollback-restart"

(* Mutant: the rollback only records that the candidate is not used.       *)
RollbackWithoutRestart ==
  /\ doing = "rollback-restart"
  /\ doing' = "mark-rolled-back"
  /\ UNCHANGED <<config, routes, previewRecord, shown, restart, changes, previewFaults>>

RollbackRestart ==
  /\ doing = "rollback-restart"
  /\ restart' = TRUE
  /\ doing' = "mark-rolled-back"
  /\ UNCHANGED <<config, routes, previewRecord, shown, changes, previewFaults>>

MarkPreviewRolledBack ==
  /\ doing = "mark-rolled-back"
  /\ preview' = "rolled-back"
  /\ doing' = "idle"
  /\ UNCHANGED <<config, routes, candidate, base, expiry, shown, restart, changes, previewFaults>>

-------------------------------------------------------------------------------
(* begin(candidate) *)

BeginPreview ==
  /\ doing = "idle"
  /\ preview \notin Open
  /\ candidate < MaxPreviews
  /\ preview' = "pending"
  /\ candidate' = candidate + 1
  /\ base' = config
  /\ expiry' = "open"
  /\ doing' = "apply"
  /\ UNCHANGED <<config, routes, shown, restart, changes, previewFaults>>

ApplyCandidate ==
  /\ doing = "apply"
  /\ restart' = TRUE
  /\ doing' = "idle"
  /\ UNCHANGED <<config, routes, previewRecord, shown, changes, previewFaults>>

-------------------------------------------------------------------------------
(* confirm(identifier) and cancel(identifier) *)

(* Mutant: the digest is not compared. *)
ConfirmUnchecked ==
  /\ doing = "idle"
  /\ preview = "pending"
  /\ IF Expired
       THEN BeginRollback
       ELSE preview' = "committing" /\ doing' = "commit"
  /\ UNCHANGED <<config, routes, candidate, base, expiry, shown, restart, changes, previewFaults>>

(* Too late, or over a configuration that is not the one previewed on: the  *)
(* preview ends.                                                            *)
Confirm ==
  /\ doing = "idle"
  /\ preview = "pending"
  /\ IF Expired \/ config # base
       THEN BeginRollback
       ELSE preview' = "committing" /\ doing' = "commit"
  /\ UNCHANGED <<config, routes, candidate, base, expiry, shown, restart, changes, previewFaults>>

CommitCandidate ==
  /\ doing = "commit"
  /\ config' = candidate
  /\ doing' = "publish"
  /\ UNCHANGED <<routes, previewRecord, shown, restart, changes, previewFaults>>

Publish ==
  /\ doing = "publish"
  /\ routes' = config
  /\ doing' = "mark-confirmed"
  /\ UNCHANGED <<config, previewRecord, shown, restart, changes, previewFaults>>

MarkPreviewConfirmed ==
  /\ doing = "mark-confirmed"
  /\ preview' = "confirmed"
  /\ doing' = "idle"
  /\ UNCHANGED <<config, routes, candidate, base, expiry, shown, restart, changes, previewFaults>>

CancelPreview ==
  /\ doing = "idle"
  /\ preview \in {"pending", "rolling-back"}
  /\ BeginRollback
  /\ UNCHANGED <<config, routes, candidate, base, expiry, shown, restart, changes, previewFaults>>

-------------------------------------------------------------------------------
(* recover(), every second by the watchdog: the routes are published first, *)
(* and an interrupted commit is judged by what config.json holds.           *)

(* Mutant: an interrupted commit is rolled back whatever config.json holds. *)
RecoverAsUncommitted ==
  /\ doing = "idle"
  /\ routes' = config
  /\ IF preview \in {"rolling-back", "committing"} \/ (preview = "pending" /\ Expired)
       THEN BeginRollback
       ELSE UNCHANGED <<preview, doing>>
  /\ UNCHANGED <<config, candidate, base, expiry, shown, restart, changes, previewFaults>>

(* Mutant: an interrupted commit is left as it is. *)
RecoverUncommittedOnly ==
  /\ doing = "idle"
  /\ routes' = config
  /\ IF preview = "rolling-back" \/ (preview = "pending" /\ Expired)
       THEN BeginRollback
       ELSE UNCHANGED <<preview, doing>>
  /\ UNCHANGED <<config, candidate, base, expiry, shown, restart, changes, previewFaults>>

Recover ==
  /\ doing = "idle"
  /\ routes' = config
  /\ CASE preview = "rolling-back" \/ (preview = "pending" /\ Expired) -> BeginRollback
       [] preview = "committing" /\ config = candidate -> preview' = "confirmed" /\ UNCHANGED doing
       [] preview = "committing" /\ config # candidate -> BeginRollback
       [] OTHER -> UNCHANGED <<preview, doing>>
  /\ UNCHANGED <<config, candidate, base, expiry, shown, restart, changes, previewFaults>>

-------------------------------------------------------------------------------
(* The graphics service, other writers, the clock and faults *)

Effective == IF preview = "pending" /\ ~Expired THEN candidate ELSE config

(* A queued restart, or one of systemd's own (Restart=always). *)
StartGraphics ==
  /\ doing = "idle"
  /\ shown' = Effective
  /\ restart' = FALSE
  /\ UNCHANGED <<config, routes, previewRecord, doing, changes, previewFaults>>

Change ==
  /\ doing = "idle"
  /\ changes < MaxChanges
  /\ changes' = changes + 1
  /\ config' = -(changes + 1)
  /\ UNCHANGED <<routes, previewRecord, shown, restart, doing, previewFaults>>

PreviewExpires ==
  /\ preview \in Open
  /\ expiry = "open"
  /\ expiry' = "passed"
  /\ UNCHANGED <<config, routes, preview, candidate, base, shown, restart, doing, changes, previewFaults>>

PreviewFault == previewFaults < MaxPreviewFaults /\ previewFaults' = previewFaults + 1

(* systemctl fails: begin rolls back, a rollback stays to be retried. *)
RestartFails ==
  /\ PreviewFault
  /\ \/ doing = "apply" /\ BeginRollback
     \/ doing = "rollback-restart" /\ doing' = "idle" /\ UNCHANGED preview
  /\ UNCHANGED <<config, routes, candidate, base, expiry, shown, restart, changes>>

(* The process dies, or a write or the publication raises. *)
PreviewKilled ==
  /\ PreviewFault
  /\ doing # "idle"
  /\ doing' = "idle"
  /\ UNCHANGED <<config, routes, previewRecord, shown, restart, changes>>

(* The graphics service starts again with the machine. *)
PreviewPowerLoss ==
  /\ PreviewFault
  /\ doing' = "idle"
  /\ expiry' = "stale"
  /\ restart' = TRUE
  /\ UNCHANGED <<config, routes, preview, candidate, base, shown, changes>>

OperationStep ==
  \/ RollbackRestart \/ MarkPreviewRolledBack \/ ApplyCandidate
  \/ CommitCandidate \/ Publish \/ MarkPreviewConfirmed

PreviewNext ==
  \/ BeginPreview \/ Confirm \/ CancelPreview \/ Recover \/ OperationStep
  \/ StartGraphics \/ Change \/ PreviewExpires \/ RestartFails \/ PreviewKilled \/ PreviewPowerLoss

PreviewSpec == PreviewInit /\ [][PreviewNext]_previewVars

-------------------------------------------------------------------------------
(* Properties *)

Configurations == -MaxChanges..MaxPreviews

(* Type invariant. *)
PreviewTypeOK ==
  /\ config \in Configurations
  /\ routes \in Configurations
  /\ preview \in Open \cup {"idle", "confirmed", "rolled-back"}
  /\ candidate \in 0..MaxPreviews
  /\ base \in Configurations
  /\ expiry \in {"open", "passed", "stale"}
  /\ shown \in Configurations
  /\ restart \in BOOLEAN
  /\ doing \in {"idle", "apply", "rollback-restart", "mark-rolled-back", "commit",
             "publish", "mark-confirmed"}
  /\ changes \in 0..MaxChanges
  /\ previewFaults \in 0..MaxPreviewFaults

(* "Concurrent changes to committed configuration prevent confirmation      *)
(* rather than being overwritten" (ADMIN.md:222), and until the confirmation *)
(* nothing else writes the committed configuration.                         *)
ConcurrentChangeKept ==
  [][config' # config /\ changes' = changes => config = base /\ preview = "committing"]_previewVars

(* A preview that is over is off the screen, or a restart that will take it *)
(* off is queued, whatever the preview was interrupted by.                  *)
EndedPreviewNotShown ==
  preview = "rolled-back" /\ ~restart => shown # candidate

(* The record of a decided preview agrees with config.json: a confirmation  *)
(* that was interrupted is never reported rolled back after it took effect, *)
(* nor confirmed before.                                                    *)
DecisionMatchesConfig ==
  /\ preview = "confirmed" /\ changes = 0 => config = candidate
  /\ preview = "rolled-back" => config # candidate

(* Every preview ends, and the routes of the configuration it ended with    *)
(* are published.                                                           *)
EventuallyEnds == preview \in Open ~> preview \notin Open /\ routes = config

(* The record of a preview stands for what config.json is.                  *)
PreviewSound == PreviewTypeOK /\ DecisionMatchesConfig
===============================================================================
