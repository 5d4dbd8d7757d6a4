-------------------------- MODULE ReleasePreparation --------------------------
(***************************************************************************)
(* appliance/lib/update_job.py, release_download.py, release_prepare.py,   *)
(* release_staging.py, release_images.py, release_dependencies.py,         *)
(* release_runtime.py and release_apply.py: a confirmed release is fetched, *)
(* its images are pulled, its dependencies are installed at a prefix that   *)
(* is claimed once, it is published as prepared, and it is checked again    *)
(* from its archives before it is activated.  The source may publish        *)
(* another release at any time, also one of the same version, and an        *)
(* attempt may fail, be killed or lose its power at any step.  The switch   *)
(* of the runtime itself is Activation's.                                   *)
(***************************************************************************)
EXTENDS Naturals

CONSTANTS
    Offers,        \* the releases a source may publish: their sequence numbers
    VersionOf,     \* the version each carries; two may share one
    MaxUpdateFaults

ASSUME OffersAssumption == Offers \subseteq Nat \ {0}

Versions == {VersionOf[m] : m \in Offers}

VARIABLES
    offered,     \* the release the source serves
    update,      \* the job: the release confirmed, the manifest fetched, its step
    images,      \* the releases whose images are local
    prefix,      \* dependencies/<version>: the release it is for, and its state
    prepared,    \* prepared/<version>: the release, 0 when absent
    unsettled,   \* versions published as prepared, and not yet synced
    running,     \* the release whose runtime is installed, 0 for the baseline
    confirmed,   \* history: the releases a user confirmed
    updateFaults

updateVars == <<offered, update, images, prefix, prepared, unsettled, running, confirmed,
                updateFaults>>

NoUpdate == [selected |-> 0, fetched |-> 0, step |-> "none"]
Unclaimed == [of |-> 0, state |-> "absent"]

UpdateInit ==
    /\ offered = 1 /\ update = NoUpdate
    /\ images = {} /\ running = 0 /\ confirmed = {} /\ unsettled = {}
    /\ prefix = [v \in Versions |-> Unclaimed]
    /\ prepared = [v \in Versions |-> 0]
    /\ updateFaults = 0

Selected == update.selected
Version == VersionOf[Selected]

Reach(step, next) ==
    /\ update.step = step
    /\ update' = [update EXCEPT !.step = next]

\* An error ends the job; what it published stays.
Abandon(step) == update.step = step /\ update' = NoUpdate

Confirmed(m) == m = Selected

-----------------------------------------------------------------------------
(* release_catalog.check shows what the source serves; a user confirms it,  *)
(* at once or when the source has moved on.                                 *)

Publish ==
    /\ offered + 1 \in Offers /\ offered' = offered + 1
    /\ UNCHANGED <<update, images, prefix, prepared, unsettled, running, confirmed, updateFaults>>

ConfirmUpdate(m) ==
    /\ update = NoUpdate
    /\ m \in Offers /\ m <= offered
    /\ update' = [selected |-> m, fetched |-> 0,
                  step |-> IF prepared[VersionOf[m]] = 0 THEN "fetch" ELSE "check"]
    /\ confirmed' = confirmed \cup {m}
    /\ UNCHANGED <<offered, images, prefix, prepared, unsettled, running, updateFaults>>

-----------------------------------------------------------------------------
(* download_prepare *)

FetchManifest ==
    /\ update.step = "fetch"
    /\ IF Confirmed(offered)
       THEN /\ update' = [update EXCEPT !.fetched = offered, !.step = "artifacts"]
       ELSE Abandon("fetch")
    /\ UNCHANGED <<offered, images, prefix, prepared, unsettled, running, confirmed, updateFaults>>

\* The bytes must be the signed ones: those of the release that was fetched.
FetchArtifacts ==
    /\ IF offered = update.fetched THEN Reach("artifacts", "images") ELSE Abandon("artifacts")
    /\ UNCHANGED <<offered, images, prefix, prepared, unsettled, running, confirmed, updateFaults>>

PullImages ==
    /\ Reach("images", "claim")
    /\ images' = images \cup {update.fetched}
    /\ UNCHANGED <<offered, prefix, prepared, unsettled, running, confirmed, updateFaults>>

\* Mutant: a prefix left by another attempt is used again.
ClaimAgain ==
    /\ Reach("claim", "fill")
    /\ prefix' = [prefix EXCEPT ![Version] = [of |-> update.fetched, state |-> "claimed"]]
    /\ UNCHANGED <<offered, images, prepared, unsettled, running, confirmed, updateFaults>>

\* The claim is an exclusive mkdir; a prefix is never overwritten or moved.
ClaimPrefix ==
    /\ update.step = "claim"
    /\ IF prefix[Version] = Unclaimed
       THEN /\ Reach("claim", "fill")
            /\ prefix' = [prefix EXCEPT ![Version] = [of |-> update.fetched, state |-> "claimed"]]
       ELSE Abandon("claim") /\ UNCHANGED prefix
    /\ UNCHANGED <<offered, images, prepared, unsettled, running, confirmed, updateFaults>>

\* The environments are installed and synced before their receipt is renamed.
FillPrefix ==
    /\ Reach("fill", "publish")
    /\ prefix' = [prefix EXCEPT ![Version].state = "installed"]
    /\ UNCHANGED <<offered, images, prepared, unsettled, running, confirmed, updateFaults>>

PublishPrepared ==
    /\ Reach("publish", "sync")
    /\ prepared' = [prepared EXCEPT ![Version] = update.fetched]
    /\ unsettled' = unsettled \cup {Version}
    /\ UNCHANGED <<offered, images, prefix, running, confirmed, updateFaults>>

SyncPrepared ==
    /\ Reach("sync", "check")
    /\ unsettled' = {}
    /\ UNCHANGED <<offered, images, prefix, prepared, running, confirmed, updateFaults>>

-----------------------------------------------------------------------------
(* run_update goes on with what is prepared, and activate() rebuilds it     *)
(* from its archives                                                        *)

New(m) == m > running

CheckPrepared ==
    /\ update.step = "check"
    /\ IF prepared[Version] # 0 /\ Confirmed(prepared[Version]) /\ New(prepared[Version])
       THEN Reach("check", "candidate")
       ELSE Abandon("check")
    /\ UNCHANGED <<offered, images, prefix, prepared, unsettled, running, confirmed, updateFaults>>

Candidate(m) ==
    /\ prefix[VersionOf[m]] = [of |-> m, state |-> "installed"]
    /\ m \in images

ActivatePrepared ==
    /\ update.step = "candidate" /\ update' = NoUpdate
    /\ LET m == prepared[Version]
       IN  running' = IF Confirmed(m) /\ New(m) /\ Candidate(m) THEN m ELSE running
    /\ UNCHANGED <<offered, images, prefix, prepared, unsettled, confirmed, updateFaults>>

-----------------------------------------------------------------------------
(* Errors and kills end the job, and the temporary directories are ignored. *)
(* A loss of power also takes a publication that was not synced.            *)

UpdateStops ==
    /\ updateFaults < MaxUpdateFaults /\ updateFaults' = updateFaults + 1
    /\ update # NoUpdate /\ update' = NoUpdate
    /\ UNCHANGED <<offered, images, prefix, prepared, unsettled, running, confirmed>>

UpdatePowerLoss ==
    /\ updateFaults < MaxUpdateFaults /\ updateFaults' = updateFaults + 1
    /\ update' = NoUpdate /\ unsettled' = {}
    /\ \E lost \in SUBSET unsettled :
          prepared' = [v \in Versions |-> IF v \in lost THEN 0 ELSE prepared[v]]
    /\ UNCHANGED <<offered, images, prefix, running, confirmed>>

UpdateNext ==
    \/ Publish
    \/ \E m \in Offers : ConfirmUpdate(m)
    \/ FetchManifest \/ FetchArtifacts \/ PullImages
    \/ ClaimPrefix \/ FillPrefix \/ PublishPrepared \/ SyncPrepared
    \/ CheckPrepared \/ ActivatePrepared
    \/ UpdateStops \/ UpdatePowerLoss

-----------------------------------------------------------------------------
(* The runtime that is installed finds the dependencies of its own release  *)
(* complete at its prefix, and its images local, whatever later updates,    *)
(* also to a release of the same version, have done or left half done.      *)
RunsComplete ==
    running # 0 => Candidate(running)

(* Only a release that a user confirmed is ever prepared or installed, and  *)
(* what is prepared has its dependencies and images: an activation of it is *)
(* not refused for want of them.                                            *)
PreparedIsWhole ==
    /\ \A v \in Versions :
          prepared[v] # 0 => prepared[v] \in confirmed /\ Candidate(prepared[v])
    /\ running # 0 => running \in confirmed

===============================================================================
