------------------------- MODULE BootstrapGenerations -------------------------
(***************************************************************************)
(* appliance/lib/release_bootstrap.py and release_recovery_bundle.py: the   *)
(* code that boots the appliance out of an interrupted update is kept in    *)
(* generations.  A generation names a bundle of recovery modules; a symbolic*)
(* link selects one generation; the boot files of the host are anchors, that*)
(* is fixed links through the selector.  Operations may be killed, and may  *)
(* lose what they did not sync, at any step; they are run again.            *)
(*                                                                         *)
(* The links, names and metadata are on one journalled filesystem: a sync   *)
(* commits every earlier change, and a loss of power keeps some prefix of   *)
(* the changes made since.                                                  *)
(***************************************************************************)
EXTENDS Naturals, FiniteSets

CONSTANTS
    BootReleases,   \* the releases: each has one bundle and one generation
    MaxBootFaults   \* bound on kills, losses of power and refusals

ASSUME ReleasesAssumption == 0 \notin BootReleases

Anchors == {"launcher", "gates", "wants"}   \* files(), and the links that enable the units
NoGen == 0

VARIABLES
    disk,        \* what a process sees of the store
    unsynced,    \* the states the disk had since its last sync
    dirty,       \* the running operation has a directory to sync
    job,         \* the operation asked for, until it has returned
    step,        \* where the running operation is; "none" when none runs
    candidates,  \* the generations a prepared update carries
    installed,   \* history: the release of the last install or commit that returned, until the next
    bootFaults

bootVars == <<disk, unsynced, dirty, job, step, candidates, installed, bootFaults>>

NoJob == [kind |-> "none", rel |-> NoGen]

BootInit ==
    /\ disk = [bundles |-> {}, generations |-> {}, anchors |-> {}, temps |-> {}, active |-> NoGen, receipt |-> NoGen]
    /\ unsynced = {} /\ dirty = FALSE
    /\ job = NoJob /\ step = "none"
    /\ candidates = {} /\ installed = NoGen
    /\ bootFaults = 0

-----------------------------------------------------------------------------
(* What is verified of the store *)

\* verify_generation: the generation, and the bundle it names.
Verified(d, r) == r \in d.generations /\ r \in d.bundles

\* recovery-launcher.py, selected(): the bundle that recovery runs from.
BundleLaunched(d) == IF d.active # NoGen /\ d.active \in d.generations /\ d.active \in d.bundles
               THEN d.active ELSE NoGen

\* Mutant: only a host without any of the links has no installation yet.
AnchorsFitOrNone(d) == d.anchors = {} \/ d.anchors = Anchors

\* verify_anchors: without a selector, an installation was interrupted.
AnchorsFit(d) == d.active = NoGen \/ d.anchors = Anchors

-----------------------------------------------------------------------------
(* The steps of an operation *)

Write(d) ==
    /\ disk' = d
    /\ unsynced' = unsynced \cup {disk}

\* Mutant: what the step changed is left to the kernel.
SyncNothing ==
    /\ dirty
    /\ dirty' = FALSE
    /\ UNCHANGED <<disk, unsynced, job, step, candidates, installed, bootFaults>>

SyncDirectory ==
    /\ dirty
    /\ dirty' = FALSE /\ unsynced' = {}
    /\ UNCHANGED <<disk, job, step, candidates, installed, bootFaults>>

At(s) == step = s /\ ~dirty

\* install: under admission of updates; the store is written before maintenance is asked for.
BeginInstall(r) ==
    /\ step = "none" /\ job.kind \in {"none", "install"} /\ job.rel \in {NoGen, r}
    /\ job' = [kind |-> "install", rel |-> r]
    /\ step' = "bundle"
    /\ installed' = NoGen
    /\ UNCHANGED <<disk, unsynced, dirty, candidates, bootFaults>>

\* prepare_candidate: next to a selection that verifies.
BeginPrepare(r) ==
    /\ step = "none" /\ job = NoJob
    /\ disk.anchors = Anchors /\ BundleLaunched(disk) # NoGen
    /\ job' = [kind |-> "prepare", rel |-> r]
    /\ step' = "bundle"
    /\ UNCHANGED <<disk, unsynced, dirty, candidates, installed, bootFaults>>

\* commit_candidate: the release of the candidate has been committed.
BeginCommit(r) ==
    /\ step = "none"
    /\ \/ job = NoJob /\ r \in candidates
       \/ job = [kind |-> "commit", rel |-> r]
    /\ disk.anchors = Anchors /\ Verified(disk, r)
    /\ job' = [kind |-> "commit", rel |-> r]
    /\ step' = "select"
    /\ installed' = NoGen
    /\ UNCHANGED <<disk, unsynced, dirty, candidates, bootFaults>>

\* release_recovery_bundle.install: a bundle that is there is verified and kept.
InstallBundle ==
    /\ At("bundle")
    /\ step' = "generation"
    /\ IF job.rel \in disk.bundles
       THEN UNCHANGED <<disk, unsynced, dirty>>
       ELSE Write([disk EXCEPT !.bundles = @ \cup {job.rel}]) /\ dirty' = TRUE
    /\ UNCHANGED <<job, candidates, installed, bootFaults>>

InstallGeneration ==
    /\ At("generation")
    /\ step' = IF job.kind = "install" THEN "anchors" ELSE "return"
    /\ IF job.rel \in disk.generations
       THEN Verified(disk, job.rel) /\ UNCHANGED <<disk, unsynced, dirty>>
       ELSE Write([disk EXCEPT !.generations = @ \cup {job.rel}]) /\ dirty' = TRUE
    /\ UNCHANGED <<job, candidates, installed, bootFaults>>

AllAnchors(d) == d.anchors = Anchors

\* One link at a time, those of the units that are enabled last.
InstallAnchor ==
    /\ At("anchors") /\ AnchorsFit(disk)
    /\ disk.active # NoGen => BundleLaunched(disk) # NoGen
    /\ IF AllAnchors(disk)
       THEN step' = "select" /\ UNCHANGED <<disk, unsynced, dirty>>
       ELSE \E a \in Anchors \ disk.anchors :
                /\ a = "wants" => Anchors \ disk.anchors = {a}
                /\ Write([disk EXCEPT !.anchors = @ \cup {a}])
                /\ dirty' = TRUE /\ UNCHANGED step
    /\ UNCHANGED <<job, candidates, installed, bootFaults>>

\* publish_generation: selectors that an earlier one left are removed.
RemoveStaleSelectors ==
    /\ At("select") /\ disk.temps # {}
    /\ Verified(disk, job.rel) /\ \A r \in disk.temps : Verified(disk, r)
    /\ Write([disk EXCEPT !.temps = {}]) /\ dirty' = TRUE
    /\ UNCHANGED <<job, step, candidates, installed, bootFaults>>

NewSelector ==
    /\ At("select") /\ disk.temps = {}
    /\ Verified(disk, job.rel)
    /\ Write([disk EXCEPT !.temps = {job.rel}])
    /\ step' = "replace"
    /\ UNCHANGED <<dirty, job, candidates, installed, bootFaults>>

ReplaceSelector ==
    /\ At("replace")
    /\ Write([disk EXCEPT !.temps = {}, !.active = job.rel]) /\ dirty' = TRUE
    /\ step' = "receipt"
    /\ UNCHANGED <<job, candidates, installed, bootFaults>>

SaveReceipt ==
    /\ At("receipt")
    /\ Write([disk EXCEPT !.receipt = job.rel]) /\ dirty' = TRUE
    /\ step' = "return"
    /\ UNCHANGED <<job, candidates, installed, bootFaults>>

\* A prepared candidate is committed after an activation, whose moves sync the
\* filesystem many times.
Return ==
    /\ At("return")
    /\ IF job.kind = "prepare"
       THEN candidates' = candidates \cup {job.rel} /\ unsynced' = {} /\ UNCHANGED installed
       ELSE installed' = job.rel /\ candidates' = candidates \ {job.rel} /\ UNCHANGED unsynced
    /\ job' = NoJob /\ step' = "none"
    /\ UNCHANGED <<disk, dirty, bootFaults>>

-----------------------------------------------------------------------------
(* Faults *)

\* The job of a killed preparation ends with it; the installation is run again,
\* and the end of an update tries its commit at every boot.
Interrupted == IF job.kind = "prepare" THEN NoJob ELSE job

\* A kill, or a refusal: other maintenance, a check of the bundle that fails.
BootKill ==
    /\ bootFaults < MaxBootFaults /\ step # "none"
    /\ bootFaults' = bootFaults + 1
    /\ step' = "none" /\ dirty' = FALSE /\ job' = Interrupted
    /\ UNCHANGED <<disk, unsynced, candidates, installed>>

BootPowerLoss ==
    /\ bootFaults < MaxBootFaults
    /\ bootFaults' = bootFaults + 1
    /\ disk' \in unsynced \cup {disk} /\ unsynced' = {}
    /\ step' = "none" /\ dirty' = FALSE /\ job' = Interrupted
    /\ UNCHANGED <<candidates, installed>>

BootBegin == \E r \in BootReleases : BeginInstall(r) \/ BeginPrepare(r) \/ BeginCommit(r)

BootStep == \/ SyncDirectory \/ InstallBundle \/ InstallGeneration \/ InstallAnchor
            \/ RemoveStaleSelectors \/ NewSelector \/ ReplaceSelector \/ SaveReceipt \/ Return

BootNext == BootBegin \/ BootStep \/ BootKill \/ BootPowerLoss

-----------------------------------------------------------------------------
(* What is promised *)

AfterPowerLoss == unsynced \cup {disk}

\* Whatever a loss of power leaves of the disk, a selector selects a whole
\* generation whose boot files and units are all linked, the launcher finds its
\* bundle, and no selector that was left behind can stop the next publication.
SelectionIsWhole ==
    \A d \in AfterPowerLoss :
        /\ d.active # NoGen => BundleLaunched(d) = d.active /\ d.anchors = Anchors
        /\ \A r \in d.temps : Verified(d, r)

\* An installation or a commit that returned is selected and has its receipt,
\* and no loss of power takes it back.
InstalledIsDurable ==
    installed # NoGen => \A d \in AfterPowerLoss : d.active = installed /\ d.receipt = installed

\* An installation that was interrupted converges when it is run again, and so
\* does the commit of a candidate.
InstallConverges == (job.kind \in {"install", "commit"}) ~> (job = NoJob)
=============================================================================
