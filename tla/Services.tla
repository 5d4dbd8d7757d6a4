------------------------------- MODULE Services -------------------------------
(***************************************************************************)
(* The appliance's services that share no state, checked side by side: an  *)
(* initial state chooses the one that runs, or a configuration of displays *)
(* that is given its outputs.                                              *)
(***************************************************************************)
EXTENDS Kiosk, BootstrapGenerations, NetworkHandoff, AdminTls, KeypadInstallation,
        ReleasePreparation, RemoteBackup, TLC

CONSTANT Chosen   \* the services that are checked

VARIABLES
    part,    \* the service that runs
    shown    \* displays to be given outputs: views, connected outputs, monitors

servicesVars == <<kioskVars, bootVars, handoffVars, tlsVars, keypadVars, updateVars, borgVars, part, shown>>

Parts == {"plan", "kiosk", "bootstrap", "handoff", "tls", "keypad", "update", "borg"}
ASSUME ChosenAssumption == Chosen \subseteq Parts

-----------------------------------------------------------------------------
(* The instance *)

SavedViews == <<[mode |-> "admin", output |-> 11, display |-> 0],
                [mode |-> "player", output |-> 12, display |-> 2]>>
MonitorOf == [c \in Connectors |-> c - 10]
VersionOfOffer == <<1, 1, 2>>
DestinationSymmetry == Permutations(Destinations)

PlanConnectors == {11, 12, 21}
PlanViewsSaved == [mode : {"admin", "player"}, output : {NoOutput, 11, 13}, display : {NoMonitor, 1, 2}]
PlanInputs ==
    [views : {DefaultViews} \cup {<<v, w>> : v \in PlanViewsSaved, w \in PlanViewsSaved},
     connected : SUBSET PlanConnectors,
     monitors : {m \in [PlanConnectors -> {NoMonitor, 1, 2}] : m[11] = 1 /\ m[12] # NoMonitor}]
NoPlan == [views |-> DefaultViews, connected |-> {}, monitors |-> [c \in PlanConnectors |-> NoMonitor]]

-----------------------------------------------------------------------------
ServicesInit ==
    /\ KioskInit /\ BootInit /\ HandoffInit /\ TlsInit /\ KeypadInit /\ UpdateInit /\ BorgInit
    /\ part \in Chosen
    /\ IF part = "plan" THEN shown \in PlanInputs ELSE shown = NoPlan

Others(p) ==
    /\ part = p /\ UNCHANGED <<part, shown>>
    /\ p # "kiosk" => UNCHANGED kioskVars
    /\ p # "bootstrap" => UNCHANGED bootVars
    /\ p # "handoff" => UNCHANGED handoffVars
    /\ p # "tls" => UNCHANGED tlsVars
    /\ p # "keypad" => UNCHANGED keypadVars
    /\ p # "update" => UNCHANGED updateVars
    /\ p # "borg" => UNCHANGED borgVars

ServicesNext ==
    \/ Others("kiosk") /\ KioskNext
    \/ Others("bootstrap") /\ BootNext
    \/ Others("handoff") /\ HandoffNext
    \/ Others("tls") /\ TlsNext
    \/ Others("keypad") /\ KeypadNext
    \/ Others("update") /\ UpdateNext
    \/ Others("borg") /\ BorgNext

(* Fairness: only of the service that runs *)

\* The session loop turns, and the graphics service starts another session
\* after one that ended; workers answer and minutes pass.
FairKiosk == LET on == part = "kiosk" IN
    /\ WF_kioskVars(on /\ SessionTurn)
    /\ \A i \in Views : WF_kioskVars(on /\ WorkerSays(i)) /\ WF_kioskVars(on /\ WorkerLeaves(i)) /\ WF_kioskVars(on /\ MinutePasses(i))

\* Provisioning is run again until it succeeds; the unit that finishes an
\* update is started at every boot.
FairBootstrap == LET on == part = "bootstrap" IN
    /\ WF_bootVars(on /\ BootStep)
    /\ WF_bootVars(on /\ job # NoJob /\ BootBegin)

\* The network's worker ticks every second; the operator repeats a recovery
\* that was refused, and so never keeps the worker from the lock for good.
FairHandoff == LET on == part = "handoff" IN
    /\ WF_handoffVars(on /\ HolderSteps)
    /\ WF_handoffVars(on /\ NetworkMoves)
    /\ SF_handoffVars(on /\ BeginFinalize) /\ SF_handoffVars(on /\ Acknowledge)
    /\ SF_handoffVars(on /\ OperatorRecovers)

\* An operation goes on until it returns; Traefik watches its directory.
FairTls == LET on == part = "tls" IN
    /\ WF_tlsVars(on /\ TlsSteps)
    /\ WF_tlsVars(on /\ Reload)

ServicesSpec ==
    /\ ServicesInit /\ [][ServicesNext]_servicesVars
    /\ FairKiosk /\ FairBootstrap /\ FairHandoff /\ FairTls

-----------------------------------------------------------------------------
(* What the run checks; each part is stated where the service is modelled *)

\* The kiosk runs the browsers it knows of, for the views they were started
\* for, never repeats a refused login, and gives every configuration of
\* displays an assignment that keeps the administration visible
\* (browser-session.py, browser_process.py).
KioskSound ==
    /\ part = "kiosk" => BrowsersKnown
    /\ part = "plan" => AssignmentSound(shown.views, shown.connected, shown.monitors)

\* Whatever a loss of power leaves, the boot files select a whole generation of
\* recovery code, and an installation that returned is on the disk
\* (release_bootstrap.py, release_recovery_bundle.py).
BootSound == SelectionIsWhole /\ InstalledIsDurable

\* The two journals of a network restore agree: the maintenance and its pins
\* are kept until the network is decided, and the outcome recorded is the
\* network's (network_checkpoint_restore.py).
HandoffSound == HandoffKept /\ HandoffOutcome

\* A keypad only gets identities the server knows, and a receipt names the chip
\* that has the identity (installation_job.py, serial_install.py).
KeypadsSound == KeypadsKnown /\ ReceiptsTrue

\* What is installed or prepared is a release somebody confirmed, with its own
\* dependencies and images (update_job.py, release_dependencies.py).
UpdatesSound == RunsComplete /\ PreparedIsWhole

\* Remote archives are whole, under their own metadata, at the destination that
\* is configured, and the timer follows the settings (borg_repository.py).
BackupsSound == RemoteIsWhole /\ WritesWhereConfigured /\ TimerFollows

\* The status of a view says "ready" of a live worker; a display that stays
\* connected comes to show its view; interrupted installations and network
\* restores come to an end; and Traefik comes to use the certificate.
ServicesProgress ==
    /\ ReadyIsLive
    /\ (part = "kiosk") => DisplaysShow
    /\ InstallConverges
    /\ HandoffEnds
    /\ CertificateServed
===============================================================================
