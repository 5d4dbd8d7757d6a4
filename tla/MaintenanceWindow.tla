-------------------------- MODULE MaintenanceWindow --------------------------
(***************************************************************************)
(* backup_service.py: Maintenance.window and recover over HostServices.    *)
(* Whoever captures the appliance stops its services first and starts them *)
(* again afterwards; the durable record tells a recovery what to start     *)
(* when that did not happen.  The command line and the management service  *)
(* start services as well, under no lock.  "setup" stands for Traefik too; *)
(* Foundry has a profile of its own, so that only the record, or a user,   *)
(* starts a stopped one again.                                             *)
(***************************************************************************)
EXTENDS Naturals

CONSTANT Users    \* processes that open windows

Nobody   == 0
Compose  == {"setup", "mindflayer", "foundry"}
Services == Compose \cup {"graphics"}

\* No record, or one that is completed, failed or recovered: what it saved is
\* not read again.
Settled  == [state |-> "settled", saved |-> {}]

VARIABLES
    m,         \* maintenance.json: its state, the services to start again
    holder,    \* who has maintenance.lock, at which step, with which success
    running,   \* the services that run
    asked,     \* a restart of the graphics waits for what it needs
    wanted,    \* history: the services that users or a boot have started
    late       \* history: those that were started behind an open window, too
               \* late for it to stop them

windowVars == <<m, holder, running, asked, wanted, late>>

Idle == [by |-> Nobody, op |-> "none", step |-> "none", ok |-> FALSE]

WindowInit ==
    /\ m = Settled
    /\ holder = Idle
    /\ running = Services \ {"foundry"}
    /\ asked = FALSE
    /\ wanted = running
    /\ late = {}

At(u, step) == holder.by = u /\ holder.step = step
Go(step)    == holder' = [holder EXCEPT !.step = step]
Record(state) == m' = [m EXCEPT !.state = state]

\* A backup opens a plain window; a checkpoint's takes the locks of the display
\* and network settings before it stops anything.
Windows  == {"backup", "snapshot"}
Stopping == {"stop-graphics", "stop-compose", "body"}

SettingsHeld == holder.op = "power" \/ (holder.op = "snapshot" /\ holder.step \in {"stop-compose", "body"})

-----------------------------------------------------------------------------
(* window(operation) *)

\* Mutant: an unfinished record does not keep the next window from opening.
OpenAnyway(u, op) ==
    /\ holder = Idle
    /\ m' = [state |-> "stopping", saved |-> running]
    /\ holder' = [by |-> u, op |-> op, step |-> "stop-graphics", ok |-> FALSE]
    /\ late' = late \ running
    /\ UNCHANGED <<running, asked, wanted>>

Open(u, op) ==
    /\ holder = Idle
    /\ m = Settled
    /\ m' = [state |-> "stopping", saved |-> running]
    /\ holder' = [by |-> u, op |-> op, step |-> "stop-graphics", ok |-> FALSE]
    /\ late' = late \ running
    /\ UNCHANGED <<running, asked, wanted>>

\* It also cancels a start that waits.
StopGraphics(u) ==
    /\ At(u, "stop-graphics")
    /\ running' = running \ (m.saved \cap {"graphics"})
    /\ asked' = (asked /\ "graphics" \notin m.saved)
    /\ Go("stop-compose")
    /\ UNCHANGED <<m, wanted, late>>

\* Mutant: only the graphics are stopped.
StopNothing(u) ==
    /\ At(u, "stop-compose")
    /\ Record("working")
    /\ Go("body")
    /\ UNCHANGED <<running, asked, wanted, late>>

\* The containers are found by their project: one that was started after the
\* snapshot is stopped as well.
StopCompose(u) ==
    /\ At(u, "stop-compose")
    /\ running' = IF m.saved \cap Compose = {} THEN running ELSE running \ Compose
    /\ Record("working")
    /\ Go("body")
    /\ UNCHANGED <<asked, wanted, late>>

Captured(u) ==
    /\ At(u, "body")
    /\ Record("starting")
    /\ holder' = [holder EXCEPT !.step = "start", !.ok = TRUE]
    /\ UNCHANGED <<running, asked, wanted, late>>

Stops == CASE holder.step = "stop-graphics" -> m.saved \cap {"graphics"}
           [] holder.step = "stop-compose"  -> IF m.saved \cap Compose = {} THEN {} ELSE Compose
           [] OTHER                         -> {}

\* An exception out of a stop, after some of it, or out of the body.
Raise(u) ==
    /\ \E step \in Stopping : At(u, step)
    /\ \E stopped \in SUBSET Stops : running' = running \ stopped
    /\ Record("starting")
    /\ Go("start")
    /\ UNCHANGED <<asked, wanted, late>>

\* "completed", "failed" or "recovered".
StartServices(u) ==
    /\ At(u, "start")
    /\ running' = running \cup m.saved
    /\ asked' = (asked /\ "graphics" \notin m.saved)
    /\ m' = Settled
    /\ holder' = Idle
    /\ UNCHANGED <<wanted, late>>

\* A service does not start or does not become healthy.
StartFails(u) ==
    /\ At(u, "start")
    /\ \E started \in SUBSET m.saved : running' = running \cup started
    /\ asked' = (asked /\ "graphics" \notin running')
    /\ IF holder.op \in Windows THEN Record("recovery-required") ELSE UNCHANGED m
    /\ holder' = Idle
    /\ UNCHANGED <<wanted, late>>

-----------------------------------------------------------------------------
(* recover() *)

Recover(u) ==
    /\ holder = Idle
    /\ m # Settled
    /\ holder' = [by |-> u, op |-> "recover", step |-> "start", ok |-> TRUE]
    /\ UNCHANGED <<m, running, asked, wanted, late>>

-----------------------------------------------------------------------------
(* What happens around a window *)

\* The open window has this service in its record and will still stop it.
StillStopped(s) ==
    /\ s \in m.saved
    /\ holder.step \in IF s = "graphics" THEN {"stop-graphics"} ELSE {"stop-graphics", "stop-compose"}

\* s is running from here on, whoever holds the window.
Started(s) ==
    /\ running' = running \cup {s}
    /\ late' = IF holder.step \in Stopping /\ ~StillStopped(s) THEN late \cup {s} ELSE late \ {s}

\* start-foundry, restart-foundry and restart-mindflayer take no lock, from the
\* command line or from the management service.
StartContainer(s) ==
    /\ s \in {"foundry", "mindflayer"}
    /\ Started(s)
    /\ wanted' = wanted \cup {s}
    /\ UNCHANGED <<m, holder, asked>>

\* restart-browser-session, and the restart that a display preview queues.
RestartGraphics ==
    /\ running' = running \ {"graphics"}
    /\ asked' = TRUE
    /\ wanted' = wanted \cup {"graphics"}
    /\ UNCHANGED <<m, holder, late>>

\* The unit waits for the administration (wait-ready) and for the lock of the
\* display settings (prepare-browser); systemd starts it again when it gave up.
GraphicsStarts ==
    /\ asked
    /\ "setup" \in running
    /\ ~SettingsHeld
    /\ Started("graphics")
    /\ asked' = FALSE
    /\ UNCHANGED <<m, holder, wanted>>

\* The stack and the graphics are started by units; Docker starts a Foundry
\* again that nobody had stopped.
BootServices ==
    /\ running' = (Services \ {"foundry"}) \cup (running \cap {"foundry"})
    /\ asked' = FALSE
    /\ wanted' = wanted \cup running'
    /\ holder' = Idle
    /\ UNCHANGED <<m, late>>

ReleaseWindow(u) ==
    /\ holder' = IF holder.by = u THEN Idle ELSE holder
    /\ UNCHANGED <<m, running, asked, wanted, late>>

-----------------------------------------------------------------------------
(* Properties *)

\* "records their previous state in a persistent maintenance journal, then
\* restarts those services" (docs/ADMIN.md:94-97): whatever was running and is
\* down now is about to start, or is what an unfinished record tells the recovery
\* to start, after any sequence of failures, kills, boots, restarts and
\* recoveries.  A container that was started behind an open window which had not
\* saved it, and was stopped with the others, is the exception.
NothingLeftDown ==
    \A s \in wanted \ (running \cup (late \ m.saved)) :
        (m # Settled /\ s \in m.saved) \/ (s = "graphics" /\ asked)

\* While data is captured nothing runs but what was started behind the window,
\* too late for it to be stopped.  Setup is never among that, and neither is the
\* kiosk of a checkpoint, whose settings locks keep a restarted one waiting.
QuietCapture ==
    holder.op \in Windows /\ holder.step = "body" =>
        /\ running \subseteq late \ {"setup"}
        /\ holder.op = "snapshot" => "graphics" \notin running \cap m.saved
=============================================================================
