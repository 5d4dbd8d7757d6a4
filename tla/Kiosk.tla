-------------------------------- MODULE Kiosk --------------------------------
(***************************************************************************)
(* provisioning/graphics/browser-session.py and browser_process.py: one    *)
(* browser per display, reconciled in a loop with the displays that Sway   *)
(* lists, with the Beamer credential and with the children that ended.  A  *)
(* view is run by a user unit of systemd: a worker that logs in to Foundry,*)
(* a page that says why there is none, or the administration's browser.    *)
(***************************************************************************)
EXTENDS OutputPlan

CONSTANTS
    Saved,       \* config.json: the views
    Connectors, MonitorAt,   \* the outputs there may be, and the monitors on them
    Good,        \* the revisions of the credential with an account's password
    MaxRev,      \* bound on the revisions; 0: no credential
    MaxEvents    \* bound on hotplugs, kills and failing stops

Views == DOMAIN Saved

VARIABLES
    listed,      \* Sway lists outputs: no other terminal has the screen
    connected,   \* the active ones
    assigned,    \* what plan() makes of them
    fit,         \* the outputs run in the modes of plan()
    cred,        \* beamer.json: its revision
    issued,      \* history: the last revision that was saved
    foundry,     \* what Foundry makes of a worker's login, see Answer
    unit,        \* what runs in elderbrain-view-i.service
    window,      \* the output its window is on
    turn, seen, desired, child, rules, retry, status, pipe,   \* main()
    report,      \* beamer-status.json
    refused,     \* history: the last revision a worker reported as refused, and
                 \*   whether the session holds it: see ReapViews
    events

kioskEnv  == <<listed, connected, assigned, fit, cred, issued, foundry>>
kioskLoop == <<seen, desired, child, rules, retry, status>>
kioskVars == <<kioskEnv, unit, window, turn, kioskLoop, pipe, report, refused, events>>

Terminal == {"login-failed", "review-required", "pairing-required"}
NoView   == [out |-> NoOutput, rev |-> 0, page |-> "none"]
NoUnit   == [kind |-> "none", rev |-> 0]
NoStatus == [state |-> "none", rev |-> 0]
NoReport == [i \in Views |-> NoStatus]
NoRetry  == [rev |-> 0, until |-> "past"]
NoRefusal == [rev |-> 0, kept |-> "forgotten"]
Player(i) == Saved[i].mode = "player"

KioskInit ==
    /\ listed = TRUE /\ fit = FALSE /\ foundry = "admits"
    /\ connected = Connectors
    /\ assigned = AssignedOutputs(Saved, connected, MonitorAt)
    /\ cred = 0 /\ issued = 0
    /\ unit = [i \in Views |-> NoUnit] /\ window = [i \in Views |-> NoOutput]
    /\ turn = "off" /\ seen = 0
    /\ child = [i \in Views |-> NoView] /\ rules = child /\ desired = child
    /\ retry = [i \in Views |-> NoRetry]
    /\ status = [i \in Views |-> NoStatus]
    /\ refused = [i \in Views |-> NoRefusal]
    /\ pipe = [i \in Views |-> "none"]
    /\ report = NoReport
    /\ events = 0

-----------------------------------------------------------------------------
(* A session starts *)

\* Mutant: the units of an earlier session are left to it.
StartOver ==
    /\ turn = "off"
    /\ UNCHANGED unit
    /\ child' = [i \in Views |-> NoView] /\ rules' = child' /\ desired' = child'
    /\ retry' = [i \in Views |-> NoRetry]
    /\ status' = [i \in Views |-> NoStatus]
    /\ refused' = [i \in Views |-> [refused[i] EXCEPT !.kept = "forgotten"]]
    /\ pipe' = [i \in Views |-> "none"]
    /\ turn' = "plan"
    /\ UNCHANGED <<kioskEnv, window, seen, report, events>>

\* The lock of the launcher has been given up by the session before; its units
\* may still be there.
StartSession ==
    /\ turn = "off"
    /\ unit' = [i \in Views |-> NoUnit]
    /\ child' = [i \in Views |-> NoView] /\ rules' = child' /\ desired' = child'
    /\ retry' = [i \in Views |-> NoRetry]
    /\ status' = [i \in Views |-> NoStatus]
    /\ refused' = [i \in Views |-> [refused[i] EXCEPT !.kept = "forgotten"]]
    /\ pipe' = [i \in Views |-> "none"]
    /\ turn' = "plan"
    /\ UNCHANGED <<kioskEnv, window, seen, report, events>>

-----------------------------------------------------------------------------
(* One turn of the loop *)

ViewsRunning == {i \in Views : child[i] # NoView}

\* Without any output another terminal is shown: the turn ends here.
Suspended == ~listed /\ ViewsRunning # {}

SetModes ==
    /\ turn = "plan" /\ ~Suspended
    /\ ~fit
    /\ fit' = TRUE
    /\ UNCHANGED <<listed, connected, assigned, cred, issued, foundry, unit, window, turn, kioskLoop, pipe, report, refused, events>>

Placeholder(i) ==
    IF cred = 0 THEN "pairing-required"
    ELSE IF retry[i].rev = cred /\ retry[i].until # "past"
         THEN IF status[i].state \in {"none", "ready", "pending-verification"} THEN "unavailable" ELSE status[i].state
    ELSE "none"

ViewOf(i) ==
    IF ~listed \/ assigned[i] = NoOutput THEN NoView
    ELSE IF Player(i) THEN [out |-> assigned[i], rev |-> cred, page |-> Placeholder(i)]
    ELSE [NoView EXCEPT !.out = assigned[i]]

PlanViews ==
    /\ turn = "plan" /\ ~Suspended
    /\ fit \/ ~listed
    /\ desired' = [i \in Views |-> ViewOf(i)]
    /\ seen' = cred
    /\ turn' = "reap"
    /\ UNCHANGED <<kioskEnv, unit, window, child, rules, retry, status, pipe, report, refused, events>>

\* drain_status, before poll(): what a worker says in between is not read.
Drained(i) ==
    IF Player(i) /\ child[i] # NoView /\ pipe[i] # "none"
    THEN [state |-> pipe[i], rev |-> child[i].rev] ELSE status[i]

DrainViews ==
    /\ turn = "reap"
    /\ status' = [i \in Views |-> Drained(i)]
    /\ pipe' = [i \in Views |-> "none"]
    /\ turn' = "poll"
    /\ UNCHANGED <<kioskEnv, unit, window, seen, desired, child, rules, retry, report, refused, events>>

ViewEnded(i)   == child[i] # NoView /\ unit[i] = NoUnit
ViewChanged(i) == child[i] # NoView /\ desired[i] # child[i]
ViewReaped(i)  == ViewEnded(i) \/ ViewChanged(i)

\* Mutant: the refused login is retried like any other failure.
RetryAlways(state) == "soon"

\* Mutant: every failure waits for the credential to change.
RetryNever(state) == "never"

\* next_retry
RetryAfter(state) == IF state \in Terminal THEN "never" ELSE "soon"

\* A child that ended, or whose view is not wanted as it is, is stopped, and its
\* output closed; only the former is kept from being started again at once.  A
\* refusal that was not read in time is lost, one that was read is dropped when
\* the view changed.
ReapViews ==
    /\ turn = "poll"
    /\ status' = [i \in Views |->
          IF ViewReaped(i) /\ Player(i) /\ status[i].state = "ready"
          THEN [status[i] EXCEPT !.state = "unavailable"] ELSE status[i]]
    /\ retry' = [i \in Views |->
          IF ViewEnded(i) /\ ~ViewChanged(i) /\ Player(i)
          THEN [rev |-> child[i].rev, until |-> RetryAfter(status[i].state)] ELSE retry[i]]
    /\ refused' = [i \in Views |->
          IF ViewReaped(i) /\ Player(i) /\ child[i].page = "none" /\ child[i].rev = refused[i].rev
             /\ (ViewChanged(i) \/ pipe[i] \in Terminal)
          THEN [refused[i] EXCEPT !.kept = IF pipe[i] \in Terminal THEN "unread" ELSE "dropped"]
          ELSE refused[i]]
    /\ unit' = [i \in Views |-> IF ViewReaped(i) THEN NoUnit ELSE unit[i]]
    /\ child' = [i \in Views |-> IF ViewReaped(i) THEN NoView ELSE child[i]]
    /\ rules' = [i \in Views |-> IF ViewReaped(i) THEN NoView ELSE rules[i]]
    /\ pipe' = [i \in Views |-> IF ViewReaped(i) THEN "none" ELSE pipe[i]]
    /\ turn' = "launch"
    /\ UNCHANGED <<kioskEnv, window, seen, desired, report, events>>

\* A unit does not stop: the session ends, and may leave units behind.
SessionFails ==
    /\ turn = "poll" /\ events < MaxEvents
    /\ \E i \in Views : ViewReaped(i) /\ unit[i] # NoUnit
    /\ \E left \in SUBSET Views : unit' = [i \in Views |-> IF i \in left THEN unit[i] ELSE NoUnit]
    /\ report' \in {report, NoReport}
    /\ turn' = "off"
    /\ events' = events + 1
    /\ UNCHANGED <<kioskEnv, window, kioskLoop, pipe, refused>>

\* A worker may not take its credential any more; it is tried again later.  The
\* unit that systemd-run asks for is there at once here.
Launched(i, broken) ==
    LET wanted == desired[i] # NoView /\ child[i] = NoView
                  /\ ~(Player(i) /\ desired[i].page = "none" /\ retry[i].rev = desired[i].rev /\ retry[i].until # "past")
        view   == desired[i]
        worker == Player(i) /\ view.page = "none"
    IN IF ~wanted THEN [child |-> child[i], unit |-> unit[i], window |-> window[i], rules |-> rules[i],
                        status |-> status[i], retry |-> retry[i]]
       ELSE [child  |-> IF worker /\ i \in broken THEN NoView ELSE view,
             unit   |-> IF worker /\ i \in broken THEN NoUnit
                        ELSE [kind |-> IF ~Player(i) THEN "admin" ELSE IF worker THEN "worker" ELSE "page",
                              rev |-> view.rev],
             window |-> view.out,
             rules  |-> [NoView EXCEPT !.out = view.out],
             status |-> IF Player(i) THEN [state |-> IF worker THEN "pending-verification" ELSE view.page,
                                           rev |-> view.rev] ELSE status[i],
             retry  |-> IF worker /\ i \in broken THEN [rev |-> view.rev, until |-> "soon"] ELSE retry[i]]

LaunchViews ==
    /\ turn = "launch"
    /\ \E broken \in IF events < MaxEvents THEN SUBSET Views ELSE {{}} :
        LET l == [i \in Views |-> Launched(i, broken)] IN
        /\ child' = [i \in Views |-> l[i].child]
        /\ unit' = [i \in Views |-> l[i].unit]
        /\ window' = [i \in Views |-> l[i].window]
        /\ rules' = [i \in Views |-> l[i].rules]
        /\ status' = [i \in Views |-> l[i].status]
        /\ retry' = [i \in Views |-> l[i].retry]
        /\ events' = IF broken = {} THEN events ELSE events + 1
    /\ turn' = "report"
    /\ UNCHANGED <<kioskEnv, seen, desired, pipe, report, refused>>

\* Windows that Sway has moved are put back; the report of a view is only as
\* old as the credential it was made with.
ReportViews ==
    /\ turn = "report"
    /\ window' = [i \in Views |-> IF i \in ViewsRunning /\ desired[i] # NoView THEN desired[i].out ELSE window[i]]
    /\ report' = [i \in Views |->
          IF ~Player(i) \/ desired[i] = NoView THEN NoStatus
          ELSE IF seen # 0 /\ status[i].rev = seen THEN status[i]
          ELSE [state |-> IF seen = 0 THEN "pairing-required" ELSE "pending-verification", rev |-> seen]]
    /\ turn' = "plan"
    /\ UNCHANGED <<kioskEnv, unit, kioskLoop, pipe, refused, events>>

-----------------------------------------------------------------------------
(* Browsers and workers *)

\* What a login, or the check of a running page every five seconds, comes to:
\* Foundry "admits" the account, is "closed" to it for now (world-not-running,
\* module-unavailable, canvas-unavailable, unavailable), or "refuses" it until
\* its role, permissions, pairing, module settings or version are put right.
Answer(rev) ==
    IF foundry = "closed" THEN "unavailable"
    ELSE IF foundry = "refuses" THEN "review-required"
    ELSE IF rev \in Good THEN "ready" ELSE "login-failed"

\* A worker says how it goes on; it closes its browser when it is not ready.
WorkerSays(i) ==
    LET answer == Answer(unit[i].rev) IN
    /\ unit[i].kind = "worker" /\ child[i] # NoView
    /\ answer = "ready" => pipe[i] # "ready" /\ status[i].state # "ready"
    /\ pipe' = [pipe EXCEPT ![i] = answer]
    /\ unit' = IF answer = "ready" THEN unit ELSE [unit EXCEPT ![i].kind = "leaving"]
    /\ refused' = IF answer \in Terminal
                  THEN [refused EXCEPT ![i] = [rev |-> unit[i].rev, kept |-> "held"]] ELSE refused
    /\ UNCHANGED <<kioskEnv, window, turn, kioskLoop, report, events>>

WorkerLeaves(i) ==
    /\ unit[i].kind = "leaving"
    /\ unit' = [unit EXCEPT ![i] = NoUnit]
    /\ UNCHANGED <<kioskEnv, window, turn, kioskLoop, pipe, report, refused, events>>

\* A worker or a browser ends by itself.
BrowserCrashes(i) ==
    /\ events < MaxEvents /\ events' = events + 1
    /\ unit[i] # NoUnit
    /\ unit' = [unit EXCEPT ![i] = NoUnit]
    /\ UNCHANGED <<kioskEnv, window, turn, kioskLoop, pipe, report, refused>>

-----------------------------------------------------------------------------
(* Around the session *)

\* A minute passes.
MinutePasses(i) ==
    /\ retry[i].until = "soon"
    /\ retry' = [retry EXCEPT ![i].until = "past"]
    /\ UNCHANGED <<kioskEnv, unit, window, turn, seen, desired, child, rules, status, pipe, report, refused, events>>

\* Displays come and go; Sway moves windows of lost outputs to the others.
Hotplug ==
    /\ events < MaxEvents /\ events' = events + 1
    /\ \/ listed' = ~listed /\ UNCHANGED <<connected, assigned, window>>
       \/ /\ connected' \in SUBSET Connectors \ {connected}
          /\ assigned' = AssignedOutputs(Saved, connected', MonitorAt)
          /\ window' = [i \in Views |-> IF window[i] \in connected' THEN window[i] ELSE NoOutput]
          /\ UNCHANGED listed
    /\ fit' = FALSE
    /\ UNCHANGED <<cred, issued, foundry, unit, turn, kioskLoop, pipe, report, refused>>

\* beamer-config.ts: a credential is removed, or saved with a new revision; a
\* restore, which stops the session, puts back one that was saved before.
CredentialChanges ==
    /\ events < MaxEvents /\ events' = events + 1
    /\ cred' \in {0} \cup (issued + 1)..MaxRev \cup (IF turn = "off" THEN 1..issued ELSE {})
    /\ cred' # cred
    /\ issued' = IF cred' > issued THEN cred' ELSE issued
    /\ UNCHANGED <<listed, connected, assigned, fit, foundry, unit, window, turn, kioskLoop, pipe, report, refused>>

\* The world or its module is started or stopped; what the account may do, its
\* pairing or Foundry's version changes.
FoundryChanges ==
    /\ events < MaxEvents /\ events' = events + 1
    /\ foundry' \in {"admits", "closed", "refuses"} \ {foundry}
    /\ UNCHANGED <<listed, connected, assigned, fit, cred, issued, unit, window, turn, kioskLoop, pipe, report, refused>>

\* The session is killed, or is stopped and cleans up some of its units.
KillSession ==
    /\ events < MaxEvents /\ events' = events + 1
    /\ turn # "off"
    /\ turn' = "off"
    /\ \E left \in SUBSET Views : unit' = [i \in Views |-> IF i \in left THEN unit[i] ELSE NoUnit]
    /\ report' \in {report, NoReport}
    /\ UNCHANGED <<kioskEnv, window, kioskLoop, pipe, refused>>

SessionTurn == StartSession \/ SetModes \/ PlanViews \/ DrainViews \/ ReapViews \/ LaunchViews \/ ReportViews

KioskNext ==
    \/ SessionTurn \/ SessionFails
    \/ \E i \in Views : WorkerSays(i) \/ WorkerLeaves(i) \/ BrowserCrashes(i) \/ MinutePasses(i)
    \/ Hotplug \/ CredentialChanges \/ FoundryChanges \/ KillSession

-----------------------------------------------------------------------------
(* Properties *)

\* "A still-active unit must block replacement" (browser_process.py:37): while
\* the loop turns no browser runs that it does not know of, and none for
\* another view than the one it was started for; a login that was refused is
\* not tried again in this session before the credential changes, unless the
\* refusal was unread or dropped (browser-session.py:636-641).
BrowsersKnown ==
    turn # "off" =>
        \A i \in Views :
            /\ child[i] = NoView => unit[i] = NoUnit
            /\ unit[i].kind \in {"worker", "leaving"} => child[i].page = "none" /\ unit[i].rev = child[i].rev
            /\ unit[i].kind = "worker" /\ refused[i].kept = "held" => unit[i].rev # refused[i].rev

\* The status file never comes to say "ready" of a view without a worker of the
\* credential that it names.
ReadyIsLive ==
    [][report' # report => \A i \in Views :
          report'[i].state = "ready" => child[i] # NoView /\ child[i].page = "none" /\ child[i].rev = report'[i].rev]_kioskVars

\* A display that stays connected shows its view in the end, on its output: the
\* administration, or the world as soon as the credential and Foundry allow it,
\* unless this session holds the credential as refused.
Showable(i) == /\ listed /\ assigned[i] # NoOutput
               /\ Player(i) => /\ cred \in Good /\ foundry = "admits"
                               /\ refused[i] # [rev |-> cred, kept |-> "held"]
Shown(i)    == unit[i].kind = (IF Player(i) THEN "worker" ELSE "admin") /\ window[i] = assigned[i]
DisplaysShow == \A i \in Views : <>[]Showable(i) => <>[]Shown(i)
=============================================================================
