-------------------------- MODULE KeypadInstallation --------------------------
(***************************************************************************)
(* appliance/lib/installation_job.py with installation_backend.py,         *)
(* serial_install.py and serial_provision.py: a keypad on a USB port is    *)
(* inspected, its identity registered at the server, its firmware written  *)
(* by a flasher of its own process, its configuration sent over the serial *)
(* line, and its return to the network verified.  keypad_inventory.py tells*)
(* of the installations that completed.                                    *)
(*                                                                         *)
(* The port is found again by the path and the description of the adapter, *)
(* which keypads of one make share: only the flasher compares the hardware *)
(* address of the chip, which is the name of a keypad here.                *)
(***************************************************************************)
EXTENDS Naturals, FiniteSets

CONSTANTS
    Keypads,         \* the chips, by their hardware address
    MaxSettings,     \* bound on the revisions of the central settings
    MaxInstallations, MaxKeypadFaults

ASSUME KeypadsAssumption == 1 \in Keypads /\ 0 \notin Keypads

Unknown == 0
Fresh(n) == 100 + n       \* the identity that installation n makes
Foreign == 99             \* one that another server has given

VARIABLES
    keypad,      \* what each chip holds: identity, revision of the settings, firmware
    port,        \* the chip that is plugged in
    registry,    \* the identities the server knows
    revision,    \* keypad-settings.json
    work,        \* the installation that has the job lock
    flasher,     \* the installation whose flasher runs, on which chip
    receipts,    \* the completed journals
    begun,       \* the installations so far
    swapped,     \* history: the chip was changed after it was identified the last time
    keypadFaults

keypadVars == <<keypad, port, registry, revision, work, flasher, receipts, begun, swapped, keypadFaults>>

NoWork == [n |-> 0, step |-> "none", kind |-> "none", adopt |-> FALSE, rev |-> 0, mac |-> Unknown, id |-> Unknown, new |-> FALSE]
NoFlasher == [n |-> 0, chip |-> Unknown]

KeypadInit ==
    /\ keypad = [k \in Keypads |-> [id |-> IF k = 1 THEN Unknown ELSE Foreign, rev |-> 0, firmware |-> "old"]]
    /\ port = 1
    /\ registry = {} /\ revision = 1
    /\ work = NoWork /\ flasher = NoFlasher /\ receipts = {}
    /\ begun = 0 /\ swapped = FALSE /\ keypadFaults = 0

-----------------------------------------------------------------------------
(* The worker: each step is journalled before it is taken *)

\* The lock is the worker's and its flasher's.
JobLocked == work = NoWork /\ flasher = NoFlasher

\* admission: the settings are read, and their revision compared with the request's.
Admit(kind, adopt) ==
    /\ JobLocked
    /\ begun < MaxInstallations /\ begun' = begun + 1
    /\ work' = [NoWork EXCEPT !.n = begun', !.step = "inspect", !.kind = kind, !.adopt = adopt, !.rev = revision]
    /\ UNCHANGED <<keypad, port, registry, revision, flasher, receipts, swapped, keypadFaults>>

Step(s, next) == work.step = s /\ work' = [work EXCEPT !.step = next]
Stop == work' = NoWork
Same == UNCHANGED <<keypad, port, registry, revision, flasher, receipts, begun, swapped, keypadFaults>>

\* backup: the first probe learns the address of the chip, the others compare it.
Inspect ==
    /\ work.step = "inspect" /\ port # Unknown
    /\ work' = [work EXCEPT !.step = "prepare", !.mac = port]
    /\ Same

\* An identity the server knows is preserved, a foreign one is adopted on consent.
Prepare ==
    /\ work.step = "prepare"
    /\ LET id == keypad[work.mac].id IN
       work' = IF id \in registry THEN [work EXCEPT !.step = "register", !.id = id]
               ELSE IF id = Foreign /\ ~work.adopt THEN NoWork
               ELSE [work EXCEPT !.step = "register", !.id = Fresh(work.n), !.new = TRUE]
    /\ Same

Register ==
    /\ Step("register", IF work.kind = "install" THEN "flash" ELSE "identify")
    /\ registry' = IF work.new THEN registry \cup {work.id} ELSE registry
    /\ UNCHANGED <<keypad, port, revision, flasher, receipts, begun, swapped, keypadFaults>>

\* The flasher compares the address of the chip that it is to write, and
\* checked_backup the sectors that were inspected.
StartFlasher ==
    /\ work.step = "flash" /\ flasher = NoFlasher
    /\ port = work.mac
    /\ flasher' = [n |-> work.n, chip |-> port]
    /\ keypad' = [keypad EXCEPT ![port].firmware = "torn"]
    /\ work' = [work EXCEPT !.step = "flashing"]
    /\ UNCHANGED <<port, registry, revision, receipts, begun, swapped, keypadFaults>>

FlasherEnds ==
    /\ flasher # NoFlasher /\ flasher' = NoFlasher
    /\ keypad' = [keypad EXCEPT ![flasher.chip].firmware = IF port = flasher.chip THEN "new" ELSE @]
    /\ work' = IF work.n # flasher.n THEN work
               ELSE IF port = flasher.chip THEN [work EXCEPT !.step = "identify"] ELSE NoWork
    /\ UNCHANGED <<port, registry, revision, receipts, begun, swapped, keypadFaults>>

\* Mutant: the description of the adapter is enough.
IdentifyAdapter ==
    /\ work.step = "identify" /\ port # Unknown
    /\ work' = [work EXCEPT !.step = "send"]
    /\ Same

\* provision asks for the chip once more, and then opens the port.
Identify ==
    /\ work.step = "identify" /\ port = work.mac
    /\ work' = [work EXCEPT !.step = "send"]
    /\ Same

SendEnvelope ==
    /\ port # Unknown
    /\ Step("send", "verify")
    /\ keypad' = [keypad EXCEPT ![port] = [@ EXCEPT !.id = work.id, !.rev = work.rev]]
    /\ UNCHANGED <<port, registry, revision, flasher, receipts, begun, swapped, keypadFaults>>

\* The server has seen the identity with its credential, this firmware and this configuration.
Online == \E k \in Keypads : keypad[k] = [id |-> work.id, rev |-> work.rev, firmware |-> "new"]

VerifyOnline ==
    /\ work.step = "verify" /\ Online /\ Stop
    /\ receipts' = receipts \cup {[n |-> work.n, id |-> work.id, mac |-> work.mac, rev |-> work.rev]}
    /\ UNCHANGED <<keypad, port, registry, revision, flasher, begun, swapped, keypadFaults>>

\* Any step that meets what it does not expect, or takes too long.
Gives ==
    \/ work.step \in {"inspect", "send"} /\ port = Unknown
    \/ work.step \in {"flash", "identify"} /\ port # work.mac
    \/ work.step = "verify" /\ ~Online

StopsAtStep ==
    /\ work # NoWork /\ Gives /\ Stop /\ Same

-----------------------------------------------------------------------------
(* The rest: errors, kills, hands *)

Fault == keypadFaults < MaxKeypadFaults /\ keypadFaults' = keypadFaults + 1

\* An error kills the flasher with its group; a kill of the worker leaves it.
WorkerStops ==
    /\ Fault /\ work # NoWork /\ Stop
    /\ \/ UNCHANGED flasher
       \/ flasher.n = work.n /\ flasher' = NoFlasher
    /\ UNCHANGED <<keypad, port, registry, revision, receipts, begun, swapped>>

Plug(k) ==
    /\ Fault /\ port # k /\ port' = k
    /\ swapped' = (swapped \/ work.step = "send")
    /\ UNCHANGED <<keypad, registry, revision, work, flasher, receipts, begun>>

SaveSettings ==
    /\ revision < MaxSettings /\ revision' = revision + 1
    /\ UNCHANGED <<keypad, port, registry, work, flasher, receipts, begun, swapped, keypadFaults>>

KeypadSteps == \/ Inspect \/ Prepare \/ Register \/ StartFlasher \/ FlasherEnds \/ Identify
               \/ SendEnvelope \/ VerifyOnline \/ StopsAtStep

KeypadNext == \/ \E kind \in {"install", "provision"}, adopt \in BOOLEAN : Admit(kind, adopt)
              \/ KeypadSteps \/ WorkerStops \/ SaveSettings
              \/ \E k \in Keypads \cup {Unknown} : Plug(k)

-----------------------------------------------------------------------------
(* What is promised *)

\* installation_receipts: the last of each identity, those of the current settings.
ReceiptShown == {r \in receipts : r.rev = revision /\ \A q \in receipts : q.id = r.id => q.n <= r.n}

\* A keypad only holds identities that the server knows or that it came with, and
\* a chip is written by the flasher of the installation that runs or by none.
KeypadsKnown ==
    /\ \A k \in Keypads : keypad[k].id \in registry \cup {Unknown, Foreign}
    /\ flasher # NoFlasher => work = NoWork \/ work.n = flasher.n

\* Unless the chip was changed between its last identification and the opening of
\* the port, a shown receipt names a chip that holds that identity and the current
\* settings, and no other chip holds the identity.
ReceiptsTrue ==
    ~swapped => \A r \in ReceiptShown :
        /\ keypad[r.mac].rev = revision
        /\ {k \in Keypads : keypad[k].id = r.id} = {r.mac}
=============================================================================
