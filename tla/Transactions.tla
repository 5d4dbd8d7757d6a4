----------------------------- MODULE Transactions -----------------------------
(***************************************************************************)
(* The stores of the appliance that keep a record of their own steps and   *)
(* share no state, checked side by side: an initial state chooses the one  *)
(* that runs.                                                              *)
(***************************************************************************)
EXTENDS RestoreTransaction, NetworkTransaction, DisplayPreview, LocalSnapshots

VARIABLE part    \* the store that is used

transactionsVars == <<vars, networkVars, previewVars, storeVars, part>>

Parts == {"trees", "network", "display", "checkpoints"}

TransactionsInit ==
    /\ part \in Parts
    /\ Init /\ (part # "trees" => faults = {} /\ existed = [k \in Keys |-> TRUE])
    /\ NetworkInit /\ PreviewInit
    /\ StoreInit /\ (part # "checkpoints" => \A other \in Keeps : keep >= other)

Others(p) ==
    /\ part = p /\ UNCHANGED part
    /\ p # "trees" => UNCHANGED vars
    /\ p # "network" => UNCHANGED networkVars
    /\ p # "display" => UNCHANGED previewVars
    /\ p # "checkpoints" => UNCHANGED storeVars

TransactionsNext ==
    \/ Others("trees") /\ Next
    \/ Others("network") /\ NetworkNext
    \/ Others("display") /\ PreviewNext
    \/ Others("checkpoints") /\ StoreNext

(* Fairness: only of the store that is used *)

\* A started method runs on, and the coordinators call rollback again until the
\* transaction is decided.
FairTrees == LET on == part = "trees" IN
    WF_transaction(on /\ MethodStep) /\ WF_transaction(on /\ Rollback)

\* The watchdog is restarted whenever it ends and ticks every second, a begun
\* operation runs on, clocks advance, systemd boots the machine, and somebody
\* resolves a refused rollback and restarts a blocked appliance.
FairNetwork == LET on == part = "network" IN
    /\ WF_networkVars(on /\ (RestoreStep \/ TickStep \/ (ConfirmStep /\ task # NoTask)))
    /\ WF_networkVars(on /\ BootStep)
    /\ WF_networkVars(on /\ Expire)
    /\ SF_networkVars(on /\ \E f \in Files : Resolve(f))
    /\ WF_networkVars(on /\ Reboot)

\* Begun operations run on, the watchdog keeps coming back to the lock, systemd
\* executes a queued restart, and clocks advance.
FairDisplay == LET on == part = "display" IN
    /\ WF_previewVars(on /\ OperationStep)
    /\ SF_previewVars(on /\ Recover)
    /\ SF_previewVars(on /\ restart /\ StartGraphics)
    /\ WF_previewVars(on /\ PreviewExpires)

TransactionsSpec ==
    /\ TransactionsInit /\ [][TransactionsNext]_transactionsVars
    /\ FairTrees /\ FairNetwork /\ FairDisplay
===============================================================================
