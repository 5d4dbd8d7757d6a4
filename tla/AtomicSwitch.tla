----------------------------- MODULE AtomicSwitch -----------------------------
(***************************************************************************)
(* What a journaled replacement of several trees promises to its caller:   *)
(* the trees may be in any intermediate condition while the outcome is     *)
(* open, the outcome is decided once, and it is decided only over a        *)
(* complete generation - every tree new, or every tree as it was before.   *)
(***************************************************************************)
CONSTANTS
  Keys,        \* the trees that are replaced together
  Trees,       \* what the path of a tree can hold
  New          \* the content of a completely staged replacement

VARIABLES
  original,    \* what each path held before the switch
  live,        \* what each path holds now
  outcome      \* "open", "committed" or "restored"

switchVars == <<original, live, outcome>>

SwitchInit ==
  /\ original \in [Keys -> Trees]
  /\ live = original
  /\ outcome = "open"

(* While the outcome is open single trees come and go. *)
Exchange ==
  /\ outcome = "open"
  /\ live' \in [Keys -> Trees]
  /\ \A k \in Keys : live'[k] \in {live[k], original[k], New, "none"}
  /\ UNCHANGED <<original, outcome>>

Accept ==
  /\ outcome = "open"
  /\ \A k \in Keys : live[k] = New
  /\ outcome' = "committed"
  /\ UNCHANGED <<original, live>>

Restore ==
  /\ outcome = "open"
  /\ live = original
  /\ outcome' = "restored"
  /\ UNCHANGED <<original, live>>

SwitchNext == Exchange \/ Accept \/ Restore

SwitchSpec == SwitchInit /\ [][SwitchNext]_switchVars
===============================================================================
