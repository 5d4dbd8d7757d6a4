----------------------------- MODULE ReleaseSwitch ----------------------------
(***************************************************************************)
(* What a release update promises while it may fail at any step: the       *)
(* services only ever run one whole release over data that release can     *)
(* read, a release is accepted only while it is the one running, nothing   *)
(* older than the accepted release runs again, and the user data a settled *)
(* release wrote is never lost.                                            *)
(***************************************************************************)
EXTENDS Integers

CONSTANTS
  Releases,    \* release sequence numbers, 0 is the installed one
  NoRelease    \* no single release: stopped services, half-switched data

VARIABLES
  running,     \* the release whose services run
  schema,      \* the newest release that has written the user data
  accepted     \* the highest accepted release

switchVars == <<running, schema, accepted>>

SwitchInit ==
  /\ running = 0
  /\ schema = 0
  /\ accepted = 0

Stop ==
  /\ running' = NoRelease
  /\ UNCHANGED <<schema, accepted>>

(* Starting a release lets it migrate the data to its own schema. *)
Start ==
  /\ schema # NoRelease
  /\ running' \in Releases
  /\ running' >= accepted
  /\ running' >= schema
  /\ schema' \in {schema, running'}
  /\ UNCHANGED accepted

(* Stopped services leave room to put another generation of the data back. *)
RevertData ==
  /\ running = NoRelease
  /\ schema' \in Releases \cup {NoRelease}
  /\ UNCHANGED <<running, accepted>>

Accept ==
  /\ running \in Releases
  /\ running > accepted
  /\ accepted' = running
  /\ UNCHANGED <<running, schema>>

SwitchNext == Stop \/ Start \/ RevertData \/ Accept

SwitchSpec == SwitchInit /\ [][SwitchNext]_switchVars
===============================================================================
