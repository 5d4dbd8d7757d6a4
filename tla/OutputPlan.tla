------------------------------ MODULE OutputPlan ------------------------------
(***************************************************************************)
(* browser-session.py: which view goes to which output.  A connector is a  *)
(* number, ordered as its name is; ten of them are a family (DP-1, DP-2).  *)
(* A view is saved with a mode, a connector and the identity of a monitor. *)
(***************************************************************************)
EXTENDS Naturals, FiniteSets, Sequences
Ext == INSTANCE SequencesExt

NoOutput  == 0
NoMonitor == 0

Family(connector) == connector \div 10

\* plan(): what is shown while nothing has been configured.
DefaultViews == <<[mode |-> "admin", output |-> NoOutput, display |-> NoMonitor]>>

\* plan(): twins have no identity.
Identified(monitors, connected, display) ==
    LET at == {c \in connected : monitors[c] = display}
    IN IF display # NoMonitor /\ Cardinality(at) = 1 THEN CHOOSE c \in at : TRUE ELSE NoOutput

\* renumbered_outputs: all the connectors are others, of the same families.
Renumbered(views, connected, output) ==
    LET before == Ext!SortSeq([i \in DOMAIN views |-> views[i].output], <)
        after  == Ext!SetToSortSeq(connected, <)
        same   == {i \in DOMAIN before : before[i] = output}
    IN IF /\ Len(before) = Len(after)
          /\ \A i \in DOMAIN before : before[i] # NoOutput /\ before[i] \notin connected
                                      /\ Family(before[i]) = Family(after[i])
       THEN after[CHOOSE i \in same : \A j \in same : j <= i]
       ELSE output

Requested(views, connected) == [i \in DOMAIN views |-> Renumbered(views, connected, views[i].output)]

Free(a, connected)    == connected \ {a[i] : i \in DOMAIN a}
Lowest(outputs)       == CHOOSE c \in outputs : \A d \in outputs : c <= d
Related(outputs, to)  == {c \in outputs : Family(c) = Family(to)}

\* Monitor first, then connector.
Claim(views, connected, monitors, a, i) ==
    LET known == Identified(monitors, connected, views[i].display)
        wish  == Requested(views, connected)[i]
        free  == Free(a, connected)
    IN [a EXCEPT ![i] = IF known \in free THEN known ELSE IF wish \in free THEN wish ELSE NoOutput]

Admins(views) == {i \in DOMAIN views : views[i].mode = "admin"}

\* The administration takes any free output, the only one if need be.
ShowAdmin(views, connected, a) ==
    LET admin == Lowest(Admins(views))
        free  == Free(a, connected)
        near  == Related(free, Requested(views, connected)[admin])
    IN IF Admins(views) = {} \/ connected = {} THEN a
       ELSE IF a[admin] # NoOutput THEN a
       ELSE IF free # {} THEN [a EXCEPT ![admin] = Lowest(IF near # {} THEN near ELSE free)]
       ELSE IF Cardinality(connected) = 1
            THEN [i \in DOMAIN views |-> IF i = admin THEN Lowest(connected) ELSE NoOutput]
       ELSE a

\* The others take a free output of the family they were saved with.
Settle(views, connected, a, i) ==
    LET wish == Requested(views, connected)[i]
        free == IF wish = NoOutput THEN Free(a, connected) ELSE Related(Free(a, connected), wish)
    IN IF a[i] = NoOutput /\ free # {} THEN [a EXCEPT ![i] = Lowest(free)] ELSE a

\* assigned_outputs: the claims are made in the order of the views, and so is
\* what is left given out.
Claims(views, connected, monitors) ==
    LET claimed[n \in 0..Len(views)] ==
          IF n = 0 THEN [i \in DOMAIN views |-> NoOutput]
          ELSE Claim(views, connected, monitors, claimed[n - 1], n)
    IN claimed

Settlement(views, connected, a) ==
    LET settled[n \in 0..Len(views)] ==
          IF n = 0 THEN a ELSE Settle(views, connected, settled[n - 1], n)
    IN settled

AssignedOutputs(views, connected, monitors) ==
    LET claimed == Claims(views, connected, monitors)[Len(views)]
    IN Settlement(views, connected, ShowAdmin(views, connected, claimed))[Len(views)]

\* "Resolve configured outputs, keeping administration visible during hotplug"
\* (browser-session.py:173): no output has two views, only connected ones are
\* used, the administration is visible as long as one is, and a display that is
\* known by its monitor is where that is, unless an earlier view or the
\* administration needs it.
AssignmentSound(views, connected, monitors) ==
    LET a == AssignedOutputs(views, connected, monitors)
        known(i) == Identified(monitors, connected, views[i].display)
    IN /\ \A i \in DOMAIN views : a[i] \in connected \cup {NoOutput}
       /\ \A i, j \in DOMAIN views : i # j /\ a[i] = a[j] => a[i] = NoOutput
       /\ Admins(views) # {} /\ connected # {} => \E i \in Admins(views) : a[i] # NoOutput
       /\ \A i \in DOMAIN views :
             known(i) # NoOutput => a[i] = known(i) \/ \E j \in DOMAIN views \ {i} : a[j] = known(i)
=============================================================================
