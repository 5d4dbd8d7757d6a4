----------------------- MODULE RestoreTransaction_proofs -----------------------
(***************************************************************************)
(* Proofs about RestoreTransaction for every number of targets.            *)
(*                                                                         *)
(* The inductive invariant classifies the four paths of a target into the  *)
(* few shapes the two methods can leave behind, and says for every state   *)
(* of the record, and for every place of a running method, which shapes    *)
(* are possible before, at and after the target in hand.                   *)
(***************************************************************************)
EXTENDS RestoreTransaction, TLAPS

(* The shapes of f = slot[k] or disk[k].                                   *)
Paths(f, target, incoming, previous, rejected) ==
  /\ f["target"] = target
  /\ f["incoming"] = incoming
  /\ f["previous"] = previous
  /\ f["rejected"] = rejected

Before(f, k) == \E i \in Trees : Paths(f, Orig(k), i, "none", "none")
Staged(f, k) == Paths(f, Orig(k), "new", "none", "none")
Retired(f, k) == existed[k] /\ Paths(f, "none", "new", "old", "none")
Switched(f, k) == Paths(f, "new", "none", Orig(k), "none")
Displaced(f, k) == existed[k] /\ Paths(f, "none", "none", "old", "new")
Reverted(f, k) == Paths(f, Orig(k), "none", "none", "new")
Original(f, k) == Before(f, k) \/ Reverted(f, k)
Shape(f, k) ==
  Original(f, k) \/ Retired(f, k) \/ Switched(f, k) \/ Displaced(f, k)

Synced(k) == disk[k] = slot[k]

PreparePCs == {"stage", "copy", "sync-copy"}
ApplyPCs == {"retire", "sync-retire", "install", "sync-install"}
RollbackPCs == {"reject", "sync-reject", "reinstate", "sync-reinstate"}
UnsyncedPCs == {"copy", "sync-copy", "sync-retire", "sync-install",
                "sync-reject", "sync-reinstate"}

PcInv ==
  /\ pc \in PreparePCs => journal = "preparing"
  /\ pc \in ApplyPCs => journal = "installing"
  /\ pc \in RollbackPCs => journal = "rolling-back"

ShapeInv == \A k \in Keys : Shape(slot[k], k) /\ Shape(disk[k], k)

PreparingInv ==
  /\ journal \in {"none", "preparing"} =>
       \A k \in Keys : Before(slot[k], k) /\ Before(disk[k], k)
  /\ pc \in PreparePCs => \A k \in Keys : k < key => Staged(slot[k], k) /\ Synced(k)
  /\ pc = "sync-copy" => Staged(slot[key], key)
  /\ journal = "ready" => \A k \in Keys : Staged(slot[k], k) /\ Synced(k)

ApplyingInv ==
  /\ pc \in ApplyPCs =>
       \A k \in Keys : /\ k < key => Switched(slot[k], k) /\ Synced(k)
                       /\ k > key => Staged(slot[k], k) /\ Synced(k)
  /\ pc = "retire" => Staged(slot[key], key)
  /\ pc = "sync-retire" => Retired(slot[key], key)
  /\ pc = "install" => \/ Retired(slot[key], key)
                       \/ ~existed[key] /\ Staged(slot[key], key)
  /\ pc = "sync-install" => Switched(slot[key], key)
  /\ journal \in {"installed", "committed"} =>
       \A k \in Keys : Switched(slot[k], k) /\ Synced(k)

RollingBackInv ==
  /\ pc \in RollbackPCs => \A k \in Keys : k > key => Original(slot[k], k)
  /\ pc = "sync-reject" => \/ Displaced(slot[key], key)
                           \/ ~existed[key] /\ Reverted(slot[key], key)
  /\ pc = "reinstate" => Displaced(slot[key], key)
  /\ pc = "sync-reinstate" => Original(slot[key], key)

RolledBackInv ==
  (OneKindOfFault /\ journal = "rolled-back") =>
    \A k \in Keys : Original(slot[k], k)

SyncedInv ==
  "kill" \notin faults =>
    \A k \in Keys : Synced(k) \/ (k = key /\ pc \in UnsyncedPCs)

IInv ==
  /\ TypeOK
  /\ PcInv
  /\ ShapeInv
  /\ PreparingInv
  /\ ApplyingInv
  /\ RollingBackInv
  /\ RolledBackInv
  /\ SyncedInv

-------------------------------------------------------------------------------
(* A rename changes the two paths it names and nothing else.               *)
LEMMA RenameEffect ==
  ASSUME TypeOK, NEW k \in Keys, NEW from \in Slots, NEW to \in Slots,
         from # to, Rename(k, from, to)
  PROVE  /\ slot' \in [Keys -> [Slots -> Trees]]
         /\ slot'[k][from] = "none"
         /\ slot'[k][to] = slot[k][from]
         /\ \A s \in Slots : s \notin {from, to} => slot'[k][s] = slot[k][s]
         /\ \A j \in Keys : j # k => slot'[j] = slot[j]
  BY DEF TypeOK, Rename, Trees

(* The initial state.                                                      *)
LEMMA InitIInv == Init => IInv
<1> SUFFICES ASSUME Init PROVE IInv
  OBVIOUS
<1> USE NAssumption
<1>1. TypeOK
  BY DEF Init, TypeOK, Journals, PCs, Keys, Empty, Orig, Trees
<1>2. \A k \in Keys : Before(slot[k], k) /\ disk[k] = slot[k]
  BY DEF Init, Before, Paths, Empty, Slots, Trees
<1>3. ShapeInv /\ PreparingInv
  BY <1>2 DEF Init, ShapeInv, Shape, Original, PreparingInv, PreparePCs
<1>4. PcInv /\ ApplyingInv /\ RollingBackInv /\ RolledBackInv
  BY DEF Init, PcInv, ApplyingInv, RollingBackInv, RolledBackInv, OneKindOfFault,
     PreparePCs,
         ApplyPCs, RollbackPCs
<1>5. SyncedInv
  BY DEF Init, SyncedInv, Synced
<1> QED
  BY <1>1, <1>3, <1>4, <1>5 DEF IInv

(* prepare writes its record. *)
LEMMA PrepareStep ==
  ASSUME IInv, Prepare, UNCHANGED faults
  PROVE  IInv'
<1> USE NAssumption DEF IInv
<1>1. UNCHANGED <<existed, slot, disk>>
  BY DEF Prepare
<1>T. TypeOK'
  BY DEF Prepare, TypeOK, PCs, Journals, Keys
<1>P. PcInv'
  BY DEF Prepare, PcInv, ApplyPCs, RollbackPCs
<1>S. ShapeInv'
  BY <1>1
     DEF ShapeInv, Shape, Original, Before, Reverted, Retired, Switched,
         Displaced, Orig
<1>A. PreparingInv'
  BY DEF Prepare, PreparingInv, Keys, Before, Orig
<1>B. ApplyingInv'
  BY DEF Prepare, ApplyingInv, ApplyPCs
<1>C. RollingBackInv'
  BY DEF Prepare, RollingBackInv, RollbackPCs
<1>D. RolledBackInv'
  BY DEF Prepare, RolledBackInv, OneKindOfFault
<1>E. SyncedInv'
  BY DEF Prepare, SyncedInv, Synced, UnsyncedPCs
<1> QED
  BY <1>T, <1>P, <1>S, <1>A, <1>B, <1>C, <1>D, <1>E

(* apply records that it installs. *)
LEMMA ApplyStep ==
  ASSUME IInv, Apply, UNCHANGED faults
  PROVE  IInv'
<1> USE NAssumption DEF IInv
<1>1. UNCHANGED <<existed, slot, disk>>
  BY DEF Apply
<1>T. TypeOK'
  BY DEF Apply, TypeOK, PCs, Journals, Keys
<1>P. PcInv'
  BY DEF Apply, PcInv, PreparePCs, RollbackPCs
<1>S. ShapeInv'
  BY <1>1
     DEF ShapeInv, Shape, Original, Before, Reverted, Retired, Switched,
         Displaced, Orig
<1>A. PreparingInv'
  BY DEF Apply, PreparingInv, PreparePCs
<1>B. ApplyingInv'
  BY DEF Apply, ApplyingInv, PreparingInv, Keys, Synced, Staged, Orig
<1>C. RollingBackInv'
  BY DEF Apply, RollingBackInv, RollbackPCs
<1>D. RolledBackInv'
  BY DEF Apply, RolledBackInv, OneKindOfFault
<1>E. SyncedInv'
  BY DEF Apply, SyncedInv, Synced, UnsyncedPCs
<1> QED
  BY <1>T, <1>P, <1>S, <1>A, <1>B, <1>C, <1>D, <1>E

(* rollback records that it rolls back. *)
LEMMA RollbackStep ==
  ASSUME IInv, Rollback, UNCHANGED faults
  PROVE  IInv'
<1> USE NAssumption DEF IInv
<1>1. UNCHANGED <<existed, slot, disk>>
  BY DEF Rollback
<1>T. TypeOK'
  BY DEF Rollback, TypeOK, PCs, Journals, Keys
<1>P. PcInv'
  BY DEF Rollback, PcInv, PreparePCs, ApplyPCs
<1>S. ShapeInv'
  BY <1>1
     DEF ShapeInv, Shape, Original, Before, Reverted, Retired, Switched,
         Displaced, Orig
<1>A. PreparingInv'
  BY DEF Rollback, PreparingInv, PreparePCs
<1>B. ApplyingInv'
  BY DEF Rollback, ApplyingInv, ApplyPCs
<1>C. RollingBackInv'
  BY DEF Rollback, RollingBackInv, Keys
<1>D. RolledBackInv'
  BY DEF Rollback, RolledBackInv, OneKindOfFault
<1>E. SyncedInv'
  BY DEF Rollback, SyncedInv, Synced, UnsyncedPCs
<1> QED
  BY <1>T, <1>P, <1>S, <1>A, <1>B, <1>C, <1>D, <1>E

(* commit decides. *)
LEMMA CommitStep ==
  ASSUME IInv, Commit, UNCHANGED faults
  PROVE  IInv'
<1> USE NAssumption DEF IInv
<1>1. UNCHANGED <<existed, slot, disk>>
  BY DEF Commit
<1>T. TypeOK'
  BY DEF Commit, TypeOK, Journals
<1>P. PcInv'
  BY DEF Commit, PcInv
<1>S. ShapeInv'
  BY <1>1
     DEF ShapeInv, Shape, Original, Before, Reverted, Retired, Switched,
         Displaced, Orig
<1>A. PreparingInv'
  BY DEF Commit, PreparingInv, PreparePCs
<1>B. ApplyingInv'
  BY DEF Commit, ApplyingInv, ApplyPCs, Synced, Switched, Orig
<1>C. RollingBackInv'
  BY DEF Commit, RollingBackInv, PcInv
<1>D. RolledBackInv'
  BY DEF Commit, RolledBackInv, OneKindOfFault
<1>E. SyncedInv'
  BY DEF Commit, SyncedInv, Synced
<1> QED
  BY <1>T, <1>P, <1>S, <1>A, <1>B, <1>C, <1>D, <1>E

(* A killed method leaves everything in place. *)
LEMMA KillStep ==
  ASSUME IInv, Kill, UNCHANGED faults
  PROVE  IInv'
<1> USE NAssumption DEF IInv
<1>1. UNCHANGED <<existed, slot, disk>>
  BY DEF Kill
<1>T. TypeOK'
  BY DEF Kill, TypeOK, PCs
<1>P. PcInv'
  BY DEF Kill, PcInv, PreparePCs, ApplyPCs, RollbackPCs
<1>S. ShapeInv'
  BY <1>1
     DEF ShapeInv, Shape, Original, Before, Reverted, Retired, Switched,
         Displaced, Orig
<1>A. PreparingInv'
  BY DEF Kill, PreparingInv, PreparePCs, Synced, Before, Staged, Orig
<1>B. ApplyingInv'
  BY DEF Kill, ApplyingInv, ApplyPCs, Synced, Switched, Orig
<1>C. RollingBackInv'
  BY DEF Kill, RollingBackInv, RollbackPCs
<1>D. RolledBackInv'
  BY DEF Kill, RolledBackInv, OneKindOfFault, Original, Before, Reverted, Orig
<1>E. SyncedInv'
  BY DEF Kill, SyncedInv
<1> QED
  BY <1>T, <1>P, <1>S, <1>A, <1>B, <1>C, <1>D, <1>E

(* A target with nothing to undo is passed. *)
LEMMA SkipTargetStep ==
  ASSUME IInv, SkipTarget, UNCHANGED faults
  PROVE  IInv'
<1> USE NAssumption DEF IInv
<1>1. UNCHANGED <<existed, slot, disk>>
  BY DEF SkipTarget
<1>2. Original(slot[key], key)
  BY DEF SkipTarget, ShapeInv, MustReject, Exists, Shape, Retired, Switched,
         Displaced, Paths, Orig, TypeOK
<1>T. TypeOK'
  BY DEF SkipTarget, NextRollbackKey, TypeOK, PCs, Journals, Keys
<1>P. PcInv'
  BY DEF SkipTarget, NextRollbackKey, PcInv, PreparePCs, ApplyPCs, RollbackPCs
<1>S. ShapeInv'
  BY <1>1
     DEF ShapeInv, Shape, Original, Before, Reverted, Retired, Switched,
         Displaced, Orig
<1>A. PreparingInv'
  BY DEF SkipTarget, NextRollbackKey, PreparingInv, PcInv, PreparePCs,
         RollbackPCs
<1>B. ApplyingInv'
  BY DEF SkipTarget, NextRollbackKey, ApplyingInv, PcInv, ApplyPCs, RollbackPCs
<1>C. RollingBackInv'
  BY <1>2
     DEF SkipTarget, NextRollbackKey, RollingBackInv, RollbackPCs, Keys,
         Original, Before, Reverted, Orig, TypeOK
<1>D. RolledBackInv'
  <2>1. \A k \in Keys : k > key => Original(slot[k], k)
    BY DEF SkipTarget, RollingBackInv, RollbackPCs
  <2>2. journal' = "rolled-back" => key = 1
    BY DEF SkipTarget, NextRollbackKey, PcInv, RollbackPCs, TypeOK, Keys
  <2>3. journal' = "rolled-back" => \A k \in Keys : Original(slot'[k], k)
    BY <1>1, <1>2, <2>1, <2>2 DEF TypeOK, Keys
  <2> QED
    BY <1>1, <2>3 DEF RolledBackInv, Original, Before, Reverted, Orig
<1>E. SyncedInv'
  BY DEF SkipTarget, SyncedInv, Synced, UnsyncedPCs
<1> QED
  BY <1>T, <1>P, <1>S, <1>A, <1>B, <1>C, <1>D, <1>E

(* The staged tree becomes the target. *)
LEMMA InstallIncomingStep ==
  ASSUME IInv, InstallIncoming, UNCHANGED faults
  PROVE  IInv'
<1> USE NAssumption DEF IInv
<1>1. Rename(key, "incoming", "target") /\ UNCHANGED <<journal, existed, disk, key>>
  BY DEF InstallIncoming
<1>2. key \in Keys
  BY DEF TypeOK
<1>3. \A j \in Keys : j # key => slot'[j] = slot[j]
  BY <1>1, <1>2, RenameEffect DEF Slots
<1>4. Switched(slot'[key], key)
  BY <1>2, RenameEffect
     DEF InstallIncoming, ApplyingInv, Staged, Retired, Switched, Paths, Orig,
         Slots
<1>5. slot' \in [Keys -> [Slots -> Trees]]
  BY <1>1, <1>2, RenameEffect DEF Slots
<1>6. UNCHANGED <<journal, existed, disk, key>>
  BY <1>1
<1>T. TypeOK'
  BY <1>5 DEF InstallIncoming, TypeOK, PCs
<1>P. PcInv'
  BY DEF InstallIncoming, PcInv, PreparePCs, ApplyPCs, RollbackPCs
<1>S. ShapeInv'
  BY <1>3, <1>4, <1>6
     DEF ShapeInv, Shape, Original, Before, Reverted, Retired, Switched,
         Displaced, Orig
<1>A. PreparingInv'
  BY DEF InstallIncoming, PreparingInv, PcInv, PreparePCs, ApplyPCs
<1>B. ApplyingInv'
  BY <1>3, <1>4
     DEF InstallIncoming, ApplyingInv, ApplyPCs, Synced, Staged, Retired,
         Switched, Paths, Orig
<1>C. RollingBackInv'
  BY DEF InstallIncoming, RollingBackInv, RollbackPCs
<1>D. RolledBackInv'
  BY DEF InstallIncoming, RolledBackInv, OneKindOfFault, PcInv, ApplyPCs
<1>E. SyncedInv'
  BY <1>3 DEF InstallIncoming, SyncedInv, Synced, UnsyncedPCs
<1> QED
  BY <1>T, <1>P, <1>S, <1>A, <1>B, <1>C, <1>D, <1>E

(* The target is moved aside. *)
LEMMA RejectTargetStep ==
  ASSUME IInv, RejectTarget, UNCHANGED faults
  PROVE  IInv'
<1> USE NAssumption DEF IInv
<1>1. Rename(key, "target", "rejected") /\ UNCHANGED <<journal, existed, disk, key>>
  BY DEF RejectTarget
<1>2. key \in Keys
  BY DEF TypeOK
<1>3. \A j \in Keys : j # key => slot'[j] = slot[j]
  BY <1>1, <1>2, RenameEffect DEF Slots
<1>4. Displaced(slot'[key], key) \/ (~existed[key] /\ Reverted(slot'[key], key))
  BY <1>2, RenameEffect
     DEF RejectTarget, ShapeInv, MustReject, Exists, Shape, Original, Before,
         Reverted, Retired, Switched, Displaced, Paths, Orig, Slots
<1>5. slot' \in [Keys -> [Slots -> Trees]]
  BY <1>1, <1>2, RenameEffect DEF Slots
<1>6. UNCHANGED <<journal, existed, disk, key>>
  BY <1>1
<1>T. TypeOK'
  BY <1>5 DEF RejectTarget, TypeOK, PCs
<1>P. PcInv'
  BY DEF RejectTarget, PcInv, PreparePCs, ApplyPCs, RollbackPCs
<1>S. ShapeInv'
  BY <1>3, <1>4, <1>6
     DEF ShapeInv, Shape, Original, Before, Reverted, Retired, Switched,
         Displaced, Orig
<1>A. PreparingInv'
  BY DEF RejectTarget, PreparingInv, PcInv, PreparePCs, RollbackPCs
<1>B. ApplyingInv'
  BY DEF RejectTarget, ApplyingInv, PcInv, ApplyPCs, RollbackPCs
<1>C. RollingBackInv'
  BY <1>3, <1>4
     DEF RejectTarget, RollingBackInv, RollbackPCs, Keys, Original, Before,
         Reverted, Displaced, Orig
<1>D. RolledBackInv'
  BY DEF RejectTarget, RolledBackInv, OneKindOfFault, PcInv, RollbackPCs
<1>E. SyncedInv'
  BY <1>3 DEF RejectTarget, SyncedInv, Synced, UnsyncedPCs
<1> QED
  BY <1>T, <1>P, <1>S, <1>A, <1>B, <1>C, <1>D, <1>E

(* The previous tree becomes the target again. *)
LEMMA ReinstatePreviousStep ==
  ASSUME IInv, ReinstatePrevious, UNCHANGED faults
  PROVE  IInv'
<1> USE NAssumption DEF IInv
<1>1. Rename(key, "previous", "target") /\ UNCHANGED <<journal, existed, disk, key>>
  BY DEF ReinstatePrevious
<1>2. key \in Keys
  BY DEF TypeOK
<1>3. \A j \in Keys : j # key => slot'[j] = slot[j]
  BY <1>1, <1>2, RenameEffect DEF Slots
<1>4. Original(slot'[key], key)
  BY <1>2, RenameEffect
     DEF ReinstatePrevious, ShapeInv, RollingBackInv, Exists, Shape, Original,
         Before, Reverted, Retired, Switched, Displaced, Paths, Orig, Slots
<1>5. slot' \in [Keys -> [Slots -> Trees]]
  BY <1>1, <1>2, RenameEffect DEF Slots
<1>6. UNCHANGED <<journal, existed, disk, key>>
  BY <1>1
<1>T. TypeOK'
  BY <1>5 DEF ReinstatePrevious, TypeOK, PCs
<1>P. PcInv'
  BY DEF ReinstatePrevious, PcInv, PreparePCs, ApplyPCs, RollbackPCs
<1>S. ShapeInv'
  BY <1>3, <1>4, <1>6
     DEF ShapeInv, Shape, Original, Before, Reverted, Retired, Switched,
         Displaced, Orig
<1>A. PreparingInv'
  BY DEF ReinstatePrevious, PreparingInv, PcInv, PreparePCs, RollbackPCs
<1>B. ApplyingInv'
  BY DEF ReinstatePrevious, ApplyingInv, PcInv, ApplyPCs, RollbackPCs
<1>C. RollingBackInv'
  BY <1>3, <1>4
     DEF ReinstatePrevious, RollingBackInv, RollbackPCs, Original, Before,
         Reverted, Orig
<1>D. RolledBackInv'
  BY DEF ReinstatePrevious, RolledBackInv, OneKindOfFault, PcInv, RollbackPCs
<1>E. SyncedInv'
  BY <1>3 DEF ReinstatePrevious, SyncedInv, Synced, UnsyncedPCs
<1> QED
  BY <1>T, <1>P, <1>S, <1>A, <1>B, <1>C, <1>D, <1>E

(* A staged tree appears, incomplete. *)
LEMMA StageIncomingStep ==
  ASSUME IInv, StageIncoming, UNCHANGED faults
  PROVE  IInv'
<1> USE NAssumption DEF IInv
<1>1. UNCHANGED <<journal, existed, disk, key>> /\ key \in Keys
  BY DEF StageIncoming, TypeOK
<1>2. slot' \in [Keys -> [Slots -> Trees]]
  BY DEF StageIncoming, TypeOK, Trees
<1>3. \A j \in Keys : j # key => slot'[j] = slot[j]
  BY DEF StageIncoming
<1>4. Before(slot'[key], key)
  BY <1>1
     DEF StageIncoming, PcInv, PreparePCs, PreparingInv, Before, Paths, Trees
<1>T. TypeOK'
  BY <1>2 DEF StageIncoming, TypeOK, PCs
<1>P. PcInv'
  BY DEF StageIncoming, PcInv, PreparePCs, ApplyPCs, RollbackPCs
<1>S. ShapeInv'
  BY <1>1, <1>3, <1>4
     DEF ShapeInv, Shape, Original, Before, Reverted, Retired, Switched,
         Displaced, Orig
<1>A. PreparingInv'
  BY <1>4
     DEF StageIncoming, PreparingInv, PcInv, PreparePCs, Keys, Synced, Before,
         Staged, Orig
<1>B. ApplyingInv'
  BY DEF StageIncoming, ApplyingInv, PcInv, PreparePCs, ApplyPCs
<1>C. RollingBackInv'
  BY DEF StageIncoming, RollingBackInv, RollbackPCs
<1>D. RolledBackInv'
  BY DEF StageIncoming, RolledBackInv, OneKindOfFault, PcInv, PreparePCs
<1>E. SyncedInv'
  BY DEF StageIncoming, SyncedInv, Synced, UnsyncedPCs
<1> QED
  BY <1>T, <1>P, <1>S, <1>A, <1>B, <1>C, <1>D, <1>E

(* The copy is complete. *)
LEMMA CopyOwnedStep ==
  ASSUME IInv, CopyOwned, UNCHANGED faults
  PROVE  IInv'
<1> USE NAssumption DEF IInv
<1>1. UNCHANGED <<journal, existed, disk, key>> /\ key \in Keys
  BY DEF CopyOwned, TypeOK
<1>2. slot' \in [Keys -> [Slots -> Trees]]
  BY DEF CopyOwned, TypeOK, Trees
<1>3. \A j \in Keys : j # key => slot'[j] = slot[j]
  BY DEF CopyOwned
<1>4. Staged(slot'[key], key)
  BY DEF CopyOwned, PcInv, PreparePCs, PreparingInv, Before, Staged, Paths,
         Slots, TypeOK
<1>T. TypeOK'
  BY <1>2 DEF CopyOwned, TypeOK, PCs
<1>P. PcInv'
  BY DEF CopyOwned, PcInv, PreparePCs, ApplyPCs, RollbackPCs
<1>S. ShapeInv'
  BY <1>2, <1>4
     DEF CopyOwned, ShapeInv, Shape, Original, Before, Staged, Reverted,
         Retired, Switched, Displaced, Orig
<1>A. PreparingInv'
  BY <1>2, <1>4
     DEF CopyOwned, PreparingInv, PcInv, PreparePCs, Keys, Synced, Before,
         Staged, Orig
<1>B. ApplyingInv'
  BY DEF CopyOwned, ApplyingInv, PcInv, PreparePCs, ApplyPCs
<1>C. RollingBackInv'
  BY DEF CopyOwned, RollingBackInv, RollbackPCs
<1>D. RolledBackInv'
  BY DEF CopyOwned, RolledBackInv, OneKindOfFault, PcInv, PreparePCs
<1>E. SyncedInv'
  BY DEF CopyOwned, SyncedInv, Synced, UnsyncedPCs
<1> QED
  BY <1>T, <1>P, <1>S, <1>A, <1>B, <1>C, <1>D, <1>E

(* The live tree becomes the previous one, where there was one. *)
LEMMA RetirePreviousStep ==
  ASSUME IInv, RetirePrevious, UNCHANGED faults
  PROVE  IInv'
<1> USE NAssumption DEF IInv
<1>1. UNCHANGED <<journal, existed, disk, key>> /\ key \in Keys
  BY DEF RetirePrevious, TypeOK
<1>2. CASE existed[key]
  <2>1. Rename(key, "target", "previous") /\ pc' = "sync-retire"
    BY <1>2 DEF RetirePrevious
  <2>2. slot' \in [Keys -> [Slots -> Trees]]
    BY <1>1, <2>1, RenameEffect DEF Slots
  <2>3. \A j \in Keys : j # key => slot'[j] = slot[j]
    BY <1>1, <2>1, RenameEffect DEF Slots
  <2>4. Retired(slot'[key], key)
    BY <1>1, <2>1, RenameEffect
       DEF RetirePrevious, ApplyingInv, Staged, Retired, Paths, Orig, Slots
  <2>T. TypeOK'
    BY <2>2 DEF RetirePrevious, TypeOK, PCs
  <2>P. PcInv'
    BY DEF RetirePrevious, PcInv, PreparePCs, ApplyPCs, RollbackPCs
  <2>S. ShapeInv'
    BY <1>1, <2>3, <2>4
       DEF ShapeInv, Shape, Original, Before, Reverted, Retired, Switched,
           Displaced, Orig
  <2>A. PreparingInv'
    BY DEF RetirePrevious, PreparingInv, PcInv, PreparePCs, ApplyPCs
  <2>B. ApplyingInv'
    BY <2>3, <2>4
       DEF RetirePrevious, ApplyingInv, ApplyPCs, Synced, Staged, Retired,
           Switched, Paths, Orig
  <2>C. RollingBackInv'
    BY DEF RetirePrevious, RollingBackInv, RollbackPCs
  <2>D. RolledBackInv'
    BY DEF RetirePrevious, RolledBackInv, OneKindOfFault, PcInv, ApplyPCs
  <2>E. SyncedInv'
    BY <2>3 DEF RetirePrevious, SyncedInv, Synced, UnsyncedPCs
  <2> QED
    BY <2>T, <2>P, <2>S, <2>A, <2>B, <2>C, <2>D, <2>E
<1>3. CASE ~existed[key]
  <2>1. pc' = "install" /\ slot' = slot
    BY <1>3 DEF RetirePrevious
  <2>T. TypeOK'
    BY <1>1, <2>1 DEF TypeOK, PCs
  <2>P. PcInv'
    BY DEF RetirePrevious, PcInv, PreparePCs, ApplyPCs, RollbackPCs
  <2>S. ShapeInv'
    BY <1>1, <2>1
       DEF ShapeInv, Shape, Original, Before, Reverted, Retired, Switched,
           Displaced, Orig
  <2>A. PreparingInv'
    BY DEF RetirePrevious, PreparingInv, PcInv, PreparePCs, ApplyPCs
  <2>B. ApplyingInv'
    BY <2>1
       DEF RetirePrevious, ApplyingInv, ApplyPCs, Synced, Staged, Switched,
           Orig
  <2>C. RollingBackInv'
    BY <2>1 DEF RollingBackInv, RollbackPCs
  <2>D. RolledBackInv'
    BY DEF RetirePrevious, RolledBackInv, OneKindOfFault, PcInv, ApplyPCs
  <2>E. SyncedInv'
    BY <2>1 DEF RetirePrevious, SyncedInv, Synced, UnsyncedPCs
  <2> QED
    BY <2>T, <2>P, <2>S, <2>A, <2>B, <2>C, <2>D, <2>E
<1> QED
  BY <1>2, <1>3

(* The staged tree is durable; the last one makes the record ready. *)
LEMMA SyncIncomingStep ==
  ASSUME IInv, SyncIncoming, UNCHANGED faults
  PROVE  IInv'
<1> USE NAssumption DEF IInv
<1>1. UNCHANGED <<existed, slot>> /\ key \in Keys
  BY DEF SyncIncoming, TypeOK
<1>2. disk' \in [Keys -> [Slots -> Trees]]
  BY DEF SyncIncoming, SyncDirectories, TypeOK
<1>3. disk'[key] = slot[key] /\ \A j \in Keys : j # key => disk'[j] = disk[j]
  BY DEF SyncIncoming, SyncDirectories, TypeOK
<1>4. Staged(slot[key], key)
  BY DEF SyncIncoming, PreparingInv
<1>T. TypeOK'
  BY <1>2 DEF SyncIncoming, TypeOK, PCs, Journals, Keys
<1>P. PcInv'
  BY DEF SyncIncoming, PcInv, PreparePCs, ApplyPCs, RollbackPCs
<1>S. ShapeInv'
  BY <1>1, <1>2, <1>3, <1>4 DEF SyncIncoming, ShapeInv, Shape, Original, Before,
     Staged, Reverted, Retired, Switched, Displaced, Paths, Orig
<1>A. PreparingInv'
  <2>1. journal = "preparing" /\ \A k \in Keys : Before(slot[k], k) /\ Before(disk[k], k)
    BY DEF SyncIncoming, PcInv, PreparePCs, PreparingInv
  <2>2. \A k \in Keys : k <= key => Staged(slot[k], k) /\ disk'[k] = slot[k]
    BY <1>1, <1>3, <1>4 DEF SyncIncoming, PreparingInv, PreparePCs, Synced, Keys
  <2>3. \A k \in Keys : Before(disk'[k], k)
    BY <1>3, <1>4, <2>1 DEF Before, Staged, Paths, Trees
  <2>4. CASE key < N
    BY <1>1, <2>1, <2>2, <2>3, <2>4
       DEF SyncIncoming, PreparingInv, PreparePCs, Synced, Keys, Before, Staged,
          Orig
  <2>5. CASE ~(key < N)
    BY <1>1, <2>1, <2>2, <2>3, <2>5
       DEF SyncIncoming, PreparingInv, PreparePCs, Synced, Keys, Before, Staged,
          Orig
  <2> QED
    BY <2>4, <2>5
<1>B. ApplyingInv'
  BY <1>1, <1>2, <1>3, <1>4 DEF SyncIncoming, ApplyingInv, PreparingInv, PcInv,
     PreparePCs, ApplyPCs, RollbackPCs, Keys, Synced, Shape, Original, Before, Staged, Reverted, Retired, Switched, Displaced, Paths, Orig, TypeOK
<1>C. RollingBackInv'
  BY <1>1, <1>2, <1>3, <1>4 DEF SyncIncoming, RollingBackInv, PcInv, PreparePCs,
     ApplyPCs, RollbackPCs, Keys, Shape, Original, Before, Staged, Reverted, Retired, Switched, Displaced, Paths, Orig, TypeOK
<1>D. RolledBackInv'
  BY <1>1, <1>2, <1>3, <1>4 DEF SyncIncoming, RolledBackInv, OneKindOfFault,
     RollingBackInv, PcInv, PreparePCs, ApplyPCs, RollbackPCs, Keys, Shape, Original, Before, Staged, Reverted, Retired, Switched, Displaced, Paths, Orig, TypeOK
<1>E. SyncedInv'
  BY <1>1, <1>2, <1>3, <1>4 DEF SyncIncoming, SyncedInv, Synced, UnsyncedPCs, Keys,
     TypeOK
<1> QED
  BY <1>T, <1>P, <1>S, <1>A, <1>B, <1>C, <1>D, <1>E

(* The retired tree is durable. *)
LEMMA SyncRetiredStep ==
  ASSUME IInv, SyncRetired, UNCHANGED faults
  PROVE  IInv'
<1> USE NAssumption DEF IInv
<1>1. UNCHANGED <<existed, slot>> /\ key \in Keys
  BY DEF SyncRetired, TypeOK
<1>2. disk' \in [Keys -> [Slots -> Trees]]
  BY <1>1 DEF SyncRetired, SyncDirectories, TypeOK
<1>3. disk'[key] = slot[key] /\ \A j \in Keys : j # key => disk'[j] = disk[j]
  BY <1>1 DEF SyncRetired, SyncDirectories, TypeOK
<1>4. Retired(slot[key], key)
  BY DEF SyncRetired, ApplyingInv
<1>T. TypeOK'
  BY <1>1, <1>2, <1>3, <1>4 DEF SyncRetired, TypeOK, PCs, Journals, Keys
<1>P. PcInv'
  BY <1>1, <1>2, <1>3, <1>4 DEF SyncRetired, PcInv, PreparePCs, ApplyPCs,
     RollbackPCs
<1>S. ShapeInv'
  BY <1>1, <1>2, <1>3, <1>4 DEF SyncRetired, ShapeInv, Shape, Original, Before,
     Staged, Reverted, Retired, Switched, Displaced, Paths, Orig
<1>A. PreparingInv'
  BY <1>1, <1>2, <1>3, <1>4 DEF SyncRetired, PreparingInv, PcInv, PreparePCs,
     ApplyPCs, RollbackPCs, Keys, Synced, Shape, Original, Before, Staged, Reverted, Retired, Switched, Displaced, Paths, Orig, TypeOK
<1>B. ApplyingInv'
  BY <1>1, <1>2, <1>3, <1>4 DEF SyncRetired, ApplyingInv, PreparingInv, PcInv,
     PreparePCs, ApplyPCs, RollbackPCs, Keys, Synced, Shape, Original, Before, Staged, Reverted, Retired, Switched, Displaced, Paths, Orig, TypeOK
<1>C. RollingBackInv'
  BY <1>1, <1>2, <1>3, <1>4 DEF SyncRetired, RollingBackInv, PcInv, PreparePCs,
     ApplyPCs, RollbackPCs, Keys, Shape, Original, Before, Staged, Reverted, Retired, Switched, Displaced, Paths, Orig, TypeOK
<1>D. RolledBackInv'
  BY <1>1, <1>2, <1>3, <1>4 DEF SyncRetired, RolledBackInv, OneKindOfFault,
     RollingBackInv, PcInv, PreparePCs, ApplyPCs, RollbackPCs, Keys, Shape, Original, Before, Staged, Reverted, Retired, Switched, Displaced, Paths, Orig, TypeOK
<1>E. SyncedInv'
  BY <1>1, <1>2, <1>3, <1>4 DEF SyncRetired, SyncedInv, Synced, UnsyncedPCs, Keys,
     TypeOK
<1> QED
  BY <1>T, <1>P, <1>S, <1>A, <1>B, <1>C, <1>D, <1>E

(* The installed tree is durable; the last one completes the switch. *)
LEMMA SyncInstalledStep ==
  ASSUME IInv, SyncInstalled, UNCHANGED faults
  PROVE  IInv'
<1> USE NAssumption DEF IInv
<1>1. UNCHANGED <<existed, slot>> /\ key \in Keys
  BY DEF SyncInstalled, TypeOK
<1>2. disk' \in [Keys -> [Slots -> Trees]]
  BY <1>1 DEF SyncInstalled, SyncDirectories, TypeOK
<1>3. disk'[key] = slot[key] /\ \A j \in Keys : j # key => disk'[j] = disk[j]
  BY <1>1 DEF SyncInstalled, SyncDirectories, TypeOK
<1>4. Switched(slot[key], key)
  BY DEF SyncInstalled, ApplyingInv
<1>T. TypeOK'
  BY <1>1, <1>2, <1>3, <1>4 DEF SyncInstalled, TypeOK, PCs, Journals, Keys
<1>P. PcInv'
  BY <1>1, <1>2, <1>3, <1>4 DEF SyncInstalled, PcInv, PreparePCs, ApplyPCs,
     RollbackPCs
<1>S. ShapeInv'
  BY <1>1, <1>2, <1>3, <1>4 DEF SyncInstalled, ShapeInv, Shape, Original, Before,
     Staged, Reverted, Retired, Switched, Displaced, Paths, Orig
<1>A. PreparingInv'
  BY <1>1, <1>2, <1>3, <1>4 DEF SyncInstalled, PreparingInv, PcInv, PreparePCs,
     ApplyPCs, RollbackPCs, Keys, Synced, Shape, Original, Before, Staged, Reverted, Retired, Switched, Displaced, Paths, Orig, TypeOK
<1>B. ApplyingInv'
  BY <1>1, <1>2, <1>3, <1>4 DEF SyncInstalled, ApplyingInv, PreparingInv, PcInv,
     PreparePCs, ApplyPCs, RollbackPCs, Keys, Synced, Shape, Original, Before, Staged, Reverted, Retired, Switched, Displaced, Paths, Orig, TypeOK
<1>C. RollingBackInv'
  BY <1>1, <1>2, <1>3, <1>4 DEF SyncInstalled, RollingBackInv, PcInv, PreparePCs,
     ApplyPCs, RollbackPCs, Keys, Shape, Original, Before, Staged, Reverted, Retired, Switched, Displaced, Paths, Orig, TypeOK
<1>D. RolledBackInv'
  BY <1>1, <1>2, <1>3, <1>4 DEF SyncInstalled, RolledBackInv, OneKindOfFault,
     RollingBackInv, PcInv, PreparePCs, ApplyPCs, RollbackPCs, Keys, Shape, Original, Before, Staged, Reverted, Retired, Switched, Displaced, Paths, Orig, TypeOK
<1>E. SyncedInv'
  BY <1>1, <1>2, <1>3, <1>4 DEF SyncInstalled, SyncedInv, Synced, UnsyncedPCs,
     Keys, TypeOK
<1> QED
  BY <1>T, <1>P, <1>S, <1>A, <1>B, <1>C, <1>D, <1>E

(* The rejected tree is durable. *)
LEMMA SyncRejectedStep ==
  ASSUME IInv, SyncRejected, UNCHANGED faults
  PROVE  IInv'
<1> USE NAssumption DEF IInv
<1>1. UNCHANGED <<existed, slot>> /\ key \in Keys
  BY DEF SyncRejected, TypeOK
<1>2. disk' \in [Keys -> [Slots -> Trees]]
  BY <1>1 DEF SyncRejected, SyncDirectories, TypeOK
<1>3. disk'[key] = slot[key] /\ \A j \in Keys : j # key => disk'[j] = disk[j]
  BY <1>1 DEF SyncRejected, SyncDirectories, TypeOK
<1>4. Displaced(slot[key], key) \/ (~existed[key] /\ Reverted(slot[key], key))
  BY DEF SyncRejected, RollingBackInv
<1>T. TypeOK'
  BY <1>1, <1>2, <1>3, <1>4 DEF SyncRejected, NextRollbackKey, Exists, TypeOK, PCs,
     Journals, Keys
<1>P. PcInv'
  BY <1>1, <1>2, <1>3, <1>4 DEF SyncRejected, NextRollbackKey, Exists, PcInv,
     PreparePCs, ApplyPCs, RollbackPCs
<1>S. ShapeInv'
  BY <1>1, <1>2, <1>3, <1>4 DEF SyncRejected, NextRollbackKey, Exists, ShapeInv,
     Shape, Original, Before, Staged, Reverted, Retired, Switched, Displaced, Paths, Orig
<1>A. PreparingInv'
  BY <1>1, <1>2, <1>3, <1>4 DEF SyncRejected, NextRollbackKey, Exists,
     PreparingInv, PcInv, PreparePCs, ApplyPCs, RollbackPCs, Keys, Synced, Shape, Original, Before, Staged, Reverted, Retired, Switched, Displaced, Paths, Orig, TypeOK
<1>B. ApplyingInv'
  BY <1>1, <1>2, <1>3, <1>4 DEF SyncRejected, NextRollbackKey, Exists, ApplyingInv,
     PreparingInv, PcInv, PreparePCs, ApplyPCs, RollbackPCs, Keys, Synced, Shape, Original, Before, Staged, Reverted, Retired, Switched, Displaced, Paths, Orig, TypeOK
<1>C. RollingBackInv'
  BY <1>1, <1>2, <1>3, <1>4 DEF SyncRejected, NextRollbackKey, Exists,
     RollingBackInv, PcInv, PreparePCs, ApplyPCs, RollbackPCs, Keys, Shape, Original, Before, Staged, Reverted, Retired, Switched, Displaced, Paths, Orig, TypeOK
<1>D. RolledBackInv'
  BY <1>1, <1>2, <1>3, <1>4 DEF SyncRejected, NextRollbackKey, Exists,
     RolledBackInv, OneKindOfFault, RollingBackInv, PcInv, PreparePCs, ApplyPCs, RollbackPCs, Keys, Shape, Original, Before, Staged, Reverted, Retired, Switched, Displaced, Paths, Orig, TypeOK
<1>E. SyncedInv'
  BY <1>1, <1>2, <1>3, <1>4 DEF SyncRejected, NextRollbackKey, Exists, SyncedInv,
     Synced, UnsyncedPCs, Keys, TypeOK
<1> QED
  BY <1>T, <1>P, <1>S, <1>A, <1>B, <1>C, <1>D, <1>E

(* The reinstated tree is durable. *)
LEMMA SyncReinstatedStep ==
  ASSUME IInv, SyncReinstated, UNCHANGED faults
  PROVE  IInv'
<1> USE NAssumption DEF IInv
<1>1. UNCHANGED <<existed, slot>> /\ key \in Keys
  BY DEF SyncReinstated, TypeOK
<1>2. disk' \in [Keys -> [Slots -> Trees]]
  BY <1>1 DEF SyncReinstated, SyncDirectories, TypeOK
<1>3. disk'[key] = slot[key] /\ \A j \in Keys : j # key => disk'[j] = disk[j]
  BY <1>1 DEF SyncReinstated, SyncDirectories, TypeOK
<1>4. Original(slot[key], key)
  BY DEF SyncReinstated, RollingBackInv
<1>T. TypeOK'
  BY <1>1, <1>2, <1>3, <1>4 DEF SyncReinstated, NextRollbackKey, Exists, TypeOK,
     PCs, Journals, Keys
<1>P. PcInv'
  BY <1>1, <1>2, <1>3, <1>4 DEF SyncReinstated, NextRollbackKey, Exists, PcInv,
     PreparePCs, ApplyPCs, RollbackPCs
<1>S. ShapeInv'
  BY <1>1, <1>2, <1>3, <1>4 DEF SyncReinstated, NextRollbackKey, Exists, ShapeInv,
     Shape, Original, Before, Staged, Reverted, Retired, Switched, Displaced, Paths, Orig
<1>A. PreparingInv'
  BY <1>1, <1>2, <1>3, <1>4 DEF SyncReinstated, NextRollbackKey, Exists,
     PreparingInv, PcInv, PreparePCs, ApplyPCs, RollbackPCs, Keys, Synced, Shape, Original, Before, Staged, Reverted, Retired, Switched, Displaced, Paths, Orig, TypeOK
<1>B. ApplyingInv'
  BY <1>1, <1>2, <1>3, <1>4 DEF SyncReinstated, NextRollbackKey, Exists,
     ApplyingInv, PreparingInv, PcInv, PreparePCs, ApplyPCs, RollbackPCs, Keys, Synced, Shape, Original, Before, Staged, Reverted, Retired, Switched, Displaced, Paths, Orig, TypeOK
<1>C. RollingBackInv'
  BY <1>1, <1>2, <1>3, <1>4 DEF SyncReinstated, NextRollbackKey, Exists,
     RollingBackInv, PcInv, PreparePCs, ApplyPCs, RollbackPCs, Keys, Shape, Original, Before, Staged, Reverted, Retired, Switched, Displaced, Paths, Orig, TypeOK
<1>D. RolledBackInv'
  BY <1>1, <1>2, <1>3, <1>4 DEF SyncReinstated, NextRollbackKey, Exists,
     RolledBackInv, OneKindOfFault, RollingBackInv, PcInv, PreparePCs, ApplyPCs, RollbackPCs, Keys, Shape, Original, Before, Staged, Reverted, Retired, Switched, Displaced, Paths, Orig, TypeOK
<1>E. SyncedInv'
  BY <1>1, <1>2, <1>3, <1>4 DEF SyncReinstated, NextRollbackKey, Exists, SyncedInv,
     Synced, UnsyncedPCs, Keys, TypeOK
<1> QED
  BY <1>T, <1>P, <1>S, <1>A, <1>B, <1>C, <1>D, <1>E

(* A power loss keeps or loses each unsynced change. *)
LEMMA PowerLossStep ==
  ASSUME IInv, PowerLoss, UNCHANGED faults
  PROVE  IInv'
<1> USE NAssumption DEF IInv
<1>1. UNCHANGED <<journal, existed, key>> /\ pc' = "idle" /\ disk' = slot'
  BY DEF PowerLoss
<1>2. slot' \in [Keys -> [Slots -> Trees]]
  BY DEF PowerLoss, TypeOK
<1>3. \A k \in Keys : slot'[k] = slot[k] \/ slot'[k] = disk[k]
  BY DEF PowerLoss
<1>4. (OneKindOfFault /\ journal = "rolled-back") =>
        \A k \in Keys : slot'[k] = slot[k]
  <2> SUFFICES ASSUME OneKindOfFault, journal = "rolled-back", NEW k \in Keys
               PROVE  disk[k] = slot[k]
    BY <1>3
  <2>1. pc \notin UnsyncedPCs
    BY DEF PcInv, UnsyncedPCs, PreparePCs, ApplyPCs, RollbackPCs
  <2>2. "kill" \notin faults
    BY DEF PowerLoss, OneKindOfFault
  <2> QED
    BY <2>1, <2>2 DEF SyncedInv, Synced
<1>5. journal = "ready" => \A k \in Keys : slot'[k] = slot[k]
  BY <1>3 DEF PreparingInv, Synced
<1>T. TypeOK'
  BY <1>1, <1>2, <1>3, <1>4 DEF TypeOK, PCs, Journals
<1>P. PcInv'
  BY <1>1, <1>2, <1>3, <1>4 DEF PcInv, PreparePCs, ApplyPCs, RollbackPCs
<1>S. ShapeInv'
  BY <1>1, <1>2, <1>3, <1>4 DEF ShapeInv, Shape, Original, Before, Staged,
     Reverted, Retired, Switched, Displaced, Paths, Orig
<1>A. PreparingInv'
  <2>1. (journal \in {"none", "preparing"})' =>
          \A k \in Keys : Before(slot'[k], k) /\ Before(disk'[k], k)
    BY <1>1, <1>2, <1>3 DEF PreparingInv
  <2>2. (journal = "ready")' => \A k \in Keys : Staged(slot'[k], k) /\ Synced(k)'
    BY <1>1, <1>2, <1>5 DEF PreparingInv, Synced
  <2> QED
    BY <1>1, <2>1, <2>2 DEF PreparingInv, PreparePCs, Before, Staged, Orig
<1>B. ApplyingInv'
  BY <1>1, <1>2, <1>3, <1>4 DEF ApplyingInv, PreparingInv, PcInv, PreparePCs,
     ApplyPCs, RollbackPCs, Keys, Synced, Shape, Original, Before, Staged, Reverted, Retired, Switched, Displaced, Paths, Orig, TypeOK
<1>C. RollingBackInv'
  BY <1>1, <1>2, <1>3, <1>4 DEF RollingBackInv, PcInv, PreparePCs, ApplyPCs,
     RollbackPCs, Keys, Shape, Original, Before, Staged, Reverted, Retired, Switched, Displaced, Paths, Orig, TypeOK
<1>D. RolledBackInv'
  BY <1>1, <1>2, <1>4 DEF RolledBackInv, OneKindOfFault, Original, Before,
     Reverted, Orig
<1>E. SyncedInv'
  BY <1>1, <1>2, <1>3, <1>4 DEF SyncedInv, Synced, UnsyncedPCs, Keys, TypeOK
<1> QED
  BY <1>T, <1>P, <1>S, <1>A, <1>B, <1>C, <1>D, <1>E

-------------------------------------------------------------------------------
(* Every step preserves the invariant.                                     *)
LEMMA NextIInv == IInv /\ [Next]_vars => IInv'
<1>1. CASE UNCHANGED vars
  BY <1>1 DEF vars, transaction, IInv, TypeOK, PcInv, ShapeInv, PreparingInv,
     ApplyingInv,
       RollingBackInv, RolledBackInv, OneKindOfFault, SyncedInv, Synced, Shape,
          Original, Before,
       Staged, Retired, Switched, Displaced, Reverted, Orig
<1>2. ASSUME IInv, Next
      PROVE  IInv'
  BY <1>2, PrepareStep, ApplyStep, RollbackStep, CommitStep, KillStep,
     PowerLossStep, StageIncomingStep, CopyOwnedStep, SyncIncomingStep,
     RetirePreviousStep, SyncRetiredStep, InstallIncomingStep,
     SyncInstalledStep, RejectTargetStep, SyncRejectedStep,
     ReinstatePreviousStep, SyncReinstatedStep, SkipTargetStep
     DEF Next, Call, MethodStep
<1> QED
  BY <1>1, <1>2

(* The invariant holds in every behaviour of the transaction. *)
LEMMA SpecIInv == Spec => []IInv
  BY InitIInv, NextIInv, PTL DEF Spec

(* The variables keep the values the code can write, under any faults.     *)
THEOREM SpecTypeOK == Spec => []TypeOK
<1>1. IInv => TypeOK
  BY DEF IInv
<1> QED
  BY <1>1, SpecIInv, PTL

(* No call, fault or rerun overwrites an original tree, under any faults.  *)
THEOREM SpecOldTreeRetained == Spec => []OldTreeRetained
<1>1. IInv => OldTreeRetained
  BY DEF IInv, ShapeInv, OldTreeRetained, Shape, Original, Before, Reverted,
       Retired, Switched, Displaced, Paths, Orig, Slots
<1> QED
  BY <1>1, SpecIInv, PTL

(* Installed and committed stand over new trees, and rolled-back over the   *)
(* originals as long as kills and power losses do not mix, for every number *)
(* of targets.                                                              *)
THEOREM SpecWholeGeneration == Spec => []WholeGeneration
<1>1. IInv => WholeGeneration
  BY DEF IInv, ApplyingInv, RolledBackInv, WholeGeneration, Switched, Original,
         Before, Reverted, Paths
<1> QED
  BY <1>1, SpecIInv, PTL

(* A target never exposes an incomplete copy, under any faults.            *)
THEOREM SpecTargetIsWhole == Spec => []TargetIsWhole
<1>1. IInv => TargetIsWhole
  BY DEF IInv, ShapeInv, TargetIsWhole, Shape, Original, Before, Reverted,
       Retired, Switched, Displaced, Paths, Orig
<1> QED
  BY <1>1, SpecIInv, PTL

(* Between power losses only, a resting record has nothing left to sync.   *)
THEOREM SpecRestIsDurable == Spec => []RestIsDurable
<1>1. IInv => RestIsDurable
  <2> SUFFICES ASSUME IInv, "kill" \notin faults,
                      journal \in {"ready", "installed", "committed", "rolled-back"}
               PROVE  disk = slot
    BY DEF RestIsDurable
  <2>1. pc \notin UnsyncedPCs
    BY DEF IInv, PcInv, UnsyncedPCs, PreparePCs, ApplyPCs, RollbackPCs
  <2>2. \A k \in Keys : disk[k] = slot[k]
    BY <2>1 DEF IInv, SyncedInv, Synced
  <2> QED
    BY <2>2 DEF IInv, TypeOK
<1> QED
  BY <1>1, SpecIInv, PTL

-------------------------------------------------------------------------------
(* Refinement of AtomicSwitch *)

Decided == OneKindOfFault /\ journal \in {"committed", "rolled-back"}

(* An initial state is an initial state of the switch.                     *)
LEMMA InitSwitch == Init => Switch!SwitchInit
  BY DEF Init, Switch!SwitchInit, Empty, Orig, Slots, Trees

(* A decided transaction is left alone by every step.                      *)
LEMMA DecidedStays ==
  ASSUME IInv, Decided, Next
  PROVE  UNCHANGED <<journal, existed, faults>> /\ \A k \in Keys : slot'[k] = slot[k]
<1>1. journal \in {"committed", "rolled-back"} /\ pc = "idle"
  BY DEF Decided, IInv, TypeOK, PcInv, PCs, PreparePCs, ApplyPCs, RollbackPCs
<1>2. \A k \in Keys : disk[k] = slot[k] \/ "power" \notin faults
  BY <1>1 DEF Decided, IInv, SyncedInv, Synced, UnsyncedPCs, OneKindOfFault
<1>3. UNCHANGED faults
  BY DEF Next
<1>4. CASE PowerLoss
  BY <1>2, <1>3, <1>4 DEF PowerLoss
<1>5. CASE Call \/ MethodStep \/ Kill
  BY <1>1, <1>3, <1>5 DEF Call, Prepare, Apply, Rollback, Commit, Kill, MethodStep,
     StageIncoming, CopyOwned, SyncIncoming, RetirePrevious, SyncRetired,
     InstallIncoming, SyncInstalled, RejectTarget, SyncRejected,
     ReinstatePrevious, SyncReinstated, SkipTarget
<1> QED
  BY <1>4, <1>5 DEF Next

(* No step changes what the record says existed, or the kinds of fault.    *)
LEMMA ExistedUnchanged == Next => UNCHANGED <<existed, faults>>
  BY DEF Next, Call, Prepare, Apply, Rollback, Commit, Kill, PowerLoss,
     MethodStep, StageIncoming, CopyOwned, SyncIncoming, RetirePrevious,
     SyncRetired, InstallIncoming, SyncInstalled, RejectTarget, SyncRejected,
     ReinstatePrevious, SyncReinstated, SkipTarget

(* Only commit and the end of a rollback decide, and they move no tree.    *)
LEMMA DecidingStep ==
  ASSUME IInv, ~Decided, Next, Decided'
  PROVE  /\ UNCHANGED <<existed, slot, faults>>
         /\ journal \notin {"committed", "rolled-back"}
         /\ journal' = "committed" => journal = "installed"
<1>1. UNCHANGED <<existed, faults>>
  BY ExistedUnchanged
<1>2. OneKindOfFault
  BY <1>1 DEF Decided, OneKindOfFault
<1>3. journal \notin {"committed", "rolled-back"} /\ journal' \in {"committed", "rolled-back"}
  BY <1>2 DEF Decided
<1> QED
  BY <1>1, <1>3
     DEF Next, Call, Prepare, Apply, Rollback, Commit, Kill, PowerLoss,
         MethodStep, StageIncoming, CopyOwned, SyncIncoming, RetirePrevious,
         SyncRetired, InstallIncoming, SyncInstalled, RejectTarget, SyncRejected,
         ReinstatePrevious, SyncReinstated, SkipTarget, NextRollbackKey

(* Every step of the transaction is a step of the switch or a stutter.     *)
LEMMA StepSwitch ==
  ASSUME IInv, [Next]_vars, IInv'
  PROVE  [Switch!SwitchNext]_(Switch!switchVars)
<1>1. CASE UNCHANGED vars
  BY <1>1 DEF vars, transaction, Switch!switchVars, Orig, OneKindOfFault
<1>2. CASE Next /\ Decided
  <2>1. UNCHANGED <<journal, existed, faults>> /\ \A k \in Keys : slot'[k] = slot[k]
    BY <1>2, DecidedStays
  <2> QED
    BY <2>1 DEF Switch!switchVars, Orig, OneKindOfFault
<1>3. CASE Next /\ ~Decided /\ Decided'
  <2>1. /\ UNCHANGED <<existed, slot, faults>>
        /\ journal \notin {"committed", "rolled-back"}
        /\ journal' = "committed" => journal = "installed"
    BY <1>3, DecidingStep
  <2>2. OneKindOfFault /\ OneKindOfFault'
    BY <1>3, <2>1 DEF Decided, OneKindOfFault
  <2>3. CASE journal' = "committed"
    <3>1. \A k \in Keys : slot[k]["target"] = "new"
      BY <2>1, <2>3 DEF IInv, ApplyingInv, Switched, Paths
    <3>2. Switch!Accept
      BY <2>1, <2>2, <2>3, <3>1 DEF Switch!Accept, Orig
    <3> QED
      BY <3>2 DEF Switch!SwitchNext
  <2>4. CASE journal' = "rolled-back"
    <3>1. \A k \in Keys : slot[k]["target"] = Orig(k)
      BY <2>1, <2>2, <2>4
         DEF IInv, RolledBackInv, Original, Before, Reverted, Paths, Orig
    <3>2. Switch!Restore
      BY <2>1, <2>2, <2>4, <3>1 DEF Switch!Restore, Orig
    <3> QED
      BY <3>2 DEF Switch!SwitchNext
  <2> QED
    BY <1>3, <2>3, <2>4 DEF Decided
<1>4. CASE Next /\ ~Decided /\ ~Decided'
  <2>1. UNCHANGED <<existed, faults>>
    BY <1>4, ExistedUnchanged
  <2>2. \A k \in Keys : /\ slot'[k]["target"] \in {Orig(k), "none", "new"}
                        /\ slot'[k]["target"] \in Trees
    BY <2>1, IInv' DEF IInv, ShapeInv, Shape, Original, Before, Reverted,
       Retired, Switched, Displaced, Paths, Orig, Trees
  <2>3. Switch!Exchange
    BY <1>4, <2>1, <2>2 DEF Switch!Exchange, Decided, Orig, OneKindOfFault
  <2> QED
    BY <2>3 DEF Switch!SwitchNext
<1> QED
  BY <1>1, <1>2, <1>3, <1>4

(* For every number of targets the journaled transaction implements the    *)
(* atomic switch its callers rely on.                                      *)
THEOREM SpecImplementsSwitch == Spec => ImplementsSwitch
<1>1. Init => Switch!SwitchInit
  BY InitSwitch
<1>2. IInv /\ IInv' /\ [Next]_vars => [Switch!SwitchNext]_(Switch!switchVars)
  BY StepSwitch
<1> QED
  BY <1>1, <1>2, SpecIInv, PTL DEF Spec, ImplementsSwitch, Switch!SwitchSpec
===============================================================================
