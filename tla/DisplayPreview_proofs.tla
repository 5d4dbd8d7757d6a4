------------------------- MODULE DisplayPreview_proofs -------------------------
(***************************************************************************)
(* What DisplayPreview promises, for any number of previews, changes by    *)
(* others and faults.                                                      *)
(***************************************************************************)
EXTENDS DisplayPreview, TLAPS

(* The operation that holds the lock is at work on the phase it recorded;  *)
(* nobody else writes config.json while it does.                           *)
StepsInv ==
  /\ doing = "apply" => preview = "pending"
  /\ doing \in {"rollback-restart", "mark-rolled-back"} => preview = "rolling-back"
  /\ doing \in {"commit", "publish", "mark-confirmed"} => preview = "committing"
  /\ doing = "commit" => config = base
  /\ doing \in {"publish", "mark-confirmed"} => config = candidate

(* Only a commit puts the candidate into config.json, so a preview without *)
(* one, and whatever ends it, stands over another content.                 *)
CandidateInv ==
  /\ config <= candidate /\ shown <= candidate
  /\ preview \in {"pending", "rolling-back", "rolled-back"} => config # candidate

(* Once a rollback has asked for the restart, it is queued or has been.     *)
ScreenInv ==
  doing = "mark-rolled-back" => restart \/ shown # candidate

IInv == /\ PreviewTypeOK /\ StepsInv /\ CandidateInv /\ ScreenInv
        /\ EndedPreviewNotShown /\ DecisionMatchesConfig

USE PreviewBounds

-------------------------------------------------------------------------------
LEMMA InitInvariant == PreviewInit => IInv
<1> SUFFICES ASSUME PreviewInit
             PROVE  IInv
  OBVIOUS
<1>1. restart \in BOOLEAN
  BY Zenon DEF PreviewInit
<1> QED
  BY <1>1 DEF PreviewInit, IInv, PreviewTypeOK, Configurations, Open, StepsInv, CandidateInv, ScreenInv,
              EndedPreviewNotShown, DecisionMatchesConfig

(* The actions that only advance an operation.                              *)
LEMMA OperationInvariant ==
  ASSUME IInv, OperationStep
  PROVE  IInv'
<1> USE DEF IInv, PreviewTypeOK, Configurations, Open, previewRecord, StepsInv, CandidateInv, ScreenInv,
            EndedPreviewNotShown, DecisionMatchesConfig
<1>1. CASE RollbackRestart
  BY <1>1 DEF RollbackRestart
<1>2. CASE MarkPreviewRolledBack
  BY <1>2 DEF MarkPreviewRolledBack
<1>3. CASE ApplyCandidate
  BY <1>3 DEF ApplyCandidate
<1>4. CASE CommitCandidate
  BY <1>4 DEF CommitCandidate
<1>5. CASE Publish
  BY <1>5 DEF Publish
<1>6. CASE MarkPreviewConfirmed
  BY <1>6 DEF MarkPreviewConfirmed
<1> QED
  BY <1>1, <1>2, <1>3, <1>4, <1>5, <1>6 DEF OperationStep

(* The actions that begin an operation, each under the lock.                *)
LEMMA BeginInvariant ==
  ASSUME IInv, BeginPreview \/ Confirm \/ CancelPreview \/ Recover
  PROVE  IInv'
<1> USE DEF IInv, PreviewTypeOK, Configurations, Open, StepsInv, CandidateInv, ScreenInv,
            EndedPreviewNotShown, DecisionMatchesConfig
<1>1. CASE BeginPreview
  BY <1>1 DEF BeginPreview
<1>2. CASE Confirm
  BY <1>2 DEF Confirm, BeginRollback
<1>3. CASE CancelPreview
  BY <1>3 DEF CancelPreview, BeginRollback
<1>4. CASE Recover
  <2>1. CASE preview = "rolling-back" \/ (preview = "pending" /\ Expired)
    BY <1>4, <2>1 DEF Recover, BeginRollback
  <2>2. CASE preview = "committing" /\ config = candidate
    BY <1>4, <2>2 DEF Recover, BeginRollback
  <2>3. CASE preview = "committing" /\ config # candidate
    BY <1>4, <2>3 DEF Recover, BeginRollback
  <2>4. CASE /\ ~(preview = "rolling-back" \/ (preview = "pending" /\ Expired))
             /\ preview # "committing"
    BY <1>4, <2>4 DEF Recover, BeginRollback
  <2> QED
    BY <2>1, <2>2, <2>3, <2>4
<1> QED
  BY <1>1, <1>2, <1>3, <1>4

(* The graphics service, other writers, the clock and the faults.           *)
LEMMA EnvironmentInvariant ==
  ASSUME IInv, StartGraphics \/ Change \/ PreviewExpires \/ RestartFails \/ PreviewKilled \/ PreviewPowerLoss
  PROVE  IInv'
<1> USE DEF IInv, PreviewTypeOK, Configurations, Open, previewRecord, StepsInv, CandidateInv, ScreenInv,
            EndedPreviewNotShown, DecisionMatchesConfig
<1>1. CASE StartGraphics
  <2>1. restart' \in BOOLEAN
    BY <1>1, Zenon DEF StartGraphics
  <2>2. shown' \in {candidate, config} /\ (preview = "rolled-back" => shown' = config)
    BY <1>1 DEF StartGraphics, Effective
  <2>3. UNCHANGED <<config, routes, preview, candidate, base, expiry, doing, changes, previewFaults>> /\ doing = "idle"
    BY <1>1 DEF StartGraphics
  <2> QED
    BY <2>1, <2>2, <2>3
<1>2. CASE Change
  BY <1>2 DEF Change
<1>3. CASE PreviewExpires
  BY <1>3 DEF PreviewExpires
<1>4. CASE RestartFails
  BY <1>4 DEF RestartFails, PreviewFault, BeginRollback
<1>5. CASE PreviewKilled
  BY <1>5 DEF PreviewKilled, PreviewFault
<1>6. CASE PreviewPowerLoss
  BY <1>6 DEF PreviewPowerLoss, PreviewFault
<1> QED
  BY <1>1, <1>2, <1>3, <1>4, <1>5, <1>6

LEMMA NextInvariant ==
  ASSUME IInv, [PreviewNext]_previewVars
  PROVE  IInv'
<1>1. CASE UNCHANGED previewVars
  BY <1>1 DEF previewVars, previewRecord, IInv, PreviewTypeOK, StepsInv, CandidateInv, ScreenInv,
              EndedPreviewNotShown, DecisionMatchesConfig
<1> QED
  BY <1>1, OperationInvariant, BeginInvariant, EnvironmentInvariant DEF PreviewNext

LEMMA Invariance == PreviewSpec => []IInv
  BY InitInvariant, NextInvariant, PTL DEF PreviewSpec

-------------------------------------------------------------------------------
(* The record of a decided preview agrees with config.json, however the     *)
(* confirmation or the rollback was interrupted.                            *)
THEOREM SpecPreviewSound == PreviewSpec => []PreviewSound
<1>1. IInv => PreviewSound
  BY DEF IInv, PreviewSound
<1> QED
  BY <1>1, Invariance, PTL

(* A preview that was rolled back is off the screen, or about to be.        *)
THEOREM SpecEndedPreviewNotShown == PreviewSpec => []EndedPreviewNotShown
<1>1. IInv => EndedPreviewNotShown
  BY DEF IInv
<1> QED
  BY <1>1, Invariance, PTL

(* A confirmation only replaces the configuration that was previewed on.    *)
THEOREM SpecConcurrentChangeKept == PreviewSpec => ConcurrentChangeKept
<1>1. ASSUME IInv, [PreviewNext]_previewVars
      PROVE  [config' # config /\ changes' = changes
                => config = base /\ preview = "committing"]_previewVars
  <2>1. CASE CommitCandidate
    BY <1>1, <2>1 DEF CommitCandidate, IInv, StepsInv
  <2>2. CASE Change
    BY <1>1, <2>2 DEF Change, IInv, PreviewTypeOK
  <2>3. CASE UNCHANGED previewVars
    BY <2>3
  <2>4. CASE ~CommitCandidate /\ ~Change /\ PreviewNext
    BY <2>4 DEF PreviewNext, OperationStep, BeginPreview, Confirm, CancelPreview, Recover, RollbackRestart,
                MarkPreviewRolledBack, ApplyCandidate, Publish, MarkPreviewConfirmed, StartGraphics, PreviewExpires,
                RestartFails, PreviewKilled, PreviewPowerLoss
  <2> QED
    BY <1>1, <2>1, <2>2, <2>3, <2>4
<1> QED
  BY <1>1, Invariance, PTL DEF PreviewSpec, ConcurrentChangeKept
===============================================================================
