---------------------------- MODULE Imports_proofs ----------------------------
(***************************************************************************)
(* Proofs about Imports, for any students, files, confirmations and jobs.  *)
(*                                                                         *)
(* A student is imported once because the mappings are never taken back    *)
(* and an insert waits for the open transactions that hold the same key    *)
(* (Held).  What a session counts is accounted for because the counter of  *)
(* a confirmation runs ahead of its rows only by what a rollback undid     *)
(* (Reported).  A session in progress has a confirmation that is not yet   *)
(* done, or a job (InProgress).                                            *)
(***************************************************************************)
EXTENDS Imports, TLAPS

(* Rows of open transactions are new, and no two have the same.            *)
Held ==
  /\ \A x \in Students : users[x] = IF x \in mapped THEN 1 ELSE 0
  /\ \A c \in Confirms :
       /\ inserted[c] \intersect mapped = {}
       /\ broken[c] => inserted[c] = {}
       /\ \A d \in Confirms : c # d => inserted[c] \intersect inserted[d] = {}

Reported ==
  /\ \A c \in Confirms :
       /\ imported[c] \subseteq inserted[c] \union rolledBack
       /\ step[c] \notin {"inserting", "reported"} => inserted[c] = {}
  /\ CountedStoredOrUndone

InProgress ==
  \A s \in Sessions :
    state[s] \in {"confirmed", "processing"} =>
      \/ s \in gaveUp
      \/ \E c \in Confirms :
           target[c] = s /\ step[c] \in {"saved", "queued", "inserting"}
      \/ \E j \in Jobs : jobOf[j] = s /\ job[j] # "free"

USE NoneIsNoSession, FileOfStudents

-----------------------------------------------------------------------------
(* Types.                                                                  *)

LEMMA ImportTypeStep == ImportTypeOK /\ [ImportNext]_importVars => ImportTypeOK'
<1> SUFFICES ASSUME ImportTypeOK, [ImportNext]_importVars
             PROVE  ImportTypeOK'
  OBVIOUS
<1> USE DEF ImportTypeOK, States, Steps
<1>1. ASSUME NEW s \in Sessions, NEW big \in BOOLEAN, Upload(s, big)
      PROVE  ImportTypeOK'
  BY <1>1 DEF Upload, storeVars, confirmVars, jobVars, tableVars
<1>2. ASSUME NEW s \in Sessions, Forget(s) PROVE ImportTypeOK'
  BY <1>2 DEF Forget, Save, storeVars, confirmVars, jobVars, tableVars
<1>3. ASSUME NEW c \in Confirms, NEW s \in Sessions, CheckPreview(c, s)
      PROVE  ImportTypeOK'
  BY <1>3 DEF CheckPreview, Goto, storeVars, confirmVars, jobVars, tableVars
<1>4. ASSUME NEW c \in Confirms, SaveConfirmed(c) PROVE ImportTypeOK'
  BY <1>4 DEF SaveConfirmed, Save, Goto, storeVars, confirmVars, jobVars,
              tableVars
<1>5. ASSUME NEW c \in Confirms, NEW j \in Jobs, EnqueueJob(c, j)
      PROVE  ImportTypeOK'
  BY <1>5 DEF EnqueueJob, Goto, storeVars, confirmVars, jobVars, tableVars
<1>6. ASSUME NEW c \in Confirms, SaveProcessing(c) PROVE ImportTypeOK'
  BY <1>6 DEF SaveProcessing, Save, Leave, Goto, storeVars, confirmVars,
              jobVars, tableVars
<1>7. ASSUME NEW c \in Confirms, NEW x \in Students, Provision(c, x)
      PROVE  ImportTypeOK'
  BY <1>7 DEF Provision, KeyHeld, storeVars, confirmVars, jobVars, tableVars
<1>8. ASSUME NEW c \in Confirms, NEW x \in Students, MappingFails(c, x)
      PROVE  ImportTypeOK'
  BY <1>8 DEF MappingFails, storeVars, confirmVars, jobVars, tableVars
<1>9. ASSUME NEW c \in Confirms, NEW x \in Students, Skip(c, x)
      PROVE  ImportTypeOK'
  BY <1>9 DEF Skip, Break, storeVars, confirmVars, jobVars, tableVars
<1>10. ASSUME NEW c \in Confirms, CancelConfirm(c) PROVE ImportTypeOK'
  BY <1>10 DEF CancelConfirm, Break, storeVars, confirmVars, jobVars,
               tableVars
<1>11. ASSUME NEW c \in Confirms, SaveCompleted(c) PROVE ImportTypeOK'
  BY <1>11 DEF SaveCompleted, Save, Goto, storeVars, confirmVars, jobVars,
               tableVars
<1>12. ASSUME NEW c \in Confirms, CommitImport(c) PROVE ImportTypeOK'
  BY <1>12 DEF CommitImport, Leave, Goto, storeVars, confirmVars, jobVars,
               tableVars
<1>13. ASSUME NEW c \in Confirms, ConfirmFails(c) PROVE ImportTypeOK'
  BY <1>13 DEF ConfirmFails, Leave, Goto, storeVars, confirmVars, jobVars,
               tableVars
<1>14. ASSUME NEW j \in Jobs, WorkerReads(j) PROVE ImportTypeOK'
  BY <1>14 DEF WorkerReads, storeVars, confirmVars, jobVars, tableVars
<1>15. ASSUME NEW j \in Jobs, WorkerSaves(j) PROVE ImportTypeOK'
  BY <1>15 DEF WorkerSaves, Save, EndJob, storeVars, confirmVars, jobVars,
               tableVars
<1>16. ASSUME NEW j \in Jobs, WorkerFails(j) PROVE ImportTypeOK'
  BY <1>16 DEF WorkerFails, EndJob, storeVars, confirmVars, jobVars, tableVars
<1>17. ASSUME NEW j \in Jobs, WorkerDies(j) PROVE ImportTypeOK'
  BY <1>17 DEF WorkerDies, storeVars, confirmVars, jobVars, tableVars
<1>18. ASSUME NEW x \in Students, ChangeAddress(x) PROVE ImportTypeOK'
  BY <1>18 DEF ChangeAddress, storeVars, confirmVars, jobVars, tableVars
<1>19. CASE UNCHANGED importVars
  BY <1>19 DEF importVars, storeVars, confirmVars, jobVars, tableVars
<1> QED
  BY <1>1, <1>2, <1>3, <1>4, <1>5, <1>6, <1>7, <1>8, <1>9, <1>10, <1>11,
     <1>12, <1>13, <1>14, <1>15, <1>16, <1>17, <1>18, <1>19 DEF ImportNext,
                                                                Confirm, Work

LEMMA ImportTypeInit == ImportInit => ImportTypeOK
  BY DEF ImportInit, ImportTypeOK, States, Steps

(* Every variable keeps its type, and a confirmation under way has a       *)
(* session (interop/handler.go:206-338).                                   *)
THEOREM ImportTypeCorrect == ImportSpec => []ImportTypeOK
  BY ImportTypeInit, ImportTypeStep, PTL DEF ImportSpec

-----------------------------------------------------------------------------
(* Every student once.                                                     *)

HeldInv == ImportTypeOK /\ Held

LEMMA HeldStep == HeldInv /\ [ImportNext]_importVars => Held'
<1> SUFFICES ASSUME HeldInv, [ImportNext]_importVars
             PROVE  Held'
  OBVIOUS
<1> USE DEF HeldInv, ImportTypeOK, Held
<1>1. ASSUME NEW s \in Sessions, NEW big \in BOOLEAN, Upload(s, big)
      PROVE  Held'
  BY <1>1 DEF Upload, storeVars, confirmVars, jobVars, tableVars
<1>2. ASSUME NEW s \in Sessions, Forget(s) PROVE Held'
  BY <1>2 DEF Forget, Save, storeVars, confirmVars, jobVars, tableVars
<1>3. ASSUME NEW c \in Confirms, NEW s \in Sessions, CheckPreview(c, s)
      PROVE  Held'
  BY <1>3 DEF CheckPreview, Goto, storeVars, confirmVars, jobVars, tableVars
<1>4. ASSUME NEW c \in Confirms, SaveConfirmed(c) PROVE Held'
  BY <1>4 DEF SaveConfirmed, Save, Goto, storeVars, confirmVars, jobVars,
              tableVars
<1>5. ASSUME NEW c \in Confirms, NEW j \in Jobs, EnqueueJob(c, j) PROVE Held'
  BY <1>5 DEF EnqueueJob, Goto, storeVars, confirmVars, jobVars, tableVars
<1>6. ASSUME NEW c \in Confirms, SaveProcessing(c) PROVE Held'
  BY <1>6 DEF SaveProcessing, Save, Leave, Goto, storeVars, confirmVars,
              jobVars, tableVars
<1>7. ASSUME NEW c \in Confirms, NEW x \in Students, Provision(c, x)
      PROVE  Held'
  BY <1>7 DEF Provision, KeyHeld, storeVars, confirmVars, jobVars, tableVars
<1>8. ASSUME NEW c \in Confirms, NEW x \in Students, MappingFails(c, x)
      PROVE  Held'
  BY <1>8 DEF MappingFails, storeVars, confirmVars, jobVars, tableVars
<1>9. ASSUME NEW c \in Confirms, NEW x \in Students, Skip(c, x) PROVE Held'
  BY <1>9 DEF Skip, Break, storeVars, confirmVars, jobVars, tableVars
<1>10. ASSUME NEW c \in Confirms, CancelConfirm(c) PROVE Held'
  BY <1>10 DEF CancelConfirm, Break, storeVars, confirmVars, jobVars,
               tableVars
<1>11. ASSUME NEW c \in Confirms, SaveCompleted(c) PROVE Held'
  BY <1>11 DEF SaveCompleted, Save, Goto, storeVars, confirmVars, jobVars,
               tableVars
<1>12. ASSUME NEW c \in Confirms, CommitImport(c) PROVE Held'
  BY <1>12 DEF CommitImport, Leave, Goto, storeVars, confirmVars, jobVars,
               tableVars
<1>13. ASSUME NEW c \in Confirms, ConfirmFails(c) PROVE Held'
  BY <1>13 DEF ConfirmFails, Leave, Goto, storeVars, confirmVars, jobVars,
               tableVars
<1>14. ASSUME NEW j \in Jobs, WorkerReads(j) PROVE Held'
  BY <1>14 DEF WorkerReads, storeVars, confirmVars, jobVars, tableVars
<1>15. ASSUME NEW j \in Jobs, WorkerSaves(j) PROVE Held'
  BY <1>15 DEF WorkerSaves, Save, EndJob, storeVars, confirmVars, jobVars,
               tableVars
<1>16. ASSUME NEW j \in Jobs, WorkerFails(j) PROVE Held'
  BY <1>16 DEF WorkerFails, EndJob, storeVars, confirmVars, jobVars, tableVars
<1>17. ASSUME NEW j \in Jobs, WorkerDies(j) PROVE Held'
  BY <1>17 DEF WorkerDies, storeVars, confirmVars, jobVars, tableVars
<1>18. ASSUME NEW x \in Students, ChangeAddress(x) PROVE Held'
  BY <1>18 DEF ChangeAddress, storeVars, confirmVars, jobVars, tableVars
<1>19. CASE UNCHANGED importVars
  BY <1>19 DEF importVars, storeVars, confirmVars, jobVars, tableVars
<1> QED
  BY <1>1, <1>2, <1>3, <1>4, <1>5, <1>6, <1>7, <1>8, <1>9, <1>10, <1>11,
     <1>12, <1>13, <1>14, <1>15, <1>16, <1>17, <1>18, <1>19 DEF ImportNext,
                                                                Confirm, Work

LEMMA HeldInvariant == ImportSpec => []HeldInv
<1>1. ImportInit => HeldInv
  BY ImportTypeInit DEF ImportInit, HeldInv, Held
<1>2. HeldInv /\ [ImportNext]_importVars => HeldInv'
  BY ImportTypeStep, HeldStep DEF HeldInv
<1> QED
  BY <1>1, <1>2, PTL DEF ImportSpec

(* A student of the register becomes one user, whatever is uploaded again, *)
(* confirmed twice, or failed half way (interop/handler.go:241, 286, 304). *)
THEOREM ImportedOnce == ImportSpec => []StudentImportedOnce
<1>1. HeldInv => StudentImportedOnce
  BY DEF HeldInv, Held, StudentImportedOnce
<1> QED
  BY <1>1, HeldInvariant, PTL

-----------------------------------------------------------------------------
(* What is counted.                                                        *)

ReportedInv == ImportTypeOK /\ Held /\ Reported

LEMMA ReportedStep == ReportedInv /\ [ImportNext]_importVars => Reported'
<1> SUFFICES ASSUME ReportedInv, [ImportNext]_importVars
             PROVE  Reported'
  OBVIOUS
<1> USE DEF ReportedInv, ImportTypeOK, Held, Reported, CountedStoredOrUndone
<1>1. ASSUME NEW s \in Sessions, NEW big \in BOOLEAN, Upload(s, big)
      PROVE  Reported'
  BY <1>1 DEF Upload, storeVars, confirmVars, jobVars, tableVars
<1>2. ASSUME NEW s \in Sessions, Forget(s) PROVE Reported'
  BY <1>2 DEF Forget, Save, storeVars, confirmVars, jobVars, tableVars
<1>3. ASSUME NEW c \in Confirms, NEW s \in Sessions, CheckPreview(c, s)
      PROVE  Reported'
  BY <1>3 DEF CheckPreview, Goto, storeVars, confirmVars, jobVars, tableVars
<1>4. ASSUME NEW c \in Confirms, SaveConfirmed(c) PROVE Reported'
  BY <1>4 DEF SaveConfirmed, Save, Goto, storeVars, confirmVars, jobVars,
              tableVars
<1>5. ASSUME NEW c \in Confirms, NEW j \in Jobs, EnqueueJob(c, j)
      PROVE  Reported'
  BY <1>5 DEF EnqueueJob, Goto, storeVars, confirmVars, jobVars, tableVars
<1>6. ASSUME NEW c \in Confirms, SaveProcessing(c) PROVE Reported'
  BY <1>6 DEF SaveProcessing, Save, Leave, Goto, storeVars, confirmVars,
              jobVars, tableVars
<1>7. ASSUME NEW c \in Confirms, NEW x \in Students, Provision(c, x)
      PROVE  Reported'
  BY <1>7 DEF Provision, KeyHeld, storeVars, confirmVars, jobVars, tableVars
<1>8. ASSUME NEW c \in Confirms, NEW x \in Students, MappingFails(c, x)
      PROVE  Reported'
  BY <1>8 DEF MappingFails, storeVars, confirmVars, jobVars, tableVars
<1>9. ASSUME NEW c \in Confirms, NEW x \in Students, Skip(c, x)
      PROVE  Reported'
  BY <1>9 DEF Skip, Break, storeVars, confirmVars, jobVars, tableVars
<1>10. ASSUME NEW c \in Confirms, CancelConfirm(c) PROVE Reported'
  BY <1>10 DEF CancelConfirm, Break, storeVars, confirmVars, jobVars,
               tableVars
<1>11. ASSUME NEW c \in Confirms, SaveCompleted(c) PROVE Reported'
  BY <1>11 DEF SaveCompleted, Save, Goto, storeVars, confirmVars, jobVars,
               tableVars
<1>12. ASSUME NEW c \in Confirms, CommitImport(c) PROVE Reported'
  BY <1>12 DEF CommitImport, Leave, Goto, storeVars, confirmVars, jobVars,
               tableVars
<1>13. ASSUME NEW c \in Confirms, ConfirmFails(c) PROVE Reported'
  BY <1>13 DEF ConfirmFails, Leave, Goto, storeVars, confirmVars, jobVars,
               tableVars
<1>14. ASSUME NEW j \in Jobs, WorkerReads(j) PROVE Reported'
  BY <1>14 DEF WorkerReads, storeVars, confirmVars, jobVars, tableVars
<1>15. ASSUME NEW j \in Jobs, WorkerSaves(j) PROVE Reported'
  BY <1>15 DEF WorkerSaves, Save, EndJob, storeVars, confirmVars, jobVars,
               tableVars
<1>16. ASSUME NEW j \in Jobs, WorkerFails(j) PROVE Reported'
  BY <1>16 DEF WorkerFails, EndJob, storeVars, confirmVars, jobVars, tableVars
<1>17. ASSUME NEW j \in Jobs, WorkerDies(j) PROVE Reported'
  BY <1>17 DEF WorkerDies, storeVars, confirmVars, jobVars, tableVars
<1>18. ASSUME NEW x \in Students, ChangeAddress(x) PROVE Reported'
  BY <1>18 DEF ChangeAddress, storeVars, confirmVars, jobVars, tableVars
<1>19. CASE UNCHANGED importVars
  BY <1>19 DEF importVars, storeVars, confirmVars, jobVars, tableVars
<1> QED
  BY <1>1, <1>2, <1>3, <1>4, <1>5, <1>6, <1>7, <1>8, <1>9, <1>10, <1>11,
     <1>12, <1>13, <1>14, <1>15, <1>16, <1>17, <1>18, <1>19 DEF ImportNext,
                                                                Confirm, Work

(* What a finished import counts is stored, still to commit, or undone by  *)
(* a rollback (interop/handler.go:316-324).                                *)
THEOREM CountedAccounted == ImportSpec => []CountedStoredOrUndone
<1>1. ImportInit => ReportedInv
  BY ImportTypeInit DEF ImportInit, ReportedInv, Held, Reported,
                        CountedStoredOrUndone
<1>2. ReportedInv /\ [ImportNext]_importVars => ReportedInv'
  BY ImportTypeStep, HeldStep, ReportedStep DEF ReportedInv, HeldInv
<1>3. ReportedInv => CountedStoredOrUndone
  BY DEF ReportedInv, Reported
<1> QED
  BY <1>1, <1>2, <1>3, PTL DEF ImportSpec

-----------------------------------------------------------------------------
(* Who is stuck.                                                           *)

ProgressInv == ImportTypeOK /\ InProgress

LEMMA ProgressStep == ProgressInv /\ [ImportNext]_importVars => InProgress'
<1> SUFFICES ASSUME ProgressInv, [ImportNext]_importVars
             PROVE  InProgress'
  OBVIOUS
<1> USE DEF ProgressInv, ImportTypeOK, InProgress
<1>1. ASSUME NEW s \in Sessions, NEW big \in BOOLEAN, Upload(s, big)
      PROVE  InProgress'
  BY <1>1 DEF Upload, storeVars, confirmVars, jobVars, tableVars
<1>2. ASSUME NEW s \in Sessions, Forget(s) PROVE InProgress'
  BY <1>2 DEF Forget, Save, storeVars, confirmVars, jobVars, tableVars
<1>3. ASSUME NEW c \in Confirms, NEW s \in Sessions, CheckPreview(c, s)
      PROVE  InProgress'
  BY <1>3 DEF CheckPreview, Goto, storeVars, confirmVars, jobVars, tableVars
<1>4. ASSUME NEW c \in Confirms, SaveConfirmed(c) PROVE InProgress'
  BY <1>4 DEF SaveConfirmed, Save, Goto, storeVars, confirmVars, jobVars,
              tableVars
<1>5. ASSUME NEW c \in Confirms, NEW j \in Jobs, EnqueueJob(c, j)
      PROVE  InProgress'
  BY <1>5 DEF EnqueueJob, Goto, storeVars, confirmVars, jobVars, tableVars
<1>6. ASSUME NEW c \in Confirms, SaveProcessing(c) PROVE InProgress'
  BY <1>6 DEF SaveProcessing, Save, Leave, Goto, storeVars, confirmVars,
              jobVars, tableVars
<1>7. ASSUME NEW c \in Confirms, NEW x \in Students, Provision(c, x)
      PROVE  InProgress'
  BY <1>7 DEF Provision, KeyHeld, storeVars, confirmVars, jobVars, tableVars
<1>8. ASSUME NEW c \in Confirms, NEW x \in Students, MappingFails(c, x)
      PROVE  InProgress'
  BY <1>8 DEF MappingFails, storeVars, confirmVars, jobVars, tableVars
<1>9. ASSUME NEW c \in Confirms, NEW x \in Students, Skip(c, x)
      PROVE  InProgress'
  BY <1>9 DEF Skip, Break, storeVars, confirmVars, jobVars, tableVars
<1>10. ASSUME NEW c \in Confirms, CancelConfirm(c) PROVE InProgress'
  BY <1>10 DEF CancelConfirm, Break, storeVars, confirmVars, jobVars,
               tableVars
<1>11. ASSUME NEW c \in Confirms, SaveCompleted(c) PROVE InProgress'
  BY <1>11 DEF SaveCompleted, Save, Goto, storeVars, confirmVars, jobVars,
               tableVars
<1>12. ASSUME NEW c \in Confirms, CommitImport(c) PROVE InProgress'
  BY <1>12 DEF CommitImport, Leave, Goto, storeVars, confirmVars, jobVars,
               tableVars
<1>13. ASSUME NEW c \in Confirms, ConfirmFails(c) PROVE InProgress'
  BY <1>13 DEF ConfirmFails, Leave, Goto, storeVars, confirmVars, jobVars,
               tableVars
<1>14. ASSUME NEW j \in Jobs, WorkerReads(j) PROVE InProgress'
  BY <1>14 DEF WorkerReads, storeVars, confirmVars, jobVars, tableVars
<1>15. ASSUME NEW j \in Jobs, WorkerSaves(j) PROVE InProgress'
  BY <1>15 DEF WorkerSaves, Save, EndJob, storeVars, confirmVars, jobVars,
               tableVars
<1>16. ASSUME NEW j \in Jobs, WorkerFails(j) PROVE InProgress'
  BY <1>16 DEF WorkerFails, EndJob, storeVars, confirmVars, jobVars, tableVars
<1>17. ASSUME NEW j \in Jobs, WorkerDies(j) PROVE InProgress'
  BY <1>17 DEF WorkerDies, storeVars, confirmVars, jobVars, tableVars
<1>18. ASSUME NEW x \in Students, ChangeAddress(x) PROVE InProgress'
  BY <1>18 DEF ChangeAddress, storeVars, confirmVars, jobVars, tableVars
<1>19. CASE UNCHANGED importVars
  BY <1>19 DEF importVars, storeVars, confirmVars, jobVars, tableVars
<1> QED
  BY <1>1, <1>2, <1>3, <1>4, <1>5, <1>6, <1>7, <1>8, <1>9, <1>10, <1>11,
     <1>12, <1>13, <1>14, <1>15, <1>16, <1>17, <1>18, <1>19 DEF ImportNext,
                                                                Confirm, Work

(* A session in progress that nobody works on has lost a write or was      *)
(* overtaken by its job (interop/handler.go:260-272,                       *)
(* session_store.go:80-97).                                                *)
THEOREM StuckExplained == ImportSpec => []StuckOnlyIfGaveUp
<1>1. ImportInit => ProgressInv
  BY ImportTypeInit DEF ImportInit, ProgressInv, InProgress
<1>2. ProgressInv /\ [ImportNext]_importVars => ProgressInv'
  BY ImportTypeStep, ProgressStep DEF ProgressInv
<1>3. ProgressInv => StuckOnlyIfGaveUp
  BY DEF ProgressInv, InProgress, StuckOnlyIfGaveUp
<1> QED
  BY <1>1, <1>2, <1>3, PTL DEF ImportSpec

=============================================================================
