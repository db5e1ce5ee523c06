------------------------------- MODULE Imports -------------------------------
(***************************************************************************)
(* The import of a SIIIR file: upload and preview, confirmation, the       *)
(* background job for large files, the session in Redis                    *)
(* (api/internal/interop/handler.go, session_store.go,                     *)
(* api/internal/jobs/bulk_import.go).                                      *)
(*                                                                         *)
(* A confirmation runs in the one transaction of its request and reports   *)
(* to Redis before that transaction commits.  Students are inserted under  *)
(* two unique keys: users (school, email, role), with an address made from *)
(* the SIIIR id, and source_mappings (school, system, source id, type).    *)
(***************************************************************************)
EXTENDS Naturals, FiniteSets, NoValue

CONSTANTS
  Students,  \* SIIIR ids
  Sessions,  \* import ids, as many as are ever uploaded
  File,      \* [Sessions -> SUBSET Students]: what each upload holds
  Confirms,  \* requests to confirm at a time
  Jobs,      \* bulk import jobs at a time
  AsyncThreshold  \* 200 in the code

ASSUME NoneIsNoSession == None \notin Sessions
ASSUME FileOfStudents == File \in [Sessions -> (SUBSET Students) \ {{}}]

VARIABLES
  state,     \* [Sessions -> States]: Status of the session in Redis
  counted,   \* [Sessions -> SUBSET Students]: those its Imported counts
  large,     \* [Sessions -> BOOLEAN]: is for the background
  step,      \* [Confirms -> Steps], what the confirmation does next
  target,    \* [Confirms -> Sessions \union {None}]
  todo,      \* [Confirms -> SUBSET Students], not yet provisioned
  imported,  \* [Confirms -> SUBSET Students]: the local imported
  inserted,  \* [Confirms -> SUBSET Students], rows of its transaction
  broken,    \* [Confirms -> BOOLEAN]: the transaction is aborted
  job,       \* [Jobs -> {"free", "queued", "saving"}]
  jobOf,     \* [Jobs -> Sessions \union {None}]
  users,     \* [Students -> Nat], committed users rows with the SIIIR id
  addressed, \* students whose synthetic address is taken by a row
  mapped,    \* students with a row in source_mappings
  rolledBack,\* history: students a rollback took away
  gaveUp     \* history: sessions that lost a write or were overtaken

storeVars == <<state, counted, large>>
confirmVars == <<step, target, todo, imported, inserted, broken>>
jobVars == <<job, jobOf>>
tableVars == <<users, addressed, mapped>>
importVars ==
  <<storeVars, confirmVars, jobVars, tableVars, rolledBack, gaveUp>>

States ==
  {"none", "preview", "confirmed", "processing", "completed", "expired"}
Steps == {"idle", "checked", "saved", "queued", "inserting", "reported"}

ImportTypeOK ==
  /\ state \in [Sessions -> States]
  /\ counted \in [Sessions -> SUBSET Students]
  /\ large \in [Sessions -> BOOLEAN]
  /\ step \in [Confirms -> Steps]
  /\ target \in [Confirms -> Sessions \union {None}]
  /\ \A c \in Confirms : step[c] # "idle" => target[c] \in Sessions
  /\ todo \in [Confirms -> SUBSET Students]
  /\ imported \in [Confirms -> SUBSET Students]
  /\ inserted \in [Confirms -> SUBSET Students]
  /\ broken \in [Confirms -> BOOLEAN]
  /\ job \in [Jobs -> {"free", "queued", "saving"}]
  /\ jobOf \in [Jobs -> Sessions \union {None}]
  /\ \A j \in Jobs : job[j] # "free" => jobOf[j] \in Sessions
  /\ users \in [Students -> Nat]
  /\ addressed \in SUBSET Students
  /\ mapped \in SUBSET Students
  /\ rolledBack \in SUBSET Students
  /\ gaveUp \in SUBSET Sessions

ImportInit ==
  /\ state = [s \in Sessions |-> "none"]
  /\ counted = [s \in Sessions |-> {}]
  /\ large = [s \in Sessions |-> FALSE]
  /\ step = [c \in Confirms |-> "idle"]
  /\ target = [c \in Confirms |-> None]
  /\ todo = [c \in Confirms |-> {}]
  /\ imported = [c \in Confirms |-> {}]
  /\ inserted = [c \in Confirms |-> {}]
  /\ broken = [c \in Confirms |-> FALSE]
  /\ job = [j \in Jobs |-> "free"]
  /\ jobOf = [j \in Jobs |-> None]
  /\ users = [x \in Students |-> 0]
  /\ addressed = {} /\ mapped = {}
  /\ rolledBack = {} /\ gaveUp = {}

-----------------------------------------------------------------------------
(* The session store.  A Save writes the caller's whole copy.              *)

Save(s, st, n) ==
  /\ state' = [state EXCEPT ![s] = st]
  /\ counted' = [counted EXCEPT ![s] = n]
  /\ UNCHANGED large

(* Import: a file is parsed, a student twice in it is refused              *)
(* (MapStudent), the rest is kept under a fresh id as a preview.  A large   *)
(* file is for the background, if there is a River client.                 *)
Upload(s, big) ==
  /\ state[s] = "none"
  /\ big => Cardinality(File[s]) >= AsyncThreshold
  /\ state' = [state EXCEPT ![s] = "preview"]
  /\ large' = [large EXCEPT ![s] = big]
  /\ UNCHANGED <<counted, confirmVars, jobVars, tableVars, rolledBack, gaveUp>>

(* The TTL of an hour has passed.                                          *)
Forget(s) ==
  /\ state[s] \notin {"none", "expired"}
  /\ Save(s, "expired", {})
  /\ UNCHANGED <<confirmVars, jobVars, tableVars, rolledBack, gaveUp>>

-----------------------------------------------------------------------------
(* ConfirmImport.                                                          *)

Goto(c, st) == step' = [step EXCEPT ![c] = st]

(* The request is answered, its rows are locked by nobody any more.        *)
Leave(c) ==
  /\ Goto(c, "idle")
  /\ target' = [target EXCEPT ![c] = None]
  /\ todo' = [todo EXCEPT ![c] = {}]
  /\ imported' = [imported EXCEPT ![c] = {}]
  /\ inserted' = [inserted EXCEPT ![c] = {}]
  /\ broken' = [broken EXCEPT ![c] = FALSE]

CheckPreview(c, s) ==
  /\ step[c] = "idle" /\ state[s] = "preview"
  /\ Goto(c, "checked")
  /\ target' = [target EXCEPT ![c] = s]
  /\ UNCHANGED <<storeVars, todo, imported, inserted, broken, jobVars,
                 tableVars, rolledBack, gaveUp>>

SaveConfirmed(c) ==
  /\ step[c] = "checked"
  /\ Save(target[c], "confirmed", {})
  /\ IF large[target[c]]
     THEN Goto(c, "saved") /\ UNCHANGED todo
     ELSE Goto(c, "inserting") /\ todo' = [todo EXCEPT ![c] = File[target[c]]]
  /\ UNCHANGED <<target, imported, inserted, broken, jobVars, tableVars,
                 rolledBack, gaveUp>>

(* River's Insert has a connection of its own: no rollback undoes it.      *)
EnqueueJob(c, j) ==
  /\ step[c] = "saved" /\ job[j] = "free"
  /\ job' = [job EXCEPT ![j] = "queued"]
  /\ jobOf' = [jobOf EXCEPT ![j] = target[c]]
  /\ Goto(c, "queued")
  /\ UNCHANGED <<storeVars, target, todo, imported, inserted, broken,
                 tableVars, rolledBack, gaveUp>>

(* The copy of the session is older than what the worker may have saved.   *)
SaveProcessing(c) ==
  /\ step[c] = "queued"
  /\ Save(target[c], "processing", {})
  /\ gaveUp' = IF \E j \in Jobs : job[j] # "free" /\ jobOf[j] = target[c]
               THEN gaveUp ELSE gaveUp \union {target[c]}
  /\ Leave(c)
  /\ UNCHANGED <<jobVars, tableVars, rolledBack>>

(* A statement that fails aborts the transaction of the whole request.     *)
Break(c) ==
  /\ broken' = [broken EXCEPT ![c] = TRUE]
  /\ inserted' = [inserted EXCEPT ![c] = {}]
  /\ rolledBack' = rolledBack \union inserted[c]

(* A unique index makes the INSERT wait for an open transaction that has   *)
(* inserted the same key.                                                  *)
KeyHeld(c, x) == \E d \in Confirms \ {c} : x \in inserted[d]

(* ProvisionUser and UpsertSourceMapping both store a row.                 *)
Provision(c, x) ==
  /\ step[c] = "inserting" /\ x \in todo[c]
  /\ ~ broken[c] /\ ~ KeyHeld(c, x)
  /\ x \notin addressed /\ x \notin mapped
  /\ inserted' = [inserted EXCEPT ![c] = @ \union {x}]
  /\ imported' = [imported EXCEPT ![c] = @ \union {x}]
  /\ todo' = [todo EXCEPT ![c] = @ \ {x}]
  /\ UNCHANGED <<storeVars, step, target, broken, jobVars, tableVars,
                 rolledBack, gaveUp>>

(* Variant for mutation testing: a failed mapping is passed over, as if it *)
(* had a transaction of its own.                                           *)
ProvisionUnmapped(c, x) ==
  /\ step[c] = "inserting" /\ x \in todo[c]
  /\ ~ broken[c] /\ ~ KeyHeld(c, x)
  /\ x \notin addressed /\ x \in mapped
  /\ inserted' = [inserted EXCEPT ![c] = @ \union {x}]
  /\ imported' = [imported EXCEPT ![c] = @ \union {x}]
  /\ todo' = [todo EXCEPT ![c] = @ \ {x}]
  /\ UNCHANGED <<storeVars, step, target, broken, jobVars, tableVars,
                 rolledBack, gaveUp>>

(* The user is new, its source id is not: the error of the mapping is      *)
(* ignored and the student counted, but the transaction is lost.           *)
MappingFails(c, x) ==
  /\ step[c] = "inserting" /\ x \in todo[c]
  /\ ~ broken[c] /\ ~ KeyHeld(c, x)
  /\ x \notin addressed /\ x \in mapped
  /\ broken' = [broken EXCEPT ![c] = TRUE]
  /\ inserted' = [inserted EXCEPT ![c] = {}]
  /\ rolledBack' = rolledBack \union inserted[c] \union {x}
  /\ imported' = [imported EXCEPT ![c] = @ \union {x}]
  /\ todo' = [todo EXCEPT ![c] = @ \ {x}]
  /\ UNCHANGED <<storeVars, step, target, jobVars, tableVars, gaveUp>>

(* Variant for mutation testing: a student that fails is counted.          *)
SkipCounted(c, x) ==
  /\ step[c] = "inserting" /\ x \in todo[c]
  /\ broken[c] \/ (~ KeyHeld(c, x) /\ x \in addressed)
  /\ imported' = [imported EXCEPT ![c] = @ \union {x}]
  /\ todo' = [todo EXCEPT ![c] = @ \ {x}]
  /\ Break(c)
  /\ UNCHANGED <<storeVars, step, target, jobVars, tableVars, gaveUp>>

(* ProvisionUser fails: the address is taken, or the transaction is        *)
(* already aborted.                                                        *)
Skip(c, x) ==
  /\ step[c] = "inserting" /\ x \in todo[c]
  /\ broken[c] \/ (~ KeyHeld(c, x) /\ x \in addressed)
  /\ todo' = [todo EXCEPT ![c] = @ \ {x}]
  /\ Break(c)
  /\ UNCHANGED <<storeVars, step, target, imported, jobVars, tableVars, gaveUp>>

(* The 30 s deadline, or a deadlock broken by the database.                *)
CancelConfirm(c) ==
  /\ step[c] = "inserting" /\ ~ broken[c]
  /\ Break(c)
  /\ UNCHANGED <<storeVars, step, target, todo, imported, jobVars, tableVars,
                 gaveUp>>

SaveCompleted(c) ==
  /\ step[c] = "inserting" /\ todo[c] = {}
  /\ Save(target[c], "completed", imported[c])
  /\ Goto(c, "reported")
  /\ UNCHANGED <<target, todo, imported, inserted, broken, jobVars, tableVars,
                 rolledBack, gaveUp>>

(* TenantContext commits after the answer.                                 *)
CommitImport(c) ==
  /\ step[c] = "reported" /\ ~ broken[c]
  /\ users' = [x \in Students |->
                 IF x \in inserted[c] THEN users[x] + 1 ELSE users[x]]
  /\ addressed' = addressed \union inserted[c]
  /\ mapped' = mapped \union inserted[c]
  /\ Leave(c)
  /\ UNCHANGED <<storeVars, jobVars, rolledBack, gaveUp>>

(* A call fails and ends the request with a 500, the process dies, or the  *)
(* final Save or the commit fails: nothing is stored, and the session is   *)
(* left as it is.                                                          *)
ConfirmFails(c) ==
  /\ step[c] # "idle"
  /\ rolledBack' = rolledBack \union inserted[c]
  /\ gaveUp' = gaveUp \union {target[c]}
  /\ Leave(c)
  /\ UNCHANGED <<storeVars, jobVars, tableVars>>

-----------------------------------------------------------------------------
(* BulkImportWorker.  Its queries go to the bare pool, where               *)
(* current_school_id() has no value and users.school_id is NOT NULL: every *)
(* ProvisionUser fails, is logged and skipped.                             *)

(* UpdateStatus: a Get, and a Save of the copy.                            *)
WorkerReads(j) ==
  /\ job[j] = "queued" /\ state[jobOf[j]] # "expired"
  /\ job' = [job EXCEPT ![j] = "saving"]
  /\ UNCHANGED <<storeVars, confirmVars, jobOf, tableVars, rolledBack, gaveUp>>

EndJob(j) ==
  /\ job' = [job EXCEPT ![j] = "free"]
  /\ jobOf' = [jobOf EXCEPT ![j] = None]

(* Variant for mutation testing: the copy is changed and not saved.        *)
WorkerForgetsToSave(j) ==
  /\ job[j] = "saving"
  /\ EndJob(j)
  /\ UNCHANGED <<storeVars, confirmVars, tableVars, rolledBack, gaveUp>>

WorkerSaves(j) ==
  /\ job[j] = "saving"
  /\ Save(jobOf[j], "completed", {})
  /\ EndJob(j)
  /\ UNCHANGED <<confirmVars, tableVars, rolledBack, gaveUp>>

(* UpdateStatus fails, for instance after River's deadline of a minute or  *)
(* because the session has expired; only logged, and the job is done.      *)
WorkerFails(j) ==
  /\ job[j] # "free"
  /\ gaveUp' = gaveUp \union {jobOf[j]}
  /\ EndJob(j)
  /\ UNCHANGED <<storeVars, confirmVars, tableVars, rolledBack>>

(* River rescues the job of a process that died and runs it again.         *)
WorkerDies(j) ==
  /\ job[j] = "saving"
  /\ job' = [job EXCEPT ![j] = "queued"]
  /\ UNCHANGED <<storeVars, confirmVars, jobOf, tableVars, rolledBack, gaveUp>>

(* Elsewhere: the student changes the synthetic address, or is deleted.    *)
ChangeAddress(x) ==
  /\ x \in addressed
  /\ addressed' = addressed \ {x}
  /\ UNCHANGED <<storeVars, confirmVars, jobVars, users, mapped, rolledBack,
                 gaveUp>>

-----------------------------------------------------------------------------
Confirm(c) ==
  \/ \E s \in Sessions : CheckPreview(c, s)
  \/ SaveConfirmed(c)
  \/ \E j \in Jobs : EnqueueJob(c, j)
  \/ SaveProcessing(c)
  \/ \E x \in Students :
       Provision(c, x) \/ MappingFails(c, x) \/ Skip(c, x)
  \/ CancelConfirm(c)
  \/ SaveCompleted(c)
  \/ CommitImport(c)
  \/ ConfirmFails(c)

Work(j) ==
  \/ WorkerReads(j)
  \/ WorkerSaves(j)
  \/ WorkerFails(j)
  \/ WorkerDies(j)

ImportNext ==
  \/ \E s \in Sessions :
       \/ \E big \in BOOLEAN : Upload(s, big)
       \/ Forget(s)
  \/ \E c \in Confirms : Confirm(c)
  \/ \E j \in Jobs : Work(j)
  \/ \E x \in Students : ChangeAddress(x)

ImportSpec == ImportInit /\ [][ImportNext]_importVars

-----------------------------------------------------------------------------
(* Properties.                                                             *)

(* A student of the SIIIR register becomes one user, whatever files are    *)
(* uploaded again, confirmed twice at a time, or confirmed after the       *)
(* student has changed the address that was made up for them               *)
(* (interop/handler.go:241, 295, 311).                                     *)
StudentImportedOnce == \A x \in Students : users[x] <= 1

(* What a finished import reports as imported is in the table, or is the   *)
(* work of a transaction that was rolled back or is still to commit: the   *)
(* report comes before the commit (interop/handler.go:322-331).            *)
CountedStoredOrUndone ==
  \A s \in Sessions : \A x \in counted[s] :
    \/ users[x] > 0
    \/ x \in rolledBack
    \/ \E c \in Confirms : x \in inserted[c]

(* A session that still reads "confirmed" or "processing" while nobody is  *)
(* at work on it has lost a write, or its job was done before the handler  *)
(* came to save "processing" (interop/handler.go:260-272,                  *)
(* session_store.go:80-97).                                                *)
StuckOnlyIfGaveUp ==
  \A s \in Sessions :
    state[s] \in {"confirmed", "processing"} =>
      \/ s \in gaveUp
      \/ \E c \in Confirms : target[c] = s
      \/ \E j \in Jobs : jobOf[j] = s

(* "Work provisions each user in the batch" and a failure of one does not  *)
(* abort the rest (bulk_import.go:51-52): a large import that has          *)
(* completed left somebody in the table.                                   *)
LargeImportStores ==
  \A s \in Sessions :
    state[s] = "completed" /\ large[s] => \E x \in File[s] : users[x] > 0

=============================================================================
