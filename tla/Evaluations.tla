------------------------------ MODULE Evaluations ------------------------------
(***************************************************************************)
(* Descriptive evaluations (api/internal/catalog/evaluation_handler.go,    *)
(* queries/descriptive_evaluations.sql): one text per student, subject and *)
(* semester, created by an upsert on that key, updated and deleted by id.  *)
(*                                                                         *)
(* Update and delete find the row, check its teacher, and then write by    *)
(* the id alone: two statements of a READ COMMITTED transaction, and two   *)
(* steps.  The upsert is one, as the assignment it checks is never taken   *)
(* back.                                                                   *)
(***************************************************************************)
EXTENDS Naturals, NoValue

CONSTANTS
  Topics,      \* (student, subject, school year, semester)
  Authors,     \* teachers assigned to the class and subject
  Admins,
  Desks,       \* PUT and DELETE requests at a time
  MaxIds       \* bound on the rows ever created

ASSUME NoneIsNoUser == None \notin Authors \union Admins
ASSUME MaxIdsNat == MaxIds \in Nat

VARIABLES
  evalId,    \* [Topics -> Nat], the id of the topic's row, 0 if there is none
  teacher,   \* [Topics -> Users \union {None}]: teacher_id
  writer,    \* [Topics -> Users \union {None}], whose text it is
  lastId,    \* ids given so far
  task,      \* [Desks -> {"none", "update", "delete"}]
  clerk,     \* [Desks -> Users \union {None}]
  found,     \* [Desks -> Nat], the id of the row it has read
  takenOver  \* history: desks whose row an upsert has written since

evalVars ==
  <<evalId, teacher, writer, lastId, task, clerk, found, takenOver>>

Users == Authors \union Admins

EvalTypeOK ==
  /\ evalId \in [Topics -> 0..lastId]
  /\ \A k, l \in Topics : evalId[k] = evalId[l] /\ evalId[k] # 0 => k = l
  /\ teacher \in [Topics -> Users \union {None}]
  /\ writer \in [Topics -> Users \union {None}]
  /\ lastId \in Nat
  /\ task \in [Desks -> {"none", "update", "delete"}]
  /\ clerk \in [Desks -> Users \union {None}]
  /\ found \in [Desks -> 0..lastId]
  /\ takenOver \in SUBSET Desks

EvalInit ==
  /\ evalId = [k \in Topics |-> 0]
  /\ teacher = [k \in Topics |-> None]
  /\ writer = [k \in Topics |-> None]
  /\ lastId = 0
  /\ task = [d \in Desks |-> "none"]
  /\ clerk = [d \in Desks |-> None]
  /\ found = [d \in Desks |-> 0]
  /\ takenOver = {}

(* INSERT ... ON CONFLICT DO UPDATE, whoever the teacher of the row is.    *)
CreateEvaluation(u, k) ==
  /\ IF evalId[k] = 0
     THEN /\ lastId < MaxIds
          /\ lastId' = lastId + 1
          /\ evalId' = [evalId EXCEPT ![k] = lastId + 1]
          /\ UNCHANGED takenOver
     ELSE /\ takenOver' = takenOver \union {d \in Desks : found[d] = evalId[k]}
          /\ UNCHANGED <<lastId, evalId>>
  /\ teacher' = [teacher EXCEPT ![k] = u]
  /\ writer' = [writer EXCEPT ![k] = u]
  /\ UNCHANGED <<task, clerk, found>>

(* Variant for mutation testing: the teacher of the row is not checked.    *)
FindForAnybody(d, u, k, what) ==
  /\ task[d] = "none" /\ evalId[k] # 0
  /\ task' = [task EXCEPT ![d] = what]
  /\ clerk' = [clerk EXCEPT ![d] = u]
  /\ found' = [found EXCEPT ![d] = evalId[k]]
  /\ takenOver' = takenOver \ {d}
  /\ UNCHANGED <<evalId, teacher, writer, lastId>>

Find(d, u, k, what) ==
  /\ task[d] = "none" /\ evalId[k] # 0
  /\ u \in Admins \/ teacher[k] = u
  /\ task' = [task EXCEPT ![d] = what]
  /\ clerk' = [clerk EXCEPT ![d] = u]
  /\ found' = [found EXCEPT ![d] = evalId[k]]
  /\ takenOver' = takenOver \ {d}
  /\ UNCHANGED <<evalId, teacher, writer, lastId>>

DeskDone(d) ==
  /\ task' = [task EXCEPT ![d] = "none"]
  /\ clerk' = [clerk EXCEPT ![d] = None]
  /\ found' = [found EXCEPT ![d] = 0]
  /\ takenOver' = takenOver \ {d}

UpdateEvaluation(d, k) ==
  /\ task[d] = "update" /\ evalId[k] = found[d]
  /\ writer' = [writer EXCEPT ![k] = clerk[d]]
  /\ DeskDone(d)
  /\ UNCHANGED <<evalId, teacher, lastId>>

(* Variant for mutation testing: ids are reused, like the topic's key.     *)
DeleteKeepsId(d, k) ==
  /\ task[d] = "delete" /\ evalId[k] = found[d]
  /\ evalId' = [evalId EXCEPT ![k] = 0]
  /\ teacher' = [teacher EXCEPT ![k] = None]
  /\ writer' = [writer EXCEPT ![k] = None]
  /\ lastId' = found[d] - 1
  /\ DeskDone(d)

DeleteEvaluation(d, k) ==
  /\ task[d] = "delete" /\ evalId[k] = found[d]
  /\ evalId' = [evalId EXCEPT ![k] = 0]
  /\ teacher' = [teacher EXCEPT ![k] = None]
  /\ writer' = [writer EXCEPT ![k] = None]
  /\ DeskDone(d)
  /\ UNCHANGED lastId

(* 404 because the row is gone by now, or any failure.                     *)
DeskFails(d) ==
  /\ task[d] # "none"
  /\ DeskDone(d)
  /\ UNCHANGED <<evalId, teacher, writer, lastId>>

EvalNext ==
  \/ \E u \in Users, k \in Topics : CreateEvaluation(u, k)
  \/ \E d \in Desks, k \in Topics :
       \/ \E u \in Users, what \in {"update", "delete"} : Find(d, u, k, what)
       \/ UpdateEvaluation(d, k)
       \/ DeleteEvaluation(d, k)
  \/ \E d \in Desks : DeskFails(d)

EvalSpec == EvalInit /\ [][EvalNext]_evalVars

-----------------------------------------------------------------------------
(* Properties.                                                             *)

(* The clerk at work on topic k is an admin or its teacher, or had read    *)
(* the row before that teacher took it over.                               *)
AllowedDesk(k, what) ==
  \E d \in Desks :
    /\ task[d] = what /\ task'[d] = "none"
    /\ clerk[d] \in Admins \union {teacher[k]} \/ d \in takenOver

(* The text under a teacher's name is their own or an admin's, and only    *)
(* they delete it, unless a request had read the row before that teacher   *)
(* took it over: no request reaches a row that was deleted and written     *)
(* anew by somebody else (evaluation_handler.go:340, 437-458, 529-547).    *)
ChangedOnlyBy ==
  [][\A k \in Topics :
       /\ writer'[k] \notin {writer[k], teacher'[k]} => AllowedDesk(k, "update")
       /\ evalId[k] # 0 /\ evalId'[k] = 0 => AllowedDesk(k, "delete")]_evalVars

=============================================================================
