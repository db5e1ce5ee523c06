------------------------------- MODULE Absences -------------------------------
(***************************************************************************)
(* The register of absences: recording and excusing                        *)
(* (api/internal/catalog/absences_handler.go, queries/absences.sql).       *)
(*                                                                         *)
(* A student is absent at most once a lesson, whatever the class: the key  *)
(* of the table is (student, date, period).  A second key is               *)
(* (school, client_id) with NULLs not distinct.  The check of the          *)
(* teacher's assignment comes before the INSERT and cannot be outdated     *)
(* by it, as no assignment is ever taken back; each handler is one step.   *)
(***************************************************************************)
EXTENDS NoValue

CONSTANTS
  Lessons,     \* (student, date, period)
  Recorders,   \* teachers assigned to the class and subject, and admins
  Excusers,    \* users that send PUT /catalog/absences/{id}/excuse
  ClientIds

ASSUME NoneIsNobody == None \notin Recorders \union Excusers \union ClientIds

VARIABLES
  recordedBy,  \* [Lessons -> Recorders \union {None}], None if no row
  reason,      \* [Lessons -> Reasons]: absence_type
  excusedBy,   \* [Lessons -> Excusers \union {None}]
  clientId     \* [Lessons -> ClientIds \union {None}]

absenceVars == <<recordedBy, reason, excusedBy, clientId>>

Reasons == {"unexcused", "medical", "excused", "school_event"}

AbsenceTypeOK ==
  /\ recordedBy \in [Lessons -> Recorders \union {None}]
  /\ reason \in [Lessons -> Reasons]
  /\ excusedBy \in [Lessons -> Excusers \union {None}]
  /\ clientId \in [Lessons -> ClientIds \union {None}]

AbsenceInit ==
  /\ recordedBy = [l \in Lessons |-> None]
  /\ reason = [l \in Lessons |-> "unexcused"]
  /\ excusedBy = [l \in Lessons |-> None]
  /\ clientId = [l \in Lessons |-> None]

Recorded(l) == recordedBy[l] # None

(* Variant for mutation testing: an upsert, like the one of evaluations.   *)
CreateAbsenceUpsert(l, u, c) ==
  /\ \A k \in Lessons \ {l} : Recorded(k) => clientId[k] # c
  /\ recordedBy' = [recordedBy EXCEPT ![l] = u]
  /\ reason' = [reason EXCEPT ![l] = "unexcused"]
  /\ clientId' = [clientId EXCEPT ![l] = c]
  /\ UNCHANGED excusedBy

(* c is None if the body has no client_id.  A key that is taken is a 500.  *)
CreateAbsence(l, u, c) ==
  /\ ~ Recorded(l)
  /\ \A k \in Lessons : Recorded(k) => clientId[k] # c
  /\ recordedBy' = [recordedBy EXCEPT ![l] = u]
  /\ reason' = [reason EXCEPT ![l] = "unexcused"]
  /\ clientId' = [clientId EXCEPT ![l] = c]
  /\ UNCHANGED excusedBy

(* Any absence, excused or not; an absence is never deleted, so the row    *)
(* that was found is there for the UPDATE.                                 *)
ExcuseAbsence(l, u, why) ==
  /\ Recorded(l)
  /\ reason' = [reason EXCEPT ![l] = why]
  /\ excusedBy' = [excusedBy EXCEPT ![l] = u]
  /\ UNCHANGED <<recordedBy, clientId>>

AbsenceNext ==
  \E l \in Lessons :
    \/ \E u \in Recorders, c \in ClientIds \union {None} : CreateAbsence(l, u, c)
    \/ \E u \in Excusers, why \in Reasons \ {"unexcused"} :
         ExcuseAbsence(l, u, why)

AbsenceSpec == AbsenceInit /\ [][AbsenceNext]_absenceVars

-----------------------------------------------------------------------------
(* Properties.                                                             *)

(* An excuse is not undone by recording the lesson again, from a second    *)
(* device or by a second teacher, and the teacher who recorded an absence  *)
(* stays its author (absences_handler.go:393, 497-507).                    *)
ExcuseStands ==
  [][\A l \in Lessons :
       Recorded(l) =>
         /\ recordedBy'[l] = recordedBy[l]
         /\ reason[l] # "unexcused" => reason'[l] # "unexcused"]_absenceVars

=============================================================================
