------------------------------- MODULE Classes -------------------------------
(***************************************************************************)
(* The structure of a school: subjects, classes, enrolments and the        *)
(* teachers of a class (api/internal/school/handler.go).                   *)
(*                                                                         *)
(* All handlers but one are a single statement.  UpdateClass reads the     *)
(* row, keeps the fields it was not given, and writes all of them: two     *)
(* statements of one READ COMMITTED transaction.  The UPDATE waits for     *)
(* that of another request and commits at once, so that reading and        *)
(* writing are the two steps.                                              *)
(***************************************************************************)
EXTENDS NoValue

CONSTANTS
  ClassIds,
  Fields,      \* name, homeroom_teacher_id, max_students
  Pupils,
  SubjectIds,
  Staff,       \* teachers that may be assigned
  Edits        \* PUT /classes/{classId} requests at a time

ASSUME NoneIsNoEdit == None \notin Edits \union ClassIds

VARIABLES
  class,     \* [ClassIds -> [Fields -> Edits \union {None}]]: the request
             \* a value comes from, None for the one of the creation
  made,      \* the classes that exist
  subjects,  \* the subjects that exist
  enrolled,  \* pairs <<class, pupil>>
  teaches,   \* triples <<class, subject, teacher>>
  edited,    \* [Edits -> ClassIds \union {None}], the class of a request
  given,     \* [Edits -> SUBSET Fields], the fields in its body
  seen,      \* [Edits -> [Fields -> Edits \union {None}]], the row it read
  outdated   \* history: edits whose row was written since they read it

classVars ==
  <<class, made, subjects, enrolled, teaches, edited, given, seen, outdated>>

Row == [Fields -> Edits \union {None}]

ClassTypeOK ==
  /\ class \in [ClassIds -> Row]
  /\ made \in SUBSET ClassIds
  /\ subjects \in SUBSET SubjectIds
  /\ enrolled \in SUBSET (made \X Pupils)
  /\ teaches \in SUBSET (made \X subjects \X Staff)
  /\ edited \in [Edits -> made \union {None}]
  /\ given \in [Edits -> SUBSET Fields]
  /\ seen \in [Edits -> Row]
  /\ outdated \in SUBSET Edits

ClassInit ==
  /\ class = [c \in ClassIds |-> [f \in Fields |-> None]]
  /\ made = {} /\ subjects = {} /\ enrolled = {} /\ teaches = {}
  /\ edited = [e \in Edits |-> None]
  /\ given = [e \in Edits |-> {}]
  /\ seen = [e \in Edits |-> [f \in Fields |-> None]]
  /\ outdated = {}

-----------------------------------------------------------------------------
(* One statement each; a unique or foreign key that is broken is a 409,    *)
(* 400 or 404 and changes nothing.                                         *)

CreateClass(c) ==
  /\ c \notin made
  /\ made' = made \union {c}
  /\ UNCHANGED <<class, subjects, enrolled, teaches, edited, given, seen,
                 outdated>>

CreateSubject(s) ==
  /\ s \notin subjects
  /\ subjects' = subjects \union {s}
  /\ UNCHANGED <<class, made, enrolled, teaches, edited, given, seen, outdated>>

(* Variant for mutation testing: no foreign key to the class.              *)
EnrollAnywhere(c, p) ==
  /\ <<c, p>> \notin enrolled
  /\ enrolled' = enrolled \union {<<c, p>>}
  /\ UNCHANGED <<class, made, subjects, teaches, edited, given, seen, outdated>>

EnrollStudent(c, p) ==
  /\ c \in made /\ <<c, p>> \notin enrolled
  /\ enrolled' = enrolled \union {<<c, p>>}
  /\ UNCHANGED <<class, made, subjects, teaches, edited, given, seen, outdated>>

UnenrollStudent(c, p) ==
  /\ <<c, p>> \in enrolled
  /\ enrolled' = enrolled \ {<<c, p>>}
  /\ UNCHANGED <<class, made, subjects, teaches, edited, given, seen, outdated>>

(* There is no request that takes an assignment back.                      *)
AssignTeacher(c, s, t) ==
  /\ c \in made /\ s \in subjects /\ <<c, s, t>> \notin teaches
  /\ teaches' = teaches \union {<<c, s, t>>}
  /\ UNCHANGED <<class, made, subjects, enrolled, edited, given, seen, outdated>>

-----------------------------------------------------------------------------
(* UpdateClass.                                                            *)

ReadClass(e, c, body) ==
  /\ edited[e] = None /\ c \in made
  /\ edited' = [edited EXCEPT ![e] = c]
  /\ given' = [given EXCEPT ![e] = body]
  /\ seen' = [seen EXCEPT ![e] = class[c]]
  /\ outdated' = outdated \ {e}
  /\ UNCHANGED <<class, made, subjects, enrolled, teaches>>

EditEnds(e) ==
  /\ edited' = [edited EXCEPT ![e] = None]
  /\ given' = [given EXCEPT ![e] = {}]
  /\ seen' = [seen EXCEPT ![e] = [f \in Fields |-> None]]

(* Variant for mutation testing: a field that is not given is cleared.     *)
WriteClassClearing(e) ==
  /\ edited[e] # None
  /\ class' = [class EXCEPT ![edited[e]] =
                 [f \in Fields |-> IF f \in given[e] THEN e ELSE None]]
  /\ outdated' = {d \in Edits \ {e} : d \in outdated \/ edited[d] = edited[e]}
  /\ EditEnds(e)
  /\ UNCHANGED <<made, subjects, enrolled, teaches>>

WriteClass(e) ==
  /\ edited[e] # None
  /\ class' = [class EXCEPT ![edited[e]] =
                 [f \in Fields |-> IF f \in given[e] THEN e ELSE seen[e][f]]]
  /\ outdated' = {d \in Edits \ {e} : d \in outdated \/ edited[d] = edited[e]}
  /\ EditEnds(e)
  /\ UNCHANGED <<made, subjects, enrolled, teaches>>

(* 400, a name that is taken, a lost connection.                           *)
EditFails(e) ==
  /\ edited[e] # None
  /\ outdated' = outdated \ {e}
  /\ EditEnds(e)
  /\ UNCHANGED <<class, made, subjects, enrolled, teaches>>

ClassNext ==
  \/ \E c \in ClassIds :
       \/ CreateClass(c)
       \/ \E p \in Pupils : EnrollStudent(c, p) \/ UnenrollStudent(c, p)
       \/ \E s \in SubjectIds, t \in Staff : AssignTeacher(c, s, t)
       \/ \E e \in Edits, body \in SUBSET Fields : ReadClass(e, c, body)
  \/ \E s \in SubjectIds : CreateSubject(s)
  \/ \E e \in Edits : WriteClass(e) \/ EditFails(e)

ClassSpec == ClassInit /\ [][ClassNext]_classVars

-----------------------------------------------------------------------------
(* Properties.                                                             *)

(* A field changes only for a request that was given it, or for one whose  *)
(* row another request has written since: fields that are left out of a    *)
(* PUT keep their value unless two PUTs overlap, and then the earlier one  *)
(* is lost (school/handler.go:937, 988).                                   *)
FieldChangesOnlyBy ==
  [][\A c \in ClassIds, f \in Fields :
       class'[c][f] # class[c][f] =>
         \E e \in Edits :
           /\ edited[e] = c /\ edited'[e] = None
           /\ f \in given[e] \/ e \in outdated]_classVars

=============================================================================
