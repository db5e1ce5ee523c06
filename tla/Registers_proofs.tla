-------------------------- MODULE Registers_proofs --------------------------
(***************************************************************************)
(* Proofs about the registers of a school: Classes, Absences, Evaluations, *)
(* Messages and Transfers, for any values of their constants.              *)
(***************************************************************************)
EXTENDS Classes, Absences, Evaluations, Messages, Transfers, TLAPS

-----------------------------------------------------------------------------
(* Classes: a PUT that no other one overlaps writes back what it has read. *)

USE NoneIsNoEdit

LEMMA ClassTypeStep == ClassTypeOK /\ [ClassNext]_classVars => ClassTypeOK'
<1> SUFFICES ASSUME ClassTypeOK, [ClassNext]_classVars
             PROVE  ClassTypeOK'
  OBVIOUS
<1> USE DEF ClassTypeOK, Row
<1>1. ASSUME NEW c \in ClassIds, CreateClass(c) PROVE ClassTypeOK'
  BY <1>1 DEF CreateClass
<1>2. ASSUME NEW s \in SubjectIds, CreateSubject(s) PROVE ClassTypeOK'
  BY <1>2 DEF CreateSubject
<1>3. ASSUME NEW c \in ClassIds, NEW p \in Pupils, EnrollStudent(c, p)
      PROVE  ClassTypeOK'
  BY <1>3 DEF EnrollStudent
<1>4. ASSUME NEW c \in ClassIds, NEW p \in Pupils, UnenrollStudent(c, p)
      PROVE  ClassTypeOK'
  BY <1>4 DEF UnenrollStudent
<1>5. ASSUME NEW c \in ClassIds, NEW s \in SubjectIds, NEW t \in Staff,
             AssignTeacher(c, s, t)
      PROVE  ClassTypeOK'
  BY <1>5 DEF AssignTeacher
<1>6. ASSUME NEW e \in Edits, NEW c \in ClassIds, NEW body \in SUBSET Fields,
             ReadClass(e, c, body)
      PROVE  ClassTypeOK'
  BY <1>6 DEF ReadClass
<1>7. ASSUME NEW e \in Edits, WriteClass(e) PROVE ClassTypeOK'
  BY <1>7 DEF WriteClass, EditEnds
<1>8. ASSUME NEW e \in Edits, EditFails(e) PROVE ClassTypeOK'
  BY <1>8 DEF EditFails, EditEnds
<1>9. CASE UNCHANGED classVars
  BY <1>9 DEF classVars
<1> QED
  BY <1>1, <1>2, <1>3, <1>4, <1>5, <1>6, <1>7, <1>8, <1>9 DEF ClassNext

LEMMA ClassTypeInit == ClassInit => ClassTypeOK
  BY DEF ClassInit, ClassTypeOK, Row

(* Pupils are enrolled in, and teachers assigned to, classes and subjects  *)
(* that exist (school/handler.go:1211-1574).                               *)
THEOREM ClassTypeCorrect == ClassSpec => []ClassTypeOK
  BY ClassTypeInit, ClassTypeStep, PTL DEF ClassSpec

(* What an edit has read is the row, unless the row was written since.     *)
UpToDate ==
  \A e \in Edits :
    edited[e] # None => e \in outdated \/ seen[e] = class[edited[e]]

ClassInv == ClassTypeOK /\ UpToDate

LEMMA UpToDateStep == ClassInv /\ [ClassNext]_classVars => UpToDate'
<1> SUFFICES ASSUME ClassInv, [ClassNext]_classVars
             PROVE  UpToDate'
  OBVIOUS
<1> USE DEF ClassInv, ClassTypeOK, Row, UpToDate
<1>1. ASSUME NEW c \in ClassIds, CreateClass(c) PROVE UpToDate'
  BY <1>1 DEF CreateClass
<1>2. ASSUME NEW s \in SubjectIds, CreateSubject(s) PROVE UpToDate'
  BY <1>2 DEF CreateSubject
<1>3. ASSUME NEW c \in ClassIds, NEW p \in Pupils, EnrollStudent(c, p)
      PROVE  UpToDate'
  BY <1>3 DEF EnrollStudent
<1>4. ASSUME NEW c \in ClassIds, NEW p \in Pupils, UnenrollStudent(c, p)
      PROVE  UpToDate'
  BY <1>4 DEF UnenrollStudent
<1>5. ASSUME NEW c \in ClassIds, NEW s \in SubjectIds, NEW t \in Staff,
             AssignTeacher(c, s, t)
      PROVE  UpToDate'
  BY <1>5 DEF AssignTeacher
<1>6. ASSUME NEW e \in Edits, NEW c \in ClassIds, NEW body \in SUBSET Fields,
             ReadClass(e, c, body)
      PROVE  UpToDate'
  BY <1>6 DEF ReadClass
<1>7. ASSUME NEW e \in Edits, WriteClass(e) PROVE UpToDate'
  BY <1>7 DEF WriteClass, EditEnds
<1>8. ASSUME NEW e \in Edits, EditFails(e) PROVE UpToDate'
  BY <1>8 DEF EditFails, EditEnds
<1>9. CASE UNCHANGED classVars
  BY <1>9 DEF classVars
<1> QED
  BY <1>1, <1>2, <1>3, <1>4, <1>5, <1>6, <1>7, <1>8, <1>9 DEF ClassNext

FieldsChange ==
  \A c \in ClassIds, f \in Fields :
    class'[c][f] # class[c][f] =>
      \E e \in Edits :
        /\ edited[e] = c /\ edited'[e] = None
        /\ f \in given[e] \/ e \in outdated

LEMMA FieldStep == ClassInv /\ [ClassNext]_classVars => FieldsChange
<1> SUFFICES ASSUME ClassInv, [ClassNext]_classVars
             PROVE  FieldsChange
  OBVIOUS
<1> USE DEF ClassInv, ClassTypeOK, Row, UpToDate, FieldsChange
<1>1. ASSUME NEW c \in ClassIds, CreateClass(c) PROVE FieldsChange
  BY <1>1 DEF CreateClass
<1>2. ASSUME NEW s \in SubjectIds, CreateSubject(s) PROVE FieldsChange
  BY <1>2 DEF CreateSubject
<1>3. ASSUME NEW c \in ClassIds, NEW p \in Pupils, EnrollStudent(c, p)
      PROVE  FieldsChange
  BY <1>3 DEF EnrollStudent
<1>4. ASSUME NEW c \in ClassIds, NEW p \in Pupils, UnenrollStudent(c, p)
      PROVE  FieldsChange
  BY <1>4 DEF UnenrollStudent
<1>5. ASSUME NEW c \in ClassIds, NEW s \in SubjectIds, NEW t \in Staff,
             AssignTeacher(c, s, t)
      PROVE  FieldsChange
  BY <1>5 DEF AssignTeacher
<1>6. ASSUME NEW e \in Edits, NEW c \in ClassIds, NEW body \in SUBSET Fields,
             ReadClass(e, c, body)
      PROVE  FieldsChange
  BY <1>6 DEF ReadClass
<1>7. ASSUME NEW e \in Edits, WriteClass(e) PROVE FieldsChange
  BY <1>7 DEF WriteClass, EditEnds
<1>8. ASSUME NEW e \in Edits, EditFails(e) PROVE FieldsChange
  BY <1>8 DEF EditFails, EditEnds
<1>9. CASE UNCHANGED classVars
  BY <1>9 DEF classVars
<1> QED
  BY <1>1, <1>2, <1>3, <1>4, <1>5, <1>6, <1>7, <1>8, <1>9 DEF ClassNext

(* A field that is left out of a PUT keeps its value unless two PUTs       *)
(* overlap (school/handler.go:937, 988).                                   *)
THEOREM FieldsKept == ClassSpec => FieldChangesOnlyBy
<1>1. ClassInit => ClassInv
  BY ClassTypeInit DEF ClassInit, ClassInv, UpToDate
<1>2. ClassInv /\ [ClassNext]_classVars => ClassInv'
  BY ClassTypeStep, UpToDateStep DEF ClassInv
<1>3. ClassInv /\ [ClassNext]_classVars => [FieldsChange]_classVars
  BY FieldStep
<1> QED
  BY <1>1, <1>2, <1>3, PTL DEF ClassSpec, FieldChangesOnlyBy, FieldsChange

-----------------------------------------------------------------------------
(* Absences.                                                               *)

USE NoneIsNobody

LEMMA AbsenceTypeStep ==
  AbsenceTypeOK /\ [AbsenceNext]_absenceVars => AbsenceTypeOK'
<1> SUFFICES ASSUME AbsenceTypeOK, [AbsenceNext]_absenceVars
             PROVE  AbsenceTypeOK'
  OBVIOUS
<1> USE DEF AbsenceTypeOK, Reasons
<1>1. ASSUME NEW l \in Lessons, NEW u \in Recorders,
             NEW c \in ClientIds \union {None}, CreateAbsence(l, u, c)
      PROVE  AbsenceTypeOK'
  BY <1>1 DEF CreateAbsence
<1>2. ASSUME NEW l \in Lessons, NEW u \in Excusers,
             NEW why \in Reasons \ {"unexcused"}, ExcuseAbsence(l, u, why)
      PROVE  AbsenceTypeOK'
  BY <1>2 DEF ExcuseAbsence
<1>3. CASE UNCHANGED absenceVars
  BY <1>3 DEF absenceVars
<1> QED
  BY <1>1, <1>2, <1>3 DEF AbsenceNext

Excused ==
  \A l \in Lessons :
    Recorded(l) =>
      /\ recordedBy'[l] = recordedBy[l]
      /\ reason[l] # "unexcused" => reason'[l] # "unexcused"

LEMMA ExcuseStep == AbsenceTypeOK /\ [AbsenceNext]_absenceVars => Excused
<1> SUFFICES ASSUME AbsenceTypeOK, [AbsenceNext]_absenceVars
             PROVE  Excused
  OBVIOUS
<1> USE DEF AbsenceTypeOK, Excused, Recorded
<1>1. ASSUME NEW l \in Lessons, NEW u \in Recorders,
             NEW c \in ClientIds \union {None}, CreateAbsence(l, u, c)
      PROVE  Excused
  BY <1>1 DEF CreateAbsence
<1>2. ASSUME NEW l \in Lessons, NEW u \in Excusers,
             NEW why \in Reasons \ {"unexcused"}, ExcuseAbsence(l, u, why)
      PROVE  Excused
  BY <1>2 DEF ExcuseAbsence
<1>3. CASE UNCHANGED absenceVars
  BY <1>3 DEF absenceVars
<1> QED
  BY <1>1, <1>2, <1>3 DEF AbsenceNext

(* No excuse is undone and no author replaced, whoever records a lesson    *)
(* again (absences_handler.go:393, 497-507).                               *)
THEOREM ExcusesStand == AbsenceSpec => ExcuseStands
<1>1. AbsenceInit => AbsenceTypeOK
  BY DEF AbsenceInit, AbsenceTypeOK, Reasons
<1>2. AbsenceTypeOK /\ [AbsenceNext]_absenceVars => [Excused]_absenceVars
  BY ExcuseStep
<1> QED
  BY <1>1, <1>2, AbsenceTypeStep, PTL DEF AbsenceSpec, ExcuseStands, Excused

-----------------------------------------------------------------------------
(* Evaluations: ids are never given twice, so that a desk holds the row it *)
(* has found or none.                                                      *)

USE NoneIsNoUser, MaxIdsNat

LEMMA EvalTypeStep == EvalTypeOK /\ [EvalNext]_evalVars => EvalTypeOK'
<1> SUFFICES ASSUME EvalTypeOK, [EvalNext]_evalVars
             PROVE  EvalTypeOK'
  OBVIOUS
<1> USE DEF EvalTypeOK
<1>1. ASSUME NEW u \in Users, NEW k \in Topics, CreateEvaluation(u, k)
      PROVE  EvalTypeOK'
  BY <1>1 DEF CreateEvaluation
<1>2. ASSUME NEW d \in Desks, NEW k \in Topics, NEW u \in Users,
             NEW what \in {"update", "delete"}, Find(d, u, k, what)
      PROVE  EvalTypeOK'
  BY <1>2 DEF Find
<1>3. ASSUME NEW d \in Desks, NEW k \in Topics, UpdateEvaluation(d, k)
      PROVE  EvalTypeOK'
  BY <1>3 DEF UpdateEvaluation, DeskDone
<1>4. ASSUME NEW d \in Desks, NEW k \in Topics, DeleteEvaluation(d, k)
      PROVE  EvalTypeOK'
  BY <1>4 DEF DeleteEvaluation, DeskDone
<1>5. ASSUME NEW d \in Desks, DeskFails(d) PROVE EvalTypeOK'
  BY <1>5 DEF DeskFails, DeskDone
<1>6. CASE UNCHANGED evalVars
  BY <1>6 DEF evalVars
<1> QED
  BY <1>1, <1>2, <1>3, <1>4, <1>5, <1>6 DEF EvalNext

LEMMA EvalTypeInit == EvalInit => EvalTypeOK
  BY DEF EvalInit, EvalTypeOK

(* Every variable keeps its type, and no two topics share a row            *)
(* (evaluation_handler.go:234-558).                                        *)
THEOREM EvalTypeCorrect == EvalSpec => []EvalTypeOK
  BY EvalTypeInit, EvalTypeStep, PTL DEF EvalSpec

(* A desk at work has found a row, and its user may write it, or the row   *)
(* was taken over since.                                                   *)
Entitled ==
  \A d \in Desks :
    task[d] # "none" =>
      /\ found[d] # 0
      /\ \A k \in Topics :
           evalId[k] = found[d] =>
             clerk[d] \in Admins \union {teacher[k]} \/ d \in takenOver

EvalInv == EvalTypeOK /\ Entitled

LEMMA EntitledStep == EvalInv /\ [EvalNext]_evalVars => Entitled'
<1> SUFFICES ASSUME EvalInv, [EvalNext]_evalVars
             PROVE  Entitled'
  OBVIOUS
<1> USE DEF EvalInv, EvalTypeOK, Entitled
<1>1. ASSUME NEW u \in Users, NEW k \in Topics, CreateEvaluation(u, k)
      PROVE  Entitled'
  BY <1>1 DEF CreateEvaluation
<1>2. ASSUME NEW d \in Desks, NEW k \in Topics, NEW u \in Users,
             NEW what \in {"update", "delete"}, Find(d, u, k, what)
      PROVE  Entitled'
  BY <1>2 DEF Find
<1>3. ASSUME NEW d \in Desks, NEW k \in Topics, UpdateEvaluation(d, k)
      PROVE  Entitled'
  BY <1>3 DEF UpdateEvaluation, DeskDone
<1>4. ASSUME NEW d \in Desks, NEW k \in Topics, DeleteEvaluation(d, k)
      PROVE  Entitled'
  BY <1>4 DEF DeleteEvaluation, DeskDone
<1>5. ASSUME NEW d \in Desks, DeskFails(d) PROVE Entitled'
  BY <1>5 DEF DeskFails, DeskDone
<1>6. CASE UNCHANGED evalVars
  BY <1>6 DEF evalVars
<1> QED
  BY <1>1, <1>2, <1>3, <1>4, <1>5, <1>6 DEF EvalNext

TextsChange ==
  \A k \in Topics :
    /\ writer'[k] \notin {writer[k], teacher'[k]} => AllowedDesk(k, "update")
    /\ evalId[k] # 0 /\ evalId'[k] = 0 => AllowedDesk(k, "delete")

LEMMA TextStep == EvalInv /\ [EvalNext]_evalVars => TextsChange
<1> SUFFICES ASSUME EvalInv, [EvalNext]_evalVars
             PROVE  TextsChange
  OBVIOUS
<1> USE DEF EvalInv, EvalTypeOK, Entitled, TextsChange, AllowedDesk
<1>1. ASSUME NEW u \in Users, NEW k \in Topics, CreateEvaluation(u, k)
      PROVE  TextsChange
  BY <1>1 DEF CreateEvaluation
<1>2. ASSUME NEW d \in Desks, NEW k \in Topics, NEW u \in Users,
             NEW what \in {"update", "delete"}, Find(d, u, k, what)
      PROVE  TextsChange
  BY <1>2 DEF Find
<1>3. ASSUME NEW d \in Desks, NEW k \in Topics, UpdateEvaluation(d, k)
      PROVE  TextsChange
  BY <1>3 DEF UpdateEvaluation, DeskDone
<1>4. ASSUME NEW d \in Desks, NEW k \in Topics, DeleteEvaluation(d, k)
      PROVE  TextsChange
  BY <1>4 DEF DeleteEvaluation, DeskDone
<1>5. ASSUME NEW d \in Desks, DeskFails(d) PROVE TextsChange
  BY <1>5 DEF DeskFails, DeskDone
<1>6. CASE UNCHANGED evalVars
  BY <1>6 DEF evalVars
<1> QED
  BY <1>1, <1>2, <1>3, <1>4, <1>5, <1>6 DEF EvalNext

(* Only its teacher or an admin changes or deletes a text, unless the row  *)
(* was taken over after they had read it                                   *)
(* (evaluation_handler.go:340, 437-460, 517-549).                          *)
THEOREM TextsChangedOnlyBy == EvalSpec => ChangedOnlyBy
<1>1. EvalInit => EvalInv
  BY EvalTypeInit DEF EvalInit, EvalInv, Entitled
<1>2. EvalInv /\ [EvalNext]_evalVars => EvalInv'
  BY EvalTypeStep, EntitledStep DEF EvalInv
<1>3. EvalInv /\ [EvalNext]_evalVars => [TextsChange]_evalVars
  BY TextStep
<1> QED
  BY <1>1, <1>2, <1>3, PTL DEF EvalSpec, ChangedOnlyBy, TextsChange

-----------------------------------------------------------------------------
(* Messages: who fails is still to be linked for as long as the            *)
(* transaction is sound.                                                   *)

MessageInv ==
  /\ MessageTypeOK
  /\ \A m \in MessageIds :
       /\ sending[m] = "linking" => faulty[m] \intersect wanted[m] \subseteq toLink[m]
       /\ inbox[m] # {} => sending[m] = "sent"
  /\ DeliveredToAllOrNone

LEMMA MessageStep == MessageInv /\ [MessageNext]_messageVars => MessageInv'
<1> SUFFICES ASSUME MessageInv, [MessageNext]_messageVars
             PROVE  MessageInv'
  OBVIOUS
<1> USE DEF MessageInv, MessageTypeOK, Sendings, DeliveredToAllOrNone
<1>1. ASSUME NEW m \in MessageIds, NEW people \in SUBSET Recipients,
             NEW bad \in SUBSET people, SendMessage(m, people, bad)
      PROVE  MessageInv'
  BY <1>1 DEF SendMessage, Compose
<1>2. ASSUME NEW m \in MessageIds, NEW people \in SUBSET Recipients,
             SendAnnouncement(m, people)
      PROVE  MessageInv'
  BY <1>2 DEF SendAnnouncement, Compose
<1>3. ASSUME NEW m \in MessageIds, NEW u \in Recipients, Link(m, u)
      PROVE  MessageInv'
  BY <1>3 DEF Link
<1>4. ASSUME NEW m \in MessageIds, NEW u \in Recipients, LinkFails(m, u)
      PROVE  MessageInv'
  BY <1>4 DEF LinkFails
<1>5. ASSUME NEW m \in MessageIds, NEW u \in Recipients, LinkRest(m, u)
      PROVE  MessageInv'
  BY <1>5 DEF LinkRest
<1>6. ASSUME NEW m \in MessageIds, NEW u \in Recipients, MarkRead(m, u)
      PROVE  MessageInv'
  BY <1>6 DEF MarkRead
<1>7. ASSUME NEW m \in MessageIds, CommitMessage(m) PROVE MessageInv'
  BY <1>7 DEF CommitMessage
<1>8. ASSUME NEW m \in MessageIds, LoseMessage(m) PROVE MessageInv'
  BY <1>8 DEF LoseMessage
<1>9. CASE UNCHANGED messageVars
  BY <1>9 DEF messageVars
<1> QED
  BY <1>1, <1>2, <1>3, <1>4, <1>5, <1>6, <1>7, <1>8, <1>9 DEF MessageNext

(* Everybody a message is for has it, or nobody                            *)
(* (messaging/handler.go:234-248, 325-340).                                *)
THEOREM AllOrNone == MessageSpec => []DeliveredToAllOrNone
<1>1. MessageInit => MessageInv
  BY DEF MessageInit, MessageInv, MessageTypeOK, Sendings,
         DeliveredToAllOrNone
<1>2. MessageInv => DeliveredToAllOrNone
  BY DEF MessageInv
<1> QED
  BY <1>1, <1>2, MessageStep, PTL DEF MessageSpec

-----------------------------------------------------------------------------
(* Transfers: the unique index keeps mappings of one record apart.         *)

USE NoneIsNoRecord

TransferInv ==
  /\ TransferTypeOK
  /\ \A x \in Records : transferred[x] = IF x \in known THEN 1 ELSE 0
  /\ \A c, d \in Clerks :
       transfer[c] = "mapped" =>
         /\ record[c] \notin known
         /\ transfer[d] = "mapped" /\ record[c] = record[d] => c = d

LEMMA TransferStep ==
  TransferInv /\ [TransferNext]_transferVars => TransferInv'
<1> SUFFICES ASSUME TransferInv, [TransferNext]_transferVars
             PROVE  TransferInv'
  OBVIOUS
<1> USE DEF TransferInv, TransferTypeOK, Transferring
<1>1. ASSUME NEW c \in Clerks, NEW x \in Records, ProvisionTransfer(c, x)
      PROVE  TransferInv'
  BY <1>1 DEF ProvisionTransfer
<1>2. ASSUME NEW c \in Clerks, MapRecord(c) PROVE TransferInv'
  BY <1>2 DEF MapRecord, RecordHeld
<1>3. ASSUME NEW c \in Clerks, RecordTaken(c) PROVE TransferInv'
  BY <1>3 DEF RecordTaken
<1>4. ASSUME NEW c \in Clerks, CommitTransfer(c) PROVE TransferInv'
  BY <1>4 DEF CommitTransfer, TransferEnds
<1>5. ASSUME NEW c \in Clerks, TransferFails(c) PROVE TransferInv'
  BY <1>5 DEF TransferFails, TransferEnds
<1>6. CASE UNCHANGED transferVars
  BY <1>6 DEF transferVars
<1> QED
  BY <1>1, <1>2, <1>3, <1>4, <1>5, <1>6 DEF TransferNext

(* One record makes one student, also when it is sent twice at a time      *)
(* (portability/handler.go:350, 391-402).                                  *)
THEOREM OneTransfer == TransferSpec => []TransferredOnce
<1>1. TransferInit => TransferInv
  BY DEF TransferInit, TransferInv, TransferTypeOK, Transferring
<1>2. TransferInv => TransferredOnce
  BY DEF TransferInv, TransferredOnce
<1> QED
  BY <1>1, <1>2, TransferStep, PTL DEF TransferSpec

=============================================================================
