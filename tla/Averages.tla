------------------------------- MODULE Averages -------------------------------
(***************************************************************************)
(* The averages of one subject, semester and school year: a teacher closes *)
(* them for a class, a director approves them one by one                   *)
(* (api/internal/catalog/average_handler.go).  Each request runs in its    *)
(* own READ COMMITTED transaction, which commits after the handler         *)
(* returned; the statements that touch the averages are the steps.         *)
(*                                                                         *)
(* The grades and the enrolments change at any time under these requests,  *)
(* so what a handler reads of them is any value it could read: an average  *)
(* or too few grades for one, and any set of enrolled students.  The read  *)
(* is part of the step that uses it.                                       *)
(***************************************************************************)
EXTENDS Naturals, NoValue

CONSTANTS
  Students,
  Rank,        \* [Students -> Nat], their places by last and first name
  Leavers,     \* students who may have their account deleted
  ErasedRank,  \* the place of a user who is called USER, DELETED
  Classes,
  Values,      \* the averages there can be, numeric or qualifier
  Closers,     \* requests that close, as many as can run at a time
  Approvers    \* requests that approve

(* Students of one name have one rank.                                     *)
ASSUME Ranked == Rank \in [Students -> Nat] /\ ErasedRank \in Nat
ASSUME LeaversAreStudents == Leavers \subseteq Students
ASSUME NoneIsNothing ==
  None \notin Students \union Classes \union Values \union Approvers

VARIABLES
  value,      \* [Students -> Values \union {None}], final_value of the row
  home,       \* [Students -> Classes \union {None}], class_id of the row
  approver,   \* [Students -> Approvers \union {None}], approved_by
  erased,     \* students whose name has been taken from them
  phase,      \* [Closers -> Phases], where CloseAverage is
  class,      \* [Closers -> Classes \union {None}], the class it closes
  seen,       \* [Closers -> SUBSET Students], erased when it listed them
  todo,       \* [Closers -> SUBSET Students], what its loop has left
  at,         \* [Closers -> Students \union {None}], whose turn it is
  draft,      \* [Closers -> [Students -> Values \union {None}]], its upserts
  aim,        \* [Approvers -> Students \union {None}], the average it found
  late        \* history: averages approved since the closer looked for any

rowVars == <<value, home, approver>>
closerVars == <<phase, class, seen, todo, at, draft>>
vars == <<rowVars, erased, closerVars, aim, late>>

Phases == {"idle", "looping"}

OrNone(S) == S \union {None}
Blank == [s \in Students |-> None]

TypeOK ==
  /\ value \in [Students -> OrNone(Values)]
  /\ home \in [Students -> OrNone(Classes)]
  /\ approver \in [Students -> OrNone(Approvers)]
  /\ erased \in SUBSET Students
  /\ phase \in [Closers -> Phases]
  /\ class \in [Closers -> OrNone(Classes)]
  /\ seen \in [Closers -> SUBSET Students]
  /\ todo \in [Closers -> SUBSET Students]
  /\ at \in [Closers -> OrNone(Students)]
  /\ draft \in [Closers -> [Students -> OrNone(Values)]]
  /\ aim \in [Approvers -> OrNone(Students)]
  /\ late \in [Closers -> SUBSET Students]

Init ==
  /\ value = Blank
  /\ home = Blank
  /\ approver = Blank
  /\ erased = {}
  /\ phase = [c \in Closers |-> "idle"]
  /\ class = [c \in Closers |-> None]
  /\ seen = [c \in Closers |-> {}]
  /\ todo = [c \in Closers |-> {}]
  /\ at = [c \in Closers |-> None]
  /\ draft = [c \in Closers |-> Blank]
  /\ aim = [a \in Approvers |-> None]
  /\ late = [c \in Closers |-> {}]

-----------------------------------------------------------------------------
(* CloseAverage.                                                           *)

(* Variant for mutation testing: nobody looks for approved averages.       *)
HasApprovedNever(k) == FALSE

(* HasApprovedAverages, which asks for a class.                            *)
HasApproved(k) == \E s \in Students : home[s] = k /\ approver[s] # None

(* SoftDeleteUser: the student stays in the class, under another name.     *)
Erase(s) ==
  /\ erased' = erased \union {s}
  /\ UNCHANGED <<rowVars, closerVars, aim, late>>

(* Where a student comes in a list made when these had been erased.        *)
Place(s, gone) == IF s \in gone THEN ErasedRank ELSE Rank[s]

(* Variant for mutation testing: the students come in no order.            *)
NextStudentUnordered(S, gone) == S

(* ListStudentsByClass orders by last_name and first_name only: students   *)
(* of one name come in any order, another one in every close.              *)
NextStudent(S, gone) ==
  {s \in S : \A k \in S : Place(s, gone) <= Place(k, gone)}

(* The loop is left with these students, and it is the turn of one.        *)
Turn(c, rest, gone) ==
  /\ todo' = [todo EXCEPT ![c] = rest]
  /\ \E s \in IF rest = {} THEN {None} ELSE NextStudent(rest, gone) :
       at' = [at EXCEPT ![c] = s]

(* The close of class k is refused when one of its averages is approved or *)
(* the class has no students at this moment.                               *)
CloseBegins(c, k) ==
  /\ phase[c] = "idle"
  /\ ~ HasApproved(k)
  /\ \E enrolled \in SUBSET Students \ {{}} : Turn(c, enrolled, erased)
  /\ seen' = [seen EXCEPT ![c] = erased]
  /\ phase' = [phase EXCEPT ![c] = "looping"]
  /\ class' = [class EXCEPT ![c] = k]
  /\ UNCHANGED <<rowVars, erased, draft, aim, late>>

(* The close that has written a row and not yet committed it: the upsert   *)
(* of another close, and the update of an approval, wait for it.           *)
CloseWaitsFor(c, d) ==
  /\ d # c
  /\ at[c] # None
  /\ draft[d][at[c]] # None

(* ListGradesForAverage and computeAverage: too few grades for an average. *)
SkipStudent(c) ==
  /\ phase[c] = "looping" /\ at[c] # None
  /\ Turn(c, todo[c] \ {at[c]}, seen[c])
  /\ UNCHANGED <<rowVars, erased, phase, class, seen, draft, aim, late>>

(* Otherwise the average is upserted.                                      *)
Upsert(c) ==
  /\ phase[c] = "looping" /\ at[c] # None
  /\ \A d \in Closers : ~ CloseWaitsFor(c, d)
  /\ \E v \in Values : draft' = [draft EXCEPT ![c][at[c]] = v]
  /\ Turn(c, todo[c] \ {at[c]}, seen[c])
  /\ UNCHANGED <<rowVars, erased, phase, class, seen, aim, late>>

(* Variant for mutation testing: the transaction is left open.             *)
CloserDoneUnreleased(c) ==
  /\ phase' = [phase EXCEPT ![c] = "idle"]
  /\ class' = [class EXCEPT ![c] = None]
  /\ seen' = [seen EXCEPT ![c] = {}]
  /\ todo' = [todo EXCEPT ![c] = {}]
  /\ at' = [at EXCEPT ![c] = None]
  /\ late' = [late EXCEPT ![c] = {}]
  /\ UNCHANGED <<erased, draft, aim>>

CloserDone(c) ==
  /\ phase' = [phase EXCEPT ![c] = "idle"]
  /\ class' = [class EXCEPT ![c] = None]
  /\ seen' = [seen EXCEPT ![c] = {}]
  /\ todo' = [todo EXCEPT ![c] = {}]
  /\ at' = [at EXCEPT ![c] = None]
  /\ draft' = [draft EXCEPT ![c] = Blank]
  /\ late' = [late EXCEPT ![c] = {}]
  /\ UNCHANGED <<erased, aim>>

Written(c) == {s \in Students : draft[c][s] # None}

(* Variant for mutation testing: the upsert takes the approval back.       *)
PublishUnapproved(c) ==
  /\ value' = [s \in Students |->
                 IF s \in Written(c) THEN draft[c][s] ELSE value[s]]
  /\ home' = [s \in Students |->
                IF s \in Written(c) /\ home[s] = None THEN class[c] ELSE home[s]]
  /\ approver' = [s \in Students |->
                    IF s \in Written(c) THEN None ELSE approver[s]]

(* ON CONFLICT (student, subject, year, semester) DO UPDATE: the class and *)
(* the approval of an existing row stay as they are.                       *)
Publish(c) ==
  /\ value' = [s \in Students |->
                 IF s \in Written(c) THEN draft[c][s] ELSE value[s]]
  /\ home' = [s \in Students |->
                IF s \in Written(c) /\ home[s] = None THEN class[c] ELSE home[s]]
  /\ UNCHANGED approver

CloseCommits(c) ==
  /\ phase[c] = "looping" /\ todo[c] = {}
  /\ Publish(c)
  /\ CloserDone(c)

(* Variant for mutation testing: a failed close commits what it has done.  *)
CloseFailsCommitting(c) ==
  /\ phase[c] # "idle"
  /\ Publish(c)
  /\ CloserDone(c)

(* A statement fails or is cancelled: 500, and the transaction is undone.  *)
CloseFails(c) ==
  /\ phase[c] # "idle"
  /\ CloserDone(c)
  /\ UNCHANGED rowVars

(* Closes each of which waits for another of them and keeps one waiting.   *)
InCircle(c) ==
  \E ring \in SUBSET Closers :
    /\ c \in ring
    /\ \A d \in ring : (\E e \in ring : CloseWaitsFor(d, e))
                     /\ (\E e \in ring : CloseWaitsFor(e, d))

(* PostgreSQL finds the circle (deadlock_timeout) and lets the statement   *)
(* of one of them fail.                                                    *)
Deadlock(c) ==
  /\ InCircle(c)
  /\ CloseFails(c)

-----------------------------------------------------------------------------
(* ApproveAverage.                                                         *)

(* GetAverageByID finds a closed row that nobody has approved.             *)
ApproveChecks(a, s) ==
  /\ aim[a] = None
  /\ home[s] # None /\ approver[s] = None
  /\ aim' = [aim EXCEPT ![a] = s]
  /\ UNCHANGED <<rowVars, erased, closerVars, late>>

(* The update, by the row's id alone, and the commit.                      *)
ApproveCommits(a) ==
  /\ aim[a] # None
  /\ \A c \in Closers : draft[c][aim[a]] = None
  /\ approver' = [approver EXCEPT ![aim[a]] = a]
  /\ late' = [c \in Closers |->
                IF phase[c] = "idle" THEN {} ELSE late[c] \union {aim[a]}]
  /\ aim' = [aim EXCEPT ![a] = None]
  /\ UNCHANGED <<value, home, erased, closerVars>>

ApproveFails(a) ==
  /\ aim[a] # None
  /\ aim' = [aim EXCEPT ![a] = None]
  /\ UNCHANGED <<rowVars, erased, closerVars, late>>

-----------------------------------------------------------------------------
CloseStep(c) ==
  \/ SkipStudent(c)
  \/ Upsert(c)
  \/ CloseCommits(c)

Next ==
  \/ \E c \in Closers :
       \/ \E k \in Classes : CloseBegins(c, k)
       \/ CloseStep(c)
       \/ CloseFails(c)
       \/ Deadlock(c)
  \/ \E a \in Approvers :
       \/ \E s \in Students : ApproveChecks(a, s)
       \/ ApproveCommits(a)
       \/ ApproveFails(a)
  \/ \E s \in Leavers : Erase(s)

Spec == Init /\ [][Next]_vars

(* A handler goroutine runs on, and the database grants a row lock in the  *)
(* order in which it was asked for and breaks the circles there are.  No   *)
(* request needs to be made or fail otherwise, and no student needs to     *)
(* have too few grades: a close that waits for a row is not rescued by     *)
(* SkipStudent.                                                            *)
Fairness ==
  \A c \in Closers :
    /\ SF_vars(Upsert(c) \/ CloseCommits(c))
    /\ WF_vars(Deadlock(c))

FairSpec == Spec /\ Fairness

-----------------------------------------------------------------------------
(* Properties.                                                             *)

Approved(s) == approver[s] # None

(* The value of an approved average changes in two ways only: by a close   *)
(* that had looked for approvals before this one was made, or by a close   *)
(* of another class, whose check does not see it (average_handler.go:204,  *)
(* averages.sql:21).                                                       *)
ApprovedOverwrittenOnlyBy ==
  [][\A s \in Students :
       Approved(s) /\ value'[s] # value[s] =>
         \E c \in Closers :
           /\ s \in Written(c)
           /\ s \in late[c] \/ home[s] # class[c]]_vars

(* A close is all or nothing: the averages of a class change only when the *)
(* loop over its students is through, although the middleware commits      *)
(* whatever the handler answered (average_handler.go:238-294,              *)
(* middleware.go:205-210).                                                 *)
NoPartialClose ==
  [][\A s \in Students :
       value'[s] # value[s] =>
         \E c \in Closers : s \in Written(c) /\ todo[c] = {}]_vars

(* A close waits only for one that is at a student of a later name, or of  *)
(* the same name and not the same student; only a student whose account    *)
(* has been deleted may have come elsewhere in that one's list.  Around a  *)
(* circle of closes all these names are one: only namesakes, whom the      *)
(* order does not tell apart, and students who lost their name meanwhile   *)
(* can make closes wait for each other (average_handler.go:238,            *)
(* classes.sql:45, users.sql:91).                                          *)
CirclesAreNamesakes ==
  \A c, d \in Closers :
    CloseWaitsFor(c, d) /\ at[d] # None =>
      /\ at[c] # at[d]
      /\ \/ Rank[at[c]] <= Rank[at[d]]
         \/ {at[c], at[d]} \intersect erased # {}

(* Overlapping closes and approvals act on the averages like whole closes  *)
(* and approvals one after the other: no average loses its class, and none *)
(* its approval, to a close that overwrites it or to a second director who *)
(* had looked before the first approved (average_handler.go:365-376,       *)
(* averages.sql:12-34).                                                    *)
Book == INSTANCE AverageBook
BookSpec == Book!BookSpec

(* No close waits for ever for the rows of others: whichever way one ends, *)
(* its rows come free, and the database ends the circles there are         *)
(* (average_handler.go:238-294, middleware.go:173-210).                    *)
CloseFinishes == \A c \in Closers : phase[c] # "idle" ~> phase[c] = "idle"

(* average_handler.go:202, "Once a director approves averages, they are    *)
(* locked": refuted by a run.                                              *)
ApprovedIsLocked ==
  [][\A s \in Students : Approved(s) => value'[s] = value[s]]_vars

=============================================================================
