--------------------------- MODULE Averages_proofs ---------------------------
(***************************************************************************)
(* Proofs about Averages, for any number of students, classes and          *)
(* requests.                                                               *)
(*                                                                         *)
(* Which close can overwrite an approved average follows from what a close *)
(* knew when it looked: of the approvals in its class, exactly those made  *)
(* since are unknown to it (LateKnown).  That an approval concerns a row   *)
(* which exists, and so has a class already (RowsFirst), makes LateKnown   *)
(* survive the commit of another close.                                    *)
(*                                                                         *)
(* Only namesakes, and students renamed meanwhile, can make closes wait    *)
(* for each other in a circle, because the rows a close has written are    *)
(* those of students none of whom comes after the ones it has left         *)
(* (WritesInOrder): in its holder's list the student somebody waits at     *)
(* comes no later than the one the holder is at.                           *)
(*                                                                         *)
(* BookSpec maps every step to a step of AverageBook or a stutter: a close *)
(* is one Close at its commit, of the rows in its draft.                   *)
(*                                                                         *)
(* Of AverageRules: division lemmas without the constants of the code      *)
(* carry RoundingRight, and the loop over the four qualifiers is followed  *)
(* turn by turn (BestLoop) for MajorityWins.                               *)
(***************************************************************************)
EXTENDS Averages, AverageRules, TLAPS

USE NoneIsNothing, Ranked, LeaversAreStudents

RowsFirst ==
  /\ \A s \in Students : approver[s] # None => home[s] # None
  /\ \A a \in Approvers : aim[a] # None => home[aim[a]] # None

LateKnown ==
  \A c \in Closers, s \in Students :
    phase[c] = "looping" /\ approver[s] # None /\ home[s] = class[c]
      => s \in late[c]

(* Only a close under way has written anything, for a class.               *)
WritersLoop ==
  \A c \in Closers :
    /\ phase[c] = "idle" => draft[c] = Blank
    /\ phase[c] = "looping" => class[c] # None

(* A close is at a student of the first name it has left, and writes the   *)
(* averages in the order of the names.                                     *)
WritesInOrder ==
  \A c \in Closers :
    /\ seen[c] \subseteq erased
    /\ at[c] # None => at[c] \in NextStudent(todo[c], seen[c])
    /\ \A w \in Written(c), s \in todo[c] :
         w # s /\ Place(w, seen[c]) <= Place(s, seen[c])

Inv ==
  /\ TypeOK
  /\ RowsFirst
  /\ LateKnown
  /\ WritersLoop
  /\ WritesInOrder

-----------------------------------------------------------------------------
(* Whose turn it is, of those left.                                        *)
LEMMA TurnTaken ==
  ASSUME at \in [Closers -> OrNone(Students)],
         NEW c \in Closers, NEW rest \in SUBSET Students, NEW gone,
         Turn(c, rest, gone)
  PROVE  /\ todo' = [todo EXCEPT ![c] = rest]
         /\ at' \in [Closers -> OrNone(Students)]
         /\ at'[c] # None => at'[c] \in NextStudent(rest, gone)
         /\ \A d \in Closers \ {c} : at'[d] = at[d]
<1>1. PICK s \in IF rest = {} THEN {None} ELSE NextStudent(rest, gone) :
        at' = [at EXCEPT ![c] = s]
  BY DEF Turn
<1>2. s = None \/ s \in NextStudent(rest, gone)
  BY <1>1
<1>3. s \in OrNone(Students)
  BY <1>2 DEF NextStudent, OrNone
<1> QED
  BY <1>1, <1>2, <1>3 DEF Turn

LEMMA TypeOKInit == Init => TypeOK
  BY DEF Init, TypeOK, OrNone, Blank, Phases

LEMMA TypeOKStep == TypeOK /\ [Next]_vars => TypeOK'
<1> SUFFICES ASSUME TypeOK, [Next]_vars
             PROVE  TypeOK'
  OBVIOUS
<1>t. at \in [Closers -> OrNone(Students)]
  BY DEF TypeOK
<1> USE DEF TypeOK, Phases, rowVars, closerVars
<1>1. ASSUME NEW c \in Closers, CloserDone(c),
             \/ Publish(c)
             \/ UNCHANGED rowVars
      PROVE  TypeOK'
  <2>1. Blank \in [Students -> OrNone(Values)]
    BY DEF Blank, OrNone
  <2>2. /\ value' \in [Students -> OrNone(Values)]
        /\ home' \in [Students -> OrNone(Classes)]
        /\ approver' \in [Students -> OrNone(Approvers)]
    <3>1. CASE Publish(c)
      BY <3>1 DEF Publish, OrNone
    <3>2. CASE UNCHANGED rowVars
      BY <3>2
    <3> QED
      BY <1>1, <3>1, <3>2
  <2> QED
    BY <1>1, <2>1, <2>2 DEF CloserDone, OrNone
<1>2. ASSUME NEW c \in Closers, NEW k \in Classes, CloseBegins(c, k)
      PROVE  TypeOK'
  <2>1. PICK enrolled \in SUBSET Students : Turn(c, enrolled, erased)
    BY <1>2 DEF CloseBegins
  <2> QED
    <3>1. /\ todo' = [todo EXCEPT ![c] = enrolled]
          /\ at' \in [Closers -> OrNone(Students)]
      BY <1>t, <2>1, TurnTaken
    <3> QED
      BY <1>2, <2>1, <3>1 DEF CloseBegins, OrNone
<1>3. ASSUME NEW c \in Closers, SkipStudent(c) \/ Upsert(c)
      PROVE  TypeOK'
  <2>1. at[c] \in Students /\ Turn(c, todo[c] \ {at[c]}, seen[c])
    BY <1>3 DEF SkipStudent, Upsert, OrNone
  <2>2. /\ todo' = [todo EXCEPT ![c] = todo[c] \ {at[c]}]
        /\ at' \in [Closers -> OrNone(Students)]
    <3>1. todo[c] \ {at[c]} \in SUBSET Students
      OBVIOUS
    <3> QED
      BY <1>t, <2>1, <3>1, TurnTaken
  <2>3. draft' \in [Closers -> [Students -> OrNone(Values)]]
    <3>1. CASE UNCHANGED draft
      BY <3>1
    <3>2. ASSUME NEW v \in Values, NEW s \in Students,
                 draft' = [draft EXCEPT ![c][s] = v]
          PROVE  draft' \in [Closers -> [Students -> OrNone(Values)]]
      BY <3>2 DEF OrNone
    <3> QED
      BY <1>3, <2>1, <3>1, <3>2 DEF SkipStudent, Upsert
  <2>4. todo' \in [Closers -> SUBSET Students]
    BY <2>2
  <2>5. UNCHANGED <<rowVars, erased, phase, class, seen, aim, late>>
    BY <1>3 DEF SkipStudent, Upsert
  <2> HIDE DEF OrNone
  <2> QED
    BY <2>2, <2>3, <2>4, <2>5
<1>5. ASSUME NEW c \in Closers, CloseCommits(c) \/ CloseFails(c)
      PROVE  TypeOK'
  BY <1>1, <1>5 DEF CloseCommits, CloseFails
<1>6. ASSUME NEW a \in Approvers, NEW s \in Students, ApproveChecks(a, s)
      PROVE  TypeOK'
  BY <1>6 DEF ApproveChecks, OrNone
<1>7. ASSUME NEW a \in Approvers, ApproveCommits(a)
      PROVE  TypeOK'
  BY <1>7 DEF ApproveCommits, OrNone
<1>8. ASSUME NEW a \in Approvers, ApproveFails(a)
      PROVE  TypeOK'
  BY <1>8 DEF ApproveFails, OrNone
<1>9. ASSUME NEW s \in Leavers, Erase(s)
      PROVE  TypeOK'
  BY <1>9 DEF Erase
<1>10. CASE UNCHANGED vars
  BY <1>10 DEF vars
<1> QED
  BY <1>2, <1>3, <1>5, <1>6, <1>7, <1>8, <1>9, <1>10 DEF Next, CloseStep, Deadlock

(* The rows of the averages table and the state of the requests are what   *)
(* they are declared to be (average_handler.go:94-390).                    *)
THEOREM TypeCorrect == Spec => []TypeOK
  BY TypeOKInit, TypeOKStep, PTL DEF Spec

-----------------------------------------------------------------------------
LEMMA InvInit == Init => Inv
  BY TypeOKInit DEF Init, Inv, RowsFirst, LateKnown, WritersLoop, WritesInOrder,
                    Blank

LEMMA WritesInOrderStep ==
  TypeOK /\ WritersLoop /\ WritesInOrder /\ [Next]_vars => WritesInOrder'
<1> SUFFICES ASSUME TypeOK, WritersLoop, WritesInOrder, [Next]_vars
             PROVE  WritesInOrder'
  OBVIOUS
<1>t. at \in [Closers -> OrNone(Students)]
  BY DEF TypeOK
<1> USE DEF TypeOK, Phases, WritesInOrder, Written, rowVars, closerVars
<1>1. ASSUME NEW c \in Closers, NEW k \in Classes, CloseBegins(c, k)
      PROVE  WritesInOrder'
  <2>1. PICK enrolled \in SUBSET Students : Turn(c, enrolled, erased)
    BY <1>1 DEF CloseBegins
  <2>2. /\ draft[c] = Blank
        /\ UNCHANGED <<draft, erased>>
        /\ seen' = [seen EXCEPT ![c] = erased]
    BY <1>1 DEF CloseBegins, WritersLoop
  <2>3. /\ todo' = [todo EXCEPT ![c] = enrolled]
        /\ at'[c] # None => at'[c] \in NextStudent(todo'[c], erased)
        /\ \A d \in Closers \ {c} : at'[d] = at[d]
    BY <1>t, <2>1, TurnTaken
  <2>4. Written(c)' = {}
    BY <2>2 DEF Blank
  <2> QED
    BY <2>2, <2>3, <2>4
<1>2. ASSUME NEW c \in Closers, SkipStudent(c)
      PROVE  WritesInOrder'
  <2>1. /\ Turn(c, todo[c] \ {at[c]}, seen[c])
        /\ UNCHANGED <<draft, seen, erased>>
    BY <1>2 DEF SkipStudent
  <2>2. todo[c] \ {at[c]} \in SUBSET Students
    OBVIOUS
  <2>3. /\ todo' = [todo EXCEPT ![c] = todo[c] \ {at[c]}]
        /\ at'[c] # None =>
             at'[c] \in NextStudent(todo[c] \ {at[c]}, seen[c])
        /\ \A d \in Closers \ {c} : at'[d] = at[d]
    <3> HIDE DEF TypeOK, WritesInOrder
    <3> QED
      BY <1>t, <2>1, <2>2, TurnTaken
  <2> QED
    BY <2>1, <2>3
<1>3. ASSUME NEW c \in Closers, Upsert(c)
      PROVE  WritesInOrder'
  <2>1. /\ at[c] \in NextStudent(todo[c], seen[c]) /\ at[c] \in Students
        /\ Turn(c, todo[c] \ {at[c]}, seen[c])
        /\ UNCHANGED <<seen, erased>>
    BY <1>3 DEF Upsert, OrNone
  <2>2. /\ todo' = [todo EXCEPT ![c] = todo[c] \ {at[c]}]
        /\ at'[c] # None =>
             at'[c] \in NextStudent(todo[c] \ {at[c]}, seen[c])
        /\ \A d \in Closers \ {c} : at'[d] = at[d]
    <3>1. todo[c] \ {at[c]} \in SUBSET Students
      OBVIOUS
    <3> HIDE DEF TypeOK, WritesInOrder
    <3> QED
      BY <1>t, <2>1, <3>1, TurnTaken
  <2>3. Written(c)' = Written(c) \union {at[c]}
    BY <1>3, <2>1 DEF Upsert, OrNone
  <2>4. \A s \in todo[c] : Place(at[c], seen[c]) <= Place(s, seen[c])
    BY <2>1 DEF NextStudent
  <2>5. \A d \in Closers \ {c} : Written(d)' = Written(d) /\ todo'[d] = todo[d]
    BY <1>3, <2>2 DEF Upsert
  <2>6. \A w \in Written(c)', s \in todo'[c] :
          w # s /\ Place(w, seen[c]) <= Place(s, seen[c])
    BY <2>2, <2>3, <2>4
  <2> QED
    BY <2>1, <2>2, <2>5, <2>6
<1>4. ASSUME NEW c \in Closers, CloseCommits(c) \/ CloseFails(c)
      PROVE  WritesInOrder'
  BY <1>4 DEF CloseCommits, CloseFails, CloserDone
<1>5. ASSUME NEW a \in Approvers,
             \/ \E s \in Students : ApproveChecks(a, s)
             \/ ApproveCommits(a)
             \/ ApproveFails(a)
      PROVE  WritesInOrder'
  BY <1>5 DEF ApproveChecks, ApproveCommits, ApproveFails
<1>6. ASSUME NEW s \in Leavers, Erase(s)
      PROVE  WritesInOrder'
  BY <1>6 DEF Erase
<1>7. CASE UNCHANGED vars
  BY <1>7 DEF vars
<1> QED
  BY <1>1, <1>2, <1>3, <1>4, <1>5, <1>6, <1>7 DEF Next, CloseStep, Deadlock

LEMMA InvStep == Inv /\ [Next]_vars => Inv'
<1> SUFFICES ASSUME Inv, [Next]_vars
             PROVE  Inv'
  OBVIOUS
<1>0. TypeOK' /\ WritesInOrder'
  BY TypeOKStep, WritesInOrderStep DEF Inv
<1> USE DEF Inv, TypeOK, OrNone, Phases, RowsFirst, LateKnown, WritersLoop,
            rowVars, closerVars
<1>1. ASSUME NEW c \in Closers, NEW k \in Classes, CloseBegins(c, k)
      PROVE  Inv'
  <2>1. PICK enrolled \in SUBSET Students : Turn(c, enrolled, erased)
    BY <1>1 DEF CloseBegins
  <2> QED
    BY <1>0, <1>1, <2>1 DEF CloseBegins, HasApproved
<1>2. ASSUME NEW c \in Closers, SkipStudent(c) \/ Upsert(c)
      PROVE  Inv'
  BY <1>0, <1>2 DEF SkipStudent, Upsert
<1>3. ASSUME NEW c \in Closers, CloseCommits(c)
      PROVE  Inv'
  <2>1. RowsFirst'
    BY <1>3 DEF CloseCommits, Publish, CloserDone
  <2>2. LateKnown'
    BY <1>3 DEF CloseCommits, Publish, CloserDone
  <2>3. WritersLoop'
    BY <1>3 DEF CloseCommits, CloserDone
  <2> QED
    BY <1>0, <2>1, <2>2, <2>3
<1>4. ASSUME NEW c \in Closers, CloseFails(c)
      PROVE  Inv'
  BY <1>0, <1>4 DEF CloseFails, CloserDone
<1>5. ASSUME NEW a \in Approvers, NEW s \in Students, ApproveChecks(a, s)
      PROVE  Inv'
  BY <1>0, <1>5 DEF ApproveChecks
<1>6. ASSUME NEW a \in Approvers, ApproveCommits(a)
      PROVE  Inv'
  BY <1>0, <1>6 DEF ApproveCommits
<1>7. ASSUME NEW a \in Approvers, ApproveFails(a)
      PROVE  Inv'
  BY <1>0, <1>7 DEF ApproveFails
<1>8. ASSUME NEW s \in Leavers, Erase(s)
      PROVE  Inv'
  BY <1>0, <1>8 DEF Erase
<1>9. CASE UNCHANGED vars
  BY <1>0, <1>9 DEF vars
<1> QED
  BY <1>1, <1>2, <1>3, <1>4, <1>5, <1>6, <1>7, <1>8, <1>9
     DEF Next, CloseStep, Deadlock

LEMMA Invariance == Spec => []Inv
  BY InvInit, InvStep, PTL DEF Spec

-----------------------------------------------------------------------------
(* An approved average changes only by a close that looked for approvals   *)
(* before, or by a close of another class (average_handler.go:204,         *)
(* averages.sql:21).                                                       *)
THEOREM OverwrittenOnlyBy == Spec => ApprovedOverwrittenOnlyBy
<1> DEFINE Explained ==
      \A s \in Students :
        Approved(s) /\ value'[s] # value[s] =>
          \E c \in Closers :
            /\ s \in Written(c)
            /\ s \in late[c] \/ home[s] # class[c]
<1>1. ASSUME Inv, Next
      PROVE  Explained
  <2> SUFFICES ASSUME NEW s \in Students, Approved(s), value'[s] # value[s]
               PROVE  \E c \in Closers :
                        /\ s \in Written(c)
                        /\ s \in late[c] \/ home[s] # class[c]
    OBVIOUS
  <2>1. PICK c \in Closers : CloseCommits(c)
    BY <1>1 DEF Next, CloseStep, CloseBegins, SkipStudent, Upsert, CloseFails, Deadlock,
       ApproveChecks, ApproveCommits, ApproveFails, Erase, rowVars
  <2>2. s \in Written(c)
    BY <2>1 DEF CloseCommits, Publish
  <2>3. s \in late[c] \/ home[s] # class[c]
    BY <1>1, <2>1 DEF CloseCommits, Inv, LateKnown, Approved
  <2> QED
    BY <2>2, <2>3
<1>2. ASSUME UNCHANGED vars
      PROVE  Explained
  BY <1>2 DEF vars, rowVars
<1>3. Inv /\ [Next]_vars => [Explained]_vars
  BY <1>1
<1> QED
  BY <1>3, Invariance, PTL DEF Spec, ApprovedOverwrittenOnlyBy

(* A close is all or nothing (average_handler.go:238-294,                  *)
(* middleware.go:205-210).                                                 *)
THEOREM CloseAllOrNothing == Spec => NoPartialClose
<1> DEFINE Complete ==
      \A s \in Students :
        value'[s] # value[s] =>
          \E c \in Closers : s \in Written(c) /\ todo[c] = {}
<1>1. ASSUME TypeOK, Next
      PROVE  Complete
  <2> SUFFICES ASSUME NEW s \in Students, value'[s] # value[s]
               PROVE  \E c \in Closers : s \in Written(c) /\ todo[c] = {}
    OBVIOUS
  <2>1. PICK c \in Closers : CloseCommits(c)
    BY <1>1 DEF Next, CloseStep, CloseBegins, SkipStudent, Upsert, CloseFails, Deadlock,
       ApproveChecks, ApproveCommits, ApproveFails, Erase, rowVars
  <2>2. s \in Written(c) /\ todo[c] = {}
    BY <2>1 DEF CloseCommits, Publish
  <2> QED
    BY <2>2
<1>2. TypeOK /\ [Next]_vars => [Complete]_vars
  BY <1>1
<1> QED
  BY <1>2, TypeCorrect, PTL DEF Spec, NoPartialClose

-----------------------------------------------------------------------------
(* A close waits only for one at a student of a later name or at a         *)
(* namesake, unless an account was deleted: only namesakes and students    *)
(* without a name can be waited at in a circle of closes                   *)
(* (average_handler.go:238, classes.sql:45, users.sql:91).                 *)
THEOREM ClosesOrdered == Spec => []CirclesAreNamesakes
<1>1. Inv => CirclesAreNamesakes
  <2> SUFFICES ASSUME Inv, NEW c \in Closers, NEW d \in Closers,
                      CloseWaitsFor(c, d), at[d] # None
               PROVE  /\ at[c] # at[d]
                      /\ \/ Rank[at[c]] <= Rank[at[d]]
                         \/ {at[c], at[d]} \intersect erased # {}
    BY DEF CirclesAreNamesakes
  <2>1. at[c] \in Written(d)
    BY DEF CloseWaitsFor, Written, Inv, TypeOK, OrNone
  <2>2. at[d] \in todo[d] /\ seen[d] \subseteq erased
    BY DEF Inv, WritesInOrder, NextStudent
  <2>3. at[c] # at[d] /\ Place(at[c], seen[d]) <= Place(at[d], seen[d])
    BY <2>1, <2>2 DEF Inv, WritesInOrder
  <2> QED
    BY <2>2, <2>3 DEF Place
<1> QED
  BY <1>1, Invariance, PTL

-----------------------------------------------------------------------------
(* Every step is a whole close, an approval, or nothing to the book.       *)
LEMMA BookStep == Inv /\ [Next]_vars => [Book!BookNext]_Book!bookVars
<1> SUFFICES ASSUME Inv, [Next]_vars
             PROVE  [Book!BookNext]_Book!bookVars
  OBVIOUS
<1>1. ASSUME NEW c \in Closers, CloseCommits(c)
      PROVE  Book!BookNext
  <2> DEFINE average == [s \in Written(c) |-> draft[c][s]]
  <2>1. class[c] \in Classes
    BY <1>1 DEF CloseCommits, Inv, TypeOK, OrNone, WritersLoop
  <2>2. Written(c) \in SUBSET Students /\ average \in [Written(c) -> Values]
    BY DEF Inv, TypeOK, OrNone, Written
  <2>3. Book!Close(class[c], average)
    BY <1>1 DEF CloseCommits, Publish, Book!Close
  <2> QED
    BY <2>1, <2>2, <2>3 DEF Book!BookNext
<1>2. ASSUME NEW a \in Approvers, ApproveCommits(a)
      PROVE  Book!BookNext
  <2>1. aim[a] \in Students
    BY <1>2 DEF ApproveCommits, Inv, TypeOK, OrNone
  <2>2. Book!Approve(aim[a], a)
    BY <1>2 DEF ApproveCommits, Inv, RowsFirst, Book!Approve
  <2> QED
    BY <2>1, <2>2 DEF Book!BookNext
<1>3. ASSUME NEW c \in Closers,
             \/ \E k \in Classes : CloseBegins(c, k)
             \/ SkipStudent(c)
             \/ Upsert(c)
             \/ CloseFails(c)
      PROVE  UNCHANGED Book!bookVars
  BY <1>3 DEF CloseBegins, SkipStudent, Upsert, CloseFails, rowVars,
     Book!bookVars
<1>4. ASSUME NEW a \in Approvers,
             \/ \E s \in Students : ApproveChecks(a, s)
             \/ ApproveFails(a)
      PROVE  UNCHANGED Book!bookVars
  BY <1>4 DEF ApproveChecks, ApproveFails, rowVars, Book!bookVars
<1>5. ASSUME NEW s \in Leavers, Erase(s)
      PROVE  UNCHANGED Book!bookVars
  BY <1>5 DEF Erase, rowVars, Book!bookVars
<1>6. CASE UNCHANGED vars
  BY <1>6 DEF vars, rowVars, Book!bookVars
<1> QED
  BY <1>1, <1>2, <1>3, <1>4, <1>5, <1>6 DEF Next, CloseStep, Deadlock

(* Overlapping requests act like whole closes and approvals in some order: *)
(* none takes a class or an approval back (average_handler.go:204-390,     *)
(* averages.sql:12-34).                                                    *)
THEOREM BookImplemented == Spec => BookSpec
<1>1. Init => Book!BookInit
  BY DEF Init, Blank, Book!BookInit
<1> QED
  BY <1>1, Invariance, BookStep, PTL DEF Spec, BookSpec, Book!BookSpec

-----------------------------------------------------------------------------
(* What computeAverage returns.                                            *)

USE MinGradesPositive, NoneIsNoQualifier

LEMMA RuleTypeStep == RuleTypeOK /\ [RuleNext]_ruleVars => RuleTypeOK'
<1> SUFFICES ASSUME RuleTypeOK, [RuleNext]_ruleVars
             PROVE  RuleTypeOK'
  OBVIOUS
<1> USE DEF RuleTypeOK
<1>1. ASSUME NEW g \in 1..10, EnterNumeric(g) PROVE RuleTypeOK'
  BY <1>1 DEF EnterNumeric
<1>2. ASSUME NEW q \in Qualifiers, EnterQualifier(q) PROVE RuleTypeOK'
  BY <1>2 DEF EnterQualifier
<1>3. CASE UNCHANGED ruleVars
  BY <1>3 DEF ruleVars
<1> QED
  BY <1>1, <1>2, <1>3 DEF RuleNext

(* Sums and counts are natural numbers (average_handler.go:443-505).       *)
THEOREM RuleTypeCorrect == RuleSpec => []RuleTypeOK
<1>1. RuleInit => RuleTypeOK
  BY DEF RuleInit, RuleTypeOK
<1> QED
  BY <1>1, RuleTypeStep, PTL DEF RuleSpec

LEMMA Division ==
  ASSUME NEW a \in Int, NEW b \in Nat \ {0}
  PROVE  /\ a \div b \in Int
         /\ a % b \in 0..(b - 1)
         /\ a = b * (a \div b) + (a % b)
  OBVIOUS

(* The next whole number, unless the quotient is one.                      *)
LEMMA RoundedUp ==
  ASSUME NEW a \in Int, NEW b \in Nat \ {0}
  PROVE  /\ a % b # 0 => b * (a \div b + 1) - a \in 0..b
         /\ a % b = 0 => b * (a \div b) - a = 0
         /\ a % b = 0 => b * (a \div b + 1) - a = b
<1> DEFINE q == a \div b
           r == a % b
<1>1. q \in Int /\ r \in 0..(b - 1) /\ a = b * q + r
  BY Division
<1> HIDE DEF q, r
<1>2. b * q \in Int /\ b * (q + 1) = b * q + b
  BY <1>1
<1>3. b * q - a = - r /\ b * (q + 1) - a = b - r
  BY <1>1, <1>2
<1>4. /\ r # 0 => b * (q + 1) - a \in 0..b
      /\ r = 0 => b * q - a = 0
      /\ r = 0 => b * (q + 1) - a = b
  BY <1>1, <1>3
<1> QED
  BY <1>4 DEF q, r

(* The nearest whole number, the upper one of two.                         *)
LEMMA RoundedToNearest ==
  ASSUME NEW a \in Int, NEW b \in Nat \ {0}
  PROVE  2 * (b * ((2 * a + b) \div (2 * b)) - a) \in (1 - b)..b
<1> DEFINE n == 2 * a + b
           d == 2 * b
           q == n \div d
           r == n % d
<1>1. q \in Int /\ r \in 0..(d - 1) /\ n = d * q + r
  <2>1. n \in Int /\ d \in Nat \ {0}
    OBVIOUS
  <2> HIDE DEF n, d
  <2> QED
    BY <2>1, Division
<1> HIDE DEF q, r
<1>2. b * q \in Int /\ d * q = 2 * (b * q)
  BY <1>1
<1>3. 2 * (b * q - a) = b - r
  BY <1>1, <1>2
<1>4. 2 * (b * q - a) \in (1 - b)..b
  BY <1>1, <1>2, <1>3
<1> QED
  BY <1>4 DEF q, n, d

(* The average is the mean rounded to the hundredth, whatever float64      *)
(* makes of the means (average_handler.go:532-534, 565).                   *)
THEOREM AverageRounded == RuleSpec => []RoundingRight
<1>1. RuleTypeOK => RoundingRight
  <2> SUFFICES ASSUME RuleTypeOK, count >= MinGrades,
                      NEW rule \in RoundingRules
               PROVE  LET off == count * NumericAverage(rule) - 100 * sum
                      IN  IF rule = "round_up"
                          THEN off \in 0..count
                          ELSE 2 * off \in (1 - count)..count
    BY DEF RoundingRight
  <2> DEFINE whole == (100 * sum) \div count
  <2>1. 100 * sum \in Int /\ count \in Nat \ {0}
    BY DEF RuleTypeOK
  <2>2. NumericAverage(rule) = Rounded(rule)
    BY <2>1 DEF NumericAverage, FloatToNumeric
  <2>3. CASE rule = "round_up"
    <3>1. \/ (100 * sum) % count # 0 /\ Rounded(rule) = whole + 1
          \/ (100 * sum) % count = 0 /\ Rounded(rule) = whole + 1
          \/ (100 * sum) % count = 0 /\ Rounded(rule) = whole + 0
      BY <2>3 DEF Rounded
    <3>2. whole + 0 = whole
      BY <2>1, Division
    <3>3. LET r == (100 * sum) % count IN
            /\ r # 0 => count * (whole + 1) - 100 * sum \in 0..count
            /\ r = 0 => count * whole - 100 * sum = 0
            /\ r = 0 => count * (whole + 1) - 100 * sum = count
      BY <2>1, RoundedUp
    <3> HIDE DEF whole
    <3>4. count * Rounded(rule) - 100 * sum \in 0..count
      <4>1. CASE (100 * sum) % count # 0 /\ Rounded(rule) = whole + 1
        BY <3>3, <4>1
      <4>2. CASE (100 * sum) % count = 0 /\ Rounded(rule) = whole + 1
        BY <2>1, <3>3, <4>2
      <4>3. CASE (100 * sum) % count = 0 /\ Rounded(rule) = whole + 0
        BY <2>1, <3>2, <3>3, <4>3
      <4> QED
        BY <3>1, <4>1, <4>2, <4>3
    <3> QED
      BY <2>2, <2>3, <3>4
  <2>4. CASE rule # "round_up"
    <3>1. Rounded(rule) = (200 * sum + count) \div (2 * count)
      BY <2>4 DEF Rounded
    <3>2. 200 * sum = 2 * (100 * sum)
      BY DEF RuleTypeOK
    <3>3. 2 * (count * Rounded(rule) - 100 * sum) \in (1 - count)..count
      BY <2>1, <3>1, <3>2, RoundedToNearest
    <3> QED
      BY <2>2, <2>4, <3>3
  <2> QED
    BY <2>3, <2>4
<1> QED
  BY <1>1, RuleTypeCorrect, PTL

(* The loop over qualOrder has a value after each turn.                    *)
LEMMA BestLoop ==
  /\ Best[0] = None
  /\ \A i \in 1..4 : Best[i] = Better(Best[i - 1], QualOrder[i])
<1> DEFINE b1 == Better(None, "FB")
           b2 == Better(b1, "B")
           b3 == Better(b2, "S")
           b4 == Better(b3, "I")
           turns == [i \in 0..4 |-> IF i = 0 THEN None
                                    ELSE IF i = 1 THEN b1
                                    ELSE IF i = 2 THEN b2
                                    ELSE IF i = 3 THEN b3 ELSE b4]
           Loop(f) == f = [i \in 0..4 |->
                             IF i = 0 THEN None
                             ELSE Better(f[i - 1], QualOrder[i])]
<1>1. Len(QualOrder) = 4
  BY DEF QualOrder
<1>2. /\ QualOrder[1] = "FB" /\ QualOrder[2] = "B"
      /\ QualOrder[3] = "S" /\ QualOrder[4] = "I"
  BY DEF QualOrder
<1>3. Loop(turns)
  <2> HIDE DEF b1, b2, b3, b4
  <2>1. /\ turns[0] = None /\ turns[1] = b1 /\ turns[2] = b2
        /\ turns[3] = b3 /\ turns[4] = b4
    OBVIOUS
  <2>2. \A i \in 0..4 :
          turns[i] = IF i = 0 THEN None ELSE Better(turns[i - 1], QualOrder[i])
    BY <1>2, <2>1 DEF b1, b2, b3, b4
  <2> QED
    BY <2>2
<1>4. Best = CHOOSE f : Loop(f)
  BY <1>1 DEF Best
<1>5. Loop(Best)
  BY <1>3, <1>4
<1> QED
  BY <1>5

(* Whom the loop has found when it has been through the first ones: none   *)
(* if none has been given, otherwise the first of the most frequent.       *)
LEMMA LoopFindsMost ==
  ASSUME RuleTypeOK
  PROVE  \A n \in 0..4 :
           \/ /\ Best[n] = None
              /\ \A j \in 1..n : tally[QualOrder[j]] = 0
           \/ \E i \in 1..n :
                /\ Best[n] = QualOrder[i]
                /\ \A j \in 1..n :
                     IF j < i THEN tally[QualOrder[j]] < tally[QualOrder[i]]
                              ELSE tally[QualOrder[j]] <= tally[QualOrder[i]]
<1> DEFINE Found(n) ==
      \/ /\ Best[n] = None
         /\ \A j \in 1..n : tally[QualOrder[j]] = 0
      \/ \E i \in 1..n :
           /\ Best[n] = QualOrder[i]
           /\ tally[QualOrder[i]] > 0
           /\ \A j \in 1..n :
                IF j < i THEN tally[QualOrder[j]] < tally[QualOrder[i]]
                         ELSE tally[QualOrder[j]] <= tally[QualOrder[i]]
<1>1. \A i \in 1..4 : QualOrder[i] \in Qualifiers /\ tally[QualOrder[i]] \in Nat
  BY DEF RuleTypeOK, Qualifiers, QualOrder
<1>2. Found(0)
  BY BestLoop
<1>3. ASSUME NEW n \in 1..4, Found(n - 1) PROVE Found(n)
  <2>1. Best[n] = Better(Best[n - 1], QualOrder[n])
    BY BestLoop
  <2>2. CASE Best[n - 1] = None /\ \A j \in 1..(n - 1) : tally[QualOrder[j]] = 0
    BY <1>1, <2>1, <2>2 DEF Better
  <2>3. ASSUME NEW i \in 1..(n - 1),
               Best[n - 1] = QualOrder[i],
               tally[QualOrder[i]] > 0,
               \A j \in 1..(n - 1) :
                 IF j < i THEN tally[QualOrder[j]] < tally[QualOrder[i]]
                          ELSE tally[QualOrder[j]] <= tally[QualOrder[i]]
        PROVE  Found(n)
    <3>1. Best[n - 1] # None
      BY <1>1, <2>3
    <3>2. CASE tally[QualOrder[n]] > tally[QualOrder[i]]
      <4>1. Best[n] = QualOrder[n]
        BY <2>1, <2>3, <3>1, <3>2 DEF Better
      <4>2. \A j \in 1..(n - 1) : tally[QualOrder[j]] < tally[QualOrder[n]]
        BY <1>1, <2>3, <3>2
      <4> QED
        BY <1>1, <2>3, <3>2, <4>1, <4>2
    <3>3. CASE ~ (tally[QualOrder[n]] > tally[QualOrder[i]])
      <4>1. Best[n] = QualOrder[i]
        BY <2>1, <2>3, <3>1, <3>3 DEF Better
      <4>2. tally[QualOrder[n]] <= tally[QualOrder[i]]
        BY <1>1, <3>3
      <4> QED
        BY <1>1, <2>3, <4>1, <4>2
    <3> QED
      BY <3>2, <3>3
  <2> QED
    BY <1>3, <2>2, <2>3
<1> HIDE DEF Found
<1>4. Found(1) /\ Found(2) /\ Found(3) /\ Found(4)
  BY <1>2, <1>3
<1>5. \A n \in 0..4 : Found(n)
  BY <1>2, <1>4
<1> QED
  BY <1>5 DEF Found

(* The most frequent qualifier wins, on a tie the higher one               *)
(* (average_handler.go:427-428, 455-470).                                  *)
THEOREM MajorityFound == RuleSpec => []MajorityWins
<1>1. RuleTypeOK => MajorityWins
  <2> SUFFICES ASSUME RuleTypeOK, Total >= MinGrades
               PROVE  \E i \in DOMAIN QualOrder :
                        /\ QualifierAverage = QualOrder[i]
                        /\ \A j \in DOMAIN QualOrder :
                             IF j < i
                             THEN tally[QualOrder[j]] < tally[QualOrder[i]]
                             ELSE tally[QualOrder[j]] <= tally[QualOrder[i]]
    BY DEF MajorityWins
  <2>1. Len(QualOrder) = 4 /\ DOMAIN QualOrder = 1..4
    BY DEF QualOrder
  <2>2. /\ QualOrder[1] = "FB" /\ QualOrder[2] = "B"
        /\ QualOrder[3] = "S" /\ QualOrder[4] = "I"
    BY DEF QualOrder
  <2>3. \A i \in 1..4 : tally[QualOrder[i]] \in Nat
    BY <2>1, <2>2 DEF RuleTypeOK, Qualifiers
  <2>4. QualifierAverage = Best[4]
    <3>1. Total \in Nat
      BY <2>2, <2>3 DEF Total
    <3> QED
      BY <2>1, <3>1 DEF QualifierAverage
  <2>5. ~ \A j \in 1..4 : tally[QualOrder[j]] = 0
    BY <2>2, <2>3 DEF Total
  <2> QED
    BY <2>1, <2>4, <2>5, LoopFindsMost
<1> QED
  BY <1>1, RuleTypeCorrect, PTL

=============================================================================
