--------------------------- MODULE SyncPull_proofs ---------------------------
(***************************************************************************)
(* Proofs about GradeTable and SyncPull, for any number of grades, users   *)
(* and requests, any clock and any length of a second.                     *)
(*                                                                         *)
(* DeletedStaysDeleted rests on the row lock: only one open transaction    *)
(* has written a row (OneWriter), and when it has updated it, the row is   *)
(* live and stays so until that transaction is over (UpdatedIsLive).       *)
(* PullBringsUnlessStraddled is inductive by itself.                       *)
(*                                                                         *)
(* GradeLifeSpec needs that the row a commit writes is new or live, or was *)
(* deleted by a deletion that came first: UpdatedIsLive again.             *)
(***************************************************************************)
EXTENDS SyncPull, TLAPS

USE NoneIsNothing, TimeBound, SecondTicks

HasWritten(w) == phase[w] \in {"created", "updated", "deleted"}

OneWriter ==
  \A w, x \in Writers :
    HasWritten(w) /\ HasWritten(x) /\ target[w] = target[x] => w = x

UpdatedIsLive ==
  \A w \in Writers :
    /\ phase[w] \in {"updating", "updated", "deleting", "deleted"} =>
         target[w] \in Grades /\ state[target[w]] # "none"
    /\ phase[w] = "updated" => state[target[w]] = "live"
    /\ phase[w] = "created" =>
         /\ target[w] \in Grades /\ state[target[w]] = "none"
         /\ \A x \in Writers \ {w} : target[x] # target[w]
    /\ HasWritten(w) /\ phase[w] # "deleted" => draft[w] \in Values

Inv ==
  /\ TypeOK
  /\ OneWriter
  /\ UpdatedIsLive

-----------------------------------------------------------------------------
(* Truncation to a second goes down, and not below the epoch.              *)
LEMMA TruncatedNat ==
  ASSUME NEW t \in Nat
  PROVE  Truncated(t) \in Nat
<1>1. t % Second \in Nat /\ t % Second < Second
  OBVIOUS
<1>2. t % Second <= t
  <2>1. CASE t < Second
    <3>1. t % Second = t
      BY <2>1
    <3> QED
      BY <3>1
  <2>2. CASE ~ t < Second
    BY <1>1, <2>2
  <2> QED
    BY <2>1, <2>2
<1> QED
  BY <1>1, <1>2 DEF Truncated

LEMMA TableTypeStep == 
  ASSUME TableTypeOK, TableNext
  PROVE  TableTypeOK'
<1> USE DEF TableTypeOK, Phases, RowStates, Users, rowVars, writerVars
<1>1. CASE Tick
  BY <1>1 DEF Tick
<1>2. ASSUME NEW w \in Writers, NEW u \in Users, Begin(w, u)
      PROVE  TableTypeOK'
  BY <1>2 DEF Begin
<1>3. ASSUME NEW w \in Writers, NEW g \in Grades, NEW v \in Values,
             Create(w, g, v)
      PROVE  TableTypeOK'
  BY <1>3 DEF Create
<1>4. ASSUME NEW w \in Writers, NEW g \in Grades,
             Find(w, g, "updating") \/ Find(w, g, "deleting")
      PROVE  TableTypeOK'
  BY <1>4 DEF Find
<1>5. ASSUME NEW w \in Writers, NEW v \in Values, Update(w, v)
      PROVE  TableTypeOK'
  BY <1>5 DEF Update
<1>6. ASSUME NEW w \in Writers, SoftDelete(w) \/ MissesRow(w)
      PROVE  TableTypeOK'
  BY <1>6 DEF SoftDelete, MissesRow
<1>7. ASSUME NEW w \in Writers, Fail(w)
      PROVE  TableTypeOK'
  BY <1>7 DEF Fail, WriterDone
<1>8. ASSUME NEW w \in Writers, Commit(w)
      PROVE  TableTypeOK'
  BY <1>8 DEF Commit, WriterDone
<1> QED
  BY <1>1, <1>2, <1>3, <1>4, <1>5, <1>6, <1>7, <1>8 DEF TableNext, Write, ApplyGradeUpdate,
     ApplyGradeDelete

-----------------------------------------------------------------------------
(* The lock of a written row, kept by every step of the table.             *)
LEMMA LocksInit == Init => OneWriter /\ UpdatedIsLive
  BY DEF Init, TableInit, OneWriter, UpdatedIsLive, HasWritten

LEMMA LocksStep ==
  ASSUME TableTypeOK, OneWriter, UpdatedIsLive, TableNext
  PROVE  OneWriter' /\ UpdatedIsLive'
<1> USE DEF TableTypeOK, Phases, RowStates, OneWriter, UpdatedIsLive,
            HasWritten, rowVars, writerVars
<1>1. CASE Tick
  BY <1>1 DEF Tick
<1>2. ASSUME NEW w \in Writers, NEW u \in Users, Begin(w, u)
      PROVE  OneWriter' /\ UpdatedIsLive'
  BY <1>2 DEF Begin
<1>3. ASSUME NEW w \in Writers, NEW g \in Grades, NEW v \in Values,
             Create(w, g, v)
      PROVE  OneWriter' /\ UpdatedIsLive'
  BY <1>3 DEF Create, Unused
<1>4. ASSUME NEW w \in Writers, NEW g \in Grades,
             Find(w, g, "updating") \/ Find(w, g, "deleting")
      PROVE  OneWriter' /\ UpdatedIsLive'
  BY <1>4 DEF Find
<1>5. ASSUME NEW w \in Writers, NEW v \in Values, Update(w, v)
      PROVE  OneWriter' /\ UpdatedIsLive'
  BY <1>5 DEF Update, Locked
<1>6. ASSUME NEW w \in Writers, SoftDelete(w) \/ MissesRow(w)
      PROVE  OneWriter' /\ UpdatedIsLive'
  BY <1>6 DEF SoftDelete, MissesRow, Locked
<1>7. ASSUME NEW w \in Writers, Fail(w)
      PROVE  OneWriter' /\ UpdatedIsLive'
  BY <1>7 DEF Fail, WriterDone
<1>8. ASSUME NEW w \in Writers, Commit(w)
      PROVE  OneWriter' /\ UpdatedIsLive'
  BY <1>8 DEF Commit, WriterDone
<1> QED
  BY <1>1, <1>2, <1>3, <1>4, <1>5, <1>6, <1>7, <1>8 DEF TableNext, Write, ApplyGradeUpdate,
     ApplyGradeDelete

(* What a step of SyncPull does to the table is a step of the table.       *)
LEMMA StepOfTable ==
  ASSUME [Next]_vars
  PROVE  TableNext \/ UNCHANGED tableVars
  BY DEF Next, vars, WriteOrTick, CommitMarks, PullBegins, PullReads,
         PullEnds, PullFails, TableNext

LEMMA TypeOKInit == Init => TypeOK
  BY DEF Init, TableInit, TypeOK, TableTypeOK, Row, Rows, RowStates, Phases

LEMMA PullTypeStep ==
  ASSUME Inv, [Next]_vars
  PROVE  TypeOK'
<1>1. TableTypeOK'
  BY StepOfTable, TableTypeStep
     DEF Inv, TypeOK, TableTypeOK, tableVars, rowVars, writerVars
<1> USE <1>1 DEF Inv, TypeOK
<1>2. \A g \in Grades : Row(g) \in Rows
  BY DEF TableTypeOK, Row, Rows
<1>3. CASE WriteOrTick
  BY <1>3 DEF WriteOrTick, pullVars
<1>4. ASSUME NEW w \in Writers, CommitMarks(w)
      PROVE  TypeOK'
  BY <1>4 DEF CommitMarks, Commit, UpdatedIsLive
<1>5. CASE PullBegins
  BY <1>5 DEF PullBegins, TableTypeOK
<1>6. CASE PullReads
  BY <1>2, <1>6 DEF PullReads
<1>7. CASE PullEnds
  BY <1>7, TruncatedNat DEF PullEnds
<1>8. CASE PullFails
  BY <1>8 DEF PullFails
<1>9. CASE UNCHANGED vars
  BY <1>9 DEF vars, pullVars
<1> QED
  BY <1>3, <1>4, <1>5, <1>6, <1>7, <1>8, <1>9 DEF Next

LEMMA Invariant == Spec => []Inv
<1>1. Init => Inv
  BY TypeOKInit, LocksInit DEF Inv
<1>2. Inv /\ [Next]_vars => Inv'
  <2> SUFFICES ASSUME Inv, [Next]_vars
               PROVE  Inv'
    OBVIOUS
  <2>1. TypeOK'
    BY PullTypeStep
  <2>2. OneWriter' /\ UpdatedIsLive'
    <3>1. CASE TableNext
      BY <3>1, LocksStep DEF Inv, TypeOK
    <3>2. CASE UNCHANGED tableVars
      BY <3>2 DEF Inv, tableVars, rowVars, writerVars, OneWriter,
                  UpdatedIsLive, HasWritten
    <3> QED
      BY <3>1, <3>2, StepOfTable
  <2> QED
    BY <2>1, <2>2 DEF Inv
<1> QED
  BY <1>1, <1>2, PTL DEF Spec

(* The rows, the transactions and what a client keeps of its pulls are     *)
(* what they are declared to be (handler.go:285-670,                       *)
(* sync_pull_handler.go:61-190).                                           *)
THEOREM TypeCorrect == Spec => []TypeOK
<1>1. Inv => TypeOK
  BY DEF Inv
<1> QED
  BY <1>1, Invariant, PTL

-----------------------------------------------------------------------------
(* A deleted grade stays deleted, with the content it had, whatever        *)
(* updates of it were under way (handler.go:477-590, grades.sql:23-32).    *)
THEOREM DeletedForGood == Spec => DeletedStaysDeleted
<1>1. Inv /\ [Next]_vars =>
        [\A g \in Grades :
           state[g] = "deleted" =>
             state'[g] = "deleted" /\ content'[g] = content[g]]_tableVars
  <2> SUFFICES ASSUME Inv, [Next]_vars, NEW g \in Grades, ~ UNCHANGED tableVars,
                      state[g] = "deleted"
               PROVE  state'[g] = "deleted" /\ content'[g] = content[g]
    OBVIOUS
  <2> USE DEF Inv, TypeOK, TableTypeOK
  <2>1. ASSUME NEW w \in Writers, Commit(w)
        PROVE  state'[g] = "deleted" /\ content'[g] = content[g]
    BY <2>1 DEF Commit, UpdatedIsLive
  <2>2. CASE Tick \/ \E w \in Writers : Write(w)
    BY <2>2 DEF Tick, Write, ApplyGradeUpdate, ApplyGradeDelete, Begin,
                Create, Find, Update, MissesRow, SoftDelete, Fail,
                WriterDone, rowVars
  <2> QED
    BY <2>1, <2>2, StepOfTable DEF TableNext
<1> QED
  BY <1>1, Invariant, PTL DEF Spec, DeletedStaysDeleted

-----------------------------------------------------------------------------
(* The authorization of a request holds until it commits: no step changes  *)
(* the author of a row that a request has found.                           *)
AuthorFound ==
  /\ \A w \in Writers : phase[w] # "idle" => user[w] \in Users
  /\ \A w \in Writers :
       phase[w] \in {"updating", "updated", "deleting", "deleted"} =>
         MayChange(user[w], target[w])

LEMMA AuthorStep ==
  ASSUME TableTypeOK, UpdatedIsLive, AuthorFound, TableNext
  PROVE  AuthorFound'
<1> USE DEF TableTypeOK, Phases, RowStates, UpdatedIsLive, AuthorFound,
            HasWritten, MayChange, rowVars, writerVars
<1>1. CASE Tick
  BY <1>1 DEF Tick
<1>2. ASSUME NEW w \in Writers, NEW u \in Users, Begin(w, u)
      PROVE  AuthorFound'
  BY <1>2 DEF Begin
<1>3. ASSUME NEW w \in Writers, NEW g \in Grades, NEW v \in Values,
             Create(w, g, v)
      PROVE  AuthorFound'
  BY <1>3 DEF Create
<1>4. ASSUME NEW w \in Writers, NEW g \in Grades,
             Find(w, g, "updating") \/ Find(w, g, "deleting")
      PROVE  AuthorFound'
  BY <1>4 DEF Find
<1>5. ASSUME NEW w \in Writers, NEW v \in Values, Update(w, v)
      PROVE  AuthorFound'
  BY <1>5 DEF Update
<1>6. ASSUME NEW w \in Writers, SoftDelete(w) \/ MissesRow(w)
      PROVE  AuthorFound'
  BY <1>6 DEF SoftDelete, MissesRow
<1>7. ASSUME NEW w \in Writers, Fail(w)
      PROVE  AuthorFound'
  BY <1>7 DEF Fail, WriterDone
<1>8. ASSUME NEW w \in Writers, Commit(w)
      PROVE  AuthorFound'
  BY <1>8 DEF Commit, WriterDone
<1> QED
  BY <1>1, <1>2, <1>3, <1>4, <1>5, <1>6, <1>7, <1>8 DEF TableNext, Write, ApplyGradeUpdate,
     ApplyGradeDelete

LEMMA AuthorInvariant == Spec => []AuthorFound
<1>1. Init => AuthorFound
  BY DEF Init, TableInit, AuthorFound
<1>2. Inv /\ AuthorFound /\ [Next]_vars => AuthorFound'
  BY StepOfTable, AuthorStep
     DEF Inv, TypeOK, tableVars, rowVars, writerVars, AuthorFound, MayChange
<1> QED
  BY <1>1, <1>2, Invariant, PTL DEF Spec

(* Of the teachers, only the author of a grade changes or deletes it       *)
(* (handler.go:526, 653, sync_handler.go:549, 637).                        *)
THEOREM AuthorOnly == Spec => OnlyAuthorChanges
<1> DEFINE Changed(g) ==
      /\ state[g] # "none"
      /\ <<state[g], content[g]>>' # <<state[g], content[g]>>
    ByAuthor(g) ==
      \E w \in Writers :
        target[w] = g /\ (user[w] = author[g] \/ user[w] \in Others)
<1>1. Inv /\ AuthorFound /\ [Next]_vars =>
        [\A g \in Grades : Changed(g) => ByAuthor(g)]_tableVars
  <2> SUFFICES ASSUME Inv, AuthorFound, [Next]_vars, NEW g \in Grades,
                      ~ UNCHANGED tableVars, Changed(g)
               PROVE  ByAuthor(g)
    OBVIOUS
  <2> USE DEF Inv, TypeOK, TableTypeOK
  <2>1. ASSUME NEW w \in Writers, Commit(w)
        PROVE  ByAuthor(g)
    <3>1. target[w] = g /\ phase[w] \in {"updated", "deleted"}
      BY <2>1 DEF Commit, UpdatedIsLive
    <3>2. user[w] \in Users /\ MayChange(user[w], g)
      BY <3>1 DEF AuthorFound
    <3> QED
      BY <3>1, <3>2 DEF MayChange, Users
  <2>2. CASE Tick \/ \E w \in Writers : Write(w)
    BY <2>2 DEF Tick, Write, ApplyGradeUpdate, ApplyGradeDelete, Begin,
                Create, Find, Update, MissesRow, SoftDelete, Fail,
                WriterDone, rowVars
  <2> QED
    BY <2>1, <2>2, StepOfTable DEF TableNext
<1> QED
  BY <1>1, Invariant, AuthorInvariant, PTL DEF Spec, OnlyAuthorChanges

-----------------------------------------------------------------------------
(* A commit is one step of one user in the life of the grade it is about;  *)
(* a second deletion is none, and nothing else is seen of a request.       *)
LEMMA LifeStep ==
  ASSUME Inv, AuthorFound, TableNext
  PROVE  Life!LifeNext \/ UNCHANGED Life!lifeVars
<1> USE DEF Inv, TypeOK, TableTypeOK, RowStates, Users
<1>1. ASSUME NEW w \in Writers, Commit(w)
      PROVE  Life!LifeNext \/ UNCHANGED Life!lifeVars
  <2>1. PICK g \in Grades : g = target[w]
    BY <1>1 DEF Commit, UpdatedIsLive
  <2>2. user[w] \in Users
    BY <1>1 DEF Commit, AuthorFound
  <2>3. CASE phase[w] = "created"
    <3>1. PICK v \in Values : v = draft[w]
      BY <2>3 DEF UpdatedIsLive, HasWritten
    <3>2. state[g] = "none"
      BY <2>1, <2>3 DEF UpdatedIsLive
    <3>3. Life!Enter(g, user[w], v)
      BY <1>1, <2>1, <2>3, <3>1, <3>2 DEF Commit, Life!Enter
    <3> QED
      BY <2>2, <3>3 DEF Life!LifeNext
  <2>4. CASE phase[w] = "updated"
    <3>1. PICK v \in Values : v = draft[w]
      BY <2>4 DEF UpdatedIsLive, HasWritten
    <3>2. state[g] = "live"
      BY <2>1, <2>4 DEF UpdatedIsLive
    <3>3. Life!Change(g, v)
      BY <1>1, <2>1, <2>4, <3>1, <3>2 DEF Commit, Life!Change
    <3> QED
      BY <3>3 DEF Life!LifeNext
  <2>5. CASE phase[w] = "deleted"
    <3>1. state[g] # "none"
      BY <2>1, <2>5 DEF UpdatedIsLive
    <3>2. /\ state' = [state EXCEPT ![g] = "deleted"]
          /\ UNCHANGED <<content, author>>
      BY <1>1, <2>1, <2>5 DEF Commit
    <3>3. CASE state[g] = "live"
      <4>1. Life!Remove(g)
        BY <3>2, <3>3 DEF Life!Remove
      <4> QED
        BY <4>1 DEF Life!LifeNext
    <3>4. CASE state[g] = "deleted"
      BY <3>2, <3>4 DEF Life!lifeVars
    <3> QED
      BY <3>1, <3>3, <3>4
  <2> QED
    BY <1>1, <2>3, <2>4, <2>5 DEF Commit
<1>2. CASE Tick \/ \E w \in Writers : Write(w)
  BY <1>2 DEF Tick, Write, ApplyGradeUpdate, ApplyGradeDelete, Begin,
                Create, Find, Update, MissesRow, SoftDelete, Fail,
              WriterDone, rowVars, Life!lifeVars
<1> QED
  BY <1>1, <1>2 DEF TableNext

(* Requests that interleave act on a grade like one user after the other   *)
(* (handler.go:285-670, sync_handler.go:477-660, grades.sql:15-32).        *)
THEOREM GradeLifeImplemented == Spec => GradeLifeSpec
<1>1. Init => Life!LifeInit
  BY DEF Init, TableInit, Life!LifeInit
<1>2. Inv /\ AuthorFound /\ [Next]_vars => [Life!LifeNext]_(Life!lifeVars)
  <2>1. UNCHANGED tableVars => UNCHANGED Life!lifeVars
    BY DEF tableVars, rowVars, Life!lifeVars
  <2> QED
    BY <2>1, StepOfTable, LifeStep
<1> QED
  BY <1>1, <1>2, Invariant, AuthorInvariant, PTL
     DEF Spec, GradeLifeSpec, Life!LifeSpec

-----------------------------------------------------------------------------
(* A grade that was never committed cannot be missing: the condition on    *)
(* the state in Modified hides nothing.                                    *)
NothingYet == \A g \in Grades : state[g] = "none" => ~ Stale(g)

LEMMA NothingYetInvariant == Spec => []NothingYet
<1>1. Init => NothingYet
  BY DEF Init, TableInit, NothingYet, Stale, Row
<1>2. Inv /\ NothingYet /\ [Next]_vars => NothingYet'
  <2> SUFFICES ASSUME Inv, NothingYet, [Next]_vars, NEW g \in Grades,
                      state'[g] = "none"
               PROVE  ~ Stale(g)'
    BY DEF NothingYet
  <2> USE DEF Inv, TypeOK, TableTypeOK, NothingYet, Stale, Row
  <2>1. CASE WriteOrTick
    BY <2>1 DEF WriteOrTick, Tick, Write, ApplyGradeUpdate,
                ApplyGradeDelete, Begin, Create, Find, Update, MissesRow,
                SoftDelete, Fail, WriterDone, rowVars, pullVars
  <2>2. ASSUME NEW w \in Writers, CommitMarks(w)
        PROVE  ~ Stale(g)'
    <3>1. target[w] # g
      BY <2>2 DEF CommitMarks, Commit, UpdatedIsLive, HasWritten
    <3> QED
      BY <2>2, <3>1 DEF CommitMarks, Commit
  <2>3. CASE PullReads
    BY <2>3 DEF PullReads, tableVars, rowVars
  <2>4. CASE PullBegins \/ PullEnds \/ PullFails \/ UNCHANGED vars
    BY <2>4 DEF PullBegins, PullEnds, PullFails, vars, tableVars, rowVars,
                pullVars
  <2> QED
    BY <2>1, <2>2, <2>3, <2>4 DEF Next
<1> QED
  BY <1>1, <1>2, Invariant, PTL DEF Spec

(* What a client lacks is pulled next, or was written by a transaction     *)
(* under way across an earlier pull (sync_pull_handler.go:101-189).        *)
THEOREM PullBrings == Spec => []PullBringsUnlessStraddled
<1>1. Init => PullBringsUnlessStraddled
  BY DEF Init, TableInit, PullBringsUnlessStraddled, Stale, Row
<1>2. Inv /\ NothingYet /\ PullBringsUnlessStraddled /\ [Next]_vars
        => PullBringsUnlessStraddled'
  <2> SUFFICES ASSUME Inv, NothingYet, PullBringsUnlessStraddled, [Next]_vars,
                      NEW g \in Grades, Stale(g)'
               PROVE  stamp'[g] > Horizon' \/ g \in missed'
    BY DEF PullBringsUnlessStraddled
  <2> USE DEF Inv, TypeOK, TableTypeOK, PullBringsUnlessStraddled, Stale,
              Row, Horizon
  <2>1. CASE WriteOrTick
    BY <2>1 DEF WriteOrTick, Tick, Write, ApplyGradeUpdate,
                ApplyGradeDelete, Begin, Create, Find, Update, MissesRow,
                SoftDelete, Fail, WriterDone, rowVars, pullVars
  <2>2. ASSUME NEW w \in Writers, CommitMarks(w)
        PROVE  stamp'[g] > Horizon' \/ g \in missed'
    <3>1. Horizon \in Nat /\ Horizon' = Horizon
      BY <2>2, TruncatedNat DEF CommitMarks
    <3>2. CASE target[w] = g
      BY <2>2, <3>1, <3>2 DEF CommitMarks, Commit, Straddles
    <3>3. CASE target[w] # g
      BY <2>2, <3>1, <3>3 DEF CommitMarks, Commit, Straddles
    <3> QED
      BY <3>2, <3>3
  <2>3. CASE PullBegins
    BY <2>3 DEF PullBegins, tableVars, rowVars
  <2>4. CASE PullReads
    BY <2>4 DEF PullReads, Modified, NothingYet, tableVars, rowVars
  <2>5. CASE PullEnds
    BY <2>5 DEF PullEnds, tableVars, rowVars
  <2>6. CASE PullFails
    BY <2>6 DEF PullFails, tableVars, rowVars
  <2>7. CASE UNCHANGED vars
    BY <2>7 DEF vars, tableVars, rowVars, pullVars
  <2> QED
    BY <2>1, <2>2, <2>3, <2>4, <2>5, <2>6, <2>7 DEF Next
<1> QED
  BY <1>1, <1>2, Invariant, NothingYetInvariant, PTL DEF Spec

=============================================================================
