------------------------------ MODULE GradeTable ------------------------------
(***************************************************************************)
(* The grades table under concurrent requests: CreateGrade, UpdateGrade    *)
(* and DeleteGrade (api/internal/catalog/handler.go), and the updates and  *)
(* deletes of a sync push, which run the same statements                   *)
(* (api/internal/catalog/sync_handler.go).                                 *)
(*                                                                         *)
(* Each request is a READ COMMITTED transaction: it finds the row, writes  *)
(* it, and commits after the handler returned.  updated_at is now(), which *)
(* in PostgreSQL is the time at which the transaction began.  A push may   *)
(* write several rows in its transaction; here it writes one.              *)
(***************************************************************************)
EXTENDS Naturals

CONSTANTS
  Grades,    \* ids of grades
  Values,    \* contents of a grade
  Teachers,
  Others,    \* users of the other roles, whom the handlers do not restrict
  Writers,   \* requests that write, as many as can run at a time
  MaxTime,   \* bound on the clock
  None

ASSUME TimeBound == MaxTime \in Nat
ASSUME NoneIsNothing == None \notin Grades \union Values \union Teachers \union Others

VARIABLES
  clock,
  state,     \* [Grades -> RowStates]; a deleted row has deleted_at set
  content,   \* [Grades -> Values \union {None}]
  author,    \* [Grades -> Users \union {None}], teacher_id
  stamp,     \* [Grades -> Nat], updated_at
  phase,     \* [Writers -> Phases]
  user,      \* [Writers -> Users \union {None}], the claims of the request
  start,     \* [Writers -> Nat], now() of the transaction
  target,    \* [Writers -> Grades \union {None}], the row it is about
  draft      \* [Writers -> Values \union {None}], the new content it wrote

rowVars == <<state, content, author, stamp>>
writerVars == <<phase, user, start, target, draft>>
tableVars == <<clock, rowVars, writerVars>>

Users == Teachers \union Others
RowStates == {"none", "live", "deleted"}

(* What a request is about to do, and what it has done and not committed.  *)
Phases == {"idle", "open", "updating", "deleting",
           "created", "updated", "deleted"}

TableTypeOK ==
  /\ clock \in Nat
  /\ state \in [Grades -> RowStates]
  /\ content \in [Grades -> Values \union {None}]
  /\ author \in [Grades -> Users \union {None}]
  /\ stamp \in [Grades -> Nat]
  /\ phase \in [Writers -> Phases]
  /\ user \in [Writers -> Users \union {None}]
  /\ start \in [Writers -> Nat]
  /\ target \in [Writers -> Grades \union {None}]
  /\ draft \in [Writers -> Values \union {None}]

TableInit ==
  /\ clock = 1
  /\ state = [g \in Grades |-> "none"]
  /\ content = [g \in Grades |-> None]
  /\ author = [g \in Grades |-> None]
  /\ stamp = [g \in Grades |-> 0]
  /\ phase = [w \in Writers |-> "idle"]
  /\ user = [w \in Writers |-> None]
  /\ start = [w \in Writers |-> 0]
  /\ target = [w \in Writers |-> None]
  /\ draft = [w \in Writers |-> None]

Tick ==
  /\ clock < MaxTime
  /\ clock' = clock + 1
  /\ UNCHANGED <<rowVars, writerVars>>

-----------------------------------------------------------------------------
(* TenantContext begins the transaction of an authenticated request.       *)
Begin(w, u) ==
  /\ phase[w] = "idle"
  /\ phase' = [phase EXCEPT ![w] = "open"]
  /\ user' = [user EXCEPT ![w] = u]
  /\ start' = [start EXCEPT ![w] = clock]
  /\ UNCHANGED <<clock, rowVars, target, draft>>

Unused(g) == state[g] = "none" /\ \A w \in Writers : target[w] # g

(* CreateGrade inserts under a new id.                                     *)
Create(w, g, v) ==
  /\ phase[w] = "open" /\ Unused(g)
  /\ phase' = [phase EXCEPT ![w] = "created"]
  /\ target' = [target EXCEPT ![w] = g]
  /\ draft' = [draft EXCEPT ![w] = v]
  /\ UNCHANGED <<clock, rowVars, user, start>>

(* Variant for mutation testing: no role is checked.                       *)
MayChangeAnybody(u, g) == TRUE

(* A teacher may change only the grades he entered.                        *)
MayChange(u, g) == u \in Teachers => author[g] = u

(* GetGradeByID finds a grade that is not deleted, and the user may.       *)
Find(w, g, intent) ==
  /\ phase[w] = "open"
  /\ state[g] = "live" /\ MayChange(user[w], g)
  /\ phase' = [phase EXCEPT ![w] = intent]
  /\ target' = [target EXCEPT ![w] = g]
  /\ UNCHANGED <<clock, rowVars, user, start, draft>>

(* Another transaction has written the row and not committed it.           *)
Locked(w) ==
  \E x \in Writers \ {w} :
    /\ target[x] = target[w]
    /\ phase[x] \in {"created", "updated", "deleted"}

(* Variant for mutation testing: the UPDATE trusts what Find saw.          *)
UpdateWithoutRecheck(w, v) ==
  /\ phase[w] = "updating" /\ ~ Locked(w)
  /\ phase' = [phase EXCEPT ![w] = "updated"]
  /\ draft' = [draft EXCEPT ![w] = v]
  /\ UNCHANGED <<clock, rowVars, user, start, target>>

(* UPDATE ... WHERE deleted_at IS NULL, evaluated on the latest version.   *)
Update(w, v) ==
  /\ phase[w] = "updating" /\ ~ Locked(w)
  /\ state[target[w]] = "live"
  /\ phase' = [phase EXCEPT ![w] = "updated"]
  /\ draft' = [draft EXCEPT ![w] = v]
  /\ UNCHANGED <<clock, rowVars, user, start, target>>

(* The UPDATE finds no row any more: a push reports that and goes on with  *)
(* its transaction.                                                        *)
MissesRow(w) ==
  /\ phase[w] = "updating" /\ ~ Locked(w)
  /\ state[target[w]] # "live"
  /\ phase' = [phase EXCEPT ![w] = "open"]
  /\ target' = [target EXCEPT ![w] = None]
  /\ UNCHANGED <<clock, rowVars, user, start, draft>>

(* SoftDeleteGrade has no such condition.                                  *)
SoftDelete(w) ==
  /\ phase[w] = "deleting" /\ ~ Locked(w)
  /\ phase' = [phase EXCEPT ![w] = "deleted"]
  /\ UNCHANGED <<clock, rowVars, user, start, target, draft>>

WriterDone(w) ==
  /\ phase' = [phase EXCEPT ![w] = "idle"]
  /\ user' = [user EXCEPT ![w] = None]
  /\ start' = [start EXCEPT ![w] = 0]
  /\ target' = [target EXCEPT ![w] = None]
  /\ draft' = [draft EXCEPT ![w] = None]
  /\ UNCHANGED clock

Commit(w) ==
  /\ phase[w] \in {"created", "updated", "deleted"}
  /\ LET g == target[w] IN
       /\ state' = [state EXCEPT ![g] =
                      IF phase[w] = "created" THEN "live"
                      ELSE IF phase[w] = "deleted" THEN "deleted" ELSE @]
       /\ content' = [content EXCEPT ![g] =
                        IF phase[w] = "deleted" THEN @ ELSE draft[w]]
       /\ author' = [author EXCEPT ![g] =
                       IF phase[w] = "created" THEN user[w] ELSE @]
       /\ stamp' = [stamp EXCEPT ![g] = start[w]]
  /\ WriterDone(w)

(* 403, 404, 500, a commit that fails: nothing is written.                 *)
Fail(w) ==
  /\ phase[w] # "idle"
  /\ WriterDone(w)
  /\ UNCHANGED rowVars

(* A mutation of a push.  UpdateGrade and DeleteGrade make the same        *)
(* queries, and Fail where a push goes on.                                 *)
ApplyGradeUpdate(w) ==
  \/ \E g \in Grades : Find(w, g, "updating")
  \/ \E v \in Values : Update(w, v)
  \/ MissesRow(w)

ApplyGradeDelete(w) ==
  \/ \E g \in Grades : Find(w, g, "deleting")
  \/ SoftDelete(w)

Write(w) ==
  \/ \E u \in Users : Begin(w, u)
  \/ \E g \in Grades, v \in Values : Create(w, g, v)
  \/ ApplyGradeUpdate(w)
  \/ ApplyGradeDelete(w)
  \/ Fail(w)

TableNext == Tick \/ \E w \in Writers : Write(w) \/ Commit(w)

TableSpec == TableInit /\ [][TableNext]_tableVars

-----------------------------------------------------------------------------
(* A deleted grade stays as it was deleted, whatever updates were under    *)
(* way when it was (handler.go:477-590, 611-670, sync_handler.go:554,      *)
(* grades.sql:28-32).                                                      *)
DeletedStaysDeleted ==
  [][\A g \in Grades :
       state[g] = "deleted" =>
         state'[g] = "deleted" /\ content'[g] = content[g]]_tableVars

(* Of the teachers, only the one who entered a grade changes or deletes it *)
(* (handler.go:526, 653, sync_handler.go:549, 637).                        *)
OnlyAuthorChanges ==
  [][\A g \in Grades :
       /\ state[g] # "none"
       /\ <<state[g], content[g]>>' # <<state[g], content[g]>>
       => \E w \in Writers :
            target[w] = g /\ (user[w] = author[g] \/ user[w] \in Others)]_tableVars

(* Requests that find, lock, write and commit in any interleaving act on a *)
(* grade like one user after the other: its entry, its changes and its     *)
(* deletion are each a single step, none takes it from its author, and     *)
(* nothing that was under way when it was deleted is seen in it            *)
(* (handler.go:285-670, sync_handler.go:477-660, grades.sql:15-32).        *)
Life == INSTANCE GradeLife
GradeLifeSpec == Life!LifeSpec

=============================================================================
