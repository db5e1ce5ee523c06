------------------------------- MODULE SyncPull -------------------------------
(***************************************************************************)
(* GET /sync/pull (api/internal/catalog/sync_pull_handler.go) over the     *)
(* grades that GradeTable writes, and a client that keeps what it gets and *)
(* asks again from the server_timestamp of the last answer, as the         *)
(* endpoint tells it to.  The absences are pulled by the same statement.   *)
(***************************************************************************)
EXTENDS GradeTable

CONSTANT Second   \* ticks of the clock in a second of RFC 3339

ASSUME SecondTicks == Second \in Nat \ {0}

VARIABLES
  since,     \* the client's last server_timestamp
  cache,     \* [Grades -> rows as the client knows them]
  pull,      \* "none", "begun", "read"
  mark,      \* serverTimestamp of the pull under way
  missed     \* history: grades that a transaction has committed which had
             \* begun by the server_timestamp of an earlier read

pullVars == <<since, cache, pull, mark, missed>>
vars == <<tableVars, pullVars>>

Row(g) == [state |-> state[g], content |-> content[g]]
Rows == [state : RowStates, content : Values \union {None}]

TypeOK ==
  /\ TableTypeOK
  /\ since \in Nat
  /\ cache \in [Grades -> Rows]
  /\ pull \in {"none", "begun", "read"}
  /\ mark \in Nat
  /\ missed \in SUBSET Grades

Init ==
  /\ TableInit
  /\ since = 0
  /\ cache = [g \in Grades |-> Row(g)]
  /\ pull = "none"
  /\ mark = 0
  /\ missed = {}

(* time.RFC3339 has no fraction of a second.                               *)
Truncated(t) == t - (t % Second)

-----------------------------------------------------------------------------
(* The server takes the timestamp before any query.                        *)
PullBegins ==
  /\ pull = "none"
  /\ pull' = "begun"
  /\ mark' = clock
  /\ UNCHANGED <<tableVars, since, cache, missed>>

(* Everything committed with updated_at > since, deleted rows included.    *)
Modified == {g \in Grades : state[g] # "none" /\ stamp[g] > since}

(* The query runs; what it returns is what the client will merge.          *)
PullReads ==
  /\ pull = "begun"
  /\ pull' = "read"
  /\ cache' = [g \in Grades |-> IF g \in Modified THEN Row(g) ELSE cache[g]]
  /\ missed' = missed \ Modified
  /\ UNCHANGED <<tableVars, since, mark>>

(* Variant for mutation testing: the timestamp is that of the response.    *)
PullEndsLate ==
  /\ pull = "read"
  /\ pull' = "none"
  /\ since' = Truncated(clock)
  /\ mark' = 0
  /\ UNCHANGED <<tableVars, cache, missed>>

PullEnds ==
  /\ pull = "read"
  /\ pull' = "none"
  /\ since' = Truncated(mark)
  /\ mark' = 0
  /\ UNCHANGED <<tableVars, cache, missed>>

(* No answer: the client asks again with what it has.                      *)
PullFails ==
  /\ pull = "begun"
  /\ pull' = "none"
  /\ mark' = 0
  /\ UNCHANGED <<tableVars, since, cache, missed>>

(* Nothing with updated_at up to here will be asked for again.             *)
Horizon == IF pull = "read" THEN Truncated(mark) ELSE since

Straddles(w) == start[w] <= Horizon

(* A commit seen from the client: a row written by a transaction that had  *)
(* begun by the horizon is lost to later pulls, until it is written again. *)
CommitMarks(w) ==
  /\ Commit(w)
  /\ missed' = IF Straddles(w) THEN missed \union {target[w]}
                               ELSE missed \ {target[w]}
  /\ UNCHANGED <<since, cache, pull, mark>>

WriteOrTick ==
  /\ Tick \/ \E w \in Writers : Write(w)
  /\ UNCHANGED pullVars

Next ==
  \/ WriteOrTick
  \/ \E w \in Writers : CommitMarks(w)
  \/ PullBegins
  \/ PullReads
  \/ PullEnds
  \/ PullFails

Spec == Init /\ [][Next]_vars

-----------------------------------------------------------------------------
Stale(g) == cache[g] # Row(g)

(* Whatever the client does not have, the next pull brings, but for the    *)
(* rows of a transaction that was under way across an earlier pull: the    *)
(* timestamp is taken before the read and truncated downwards, and a lost  *)
(* or failed pull changes nothing (sync_pull_handler.go:101-105, 161,      *)
(* 183-189).                                                               *)
PullBringsUnlessStraddled ==
  \A g \in Grades : Stale(g) => stamp[g] > Horizon \/ g \in missed

(* What the endpoint promises: the next pull brings all the client lacks.  *)
(* It does not hold: updated_at is the time at which the transaction       *)
(* began, and the transaction commits later (sync_pull_handler.go:20-21,   *)
(* grades.sql:20-29).                                                      *)
PullMissesNothing == \A g \in Grades : Stale(g) => stamp[g] > Horizon

=============================================================================
