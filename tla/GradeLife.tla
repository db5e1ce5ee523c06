------------------------------ MODULE GradeLife ------------------------------
(***************************************************************************)
(* What the grades table promises of a grade, without requests, locks or   *)
(* commits: it is entered once, by one user, whose grade it stays, changes *)
(* its value only while it lives, and once deleted is not seen to change   *)
(* again.                                                                  *)
(***************************************************************************)
CONSTANTS Grades, Values, Users, None

VARIABLES
  state,     \* [Grades -> {"none", "live", "deleted"}]
  content,   \* [Grades -> Values \union {None}]
  author     \* [Grades -> Users \union {None}]

lifeVars == <<state, content, author>>

LifeInit ==
  /\ state = [g \in Grades |-> "none"]
  /\ content = [g \in Grades |-> None]
  /\ author = [g \in Grades |-> None]

Enter(g, u, v) ==
  /\ state[g] = "none"
  /\ state' = [state EXCEPT ![g] = "live"]
  /\ content' = [content EXCEPT ![g] = v]
  /\ author' = [author EXCEPT ![g] = u]

Change(g, v) ==
  /\ state[g] = "live"
  /\ content' = [content EXCEPT ![g] = v]
  /\ UNCHANGED <<state, author>>

Remove(g) ==
  /\ state[g] = "live"
  /\ state' = [state EXCEPT ![g] = "deleted"]
  /\ UNCHANGED <<content, author>>

LifeNext ==
  \E g \in Grades :
    \/ \E u \in Users, v \in Values : Enter(g, u, v)
    \/ \E v \in Values : Change(g, v)
    \/ Remove(g)

LifeSpec == LifeInit /\ [][LifeNext]_lifeVars

=============================================================================
