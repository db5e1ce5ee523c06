------------------------------ MODULE AverageBook ------------------------------
(***************************************************************************)
(* What closing and approving come to: a book of averages in which a whole *)
(* close is one entry and an approval another.  An average belongs to the  *)
(* class whose close first made it, gets new values from later closes, and *)
(* once approved remains so, under the name of the last who approved it.   *)
(***************************************************************************)
EXTENDS NoValue

CONSTANTS Students, Classes, Values, Approvers

VARIABLES value, home, approver

bookVars == <<value, home, approver>>

BookInit ==
  /\ value = [s \in Students |-> None]
  /\ home = [s \in Students |-> None]
  /\ approver = [s \in Students |-> None]

(* Class k is closed with these averages, for those who have one.          *)
Close(k, average) ==
  /\ value' = [s \in Students |->
                 IF s \in DOMAIN average THEN average[s] ELSE value[s]]
  /\ home' = [s \in Students |->
                IF s \in DOMAIN average /\ home[s] = None THEN k ELSE home[s]]
  /\ UNCHANGED approver

Approve(s, a) ==
  /\ home[s] # None
  /\ approver' = [approver EXCEPT ![s] = a]
  /\ UNCHANGED <<value, home>>

BookNext ==
  \/ \E k \in Classes, S \in SUBSET Students :
       \E average \in [S -> Values] : Close(k, average)
  \/ \E s \in Students, a \in Approvers : Approve(s, a)

BookSpec == BookInit /\ [][BookNext]_bookVars

=============================================================================
