----------------------------- MODULE AccountLife -----------------------------
(***************************************************************************)
(* What the user handlers promise of an account, without links, tokens or  *)
(* requests: it is registered once, set up once with one password, and     *)
(* erased once; the password of a set-up account only ever disappears.     *)
(***************************************************************************)
CONSTANTS People, Passwords, None

VARIABLES
  stage,   \* [People -> {"absent", "pending", "active", "deleted"}]
  key      \* [People -> Passwords \union {None}]

lifeVars == <<stage, key>>

LifeInit ==
  /\ stage = [p \in People |-> "absent"]
  /\ key = [p \in People |-> None]

Register(p) ==
  /\ stage[p] = "absent"
  /\ stage' = [stage EXCEPT ![p] = "pending"]
  /\ UNCHANGED key

SetUp(p) ==
  /\ stage[p] = "pending"
  /\ stage' = [stage EXCEPT ![p] = "active"]
  /\ \E w \in Passwords : key' = [key EXCEPT ![p] = w]

Erase(p) ==
  /\ stage[p] = "active"
  /\ stage' = [stage EXCEPT ![p] = "deleted"]
  /\ key' = [key EXCEPT ![p] = None]

LifeNext == \E p \in People : Register(p) \/ SetUp(p) \/ Erase(p)

LifeSpec == LifeInit /\ [][LifeNext]_lifeVars

=============================================================================
