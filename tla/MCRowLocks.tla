----------------------------- MODULE MCRowLocks -----------------------------
(* The transactions that wait for each other's rows.  Pushes: any device   *)
(* sends any batch, re-sends it at will, and up to two requests are        *)
(* processed at a time.  Closes: two over three students, two of one name  *)
(* and one of a later name; one of the first two may lose the name, and    *)
(* then comes after the third.  They touch different tables: in a          *)
(* behaviour one kind is at work and the other rests.                      *)
EXTENDS SyncPush, Averages

MCMutations == 1..2

MCStudents == {"s1", "s2", "s3"}
MCRank == [s \in MCStudents |-> IF s = "s3" THEN 2 ELSE 1]
MCLeavers == {"s1"}

VARIABLE part

MCInit ==
  /\ PushInit /\ Init
  /\ part \in {"pushes", "closes"}
  /\ part = "closes" => kind = [m \in Mutations |-> "ok"]

MCNext ==
  /\ UNCHANGED part
  /\ \/ part = "pushes" /\ PushNext /\ UNCHANGED vars
     \/ part = "closes" /\ Next /\ UNCHANGED pushVars

(* Of what rests no action is enabled that is to be fair.                  *)
MCSpec ==
  /\ MCInit /\ [][MCNext]_<<part, pushVars, vars>>
  /\ PushFairness /\ Fairness
=============================================================================
