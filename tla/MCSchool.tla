------------------------------ MODULE MCSchool ------------------------------
(* The parts of the system that share no state, side by side: accounts,    *)
(* imports, transfers, classes, the entry of grades, absences,             *)
(* evaluations, messages and the arithmetic of averages.  Interleaving     *)
(* their steps would only multiply their states: in a behaviour one part   *)
(* is at work and the others rest.                                         *)
EXTENDS Accounts, Imports, Transfers, Classes, GradeEntry, Absences,
        Evaluations, Messages, AverageRules, TLC

CONSTANTS x1, x2, s1, s2

(* One small file, one for the background; both hold student x1.           *)
MCFile == s1 :> {x1} @@ s2 :> {x1, x2}

(* An entry made now, which may become two mutations, beside one of        *)
(* earlier in the same queue that breaks a constraint.                     *)
MCMutations == 1..3
MCEntries == {1}
MCAgain == 1 :> 2

VARIABLE part

officeVars == <<accVars, importVars, transferVars, classVars>>
registerVars == <<vars, absenceVars, evalVars, messageVars, ruleVars>>

MCInit ==
  /\ AccInit /\ ImportInit /\ TransferInit /\ ClassInit
  /\ Init /\ AbsenceInit /\ EvalInit /\ MessageInit
  /\ RuleInit
  /\ part \in {"accounts", "imports", "transfers", "classes",
               "grades", "absences", "evaluations", "messages", "rules"}
  /\ part = "grades" => kind[3] = "poison"
  /\ part # "grades" => action[1] = "add" /\ kind = [m \in Mutations |-> "ok"]
  /\ part # "rules" => useQualifiers

OfficeNext ==
  \/ /\ part = "accounts" /\ AccNext
     /\ UNCHANGED <<importVars, transferVars, classVars>>
  \/ /\ part = "imports" /\ ImportNext
     /\ UNCHANGED <<accVars, transferVars, classVars>>
  \/ /\ part = "transfers" /\ TransferNext
     /\ UNCHANGED <<accVars, importVars, classVars>>
  \/ /\ part = "classes" /\ ClassNext
     /\ UNCHANGED <<accVars, importVars, transferVars>>

RegisterNext ==
  \/ /\ part = "grades" /\ Next
     /\ UNCHANGED <<absenceVars, evalVars, messageVars, ruleVars>>
  \/ /\ part = "absences" /\ AbsenceNext
     /\ UNCHANGED <<vars, evalVars, messageVars, ruleVars>>
  \/ /\ part = "evaluations" /\ EvalNext
     /\ UNCHANGED <<vars, absenceVars, messageVars, ruleVars>>
  \/ /\ part = "messages" /\ MessageNext
     /\ UNCHANGED <<vars, absenceVars, evalVars, ruleVars>>
  \/ /\ part = "rules" /\ RuleNext
     /\ UNCHANGED <<vars, absenceVars, evalVars, messageVars>>

MCNext ==
  /\ UNCHANGED part
  /\ \/ OfficeNext /\ UNCHANGED registerVars
     \/ RegisterNext /\ UNCHANGED officeVars

(* Of a part at rest no action is enabled that is to be fair.              *)
MCSpec ==
  /\ MCInit /\ [][MCNext]_<<part, officeVars, registerVars>>
  /\ AccFairness /\ EntryFairness /\ PushFairness
=============================================================================
