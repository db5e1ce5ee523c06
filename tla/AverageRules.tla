----------------------------- MODULE AverageRules -----------------------------
(***************************************************************************)
(* The average of one student's semester: computeAverage and what it calls *)
(* (api/internal/catalog/average_handler.go).  Averages has the values of  *)
(* this module as members of a set.                                        *)
(*                                                                         *)
(* The code computes in float64.  Of the two roundings on the way from the *)
(* grades to a product by 100, only those matter that move a product off a *)
(* whole hundredth: everywhere else the next whole or half hundredth is    *)
(* further away than any error.  The thesis is not modelled.               *)
(***************************************************************************)
EXTENDS Integers, Sequences, NoValue

CONSTANTS
  MinGrades,  \* min_grades_sem, 3 by default
  MaxGrades   \* bound on the grades of a semester

(* With 40 grades a mean may end in half a hundredth and be no binary      *)
(* fraction; with fewer it is exact.                                       *)
ASSUME MinGradesPositive == MinGrades \in Nat \ {0}
ASSUME MaxGradesSmall == MaxGrades \in 1..39

VARIABLES
  useQualifiers,  \* use_qualifiers of the evaluation config
  sum, count,     \* of the numeric grades
  tally           \* [Qualifiers -> Nat]: counts

ruleVars == <<useQualifiers, sum, count, tally>>

QualOrder == <<"FB", "B", "S", "I">>
Qualifiers == {QualOrder[i] : i \in DOMAIN QualOrder}
RoundingRules == {"standard", "round_up", "round_half_up"}

ASSUME NoneIsNoQualifier == None \notin Qualifiers

RuleTypeOK ==
  /\ useQualifiers \in BOOLEAN
  /\ sum \in Nat /\ count \in Nat
  /\ tally \in [Qualifiers -> Nat]

Total == tally["FB"] + tally["B"] + tally["S"] + tally["I"]

RuleInit ==
  /\ useQualifiers \in BOOLEAN
  /\ sum = 0 /\ count = 0
  /\ tally = [q \in Qualifiers |-> 0]

EnterNumeric(g) ==
  /\ ~ useQualifiers /\ count < MaxGrades
  /\ sum' = sum + g /\ count' = count + 1
  /\ UNCHANGED <<useQualifiers, tally>>

EnterQualifier(q) ==
  /\ useQualifiers /\ Total < MaxGrades
  /\ tally' = [tally EXCEPT ![q] = @ + 1]
  /\ UNCHANGED <<useQualifiers, sum, count>>

RuleNext ==
  \/ \E g \in 1..10 : EnterNumeric(g)
  \/ \E q \in Qualifiers : EnterQualifier(q)

RuleSpec == RuleInit /\ [][RuleNext]_ruleVars

-----------------------------------------------------------------------------
(* computeNumericAverage, in hundredths.                                   *)

Exponent(a, b) == CHOOSE e \in 0..10 : 2^e * b <= a /\ a < 2^(e + 1) * b

(* With 100a/b whole: by how much, in halves of a unit in the last place   *)
(* over b, the product float64(a)/float64(b) * 100 misses it before it is  *)
(* rounded itself.  The quotient is a * 2^k / b rounded to a 53-bit whole. *)
Miss(a, b) ==
  LET k == 52 - Exponent(a, b)
      PowerOf2[i \in 0..k] == IF i = 0 THEN 1 % b ELSE (2 * PowerOf2[i - 1]) % b
      rest == (a * PowerOf2[k]) % b
  IN  200 * 2^Exponent(a, b) * IF 2 * rest > b THEN b - rest ELSE - rest

(* The side of 100a/b on which the rounded product lies.                   *)
Above(a, b) == Miss(a, b) > b * 2^Exponent(100 * a, b)
Below(a, b) == Miss(a, b) < - b * 2^Exponent(100 * a, b)

(* applyRounding.  "standard" and "round_half_up" differ only below zero.  *)
Rounded(rule) ==
  CASE rule = "round_up" /\ (100 * sum) % count # 0 -> (100 * sum) \div count + 1
    [] rule = "round_up" /\ (100 * sum) % count = 0 ->
         (100 * sum) \div count + IF Above(sum, count) THEN 1 ELSE 0
    [] OTHER -> (200 * sum + count) \div (2 * count)

(* Variant for mutation testing: int64(f * 100) without math.Round.        *)
FloatToNumericTruncating(c) == IF Below(c, 100) THEN c - 1 ELSE c

(* floatToNumeric, of the float64 c / 100: math.Round takes a product that *)
(* misses its whole number back to it.                                     *)
FloatToNumeric(c) == c

NumericAverage(rule) ==
  IF count < MinGrades THEN None ELSE FloatToNumeric(Rounded(rule))

-----------------------------------------------------------------------------
(* computeQualifierAverage: the loop over qualOrder.                       *)

(* Variant for mutation testing: the last of equals wins.                  *)
BetterOrEqual(best, q) ==
  IF best = None THEN q ELSE IF tally[q] >= tally[best] THEN q ELSE best

Better(best, q) ==
  IF best = None
  THEN IF tally[q] > 0 THEN q ELSE None
  ELSE IF tally[q] > tally[best] THEN q ELSE best

(* bestQual after the first i turns of the loop.                           *)
Best[i \in 0..Len(QualOrder)] ==
  IF i = 0 THEN None ELSE Better(Best[i - 1], QualOrder[i])

QualifierAverage ==
  IF Total < MinGrades THEN None ELSE Best[Len(QualOrder)]

-----------------------------------------------------------------------------
(* Properties.                                                             *)

(* The average of the register is the mean of the grades rounded to the    *)
(* hundredth: at most half a hundredth off, or, rounded up, never below    *)
(* the mean and never more than a whole hundredth above it.  A whole one   *)
(* happens: five grades that make 44 have the mean 8.80, and 8.81 is       *)
(* stored (average_handler.go:532-534, 565).                               *)
RoundingRight ==
  ~ useQualifiers /\ count >= MinGrades =>
    \A rule \in RoundingRules :
      LET off == count * NumericAverage(rule) - 100 * sum
      IN  IF rule = "round_up" THEN off \in 0..count
                               ELSE 2 * off \in (1 - count)..count

(* "Uses majority rule: the most frequent qualifier wins.  On tie, the     *)
(* higher qualifier wins" (average_handler.go:427-428), and a student with *)
(* enough grades has one.                                                  *)
MajorityWins ==
  useQualifiers /\ Total >= MinGrades =>
    \E i \in DOMAIN QualOrder :
      /\ QualifierAverage = QualOrder[i]
      /\ \A j \in DOMAIN QualOrder :
           IF j < i THEN tally[QualOrder[j]] < tally[QualOrder[i]]
                    ELSE tally[QualOrder[j]] <= tally[QualOrder[i]]

=============================================================================
