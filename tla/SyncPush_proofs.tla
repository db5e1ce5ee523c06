--------------------------- MODULE SyncPush_proofs ---------------------------
(***************************************************************************)
(* Proofs about SyncPush, for any number of mutations and requests.        *)
(*                                                                         *)
(* StoredAtMostOnce is not inductive: that an INSERT which finds no row    *)
(* cannot make a second one needs that no two open transactions hold the   *)
(* same client_id (Exclusive) and that a row still to be committed has no  *)
(* committed twin (WroteFresh).  Exclusive in turn needs that a request    *)
(* never meets a mutation it has already inserted, which follows from the  *)
(* order of the batch (Ordered); Ordered is also why no circle of waiting  *)
(* transactions can form.                                                  *)
(***************************************************************************)
EXTENDS SyncPush, TLAPS

(* Which sets a request uses in which state.                               *)
Phased ==
  \A r \in Requests :
    /\ status[r] # "open" => wrote[r] = {} /\ inserting[r] = {}
    /\ status[r] \in {"free", "sent"} => okay[r] = {} /\ bad[r] = {}
    /\ status[r] \in {"free", "closed"} => left[r] = {}

(* Rows inserted, INSERT under way and mutations left follow the batch.    *)
Ordered ==
  \A r \in Requests :
    /\ \A m, n \in inserting[r] : m = n
    /\ \A w \in wrote[r], m \in left[r] \union inserting[r] : w < m
    /\ \A i \in inserting[r], m \in left[r] : i < m

Exclusive ==
  \A r, q \in Requests : r # q => wrote[r] \intersect wrote[q] = {}

WroteFresh ==
  \A r \in Requests : \A m \in wrote[r] : copies[m] = 0 /\ kind[m] = "ok"

InsertingValid ==
  \A r \in Requests : \A m \in inserting[r] : kind[m] # "invalid"

(* Where a result "synced" comes from.                                     *)
SyncedAccounted ==
  \A r \in Requests : \A m \in okay[r] :
    copies[m] > 0 \/ m \in undone \/ m \in wrote[r]

UndoneValid == \A m \in undone : kind[m] = "ok"

(* A mutation of the batch is left, under way, or answered in one way.     *)
Partition ==
  \A r \in Requests :
    /\ okay[r] \intersect bad[r] = {}
    /\ left[r] \intersect (okay[r] \union bad[r] \union inserting[r]) = {}
    /\ inserting[r] \intersect (okay[r] \union bad[r]) = {}

PushInv ==
  /\ PushTypeOK
  /\ Phased
  /\ Ordered
  /\ Exclusive
  /\ WroteFresh
  /\ InsertingValid
  /\ StoredAtMostOnce
  /\ OnlyValidStored
  /\ SyncedAccounted
  /\ UndoneValid
  /\ Partition

USE NumberedMutations

-----------------------------------------------------------------------------
(* Types.                                                                  *)

LEMMA TypeStep == PushTypeOK /\ [PushNext]_pushVars => PushTypeOK'
<1> SUFFICES ASSUME PushTypeOK, [PushNext]_pushVars
             PROVE  PushTypeOK'
  OBVIOUS
<1> USE DEF PushTypeOK, Kinds, RequestStates
<1>1. ASSUME NEW r \in Requests, NEW S \in SUBSET Mutations, Submit(r, S)
      PROVE  PushTypeOK'
  BY <1>1 DEF Submit
<1>2. ASSUME NEW r \in Requests, Drop(r) PROVE PushTypeOK'
  BY <1>2 DEF Drop
<1>3. ASSUME NEW r \in Requests, Begin(r) PROVE PushTypeOK'
  BY <1>3 DEF Begin
<1>4. ASSUME NEW r \in Requests, NEW m \in Mutations, LookupFinds(r, m)
      PROVE  PushTypeOK'
  BY <1>4 DEF LookupFinds
<1>5. ASSUME NEW r \in Requests, NEW m \in Mutations, Refuse(r, m)
      PROVE  PushTypeOK'
  BY <1>5 DEF Refuse
<1>6. ASSUME NEW r \in Requests, NEW m \in Mutations, LookupMisses(r, m)
      PROVE  PushTypeOK'
  BY <1>6 DEF LookupMisses
<1>7. ASSUME NEW r \in Requests, NEW m \in Mutations, InsertStores(r, m)
      PROVE  PushTypeOK'
  BY <1>7 DEF InsertStores
<1>8. ASSUME NEW r \in Requests, NEW m \in Mutations, InsertViolates(r, m)
      PROVE  PushTypeOK'
  BY <1>8 DEF InsertViolates, AbortTx
<1>9. ASSUME NEW r \in Requests, NEW m \in Mutations, FailRest(r, m)
      PROVE  PushTypeOK'
  BY <1>9 DEF FailRest
<1>10. ASSUME NEW r \in Requests, Commit(r) PROVE PushTypeOK'
  BY <1>10 DEF Commit
<1>11. ASSUME NEW r \in Requests, CommitFails(r) PROVE PushTypeOK'
  BY <1>11 DEF CommitFails
<1>12. ASSUME NEW r \in Requests, Release(r) PROVE PushTypeOK'
  BY <1>12 DEF Release
<1>13. ASSUME NEW r \in Requests, Cancel(r) PROVE PushTypeOK'
  BY <1>13 DEF Cancel, AbortTx
<1>14. CASE UNCHANGED pushVars
  BY <1>14 DEF pushVars
<1> QED
  BY <1>1, <1>2, <1>3, <1>4, <1>5, <1>6, <1>7, <1>8, <1>9, <1>10, <1>11,
     <1>12, <1>13, <1>14 DEF PushNext, Process

(* Every variable keeps its type (sync_handler.go:217-464).                *)
THEOREM PushTypeCorrect == PushSpec => []PushTypeOK
<1>1. PushInit => PushTypeOK
  BY DEF PushInit, PushTypeOK, Kinds, RequestStates
<1> QED
  BY <1>1, TypeStep, PTL DEF PushSpec

-----------------------------------------------------------------------------
(* The inductive invariant.                                                *)

LEMMA PushInvInit == PushInit => PushInv
<1> SUFFICES ASSUME PushInit PROVE PushInv
  OBVIOUS
<1>1. PushTypeOK
  BY DEF PushInit, PushTypeOK, Kinds, RequestStates
<1>2. /\ Phased /\ Ordered /\ Exclusive /\ WroteFresh /\ InsertingValid
      /\ StoredAtMostOnce /\ OnlyValidStored /\ SyncedAccounted /\ UndoneValid
      /\ Partition
  BY DEF PushInit, Phased, Ordered, Exclusive, WroteFresh, InsertingValid,
         StoredAtMostOnce, OnlyValidStored, SyncedAccounted, UndoneValid,
         Partition
<1> QED
  BY <1>1, <1>2 DEF PushInv

(* The conjuncts apart from the types.                                     *)
PushCore ==
  /\ Phased /\ Ordered /\ Exclusive /\ WroteFresh /\ InsertingValid
  /\ StoredAtMostOnce /\ OnlyValidStored /\ SyncedAccounted /\ UndoneValid
  /\ Partition

LEMMA PushInvStep == PushInv /\ [PushNext]_pushVars => PushInv'
<1> SUFFICES ASSUME PushInv, [PushNext]_pushVars
             PROVE  PushInv'
  OBVIOUS
<1>t. PushTypeOK /\ PushTypeOK'
  BY TypeStep DEF PushInv
<1> USE <1>t DEF PushTypeOK
<1>c. PushCore
  BY DEF PushInv, PushCore
<1> SUFFICES PushCore'
  BY DEF PushInv, PushCore
<1> USE <1>c DEF PushCore, Phased, Ordered, Exclusive, WroteFresh,
                 InsertingValid, StoredAtMostOnce, OnlyValidStored,
                 SyncedAccounted, UndoneValid, Partition
<1>1. ASSUME NEW r \in Requests, NEW S \in SUBSET Mutations, Submit(r, S)
      PROVE  PushCore'
  BY <1>1 DEF Submit
<1>2. ASSUME NEW r \in Requests, Drop(r) PROVE PushCore'
  BY <1>2 DEF Drop
<1>3. ASSUME NEW r \in Requests, Begin(r) PROVE PushCore'
  BY <1>3 DEF Begin
<1>4. ASSUME NEW r \in Requests, NEW m \in Mutations, LookupFinds(r, m)
      PROVE  PushCore'
  BY <1>4 DEF LookupFinds, NextMutation, First
<1>5. ASSUME NEW r \in Requests, NEW m \in Mutations, Refuse(r, m)
      PROVE  PushCore'
  BY <1>5 DEF Refuse, NextMutation, First
<1>6. ASSUME NEW r \in Requests, NEW m \in Mutations, LookupMisses(r, m)
      PROVE  PushCore'
  BY <1>6 DEF LookupMisses, NextMutation, First
<1>7. ASSUME NEW r \in Requests, NEW m \in Mutations, InsertStores(r, m)
      PROVE  PushCore'
  BY <1>7 DEF InsertStores, Blocked, WaitsFor
<1>8. ASSUME NEW r \in Requests, NEW m \in Mutations, InsertViolates(r, m)
      PROVE  PushCore'
  BY <1>8 DEF InsertViolates, AbortTx
<1>9. ASSUME NEW r \in Requests, NEW m \in Mutations, FailRest(r, m)
      PROVE  PushCore'
  BY <1>9 DEF FailRest, NextMutation, First
<1>10. ASSUME NEW r \in Requests, Commit(r) PROVE PushCore'
  BY <1>10 DEF Commit, Answered
<1>11. ASSUME NEW r \in Requests, CommitFails(r) PROVE PushCore'
  BY <1>11 DEF CommitFails, Answered
<1>12. ASSUME NEW r \in Requests, Release(r) PROVE PushCore'
  BY <1>12 DEF Release
<1>13. ASSUME NEW r \in Requests, Cancel(r) PROVE PushCore'
  BY <1>13 DEF Cancel, AbortTx
<1>14. CASE UNCHANGED pushVars
  BY <1>14 DEF pushVars
<1> QED
  BY <1>1, <1>2, <1>3, <1>4, <1>5, <1>6, <1>7, <1>8, <1>9, <1>10, <1>11,
     <1>12, <1>13, <1>14 DEF PushNext, Process

LEMMA PushInvariant == PushSpec => []PushInv
  BY PushInvInit, PushInvStep, PTL DEF PushSpec

-----------------------------------------------------------------------------
(* What follows from it.                                                   *)

(* Re-sent, sent twice at a time, or sent by a request that was given up:  *)
(* a client_id becomes at most one grade (sync_handler.go:357, 432).       *)
THEOREM AtMostOnce == PushSpec => []StoredAtMostOnce
<1>1. PushInv => StoredAtMostOnce
  BY DEF PushInv
<1> QED
  BY <1>1, PushInvariant, PTL

(* Only what passes the validation and the constraints is ever stored      *)
(* (sync_handler.go:382-418).                                              *)
THEOREM ValidOnly == PushSpec => []OnlyValidStored
<1>1. PushInv => OnlyValidStored
  BY DEF PushInv
<1> QED
  BY <1>1, PushInvariant, PTL

(* The only way for a "synced" of a finished response to be untrue is a    *)
(* rollback of its transaction (sync_handler.go:155, middleware.go:210).   *)
THEOREM SyncedHonestUnlessUndone == PushSpec => []SyncedStoredOrUndone
<1>1. PushInv => SyncedStoredOrUndone
  BY DEF PushInv, Phased, SyncedAccounted, SyncedStoredOrUndone
<1> QED
  BY <1>1, PushInvariant, PTL

(* No circle of pushes ever waits on the unique index, because all follow  *)
(* createdAt (sync-queue.ts:34, sync_handler.go:266).                      *)
THEOREM NoDeadlock == PushSpec => []NoWaitCycle
<1>1. PushInv => NoWaitCycle
  <2> SUFFICES ASSUME PushInv, NEW r \in Requests, NEW q \in Requests,
                      WaitsFor(r, q),
                      NEW i \in inserting[r], NEW j \in inserting[q]
               PROVE  i < j
    BY DEF NoWaitCycle
  <2>1. i \in wrote[q]
    BY DEF WaitsFor, PushInv, Ordered
  <2> QED
    BY <2>1 DEF PushInv, Ordered
<1> QED
  BY <1>1, PushInvariant, PTL

=============================================================================
