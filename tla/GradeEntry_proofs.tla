-------------------------- MODULE GradeEntry_proofs --------------------------
(***************************************************************************)
(* Proofs about GradeEntry, for any number of mutations, entries and       *)
(* requests.                                                               *)
(*                                                                         *)
(* Browser and network only make the server take steps of SyncPush, so its *)
(* theorems hold here (PushOfEntries).  That nothing is forgotten rests on *)
(* them: what a delivered answer takes from the queue is stored or undone. *)
(*                                                                         *)
(* That a call is carried out once rests on DoneWhenClosed: what has been  *)
(* done belongs to a call that is over, and only a call refused by a 401,  *)
(* which has done nothing, is sent again.                                  *)
(*                                                                         *)
(* That entries and flushes implement Outbox needs that all there is in    *)
(* the queue and in the requests are mutations that enqueue has made       *)
(* (OnlyTold), and that it makes a new one each time (OnceOrTwice).        *)
(***************************************************************************)
EXTENDS GradeEntry, SyncPush_proofs

USE EntriesAreMutations, AgainAnother

(* A step of the server that the browser takes no notice of.               *)
PushAlone == PushNext /\ UNCHANGED entryVars

LEMMA EntryPushStep == EntryTypeOK /\ [Next]_vars => [PushNext]_pushVars
<1> SUFFICES ASSUME EntryTypeOK, [Next]_vars
             PROVE  [PushNext]_pushVars
  OBVIOUS
<1>1. ASSUME NEW m \in Entries, StartOnline(m) PROVE [PushNext]_pushVars
  BY <1>1 DEF StartOnline
<1>2. ASSUME NEW m \in Entries, StartOffline(m) PROVE [PushNext]_pushVars
  BY <1>2 DEF StartOffline
<1>3. ASSUME NEW m \in Entries, GetAnswer(m) PROVE [PushNext]_pushVars
  BY <1>3 DEF GetAnswer
<1>4. ASSUME NEW m \in Entries, RefreshAndRepeat(m) PROVE [PushNext]_pushVars
  BY <1>4 DEF RefreshAndRepeat
<1>5. ASSUME NEW m \in Entries, RefreshFails(m) PROVE [PushNext]_pushVars
  BY <1>5 DEF RefreshFails
<1>6. ASSUME NEW m \in Entries, CallLost(m) PROVE [PushNext]_pushVars
  BY <1>6 DEF CallLost
<1>7. ASSUME NEW m \in Entries, Enqueue(m) PROVE [PushNext]_pushVars
  BY <1>7 DEF Enqueue
<1>8. ASSUME NEW m \in Entries, EnqueueFails(m) \/ CountFails(m)
      PROVE  [PushNext]_pushVars
  BY <1>8 DEF EnqueueFails, CountFails, Throws
<1>9. ASSUME NEW m \in Entries, LeavePage(m) PROVE [PushNext]_pushVars
  BY <1>9 DEF LeavePage
<1>10. ASSUME NEW m \in Entries, Unauthorized(m) PROVE [PushNext]_pushVars
  BY <1>10 DEF Unauthorized
<1>11. ASSUME NEW m \in Entries, CallDropped(m) PROVE [PushNext]_pushVars
  BY <1>11 DEF CallDropped
<1>12. ASSUME NEW m \in Entries, CallBegins(m) PROVE [PushNext]_pushVars
  BY <1>12 DEF CallBegins
<1>13. ASSUME NEW m \in Entries, CallStores(m) PROVE [PushNext]_pushVars
  BY <1>13 DEF CallStores
<1>14. ASSUME NEW m \in Entries, CallRefused(m) PROVE [PushNext]_pushVars
  BY <1>14 DEF CallRefused
<1>15. ASSUME NEW m \in Entries, CallCommits(m) PROVE [PushNext]_pushVars
  BY <1>15 DEF CallCommits
<1>16. ASSUME NEW m \in Entries, CallUndone(m) PROVE [PushNext]_pushVars
  BY <1>16 DEF CallUndone
<1>17. ASSUME NEW r \in Requests, NEW batch \in SUBSET queue, Flush(r, batch)
       PROVE  [PushNext]_pushVars
  BY <1>17 DEF Flush, PushNext, EntryTypeOK
<1>18. ASSUME NEW r \in Requests, AnswerDelivered(r) PROVE [PushNext]_pushVars
  BY <1>18 DEF AnswerDelivered, PushNext
<1>19. ASSUME NEW r \in Requests, AnswerLost(r) PROVE [PushNext]_pushVars
  BY <1>19 DEF AnswerLost, PushNext
<1>20. ASSUME NEW r \in Requests,
              (Drop(r) \/ Process(r) \/ Cancel(r)) /\ UNCHANGED entryVars
       PROVE  [PushNext]_pushVars
  BY <1>20 DEF PushNext
<1>21. CASE UNCHANGED vars
  BY <1>21 DEF vars
<1> QED
  BY <1>1, <1>2, <1>3, <1>4, <1>5, <1>6, <1>7, <1>8, <1>9, <1>10, <1>11,
     <1>12, <1>13, <1>14, <1>15, <1>16, <1>17, <1>18, <1>19, <1>20, <1>21
     DEF Next, EntryStep, CallStep

(* A step is one of the browser or of a call, which leaves the push alone, *)
(* or one of the push.                                                     *)
LEMMA EntrySplit ==
  ASSUME EntryTypeOK, [Next]_vars
  PROVE  \/ UNCHANGED vars
         \/ PushAlone
         \/ \E r \in Requests : AnswerDelivered(r)
         \/ \E m \in Entries :
              \/ StartOnline(m) \/ StartOffline(m) \/ EntryStep(m) \/ LeavePage(m)
              \/ Unauthorized(m) \/ CallDropped(m) \/ CallStep(m)
<1>1. ASSUME NEW r \in Requests, NEW batch \in SUBSET queue, Flush(r, batch)
      PROVE  PushAlone
  BY <1>1 DEF Flush, PushAlone, PushNext, EntryTypeOK
<1>2. ASSUME NEW r \in Requests,
             \/ AnswerLost(r)
             \/ (Drop(r) \/ Process(r) \/ Cancel(r)) /\ UNCHANGED entryVars
      PROVE  PushAlone
  BY <1>2 DEF AnswerLost, PushAlone, PushNext
<1> QED
  BY <1>1, <1>2 DEF Next

-----------------------------------------------------------------------------
(* Types.                                                                  *)

LEMMA OutcomeReturned ==
  ASSUME EntryTypeOK, NEW m \in Entries
  PROVE  Outcome(m) \in Returned
<1>1. action[m] \in {"add", "update", "delete"}
  BY DEF EntryTypeOK, Actions
<1> QED
  BY <1>1 DEF Outcome, AddReturns, UpdateReturns, DeleteReturns, Returned

LEMMA EntryTypeStep == EntryTypeOK /\ [Next]_vars => EntryTypeOK'
<1> SUFFICES ASSUME EntryTypeOK, [Next]_vars
             PROVE  EntryTypeOK'
  OBVIOUS
<1> USE DEF EntryTypeOK, EntryStates, Running, Returned, CallStates, Replies,
            queueVars
<1>0. PushTypeOK'
  BY TypeStep, EntryPushStep
<1>1. ASSUME NEW m \in Entries, StartOnline(m) PROVE EntryTypeOK'
  BY <1>1, <1>0 DEF StartOnline, pushVars
<1>2. ASSUME NEW m \in Entries, StartOffline(m) PROVE EntryTypeOK'
  BY <1>2, <1>0 DEF StartOffline, pushVars
<1>3. ASSUME NEW m \in Entries, GetAnswer(m) PROVE EntryTypeOK'
  BY <1>3, <1>0 DEF GetAnswer, pushVars
<1>4. ASSUME NEW m \in Entries, RefreshAndRepeat(m) PROVE EntryTypeOK'
  BY <1>4, <1>0 DEF RefreshAndRepeat, pushVars
<1>5. ASSUME NEW m \in Entries, RefreshFails(m) PROVE EntryTypeOK'
  BY <1>5, <1>0 DEF RefreshFails, pushVars
<1>6. ASSUME NEW m \in Entries, CallLost(m) PROVE EntryTypeOK'
  BY <1>6, <1>0 DEF CallLost, pushVars
<1>7. ASSUME NEW m \in Entries, Enqueue(m) PROVE EntryTypeOK'
  <2>1. Queues(m) /\ Outcome(m) \in Returned
    BY <1>7, OutcomeReturned DEF Enqueue
  <2>2. queue' \in SUBSET Mutations /\ issued' \in SUBSET Mutations
    BY <2>1 DEF Queues, ClientId
  <2> QED
    BY <1>7, <1>0, <2>1, <2>2 DEF Enqueue, pushVars
<1>8. ASSUME NEW m \in Entries, EnqueueFails(m) \/ CountFails(m)
      PROVE  EntryTypeOK'
  <2>1. queue' \in SUBSET Mutations /\ issued' \in SUBSET Mutations
    BY <1>8 DEF EnqueueFails, CountFails, Queues, ClientId
  <2> QED
    BY <1>8, <1>0, <2>1 DEF EnqueueFails, CountFails, Throws, pushVars
<1>9. ASSUME NEW m \in Entries, LeavePage(m) PROVE EntryTypeOK'
  BY <1>9, <1>0 DEF LeavePage, pushVars
<1>10. ASSUME NEW m \in Entries, Unauthorized(m) PROVE EntryTypeOK'
  BY <1>10, <1>0 DEF Unauthorized, pushVars
<1>11. ASSUME NEW m \in Entries, CallDropped(m) PROVE EntryTypeOK'
  BY <1>11, <1>0 DEF CallDropped, pushVars
<1>12. ASSUME NEW m \in Entries, CallBegins(m) PROVE EntryTypeOK'
  BY <1>12, <1>0 DEF CallBegins, pushVars
<1>13. ASSUME NEW m \in Entries, CallStores(m) PROVE EntryTypeOK'
  BY <1>13, <1>0 DEF CallStores, pushVars
<1>14. ASSUME NEW m \in Entries, CallRefused(m) PROVE EntryTypeOK'
  BY <1>14, <1>0 DEF CallRefused, pushVars
<1>15. ASSUME NEW m \in Entries, CallCommits(m) PROVE EntryTypeOK'
  BY <1>15, <1>0 DEF CallCommits, pushVars
<1>16. ASSUME NEW m \in Entries, CallUndone(m) PROVE EntryTypeOK'
  BY <1>16, <1>0 DEF CallUndone, pushVars
<1>17. ASSUME NEW r \in Requests, AnswerDelivered(r) PROVE EntryTypeOK'
  BY <1>0, <1>17 DEF AnswerDelivered
<1>18. ASSUME PushAlone PROVE EntryTypeOK'
  BY <1>0, <1>18 DEF PushAlone, entryVars
<1>19. CASE UNCHANGED vars
  BY <1>19, <1>0 DEF vars, pushVars, entryVars
<1> QED
  BY <1>1, <1>2, <1>3, <1>4, <1>5, <1>6, <1>7, <1>8, <1>9, <1>10, <1>11,
     <1>12, <1>13, <1>14, <1>15, <1>16, <1>17, <1>18, <1>19, EntrySplit
     DEF EntryStep, CallStep

LEMMA EntryTypeInit == Init => EntryTypeOK
<1> SUFFICES ASSUME Init PROVE EntryTypeOK
  OBVIOUS
<1>1. PushTypeOK
  BY PushInvInit DEF Init, PushInv
<1> QED
  BY <1>1 DEF Init, EntryTypeOK, EntryStates, CallStates, Replies

(* Browser, calls and server keep their types                              *)
(* (useCatalog.ts:327-481, api.ts:60-143, handler.go:285-670).             *)
THEOREM EntryTypeCorrect == Spec => []EntryTypeOK
  BY EntryTypeInit, EntryTypeStep, PTL DEF Spec

(* Entries and their flushes are a behaviour of the push: a client_id is   *)
(* stored once here too (sync_handler.go:217-279).                         *)
THEOREM PushOfEntries == Spec => PushSpec
<1>1. Init => PushInit
  BY DEF Init
<1> QED
  BY <1>1, EntryTypeCorrect, EntryPushStep, PTL DEF Spec, PushSpec

-----------------------------------------------------------------------------
(* What the server has stored, or undone, it has for good.                 *)

Settled(k) == copies[k] > 0 \/ k \in undone

LEMMA SettledStays ==
  ASSUME PushTypeOK, [PushNext]_pushVars, NEW n \in Mutations, Settled(n)
  PROVE  Settled(n)'
<1> USE DEF Settled, PushTypeOK
<1>1. ASSUME NEW r \in Requests, NEW S \in SUBSET Mutations, Submit(r, S)
      PROVE  Settled(n)'
  BY <1>1 DEF Submit
<1>2. ASSUME NEW r \in Requests, Drop(r) PROVE Settled(n)'
  BY <1>2 DEF Drop
<1>3. ASSUME NEW r \in Requests, Begin(r) PROVE Settled(n)'
  BY <1>3 DEF Begin
<1>4. ASSUME NEW r \in Requests, NEW k \in Mutations, LookupFinds(r, k)
      PROVE  Settled(n)'
  BY <1>4 DEF LookupFinds
<1>5. ASSUME NEW r \in Requests, NEW k \in Mutations, Refuse(r, k)
      PROVE  Settled(n)'
  BY <1>5 DEF Refuse
<1>6. ASSUME NEW r \in Requests, NEW k \in Mutations, LookupMisses(r, k)
      PROVE  Settled(n)'
  BY <1>6 DEF LookupMisses
<1>7. ASSUME NEW r \in Requests, NEW k \in Mutations, InsertStores(r, k)
      PROVE  Settled(n)'
  BY <1>7 DEF InsertStores
<1>8. ASSUME NEW r \in Requests, NEW k \in Mutations, InsertViolates(r, k)
      PROVE  Settled(n)'
  BY <1>8 DEF InsertViolates, AbortTx
<1>9. ASSUME NEW r \in Requests, NEW k \in Mutations, FailRest(r, k)
      PROVE  Settled(n)'
  BY <1>9 DEF FailRest
<1>10. ASSUME NEW r \in Requests, Commit(r) PROVE Settled(n)'
  BY <1>10 DEF Commit
<1>11. ASSUME NEW r \in Requests, CommitFails(r) PROVE Settled(n)'
  BY <1>11 DEF CommitFails
<1>12. ASSUME NEW r \in Requests, Cancel(r) PROVE Settled(n)'
  BY <1>12 DEF Cancel, AbortTx
<1>13. ASSUME NEW r \in Requests, Release(r) PROVE Settled(n)'
  BY <1>13 DEF Release
<1>14. CASE UNCHANGED pushVars
  BY <1>14 DEF pushVars
<1> QED
  BY <1>1, <1>2, <1>3, <1>4, <1>5, <1>6, <1>7, <1>8, <1>9, <1>10, <1>11,
     <1>12, <1>13, <1>14 DEF PushNext, Process

-----------------------------------------------------------------------------
(* Nothing is forgotten.                                                   *)

(* What enqueue has made is kept, and what has returned has made some.     *)
IssuedKept ==
  /\ \A k \in issued : k \in queue \/ Settled(k)
  /\ \A m \in Entries : entry[m] \in Returned => m \in issued

KeptInv == PushInv /\ EntryTypeOK /\ IssuedKept

LEMMA KeptStep == KeptInv /\ [Next]_vars => IssuedKept'
<1> SUFFICES ASSUME KeptInv, [Next]_vars
             PROVE  IssuedKept'
  OBVIOUS
<1> USE DEF KeptInv, EntryTypeOK, IssuedKept
<1>s. \A k \in Mutations : Settled(k) => Settled(k)'
  BY SettledStays, EntryPushStep
<1>1. ASSUME NEW m \in Entries,
             \/ StartOnline(m) \/ StartOffline(m) \/ GetAnswer(m)
             \/ RefreshAndRepeat(m) \/ RefreshFails(m) \/ CallLost(m)
             \/ EnqueueFails(m) \/ LeavePage(m)
      PROVE  IssuedKept'
  BY <1>1, <1>s DEF StartOnline, StartOffline, GetAnswer, RefreshAndRepeat,
     RefreshFails, CallLost, EnqueueFails, Throws, LeavePage, Returned,
     queueVars
<1>2. ASSUME NEW m \in Entries, Enqueue(m) \/ CountFails(m)
      PROVE  IssuedKept'
  <2>1. /\ queue' = queue \union {ClientId(m)}
        /\ issued' = issued \union {ClientId(m)}
        /\ m \in issued'
    BY <1>2 DEF Enqueue, CountFails, Queues, ClientId
  <2>2. \A k \in Entries \ {m} : entry'[k] = entry[k]
    BY <1>2 DEF Enqueue, CountFails, Throws
  <2> QED
    BY <1>s, <2>1, <2>2
<1>3. ASSUME NEW m \in Entries,
             Unauthorized(m) \/ CallDropped(m) \/ CallStep(m)
      PROVE  IssuedKept'
  BY <1>3, <1>s DEF Unauthorized, CallDropped, CallStep, CallBegins,
     CallStores, CallRefused, CallCommits, CallUndone, queueVars
<1>4. ASSUME NEW r \in Requests, AnswerDelivered(r) PROVE IssuedKept'
  <2>1. \A n \in okay[r] : Settled(n)
    BY <1>4 DEF AnswerDelivered, Release, PushInv, Phased, SyncedAccounted,
                Settled
  <2> QED
    BY <1>4, <1>s, <2>1 DEF AnswerDelivered
<1>5. ASSUME PushAlone PROVE IssuedKept'
  BY <1>5, <1>s DEF PushAlone, entryVars, queueVars
<1>6. CASE UNCHANGED vars
  BY <1>6, <1>s DEF vars, entryVars, queueVars
<1> QED
  BY <1>1, <1>2, <1>3, <1>4, <1>5, <1>6, EntrySplit DEF EntryStep

(* What has been entered is queued, stored or undone                       *)
(* (useCatalog.ts:353-385).                                                *)
THEOREM EntriesKept == Spec => []NothingForgotten
<1>1. Init => KeptInv
  BY EntryTypeInit, PushInvInit DEF Init, KeptInv, IssuedKept, Returned
<1>2. KeptInv /\ [Next]_vars => KeptInv'
  BY EntryTypeStep, EntryPushStep, PushInvStep, KeptStep DEF KeptInv
<1>3. KeptInv => NothingForgotten
  BY DEF KeptInv, IssuedKept, Settled, NothingForgotten
<1> QED
  BY <1>1, <1>2, <1>3, PTL DEF Spec

-----------------------------------------------------------------------------
(* A grade shown as the server's.                                          *)

(* The same of an answer that is under way; a function not yet called has  *)
(* none.                                                                   *)
Answered201 ==
  \A m \in Entries :
    /\ reply[m] = "ok" \/ entry[m] \in {"answered", "confirmed"} =>
         direct[m] > 0 \/ call[m] = "wrote" \/ m \in unmade
    /\ entry[m] = "none" => call[m] = "none" /\ reply[m] = "none"

AnsweredInv == EntryTypeOK /\ Answered201

LEMMA AnsweredStep == AnsweredInv /\ [Next]_vars => Answered201'
<1> SUFFICES ASSUME AnsweredInv, [Next]_vars
             PROVE  Answered201'
  OBVIOUS
<1> USE DEF AnsweredInv, EntryTypeOK, Answered201
<1>1. ASSUME NEW m \in Entries, StartOnline(m) PROVE Answered201'
  BY <1>1 DEF StartOnline, pushVars
<1>2. ASSUME NEW m \in Entries, StartOffline(m) PROVE Answered201'
  BY <1>2 DEF StartOffline, pushVars
<1>3. ASSUME NEW m \in Entries, GetAnswer(m) PROVE Answered201'
  BY <1>3 DEF GetAnswer, pushVars
<1>4. ASSUME NEW m \in Entries, RefreshAndRepeat(m) PROVE Answered201'
  BY <1>4 DEF RefreshAndRepeat, pushVars
<1>5. ASSUME NEW m \in Entries, RefreshFails(m) PROVE Answered201'
  BY <1>5 DEF RefreshFails, pushVars
<1>6. ASSUME NEW m \in Entries, CallLost(m) PROVE Answered201'
  BY <1>6 DEF CallLost, pushVars
<1>7. ASSUME NEW m \in Entries, Enqueue(m) PROVE Answered201'
  <2>1. Outcome(m) \in Returned
        /\ (Outcome(m) = "confirmed" => entry[m] = "answered")
    BY OutcomeReturned DEF Outcome, AddReturns, UpdateReturns, DeleteReturns,
       Actions
  <2> QED
    BY <1>7, <2>1 DEF Enqueue, Returned
<1>8. ASSUME NEW m \in Entries, EnqueueFails(m) \/ CountFails(m)
      PROVE  Answered201'
  BY <1>8 DEF EnqueueFails, CountFails, Throws
<1>9. ASSUME NEW m \in Entries, LeavePage(m) PROVE Answered201'
  BY <1>9 DEF LeavePage, pushVars
<1>10. ASSUME NEW m \in Entries, Unauthorized(m) PROVE Answered201'
  BY <1>10 DEF Unauthorized, pushVars
<1>11. ASSUME NEW m \in Entries, CallDropped(m) PROVE Answered201'
  BY <1>11 DEF CallDropped, pushVars
<1>12. ASSUME NEW m \in Entries, CallBegins(m) PROVE Answered201'
  BY <1>12 DEF CallBegins, pushVars
<1>13. ASSUME NEW m \in Entries, CallStores(m) PROVE Answered201'
  BY <1>13 DEF CallStores, pushVars
<1>14. ASSUME NEW m \in Entries, CallRefused(m) PROVE Answered201'
  BY <1>14 DEF CallRefused, pushVars
<1>15. ASSUME NEW m \in Entries, CallCommits(m) PROVE Answered201'
  BY <1>15 DEF CallCommits, pushVars
<1>16. ASSUME NEW m \in Entries, CallUndone(m) PROVE Answered201'
  BY <1>16 DEF CallUndone, pushVars
<1>17. ASSUME NEW r \in Requests, AnswerDelivered(r) PROVE Answered201'
  BY <1>17 DEF AnswerDelivered
<1>18. ASSUME PushAlone PROVE Answered201'
  BY <1>18 DEF PushAlone, entryVars
<1>19. CASE UNCHANGED vars
  BY <1>19 DEF vars, pushVars, entryVars
<1> QED
  BY <1>1, <1>2, <1>3, <1>4, <1>5, <1>6, <1>7, <1>8, <1>9, <1>10, <1>11,
     <1>12, <1>13, <1>14, <1>15, <1>16, <1>17, <1>18, <1>19, EntrySplit
     DEF EntryStep, CallStep

(* It was stored by the call, is about to be, or was undone by its commit  *)
(* (useCatalog.ts:362, middleware.go:210).                                 *)
THEOREM ConfirmedAccounted == Spec => []ConfirmedStoredOrUndone
<1>1. Init => AnsweredInv
  BY EntryTypeInit DEF Init, AnsweredInv, Answered201
<1>2. AnsweredInv /\ [Next]_vars => AnsweredInv'
  BY EntryTypeStep, AnsweredStep DEF AnsweredInv
<1>3. AnsweredInv => ConfirmedStoredOrUndone
  BY DEF AnsweredInv, Answered201, ConfirmedStoredOrUndone
<1> QED
  BY <1>1, <1>2, <1>3, PTL DEF Spec

-----------------------------------------------------------------------------
(* A call does its work once.                                              *)

(* What a call has done, it has done when it is closed; a call that was    *)
(* refused a token is over; the function that is to be called has none.    *)
DoneWhenClosed ==
  \A m \in Entries :
    /\ direct[m] # 0 => direct[m] = 1 /\ call[m] = "closed"
    /\ reply[m] = "unauthorized" => call[m] = "none"
    /\ entry[m] = "none" => call[m] = "none" /\ reply[m] = "none"

OnceInv == EntryTypeOK /\ DoneWhenClosed

LEMMA OnceStep == OnceInv /\ [Next]_vars => DoneWhenClosed'
<1> SUFFICES ASSUME OnceInv, [Next]_vars
             PROVE  DoneWhenClosed'
  OBVIOUS
<1> USE DEF OnceInv, EntryTypeOK, DoneWhenClosed
<1>1. ASSUME NEW m \in Entries,
             \/ StartOffline(m) \/ GetAnswer(m) \/ RefreshFails(m) \/ CallLost(m)
             \/ Enqueue(m) \/ EnqueueFails(m) \/ CountFails(m) \/ LeavePage(m)
      PROVE  DoneWhenClosed'
  <2>1. Outcome(m) # "none"
    BY OutcomeReturned DEF Returned
  <2> QED
    BY <1>1, <2>1 DEF StartOffline, GetAnswer, RefreshFails, CallLost, Enqueue,
       EnqueueFails, CountFails, Throws, LeavePage, Running
<1>2. ASSUME NEW m \in Entries, StartOnline(m) PROVE DoneWhenClosed'
  BY <1>2 DEF StartOnline
<1>3. ASSUME NEW m \in Entries, RefreshAndRepeat(m) PROVE DoneWhenClosed'
  BY <1>3 DEF RefreshAndRepeat
<1>4. ASSUME NEW m \in Entries, Unauthorized(m) \/ CallDropped(m)
      PROVE  DoneWhenClosed'
  BY <1>4 DEF Unauthorized, CallDropped
<1>5. ASSUME NEW m \in Entries,
             CallBegins(m) \/ CallStores(m) \/ CallRefused(m)
      PROVE  DoneWhenClosed'
  BY <1>5 DEF CallBegins, CallStores, CallRefused
<1>6. ASSUME NEW m \in Entries, CallCommits(m) PROVE DoneWhenClosed'
  BY <1>6 DEF CallCommits
<1>7. ASSUME NEW m \in Entries, CallUndone(m) PROVE DoneWhenClosed'
  BY <1>7 DEF CallUndone
<1>8. ASSUME NEW r \in Requests, AnswerDelivered(r) PROVE DoneWhenClosed'
  BY <1>8 DEF AnswerDelivered
<1>9. ASSUME PushAlone PROVE DoneWhenClosed'
  BY <1>9 DEF PushAlone, entryVars
<1>10. CASE UNCHANGED vars
  BY <1>10 DEF vars, entryVars
<1> QED
  BY <1>1, <1>2, <1>3, <1>4, <1>5, <1>6, <1>7, <1>8, <1>9, <1>10, EntrySplit
     DEF EntryStep, CallStep

(* No repetition after a 401 stores a grade, or makes a change, again      *)
(* (api.ts:105-109).                                                       *)
THEOREM CallOnce == Spec => []CallDoneOnce
<1>1. Init => OnceInv
  BY EntryTypeInit DEF Init, OnceInv, DoneWhenClosed
<1>2. OnceInv /\ [Next]_vars => OnceInv'
  BY EntryTypeStep, OnceStep DEF OnceInv
<1>3. OnceInv => CallDoneOnce
  BY DEF OnceInv, EntryTypeOK, DoneWhenClosed, CallDoneOnce
<1> QED
  BY <1>1, <1>2, <1>3, PTL DEF Spec

-----------------------------------------------------------------------------
(* Entries and flushes implement the outbox.                               *)

(* Requests handle only what has been in the queue.                        *)
Handled(r) == left[r] \union inserting[r] \union wrote[r]

OnlyTold ==
  /\ queue \subseteq issued
  /\ \A r \in Requests : Handled(r) \subseteq issued

(* A function enqueues in its try block, and once more in its catch block. *)
OnceOrTwice ==
  \A m \in Entries :
    /\ entry[m] \in {"none", "calling", "answered", "local"} => m \notin issued
    /\ m \notin issued \/ entry[m] = "caught" => Again[m] \notin issued

ToldInv == PushInv /\ EntryTypeOK /\ OnlyTold /\ OnceOrTwice

(* The step of a browser or a call leaves the queue alone, or puts a new   *)
(* mutation into it.                                                       *)
LEMMA BrowserStep ==
  ASSUME EntryTypeOK, OnceOrTwice, NEW m \in Entries,
         \/ StartOnline(m) \/ StartOffline(m) \/ EntryStep(m) \/ LeavePage(m)
         \/ Unauthorized(m) \/ CallDropped(m) \/ CallStep(m)
  PROVE  /\ UNCHANGED pushVars
         /\ OnceOrTwice'
         /\ \/ UNCHANGED queueVars
            \/ \E id \in Mutations \ issued :
                 /\ queue' = queue \union {id}
                 /\ issued' = issued \union {id}
<1> USE DEF EntryTypeOK, OnceOrTwice, queueVars
<1>1. CASE StartOnline(m) \/ StartOffline(m)
  BY <1>1 DEF StartOnline, StartOffline
<1>2. CASE GetAnswer(m) \/ RefreshAndRepeat(m) \/ RefreshFails(m) \/ CallLost(m)
  BY <1>2 DEF GetAnswer, RefreshAndRepeat, RefreshFails, CallLost
<1>3. CASE Enqueue(m) \/ CountFails(m)
  <2>1. /\ entry[m] \in {"answered", "caught", "local"}
        /\ \A k \in Entries \ {m} : entry'[k] = entry[k]
        /\ entry'[m] \in Returned \union {"caught", "thrown"}
        /\ entry'[m] = "caught" => entry[m] # "caught"
        /\ UNCHANGED pushVars
    <3>1. CASE Enqueue(m)
      BY <1>3, <3>1, OutcomeReturned DEF Enqueue, Returned
    <3>2. CASE CountFails(m)
      BY <1>3, <3>2 DEF CountFails, Throws
    <3> QED
      BY <1>3, <3>1, <3>2
  <2>2. /\ queue' = queue \union {ClientId(m)}
        /\ issued' = issued \union {ClientId(m)}
    BY <1>3 DEF Enqueue, CountFails, Queues
  <2>3. CASE m \notin issued
    <3>1. ClientId(m) = m
      BY <2>3 DEF ClientId
    <3>2. OnceOrTwice'
      BY <2>1, <2>2, <2>3, <3>1 DEF Returned
    <3> QED
      BY <2>1, <2>2, <2>3, <3>1, <3>2
  <2>4. CASE m \in issued
    <3>1. ClientId(m) = Again[m] /\ entry[m] = "caught"
      BY <2>1, <2>4 DEF ClientId
    <3>2. Again[m] \in Mutations \ issued
      BY <3>1
    <3>3. OnceOrTwice'
      BY <2>1, <2>2, <2>4, <3>1 DEF Returned
    <3> QED
      BY <2>1, <2>2, <3>1, <3>2, <3>3
  <2> QED
    BY <2>3, <2>4
<1>4. CASE EnqueueFails(m)
  BY <1>4 DEF EnqueueFails, Throws
<1>5. CASE LeavePage(m)
  BY <1>5 DEF LeavePage, Running
<1>6. CASE Unauthorized(m) \/ CallDropped(m)
  BY <1>6 DEF Unauthorized, CallDropped
<1>7. CASE CallStep(m)
  BY <1>7 DEF CallStep, CallBegins, CallStores, CallRefused, CallCommits,
     CallUndone
<1> QED
  BY <1>1, <1>2, <1>3, <1>4, <1>5, <1>6, <1>7 DEF EntryStep

(* A request handles what it was sent, and no more.                        *)
LEMMA HandledStep ==
  ASSUME PushTypeOK, NEW r \in Requests,
         \/ Drop(r) \/ Process(r) \/ Cancel(r) \/ Release(r)
  PROVE  \A q \in Requests : Handled(q)' \subseteq Handled(q)
<1> USE DEF PushTypeOK, Handled
<1>1. CASE Drop(r) \/ Cancel(r) \/ Release(r)
  BY <1>1 DEF Drop, Cancel, AbortTx, Release
<1>2. CASE Begin(r) \/ Commit(r) \/ CommitFails(r)
  BY <1>2 DEF Begin, Commit, CommitFails
<1>3. ASSUME NEW m \in Mutations,
             \/ LookupFinds(r, m) \/ Refuse(r, m) \/ LookupMisses(r, m)
             \/ InsertStores(r, m)
      PROVE  \A q \in Requests : Handled(q)' \subseteq Handled(q)
  <2>1. CASE LookupFinds(r, m) \/ Refuse(r, m)
    BY <2>1 DEF LookupFinds, Refuse
  <2>2. CASE LookupMisses(r, m)
    BY <2>2 DEF LookupMisses, NextMutation, First
  <2>3. CASE InsertStores(r, m)
    BY <2>3 DEF InsertStores
  <2> QED
    BY <1>3, <2>1, <2>2, <2>3
<1>4. ASSUME NEW m \in Mutations, InsertViolates(r, m) \/ FailRest(r, m)
      PROVE  \A q \in Requests : Handled(q)' \subseteq Handled(q)
  BY <1>4 DEF InsertViolates, AbortTx, FailRest
<1> QED
  BY <1>1, <1>2, <1>3, <1>4 DEF Process

LEMMA OnlyToldStep == ToldInv /\ [Next]_vars => OnlyTold' /\ OnceOrTwice'
<1> SUFFICES ASSUME ToldInv, [Next]_vars
             PROVE  OnlyTold' /\ OnceOrTwice'
  OBVIOUS
<1> USE DEF ToldInv, EntryTypeOK, OnlyTold
<1>1. ASSUME NEW m \in Entries,
             \/ StartOnline(m) \/ StartOffline(m) \/ EntryStep(m) \/ LeavePage(m)
             \/ Unauthorized(m) \/ CallDropped(m) \/ CallStep(m)
      PROVE  OnlyTold' /\ OnceOrTwice'
  BY <1>1, BrowserStep DEF Handled, pushVars, queueVars
<1>2. ASSUME NEW r \in Requests, NEW batch \in SUBSET queue, Flush(r, batch)
      PROVE  OnlyTold' /\ OnceOrTwice'
  BY <1>2 DEF Flush, Submit, Handled, OnceOrTwice, entryVars, queueVars, PushTypeOK
<1>3. ASSUME NEW r \in Requests, AnswerDelivered(r)
      PROVE  OnlyTold' /\ OnceOrTwice'
  <2>1. \A q \in Requests : Handled(q)' \subseteq Handled(q)
    BY <1>3, HandledStep DEF AnswerDelivered
  <2> QED
    BY <1>3, <2>1 DEF AnswerDelivered, OnceOrTwice
<1>4. ASSUME NEW r \in Requests, UNCHANGED entryVars,
             Drop(r) \/ Process(r) \/ Cancel(r) \/ Release(r)
      PROVE  OnlyTold' /\ OnceOrTwice'
  <2>1. \A q \in Requests : Handled(q)' \subseteq Handled(q)
    BY <1>4, HandledStep
  <2> QED
    BY <1>4, <2>1 DEF entryVars, queueVars, OnceOrTwice
<1>5. CASE UNCHANGED vars
  BY <1>5 DEF vars, pushVars, entryVars, queueVars, Handled, OnceOrTwice
<1> QED
  BY <1>1, <1>2, <1>3, <1>4, <1>5 DEF Next, AnswerLost

LEMMA ToldInvariant == Spec => []ToldInv
<1>1. Init => ToldInv
  <2> SUFFICES ASSUME Init PROVE OnlyTold /\ OnceOrTwice
    BY EntryTypeInit, PushInvInit DEF Init, ToldInv
  <2>1. queue \subseteq issued
    BY DEF Init
  <2>2. \A r \in Requests : Handled(r) = {}
    BY DEF Init, PushInit, Handled
  <2>3. \A m \in Entries : m \notin issued /\ Again[m] \notin issued
    BY DEF Init
  <2> QED
    BY <2>1, <2>2, <2>3 DEF OnlyTold, OnceOrTwice
<1>2. ToldInv /\ [Next]_vars => ToldInv'
  BY EntryTypeStep, EntryPushStep, PushInvStep, OnlyToldStep DEF ToldInv
<1> QED
  BY <1>1, <1>2, PTL DEF Spec

(* The variables of the outbox.                                            *)
Stored == {m \in Mutations : copies[m] > 0}
Done == issued \ queue

LEMMA OutboxMoves ==
  ASSUME NEW ms \in SUBSET Mutations,
         \/ EntryOutbox!Store(ms)
         \/ EntryOutbox!Forfeit(ms)
         \/ EntryOutbox!Leave(ms)
  PROVE  EntryOutbox!Next
  BY Zenon DEF EntryOutbox!Next

(* A commit stores the rows of its transaction, a rollback forfeits them.  *)
LEMMA ServerStep ==
  ASSUME ToldInv, UNCHANGED entryVars, [PushNext]_pushVars
  PROVE  [EntryOutbox!Next]_(EntryOutbox!vars)
<1> USE DEF Stored, Done
<1>0. UNCHANGED <<queue, Done>>
  BY DEF entryVars, queueVars
<1>1. ASSUME NEW r \in Requests
      PROVE  /\ wrote[r] \in SUBSET Mutations
             /\ wrote[r] \subseteq (queue \union Done) \ Stored
  <2>1. wrote[r] \subseteq issued /\ issued = queue \union Done
    BY DEF ToldInv, OnlyTold, Handled
  <2>2. wrote[r] \in SUBSET Mutations /\ wrote[r] \intersect Stored = {}
    BY DEF ToldInv, PushInv, PushTypeOK, WroteFresh
  <2> QED
    BY <2>1, <2>2
<1>2. ASSUME NEW r \in Requests, Stored' = Stored \union wrote[r],
             UNCHANGED undone
      PROVE  EntryOutbox!Next
  <2>1. PICK ms \in SUBSET Mutations : ms = wrote[r]
    BY <1>1
  <2>2. EntryOutbox!Store(ms)
    BY <1>0, <1>1, <1>2, <2>1 DEF EntryOutbox!Store, EntryOutbox!Entered
  <2> QED
    BY <2>2, OutboxMoves
<1>3. ASSUME NEW r \in Requests, undone' = undone \union wrote[r],
             UNCHANGED copies
      PROVE  EntryOutbox!Next
  <2>1. PICK ms \in SUBSET Mutations : ms = wrote[r]
    BY <1>1
  <2>2. EntryOutbox!Forfeit(ms)
    BY <1>0, <1>1, <1>3, <2>1 DEF EntryOutbox!Forfeit, EntryOutbox!Entered
  <2> QED
    BY <2>2, OutboxMoves
<1>4. ASSUME UNCHANGED <<copies, undone>>
      PROVE  UNCHANGED EntryOutbox!vars
  BY <1>0, <1>4 DEF EntryOutbox!vars
<1>5. ASSUME NEW r \in Requests, Commit(r)
      PROVE  EntryOutbox!Next
  <2>1. Stored' = Stored \union wrote[r]
    BY <1>5 DEF Commit, ToldInv, PushInv, PushTypeOK
  <2> QED
    BY <1>2, <1>5, <2>1 DEF Commit
<1>6. ASSUME NEW r \in Requests, NEW m \in Mutations,
             \/ LookupFinds(r, m) \/ Refuse(r, m) \/ LookupMisses(r, m)
             \/ InsertStores(r, m) \/ FailRest(r, m)
      PROVE  UNCHANGED EntryOutbox!vars
  BY <1>4, <1>6 DEF LookupFinds, Refuse, LookupMisses, InsertStores, FailRest
<1>7. ASSUME NEW r \in Requests,
             \/ Begin(r) \/ Drop(r) \/ Release(r)
             \/ \E b \in SUBSET Mutations : Submit(r, b)
      PROVE  UNCHANGED EntryOutbox!vars
  BY <1>4, <1>7 DEF Begin, Drop, Release, Submit
<1>8. ASSUME NEW r \in Requests,
             \/ CommitFails(r) \/ Cancel(r)
             \/ \E m \in Mutations : InsertViolates(r, m)
      PROVE  EntryOutbox!Next
  BY <1>3, <1>8 DEF CommitFails, Cancel, InsertViolates, AbortTx
<1>9. CASE UNCHANGED pushVars
  BY <1>4, <1>9 DEF pushVars
<1> QED
  BY <1>5, <1>6, <1>7, <1>8, <1>9 DEF PushNext, Process

LEMMA EntryOutboxStep ==
  ToldInv /\ [Next]_vars => [EntryOutbox!Next]_(EntryOutbox!vars)
<1> SUFFICES ASSUME ToldInv, [Next]_vars
             PROVE  [EntryOutbox!Next]_(EntryOutbox!vars)
  OBVIOUS
<1>1. ASSUME NEW m \in Entries,
             \/ StartOnline(m) \/ StartOffline(m) \/ EntryStep(m) \/ LeavePage(m)
             \/ Unauthorized(m) \/ CallDropped(m) \/ CallStep(m)
      PROVE  [EntryOutbox!Next]_(EntryOutbox!vars)
  <2>1. UNCHANGED <<copies, undone>>
    BY <1>1, BrowserStep DEF ToldInv, pushVars
  <2>2. CASE UNCHANGED queueVars
    BY <2>1, <2>2 DEF EntryOutbox!vars, queueVars
  <2>3. ASSUME NEW id \in Mutations \ issued,
               queue' = queue \union {id},
               issued' = issued \union {id}
        PROVE  EntryOutbox!Next
    <3>1. id \notin queue \union Done /\ UNCHANGED Done
      BY <2>3 DEF ToldInv, OnlyTold, Done
    <3>2. EntryOutbox!Enter(id)
      BY <2>1, <2>3, <3>1
         DEF EntryOutbox!Enter, EntryOutbox!Entered, Done
    <3> QED
      BY <3>2 DEF EntryOutbox!Next
  <2> QED
    BY <1>1, <2>2, <2>3, BrowserStep DEF ToldInv
<1>2. ASSUME NEW r \in Requests, AnswerDelivered(r)
      PROVE  [EntryOutbox!Next]_(EntryOutbox!vars)
  <2>1. PICK ms \in SUBSET Mutations : ms = okay[r] \intersect queue
    BY DEF ToldInv, EntryTypeOK
  <2>2. /\ queue' = queue \ ms
        /\ UNCHANGED <<copies, undone, issued>>
    BY <1>2, <2>1 DEF AnswerDelivered, Release
  <2>3. ms \subseteq queue \intersect (Stored \union undone)
    BY <1>2, <2>1 DEF AnswerDelivered, Release, ToldInv, PushInv, PushTypeOK,
       Phased, SyncedAccounted, Stored
  <2>4. Done' = Done \union ms
    BY <2>1, <2>2 DEF ToldInv, OnlyTold, Done
  <2>5. EntryOutbox!Leave(ms)
    BY <2>2, <2>3, <2>4 DEF EntryOutbox!Leave, Stored, Done
  <2> QED
    BY <2>5, OutboxMoves
<1>3. ASSUME PushAlone
      PROVE  [EntryOutbox!Next]_(EntryOutbox!vars)
  BY <1>3, ServerStep DEF PushAlone
<1>4. CASE UNCHANGED vars
  BY <1>4 DEF vars, pushVars, entryVars, queueVars, EntryOutbox!vars
<1> QED
  BY <1>1, <1>2, <1>3, <1>4, EntrySplit DEF ToldInv

(* Calls that fail, are repeated or answered late, and pushes whose answer *)
(* is lost, keep the promise of the outbox to every entry                  *)
(* (useCatalog.ts:353-385, sync-engine.ts:104-125).                        *)
THEOREM EntryOutboxImplemented == Spec => EntryOutboxSpec
<1>1. Init => EntryOutbox!Init
  <2> SUFFICES ASSUME Init PROVE EntryOutbox!Init
    OBVIOUS
  <2>1. queue \in SUBSET Mutations
    BY DEF Init
  <2>2. Done = {}
    BY DEF Init, Done
  <2>3. {m \in Mutations : copies[m] > 0} = {} /\ undone = {}
    BY DEF Init, PushInit
  <2> QED
    BY <2>1, <2>2, <2>3 DEF EntryOutbox!Init, Done
<1> QED
  BY <1>1, ToldInvariant, EntryOutboxStep, PTL
     DEF Spec, EntryOutboxSpec, EntryOutbox!Spec

=============================================================================
