-------------------------- MODULE OfflineSync_proofs --------------------------
(***************************************************************************)
(* Proofs about OfflineSync, for any number of mutations, tabs, requests   *)
(* and retries.                                                            *)
(*                                                                         *)
(* A device only ever makes the server take steps of SyncPush, so what is  *)
(* proved of SyncPush holds here (PushImplemented).  What the device does  *)
(* with the answers needs that an answer is held for the tab that sent the *)
(* batch (Held) and that a tab applies only results that were true when    *)
(* the response was finished (AppliedTrue).                                *)
(***************************************************************************)
EXTENDS OfflineSync, SyncPush_proofs

(* Mutations the user has entered.                                         *)
Known == {m \in Mutations : entry[m] # "unused"}

(* Nothing else is handled, sent, stored or undone.                        *)
OnlyKnown ==
  /\ \A t \in Tabs :
       /\ pending[t] \subseteq Known
       /\ batch[t] \subseteq Known
       /\ todo[t] \subseteq Known
  /\ \A r \in Requests :
       left[r] \union inserting[r] \union okay[r] \union bad[r] \union wrote[r]
         \subseteq Known
  /\ StoredSet \union undone \subseteq Known

(* A request with an owner carries the batch its owner waits for; the      *)
(* owner waits for no other.                                               *)
Held ==
  \A r \in Requests : \A t \in owner[r] :
    /\ owner[r] = {t}
    /\ \A q \in Requests : t \in owner[q] => q = r
    /\ phase[t] = "waiting"
    /\ status[r] # "free"
    /\ left[r] \union inserting[r] \union okay[r] \union bad[r] = batch[t]

Acknowledged(m) == copies[m] > 0 \/ m \in undone

AppliedTrue == \A t \in Tabs : \A m \in synced[t] : Acknowledged(m)

RemovedTrue ==
  \A m \in Mutations : entry[m] = "removed" => Acknowledged(m)

DeviceCore ==
  /\ OnlyKnown
  /\ Held
  /\ AppliedTrue
  /\ RemovedTrue

DeviceInv ==
  /\ TypeOK
  /\ PushInv
  /\ DeviceCore

-----------------------------------------------------------------------------
(* Types, and the server's part.                                           *)

LEMMA EngineTypeStep ==
  EngineTypeOK /\ PushTypeOK /\ [Next]_vars => EngineTypeOK'
<1> SUFFICES ASSUME EngineTypeOK, PushTypeOK, [Next]_vars
             PROVE  EngineTypeOK'
  OBVIOUS
<1> USE DEF EngineTypeOK, EntryStates, Phases
<1>1. ASSUME NEW t \in Tabs, User(t) PROVE EngineTypeOK'
  BY <1>1 DEF User, Enqueue, tabVars
<1>2. ASSUME NEW t \in Tabs, Timer(t) PROVE EngineTypeOK'
  <2>1. /\ timer' \in [Tabs -> BOOLEAN] /\ stray' \in [Tabs -> BOOLEAN]
        /\ UNCHANGED <<queueVars, online, rejections>>
        /\ FlushReturns(t) \/ FlushStarts(t)
    BY <1>2 DEF Timer, TimerFires, TimerDue
  <2> QED
    BY <2>1 DEF FlushReturns, FlushStarts, queueVars, tabVars, GetPending, Sendable
<1>3. ASSUME NEW t \in Tabs, Flush(t) PROVE EngineTypeOK'
  <2>1. CASE MarkNext(t)
    BY <2>1 DEF MarkNext, MarkSyncing, First, timerVars
  <2>2. CASE ApplyNext(t)
    BY <2>2 DEF ApplyNext, MarkSynced, MarkFailed, Queued, timerVars, queueVars
  <2>3. CASE FailNext(t)
    BY <2>3 DEF FailNext, MarkFailed, Queued, timerVars, queueVars
  <2>4. CASE FlushEnds(t)
    BY <2>4 DEF FlushEnds, timerVars, queueVars
  <2>5. CASE CatchReads(t)
    BY <2>5 DEF CatchReads, GetPending, timerVars, queueVars
  <2> QED
    BY <1>3, <2>1, <2>2, <2>3, <2>4, <2>5 DEF Flush, FlushStep
<1>4. ASSUME NEW t \in Tabs, ConnectionLost(t) PROVE EngineTypeOK'
  BY <1>4 DEF ConnectionLost, RequestFails, queueVars, timerVars
<1>12. ASSUME NEW t \in Tabs, Storage(t) PROVE EngineTypeOK'
  <2>1. rejections' \in Nat
    BY <1>12 DEF Storage, ReadFails, AccessFails, CatchFails, Rejected
  <2>2. CASE ReadFails(t)
    <3>1. timer' \in [Tabs -> BOOLEAN] /\ stray' \in [Tabs -> BOOLEAN]
      BY <2>2 DEF ReadFails, TimerDue
    <3> QED
      BY <2>1, <2>2, <3>1 DEF ReadFails, queueVars
  <2>3. CASE AccessFails(t)
    BY <2>1, <2>3 DEF AccessFails, queueVars, timerVars
  <2>4. CASE CatchFails(t)
    BY <2>1, <2>4 DEF CatchFails, queueVars, timerVars
  <2> QED
    BY <1>12, <2>2, <2>3, <2>4 DEF Storage
<1>5. ASSUME NEW t \in Tabs, ReloadTab(t) PROVE EngineTypeOK'
  BY <1>5 DEF ReloadTab, Reload, queueVars
<1>6. ASSUME NEW t \in Tabs, NEW r \in Requests, Send(t, r)
      PROVE  EngineTypeOK'
  BY <1>6 DEF Send, SendBatch, queueVars, timerVars
<1>7. ASSUME NEW t \in Tabs, NEW r \in Requests, Answer(t, r)
      PROVE  EngineTypeOK'
  BY <1>7 DEF Answer, Receive, queueVars, timerVars, PushTypeOK
<1>8. ASSUME UNCHANGED engineVars PROVE EngineTypeOK'
  BY <1>8 DEF engineVars, queueVars, tabVars, timerVars
<1>9. CASE Browser
  BY <1>9 DEF Browser, GoOffline, GoOnline, queueVars, tabVars
<1>10. ASSUME NEW r \in Requests, Server(r) \/ Interrupt(r) \/ Vanish(r)
       PROVE  EngineTypeOK'
  BY <1>8, <1>10 DEF Server, Interrupt, Vanish
<1>11. CASE UNCHANGED vars
  BY <1>8, <1>11 DEF vars
<1> QED
  BY <1>1, <1>2, <1>3, <1>4, <1>5, <1>6, <1>7, <1>9, <1>10, <1>11, <1>12 DEF Next

LEMMA OwnerStep ==
  /\ owner \in [Requests -> SUBSET Tabs]
  /\ [Next]_vars
  => owner' \in [Requests -> SUBSET Tabs]
<1> SUFFICES ASSUME owner \in [Requests -> SUBSET Tabs], [Next]_vars
             PROVE  owner' \in [Requests -> SUBSET Tabs]
  OBVIOUS
<1> QED
  BY DEF Next, User, Timer, Flush, ConnectionLost, Storage, ReloadTab, Send, Answer,
         Server, Interrupt, Vanish, Browser, Abandoned, vars

(* To the server a device is one of the clients of SyncPush.               *)
LEMMA PushStep == EngineTypeOK /\ [Next]_vars => [PushNext]_pushVars
<1> SUFFICES ASSUME EngineTypeOK, [Next]_vars
             PROVE  [PushNext]_pushVars
  OBVIOUS
<1>1. ASSUME NEW t \in Tabs,
             \/ User(t) \/ Timer(t) \/ Flush(t)
             \/ ConnectionLost(t) \/ Storage(t) \/ ReloadTab(t) \/ Browser
      PROVE  UNCHANGED pushVars
  BY <1>1 DEF User, Timer, Flush, ConnectionLost, Storage, ReloadTab, Browser
<1>2. ASSUME NEW t \in Tabs, NEW r \in Requests, Send(t, r)
      PROVE  PushNext
  BY <1>2 DEF Send, PushNext, EngineTypeOK
<1>3. ASSUME NEW t \in Tabs, NEW r \in Requests, Answer(t, r)
      PROVE  PushNext
  BY <1>3 DEF Answer, PushNext
<1>4. ASSUME NEW r \in Requests, Server(r) \/ Interrupt(r) \/ Vanish(r)
      PROVE  PushNext
  BY <1>4 DEF Server, Interrupt, Vanish, PushNext
<1>5. CASE Browser
  BY <1>5 DEF Browser
<1>6. CASE UNCHANGED vars
  BY <1>6 DEF vars
<1> QED
  BY <1>1, <1>2, <1>3, <1>4, <1>5, <1>6 DEF Next

-----------------------------------------------------------------------------
(* TypeOK and what the server promises.                                    *)

LEMMA TypeOKInit == Init => TypeOK /\ PushInv
<1> SUFFICES ASSUME Init PROVE TypeOK
  BY PushInvInit DEF Init
<1>1. EngineTypeOK
  BY DEF Init, EngineInit, EngineTypeOK, EntryStates, Phases
<1>2. PushTypeOK
  BY PushInvInit DEF Init, PushInv
<1>3. owner \in [Requests -> SUBSET Tabs]
  BY DEF Init
<1> QED
  BY <1>1, <1>2, <1>3 DEF TypeOK

LEMMA TypeOKStep == TypeOK /\ [Next]_vars => TypeOK'
  BY EngineTypeStep, OwnerStep, PushStep, TypeStep DEF TypeOK

(* Every variable of device and server keeps its type                      *)
(* (sync-queue.ts, sync-engine.ts, sync_handler.go).                       *)
THEOREM TypeCorrect == Spec => []TypeOK
  BY TypeOKInit, TypeOKStep, PTL DEF Spec

(* A device, its tabs, reloads and lost connections included, drives the   *)
(* server only through steps of SyncPush, so that every theorem about      *)
(* SyncPush is one about the whole (sync-engine.ts:94-101).                *)
THEOREM PushImplemented == Spec => PushSpec
<1>1. Init => PushInit
  BY DEF Init
<1>2. TypeOK /\ [Next]_vars => [PushNext]_pushVars
  BY PushStep DEF TypeOK
<1> QED
  BY <1>1, <1>2, TypeCorrect, PTL DEF Spec, PushSpec

-----------------------------------------------------------------------------
(* The device's part of the invariant.                                     *)

LEMMA DeviceCoreInit == Init => DeviceCore
<1> SUFFICES ASSUME Init PROVE DeviceCore
  OBVIOUS
<1> USE DEF Init, EngineInit, PushInit
<1>1. OnlyKnown
  BY DEF OnlyKnown, StoredSet
<1>2. Held /\ AppliedTrue /\ RemovedTrue
  BY DEF Held, AppliedTrue, RemovedTrue
<1> QED
  BY <1>1, <1>2 DEF DeviceCore

(* Steps of the user and of a tab: the server is as it was.                *)
LEMMA TabSteps ==
  ASSUME TypeOK, DeviceCore, UNCHANGED pushVars, NEW t \in Tabs,
         \/ User(t) \/ Timer(t) \/ Flush(t)
         \/ ConnectionLost(t) \/ Storage(t) \/ ReloadTab(t)
  PROVE  DeviceCore'
<1> USE DEF TypeOK, EngineTypeOK, DeviceCore, OnlyKnown, Held, AppliedTrue,
            RemovedTrue, Acknowledged, Known, StoredSet, pushVars
<1>1. CASE User(t)
  BY <1>1 DEF User, Enqueue, tabVars, First
<1>2. CASE Timer(t)
  <2>1. UNCHANGED <<queueVars, online, owner>> /\ (FlushReturns(t) \/ FlushStarts(t))
    BY <1>2 DEF Timer, TimerFires
  <2>2. CASE FlushReturns(t)
    BY <2>1, <2>2 DEF FlushReturns, tabVars, queueVars
  <2>3. CASE FlushStarts(t)
    BY <2>1, <2>3 DEF FlushStarts, queueVars, GetPending, Sendable
  <2> QED
    BY <2>1, <2>2, <2>3
<1>3. CASE Flush(t)
  <2>0. UNCHANGED owner
    BY <1>3 DEF Flush
  <2>1. CASE MarkNext(t)
    BY <2>0, <2>1 DEF MarkNext, MarkSyncing, Queued, First, timerVars
  <2>2. CASE ApplyNext(t)
    BY <2>0, <2>2 DEF ApplyNext, MarkSynced, MarkFailed, Queued, First, timerVars, queueVars
  <2>3. CASE FailNext(t)
    BY <2>0, <2>3 DEF FailNext, MarkFailed, Queued, First, timerVars, queueVars
  <2>4. CASE FlushEnds(t)
    BY <2>0, <2>4 DEF FlushEnds, timerVars, queueVars
  <2>5. CASE CatchReads(t)
    BY <2>0, <2>5 DEF CatchReads, GetPending, timerVars, queueVars
  <2> QED
    BY <1>3, <2>1, <2>2, <2>3, <2>4, <2>5 DEF Flush, FlushStep
<1>4. CASE ConnectionLost(t)
  BY <1>4 DEF ConnectionLost, Abandoned, RequestFails, queueVars, timerVars
<1>6. CASE Storage(t)
  <2>0. UNCHANGED owner
    BY <1>6 DEF Storage
  <2>1. CASE ReadFails(t)
    BY <2>0, <2>1 DEF ReadFails, queueVars
  <2>2. CASE AccessFails(t)
    BY <2>0, <2>2 DEF AccessFails, queueVars, timerVars
  <2>3. CASE CatchFails(t)
    BY <2>0, <2>3 DEF CatchFails, queueVars, timerVars
  <2> QED
    BY <1>6, <2>1, <2>2, <2>3 DEF Storage
<1>5. CASE ReloadTab(t)
  BY <1>5 DEF ReloadTab, Abandoned, Reload, queueVars
<1> QED
  BY <1>1, <1>2, <1>3, <1>4, <1>5, <1>6

(* A request leaves, and an answer arrives.                                *)
LEMMA ExchangeSteps ==
  ASSUME TypeOK, PushInv, DeviceCore, NEW t \in Tabs, NEW r \in Requests,
         Send(t, r) \/ Answer(t, r)
  PROVE  DeviceCore'
<1> USE DEF TypeOK, EngineTypeOK, DeviceCore, OnlyKnown, Held, AppliedTrue,
            RemovedTrue, Acknowledged, Known, StoredSet
<1>p. PushTypeOK /\ Phased /\ SyncedAccounted
  BY DEF PushInv
<1>1. CASE Send(t, r)
  <2>1. /\ left[r] = {} /\ inserting[r] = {} /\ okay[r] = {} /\ bad[r] = {}
        /\ status[r] = "free" /\ phase[t] = "ready"
    BY <1>1, <1>p DEF Send, SendBatch, Submit, Phased
  <2>2. /\ UNCHANGED <<entry, pending, batch, todo, synced>>
        /\ UNCHANGED <<inserting, wrote, okay, bad, copies, undone>>
        /\ phase' = [phase EXCEPT ![t] = "waiting"]
        /\ status' = [status EXCEPT ![r] = "sent"]
        /\ left' = [left EXCEPT ![r] = batch[t]]
        /\ owner' = [owner EXCEPT ![r] = {t}]
    BY <1>1 DEF Send, SendBatch, Submit, queueVars
  <2>3. OnlyKnown' /\ AppliedTrue' /\ RemovedTrue'
    BY <1>p, <2>2 DEF PushTypeOK
  <2>4. Held'
    BY <1>p, <2>1, <2>2 DEF PushTypeOK
  <2> QED
    BY <2>3, <2>4
<1>2. CASE Answer(t, r)
  <2>1. /\ UNCHANGED <<entry, pending, batch>>
        /\ UNCHANGED <<left, inserting, wrote, copies, undone>>
        /\ phase[t] = "waiting" /\ status[r] = "closed" /\ t \in owner[r]
        /\ phase' = [phase EXCEPT ![t] = "applying"]
        /\ todo' = [todo EXCEPT ![t] = batch[t] \intersect (okay[r] \union bad[r])]
        /\ synced' = [synced EXCEPT ![t] = okay[r]]
        /\ status' = [status EXCEPT ![r] = "free"]
        /\ okay' = [okay EXCEPT ![r] = {}]
        /\ bad' = [bad EXCEPT ![r] = {}]
        /\ owner' = [owner EXCEPT ![r] = {}]
    BY <1>2 DEF Answer, Receive, Release, queueVars
  <2>2. OnlyKnown' /\ RemovedTrue'
    BY <1>p, <2>1 DEF PushTypeOK
  <2>3. \A m \in okay[r] : Acknowledged(m)
    BY <1>p, <2>1 DEF Phased, SyncedAccounted
  <2>4. AppliedTrue'
    BY <2>1, <2>3
  <2>5. Held'
    <3> SUFFICES ASSUME NEW q \in Requests, NEW s \in Tabs, s \in owner'[q]
                 PROVE  /\ owner'[q] = {s} /\ phase'[s] = "waiting"
                        /\ \A p \in Requests : s \in owner'[p] => p = q
                        /\ status'[q] # "free"
                        /\ left'[q] \union inserting'[q] \union okay'[q]
                             \union bad'[q] = batch'[s]
      BY <2>1
    <3>1. q # r /\ s \in owner[q]
      BY <2>1
    <3>2. s # t
      BY <2>1, <3>1
    <3> QED
      BY <1>p, <2>1, <3>1, <3>2 DEF PushTypeOK
  <2> QED
    BY <2>2, <2>4, <2>5
<1> QED
  BY <1>1, <1>2

(* The server's own steps: a row that "synced" speaks of is committed, or  *)
(* undone, and what a request still carries is the batch it came with.     *)
LEMMA ServerSteps ==
  ASSUME TypeOK, PushInv, DeviceCore, NEW r \in Requests,
         Server(r) \/ Interrupt(r) \/ Vanish(r)
  PROVE  DeviceCore'
<1> USE DEF TypeOK, EngineTypeOK, PushTypeOK, DeviceCore, OnlyKnown, Held,
            AppliedTrue, RemovedTrue, Acknowledged, Known, StoredSet,
            engineVars, queueVars, tabVars
<1>u. UNCHANGED engineVars /\ UNCHANGED owner
  BY DEF Server, Interrupt, Vanish
<1>p. PushTypeOK /\ Phased /\ Ordered
  BY DEF PushInv
<1>1. CASE Begin(r)
  BY <1>u, <1>1 DEF Begin
<1>2. ASSUME NEW m \in Mutations, LookupFinds(r, m)
      PROVE  DeviceCore'
  BY <1>u, <1>2 DEF LookupFinds, NextMutation, First
<1>9. ASSUME NEW m \in Mutations, Refuse(r, m)
      PROVE  DeviceCore'
  BY <1>u, <1>9 DEF Refuse, NextMutation, First
<1>10. ASSUME NEW m \in Mutations, LookupMisses(r, m)
       PROVE  DeviceCore'
  BY <1>u, <1>10 DEF LookupMisses, NextMutation, First
<1>11. ASSUME NEW m \in Mutations, FailRest(r, m)
       PROVE  DeviceCore'
  BY <1>u, <1>11 DEF FailRest, NextMutation, First
<1>3. ASSUME NEW m \in Mutations, InsertStores(r, m)
      PROVE  DeviceCore'
  BY <1>u, <1>p, <1>3 DEF InsertStores, Ordered
<1>4. ASSUME NEW m \in Mutations, InsertViolates(r, m)
      PROVE  DeviceCore'
  BY <1>u, <1>p, <1>4 DEF InsertViolates, AbortTx, Ordered
<1>5. CASE Commit(r)
  BY <1>u, <1>5 DEF Commit
<1>6. CASE CommitFails(r)
  BY <1>u, <1>6 DEF CommitFails
<1>7. CASE Cancel(r)
  BY <1>u, <1>7 DEF Cancel, AbortTx
<1>8. CASE Vanish(r)
  <2>1. owner[r] = {} /\ UNCHANGED <<inserting, wrote, copies, undone>>
    BY <1>8 DEF Vanish, Drop, Release
  <2>2. CASE Drop(r)
    BY <1>u, <2>1, <2>2 DEF Drop
  <2>3. CASE Release(r)
    BY <1>u, <2>1, <2>3 DEF Release
  <2> QED
    BY <1>8, <2>2, <2>3 DEF Vanish
<1> QED
  BY <1>1, <1>2, <1>3, <1>4, <1>5, <1>6, <1>7, <1>8, <1>9, <1>10, <1>11
  DEF Server, Interrupt, Process

(* What a step leaves DeviceCore alone by.                                 *)
LEMMA DeviceStutter ==
  ASSUME DeviceCore,
         UNCHANGED <<entry, phase, pending, batch, todo, synced, owner>>,
         UNCHANGED <<status, left, inserting, wrote, okay, bad, copies, undone>>
  PROVE  DeviceCore'
<1>1. OnlyKnown'
  BY DEF DeviceCore, OnlyKnown, Known, StoredSet
<1>2. Held'
  BY DEF DeviceCore, Held
<1>3. AppliedTrue' /\ RemovedTrue'
  BY DEF DeviceCore, AppliedTrue, RemovedTrue, Acknowledged
<1> QED
  BY <1>1, <1>2, <1>3 DEF DeviceCore

LEMMA DeviceInvStep == DeviceInv /\ [Next]_vars => DeviceInv'
<1> SUFFICES ASSUME DeviceInv, [Next]_vars
             PROVE  DeviceInv'
  OBVIOUS
<1>1. TypeOK' /\ PushInv'
  BY TypeOKStep, PushStep, PushInvStep DEF DeviceInv, TypeOK
<1>2. ASSUME NEW t \in Tabs,
             \/ User(t) \/ Timer(t) \/ Flush(t)
             \/ ConnectionLost(t) \/ Storage(t) \/ ReloadTab(t)
      PROVE  DeviceCore'
  <2>1. UNCHANGED pushVars
    BY <1>2 DEF User, Timer, Flush, ConnectionLost, Storage, ReloadTab
  <2> QED
    BY <1>2, <2>1, TabSteps DEF DeviceInv
<1>3. ASSUME NEW t \in Tabs, NEW r \in Requests, Send(t, r) \/ Answer(t, r)
      PROVE  DeviceCore'
  BY <1>3, ExchangeSteps DEF DeviceInv
<1>4. ASSUME NEW r \in Requests, Server(r) \/ Interrupt(r) \/ Vanish(r)
      PROVE  DeviceCore'
  BY <1>4, ServerSteps DEF DeviceInv
<1>5. ASSUME Browser PROVE DeviceCore'
  BY <1>5, DeviceStutter DEF DeviceInv, Browser, GoOffline, GoOnline, queueVars,
     tabVars, pushVars
<1>6. ASSUME UNCHANGED vars PROVE DeviceCore'
  BY <1>6, DeviceStutter DEF DeviceInv, vars, engineVars, queueVars, tabVars,
     pushVars
<1> QED
  BY <1>1, <1>2, <1>3, <1>4, <1>5, <1>6 DEF Next, DeviceInv

LEMMA DeviceInvariant == Spec => []DeviceInv
<1>1. Init => DeviceInv
  BY TypeOKInit, DeviceCoreInit DEF DeviceInv
<1> QED
  BY <1>1, DeviceInvStep, PTL DEF Spec

-----------------------------------------------------------------------------
(* What follows from it.                                                   *)

(* A mutation leaves the queue only as one grade, or after a rollback of   *)
(* one reported as stored (sync-engine.ts:108, middleware.go:210).         *)
THEOREM RemovedAccounted == Spec => []RemovedStoredOrUndone
<1>1. DeviceInv => RemovedStoredOrUndone
  BY DEF DeviceInv, DeviceCore, RemovedTrue, Acknowledged, PushInv, PushTypeOK,
         StoredAtMostOnce, RemovedStoredOrUndone
<1> QED
  BY <1>1, DeviceInvariant, PTL

(* What the server never accepts never leaves the queue                    *)
(* (sync-engine.ts:122, sync-queue.ts:55-71).                              *)
THEOREM RefusedKept == Spec => []RefusedStaysQueued
<1>1. DeviceInv => RefusedStaysQueued
  BY DEF DeviceInv, DeviceCore, RemovedTrue, Acknowledged, PushInv,
         OnlyValidStored, UndoneValid, RefusedStaysQueued
<1> QED
  BY <1>1, DeviceInvariant, PTL

(* A tab is answered about the batch it sent, each mutation once           *)
(* (sync-engine.ts:94-106, sync_handler.go:264-271).                       *)
THEOREM AnswersMatch == Spec => []AnswerMatchesBatch
<1>1. DeviceInv => AnswerMatchesBatch
  BY DEF DeviceInv, DeviceCore, Held, PushInv, Phased, Partition,
         AnswerMatchesBatch
<1> QED
  BY <1>1, DeviceInvariant, PTL

-----------------------------------------------------------------------------
(* Device and server implement the outbox.                                 *)

InQueue == {m \in Mutations : Queued(m)}
InDone == {m \in Mutations : entry[m] = "removed"}

LEMMA OutboxInit == Init => O!Init
<1> SUFFICES ASSUME Init PROVE O!Init
  OBVIOUS
<1> QED
  BY DEF Init, EngineInit, PushInit, O!Init, StoredSet, Queued

(* Only three actions of a tab touch the queue: a mutation enters it,      *)
(* leaves it, or changes between "pending" and "syncing".                  *)
LEMMA QueueSteps ==
  ASSUME TypeOK, DeviceCore, UNCHANGED pushVars, NEW t \in Tabs,
         User(t) \/ Flush(t)
  PROVE  O!Next \/ UNCHANGED O!vars
<1> USE DEF TypeOK, EngineTypeOK, StoredSet, pushVars, Queued, EntryStates
<1>0. UNCHANGED <<StoredSet, undone>>
  OBVIOUS
<1>1. ASSUME NEW m \in Mutations, Enqueue(t, m)
      PROVE  O!Next
  <2>1. entry[m] = "unused" /\ entry' = [entry EXCEPT ![m] = "pending"]
    BY <1>1 DEF Enqueue, First
  <2>2. /\ InQueue' = InQueue \union {m} /\ UNCHANGED InDone
        /\ m \notin InQueue \union InDone
    BY <2>1 DEF InQueue, InDone
  <2>3. O!Enter(m)
    BY <1>0, <2>2 DEF O!Enter, O!Entered, InQueue, InDone
  <2> QED
    BY <2>3 DEF O!Next
<1>2. ASSUME NEW m \in Mutations, MarkSynced(m), Queued(m), Acknowledged(m)
      PROVE  O!Next
  <2>1. /\ InQueue' = InQueue \ {m} /\ InDone' = InDone \union {m}
        /\ m \in InQueue
    BY <1>2 DEF InQueue, InDone, MarkSynced
  <2>2. m \in StoredSet \union undone
    BY <1>2 DEF Acknowledged
  <2>3. O!Leave({m})
    BY <1>0, <2>1, <2>2 DEF O!Leave, InQueue, InDone
  <2>4. {m} \in SUBSET Mutations
    OBVIOUS
  <2> QED
    BY <2>3, <2>4 DEF O!Next
<1>3. ASSUME UNCHANGED <<InQueue, InDone>>
      PROVE  UNCHANGED O!vars
  BY <1>0, <1>3 DEF O!vars, InQueue, InDone
<1>4. ASSUME NEW m \in Mutations,
             \/ MarkSyncing(m) \/ MarkFailed(m)
             \/ MarkSynced(m) /\ entry[m] = "removed"
      PROVE  UNCHANGED <<InQueue, InDone>>
  BY <1>4 DEF InQueue, InDone, MarkSyncing, MarkFailed, MarkSynced, queueVars
<1>5. CASE ApplyNext(t)
  <2>1. PICK m \in Mutations :
          /\ m \in todo[t]
          /\ IF m \in synced[t] THEN MarkSynced(m) ELSE MarkFailed(m)
    BY <1>5 DEF ApplyNext, First
  <2>2. m \in Known
    BY <2>1 DEF DeviceCore, OnlyKnown
  <2>3. CASE m \in synced[t] /\ Queued(m)
    BY <1>2, <2>1, <2>3 DEF DeviceCore, AppliedTrue
  <2>4. CASE m \in synced[t] /\ ~ Queued(m)
    BY <1>3, <1>4, <2>1, <2>2, <2>4 DEF Known
  <2>5. CASE m \notin synced[t]
    BY <1>3, <1>4, <2>1, <2>5
  <2> QED
    BY <2>3, <2>4, <2>5
<1>6. CASE MarkNext(t) \/ FailNext(t)
  BY <1>3, <1>4, <1>6 DEF MarkNext, FailNext, First
<1>7. CASE CatchReads(t) \/ FlushEnds(t)
  BY <1>3, <1>7 DEF CatchReads, FlushEnds, queueVars, InQueue, InDone
<1> QED
  BY <1>1, <1>5, <1>6, <1>7 DEF User, Flush, FlushStep

(* A commit stores the rows of its transaction, a rollback forfeits them;  *)
(* the queue is as it was.                                                 *)
LEMMA TableSteps ==
  ASSUME TypeOK, PushInv, DeviceCore, UNCHANGED entry, PushNext
  PROVE  O!Next \/ UNCHANGED O!vars
<1> USE DEF PushTypeOK, StoredSet
<1>0. UNCHANGED <<InQueue, InDone>>
  BY DEF InQueue, InDone, Queued
<1>1. ASSUME NEW r \in Requests
      PROVE  wrote[r] \in SUBSET ((InQueue \union InDone) \ StoredSet)
  BY <1>1 DEF PushInv, WroteFresh, DeviceCore, OnlyKnown, Known, InQueue,
              InDone, Queued, TypeOK, EngineTypeOK, EntryStates
<1>2. ASSUME NEW r \in Requests, StoredSet' = StoredSet \union wrote[r],
             UNCHANGED undone
      PROVE  O!Next
  <2>1. O!Store(wrote[r])
    BY <1>0, <1>1, <1>2 DEF O!Store, O!Entered, InQueue, InDone
  <2>2. \E ms \in SUBSET Mutations :
          O!Store(ms) \/ O!Forfeit(ms) \/ O!Leave(ms)
    <3>1. wrote[r] \in SUBSET Mutations
      BY DEF PushInv
    <3> HIDE DEF PushTypeOK, StoredSet
    <3> QED
      BY <2>1, <3>1
  <2> QED
    BY <2>2 DEF O!Next
<1>3. ASSUME NEW r \in Requests, undone' = undone \union wrote[r],
             UNCHANGED copies
      PROVE  O!Next
  <2>1. O!Forfeit(wrote[r])
    BY <1>0, <1>1, <1>3 DEF O!Forfeit, O!Entered, InQueue, InDone
  <2>2. \E ms \in SUBSET Mutations :
          O!Store(ms) \/ O!Forfeit(ms) \/ O!Leave(ms)
    <3>1. wrote[r] \in SUBSET Mutations
      BY DEF PushInv
    <3> HIDE DEF PushTypeOK, StoredSet
    <3> QED
      BY <2>1, <3>1
  <2> QED
    BY <2>2 DEF O!Next
<1>4. ASSUME UNCHANGED <<copies, undone>>
      PROVE  UNCHANGED O!vars
  BY <1>0, <1>4 DEF O!vars, InQueue, InDone
<1>5. ASSUME NEW r \in Requests, Commit(r)
      PROVE  O!Next
  <2>1. StoredSet' = StoredSet \union wrote[r]
    BY <1>5 DEF Commit, PushInv
  <2> QED
    BY <1>2, <1>5, <2>1 DEF Commit
<1>6. ASSUME NEW r \in Requests, NEW m \in Mutations,
             \/ LookupFinds(r, m) \/ Refuse(r, m) \/ LookupMisses(r, m)
             \/ InsertStores(r, m) \/ FailRest(r, m)
      PROVE  UNCHANGED O!vars
  BY <1>4, <1>6 DEF LookupFinds, Refuse, LookupMisses, InsertStores, FailRest
<1>7. ASSUME NEW r \in Requests,
             \/ Begin(r) \/ Drop(r) \/ Release(r)
             \/ \E b \in SUBSET Mutations : Submit(r, b)
      PROVE  UNCHANGED O!vars
  BY <1>4, <1>7 DEF Begin, Drop, Release, Submit
<1>8. ASSUME NEW r \in Requests,
             \/ CommitFails(r) \/ Cancel(r)
             \/ \E m \in Mutations : InsertViolates(r, m)
      PROVE  O!Next
  BY <1>3, <1>8 DEF CommitFails, Cancel, InsertViolates, AbortTx
<1> QED
  BY <1>5, <1>6, <1>7, <1>8 DEF PushNext, Process

LEMMA OutboxStep == DeviceInv /\ [Next]_vars => [O!Next]_(O!vars)
<1> SUFFICES ASSUME DeviceInv, [Next]_vars
             PROVE  O!Next \/ UNCHANGED O!vars
  OBVIOUS
<1>1. [PushNext]_pushVars
  BY PushStep DEF DeviceInv, TypeOK
<1>2. ASSUME NEW t \in Tabs, User(t) \/ Flush(t)
      PROVE  O!Next \/ UNCHANGED O!vars
  <2>1. UNCHANGED pushVars
    BY <1>2 DEF User, Flush
  <2> QED
    BY <1>2, <2>1, QueueSteps DEF DeviceInv
<1>3. ASSUME UNCHANGED entry
      PROVE  O!Next \/ UNCHANGED O!vars
  <2>1. CASE PushNext
    BY <1>3, <2>1, TableSteps DEF DeviceInv
  <2>2. CASE UNCHANGED pushVars
    BY <1>3, <2>2 DEF O!vars, Queued, StoredSet, pushVars
  <2> QED
    BY <1>1, <2>1, <2>2
<1>4. ASSUME NEW t \in Tabs,
             \/ Timer(t) \/ ConnectionLost(t) \/ Storage(t) \/ ReloadTab(t)
             \/ \E r \in Requests : Send(t, r) \/ Answer(t, r)
      PROVE  UNCHANGED entry
  BY <1>4 DEF Timer, TimerFires, ConnectionLost, RequestFails, Storage, ReadFails,
     AccessFails, CatchFails, ReloadTab, Reload, Send, SendBatch, Answer, Receive,
     queueVars
<1>5. ASSUME \/ Browser \/ UNCHANGED vars
             \/ \E r \in Requests : Server(r) \/ Interrupt(r) \/ Vanish(r)
      PROVE  UNCHANGED entry
  BY <1>5 DEF Browser, GoOffline, GoOnline, Server, Interrupt, Vanish, vars,
     engineVars, queueVars
<1> QED
  BY <1>2, <1>3, <1>4, <1>5 DEF Next

(* The device with its tabs and the server, over a network that loses      *)
(* requests and answers, keep the promise of Outbox                        *)
(* (sync-queue.ts:43-62, sync-engine.ts:104-125, sync_handler.go:357-372). *)
THEOREM OutboxImplemented == Spec => OutboxSpec
<1>1. Init => O!Init
  BY OutboxInit
<1> QED
  BY <1>1, DeviceInvariant, OutboxStep, PTL DEF Spec, OutboxSpec, O!Spec

-----------------------------------------------------------------------------
(* Retries, for a device with one page open.                               *)

OneTab == \A t, u \in Tabs : t = u

(* What a result will count has tries left: the batch and the results      *)
(* still to apply.  So has whatever the catch block finds pending after a  *)
(* failed request, as all the queue was marked "syncing" before; after a   *)
(* rejected access it may find mutations that have none left, but then the *)
(* rejection allows for one more.                                          *)
TriesLeft ==
  /\ \A m \in Mutations : entry[m] = "unused" => attempts[m] = 0
  /\ \A t \in Tabs :
       /\ phase[t] \in {"marking", "ready", "waiting"} =>
            /\ \A m \in batch[t] : ~ IsExhausted(m)
            /\ \A m \in GetPending :
                 ~ IsExhausted(m) \/ (phase[t] = "marking" /\ m \in todo[t])
       /\ phase[t] = "applying" =>
            \A m \in todo[t] : ~ IsExhausted(m)
       /\ phase[t] = "caught" =>
            \A m \in GetPending : attempts[m] < MaxRetries + rejections
       /\ phase[t] = "failing" =>
            \A m \in todo[t] : attempts[m] < MaxRetries + rejections

TriesInv == TypeOK /\ TriesLeft /\ AttemptsBounded

LEMMA TriesStep ==
  ASSUME OneTab, TriesInv, [Next]_vars
  PROVE  TriesLeft' /\ AttemptsBounded'
<1> USE SomeRetries DEF TriesInv, TypeOK, EngineTypeOK, TriesLeft,
        AttemptsBounded, IsExhausted, GetPending
<1>1. ASSUME NEW t \in Tabs, User(t) PROVE TriesLeft' /\ AttemptsBounded'
  BY <1>1 DEF User, Enqueue, First, tabVars
<1>2. ASSUME NEW t \in Tabs, Timer(t) PROVE TriesLeft' /\ AttemptsBounded'
  <2>1. /\ UNCHANGED <<queueVars, rejections>>
        /\ FlushReturns(t) \/ FlushStarts(t)
    BY <1>2 DEF Timer, TimerFires
  <2>2. CASE FlushReturns(t)
    BY <2>1, <2>2 DEF FlushReturns, tabVars, queueVars
  <2>3. CASE FlushStarts(t)
    BY <2>1, <2>3 DEF FlushStarts, Sendable, queueVars
  <2> QED
    BY <2>1, <2>2, <2>3
<1>3. ASSUME NEW t \in Tabs, Flush(t) PROVE TriesLeft' /\ AttemptsBounded'
  <2>1. CASE MarkNext(t)
    BY <2>1 DEF MarkNext, MarkSyncing, Queued, First
  <2>2. ASSUME NEW m \in todo[t], phase[t] \in {"applying", "failing"},
               MarkSynced(m) \/ MarkFailed(m),
               todo' = [todo EXCEPT ![t] = @ \ {m}],
               UNCHANGED <<phase, batch, rejections>>
        PROVE  TriesLeft' /\ AttemptsBounded'
    <3>1. \A u \in Tabs : u = t
      BY DEF OneTab
    <3>2. CASE MarkSynced(m)
      BY <2>2, <3>1, <3>2 DEF MarkSynced
    <3>3. CASE MarkFailed(m)
      BY <2>2, <3>1, <3>3 DEF MarkFailed, Queued, queueVars
    <3> QED
      BY <2>2, <3>2, <3>3
  <2>3. CASE ApplyNext(t)
    BY <2>2, <2>3 DEF ApplyNext, First
  <2>4. CASE FailNext(t)
    BY <2>2, <2>4 DEF FailNext, First
  <2>5. CASE FlushEnds(t)
    BY <2>5 DEF FlushEnds, queueVars
  <2>6. CASE CatchReads(t)
    BY <2>6 DEF CatchReads, queueVars
  <2> QED
    BY <1>3, <2>1, <2>3, <2>4, <2>5, <2>6 DEF Flush, FlushStep
<1>4. ASSUME NEW t \in Tabs, ConnectionLost(t) PROVE TriesLeft' /\ AttemptsBounded'
  BY <1>4 DEF ConnectionLost, RequestFails, queueVars
<1>5. ASSUME NEW t \in Tabs, ReloadTab(t) PROVE TriesLeft' /\ AttemptsBounded'
  BY <1>5 DEF ReloadTab, Reload, queueVars
<1>6. ASSUME NEW t \in Tabs, NEW r \in Requests, Send(t, r)
      PROVE  TriesLeft' /\ AttemptsBounded'
  BY <1>6 DEF Send, SendBatch, queueVars
<1>7. ASSUME NEW t \in Tabs, NEW r \in Requests, Answer(t, r)
      PROVE  TriesLeft' /\ AttemptsBounded'
  BY <1>7 DEF Answer, Receive, queueVars
<1>12. ASSUME NEW t \in Tabs, Storage(t) PROVE TriesLeft' /\ AttemptsBounded'
  <2>1. rejections' = rejections + 1 /\ UNCHANGED queueVars
    BY <1>12 DEF Storage, ReadFails, AccessFails, CatchFails, Rejected
  <2>2. /\ AttemptsBounded'
        /\ \A m \in Mutations : attempts'[m] < MaxRetries + rejections'
    BY <2>1 DEF queueVars
  <2>3. CASE ReadFails(t)
    BY <2>1, <2>2, <2>3 DEF ReadFails, queueVars
  <2>4. CASE AccessFails(t)
    BY <2>1, <2>2, <2>4 DEF AccessFails, queueVars
  <2>5. CASE CatchFails(t)
    BY <2>1, <2>2, <2>5 DEF CatchFails, queueVars
  <2> QED
    BY <1>12, <2>3, <2>4, <2>5 DEF Storage
<1>8. ASSUME UNCHANGED <<queueVars, tabVars, rejections>> PROVE TriesLeft' /\ AttemptsBounded'
  BY <1>8 DEF queueVars, tabVars
<1>9. CASE Browser
  BY <1>8, <1>9 DEF Browser, GoOffline, GoOnline
<1>10. ASSUME NEW r \in Requests, Server(r) \/ Interrupt(r) \/ Vanish(r)
       PROVE  TriesLeft' /\ AttemptsBounded'
  BY <1>8, <1>10 DEF Server, Interrupt, Vanish, engineVars
<1>11. CASE UNCHANGED vars
  BY <1>8, <1>11 DEF vars, engineVars
<1> QED
  BY <1>1, <1>2, <1>3, <1>4, <1>5, <1>6, <1>7, <1>9, <1>10, <1>11, <1>12 DEF Next

(* With one page open a mutation fails at most MAX_RETRIES times and once  *)
(* more for every access to IndexedDB that was rejected, however results,  *)
(* lost connections, rejections, reloads and new entries mix               *)
(* (sync-queue.ts:78-85, sync-engine.ts:73-75, 122-129, 134-141).          *)
THEOREM AttemptsLimited ==
  ASSUME OneTab PROVE Spec => []AttemptsBounded
<1>1. Init => TriesInv
  <2> SUFFICES ASSUME Init PROVE TriesLeft /\ AttemptsBounded
    BY TypeOKInit DEF TriesInv
  <2> QED
    BY SomeRetries
    DEF Init, EngineInit, TriesLeft, AttemptsBounded, GetPending
<1>2. TriesInv /\ [Next]_vars => TriesInv'
  BY TriesStep, TypeOKStep DEF TriesInv
<1>3. TriesInv => AttemptsBounded
  BY DEF TriesInv
<1> QED
  BY <1>1, <1>2, <1>3, PTL DEF Spec

=============================================================================
