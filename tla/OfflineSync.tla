----------------------------- MODULE OfflineSync -----------------------------
(***************************************************************************)
(* A device and the server together: the tabs of SyncEngine send their     *)
(* batches to SyncPush over a network that loses requests and responses.   *)
(* A tab that gives up or is reloaded leaves its request behind, and the   *)
(* server goes on with it.                                                 *)
(***************************************************************************)
EXTENDS SyncEngine, SyncPush

VARIABLE owner   \* [Requests -> SUBSET Tabs], the tab that awaits the answer

vars == <<engineVars, pushVars, owner>>

TypeOK ==
  /\ EngineTypeOK
  /\ PushTypeOK
  /\ owner \in [Requests -> SUBSET Tabs]

Init ==
  /\ EngineInit
  /\ PushInit
  /\ owner = [r \in Requests |-> {}]

-----------------------------------------------------------------------------
(* Variant for mutation testing: a late answer still finds its tab.        *)
AbandonedNot(t) == [r \in Requests |-> owner[r]]

(* Nobody waits any longer for the answers tab t was waiting for.          *)
Abandoned(t) == [r \in Requests |-> owner[r] \ {t}]

(* api('/sync/push') on a free connection.                                 *)
Send(t, r) ==
  /\ SendBatch(t)
  /\ Submit(r, batch[t])
  /\ owner' = [owner EXCEPT ![r] = {t}]

(* The response arrives once the handler chain, commit included, is done.  *)
Answer(t, r) ==
  /\ t \in owner[r]
  /\ Receive(t, okay[r], bad[r])
  /\ Release(r)
  /\ owner' = [owner EXCEPT ![r] = {}]

(* The connection breaks, before or after the server did its work.         *)
ConnectionLost(t) ==
  /\ RequestFails(t)
  /\ owner' = Abandoned(t)
  /\ UNCHANGED pushVars

(* A request nobody waits for is lost on its way, or its response is.      *)
Vanish(r) ==
  /\ owner[r] = {}
  /\ Drop(r) \/ Release(r)
  /\ UNCHANGED <<engineVars, owner>>

ReloadTab(t) ==
  /\ Reload(t)
  /\ owner' = Abandoned(t)
  /\ UNCHANGED pushVars

User(t) == (\E m \in Mutations : Enqueue(t, m)) /\ UNCHANGED <<pushVars, owner>>
Timer(t) == TimerFires(t) /\ UNCHANGED <<pushVars, owner>>
Flush(t) == FlushStep(t) /\ UNCHANGED <<pushVars, owner>>
Storage(t) ==
  /\ ReadFails(t) \/ AccessFails(t) \/ CatchFails(t)
  /\ UNCHANGED <<pushVars, owner>>
Browser == (GoOffline \/ GoOnline) /\ UNCHANGED <<pushVars, owner>>
Server(r) == Process(r) /\ UNCHANGED <<engineVars, owner>>
Interrupt(r) == Cancel(r) /\ UNCHANGED <<engineVars, owner>>

Next ==
  \/ \E t \in Tabs :
       \/ User(t)
       \/ Timer(t)
       \/ Flush(t)
       \/ ConnectionLost(t)
       \/ Storage(t)
       \/ ReloadTab(t)
       \/ \E r \in Requests : Send(t, r) \/ Answer(t, r)
  \/ \E r \in Requests : Server(r) \/ Interrupt(r) \/ Vanish(r)
  \/ Browser

Spec == Init /\ [][Next]_vars

(* Timers fire, the await points of a tab resume, the server answers; a    *)
(* tab that waits for a free connection gets one of those that come free.  *)
(* Nothing is assumed of the user, the network, the browser or IndexedDB.  *)
Fairness ==
  /\ \A t \in Tabs :
       /\ WF_vars(Timer(t))
       /\ WF_vars(Flush(t))
       /\ SF_vars(\E r \in Requests : Send(t, r))
       /\ WF_vars(\E r \in Requests : Answer(t, r))
  /\ \A r \in Requests :
       /\ WF_vars(Server(r) \/ Interrupt(r))
       /\ WF_vars(Vanish(r))

FairSpec == Spec /\ Fairness

-----------------------------------------------------------------------------
(* The promise that device and server keep together.                       *)
StoredSet == {m \in Mutations : copies[m] > 0}

O == INSTANCE Outbox WITH
       queued <- {m \in Mutations : Queued(m)},
       done <- {m \in Mutations : entry[m] = "removed"},
       stored <- StoredSet,
       forfeited <- undone

(* The device and the server implement the outbox: no re-send, reload or   *)
(* late answer stores a mutation twice, brings a finished one back into    *)
(* the queue, or drops one that was never reported as stored               *)
(* (sync-queue.ts:43-62, sync-engine.ts:104-125, sync_handler.go:357-372). *)
OutboxSpec == O!Spec

(* A mutation leaves the queue only if it is a grade on the server or a    *)
(* rollback has taken its grade back after it was answered "synced"        *)
(* (sync-engine.ts:108, middleware.go:210).                                *)
RemovedStoredOrUndone ==
  \A m \in Mutations :
    entry[m] = "removed" => copies[m] = 1 \/ m \in undone

(* A mutation that the server will never accept is never dropped silently: *)
(* it stays in the queue, where the user still counts it as pending        *)
(* (sync-engine.ts:122, sync-queue.ts:55-71).                              *)
RefusedStaysQueued ==
  \A m \in Mutations : kind[m] # "ok" => entry[m] # "removed"

(* The answer a tab is about to apply is the answer to its own batch, one  *)
(* result per mutation; requests left behind by a reload or a lost         *)
(* connection never answer a later flush (sync-engine.ts:94-106,           *)
(* sync_handler.go:264-271).                                               *)
AnswerMatchesBatch ==
  \A r \in Requests : \A t \in owner[r] :
    status[r] = "closed" =>
      /\ okay[r] \union bad[r] = batch[t]
      /\ okay[r] \intersect bad[r] = {}

(* With one tab a mutation is counted as failed more than MAX_RETRIES      *)
(* times only for accesses to IndexedDB that were rejected, once for each: *)
(* the catch block of such a flush also counts mutations whose result has  *)
(* just been counted, and those that were left out of the batch            *)
(* (sync-queue.ts:78-85, sync-engine.ts:73-75, 122-129, 134-141).          *)
AttemptsBounded ==
  \A m \in Mutations : attempts[m] <= MaxRetries + rejections

(* The syncing flag never stays up: every flush ends, whatever returns     *)
(* early, fails or is left without an answer (sync-engine.ts:62-151).      *)
FlushFinishes == \A t \in Tabs : phase[t] # "idle" ~> phase[t] = "idle"

(* A retry or debounce timer that runs while its tab is idle gets every    *)
(* mutation that is due out of "pending", unless the device goes offline   *)
(* or reloads for ever, or an access to IndexedDB is rejected meanwhile:   *)
(* from the try block that counts an attempt and arms the next timer, from *)
(* the catch block it leaves the tab without one                           *)
(* (sync-engine.ts:44-49, 61-91, 134-151).                                 *)
NoMoreReloads == <>[][\A t \in Tabs : ~ ReloadTab(t)]_vars

TimerFlushesQueue ==
  NoMoreReloads =>
    \A t \in Tabs, m \in Mutations, n \in 0..MaxRejections :
      /\ entry[m] = "pending" /\ ~ IsExhausted(m)
      /\ online /\ phase[t] = "idle" /\ timer[t]
      /\ rejections = n
      ~> entry[m] # "pending" \/ ~ online \/ rejections > n

(* What the code says of itself and does not do; each of these is refuted  *)
(* by a run.                                                               *)

(* sync_handler.go:155, 'A "synced" status means the grade is safely       *)
(* stored on the server': a mutation the device drops is a grade.          *)
SyncedMeansStored ==
  \A m \in Mutations : entry[m] = "removed" => copies[m] > 0

(* sync-engine.ts:135, "Network error - mark all back as pending": after   *)
(* the catch block the mutations of the failed batch wait for a retry.     *)
NetworkErrorRequeues ==
  [][\A t \in Tabs :
       phase[t] = "failing" /\ todo[t] = {} /\ phase'[t] = "idle" /\ ~ ReloadTab(t)
         => \A m \in pending[t] : entry[m] # "syncing"]_vars

=============================================================================
