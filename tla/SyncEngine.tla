------------------------------ MODULE SyncEngine ------------------------------
(***************************************************************************)
(* The device's side of the offline synchronisation: the queue in          *)
(* IndexedDB (web/lib/sync-queue.ts), the engine of each open page that    *)
(* flushes it (web/lib/sync-engine.ts) and the composable that feeds it    *)
(* (web/composables/useOfflineSync.ts).                                    *)
(*                                                                         *)
(* The queue is one per device and shared by its tabs; the syncing flag,   *)
(* the timer and the local variables of flushQueue belong to a tab.        *)
(* The user, the browser and the other tabs act between the awaits of      *)
(* flushQueue: each row marked, the request, each result, the catch        *)
(* block's read of the queue and each of its rows is a step of its own.    *)
(* Any access to IndexedDB may be rejected (quota, a closed database, an   *)
(* aborted transaction).  Two pairs of awaits are one step:                *)
(* the read of the queue goes with the guard before it, as nothing it      *)
(* depends on can be told from a change just before; markFailed's read     *)
(* goes with its update, which leaves out only that two tabs counting one  *)
(* failure each at the same moment may count one.                          *)
(***************************************************************************)
EXTENDS SyncMutations

CONSTANTS
  Tabs,           \* the pages of the application open on the device
  MaxRetries,     \* MAX_RETRIES
  MaxRejections   \* bound on the accesses to IndexedDB that are rejected

ASSUME SomeRetries == MaxRetries \in Nat \ {0}
ASSUME RejectionsBound == MaxRejections \in Nat

VARIABLES
  entry,       \* [Mutations -> EntryStates], the row of the syncQueue table
  attempts,    \* [Mutations -> Nat]
  online,      \* navigator.onLine and the isOnline of the composable
  phase,       \* [Tabs -> Phases], where flushQueue is; syncing = not idle
  pending,     \* [Tabs -> SUBSET Mutations], flushQueue's const pending
  batch,       \* [Tabs -> SUBSET Mutations], flushQueue's const mutations
  todo,        \* [Tabs -> SUBSET Mutations], what its current loop has left
  synced,      \* [Tabs -> SUBSET Mutations], results "synced" of the response
  timer,       \* [Tabs -> BOOLEAN], syncTimer is armed
  stray,       \* [Tabs -> BOOLEAN], armed timers that syncTimer has forgotten
  rejections   \* accesses of flushQueue that were rejected; history only

queueVars == <<entry, attempts>>
tabVars == <<phase, pending, batch, todo, synced>>
timerVars == <<timer, stray>>
engineVars == <<queueVars, online, tabVars, timerVars, rejections>>

(* "unused" and "removed" have no row in the table.                        *)
EntryStates == {"unused", "pending", "syncing", "removed"}
Phases ==
  {"idle", "marking", "ready", "waiting", "applying", "caught", "failing"}

EngineTypeOK ==
  /\ entry \in [Mutations -> EntryStates]
  /\ attempts \in [Mutations -> Nat]
  /\ online \in BOOLEAN
  /\ phase \in [Tabs -> Phases]
  /\ pending \in [Tabs -> SUBSET Mutations]
  /\ batch \in [Tabs -> SUBSET Mutations]
  /\ todo \in [Tabs -> SUBSET Mutations]
  /\ synced \in [Tabs -> SUBSET Mutations]
  /\ timer \in [Tabs -> BOOLEAN]
  /\ stray \in [Tabs -> BOOLEAN]
  /\ rejections \in Nat

(* Opening the application with an empty queue: initSyncEngine arms the    *)
(* timer of a page that starts online.                                     *)
EngineInit ==
  /\ entry = [m \in Mutations |-> "unused"]
  /\ attempts = [m \in Mutations |-> 0]
  /\ online \in BOOLEAN
  /\ phase = [t \in Tabs |-> "idle"]
  /\ pending = [t \in Tabs |-> {}]
  /\ batch = [t \in Tabs |-> {}]
  /\ todo = [t \in Tabs |-> {}]
  /\ synced = [t \in Tabs |-> {}]
  /\ timer = [t \in Tabs |-> online]
  /\ stray = [t \in Tabs |-> FALSE]
  /\ rejections = 0

-----------------------------------------------------------------------------
(* The queue, sync-queue.ts.                                               *)

Queued(m) == entry[m] \in {"pending", "syncing"}

(* getPending; the order is that of the numbers.                           *)
GetPending == {m \in Mutations : entry[m] = "pending"}

IsExhausted(m) == attempts[m] >= MaxRetries

(* Dexie's update of a row that has been deleted changes nothing.          *)
MarkSyncing(m) ==
  /\ entry' = [entry EXCEPT ![m] = IF Queued(m) THEN "syncing" ELSE @]
  /\ UNCHANGED attempts

MarkSynced(m) ==
  /\ entry' = [entry EXCEPT ![m] = "removed"]
  /\ UNCHANGED attempts

(* Variants for mutation testing: the status that db.ts:49 declares and    *)
(* nothing sets; the missing check that the row still exists.              *)
MarkFailedForGood(m) ==
  /\ entry' = [entry EXCEPT ![m] = IF Queued(m) THEN "failed" ELSE @]
  /\ UNCHANGED attempts

MarkFailedUnchecked(m) ==
  /\ entry' = [entry EXCEPT ![m] = "pending"]
  /\ attempts' = [attempts EXCEPT ![m] = @ + 1]

(* Back to pending for a retry; nothing when the row is gone.              *)
MarkFailed(m) ==
  IF Queued(m)
    THEN /\ entry' = [entry EXCEPT ![m] = "pending"]
         /\ attempts' = [attempts EXCEPT ![m] = @ + 1]
    ELSE UNCHANGED queueVars

(* enqueueMutation: the next clientId, and a debounced flush when online.  *)
Enqueue(t, m) ==
  /\ m \in First({k \in Mutations : entry[k] = "unused"})
  /\ entry' = [entry EXCEPT ![m] = "pending"]
  /\ timer' = [timer EXCEPT ![t] = @ \/ online]
  /\ UNCHANGED <<attempts, online, tabVars, stray, rejections>>

-----------------------------------------------------------------------------
(* flushQueue, sync-engine.ts.                                             *)

(* Variant for mutation testing: exhausted mutations are sent as well.     *)
SendableWithExhausted == GetPending

(* The guard on syncing and navigator.onLine, then the two early returns:  *)
(* nothing pending, nothing but exhausted mutations.                       *)
Sendable == {m \in GetPending : ~ IsExhausted(m)}

(* Variant for mutation testing: one exhausted mutation stops the flush.   *)
FlushReturnsOnExhausted(t) ==
  /\ \/ phase[t] # "idle" \/ ~ online \/ Sendable = {}
     \/ \E m \in GetPending : IsExhausted(m)
  /\ UNCHANGED tabVars

FlushReturns(t) ==
  /\ phase[t] # "idle" \/ ~ online \/ Sendable = {}
  /\ UNCHANGED tabVars

(* The batch leaves the exhausted mutations out; the marking does not.     *)
FlushStarts(t) ==
  /\ phase[t] = "idle" /\ online /\ Sendable # {}
  /\ phase' = [phase EXCEPT ![t] = "marking"]
  /\ pending' = [pending EXCEPT ![t] = GetPending]
  /\ batch' = [batch EXCEPT ![t] = Sendable]
  /\ todo' = [todo EXCEPT ![t] = GetPending]
  /\ UNCHANGED synced

(* Several forgotten timers may be running, so one that fires may leave    *)
(* another behind.                                                         *)
TimerDue(t) ==
  \/ timer[t] /\ timer' = [timer EXCEPT ![t] = FALSE] /\ UNCHANGED stray
  \/ /\ stray[t]
     /\ \E more \in BOOLEAN : stray' = [stray EXCEPT ![t] = more]
     /\ UNCHANGED timer

TimerFires(t) ==
  /\ TimerDue(t)
  /\ FlushReturns(t) \/ FlushStarts(t)
  /\ UNCHANGED <<queueVars, online, rejections>>

MarkNext(t) ==
  /\ phase[t] = "marking"
  /\ \E m \in First(todo[t]) :
       /\ MarkSyncing(m)
       /\ todo' = [todo EXCEPT ![t] = @ \ {m}]
       /\ phase' = [phase EXCEPT ![t] = IF todo[t] = {m} THEN "ready" ELSE @]
  /\ UNCHANGED <<online, pending, batch, synced, timerVars, rejections>>

(* The request leaves, after the deviceId and lastSyncAt were read.        *)
SendBatch(t) ==
  /\ phase[t] = "ready"
  /\ phase' = [phase EXCEPT ![t] = "waiting"]
  /\ UNCHANGED <<queueVars, online, pending, batch, todo, synced, timerVars,
                 rejections>>

(* A 2xx response: one result per mutation of the batch, synced or not.    *)
Receive(t, okResults, badResults) ==
  /\ phase[t] = "waiting"
  /\ phase' = [phase EXCEPT ![t] = "applying"]
  /\ todo' = [todo EXCEPT ![t] =
                batch[t] \intersect (okResults \union badResults)]
  /\ synced' = [synced EXCEPT ![t] = okResults]
  /\ UNCHANGED <<queueVars, online, pending, batch, timerVars, rejections>>

ApplyNext(t) ==
  /\ phase[t] = "applying"
  /\ \E m \in First(todo[t]) :
       /\ IF m \in synced[t] THEN MarkSynced(m) ELSE MarkFailed(m)
       /\ todo' = [todo EXCEPT ![t] = @ \ {m}]
  /\ UNCHANGED <<online, phase, pending, batch, synced, timerVars, rejections>>

(* fetch rejects or the answer is not 2xx.                                 *)
RequestFails(t) ==
  /\ phase[t] = "waiting"
  /\ phase' = [phase EXCEPT ![t] = "caught"]
  /\ UNCHANGED <<queueVars, online, pending, batch, todo, synced, timerVars,
                 rejections>>

Rejected ==
  /\ rejections < MaxRejections
  /\ rejections' = rejections + 1

(* The flush's first read of the queue is rejected.                        *)
ReadFails(t) ==
  /\ Rejected
  /\ phase[t] = "idle" /\ online
  /\ TimerDue(t)
  /\ phase' = [phase EXCEPT ![t] = "caught"]
  /\ UNCHANGED <<queueVars, online, pending, batch, todo, synced>>

(* So is a row's marking, the read of deviceId or lastSyncAt, the write of *)
(* a result, of the cache of grades or, after the last one, of lastSyncAt. *)
AccessFails(t) ==
  /\ Rejected
  /\ phase[t] \in {"marking", "ready", "applying"}
  /\ phase' = [phase EXCEPT ![t] = "caught"]
  /\ todo' = [todo EXCEPT ![t] = {}]
  /\ UNCHANGED <<queueVars, online, pending, batch, synced, timerVars>>

(* The catch block reads the pending mutations anew: after a failed        *)
(* request those entered meanwhile, after a rejected access also those     *)
(* that are not marked yet and those whose result has just been counted.   *)
CatchReads(t) ==
  /\ phase[t] = "caught"
  /\ phase' = [phase EXCEPT ![t] = "failing"]
  /\ todo' = [todo EXCEPT ![t] = GetPending]
  /\ UNCHANGED <<queueVars, online, pending, batch, synced, timerVars, rejections>>

(* Variant for mutation testing: the catch block deletes.                  *)
FailNextDeletes(t) ==
  /\ phase[t] = "failing"
  /\ \E m \in First(todo[t]) :
       /\ MarkSynced(m)
       /\ todo' = [todo EXCEPT ![t] = @ \ {m}]
  /\ UNCHANGED <<online, phase, pending, batch, synced, timerVars, rejections>>

FailNext(t) ==
  /\ phase[t] = "failing"
  /\ \E m \in First(todo[t]) :
       /\ MarkFailed(m)
       /\ todo' = [todo EXCEPT ![t] = @ \ {m}]
  /\ UNCHANGED <<online, phase, pending, batch, synced, timerVars, rejections>>

(* Variant for mutation testing: no finally, the flag stays after a catch. *)
FlushEndsWithoutFinally(t) ==
  /\ phase[t] = "applying" /\ todo[t] = {}
  /\ phase' = [phase EXCEPT ![t] = "idle"]
  /\ pending' = [pending EXCEPT ![t] = {}]
  /\ batch' = [batch EXCEPT ![t] = {}]
  /\ synced' = [synced EXCEPT ![t] = {}]
  /\ UNCHANGED <<queueVars, online, todo, timerVars, rejections>>

(* The end of flushQueue and its finally block.  The catch block arms the  *)
(* retry timer over one that is already running and does not clear it.     *)
FlushEnds(t) ==
  /\ phase[t] \in {"applying", "failing"} /\ todo[t] = {}
  /\ IF phase[t] = "failing"
       THEN /\ timer' = [timer EXCEPT ![t] = TRUE]
            /\ stray' = [stray EXCEPT ![t] = @ \/ timer[t]]
       ELSE UNCHANGED timerVars
  /\ phase' = [phase EXCEPT ![t] = "idle"]
  /\ pending' = [pending EXCEPT ![t] = {}]
  /\ batch' = [batch EXCEPT ![t] = {}]
  /\ synced' = [synced EXCEPT ![t] = {}]
  /\ UNCHANGED <<queueVars, online, todo, rejections>>

(* An access of the catch block itself is rejected: the finally block      *)
(* still lowers the flag, but no retry is armed.                           *)
CatchFails(t) ==
  /\ Rejected
  /\ phase[t] = "caught" \/ (phase[t] = "failing" /\ todo[t] # {})
  /\ phase' = [phase EXCEPT ![t] = "idle"]
  /\ pending' = [pending EXCEPT ![t] = {}]
  /\ batch' = [batch EXCEPT ![t] = {}]
  /\ todo' = [todo EXCEPT ![t] = {}]
  /\ synced' = [synced EXCEPT ![t] = {}]
  /\ UNCHANGED <<queueVars, online, timerVars>>

-----------------------------------------------------------------------------
(* The browser.                                                            *)

GoOffline ==
  /\ online
  /\ online' = FALSE
  /\ timer' = [t \in Tabs |-> FALSE]
  /\ UNCHANGED <<queueVars, tabVars, stray, rejections>>

GoOnline ==
  /\ ~ online
  /\ online' = TRUE
  /\ timer' = [t \in Tabs |-> TRUE]
  /\ UNCHANGED <<queueVars, tabVars, stray, rejections>>

(* The page is reloaded, or crashes and is opened again: IndexedDB stays,  *)
(* everything in memory is lost.                                           *)
Reload(t) ==
  /\ phase' = [phase EXCEPT ![t] = "idle"]
  /\ pending' = [pending EXCEPT ![t] = {}]
  /\ batch' = [batch EXCEPT ![t] = {}]
  /\ todo' = [todo EXCEPT ![t] = {}]
  /\ synced' = [synced EXCEPT ![t] = {}]
  /\ timer' = [timer EXCEPT ![t] = online]
  /\ stray' = [stray EXCEPT ![t] = FALSE]
  /\ UNCHANGED <<queueVars, online, rejections>>

(* A flush on its way through its own awaits, the request apart.           *)
FlushStep(t) ==
  \/ MarkNext(t)
  \/ ApplyNext(t)
  \/ CatchReads(t)
  \/ FailNext(t)
  \/ FlushEnds(t)

=============================================================================
