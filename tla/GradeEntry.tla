----------------------------- MODULE GradeEntry -----------------------------
(***************************************************************************)
(* A teacher enters, changes or deletes a grade in the browser: addGrade,  *)
(* updateGrade and deleteGrade (web/composables/useCatalog.ts) over api()  *)
(* (web/lib/api.ts) and CreateGrade, UpdateGrade and DeleteGrade           *)
(* (api/internal/catalog/handler.go), composed with the push of SyncPush.  *)
(*                                                                         *)
(* Online, an entry is a call of its own first, and is enqueued after it   *)
(* whatever came of it.  The call carries one client_id and enqueue makes  *)
(* another, the one of the mutation: the server stores the two apart.      *)
(* The flush is any batch of the queue; SyncEngine has its details.        *)
(***************************************************************************)
EXTENDS SyncPush

CONSTANTS
  Entries,   \* mutations that come from an entry made now
  Again      \* [Entries -> Mutations], what enqueueing it once more makes

ASSUME EntriesAreMutations == Entries \subseteq Mutations
ASSUME AgainAnother ==
  /\ Again \in [Entries -> Mutations \ Entries]
  /\ \A m, k \in Entries : Again[m] = Again[k] => m = k

VARIABLES
  action,   \* [Entries -> Actions], what an entry does
  entry,    \* [Entries -> EntryStates], the function in the browser
  call,     \* [Entries -> CallStates], the call at the server
  reply,    \* [Entries -> Replies], what the server has answered
  direct,   \* [Entries -> Nat]: grades stored, or changes made, by calls
  unmade,   \* history: entries whose call was undone by a rollback
  queue,    \* the mutations in IndexedDB
  issued    \* the client_ids that enqueue has issued

queueVars == <<queue, issued>>
entryVars == <<action, entry, call, reply, direct, unmade, queueVars>>
vars == <<pushVars, entryVars>>

Running == {"calling", "answered", "caught", "local"}
Returned == {"confirmed", "optimistic", "unsaid", "reported"}
Actions == {"add", "update", "delete"}
EntryStates == {"none", "thrown", "gone"} \union Running \union Returned
CallStates == {"none", "sent", "open", "wrote", "failed", "closed"}
Replies == {"none", "ok", "error", "unauthorized"}

EntryTypeOK ==
  /\ PushTypeOK
  /\ action \in [Entries -> Actions]
  /\ entry \in [Entries -> EntryStates]
  /\ call \in [Entries -> CallStates]
  /\ reply \in [Entries -> Replies]
  /\ direct \in [Entries -> Nat]
  /\ unmade \in SUBSET Entries
  /\ queue \in SUBSET Mutations
  /\ issued \in SUBSET Mutations

(* A mutation enqueued again has the same body.  That of a change has a    *)
(* grade_id and no server_id: the push handler refuses it.                 *)
Init ==
  /\ PushInit
  /\ action \in [Entries -> Actions]
  /\ \A m \in Entries : action[m] # "add" => kind[m] = "invalid"
  /\ \A m \in Entries : kind[Again[m]] = kind[m]
  /\ entry = [m \in Entries |-> "none"]
  /\ call = [m \in Entries |-> "none"]
  /\ reply = [m \in Entries |-> "none"]
  /\ direct = [m \in Entries |-> 0]
  /\ unmade = {}
  /\ queue = Mutations \ (Entries \union {Again[m] : m \in Entries})
  /\ issued = queue

-----------------------------------------------------------------------------
(* The browser.                                                            *)

StartOnline(m) ==
  /\ entry[m] = "none"
  /\ entry' = [entry EXCEPT ![m] = "calling"]
  /\ call' = [call EXCEPT ![m] = "sent"]
  /\ UNCHANGED <<pushVars, action, reply, direct, unmade, queueVars>>

StartOffline(m) ==
  /\ entry[m] = "none"
  /\ entry' = [entry EXCEPT ![m] = "local"]
  /\ UNCHANGED <<pushVars, action, call, reply, direct, unmade, queueVars>>

GetAnswer(m) ==
  /\ entry[m] = "calling" /\ reply[m] \in {"ok", "error"}
  /\ entry' = [entry EXCEPT ![m] = IF reply[m] = "ok" THEN "answered" ELSE "caught"]
  /\ UNCHANGED <<pushVars, action, call, reply, direct, unmade, queueVars>>

(* After a 401: tryRefreshToken gets new tokens, and the call is repeated. *)
RefreshAndRepeat(m) ==
  /\ entry[m] = "calling" /\ reply[m] = "unauthorized"
  /\ call' = [call EXCEPT ![m] = "sent"]
  /\ reply' = [reply EXCEPT ![m] = "none"]
  /\ UNCHANGED <<pushVars, action, entry, direct, unmade, queueVars>>

(* It gets none: the tokens are cleared, the page is to be left, and the   *)
(* 401 is thrown.                                                          *)
RefreshFails(m) ==
  /\ entry[m] = "calling" /\ reply[m] = "unauthorized"
  /\ entry' = [entry EXCEPT ![m] = "caught"]
  /\ UNCHANGED <<pushVars, action, call, reply, direct, unmade, queueVars>>

(* Variant for mutation testing: a call without an answer is repeated.     *)
CallLostRepeats(m) ==
  /\ entry[m] = "calling"
  /\ call' = [call EXCEPT ![m] = "sent"]
  /\ reply' = [reply EXCEPT ![m] = "none"]
  /\ UNCHANGED <<pushVars, action, entry, direct, unmade, queueVars>>

(* fetch throws: the call has not reached the server, or its answer is     *)
(* lost.                                                                   *)
CallLost(m) ==
  /\ entry[m] = "calling"
  /\ entry' = [entry EXCEPT ![m] = "caught"]
  /\ UNCHANGED <<pushVars, action, call, reply, direct, unmade, queueVars>>

(* What the functions return after the enqueue: the server's grade, or     *)
(* true; one made up, or true; null and no word of it; null, or false, and *)
(* an error message.                                                       *)
AddReturns(m) ==
  CASE entry[m] = "answered" -> "confirmed"
    [] entry[m] = "local" -> "optimistic"
    [] OTHER -> "reported"

UpdateReturns(m) ==
  CASE entry[m] = "answered" -> "confirmed"
    [] entry[m] = "local" -> "unsaid"
    [] OTHER -> "reported"

DeleteReturns(m) ==
  CASE entry[m] = "answered" -> "confirmed"
    [] entry[m] = "local" -> "optimistic"
    [] OTHER -> "reported"

Outcome(m) ==
  CASE action[m] = "add" -> AddReturns(m)
    [] action[m] = "update" -> UpdateReturns(m)
    [] action[m] = "delete" -> DeleteReturns(m)

(* queue.enqueue, in the try block or in the catch block: a client_id of   *)
(* its own each time.                                                      *)
ClientId(m) == IF m \in issued THEN Again[m] ELSE m

Queues(m) ==
  /\ queue' = queue \union {ClientId(m)}
  /\ issued' = issued \union {ClientId(m)}

(* Variant for mutation testing: an error is reported and not enqueued.    *)
EnqueueUnlessCaught(m) ==
  /\ entry[m] \in {"answered", "caught", "local"}
  /\ IF entry[m] = "caught" THEN UNCHANGED queueVars ELSE Queues(m)
  /\ entry' = [entry EXCEPT ![m] = Outcome(m)]
  /\ UNCHANGED <<pushVars, action, call, reply, direct, unmade>>

Enqueue(m) ==
  /\ entry[m] \in {"answered", "caught", "local"}
  /\ Queues(m)
  /\ entry' = [entry EXCEPT ![m] = Outcome(m)]
  /\ UNCHANGED <<pushVars, action, call, reply, direct, unmade>>

(* An error of the enqueue: in the try block it is one more to catch, in   *)
(* the catch block it reaches the page.                                    *)
Throws(m) ==
  /\ entry[m] \in {"answered", "caught", "local"}
  /\ entry' = [entry EXCEPT ![m] = IF @ = "caught" THEN "thrown" ELSE "caught"]
  /\ UNCHANGED <<pushVars, action, call, reply, direct, unmade>>

(* Variant for mutation testing: an enqueue that fails is tried for ever.  *)
EnqueueTriedAgain(m) ==
  /\ entry[m] \in {"answered", "caught", "local"}
  /\ entry' = [entry EXCEPT ![m] = IF @ = "caught" THEN "local" ELSE "caught"]
  /\ UNCHANGED <<pushVars, action, call, reply, direct, unmade, queueVars>>

(* IndexedDB refuses the mutation.                                         *)
EnqueueFails(m) == Throws(m) /\ UNCHANGED queueVars

(* It takes the mutation and refuses to count the queue afterwards: the    *)
(* catch block enqueues the entry once more.                               *)
CountFails(m) == Throws(m) /\ Queues(m)

(* The page is closed, reloaded or left for /login.                        *)
LeavePage(m) ==
  /\ entry[m] \in Running
  /\ entry' = [entry EXCEPT ![m] = "gone"]
  /\ UNCHANGED <<pushVars, action, call, reply, direct, unmade, queueVars>>

-----------------------------------------------------------------------------
(* The call at the server: one transaction, answered before its commit.    *)

(* JWTAuth: the access token has expired.                                  *)
Unauthorized(m) ==
  /\ call[m] = "sent"
  /\ call' = [call EXCEPT ![m] = "none"]
  /\ reply' = [reply EXCEPT ![m] = "unauthorized"]
  /\ UNCHANGED <<pushVars, action, entry, direct, unmade, queueVars>>

CallDropped(m) ==
  /\ call[m] = "sent"
  /\ call' = [call EXCEPT ![m] = "none"]
  /\ UNCHANGED <<pushVars, action, entry, reply, direct, unmade, queueVars>>

CallBegins(m) ==
  /\ call[m] = "sent"
  /\ call' = [call EXCEPT ![m] = "open"]
  /\ UNCHANGED <<pushVars, action, entry, reply, direct, unmade, queueVars>>

(* A new grade has the client_id of the call, which is unique.             *)
CallStores(m) ==
  /\ call[m] = "open"
  /\ \/ action[m] # "add"
     \/ kind[m] = "ok" /\ direct[m] = 0
  /\ call' = [call EXCEPT ![m] = "wrote"]
  /\ reply' = [reply EXCEPT ![m] = "ok"]
  /\ UNCHANGED <<pushVars, action, entry, direct, unmade, queueVars>>

(* Variant for mutation testing: an error is answered with a 2xx.          *)
CallRefusedAsOk(m) ==
  /\ call[m] = "open"
  /\ call' = [call EXCEPT ![m] = "failed"]
  /\ reply' = [reply EXCEPT ![m] = "ok"]
  /\ UNCHANGED <<pushVars, action, entry, direct, unmade, queueVars>>

(* The validation, a constraint, a missing grade, a cancelled statement.   *)
CallRefused(m) ==
  /\ call[m] = "open"
  /\ call' = [call EXCEPT ![m] = "failed"]
  /\ reply' = [reply EXCEPT ![m] = "error"]
  /\ UNCHANGED <<pushVars, action, entry, direct, unmade, queueVars>>

CallCommits(m) ==
  /\ call[m] = "wrote"
  /\ call' = [call EXCEPT ![m] = "closed"]
  /\ direct' = [direct EXCEPT ![m] = @ + 1]
  /\ UNCHANGED <<pushVars, action, entry, reply, unmade, queueVars>>

(* The commit fails and is only logged, or there is nothing to commit.     *)
CallUndone(m) ==
  /\ call[m] \in {"wrote", "failed"}
  /\ call' = [call EXCEPT ![m] = "closed"]
  /\ unmade' = IF call[m] = "wrote" THEN unmade \union {m} ELSE unmade
  /\ UNCHANGED <<pushVars, action, entry, reply, direct, queueVars>>

-----------------------------------------------------------------------------
(* The push of the queue.                                                  *)

Flush(r, batch) ==
  /\ batch # {} /\ Submit(r, batch)
  /\ UNCHANGED entryVars

(* Variant for mutation testing: the whole batch leaves the queue.         *)
AnswerDeliveredWhole(r) ==
  /\ Release(r)
  /\ queue' = queue \ (okay[r] \union bad[r])
  /\ UNCHANGED <<action, entry, call, reply, direct, unmade, issued>>

AnswerDelivered(r) ==
  /\ Release(r)
  /\ queue' = queue \ okay[r]
  /\ UNCHANGED <<action, entry, call, reply, direct, unmade, issued>>

AnswerLost(r) == Release(r) /\ UNCHANGED entryVars

-----------------------------------------------------------------------------
CallStep(m) ==
  \/ CallBegins(m)
  \/ CallStores(m)
  \/ CallRefused(m)
  \/ CallCommits(m)
  \/ CallUndone(m)

EntryStep(m) ==
  \/ GetAnswer(m)
  \/ RefreshAndRepeat(m)
  \/ RefreshFails(m)
  \/ CallLost(m)
  \/ Enqueue(m)
  \/ EnqueueFails(m)
  \/ CountFails(m)

Next ==
  \/ \E m \in Entries :
       \/ StartOnline(m) \/ StartOffline(m)
       \/ EntryStep(m)
       \/ LeavePage(m)
       \/ Unauthorized(m)
       \/ CallDropped(m)
       \/ CallStep(m)
  \/ \E r \in Requests :
       \/ \E batch \in SUBSET queue : Flush(r, batch)
       \/ Drop(r) /\ UNCHANGED entryVars
       \/ Process(r) /\ UNCHANGED entryVars
       \/ Cancel(r) /\ UNCHANGED entryVars
       \/ AnswerDelivered(r)
       \/ AnswerLost(r)

Spec == Init /\ [][Next]_vars

(* A fetch ends, with an answer or an error, and so does an access to      *)
(* IndexedDB; a handler goes on; a call is not refused a token for ever.   *)
EntryFairness ==
  \A m \in Entries : WF_vars(EntryStep(m)) /\ WF_vars(CallStep(m))
                     /\ SF_vars(CallBegins(m) \/ CallDropped(m))

FairSpec == Spec /\ EntryFairness /\ PushFairness

-----------------------------------------------------------------------------
(* Properties.                                                             *)

(* An entry whose function has returned, with a grade or with an error, is *)
(* still queued, or is stored under its mutation's client_id unless a      *)
(* rollback undid that: none is forgotten because its call failed, was     *)
(* answered late, or was refused a token (useCatalog.ts:353-385).          *)
NothingForgotten ==
  \A m \in Entries :
    entry[m] \in Returned => m \in queue \/ copies[m] > 0 \/ m \in undone

(* A grade shown as the server's was stored by the call, is about to be,   *)
(* or was undone by its commit (useCatalog.ts:362, middleware.go:210).     *)
ConfirmedStoredOrUndone ==
  \A m \in Entries :
    entry[m] = "confirmed" =>
      direct[m] > 0 \/ call[m] = "wrote" \/ m \in unmade

(* However often api() repeats a call after a 401, its grade is stored, or *)
(* its change made, once: a call that was refused a token has done nothing *)
(* (api.ts:105-109).                                                       *)
CallDoneOnce == \A m \in Entries : direct[m] <= 1

(* Entries and flushes implement the outbox too: each enqueue makes a      *)
(* mutation that was never queued before, whatever came of the call or of  *)
(* an earlier enqueue; it is stored in a whole push, and leaves the queue  *)
(* once, stored or undone (useCatalog.ts:353-385, sync-queue.ts:12,        *)
(* sync-engine.ts:104-125).                                                *)
EntryOutbox == INSTANCE Outbox WITH
  queued <- queue,
  done <- issued \ queue,
  stored <- {m \in Mutations : copies[m] > 0},
  forfeited <- undone

EntryOutboxSpec == EntryOutbox!Spec

(* An entry comes to an end, in the queue or with an error, though api()   *)
(* repeats a call after every 401 without a limit (api.ts:105-109).        *)
EntryEnds ==
  \A m \in Entries :
    entry[m] = "calling" ~> entry[m] \in Returned \union {"thrown", "gone"}

(* "the server deduplicates by client_id" (useCatalog.ts:359): a grade     *)
(* entered once is stored once.                                            *)
EntryStoredOnce ==
  \A m \in Entries : action[m] = "add" => direct[m] + copies[m] <= 1

=============================================================================
