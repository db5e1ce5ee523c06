------------------------------- MODULE SyncPush -------------------------------
(***************************************************************************)
(* The server's side of the offline synchronisation: POST /sync/push       *)
(* (api/internal/catalog/sync_handler.go) inside the one transaction that  *)
(* the TenantContext middleware opens per request                          *)
(* (api/internal/auth/middleware.go), over the grades table and its        *)
(* UNIQUE (school_id, client_id) (api/db/migrations/001_baseline.sql).     *)
(*                                                                         *)
(* What the handler and the database make of a payload is its kind:        *)
(*   "ok"      passes the validation and every constraint of the table     *)
(*   "invalid" is refused without touching the table: a value out of       *)
(*             range, an unsupported type or action, an update or a        *)
(*             delete without the server_id the handler requires           *)
(*   "poison"  passes the validation and breaks a constraint at the INSERT *)
(*             (a student, class or subject that does not exist)           *)
(***************************************************************************)
EXTENDS SyncMutations

CONSTANT Requests   \* the requests the server can have open at a time

VARIABLES
  kind,        \* [Mutations -> Kinds], what each payload is
  status,      \* [Requests -> RequestStates]
  left,        \* mutations of the request's body still to process
  inserting,   \* the mutation whose INSERT is under way ({} or a singleton)
  wrote,       \* rows inserted by the open transaction, not yet committed
  okay,        \* results so far with status "synced"
  bad,         \* results so far with status "error"
  copies,      \* [Mutations -> Nat], committed grades with this client_id
  undone       \* history: mutations whose row a rollback has undone

pushVars ==
  <<kind, status, left, inserting, wrote, okay, bad, copies, undone>>

Kinds == {"ok", "invalid", "poison"}
RequestStates == {"free", "sent", "open", "aborted", "closed"}

PushTypeOK ==
  /\ kind \in [Mutations -> Kinds]
  /\ status \in [Requests -> RequestStates]
  /\ left \in [Requests -> SUBSET Mutations]
  /\ inserting \in [Requests -> SUBSET Mutations]
  /\ wrote \in [Requests -> SUBSET Mutations]
  /\ okay \in [Requests -> SUBSET Mutations]
  /\ bad \in [Requests -> SUBSET Mutations]
  /\ copies \in [Mutations -> Nat]
  /\ undone \in SUBSET Mutations

PushInit ==
  /\ kind \in [Mutations -> Kinds]
  /\ status = [r \in Requests |-> "free"]
  /\ left = [r \in Requests |-> {}]
  /\ inserting = [r \in Requests |-> {}]
  /\ wrote = [r \in Requests |-> {}]
  /\ okay = [r \in Requests |-> {}]
  /\ bad = [r \in Requests |-> {}]
  /\ copies = [m \in Mutations |-> 0]
  /\ undone = {}

-----------------------------------------------------------------------------
(* The request and its transaction.                                        *)

(* A device sends a batch: the body is on its way.                         *)
Submit(r, batch) ==
  /\ status[r] = "free"
  /\ status' = [status EXCEPT ![r] = "sent"]
  /\ left' = [left EXCEPT ![r] = batch]
  /\ UNCHANGED <<kind, inserting, wrote, okay, bad, copies, undone>>

(* The request never reaches the server, or is answered before any work:   *)
(* 400, 401 and 500 of the middleware leave no trace in the database.      *)
Drop(r) ==
  /\ status[r] = "sent"
  /\ status' = [status EXCEPT ![r] = "free"]
  /\ left' = [left EXCEPT ![r] = {}]
  /\ UNCHANGED <<kind, inserting, wrote, okay, bad, copies, undone>>

(* TenantContext begins the request's transaction.                         *)
Begin(r) ==
  /\ status[r] = "sent"
  /\ status' = [status EXCEPT ![r] = "open"]
  /\ UNCHANGED <<kind, left, inserting, wrote, okay, bad, copies, undone>>

(* After an error the transaction accepts no statement; its rows are gone  *)
(* and their locks released, while the handler goes on with the batch.     *)
AbortTx(r) ==
  /\ status' = [status EXCEPT ![r] = "aborted"]
  /\ wrote' = [wrote EXCEPT ![r] = {}]
  /\ undone' = undone \union wrote[r]

-----------------------------------------------------------------------------
(* processMutation: one mutation after the other, results kept in order.   *)

(* Variant for mutation testing: the batch is not in createdAt order.      *)
NextMutationUnordered(r, m) ==
  /\ inserting[r] = {}
  /\ m \in left[r]

NextMutation(r, m) ==
  /\ inserting[r] = {}
  /\ m \in First(left[r])

(* GetGradeByClientID finds a committed row: answered "synced" at once.    *)
LookupFinds(r, m) ==
  /\ status[r] = "open" /\ NextMutation(r, m)
  /\ copies[m] > 0
  /\ left' = [left EXCEPT ![r] = @ \ {m}]
  /\ okay' = [okay EXCEPT ![r] = @ \union {m}]
  /\ UNCHANGED <<kind, status, inserting, wrote, bad, copies, undone>>

(* Variant for mutation testing: an error is reported as "synced".         *)
RefuseAsSynced(r, m) ==
  /\ status[r] = "open" /\ NextMutation(r, m)
  /\ copies[m] = 0
  /\ kind[m] = "invalid"
  /\ left' = [left EXCEPT ![r] = @ \ {m}]
  /\ okay' = [okay EXCEPT ![r] = @ \union {m}]
  /\ UNCHANGED <<kind, status, inserting, wrote, bad, copies, undone>>

(* No row, and the validation (or the switch on type and action) refuses.  *)
Refuse(r, m) ==
  /\ status[r] = "open" /\ NextMutation(r, m)
  /\ copies[m] = 0
  /\ kind[m] = "invalid"
  /\ left' = [left EXCEPT ![r] = @ \ {m}]
  /\ bad' = [bad EXCEPT ![r] = @ \union {m}]
  /\ UNCHANGED <<kind, status, inserting, wrote, okay, copies, undone>>

(* No row, and the payload is valid: the handler goes on to CreateGrade.   *)
LookupMisses(r, m) ==
  /\ status[r] = "open" /\ NextMutation(r, m)
  /\ copies[m] = 0
  /\ kind[m] # "invalid"
  /\ left' = [left EXCEPT ![r] = @ \ {m}]
  /\ inserting' = [inserting EXCEPT ![r] = {m}]
  /\ UNCHANGED <<kind, status, wrote, okay, bad, copies, undone>>

(* The unique index makes an INSERT wait for every open transaction that   *)
(* has inserted the same client_id.                                        *)
WaitsFor(r, q) ==
  /\ q # r
  /\ inserting[r] \intersect wrote[q] # {}

Blocked(r) == \E q \in Requests : WaitsFor(r, q)

(* Variant for mutation testing: no unique index on the client_id.         *)
InsertWithoutUnique(r, m) ==
  /\ m \in inserting[r]
  /\ kind[m] = "ok"
  /\ inserting' = [inserting EXCEPT ![r] = {}]
  /\ wrote' = [wrote EXCEPT ![r] = @ \union {m}]
  /\ okay' = [okay EXCEPT ![r] = @ \union {m}]
  /\ UNCHANGED <<kind, status, left, bad, copies, undone>>

InsertStores(r, m) ==
  /\ m \in inserting[r] /\ ~ Blocked(r)
  /\ kind[m] = "ok" /\ copies[m] = 0
  /\ inserting' = [inserting EXCEPT ![r] = {}]
  /\ wrote' = [wrote EXCEPT ![r] = @ \union {m}]
  /\ okay' = [okay EXCEPT ![r] = @ \union {m}]
  /\ UNCHANGED <<kind, status, left, bad, copies, undone>>

(* The INSERT fails: a constraint of the payload, or the client_id was     *)
(* committed by another transaction after this one looked.                 *)
InsertViolates(r, m) ==
  /\ m \in inserting[r] /\ ~ Blocked(r)
  /\ kind[m] = "poison" \/ copies[m] > 0
  /\ AbortTx(r)
  /\ inserting' = [inserting EXCEPT ![r] = {}]
  /\ bad' = [bad EXCEPT ![r] = @ \union {m}]
  /\ UNCHANGED <<kind, left, okay, copies>>

(* The 30 s deadline of the router, a client that went away or a lost      *)
(* database connection cancels the statements of an open transaction.      *)
Cancel(r) ==
  /\ status[r] = "open"
  /\ AbortTx(r)
  /\ inserting' = [inserting EXCEPT ![r] = {}]
  /\ bad' = [bad EXCEPT ![r] = @ \union inserting[r]]
  /\ UNCHANGED <<kind, left, okay, copies>>

(* Variant for mutation testing: the handler gives up after an error.      *)
FailRestStuck(r, m) ==
  /\ status[r] = "aborted" /\ NextMutation(r, m)
  /\ bad' = [bad EXCEPT ![r] = @ \union {m}]
  /\ UNCHANGED <<kind, status, left, inserting, wrote, okay, copies, undone>>

(* In an aborted transaction every further mutation is an error.           *)
FailRest(r, m) ==
  /\ status[r] = "aborted" /\ NextMutation(r, m)
  /\ left' = [left EXCEPT ![r] = @ \ {m}]
  /\ bad' = [bad EXCEPT ![r] = @ \union {m}]
  /\ UNCHANGED <<kind, status, inserting, wrote, okay, copies, undone>>

-----------------------------------------------------------------------------
(* The handler writes the results it collected, then TenantContext         *)
(* commits: the commit's own outcome no longer changes the answer.         *)

Answered(r) == left[r] = {} /\ inserting[r] = {}

Commit(r) ==
  /\ status[r] = "open" /\ Answered(r)
  /\ copies' = [m \in Mutations |->
                  IF m \in wrote[r] THEN copies[m] + 1 ELSE copies[m]]
  /\ wrote' = [wrote EXCEPT ![r] = {}]
  /\ status' = [status EXCEPT ![r] = "closed"]
  /\ UNCHANGED <<kind, left, inserting, okay, bad, undone>>

(* The commit fails, or is the rollback of an aborted transaction: only    *)
(* logged.                                                                 *)
CommitFails(r) ==
  /\ status[r] \in {"open", "aborted"} /\ Answered(r)
  /\ undone' = undone \union wrote[r]
  /\ wrote' = [wrote EXCEPT ![r] = {}]
  /\ status' = [status EXCEPT ![r] = "closed"]
  /\ UNCHANGED <<kind, left, inserting, okay, bad, copies>>

(* The response has been delivered or has been lost.                       *)
Release(r) ==
  /\ status[r] = "closed"
  /\ status' = [status EXCEPT ![r] = "free"]
  /\ okay' = [okay EXCEPT ![r] = {}]
  /\ bad' = [bad EXCEPT ![r] = {}]
  /\ UNCHANGED <<kind, left, inserting, wrote, copies, undone>>

-----------------------------------------------------------------------------
(* What the server does by itself with request r.                          *)
Process(r) ==
  \/ Begin(r)
  \/ \E m \in Mutations :
       \/ LookupFinds(r, m)
       \/ Refuse(r, m)
       \/ LookupMisses(r, m)
       \/ InsertStores(r, m)
       \/ InsertViolates(r, m)
       \/ FailRest(r, m)
  \/ Commit(r)
  \/ CommitFails(r)

PushNext ==
  \E r \in Requests :
    \/ \E batch \in SUBSET Mutations : Submit(r, batch)
    \/ Drop(r)
    \/ Process(r)
    \/ Cancel(r)
    \/ Release(r)

PushSpec == PushInit /\ [][PushNext]_pushVars

(* A handler goroutine is not descheduled forever, and a statement that    *)
(* waits too long is cancelled by the router's 30 s deadline.              *)
PushFairness == \A r \in Requests : WF_pushVars(Process(r) \/ Cancel(r))

PushFairSpec == PushSpec /\ PushFairness

-----------------------------------------------------------------------------
(* Properties.                                                             *)

(* A client_id is stored at most once, whatever is re-sent or sent twice   *)
(* at a time: the lookup before the INSERT is not enough, because two      *)
(* transactions can both miss (sync_handler.go:357, 432).                  *)
StoredAtMostOnce == \A m \in Mutations : copies[m] <= 1

(* Nothing is stored that the validation or a constraint refuses           *)
(* (sync_handler.go:382-418).                                              *)
OnlyValidStored == \A m \in Mutations : copies[m] > 0 => kind[m] = "ok"

(* A "synced" in a finished response stands for a committed row unless a   *)
(* rollback undid it: there is no third way for it to be untrue            *)
(* (sync_handler.go:155, middleware.go:210).                               *)
SyncedStoredOrUndone ==
  \A r \in Requests : \A m \in okay[r] :
    status[r] = "closed" => copies[m] > 0 \/ m \in undone

(* No transactions, however many, wait for each other's rows in a circle,  *)
(* so that the database never has to break a deadlock by failing a push:   *)
(* who waits is at an earlier mutation than the one it waits for, because  *)
(* every device sends in createdAt order (sync-queue.ts:34,                *)
(* sync_handler.go:266).                                                   *)
NoWaitCycle ==
  \A r, q \in Requests :
    WaitsFor(r, q) => \A i \in inserting[r], j \in inserting[q] : i < j

(* Every request the server takes is answered, though requests wait for    *)
(* one another on the unique index (sync_handler.go:217-279).              *)
RequestsAnswered ==
  \A r \in Requests : status[r] = "open" ~> status[r] = "closed"

=============================================================================
