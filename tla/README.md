# A formal model of CatalogRO

CatalogRO is a school gradebook: a Go API over PostgreSQL (row-level security,
one school per tenant), Redis and River jobs, and a Nuxt PWA that teachers use
online and offline. This directory holds TLA+ modules of its core logic, the
TLC configurations that model-check them, and theorems about them that TLAPS
checks. Paths below are relative to `src/`.

To run: `tlc -workers 2 -config MCRowLocks.cfg MCRowLocks` and likewise for
every `.cfg`; `tlapm SyncPush_proofs.tla` for every `*_proofs.tla`.

## 1. Inventory

| Component | State | Operations | Hard part |
|---|---|---|---|
| Sync queue, engine, `useOfflineSync` (`web/lib/sync-queue.ts`, `sync-engine.ts`, `db.ts`, `web/composables/useOfflineSync.ts`) | the IndexedDB table `syncQueue` (status, attempts), per page: `syncing`, `syncTimer`, the locals of `flushQueue` | enqueue, flush, timers, online/offline, reload | awaits, several tabs on one queue, lost answers, rejected accesses to IndexedDB, retries, reload in mid-flush |
| Sync push (`api/internal/catalog/sync_handler.go`) | the `grades` table, one transaction per request | lookup by `client_id`, validation, INSERT, results | two pushes at a time, an aborted transaction, a commit after the answer |
| Sync pull (`sync_pull_handler.go`) | `grades`, `absences`, the client's timestamp | read what changed since | a transaction that commits late |
| Grades (`handler.go`) | `grades` | create, update, soft delete, list | a delete under an update |
| Averages (`average_handler.go`) | `averages`, computed from `grades` and enrolments | close a class, approve one average | close against approve, two closes over namesakes, arithmetic |
| Absences, evaluations (`absences_handler.go`, `evaluation_handler.go`) | their tables | create, excuse; create, update, delete | excusing again, recording again, an upsert across teachers |
| `useCatalog`, `api.ts` (`web/composables`, `web/lib`) | the page's lists, the tokens in the browser | add, update, delete online or through the queue; refresh and repeat after a 401 | the same grade sent twice, each await can fail |
| Tenant middleware (`auth/middleware.go`) | the request's transaction | begin, `set_config`, commit, rollback on panic | commit after the response |
| Accounts and sessions (`auth/handlers.go`, `jwt.go`, `totp.go`, `user/handler.go`, `useAuth.ts`) | users, activation tokens; nothing for JWTs | provision, resend, activate, login, refresh, logout | old and new activation links, stateless tokens |
| Import (`interop/handler.go`, `session_store.go`, `jobs/bulk_import.go`) | a session in Redis, a River job, `users` and `source_mappings` | upload, confirm, work, status | confirm twice, a commit after the report, status written by two parties, retried job |
| Transfers (`interop/portability/handler.go`) | `users`, `source_mappings` | import of one student record, export | two imports of one record |
| School structure (`school/handler.go`) | `classes`, `subjects`, enrolments, assignments | create, update, enrol, withdraw, assign | a read before a full write |
| Messaging (`messaging/handler.go`) | messages and their recipients | send, announce, mark as read | a recipient that fails aborts the transaction |
| Notifications, reports | push subscriptions | single statements and reads | little |
| Platform, config, HTTP helpers, `cmd/server` | connections | start-up, the 30 s deadline | the deadline cancels statements |
| Interchange formats (`interop/siiir`, `oneroster`, `portability/student_record.go`) | none | parse, serialise | conversions only |
| Pages and components | presentation | | |

How they interact: a page calls `enqueueMutation`, which writes the queue and
arms a timer; `flushQueue` sends everything due to `POST /sync/push` and settles
each mutation by its result; the API runs each request inside one transaction
that `TenantContext` opens before and commits after the handler. Handlers share
state only through PostgreSQL; the import also through Redis and River.

What makes each part correct: a grade entered on a device becomes exactly one
grade and is not forgotten before; a pull loses no change; a deleted grade stays
deleted and only its author changes it; an approved average stays as approved
and a close is all or nothing; an average is the rounded mean; a student is
imported once and a report counts only what is stored or was rolled back; an account is activated
once and its sessions end with it; an excuse, a text and a field of a class are
not overwritten by those who should not; a message reaches all or nobody.

`PROJECT.json` lists the components with their status and every hazard at its
line, with the properties that cover it or the plan for it.

## 2. Modules

```
SyncMutations                    mutations, numbered by createdAt
  SyncPush                       server: POST /sync/push          MCRowLocks
  SyncEngine                     device: queue, engine, timers
    OfflineSync  (both)          device + network + server        MCOfflineSync, MCOfflineTabs
      implements Outbox          what the two promise together
GradeTable                       create, update, delete of grades
  implements GradeLife           the life of a grade
  SyncPull                       GET /sync/pull and its client    MCSyncPull
Averages                         close and approve                MCAverages, MCRowLocks
  implements AverageBook         whole closes and approvals
NoValue                          the value of an empty column
  Accounts                       users, links, tokens     \
    implements AccountLife       the life of an account    |
  Imports                        SIIIR imports             |
  Transfers                      records of other schools  |
  Classes                        school structure          |
  Absences, Evaluations          registers of a teacher    |
  Messages                       messages, announcements   |
  AverageRules                   computeAverage            |
  GradeEntry  (on SyncPush)      useCatalog and its call   |      MCSchool
    implements Outbox                                     /
SyncPush_proofs  OfflineSync_proofs  SyncPull_proofs  Averages_proofs
Accounts_proofs  Imports_proofs  Registers_proofs  GradeEntry_proofs
```

**SyncPush.** `kind[m]` is what the handler and the table make of a payload:
valid, refused by the validation, or refused by a constraint at the INSERT
("poison"). A request goes `free → sent → open → (aborted) → closed`. The
statements are the steps: `LookupFinds`/`LookupMisses`/`Refuse` are the lookup by
`client_id` and what follows it up to the INSERT; `InsertStores` and
`InsertViolates` are the INSERT once no other open transaction holds the same
key; `Cancel` is the 30 s deadline or a lost connection; in an aborted
transaction every further mutation is an error (`FailRest`). `Commit` and
`CommitFails` come after all results, as in `TenantContext`. `copies[m]` counts
committed rows; `undone` is a history variable: mutations whose row a rollback
took back.

**SyncEngine.** `entry` and `attempts` are the table; `phase`, `pending`, `batch`,
`todo`, `synced` are a tab's `flushQueue` between its awaits, `timer` its
`syncTimer`, `stray` armed timers that `syncTimer` no longer refers to. The
exhausted mutations are left out of the batch and marked `syncing` all the same,
as in the code. `Reload` keeps the table and loses the rest. The `try` of `flushQueue`
spans all of its awaits, so the catch block (`caught`, `failing`) is entered from a failed
request (`RequestFails`) and from any access to IndexedDB that is rejected: the first
read (`ReadFails`), a row's marking, the read of `deviceId` or `lastSyncAt`, the writing
of a result or of `lastSyncAt` (`AccessFails`). Late ones find mutations pending
that have just been counted, and count them again; `rejections` counts them. An
access rejected in the catch block itself (`CatchFails`) leaves the flush with the flag
down, no timer, and the rest of the queue as it was.

**OfflineSync** joins them over a network that loses requests and answers and
keeps working on what a tab has left behind (`owner[r]` is the tab that still
waits, if any). **Outbox** is the abstract specification: a mutation is queued,
then done, once; it becomes stored once; it leaves the queue only when stored or
*forfeited*, that is reported as stored by a transaction that then rolled back.
Forfeiting is in the promise because it is in the code; `SyncedMeansStored`
states the promise of the source without it and is refuted. Several mutations may
leave at once (`Leave`): a tab settles them one by one, the coarser step of GradeEntry
applies a whole answer.

**GradeTable** has one transaction per writer: find the row and check the author,
write it (blocked while another open transaction has written it, re-checked
against the latest version for an UPDATE and not for a soft delete, as the two
statements do under READ COMMITTED), commit. `stamp` is `updated_at`, the time at
which the transaction *began*. **SyncPull** adds a client that pulls from the last
`server_timestamp`; `missed` is a history variable: grades written by a
transaction that was already under way at the timestamp of a finished read.
**GradeLife** is what the table promises, without requests, locks and commits: a grade
is entered once, keeps its author, changes only while it lives, and is deleted for
good. Who may change it is `OnlyAuthorChanges`.

**Averages** covers one subject, semester and school year. A closer looks for
approvals in its class, then upserts student by student and commits. It takes the
students in the order of `ListStudentsByClass` (`classes.sql:45`), last and first name
with no tie-breaker: `Rank` numbers the *names*, students of one name have one rank, and
`NextStudent` picks any of the first. A deleted account keeps its enrolments under the
name DELETED USER (`users.sql:91`), so that `Erase` moves a student to `ErasedRank` in the
lists made from then on (`seen`). Closes may therefore wait for each other in a circle;
`Deadlock` is PostgreSQL's detector, which fails a statement of one in a circle
(`InCircle`), and the handler answers 500. `late[c]` is a
history variable: the averages approved since closer `c` looked. Grades and
enrolments change freely under the handlers, so what they read of them is any
value. **AverageBook** is the abstract specification: a close is one entry of
averages for some of a class's students, an approval another; a row keeps the class that
made it and an approval is never taken back. That a close may overwrite an approved
value is in the book because it is in the code; `ApprovedIsLocked` states the
source's promise without it and is refuted.

**GradeEntry** puts the functions of `useCatalog` in front of SyncPush. An entry is
a run of `addGrade`, `updateGrade` or `deleteGrade`: `calling` in `api()`, `answered`,
`caught` by the catch block, `local` when offline, and then `confirmed` (it shows the
server's grade), `optimistic` (a grade made up), `reported` (null and an error),
`thrown` (IndexedDB fails twice) or `gone` (the page is left); `updateGrade` offline
returns null and no error (`unsaid`). `call` is the same call
in the server's transaction, `reply` what travels back: a 401 is refreshed and the
call repeated. `Enqueue` gives the mutation a `client_id` of its own, so for SyncPush it
is another grade; `action` is what an entry does, and the push always refuses updates and
deletes. `enqueueMutation` stores the mutation and then counts the queue: when only the
count is rejected (`CountFails`), the catch block enqueues the entry once more under a
second `client_id`, the mutation `Again[m]`; `issued` are the ids made so far.

**Accounts.** `account` abstracts `activated_at` and `is_active`; `link` is the
activation token. A request reads a row (`FindLink`, `ReadForLogin`,
`ReadForMFALogin`, `ReadForRefresh`) and writes or issues in a later step, when the row
may have changed. These handlers run on the pool without a transaction, so that each
statement commits alone: the consent after an activation is one more. `tokens` are
the unexpired tokens a user holds; the server keeps none. **AccountLife** is the
abstract specification: registered once, set up once, erased once.

**Imports.** `Save` is `SessionStore.Save`. A confirmation reads the session
(`CheckPreview`), writes it (`SaveConfirmed`), inserts student by student in one
transaction, saves the report and only then commits; above `AsyncThreshold` it queues
a job and saves "processing". A student's key in `users` is the made-up address, which
the student may change later (`ChangeAddress`), and in `source_mappings` the SIIIR id;
an insert that meets a taken key aborts the transaction (`MappingFails`, `Skip`) and
undoes what it has counted. The worker's inserts all fail, as it has no school set
(`main.go:100`); its report is `UpdateStatus`, a `WorkerReads` and a `WorkerSaves`;
River runs a job again whose worker died. `rolledBack` and `gaveUp` are history.

**Transfers**: the lookup of the mapping, the new user and the mapping's insert in one
transaction, which fails as a whole when another request has mapped the record.
**Classes**: `UpdateClass` reads the row and writes every column; a field's value is the
request it comes from; `outdated` is history. **Absences**: each handler is one
statement. **Evaluations**: the upsert is one statement, update and delete find the row
by id and write by id; ids are never used again; `writer` is whose text it is.
**Messages**: one insert per recipient in one transaction; a recipient that fails
(`faulty`: listed twice, or no user) aborts it.

**AverageRules** computes as `computeAverage` does, in hundredths. Means are float64 in the
code: `Miss` is by how much the product of a rounded quotient and 100 misses the whole
hundredth it should be, and `Above`/`Below` say on which side the float64 then lies. The
formulas were derived for the sums and counts within `MaxGrades`, where no mean is
near a half hundredth without being one.

In every module the definitions named `...Without...`, `...Unordered`, `...Swapped`
and the like, marked "Variant for mutation testing", are used by no specification:
each is a plausible bug, and the corresponding property fails when it takes the
place of the definition it varies (`PROJECT.json`, "mutants").

## 3. Runs

| Run (cfg) | Bounds | What it shows |
|---|---|---|
| `MCRowLocks`, pushes | 2 mutations of any kind, 2 requests with any batches | a `client_id` stored at most once (`StoredAtMostOnce`); "synced" is stored or undone by a rollback (`SyncedStoredOrUndone`); no circle of pushes, of any length, each waiting for the next (`NoWaitCycle`, by the order of what they insert); every open request is answered (`RequestsAnswered`) |
| `MCRowLocks`, closes | 3 students, two of one name, one of whom may be deleted; 1 class, 2 closers, no approver; with the pushes 52,940 states | closes wait for each other only over namesakes and erased names (`CirclesAreNamesakes`), and every close ends (`CloseFinishes`) |
| `MCOfflineSync` | 1 tab, 2 mutations of any kind but never both refused, 1 request, 2 retries, 1 rejected access; 112,188 states | types, the server's included; `RemovedStoredOrUndone`, `AttemptsBounded`; every flush ends (`FlushFinishes`); a running timer gets everything due on its way (`TimerFlushesQueue`) |
| `MCOfflineTabs` | 2 tabs, 1 mutation, 3 requests, 2 retries, no rejected access; tabs and requests symmetric | an answer reaches only the batch it belongs to (`AnswerMatchesBatch`); the whole implements `Outbox` (`OutboxSpec`) |
| `MCAverages` | 2 students of one name, 2 classes, 2 values, 2 closers, 2 approvers; 1,431,193 states | who can overwrite an approved average (`ApprovedOverwrittenOnlyBy`), `NoPartialClose`, the refinement of `AverageBook` (`BookSpec`), in which a second director looked before the first approved |
| `MCSyncPull` | 1 grade, 2 values, 2 teachers and an admin, 2 writers, clock to 3, 2 ticks a second; 1,010,400 states | `PullBringsUnlessStraddled`, `OnlyAuthorChanges`, the refinement of `GradeLife` (`GradeLifeSpec`) |
| `MCSchool` | see below; 203,165 states | thirteen invariants and eight action and temporal properties of the ten modules of the block above |
| `EntryStoredOnce` | as `MCSchool` | refuted, see 6 |
| `LargeImportStores` | as `MCSchool` | refuted, see 6 |
| `SyncedMeansStored` | as `MCOfflineSync` without fairness | refuted, see 6 |
| `NetworkErrorRequeues` | as above | refuted, see 6 |
| `ApprovedIsLocked` | as `MCAverages` | refuted, see 6 |
| `PullMissesNothing` | as `MCSyncPull` | refuted, see 6 |

`MCSchool` puts the modules that share no state side by side. In a behaviour one of
them is at work and the others rest, which is all there is to see of parts that do
not interact; the variable `part` says which.

| Part | Bounds | Properties |
|---|---|---|
| accounts | 1 person, 2 requests, 2 links, 2 passwords | `OnlyPendingHasLink`; the refinement `LifeSpec`; `DeletedRunsDown` and `DeletedSessionsEnd`: the sessions of a deleted account run down, stage by stage, and its tokens run out |
| imports | 2 students, a small and a large file that share one, 2 confirmations, 1 job | `StudentImportedOnce`, `CountedStoredOrUndone`, `StuckOnlyIfGaveUp` |
| transfers | 2 records, 2 clerks | `TransferredOnce` |
| classes | 1 class, 2 fields, 1 pupil, 2 updates at a time | `ClassTypeOK` with its foreign keys; `FieldChangesOnlyBy` |
| grades | 1 entry made now, which may become two mutations, 1 queued before, 1 push at a time | `NothingForgotten`, `ConfirmedStoredOrUndone`, `CallDoneOnce`; the refinement of `Outbox` (`EntryOutboxSpec`); `EntryEnds` |
| absences | 2 lessons, 2 teachers, 1 client id | `ExcuseStands` |
| evaluations | 1 topic, 2 teachers, 1 admin, 2 requests, 3 rows ever | `EvalTypeOK` with its unique ids; `ChangedOnlyBy` |
| messages | 2 messages, 2 recipients | `DeliveredToAllOrNone` |
| rules | 3 to 10 grades | `RoundingRight`, `MajorityWins` |

Two confirmations give the double click, and with a file that shares a student the
second upload of the same register; two requests on an account give an old and a
resent link, and a token issued across a deletion. Three rows are one deleted under
two readers. Ten grades reach the first means that float64 misses (44 in five).

Why the bounds are enough for the cases they are for: two requests give every race
on one `client_id` and every pair of opposite orders; two mutations in a batch
give one before and one after a failure; two retries give a first failure, a
second and an exhausted mutation beside a fresh one; three requests give one per
tab and one that nobody waits for. One rejected access reaches the catch block from
each await of the try block, also after a result has been counted, and, after a request
that failed, leaves the catch block itself; the bound of `AttemptsBounded` for more of
them is proved. Two closers and two approvers give each race on an average; two classes
the row that a close does not see. Three students give two namesakes in both orders, and
one who comes before another in one list and, erased, after that one in the next; an
approver adds nothing to the closes that wait for each other. Three ticks give
a transaction that starts before, at and after a pull's timestamp, with and without
truncation. `MCOfflineSync` has one request: a tab waits for its own, and
a request left behind beside a new one is the business of `MCOfflineTabs` and of
the proofs. The symmetry of `MCOfflineTabs` is sound: its properties name no tab
or request, and it checks no liveness.

Deadlock is checked everywhere but in `MCAverages` and `MCSchool`, which may
rightly stop: once every average is approved, every message sent or every grade
entered no request need come.

Named bounds: `MaxRetries` (5 in the code), `MaxTime` on the clock of `GradeTable`,
`MaxIds` on the rows of `Evaluations`, `MaxGrades` on the grades of a semester, `Links`
on the activation links ever generated, `Sessions` on the uploads, `AsyncThreshold`
(200 in the code),
and the numbers of tabs, requests, writers, closers and approvers at a time.

## 4. Fairness

`OfflineSync`: timers fire, the awaits inside a tab resume, the server makes
progress or the deadline cancels it, an answer that is there arrives or is lost.
`Send` has strong fairness, because a connection comes free again and again while
requests left behind use it. Nothing is assumed of the user, the network or the
browser: a device may stay offline for ever, and `TimerFlushesQueue` allows
for it; it also says so where it needs reloads to stop, and no access to IndexedDB to be
rejected meanwhile: such a flush counts a try against what is due and arms the next
timer, or, when the catch block fails as well, arms none. No rejection is assumed to
happen.
`SyncPush`: a handler goes on or the 30 s deadline (`api/cmd/server/main.go:220`)
cancels it; weak fairness of that choice is what a goroutine and a timer have.
`Averages`: strong fairness of a closer's upserts and commit, because PostgreSQL
grants row locks in the order in which they were asked for, and weak fairness of its
deadlock detector, which looks after a second (`deadlock_timeout`) at whoever waits;
skipping a student is
not part of it, so that it is no way out of a wait for a row. No request is
assumed to be made, and none to fail otherwise; the 30 s deadline is not needed.
`Accounts`: a request that has read a row goes on or fails, and every token expires (15
minutes, 7 days, 5 minutes). Expiry has weak fairness only: a refresh just before it
keeps a token for ever while the account is live, and it is the checks on the row that
end this for a deleted one.
`GradeEntry`: fetches and accesses to IndexedDB end, a handler goes on, and, the one
assumption with strong fairness, a call that is repeated after 401s is not answered
by a 401 for ever: a fresh access token lasts 15 minutes. `api()` itself has no limit,
and without this assumption an entry need not end.
Nothing is assumed in the other modules, which have no liveness property.

## 5. Proofs

All theorems hold for any sets of mutations, requests, tabs, grades, students and
so on, under the named assumptions of the modules: mutations are
numbered (`SyncMutations`: a device's queue is sorted by `createdAt` and then by key),
names are ranked, several students having one rank if they have one name (`Averages`),
`MaxRetries` is positive, a second has at
least one tick, at least one grade makes an average and fewer than 40 are given in a
semester, `None` is no value.

* `SyncPush_proofs`. `PushInv` adds to the types what a request holds in each phase
  and where each "synced" comes from; `StoredAtMostOnce` needs that the row
  of an open transaction is in no other one, which is the unique index. `NoDeadlock`:
  the mutations a transaction has written come before the one it inserts, so who waits
  is at an earlier mutation than the one it waits for, and no circle closes. Theorems `PushTypeCorrect`,
  `AtMostOnce`, `ValidOnly`, `SyncedHonestUnlessUndone`, `NoDeadlock`.
* `OfflineSync_proofs`. Every step of the whole is a step of the server or leaves it
  alone (`PushImplemented`), so the server's invariants carry over. Then the
  device: who waits for which request with which batch (`AnswersMatch`), what a
  tab believes synced is stored or undone, hence `RemovedAccounted`,
  `RefusedKept` and the refinement `OutboxImplemented`, which needs the entry of a
  removed mutation to stay removed whatever late failures arrive.
  `AttemptsLimited` assumes one tab (`OneTab`; with two, a late failure may count once
  more) and allows one attempt more for each rejected access: the case is an
  "error" result that takes a mutation to the limit, and a rejected write of `lastSyncAt`
  after it, which counts it again. Its invariant `TriesLeft` says that what a failure
  will count has tries left: the batch, and also whatever the catch block finds pending,
  because the flush marked the queue "syncing" before the request.
* `Averages_proofs`. `OverwrittenOnlyBy` rests on `LateKnown`: in a closer's class the
  approved averages are those approved since it looked. It is inductive only with
  `RowsFirst` (an approval concerns a row that exists, and a row never changes its
  class). `CloseAllOrNothing` follows from the steps. `ClosesOrdered`
  (`CirclesAreNamesakes`) is the argument of `NoDeadlock` as far as the names carry it:
  what a close has written comes, by name, not after what it has left, erased names apart
  (`WritesInOrder`), so a close waits for one at a later name or at a namesake, and a
  circle can only be one of namesakes and erased names. `BookImplemented` maps the commit of a
  close to one `Close`, an approval to one `Approve` and all else to a stutter; it
  needs `RowsFirst`, an approval being about a row that is there.
  The same module proves `AverageRules`. `AverageRounded` reduces each rounding rule to a
  lemma about whole division (`RoundedUp`, `RoundedToNearest`), so that the nonlinear
  arithmetic is in lemmas about three numbers; whichever side float64 falls on, the
  result is within the rule's bound, which is why the theorem expands neither `Above`
  nor `Miss`. For `MajorityFound`, `BestLoop`
  shows that the recursive function `Best` has a value after each of its four turns (the
  turns written out are a witness for its CHOOSE), and `LoopFindsMost` carries the loop's
  invariant from turn to turn. `RuleTypeCorrect` is their invariant.
* `SyncPull_proofs`. `DeletedForGood` rests on the row lock: one open writer per row
  (`OneWriter`) and a row it has updated is live (`UpdatedIsLive`). `AuthorOnly` needs
  that the author of a found row does not change until the commit.
  `PullBrings` is inductive with the types and `NothingYet`. `GradeLifeImplemented`
  maps a commit to the step it makes visible; `OneWriter` and
  `UpdatedIsLive` make that step one that `GradeLife` allows.
* `Accounts_proofs`. `AccInv` adds to the types and to `OnlyPendingHasLink` that whoever
  holds a token, or is about to, has been activated (`Holders`, `Issuers`: no
  deletion reaches a row that still waits for its activation), that an activation
  carries a password and that an erased account has none. `LinksOfPending`, `OnePassword`
  and the refinement `LifeImplemented` follow from it action by action. `DeletedRunDown`
  (`DeletedRunsDown`) is the safety half of `DeletedSessionsEnd`: after the deletion the
  sets of requests and tokens that could still lead to a token only shrink, in an order
  in which no later stage feeds an earlier one.
* `Imports_proofs`. `ImportedOnce` needs, of each student, that a committed row is
  mapped and that no two open transactions have inserted the same student; then a
  second commit is impossible. `CountedAccounted` needs that the local counts are
  inserted or rolled back as long as the transaction is open, and `StuckExplained` who is
  still at work on a session.
* `Registers_proofs`. Classes (`ClassTypeCorrect`, `FieldsKept`: the row a request has
  read is the row still there unless it is outdated), absences (`ExcusesStand`),
  evaluations (`EvalTypeCorrect`, `TextsChangedOnlyBy`: the clerk of a request that was
  not overtaken is still the row's teacher or an admin; it needs that ids are
  unique), messages (`AllOrNone`), transfers (`OneTransfer`: a record is transferred
  only while it is not known, and a mapped request holds the key).
* `GradeEntry_proofs`. Every step is a step of SyncPush or leaves it alone
  (`PushOfEntries`), so its invariants carry over to the server behind the queue;
  `EntriesKept` adds that what leaves the queue was answered "synced", and
  `ConfirmedAccounted` that an "ok" is on its way only after the call has written.
  `CallOnce` (`CallDoneOnce`) needs that only a call that a 401 has refused is sent again
  and that such a call has done nothing (`DoneWhenClosed`). `EntryOutboxImplemented` maps
  pages, queue and server to the `Outbox` that OfflineSync implements too: a mutation is
  queued in it when `enqueue` makes it, so the invariant says that everything
  in the queue, in batches, results and rollbacks has been made (`OnlyTold`) and that a
  function makes one mutation in its try block and at most one more, another one, in its
  catch block (`OnceOrTwice`); that what leaves is stored or undone comes from SyncPush.

Every invariant, action property and refinement of the passing runs is the subject of
a theorem. Some theorems are about a property that no run lists because another one that
a run checks says as much: `PasswordSetOnce` follows from `LifeSpec`, `DeletedStaysDeleted`
from `GradeLifeSpec`, `RefusedStaysQueued` from `RemovedStoredOrUndone` (a refused mutation
is never stored, `ValidOnly`). The type invariants of Averages and SyncPull are proved and
listed by no run. Model-checked only are the six liveness properties (`RequestsAnswered`,
`FlushFinishes`, `TimerFlushesQueue`, `CloseFinishes`, `DeletedSessionsEnd`, `EntryEnds`):
liveness under fairness is out of the prover's reach. What they rest on is proved where
it is safety: no circle of waiting pushes (`NoDeadlock`), none of closes but over
namesakes and erased names (`ClosesOrdered`), and
nothing that renews the tokens of a deleted account (`DeletedRunDown`).

## 6. Where the code and its text disagree

* `sync_handler.go:155` says a "synced" grade is safely stored; the commit comes
  after the answer and may fail, or be the rollback of a transaction that a
  later mutation of the batch has broken (`SyncedMeansStored`).
* `sync-engine.ts:135` says a network error marks the mutations back as pending;
  they are `syncing` by then and the code looks for `pending` ones
  (`NetworkErrorRequeues`).
* `average_handler.go:202` says approved averages are locked; a close under way, or
  the close of another class, overwrites them (`ApprovedIsLocked`).
* `sync_pull_handler.go:20` says the server timestamp ensures that no changes are
  missed; a transaction under way across a pull is (`PullMissesNothing`).

* `useCatalog.ts:359` counts on the server's deduplication by `client_id`; `enqueue`
  makes a fresh one, and a grade entered online is stored twice (`EntryStoredOnce`).
* `bulk_import.go:51` says the job provisions each user; its queries run on a
  connection without a school and every insert fails (`LargeImportStores`).

Met on the way and in no run: `SPECS.md:220` describes a
last-write-wins on `client_timestamp` and a conflict table that no handler uses;
updates and deletes go out with `grade_id`, where `sync_handler.go:492, 607` want
`server_id`.

More of the kind, all in the models as the code has it:

* `average_handler.go:534` rounds up in float64: the mean 8.80 of five grades is
  stored as 8.81 (likewise 1.1, 2.2, 4.4, 4.9, 9.8 ...). `RoundingRight` states what
  is left: never more than a hundredth above.
* `school/handler.go:869` and `963` say that an explicit null clears the homeroom
  teacher; null and a missing field decode alike and keep it. Two updates at a time
  lose the earlier one's fields (`FieldChangesOnlyBy` says which).
* `session_store.go:78` says "atomically"; it is a Get and a Save, and a handler that is
  late with "processing" overwrites "completed".
* `portability/handler.go:409` says "Non-fatal — the user was still created"; the failed
  insert has aborted the transaction, and the user it answers does not exist.
* `SendMessage` answers 201 for a message that is rolled back because one recipient
  failed.
* An activation link replaced by a resent one still activates if its request has
  found the row before; one of the two wins. The consent given with it is stored by
  a second statement whose failure is only logged.
* With an access token that is still valid a user can write to their row after its
  deletion: profile, consent, TOTP.
* The keys `(school, email, role)` and `(school, client_id)` treat NULLs as equal: a
  second user of a role without an email, a second deletion in a role, and a second
  absence or grade without a `client_id` fail in a school.
* An excused absence can be excused again by somebody else; an evaluation can be
  written over by another assigned teacher, who becomes its teacher; `max_students`
  is never checked.

## 7. Not modelled

Within the modelled parts: the back-off delays (a timer fires at any time), the
role and class filters of the pull, the contents of grades beyond what makes them
valid, several mutations of one transaction in `GradeTable` (`SyncPush` has them; a push that
updates several grades is one written row, or several requests),
the validation's individual rules, the refresh of a token in the middle of a
flush (for the flush it is a slower answer or a failure), the local cache of grades
(nothing ever fills it), two tabs that count one failure each at the same
moment and lose one, rejected accesses in the run with two tabs (the theorem
`OutboxImplemented` has them), the code of `onSyncComplete` (it throws nothing that is
awaited), the thesis grade of an average and `min_grades_sem = 0` (which
divides 0 by 0), passwords, signatures and TOTP codes (they are right, or the request
changes nothing), cookies beside tokens. The clocks of the Go process, which gives a
pull its timestamp, and of PostgreSQL, which gives a row its `updated_at`, are one clock
in SyncPull: a skew between the two machines would add to what `PullMissesNothing` shows. School tenancy:
every model is one school.

In `MCSchool` there is one person, so that the key that treats a missing email as equal
meets nobody else; the theorems are for any number. The absences of two teachers, the
grades of `GradeEntry` and those of `GradeTable` are separate rows and separate models.

Other components (section 1 and `PROJECT.json`): parsers and serialisers of the
interchange formats, lists and reports, and the GDPR export are reads or pure
conversions; push subscriptions are one upsert and one delete of a row nobody else
writes; the notification channels and the report job are stubs that log; pages and
composables for the session hold what the server says; start-up, configuration and
logging have no state that a property would be about.

## 8. Plan

Done: the synchronisation (SyncPush, SyncEngine, OfflineSync with Outbox, SyncPull),
the gradebook (GradeTable with GradeLife, Averages with AverageBook, AverageRules, GradeEntry), the registers
(Absences, Evaluations, Messages, Classes, Transfers), Accounts with AccountLife,
Imports, and the proofs of each.

Left, should the code come to use them: updates and deletes through the push, once
the client sends `server_id`; the thesis weight in `AverageRules`, which wants float64
products of two fractions; the report and notification jobs once they do more than
log; conflict handling, of which `SPECS.md` speaks and the code has nothing.
