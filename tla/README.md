# Verification of the DC Inventory backend

The repository holds the backend of a data-centre inventory: QR labels are
printed in batches, glued to devices, and bound to them with a tablet. NetBox
owns the devices; the backend owns the labels, the shifts of its users and an
audit trail. This directory holds TLA+ modules translated from
`src/backend/app`, the TLC runs that check them, and proofs for TLAPS.

## 1. The system

| Component | State | Operations | Interacts with |
|---|---|---|---|
| QR registry (`domain/qr.py`, `db/models/qr.py`, `db/repositories/qr_code.py`) | table `qr_codes`: status, `bound_to_device_id` | bind, retire, rebind, unbind, restore; bulk insert, delete by batch | PostgreSQL: CHECK `qr_state_consistency`, partial unique index `qr_one_per_device` |
| QR lifecycle service (`services/qr/lifecycle.py`) | none of its own; a saga per request | bind, retire, restore, rebind, unbind with their compensations | registry (transactions), NetBox (GET, PATCH), `audit_log` |
| NetBox write service (`services/netbox_write.py`) | none | patch/post with version check and attribution | NetBox, `audit_log` |
| NetBox client (`netbox/client.py`) | consecutive failures, time the circuit opened | three attempts per call, circuit breaker | NetBox |
| Device edit, creation, comments (`api/v1/devices.py`) | none | read, compare versions, PATCH or POST, journal, audit | NetBox write service |
| Device decommission (`services/device_decommission.py`) | none; saga per request | retire the label, then PATCH the status, re-bind on failure | lifecycle service, NetBox |
| Idempotency (`services/idempotency.py`) | table `idempotency_keys` | replay, store, wrap | every mobile write |
| Shift sessions (`services/shift_session.py`, `api/v1/sessions.py`, `api/v1/admin/sessions.py`) | table `shift_sessions` | start, end, force-close | active-shift gate, audit |
| Auto-end job (`services/auto_end_job.py`) | advisory lock, health status | scan, end aged shifts | shift sessions |
| Active-shift gate (`auth/dependencies.py`) | none | look the active shift up before a write | shift sessions, audit |
| Batch generation (`services/qr/generation.py`) | tables `qr_batches`, `qr_codes` | draw tokens, insert, force-delete | registry |
| Administrators' console (`web/router.py`) | none; a list of items per form | bulk retire and decommission; restore, unbind, rebind, replace-qr, batch force-delete | one saga after the other |
| JWKS cache (`auth/jwks.py`) | signing keys, when they were fetched, a lock | look a key up, fetch | Keycloak, every request |
| TTL cache (`services/cache.py`), rack elevation, device search, meta | value and time per key | get or fetch, two caches nested | NetBox |
| Rate limiter (`middleware/rate_limit.py`) | fixed-window counters | consume | every request |
| Audit log (`db/repositories/audit_log.py`, `api/v1/admin/audit.py`) | table `audit_log` | insert, query by page, export | everything that writes |
| Event stream (`web/sse.py`, `templates/dashboard.html`) | connection counter, a watermark per stream, the rows of a page | poll, page, emit, close | `audit_log` |
| Sign-in, Keycloak administration, rendering, start-up | session cookies | | all of the above |

What is hard in it, and tested little or not at all:

* **Two stores without a common transaction.** A binding is a row of
  `qr_codes` and a custom field of a NetBox device. Each saga orders its
  writes and compensates; every failure point has its own compensation.
* **Interleaving.** Handlers are coroutines on several replicas. Nothing is
  locked across an `await` that reaches NetBox, so a decision taken in Step A
  is several calls old when the registry transaction runs.
* **Failures whose effect is unknown.** A PATCH whose answer was lost is sent
  again; a `COMMIT` may have been carried out and still raise.
* **Read, then unconditional UPDATE.** Shifts are ended by their owner, two
  kinds of administrators' requests and the job of every replica.
* **Chains of sagas.** A form works through a list; between two sagas of it,
  and between what it read and what it does, anybody else may act.
* **Orders that need not agree.** An audit row has the time its request took,
  the id its INSERT drew and the moment its COMMIT made it visible.
* **Caches without a lock.** Two misses fetch at once and the older answer may
  be stored last; one cache is filled from another one.
* **Retries.** A client repeats a request with the same key, possibly before
  the first delivery has ended.

`PROJECT.json` lists each hazard at its line, with the properties that cover
it, or the reason that none does.

What makes each part correct:

| Part | Correct when |
|---|---|
| Registry | a row only makes the five transitions of `QR`; the CHECK and the index always hold |
| Sagas | one acknowledged bind per label and device; NetBox and the registry agree unless a request gives a reason to doubt it; the audit rows tell the outcome; every request is answered, and 200 means that it happened |
| Version check | no PATCH overwrites a token its client has not seen, unless requests overlapped |
| Chains of sagas | they leave no divergence of their own; the flash an administrator reads is true |
| Writes to NetBox | the audit row tells what NetBox did, but for lost or unusable answers; only an outage opens the circuit; every write is answered |
| Idempotency | one batch per key, one answer per key, a placeholder never answered, no delivery waits for ever |
| Shifts | one open shift per user; the force-close trail agrees with the table |
| Auto-end job | ends aged shifts only, and all of them in the end |
| Event stream | no slot is lost or freed twice; a tick misses no row and a page lists none twice, but for the named excuses; every row arrives |
| Audit query | an administrator who turns the pages passes no row |
| Reads | no user exceeds a window's budget; a served key is found, a withdrawn one expires; an answer has a bounded age |

## 2. The modules

| Module | What it is |
|---|---|
| `QRDomain` | the row of `qr_codes`, its two constraints, the five transitions of `QR` |
| `QRRegistry` | **abstract specification**: what the table promises, one transition of one label at a time |
| `QRLifecycle` | the five sagas, request by request; implements `QRRegistry` |
| `QREndpoints` | the endpoints over the sagas: the read of the batch after the commit, what the client is told, batches deleted meanwhile |
| `QRDivergence` | `QRLifecycle` with two history variables, to say when the two stores may disagree |
| `QRConsole` | composes `QRDivergence` with consoles: handlers that run one saga after the other |
| `QRClaims`, `ConsoleClaims` | what documents and docstrings say of both and the code does not keep |
| `RemoteWrite` | **abstract specification**: what a write to NetBox through the service promises |
| `DeviceWrites` | device edit, creation and comments through attempts and circuit breaker; implements `RemoteWrite` |
| `ShiftSessions` | shifts, force-close, the auto-end job on every replica |
| `Idempotency` | `idempotency_keys` and both wrappers |
| `AuditFeed` | the audit log and its readers: dashboard, event stream, paged query |
| `ReadPath` | a read's way through rate limit, JWKS cache and the two nested TTL caches |
| `MC*` | instances and symmetry sets for TLC |
| `QRLifecycleProofs`, `DivergenceProofs`, `ConsoleProofs`, `ShiftProofs`, `IdempotencyProofs`, `WritesProofs`, `ReadProofs`, `FeedProofs` | theorems, each about the module of that name (those of `QRRegistry` are in `QRLifecycleProofs`) |

`QRConsole` extends `QRDivergence`, which extends `QRLifecycle`, which extends
`QRDomain`; `QREndpoints` extends `QRLifecycle` too; `QRLifecycle` and `QRConsole` instantiate `QRRegistry`, and
`DeviceWrites` instantiates `RemoteWrite`. The other three stand alone: they
share no state with the sagas that either of them reads.

Mutants, the operators that say how a likely bug would read, stand before the
definition they change and are named after it (`Admitted`, `AdmittedAlways`).
No specification uses them.

### 2.1 `QRLifecycle`

A request is a process; an action is what its handler does between two awaits
that reach PostgreSQL or NetBox. A database transaction is one action: it
holds the row lock from its re-check to its commit and awaits nothing else.

| `pc[r]` | Code (`services/qr/lifecycle.py`, `services/netbox_write.py`) | Actions |
|---|---|---|
| `idle` | a client sends the request, with a version it read | `Send` |
| `lookup` | Step A: `get_by_id` and the early returns | `LookupRefused`, `LookupPasses`, `LookupFails` |
| `retire_free`, `restore` | `_retire_free`, `restore`: one transaction | `RegistryOnly`, `RegistryOnlyRefused` |
| `read_device` | the GET, the comparison of `last_updated`, rebind's look at the target | `ReadDevice`, `ReadDeviceTaken`, `ReadDeviceConflict`, `ReadDeviceFails` |
| `patch` | the first PATCH | `Patch`, `PatchFails`, `LandUnanswered` |
| `clear_old` | rebind's PATCH of the old device | `ClearOld`, `ClearOldFails`, `LandUnanswered` |
| `commit` | Step C: `FOR UPDATE`, re-check, UPDATE, audit row | `Commit`, `CommitFails` |
| `compensate` | the GET of a compensation | `CompensateNeeded`, `CompensateNoop`, `CompensateFails` |
| `compensate_patch` | its PATCH | `CompensatePatch`, `CompensateFails`, `LandUnanswered` |
| `done` | the service returned or raised (`Return`) | |

`registry` and `shows` are the two stores. `seen[r]` is the device whose
current `last_updated` the request holds; any PATCH of that device turns it
into `Stale`, so versions need no counter. `owes[r]` holds the compensations
still to run, `trail[r]` the audit rows written. `call[r]` and `old[r]` are
locals of the handler.

In `QREndpoints` a request of the API that is `done` still has to be answered
(`api/v1/qr.py`): what the service raised becomes an error (`RespondError`); what it
returned becomes a 200 only after the label's batch was read, in a transaction of its
own (`RespondOk`), and a 500 when that query fails or finds no batch (`RespondUnread`),
although the saga has committed. An administrator may delete rows and batch at any time
(`DeleteRows`), the connection may die (`ConnectionLost`). `reply[r]` is what the
client is told; `moved` is history.

### 2.2 `ShiftSessions`

Every SELECT and every UPDATE of the three handlers is an action; under READ
COMMITTED each sees what is committed at that moment. `by` names the writer of
`shift_end_at` and stands for the time it wrote; the uuid of a new shift is the
request that opens it. A force-close passes its gate (`gate`, and `lookup` for
the console, which reads the shift a second time), reads its target, and
commits UPDATE and audit row together. The job of a replica is `asleep`, about
to `scan`, walking through `rows`, inside the transaction of one row (the id of
the row), or `down`.

### 2.3 `Idempotency`

`keys` is the committed table, `claim` the placeholders of open transactions:
an INSERT of a claimed key waits, which is why `Insertable` is a guard.
`with_idempotency` goes `check`, `claim`, `work`, `commit` in one transaction;
`with_optional_idempotency_outer` goes `check`, `work`, `store` in three. The
work itself is `done`, `refused` or `rolled_back` (three kinds of response the
wrapper stores alike) or raises (`WorkRaises`, which stores nothing).

### 2.4 `QRConsole`

A console is a request of `QRLifecycle` whose handler is not one saga but works
through a list. `task[c]` is that handler: what was asked (`kind`, `items`),
where it is (`at`), what is left (`todo`, `item`), what it counts as failed and
what it tells the administrator (`said`). It uses the slot of its own name in
`QRLifecycle` for the saga it is in.

| `task[c].at` | Code (`web/router.py`, `services/device_decommission.py`) | Actions |
|---|---|---|
| `idle` | the form is submitted | `Submit` |
| `next` | the loop's next item, or the end of the list | `Take`, `Finish` |
| `read` | the registry is read: the label, the batch, the holder of the device | `ReadLabel`, `ReadBatch`, `FindHolder`, `ReadRegistryFails` |
| `get` | the device is read for its version | `GetDevice`, `GetDeviceFails` |
| `saga` | a saga runs; then the handler judges what it raised | `QRLifecycle`'s steps, `SagaReturns` |
| `status_get`, `status_patch` | `patch_with_attribution` of the device's status | `StatusCompare`, `StatusPatch`, `StatusRaises`, `StatusLandsUnanswered` |
| `undo` | the re-bind of a decommissioning | `QRLifecycle`'s steps, `UndoReturns` |
| `delete` | the transaction that deletes a batch's rows | `DeleteBatch`, `DeleteBatchFails` |
| `done` | the flash | |

A saga returns to its handler without an await, so no other request runs
while a console is `Between` two steps (`Settled` guards everything else). Which
operation takes which way is `Take`'s matter: retire and restore call their saga at
once, unbind and replace read the registry first, rebind and decommission the device;
force-delete starts with the batch and unbinds what is bound.

### 2.5 `DeviceWrites`

`at[r]` is the call a handler is in: `get` (the version, for an update), `patch`
or `post`, `journal`, `audit`. `tries[r]` counts the attempts of that call. An
attempt ends answered, refused (4xx), unsupported (501), unreached (5xx or
timeout), or lost: NetBox carried it out and its answer is gone. The last
two are repeated up to `MaxAttempts`, POSTs too. An answer may also be a 2xx
whose body cannot be used (`Unreadable`): the breaker takes the call for a success and
the service for a failure, and a created object without an id ends the request without
an audit row. `breaker` is the process-wide
`CircuitBreaker`; whether its `reset_timeout` has elapsed is left open, so it may
go half-open at any time; the calls of handlers that are not followed change it too
(`OtherCallEnds`). `made` counts effects in NetBox, `lost` those whose
answer was lost or unusable, `outage` the failed calls since one came through: the last two are
history and no action reads them.

`RemoteWrite` has no calls, attempts or breaker: a write is open, may have
strays (effects nobody knows of), is carried out at most once, is decided once
and recorded after that. Under the mapping in `DeviceWrites`, `carried` is what
`made` exceeds `lost` by.

### 2.6 `AuditFeed`

A row passes `begun` (it has its timestamp), `inserted` (its id), `saved`; `saved`
is also the order of the commits. `tab[t]` is a dashboard in a browser with
its stream: `page` (rendered, `base` the highest id shown), `reserved` (a slot is
counted, the body has not been iterated), `reading` page after page of a tick,
`emitting` the rows of `batch`, `dropped`, `refused`. `mark` is `watermark`. `table`
and `seen` are the page's own: what it lists, and the ids its script keeps to drop
repeats. `walk[a]` is an administrator who asks for page after page; each
request inserts a row of its own (`row`), whose commit comes before the answer.

### 2.7 `ReadPath`

A request is `key` once the budget let it through, `waiting` for the lock of the JWKS
cache, `fetching` or `fetched` under it, then `accepted` or `unknown`. An accepted
one may ask for a rack: `devices`, `types`, `types_fetch`, `types_served`,
`assembled`, `answered`; `types` is passed over when no device names a type
(`NoTypes`). A value is represented by the time NetBox served it,
because a cache decides by age and nothing else. `got` and `since` are what a
fetch brought and when it began: they are read after an await, when the cache may
have changed.

## 3. The runs

| Run | Instance | What it shows |
|---|---|---|
| `sagas` | 2 requests, 2 labels, 2 devices, all operations, all six kinds of failure | the table implements `QRRegistry`; binds have one winner; the stores agree unless a request names the reason; no unseen token is overwritten without overlap |
| `answered` | 2 requests, 1 label, whose batch may be deleted, 2 devices, all operations, failing calls, transactions and batch queries, lost answers, crashes, under fairness | every request is answered; its audit rows tell whether it moved its label, whatever the client was told; a 200 is true |
| `shifts` | 2 users, 2 standing shifts, 2 requests, 1 replica, 1 failure | one open shift per user; trail and table agree; the job ends aged shifts only |
| `aged_shifts` | 2 users, 2 standing shifts, 1 request, 2 replicas, 2 failures, under fairness | every aged shift ends, although replicas compete for the lock and die |
| `idempotency` | 1 key, 2 payloads, 3 deliveries, 1 failure, under fairness | one batch and one answer per key; no placeholder is replayed; no delivery waits for ever |
| `consoles` | 1 console and 1 client that rebinds, 2 labels of one batch, 2 devices, four kinds of failure | chains of sagas diverge attributably; the flash is true unless somebody crossed the operation; the table implements `QRRegistry`, deletions included |
| `writes` | 2 writes, threshold 2, all failures, under fairness | audit rows tell what NetBox did, but for lost or unusable answers; writes implement `RemoteWrite`; only an outage opens the circuit; every write is answered |
| `feed` | either one dashboard with 3 rows, pages of 1, at most 2 per tick and 1 slot, or one administrator with 3 rows in the log, 3 more to come and 2 on a page; under fairness | slots are accounted for; ticks and walks miss nothing and list nothing twice but for the excuses; rows arrive |
| `reads` | 2 users with one request each, 2 keys, 1 rack, 4 ticks of half a second | budgets, keys and answers stay within their windows |
| `claim_*` | the smallest instance that breaks the claim | see section 6 |

Why these bounds are enough. A request of `QRLifecycle` meets others only
through the row of its label, the device it names and the device it read: two
labels and two devices give every way in which two requests share none, some or
all of these, and a rebind needs its two devices. Two requests give every
interleaving of a pair; three were run too while the modules were written, for
binds. What must hold for more is proved. `answered` is about what
a request does whatever the other one does, so it contends for one label;
`TrailTellsOutcome` is only claimed while best-effort audit rows are written and
no commit leaves its outcome unknown, so the run leaves those two failures out;
`sagas` has them all. A shift is ended by at most two writers at a time that
matter (the one that read it, and the one that came between), so two requests
and a job are enough; the lock needs two replicas, and a holder that dies
while the other fails needs two failures. One key, because requests with
different keys share nothing; three deliveries, so that a retry can meet both a
winner and a loser; two payloads for the 422.

`consoles` has one console because two of them meet through the same rows a
console and a client do, and a client that rebinds because a rebind binds, frees
and moves labels in one saga; the lists of items are all subsets of two labels or
two devices, so a loop has an item before and one after the one that fails.
`commit_timeout` and `audit_error` are left to `sagas`. In `writes` a threshold of 2
lets one write's failing calls and the other one's add up to an open circuit and one
success reset them. In `feed` a stream has one row per page, so that every commit shifts
the pages under a tick; three rows over two pages are more than the cap; one slot can be
held, lost or taken by another stream. A walk has two rows per page and starts with three
rows in the log (`Logged`; `WalkInit`), a state `Spec` reaches: page 1 says there is more, its own
request and other writers add rows and shift the pages, and page 2 is answered too, with or
without more behind it; six rows leave each request its audit row. Streams and walks do not
meet except through the rows, which are anybody's in both, so `MCInit` starts with either.
In `reads` a window is one second, so Retry-After is always one there; the theorem
`BudgetHolds` is about windows of any length. In `reads` time
ends after two windows, two lives of a key and two of an entry (`MaxTime`); keys
are rotated in some behaviours and a rack is read in the others (`MCSpec`):
both caches are behind the same token check, and the order of fetches is what
matters within each. What must hold for more is proved (section 5), but for the
liveness properties.

Symmetry is used in the runs without temporal properties of the form `~>`;
labels, devices and requests (users, shifts, deliveries) are interchangeable
there, because no formula names one; in `reads` a request is exchanged together
with its user (`Swap`). `CHECK_DEADLOCK FALSE` stands in three runs.
`idempotency` and `feed`: when every delivery is answered, or every row is written
and every page closed, the system has nothing to do. `reads`: time stops at its
horizon. `QRLifecycle` and `QRConsole` have a stuttering step for that state,
and the job of `ShiftSessions` never stops.

## 4. Fairness

* `QREndpoints`, `Idempotency`: weak fairness of `Handle(r)`, the steps of a
  handler that has been started, and in `QREndpoints` of `Respond(r)`, what the endpoint
  does when the service has returned. Justified: each attempt of a NetBox call has an
  httpx timeout, attempts are counted, PostgreSQL ends or breaks each
  transaction. Clients (`Send`), failures, crashes and people who edit devices
  are not fair, nor is the deletion of batches.
* `Idempotency`: an INSERT that waits for a placeholder goes on when that
  transaction ends; weak fairness suffices because no step of another delivery
  can disable it for good: whichever transaction wins the key, the loser's
  next step is `InsertRefused`.
* `DeviceWrites`: weak fairness of the handler of each write, by the same
  timeouts. Nothing is assumed of the breaker: an open circuit answers at once.
* `AuditFeed`: `StreamRuns(t)`, weak fairness of `StartBody`, `Wake` and `Emit`: the event
  loop iterates a response's body until its connection ends, and the sleep between
  ticks is bounded. Strong fairness of `ReadPage`, for each page: a tick may fail
  (`TickFails`) again and again, but a database that answers some of the time is read
  at last. Writers, browsers and administrators are not fair.
* `ShiftSessions`: weak fairness of `Iterate(p)` and `Restart(p)`: the loop of
  `auto_end_job.py` sleeps for a bounded time and catches what an iteration
  raises, and replicas are restarted by their supervisor. Requests are not fair.

## 5. The theorems

TLAPS proves these for every number of labels, devices, users, keys, requests,
consoles, dashboards, rows, racks and replicas, and for every bound and time to live.
All rest only on the assumptions named in the modules (`ConstantsAssumption`,
`ConsoleAssumption`, `ShiftsAssumption`, `IdempotencyAssumption`, `WritesAssumption`,
`SizesAssumption`, `TabsAssumption`, `NoneAssumption`, `TimesAssumption`,
`UsersAssumption`: sets are disjoint where the code's types are, `None` is no member of
any, consoles are requests, a batch consists of labels, bounds are natural numbers, page
sizes are not zero, rows and dashboards are finitely many).

| Theorem | Statement | Inductive invariant, and what it adds |
|---|---|---|
| `ConstraintsInvariant` | the abstract registry keeps its CHECK and its index | the constraints themselves: each transition leaves a consistent row, and only `Bind` and `Rebind` put a device into one, under `Vacant` |
| `TypeCorrectness` | `Spec => []TypeOK` | `IInv == TypeOK /\ CallInv`: a request that has arrived carries a call, so its label and device are in range; a rebind past Step A moves the label elsewhere, so `Rebind` is a transition and no stutter |
| `RefinesRegistry` | `Spec => Registry!Spec` | the same `IInv`: under it `RegistryOnly` and `Commit` are transitions of the registry and every other step leaves the table alone |
| `ConstraintsAlwaysHold` | `Spec => []ConstraintsHold` | `RefinesRegistry` and `ConstraintsInvariant` |
| `OneBindWins` | `Spec => []OneWinner` | `BindsOnly => WInv`: an acknowledged bind holds its row, and no bind moves a row that is not free; two winners of one label or device would be two rows where the index admits one |
| `TrailTells` | while `TrailIsKept`, `ESpec => []TrailTellsOutcome` (`QREndpoints`) | `EInv`: `TrailInv`, what each control point has written so far, and `MovedInv`, at which of them the label has moved. The trail is ahead of the outcome between PATCH and commit, and the client's answer behind it, so the property alone is not inductive |
| `DivergenceAlwaysAttributable` | `HSpec => []DivergenceIsAttributable` | `DInv` of `DivergenceProofs`, see below |
| `AlwaysPatchesWhatItSaw` | `HSpec => []PatchesWhatItSaw` | `Sightings`, under `DInv`: the device whose current version a client holds shows what the client saw, since a write to it makes the version `Stale`; after the comparison only a request that overlaps can write to it |
| `ConsoleTypes` | `CSpec => []CTypeOK` | `CIInv`: what a handler's locals hold at each of its control points (`TaskOK`), and a console is in its slot exactly while it waits for a saga (`SlotOK`), so a saga that starts never finds its slot in use |
| `ConsolesRefineRegistry` | `CSpec => ImplementsRegistry` | the same `CIInv`: a step is a saga's, the start of one, the deletion of a batch, or it leaves the table alone (`StepKinds`) |
| `ChainsAlwaysAttributable` | `CSpec => []ChainsDivergeAttributably` | `CXInv`, see below |
| `AnswersTrue` | `CSpec => AnswersAreTrue` | `Reliable`, on top of `CXInv`, see below |
| `NoSecondShift`, `TrailOfForceClose`, `JobSparesYoung`, `ShiftProofs!TypesKept` | the safety properties of `ShiftSessions` | `IInv` of `ShiftProofs`: what each handler knows of the row it read (`HandlersKnow`), what a job took from its scan was aged and stays so (`JobsKnow`), although neither holds a lock |
| `BatchOnce`, `SameAnswer`, `PlaceholderStaysPrivate`, `IdempotencyProofs!TypesKept` | the safety properties of `Idempotency` | `IInv` of `IdempotencyProofs`: an open placeholder belongs to a batch at work whose key is not committed (`ClaimsHeld`), a row was written by a request that has answered (`RowsKept`), answers are final (`AnswersFinal`) |
| `AuditTells`, `OutageOnly`, `WritesProofs!TypesKept` | the safety properties of `DeviceWrites` | `IInv` of `WritesProofs`: at each control point the effects in NetBox equal those whose answer was lost, until an answer comes, and exceed them by one from then on (`Progress`); the breaker counts no more failures than the outage had (`Breaker`) |
| `RefinesRemoteWrite` | `Spec => ImplementsRemoteWrite` | the same `IInv`: it says which attempts are strays, which one carries the write out, and that nothing is sent once the outcome is decided |
| `KeysFound`, `KeysExpire` | a served key is found, a withdrawn one expires | `KeysInv` of `ReadProofs`: cached keys were served at most `Latency` before they were stored (`KeysDated`), and what a fetch brought has every key that was served since it began (`KeyOf`) |
| `AnswersFresh` | answers have a bounded age | `FreshInv`: an entry is dated by a lookup before its fetch, whoever stores it last (`EntryDated`, `TypesDated`, `ValueOf`) |
| `SlotsInvariant`, `TypesInvariant`, `FeedInvariant` | the count of open streams; the types of `AuditFeed` | `FeedInv` of `FeedProofs`: ids number the inserts (`RowsInv`), and the counters count what they say; a stream's step changes the number of holders by one or not at all (a cardinality) |
| `ListedOnceInvariant` | `Spec => []NoRowListedTwice` | `Listed`, a part of `FeedInv`: the page's script has remembered every row it was sent, and all others on the page are at or below the highest id rendered, so a row the stream re-sends is dropped |
| `TickInvariant` | `Spec => []TickCoversLog` | `Streamed`: a row the tick owes is in its batch, behind every row with a higher id, or on a page still to be read. Commits shift the pages under a tick, but only backwards (ranks grow), which is why a row is read twice and not missed |
| `WalkInvariant` | `Spec => []WalkMissesNothing` | `WalkInv`: what an administrator's pages have not brought yet has a rank beyond them, by the same lemma on ranks |
| `BudgetHolds`, `ReadProofs!TypesKept` | budgets per window, types | `BInv`: a bucket counts what was let through in the current window and the windows to come are empty; `SecondsOfWindow` is the arithmetic of Retry-After |

`DInv` says what each control point of a saga knows. For a request that gives no
reason for doubt: its label's row is as Step A read it (`AsStepA`), no label is
bound to its target between the first PATCH and the commit while the device shows
its token, and the old device shows nothing once it was cleared (`NewAsLeft`,
`OldAsLeft`); where a request has written nothing, or has finished, the two stores
agree (the last branch of both). No lock protects that knowledge, so the proof has
two halves. A step of a request keeps its own (the lemmas `Mine...`, one per group
of actions); and a step of another one does not disturb it, because two undoubted
requests share neither a label nor a device (`Apart`, `OutOfReach`, `KnownKept`).
What a doubted request does to a third device is accounted for by `Traced`: the
device from which its commit takes the label is one it touches, or is Tainted
already. Doubt only grows (`DoubtGrows`).

`CXInv` carries that over to the consoles. `DInv(X)` is stated for a set X of devices
of which nothing is claimed besides the tainted ones (`Waived`); `QRDivergence` needs
none, and `QRConsole` takes `blamed`. Then the steps of sagas preserve it by the lemmas of
`DivergenceProofs`, and two kinds of steps remain. A console that starts another saga
erases what its slot said of the last one: if that one gave a reason for doubt, what it
touched passes from the tainted devices to `blamed`, and if it gave none the two stores
agree about it. The deletion of a batch takes labels away from under everybody: the
part `Cleared` says that from the moment a force-delete has listed the bound labels of
the batch, and as long as none has failed, each one is in its list still, is being
unbound, or is unbound (`Pending`), or another request touched it, which then meets the force-delete and is
suspected; so no row it deletes is bound to a device that the property speaks of.

`AnswersTrue` is about the step that sets the flash, and what the flash sums up was
done many steps before, item by item. `Reliable` carries it along, for a console
that nobody has crossed. Such a console is `Alone`: no other request has a footprint
in its scope. Each item that has left its list is counted as failed, has its `Deed`
done in the registry, or is the current one (`Worked`); the saga in its slot is the
one that item asks for (`Linked`); what the saga answers is so (`Outcome`); and a
decommission that goes on to the status has found its device empty (`Found`). These
parts need each other: the item that `SagaReturns` drops from the list is done only
because the slot's saga was that item's, and an item done early stays done only
because neither another request (`OthersWork`, `OthersTurn`) nor the console's own
later sagas (`OwnWork`, `OwnTold`) reach its row. The NetBox side is not carried
along: at the flash the console is in no saga, nobody else is near, and `CXInv`
then says that the stores agree (`Shown`).

TLC found each inductive invariant, or the property it strengthens, to hold on a
small instance before it was proved. Only checked by TLC, not proved: the liveness
properties (`EveryRequestAnswered`, `EveryWriteAnswered`, `AgedShiftsEnd`,
`RowsArrive`), because fairness and `ENABLED` are out of the prover's reach.

## 6. Where the code and its documents disagree

Three are runs that end in a counterexample, quoted in `PROJECT.json`.

| Run | What is said | What happens |
|---|---|---|
| `claim_holder_keeps_token` | a refused registry update rolls the NetBox change back (`Architecture_Overview.md:247`) | binding a free label to a device another label holds erases the holder's token: bind overwrites without looking and its compensation writes no token |
| `claim_decommission_undone` | when the status PATCH fails after the retire, a re-bind restores consistency (`device_decommission.py:58`) | the re-bind calls `bind` with the label it has just retired, and bind refuses what is not FREE: the label stays retired, always |
| `claim_deletes_pointed` | "we never hard-delete a row whose NetBox device still points at it" (`web/router.py:948`) | a label bound between the form's unbinds and its DELETE is deleted with the others |

Others were met while modelling. The models have the steps; the properties are
stated so that they hold of the code.

* *Rolled back, not restored.* `docs/sprint-4.md:82-84` promises consistency after
  "rolled back". Of two binds of one label to one device, the loser's compensation
  (`lifecycle.py:1280`) clears the token, which is the winner's too.
  `DivergenceIsAttributable` names the overlap.
* *Retire re-checks the status only* (`lifecycle.py:302-303` says the device is
  cleared; `:1235`). A rebind between Step A and the transaction moves the label, and
  the device it moved to keeps the token.
* *A 500 for what happened* (`api/v1/qr.py:279`; `lifecycle.py:686-690` leaves out a GET
  after the commit, which could "turn a durable, successful rebind into a 5xx").
  The endpoints then read the batch in another transaction, which may fail or find it
  deleted. The trail still says that the label moved, which is what `TrailTellsOutcome`
  claims; the client was told otherwise.
* *Compared, then overwritten* (`netbox_write.py:171`, `:187`): a change between the GET
  that compares versions and the unconditional PATCH is overwritten. `PatchesWhatItSaw`
  names the overlap.
* *The last writer* (`shift_session.py:137`): reason and time of a shift are those of the
  last UPDATE, and two administrators may both be told that they closed it.
* *A row behind the watermark* (`web/sse.py:170`): a row that commits after one with a
  higher id is not sent. `TickCoversLog` and `RowsArrive` name it.
* *An assertion after the gate* (`web/router.py:731-732`): the shift may end between
  the two SELECTs, and the assertion fails with a 500.
* *The job spares nobody* (`auto_end_job.py:110-112` says that ending an ended row is a
  no-op; `shift_session.py:166`): between its SELECT and its UPDATE the job overwrites
  reason and time of a shift somebody else ended.
* *A retry that overtakes* (`mobile-api-guide.md:507-510`: no second device;
  `idempotency.py:350`): while the first delivery is at work its key is not in
  the table, and the work is done again.
* *Safe to retry* (`mobile-api-guide.md:316-317` of `*_ROLLED_BACK`;
  `idempotency.py:348`): the stored 500 is replayed for 24 hours and nothing is tried.
* *Released exactly once* (`web/sse.py:57-60`): a body that was never iterated has no
  `finally` to run, so its slot is never released. `lost` counts these slots, and
  `SlotsAccounted` is exact with them.
* *A FAILURE row of a failed query* (`api/v1/admin/audit.py:191-193`): when the
  SELECT fails, PostgreSQL has aborted the transaction the row is to go into.
* *Bulk decommission counts what was already decommissioned as failed*
  (docstring in `web/router.py`, about line 1620): without a bound label the status
  PATCH simply succeeds once more.

`DivergenceIsAttributable` lists the reasons for disagreement that the code
leaves room for; those without a claim of their own: a compensation that GETs
and then PATCHes may clear what another bind wrote in between; rebind's first
PATCH may take effect although it raises, and nothing compensates; rebind's
second one may too, and `restore_old=False` then leaves the old device bare.

## 7. Assumptions and abstractions

* `get_by_id_for_update` returns what is committed. SQLAlchemy would return the
  stale object of Step A if the session's identity map still held it; it does
  not, because the map is weak and Step A's rows are out of scope.
* In the sagas, best-effort writes (journal entries, `_record_audit`) are merged into the
  step they follow: they are not read by any handler. Journal entries are left
  out there; `DeviceWrites` has them.
* Step A of the four operations that have one is one action; it is one SELECT.
* A PATCH that lands after its client has given up on all attempts is not
  modelled; one that lands before a later attempt is (`LandUnanswered`).
* People edit devices in NetBox (`EditElsewhere`) but not `custom_fields.qr_id`,
  and devices are not deleted.
* The uuid of a shift is the request that starts it; `by` stands for
  `shift_end_at`. Clocks are abstracted to `aged`. A scan returns the oldest
  first; the model walks through it in any order.
* `pg_try_advisory_lock` and `pg_advisory_unlock` do not raise by themselves; a
  crash releases the lock with its connection.
* `CleanUp` deletes no row whose key an unanswered request past its first
  SELECT uses: rows live 24 hours, requests do not.
* `QRConsole`: labels of one batch may be deleted; new labels are not printed
  meanwhile. The order of a list is left open. Sagas judge their device versions as
  in `QRLifecycle`.
* `DeviceWrites`: the back-off between attempts and the breaker's `reset_timeout` are
  not counted; each may be over at any time.
* `AuditFeed`: timestamps are drawn in the order of the rows' numbers, with ties; the
  clock does not step back. Filters, which only narrow what a query sees, are left out.
* `ReadPath`: one class of requests; the three of `rate_limit.py` have separate
  buckets and the same code. A key that is withdrawn is not published again. Time is in
  ticks, and a fetch of the keys takes at most `Latency`: an assumption, since httpx's timeout
  bounds each phase and each read of a fetch, not its sum.
* Roles are read from the token and are not state; a refused role has no effect.

## 8. Not modelled

Start-up, configuration, migrations, scripts and health checks (sequential, once).
Sign-in, session cookies and CSRF (stateless cryptography) and the Keycloak
administration client (Keycloak defines what it relies on). Rendering, PDF labels and
the device form (no state another part reads); console routes that repeat an API
route. Collisions of random tokens. The wall clock stepping back, the delays of
asyncio and of back-offs. The table of components in `PROJECT.json` has the reason for
each.

## 9. Plan

What would come next, in order:

1. `QRLifecycle`'s view of a NetBox call (answered, raised, landed unanswered) as an
   abstract specification that the attempts of `DeviceWrites` implement.
2. The classes of the rate limit and the gate's other callers, if their code
   comes to differ.
