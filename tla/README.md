# Eventglass in TLA+

Eventglass takes Sentry-compatible events over HTTP, writes them to immutable
journals and Parquet bundles in S3, and keeps all authority (sequences, leases,
receipts, the catalog) in PostgreSQL. This directory models its parts, checks
them with TLC and proves the write path, the process runtime and the delivery
outbox with TLAPS.

## The system and its modules

| Part | Code | Module | What makes it hard |
|---|---|---|---|
| Ingest batcher | `ingest/batcher.go` | `Batcher` | cancellation, bounded queues, a drain against running work |
| Upload workflow, accept transaction | `ingest/workflow.go`, `control/accept.go`, `intents.go`, `receipts.go` | `Acceptance` | locks across lanes, READ COMMITTED, failed and late PUTs, lost commit replies |
| Conversion jobs, prepare, publication, collection of outputs | `control/jobs.go`, `prepare.go`, `publish.go`, `gc.go`, `ingest/publication.go`, `app/worker_loop.go` | `Publication` | takeover, workers that do not know they lost, a crash between any two steps |
| What publication promises | | `LaneLog`, `PublicationLog` | |
| Issues and issue rules | `control/issues.go`, `issue_status.go`, `issues/lifecycle.go` | `Issues` | occurrences published out of order around a resolution |
| Snapshots, compaction, retention, backups | `control/snapshots.go`, `catalog.go`, `maintenance*.go`, `retention*.go`, `gc.go`, `recovery.go` | `Catalog` | readers of old generations, swaps, a floor that moves |
| Queries | `control/query_*.go`, `query/coordinator.go`, `worker.go`, `app/query_sync.go` | `Queries` | task trees under leases, late results, budgets, cancellation |
| Plans of queries | `query/execute.go`, `rows*.go`, `merge.go` | `QueryPlan` | partitions, pruning with ties, fan-in |
| Aggregates | `query/aggregate.go`, `topk.go`, `api/query_results.go` | `Aggregates` | limbs, signs, rounding, overflow, empty buckets |
| Threshold alerts | `control/alert_evaluations.go`, `alert_query.go`, `alerts/evaluator.go` | `Alerts` | windows behind a barrier, stale rules, cooldown |
| Deliveries | `control/deliveries.go`, `alerts/delivery_worker.go` | `Deliveries` | at-least-once sending, late answers |
| Budgets, gate, child processes | `resource/budget.go`, `app/native_task_gate.go`, `child_lifetime.go`, `run.go` | `Runtime` | lost wakeups, drains, descendants that survive |
| Block cache | `storage/cache.go`, `gateway.go` | `BlockCache` | shared loads, pins, eviction, invalidation |
| Live tail | `query/live*.go`, `token.go`, `api/public_live.go` | `Live` | checkpoints across pages, merges and reconnects |
| Setup, sessions, users | `control/auth.go`, `user_management.go`, `api/session.go` | `Access` | checks outside transactions, two administrators at once |

The parts meet in PostgreSQL rows and in S3. The batcher hands batches to
workflows; a workflow ends in the accept transaction, which queues a conversion
job; a worker converts and prepares, the same or another one publishes. Queries,
alerts and the live tail read the catalog through snapshots, which compaction,
retention, collection and restores must respect. Each module holds the rows of
its own part, and what the others do to those rows is an action of that module:
acceptance and publication feed `Alerts`, `Issues` and `Live`; swaps, policy
changes and restores happen to `Queries` and `Live`; `ActivateRecovery` is an
action wherever it changes a table.

`PROJECT.json` maps every definition to the lines it models, and lists the parts
that are not modelled and the hazards with the line where each one bites.

How code becomes actions. A SQL transaction is one action when it takes its row
locks before it reads; the accept transaction and the changes of users, whose lock
order matters, are split at each lock, the latter also between the authentication
of the session and the transaction that checks the role. The renewal of a snapshot
is split between its read of the clock and its commit, because retention cleanup
reads `query_snapshots` without a lock: what its locks keep out (whoever updates
the installation, the tenant or the snapshot) waits, the cleanup and the collector
do not. Code outside a transaction is split at every call that another actor can
overtake. A lease is a flag that goes down by itself once its holder is gone and,
as a counted fault, while the holder still runs; heartbeats keep it up. A token, a
hash or a body is a value that is compared. Clocks are small counters; GC age
limits are left out, so that anything unpinned may be old enough, which only adds
behaviours. The exception is an object listed by a snapshot whose renewal is in
flight (`InGrace`): it was retired within the snapshot's hour, and the grace is
eight days. Without it a renewal that commits after the expiry could revive a
snapshot whose files are gone.

A restore has two forms in `Catalog`. `BeginRecoveryVerification` verifies a
database that was recovered to the end of its log. `RestoreBackup` puts the
database back to the image of the registered backup, with every process stopped
as `docs/operations/recovery.md` demands, while the bucket keeps what was
collected and written since; verification then compares the older inventory with
the bucket as it is.

A shutdown (`Runtime`) has one deadline for all of its waits. Until it passes,
`Shutdown` waits for the requests, `Join` for the permits and then for the tasks.
When it has passed, the batcher answers a request or abandons it (`Abandoned`):
the handler of a dispatched entry waits for ever and keeps its permits.

Operators whose comment begins with "Mutant" are changed copies of the operator
after them; they show that the properties can fail.

## Runs

`MCPublication` and `MCAcceptance` extend the modules of the write path, so that
TLC checks the very definitions that the theorems are about. Their constraint
`Cases` is a disjunction of small worlds (one batch with two faults or two batches
with one; two lanes with the same events, or one lane whose requests are retried
or uploaded again): a behaviour is followed as long as it stays in one of them.
`MCComponents` puts the other modules together: a behaviour belongs to one
`machine`, which is chosen in the initial state, and the machines share variables.
A property `P` of a machine is checked as `machine = "m" => P`. `MCProgress` has
the fairness of each module in the same guarded form.

| Configuration | What it checks |
|---|---|
| `MCPublication` | publication under lost leases, takeover, collection and a restore: its inductive invariant, catalog and prepared files stay readable, tombstones stay, outputs are not replaced, and the pipeline implements `LaneLog` |
| `MCPublicationProgress` | accepted batches are published, orphans are collected |
| `MCAcceptance` | acceptance in overlapping transactions: its inductive invariant, one receipt per request and one acceptance per event, true classes, no lock cycle, durable journals, no false acknowledgement, current authority |
| `MCComponents` | every safety property of the other modules |
| `MCProgress` | what the other modules promise to finish |
| `MCPublicationAfterRestore`, `MCProgressForcedDrain`, `MCAcceptanceMixed`, `MCProgressAfterRestore`, `MCComponentsRenewal`, `MCComponentsErased`, `MCComponentsLocks` | a sentence of the documentation that the code does not keep, see below |

`CHECK_DEADLOCK FALSE` is set because a finite instance ends once its work is
done. That nothing gets stuck before is what the liveness properties say.

Bounds. Fences, generations and revisions are bounded by constants large enough
for every takeover, restore and edit an instance allows. The number of faults of
a behaviour (crashes, lapses, lost answers, edits, restores) is fixed by its
scenario or case; a module's `Scenarios` combine those that act on the same rows, two or
three at a time, because all of them together are out of TLC's reach. Two
workers, workflows, lanes or users are what a race takes; three files, two levels
and fan-in two are what a query tree with a remainder takes; three limbs of base
three and an integer of five bits reach every carry, sign and overflow of the
aggregates. Where a property is proved it does not depend on the bounds.

Fairness. A worker goes on with its task and idle workers poll (their loops do
nothing else), unattended leases run out, processes of an old generation are
restarted, and faults are finite. In `Batcher` Go's `select` chooses at random
among ready cases, which is strong fairness for each case; workflows have a
deadline and the timer fires for every batch that stays pending, but a handler
that waits for a slot or for the loop need not get it. In `Catalog` a task that is
again and again claimable is claimed at last, since claims go by age. In `Alerts`
publication and queries make progress, which other modules show. In `Runtime`
goroutines are scheduled, bodies are read (the server has a read timeout) and the
drain timeout passes; nothing is assumed of a batch before that, and after it only
that the batcher's loop, once canceled, answers its entries or leaves them.
Requests, cancellations, drains and edits need never happen.

What the progress properties leave open is in their statements: an alert window
that failed or whose snapshot is no longer valid, or alerting that is paused, holds
up the windows after it; a request that a forced drain abandoned keeps its permits,
so that the budget of such a process never drains, although `Run` ends
(`ShutdownDrains`); two
readers of the block cache may evict each other's blocks for ever; a query may
meet its deadline; a restore stops retention (see 4).

## What the runs found

1. (`MCPublicationAfterRestore`) A job that is prepared, requeued by `ActivateRecovery`
   and prepared again can never be claimed for publication: the intents of the
   first output are still referenced under the old generation, and
   `ClaimPublicationJob` wants all of the job's referenced intents to be of the
   current one. The lane stands still, and `runOnePublication` ends its pass over
   the lanes at the error.
2. (`MCProgressForcedDrain`) A drain whose deadline passes leaves the handlers of
   running workflows waiting.
3. (`MCAcceptanceMixed`) A request with a current authority snapshot is rejected as
   stale if a stale request of the same project and key precedes it in the batch.
4. (`MCProgressAfterRestore`) A maintenance task that a restore fails blocks the
   same work for good: its `input_identity` stays taken, and the scheduler takes
   the refusal for a busy lane. Rows past their retention stay.
5. (`MCComponentsRenewal`) A renewal that is in flight when its snapshot expires
   can commit after retention cleanup has found no live snapshot: the snapshot is
   live again and shows rows whose occurrences and receipts were deleted. Its files
   are safe (see `InGrace`). `SnapshotsAreWhole` states the details for snapshots
   that were never revived in this way.
6. (`MCComponentsErased`) A window that retention reaches between promotion and
   count is counted without what was hidden.
7. (`MCComponentsLocks`) Two administrators who change users at once upgrade a
   shared lock of the tenant and wait for each other; PostgreSQL aborts one.

Two more are known from the models and have no run of their own. A query over the
byte budget of a level is run three times and fails as a failed worker, because
the worker loop does not count this error among the deterministic ones
(`Queries`). A request of a block that outlives the five seconds the query worker
waits for its gateway may pin a block after `ReleasePins`; nobody releases that
pin, and the block stays in the cache until the process ends. `PinsAreOwned`
exempts exactly these requests (tasks in state "late"), so it says nothing about
them; the accounting of the cache does include their pins.

## Proofs

Every theorem is of the form `Spec => []P` or `Spec => [][A]_vars`, for every
value of the constants that the named assumption allows.

**Publication** (`PublicationProofs`, `PublicationLogProofs`). Assumptions: the
bounds are natural numbers, file counts stay below `MaxParts`, and `NoWorker` is
not a worker; `Lanes` and `Workers` are arbitrary sets. The properties are not
inductive. That the catalog is readable needs that the collector never holds an
intent of the catalog or of a prepared output; that needs which intents belong to
which attempt, what a task knows about its job while its lease is live, and that
the fence of every task is at most its job's. `Inductive` collects this: the
shape of job rows, what a converter that is still authorized has already
uploaded, what publishers and collectors hold, and that uploaded and referenced
intents have their objects. `Init` implies it and, with one lemma per action,
each step keeps it. Type correctness and the safety invariants follow; the two
action properties take it and one more pass over the actions. The refinement
shows that `Accept` is an append, `Publish` a reveal and every other step a
stutter of the log; `ContiguousCut` and `ExactlyOneOutput`, which are theorems of
their own, are what the log's state means for the catalog.

**Acceptance** (`AcceptanceFrames`, `AcceptanceWorkflow`, `AcceptanceWrites`,
`AcceptanceProofs`). The four modules are one proof: what a step of one workflow
leaves alone, the steps up to the transaction, the transaction and its commit, and
the environment with the theorems. Assumption `AcceptanceAssumption`: requests
and events are finite sets, events are numbered, every request
has a lane, a project and a sequence of candidates, and the bounds are positive.
That a source event is accepted once is a fact about the log, the receipts and
the dedupe rows together, while transactions are open. `Inductive` says, for each
workflow, what its position implies about the transaction it has open
(`PhaseFits`), that its commands are distinct, admitted and of one lane
(`BatchFits`), that its journal holds exactly those commands and survives until
the commit (`JournalFits`), what the rows it has locked say (`LocksFit`) and which
keys it has claimed and won (`KeysFit`); no two transactions hold a lane or a key
together (`Exclusive`). For the tables it says that a receipt names the one batch
with its request (`ReceiptFits`), that the accepted occurrences of an event are at
most one per lifetime of its row (`CountFits`), and that the row has the hash of
one of them (`RowFits`). The commit is the step that needs all of it
(`WriteStep`, with the occurrences it adds in `OccurrencesWritten`). `UploadsFit`
bounds the journals of a workflow: a subset that is run again is smaller, so
`MaxUploadAttempts` per request suffice, which `TypeOK` needs. `NoLockCycle` is
the argument that a lane is taken before any key and keys in ascending order: of
the transactions in a cycle the one that waits for the largest key waits for
nobody (`LargestExists`; it is proved by a well-ordering argument, because there
is no induction over sets here). Two conjuncts were found by the proof and then
checked by TLC: that a key claimed and not won has a row, and that an idle
workflow has no uploads.

**Runtime** (`RuntimeProofs`). Assumption: the limit of the budget and the
amounts reserved are positive. `GateInv` says that the
token of the gate is in the slot or with one task, and that a process lives only
between the start and the reaping of its child (`GateHolds`). With it the budget
wakes whoever it could admit (`NoSleeperForgotten`), and every living process is
covered by the only permit and the slot (`ChildrenAreOwned`).

**Deliveries** (`DeliveriesProofs`). Assumption `DeliveriesAssumption`: finitely
many workers, natural bounds. That a destination sees a delivery no more often
than an operator allowed is about two counters which different steps of different
workers move: attempts are counted by the claim and begin anew with an operator's
retry, transmissions are made by a worker later, perhaps after it has lost its
lease and another one has claimed again. `Inductive` closes the gap: the claims so
far pay for the transmissions made and for each worker that may still transmit
(`ClaimsPay`). Beside it stand that a lease belongs to a delivery that is being
sent (`LeaseFits`), that there is at most one restore (`RestoresFit`), and that
success is recorded or about to be recorded only for a delivery that was answered
(`SuccessFits`). `SendsAreBounded` and `TypeOK` follow, and for the steps
`EndedStays`: a delivery that ended is left as it is, whatever a late worker
answers, until an operator retries it.

Only model-checked: liveness and fairness, which the prover does not handle;
`UsedIsHeld` and the other sums over sets (they need induction over data);
`QueryPlan` and with it `Queries`, whose plans are recursive operators; the exact
arithmetic of `Aggregates`; and the properties of the remaining modules, whose
invariants have no proof yet.

## Not modelled

The DuckDB engine beyond what its callers rely on, SQL text, journal and manifest
encodings, normalisation, filters and rendering are data transformations without
state of their own. Autoscaling and metrics only read. Configuration and
migrations run before anything is concurrent.

Left out of modelled parts: login throttling, SDK outcome rows, maintenance
pressure (it only delays), doubles, the maximum and group dimensions of
aggregates, the purge of occurrences and `alerts_paused` in `Issues`, backlog
metrics, and the wording of errors.
