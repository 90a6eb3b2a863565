------------------------------ MODULE Catalog ------------------------------
(***************************************************************************)
(* The generation catalog of one lane: publications add bundles, query     *)
(* snapshots pin a generation, compaction and retention tasks replace      *)
(* bundles, the retention floor hides rows, garbage collection deletes the *)
(* objects nothing needs any more, and a restore fences all of them.       *)
(*                                                                         *)
(* A batch has one received time, so a row is represented by its batch and *)
(* a bundle by the set of batches whose rows it holds.  The analytics and  *)
(* the payload file of a bundle are registered, pinned and retired         *)
(* together and count as one object.                                       *)
(*                                                                         *)
(* Every SQL transaction is one action, except that a renewal reads the    *)
(* clock and the snapshot in one step and commits in another: its locks    *)
(* keep out some of the other transactions, and not the cleanup.           *)
(* clock.now drives the received times and the retention floor.  The other *)
(* periods are flags that some action may turn at any time: a lease is     *)
(* live or not, a backup is still protected or not.                        *)
(***************************************************************************)
EXTENDS Naturals, FiniteSets, FiniteSetsExt

CONSTANTS
    Workers,        \* worker processes
    Snapshots,      \* slots that the cap on live snapshots leaves a user
    MaxSeq,         \* bound on lanes.published_seq
    MaxTime,        \* bound on the clock
    Days,           \* retention periods a policy may set
    SnapshotTTL,    \* expiry of a snapshot after creation and renewal
    SnapshotMaximumLifetime,
    MinInputs,      \* fewest bundles worth compacting
    MaxTasks,       \* bound on maintenance_tasks
    MaxFence,       \* bound on maintenance_tasks.fence
    GCLimit,        \* objects one collection claims at most
    MaxGeneration,  \* bound on installations.storage_generation
    Scenarios       \* tighter bounds: each behaviour stays within one of them

(* A behaviour publishes seqs batches, lets time periods pass, reserves    *)
(* tasks tasks and so on, at most; fleet are the processes that run.       *)
Budgets == [seqs : 0..MaxSeq, time : 0..MaxTime, tasks : 0..MaxTasks, policies : Nat,
            snapshots : Nat, sweeps : Nat, backups : Nat, rollbacks : Nat,
            generations : 1..MaxGeneration, faults : Nat, fleet : SUBSET Workers]

CatalogAssumption ==
    /\ MaxSeq \in Nat /\ MaxTime \in Nat /\ MaxTasks \in Nat /\ MaxFence \in Nat
    /\ MaxGeneration \in Nat \ {0} /\ GCLimit \in Nat \ {0}
    /\ Days \subseteq Nat \ {0} /\ Days # {}
    /\ SnapshotTTL \in Nat \ {0} /\ SnapshotMaximumLifetime \in Nat
    /\ SnapshotTTL <= SnapshotMaximumLifetime
    /\ MinInputs \in Nat /\ MinInputs >= 2
    /\ Scenarios \subseteq Budgets

Seqs == 1..MaxSeq
Times == 0..MaxTime
TaskIds == 1..MaxTasks
NoTask == 0
NoOwner == "no owner"

(* A bundle is written by a conversion, one per batch, or by an attempt of *)
(* a maintenance task.  Its object and its intent share its identity.      *)
Converted(q) == <<NoTask, q>>
BundleIds == {Converted(q) : q \in Seqs} \cup (TaskIds \X (1..MaxFence))

VARIABLES
    clock,          \* time and the retention columns of installations
    lane,           \* lanes.published_seq, catalog_generation, received times
    bundles,        \* bundles
    intents,        \* object_intents of the bundles
    objects,        \* object keys present in S3
    tasks,          \* maintenance_tasks and maintenance_inputs
    snapshots,      \* query_snapshots and snapshot_lanes
    details,        \* issue_occurrences, by batch
    journals,       \* batches with recovery_state = 'live'
    workers,        \* the task of each worker's native group
    recovery,       \* generation, recovery state and GC window
    backup,         \* the newest row of backup_sets and what it refers to
    budget          \* what is left of the scenario's bounds

vars == <<clock, lane, bundles, intents, objects, tasks, snapshots, details,
          journals, workers, recovery, backup, budget>>
store == <<bundles, intents, objects, tasks>>
reads == <<clock, snapshots, details, journals>>
restore == <<recovery, backup>>

NoBundle == [rows |-> {}, from |-> 0, to |-> 0, by |-> NoTask]
NoIntent == [state |-> "none", sweeper |-> NoOwner]
NoWork == [step |-> "idle", task |-> NoTask, fence |-> 0, claims |-> {}]
NewTask == [state |-> "none", kind |-> "none", inputs |-> {}, floor |-> 0,
            gen |-> 0, fence |-> 0, owner |-> NoOwner, live |-> FALSE, output |-> 0]
NoSnapshot == [state |-> "none", cut |-> 0, gen |-> 0, floor |-> 0,
               ttl |-> 0, left |-> 0, renewal |-> 0, revived |-> FALSE]

MaxCatalogGeneration == MaxSeq + MaxTasks

Clocks == [now : Times, floor : Times, days : Days, dedupe : Days, tick : Times]
Lanes == [published : 0..MaxSeq, gen : 0..MaxCatalogGeneration, received : [Seqs -> Times]]
Bundles == [rows : SUBSET Seqs, from : 0..MaxCatalogGeneration,
            to : 0..MaxCatalogGeneration, by : TaskIds \cup {NoTask}]
Intents == [state : {"none", "pending", "uploaded", "referenced", "deleting", "deleted"},
            sweeper : Workers \cup {NoOwner}]
Tasks == [state : {"none", "queued", "running", "prepared", "completed", "failed"},
          kind : {"none", "compact", "retain"}, inputs : SUBSET BundleIds,
          floor : Times, gen : 0..MaxGeneration, fence : 0..MaxFence,
          owner : Workers \cup {NoOwner}, live : BOOLEAN, output : 0..MaxFence]

(* What a base backup copies; the snapshots in it do not outlive a         *)
(* restore.                                                                *)
Images == [clock : Clocks, lane : Lanes, bundles : [BundleIds -> Bundles],
           intents : [BundleIds -> Intents], tasks : [TaskIds -> Tasks],
           details : SUBSET Seqs, journals : SUBSET Seqs]
Database == [clock |-> clock, lane |-> lane, bundles |-> bundles, intents |-> intents,
             tasks |-> tasks, details |-> details, journals |-> journals]

(* A snapshot's ttl and left are what is left until expires_at and         *)
(* max_until.  While a renewal is in flight, renewal is what is left until *)
(* the expires_at that it will write, and 0 otherwise.  revived records,   *)
(* for the properties, that a renewal committed after the expiry.          *)
TypeOK ==
    /\ clock \in Clocks
    /\ lane \in Lanes
    /\ bundles \in [BundleIds -> Bundles]
    /\ intents \in [BundleIds -> Intents]
    /\ objects \subseteq BundleIds
    /\ tasks \in [TaskIds -> Tasks]
    /\ snapshots \in [Snapshots ->
           [state : {"none", "active", "released"}, cut : 0..MaxSeq,
            gen : 0..MaxCatalogGeneration, floor : Times,
            ttl : 0..SnapshotTTL, left : 0..SnapshotMaximumLifetime,
            renewal : 0..SnapshotTTL, revived : BOOLEAN]]
    /\ details \subseteq Seqs
    /\ journals \subseteq Seqs
    /\ workers \in [Workers ->
           [step : {"idle", "load", "register", "put", "mark", "prepare", "swap",
                    "delete", "confirm"},
            task : TaskIds \cup {NoTask}, fence : 0..MaxFence, claims : SUBSET BundleIds]]
    /\ recovery \in [generation : 1..MaxGeneration, gcOpen : BOOLEAN,
                     state : {"ready", "restoring", "verification_required"},
                     report : BOOLEAN, inventory : SUBSET BundleIds]
    /\ backup \in [state : {"none", "pending", "verified", "failed"},
                   gen : 1..MaxGeneration, protected : BOOLEAN, checked : BOOLEAN,
                   image : Images]
    /\ budget \in Budgets

Init ==
    /\ clock = [now |-> 0, floor |-> 0, days |-> Min(Days), dedupe |-> Min(Days), tick |-> 0]
    /\ lane = [published |-> 0, gen |-> 0, received |-> [q \in Seqs |-> 0]]
    /\ bundles = [b \in BundleIds |-> NoBundle]
    /\ intents = [b \in BundleIds |-> NoIntent]
    /\ objects = {}
    /\ tasks = [t \in TaskIds |-> NewTask]
    /\ snapshots = [s \in Snapshots |-> NoSnapshot]
    /\ details = {}
    /\ journals = {}
    /\ workers = [w \in Workers |-> NoWork]
    /\ \E open \in BOOLEAN :
           recovery = [generation |-> 1, gcOpen |-> open, state |-> "ready",
                       report |-> FALSE, inventory |-> {}]
    /\ backup = [state |-> "none", gen |-> 1, protected |-> FALSE, checked |-> FALSE,
                 image |-> Database]
    /\ budget \in Scenarios

Spend(what) ==
    /\ budget[what] > 0
    /\ budget' = [budget EXCEPT ![what] = @ - 1]

-----------------------------------------------------------------------------
(* Catalog and snapshots *)

Current(b) == bundles[b].from > 0 /\ bundles[b].to = 0

ValidAt(b, g) ==
    /\ bundles[b].from > 0 /\ bundles[b].from <= g
    /\ bundles[b].to = 0 \/ g < bundles[b].to

MaxReceived(b) == Max({lane.received[q] : q \in bundles[b].rows})
MinReceived(b) == Min({lane.received[q] : q \in bundles[b].rows})

Live(s) == snapshots[s].state = "active" /\ snapshots[s].ttl > 0

(* The bundles the pages of a snapshot list, taken together. *)
CatalogPage(s) ==
    {b \in BundleIds : /\ ValidAt(b, snapshots[s].gen)
                       /\ intents[b].state = "referenced"
                       /\ Max(bundles[b].rows) <= snapshots[s].cut
                       /\ MaxReceived(b) >= snapshots[s].floor}

RowsSince(b, floor) == {q \in bundles[b].rows : lane.received[q] >= floor}

(* The rows a query over the snapshot reads. *)
Visible(s) == UNION {RowsSince(b, snapshots[s].floor) : b \in CatalogPage(s)}

(* A renewal in flight shares the rows of the installation and the tenant, *)
(* which the transactions that update one of them wait for, and owns the   *)
(* row of its snapshot.                                                    *)
Renewing == \E s \in Snapshots : snapshots[s].renewal > 0

(* A snapshot pins the lane's cut and generation and the persisted floor.  *)
(* It needs a retention tick that is not too old.                          *)
CreateSnapshot(s) ==
    /\ recovery.state = "ready" /\ ~Renewing
    /\ clock.tick = clock.now
    /\ ~Live(s)
    /\ Spend("snapshots")
    /\ snapshots' = [snapshots EXCEPT ![s] =
           [NoSnapshot EXCEPT !.state = "active", !.cut = lane.published, !.gen = lane.gen,
                              !.floor = clock.floor, !.ttl = SnapshotTTL,
                              !.left = SnapshotMaximumLifetime]]
    /\ UNCHANGED <<clock, lane, store, details, journals, workers, restore>>

(* Mutant: renewal adds to the time that is left. *)
RenewFromExpiry(s) ==
    /\ recovery.state = "ready"
    /\ Live(s) /\ snapshots[s].renewal = 0
    /\ snapshots' = [snapshots EXCEPT ![s].renewal =
           Min({snapshots[s].ttl + SnapshotTTL, snapshots[s].left})]
    /\ UNCHANGED <<clock, lane, store, details, journals, workers, restore, budget>>

(* The transaction reads the time, locks the row, finds it unexpired at    *)
(* that time and updates expires_at.                                       *)
BeginRenewal(s) ==
    /\ recovery.state = "ready"
    /\ Live(s) /\ snapshots[s].renewal = 0
    /\ snapshots' = [snapshots EXCEPT ![s].renewal = Min({SnapshotTTL, snapshots[s].left})]
    /\ UNCHANGED <<clock, lane, store, details, journals, workers, restore, budget>>

(* It commits, however much time has passed since, or rolls back. *)
EndRenewal(s) ==
    /\ snapshots[s].renewal > 0
    /\ \/ snapshots' = [snapshots EXCEPT ![s] =
              [@ EXCEPT !.ttl = snapshots[s].renewal, !.renewal = 0,
                        !.revived = @ \/ ~Live(s)]]
       \/ snapshots' = [snapshots EXCEPT ![s].renewal = 0]
    /\ UNCHANGED <<clock, lane, store, details, journals, workers, restore, budget>>

ReleaseSnapshot(s) ==
    /\ recovery.state = "ready"
    /\ snapshots[s].state = "active" /\ snapshots[s].renewal = 0
    /\ snapshots' = [snapshots EXCEPT ![s] = [@ EXCEPT !.state = "released", !.ttl = 0]]
    /\ UNCHANGED <<clock, lane, store, details, journals, workers, restore, budget>>

Elapsed(period) == IF period = 0 THEN 0 ELSE period - 1

SnapshotTimePasses(s) ==
    /\ Live(s) \/ snapshots[s].renewal > 0
    /\ snapshots' = [snapshots EXCEPT ![s] =
           [@ EXCEPT !.ttl = Elapsed(@), !.left = Elapsed(@), !.renewal = Elapsed(@)]]
    /\ UNCHANGED <<clock, lane, store, details, journals, workers, restore, budget>>

-----------------------------------------------------------------------------
(* Publication, the subject of module Publication: the next batch of the   *)
(* lane enters the catalog whole, under a new generation.  Its received    *)
(* time was fixed when it was accepted and may lie below the floor by now. *)

LastReceived == IF lane.published = 0 THEN 0 ELSE lane.received[lane.published]

Publish(r) ==
    LET q == lane.published + 1
        b == Converted(q)
    IN  /\ q <= budget.seqs
        /\ LastReceived <= r /\ r <= clock.now
        /\ lane' = [published |-> q, gen |-> lane.gen + 1,
                    received |-> [lane.received EXCEPT ![q] = r]]
        /\ bundles' = [bundles EXCEPT ![b] =
               [rows |-> {q}, from |-> lane.gen + 1, to |-> 0, by |-> NoTask]]
        /\ intents' = [intents EXCEPT ![b].state = "referenced"]
        /\ objects' = objects \cup {b}
        /\ details' = details \cup {q}
        /\ journals' = journals \cup {q}
        /\ UNCHANGED <<clock, tasks, snapshots, workers, restore, budget>>

-----------------------------------------------------------------------------
(* Retention floor *)

Cutoff(days) == IF clock.now > days THEN clock.now - days ELSE 0

Tick ==
    /\ clock.now < budget.time
    /\ clock' = [clock EXCEPT !.now = @ + 1]
    /\ UNCHANGED <<lane, store, snapshots, details, journals, workers, restore, budget>>

AdvanceRetentionFloor ==
    /\ recovery.state = "ready" /\ ~Renewing
    /\ clock.tick # clock.now
    /\ clock' = [clock EXCEPT !.floor = Max({@, Cutoff(clock.days)}), !.tick = clock.now]
    /\ UNCHANGED <<lane, store, snapshots, details, journals, workers, restore, budget>>

RetentionFloorAfterChange(days) ==
    Max({clock.floor, Cutoff(clock.days), Cutoff(days)})

ChangeRetentionPolicy(days) ==
    /\ days # clock.days /\ ~Renewing
    /\ Spend("policies")
    /\ clock' = [clock EXCEPT !.floor = RetentionFloorAfterChange(days), !.days = days,
                              !.dedupe = Max({@, days}), !.tick = clock.now]
    /\ UNCHANGED <<lane, store, snapshots, details, journals, workers, restore>>

BackupHeld == backup.state = "verified" /\ backup.protected

(* Occurrence rows below the floor that no live snapshot may still show. *)
DetailExpired(q) ==
    /\ lane.received[q] < clock.floor
    /\ \A s \in Snapshots : Live(s) => lane.received[q] < snapshots[s].floor

(* A published batch whose receipts, dedupe rows and occurrences are gone  *)
(* gives up its journal.                                                   *)
Retirable(q) ==
    /\ q \in journals
    /\ lane.received[q] + clock.dedupe < clock.now
    /\ ~BackupHeld

RunRetentionCleanup ==
    LET kept == {q \in details : ~DetailExpired(q)}
        ripe == {q \in journals \ kept : Retirable(q)}
        retired == IF ripe = {} THEN {} ELSE {Min(ripe)}
    IN  /\ kept # details \/ ripe # {}
        /\ details' = kept
        /\ journals' = journals \ retired
        /\ UNCHANGED <<clock, lane, store, snapshots, workers, restore, budget>>

-----------------------------------------------------------------------------
(* Compaction and retention tasks *)

Active(t) == tasks[t].state \in {"queued", "running", "prepared"}

(* UNIQUE(tenant_id, kind, input_identity), over the tasks of all time,    *)
(* and one active task of a lane.                                          *)
Reservable(kind, inputs) ==
    /\ \A t \in TaskIds : ~Active(t)
    /\ \A t \in TaskIds : ~(tasks[t].kind = kind /\ tasks[t].inputs = inputs)

Reserve(kind, inputs) ==
    \E t \in TaskIds :
        /\ t <= budget.tasks
        /\ tasks[t].state = "none"
        /\ \A u \in 1..(t - 1) : tasks[u].state # "none"
        /\ tasks' = [tasks EXCEPT ![t] =
               [NewTask EXCEPT !.state = "queued", !.kind = kind, !.inputs = inputs,
                               !.floor = IF kind = "retain" THEN clock.floor ELSE 0,
                               !.gen = recovery.generation]]
        /\ bundles' = [b \in BundleIds |->
               IF b \in inputs THEN [bundles[b] EXCEPT !.by = t] ELSE bundles[b]]

FreeBundles == {b \in BundleIds : Current(b) /\ bundles[b].by = NoTask}

(* Fully expired bundles first, then the one with the oldest row. *)
RetainBefore(b, c) ==
    LET whole(x) == MaxReceived(x) < clock.floor
    IN  \/ whole(b) /\ ~whole(c)
        \/ whole(b) = whole(c) /\ MinReceived(b) <= MinReceived(c)

RetentionCandidates ==
    LET due == {b \in FreeBundles : MinReceived(b) < clock.floor}
    IN  {b \in due : \A c \in due : RetainBefore(b, c)}

(* The scheduler asks for retention work first.  A reservation that is     *)
(* refused as busy ends its pass.                                          *)
ReserveRetention(b) ==
    /\ Reservable("retain", {b})
    /\ b \in RetentionCandidates
    /\ Reserve("retain", {b})
    /\ UNCHANGED <<lane, intents, objects, reads, workers, restore, budget>>

ReserveCompaction(inputs) ==
    /\ Cardinality(inputs) >= MinInputs
    /\ Reservable("compact", inputs)
    /\ inputs \subseteq FreeBundles
    /\ RetentionCandidates = {}
    /\ Reserve("compact", inputs)
    /\ UNCHANGED <<lane, intents, objects, reads, workers, restore, budget>>

(* lockRunningMaintenance *)
Holds(w) ==
    LET t == workers[w].task
    IN  /\ tasks[t].state = "running"
        /\ tasks[t].live
        /\ tasks[t].owner = w
        /\ tasks[t].fence = workers[w].fence

(* lockRuntimeGeneration with the generation the task was claimed under. *)
CurrentGeneration(t) == tasks[t].gen = recovery.generation

Claimable(t) ==
    \/ tasks[t].state \in {"queued", "prepared"}
    \/ tasks[t].state = "running" /\ ~tasks[t].live

(* Only a task that waits in state prepared goes straight to its swap; one *)
(* taken over from a lost lease is written again.                          *)
Claim(w, t) ==
    /\ w \in budget.fleet /\ workers[w] = NoWork
    /\ Claimable(t)
    /\ CurrentGeneration(t)
    /\ tasks[t].fence < MaxFence
    /\ tasks' = [tasks EXCEPT ![t] = [@ EXCEPT !.state = "running", !.owner = w,
                                               !.fence = @ + 1, !.live = TRUE]]
    /\ workers' = [workers EXCEPT ![w] =
           [step |-> IF tasks[t].state = "prepared" THEN "swap" ELSE "load",
            task |-> t, fence |-> tasks[t].fence + 1, claims |-> {}]]
    /\ UNCHANGED <<lane, bundles, intents, objects, reads, restore, budget>>

ClaimCompaction(w, t) == tasks[t].kind = "compact" /\ Claim(w, t)
ClaimRetention(w, t) == tasks[t].kind = "retain" /\ Claim(w, t)

FullyExpired(t) ==
    tasks[t].kind = "retain" /\ \A b \in tasks[t].inputs : MaxReceived(b) < tasks[t].floor

(* The rows an attempt writes: all of its inputs', or those not expired.   *)
OutputRows(t) == UNION {RowsSince(b, tasks[t].floor) : b \in tasks[t].inputs}

Output(w) == <<workers[w].task, workers[w].fence>>

(* Read the reserved pairs and download them; all must be there. *)
LoadWork(w) ==
    LET t == workers[w].task
    IN  /\ workers[w].step = "load"
        /\ Holds(w)
        /\ \A b \in tasks[t].inputs : intents[b].state = "referenced" /\ b \in objects
        /\ workers' = [workers EXCEPT ![w].step =
               IF FullyExpired(t) THEN "swap" ELSE "register"]
        /\ UNCHANGED <<lane, store, reads, restore, budget>>

RegisterMaintenanceIntent(w) ==
    /\ workers[w].step = "register"
    /\ Holds(w) /\ CurrentGeneration(workers[w].task)
    /\ intents' = [intents EXCEPT ![Output(w)] = [NoIntent EXCEPT !.state = "pending"]]
    /\ workers' = [workers EXCEPT ![w].step = "put"]
    /\ UNCHANGED <<lane, bundles, objects, tasks, reads, restore, budget>>

PutObject(w) ==
    /\ workers[w].step = "put"
    /\ objects' = objects \cup {Output(w)}
    /\ workers' = [workers EXCEPT ![w].step = "mark"]
    /\ UNCHANGED <<lane, bundles, intents, tasks, reads, restore, budget>>

MarkMaintenanceIntentUploaded(w) ==
    /\ workers[w].step = "mark"
    /\ Holds(w)
    /\ intents[Output(w)].state = "pending"
    /\ intents' = [intents EXCEPT ![Output(w)].state = "uploaded"]
    /\ workers' = [workers EXCEPT ![w].step = "prepare"]
    /\ UNCHANGED <<lane, bundles, objects, tasks, reads, restore, budget>>

(* A new output replaces that of an earlier attempt, and the task waits    *)
(* for a claim that swaps it in.                                           *)
Prepare(w) ==
    LET t == workers[w].task
    IN  /\ workers[w].step = "prepare"
        /\ Holds(w) /\ CurrentGeneration(t)
        /\ intents[Output(w)].state = "uploaded"
        /\ intents' = [intents EXCEPT ![Output(w)].state = "referenced"]
        /\ tasks' = [tasks EXCEPT ![t] = [@ EXCEPT !.state = "prepared", !.owner = NoOwner,
                                          !.live = FALSE, !.output = workers[w].fence]]
        /\ workers' = [workers EXCEPT ![w] = NoWork]
        /\ UNCHANGED <<lane, bundles, objects, reads, restore, budget>>

PrepareCompaction(w) == tasks[workers[w].task].kind = "compact" /\ Prepare(w)
PrepareRetention(w) == tasks[workers[w].task].kind = "retain" /\ Prepare(w)

HasOutput(t) == tasks[t].output # 0 /\ intents[<<t, tasks[t].output>>].state = "referenced"

(* Close the reserved inputs and open the replacement, if there is one,    *)
(* under one new generation.                                               *)
Swap(w) ==
    LET t == workers[w].task
        out == <<t, tasks[t].output>>
        gen == lane.gen + 1
    IN  /\ workers[w].step = "swap"
        /\ Holds(w) /\ CurrentGeneration(t)
        /\ \A b \in tasks[t].inputs : Current(b) /\ bundles[b].by = t
        /\ lane' = [lane EXCEPT !.gen = gen]
        /\ bundles' = [b \in BundleIds |->
               IF b \in tasks[t].inputs THEN [bundles[b] EXCEPT !.to = gen, !.by = NoTask]
               ELSE IF b = out
                    THEN [rows |-> OutputRows(t), from |-> gen, to |-> 0, by |-> NoTask]
                    ELSE bundles[b]]
        /\ tasks' = [tasks EXCEPT ![t] = [@ EXCEPT !.state = "completed", !.owner = NoOwner,
                                                   !.live = FALSE]]
        /\ workers' = [workers EXCEPT ![w] = NoWork]
        /\ UNCHANGED <<intents, objects, reads, restore, budget>>

SwapCompaction(w) ==
    LET t == workers[w].task
    IN  tasks[t].kind = "compact" /\ HasOutput(t) /\ Swap(w)

(* Inputs without a row to keep have no replacement. *)
SwapRetention(w) ==
    LET t == workers[w].task
    IN  /\ tasks[t].kind = "retain"
        /\ IF FullyExpired(t) THEN tasks[t].output = 0 ELSE HasOutput(t)
        /\ Swap(w)

TaskSteps == {"load", "register", "put", "mark", "prepare", "swap"}

(* FailCompaction as the workers call it, with a retry. *)
FailCompaction(t) ==
    tasks' = [tasks EXCEPT ![t] =
        [@ EXCEPT !.state = IF tasks[t].output = 0 THEN "queued" ELSE "prepared",
                  !.owner = NoOwner, !.live = FALSE]]

(* A step of a task fails.  A worker that still has the task gives it      *)
(* back; one that lost it can only stop.                                   *)
TaskFails(w) ==
    /\ workers[w].step \in TaskSteps
    /\ IF Holds(w)
       THEN Spend("faults") /\ FailCompaction(workers[w].task)
       ELSE UNCHANGED <<budget, tasks>>
    /\ workers' = [workers EXCEPT ![w] = NoWork]
    /\ UNCHANGED <<lane, bundles, intents, objects, reads, restore>>

Crash(w) ==
    /\ workers[w] # NoWork
    /\ Spend("faults")
    /\ workers' = [workers EXCEPT ![w] = NoWork]
    /\ UNCHANGED <<lane, store, reads, restore>>

Attended(t) == \E w \in Workers : workers[w].task = t /\ Holds(w)

(* HeartbeatCompaction keeps the lease of an attended task. *)
LeaseExpires(t) ==
    /\ tasks[t].state = "running" /\ tasks[t].live
    /\ IF Attended(t) THEN Spend("faults") ELSE UNCHANGED budget
    /\ tasks' = [tasks EXCEPT ![t].live = FALSE]
    /\ UNCHANGED <<lane, bundles, intents, objects, reads, workers, restore>>

-----------------------------------------------------------------------------
(* Garbage collection *)

(* Mutant: snapshots do not pin. *)
PinnedByCurrent(b) == Current(b)

PinnedByCatalog(b) ==
    Current(b) \/ \E s \in Snapshots : Live(s) /\ ValidAt(b, snapshots[s].gen)

PinnedByTask(b) ==
    /\ b[1] \in TaskIds
    /\ \/ tasks[b[1]].state = "prepared"
       \/ /\ tasks[b[1]].state = "running"
          /\ intents[b].state = "referenced" \/ tasks[b[1]].fence = b[2]

(* Not older than ObjectRetirementGrace.  An object that a snapshot lists  *)
(* was retired after the snapshot was created, within the hour of its      *)
(* SnapshotMaximumLifetime if a renewal is in flight; the grace is eight   *)
(* days.  Of other objects nothing is assumed: their grace may have passed *)
(* at any time.                                                            *)
InGrace(b) == \E s \in Snapshots : snapshots[s].renewal > 0 /\ ValidAt(b, snapshots[s].gen)

(* gcEligibleSQL.  The retirement or expiry may lie before gc_safe_before  *)
(* at any time, and the hour of a tombstone may have passed at any time.   *)
Eligible(b) ==
    \/ intents[b].state \in {"deleting", "deleted"}
    \/ /\ intents[b].state \in {"pending", "uploaded", "referenced"}
       /\ ~InGrace(b)
       /\ ~PinnedByCatalog(b)
       /\ ~PinnedByTask(b)
       /\ ~BackupHeld

ClaimRank(b) ==
    CASE intents[b].state = "deleting" -> 0
      [] intents[b].state = "deleted" -> 1
      [] OTHER -> 2

(* The claim takes the first GCLimit objects in rank order. *)
ClaimSets ==
    LET all == {b \in BundleIds : Eligible(b)}
    IN  {c \in SUBSET all :
            /\ Cardinality(c) = Min({GCLimit, Cardinality(all)})
            /\ \A b \in c, d \in all \ c : ClaimRank(b) <= ClaimRank(d)}

ClaimGCObjects(w) ==
    /\ w \in budget.fleet /\ workers[w] = NoWork
    /\ recovery.gcOpen
    /\ Spend("sweeps")
    /\ \E c \in ClaimSets \ {{}} :
        /\ intents' = [b \in BundleIds |->
               IF b \in c THEN [intents[b] EXCEPT !.state = "deleting", !.sweeper = w]
                          ELSE intents[b]]
        /\ workers' = [workers EXCEPT ![w] = [NoWork EXCEPT !.step = "delete", !.claims = c]]
    /\ UNCHANGED <<lane, bundles, objects, tasks, reads, restore>>

DeleteObjects(w) ==
    /\ workers[w].step = "delete"
    /\ objects' = objects \ workers[w].claims
    /\ workers' = [workers EXCEPT ![w].step = "confirm"]
    /\ UNCHANGED <<lane, bundles, intents, tasks, reads, restore, budget>>

(* All objects of the claim are confirmed, or none: an object another      *)
(* collection has claimed since fails the whole transaction.               *)
ConfirmGCObjects(w) ==
    LET c == workers[w].claims
    IN  /\ workers[w].step = "confirm"
        /\ intents' = [b \in BundleIds |->
               IF b \in c /\ \A d \in c : intents[d].state = "deleting" /\ intents[d].sweeper = w
               THEN [intents[b] EXCEPT !.state = "deleted", !.sweeper = NoOwner]
               ELSE intents[b]]
        /\ workers' = [workers EXCEPT ![w] = NoWork]
        /\ UNCHANGED <<lane, bundles, objects, tasks, reads, restore, budget>>

-----------------------------------------------------------------------------
(* Backups and restore *)

(* The intents a database holds as uploaded or referenced: what a restore  *)
(* of it reads back.                                                       *)
Listed(in) == {b \in BundleIds : in[b].state \in {"uploaded", "referenced"}}
Inventory == Listed(intents)

(* A backup is registered, and the base backup is taken. *)
RegisterBackup ==
    /\ backup.state \in {"none", "failed"} \/ ~backup.protected
    /\ Spend("backups")
    /\ backup' = [state |-> "pending", gen |-> recovery.generation, protected |-> TRUE,
                  checked |-> FALSE, image |-> Database]
    /\ UNCHANGED <<lane, store, reads, workers, recovery>>

Restorable == backup.state \in {"pending", "verified"} /\ backup.gen = recovery.generation

(* Verify in isolation: a clone restored from the backup finds every       *)
(* object, and a signed report leaves the clone.                           *)
RehearsalPasses ==
    /\ Restorable /\ ~backup.checked
    /\ Listed(backup.image.intents) \subseteq objects
    /\ backup' = [backup EXCEPT !.checked = TRUE]
    /\ UNCHANGED <<lane, store, reads, workers, recovery, budget>>

(* The live database imports the report and opens the GC window. *)
RecordBackupRehearsal ==
    /\ Restorable /\ backup.checked
    /\ recovery.state = "ready" /\ ~Renewing
    /\ backup' = [backup EXCEPT !.state = "verified", !.checked = FALSE]
    /\ recovery' = [recovery EXCEPT !.gcOpen = TRUE]
    /\ UNCHANGED <<lane, store, reads, workers, budget>>

ProtectionEnds ==
    /\ backup.protected
    /\ backup' = [backup EXCEPT !.protected = FALSE]
    /\ UNCHANGED <<lane, store, reads, workers, recovery, budget>>

GCWindowEnds ==
    /\ recovery.gcOpen
    /\ recovery' = [recovery EXCEPT !.gcOpen = FALSE]
    /\ UNCHANGED <<lane, store, reads, workers, backup, budget>>

(* Verify a database restored up to the end of its log: it is as it was. *)
BeginRecoveryVerification ==
    /\ Restorable /\ ~Renewing
    /\ recovery.generation < budget.generations
    /\ recovery.state # "restoring"
    /\ recovery' = [recovery EXCEPT !.state = "restoring", !.gcOpen = FALSE,
                                    !.inventory = Inventory]
    /\ snapshots' = [s \in Snapshots |->
           IF snapshots[s].state = "active" THEN [snapshots[s] EXCEPT !.state = "released"]
                                            ELSE snapshots[s]]
    /\ UNCHANGED <<clock, lane, store, details, journals, workers, backup, budget>>

(* Verify a database restored to the backup: the runbook stops every       *)
(* process, the database goes back to the image, in which the backup is    *)
(* pending, and the bucket does not.                                       *)
RestoreBackup ==
    /\ backup.state # "none" /\ backup.gen = recovery.generation
    /\ recovery.generation < budget.generations
    /\ Spend("rollbacks")
    /\ LET image == backup.image
       IN /\ clock' = [image.clock EXCEPT !.now = clock.now]
          /\ lane' = image.lane /\ bundles' = image.bundles /\ intents' = image.intents
          /\ tasks' = image.tasks /\ details' = image.details /\ journals' = image.journals
          /\ recovery' = [recovery EXCEPT !.state = "restoring", !.gcOpen = FALSE,
                                          !.report = FALSE, !.inventory = Listed(image.intents)]
    /\ backup' = [backup EXCEPT !.state = "pending", !.checked = FALSE]
    /\ snapshots' = [s \in Snapshots |-> [NoSnapshot EXCEPT !.state = "released"]]
    /\ workers' = [w \in Workers |-> NoWork]
    /\ UNCHANGED objects

(* Mutant: the report does not depend on the objects that were found. *)
RecordUnread ==
    /\ recovery.state = "restoring"
    /\ Restorable
    /\ backup' = [backup EXCEPT !.state = "verified"]
    /\ recovery' = [recovery EXCEPT !.state = "verification_required", !.report = TRUE,
                                    !.inventory = {}]
    /\ UNCHANGED <<lane, store, reads, workers, budget>>

RecordRecoveryVerification ==
    /\ recovery.state = "restoring"
    /\ Restorable
    /\ recovery.inventory \subseteq objects
    /\ backup' = [backup EXCEPT !.state = "verified"]
    /\ recovery' = [recovery EXCEPT !.state = "verification_required", !.report = TRUE,
                                    !.inventory = {}]
    /\ UNCHANGED <<lane, store, reads, workers, budget>>

(* An object is missing, or reading one fails. *)
FailRecoveryVerification ==
    /\ recovery.state = "restoring"
    /\ \/ ~(recovery.inventory \subseteq objects) /\ UNCHANGED budget
       \/ Spend("faults")
    /\ backup' = [backup EXCEPT !.state = IF Restorable THEN "failed" ELSE @]
    /\ recovery' = [recovery EXCEPT !.state = "verification_required", !.gcOpen = FALSE,
                                    !.inventory = {}]
    /\ UNCHANGED <<lane, store, reads, workers>>

ReleaseReservations ==
    bundles' = [b \in BundleIds |->
        IF bundles[b].by # NoTask /\ Active(bundles[b].by)
        THEN [bundles[b] EXCEPT !.by = NoTask] ELSE bundles[b]]

ActivateRecovery ==
    /\ recovery.state = "verification_required" /\ recovery.report
    /\ recovery.generation < budget.generations
    /\ recovery' = [recovery EXCEPT !.generation = @ + 1, !.state = "ready",
                                    !.report = FALSE, !.gcOpen = TRUE]
    /\ ReleaseReservations
    /\ tasks' = [t \in TaskIds |->
           IF Active(t) THEN [tasks[t] EXCEPT !.state = "failed", !.owner = NoOwner,
                                              !.live = FALSE, !.output = 0]
                        ELSE tasks[t]]
    /\ UNCHANGED <<lane, intents, objects, reads, workers, backup, budget>>

-----------------------------------------------------------------------------
SnapshotNext ==
    \E s \in Snapshots : \/ CreateSnapshot(s) \/ BeginRenewal(s) \/ EndRenewal(s)
                         \/ ReleaseSnapshot(s) \/ SnapshotTimePasses(s)

RetentionNext ==
    \/ Tick
    \/ AdvanceRetentionFloor
    \/ \E d \in Days : ChangeRetentionPolicy(d)
    \/ RunRetentionCleanup

SchedulerStep ==
    \/ \E b \in FreeBundles : ReserveRetention(b)
    \/ \E inputs \in SUBSET FreeBundles : ReserveCompaction(inputs)

(* Steps a worker takes as long as its process runs. *)
WorkerStep(w) ==
    \/ LoadWork(w) \/ RegisterMaintenanceIntent(w) \/ PutObject(w)
    \/ MarkMaintenanceIntentUploaded(w)
    \/ workers[w].step = "prepare" /\ (PrepareCompaction(w) \/ PrepareRetention(w))
    \/ workers[w].step = "swap" /\ (SwapCompaction(w) \/ SwapRetention(w))
    \/ DeleteObjects(w) \/ ConfirmGCObjects(w)

LostTaskFails(w) == workers[w].step \in TaskSteps /\ ~Holds(w) /\ TaskFails(w)

MaintenanceNext ==
    \/ SchedulerStep
    \/ \E w \in Workers : \/ \E t \in TaskIds : ClaimCompaction(w, t) \/ ClaimRetention(w, t)
                          \/ WorkerStep(w) \/ ClaimGCObjects(w)
                          \/ TaskFails(w) \/ Crash(w)
    \/ \E t \in TaskIds : LeaseExpires(t)

RecoveryNext ==
    \/ RegisterBackup \/ RehearsalPasses \/ RecordBackupRehearsal
    \/ ProtectionEnds \/ GCWindowEnds
    \/ BeginRecoveryVerification \/ RestoreBackup \/ RecordRecoveryVerification
    \/ FailRecoveryVerification \/ ActivateRecovery

Next ==
    \/ \E r \in Times : Publish(r)
    \/ SnapshotNext \/ RetentionNext \/ MaintenanceNext \/ RecoveryNext

Spec == Init /\ [][Next]_vars

(* The scheduler and every running worker go on; a lease nobody renews     *)
(* runs out; each pass of a worker's loop asks for a maintenance task, so  *)
(* a task that waits is claimed in spite of other work.                    *)
Fairness ==
    /\ WF_vars(AdvanceRetentionFloor)
    /\ WF_vars(SchedulerStep)
    /\ \A w \in Workers : WF_vars(WorkerStep(w) \/ LostTaskFails(w))
    /\ WF_vars(\E t \in TaskIds : ~Attended(t) /\ LeaseExpires(t))
    /\ \A t \in TaskIds : SF_vars(\E w \in Workers : Claim(w, t))

FairSpec == Spec /\ Fairness

-----------------------------------------------------------------------------
(* Properties *)

(* A live snapshot reads every row that was published up to its cut and    *)
(* not below its floor, exactly once and from objects that exist, whatever *)
(* compaction, retention and garbage collection have done since it was     *)
(* created (catalogPageRows, SwapCompaction, SwapRetention, gcEligibleSQL).*)
SnapshotsReadable ==
    \A s \in Snapshots : Live(s) =>
        /\ Visible(s) = {q \in 1..snapshots[s].cut : lane.received[q] >= snapshots[s].floor}
        /\ CatalogPage(s) \subseteq objects
        /\ \A b, c \in CatalogPage(s) : b # c => bundles[b].rows \cap bundles[c].rows = {}

(* Rows a snapshot created now would show. *)
VisibleNow ==
    UNION {RowsSince(b, clock.floor) : b \in {c \in BundleIds : Current(c)}}

(* A row that some snapshot hid as expired is in no later snapshot, even   *)
(* when the retention period was widened in between (C07, the floor of     *)
(* RetentionFloorAfterChange and AdvanceRetentionFloor never falls).       *)
ExpiredRowsStayHidden ==
    \A s \in Snapshots : snapshots[s].state = "active" =>
        VisibleNow \cap (1..snapshots[s].cut) \subseteq
            {q \in 1..snapshots[s].cut : lane.received[q] >= snapshots[s].floor}

Whole(s) == Visible(s) \subseteq details \cap journals

(* RunRetentionCleanup never deletes the occurrence rows or the receipts   *)
(* of a batch whose rows a live snapshot shows, as long as no renewal of   *)
(* the snapshot has committed after it had expired.                        *)
DetailsSurviveSnapshots ==
    \A s \in Snapshots : Live(s) /\ ~snapshots[s].revived => Whole(s)

(* The same of every live snapshot, whenever its renewals committed.  It   *)
(* does not hold: the cleanup reads query_snapshots without a lock, finds  *)
(* the snapshot expired while its renewal is in flight and deletes rows    *)
(* that the snapshot shows again once the renewal commits.                 *)
OccurrencesOutliveSnapshots == \A s \in Snapshots : Live(s) => Whole(s)

(* bundles.reserved_by and the active tasks agree: an active task has      *)
(* reserved all of its inputs, which are current, and nothing else is      *)
(* reserved, so a failed or fenced task never blocks its inputs.           *)
ReservationsAreHeld ==
    /\ \A t \in TaskIds : Active(t) =>
           \A b \in tasks[t].inputs : Current(b) /\ bundles[b].by = t
    /\ \A b \in BundleIds : bundles[b].by # NoTask =>
           Active(bundles[b].by) /\ b \in tasks[bundles[b].by].inputs

(* Every object the database counts on exists, so that the verification of *)
(* a restored database finds the whole inventory.  A database that was put *)
(* back to a backup may count on objects collected since; it is then never *)
(* verified, and no process runs on it (RecordRecoveryVerification,        *)
(* ActivateRecovery).                                                      *)
InventoryIsStored ==
    recovery.state = "ready" \/ recovery.report => Inventory \subseteq objects

Expired(q) == q <= lane.published /\ lane.received[q] < clock.floor
Gone(q) == \A b \in BundleIds : Current(b) => q \notin bundles[b].rows

(* Rows below the retention floor leave the current catalog: the scheduler *)
(* reserves their bundles and the task survives crashes and lost leases.   *)
ExpiredRowsArePurged == \A q \in Seqs : Expired(q) ~> Gone(q)

GoneOrRestored(q) == Gone(q) \/ recovery.generation > 1 \/ recovery.state # "ready"

(* The same as long as no restore begins. *)
PurgedUnlessRestored == \A q \in Seqs : Expired(q) ~> GoneOrRestored(q)

=============================================================================
