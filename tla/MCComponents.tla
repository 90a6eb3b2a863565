--------------------------- MODULE MCComponents ---------------------------
(***************************************************************************)
(* TLC instances of the components around the write path: budgets and      *)
(* children with the constants of the cfg, and the others with constants   *)
(* given here.  A behaviour is a behaviour of one instance, its machine.   *)
(* The instances share the variables v1 to v13; what a machine does not    *)
(* use is 0, and the variables of Runtime stay as they start.              *)
(***************************************************************************)
EXTENDS Runtime, Sequences, TLC

CONSTANT Machines       \* the instances of a run

VARIABLES machine, v1, v2, v3, v4, v5, v6, v7, v8, v9, v10, v11, v12, v13

all == <<machine, vars, v1, v2, v3, v4, v5, v6, v7, v8, v9, v10, v11, v12, v13>>

-----------------------------------------------------------------------------

(* Threshold alerting: each scenario allows a few records, minutes and     *)
(* faults, so that every race of the evaluators is met and none of them is *)
(* large.                                                                  *)
Alerting ==
    [lanes |-> {"l1"}, kinds |-> {"error"}, evaluators |-> {"e1"}, records |-> 1,
     minutes |-> 2, steps |-> 0, window |-> 1, edits |-> 0, crashes |-> 0, faults |-> 0,
     lapses |-> 0, expiries |-> 0, floors |-> 0, restores |-> 0, ends |-> 0]
AlertingScenarios ==
    {[Alerting EXCEPT !.evaluators = {"e1", "e2"}, !.records = 0, !.crashes = 1],
     [Alerting EXCEPT !.evaluators = {"e1", "e2"}, !.lapses = 1],
     [Alerting EXCEPT !.lanes = {"l1", "l2"}, !.records = 2, !.minutes = 3, !.window = 2],
     [Alerting EXCEPT !.minutes = 4],
     [Alerting EXCEPT !.kinds = {"error", "log"}, !.edits = 1],
     [Alerting EXCEPT !.edits = 2],
     [Alerting EXCEPT !.restores = 1, !.crashes = 1],
     [Alerting EXCEPT !.expiries = 1, !.crashes = 1],
     [Alerting EXCEPT !.floors = 1],
     [Alerting EXCEPT !.steps = 1],
     [Alerting EXCEPT !.ends = 1, !.minutes = 3],
     [Alerting EXCEPT !.faults = 1]}

Alert == INSTANCE Alerts WITH
    clock <- v1, lanes <- v2, alert <- v3, site <- v4, evals <- v5, snaps <- v6,
    outbox <- v7, procs <- v8, budget <- v9,
    Lanes <- {"l1", "l2"}, Kinds <- {"error", "log"}, Evaluators <- {"e1", "e2"},
    MaxMinute <- 4, MaxRevision <- 2, MaxFence <- 4, MaxPending <- 2, MaxSnapshots <- 2,
    Threshold <- 1, Cooldown <- 2, Scenarios <- AlertingScenarios

(* Issues: occurrences on two lanes around the changes of users, and       *)
(* around the revisions of a rule.  Records 1 and 2 have the same event    *)
(* time, 3 comes before them.                                              *)
Grouping ==
    [lanes |-> {0, 1}, users |-> {}, evaluators |-> {}, events |-> {"created", "regressed"},
     batches |-> 3, size |-> 1, dups |-> 0, changes |-> 0, losses |-> 0, edits |-> 0, crashes |-> 0,
     minutes |-> 0]
GroupingScenarios ==
    {[Grouping EXCEPT !.users = {"u1"}, !.changes = 1, !.losses = 1],
     [Grouping EXCEPT !.lanes = {0}, !.users = {"u1", "u2"}, !.changes = 2],
     [Grouping EXCEPT !.batches = 2, !.size = 3, !.dups = 1],
     [Grouping EXCEPT !.lanes = {0}, !.batches = 2, !.users = {"u1"}, !.evaluators = {"e1"}, !.changes = 1,
                      !.edits = 1, !.minutes = 1],
     [Grouping EXCEPT !.batches = 2, !.size = 2, !.lanes = {0}, !.users = {"u1"}, !.changes = 1],
     [Grouping EXCEPT !.batches = 1, !.evaluators = {"e1", "e2"}, !.edits = 1, !.crashes = 1]}

Issue == INSTANCE Issues WITH
    lanes <- v1, moment <- v2, issue <- v3, occurrences <- v4, transitions <- v5,
    users <- v6, alert <- v7, decisions <- v8, now <- v9, procs <- v10, budget <- v11,
    Lanes <- {0, 1}, Records <- {1, 2, 3}, Event <- [r \in {1, 2, 3} |-> IF r = 3 THEN 1 ELSE 2],
    Users <- {"u1", "u2"}, Evaluators <- {"e1", "e2"}, MaxMinute <- 2, MaxRevision <- 2,
    Cooldown <- 1, Scenarios <- GroupingScenarios

(* The outbox: two deliveries and two workers, and a scenario that meets   *)
(* each fault.                                                             *)
Sending == [ids |-> {"d1"}, workers |-> {"w1", "w2"}, faults |-> 0, crashes |-> 0, lapses |-> 0,
            retries |-> 0, edits |-> 0, restores |-> 0]
SendingScenarios ==
    {[Sending EXCEPT !.ids = {"d1", "d2"}, !.faults = 1, !.crashes = 1],
     [Sending EXCEPT !.lapses = 2, !.faults = 2, !.retries = 1],
     [Sending EXCEPT !.crashes = 2, !.faults = 1, !.retries = 1],
     [Sending EXCEPT !.edits = 2, !.faults = 1, !.lapses = 1, !.retries = 1],
     [Sending EXCEPT !.restores = 1, !.faults = 2, !.crashes = 1, !.retries = 1]}

Delivery == INSTANCE Deliveries WITH
    rows <- v1, site <- v2, procs <- v3, sent <- v4, answered <- v5, retried <- v6,
    budget <- v7,
    Ids <- {"d1", "d2"}, Workers <- {"w1", "w2"}, MaxAttempts <- 2, MaxFence <- 6,
    Scenarios <- SendingScenarios

(* Identities: a first setup with crashes, and an installation in use      *)
(* whose administrators, logins and password changes overlap.              *)
Unchanged == [state |-> "keep", role |-> "keep", grants |-> "keep", password |-> FALSE]
UserChanges ==
    {[Unchanged EXCEPT !.role = "member"], [Unchanged EXCEPT !.role = "admin"],
     [Unchanged EXCEPT !.role = "none"], [Unchanged EXCEPT !.state = "disabled"],
     [Unchanged EXCEPT !.state = "active"], [Unchanged EXCEPT !.password = TRUE],
     [Unchanged EXCEPT !.role = "admin", !.grants = "none"], [Unchanged EXCEPT !.grants = "some"]}
InUse == [running |-> TRUE, crashes |-> 0, lapses |-> 0, edits |-> 0, logins |-> 0, passwords |-> 0,
          logouts |-> 0, snapshots |-> 0]
IdentityScenarios ==
    {[InUse EXCEPT !.running = FALSE, !.crashes = 2, !.lapses = 1],
     [InUse EXCEPT !.running = FALSE, !.crashes = 1, !.edits = 1],
     [InUse EXCEPT !.edits = 2],
     [InUse EXCEPT !.edits = 1, !.passwords = 2],
     [InUse EXCEPT !.edits = 1, !.logins = 1], [InUse EXCEPT !.logins = 1, !.passwords = 1],
     [InUse EXCEPT !.logins = 1, !.logouts = 1, !.snapshots = 1, !.passwords = 1]}

Identity == INSTANCE Access WITH
    install <- v1, marker <- v2, handlers <- v3, users <- v4, hashes <- v5,
    sessions <- v6, clients <- v7, admins <- v8, budget <- v9,
    Users <- {"founder", "ann", "bob"}, Founder <- "founder", Forms <- {"form", "other form"},
    Handlers <- {"h1", "h2"}, Clients <- {"c1", "c2"}, Admins <- {"a1", "a2"},
    Tokens <- {"t1", "t2", "t3"}, Changes <- UserChanges, MaxHash <- 6, MaxFence <- 4,
    Scenarios <- IdentityScenarios

-----------------------------------------------------------------------------
(* The catalog: a snapshot that may expire against swaps and a sweep, and  *)
(* one of two publications that may not; a fault in the life of a task; a  *)
(* policy change; a restore with a fault, one with a sweep, and one that   *)
(* puts the database back to its backup after a sweep.                     *)
Keeping == [seqs |-> 2, time |-> 2, tasks |-> 2, policies |-> 0, snapshots |-> 0,
            sweeps |-> 0, backups |-> 0, rollbacks |-> 0, generations |-> 1, faults |-> 0,
            fleet |-> {"w1"}]
FaultInTask == [Keeping EXCEPT !.seqs = 1, !.faults = 1, !.sweeps = 2, !.fleet = {"w1", "w2"}]
FaultAfterRestore ==
    [Keeping EXCEPT !.seqs = 1, !.tasks = 1, !.time = 1, !.backups = 1, !.generations = 2,
                    !.snapshots = 1, !.faults = 1]
KeepingScenarios ==
    {[Keeping EXCEPT !.snapshots = 1, !.sweeps = 1, !.seqs = 1],
     [Keeping EXCEPT !.snapshots = 1, !.sweeps = 1, !.time = 1],
     [Keeping EXCEPT !.faults = 1, !.fleet = {"w1", "w2"}],
     FaultInTask,
     [Keeping EXCEPT !.seqs = 1, !.tasks = 1, !.time = 3, !.policies = 1, !.snapshots = 1],
     FaultAfterRestore,
     [Keeping EXCEPT !.seqs = 1, !.backups = 1, !.sweeps = 1, !.generations = 2],
     [Keeping EXCEPT !.seqs = 1, !.tasks = 1, !.backups = 1, !.sweeps = 1, !.rollbacks = 1,
                     !.generations = 2]}

Cat == INSTANCE Catalog WITH
    clock <- v1, lane <- v2, bundles <- v3, intents <- v4, objects <- v5, tasks <- v6,
    snapshots <- v7, details <- v8, journals <- v9, workers <- v10, recovery <- v11,
    backup <- v12, budget <- v13,
    Workers <- {"w1", "w2"}, Snapshots <- {"s1"}, MaxSeq <- 2, MaxTime <- 3, Days <- {1, 2},
    SnapshotTTL <- 2, SnapshotMaximumLifetime <- 3, MinInputs <- 2, MaxTasks <- 2,
    MaxFence <- 4, GCLimit <- 2, MaxGeneration <- 2, Scenarios <- KeepingScenarios

(* Queries over catalogs of up to three files; a file holds one or two     *)
(* rows.  The shape gives the times of the rows and which of them are in   *)
(* the dataset.                                                            *)
Newest == [kind |-> "rows", limit |-> 1, first |-> TRUE]
Total == [kind |-> "aggregate", limit |-> 1, first |-> FALSE]
Shapes == {<<<<1, TRUE>>>>, <<<<2, TRUE>>>>, <<<<3, TRUE>>>>, <<<<3, FALSE>>>>,
           <<<<1, TRUE>>, <<2, TRUE>>>>, <<<<2, TRUE>>, <<2, TRUE>>>>,
           <<<<1, TRUE>>, <<3, FALSE>>>>, <<<<1, TRUE>>, <<3, TRUE>>>>}
FileOf(shape, n, known, weight) ==
    [rows |-> {[time |-> shape[i][1], id |-> 2 * n + i, in |-> shape[i][2]] : i \in DOMAIN shape},
     full |-> known /\ \A i \in DOMAIN shape : shape[i][2],
     bytes |-> 1, blocks |-> weight]
Catalogs == UNION {
    {[i \in 1..n |-> FileOf(s[i], i, known, weight)] : s \in [1..n -> Shapes], known \in BOOLEAN,
                                                       weight \in {1, 2}} : n \in 0..3}
Asking == [op |-> Newest, files |-> <<>>, queries |-> {"q1"}, fleet |-> {"w1"}, sync |-> FALSE,
           level |-> 3, faults |-> 0, lapses |-> 0, cancels |-> 0, ends |-> 0, generations |-> 1]
File(n, t) == FileOf(<<<<t, TRUE>>>>, n, TRUE, 2)
One == <<File(1, 2)>>
Two == <<File(1, 2), File(2, 1)>>
Three == <<File(1, 2), File(2, 1), File(3, 1)>>

(* Every catalog, planned but not run; the empty catalog; three scans and  *)
(* a tree of two levels; crashes, slow holders and lost answers; a user    *)
(* who cancels; ends of deadlines, jobs and rights; a level over its       *)
(* budget; two queries of one user; a restore.                             *)
AskingScenarios ==
    {[Asking EXCEPT !.op = op, !.files = c, !.queries = {}] :
        op \in {Newest, [Newest EXCEPT !.limit = 2], Total}, c \in Catalogs}
    \cup {[Asking EXCEPT !.op = Total, !.fleet = {"w1", "w2"}, !.cancels = 1],
          [Asking EXCEPT !.op = Total, !.files = Three, !.fleet = {"w1", "w2"}],
          [Asking EXCEPT !.op = Total, !.files = Two, !.sync = TRUE, !.faults = 1],
          [Asking EXCEPT !.op = Total, !.files = Two, !.fleet = {"w1", "w2"}, !.lapses = 1],
          [Asking EXCEPT !.op = Total, !.files = Two, !.sync = TRUE, !.cancels = 1, !.ends = 1],
          [Asking EXCEPT !.files = One, !.faults = 1, !.lapses = 1, !.fleet = {"w1", "w2"}],
          [Asking EXCEPT !.files = One, !.faults = 3],
          [Asking EXCEPT !.files = One, !.lapses = 3, !.fleet = {"w1", "w2"}],
          [Asking EXCEPT !.files = One, !.ends = 2, !.faults = 1],
          [Asking EXCEPT !.files = Two, !.ends = 2],
          [Asking EXCEPT !.files = One, !.lapses = 3, !.sync = TRUE],
          [Asking EXCEPT !.op = Total, !.files = Three, !.faults = 2],
          [Asking EXCEPT !.files = Two, !.level = 1],
          [Asking EXCEPT !.files = <<File(1, 1), FileOf(<<<<1, TRUE>>>>, 2, TRUE, 4)>>],
          [Asking EXCEPT !.files = One, !.queries = {"q1", "q2"}],
          [Asking EXCEPT !.files = Two, !.generations = 2, !.faults = 1]}

Query == INSTANCE Queries WITH
    jobs <- v1, tasks <- v2, intents <- v3, objects <- v4, spent <- v5, scope <- v6,
    clients <- v7, work <- v8, budget <- v9,
    QueryIds <- {"q1", "q2"}, Workers <- {"w1", "w2"}, MaxAttempts <- 3,
    MaxRunningQueryTasks <- 2, MaxUserQueries <- 1, MaxFence <- 5, MaxFilesPerScan <- 2,
    TargetScanBytes <- 2, MaxTaskManifestBytes <- 3, MaxScanPartitions <- 3,
    ReduceFanIn <- 2, Scenarios <- AskingScenarios

(* Aggregates: buckets of three microseconds over an integer of five bits, *)
(* three limbs of base three, up to three records among four buckets.      *)
Samples ==
    <<[time |-> -5, value |-> <<-7>>], [time |-> -5, value |-> <<4>>], [time |-> -4, value |-> <<25>>],
      [time |-> -1, value |-> <<>>], [time |-> 0, value |-> <<4>>], [time |-> 2, value |-> <<25>>]>>

Drawn == {f \in [1..3 -> DOMAIN Samples] : f[1] <= f[2] /\ f[2] <= f[3]}
SampleSets ==
    {{[id |-> n, time |-> Samples[f[n]].time, value |-> Samples[f[n]].value] : n \in 1..3} : f \in Drawn}

AggregatePlan(op, name, order, descending, fill, top, start, end) ==
    [op |-> op, name |-> name, order |-> order, descending |-> descending, fill |-> fill,
     top |-> top, start |-> start, end |-> end]

AggregatePlans ==
    {AggregatePlan("sum", "m", "m", TRUE, FALSE, 1, -6, 4), AggregatePlan("avg", "m", "m", TRUE, FALSE, 2, -6, 4),
     AggregatePlan("avg", "m", "m", FALSE, TRUE, 1, -5, 3), AggregatePlan("min", "m", "m", FALSE, TRUE, 2, -5, 1),
     AggregatePlan("sum", "m", "count", TRUE, FALSE, 1, -6, 4), AggregatePlan("count", "count", "count", TRUE, TRUE, 2, -6, 3),
     AggregatePlan("avg", "count", "count", TRUE, FALSE, 1, -6, 3), AggregatePlan("count", "m", "m", TRUE, TRUE, 1, -16, 15),
     AggregatePlan("count", "m", "m", TRUE, TRUE, 1, -16, -14), AggregatePlan("count", "m", "m", TRUE, TRUE, 1, -15, 0),
     AggregatePlan("count", "m", "m", TRUE, TRUE, 1, 12, 15)}

Sums == INSTANCE Aggregates WITH
    plan <- v1, input <- v2, records <- v3, rows <- v4, offered <- v5, selected <- v6,
    answer <- v7,
    Inputs <- SampleSets, Plans <- AggregatePlans, IntervalUS <- 3, MaxBuckets <- 4,
    MaxInt64 <- 15, decimalBase <- 3, IntegerLimbCount <- 3, decimalLimit <- 25

(* The live tail of two lanes: a merge or a broken connection while rows   *)
(* arrive, an expired session, a failed poll, a restore.                   *)
Tailing == [catchup |-> FALSE, publishes |-> 2, merges |-> 0, breaks |-> 0, restores |-> 0,
            expiries |-> 0, failures |-> 0, refreshes |-> 0]
TailingScenarios ==
    {[Tailing EXCEPT !.catchup = TRUE, !.merges = 1, !.breaks = 1],
     [Tailing EXCEPT !.publishes = 3, !.merges = 1, !.breaks = 1],
     [Tailing EXCEPT !.breaks = 1, !.expiries = 1],
     [Tailing EXCEPT !.expiries = 1, !.failures = 1, !.refreshes = 1],
     [Tailing EXCEPT !.breaks = 1, !.failures = 1],
     [Tailing EXCEPT !.restores = 1]}

Stream == INSTANCE Live WITH
    generation <- v1, lanes <- v2, files <- v3, backup <- v4, stream <- v5, wire <- v6,
    client <- v7, budget <- v8,
    Lanes <- {0, 1}, Batches <- {<<TRUE, TRUE>>, <<FALSE>>}, LivePageRows <- 1,
    LiveMaximumRows <- 3, MaxInt32 <- 2, MaxSeq <- 3, Scenarios <- TailingScenarios

(* The block cache: three blocks in room for two, requests of two tasks. *)
Caching == [tasks |-> 2, staged |-> 0, spoiled |-> 0, failures |-> 0, timeouts |-> 0,
            closes |-> 0, crashes |-> 0]
CachingScenarios ==
    {[Caching EXCEPT !.spoiled = 1],
     [Caching EXCEPT !.spoiled = 1, !.tasks = 1],
     [Caching EXCEPT !.failures = 1, !.tasks = 1],
     [Caching EXCEPT !.timeouts = 1, !.tasks = 1],
     [Caching EXCEPT !.closes = 1, !.crashes = 1, !.staged = 1, !.tasks = 1]}

Cache == INSTANCE BlockCache WITH
    files <- v1, entries <- v2, flights <- v3, used <- v4, closed <- v5, tasks <- v6,
    handlers <- v7, budget <- v8,
    Blocks <- {"b1", "b2", "b3"}, Size <- [b1 |-> 1, b2 |-> 1, b3 |-> 2],
    Tasks <- {"t1", "t2"}, Handlers <- {"h1", "h2", "h3"},
    TaskOf <- [h1 |-> "t1", h2 |-> "t1", h3 |-> "t2"], Requests <- {<<"b1", "b2">>, <<"b3">>},
    Entries <- {1, 2, 3, 4}, MaxBytes <- 2, DiskLimit <- 5, TaskBytes <- 2,
    Scenarios <- CachingScenarios

(* The batcher: requests of one lane that make a batch full, beside one of *)
(* another tenant heavier than a batch may be; requests of three lanes of  *)
(* two tenants that take turns; and two requests with two drains.          *)
Queues == INSTANCE Batcher WITH
    caller <- v1, canceled <- v2, result <- v3, slots <- v4, pending <- v5, queue <- v6,
    active <- v7, uploads <- v8, completed <- v9, pc <- v10, draining <- v11,
    drainer <- v12, rootDone <- v13,
    Requests <- {"a", "b", "c"}, Tenants <- {"t1", "t2"}, Scopes <- {"t1/1", "t2/1"},
    ScopeOf <- [a |-> "t1/1", b |-> "t1/1", c |-> "t2/1"],
    TenantOf <- [s \in {"t1/1", "t2/1"} |-> IF s = "t2/1" THEN "t2" ELSE "t1"],
    Weight <- [a |-> 1, b |-> 2, c |-> 3],
    MaxBatchWeight <- 2, MaxBatchRequests <- 2, MaxWaitingRequests <- 2,
    MaxUploadWorkflows <- 1, Drainers <- {"d1"}, DrainMayTimeOut <- TRUE

Turns == INSTANCE Batcher WITH
    caller <- v1, canceled <- v2, result <- v3, slots <- v4, pending <- v5, queue <- v6,
    active <- v7, uploads <- v8, completed <- v9, pc <- v10, draining <- v11,
    drainer <- v12, rootDone <- v13,
    Requests <- {"a", "b", "c"}, Tenants <- {"t1", "t2"},
    Scopes <- {"t1/1", "t1/2", "t2/1"},
    ScopeOf <- [a |-> "t1/1", b |-> "t1/2", c |-> "t2/1"],
    TenantOf <- [s \in {"t1/1", "t1/2", "t2/1"} |-> IF s = "t2/1" THEN "t2" ELSE "t1"],
    Weight <- [a |-> 1, b |-> 1, c |-> 1],
    MaxBatchWeight <- 2, MaxBatchRequests <- 2, MaxWaitingRequests <- 3,
    MaxUploadWorkflows <- 1, Drainers <- {"d1"}, DrainMayTimeOut <- TRUE

Batching == INSTANCE Batcher WITH
    caller <- v1, canceled <- v2, result <- v3, slots <- v4, pending <- v5, queue <- v6,
    active <- v7, uploads <- v8, completed <- v9, pc <- v10, draining <- v11,
    drainer <- v12, rootDone <- v13,
    Requests <- {"a", "d"}, Tenants <- {"t1", "t2"}, Scopes <- {"t1/1", "t2/1"},
    ScopeOf <- [a |-> "t1/1", d |-> "t2/1"],
    TenantOf <- [s \in {"t1/1", "t2/1"} |-> IF s = "t2/1" THEN "t2" ELSE "t1"],
    Weight <- [a |-> 1, d |-> 1],
    MaxBatchWeight <- 2, MaxBatchRequests <- 2, MaxWaitingRequests <- 2,
    MaxUploadWorkflows <- 1, Drainers <- {"d1", "d2"}, DrainMayTimeOut <- FALSE

ASSUME /\ Alert!AlertsAssumption /\ Issue!IssuesAssumption /\ Delivery!DeliveriesAssumption
       /\ Identity!AccessAssumption /\ Cat!CatalogAssumption /\ Query!QueriesAssumption
       /\ Query!QueryPlanAssumption /\ Sums!AggregatesAssumption /\ Stream!LiveAssumption
       /\ Cache!BlockCacheAssumption /\ Queues!BatcherAssumption /\ Turns!BatcherAssumption
       /\ Batching!BatcherAssumption

-----------------------------------------------------------------------------
MCInit ==
    /\ machine \in Machines /\ Init
    /\ CASE machine = "alerts" -> Alert!Init /\ v10 = 0 /\ v11 = 0 /\ v12 = 0 /\ v13 = 0
         [] machine = "issues" -> Issue!Init /\ v12 = 0 /\ v13 = 0
         [] machine = "deliveries" -> Delivery!Init /\ v8 = 0 /\ v9 = 0 /\ v10 = 0 /\ v11 = 0 /\ v12 = 0 /\ v13 = 0
         [] machine = "access" -> Identity!Init /\ v10 = 0 /\ v11 = 0 /\ v12 = 0 /\ v13 = 0
         [] machine = "catalog" -> Cat!Init
         [] machine = "queries" -> Query!Init /\ v10 = 0 /\ v11 = 0 /\ v12 = 0 /\ v13 = 0
         [] machine = "aggregates" -> Sums!Init /\ v8 = 0 /\ v9 = 0 /\ v10 = 0 /\ v11 = 0 /\ v12 = 0 /\ v13 = 0
         [] machine = "live" -> Stream!Init /\ v9 = 0 /\ v10 = 0 /\ v11 = 0 /\ v12 = 0 /\ v13 = 0
         [] machine = "cache" -> Cache!Init /\ v9 = 0 /\ v10 = 0 /\ v11 = 0 /\ v12 = 0 /\ v13 = 0
         [] machine = "queues" -> Queues!Init
         [] machine = "turns" -> Turns!Init
         [] machine = "batcher" -> Batching!Init
         [] machine = "runtime" ->
               /\ v1 = 0 /\ v2 = 0 /\ v3 = 0 /\ v4 = 0 /\ v5 = 0 /\ v6 = 0 /\ v7 = 0
               /\ v8 = 0 /\ v9 = 0 /\ v10 = 0 /\ v11 = 0 /\ v12 = 0 /\ v13 = 0

MCNext ==
    \/ /\ machine = "runtime" /\ Next
       /\ UNCHANGED <<machine, v1, v2, v3, v4, v5, v6, v7, v8, v9, v10, v11, v12, v13>>
    \/ machine = "alerts" /\ Alert!Next /\ UNCHANGED <<machine, vars, v10, v11, v12, v13>>
    \/ machine = "issues" /\ Issue!Next /\ UNCHANGED <<machine, vars, v12, v13>>
    \/ machine = "deliveries" /\ Delivery!Next /\ UNCHANGED <<machine, vars, v8, v9, v10, v11, v12, v13>>
    \/ machine = "access" /\ Identity!Next /\ UNCHANGED <<machine, vars, v10, v11, v12, v13>>
    \/ machine = "catalog" /\ Cat!Next /\ UNCHANGED <<machine, vars>>
    \/ machine = "queries" /\ Query!Next /\ UNCHANGED <<machine, vars, v10, v11, v12, v13>>
    \/ machine = "aggregates" /\ Sums!Next /\ UNCHANGED <<machine, vars, v8, v9, v10, v11, v12, v13>>
    \/ machine = "live" /\ Stream!Next /\ UNCHANGED <<machine, vars, v9, v10, v11, v12, v13>>
    \/ machine = "cache" /\ Cache!Next /\ UNCHANGED <<machine, vars, v9, v10, v11, v12, v13>>
    \/ machine = "queues" /\ Queues!Next /\ UNCHANGED <<machine, vars>>
    \/ machine = "turns" /\ Turns!Next /\ UNCHANGED <<machine, vars>>
    \/ machine = "batcher" /\ Batching!Next /\ UNCHANGED <<machine, vars>>

MCSpec == MCInit /\ [][MCNext]_all

-----------------------------------------------------------------------------

(* The tables and processes of every instance keep their types. *)
TypesOK ==
    /\ TypeOK
    /\ machine = "alerts" => Alert!TypeOK
    /\ machine = "issues" => Issue!TypeOK
    /\ machine = "deliveries" => Delivery!TypeOK
    /\ machine = "access" => Identity!TypeOK
    /\ machine = "catalog" => Cat!TypeOK
    /\ machine = "queries" => Query!TypeOK
    /\ machine = "aggregates" => Sums!TypeOK
    /\ machine = "live" => Stream!TypeOK
    /\ machine = "cache" => Cache!TypeOK
    /\ machine = "queues" => Queues!TypeOK
    /\ machine = "turns" => Turns!TypeOK

(* The budget counts exactly the live permits, closes its drained channel  *)
(* once and then holds nothing; where a child reserves all of it, no       *)
(* request is decoded beside the child.                                    *)
BudgetIsExact == UsedIsHeld /\ DrainedOnce /\ ChildrenRunAlone

(* What succeeded of a rule's revision is one unbroken run of windows,     *)
(* each counted over every record ever received in it unless retention cut *)
(* into it or its rule was revised, and a delivery exists for exactly      *)
(* those at the threshold and outside the cooldown.                        *)
AlertsAreExact ==
    machine = "alerts" =>
        /\ Alert!CountsAreExact /\ Alert!WindowsSucceedInOrder
        /\ Alert!FiringFollowsCooldown

(* An occurrence accepted after the resolution of an issue, and no other,  *)
(* turns it back; its summary is that of its occurrences in whatever order *)
(* lanes publish them, its transitions are a legal history, and a rule     *)
(* sends only for what comes after its last revision, a cooldown apart.    *)
IssuesAreExact ==
    machine = "issues" =>
        /\ Issue!NoRegressionIsLost /\ Issue!RegressionsAreNew
        /\ Issue!SummaryMatchesOccurrences /\ Issue!HistoryIsLegal
        /\ Issue!SendsFollowTheRule

(* A delivery recorded as succeeded was answered, and the destination sees *)
(* it no more often than the attempts an operator allowed: every           *)
(* transmission was paid for by a claim (the inductive invariant of the    *)
(* outbox).                                                                *)
SendsAreBounded ==
    machine = "deliveries" =>
        /\ Delivery!SendsAreBounded /\ Delivery!Inductive

(* The tenant keeps an active administrator; a session that is accepted    *)
(* was opened with its user's present password; a session that was logged  *)
(* out holds no snapshot; an installation is ready only with its marker    *)
(* stored.                                                                 *)
IdentitiesAreKept ==
    machine = "access" =>
        /\ Identity!AnAdminRemains /\ Identity!SessionsFollowPasswords
        /\ Identity!LogoutReleases /\ Identity!ReadyIsMarked

(* A live snapshot reads every row between its floor and its cut exactly   *)
(* once, from objects that exist, through swaps, retention and garbage     *)
(* collection and while it is renewed; with its details, unless a renewal  *)
(* committed after its expiry; rows that a retention period once hid are   *)
(* never shown again.                                                      *)
SnapshotsAreWhole ==
    machine = "catalog" =>
        /\ Cat!SnapshotsReadable /\ Cat!DetailsSurviveSnapshots
        /\ Cat!ExpiredRowsStayHidden

(* Exactly the inputs of the open tasks are reserved, so that no two tasks *)
(* replace one file, and every object the database counts on exists; one   *)
(* put back to an older backup is verified and activated only if so.       *)
CatalogIsHeld ==
    machine = "catalog" =>
        /\ Cat!ReservationsAreHeld /\ Cat!InventoryIsStored

(* The tree of scans and reducers of a plan computes what its query means, *)
(* and so does every answer, whatever was pruned, retried or merged.       *)
QueriesAreExact ==
    machine = "queries" =>
        /\ Query!PlansAreExact /\ Query!ResultsAreExact

(* A result can be read until its job expires and a task finds its inputs; *)
(* a level is charged for the outputs that won and no others, and no query *)
(* runs more tasks than the cap.                                           *)
QueryTasksAreKept ==
    machine = "queries" =>
        /\ Query!ResultsAreReadable /\ Query!InputsAreStored
        /\ Query!LevelsAreCharged /\ Query!RunningIsCapped

(* However records are split among scans, the merged states, the rounded   *)
(* values and the groups answered are those of all records, and a query    *)
(* overflows only when a final sum does.                                   *)
AggregatesAreExact ==
    machine = "aggregates" =>
        /\ Sums!StatesAreExact /\ Sums!ValuesAreExact /\ Sums!OnlyFinalSumsOverflow
        /\ Sums!TopKIsExact

(* The browser received every matching row up to the checkpoint it would   *)
(* resume from, once and in the order of its lane, through reconnects and  *)
(* merges, and no poll is refused.                                         *)
StreamIsWhole ==
    machine = "live" =>
        /\ Stream!NothingIsSkipped /\ Stream!RowsArriveOnceInOrder
        /\ Stream!NoPollIsRefused

(* The cache accounts for the listed blocks and the invalid ones still     *)
(* pinned, within its limits; a listed block has its file and at most one  *)
(* loader, and every pin has its reader, which still has its task unless   *)
(* it outlived the shutdown of the gateway.                                *)
CacheIsAccounted ==
    machine = "cache" =>
        /\ Cache!UsedIsAccounted /\ Cache!ListedBlocksAreStored
        /\ Cache!PinsAreOwned

(* A waiting request is in one place and holds one slot, a batch is        *)
(* requests of one lane in order and within its limits, the rotation names *)
(* each tenant with work once, and a drain returns only when every         *)
(* admitted request was answered.                                          *)
BatcherIsAccounted ==
    /\ machine = "queues" =>
          Queues!Accounted /\ Queues!BatchShape /\ Queues!Rotation /\ Queues!DrainedMeansAnswered
    /\ machine = "turns" =>
          Turns!Accounted /\ Turns!BatchShape /\ Turns!Rotation /\ Turns!DrainedMeansAnswered

(* What ended stays as it ended, whatever a late worker does: evaluations, *)
(* deliveries, and queries except that a result found damaged fails its    *)
(* query. A user is changed only as the administrator saw it.              *)
EndedStaysEnded ==
    [][/\ machine = "alerts" => Alert!KeepsEnded
       /\ machine = "deliveries" => Delivery!KeepsEnded
       /\ machine = "queries" => Query!KeepsEnded
       /\ machine = "access" => Identity!ChangesWhatWasSeen]_all

(* "If retention already erased part of window, mark evaluation            *)
(* failed/expired", rather than count what is left of it.                  *)
CountsAreWhole == machine = "alerts" => Alert!CountsAreWhole

(* "Last-admin safety checks lock the tenant row before user rows": no two *)
(* changes of users wait for each other.                                   *)
NoLockCycle == machine = "access" => Identity!NoLockCycle

(* "Occurrence detail rows delete only after no snapshot can need them":   *)
(* the cleanup leaves the occurrences and receipts of every live snapshot. *)
OccurrencesOutliveSnapshots == machine = "catalog" => Cat!OccurrencesOutliveSnapshots
=============================================================================
