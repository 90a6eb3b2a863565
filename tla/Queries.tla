------------------------------ MODULE Queries ------------------------------
(***************************************************************************)
(* Durable query jobs over one snapshot: a client submits a query and      *)
(* seals its plan, a worker takes over the planning of a client that died, *)
(* workers and the waiting client claim tasks, run them, upload and        *)
(* complete their outputs, retry and recover them, and the client reads,   *)
(* cancels or fails the result.                                            *)
(*                                                                         *)
(* Every SQL transaction is one action.  A lease is live or not.  The      *)
(* deadline of a job, its expires_at (the snapshot's expiry when the job   *)
(* was created) and the snapshot's own life are flags that turn once.      *)
(* The snapshot fixes the catalog and with it the plan: both never change. *)
(***************************************************************************)
EXTENDS QueryPlan, FiniteSets, TLC

CONSTANTS
    QueryIds,               \* query_jobs.query_id, one client each
    Workers,                \* worker processes
    MaxAttempts,            \* attempts of one task
    MaxRunningQueryTasks,   \* tasks of one query that run at a time
    MaxUserQueries,         \* live queries of one user
    MaxFence,               \* bound on coordinator_fence
    Scenarios               \* catalogs with the faults a behaviour may meet

(* BuildExecutionPlan is a function of the operation and the catalog.      *)
BuildExecutionPlan(op, files) ==
    LET scans == Scans(op, files)
        n == Len(scans)
    IN [scans |-> scans, inputs |-> [k \in TaskKeys(n) |-> Inputs(n, k)], fails |-> PlanFails(op, files)]

QueriesAssumption ==
    /\ MaxAttempts \in Nat \ {0} /\ MaxRunningQueryTasks \in Nat \ {0}
    /\ MaxUserQueries \in Nat \ {0} /\ MaxFence \in Nat \ {0}

Processes == Workers \cup QueryIds
NoOwner == "no owner"
NoKey == <<0, 0>>
NoResult == <<>>
Live == {"planning", "queued", "running"}
Ended == {"succeeded", "failed", "canceled"}

VARIABLES
    jobs,           \* query_jobs
    tasks,          \* query_tasks of each query, by key
    intents,        \* object_intents of task outputs, by query, key and fence
    objects,        \* object keys present in S3
    spent,          \* query_level_budgets.committed_bytes
    scope,          \* the snapshot with its rights, and the generation
    clients,        \* step of the request that submitted each query
    work,           \* what each process is executing
    budget          \* the scenario: operation, catalog, its plan, the budget of a
                    \* reduction level in outputs, and how often faults may still happen

vars == <<jobs, tasks, intents, objects, spent, scope, clients, work, budget>>
outputs == <<intents, objects, spent>>

NoJob == [state |-> "none", late |-> FALSE, gone |-> FALSE, owner |-> NoOwner,
          fence |-> 0, live |-> FALSE, error |-> "none", result |-> NoResult]
(* A claim is what moves a task's fence and its attempt: one number.       *)
NewTask == [state |-> "queued", owner |-> NoOwner, fence |-> 0, live |-> FALSE,
            result |-> NoResult]
NoWork == [step |-> "idle", query |-> "none", key |-> NoKey, fence |-> 0, gen |-> 1,
           inputs |-> <<>>, output |-> <<>>, cause |-> "none"]

Op == budget.op
Files == budget.files
Keys == DOMAIN budget.plan.inputs
TaskInputs(k) == budget.plan.inputs[k]
HasConsumer(k) == \E c \in Keys : \E i \in DOMAIN TaskInputs(c) : TaskInputs(c)[i] = k

Spend(what) == /\ budget[what] > 0
               /\ budget' = [budget EXCEPT ![what] = @ - 1]

TypeOK ==
    /\ jobs \in [QueryIds ->
           [state : {"none"} \cup Live \cup Ended, late : BOOLEAN, gone : BOOLEAN,
            owner : Processes \cup {NoOwner}, fence : 0..MaxFence, live : BOOLEAN,
            error : {"none", "query_planning_failed", "query_limit_exceeded",
                     "invalid_query_plan", "query_worker_failed", "query_result_failed",
                     "canceled", "restore_generation_changed"},
            result : {NoResult} \cup DOMAIN intents]]
    /\ DOMAIN tasks = QueryIds
    /\ \A q \in QueryIds : \A k \in DOMAIN tasks[q] :
           /\ k \in Keys
           /\ tasks[q][k] \in
                  [state : {"queued", "running", "succeeded", "failed", "canceled"},
                   owner : Processes \cup {NoOwner}, fence : 0..MaxAttempts,
                   live : BOOLEAN, result : {NoResult} \cup DOMAIN intents]
    /\ \A i \in DOMAIN intents :
           intents[i].state \in {"pending", "uploaded", "referenced", "deleted"}
    /\ objects \subseteq DOMAIN intents
    /\ \A q \in QueryIds : \A l \in DOMAIN spent[q] : spent[q][l] \in 0..budget.level
    /\ scope \in [snapshot : {"active", "expired", "revoked"}, gen : 1..2, restoring : BOOLEAN]
    /\ clients \in [QueryIds -> {"submit", "seal", "planning failed", "wait",
                                 "cancel", "finalize", "result failed", "done"}]
    /\ \A p \in Processes :
           work[p].step \in {"idle", "load", "page", "plan", "run", "register", "put",
                             "mark", "complete", "fail", "planning failed"}

Init ==
    /\ jobs = [q \in QueryIds |-> NoJob]
    /\ tasks = [q \in QueryIds |-> <<>>]
    /\ intents = <<>>
    /\ objects = {}
    /\ spent = [q \in QueryIds |-> <<>>]
    /\ scope = [snapshot |-> "active", gen |-> 1, restoring |-> FALSE]
    /\ work = [p \in Processes |-> NoWork]
    /\ \E s \in Scenarios : budget = s @@ [plan |-> BuildExecutionPlan(s.op, s.files)]
    /\ clients = [q \in QueryIds |-> IF q \in budget.queries THEN "submit" ELSE "done"]

(***************************************************************************)
(* Authority.                                                              *)
(***************************************************************************)

(* lockDurableQueryScope: the snapshot lives, its rights are unchanged and *)
(* the caller's generation is the installation's and the snapshot's.       *)
ScopeHolds(gen) == scope.snapshot = "active" /\ gen = scope.gen /\ scope.gen = 1

(* lockRuntimeGeneration. *)
Current(gen) == gen = scope.gen

InTime(q) == ~jobs[q].late

(* The job runs in time and this process holds the task, its lease live.   *)
Holds(w) ==
    LET t == tasks[w.query][w.key]
    IN /\ jobs[w.query].state = "running" /\ InTime(w.query)
       /\ t.state = "running" /\ t.fence = w.fence /\ t.live

EndJob(j, state, error) ==
    [j EXCEPT !.state = state, !.error = error, !.owner = NoOwner, !.live = FALSE]
Released(t, state) == [t EXCEPT !.state = state, !.owner = NoOwner, !.live = FALSE]

(* Tasks of a query in one of the given states are canceled. *)
CancelTasks(q, states) ==
    [k \in DOMAIN tasks[q] |->
        IF tasks[q][k].state \in states THEN Released(tasks[q][k], "canceled") ELSE tasks[q][k]]

(***************************************************************************)
(* Submission and planning.                                                *)
(***************************************************************************)

(* Submit has read and verified the catalog.  CreateQuery: the scope, and  *)
(* the caps on live queries, those past their deadline not counted.  The   *)
(* request fails otherwise.                                                *)
Admitted == Cardinality({q \in QueryIds : jobs[q].state \in Live /\ InTime(q)}) < MaxUserQueries

CreateQuery(q) ==
    /\ clients[q] = "submit"
    /\ IF ScopeHolds(1) /\ Admitted
       THEN /\ jobs' = [jobs EXCEPT ![q] = [NoJob EXCEPT !.state = "planning", !.owner = q,
                                                         !.fence = 1, !.live = TRUE]]
            /\ clients' = [clients EXCEPT ![q] = "seal"]
       ELSE /\ clients' = [clients EXCEPT ![q] = "done"]
            /\ UNCHANGED jobs
    /\ UNCHANGED <<tasks, outputs, scope, work, budget>>

(* SealQueryPlan by the holder of the planning fence, its lease live or    *)
(* not.  A sealed job has no owner left to compare with, so sealing it     *)
(* again fails, with the same plan too.                                    *)
MaySeal(q, owner, fence, gen) ==
    /\ ScopeHolds(gen)
    /\ jobs[q].state = "planning" /\ jobs[q].owner = owner /\ jobs[q].fence = fence
    /\ InTime(q)

Seal(q) ==
    /\ jobs' = [jobs EXCEPT ![q].state = "queued", ![q].owner = NoOwner, ![q].live = FALSE]
    /\ tasks' = [tasks EXCEPT ![q] = [k \in Keys |-> NewTask]]
    /\ spent' = [spent EXCEPT ![q] = [l \in {k[1] : k \in Keys} |-> 0]]

(* The plan is built after the job exists; a plan over a limit, a refused  *)
(* seal or a lost answer sends the request to FailQueryPlanning.  An       *)
(* asynchronous request is answered with the job, which its owner polls;   *)
(* a synchronous one waits and helps.                                      *)
ClientSeals(q) ==
    /\ clients[q] = "seal"
    /\ IF ~budget.plan.fails /\ MaySeal(q, q, 1, 1)
       THEN /\ Seal(q)
            /\ \/ clients' = [clients EXCEPT ![q] = "wait"] /\ UNCHANGED budget
               \/ clients' = [clients EXCEPT ![q] = "planning failed"] /\ Spend("faults")
       ELSE /\ clients' = [clients EXCEPT ![q] = "planning failed"]
            /\ UNCHANGED <<jobs, tasks, spent, budget>>
    /\ UNCHANGED <<intents, objects, scope, work>>

(* FailQueryPlanning: only while the caller's planning fence stands.       *)
PlanningFailed(q, owner, fence) ==
    IF jobs[q].state = "planning" /\ jobs[q].owner = owner /\ jobs[q].fence = fence
    THEN [jobs EXCEPT ![q] = EndJob(@, "failed",
             IF budget.plan.fails THEN "query_limit_exceeded" ELSE "query_planning_failed")]
    ELSE jobs

ClientFailsPlanning(q) ==
    /\ clients[q] = "planning failed"
    /\ jobs' = PlanningFailed(q, q, 1)
    /\ clients' = [clients EXCEPT ![q] = "done"]
    /\ UNCHANGED <<tasks, outputs, scope, work, budget>>

(* The API process dies with the request. *)
ClientCrashes(q) ==
    /\ clients[q] \in {"seal", "planning failed", "wait", "cancel", "finalize"}
    /\ Spend("faults")
    /\ clients' = [clients EXCEPT ![q] = "done"]
    /\ work' = [work EXCEPT ![q] = NoWork]
    /\ UNCHANGED <<jobs, tasks, outputs, scope>>

(* A worker takes over the planning of a job whose planning lease lapsed.  *)
ClaimQueryCoordinator(w) ==
    /\ w \in budget.fleet /\ work[w].step = "idle"
    /\ \E q \in QueryIds :
        /\ jobs[q].state = "planning" /\ InTime(q) /\ ~jobs[q].live
        /\ jobs[q].fence < MaxFence
        /\ jobs' = [jobs EXCEPT ![q].owner = w, ![q].fence = @ + 1, ![q].live = TRUE]
        /\ work' = [work EXCEPT ![w] = [NoWork EXCEPT !.step = "load", !.query = q,
                                            !.fence = jobs[q].fence + 1, !.gen = scope.gen]]
    /\ UNCHANGED <<tasks, outputs, scope, clients, budget>>

CoordinatorHolds(w) ==
    LET j == jobs[work[w].query]
    IN /\ ScopeHolds(work[w].gen)
       /\ j.state = "planning" /\ j.owner = w /\ j.fence = work[w].fence /\ j.live
       /\ InTime(work[w].query)

(* LoadQueryPlanContext: an error ends the turn and leaves the lease.      *)
LoadQueryPlanContext(w) ==
    /\ work[w].step = "load"
    /\ work' = [work EXCEPT ![w] = IF CoordinatorHolds(w) THEN [@ EXCEPT !.step = "page"] ELSE NoWork]
    /\ UNCHANGED <<jobs, tasks, outputs, scope, clients, budget>>

(* CatalogPageForQuery and the verification of its files: an error, or a   *)
(* plan over a limit, fails the planning.                                  *)
CoordinatorPlans(w) ==
    /\ work[w].step = "page"
    /\ work' = [work EXCEPT ![w].step = IF CoordinatorHolds(w) /\ ~budget.plan.fails
                                        THEN "plan" ELSE "planning failed"]
    /\ UNCHANGED <<jobs, tasks, outputs, scope, clients, budget>>

CoordinatorFails(w) ==
    /\ work[w].step = "planning failed"
    /\ jobs' = PlanningFailed(work[w].query, w, work[w].fence)
    /\ work' = [work EXCEPT ![w] = NoWork]
    /\ UNCHANGED <<tasks, outputs, scope, clients, budget>>

(* A refused seal ends the turn. *)
CoordinatorSeals(w) ==
    /\ work[w].step = "plan"
    /\ LET q == work[w].query
       IN IF MaySeal(q, w, work[w].fence, work[w].gen)
          THEN Seal(q)
          ELSE UNCHANGED <<jobs, tasks, spent>>
    /\ work' = [work EXCEPT ![w] = NoWork]
    /\ UNCHANGED <<intents, objects, scope, clients, budget>>

(***************************************************************************)
(* Claiming and running tasks.                                             *)
(***************************************************************************)

FirstKey(ks) == CHOOSE k \in ks : \A m \in ks : k[1] < m[1] \/ (k[1] = m[1] /\ k[2] <= m[2])

(* Tasks of a running job whose lease has lapsed. *)
Lapsed(j, t, q) == {k \in DOMAIN t[q] : /\ j[q].state = "running" /\ ~j[q].late
                                        /\ t[q][k].state = "running" /\ ~t[q][k].live}

(* recoverExpiredQueryTasks, first statement: one lapsed task without an   *)
(* attempt left fails its job and cancels what is queued or running.       *)
Exhausted == {q \in QueryIds : \E k \in Lapsed(jobs, tasks, q) : tasks[q][k].fence >= MaxAttempts}
JobsRecovered(x) ==
    IF x = {} THEN jobs
    ELSE [q \in QueryIds |-> IF q \in x THEN EndJob(jobs[q], "failed", "query_worker_failed") ELSE jobs[q]]
TasksCanceled(x) == [q \in QueryIds |-> IF q \in x THEN CancelTasks(q, {"queued", "running"}) ELSE tasks[q]]

(* Second statement: one lapsed task with attempts left is queued again.   *)
Requeueable(j, t) == {q \in QueryIds : \E k \in Lapsed(j, t, q) : t[q][k].fence < MaxAttempts}
Requeue(j, t, y) ==
    [q \in QueryIds |->
        IF q \notin y THEN t[q]
        ELSE LET k == FirstKey({m \in Lapsed(j, t, q) : t[q][m].fence < MaxAttempts})
             IN [t[q] EXCEPT ![k] = Released(@, "queued")]]
AtMostOne(s) == IF s = {} THEN {{}} ELSE {{q} : q \in s}

Running(t, q) == {k \in DOMAIN t[q] : t[q][k].state = "running"}

Ready(t, q) ==
    {k \in DOMAIN t[q] :
        /\ t[q][k].state = "queued" /\ t[q][k].fence < MaxAttempts
        /\ \A i \in DOMAIN TaskInputs(k) : t[q][TaskInputs(k)[i]].state = "succeeded"}

Claimable(j, t, targets) ==
    {q \in targets : /\ j[q].state \in {"queued", "running"} /\ ~j[q].late
                     /\ Cardinality(Running(t, q)) < MaxRunningQueryTasks
                     /\ Ready(t, q) # {}}

(* The inputs whose intents are referenced, in order. *)
ClaimedInputs(t, q, k) ==
    SelectSeq([i \in DOMAIN TaskInputs(k) |-> t[q][TaskInputs(k)[i]].result],
              LAMBDA r : r # NoResult /\ intents[r].state = "referenced")

(* claimQueryTask: recovery is committed whether or not a task is found.   *)
(* Which job comes first (its tenant's load, the rotation, its deadline)   *)
(* is left open; within a job the lowest level and partition goes first.   *)
claimQueryTask(p, targets) ==
    \E x \in AtMostOne(Exhausted) :
        \E j \in {JobsRecovered(x)}, canceled \in {TasksCanceled(x)} :
            \E y \in AtMostOne(Requeueable(j, canceled)) :
                \E t \in {Requeue(j, canceled, y)} :
                   \/ /\ Claimable(j, t, targets) = {} /\ (x \cup y) # {}
                      /\ jobs' = j /\ tasks' = t /\ UNCHANGED work
                   \/ \E q \in Claimable(j, t, targets) : \E k \in {FirstKey(Ready(t, q))} :
                       /\ jobs' = [j EXCEPT ![q].state = "running"]
                       /\ tasks' = [t EXCEPT ![q][k] = [@ EXCEPT !.state = "running", !.owner = p,
                                                            !.fence = t[q][k].fence + 1, !.live = TRUE]]
                       /\ work' = [work EXCEPT ![p] =
                              [NoWork EXCEPT !.step = "run", !.query = q, !.key = k,
                                             !.fence = t[q][k].fence + 1, !.gen = scope.gen,
                                             !.inputs = ClaimedInputs(t, q, k)]]

WorkerClaims(w) ==
    /\ w \in budget.fleet /\ work[w].step = "idle"
    /\ claimQueryTask(w, QueryIds)
    /\ UNCHANGED <<outputs, scope, clients, budget>>

(* The waiting request helps with its own query only. *)
StatusReadable(q) == ScopeHolds(scope.gen) /\ ~jobs[q].gone
ClientClaims(q) ==
    /\ clients[q] = "wait" /\ budget.sync /\ work[q].step = "idle"
    /\ StatusReadable(q) /\ jobs[q].state \in {"queued", "running"}
    /\ claimQueryTask(q, {q})
    /\ UNCHANGED <<outputs, scope, clients, budget>>

Fails(p, cause) == work' = [work EXCEPT ![p].step = "fail", ![p].cause = cause]
Intent(p) == <<work[p].query, work[p].key, work[p].fence>>

(* The manifest is checked against the claim and the reducer's inputs      *)
(* against the manifest; the inputs are then read through the gateway.     *)
prepareQueryInputs(w) ==
    IF w.gen # 1 \/ Len(w.inputs) # Len(TaskInputs(w.key)) THEN "invalid"
    ELSE IF \E i \in DOMAIN w.inputs : w.inputs[i] \notin objects THEN "worker"
    ELSE "none"

(* Workflow.Execute up to its output: the inputs are prepared and the      *)
(* child runs.  A child may die or exceed a limit.                         *)
RunTask(p) ==
    /\ work[p].step = "run"
    /\ LET w == work[p]
       IN IF prepareQueryInputs(w) # "none"
          THEN Fails(p, prepareQueryInputs(w)) /\ UNCHANGED budget
          ELSE \/ \E output \in {TaskOutput(Op, budget.plan.scans, w.key,
                                  [i \in DOMAIN w.inputs |-> intents[w.inputs[i]].value])} :
                    /\ work' = [work EXCEPT ![p].step = "register", ![p].output = output]
                    /\ UNCHANGED budget
               \/ /\ Fails(p, "worker") /\ Spend("faults")
               \/ /\ Fails(p, "limit") /\ Spend("faults")
    /\ UNCHANGED <<jobs, tasks, outputs, scope, clients>>

RegisterQueryIntent(p) ==
    /\ work[p].step = "register"
    /\ IF Current(work[p].gen) /\ Holds(work[p])
       THEN /\ intents' = intents @@ (Intent(p) :> [state |-> "pending", value |-> work[p].output])
            /\ work' = [work EXCEPT ![p].step = "put"]
       ELSE Fails(p, "worker") /\ UNCHANGED intents
    /\ UNCHANGED <<jobs, tasks, objects, spent, scope, clients, budget>>

PutOutput(p) ==
    /\ work[p].step = "put"
    /\ \/ /\ objects' = objects \cup {Intent(p)}
          /\ work' = [work EXCEPT ![p].step = "mark"]
          /\ UNCHANGED budget
       \/ /\ Fails(p, "worker") /\ Spend("faults")
          /\ UNCHANGED objects
    /\ UNCHANGED <<jobs, tasks, intents, spent, scope, clients>>

(* The intent's expires_at is the job's. *)
MarkQueryIntentUploaded(p) ==
    /\ work[p].step = "mark"
    /\ IF intents[Intent(p)].state = "pending" /\ ~jobs[work[p].query].gone /\ Holds(work[p])
       THEN /\ intents' = [intents EXCEPT ![Intent(p)].state = "uploaded"]
            /\ work' = [work EXCEPT ![p].step = "complete"]
       ELSE Fails(p, "worker") /\ UNCHANGED intents
    /\ UNCHANGED <<jobs, tasks, objects, spent, scope, clients, budget>>

(* Mutant: the fence and the lease of the task are not compared. *)
MayCompleteUnfenced(p) ==
    /\ ScopeHolds(work[p].gen)
    /\ jobs[work[p].query].state = "running" /\ InTime(work[p].query)
    /\ intents[Intent(p)].state = "uploaded"

(* The transaction's checks up to the level's budget. *)
MayComplete(p) ==
    /\ ScopeHolds(work[p].gen)
    /\ Holds(work[p])
    /\ intents[Intent(p)].state = "uploaded"

(* One more output fits into the level's budget. *)
Fits(q, level) == spent[q][level] + 1 <= budget.level

(* CompleteQueryTask: the level's budget is charged, the intent becomes a  *)
(* reference, and the root's output ends the job.  The answer to a         *)
(* committed completion may be lost.                                       *)
CompleteQueryTask(p) ==
    /\ work[p].step = "complete"
    /\ LET q == work[p].query
           k == work[p].key
       IN IF ~MayComplete(p)
          THEN Fails(p, "worker") /\ UNCHANGED <<jobs, tasks, intents, spent, budget>>
          ELSE IF ~Fits(q, k[1])
          THEN Fails(p, "level") /\ UNCHANGED <<jobs, tasks, intents, spent, budget>>
          ELSE /\ spent' = [spent EXCEPT ![q][k[1]] = @ + 1]
               /\ intents' = [intents EXCEPT ![Intent(p)].state = "referenced"]
               /\ tasks' = [tasks EXCEPT ![q][k] =
                      [Released(@, "succeeded") EXCEPT !.result = Intent(p)]]
               /\ jobs' = IF HasConsumer(k) THEN jobs
                          ELSE [jobs EXCEPT ![q] = [EndJob(@, "succeeded", "none")
                                                       EXCEPT !.result = Intent(p)]]
               /\ \/ work' = [work EXCEPT ![p] = NoWork] /\ UNCHANGED budget
                  \/ Fails(p, "worker") /\ Spend("faults")
    /\ UNCHANGED <<objects, scope, clients>>

(* What the callers of Execute tell apart: limits of the child and invalid *)
(* plans are not retried.                                                  *)
Transient(cause) == cause \notin {"invalid", "limit"}
queryFailureCode(cause) == CASE cause = "limit" -> "query_limit_exceeded"
                             [] cause = "invalid" -> "invalid_query_plan"
                             [] OTHER -> "query_worker_failed"

(* FailQueryTask by the fence that runs the task, its lease live or not:   *)
(* the task is queued again, or it and its job fail and the queued tasks   *)
(* are canceled.  Siblings that run are left running.                      *)
MayFail(w) ==
    LET t == tasks[w.query][w.key]
    IN /\ Current(w.gen)
       /\ jobs[w.query].state = "running" /\ InTime(w.query)
       /\ t.state = "running" /\ t.fence = w.fence

(* Mutant: a failed task is dropped without ending its job. *)
FailTaskOnly(w) ==
    LET q == w.query
        retry == Transient(w.cause) /\ w.fence < MaxAttempts
    IN /\ tasks' = [tasks EXCEPT ![q][w.key] = Released(@, IF retry THEN "queued" ELSE "failed")]
       /\ UNCHANGED jobs

FailTask(w) ==
    LET q == w.query
        retry == Transient(w.cause) /\ w.fence < MaxAttempts
    IN IF retry
       THEN /\ tasks' = [tasks EXCEPT ![q][w.key] = Released(@, "queued")]
            /\ UNCHANGED jobs
       ELSE /\ tasks' = [tasks EXCEPT ![q] = [CancelTasks(q, {"queued"})
                             EXCEPT ![w.key] = Released(tasks[q][w.key], "failed")]]
            /\ jobs' = [jobs EXCEPT ![q] = EndJob(@, "failed", queryFailureCode(w.cause))]

(* A request whose report is refused gives up and cancels its query. *)
FailQueryTask(p) ==
    /\ work[p].step = "fail"
    /\ IF MayFail(work[p])
       THEN FailTask(work[p]) /\ UNCHANGED clients
       ELSE /\ clients' = IF p \in QueryIds THEN [clients EXCEPT ![p] = "cancel"] ELSE clients
            /\ UNCHANGED <<jobs, tasks>>
    /\ work' = [work EXCEPT ![p] = NoWork]
    /\ UNCHANGED <<outputs, scope, budget>>

WorkerCrashes(w) ==
    /\ w \in Workers /\ work[w].step # "idle"
    /\ Spend("faults")
    /\ work' = [work EXCEPT ![w] = NoWork]
    /\ UNCHANGED <<jobs, tasks, outputs, scope, clients>>

(***************************************************************************)
(* The request that waits for the result, and what the user does.          *)
(***************************************************************************)

(* GetQueryStatus in the wait of a synchronous request or in a poll.       *)
AwaitStatus(q) ==
    /\ clients[q] = "wait" /\ work[q].step = "idle"
    /\ ~StatusReadable(q) \/ jobs[q].state \in Ended
    /\ clients' = [clients EXCEPT ![q] =
           IF StatusReadable(q) /\ jobs[q].state = "succeeded" THEN "finalize"
           ELSE IF budget.sync THEN "cancel" ELSE "done"]
    /\ UNCHANGED <<jobs, tasks, outputs, scope, work, budget>>

(* The user cancels, a synchronous request is abandoned, or it times out.  *)
GiveUp(q) ==
    /\ clients[q] = "wait"
    /\ \/ Spend("cancels")
       \/ budget.sync /\ jobs[q].late /\ UNCHANGED budget
    /\ clients' = [clients EXCEPT ![q] = "cancel"]
    /\ work' = [work EXCEPT ![q] = NoWork]
    /\ UNCHANGED <<jobs, tasks, outputs, scope>>

CancelQuery(q) ==
    /\ clients[q] = "cancel"
    /\ IF scope.snapshot # "revoked" /\ jobs[q].state \in Live
       THEN /\ jobs' = [jobs EXCEPT ![q] = EndJob(@, "canceled", "canceled")]
            /\ tasks' = [tasks EXCEPT ![q] = CancelTasks(q, {"queued", "running"})]
       ELSE UNCHANGED <<jobs, tasks>>
    /\ clients' = [clients EXCEPT ![q] = "done"]
    /\ UNCHANGED <<outputs, scope, work, budget>>

(* finalizeQueryResult: download, export, and the status once more.        *)
FinalizeResult(q) ==
    /\ clients[q] = "finalize"
    /\ \/ /\ jobs[q].result \in objects /\ StatusReadable(q)
          /\ clients' = [clients EXCEPT ![q] = "done"]
          /\ UNCHANGED budget
       \/ /\ jobs[q].result \notin objects \/ ~StatusReadable(q)
          /\ clients' = [clients EXCEPT ![q] = "result failed"]
          /\ UNCHANGED budget
       \/ /\ clients' = [clients EXCEPT ![q] = "result failed"]
          /\ Spend("faults")
    /\ UNCHANGED <<jobs, tasks, outputs, scope, work>>

FailSucceededQueryResult(q) ==
    /\ clients[q] = "result failed"
    /\ jobs' = IF scope.snapshot # "revoked" /\ jobs[q].state = "succeeded"
               THEN [jobs EXCEPT ![q].state = "failed", ![q].error = "query_result_failed"]
               ELSE jobs
    /\ clients' = [clients EXCEPT ![q] = "done"]
    /\ UNCHANGED <<tasks, outputs, scope, work, budget>>

(***************************************************************************)
(* Time, rights, collection and restore.                                   *)
(***************************************************************************)

(* A lease lapses when its holder is gone, or slow. *)
Executes(p, q, k, fence) ==
    /\ p \in Processes
    /\ work[p].step # "idle" /\ work[p].query = q /\ work[p].key = k /\ work[p].fence = fence
TaskLeaseLapses(q, k) ==
    /\ tasks[q][k].state = "running" /\ tasks[q][k].live
    /\ IF Executes(tasks[q][k].owner, q, k, tasks[q][k].fence) THEN Spend("lapses") ELSE UNCHANGED budget
    /\ tasks' = [tasks EXCEPT ![q][k].live = FALSE]
    /\ UNCHANGED <<jobs, outputs, scope, clients, work>>

Plans(q) == \/ jobs[q].owner = q /\ clients[q] \in {"seal", "planning failed"}
            \/ jobs[q].owner \in Workers /\ work[jobs[q].owner].query = q
                   /\ work[jobs[q].owner].fence = jobs[q].fence
PlanningLeaseLapses(q) ==
    /\ jobs[q].state = "planning" /\ jobs[q].live
    /\ IF Plans(q) THEN Spend("lapses") ELSE UNCHANGED budget
    /\ jobs' = [jobs EXCEPT ![q].live = FALSE]
    /\ UNCHANGED <<tasks, outputs, scope, clients, work>>

DeadlinePasses(q) ==
    /\ jobs[q].state # "none" /\ InTime(q)
    /\ Spend("ends")
    /\ jobs' = [jobs EXCEPT ![q].late = TRUE]
    /\ UNCHANGED <<tasks, outputs, scope, clients, work>>

(* A renewed snapshot outlives the expires_at of its older jobs. *)
JobExpires(q) ==
    /\ jobs[q].state # "none" /\ ~jobs[q].gone
    /\ Spend("ends")
    /\ jobs' = [jobs EXCEPT ![q].gone = TRUE]
    /\ UNCHANGED <<tasks, outputs, scope, clients, work>>

SnapshotEnds(how) ==
    /\ scope.snapshot = "active"
    /\ Spend("ends")
    /\ scope' = [scope EXCEPT !.snapshot = how]
    /\ jobs' = IF how = "revoked" THEN jobs
               ELSE [q \in QueryIds |-> IF jobs[q].state = "none" THEN jobs[q]
                                        ELSE [jobs[q] EXCEPT !.gone = TRUE]]
    /\ UNCHANGED <<tasks, outputs, clients, work>>

(* Garbage collection of outputs: after the job's expiry, its grace is far *)
(* longer than the longest deadline.                                       *)
Collectable(i) == jobs[i[1]].gone /\ jobs[i[1]].late

CollectOutput(i) ==
    /\ intents[i].state # "deleted" /\ Collectable(i)
    /\ intents' = [intents EXCEPT ![i].state = "deleted"]
    /\ objects' = objects \ {i}
    /\ UNCHANGED <<jobs, tasks, spent, scope, clients, work, budget>>

(* A restore: BeginRecoveryVerification revokes the sessions, releases the *)
(* snapshots and cancels what runs; ActivateRecovery only starts the next  *)
(* generation.                                                             *)
BeginRecoveryVerification ==
    /\ scope.gen < budget.generations /\ ~scope.restoring
    /\ scope' = [scope EXCEPT !.snapshot = "revoked", !.restoring = TRUE]
    /\ jobs' = [q \in QueryIds |-> IF jobs[q].state \in Live
                                   THEN EndJob(jobs[q], "canceled", "restore_generation_changed")
                                   ELSE jobs[q]]
    /\ tasks' = [q \in QueryIds |-> CancelTasks(q, {"queued", "running"})]
    /\ UNCHANGED <<outputs, clients, work, budget>>

ActivateRecovery ==
    /\ scope.restoring
    /\ scope' = [scope EXCEPT !.gen = @ + 1, !.restoring = FALSE]
    /\ UNCHANGED <<jobs, tasks, outputs, clients, work, budget>>

ClientStep(q) ==
    \/ CreateQuery(q) \/ ClientSeals(q) \/ ClientFailsPlanning(q) \/ ClientClaims(q)
    \/ AwaitStatus(q) \/ CancelQuery(q) \/ FinalizeResult(q) \/ FailSucceededQueryResult(q)
PlannerStep(w) ==
    \/ LoadQueryPlanContext(w) \/ CoordinatorPlans(w) \/ CoordinatorFails(w) \/ CoordinatorSeals(w)
TaskStep(p) ==
    \/ RunTask(p) \/ RegisterQueryIntent(p) \/ PutOutput(p) \/ MarkQueryIntentUploaded(p)
    \/ CompleteQueryTask(p) \/ FailQueryTask(p)

Next ==
    \/ \E q \in QueryIds :
        \/ ClientStep(q) \/ ClientCrashes(q) \/ GiveUp(q) \/ PlanningLeaseLapses(q)
        \/ DeadlinePasses(q) \/ JobExpires(q)
        \/ \E k \in DOMAIN tasks[q] : TaskLeaseLapses(q, k)
    \/ \E w \in Workers :
        ClaimQueryCoordinator(w) \/ WorkerClaims(w) \/ PlannerStep(w) \/ WorkerCrashes(w)
    \/ \E p \in Processes : TaskStep(p)
    \/ \E how \in {"expired", "revoked"} : SnapshotEnds(how)
    \/ \E i \in DOMAIN intents : CollectOutput(i)
    \/ BeginRecoveryVerification \/ ActivateRecovery

Spec == Init /\ [][Next]_vars

(* Some process that can go on does, an idle worker keeps claiming, and    *)
(* the lease of a holder that is gone lapses.  Faults, slow holders, the   *)
(* user and the ends of deadlines and rights are not promised.  Every step *)
(* leads on, so fairness of the whole is enough.                           *)
Progress ==
    \/ \E q \in QueryIds :
        \/ ClientStep(q)
        \/ PlanningLeaseLapses(q) /\ ~Plans(q)
        \/ \E k \in DOMAIN tasks[q] :
               /\ TaskLeaseLapses(q, k)
               /\ ~Executes(tasks[q][k].owner, q, k, tasks[q][k].fence)
    \/ \E w \in Workers : ClaimQueryCoordinator(w) \/ WorkerClaims(w) \/ PlannerStep(w)
    \/ \E p \in Processes : TaskStep(p)

Fairness == WF_vars(Progress)

FairSpec == Spec /\ Fairness

(***************************************************************************)
(* Properties.                                                             *)
(***************************************************************************)

(* The tree of scans and reducers computes what the query means, for every *)
(* catalog: pruning drops no row of the page and no tie of its last row,   *)
(* and partitioning, halving and fan-in lose and repeat nothing.           *)
PlansAreExact ==
    ~budget.plan.fails => Evaluate(Op, budget.plan.scans, Root(Len(budget.plan.scans))) = Answer(Op, Files)

(* The result of a succeeded query is its operation applied once to every  *)
(* row of its snapshot, whatever was pruned, retried, taken over or        *)
(* completed late.                                                         *)
ResultsAreExact ==
    \A q \in QueryIds :
        jobs[q].state = "succeeded" => intents[jobs[q].result].value = Answer(Op, Files)

(* Until a query expires its result is a referenced, stored object: the    *)
(* collector, late attempts and expiring leases leave it alone.            *)
ResultsAreReadable ==
    \A q \in QueryIds :
        jobs[q].state = "succeeded" /\ ~(jobs[q].gone /\ jobs[q].late) =>
            intents[jobs[q].result].state = "referenced" /\ jobs[q].result \in objects

(* A process that holds its task finds every input of it stored: claims    *)
(* follow the plan's dependencies.                                         *)
InputsAreStored ==
    \A p \in Processes :
        work[p].step = "run" /\ work[p].gen = 1 /\ Holds(work[p]) =>
            /\ Len(work[p].inputs) = Len(TaskInputs(work[p].key))
            /\ \A i \in DOMAIN work[p].inputs : work[p].inputs[i] \in objects

(* A level's budget counts each output that won, and no other: attempts    *)
(* that lost their task are not charged.                                   *)
LevelsAreCharged ==
    \A q \in QueryIds : \A l \in DOMAIN spent[q] :
        spent[q][l] = Cardinality({i \in DOMAIN intents :
                                    /\ i[1] = q /\ i[2][1] = l
                                    /\ tasks[q][i[2]].result = i})

(* No query runs more tasks at a time than the cap, tasks whose lease      *)
(* lapsed and that other workers recover included.                         *)
RunningIsCapped ==
    \A q \in QueryIds : Cardinality(Running(tasks, q)) <= MaxRunningQueryTasks

KeepsEnded ==
    \A q \in QueryIds :
        jobs[q].state \in Ended =>
            /\ \/ jobs'[q].state = jobs[q].state /\ jobs'[q].result = jobs[q].result
               \/ jobs[q].state = "succeeded" /\ jobs'[q].state = "failed"
            /\ \A k \in DOMAIN tasks[q] : tasks'[q][k].result = tasks[q][k].result

(* An ended query stays as it ended, except that a result that cannot be   *)
(* read fails it, and no task of it delivers a result any more: the        *)
(* siblings a failed task leaves running change nothing.                   *)
EndedStaysEnded == [][KeepsEnded]_vars

Settled(q) == jobs[q].state \in Ended \/ jobs[q].late \/ ~ScopeHolds(scope.gen)

(* Every query ends, unless its deadline passes or its snapshot's rights   *)
(* or generation end first: planning is taken over, lapsed tasks are       *)
(* recovered, and tasks without attempts left fail their query.            *)
QueriesEnd == \A q \in QueryIds : jobs[q].state = "planning" ~> Settled(q)

=============================================================================
