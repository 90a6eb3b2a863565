---------------------------- MODULE MCProgress ----------------------------
(***************************************************************************)
(* What the components promise to finish, on instances of MCComponents     *)
(* small enough for TLC's liveness checking.                               *)
(***************************************************************************)
EXTENDS MCComponents

(* The scenarios in which something is left to finish after a fault. *)
ProgressInit ==
    /\ MCInit
    /\ machine = "alerts" =>
          v9.crashes + v9.restores + v9.expiries + v9.faults + v9.floors + v9.steps > 0
    /\ machine = "issues" => v11.crashes > 0
    /\ machine = "access" => ~v9.running
    /\ machine = "deliveries" => v7.restores = 0
    /\ machine = "catalog" => v13 = FaultInTask
    /\ machine = "queries" => /\ v9.queries # {} /\ v9.ends = 0 /\ v9.faults # 2
                              /\ v9.lapses = 3 => v9.sync
    /\ machine = "live" => v8.merges = 0
    /\ machine = "cache" => v8.tasks = 1

ProgressSpec == ProgressInit /\ [][MCNext]_all

-----------------------------------------------------------------------------
(* The fairness of each module, where it is the machine that runs: TLC     *)
(* evaluates a fairness condition in the states of every machine.          *)
alertVars == Alert!vars
issueVars == Issue!vars
deliveryVars == Delivery!vars
accessVars == Identity!vars
catalogVars == Cat!vars
queryVars == Query!vars
streamVars == Stream!vars
cacheVars == Cache!vars
batcherVars == Batching!vars

RuntimeFair ==
    LET Runs == machine = "runtime"
    IN /\ Runs
       /\ \A p \in Parsers :
              /\ WF_vars(Runs /\ RequestStep(p))
              /\ WF_vars(Runs /\ timedOut /\ (Answered(p) \/ Abandoned(p)))
       /\ \A n \in Natives : WF_vars(Runs /\ NativeStep(n))
       /\ WF_vars(Runs /\ DrainTimeout) /\ WF_vars(Runs /\ (Shutdown \/ Drain \/ Join))

AlertsFair ==
    LET Runs == machine = "alerts"
    IN /\ Runs
       /\ WF_alertVars(Runs /\ \E l \in {"l1", "l2"} : Alert!Publish(l))
       /\ \A e \in {"e1", "e2"} : WF_alertVars(Runs /\ Alert!EvaluatorStep(e))
       /\ WF_alertVars(Runs /\ \E s \in DOMAIN v6 : Alert!QueryEnds(s))
       /\ WF_alertVars(Runs /\ \E k \in DOMAIN v5 : ~Alert!Attended(k) /\ Alert!LeaseLapses(k))

IssuesFair ==
    LET Runs == machine = "issues"
    IN Runs /\ \A e \in {"e1", "e2"} : WF_issueVars(Runs /\ Issue!EvaluatorStep(e))

DeliveriesFair ==
    LET Runs == machine = "deliveries"
    IN /\ Runs
       /\ \A w \in {"w1", "w2"} : WF_deliveryVars(Runs /\ Delivery!WorkerStep(w))
       /\ \A d \in {"d1", "d2"} :
             /\ WF_deliveryVars(Runs /\ Delivery!BackoffEnds(d))
             /\ WF_deliveryVars(Runs /\ ~Delivery!Attended(d) /\ Delivery!LeaseLapses(d))

AccessFair ==
    LET Runs == machine = "access"
    IN /\ Runs
       /\ \A h \in {"h1", "h2"} :
             /\ WF_accessVars(Runs /\ Identity!StoreMarker(h))
             /\ WF_accessVars(Runs /\ Identity!FinalizeSetup(h))
             /\ WF_accessVars(Runs /\ Identity!ReserveSetup(h, v1.form))
       /\ WF_accessVars(Runs /\ ~Identity!SetupAttended /\ Identity!SetupLeaseLapses)

BatcherFair ==
    LET Runs == machine = "batcher"
        Scopes == {"t1/1", "t2/1"}
    IN /\ Runs
       /\ WF_batcherVars(Runs /\ Batching!Dispatch) /\ WF_batcherVars(Runs /\ Batching!DispatchEnds)
       /\ WF_batcherVars(Runs /\ Batching!Join) /\ WF_batcherVars(Runs /\ Batching!ReceiveRootDone)
       /\ SF_batcherVars(Runs /\ Batching!ReceiveCompleted)
       /\ \A s \in Scopes :
             SF_batcherVars(Runs /\ \E old \in SUBSET Scopes : s \in old /\ Batching!TimerFires(old))
       /\ \A r \in {"a", "d"} : WF_batcherVars(Runs /\ Batching!Leave(r))
       /\ \A d \in {"d1", "d2"} :
             SF_batcherVars(Runs /\ Batching!ReceiveDrain(d)) /\ WF_batcherVars(Runs /\ Batching!DrainReturns(d))
       /\ WF_batcherVars(Runs /\ \E b \in v8 : Batching!Processed(b))

CatalogFair ==
    LET Runs == machine = "catalog"
    IN /\ Runs
       /\ WF_catalogVars(Runs /\ Cat!AdvanceRetentionFloor)
       /\ WF_catalogVars(Runs /\ Cat!SchedulerStep)
       /\ \A w \in {"w1", "w2"} : WF_catalogVars(Runs /\ (Cat!WorkerStep(w) \/ Cat!LostTaskFails(w)))
       /\ WF_catalogVars(Runs /\ \E t \in Cat!TaskIds : ~Cat!Attended(t) /\ Cat!LeaseExpires(t))
       /\ \A t \in Cat!TaskIds : SF_catalogVars(Runs /\ \E w \in {"w1", "w2"} : Cat!Claim(w, t))

(* A restore in the life of the catalog that keeps the database. *)
RestoreSpec ==
    MCInit /\ v13.generations = 2 /\ v13.rollbacks = 0 /\ [][MCNext]_all /\ CatalogFair

QueriesFair ==
    LET Runs == machine = "queries" IN Runs /\ WF_queryVars(Runs /\ Query!Progress)

LiveFair ==
    LET Runs == machine = "live"
    IN Runs /\ WF_streamVars(Runs /\ Stream!Browse) /\ WF_streamVars(Runs /\ Stream!Poll)

CacheFair ==
    LET Runs == machine = "cache"
    IN Runs /\ \A h \in {"h1", "h2", "h3"} : WF_cacheVars(Runs /\ Cache!ReadStep(h))

-----------------------------------------------------------------------------
(* Two requests of one lane, with a drain that may be cut short. *)
Pair == INSTANCE Batcher WITH
    caller <- v1, canceled <- v2, result <- v3, slots <- v4, pending <- v5, queue <- v6,
    active <- v7, uploads <- v8, completed <- v9, pc <- v10, draining <- v11,
    drainer <- v12, rootDone <- v13,
    Requests <- {"a", "b"}, Tenants <- {"t1"}, Scopes <- {"t1/1"},
    ScopeOf <- [a |-> "t1/1", b |-> "t1/1"], TenantOf <- [s \in {"t1/1"} |-> "t1"],
    Weight <- [a |-> 1, b |-> 1],
    MaxBatchWeight <- 2, MaxBatchRequests <- 2, MaxWaitingRequests <- 2,
    MaxUploadWorkflows <- 1, Drainers <- {"d1"}, DrainMayTimeOut <- TRUE

ASSUME Pair!BatcherAssumption

PairSpec ==
    /\ machine = "pair" /\ Init /\ Pair!Init
    /\ [][Pair!Next /\ UNCHANGED <<machine, vars>>]_all
    /\ Pair!Fairness

-----------------------------------------------------------------------------
(* In a process: a task whose context ends lets go of the slot, its        *)
(* reservation and its child's process group, whatever the child does; a   *)
(* stopping process ends and releases all it reserved, except what a       *)
(* request holds that the drain timeout abandoned; while no drain times    *)
(* out, every request in the batcher is answered, and a drain ends once    *)
(* the workflows have ended.                                               *)
ProcessesSettle ==
    /\ RuntimeFair => CanceledTasksEnd /\ ShutdownDrains
    /\ BatcherFair =>
          /\ \A r \in {"a", "d"} :
                machine = "batcher" /\ v1[r] = "wait" ~> machine = "batcher" /\ v1[r] = "done"
          /\ \A d \in {"d1", "d2"} :
                machine = "batcher" /\ v12[d] # "idle" ~> machine = "batcher" /\ v12[d] = "returned"

(* In alerting, through crashes and takeovers: every reserved window ends  *)
(* unless alerting is held up; every transition committed while a rule     *)
(* asks for it is decided unless the rule is revised or disabled first;    *)
(* every delivery ends unless deliveries are paused for good.              *)
AlertingSettles ==
    /\ AlertsFair => \A end \in 1..2 :
          machine = "alerts" /\ Alert!OpenWindow(end) ~> machine = "alerts" /\ Alert!Settled(end)
    /\ IssuesFair => \A rev \in 1..2 :
          machine = "issues" /\ Issue!Undecided(1, rev) ~> machine = "issues" /\ Issue!Settled(1, rev)
    /\ DeliveriesFair => \A d \in {"d1", "d2"} :
          machine = "deliveries" /\ v1[d].state \in {"queued", "running"}
             ~> machine = "deliveries" /\ Delivery!Settled(d)

(* In durable jobs, through crashes and takeovers: rows past their         *)
(* retention are purged unless the installation is restored meanwhile;     *)
(* every query ends unless its deadline passes or its snapshot's rights or *)
(* generation end first; a reserved setup is completed.                    *)
JobsSettle ==
    /\ CatalogFair =>
          (machine = "catalog" /\ Cat!Expired(1) ~> machine = "catalog" /\ Cat!GoneOrRestored(1))
    /\ QueriesFair => \A q \in {"q1", "q2"} :
          machine = "queries" /\ v1[q].state = "planning" ~> machine = "queries" /\ Query!Settled(q)
    /\ AccessFair =>
          (machine = "access" /\ v1.state = "provisioning" ~> machine = "access" /\ v1.state = "ready")

(* In reading: once publishing stops, the browser has every row published  *)
(* since it started or its stream ended with an event that says so; every  *)
(* request of a block ends unless blocks are evicted forever.              *)
ReadersSettle ==
    /\ LiveFair => <>[](machine = "live" /\ Stream!ToldAll)
    /\ CacheFair => \/ []<><<machine = "cache" /\ Cache!Evicts>>_cacheVars
                    \/ \A h \in {"h1", "h2", "h3"} : []<>(machine = "cache" /\ Cache!Quiet(h))

(* Restoring "fences/requeues unfinished durable work": rows past their    *)
(* retention are purged after a restore, too.                              *)
ExpiredRowsArePurged == machine = "catalog" /\ Cat!Expired(1) ~> machine = "catalog" /\ Cat!Gone(1)

(* "All waiters learn their own result", also when a drain is cut short. *)
WaitersAnswered == Pair!WaitersAnswered
=============================================================================
