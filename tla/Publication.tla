---------------------------- MODULE Publication ----------------------------
(***************************************************************************)
(* The publication pipeline of one tenant: an accepted batch becomes a     *)
(* conversion job, a worker converts it, uploads the bundle files and      *)
(* prepares an output, and a publisher makes the next batch of the lane    *)
(* visible in the catalog.                                                 *)
(*                                                                         *)
(* Every SQL transaction takes its row locks before it reads, so it is one *)
(* action.  What interleaves is everything between two transactions of a   *)
(* task: lease expiry, takeover by another worker, restore activation,     *)
(* garbage collection and S3 requests of a worker whose lease is gone.     *)
(*                                                                         *)
(* Time is abstracted: a lease is live or it is not (jobs[j].live), and a  *)
(* retirement grace may have passed at any moment.                         *)
(***************************************************************************)
EXTENDS Naturals, FiniteSets

CONSTANTS
    Lanes,          \* lane ids
    Workers,        \* worker processes; a worker's identity is its lease owner
    MaxSeq,         \* bound on lanes.accepted_seq
    MaxFence,       \* bound on jobs.fence
    MaxGeneration,  \* bound on installations.storage_generation
    MaxParts,       \* bound on the bundle files of one batch
    PartCounts,     \* numbers of bundle files a batch may convert to
    MaxFaults,      \* bound on expired leases, failed requests and restarts
    GCVerified      \* whether the backup interlock lets GC run

ASSUME PublicationAssumption ==
    /\ MaxSeq \in Nat /\ MaxFence \in Nat /\ MaxGeneration \in Nat
    /\ MaxParts \in Nat /\ MaxFaults \in Nat
    /\ MaxGeneration > 0
    /\ PartCounts \subseteq 0..MaxParts
    /\ GCVerified \in BOOLEAN

NoWorker == "no worker"
ASSUME NoWorkerAssumption == NoWorker \notin Workers

Seqs == 1..MaxSeq
Fences == 1..MaxFence
Generations == 1..MaxGeneration
Parts == 1..MaxParts

(* One conversion job per accepted batch. *)
JobIds == Lanes \X Seqs

(* An object intent: job, fence of the attempt that registered it, file.   *)
(* The object key holds the job, the fence and a fresh bundle id, so the   *)
(* intent and the object share one identity.                               *)
IntentIds == JobIds \X Fences \X Parts

VARIABLES
    generation,     \* installations.storage_generation
    lanes,          \* lanes.accepted_seq, lanes.published_seq
    batches,        \* ingest_batches: state, and the files it converts to
    jobs,           \* jobs
    outputs,        \* job_outputs.state by job and prepare_fence
    intents,        \* object_intents of kind analytics and payload
    files,          \* files: intents of the bundles in the catalog
    objects,        \* object keys present in S3
    booted,         \* storage generation a worker process loaded at start
    native,         \* the task of a worker's native group (conversion, GC)
    publisher,      \* the task of a worker's publication group
    faults          \* faults injected so far

control == <<generation, lanes, batches, jobs, outputs, intents, files>>
vars == <<generation, lanes, batches, jobs, outputs, intents, files,
          objects, booted, native, publisher, faults>>

NoJobId == <<>>

Idle == [step |-> "idle", job |-> NoJobId, fence |-> 0, part |-> 0]

NoPublication == [step |-> "idle", job |-> NoJobId, fence |-> 0, output |-> 0]

NoIntent == [state |-> "none", owner |-> NoWorker, fence |-> 0,
             gen |-> 0, sweeper |-> NoWorker]

NoJob == [state |-> "none", gen |-> 0, fence |-> 0, owner |-> NoWorker,
          live |-> FALSE, output |-> 0]

NativeTasks ==
    [step : {"idle", "load", "register", "put", "mark", "prepare",
             "delete", "confirm"},
     job : JobIds \cup {NoJobId}, fence : 0..MaxFence, part : 0..MaxParts]

PublisherTasks ==
    [step : {"idle", "verify", "publish"},
     job : JobIds \cup {NoJobId}, fence : 0..MaxFence, output : 0..MaxFence]

Jobs ==
    [state : {"none", "queued", "running", "prepared", "completed"},
     gen : 0..MaxGeneration, fence : 0..MaxFence,
     owner : Workers \cup {NoWorker}, live : BOOLEAN, output : 0..MaxFence]

Intents ==
    [state : {"none", "pending", "uploaded", "referenced", "deleting", "deleted"},
     owner : Workers \cup {NoWorker}, fence : 0..MaxFence,
     gen : 0..MaxGeneration, sweeper : Workers \cup {NoWorker}]

(* Types of the rows, the S3 namespace and the workers' local tasks. *)
TypeOK ==
    /\ generation \in Generations
    /\ lanes \in [Lanes -> [accepted : 0..MaxSeq, published : 0..MaxSeq]]
    /\ batches \in [JobIds -> [state : {"none", "accepted", "published"},
                               parts : 0..MaxParts]]
    /\ jobs \in [JobIds -> Jobs]
    /\ outputs \in [JobIds \X Fences -> {"none", "prepared", "published", "discarded"}]
    /\ intents \in [IntentIds -> Intents]
    /\ files \subseteq IntentIds
    /\ objects \subseteq IntentIds
    /\ booted \in [Workers -> Generations]
    /\ native \in [Workers -> NativeTasks]
    /\ publisher \in [Workers -> PublisherTasks]
    /\ faults \in 0..MaxFaults

Init ==
    /\ generation = 1
    /\ lanes = [l \in Lanes |-> [accepted |-> 0, published |-> 0]]
    /\ batches = [j \in JobIds |-> [state |-> "none", parts |-> 0]]
    /\ jobs = [j \in JobIds |-> NoJob]
    /\ outputs = [o \in JobIds \X Fences |-> "none"]
    /\ intents = [i \in IntentIds |-> NoIntent]
    /\ files = {}
    /\ objects = {}
    /\ booted = [w \in Workers |-> 1]
    /\ native = [w \in Workers |-> Idle]
    /\ publisher = [w \in Workers |-> NoPublication]
    /\ faults = 0

-----------------------------------------------------------------------------
(* Authority *)

(* Mutant: the fence is not compared. *)
HoldsAnyFence(w, j, f) ==
    /\ jobs[j].state = "running"
    /\ jobs[j].gen = booted[w]
    /\ jobs[j].owner = w
    /\ jobs[j].live

(* The row predicate every job mutation repeats: running under this owner, *)
(* fence and generation with a live lease.                                 *)
Holds(w, j, f) ==
    /\ jobs[j].state = "running"
    /\ jobs[j].gen = booted[w]
    /\ jobs[j].owner = w
    /\ jobs[j].fence = f
    /\ jobs[j].live

(* lockRuntimeGeneration *)
CurrentGeneration(w) == booted[w] = generation

Authorized(w, t) == CurrentGeneration(w) /\ Holds(w, t.job, t.fence)

(* The intents of the output that attempt f of job j prepares. *)
OutputIntents(j, f) == {<<j, f, p>> : p \in 1..batches[j].parts}

Owned(i, w, f) ==
    intents[i].owner = w /\ intents[i].fence = f /\ intents[i].gen = booted[w]

-----------------------------------------------------------------------------
(* Acceptance: the lane's next batch and its queued conversion job.  The   *)
(* journal and the receipts are the subject of module Acceptance.          *)

Accept(l, n) ==
    LET j == <<l, lanes[l].accepted + 1>>
    IN  /\ lanes[l].accepted < MaxSeq
        /\ lanes' = [lanes EXCEPT ![l].accepted = @ + 1]
        /\ batches' = [batches EXCEPT ![j] = [state |-> "accepted", parts |-> n]]
        /\ jobs' = [jobs EXCEPT ![j] =
                       [state |-> "queued", gen |-> generation, fence |-> 0,
                        owner |-> NoWorker, live |-> FALSE, output |-> 0]]
        /\ UNCHANGED <<generation, outputs, intents, files, objects, booted,
                       native, publisher, faults>>

-----------------------------------------------------------------------------
(* Conversion, run by the native group *)

(* jobs.fence grows on every claim, so no two claims share a fence. *)
ConversionClaimable(w, j) ==
    /\ CurrentGeneration(w)
    /\ jobs[j].gen = booted[w]
    /\ jobs[j].output = 0
    /\ jobs[j].fence < MaxFence
    /\ \/ jobs[j].state = "queued"
       \/ jobs[j].state = "running" /\ ~jobs[j].live

ClaimConversionJob(w, j) ==
    /\ native[w] = Idle
    /\ ConversionClaimable(w, j)
    /\ jobs' = [jobs EXCEPT ![j] = [@ EXCEPT !.state = "running", !.owner = w,
                                             !.fence = jobs[j].fence + 1,
                                             !.live = TRUE]]
    /\ native' = [native EXCEPT ![w] = [step |-> "load", job |-> j,
                                        fence |-> jobs[j].fence + 1, part |-> 0]]
    /\ UNCHANGED <<generation, lanes, batches, outputs, intents, files,
                   objects, booted, publisher, faults>>

(* Mutant: one file too many. *)
AfterPartInclusive(t, p, n) ==
    IF p <= n THEN [t EXCEPT !.step = "register", !.part = p + 1]
              ELSE [t EXCEPT !.step = "prepare", !.part = p]

(* The step after file p of an n-file batch is durable. *)
AfterPart(t, p, n) ==
    IF p < n THEN [t EXCEPT !.step = "register", !.part = p + 1]
             ELSE [t EXCEPT !.step = "prepare", !.part = p]

(* Load the journal and its receipts, download and convert them. *)
LoadConversionWork(w) ==
    LET t == native[w]
    IN  /\ t.step = "load"
        /\ Authorized(w, t)
        /\ jobs[t.job].output = 0
        /\ batches[t.job].state = "accepted"
        /\ native' = [native EXCEPT ![w] = AfterPart(t, 0, batches[t.job].parts)]
        /\ UNCHANGED <<control, objects, booted, publisher, faults>>

TaskIntent(t) == <<t.job, t.fence, t.part>>

RegisterOutputIntent(w) ==
    LET t == native[w]
    IN  /\ t.step = "register"
        /\ Authorized(w, t)
        /\ intents' = [intents EXCEPT ![TaskIntent(t)] =
                          [state |-> "pending", owner |-> w, fence |-> t.fence,
                           gen |-> booted[w], sweeper |-> NoWorker]]
        /\ native' = [native EXCEPT ![w].step = "put"]
        /\ UNCHANGED <<generation, lanes, batches, jobs, outputs, files,
                       objects, booted, publisher, faults>>

(* S3 knows nothing of leases: a worker that lost its job may still PUT. *)
PutObject(w) ==
    LET t == native[w]
    IN  /\ t.step = "put"
        /\ objects' = objects \cup {TaskIntent(t)}
        /\ native' = [native EXCEPT ![w].step = "mark"]
        /\ UNCHANGED <<control, booted, publisher, faults>>

(* Mutant: the update is keyed by the intent alone, not by its state and   *)
(* the job's lease.                                                        *)
MarkByIntentId(w) ==
    LET t == native[w]
        i == TaskIntent(t)
    IN  /\ t.step = "mark"
        /\ Owned(i, w, t.fence)
        /\ intents' = [intents EXCEPT ![i].state = "uploaded"]
        /\ native' = [native EXCEPT ![w] = AfterPart(t, t.part, batches[t.job].parts)]
        /\ UNCHANGED <<generation, lanes, batches, jobs, outputs, files,
                       objects, booted, publisher, faults>>

MarkOutputIntentUploaded(w) ==
    LET t == native[w]
        i == TaskIntent(t)
    IN  /\ t.step = "mark"
        /\ Holds(w, t.job, t.fence)
        /\ intents[i].state = "pending"
        /\ Owned(i, w, t.fence)
        /\ intents' = [intents EXCEPT ![i].state = "uploaded"]
        /\ native' = [native EXCEPT ![w] = AfterPart(t, t.part, batches[t.job].parts)]
        /\ UNCHANGED <<generation, lanes, batches, jobs, outputs, files,
                       objects, booted, publisher, faults>>

(* The output, its parts and its references become durable together, and   *)
(* the job gives up its lease.                                             *)
Prepare(w) ==
    LET t == native[w]
        out == OutputIntents(t.job, t.fence)
    IN  /\ t.step = "prepare"
        /\ Authorized(w, t)
        /\ batches[t.job].state = "accepted"
        /\ outputs[<<t.job, t.fence>>] = "none"
        /\ \A i \in out : intents[i].state = "uploaded" /\ Owned(i, w, t.fence)
        /\ outputs' = [outputs EXCEPT ![<<t.job, t.fence>>] = "prepared"]
        /\ intents' = [i \in IntentIds |->
                          IF i \in out THEN [intents[i] EXCEPT !.state = "referenced"]
                                       ELSE intents[i]]
        /\ jobs' = [jobs EXCEPT ![t.job] = [@ EXCEPT !.state = "prepared",
                          !.output = t.fence, !.owner = NoWorker, !.live = FALSE]]
        /\ native' = [native EXCEPT ![w] = Idle]
        /\ UNCHANGED <<generation, lanes, batches, files, objects, booted,
                       publisher, faults>>

-----------------------------------------------------------------------------
(* Publication *)

(* Every referenced file intent the job ever registered. *)
ReferencedIntents(j) == {i \in IntentIds : i[1] = j /\ intents[i].state = "referenced"}

(* Publication is in lane order. *)
NextInLane(j) == j[2] = lanes[j[1]].published + 1

(* Mutant: a publication whose lease ran out is not offered again. *)
OnlyPrepared(w, j) ==
    /\ jobs[j].gen = booted[w]
    /\ NextInLane(j)
    /\ jobs[j].state = "prepared"
    /\ outputs[<<j, jobs[j].output>>] = "prepared"

(* The lane's next batch, prepared or left behind by a publisher. *)
PublicationCandidate(w, j) ==
    /\ jobs[j].gen = booted[w]
    /\ NextInLane(j)
    /\ jobs[j].output # 0
    /\ \/ jobs[j].state = "prepared"
       \/ jobs[j].state = "running" /\ ~jobs[j].live
    /\ outputs[<<j, jobs[j].output>>] = "prepared"

(* The claim adopts all referenced intents of the job or fails as a whole. *)
ClaimPublicationJob(w, j) ==
    LET ref == ReferencedIntents(j)
        f == jobs[j].fence + 1
    IN  /\ publisher[w] = NoPublication
        /\ CurrentGeneration(w)
        /\ PublicationCandidate(w, j)
        /\ f <= MaxFence
        /\ \A i \in ref : intents[i].gen = booted[w]
        /\ intents' = [i \in IntentIds |->
                          IF i \in ref THEN [intents[i] EXCEPT !.owner = w, !.fence = f]
                                       ELSE intents[i]]
        /\ jobs' = [jobs EXCEPT ![j] = [@ EXCEPT !.state = "running", !.owner = w,
                                                 !.fence = f, !.live = TRUE]]
        /\ publisher' = [publisher EXCEPT ![w] = [step |-> "verify", job |-> j,
                                                  fence |-> f,
                                                  output |-> jobs[j].output]]
        /\ UNCHANGED <<generation, lanes, batches, outputs, files, objects,
                       booted, native, faults>>

(* Outside any transaction: check every referenced object against S3. *)
VerifyPublicationObjects(w) ==
    LET t == publisher[w]
    IN  /\ t.step = "verify"
        /\ Authorized(w, t)
        /\ jobs[t.job].output = t.output
        /\ \A i \in ReferencedIntents(t.job) : Owned(i, w, t.fence) => i \in objects
        /\ publisher' = [publisher EXCEPT ![w].step = "publish"]
        /\ UNCHANGED <<control, objects, booted, native, faults>>

(* Mutant: every upload of the job, not the files the manifest names. *)
InsertAllUploads(j, f) ==
    files \cup {i \in IntentIds : i[1] = j /\ intents[i].state \in {"uploaded", "referenced"}}

(* The bundles and files of the prepared manifest. *)
InsertPublishedCatalog(j, f) == files \cup OutputIntents(j, f)

(* One transaction for the catalog, the batch, the job and the lane's cut. *)
(* The issue rows of the same transaction are not part of this module.     *)
Publish(w) ==
    LET t == publisher[w]
        j == t.job
        out == OutputIntents(j, t.output)
    IN  /\ t.step = "publish"
        /\ Authorized(w, t)
        /\ jobs[j].output = t.output
        /\ NextInLane(j)
        /\ outputs[<<j, t.output>>] = "prepared"
        /\ batches[j].state = "accepted"
        /\ \A i \in out : intents[i].state = "referenced" /\ Owned(i, w, t.fence)
        /\ files' = InsertPublishedCatalog(j, t.output)
        /\ outputs' = [outputs EXCEPT ![<<j, t.output>>] = "published"]
        /\ batches' = [batches EXCEPT ![j].state = "published"]
        /\ jobs' = [jobs EXCEPT ![j] = [@ EXCEPT !.state = "completed",
                                                 !.owner = NoWorker, !.live = FALSE]]
        /\ lanes' = [lanes EXCEPT ![j[1]].published = j[2]]
        /\ publisher' = [publisher EXCEPT ![w] = NoPublication]
        /\ UNCHANGED <<generation, intents, objects, booted, native, faults>>

-----------------------------------------------------------------------------
(* Leases, failures and restarts *)

(* Some task of the job's owner still works under its current fence, and   *)
(* heartbeats while it does.                                               *)
Attended(j) ==
    \E w \in Workers :
        /\ jobs[j].owner = w
        /\ \/ native[w].step \notin {"idle", "delete", "confirm"}
              /\ native[w].job = j /\ native[w].fence = jobs[j].fence
           \/ publisher[w].step # "idle"
              /\ publisher[w].job = j /\ publisher[w].fence = jobs[j].fence

(* Heartbeats keep an attended lease alive except for injected faults (a   *)
(* paused process, a partition); an unattended lease always runs out.      *)
LeaseExpires(j) ==
    /\ jobs[j].state = "running" /\ jobs[j].live
    /\ IF Attended(j) THEN faults < MaxFaults /\ faults' = faults + 1
                      ELSE UNCHANGED faults
    /\ jobs' = [jobs EXCEPT ![j].live = FALSE]
    /\ UNCHANGED <<generation, lanes, batches, outputs, intents, files,
                   objects, booted, native, publisher>>

(* superviseTask: a failed heartbeat, or the step's own authority check,   *)
(* ends a task whose authority is gone; any other error ends it as a fault. *)
(* Nothing is written: the job waits for its lease to run out.             *)
NativeTaskFails(w) ==
    /\ native[w] # Idle
    /\ IF native[w].step \in {"delete", "confirm"} \/ Authorized(w, native[w])
       THEN faults < MaxFaults /\ faults' = faults + 1
       ELSE UNCHANGED faults
    /\ native' = [native EXCEPT ![w] = Idle]
    /\ UNCHANGED <<control, objects, booted, publisher>>

PublisherTaskFails(w) ==
    /\ publisher[w] # NoPublication
    /\ IF Authorized(w, publisher[w])
       THEN faults < MaxFaults /\ faults' = faults + 1
       ELSE UNCHANGED faults
    /\ publisher' = [publisher EXCEPT ![w] = NoPublication]
    /\ UNCHANGED <<control, objects, booted, native>>

(* A process restarts with no tasks and loads the current generation.      *)
Restart(w) ==
    /\ IF CurrentGeneration(w) THEN faults < MaxFaults /\ faults' = faults + 1
                               ELSE UNCHANGED faults
    /\ booted' = [booted EXCEPT ![w] = generation]
    /\ native' = [native EXCEPT ![w] = Idle]
    /\ publisher' = [publisher EXCEPT ![w] = NoPublication]
    /\ UNCHANGED <<control, objects>>

(* Restore activation starts a new storage generation: prepared outputs of *)
(* unfinished jobs are discarded and the jobs requeued above their fence.  *)
ActivateRecovery ==
    LET open == {j \in JobIds : jobs[j].state \in {"queued", "running", "prepared"}}
    IN  /\ generation < MaxGeneration
        /\ \A j \in open : jobs[j].fence < MaxFence
        /\ generation' = generation + 1
        /\ outputs' = [o \in JobIds \X Fences |->
                          IF o[1] \in open /\ jobs[o[1]].output = o[2] /\ outputs[o] = "prepared"
                          THEN "discarded" ELSE outputs[o]]
        /\ jobs' = [j \in JobIds |->
                       IF j \in open
                       THEN [jobs[j] EXCEPT !.state = "queued", !.gen = generation + 1,
                                            !.output = 0, !.owner = NoWorker,
                                            !.live = FALSE,
                                            !.fence = jobs[j].fence + 1]
                       ELSE jobs[j]]
        /\ UNCHANGED <<lanes, batches, intents, files, objects, booted, native,
                       publisher, faults>>

-----------------------------------------------------------------------------
(* Garbage collection of output objects, run by the native group *)

(* Mutant: a running job pins nothing. *)
PinnedByPreparedJob(i) == jobs[i[1]].state = "prepared"

(* A job pins the intents its prepared output or its running attempt needs. *)
PinnedByJob(i) ==
    LET job == jobs[i[1]]
    IN  \/ job.state = "prepared"
        \/ /\ job.state = "running"
           /\ \/ intents[i].state = "referenced"
              \/ job.gen = intents[i].gen /\ job.fence = intents[i].fence

(* Mutant: the catalog is not consulted. *)
CollectibleUnlessPinned(i) ==
    \/ intents[i].state \in {"deleting", "deleted"}
    \/ /\ intents[i].state \in {"pending", "uploaded", "referenced"}
       /\ ~PinnedByJob(i)

(* Mutant: a deleted object is not swept again. *)
CollectibleOnce(i) ==
    \/ intents[i].state = "deleting"
    \/ /\ intents[i].state \in {"pending", "uploaded", "referenced"}
       /\ i \notin files
       /\ ~PinnedByJob(i)

(* gcEligibleSQL; an old enough intent is one whose grace has passed. *)
Collectible(i) ==
    \/ intents[i].state \in {"deleting", "deleted"}
    \/ /\ intents[i].state \in {"pending", "uploaded", "referenced"}
       /\ i \notin files
       /\ ~PinnedByJob(i)

(* gc_attempt names the last claim; so does the worker that made it,       *)
(* because a worker collects one batch at a time.                          *)
ClaimGCObject(w, i) ==
    /\ GCVerified
    /\ native[w] = Idle
    /\ Collectible(i)
    /\ intents' = [intents EXCEPT ![i] = [@ EXCEPT !.state = "deleting",
                                                   !.sweeper = w]]
    /\ native' = [native EXCEPT ![w] = [step |-> "delete", job |-> i[1],
                                        fence |-> i[2], part |-> i[3]]]
    /\ UNCHANGED <<generation, lanes, batches, jobs, outputs, files, objects,
                   booted, publisher, faults>>

DeleteObject(w) ==
    LET t == native[w]
    IN  /\ t.step = "delete"
        /\ objects' = objects \ {TaskIntent(t)}
        /\ native' = [native EXCEPT ![w].step = "confirm"]
        /\ UNCHANGED <<control, booted, publisher, faults>>

(* A confirmation of a claim that was overtaken changes nothing. *)
ConfirmGCObject(w) ==
    LET i == TaskIntent(native[w])
    IN  /\ native[w].step = "confirm"
        /\ intents' = IF intents[i].state = "deleting" /\ intents[i].sweeper = w
                      THEN [intents EXCEPT ![i].state = "deleted"]
                      ELSE intents
        /\ native' = [native EXCEPT ![w] = Idle]
        /\ UNCHANGED <<generation, lanes, batches, jobs, outputs, files,
                       objects, booted, publisher, faults>>

-----------------------------------------------------------------------------
ConversionStep(w) ==
    \/ LoadConversionWork(w) \/ RegisterOutputIntent(w) \/ PutObject(w)
    \/ MarkOutputIntentUploaded(w) \/ Prepare(w)

PublicationStep(w) == VerifyPublicationObjects(w) \/ Publish(w)

CollectionStep(w) == DeleteObject(w) \/ ConfirmGCObject(w)

Next ==
    \/ \E l \in Lanes, n \in PartCounts : Accept(l, n)
    \/ \E w \in Workers, j \in JobIds : ClaimConversionJob(w, j)
    \/ \E w \in Workers : ConversionStep(w)
    \/ \E w \in Workers, j \in JobIds : ClaimPublicationJob(w, j)
    \/ \E w \in Workers : PublicationStep(w)
    \/ \E j \in JobIds : LeaseExpires(j)
    \/ \E w \in Workers : NativeTaskFails(w)
    \/ \E w \in Workers : PublisherTaskFails(w)
    \/ \E w \in Workers : Restart(w)
    \/ ActivateRecovery
    \/ \E w \in Workers, i \in IntentIds : ClaimGCObject(w, i)
    \/ \E w \in Workers : CollectionStep(w)

Spec == Init /\ [][Next]_vars

(* Workers poll: a claim that stays possible is made, a task takes its next *)
(* step or ends once its authority is gone, an unattended lease runs out,  *)
(* and after a restore the processes are restarted.  The native group      *)
(* rotates over its operations, so a claim that is possible again and      *)
(* again is made even if collection runs in between.                       *)
Fairness ==
    /\ \A w \in Workers :
          /\ WF_vars(ConversionStep(w)) /\ WF_vars(PublicationStep(w))
          /\ WF_vars(CollectionStep(w))
          /\ WF_vars(NativeTaskFails(w) /\ UNCHANGED faults)
          /\ WF_vars(PublisherTaskFails(w) /\ UNCHANGED faults)
          /\ SF_vars(\E j \in JobIds : ClaimConversionJob(w, j))
          /\ WF_vars(\E j \in JobIds : ClaimPublicationJob(w, j))
          /\ WF_vars(Restart(w) /\ UNCHANGED faults)
    /\ \A j \in JobIds : WF_vars(LeaseExpires(j) /\ UNCHANGED faults)
    /\ \A i \in IntentIds : SF_vars(\E w \in Workers : ClaimGCObject(w, i))

FairSpec == Spec /\ Fairness

-----------------------------------------------------------------------------
(* Safety *)

(* Publish moves a lane's cut over its batches one by one in accepted      *)
(* order: the batches up to published_seq are exactly the published ones   *)
(* with a completed job, whichever workers converted and published them.   *)
ContiguousCut ==
    \A j \in JobIds :
        /\ batches[j].state = "published" <=> j[2] <= lanes[j[1]].published
        /\ batches[j].state = "none" <=> j[2] > lanes[j[1]].accepted
        /\ batches[j].state = "published" <=> jobs[j].state = "completed"

(* The catalog holds, of a published batch, every file of one attempt and  *)
(* nothing of the attempts that lost their lease, and nothing at all of a  *)
(* batch that is not published (insertPublishedCatalog under takeover).    *)
ExactlyOneOutput ==
    \A j \in JobIds :
        {i \in files : i[1] = j} =
            IF batches[j].state = "published" THEN OutputIntents(j, jobs[j].output)
                                              ELSE {}

(* What a reader finds in the catalog it finds in S3: no file of the       *)
(* catalog is ever marked for deletion or deleted, whatever GC and late    *)
(* requests of stale workers do (gcEligibleSQL against Publish).           *)
CatalogReadable ==
    \A i \in files : i \in objects /\ intents[i].state = "referenced"

(* Contract C01, "a prepared job is independently publishable": from       *)
(* Prepare until Publish or a restore, the output and every object it      *)
(* references survive lease expiry, takeovers, restarts and GC.            *)
PreparedIsDurable ==
    \A j \in JobIds :
        jobs[j].output # 0 /\ jobs[j].state # "completed" =>
            /\ outputs[<<j, jobs[j].output>>] = "prepared"
            /\ \A i \in OutputIntents(j, jobs[j].output) :
                   i \in objects /\ intents[i].state = "referenced"

(* Within a storage generation a prepared output is never replaced: an     *)
(* expired publication is retried, the conversion is not run again, and no *)
(* step moves a fence or a lane's cut backwards.                           *)
OutputIsStable ==
    [][/\ \A j \in JobIds :
            /\ jobs[j].output # 0 /\ generation' = generation
                 => jobs'[j].output = jobs[j].output
            /\ jobs'[j].fence >= jobs[j].fence
       /\ \A l \in Lanes :
            lanes'[l].published \in {lanes[l].published, lanes[l].published + 1}
      ]_vars

(* "Deleting objects cannot publish": an intent GC has marked never leaves *)
(* the deleting/deleted states, whatever a late worker reports about it.   *)
TombstonesStay ==
    [][\A i \in IntentIds :
          intents[i].state \in {"deleting", "deleted"} =>
              intents'[i].state \in {"deleting", "deleted"} /\ i \notin files']_vars

-----------------------------------------------------------------------------
(* The invariants behind the safety properties *)

Converting == {"load", "register", "put", "mark", "prepare"}

(* A job has an output from Prepare on, until it completes or is requeued. *)
JobShape ==
    \A j \in JobIds :
        /\ jobs[j].state = "none" <=> batches[j].state = "none"
        /\ jobs[j].state = "none" => jobs[j].fence = 0
        /\ jobs[j].state \in {"none", "queued"} => jobs[j].output = 0
        /\ jobs[j].state \in {"prepared", "completed"} => jobs[j].output # 0

(* A converter's fence is a past fence of its job unless it is the holder, *)
(* and the files it has yet to register have no intent.                    *)
FencedConverter(w) ==
    LET t == native[w]
    IN  t.step \in Converting =>
            /\ t.job \in JobIds /\ t.fence \in Fences
            /\ t.fence <= jobs[t.job].fence
            /\ jobs[t.job].state = "running" /\ jobs[t.job].fence = t.fence
                   => jobs[t.job].owner = w /\ jobs[t.job].output = 0
            /\ t.step = "load" => t.part = 0
            /\ t.step \in {"register", "put", "mark"} => t.part \in Parts
            /\ \A p \in Parts :
                   p > t.part => intents[<<t.job, t.fence, p>>].state = "none"
            /\ t.step = "register" => intents[TaskIntent(t)].state = "none"
            /\ t.step = "mark" =>
                   \/ TaskIntent(t) \in objects
                   \/ intents[TaskIntent(t)].state \in {"deleting", "deleted"}

FencedConverters == \A w \in Workers : FencedConverter(w)

(* A publisher names an output; a collector deletes only what is marked. *)
PublishersAndCollectors ==
    \A w \in Workers :
        /\ publisher[w].step # "idle" =>
               publisher[w].job \in JobIds /\ publisher[w].output \in Fences
        /\ native[w].step \in {"delete", "confirm"} =>
               /\ TaskIntent(native[w]) \in IntentIds
               /\ intents[TaskIntent(native[w])].state \in {"deleting", "deleted"}

(* Intents belong to attempts that were claimed, and an intent is uploaded *)
(* or referenced only while its object is in S3.                           *)
IntentsMatchObjects ==
    \A i \in IntentIds :
        /\ intents[i].state # "none" => i[2] <= jobs[i[1]].fence
        /\ intents[i].state \in {"uploaded", "referenced"} => i \in objects

(* The inductive invariant: the safety properties hold after every step of *)
(* every action because of these relations between jobs, tasks, intents    *)
(* and objects.                                                            *)
Inductive ==
    /\ TypeOK
    /\ JobShape
    /\ FencedConverters
    /\ PublishersAndCollectors
    /\ IntentsMatchObjects
    /\ ContiguousCut
    /\ ExactlyOneOutput
    /\ CatalogReadable
    /\ PreparedIsDurable

-----------------------------------------------------------------------------
(* Liveness *)

(* An acknowledged batch becomes visible, as long as faults stop: no lease, *)
(* fence or prepared output left behind by a lost worker blocks its lane.  *)
AcceptedIsPublished ==
    \A j \in JobIds : batches[j].state = "accepted" ~> batches[j].state = "published"

Orphan(i) == batches[i[1]].state = "published" /\ i \in objects /\ i \notin files

(* Objects of attempts that lost do not stay: once a batch is published,   *)
(* every object its catalog files do not name is eventually deleted, the   *)
(* ones a stale worker PUTs after their deletion included (the resweep of  *)
(* deleted tombstones in gcEligibleSQL).                                   *)
OrphansAreCollected == \A i \in IntentIds : Orphan(i) ~> i \notin objects

=============================================================================
