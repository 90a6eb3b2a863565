------------------------- MODULE PublicationProofs -------------------------
(***************************************************************************)
(* Proofs about the publication pipeline, for every value of its           *)
(* constants.  Inductive is inductive: one lemma per action, each with one *)
(* step per conjunct the action can disturb.  The safety and the action    *)
(* properties follow from it.                                              *)
(***************************************************************************)
EXTENDS Publication, TLAPS

(* The empty control plane satisfies the inductive invariant. *)
LEMMA InitInductive == Init => Inductive
<1> SUFFICES ASSUME Init PROVE Inductive
    OBVIOUS
<1> USE DEF Init, JobIds, IntentIds, Seqs, Fences, Generations, Parts, NoJob, NoIntent, Idle, NoPublication
<1>1. TypeOK
    BY PublicationAssumption, NoWorkerAssumption DEF TypeOK, Jobs, Intents, NativeTasks, PublisherTasks
<1>2. JobShape /\ FencedConverters /\ PublishersAndCollectors /\ IntentsMatchObjects
    BY DEF JobShape, FencedConverters, FencedConverter, PublishersAndCollectors, IntentsMatchObjects, Converting
<1>3. ContiguousCut /\ ExactlyOneOutput /\ CatalogReadable /\ PreparedIsDurable
    BY PublicationAssumption DEF ContiguousCut, ExactlyOneOutput, CatalogReadable, PreparedIsDurable
<1> QED
    BY <1>1, <1>2, <1>3 DEF Inductive

(* A converter that a step does not run keeps its relation to its job and  *)
(* its files if the step leaves the job's lease alone, registers none of   *)
(* those files, and deletes only marked ones.                              *)
LEMMA UndisturbedConverter ==
    ASSUME Inductive, NEW v \in Workers, native'[v] = native[v],
           \A k \in JobIds :
               /\ jobs'[k].state = jobs[k].state /\ jobs'[k].owner = jobs[k].owner
               /\ jobs'[k].fence = jobs[k].fence /\ jobs'[k].output = jobs[k].output,
           native[v].step \in Converting =>
               \A p \in Parts :
                   LET i == <<native[v].job, native[v].fence, p>>
                   IN  /\ intents[i].state = "none" => intents'[i].state = "none"
                       /\ i \in objects \/ intents[i].state \in {"deleting", "deleted"} =>
                              \/ i \in objects'
                              \/ intents'[i].state \in {"deleting", "deleted"}
    PROVE  FencedConverter(v)'
<1> SUFFICES ASSUME native[v].step \in Converting PROVE FencedConverter(v)'
    BY DEF FencedConverter
<1> DEFINE t == native[v]
<1>1. FencedConverter(v)
    BY DEF Inductive, FencedConverters
<1>2. /\ t.job \in JobIds /\ t.fence \in Fences
      /\ t.step \in {"register", "put", "mark"} => t.part \in Parts
      /\ t.step = "load" => t.part = 0
    BY <1>1 DEF FencedConverter
<1>3. /\ t.fence <= jobs'[t.job].fence
      /\ jobs'[t.job].state = "running" /\ jobs'[t.job].fence = t.fence
             => jobs'[t.job].owner = v /\ jobs'[t.job].output = 0
    BY <1>1, <1>2 DEF FencedConverter
<1>4. \A p \in Parts : p > t.part => intents'[<<t.job, t.fence, p>>].state = "none"
    BY <1>1 DEF FencedConverter
<1>5. t.step = "register" => intents'[TaskIntent(t)].state = "none"
    BY <1>1, <1>2 DEF FencedConverter, TaskIntent
<1>6. t.step = "mark" => \/ TaskIntent(t) \in objects'
                         \/ intents'[TaskIntent(t)].state \in {"deleting", "deleted"}
    BY <1>1, <1>2 DEF FencedConverter, TaskIntent
<1> QED
    BY <1>2, <1>3, <1>4, <1>5, <1>6 DEF FencedConverter, TaskIntent

(* The files of a job's output are intents. *)
LEMMA OutputIntentsTyped ==
    ASSUME Inductive, NEW k \in JobIds, jobs[k].output # 0
    PROVE  OutputIntents(k, jobs[k].output) \subseteq IntentIds
<1>1. jobs[k] \in Jobs /\ batches[k].parts \in 0..MaxParts
    BY DEF Inductive, TypeOK
<1>2. jobs[k].output \in Fences
    BY <1>1, PublicationAssumption DEF Jobs, Fences
<1>3. \A p \in 1..batches[k].parts : p \in Parts
    BY <1>1, PublicationAssumption DEF Parts
<1> QED
    BY <1>2, <1>3 DEF OutputIntents, IntentIds

(* A step that changes neither the catalog nor the batches leaves every    *)
(* published batch its one output.                                         *)
LEMMA UndisturbedCatalog ==
    ASSUME Inductive, UNCHANGED <<files, batches>>,
           \A k \in JobIds : jobs[k].state = "completed" => jobs'[k].output = jobs[k].output
    PROVE  ExactlyOneOutput'
<1> SUFFICES ASSUME NEW k \in JobIds
             PROVE  {i \in files' : i[1] = k} =
                        IF batches'[k].state = "published"
                        THEN OutputIntents(k, jobs[k].output)' ELSE {}
    BY DEF ExactlyOneOutput
<1>1. {i \in files : i[1] = k} =
          IF batches[k].state = "published" THEN OutputIntents(k, jobs[k].output) ELSE {}
    BY DEF Inductive, ExactlyOneOutput
<1>2. batches[k].state = "published" => jobs[k].state = "completed"
    BY DEF Inductive, ContiguousCut
<1>3. batches[k].state = "published" =>
          OutputIntents(k, jobs[k].output)' = OutputIntents(k, jobs[k].output)
    BY <1>2 DEF OutputIntents
<1> QED
    BY <1>1, <1>3

(* Publish: the catalog, the batch, the job and the lane move together, so *)
(* the cut stays contiguous and the batch gets exactly the files of its    *)
(* prepared output.                                                        *)
LEMMA PublishInductive ==
    ASSUME Inductive, NEW w \in Workers, Publish(w)
    PROVE  Inductive'
<1> DEFINE t == publisher[w]
           j == t.job
           out == OutputIntents(j, t.output)
<1>a. /\ j \in JobIds /\ t.output \in Fences
      /\ jobs[j].output = t.output /\ jobs[j].state = "running"
      /\ batches[j].state = "accepted"
      /\ j[2] = lanes[j[1]].published + 1
      /\ j[1] \in Lanes /\ j[2] \in Seqs
      /\ \A i \in out : intents[i].state = "referenced"
    BY DEF Inductive, PublishersAndCollectors, Publish, NextInLane, Authorized, Holds, JobIds
<1>b. out \subseteq IntentIds
    BY <1>a, PublicationAssumption DEF Inductive, TypeOK, OutputIntents, IntentIds, Parts
<1>c. /\ files' = files \cup out
      /\ outputs' = [outputs EXCEPT ![<<j, t.output>>] = "published"]
      /\ batches' = [batches EXCEPT ![j].state = "published"]
      /\ jobs' = [jobs EXCEPT ![j] = [@ EXCEPT !.state = "completed",
                                               !.owner = NoWorker, !.live = FALSE]]
      /\ lanes' = [lanes EXCEPT ![j[1]].published = j[2]]
      /\ publisher' = [publisher EXCEPT ![w] = NoPublication]
      /\ UNCHANGED <<generation, intents, objects, booted, native, faults>>
    BY DEF Publish, InsertPublishedCatalog
<1>d. /\ \A k \in JobIds : /\ jobs'[k].fence = jobs[k].fence
                           /\ jobs'[k].output = jobs[k].output
                           /\ batches'[k].parts = batches[k].parts
      /\ \A k \in JobIds \ {j} : jobs'[k] = jobs[k] /\ batches'[k] = batches[k]
      /\ jobs'[j].state = "completed" /\ batches'[j].state = "published"
  <2>1. jobs \in [JobIds -> Jobs] /\ DOMAIN batches = JobIds
      BY DEF Inductive, TypeOK
  <2>2. \A k \in JobIds \ {j} : jobs'[k] = jobs[k] /\ batches'[k] = batches[k]
      BY <1>c, <2>1
  <2>3. /\ jobs'[j] = [jobs[j] EXCEPT !.state = "completed", !.owner = NoWorker, !.live = FALSE]
        /\ batches'[j] = [batches[j] EXCEPT !.state = "published"]
      BY <1>a, <1>c, <2>1
  <2>4. /\ jobs'[j].fence = jobs[j].fence /\ jobs'[j].output = jobs[j].output
        /\ jobs'[j].state = "completed"
      BY <1>a, <2>1, <2>3 DEF Jobs
  <2>5. batches'[j].parts = batches[j].parts /\ batches'[j].state = "published"
      BY <1>a, <2>3 DEF Inductive, TypeOK
  <2> QED
      BY <2>2, <2>4, <2>5
<1> HIDE DEF t, j, out
<1>1. TypeOK'
  <2>0. jobs[j] \in Jobs /\ [jobs[j] EXCEPT !.state = "completed", !.owner = NoWorker, !.live = FALSE] \in Jobs
      BY <1>a DEF Inductive, TypeOK, Jobs
  <2>1. jobs' \in [JobIds -> Jobs]
      BY <2>0, <1>a, <1>c DEF Inductive, TypeOK
  <2>2. lanes' \in [Lanes -> [accepted : 0..MaxSeq, published : 0..MaxSeq]]
      BY <1>a, <1>c, PublicationAssumption DEF Inductive, TypeOK, Seqs
  <2>3. publisher' \in [Workers -> PublisherTasks]
      BY <1>c, PublicationAssumption DEF Inductive, TypeOK, PublisherTasks, NoPublication
  <2> QED
      BY <2>1, <2>2, <2>3, <1>a, <1>b, <1>c DEF Inductive, TypeOK
<1>2. JobShape'
    BY <1>a, <1>d DEF Inductive, JobShape, Fences
<1>3. FencedConverters'
  <2>1. \A k \in JobIds : jobs'[k].state = "running" => jobs'[k] = jobs[k]
      BY <1>d
  <2> QED
      BY SMTT(30), <2>1, <1>c, <1>d DEF Inductive, FencedConverters, FencedConverter, TaskIntent
<1>4. PublishersAndCollectors'
    BY <1>c DEF Inductive, PublishersAndCollectors, TypeOK, NoPublication, TaskIntent
<1>5. IntentsMatchObjects'
    BY <1>c, <1>d DEF Inductive, IntentsMatchObjects, IntentIds
<1>6. ContiguousCut'
  <2> SUFFICES ASSUME NEW k \in JobIds
               PROVE  /\ batches'[k].state = "published" <=> k[2] <= lanes'[k[1]].published
                      /\ batches'[k].state = "none" <=> k[2] > lanes'[k[1]].accepted
                      /\ batches'[k].state = "published" <=> jobs'[k].state = "completed"
      BY DEF ContiguousCut
  <2>1. k[1] \in Lanes /\ k[2] \in Nat /\ k = <<k[1], k[2]>> /\ j = <<j[1], j[2]>>
      BY <1>a DEF JobIds, Seqs
  <2>2. lanes[k[1]].published \in Nat /\ lanes[k[1]].accepted \in Nat
      BY <2>1 DEF Inductive, TypeOK
  <2>3. /\ lanes'[k[1]].accepted = lanes[k[1]].accepted
        /\ lanes'[k[1]].published = IF k[1] = j[1] THEN j[2] ELSE lanes[k[1]].published
      BY <1>a, <1>c, <2>1 DEF Inductive, TypeOK
  <2>4. CASE k = j
      BY <1>a, <1>d, <2>1, <2>2, <2>3, <2>4 DEF Inductive, ContiguousCut
  <2>5. CASE k # j
    <3>1. k[1] = j[1] => k[2] # lanes[k[1]].published + 1
        BY <1>a, <2>1, <2>5
    <3> QED
        BY SMTT(30), <1>a, <1>d, <2>1, <2>2, <2>3, <2>5, <3>1 DEF Inductive, ContiguousCut
  <2> QED
      BY <2>4, <2>5
<1>7. ExactlyOneOutput'
  <2> SUFFICES ASSUME NEW k \in JobIds
               PROVE  {i \in files' : i[1] = k} =
                          IF batches'[k].state = "published"
                          THEN OutputIntents(k, jobs[k].output)' ELSE {}
      BY DEF ExactlyOneOutput
  <2>1. \A i \in out : i[1] = j
      BY DEF out, OutputIntents
  <2>2. OutputIntents(k, jobs[k].output)' = OutputIntents(k, jobs[k].output)
      BY <1>d DEF OutputIntents
  <2>3. CASE k = j
      BY <1>a, <1>c, <1>d, <2>1, <2>2, <2>3 DEF Inductive, ExactlyOneOutput, out
  <2>4. CASE k # j
      BY <1>c, <1>d, <2>1, <2>2, <2>4 DEF Inductive, ExactlyOneOutput
  <2> QED
      BY <2>3, <2>4
<1>8. CatalogReadable'
    BY <1>a, <1>b, <1>c DEF Inductive, CatalogReadable, IntentsMatchObjects
<1>9. PreparedIsDurable'
  <2> SUFFICES ASSUME NEW k \in JobIds, jobs'[k].output # 0, jobs'[k].state # "completed"
               PROVE  /\ outputs'[<<k, jobs'[k].output>>] = "prepared"
                      /\ \A i \in OutputIntents(k, jobs[k].output)' :
                             i \in objects' /\ intents'[i].state = "referenced"
      BY DEF PreparedIsDurable
  <2>1. k # j /\ jobs'[k] = jobs[k] /\ batches'[k] = batches[k]
      BY <1>d
  <2>2. OutputIntents(k, jobs[k].output)' = OutputIntents(k, jobs[k].output)
      BY <2>1 DEF OutputIntents
  <2>3. outputs'[<<k, jobs[k].output>>] = outputs[<<k, jobs[k].output>>]
      BY <1>a, <1>c, <2>1 DEF Inductive, TypeOK, Jobs, Fences
  <2> QED
      BY <1>c, <2>1, <2>2, <2>3 DEF Inductive, PreparedIsDurable
<1> QED
    BY <1>1, <1>2, <1>3, <1>4, <1>5, <1>6, <1>7, <1>8, <1>9 DEF Inductive

(* Accept: the new batch has no job, output, intent or file yet. *)
LEMMA AcceptInductive ==
    ASSUME Inductive, NEW l \in Lanes, NEW n \in PartCounts, Accept(l, n)
    PROVE  Inductive'
<1> DEFINE j == <<l, lanes[l].accepted + 1>>
<1>a. lanes[l].accepted \in 0..MaxSeq /\ lanes[l].accepted + 1 \in Seqs
    BY PublicationAssumption DEF Inductive, TypeOK, Accept, Seqs
<1>b. j \in JobIds /\ n \in 0..MaxParts /\ j[1] = l /\ j[2] = lanes[l].accepted + 1
    BY <1>a, PublicationAssumption DEF JobIds
<1>c. batches[j].state = "none" /\ jobs[j].state = "none"
    BY <1>a, <1>b DEF Inductive, ContiguousCut, JobShape, Seqs
<1>d. /\ batches' = [batches EXCEPT ![j] = [state |-> "accepted", parts |-> n]]
      /\ jobs' = [jobs EXCEPT ![j] = [state |-> "queued", gen |-> generation, fence |-> 0,
                                      owner |-> NoWorker, live |-> FALSE, output |-> 0]]
      /\ lanes' = [lanes EXCEPT ![l].accepted = @ + 1]
      /\ UNCHANGED <<generation, outputs, intents, files, objects, booted,
                     native, publisher, faults>>
    BY DEF Accept
<1> HIDE DEF j
<1>1. TypeOK'
    BY SMTT(30), <1>a, <1>b, <1>d, PublicationAssumption DEF Inductive, TypeOK, Jobs, Generations, Seqs
<1>2. JobShape'
    BY <1>b, <1>c, <1>d DEF Inductive, JobShape, TypeOK
<1>3. FencedConverters'
  <2>1. \A v \in Workers : native[v].step \in Converting => native[v].job # j
      BY <1>b, <1>c DEF Inductive, FencedConverters, FencedConverter, JobShape, Fences
  <2> QED
      BY <2>1, <1>b, <1>d DEF Inductive, FencedConverters, FencedConverter, TypeOK, TaskIntent
<1>4. PublishersAndCollectors'
    BY <1>d DEF Inductive, PublishersAndCollectors, TaskIntent
<1>5. IntentsMatchObjects'
  <2>1. \A i \in IntentIds : i[1] = j => intents[i].state = "none"
      BY <1>b, <1>c DEF Inductive, IntentsMatchObjects, JobShape, IntentIds, Fences
  <2> QED
      BY <2>1, <1>b, <1>d DEF Inductive, IntentsMatchObjects, TypeOK, IntentIds
<1>6. ContiguousCut'
  <2> SUFFICES ASSUME NEW k \in JobIds
               PROVE  /\ batches'[k].state = "published" <=> k[2] <= lanes'[k[1]].published
                      /\ batches'[k].state = "none" <=> k[2] > lanes'[k[1]].accepted
                      /\ batches'[k].state = "published" <=> jobs'[k].state = "completed"
      BY DEF ContiguousCut
  <2>1. k[1] \in Lanes /\ k[2] \in Nat /\ k = <<k[1], k[2]>>
      BY DEF JobIds, Seqs
  <2>2. lanes[k[1]].published \in Nat /\ lanes[k[1]].accepted \in Nat
      BY <2>1 DEF Inductive, TypeOK
  <2>3. /\ lanes'[k[1]].published = lanes[k[1]].published
        /\ lanes'[k[1]].accepted = IF k[1] = l THEN lanes[l].accepted + 1 ELSE lanes[k[1]].accepted
      BY <1>d, <2>1 DEF Inductive, TypeOK
  <2>4. CASE k = j
      BY <1>b, <1>c, <1>d, <2>1, <2>2, <2>3, <2>4 DEF Inductive, ContiguousCut, TypeOK
  <2>5. CASE k # j
    <3>1. k[1] = l => k[2] # lanes[l].accepted + 1
        BY <1>b, <2>1, <2>5 DEF j
    <3>2. batches'[k] = batches[k] /\ jobs'[k] = jobs[k]
        BY <1>b, <1>d, <2>5 DEF Inductive, TypeOK
    <3> QED
        BY <2>1, <2>2, <2>3, <3>1, <3>2 DEF Inductive, ContiguousCut
  <2> QED
      BY <2>4, <2>5
<1>7. ExactlyOneOutput'
    BY <1>b, <1>c, <1>d DEF Inductive, ExactlyOneOutput, TypeOK, OutputIntents
<1>8. CatalogReadable'
    BY <1>d DEF Inductive, CatalogReadable
<1>9. PreparedIsDurable'
    BY <1>b, <1>c, <1>d DEF Inductive, PreparedIsDurable, TypeOK, OutputIntents
<1> QED
    BY <1>1, <1>2, <1>3, <1>4, <1>5, <1>6, <1>7, <1>8, <1>9 DEF Inductive

-----------------------------------------------------------------------------
(* Steps that leave the database alone and delete no object *)

(* A step that only changes a worker's local task, or adds objects to S3,  *)
(* preserves the invariant if it preserves the types and the task          *)
(* invariants.                                                             *)
LEMMA TaskStepInductive ==
    ASSUME Inductive, UNCHANGED control, objects \subseteq objects',
           TypeOK', FencedConverters', PublishersAndCollectors'
    PROVE  Inductive'
<1>1. JobShape' /\ ContiguousCut' /\ ExactlyOneOutput'
    BY DEF Inductive, control, JobShape, ContiguousCut, ExactlyOneOutput, OutputIntents
<1>2. IntentsMatchObjects' /\ CatalogReadable' /\ PreparedIsDurable'
    BY DEF Inductive, control, IntentsMatchObjects, CatalogReadable, PreparedIsDurable,
           OutputIntents
<1> QED
    BY <1>1, <1>2 DEF Inductive

(* AfterPart goes on with the next file of the batch or, after the last    *)
(* one, to Prepare.                                                        *)
LEMMA AfterPartFacts ==
    ASSUME NEW t \in NativeTasks, NEW p \in 0..MaxParts, NEW n \in 0..MaxParts
    PROVE  LET u == AfterPart(t, p, n)
           IN  /\ u \in NativeTasks /\ u.job = t.job /\ u.fence = t.fence
               /\ \/ u.step = "register" /\ u.part = p + 1 /\ u.part \in Parts
                  \/ u.step = "prepare" /\ u.part = p
<1>1. CASE p < n
  <2>1. AfterPart(t, p, n) = [t EXCEPT !.step = "register", !.part = p + 1]
      BY <1>1 DEF AfterPart
  <2>2. p + 1 \in Parts /\ p + 1 \in 0..MaxParts
      BY <1>1, PublicationAssumption DEF Parts
  <2> QED
      BY <2>1, <2>2 DEF NativeTasks
<1>2. CASE ~(p < n)
  <2>1. AfterPart(t, p, n) = [t EXCEPT !.step = "prepare", !.part = p]
      BY <1>2 DEF AfterPart
  <2> QED
      BY <2>1 DEF NativeTasks
<1> QED
    BY <1>1, <1>2

(* LoadConversionWork only starts the first file of the batch. *)
LEMMA LoadInductive ==
    ASSUME Inductive, NEW w \in Workers, LoadConversionWork(w)
    PROVE  Inductive'
<1> DEFINE t == native[w]
           n == batches[t.job].parts
           u == AfterPart(t, 0, n)
<1>a. /\ t.step = "load" /\ t \in NativeTasks
      /\ native' = [native EXCEPT ![w] = u]
      /\ UNCHANGED control /\ UNCHANGED <<objects, booted, publisher, faults>>
    BY DEF LoadConversionWork, Inductive, TypeOK
<1>b. /\ t.job \in JobIds /\ t.fence \in Fences /\ n \in 0..MaxParts
      /\ \A p \in Parts : intents[<<t.job, t.fence, p>>].state = "none"
      /\ t.fence <= jobs[t.job].fence
      /\ jobs[t.job].state = "running" /\ jobs[t.job].fence = t.fence
             => jobs[t.job].owner = w /\ jobs[t.job].output = 0
    BY <1>a DEF Inductive, FencedConverters, FencedConverter, TypeOK, Converting, Parts
<1> HIDE DEF t, n
<1>c. /\ u \in NativeTasks /\ u.job = t.job /\ u.fence = t.fence
      /\ \/ u.step = "register" /\ u.part \in Parts
         \/ u.step = "prepare"
    BY <1>a, <1>b, AfterPartFacts, PublicationAssumption
<1> HIDE DEF u
<1>1. TypeOK'
    BY <1>a, <1>c DEF Inductive, TypeOK, control
<1>2. FencedConverters'
  <2> SUFFICES ASSUME NEW v \in Workers PROVE FencedConverter(v)'
      BY DEF FencedConverters
  <2>1. CASE v = w
      BY <1>a, <1>b, <1>c, <2>1 DEF Inductive, FencedConverter, TypeOK, control, TaskIntent, Converting
  <2>2. CASE v # w
    <3>1. native'[v] = native[v]
        BY <1>a, <2>2 DEF Inductive, TypeOK
    <3>2. UNCHANGED <<jobs, intents, objects>>
        BY <1>a DEF control
    <3> QED
        BY <3>1, <3>2, UndisturbedConverter
  <2> QED
      BY <2>1, <2>2
<1>3. PublishersAndCollectors'
    BY <1>a, <1>c DEF Inductive, PublishersAndCollectors, TypeOK, control, TaskIntent
<1> QED
    BY <1>1, <1>2, <1>3, <1>a, TaskStepInductive

(* PutObject only adds an object, also when the worker has lost its lease. *)
LEMMA PutInductive ==
    ASSUME Inductive, NEW w \in Workers, PutObject(w)
    PROVE  Inductive'
<1> DEFINE t == native[w]
           i == TaskIntent(t)
<1>a. /\ t.step = "put" /\ t \in NativeTasks
      /\ objects' = objects \cup {i}
      /\ native' = [native EXCEPT ![w].step = "mark"]
      /\ UNCHANGED control /\ UNCHANGED <<booted, publisher, faults>>
    BY DEF PutObject, Inductive, TypeOK
<1>b. FencedConverter(w) /\ i \in IntentIds
    BY <1>a DEF Inductive, FencedConverters, FencedConverter, Converting, TaskIntent, IntentIds
<1>1. TypeOK'
    BY <1>a, <1>b DEF Inductive, TypeOK, control, NativeTasks
<1>2. FencedConverters'
  <2> SUFFICES ASSUME NEW v \in Workers PROVE FencedConverter(v)'
      BY DEF FencedConverters
  <2>1. CASE v = w
    <3>1. native'[w].step = "mark" /\ native'[w].job = t.job /\ native'[w].fence = t.fence
          /\ native'[w].part = t.part
        BY <1>a DEF Inductive, TypeOK, NativeTasks
    <3> QED
        BY <1>a, <1>b, <2>1, <3>1 DEF FencedConverter, control, TaskIntent, Converting
  <2>2. CASE v # w
      BY <1>a, <2>2 DEF Inductive, FencedConverters, FencedConverter, TypeOK, control, TaskIntent
  <2> QED
      BY <2>1, <2>2
<1>3. PublishersAndCollectors'
    BY <1>a DEF Inductive, PublishersAndCollectors, TypeOK, control, TaskIntent
<1> QED
    BY <1>1, <1>2, <1>3, <1>a, TaskStepInductive

(* A task that ends, with or without its process, leaves nothing behind    *)
(* that the invariant speaks about.                                        *)
LEMMA TaskEndInductive ==
    ASSUME Inductive, UNCHANGED control, UNCHANGED objects,
           NEW w \in Workers,
           faults' \in 0..MaxFaults,
           booted' = booted \/ booted' = [booted EXCEPT ![w] = generation],
           native' = native \/ native' = [native EXCEPT ![w] = Idle],
           publisher' = publisher \/ publisher' = [publisher EXCEPT ![w] = NoPublication]
    PROVE  Inductive'
<1>1. Idle \in NativeTasks /\ NoPublication \in PublisherTasks
    BY PublicationAssumption DEF Idle, NoPublication, NativeTasks, PublisherTasks
<1>2. \A v \in Workers :
        /\ native'[v] = native[v] \/ native'[v] = Idle
        /\ publisher'[v] = publisher[v] \/ publisher'[v] = NoPublication
    BY DEF Inductive, TypeOK
<1>3. TypeOK'
    BY ZenonT(40), <1>1 DEF Inductive, TypeOK, control
<1>4. FencedConverters'
  <2> SUFFICES ASSUME NEW v \in Workers PROVE FencedConverter(v)'
      BY DEF FencedConverters
  <2>1. CASE native'[v] = native[v]
      BY <2>1, UndisturbedConverter DEF control
  <2>2. CASE native'[v] = Idle
    <3>1. Idle.step \notin Converting
        BY DEF Idle, Converting
    <3>2. native'[v].step \notin Converting
        BY Zenon, <2>2, <3>1
    <3> QED
        BY Zenon, <3>2 DEF FencedConverter
  <2> QED
      BY <1>2, <2>1, <2>2
<1>5. PublishersAndCollectors'
  <2> SUFFICES ASSUME NEW v \in Workers
               PROVE  /\ publisher'[v].step # "idle" =>
                             publisher'[v].job \in JobIds /\ publisher'[v].output \in Fences
                      /\ native'[v].step \in {"delete", "confirm"} =>
                             /\ TaskIntent(native'[v]) \in IntentIds
                             /\ intents'[TaskIntent(native'[v])].state \in {"deleting", "deleted"}
      BY DEF PublishersAndCollectors, TaskIntent
  <2>1. Idle.step = "idle" /\ NoPublication.step = "idle"
      BY DEF Idle, NoPublication
  <2> QED
      BY <1>2, <2>1 DEF Inductive, PublishersAndCollectors, control
<1> QED
    BY <1>3, <1>4, <1>5, TaskStepInductive

(* Failed tasks and restarted processes (superviseTask, runWorker). *)
LEMMA FailureInductive ==
    ASSUME Inductive, NEW w \in Workers,
           NativeTaskFails(w) \/ PublisherTaskFails(w) \/ Restart(w)
    PROVE  Inductive'
<1>1. faults' \in 0..MaxFaults
    BY PublicationAssumption DEF Inductive, TypeOK, NativeTaskFails, PublisherTaskFails, Restart
<1> QED
    BY <1>1, TaskEndInductive DEF NativeTaskFails, PublisherTaskFails, Restart

-----------------------------------------------------------------------------
(* Steps that change only a job's lease *)

(* A lease that runs out changes nothing but the lease. *)
LEMMA LeaseExpiresInductive ==
    ASSUME Inductive, NEW j \in JobIds, LeaseExpires(j)
    PROVE  Inductive'
<1>a. /\ jobs' = [jobs EXCEPT ![j].live = FALSE] /\ faults' \in 0..MaxFaults
      /\ UNCHANGED <<generation, lanes, batches, outputs, intents, files,
                     objects, booted, native, publisher>>
    BY PublicationAssumption DEF LeaseExpires, Inductive, TypeOK
<1>b. \A k \in JobIds :
        /\ jobs'[k].state = jobs[k].state /\ jobs'[k].owner = jobs[k].owner
        /\ jobs'[k].fence = jobs[k].fence /\ jobs'[k].output = jobs[k].output
    BY <1>a DEF Inductive, TypeOK, Jobs
<1>1. TypeOK'
  <2>1. [jobs[j] EXCEPT !.live = FALSE] \in Jobs
      BY ZenonT(40) DEF Inductive, TypeOK, Jobs
  <2> QED
      BY <1>a, <2>1 DEF Inductive, TypeOK
<1>2. JobShape' /\ ContiguousCut' /\ CatalogReadable'
    BY <1>a, <1>b DEF Inductive, JobShape, ContiguousCut, CatalogReadable
<1>3. FencedConverters' /\ PublishersAndCollectors'
  <2>1. FencedConverters'
      BY <1>a, <1>b, UndisturbedConverter DEF FencedConverters
  <2>2. PublishersAndCollectors'
      BY <1>a DEF Inductive, PublishersAndCollectors, TaskIntent
  <2> QED
      BY <2>1, <2>2
<1>4. IntentsMatchObjects'
    BY <1>a, <1>b DEF Inductive, IntentsMatchObjects, IntentIds
<1>5. ExactlyOneOutput' /\ PreparedIsDurable'
    BY <1>a, <1>b DEF Inductive, ExactlyOneOutput, PreparedIsDurable, OutputIntents
<1> QED
    BY <1>1, <1>2, <1>3, <1>4, <1>5 DEF Inductive

(* ClaimConversionJob: the new fence is above every fence a task or an     *)
(* intent of the job carries, so the new attempt's files have no intents.  *)
LEMMA ClaimConversionInductive ==
    ASSUME Inductive, NEW w \in Workers, NEW j \in JobIds, ClaimConversionJob(w, j)
    PROVE  Inductive'
<1> DEFINE f == jobs[j].fence + 1
           u == [step |-> "load", job |-> j, fence |-> f, part |-> 0]
<1>a. /\ jobs' = [jobs EXCEPT ![j] = [@ EXCEPT !.state = "running", !.owner = w,
                                               !.fence = f, !.live = TRUE]]
      /\ native' = [native EXCEPT ![w] = u]
      /\ UNCHANGED <<generation, lanes, batches, outputs, intents, files,
                     objects, booted, publisher, faults>>
      /\ jobs[j].output = 0 /\ jobs[j].state \in {"queued", "running"}
      /\ jobs[j].fence < MaxFence
    BY DEF ClaimConversionJob, ConversionClaimable
<1>b. jobs[j].fence \in Nat /\ f \in Fences /\ f \in 0..MaxFence
    BY <1>a, PublicationAssumption DEF Inductive, TypeOK, Jobs, Fences
<1>c. /\ jobs'[j].state = "running" /\ jobs'[j].owner = w /\ jobs'[j].fence = f
      /\ jobs'[j].output = 0
      /\ \A k \in JobIds : k # j => jobs'[k] = jobs[k]
      /\ \A k \in JobIds : jobs[k].fence \in Nat /\ jobs'[k].fence >= jobs[k].fence
                           /\ jobs'[k].output = jobs[k].output
    BY <1>a, <1>b DEF Inductive, TypeOK, Jobs
<1> HIDE DEF f, u
<1>1. TypeOK'
  <2>1. [jobs[j] EXCEPT !.state = "running", !.owner = w, !.fence = f, !.live = TRUE] \in Jobs
    <3>1. jobs[j] \in Jobs
        BY DEF Inductive, TypeOK
    <3> QED
        BY <1>b, <3>1 DEF Jobs
  <2>2. u \in NativeTasks
      BY <1>b, PublicationAssumption DEF NativeTasks, u
  <2> QED
      BY <1>a, <2>1, <2>2 DEF Inductive, TypeOK
<1>2. JobShape'
    BY <1>a, <1>c DEF Inductive, JobShape
<1>3. FencedConverters'
  <2> SUFFICES ASSUME NEW v \in Workers PROVE FencedConverter(v)'
      BY DEF FencedConverters
  <2>1. CASE v = w
    <3>1. \A p \in Parts : intents[<<j, f, p>>].state = "none"
        BY <1>b DEF Inductive, IntentsMatchObjects, IntentIds, f
    <3>2. native'[w] = u
        BY <1>a DEF Inductive, TypeOK
    <3> QED
        BY <1>a, <1>b, <1>c, <2>1, <3>1, <3>2 DEF FencedConverter, u
  <2>2. CASE v # w
    <3>1. FencedConverter(v) /\ native'[v] = native[v]
        BY <1>a, <2>2 DEF Inductive, FencedConverters, TypeOK
    <3>2. native[v].step \in Converting /\ native[v].job = j => native[v].fence < f
        BY <3>1, <1>b DEF FencedConverter, f, Fences
    <3> QED
        BY <1>a, <1>b, <1>c, <3>1, <3>2 DEF FencedConverter, TaskIntent, Fences
  <2> QED
      BY <2>1, <2>2
<1>4. PublishersAndCollectors'
    BY <1>a DEF Inductive, PublishersAndCollectors, TypeOK, TaskIntent, u
<1>5. IntentsMatchObjects'
  <2>1. \A i \in IntentIds : i[1] \in JobIds /\ i[2] \in Nat
      BY DEF IntentIds, Fences
  <2>2. \A k \in JobIds : jobs'[k].fence \in Nat
      BY <1>1 DEF TypeOK, Jobs
  <2> QED
      BY <1>a, <1>c, <2>1, <2>2 DEF Inductive, IntentsMatchObjects
<1>6. ContiguousCut'
    BY <1>a, <1>c DEF Inductive, ContiguousCut
<1>7. ExactlyOneOutput' /\ CatalogReadable'
    BY <1>a, <1>c DEF Inductive, ExactlyOneOutput, CatalogReadable, OutputIntents
<1>8. PreparedIsDurable'
    BY <1>a, <1>c DEF Inductive, PreparedIsDurable, OutputIntents
<1> QED
    BY <1>1, <1>2, <1>3, <1>4, <1>5, <1>6, <1>7, <1>8 DEF Inductive

(* ClaimPublicationJob: adopting the referenced intents keeps their states *)
(* and objects.                                                            *)
LEMMA ClaimPublicationInductive ==
    ASSUME Inductive, NEW w \in Workers, NEW j \in JobIds, ClaimPublicationJob(w, j)
    PROVE  Inductive'
<1> DEFINE f == jobs[j].fence + 1
           u == [step |-> "verify", job |-> j, fence |-> f, output |-> jobs[j].output]
           row == [jobs[j] EXCEPT !.state = "running", !.owner = w, !.fence = f, !.live = TRUE]
<1>a. /\ jobs' = [jobs EXCEPT ![j] = row]
      /\ publisher' = [publisher EXCEPT ![w] = u]
      /\ jobs[j].output # 0 /\ jobs[j].state \in {"prepared", "running"} /\ f <= MaxFence
    BY DEF ClaimPublicationJob, PublicationCandidate
<1>i. intents' = [i \in IntentIds |->
                     IF i \in ReferencedIntents(j)
                     THEN [intents[i] EXCEPT !.owner = w, !.fence = f] ELSE intents[i]]
    BY DEF ClaimPublicationJob
<1>u. UNCHANGED <<generation, lanes, batches, outputs, files, objects, booted, native, faults>>
    BY DEF ClaimPublicationJob
<1>t. jobs[j] \in Jobs /\ jobs \in [JobIds -> Jobs] /\ intents \in [IntentIds -> Intents]
    BY DEF Inductive, TypeOK
<1>b. /\ jobs[j].fence \in Nat /\ f \in 0..MaxFence
      /\ jobs[j].output \in 0..MaxFence /\ jobs[j].output \in Fences
    BY <1>a, <1>t, PublicationAssumption DEF Jobs, Fences
<1> HIDE DEF f, u
<1>r. /\ row \in Jobs /\ row.state = "running" /\ row.fence = f /\ row.output = jobs[j].output
    BY <1>b, <1>t DEF Jobs
<1> HIDE DEF row
<1>c. /\ jobs'[j] = row
      /\ \A k \in JobIds : k # j => jobs'[k] = jobs[k]
    BY <1>a, <1>t
<1>e. \A k \in JobIds : /\ jobs[k].fence \in Nat /\ jobs'[k].fence \in Nat
                        /\ jobs'[k].fence >= jobs[k].fence
                        /\ jobs'[k].output = jobs[k].output
    BY SMTT(30), <1>b, <1>c, <1>r, <1>t DEF Jobs, f
<1>d. \A i \in IntentIds : intents'[i] \in Intents /\ intents'[i].state = intents[i].state
    BY <1>i, <1>b, <1>t DEF Intents
<1>1. TypeOK'
  <2>1. u \in PublisherTasks
      BY <1>b, PublicationAssumption DEF PublisherTasks, u
  <2>2. intents' \in [IntentIds -> Intents]
      BY <1>i, <1>d
  <2> QED
      BY <1>a, <1>u, <1>r, <2>1, <2>2 DEF Inductive, TypeOK
<1>2. JobShape'
    BY <1>a, <1>b, <1>c, <1>r, <1>u DEF Inductive, JobShape, Fences
<1>3. FencedConverters'
  <2> SUFFICES ASSUME NEW v \in Workers PROVE FencedConverter(v)'
      BY DEF FencedConverters
  <2>1. FencedConverter(v) /\ native'[v] = native[v]
      BY <1>u DEF Inductive, FencedConverters
  <2>2. native[v].step \in Converting /\ native[v].job = j => native[v].fence < f
      BY <2>1, <1>b DEF FencedConverter, f, Fences
  <2>3. native[v].step \in Converting =>
            \A p \in Parts : <<native[v].job, native[v].fence, p>> \in IntentIds
      BY <2>1 DEF FencedConverter, IntentIds
  <2>4. native[v].step \in Converting =>
            /\ native[v].fence <= jobs'[native[v].job].fence
            /\ jobs'[native[v].job].state = "running"
                  /\ jobs'[native[v].job].fence = native[v].fence
                    => jobs'[native[v].job].owner = v /\ jobs'[native[v].job].output = 0
    <3> SUFFICES ASSUME native[v].step \in Converting
                 PROVE  /\ native[v].fence <= jobs'[native[v].job].fence
                        /\ jobs'[native[v].job].state = "running"
                              /\ jobs'[native[v].job].fence = native[v].fence
                                => jobs'[native[v].job].owner = v /\ jobs'[native[v].job].output = 0
        OBVIOUS
    <3>1. CASE native[v].job = j
      <4>1. native[v].fence \in Nat /\ f \in Nat
          BY <1>b, <2>1 DEF FencedConverter, Fences
      <4> QED
          BY <1>c, <1>r, <2>2, <3>1, <4>1
    <3>2. CASE native[v].job # j
        BY <1>c, <2>1, <3>2 DEF FencedConverter
    <3> QED
        BY <3>1, <3>2
  <2>5. native[v].step \in Converting =>
            \A p \in Parts : intents'[<<native[v].job, native[v].fence, p>>].state =
                                 intents[<<native[v].job, native[v].fence, p>>].state
      BY <1>d, <2>3
  <2> QED
      BY <1>u, <2>1, <2>4, <2>5 DEF FencedConverter, TaskIntent, Converting
<1>4. PublishersAndCollectors'
    BY <1>a, <1>b, <1>d, <1>u DEF Inductive, PublishersAndCollectors, TypeOK, TaskIntent, u
<1>5. IntentsMatchObjects'
  <2> SUFFICES ASSUME NEW i \in IntentIds
               PROVE  /\ intents'[i].state # "none" => i[2] <= jobs'[i[1]].fence
                      /\ intents'[i].state \in {"uploaded", "referenced"} => i \in objects'
      BY DEF IntentsMatchObjects
  <2>1. i[1] \in JobIds /\ i[2] \in Nat
      BY DEF IntentIds, Fences
  <2>2. /\ intents[i].state # "none" => i[2] <= jobs[i[1]].fence
        /\ intents[i].state \in {"uploaded", "referenced"} => i \in objects
      BY DEF Inductive, IntentsMatchObjects
  <2>3. intents'[i].state = intents[i].state /\ objects' = objects
      BY <1>d, <1>u
  <2>4. /\ jobs[i[1]].fence \in Nat /\ jobs'[i[1]].fence \in Nat
        /\ jobs'[i[1]].fence >= jobs[i[1]].fence
      BY <1>e, <2>1
  <2> QED
      BY <2>1, <2>2, <2>3, <2>4
<1>6. ContiguousCut'
  <2> SUFFICES ASSUME NEW k \in JobIds
               PROVE  jobs'[k].state = "completed" <=> jobs[k].state = "completed"
      BY <1>u DEF Inductive, ContiguousCut
  <2>1. CASE k = j
      BY <1>a, <1>c, <1>r, <2>1
  <2>2. CASE k # j
      BY <1>c, <2>2
  <2> QED
      BY <2>1, <2>2
<1>7. ExactlyOneOutput' /\ CatalogReadable'
  <2>1. ExactlyOneOutput'
      BY <1>e, <1>u, UndisturbedCatalog
  <2>2. CatalogReadable'
      BY <1>d, <1>u DEF Inductive, CatalogReadable, TypeOK
  <2> QED
      BY <2>1, <2>2
<1>8. PreparedIsDurable'
  <2>1. \A k \in JobIds : jobs[k].output # 0 => OutputIntents(k, jobs[k].output) \subseteq IntentIds
      BY OutputIntentsTyped
  <2>2. \A k \in JobIds : jobs'[k].state # "completed" => jobs[k].state # "completed"
      BY <1>a, <1>c
  <2> QED
      BY <1>d, <1>e, <1>u, <2>1, <2>2 DEF Inductive, PreparedIsDurable, OutputIntents
<1> QED
    BY <1>1, <1>2, <1>3, <1>4, <1>5, <1>6, <1>7, <1>8 DEF Inductive

-----------------------------------------------------------------------------
(* Steps of an attempt on its own intents *)

(* RegisterOutputIntent: the file's intent is new, so no catalog file and  *)
(* no prepared output refers to it.                                        *)
LEMMA RegisterInductive ==
    ASSUME Inductive, NEW w \in Workers, RegisterOutputIntent(w)
    PROVE  Inductive'
<1> DEFINE t == native[w]
           x == TaskIntent(t)
           row == [state |-> "pending", owner |-> w, fence |-> t.fence,
                   gen |-> booted[w], sweeper |-> NoWorker]
<1>a. /\ t.step = "register" /\ t \in NativeTasks
      /\ jobs[t.job].state = "running" /\ jobs[t.job].owner = w /\ jobs[t.job].fence = t.fence
      /\ intents' = [intents EXCEPT ![x] = row]
      /\ native' = [native EXCEPT ![w].step = "put"]
      /\ UNCHANGED <<generation, lanes, batches, jobs, outputs, files, objects,
                     booted, publisher, faults>>
    BY DEF RegisterOutputIntent, Authorized, Holds, Inductive, TypeOK
<1>b. /\ t.job \in JobIds /\ t.fence \in Fences /\ t.part \in Parts
      /\ FencedConverter(w)
    BY <1>a DEF Inductive, FencedConverters, FencedConverter, Converting
<1>c. x \in IntentIds /\ x[1] = t.job /\ x[2] = t.fence /\ intents[x].state = "none"
    BY <1>a, <1>b DEF FencedConverter, Converting, TaskIntent, IntentIds, Parts
<1>d. /\ native'[w].step = "put" /\ native'[w].job = t.job /\ native'[w].fence = t.fence
      /\ native'[w].part = t.part
      /\ \A v \in Workers : v # w => native'[v] = native[v]
    BY <1>a DEF Inductive, TypeOK, NativeTasks
<1>e. intents'[x].state = "pending" /\ \A i \in IntentIds : i # x => intents'[i] = intents[i]
    BY <1>a, <1>c DEF Inductive, TypeOK
<1> HIDE DEF x
<1>1. TypeOK'
  <2>1. row \in Intents
    <3>1. booted[w] \in 0..MaxGeneration
        BY PublicationAssumption DEF Inductive, TypeOK, Generations
    <3>2. t.fence \in 0..MaxFence
        BY <1>b, PublicationAssumption DEF Fences
    <3> QED
        BY <3>1, <3>2 DEF Intents
  <2> QED
      BY <1>a, <1>c, <2>1 DEF Inductive, TypeOK, NativeTasks
<1>2. JobShape' /\ ContiguousCut'
    BY <1>a DEF Inductive, JobShape, ContiguousCut
<1>3. FencedConverters'
  <2> SUFFICES ASSUME NEW v \in Workers PROVE FencedConverter(v)'
      BY DEF FencedConverters
  <2>1. CASE v = w
    <3>1. \A p \in Parts : p > t.part =>
              <<t.job, t.fence, p>> \in IntentIds /\ <<t.job, t.fence, p>> # x
        BY <1>b DEF IntentIds, TaskIntent, Parts, x
    <3> QED
        BY <1>a, <1>b, <1>d, <1>e, <2>1, <3>1 DEF FencedConverter, Converting
  <2>2. CASE v # w
    <3>1. FencedConverter(v) /\ native'[v] = native[v]
        BY <1>d, <2>2 DEF Inductive, FencedConverters
    <3>2. native[v].step \in Converting =>
              \A p \in Parts : /\ <<native[v].job, native[v].fence, p>> \in IntentIds
                               /\ <<native[v].job, native[v].fence, p>> # x
        BY <1>a, <1>c, <2>2, <3>1 DEF FencedConverter, IntentIds
    <3> QED
        BY <1>a, <1>e, <3>1, <3>2, UndisturbedConverter
  <2> QED
      BY <2>1, <2>2
<1>4. PublishersAndCollectors'
    BY <1>a, <1>c, <1>d, <1>e DEF Inductive, PublishersAndCollectors, TaskIntent
<1>5. IntentsMatchObjects'
    BY <1>a, <1>b, <1>c, <1>e DEF Inductive, IntentsMatchObjects, TypeOK, Jobs, Fences
<1>6. ExactlyOneOutput' /\ CatalogReadable'
    BY <1>a, <1>c, <1>e DEF Inductive, ExactlyOneOutput, CatalogReadable, OutputIntents, TypeOK
<1>7. PreparedIsDurable'
  <2>1. \A k \in JobIds : jobs[k].output # 0 => OutputIntents(k, jobs[k].output) \subseteq IntentIds
      BY OutputIntentsTyped
  <2> QED
      BY <1>a, <1>c, <1>e, <2>1 DEF Inductive, PreparedIsDurable, OutputIntents
<1> QED
    BY <1>1, <1>2, <1>3, <1>4, <1>5, <1>6, <1>7 DEF Inductive

(* MarkOutputIntentUploaded: the holder put the object, and GC has not     *)
(* marked it since, because the intent is still pending.                   *)
LEMMA MarkInductive ==
    ASSUME Inductive, NEW w \in Workers, MarkOutputIntentUploaded(w)
    PROVE  Inductive'
<1> DEFINE t == native[w]
           x == TaskIntent(t)
           u == AfterPart(t, t.part, batches[t.job].parts)
<1>a. /\ t.step = "mark" /\ t \in NativeTasks
      /\ jobs[t.job].state = "running" /\ jobs[t.job].owner = w /\ jobs[t.job].fence = t.fence
      /\ intents[x].state = "pending"
      /\ intents' = [intents EXCEPT ![x].state = "uploaded"]
      /\ native' = [native EXCEPT ![w] = u]
    BY DEF MarkOutputIntentUploaded, Holds, Inductive, TypeOK
<1>b. UNCHANGED <<generation, lanes, batches, jobs, outputs, files, objects,
                  booted, publisher, faults>>
    BY DEF MarkOutputIntentUploaded
<1>c. /\ t.job \in JobIds /\ t.fence \in Fences /\ t.part \in Parts
      /\ FencedConverter(w) /\ x \in objects
    BY <1>a DEF Inductive, FencedConverters, FencedConverter, Converting
<1>d. x \in IntentIds /\ x[1] = t.job /\ x[2] = t.fence
    BY <1>c DEF TaskIntent, IntentIds
<1>e. /\ intents'[x] \in Intents /\ intents'[x].state = "uploaded"
      /\ \A i \in IntentIds : i # x => intents'[i] = intents[i]
      /\ intents' \in [IntentIds -> Intents]
  <2>1. intents \in [IntentIds -> Intents] /\ intents[x] \in Intents
      BY <1>d DEF Inductive, TypeOK
  <2>2. [intents[x] EXCEPT !.state = "uploaded"] \in Intents
      BY <2>1 DEF Intents
  <2>3. intents' = [intents EXCEPT ![x] = [intents[x] EXCEPT !.state = "uploaded"]]
      BY <1>a
  <2> HIDE DEF x
  <2> QED
      BY <1>d, <2>1, <2>2, <2>3 DEF Intents
<1>f. t.part \in 0..MaxParts /\ batches[t.job].parts \in 0..MaxParts
    BY <1>c, PublicationAssumption DEF Inductive, TypeOK, Parts
<1>g. /\ u \in NativeTasks /\ u.job = t.job /\ u.fence = t.fence
      /\ \/ u.step = "register" /\ u.part = t.part + 1 /\ u.part \in Parts
         \/ u.step = "prepare" /\ u.part = t.part
    BY <1>a, <1>f, AfterPartFacts
<1>h. native'[w] = u /\ \A v \in Workers : v # w => native'[v] = native[v]
    BY <1>a DEF Inductive, TypeOK
<1> HIDE DEF u, x
<1>1. TypeOK'
    BY <1>a, <1>b, <1>e, <1>g DEF Inductive, TypeOK
<1>2. JobShape' /\ ContiguousCut'
    BY <1>b DEF Inductive, JobShape, ContiguousCut
<1>3. FencedConverters'
  <2> SUFFICES ASSUME NEW v \in Workers PROVE FencedConverter(v)'
      BY DEF FencedConverters
  <2>1. CASE v = w
    <3>1. \A p \in Parts : p >= t.part + 1 =>
              /\ <<t.job, t.fence, p>> \in IntentIds /\ <<t.job, t.fence, p>> # x
              /\ intents[<<t.job, t.fence, p>>].state = "none"
      <4> SUFFICES ASSUME NEW p \in Parts, p >= t.part + 1
                   PROVE  /\ <<t.job, t.fence, p>> \in IntentIds /\ <<t.job, t.fence, p>> # x
                          /\ intents[<<t.job, t.fence, p>>].state = "none"
          OBVIOUS
      <4>1. p # t.part /\ p > t.part
          BY <1>f DEF Parts
      <4> QED
          BY <1>a, <1>c, <4>1 DEF FencedConverter, Converting, IntentIds, TaskIntent, x
    <3> QED
      <4>1. \A p \in Parts : p > u.part => p >= t.part + 1
          BY <1>f, <1>g DEF Parts
      <4>2. \A p \in Parts : p > u.part => intents'[<<t.job, t.fence, p>>].state = "none"
          BY <1>e, <3>1, <4>1
      <4>3. u.step = "register" => intents'[<<t.job, t.fence, u.part>>].state = "none"
          BY <1>e, <1>f, <1>g, <3>1
      <4> QED
          BY <1>a, <1>b, <1>c, <1>g, <1>h, <2>1, <4>2, <4>3 DEF FencedConverter, Converting, TaskIntent
  <2>2. CASE v # w
    <3>1. FencedConverter(v) /\ native'[v] = native[v]
        BY <1>h, <2>2 DEF Inductive, FencedConverters
    <3>2. native[v].step \in Converting =>
              \A p \in Parts : /\ <<native[v].job, native[v].fence, p>> \in IntentIds
                               /\ <<native[v].job, native[v].fence, p>> # x
        BY <1>a, <1>d, <2>2, <3>1 DEF FencedConverter, IntentIds
    <3> QED
        BY <1>b, <1>e, <3>1, <3>2 DEF FencedConverter, TaskIntent, Converting
  <2> QED
      BY <2>1, <2>2
<1>4. PublishersAndCollectors'
  <2>1. \A v \in Workers : native'[v].step \in {"delete", "confirm"} =>
            native'[v] = native[v] /\ TaskIntent(native[v]) # x
      BY <1>a, <1>g, <1>h DEF Inductive, PublishersAndCollectors
  <2> QED
      BY <1>b, <1>e, <2>1 DEF Inductive, PublishersAndCollectors, TaskIntent
<1>5. IntentsMatchObjects'
    BY <1>a, <1>b, <1>c, <1>d, <1>e DEF Inductive, IntentsMatchObjects
<1>6. ExactlyOneOutput'
    BY <1>b, UndisturbedCatalog
<1>7. CatalogReadable'
    BY <1>a, <1>b, <1>e DEF Inductive, CatalogReadable, TypeOK
<1>8. PreparedIsDurable'
  <2>1. \A k \in JobIds : jobs[k].output # 0 => OutputIntents(k, jobs[k].output) \subseteq IntentIds
      BY OutputIntentsTyped
  <2> QED
      BY <1>a, <1>b, <1>e, <2>1 DEF Inductive, PreparedIsDurable, OutputIntents
<1> QED
    BY <1>1, <1>2, <1>3, <1>4, <1>5, <1>6, <1>7, <1>8 DEF Inductive

(* Prepare: every intent of the output is uploaded, so every object it     *)
(* references is in S3, and the job had no output before.                  *)
LEMMA PrepareInductive ==
    ASSUME Inductive, NEW w \in Workers, Prepare(w)
    PROVE  Inductive'
<1> DEFINE t == native[w]
           j == t.job
           f == t.fence
           out == OutputIntents(j, f)
           row == [jobs[j] EXCEPT !.state = "prepared", !.output = f,
                                  !.owner = NoWorker, !.live = FALSE]
<1>a. /\ t.step = "prepare" /\ t \in NativeTasks
      /\ jobs[j].state = "running" /\ jobs[j].owner = w /\ jobs[j].fence = f
      /\ batches[j].state = "accepted"
      /\ \A i \in out : intents[i].state = "uploaded"
    BY DEF Prepare, Authorized, Holds, Inductive, TypeOK
<1>b. /\ outputs' = [outputs EXCEPT ![<<j, f>>] = "prepared"]
      /\ jobs' = [jobs EXCEPT ![j] = row]
      /\ native' = [native EXCEPT ![w] = Idle]
    BY DEF Prepare
<1>i. intents' = [i \in IntentIds |->
                     IF i \in out THEN [intents[i] EXCEPT !.state = "referenced"]
                                  ELSE intents[i]]
    BY DEF Prepare
<1>u. UNCHANGED <<generation, lanes, batches, files, objects, booted, publisher, faults>>
    BY DEF Prepare
<1>c. j \in JobIds /\ f \in Fences /\ jobs[j].output = 0
    BY <1>a DEF Inductive, FencedConverters, FencedConverter, Converting
<1>d. out \subseteq IntentIds
    BY <1>c, PublicationAssumption DEF Inductive, TypeOK, OutputIntents, IntentIds, Parts
<1>t. jobs[j] \in Jobs /\ jobs \in [JobIds -> Jobs] /\ intents \in [IntentIds -> Intents]
    BY <1>c DEF Inductive, TypeOK
<1> HIDE DEF t, out
<1>r. row \in Jobs /\ row.state = "prepared" /\ row.output = f /\ row.fence = f
    BY <1>a, <1>c, <1>t, PublicationAssumption DEF Jobs, Fences
<1> HIDE DEF row
<1>e. /\ jobs'[j] = row
      /\ \A k \in JobIds : k # j => jobs'[k] = jobs[k]
      /\ \A k \in JobIds : jobs'[k].fence = jobs[k].fence
    BY <1>a, <1>b, <1>c, <1>r, <1>t
<1>g. \A i \in IntentIds :
        /\ intents'[i] \in Intents
        /\ i \in out => intents'[i].state = "referenced"
        /\ i \notin out => intents'[i] = intents[i]
    BY <1>i, <1>t DEF Intents
<1>h. native'[w] = Idle /\ Idle.step = "idle" /\ \A v \in Workers : v # w => native'[v] = native[v]
    BY <1>b DEF Inductive, TypeOK, Idle
<1>1. TypeOK'
  <2>1. Idle \in NativeTasks
      BY PublicationAssumption DEF Idle, NativeTasks
  <2>2. intents' \in [IntentIds -> Intents]
      BY <1>i, <1>g
  <2> QED
      BY <1>b, <1>c, <1>r, <1>u, <2>1, <2>2 DEF Inductive, TypeOK
<1>2. JobShape'
    BY <1>a, <1>c, <1>e, <1>r, <1>u DEF Inductive, JobShape, Fences
<1>3. FencedConverters'
  <2> SUFFICES ASSUME NEW v \in Workers PROVE FencedConverter(v)'
      BY DEF FencedConverters
  <2>1. CASE v = w
      BY <1>h, <2>1 DEF FencedConverter, Converting
  <2>2. CASE v # w
    <3>1. FencedConverter(v) /\ native'[v] = native[v]
        BY <1>h, <2>2 DEF Inductive, FencedConverters
    <3>2. native[v].step \in Converting =>
              \A p \in Parts : <<native[v].job, native[v].fence, p>> \in IntentIds
        BY <3>1 DEF FencedConverter, IntentIds
    <3>3. \A i \in IntentIds : intents[i].state \in {"none", "deleting", "deleted"} =>
              intents'[i].state = intents[i].state
        BY <1>a, <1>g
    <3>4. \A k \in JobIds : jobs'[k].state = "running" => jobs'[k] = jobs[k]
        BY <1>e, <1>r
    <3> QED
        BY <1>e, <1>u, <3>1, <3>2, <3>3, <3>4 DEF FencedConverter, TaskIntent, Converting
  <2> QED
      BY <2>1, <2>2
<1>4. PublishersAndCollectors'
  <2>1. \A v \in Workers : native'[v].step \in {"delete", "confirm"} =>
            native'[v] = native[v] /\ TaskIntent(native[v]) \notin out
      BY <1>a, <1>h DEF Inductive, PublishersAndCollectors
  <2> QED
      BY <1>g, <1>u, <2>1 DEF Inductive, PublishersAndCollectors, TaskIntent
<1>5. IntentsMatchObjects'
  <2>1. \A i \in IntentIds : i[1] \in JobIds
      BY DEF IntentIds
  <2> QED
      BY <1>a, <1>e, <1>g, <1>u, <2>1 DEF Inductive, IntentsMatchObjects
<1>6. ContiguousCut'
    BY <1>a, <1>e, <1>r, <1>u DEF Inductive, ContiguousCut
<1>7. ExactlyOneOutput'
    BY <1>a, <1>e, <1>u DEF Inductive, ExactlyOneOutput, OutputIntents
<1>8. CatalogReadable'
    BY <1>g, <1>u DEF Inductive, CatalogReadable, TypeOK
<1>9. PreparedIsDurable'
  <2> SUFFICES ASSUME NEW k \in JobIds, jobs'[k].output # 0, jobs'[k].state # "completed"
               PROVE  /\ outputs'[<<k, jobs'[k].output>>] = "prepared"
                      /\ \A i \in OutputIntents(k, jobs'[k].output) :
                             i \in objects' /\ intents'[i].state = "referenced"
      BY <1>u DEF PreparedIsDurable, OutputIntents
  <2>1. CASE k = j
    <3>1. OutputIntents(k, jobs'[k].output) = out
        BY <1>e, <1>r, <2>1 DEF out
    <3> QED
        BY <1>a, <1>b, <1>c, <1>d, <1>e, <1>g, <1>r, <1>u, <2>1, <3>1
        DEF Inductive, TypeOK, IntentsMatchObjects
  <2>2. CASE k # j
    <3>1. OutputIntents(k, jobs[k].output) \subseteq IntentIds
        BY <1>e, <2>2, OutputIntentsTyped
    <3>2. outputs'[<<k, jobs[k].output>>] = outputs[<<k, jobs[k].output>>]
        BY <1>b, <1>c, <1>e, <2>2 DEF Inductive, TypeOK, Jobs, Fences
    <3>3. jobs'[k] = jobs[k] /\ jobs[k].output # 0 /\ jobs[k].state # "completed"
        BY <1>e, <2>2
    <3>4. /\ outputs[<<k, jobs[k].output>>] = "prepared"
          /\ \A i \in OutputIntents(k, jobs[k].output) :
                 i \in objects /\ intents[i].state = "referenced"
        BY <3>3 DEF Inductive, PreparedIsDurable
    <3>5. \A i \in IntentIds : intents[i].state = "referenced" => intents'[i].state = "referenced"
        BY <1>g
    <3> QED
        BY <1>u, <3>1, <3>2, <3>3, <3>4, <3>5
  <2> QED
      BY <2>1, <2>2
<1> QED
    BY <1>1, <1>2, <1>3, <1>4, <1>5, <1>6, <1>7, <1>8, <1>9 DEF Inductive

-----------------------------------------------------------------------------
(* Garbage collection *)

(* gcEligibleSQL never offers an object of an output that waits for its    *)
(* publication.                                                            *)
LEMMA PreparedIsPinned ==
    ASSUME Inductive, NEW k \in JobIds, jobs[k].output # 0, jobs[k].state # "completed",
           NEW i \in OutputIntents(k, jobs[k].output)
    PROVE  i \in IntentIds /\ i[1] = k /\ ~Collectible(i)
<1>1. i \in IntentIds /\ i[1] = k
    BY OutputIntentsTyped DEF OutputIntents
<1>2. jobs[k].state \in {"prepared", "running"} /\ intents[i].state = "referenced"
    BY DEF Inductive, TypeOK, Jobs, JobShape, PreparedIsDurable
<1> QED
    BY <1>1, <1>2 DEF Collectible, PinnedByJob

(* A step that moves one collectible intent to deleting or deleted. *)
LEMMA SweepInductive ==
    ASSUME Inductive, NEW w \in Workers, NEW x \in IntentIds, NEW row \in Intents, NEW u,
           Collectible(x), intents[x].state # "none",
           row.state \in {"deleting", "deleted"},
           intents' = [intents EXCEPT ![x] = row],
           native' = [native EXCEPT ![w] = u],
           u \in NativeTasks, u.step \notin Converting,
           u.step \in {"delete", "confirm"} => TaskIntent(u) = x,
           UNCHANGED <<generation, lanes, batches, jobs, outputs, files, objects,
                       booted, publisher, faults>>
    PROVE  Inductive'
<1>a. /\ intents'[x] = row /\ \A i \in IntentIds : i # x => intents'[i] = intents[i]
      /\ native'[w] = u /\ \A v \in Workers : v # w => native'[v] = native[v]
    BY DEF Inductive, TypeOK
<1>1. TypeOK'
    BY DEF Inductive, TypeOK
<1>2. JobShape' /\ ContiguousCut' /\ ExactlyOneOutput'
  <2>1. JobShape' /\ ContiguousCut'
      BY DEF Inductive, JobShape, ContiguousCut
  <2>2. ExactlyOneOutput'
      BY UndisturbedCatalog
  <2> QED
      BY <2>1, <2>2
<1>3. FencedConverters'
  <2> SUFFICES ASSUME NEW v \in Workers PROVE FencedConverter(v)'
      BY DEF FencedConverters
  <2>1. CASE v = w
      BY <1>a, <2>1 DEF FencedConverter
  <2>2. CASE v # w
    <3>1. FencedConverter(v) /\ native'[v] = native[v]
        BY <1>a, <2>2 DEF Inductive, FencedConverters
    <3>2. native[v].step \in Converting =>
              \A p \in Parts : <<native[v].job, native[v].fence, p>> \in IntentIds
        BY <3>1 DEF FencedConverter, IntentIds
    <3>3. \A i \in IntentIds : /\ intents[i].state = "none" => intents'[i].state = "none"
                               /\ intents[i].state \in {"deleting", "deleted"}
                                      => intents'[i].state \in {"deleting", "deleted"}
        BY <1>a
    <3> QED
        BY <3>1, <3>2, <3>3, UndisturbedConverter
  <2> QED
      BY <2>1, <2>2
<1>4. PublishersAndCollectors'
  <2> SUFFICES ASSUME NEW v \in Workers
               PROVE  /\ publisher'[v].step # "idle" =>
                             publisher'[v].job \in JobIds /\ publisher'[v].output \in Fences
                      /\ native'[v].step \in {"delete", "confirm"} =>
                             /\ TaskIntent(native'[v]) \in IntentIds
                             /\ intents'[TaskIntent(native'[v])].state \in {"deleting", "deleted"}
      BY DEF PublishersAndCollectors, TaskIntent
  <2>1. CASE v = w
    <3>1. native'[v] = u /\ publisher'[v] = publisher[v] /\ intents'[x].state \in {"deleting", "deleted"}
        BY <1>a, <2>1
    <3>2. publisher[v].step # "idle" =>
              publisher[v].job \in JobIds /\ publisher[v].output \in Fences
        BY DEF Inductive, PublishersAndCollectors
    <3> QED
        BY <3>1, <3>2
  <2>2. CASE v # w
    <3>1. native'[v] = native[v] /\ publisher'[v] = publisher[v]
        BY <1>a, <2>2
    <3>2. /\ publisher[v].step # "idle" =>
                 publisher[v].job \in JobIds /\ publisher[v].output \in Fences
          /\ native[v].step \in {"delete", "confirm"} =>
                 /\ TaskIntent(native[v]) \in IntentIds
                 /\ intents[TaskIntent(native[v])].state \in {"deleting", "deleted"}
        BY DEF Inductive, PublishersAndCollectors
    <3>3. \A i \in IntentIds : intents[i].state \in {"deleting", "deleted"} =>
                                   intents'[i].state \in {"deleting", "deleted"}
        BY <1>a
    <3> QED
        BY <3>1, <3>2, <3>3
  <2> QED
      BY <2>1, <2>2
<1>5. IntentsMatchObjects'
    BY <1>a DEF Inductive, IntentsMatchObjects
<1>6. CatalogReadable'
    BY <1>a DEF Inductive, CatalogReadable, Collectible, TypeOK
<1>7. PreparedIsDurable'
  <2> SUFFICES ASSUME NEW k \in JobIds, jobs[k].output # 0, jobs[k].state # "completed"
               PROVE  /\ outputs[<<k, jobs[k].output>>] = "prepared"
                      /\ \A i \in OutputIntents(k, jobs[k].output) :
                             i \in objects /\ intents'[i].state = "referenced"
      BY DEF PreparedIsDurable, OutputIntents
  <2>1. /\ outputs[<<k, jobs[k].output>>] = "prepared"
        /\ \A i \in OutputIntents(k, jobs[k].output) :
               i \in objects /\ intents[i].state = "referenced"
      BY DEF Inductive, PreparedIsDurable
  <2>2. \A i \in OutputIntents(k, jobs[k].output) : i \in IntentIds /\ i # x
      BY PreparedIsPinned
  <2> QED
      BY <1>a, <2>1, <2>2
<1> QED
    BY <1>1, <1>2, <1>3, <1>4, <1>5, <1>6, <1>7 DEF Inductive

(* ClaimGCObject marks only collectible intents: no catalog file and no    *)
(* prepared output.                                                        *)
LEMMA ClaimGCInductive ==
    ASSUME Inductive, NEW w \in Workers, NEW x \in IntentIds, ClaimGCObject(w, x)
    PROVE  Inductive'
<1> DEFINE row == [intents[x] EXCEPT !.state = "deleting", !.sweeper = w]
           u == [step |-> "delete", job |-> x[1], fence |-> x[2], part |-> x[3]]
<1>1. row \in Intents /\ row.state = "deleting"
    BY ZenonT(40) DEF Inductive, TypeOK, Intents
<1>2. u \in NativeTasks /\ TaskIntent(u) = x
    BY PublicationAssumption DEF NativeTasks, IntentIds, TaskIntent, Fences, Parts
<1>3. u.step = "delete" /\ u.step \notin Converting
    BY DEF Converting
<1>4. /\ Collectible(x) /\ intents' = [intents EXCEPT ![x] = row]
      /\ native' = [native EXCEPT ![w] = u]
      /\ UNCHANGED <<generation, lanes, batches, jobs, outputs, files, objects,
                     booted, publisher, faults>>
    BY DEF ClaimGCObject
<1>5. intents[x].state # "none"
    BY <1>4 DEF Collectible
<1> QED
    BY <1>1, <1>2, <1>3, <1>4, <1>5, SweepInductive

(* DeleteObject removes an object that was marked, and a marked object is  *)
(* in no catalog.                                                          *)
LEMMA DeleteInductive ==
    ASSUME Inductive, NEW w \in Workers, DeleteObject(w)
    PROVE  Inductive'
<1> DEFINE t == native[w]
           x == TaskIntent(t)
<1>a. /\ t.step = "delete" /\ t \in NativeTasks
      /\ objects' = objects \ {x}
      /\ native' = [native EXCEPT ![w].step = "confirm"]
      /\ UNCHANGED control /\ UNCHANGED <<booted, publisher, faults>>
    BY DEF DeleteObject, Inductive, TypeOK
<1>b. x \in IntentIds /\ intents[x].state \in {"deleting", "deleted"}
    BY <1>a DEF Inductive, PublishersAndCollectors
<1>c. /\ native'[w].step = "confirm" /\ TaskIntent(native'[w]) = x
      /\ \A v \in Workers : v # w => native'[v] = native[v]
    BY <1>a DEF Inductive, TypeOK, NativeTasks, TaskIntent
<1> HIDE DEF x
<1>1. TypeOK'
    BY <1>a DEF Inductive, TypeOK, control, NativeTasks
<1>2. JobShape' /\ ContiguousCut' /\ ExactlyOneOutput'
    BY <1>a DEF Inductive, control, JobShape, ContiguousCut, ExactlyOneOutput, OutputIntents
<1>3. FencedConverters'
  <2> SUFFICES ASSUME NEW v \in Workers PROVE FencedConverter(v)'
      BY DEF FencedConverters
  <2>1. CASE v = w
      BY <1>c, <2>1 DEF FencedConverter, Converting
  <2>2. CASE v # w
      BY <1>a, <1>b, <1>c, <2>2, UndisturbedConverter DEF control
  <2> QED
      BY <2>1, <2>2
<1>4. PublishersAndCollectors'
    BY <1>a, <1>b, <1>c DEF Inductive, control, PublishersAndCollectors, TaskIntent
<1>5. IntentsMatchObjects' /\ CatalogReadable'
    BY <1>a, <1>b DEF Inductive, control, IntentsMatchObjects, CatalogReadable
<1>6. PreparedIsDurable'
    BY <1>a, <1>b DEF Inductive, control, PreparedIsDurable, OutputIntents
<1> QED
    BY <1>1, <1>2, <1>3, <1>4, <1>5, <1>6 DEF Inductive

(* ConfirmGCObject turns a marked intent into a tombstone, or changes      *)
(* nothing when its claim was overtaken.                                   *)
LEMMA ConfirmGCInductive ==
    ASSUME Inductive, NEW w \in Workers, ConfirmGCObject(w)
    PROVE  Inductive'
<1> DEFINE x == TaskIntent(native[w])
           row == IF intents[x].state = "deleting" /\ intents[x].sweeper = w
                  THEN [intents[x] EXCEPT !.state = "deleted"] ELSE intents[x]
<1>1. x \in IntentIds /\ intents[x].state \in {"deleting", "deleted"}
    BY DEF ConfirmGCObject, Inductive, PublishersAndCollectors
<1>2. row \in Intents /\ row.state \in {"deleting", "deleted"}
    BY <1>1 DEF Inductive, TypeOK, Intents
<1>3. Idle \in NativeTasks /\ Idle.step = "idle" /\ Idle.step \notin Converting
    BY PublicationAssumption DEF NativeTasks, Idle, Converting
<1>4. intents' = [intents EXCEPT ![x] = row]
    BY <1>1 DEF ConfirmGCObject, Inductive, TypeOK
<1>5. /\ native' = [native EXCEPT ![w] = Idle]
      /\ UNCHANGED <<generation, lanes, batches, jobs, outputs, files, objects,
                     booted, publisher, faults>>
    BY DEF ConfirmGCObject
<1>6. Collectible(x) /\ intents[x].state # "none"
    BY <1>1 DEF Collectible
<1> HIDE DEF row, x
<1> QED
    BY <1>1, <1>2, <1>3, <1>4, <1>5, <1>6, SweepInductive

-----------------------------------------------------------------------------
(* Restore activation *)

(* ActivateRecovery: requeued jobs have no output; completed jobs, the     *)
(* catalog and S3 are left alone.                                          *)
LEMMA ActivateInductive ==
    ASSUME Inductive, ActivateRecovery
    PROVE  Inductive'
<1> DEFINE open == {j \in JobIds : jobs[j].state \in {"queued", "running", "prepared"}}
           new(j) == [jobs[j] EXCEPT !.state = "queued", !.gen = generation + 1,
                                     !.output = 0, !.owner = NoWorker,
                                     !.live = FALSE, !.fence = jobs[j].fence + 1]
<1>a. /\ generation < MaxGeneration /\ generation' = generation + 1
      /\ \A j \in open : jobs[j].fence < MaxFence
      /\ outputs' = [o \in JobIds \X Fences |->
                        IF o[1] \in open /\ jobs[o[1]].output = o[2] /\ outputs[o] = "prepared"
                        THEN "discarded" ELSE outputs[o]]
      /\ jobs' = [j \in JobIds |-> IF j \in open THEN new(j) ELSE jobs[j]]
      /\ UNCHANGED <<lanes, batches, intents, files, objects, booted, native,
                     publisher, faults>>
    BY DEF ActivateRecovery
<1>b. \A j \in open : new(j) \in Jobs
  <2> SUFFICES ASSUME NEW j \in open PROVE new(j) \in Jobs
      OBVIOUS
  <2>1. jobs[j] \in Jobs /\ jobs[j].fence \in 0..MaxFence /\ jobs[j].fence < MaxFence
      BY <1>a DEF Inductive, TypeOK, Jobs
  <2>2. jobs[j].fence + 1 \in 0..MaxFence /\ generation + 1 \in 0..MaxGeneration /\ 0 \in 0..MaxFence
    <3>1. generation \in 1..MaxGeneration /\ generation < MaxGeneration
        BY <1>a DEF Inductive, TypeOK, Generations
    <3> QED
        BY <2>1, <3>1, PublicationAssumption
  <2> QED
      BY <2>1, <2>2 DEF Jobs
<1>c. \A j \in open : /\ jobs'[j] = new(j) /\ jobs'[j].state = "queued"
                      /\ jobs'[j].output = 0 /\ jobs'[j].fence = jobs[j].fence + 1
    BY ZenonT(40), <1>a, <1>b DEF Inductive, TypeOK, Jobs
<1>d. \A j \in JobIds : j \notin open => jobs'[j] = jobs[j] /\ jobs[j].state \in {"none", "completed"}
    BY <1>a DEF Inductive, TypeOK, Jobs
<1>e. \A j \in JobIds : jobs[j].fence \in Nat /\ jobs'[j].fence \in Nat /\ jobs'[j].fence >= jobs[j].fence
  <2>1. \A j \in JobIds : jobs[j].fence \in Nat
      BY PublicationAssumption DEF Inductive, TypeOK, Jobs
  <2> HIDE DEF open, new
  <2> QED
      BY <1>c, <1>d, <2>1
<1>f. \A j \in open : jobs[j].state \in {"queued", "running", "prepared"} /\ j \in JobIds
    OBVIOUS
<1>g. jobs' \in [JobIds -> Jobs]
    BY <1>a, <1>b DEF Inductive, TypeOK
<1>h. outputs' \in [JobIds \X Fences -> {"none", "prepared", "published", "discarded"}]
    BY <1>a DEF Inductive, TypeOK
<1> HIDE DEF open, new
<1>1. TypeOK'
  <2>1. generation' \in Generations
      BY <1>a, PublicationAssumption DEF Inductive, TypeOK, Generations
  <2> QED
      BY <1>a, <1>g, <1>h, <2>1 DEF Inductive, TypeOK
<1>2. JobShape'
    BY <1>a, <1>c, <1>d, <1>f DEF Inductive, JobShape
<1>3. FencedConverters'
  <2> SUFFICES ASSUME NEW w \in Workers PROVE FencedConverter(w)'
      BY DEF FencedConverters
  <2>1. FencedConverter(w) /\ native'[w] = native[w]
      BY <1>a DEF Inductive, FencedConverters
  <2>2. native[w].step \in Converting =>
            /\ native[w].job \in JobIds
            /\ native[w].fence \in Nat
            /\ native[w].fence <= jobs'[native[w].job].fence
            /\ jobs'[native[w].job].state = "running" => FALSE
    <3> SUFFICES ASSUME native[w].step \in Converting
                 PROVE  /\ native[w].job \in JobIds
                        /\ native[w].fence \in Nat
                        /\ native[w].fence <= jobs'[native[w].job].fence
                        /\ jobs'[native[w].job].state = "running" => FALSE
        OBVIOUS
    <3>1. /\ native[w].job \in JobIds /\ native[w].fence \in Nat
          /\ native[w].fence <= jobs[native[w].job].fence
      <4>1. /\ native[w].job \in JobIds /\ native[w].fence \in Fences
            /\ native[w].fence <= jobs[native[w].job].fence
          BY Zenon, <2>1 DEF FencedConverter
      <4> QED
          BY <4>1 DEF Fences
    <3>2. native[w].fence <= jobs'[native[w].job].fence
        BY <1>e, <3>1
    <3>3. jobs'[native[w].job].state # "running"
        BY <1>c, <1>d, <3>1
    <3> QED
        BY <3>1, <3>2, <3>3
  <2> QED
      BY <1>a, <2>1, <2>2 DEF FencedConverter, TaskIntent
<1>4. PublishersAndCollectors'
    BY <1>a DEF Inductive, PublishersAndCollectors, TaskIntent
<1>5. IntentsMatchObjects'
  <2> SUFFICES ASSUME NEW i \in IntentIds
               PROVE  /\ intents'[i].state # "none" => i[2] <= jobs'[i[1]].fence
                      /\ intents'[i].state \in {"uploaded", "referenced"} => i \in objects'
      BY DEF IntentsMatchObjects
  <2>1. i[1] \in JobIds /\ i[2] \in Nat
      BY DEF IntentIds, Fences
  <2>2. /\ intents[i].state # "none" => i[2] <= jobs[i[1]].fence
        /\ intents[i].state \in {"uploaded", "referenced"} => i \in objects
      BY DEF Inductive, IntentsMatchObjects
  <2>3. intents' = intents /\ objects' = objects
      BY <1>a
  <2> QED
      BY <1>e, <2>1, <2>2, <2>3
<1>6. ContiguousCut'
    BY <1>a, <1>c, <1>d, <1>f DEF Inductive, ContiguousCut
<1>7. ExactlyOneOutput'
  <2>1. \A j \in JobIds : batches[j].state = "published" => jobs'[j] = jobs[j]
      BY <1>d, <1>f DEF Inductive, ContiguousCut
  <2> QED
      BY SMTT(30), <1>a, <2>1 DEF Inductive, ExactlyOneOutput, OutputIntents
<1>8. CatalogReadable'
    BY <1>a DEF Inductive, CatalogReadable
<1>9. PreparedIsDurable'
  <2>1. \A j \in JobIds : jobs'[j].output = 0 \/ jobs'[j].state = "completed"
      BY <1>c, <1>d DEF Inductive, JobShape
  <2> QED
      BY <2>1 DEF PreparedIsDurable
<1> QED
    BY <1>1, <1>2, <1>3, <1>4, <1>5, <1>6, <1>7, <1>8, <1>9 DEF Inductive

-----------------------------------------------------------------------------
(* VerifyPublicationObjects changes only the task of the publisher. *)
LEMMA VerifyInductive ==
    ASSUME Inductive, NEW w \in Workers, VerifyPublicationObjects(w)
    PROVE  Inductive'
<1>a. /\ publisher' = [publisher EXCEPT ![w].step = "publish"]
      /\ publisher[w].step = "verify" /\ publisher[w] \in PublisherTasks
      /\ UNCHANGED control /\ UNCHANGED <<objects, booted, native, faults>>
    BY DEF VerifyPublicationObjects, Inductive, TypeOK
<1>1. TypeOK'
    BY <1>a DEF Inductive, TypeOK, control, PublisherTasks
<1>2. FencedConverters'
    BY <1>a DEF Inductive, control, FencedConverters, FencedConverter, TaskIntent
<1>3. PublishersAndCollectors'
    BY <1>a DEF Inductive, TypeOK, control, PublishersAndCollectors, PublisherTasks, TaskIntent
<1> QED
    BY <1>a, <1>1, <1>2, <1>3, TaskStepInductive

(* Every step of the pipeline preserves the inductive invariant. *)
LEMMA NextInductive ==
    ASSUME Inductive, [Next]_vars
    PROVE  Inductive'
<1>1. ASSUME NEW l \in Lanes, NEW n \in PartCounts, Accept(l, n) PROVE Inductive'
    BY <1>1, AcceptInductive
<1>2. ASSUME NEW w \in Workers, NEW j \in JobIds, ClaimConversionJob(w, j) PROVE Inductive'
    BY <1>2, ClaimConversionInductive
<1>3. ASSUME NEW w \in Workers, ConversionStep(w) PROVE Inductive'
    BY <1>3, LoadInductive, RegisterInductive, PutInductive, MarkInductive, PrepareInductive
    DEF ConversionStep
<1>4. ASSUME NEW w \in Workers, NEW j \in JobIds, ClaimPublicationJob(w, j) PROVE Inductive'
    BY <1>4, ClaimPublicationInductive
<1>5. ASSUME NEW w \in Workers, PublicationStep(w) PROVE Inductive'
    BY <1>5, VerifyInductive, PublishInductive DEF PublicationStep
<1>6. ASSUME NEW j \in JobIds, LeaseExpires(j) PROVE Inductive'
    BY <1>6, LeaseExpiresInductive
<1>7. ASSUME NEW w \in Workers, NativeTaskFails(w) \/ PublisherTaskFails(w) \/ Restart(w)
      PROVE Inductive'
    BY <1>7, FailureInductive
<1>8. CASE ActivateRecovery
    BY <1>8, ActivateInductive
<1>9. ASSUME NEW w \in Workers, NEW i \in IntentIds, ClaimGCObject(w, i) PROVE Inductive'
    BY <1>9, ClaimGCInductive
<1>10. ASSUME NEW w \in Workers, CollectionStep(w) PROVE Inductive'
    BY <1>10, DeleteInductive, ConfirmGCInductive DEF CollectionStep
<1>11. CASE UNCHANGED vars
  <2>1. TypeOK' /\ FencedConverters' /\ PublishersAndCollectors'
    <3>1. TypeOK'
        BY <1>11 DEF vars, Inductive, TypeOK
    <3>2. FencedConverters'
        BY <1>11, UndisturbedConverter DEF vars, FencedConverters
    <3>3. PublishersAndCollectors'
        BY <1>11 DEF vars, Inductive, PublishersAndCollectors, TaskIntent
    <3> QED
        BY <3>1, <3>2, <3>3
  <2>2. UNCHANGED control /\ objects \subseteq objects'
      BY <1>11 DEF vars, control
  <2> QED
      BY <2>1, <2>2, TaskStepInductive
<1> QED
    BY <1>1, <1>2, <1>3, <1>4, <1>5, <1>6, <1>7, <1>8, <1>9, <1>10, <1>11 DEF Next

(* The inductive invariant holds in every reachable state, for any number  *)
(* of lanes, workers, batches, files, fences, restores and faults.         *)
THEOREM InductiveHolds == Spec => []Inductive
<1>1. Inductive /\ [Next]_vars => Inductive'
    BY NextInductive
<1> QED
    BY <1>1, InitInductive, PTL DEF Spec

(* The rows, objects and tasks keep their types. *)
THEOREM TypeCorrect == Spec => []TypeOK
<1>1. Inductive => TypeOK
    BY DEF Inductive
<1> QED
    BY <1>1, InductiveHolds, PTL

(* A lane's published cut covers exactly its published batches (Publish),  *)
(* whatever workers crash, lose leases or take over.                       *)
THEOREM CutIsContiguous == Spec => []ContiguousCut
<1>1. Inductive => ContiguousCut
    BY DEF Inductive
<1> QED
    BY <1>1, InductiveHolds, PTL

(* The catalog shows every file of one attempt of a published batch and    *)
(* nothing of any other attempt (insertPublishedCatalog, Prepare, job      *)
(* fences).                                                                *)
THEOREM OneOutputPerBatch == Spec => []ExactlyOneOutput
<1>1. Inductive => ExactlyOneOutput
    BY DEF Inductive
<1> QED
    BY <1>1, InductiveHolds, PTL

(* No file of the catalog is ever deleted from S3 (gcEligibleSQL against   *)
(* Publish and late PUTs).                                                 *)
THEOREM CatalogStaysReadable == Spec => []CatalogReadable
<1>1. Inductive => CatalogReadable
    BY DEF Inductive
<1> QED
    BY <1>1, InductiveHolds, PTL

(* A prepared output keeps every object it references until it is          *)
(* published or a restore discards it (contract C01 of the ingest path).   *)
THEOREM PreparedStaysDurable == Spec => []PreparedIsDurable
<1>1. Inductive => PreparedIsDurable
    BY DEF Inductive
<1> QED
    BY <1>1, InductiveHolds, PTL

-----------------------------------------------------------------------------
(* Action properties *)

(* One step never revives an intent that GC has marked. *)
LEMMA TombstonesStayStep ==
    ASSUME Inductive, Inductive', [Next]_vars
    PROVE  \A i \in IntentIds :
               intents[i].state \in {"deleting", "deleted"} =>
                   intents'[i].state \in {"deleting", "deleted"} /\ i \notin files'
<1> SUFFICES ASSUME NEW i \in IntentIds, intents[i].state \in {"deleting", "deleted"}
             PROVE  intents'[i].state \in {"deleting", "deleted"}
    BY DEF Inductive, CatalogReadable
<1>1. ASSUME NEW w \in Workers, RegisterOutputIntent(w)
      PROVE  intents'[i].state \in {"deleting", "deleted"}
  <2>1. TaskIntent(native[w]) # i
      BY <1>1 DEF RegisterOutputIntent, Inductive, FencedConverters, FencedConverter, Converting
  <2> QED
      BY <1>1, <2>1 DEF RegisterOutputIntent, Inductive, TypeOK
<1>2. ASSUME NEW w \in Workers, MarkOutputIntentUploaded(w)
      PROVE  intents'[i].state \in {"deleting", "deleted"}
    BY <1>2 DEF MarkOutputIntentUploaded, Inductive, TypeOK
<1>3. ASSUME NEW w \in Workers, Prepare(w)
      PROVE  intents'[i].state \in {"deleting", "deleted"}
    BY <1>3 DEF Prepare
<1>4. ASSUME NEW w \in Workers, NEW j \in JobIds, ClaimPublicationJob(w, j)
      PROVE  intents'[i].state \in {"deleting", "deleted"}
    BY <1>4 DEF ClaimPublicationJob, ReferencedIntents
<1>5. ASSUME NEW w \in Workers, NEW x \in IntentIds, ClaimGCObject(w, x)
      PROVE  intents'[i].state \in {"deleting", "deleted"}
  <2>1. i = x => intents'[i] = [intents[i] EXCEPT !.state = "deleting", !.sweeper = w]
      BY <1>5 DEF ClaimGCObject, Inductive, TypeOK
  <2>2. i # x => intents'[i] = intents[i]
      BY <1>5 DEF ClaimGCObject, Inductive, TypeOK
  <2> QED
      BY <2>1, <2>2 DEF Inductive, TypeOK, Intents
<1>6. ASSUME NEW w \in Workers, ConfirmGCObject(w)
      PROVE  intents'[i].state \in {"deleting", "deleted"}
    BY <1>6 DEF ConfirmGCObject, Inductive, TypeOK
<1>7. ASSUME UNCHANGED intents
      PROVE  intents'[i].state \in {"deleting", "deleted"}
    BY <1>7
<1> QED
    BY <1>1, <1>2, <1>3, <1>4, <1>5, <1>6, <1>7
    DEF Next, Accept, ClaimConversionJob, ConversionStep, LoadConversionWork, PutObject,
        PublicationStep, VerifyPublicationObjects, Publish, LeaseExpires, NativeTaskFails,
        PublisherTaskFails, Restart, ActivateRecovery, CollectionStep, DeleteObject,
        control, vars

(* An intent GC has marked never comes back, and its object never gets     *)
(* into the catalog.                                                       *)
THEOREM TombstonesStayThere == Spec => TombstonesStay
<1>1. Inductive /\ Inductive' /\ [Next]_vars =>
          [\A i \in IntentIds :
              intents[i].state \in {"deleting", "deleted"} =>
                  intents'[i].state \in {"deleting", "deleted"} /\ i \notin files']_vars
    BY TombstonesStayStep
<1> QED
    BY <1>1, InductiveHolds, PTL DEF Spec, TombstonesStay

(* One step keeps a prepared output within its generation and never moves  *)
(* a fence or a cut backwards.                                             *)
LEMMA OutputIsStableStep ==
    ASSUME Inductive, [Next]_vars
    PROVE  /\ \A j \in JobIds :
                /\ jobs[j].output # 0 /\ generation' = generation
                     => jobs'[j].output = jobs[j].output
                /\ jobs'[j].fence >= jobs[j].fence
           /\ \A l \in Lanes :
                lanes'[l].published \in {lanes[l].published, lanes[l].published + 1}
<1> DEFINE Goal == /\ \A j \in JobIds :
                        /\ jobs[j].output # 0 /\ generation' = generation
                             => jobs'[j].output = jobs[j].output
                        /\ jobs'[j].fence >= jobs[j].fence
                   /\ \A l \in Lanes :
                        lanes'[l].published \in {lanes[l].published, lanes[l].published + 1}
<1>a. \A j \in JobIds : jobs[j] \in Jobs /\ jobs[j].fence \in Nat
    BY PublicationAssumption DEF Inductive, TypeOK, Jobs
(* It is enough to look at the one job row a step rewrites. *)
<1>b. ASSUME NEW j \in JobIds, NEW row, jobs' = [jobs EXCEPT ![j] = row],
             row.fence >= jobs[j].fence,
             jobs[j].output # 0 => row.output = jobs[j].output,
             UNCHANGED lanes
      PROVE  Goal
  <2>1. jobs'[j] = row /\ \A k \in JobIds : k # j => jobs'[k] = jobs[k]
      BY <1>b DEF Inductive, TypeOK
  <2> QED
      BY <1>a, <1>b, <2>1
<1>1. ASSUME NEW l \in Lanes, NEW n \in PartCounts, Accept(l, n) PROVE Goal
  <2> DEFINE j == <<l, lanes[l].accepted + 1>>
  <2>1. j \in JobIds
      BY <1>1, PublicationAssumption DEF Accept, Inductive, TypeOK, JobIds, Seqs
  <2>2. batches[j].state = "none"
      BY <2>1 DEF Inductive, TypeOK, ContiguousCut
  <2>3. jobs[j].fence = 0 /\ jobs[j].output = 0
      BY <2>1, <2>2 DEF Inductive, JobShape
  <2>4. jobs'[j].fence = 0 /\ \A k \in JobIds : k # j => jobs'[k] = jobs[k]
      BY <1>1, <2>1 DEF Accept, Inductive, TypeOK
  <2>5. \A m \in Lanes : lanes'[m].published = lanes[m].published
      BY <1>1 DEF Accept, Inductive, TypeOK
  <2> HIDE DEF j
  <2>6. ASSUME NEW k \in JobIds
        PROVE  /\ jobs[k].output # 0 => jobs'[k].output = jobs[k].output
               /\ jobs'[k].fence >= jobs[k].fence
    <3>1. CASE k = j
        BY <2>3, <2>4, <3>1
    <3>2. CASE k # j
        BY <1>a, <2>4, <3>2
    <3> QED
        BY <3>1, <3>2
  <2> QED
      BY <2>5, <2>6
<1>2. ASSUME NEW w \in Workers, NEW j \in JobIds, ClaimConversionJob(w, j) PROVE Goal
  <2> DEFINE row == [jobs[j] EXCEPT !.state = "running", !.owner = w,
                                    !.fence = jobs[j].fence + 1, !.live = TRUE]
  <2>1. jobs' = [jobs EXCEPT ![j] = row] /\ UNCHANGED lanes
      BY <1>2 DEF ClaimConversionJob
  <2>2. row.fence >= jobs[j].fence /\ row.output = jobs[j].output
      BY <1>a DEF Jobs
  <2> HIDE DEF row
  <2> QED
      BY <1>b, <2>1, <2>2
<1>3. ASSUME NEW w \in Workers, Prepare(w) PROVE Goal
  <2> DEFINE j == native[w].job
             row == [jobs[j] EXCEPT !.state = "prepared", !.output = native[w].fence,
                                    !.owner = NoWorker, !.live = FALSE]
  <2>1. jobs' = [jobs EXCEPT ![j] = row] /\ UNCHANGED lanes
      BY <1>3 DEF Prepare
  <2>2. j \in JobIds /\ jobs[j].output = 0
      BY <1>3 DEF Prepare, Authorized, Holds, Inductive, FencedConverters, FencedConverter, Converting
  <2>3. row.fence = jobs[j].fence
      BY <1>a, <2>2 DEF Jobs
  <2> HIDE DEF row, j
  <2> QED
      BY <1>a, <1>b, <2>1, <2>2, <2>3
<1>4. ASSUME NEW w \in Workers, NEW j \in JobIds, ClaimPublicationJob(w, j) PROVE Goal
  <2> DEFINE row == [jobs[j] EXCEPT !.state = "running", !.owner = w,
                                    !.fence = jobs[j].fence + 1, !.live = TRUE]
  <2>1. jobs' = [jobs EXCEPT ![j] = row] /\ UNCHANGED lanes
      BY <1>4 DEF ClaimPublicationJob
  <2>2. row.fence >= jobs[j].fence /\ row.output = jobs[j].output
      BY <1>a DEF Jobs
  <2> HIDE DEF row
  <2> QED
      BY <1>b, <2>1, <2>2
<1>5. ASSUME NEW w \in Workers, Publish(w) PROVE Goal
  <2> DEFINE j == publisher[w].job
             row == [jobs[j] EXCEPT !.state = "completed", !.owner = NoWorker, !.live = FALSE]
  <2>1. /\ jobs' = [jobs EXCEPT ![j] = row]
        /\ lanes' = [lanes EXCEPT ![j[1]].published = j[2]]
        /\ j \in JobIds /\ j[2] = lanes[j[1]].published + 1
      BY <1>5 DEF Publish, NextInLane, Inductive, PublishersAndCollectors
  <2>2. row.fence = jobs[j].fence /\ row.output = jobs[j].output
      BY <1>a, <2>1 DEF Jobs
  <2>3. jobs'[j] = row /\ \A k \in JobIds : k # j => jobs'[k] = jobs[k]
      BY <2>1 DEF Inductive, TypeOK
  <2>4. \A l \in Lanes : lanes'[l].published \in {lanes[l].published, lanes[l].published + 1}
      BY <2>1 DEF Inductive, TypeOK
  <2> HIDE DEF row, j
  <2> QED
      BY <1>a, <2>2, <2>3, <2>4
<1>6. ASSUME NEW j \in JobIds, LeaseExpires(j) PROVE Goal
  <2>1. jobs' = [jobs EXCEPT ![j] = [jobs[j] EXCEPT !.live = FALSE]] /\ UNCHANGED lanes
      BY <1>6 DEF LeaseExpires
  <2>2. /\ [jobs[j] EXCEPT !.live = FALSE].fence = jobs[j].fence
        /\ [jobs[j] EXCEPT !.live = FALSE].output = jobs[j].output
      BY <1>a DEF Jobs
  <2> QED
      BY <1>a, <1>b, <2>1, <2>2
<1>7. CASE ActivateRecovery
  <2>1. generation' # generation /\ UNCHANGED lanes
    <3>1. generation \in Nat
        BY DEF Inductive, TypeOK, Generations
    <3>2. generation' = generation + 1 /\ UNCHANGED lanes
        BY <1>7 DEF ActivateRecovery
    <3> QED
        BY <3>1, <3>2
  <2>2. ASSUME NEW j \in JobIds PROVE jobs'[j].fence >= jobs[j].fence
    <3>1. \/ jobs'[j] = jobs[j]
          \/ jobs'[j] = [jobs[j] EXCEPT !.state = "queued", !.gen = generation + 1,
                                        !.output = 0, !.owner = NoWorker,
                                        !.live = FALSE, !.fence = jobs[j].fence + 1]
        BY <1>7 DEF ActivateRecovery
    <3>2. \/ jobs'[j].fence = jobs[j].fence
          \/ jobs'[j].fence = jobs[j].fence + 1
        BY <1>a, <3>1 DEF Jobs
    <3> QED
        BY <1>a, <3>2
  <2> QED
      BY <2>1, <2>2
<1>8. ASSUME UNCHANGED <<jobs, lanes>> PROVE Goal
    BY <1>a, <1>8
<1> QED
    BY <1>1, <1>2, <1>3, <1>4, <1>5, <1>6, <1>7, <1>8
    DEF Next, ConversionStep, LoadConversionWork, RegisterOutputIntent, PutObject,
        MarkOutputIntentUploaded, PublicationStep, VerifyPublicationObjects,
        NativeTaskFails, PublisherTaskFails, Restart, ClaimGCObject, CollectionStep,
        DeleteObject, ConfirmGCObject, control, vars

(* Within a storage generation a prepared output is never replaced; fences *)
(* and cuts only grow.                                                     *)
THEOREM OutputStaysStable == Spec => OutputIsStable
<1>1. Inductive /\ [Next]_vars =>
        [/\ \A j \in JobIds :
            /\ jobs[j].output # 0 /\ generation' = generation
                 => jobs'[j].output = jobs[j].output
            /\ jobs'[j].fence >= jobs[j].fence
         /\ \A l \in Lanes :
            lanes'[l].published \in {lanes[l].published, lanes[l].published + 1}]_vars
    BY OutputIsStableStep
<1> QED
    BY <1>1, InductiveHolds, PTL DEF Spec, OutputIsStable
=============================================================================
