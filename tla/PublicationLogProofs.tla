------------------------ MODULE PublicationLogProofs ------------------------
(***************************************************************************)
(* Publication implements LaneLog, for every number of lanes, workers,     *)
(* batches, files, fences, restores and faults.                            *)
(***************************************************************************)
EXTENDS PublicationLog, PublicationProofs, FiniteSetTheorems

(* Before the first batch nothing is visible. *)
LEMMA LogInit == Init => Log!Init
<1> SUFFICES ASSUME Init PROVE Log!Init
    OBVIOUS
<1>1. \A j \in JobIds, p \in Parts : Cardinality(Copies(j, p)) = 0
  <2>1. \A j \in JobIds, p \in Parts : Copies(j, p) = {}
      BY DEF Copies, Init
  <2> QED
      BY <2>1, FS_EmptySet
<1> QED
    BY <1>1 DEF Log!Init, Init, Log!Batches, JobIds, Seqs, Parts

(* Accept appends a batch to its lane's log. *)
LEMMA LogAccept ==
    ASSUME Inductive, NEW l \in Lanes, NEW n \in PartCounts, Accept(l, n)
    PROVE  Log!Append(l, n)
<1> DEFINE j == <<l, lanes[l].accepted + 1>>
<1>1. lanes[l].accepted < MaxSeq /\ lanes[l].accepted \in Nat /\ j \in JobIds
    BY PublicationAssumption DEF Accept, Inductive, TypeOK, JobIds, Seqs
<1>2. [m \in Lanes |-> lanes'[m].accepted] =
          [[m \in Lanes |-> lanes[m].accepted] EXCEPT ![l] = lanes[l].accepted + 1]
    BY DEF Accept, Inductive, TypeOK
<1>3. [m \in Lanes |-> lanes'[m].published] = [m \in Lanes |-> lanes[m].published]
    BY DEF Accept, Inductive, TypeOK
<1>4. [k \in JobIds |-> batches'[k].parts] =
          [[k \in JobIds |-> batches[k].parts] EXCEPT ![j] = n]
    BY <1>1 DEF Accept, Inductive, TypeOK
<1>5. [k \in JobIds |-> [p \in Parts |-> Cardinality(Copies(k, p)')]] =
          [k \in JobIds |-> [p \in Parts |-> Cardinality(Copies(k, p))]]
    BY DEF Accept, Copies
<1> QED
    BY <1>1, <1>2, <1>3, <1>4, <1>5 DEF Log!Append

(* Publish makes the lane's next batch visible, each of its files once. *)
LEMMA LogPublish ==
    ASSUME Inductive, NEW w \in Workers, Publish(w),
           NEW j \in JobIds, j = publisher[w].job, NEW l \in Lanes, l = j[1],
           NEW f \in Fences, f = publisher[w].output
    PROVE  Log!Reveal(l)
<1> DEFINE n == batches[j].parts
           shown == [p \in Parts |-> IF p <= n THEN 1 ELSE 0]
<1>1. /\ j[2] \in Seqs
      /\ j = <<l, lanes[l].published + 1>> /\ j[2] = lanes[l].published + 1
      /\ batches[j].state = "accepted"
  <2>1. j[2] = lanes[l].published + 1 /\ batches[j].state = "accepted"
      BY DEF Publish, NextInLane
  <2>2. j[2] \in Seqs /\ j = <<l, j[2]>>
      BY DEF JobIds
  <2> QED
      BY <2>1, <2>2
<1>2. /\ files' = files \cup OutputIntents(j, f)
      /\ batches' = [batches EXCEPT ![j].state = "published"]
      /\ lanes' = [lanes EXCEPT ![l].published = j[2]]
    BY DEF Publish, InsertPublishedCatalog
<1>3. n \in 0..MaxParts
    BY <1>1 DEF Inductive, TypeOK
<1>4. \A i \in files : i[1] # j
    BY <1>1 DEF Inductive, ExactlyOneOutput
<1>5. lanes[l].published < lanes[l].accepted
  <2>1. lanes[l].published \in Nat /\ lanes[l].accepted \in Nat
      BY <1>1 DEF Inductive, TypeOK
  <2>2. ~(j[2] > lanes[l].accepted)
      BY <1>1 DEF Inductive, ContiguousCut
  <2>3. \A a, b \in Nat : ~(a + 1 > b) => a < b
      OBVIOUS
  <2>4. ~(lanes[l].published + 1 > lanes[l].accepted)
      BY Zenon, <1>1, <2>2
  <2> QED
      BY Zenon, <2>1, <2>3, <2>4
<1>6. ASSUME NEW p \in Parts PROVE Cardinality(Copies(j, p)') = shown[p]
  <2>1. CASE p <= n
    <3>1. Copies(j, p)' = {<<j, f, p>>}
        BY <1>2, <1>3, <1>4, <2>1 DEF Copies, OutputIntents, Parts
    <3> QED
        BY <2>1, <3>1, FS_Singleton
  <2>2. CASE ~(p <= n)
    <3>1. Copies(j, p)' = {}
        BY <1>2, <1>3, <1>4, <2>2 DEF Copies, OutputIntents, Parts
    <3> QED
        BY <2>2, <3>1, FS_EmptySet
  <2> QED
      BY <2>1, <2>2
<1>7. ASSUME NEW k \in JobIds, k # j, NEW p \in Parts PROVE Copies(k, p)' = Copies(k, p)
    BY <1>2, <1>7 DEF Copies, OutputIntents
<1> DEFINE before == [k \in JobIds |-> [p \in Parts |-> Cardinality(Copies(k, p))]]
           after == [k \in JobIds |-> [p \in Parts |-> Cardinality(Copies(k, p)')]]
<1>8. after = [before EXCEPT ![j] = shown]
  <2>1. after[j] = shown
      BY <1>6
  <2>2. \A k \in JobIds : k # j => after[k] = before[k]
      BY <1>7
  <2>3. DOMAIN after = JobIds /\ DOMAIN before = JobIds
      OBVIOUS
  <2>4. after = [k \in JobIds |-> after[k]]
      OBVIOUS
  <2> HIDE DEF after, before, shown
  <2> QED
      BY <2>1, <2>2, <2>3, <2>4
<1>9. [m \in Lanes |-> lanes'[m].published] =
          [[m \in Lanes |-> lanes[m].published] EXCEPT ![l] = lanes[l].published + 1]
    BY ZenonT(40), <1>1, <1>2 DEF Inductive, TypeOK
<1>10. [m \in Lanes |-> lanes'[m].accepted] = [m \in Lanes |-> lanes[m].accepted]
  <2> DEFINE row == [lanes[l] EXCEPT !.published = j[2]]
  <2>1. \A m \in Lanes : lanes'[m].accepted = lanes[m].accepted
    <3>1. lanes' = [lanes EXCEPT ![l] = row] /\ DOMAIN lanes = Lanes
        BY Zenon, <1>2 DEF Inductive, TypeOK
    <3>2. row.accepted = lanes[l].accepted
        BY DEF Inductive, TypeOK
    <3> HIDE DEF row
    <3> QED
        BY <3>1, <3>2
  <2> QED
      BY Zenon, <2>1
<1>11. [k \in JobIds |-> batches'[k].parts] = [k \in JobIds |-> batches[k].parts]
    BY <1>1, <1>2 DEF Inductive, TypeOK
<1>12. /\ [m \in Lanes |-> lanes[m].published][l] = lanes[l].published
       /\ [m \in Lanes |-> lanes[m].accepted][l] = lanes[l].accepted
       /\ [k \in JobIds |-> batches[k].parts][j] = n
    OBVIOUS
<1>13. shown = [p \in 1..MaxParts |-> IF p <= n THEN 1 ELSE 0]
    BY DEF Parts
<1> HIDE DEF n, shown, before, after
<1> QED
    BY <1>1, <1>5, <1>8, <1>9, <1>10, <1>11, <1>12, <1>13 DEF Log!Reveal, before, after

(* Every other step leaves the log as it is. *)
LEMMA LogStep == Inductive /\ [Next]_vars => [Log!Next]_(Log!logVars)
<1> SUFFICES ASSUME Inductive, [Next]_vars PROVE Log!Next \/ UNCHANGED Log!logVars
    OBVIOUS
<1>1. ASSUME NEW l \in Lanes, NEW n \in PartCounts, Accept(l, n) PROVE Log!Next
    BY <1>1, LogAccept DEF Log!Next
<1>2. ASSUME NEW w \in Workers, Publish(w) PROVE Log!Next
  <2>1. /\ publisher[w].job \in JobIds /\ publisher[w].output \in Fences
        /\ publisher[w].job[1] \in Lanes
      BY <1>2 DEF Publish, Inductive, PublishersAndCollectors, JobIds
  <2>2. \E l \in Lanes : Log!Reveal(l)
      BY <1>2, <2>1, LogPublish
  <2> QED
      BY <2>2 DEF Log!Next
<1>3. ASSUME UNCHANGED <<lanes, batches, files>> PROVE UNCHANGED Log!logVars
    BY <1>3 DEF Log!logVars, Copies
<1> QED
    BY <1>1, <1>2, <1>3
    DEF Next, ClaimConversionJob, ConversionStep, LoadConversionWork, RegisterOutputIntent,
        PutObject, MarkOutputIntentUploaded, Prepare, ClaimPublicationJob, PublicationStep,
        VerifyPublicationObjects, LeaseExpires, NativeTaskFails, PublisherTaskFails, Restart,
        ActivateRecovery, ClaimGCObject, CollectionStep, DeleteObject, ConfirmGCObject,
        control, vars

(* The whole pipeline implements the log a reader of the catalog relies    *)
(* on: batches appear in accepted order, whole, once, and for good.        *)
THEOREM PublicationImplementsLog == Spec => ImplementsLog
<1> QED
    BY LogInit, LogStep, InductiveHolds, PTL DEF Spec, ImplementsLog, Log!Spec
=============================================================================
