-------------------------- MODULE AcceptanceProofs --------------------------
(***************************************************************************)
(* For every number of requests, lanes, projects, source events, workflows *)
(* and upload attempts: a request is in one batch at most and its receipt  *)
(* names it, the journal of a batch is kept, success is answered only for  *)
(* accepted requests, and a source event is accepted once.                 *)
(***************************************************************************)
EXTENDS AcceptanceWorkflow, AcceptanceWrites

-----------------------------------------------------------------------------
(* The environment *)

(* A step that moves no workflow and writes no batch.                      *)
LEMMA OutsideStep ==
    ASSUME Inductive, UNCHANGED <<wf, tx, results, intents, objects, log, receipts>>, Typed',
           \A w \in Workflows : BatchFits(w)' /\ LocksFit(w)' /\ KeysFit(w)',
           \A e \in Events : CountFits(e)' /\ RowFits(e)'
    PROVE  Inductive'
<1>1. \A w \in Workflows : PhaseFits(w)' /\ UploadsFit(w)'
    BY DEF Inductive, PhaseFits, UploadsFit
<1>2. \A w \in Workflows : JournalFits(w)'
    BY DEF Inductive, JournalFits, Journal, Uploading
<1>3. \A w, v \in Workflows : w # v => Exclusive(w, v)'
    BY DEF Inductive, Exclusive, HoldsLane, Lane
<1>4. \A j \in Journals : intents'[j].state \in {"uploaded", "referenced"} => j \in objects'
    BY DEF Inductive
<1>5. BatchesAreDurable'
    BY DEF Inductive, BatchesAreDurable, Batches, Batch
<1>6. \A r \in Requests : ReceiptFits(r)'
    <2>1. \A r \in Requests : ReceiptFits(r)
        BY Zenon DEF Inductive
    <2> QED
        BY <2>1, ReceiptsKept, Zenon
<1>7. AcknowledgedIsAccepted'
    BY DEF Inductive, AcknowledgedIsAccepted, Accepted
<1>8. ClassesAreTrue'
    BY ClassesKept, Zenon DEF Inductive
<1> QED
    BY <1>1, <1>2, <1>3, <1>4, <1>5, <1>6, <1>7, <1>8 DEF Inductive

(* A request is admitted, a project or the generation changes: nothing     *)
(* that a transaction has locked.                                          *)
LEMMA AuthorityStep ==
    ASSUME AcceptanceAssumption, Inductive,
           (\E r \in Requests : Admit(r)) \/ (\E p \in Projects : ChangeAuthority(p)) \/ ActivateRecovery
    PROVE  Inductive'
<1>1. /\ UNCHANGED <<wf, tx, results, intents, objects, log, receipts>> /\ dedupe' = dedupe /\ lapses' = lapses
    BY DEF Admit, ChangeAuthority, ActivateRecovery, database
<1>2. Typed
    BY DEF Inductive
<1>3. \A w \in Workflows : KeysFit(w)'
    BY <1>1 DEF Inductive, KeysFit, KeysOf
<1>4. \A e \in Events : CountFits(e)' /\ RowFits(e)'
    <2>1. \A e \in Events : CountFits(e) /\ RowFits(e)
        BY Zenon DEF Inductive
    <2> QED
        BY <1>1, <2>1, RowsKept, Zenon
<1>5. \A w \in Workflows : BatchFits(w) /\ LocksFit(w)
    BY DEF Inductive
<1>6. CASE \E r \in Requests : Admit(r)
    <2>1. PICK r \in Requests : Admit(r)
        BY <1>6
    <2>2. /\ snapshot[r] = 0 /\ generation' = generation /\ authority' = authority
          /\ snapshot' = [snapshot EXCEPT ![r] = authority[ProjectOf[r]]]
        BY <2>1 DEF Admit
    <2>3. authority[ProjectOf[r]] \in Nat
        BY <1>2 DEF Typed, AcceptanceAssumption
    <2>4. Typed'
        BY <1>1, <1>2, <2>2, <2>3 DEF Typed
    <2>5. ASSUME NEW w \in Workflows
          PROVE  BatchFits(w)' /\ LocksFit(w)'
        <3>1. \A q \in wf[w].todo : q # r /\ q \in Requests
            BY <1>2, <1>5, <2>2 DEF BatchFits, Typed, Workflow
        <3>2. \A q \in wf[w].todo : snapshot'[q] = snapshot[q]
            BY <1>2, <2>2, <3>1 DEF Typed
        <3> QED
            BY <1>1, <1>5, <2>2, <3>2 DEF BatchFits, LocksFit, Accepted
    <2> QED
        BY <1>1, <1>3, <1>4, <2>4, <2>5, OutsideStep
<1>7. CASE \E p \in Projects : ChangeAuthority(p)
    <2>1. PICK p \in Projects : ChangeAuthority(p)
        BY <1>7
    <2>2. /\ generation' = generation /\ snapshot' = snapshot
          /\ authority' = [authority EXCEPT ![p] = @ + 1]
          /\ \A w \in Workflows : ~HoldsProject(w, p)
        BY <2>1 DEF ChangeAuthority
    <2>3. Typed'
        <3>1. authority' \in [Projects -> Nat]
            BY <1>2, <2>2 DEF Typed
        <3> QED
            BY <1>1, <1>2, <2>2, <3>1 DEF Typed
    <2>4. ASSUME NEW w \in Workflows
          PROVE  BatchFits(w)' /\ LocksFit(w)'
        <3>1. BatchFits(w)'
            BY <1>1, <1>5, <2>2 DEF BatchFits
        <3>2. ASSUME tx[w].phase \in {"shared", "lane", "limbo"}, NEW r \in wf[w].todo
              PROVE  authority'[ProjectOf[r]] = authority[ProjectOf[r]]
            <4>1. ProjectOf[r] # p /\ ProjectOf[r] \in Projects
                BY <1>2, <2>2, <3>2 DEF HoldsProject, Typed, Workflow, AcceptanceAssumption
            <4> QED
                BY <1>2, <2>2, <4>1 DEF Typed
        <3> QED
            BY <1>1, <1>5, <2>2, <3>1, <3>2 DEF LocksFit, Accepted
    <2> QED
        BY <1>1, <1>3, <1>4, <2>3, <2>4, OutsideStep
<1>8. CASE ActivateRecovery
    <2>1. /\ generation' = generation + 1 /\ snapshot' = snapshot /\ authority' = authority
          /\ \A w \in Workflows : tx[w].phase = "none"
        BY <1>8 DEF ActivateRecovery, HoldsInstallation
    <2>2. Typed'
        <3>1. generation' \in Nat
            BY <1>2, <2>1 DEF Typed
        <3> QED
            BY <1>1, <1>2, <2>1, <3>1 DEF Typed
    <2>3. \A w \in Workflows : BatchFits(w)' /\ LocksFit(w)'
        BY <1>1, <1>5, <2>1 DEF BatchFits, LocksFit
    <2> QED
        BY <1>1, <1>3, <1>4, <2>2, <2>3, OutsideStep
<1> QED
    BY <1>6, <1>7, <1>8

(* A row outlives the retention, or is deleted after it did.               *)
LEMMA RetentionStep ==
    ASSUME AcceptanceAssumption, Inductive, (\E e \in Events : ExpireKey(e)) \/ RunRetentionCleanup
    PROVE  Inductive'
<1>1. /\ UNCHANGED <<wf, tx, results, intents, objects, log, receipts>>
      /\ generation' = generation /\ authority' = authority /\ snapshot' = snapshot
    BY DEF ExpireKey, RunRetentionCleanup, environment
<1>2. Typed
    BY DEF Inductive
<1>3. \A w \in Workflows : BatchFits(w)' /\ LocksFit(w)'
    BY <1>1 DEF Inductive, BatchFits, LocksFit, Accepted
<1>4. \A w \in Workflows : KeysOf(w)' = KeysOf(w) /\ KeysFit(w) /\ tx[w] \in Transaction
    BY <1>1, <1>2 DEF KeysOf, Inductive, Typed
<1>5. \A f \in Events : Occurrences(f, "accepted")' = Occurrences(f, "accepted")
    BY <1>1, OccurrencesKept
<1>6. \A f \in Events : /\ CountFits(f) /\ RowFits(f) /\ lapses[f] \in Nat
                        /\ Cardinality(Occurrences(f, "accepted")) \in Nat
    BY <1>2, OccurrencesFinite DEF Inductive, Typed
<1>7. CASE \E e \in Events : ExpireKey(e)
    <2>1. PICK e \in Events : ExpireKey(e)
        BY <1>7
    <2>2. /\ dedupe[e].state = "live"
          /\ dedupe' = [dedupe EXCEPT ![e] = [state |-> "expired", hash |-> dedupe[e].hash]]
          /\ lapses' = [lapses EXCEPT ![e] = @ + 1]
        BY <2>1 DEF ExpireKey
    <2>3. Typed'
        <3>1. lapses' \in [Events -> Nat] /\ DOMAIN dedupe' = Events
            BY <1>2, <2>2 DEF Typed
        <3> QED
            BY <1>1, <1>2, <2>2, <3>1 DEF Typed
    <2>4. /\ dedupe'[e].state = "expired" /\ dedupe'[e].hash = dedupe[e].hash /\ lapses'[e] = lapses[e] + 1
          /\ \A f \in Events \ {e} : dedupe'[f] = dedupe[f] /\ lapses'[f] = lapses[f]
        BY <1>2, <2>2 DEF Typed
    <2>5. \A w \in Workflows : KeysFit(w)'
        BY <1>1, <1>4, <2>2, <2>4 DEF KeysFit, Transaction
    <2>6. ASSUME NEW f \in Events
          PROVE  CountFits(f)' /\ RowFits(f)'
        <3>1. CASE f = e
            <4>1. Cardinality(Occurrences(f, "accepted")) <= lapses[f] + 1
                BY <1>6, <2>2, <3>1 DEF CountFits
            <4>2. Cardinality(Occurrences(f, "accepted")) <= (lapses[f] + 1) + 0
                BY <1>6, <4>1
            <4>3. CountFits(f)'
                BY <1>5, <2>4, <3>1, <4>2 DEF CountFits
            <4>4. RowFits(f)'
                BY <1>5, <1>6, <2>2, <2>4, <3>1 DEF RowFits
            <4> QED
                BY <4>3, <4>4
        <3>2. CASE f # e
            BY <1>5, <1>6, <2>4, <3>2 DEF CountFits, RowFits
        <3> QED
            BY <3>1, <3>2
    <2> QED
        BY <1>1, <1>3, <2>3, <2>5, <2>6, OutsideStep
<1>8. CASE RunRetentionCleanup
    <2>1. PICK gone \in SUBSET {e \in Events : dedupe[e].state = "expired"} :
              dedupe' = [e \in Events |-> IF e \in gone THEN NoKey ELSE dedupe[e]]
        BY <1>8 DEF RunRetentionCleanup
    <2>2. lapses' = lapses /\ \A w \in Workflows, l \in Lanes : ~HoldsLane(w, l)
        BY <1>8 DEF RunRetentionCleanup, environment
    <2>3. Typed'
        BY <1>1, <1>2, <2>1, <2>2 DEF Typed
    <2>4. \A e \in Events : dedupe'[e] = dedupe[e] \/ (dedupe[e].state = "expired" /\ dedupe'[e].state = "absent")
        BY <2>1 DEF NoKey
    <2>5. ASSUME NEW w \in Workflows
          PROVE  tx[w].keys = {}
        <3>1. PhaseFits(w) /\ BatchFits(w) /\ wf[w] \in Workflow
            BY <1>2 DEF Inductive, Typed
        <3>2. ASSUME tx[w].phase \in {"lane", "limbo"}
              PROVE  FALSE
            <4>1. wf[w].todo # {} /\ wf[w].todo \subseteq Requests
                BY <3>1, <3>2 DEF PhaseFits, BatchFits, Workflow
            <4>2. PICK q \in wf[w].todo : q = CHOOSE r \in wf[w].todo : TRUE
                BY <4>1
            <4>3. Lane(w) \in Lanes
                BY <4>1, <4>2 DEF Lane, AcceptanceAssumption
            <4> QED
                BY <2>2, <3>2, <4>3 DEF HoldsLane
        <3> QED
            BY <3>1, <3>2 DEF PhaseFits
    <2>6. \A w \in Workflows : KeysFit(w)'
        BY <1>1, <1>4, <2>5 DEF KeysFit
    <2>7. \A e \in Events : CountFits(e)' /\ RowFits(e)'
        BY <1>5, <1>6, <2>2, <2>4 DEF CountFits, RowFits
    <2> QED
        BY <1>1, <1>3, <2>3, <2>6, <2>7, OutsideStep
<1> QED
    BY <1>7, <1>8


(* An intent expires, is claimed by the collector, or its object is        *)
(* deleted: no batch refers to it and no commit is using it.               *)
LEMMA CollectionStep ==
    ASSUME AcceptanceAssumption, Inductive, NEW j \in Journals,
           ExpireIntent(j) \/ ClaimGCObject(j) \/ DeleteObject(j)
    PROVE  Inductive'
<1>1. /\ wf' = wf /\ tx' = tx /\ results' = results /\ log' = log /\ receipts' = receipts /\ dedupe' = dedupe
      /\ generation' = generation /\ authority' = authority /\ snapshot' = snapshot /\ lapses' = lapses
    BY DEF ExpireIntent, ClaimGCObject, DeleteObject, environment
<1>2. Typed /\ intents[j] \in Intent
    BY DEF Inductive, Typed
<1>3. /\ intents'[j] \in Intent /\ intents' \in [Journals -> Intent]
      /\ \A k \in Journals : k # j => intents'[k] = intents[k]
      /\ intents'[j].requests = intents[j].requests /\ intents'[j].gen = intents[j].gen
      /\ intents[j].state \notin {"absent", "referenced"}
    <2>1. CASE ExpireIntent(j)
        BY <1>2, <2>1 DEF ExpireIntent, Typed, Intent
    <2>2. CASE ClaimGCObject(j)
        BY <1>2, <2>2 DEF ClaimGCObject, Typed, Intent
    <2>3. CASE DeleteObject(j)
        BY <1>2, <2>3 DEF DeleteObject, Typed, Intent
    <2> QED
        BY <2>1, <2>2, <2>3
<1>4. /\ objects' \subseteq objects /\ \A k \in objects : k # j => k \in objects'
      /\ intents'[j].state \in {"pending", "uploaded"} =>
            intents'[j].state = intents[j].state /\ (j \in objects => j \in objects')
      /\ intents'[j].state # "referenced"
      /\ \A w \in Workflows : tx[w].phase = "limbo" /\ Journal(w) = j => intents'[j].state = intents[j].state
    <2>1. CASE ExpireIntent(j)
        BY <1>2, <2>1 DEF ExpireIntent, Typed, Intent
    <2>2. CASE ClaimGCObject(j)
        BY <1>2, <2>2 DEF ClaimGCObject, HoldsIntent, Typed, Intent
    <2>3. CASE DeleteObject(j)
        <3>1. /\ intents[j].state = "deleting" /\ intents'[j].state = "deleted" /\ objects' = objects \ {j}
            BY <1>2, <2>3 DEF DeleteObject, Typed, Intent
        <3>2. \A w \in Workflows : tx[w].phase = "limbo" => intents[Journal(w)].state = "uploaded"
            BY DEF Inductive, JournalFits
        <3> QED
            BY <3>1, <3>2
    <2> QED
        BY <2>1, <2>2, <2>3
<1>5. Typed'
    BY <1>1, <1>2, <1>3, <1>4 DEF Typed
<1>6. ASSUME NEW w \in Workflows
      PROVE  /\ PhaseFits(w)' /\ BatchFits(w)' /\ UploadsFit(w)' /\ LocksFit(w)' /\ KeysFit(w)'
    <2>1. wf'[w] = wf[w] /\ tx'[w] = tx[w]
        BY <1>1, Zenon
    <2>2. PhaseFits(w) /\ BatchFits(w) /\ UploadsFit(w) /\ LocksFit(w) /\ KeysFit(w)
        BY WorkflowFits, Zenon
    <2> QED
        BY <1>1, <2>1, <2>2, WorkflowKept, Zenon
<1>7. ASSUME NEW w \in Workflows
      PROVE  JournalFits(w)'
    <2>1. JournalFits(w) /\ Journal(w)' = Journal(w) /\ (Uploading(w)' <=> Uploading(w))
        BY <1>1 DEF Inductive, Journal, Uploading
    <2>2. (wf[w].at = "mark" \/ tx[w].phase = "limbo") => Uploading(w)
        BY DEF Uploading
    <2>3. CASE Journal(w) = j
        BY <1>1, <1>3, <1>4, <2>1, <2>2, <2>3 DEF JournalFits
    <2>4. CASE Journal(w) # j
        BY <1>1, <1>3, <1>4, <2>1, <2>2, <2>4 DEF JournalFits
    <2> QED
        BY <2>3, <2>4
<1>8. \A w, v \in Workflows : w # v => Exclusive(w, v)'
    <2>1. \A w, v \in Workflows : w # v => Exclusive(w, v)
        BY DEF Inductive
    <2> QED
        BY <1>1, <2>1 DEF Exclusive, HoldsLane, Lane
<1>9. \A k \in Journals : intents'[k].state \in {"uploaded", "referenced"} => k \in objects'
    BY <1>3, <1>4 DEF Inductive
<1>10. BatchesAreDurable'
    <2>1. ASSUME NEW b \in Batches, NEW k, k = Batch(b[1], b[2]).journal
          PROVE  /\ k \in objects' /\ intents'[k].state = "referenced"
                 /\ intents'[k].requests = Batch(b[1], b[2]).requests
        <3>1. /\ k \in objects /\ intents[k].state = "referenced"
              /\ intents[k].requests = Batch(b[1], b[2]).requests
            BY <2>1 DEF Inductive, BatchesAreDurable
        <3>2. k \in Journals /\ k # j
            BY <1>2, <1>3, <3>1 DEF Typed
        <3> QED
            BY <1>3, <1>4, <3>1, <3>2
    <2>2. Batches' = Batches /\ \A b : Batch(b[1], b[2])' = Batch(b[1], b[2])
        BY <1>1 DEF Batches, Batch
    <2> QED
        BY <2>1, <2>2 DEF BatchesAreDurable
<1>11. (\A r \in Requests : ReceiptFits(r)') /\ AcknowledgedIsAccepted'
    <2>1. (\A r \in Requests : ReceiptFits(r)) /\ AcknowledgedIsAccepted
        BY DEF Inductive
    <2>2. \A r \in Requests : ReceiptFits(r)'
        BY <1>1, <2>1, ReceiptsKept, Zenon
    <2> QED
        BY <1>1, <2>1, <2>2 DEF AcknowledgedIsAccepted, Accepted
<1>12. ClassesAreTrue'
    BY <1>1, ClassesKept, Zenon DEF Inductive
<1>13. \A e \in Events : CountFits(e)' /\ RowFits(e)'
    <2>1. \A e \in Events : CountFits(e) /\ RowFits(e)
        BY Zenon DEF Inductive
    <2> QED
        BY <1>1, <2>1, RowsKept, Zenon
<1> QED
    BY <1>5, <1>6, <1>7, <1>8, <1>9, <1>10, <1>11, <1>12, <1>13 DEF Inductive

-----------------------------------------------------------------------------
(* The invariant *)

(* Every step of every workflow and of the environment preserves it.       *)
LEMMA NextInductive ==
    ASSUME AcceptanceAssumption, Inductive, [Next]_vars
    PROVE  Inductive'
<1>1. CASE (\E r \in Requests : Admit(r)) \/ (\E p \in Projects : ChangeAuthority(p)) \/ ActivateRecovery
    BY <1>1, AuthorityStep
<1>2. CASE (\E e \in Events : ExpireKey(e)) \/ RunRetentionCleanup
    BY <1>2, RetentionStep
<1>3. CASE \E j \in Journals : ExpireIntent(j) \/ ClaimGCObject(j) \/ DeleteObject(j)
    BY <1>3, CollectionStep
<1>4. ASSUME NEW w \in Workflows, WorkflowStep(w)
      PROVE  Inductive'
    <2>1. CASE Start(w)
        BY <2>1, StartStep
    <2>2. CASE RegisterJournalIntent(w)
        BY <2>2, RegisterStep
    <2>3. CASE PutStream(w)
        BY <2>3, PutStep
    <2>4. CASE MarkJournalIntentUploaded(w)
        BY <2>4, MarkStep
    <2>5. CASE UploadFails(w)
        BY <2>5, UploadFailsStep
    <2>6. CASE BeginAccept(w)
        BY <2>6, BeginStep
    <2>7. CASE LockProjectAuthorities(w)
        BY <2>7, AuthorizeStep
    <2>8. CASE LockLane(w)
        BY <2>8, LockLaneStep
    <2>9. CASE ClaimKey(w)
        BY <2>9, ClaimKeyStep
    <2>10. CASE Commit(w)
        BY <2>10, CommitStep
    <2>11. CASE CommitReplyLost(w)
        BY <2>11, CommitReplyLostStep
    <2>12. CASE Settle(w)
        BY <2>12, SettleStep
    <2>13. CASE Confirm(w)
        BY <2>13, ConfirmStep
    <2>14. CASE RetryAccept(w)
        <3>1. /\ Uploading(w) /\ wf' = [wf EXCEPT ![w].at = "begin"] /\ tx' = [tx EXCEPT ![w] = NoTx]
              /\ UNCHANGED <<environment, results, objects, database>> /\ "begin" \in {"begin", "confirm"}
            BY <2>14 DEF RetryAccept, Goto, Uploading
        <3> QED
            BY <3>1, RollbackStep
    <2>15. CASE AcceptFails(w)
        <3>1. /\ wf[w].at \notin {"idle", "confirm", "done"} /\ AnswerAndContinue(w, wf[w].todo, "failed")
              /\ UNCHANGED <<environment, database>> /\ objects' = objects
            BY <2>15 DEF AcceptFails, Finish
        <3>2. wf[w].todo # {} /\ objects' \in SUBSET Journals /\ objects \subseteq objects'
            BY <3>1 DEF Inductive, BatchFits, Typed
        <3>3. "failed" \in Answers /\ "failed" # "receipt"
            BY DEF Answers
        <3> QED
            BY <3>1, <3>2, <3>3, AnswerStep
    <2> QED
        BY <1>4, <2>1, <2>2, <2>3, <2>4, <2>5, <2>6, <2>7, <2>8, <2>9, <2>10, <2>11, <2>12,
           <2>13, <2>14, <2>15 DEF WorkflowStep
<1>5. CASE UNCHANGED vars
    <2>1. UNCHANGED <<wf, tx, results, intents, objects, log, receipts>>
        BY <1>5 DEF vars
    <2>2. Typed'
        <3>1. Typed
            BY DEF Inductive
        <3> QED
            BY <1>5, <3>1 DEF Typed, vars
    <2>3. \A w \in Workflows : BatchFits(w)' /\ LocksFit(w)' /\ KeysFit(w)'
        <3> SUFFICES ASSUME NEW w \in Workflows
                     PROVE  BatchFits(w)' /\ LocksFit(w)' /\ KeysFit(w)'
            OBVIOUS
        <3>1. /\ wf'[w] = wf[w] /\ tx'[w] = tx[w] /\ generation' = generation /\ authority' = authority
              /\ snapshot' = snapshot /\ receipts' = receipts /\ dedupe' = dedupe
            BY <1>5, Zenon DEF vars
        <3>2. PhaseFits(w) /\ BatchFits(w) /\ UploadsFit(w) /\ LocksFit(w) /\ KeysFit(w)
            BY WorkflowFits, Zenon
        <3> QED
            BY <3>1, <3>2, WorkflowKept, Zenon
    <2>4. \A e \in Events : CountFits(e)' /\ RowFits(e)'
        <3>1. receipts' = receipts /\ dedupe' = dedupe /\ lapses' = lapses
            BY <1>5, Zenon DEF vars
        <3>2. \A e \in Events : CountFits(e) /\ RowFits(e)
            BY Zenon DEF Inductive
        <3> QED
            BY <3>1, <3>2, RowsKept, Zenon
    <2> QED
        BY <2>1, <2>2, <2>3, <2>4, OutsideStep
<1> QED
    BY <1>1, <1>2, <1>3, <1>4, <1>5 DEF Next

(* Acceptance keeps the invariant, for every value of the constants.       *)
THEOREM InductiveHolds ==
    ASSUME AcceptanceAssumption
    PROVE  Spec => []Inductive
<1>1. Init => Inductive
    BY InitInductive
<1>2. Inductive /\ [Next]_vars => Inductive'
    BY NextInductive
<1> QED
    BY <1>1, <1>2, PTL DEF Spec


-----------------------------------------------------------------------------
(* The properties *)

(* The journal of an accepted batch is stored and referenced for good:     *)
(* Accept references it under the lock that the collector waits for.       *)
THEOREM BatchesAreDurableHolds ==
    ASSUME AcceptanceAssumption
    PROVE  Spec => []BatchesAreDurable
<1>1. Inductive => BatchesAreDurable
    BY DEF Inductive
<1> QED
    BY <1>1, InductiveHolds, PTL

(* A request is in one batch at most, and its receipt names that batch,    *)
(* whatever retries, lost replies and restores there are.                  *)
THEOREM ReceiptsMatchBatchesHolds ==
    ASSUME AcceptanceAssumption
    PROVE  Spec => []ReceiptsMatchBatches
<1>1. Inductive => ReceiptsMatchBatches
    <2> SUFFICES ASSUME Inductive, NEW r \in Requests
                 PROVE  {b \in Batches : r \in Batch(b[1], b[2]).requests}
                           = IF Accepted(r) THEN {<<receipts[r].lane, receipts[r].seq>>} ELSE {}
        BY DEF ReceiptsMatchBatches
    <2>1. ReceiptFits(r) /\ LaneOf[r] \in Lanes
        BY DEF Inductive, AcceptanceAssumption
    <2>2. ASSUME NEW b \in Batches
          PROVE  r \in Batch(b[1], b[2]).requests <=>
                    Accepted(r) /\ b = <<receipts[r].lane, receipts[r].seq>>
        <3>1. PICK l \in Lanes : b \in {l} \X DOMAIN log[l]
            BY DEF Batches
        <3>2. PICK n \in DOMAIN log[l] : b = <<l, n>>
            BY <3>1
        <3> QED
            BY <2>1, <3>2 DEF ReceiptFits, Batch
    <2>3. Accepted(r) => <<receipts[r].lane, receipts[r].seq>> \in Batches
        BY <2>1 DEF ReceiptFits, Batches
    <2> QED
        BY <2>2, <2>3
<1> QED
    BY <1>1, InductiveHolds, PTL

(* Success is answered only for a request that has a receipt, also by the  *)
(* lookup after a lost commit reply.                                       *)
THEOREM AcknowledgedIsAcceptedHolds ==
    ASSUME AcceptanceAssumption
    PROVE  Spec => []AcknowledgedIsAccepted
<1>1. Inductive => AcknowledgedIsAccepted
    BY DEF Inductive
<1> QED
    BY <1>1, InductiveHolds, PTL

(* A source event is accepted once, and once more each time its row        *)
(* outlives the retention, in any lanes and by any transactions.           *)
THEOREM AcceptedOnceHolds ==
    ASSUME AcceptanceAssumption
    PROVE  Spec => []AcceptedOnce
<1>1. Inductive => AcceptedOnce
    <2> SUFFICES ASSUME Inductive, NEW e \in Events
                 PROVE  Cardinality(Occurrences(e, "accepted")) <= 1 + lapses[e]
        BY DEF AcceptedOnce
    <2>1. CountFits(e) /\ lapses[e] \in Nat /\ Cardinality(Occurrences(e, "accepted")) \in Nat
        BY OccurrencesFinite DEF Inductive, Typed
    <2> QED
        BY <2>1 DEF CountFits
<1> QED
    BY <1>1, InductiveHolds, PTL

(* A duplicate repeats an accepted candidate, a conflict contradicts one.  *)
THEOREM ClassesAreTrueHolds ==
    ASSUME AcceptanceAssumption
    PROVE  Spec => []ClassesAreTrue
<1>1. Inductive => ClassesAreTrue
    BY DEF Inductive
<1> QED
    BY <1>1, InductiveHolds, PTL

(* A step that accepts a request holds the rows that authorise it.         *)
LEMMA WriteAccepts ==
    ASSUME AcceptanceAssumption, Inductive, NEW w \in Workflows,
           tx[w].phase \in {"lane", "limbo"}, Write(w),
           intents[Journal(w)].state = "uploaded", intents[Journal(w)].gen = wf[w].gen
    PROVE  AcceptsUnderCurrentAuthority
<1> SUFFICES ASSUME NEW r \in Requests, ~Accepted(r), Accepted(r)'
             PROVE  /\ snapshot[r] = authority[ProjectOf[r]]
                    /\ intents[log'[LaneOf[r]][receipts'[r].seq].journal].gen = generation
    BY DEF AcceptsUnderCurrentAuthority
<1> DEFINE l == Lane(w)
           b == [journal |-> Journal(w), requests |-> wf[w].todo]
           n == Len(log[l]) + 1
<1>1. /\ r \in wf[w].todo /\ LaneOf[r] = l /\ l \in Lanes
      /\ log' = [log EXCEPT ![l] = Append(@, b)]
    BY Written
<1>2. receipts'[r].seq = n
    <2> DEFINE c == [k \in 1..Len(Content[r]) |-> Class(w, r, k)]
    <2>1. receipts'[r] = [lane |-> l, seq |-> n, classes |-> c]
        BY <1>1, Written
    <2>2. [lane |-> l, seq |-> n, classes |-> c].seq = n
        BY Zenon
    <2> HIDE DEF c, n, l
    <2> QED
        BY <2>1, <2>2, Zenon
<1>3. snapshot[r] = authority[ProjectOf[r]] /\ wf[w].gen = generation
    BY <1>1, WorkflowFits DEF LocksFit
<1>4. log'[l][n] = b
    <2>1. log[l] \in Seq([journal : Journals, requests : SUBSET Requests]) /\ log'[l] = Append(log[l], b)
        BY <1>1 DEF Inductive, Typed
    <2> HIDE DEF b, l
    <2>2. Append(log[l], b)[Len(log[l]) + 1] = b
        BY <2>1, LastOfAppend, Zenon
    <2> QED
        BY <2>1, <2>2, Zenon
<1>5. log'[LaneOf[r]][receipts'[r].seq].journal = Journal(w)
    <2>1. b.journal = Journal(w)
        OBVIOUS
    <2> HIDE DEF b, n, l
    <2> QED
        BY <1>1, <1>2, <1>4, <2>1
<1> QED
    BY <1>3, <1>5

(* A request is accepted only under the project revisions and the storage  *)
(* generation of the moment: their rows are share-locked from the check to *)
(* the commit, also while the outcome of the commit is unknown.            *)
THEOREM AcceptedUnderCurrentAuthorityHolds ==
    ASSUME AcceptanceAssumption
    PROVE  Spec => AcceptedUnderCurrentAuthority
<1>1. Inductive /\ [Next]_vars => [AcceptsUnderCurrentAuthority]_vars
    <2> SUFFICES ASSUME Inductive, Next
                 PROVE  AcceptsUnderCurrentAuthority
        OBVIOUS
    <2>1. UNCHANGED receipts => AcceptsUnderCurrentAuthority
        BY DEF AcceptsUnderCurrentAuthority, Accepted
    <2>2. CASE \/ \E r \in Requests : Admit(r)
               \/ \E p \in Projects : ChangeAuthority(p)
               \/ ActivateRecovery
               \/ \E e \in Events : ExpireKey(e)
               \/ RunRetentionCleanup
               \/ \E j \in Journals : ExpireIntent(j) \/ ClaimGCObject(j) \/ DeleteObject(j)
        BY <2>1, <2>2 DEF Admit, ChangeAuthority, ActivateRecovery, ExpireKey, RunRetentionCleanup,
                          ExpireIntent, ClaimGCObject, DeleteObject, database
    <2>3. ASSUME NEW w \in Workflows, WorkflowStep(w), ~(Commit(w) \/ CommitReplyLost(w) \/ Settle(w))
          PROVE  AcceptsUnderCurrentAuthority
        BY <2>1, <2>3 DEF WorkflowStep, Start, RegisterJournalIntent, PutStream, MarkJournalIntentUploaded,
                          UploadFails, BeginAccept, LockProjectAuthorities, LockLane, ClaimKey, Confirm,
                          RetryAccept, AcceptFails, database
    <2>4. ASSUME NEW w \in Workflows, Commit(w) \/ CommitReplyLost(w) \/ Settle(w)
          PROVE  AcceptsUnderCurrentAuthority
        <3>1. CASE UNCHANGED database
            BY <2>1, <3>1 DEF database
        <3>2. CASE Write(w)
            <4>1. PhaseFits(w) /\ JournalFits(w)
                BY DEF Inductive
            <4>2. CASE Commit(w) /\ JournalUsable(w)
                <5>1. /\ tx[w].phase \in {"lane", "limbo"}
                      /\ intents[Journal(w)].state = "uploaded" /\ intents[Journal(w)].gen = wf[w].gen
                    BY <4>1, <4>2 DEF Commit, Ready, PhaseFits, JournalUsable
                <5> QED
                    BY <3>2, <5>1, WriteAccepts
            <4>3. CASE CommitReplyLost(w)
                <5>1. /\ tx[w].phase \in {"lane", "limbo"}
                      /\ intents[Journal(w)].state = "uploaded" /\ intents[Journal(w)].gen = wf[w].gen
                    BY <4>1, <4>3 DEF CommitReplyLost, Ready, PhaseFits, JournalUsable
                <5> QED
                    BY <3>2, <5>1, WriteAccepts
            <4>4. CASE Settle(w)
                <5>1. /\ tx[w].phase \in {"lane", "limbo"}
                      /\ intents[Journal(w)].state = "uploaded" /\ intents[Journal(w)].gen = wf[w].gen
                    BY <4>1, <4>4 DEF Settle, JournalFits
                <5> QED
                    BY <3>2, <5>1, WriteAccepts
            <4>5. CASE Commit(w) /\ ~JournalUsable(w)
                BY <2>1, <4>5 DEF Commit, database
            <4> QED
                BY <2>4, <4>2, <4>3, <4>4, <4>5
        <3> QED
            BY <2>4, <3>1, <3>2 DEF Commit, CommitReplyLost, Settle
    <2> QED
        BY <2>2, <2>3, <2>4 DEF Next
<1> QED
    BY <1>1, InductiveHolds, PTL DEF Spec, AcceptedUnderCurrentAuthority


(* A transaction that holds a lane or a key has its lane, and claims a     *)
(* larger key next than any it holds.                                      *)
LEMMA NextKeyIsLarger ==
    ASSUME AcceptanceAssumption, Inductive, NEW w \in Workflows,
           wf[w].at = "keys", KeysOf(w) # tx[w].keys
    PROVE  /\ NextKey(w) \in Events /\ NextKey(w) \in Nat
           /\ \A e \in tx[w].keys : e \in Nat /\ e < NextKey(w)
<1>1. KeysFit(w) /\ Typed
    BY DEF Inductive
<1>2. KeysOf(w) \subseteq Events /\ KeysOf(w) \subseteq Nat
    BY <1>1, KeysAreEvents
<1> DEFINE left == KeysOf(w) \ tx[w].keys
<1>3. left \subseteq Nat /\ left # {}
    BY <1>1, <1>2 DEF KeysFit
<1>4. NextKey(w) \in left
    <2>1. Min(left) \in left
        <3> HIDE DEF left
        <3> QED
            BY <1>3, SmallestExists
    <2> QED
        BY <2>1 DEF NextKey
<1> QED
    BY <1>1, <1>2, <1>4 DEF KeysFit

(* No transactions wait for each other: a transaction that waits for a     *)
(* lane holds no lane and no key, and one that waits for a key holds only  *)
(* smaller ones.                                                           *)
THEOREM NoLockCycleHolds ==
    ASSUME AcceptanceAssumption
    PROVE  Spec => []NoLockCycle
<1>1. Inductive => NoLockCycle
    <2> SUFFICES ASSUME Inductive, NEW S \in (SUBSET Workflows) \ {{}},
                        \A w \in S : \E v \in S \ {w} : WaitsFor(w, v)
                 PROVE  FALSE
        BY DEF NoLockCycle
    <2>1. ASSUME NEW w \in S
          PROVE  wf[w].at \in {"lane", "keys"}
        BY <2>1 DEF WaitsFor
    <2>2. ASSUME NEW w \in S, wf[w].at = "lane"
          PROVE  tx[w].phase = "shared" /\ tx[w].keys = {}
        BY <2>2 DEF Inductive, PhaseFits
    <2> DEFINE K == {w \in S : wf[w].at = "keys"}
               N == {NextKey(w) : w \in K}
    <2>3. K # {}
        <3>1. PICK w \in S : TRUE
            OBVIOUS
        <3>2. PICK v \in S \ {w} : WaitsFor(w, v)
            BY <3>1
        <3>3. CASE wf[w].at = "keys"
            BY <3>1, <3>3
        <3>4. CASE wf[w].at = "lane"
            <4>1. tx[v].phase \in {"lane", "limbo"}
                BY <3>2, <3>4 DEF WaitsFor, HoldsLane
            <4> QED
                BY <2>1, <2>2, <3>2, <4>1
        <3> QED
            BY <2>1, <3>3, <3>4
    <2>4. ASSUME NEW w \in K
          PROVE  /\ NextKey(w) \in Events /\ NextKey(w) \in Nat
                 /\ \E v \in K : NextKey(v) \in Nat /\ NextKey(w) < NextKey(v)
        <3>1. PICK v \in S \ {w} : WaitsFor(w, v)
            OBVIOUS
        <3>2. KeysOf(w) # tx[w].keys /\ NextKey(w) \in tx[v].keys
            BY <3>1 DEF WaitsFor, HoldsKey
        <3>3. v \in K
            BY <2>1, <2>2, <3>1, <3>2
        <3>4. KeysOf(v) # tx[v].keys
            BY <3>3 DEF WaitsFor
        <3>5. \A e \in tx[v].keys : e \in Nat /\ e < NextKey(v)
            BY <3>3, <3>4, NextKeyIsLarger
        <3>6. NextKey(v) \in Nat
            BY <3>3, <3>4, NextKeyIsLarger
        <3>7. NextKey(w) \in Events /\ NextKey(w) \in Nat
            BY <3>2, NextKeyIsLarger
        <3> QED
            BY <3>2, <3>3, <3>5, <3>6, <3>7
    <2>5. N \subseteq Nat /\ N \subseteq Events /\ N # {}
        BY <2>3, <2>4
    <2>6. IsFiniteSet(N)
        <3>1. IsFiniteSet(Events)
            BY DEF AcceptanceAssumption
        <3> HIDE DEF N
        <3> QED
            BY <2>5, <3>1, FS_Subset
    <2>7. PICK m \in N : \A e \in N : e <= m
        <3> HIDE DEF N
        <3> QED
            BY <2>5, <2>6, LargestExists
    <2>8. PICK w \in K : m = NextKey(w)
        BY <2>7
    <2>9. PICK v \in K : NextKey(v) \in Nat /\ NextKey(w) < NextKey(v)
        BY <2>4
    <2>10. NextKey(v) <= NextKey(w) /\ NextKey(w) \in Nat
        BY <2>4, <2>7, <2>8
    <2> QED
        BY <2>9, <2>10
<1> QED
    BY <1>1, InductiveHolds, PTL

(* Every step keeps the bounds.                                            *)
LEMMA NextBounded ==
    ASSUME AcceptanceAssumption, Inductive, Bounded, [Next]_vars
    PROVE  Bounded'
<1>1. /\ {MaxUploadAttempts, MaxRevision, MaxGeneration} \subseteq Nat \ {0} /\ MaxLapses \in Nat
      /\ DOMAIN dedupe = Events
    BY DEF AcceptanceAssumption, Inductive, Typed
<1>2. UNCHANGED <<environment, dedupe>> => Bounded'
    BY DEF Bounded, environment
<1>3. CASE \E r \in Requests : Admit(r)
    <2>1. PICK r \in Requests : Admit(r)
        BY <1>3
    <2>2. ProjectOf[r] \in Projects
        BY DEF AcceptanceAssumption
    <2>3. snapshot' \in [Requests -> 0..MaxRevision]
        BY <1>1, <2>1, <2>2 DEF Admit, Bounded
    <2> QED
        BY <2>1, <2>3 DEF Admit, Bounded, database
<1>4. CASE \E p \in Projects : ChangeAuthority(p)
    <2>1. PICK p \in Projects : ChangeAuthority(p)
        BY <1>4
    <2>2. authority' \in [Projects -> 1..MaxRevision]
        BY <1>1, <2>1 DEF ChangeAuthority, Bounded
    <2> QED
        BY <2>1, <2>2 DEF ChangeAuthority, Bounded, database
<1>5. CASE ActivateRecovery
    <2>1. generation' \in 1..MaxGeneration
        BY <1>1, <1>5 DEF ActivateRecovery, Bounded
    <2> QED
        BY <1>5, <2>1 DEF ActivateRecovery, Bounded, database
<1>6. CASE \E e \in Events : ExpireKey(e)
    <2>1. PICK e \in Events : ExpireKey(e)
        BY <1>6
    <2>2. lapses' \in [Events -> 0..MaxLapses]
        BY <1>1, <2>1 DEF ExpireKey, Bounded
    <2>3. \A f \in Events : dedupe'[f].state \in {"absent", "live", "expired"}
        BY <1>1, <2>1 DEF ExpireKey, Bounded
    <2> QED
        BY <2>1, <2>2, <2>3 DEF ExpireKey, Bounded
<1>7. CASE RunRetentionCleanup
    BY <1>7 DEF RunRetentionCleanup, Bounded, environment, NoKey
<1>8. CASE \E j \in Journals : ExpireIntent(j) \/ ClaimGCObject(j) \/ DeleteObject(j)
    BY <1>2, <1>8 DEF ExpireIntent, ClaimGCObject, DeleteObject
<1>9. ASSUME NEW w \in Workflows, WorkflowStep(w)
      PROVE  Bounded'
    <2>1. UNCHANGED environment /\ (UNCHANGED dedupe \/ Write(w))
        BY <1>9 DEF WorkflowStep, Start, RegisterJournalIntent, PutStream, MarkJournalIntentUploaded,
                    UploadFails, BeginAccept, LockProjectAuthorities, LockLane, ClaimKey, Confirm,
                    RetryAccept, AcceptFails, Commit, CommitReplyLost, Settle, database
    <2>2. CASE Write(w)
        <3>1. \A e \in Events : dedupe'[e].state \in {"absent", "live", "expired"}
            BY <2>2 DEF Write, Bounded
        <3> QED
            BY <2>1, <3>1 DEF Bounded, environment
    <2> QED
        BY <1>2, <2>1, <2>2
<1>10. CASE UNCHANGED vars
    BY <1>2, <1>10 DEF vars, environment
<1> QED
    BY <1>3, <1>4, <1>5, <1>6, <1>7, <1>8, <1>9, <1>10 DEF Next

(* The workflows, the transactions and the tables keep their types, and no *)
(* workflow uploads more journals than it has attempts.                    *)
THEOREM TypeOKHolds ==
    ASSUME AcceptanceAssumption
    PROVE  Spec => []TypeOK
<1>1. Init => Bounded
    BY InitBounded, Zenon
<1>2. Inductive /\ Bounded /\ [Next]_vars => Bounded'
    BY NextBounded
<1>3. Inductive /\ Bounded => TypeOK
    <2> SUFFICES ASSUME Inductive, Bounded
                 PROVE  TypeOK
        OBVIOUS
    <2>1. Typed
        BY DEF Inductive
    <2>2. ASSUME NEW w \in Workflows
          PROVE  /\ wf[w].at \in Points
                 /\ wf[w].todo \subseteq Requests /\ wf[w].attempt \in 0..MaxUploadAttempts
                 /\ wf[w].uploads \in 0..(MaxUploadAttempts * Cardinality(Requests))
                 /\ tx[w].phase \in {"none", "begun", "shared", "lane", "limbo"}
                 /\ tx[w].won \subseteq tx[w].keys /\ tx[w].keys \subseteq Events
        <3>1. wf[w] \in Workflow /\ tx[w] \in Transaction /\ KeysFit(w) /\ UploadsFit(w) /\ BatchFits(w)
            BY <2>1 DEF Inductive, Typed
        <3> DEFINE c == Cardinality(wf[w].todo)
                   n == Cardinality(Requests)
                   m == MaxUploadAttempts
        <3>2. c \in Nat /\ n \in Nat /\ m \in Nat /\ c <= n /\ (wf[w].todo # {} => 0 < c)
            <4>1. wf[w].todo \in SUBSET Requests /\ m \in Nat
                BY <3>1 DEF Workflow, AcceptanceAssumption
            <4>2. c \in Nat /\ n \in Nat /\ c <= n /\ (wf[w].todo # {} => c >= 1)
                BY <4>1, TodoFinite
            <4> QED
                BY <4>1, <4>2
        <3>3. wf[w].uploads \in Nat /\ wf[w].attempt \in 0..m
            BY <3>1 DEF Workflow
        <3>4. m * n \in Nat /\ m * (n - 0) = m * n
            BY <3>2
        <3>5. wf[w].uploads <= m * n
            <4>1. CASE wf[w].at = "idle"
                BY <3>1, <3>4, <4>1 DEF UploadsFit
            <4>2. CASE wf[w].at # "idle"
                <5>1. wf[w].uploads + (IF wf[w].at = "register" THEN 1 ELSE 0) <= m * (n - c) + wf[w].attempt
                    BY <3>1, <4>2 DEF UploadsFit
                <5>2. 0 < c
                    BY <3>1, <3>2, <4>2 DEF BatchFits
                <5> HIDE DEF c, n, m
                <5>3. m * (n - c) + m <= m * (n - 0)
                    BY <3>2, <5>2, SmallerSubset
                <5>4. m * (n - c) \in Int
                    BY <3>2
                <5> QED
                    BY <3>2, <3>3, <3>4, <5>1, <5>3, <5>4
            <4> QED
                BY <4>1, <4>2
        <3>6. wf[w].uploads \in 0..(m * n)
            BY <3>3, <3>4, <3>5
        <3> QED
            BY <3>1, <3>6 DEF Workflow, Transaction, KeysFit
    <2>3. \A r \in Requests : receipts[r].seq # 0 =>
              receipts[r].lane \in Lanes /\ receipts[r].classes \in Seq(Classes)
        <3>1. LaneOf \in [Requests -> Lanes]
            BY DEF AcceptanceAssumption
        <3>2. \A r \in Requests : receipts[r].seq # 0 => receipts[r].lane = LaneOf[r]
            BY DEF Inductive, ReceiptFits, Accepted
        <3> QED
            BY <2>1, <3>1, <3>2 DEF Typed
    <2>4. \A j \in Journals :
              intents[j].state \in {"absent", "pending", "uploaded", "referenced", "deleting", "deleted"}
        BY <2>1 DEF Typed, Intent
    <2> QED
        BY <2>1, <2>2, <2>3, <2>4 DEF TypeOK, Typed, Bounded, Points, Answers
<1> QED
    BY <1>1, <1>2, <1>3, InductiveHolds, PTL DEF Spec
=============================================================================
