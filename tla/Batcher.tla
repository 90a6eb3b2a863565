------------------------------ MODULE Batcher ------------------------------
(***************************************************************************)
(* The ingest batcher of one API process: HTTP handlers call Accept and    *)
(* wait, one loop goroutine groups their commands by tenant and lane,      *)
(* seals batches by size or age, hands them to a bounded number of upload  *)
(* workflows in tenant rotation, and answers every handler.  Drain stops   *)
(* admission and waits; a drain whose context ends cancels the workflows.  *)
(*                                                                         *)
(* The loop goroutine is a control point pc: it dispatches sealed batches, *)
(* then selects one event.  Bytes and records, which are limited the same  *)
(* way, are one measure, Weight.                                           *)
(***************************************************************************)
EXTENDS Naturals, FiniteSets, Sequences, SequencesExt

CONSTANTS
    Requests,           \* commands, one per Accept call
    Tenants,
    Scopes,             \* tenant and lane pairs
    ScopeOf,            \* scope of a request
    TenantOf,           \* tenant of a scope
    Weight,             \* bytes or records of a request
    MaxBatchWeight, MaxBatchRequests, MaxWaitingRequests, MaxUploadWorkflows,
    Drainers,           \* Drain calls
    DrainMayTimeOut     \* whether a Drain context has a deadline

BatcherAssumption ==
    /\ ScopeOf \in [Requests -> Scopes] /\ TenantOf \in [Scopes -> Tenants]
    /\ Weight \in [Requests -> Nat] /\ MaxBatchWeight \in Nat
    /\ MaxBatchRequests \in Nat \ {0} /\ MaxWaitingRequests \in Nat \ {0}
    /\ MaxUploadWorkflows \in Nat \ {0} /\ DrainMayTimeOut \in BOOLEAN

VARIABLES
    caller,     \* where the Accept call of a request is
    canceled,   \* its context has ended
    result,     \* what it was answered
    slots,      \* tokens in the slots channel
    pending,    \* open batch of a scope
    queue,      \* sealed batches by tenant, and the tenant rotation
    active,     \* the loop's count of running workflows
    uploads,    \* batches whose workflow runs
    completed,  \* processed batches in the completed channel
    pc,         \* control point of the loop
    draining,   \* the loop's draining flag
    drainer,    \* control point of a Drain call
    rootDone    \* rootCtx is canceled

callers == <<caller, canceled, result, slots>>
vars == <<caller, canceled, result, slots, pending, queue, active, uploads,
          completed, pc, draining, drainer, rootDone>>

Empty == <<>>
Batches == {b \in BoundedSeq(Requests, Cardinality(Requests)) : b # Empty}

(* Types of the calls, the queues and the control points. *)
TypeOK ==
    /\ caller \in [Requests -> {"new", "slot", "send", "wait", "done"}]
    /\ canceled \in [Requests -> BOOLEAN]
    /\ result \in [Requests -> {"none", "receipt", "failed", "canceled", "draining"}]
    /\ slots \in 0..MaxWaitingRequests
    /\ \A s \in Scopes : pending[s] \in Batches \cup {Empty}
    /\ \A t \in Tenants : \A b \in ToSet(queue.ready[t]) : b \in Batches
    /\ queue.tenants \in Seq(Tenants)
    /\ active \in 0..MaxUploadWorkflows
    /\ uploads \subseteq Batches
    /\ completed \in Seq(Batches)
    /\ pc \in {"dispatch", "select", "join", "done"}
    /\ draining \in BOOLEAN /\ rootDone \in BOOLEAN
    /\ drainer \in [Drainers -> {"idle", "offer", "await", "acked", "returned"}]

Init ==
    /\ caller = [r \in Requests |-> "new"]
    /\ canceled = [r \in Requests |-> FALSE]
    /\ result = [r \in Requests |-> "none"]
    /\ slots = 0
    /\ pending = [s \in Scopes |-> Empty]
    /\ queue = [ready |-> [t \in Tenants |-> Empty], tenants |-> Empty]
    /\ active = 0 /\ uploads = {} /\ completed = Empty
    /\ pc = "dispatch" /\ draining = FALSE
    /\ drainer = [d \in Drainers |-> "idle"]
    /\ rootDone = FALSE

-----------------------------------------------------------------------------
(* Accept, in the handler's goroutine, up to the hand-over of the command *)

Call(r) ==
    /\ caller[r] = "new"
    /\ caller' = [caller EXCEPT ![r] = "slot"]
    /\ UNCHANGED <<canceled, result, slots, pending, queue, active, uploads,
                   completed, pc, draining, drainer, rootDone>>

Cancel(r) ==
    /\ caller[r] \in {"slot", "send", "wait"} /\ ~canceled[r]
    /\ canceled' = [canceled EXCEPT ![r] = TRUE]
    /\ UNCHANGED <<caller, result, slots, pending, queue, active, uploads,
                   completed, pc, draining, drainer, rootDone>>

TakeSlot(r) ==
    /\ caller[r] = "slot" /\ slots < MaxWaitingRequests
    /\ slots' = slots + 1
    /\ caller' = [caller EXCEPT ![r] = "send"]
    /\ UNCHANGED <<canceled, result, pending, queue, active, uploads,
                   completed, pc, draining, drainer, rootDone>>

(* Mutant: the second select returns without giving back the slot. *)
LeaveKeepingSlot(r) ==
    /\ caller[r] \in {"slot", "send"} /\ canceled[r]
    /\ caller' = [caller EXCEPT ![r] = "done"]
    /\ result' = [result EXCEPT ![r] = "canceled"]
    /\ UNCHANGED <<canceled, slots, pending, queue, active, uploads, completed, pc,
                   draining, drainer, rootDone>>

(* Either select of Accept returns when the context or the loop has ended, *)
(* giving back a slot it holds.                                            *)
Leave(r) ==
    /\ caller[r] \in {"slot", "send"}
    /\ canceled[r] \/ pc = "done"
    /\ caller' = [caller EXCEPT ![r] = "done"]
    /\ \E answer \in {"canceled", "draining"} :
          /\ IF answer = "canceled" THEN canceled[r] ELSE pc = "done"
          /\ result' = [result EXCEPT ![r] = answer]
    /\ slots' = IF caller[r] = "send" THEN slots - 1 ELSE slots
    /\ UNCHANGED <<canceled, pending, queue, active, uploads, completed, pc,
                   draining, drainer, rootDone>>

-----------------------------------------------------------------------------
(* The loop's operators *)

Total(b) == FoldSeq(LAMBDA r, n : Weight[r] + n, 0, b)

WouldExceedBatch(b, r) ==
    Total(b) + Weight[r] > MaxBatchWeight \/ Len(b) + 1 > MaxBatchRequests

(* The open batch of the entry's scope must be sealed before it. *)
DoesNotFit(r) ==
    pending[ScopeOf[r]] # Empty /\ WouldExceedBatch(pending[ScopeOf[r]], r)

RemoveCanceled(b) == SelectSeq(b, LAMBDA r : ~canceled[r])

(* A tenant joins the rotation with its first sealed batch. *)
EnqueueReady(q, b) ==
    LET t == TenantOf[ScopeOf[b[1]]]
    IN  [ready |-> [q.ready EXCEPT ![t] = Append(@, b)],
         tenants |-> IF q.ready[t] = Empty THEN Append(q.tenants, t) ELSE q.tenants]

EnqueueAll(q, bs) ==
    FoldLeft(LAMBDA acc, b : IF b = Empty THEN acc ELSE EnqueueReady(acc, b), q, bs)

(* Answer the entries R and free their slots (finishEntry). *)
Finish(R, answer) ==
    /\ caller' = [r \in Requests |-> IF r \in R THEN "done" ELSE caller[r]]
    /\ result' = [r \in Requests |-> IF r \in R THEN answer[r] ELSE result[r]]
    /\ slots' = slots - Cardinality(R)
    /\ UNCHANGED canceled

Answer(kind) == [r \in Requests |-> kind]

Entries(s) == ToSet(pending[s])
QueuedEntries == UNION {ToSet(b) : b \in UNION {ToSet(queue.ready[t]) : t \in Tenants}}

-----------------------------------------------------------------------------
(* The loop *)

(* dispatchReady, one batch at a time: the tenant at the head of the       *)
(* rotation goes to its end if it has more.                                *)
Dispatch ==
    LET t == Head(queue.tenants)
        rest == Tail(queue.ready[t])
    IN  /\ pc = "dispatch"
        /\ active < MaxUploadWorkflows /\ queue.tenants # Empty
        /\ queue' = [ready |-> [queue.ready EXCEPT ![t] = rest],
                     tenants |-> IF rest = Empty THEN Tail(queue.tenants)
                                 ELSE Append(Tail(queue.tenants), t)]
        /\ active' = active + 1
        /\ uploads' = uploads \cup {Head(queue.ready[t])}
        /\ UNCHANGED <<callers, pending, completed, pc, draining, drainer, rootDone>>

Drained ==
    /\ \A s \in Scopes : pending[s] = Empty
    /\ queue.tenants = Empty
    /\ active = 0

(* Everything that can be dispatched is; a finished drain leaves the loop. *)
DispatchEnds ==
    /\ pc = "dispatch"
    /\ active = MaxUploadWorkflows \/ queue.tenants = Empty
    /\ IF draining /\ Drained
       THEN /\ pc' = "join"
            /\ drainer' = [d \in Drainers |->
                              IF drainer[d] = "await" THEN "acked" ELSE drainer[d]]
       ELSE pc' = "select" /\ UNCHANGED drainer
    /\ UNCHANGED <<callers, pending, queue, active, uploads, completed,
                   draining, rootDone>>

(* addEntry: an open batch the entry does not fit in is sealed first; an   *)
(* oversized entry or a full batch is sealed at once.                      *)
Place(r) ==
    LET s == ScopeOf[r]
        open == IF DoesNotFit(r) THEN <<r>> ELSE Append(pending[s], r)
        sealed == IF DoesNotFit(r)
                  THEN EnqueueAll(queue, <<RemoveCanceled(pending[s])>>) ELSE queue
    IN  IF Weight[r] > MaxBatchWeight \/ Len(open) >= MaxBatchRequests
        THEN pending' = [pending EXCEPT ![s] = Empty] /\ queue' = EnqueueReady(sealed, open)
        ELSE pending' = [pending EXCEPT ![s] = open] /\ queue' = sealed

(* The entries that Place drops because they were canceled. *)
Dropped(r) == {x \in Entries(ScopeOf[r]) : DoesNotFit(r) /\ canceled[x]}

(* The loop receives the command of a caller that is sending it. *)
ReceiveEntry(r) ==
    /\ pc = "select" /\ caller[r] = "send"
    /\ pc' = "dispatch"
    /\ IF draining
       THEN Finish({r}, Answer("draining")) /\ UNCHANGED <<pending, queue>>
       ELSE IF canceled[r]
       THEN Finish({r}, Answer("canceled")) /\ UNCHANGED <<pending, queue>>
       ELSE /\ Place(r)
            /\ caller' = [q \in Requests |-> IF q = r THEN "wait"
                              ELSE IF q \in Dropped(r) THEN "done" ELSE caller[q]]
            /\ result' = [q \in Requests |->
                              IF q \in Dropped(r) THEN "canceled" ELSE result[q]]
            /\ slots' = slots - Cardinality(Dropped(r))
            /\ UNCHANGED canceled
    /\ UNCHANGED <<active, uploads, completed, draining, drainer, rootDone>>

(* Mutant: the workflow's place is not given back. *)
ReceiveWithoutRelease ==
    LET b == Head(completed)
    IN  /\ pc = "select" /\ completed # Empty
        /\ pc' = "dispatch"
        /\ completed' = Tail(completed)
        /\ \E answer \in [ToSet(b) -> {"receipt", "failed"}] : Finish(ToSet(b), answer)
        /\ UNCHANGED <<active, pending, queue, uploads, draining, drainer, rootDone>>

(* Each entry of a processed batch gets its own result. *)
ReceiveCompleted ==
    LET b == Head(completed)
    IN  /\ pc = "select" /\ completed # Empty
        /\ pc' = "dispatch"
        /\ completed' = Tail(completed)
        /\ active' = active - 1
        /\ \E answer \in [ToSet(b) -> {"receipt", "failed"}] : Finish(ToSet(b), answer)
        /\ UNCHANGED <<pending, queue, uploads, draining, drainer, rootDone>>

(* Every pending batch loses its canceled entries, then the scopes in old, *)
(* or all of them, are sealed in the order of the map iteration.           *)
Seal(old) ==
    \E order \in SetToSeqs(old) :
        /\ queue' = EnqueueAll(queue, [i \in 1..Len(order) |-> RemoveCanceled(pending[order[i]])])
        /\ pending' = [s \in Scopes |-> IF s \in old THEN Empty ELSE RemoveCanceled(pending[s])]
        /\ Finish({r \in UNION {Entries(s) : s \in Scopes} : canceled[r]}, Answer("canceled"))

(* The timer is armed for the oldest pending batch. *)
TimerFires(old) ==
    /\ pc = "select"
    /\ old \subseteq {s \in Scopes : pending[s] # Empty}
    /\ \E s \in Scopes : pending[s] # Empty
    /\ pc' = "dispatch"
    /\ Seal(old)
    /\ UNCHANGED <<active, uploads, completed, draining, drainer, rootDone>>

(* The first drain seals what is pending; a later one is acknowledged. *)
ReceiveDrain(d) ==
    /\ pc = "select" /\ drainer[d] = "offer"
    /\ pc' = "dispatch"
    /\ IF draining
       THEN drainer' = [drainer EXCEPT ![d] = "acked"]
            /\ UNCHANGED <<callers, pending, queue, draining>>
       ELSE drainer' = [drainer EXCEPT ![d] = "await"]
            /\ draining' = TRUE
            /\ Seal({s \in Scopes : pending[s] # Empty})
    /\ UNCHANGED <<active, uploads, completed, rootDone>>

(* A canceled root context answers what has no workflow and leaves. *)
ReceiveRootDone ==
    /\ pc = "select" /\ rootDone
    /\ pc' = "join"
    /\ Finish(UNION {Entries(s) : s \in Scopes} \cup QueuedEntries, Answer("draining"))
    /\ pending' = [s \in Scopes |-> Empty]
    /\ queue' = [ready |-> [t \in Tenants |-> Empty], tenants |-> Empty]
    /\ UNCHANGED <<active, uploads, completed, draining, drainer, rootDone>>

(* workflowWG.Wait, then close(done). *)
Join ==
    /\ pc = "join" /\ uploads = {}
    /\ pc' = "done"
    /\ UNCHANGED <<callers, pending, queue, active, uploads, completed, draining,
                   drainer, rootDone>>

-----------------------------------------------------------------------------
(* An upload workflow ends: the completed channel has room for all of them. *)
Processed(b) ==
    /\ b \in uploads
    /\ uploads' = uploads \ {b}
    /\ completed' = Append(completed, b)
    /\ UNCHANGED <<callers, pending, queue, active, pc, draining, drainer, rootDone>>

DrainCall(d) ==
    /\ drainer[d] = "idle"
    /\ drainer' = [drainer EXCEPT ![d] = "offer"]
    /\ UNCHANGED <<callers, pending, queue, active, uploads, completed, pc,
                   draining, rootDone>>

(* The loop has ended: nil. *)
DrainReturns(d) ==
    /\ drainer[d] \in {"offer", "acked"} /\ pc = "done"
    /\ drainer' = [drainer EXCEPT ![d] = "returned"]
    /\ UNCHANGED <<callers, pending, queue, active, uploads, completed, pc,
                   draining, rootDone>>

(* The drain context ends; once the loop has the drain, so do the workflows. *)
DrainTimesOut(d) ==
    /\ DrainMayTimeOut /\ drainer[d] \in {"offer", "await", "acked"}
    /\ drainer' = [drainer EXCEPT ![d] = "returned"]
    /\ rootDone' = (rootDone \/ drainer[d] # "offer")
    /\ UNCHANGED <<callers, pending, queue, active, uploads, completed, pc, draining>>

-----------------------------------------------------------------------------
LoopStep ==
    \/ Dispatch \/ DispatchEnds \/ ReceiveCompleted \/ ReceiveRootDone \/ Join

Next ==
    \/ \E r \in Requests : Call(r) \/ Cancel(r) \/ TakeSlot(r) \/ Leave(r) \/ ReceiveEntry(r)
    \/ LoopStep
    \/ \E old \in SUBSET Scopes : TimerFires(old)
    \/ \E b \in uploads : Processed(b)
    \/ \E d \in Drainers :
          DrainCall(d) \/ ReceiveDrain(d) \/ DrainReturns(d) \/ DrainTimesOut(d)

Spec == Init /\ [][Next]_vars

(* Go's select picks among its ready cases at random, so a case that is    *)
(* ready again and again is taken; a batch that stays pending gets old;    *)
(* workflows have a deadline; a deferred return is not delayed forever.    *)
(* A handler that waits for a slot or for the loop need not get it.        *)
Fairness ==
    /\ WF_vars(Dispatch) /\ WF_vars(DispatchEnds) /\ WF_vars(Join)
    /\ SF_vars(ReceiveCompleted) /\ WF_vars(ReceiveRootDone)
    /\ \A s \in Scopes : SF_vars(\E old \in SUBSET Scopes : s \in old /\ TimerFires(old))
    /\ \A r \in Requests : WF_vars(Leave(r))
    /\ \A d \in Drainers : SF_vars(ReceiveDrain(d)) /\ WF_vars(DrainReturns(d))
    /\ WF_vars(\E b \in uploads : Processed(b))

FairSpec == Spec /\ Fairness

-----------------------------------------------------------------------------
(* An entry whose caller waits is in exactly one place, so it is answered  *)
(* at most once (a second send would block the loop on a full result       *)
(* channel), and every slot token belongs to one caller.                   *)
Accounted ==
    LET waiting == {r \in Requests : caller[r] = "wait"}
        places == FlattenSeq(SetToSeq({pending[s] : s \in Scopes}))
                  \o FlattenSeq(FlattenSeq(SetToSeq({queue.ready[t] : t \in Tenants})))
                  \o FlattenSeq(SetToSeq(uploads)) \o FlattenSeq(completed)
    IN  /\ ToSet(places) = waiting
        /\ Len(places) = Cardinality(waiting)
        /\ slots = Cardinality({r \in Requests : caller[r] \in {"send", "wait"}})

(* "A batch never splits a request or mixes tenants/lanes", and never      *)
(* exceeds the limits unless it is one oversized request.                  *)
BatchShape ==
    \A b \in uploads \cup ToSet(completed)
             \cup UNION {ToSet(queue.ready[t]) : t \in Tenants} :
        /\ \A r \in ToSet(b) : ScopeOf[r] = ScopeOf[b[1]]
        /\ Len(b) <= MaxBatchRequests
        /\ Total(b) <= MaxBatchWeight \/ Len(b) = 1

(* The rotation names each tenant with sealed batches once: dispatchReady  *)
(* never reads the head of an empty queue, and no tenant is served twice   *)
(* while another one waits.                                                *)
Rotation ==
    /\ IsInjective(queue.tenants)
    /\ ToSet(queue.tenants) = {t \in Tenants : queue.ready[t] # Empty}
    /\ active = Cardinality(uploads) + Len(completed)

(* A drain that no deadline cut short ends the loop with every admitted    *)
(* command answered: the slots still taken are of callers on their way out. *)
DrainedMeansAnswered ==
    pc \in {"join", "done"} /\ ~rootDone =>
        /\ \A r \in Requests : caller[r] # "wait"
        /\ uploads = {} /\ completed = Empty

(* "All waiters learn their own result". *)
WaitersAnswered == \A r \in Requests : caller[r] = "wait" ~> caller[r] = "done"

(* A drain without a deadline ends once the workflows have ended. *)
DrainEnds == \A d \in Drainers : drainer[d] # "idle" ~> drainer[d] = "returned"
=============================================================================
