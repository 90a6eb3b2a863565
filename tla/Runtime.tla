------------------------------ MODULE Runtime ------------------------------
(***************************************************************************)
(* The memory of one process: the working budget (resource.Budget), which  *)
(* requests take without waiting and native tasks take through the gate    *)
(* (NativeTaskGate) with waiting; the native child with its process group; *)
(* the shutdown of the process (Runtime.Run), which cancels the tasks and  *)
(* drains the budget.                                                      *)
(*                                                                         *)
(* A step is what happens under the budget's mutex, or one system call of  *)
(* the owner of a child.  A task that found no room waits on the channel   *)
(* of the budget: "asleep" until a release or a drain closes the channel.  *)
(*                                                                         *)
(* One deadline, the drain timeout, bounds the whole shutdown.  When it    *)
(* passes, the batcher gives up: it answers what it holds, but a request   *)
(* whose batch is with a workflow is never answered.  Its handler waits on *)
(* (step "lost") and keeps its permits.                                    *)
(***************************************************************************)
EXTENDS Integers, Sequences, FiniteSets, FiniteSetsExt, Folds, SequencesExt, TLC

CONSTANTS
    Parsers,        \* requests that decode a body
    Natives,        \* tasks that run a native child
    Limit,          \* size of the working budget
    Parse, More,    \* what a request reserves, and once more for a form
    Reservation     \* what the gate reserves for a child

ASSUME RuntimeAssumption ==
    /\ Limit \in Nat \ {0} /\ Parse \in Nat \ {0} /\ More \in Nat \ {0}
    /\ Reservation \in Nat \ {0}

VARIABLES
    used,           \* Budget.used
    draining,       \* Budget.draining
    drained,        \* how often Budget.drained was closed
    requests,       \* per request: its step and its permits
    tasks,          \* per native task: step, cancellation, its process group
    slot,           \* NativeTaskGate.slot holds its token
    run,            \* progress of Runtime.Run
    timedOut        \* the deadline of drainCtx has passed

vars == <<used, draining, drained, requests, tasks, slot, run, timedOut>>

NoTask == [step |-> "idle", canceled |-> FALSE, leader |-> FALSE, child |-> FALSE]
NativeSteps == {"idle", "slot", "bytes", "asleep", "start", "wait", "grace", "killed", "check",
                "done", "unslot"}

RequestSteps == {"idle", "body", "parse", "sink", "lost", "release"}

TypeOK ==
    /\ used \in 0..Limit
    /\ draining \in BOOLEAN /\ drained \in Nat /\ slot \in BOOLEAN
    /\ requests \in [Parsers -> [step : RequestSteps, held : Seq({Parse, More})]]
    /\ tasks \in [Natives -> [step : NativeSteps, canceled : BOOLEAN, leader : BOOLEAN, child : BOOLEAN]]
    /\ run \in {"serving", "stopping", "drain", "draining", "join", "closed"}
    /\ timedOut \in BOOLEAN

Init ==
    /\ used = 0 /\ draining = FALSE /\ drained = 0
    /\ requests = [p \in Parsers |-> [step |-> "idle", held |-> <<>>]]
    /\ tasks = [n \in Natives |-> NoTask]
    /\ slot = TRUE /\ run = "serving" /\ timedOut = FALSE

(***************************************************************************)
(* The budget.                                                             *)
(***************************************************************************)

Admits(bytes) == ~draining /\ bytes <= Limit - used

(* Mutant: a release closes no channel. *)
WokenNone(t) == t

(* close(b.changed): everyone who waits looks again. *)
Woken(t) == [n \in Natives |-> IF t[n].step = "asleep" THEN [t[n] EXCEPT !.step = "bytes"] ELSE t[n]]

(* Permit.Release, with what else the step does to the tasks. *)
Release(bytes, t) ==
    /\ used' = used - bytes
    /\ tasks' = Woken(t)
    /\ drained' = IF draining /\ used - bytes = 0 THEN drained + 1 ELSE drained
    /\ UNCHANGED draining

(***************************************************************************)
(* Requests: Acquire, never waiting.                                       *)
(***************************************************************************)

(* A ready process takes the request and reads its body. *)
StartRequest(p) ==
    /\ run = "serving" /\ requests[p].step = "idle"
    /\ requests' = [requests EXCEPT ![p].step = "body"]
    /\ UNCHANGED <<used, draining, drained, tasks, slot, run, timedOut>>

(* The body was read: the reservation is made, or the request refused. *)
ReserveWorking(p) ==
    /\ requests[p].step = "body"
    /\ IF Admits(Parse)
       THEN /\ used' = used + Parse
            /\ requests' = [requests EXCEPT ![p] = [step |-> "parse", held |-> <<Parse>>]]
       ELSE /\ requests' = [requests EXCEPT ![p].step = "idle"]
            /\ UNCHANGED used
    /\ UNCHANGED <<draining, drained, tasks, slot, run, timedOut>>

(* A form reserves once more; an envelope does not; a refused or malformed *)
(* request ends.                                                           *)
DecodeStore(p) ==
    /\ requests[p].step = "parse"
    /\ IF Admits(More)
       THEN /\ used' = used + More
            /\ requests' = [requests EXCEPT ![p] = [step |-> "sink", held |-> Append(@.held, More)]]
       ELSE /\ requests' = [requests EXCEPT ![p].step = "release"]
            /\ UNCHANGED used
    /\ UNCHANGED <<draining, drained, tasks, slot, run, timedOut>>

ParseEnvelope(p) ==
    /\ requests[p].step = "parse"
    /\ \E step \in {"sink", "release"} : requests' = [requests EXCEPT ![p].step = step]
    /\ UNCHANGED <<used, draining, drained, tasks, slot, run, timedOut>>

(* Batcher.Accept returns, with the outcome of the batch or an error. *)
Answered(p) ==
    /\ requests[p].step = "sink"
    /\ requests' = [requests EXCEPT ![p].step = "release"]
    /\ UNCHANGED <<used, draining, drained, tasks, slot, run, timedOut>>

(* The deadline canceled the batcher, whose loop leaves the entries it has *)
(* dispatched unanswered: Accept waits on entry.result for ever.           *)
Abandoned(p) ==
    /\ timedOut /\ requests[p].step = "sink"
    /\ requests' = [requests EXCEPT ![p].step = "lost"]
    /\ UNCHANGED <<used, draining, drained, tasks, slot, run, timedOut>>

(* Mutant: the release of the first permit is forgotten. *)
EndRequestOnce(p) ==
    /\ requests[p].step = "release"
    /\ Release(Last(requests[p].held), tasks)
    /\ requests' = [requests EXCEPT ![p] = [step |-> "idle", held |-> <<>>]]
    /\ UNCHANGED <<slot, run, timedOut>>

(* The deferred releases, the last permit first. *)
EndRequest(p) ==
    /\ requests[p].step = "release"
    /\ Release(Last(requests[p].held), tasks)
    /\ requests' = [requests EXCEPT ![p] =
           IF Len(requests[p].held) = 1 THEN [step |-> "idle", held |-> <<>>]
           ELSE [step |-> "release", held |-> Front(requests[p].held)]]
    /\ UNCHANGED <<slot, run, timedOut>>

(***************************************************************************)
(* Native tasks: the gate, the child, the release.                         *)
(***************************************************************************)

StartTask(n) ==
    /\ run = "serving" /\ tasks[n].step = "idle"
    /\ tasks' = [tasks EXCEPT ![n] = [NoTask EXCEPT !.step = "slot"]]
    /\ UNCHANGED <<used, draining, drained, requests, slot, run, timedOut>>

(* superviseTask: the heartbeat failed, or the caller went away. *)
CancelTask(n) ==
    /\ tasks[n].step \notin {"idle", "unslot"} /\ ~tasks[n].canceled
    /\ tasks' = [tasks EXCEPT ![n].canceled = TRUE]
    /\ UNCHANGED <<used, draining, drained, requests, slot, run, timedOut>>

(* acquire: a select between the slot and the end of the context. *)
TakeSlot(n) ==
    /\ tasks[n].step = "slot"
    /\ \/ /\ slot
          /\ slot' = FALSE
          /\ tasks' = [tasks EXCEPT ![n].step = "bytes"]
       \/ /\ tasks[n].canceled
          /\ tasks' = [tasks EXCEPT ![n] = NoTask]
          /\ UNCHANGED slot
    /\ UNCHANGED <<used, draining, drained, requests, run, timedOut>>

(* The acquisition failed: the slot goes back. *)
Refused(n) ==
    /\ slot' = TRUE
    /\ tasks' = [tasks EXCEPT ![n] = NoTask]
    /\ UNCHANGED used

AcquireContext(n) ==
    /\ \/ /\ tasks[n].step = "bytes"
          /\ IF tasks[n].canceled \/ draining \/ Reservation > Limit
             THEN Refused(n)
             ELSE IF Admits(Reservation)
             THEN /\ used' = used + Reservation
                  /\ tasks' = [tasks EXCEPT ![n].step = "start"]
                  /\ UNCHANGED slot
             ELSE /\ tasks' = [tasks EXCEPT ![n].step = "asleep"]
                  /\ UNCHANGED <<used, slot>>
       \/ tasks[n].step = "asleep" /\ tasks[n].canceled /\ Refused(n)
    /\ UNCHANGED <<draining, drained, requests, run, timedOut>>

(* runNativeChild.  The leader may have started a process of its group. *)
StartChild(n) ==
    /\ tasks[n].step = "start"
    /\ \E child \in BOOLEAN :
           tasks' = [tasks EXCEPT ![n] = IF @.canceled THEN [@ EXCEPT !.step = "done"]
                         ELSE [@ EXCEPT !.step = "wait", !.leader = TRUE, !.child = child]]
    /\ UNCHANGED <<used, draining, drained, requests, slot, run, timedOut>>

LeaderExits(n) ==
    /\ tasks[n].leader
    /\ tasks' = [tasks EXCEPT ![n].leader = FALSE]
    /\ UNCHANGED <<used, draining, drained, requests, slot, run, timedOut>>

Joined(n) ==
    /\ tasks[n].step \in {"wait", "grace", "killed"} /\ ~tasks[n].leader
    /\ tasks' = [tasks EXCEPT ![n].step = "check"]
    /\ UNCHANGED <<used, draining, drained, requests, slot, run, timedOut>>

(* SIGTERM, which a process may ignore. *)
Terminate(n) ==
    /\ tasks[n].step = "wait" /\ tasks[n].canceled
    /\ \E leader \in {FALSE, tasks[n].leader}, child \in {FALSE, tasks[n].child} :
           tasks' = [tasks EXCEPT ![n].step = "grace", ![n].leader = leader, ![n].child = child]
    /\ UNCHANGED <<used, draining, drained, requests, slot, run, timedOut>>

Kill(n) ==
    /\ tasks[n].step = "grace"
    /\ tasks' = [tasks EXCEPT ![n].step = "killed", ![n].leader = FALSE, ![n].child = FALSE]
    /\ UNCHANGED <<used, draining, drained, requests, slot, run, timedOut>>

(* Mutant: the exit of the leader is taken for the end of the group. *)
ReapLeader(n) ==
    /\ tasks[n].step = "check"
    /\ tasks' = [tasks EXCEPT ![n].step = "done"]
    /\ UNCHANGED <<used, draining, drained, requests, slot, run, timedOut>>

(* What is left of the group is killed, and all of it reaped. *)
Reap(n) ==
    /\ tasks[n].step = "check"
    /\ tasks' = [tasks EXCEPT ![n].step = "done", ![n].child = FALSE]
    /\ UNCHANGED <<used, draining, drained, requests, slot, run, timedOut>>

ReleasePermit(n) ==
    /\ tasks[n].step = "done"
    /\ Release(Reservation, [tasks EXCEPT ![n].step = "unslot"])
    /\ UNCHANGED <<requests, slot, run, timedOut>>

ReleaseSlot(n) ==
    /\ tasks[n].step = "unslot"
    /\ slot' = TRUE
    /\ tasks' = [tasks EXCEPT ![n] = NoTask]
    /\ UNCHANGED <<used, draining, drained, requests, run, timedOut>>

(***************************************************************************)
(* Shutdown.                                                               *)
(***************************************************************************)

(* ready is cleared and the worker's context canceled. *)
Stop ==
    /\ run = "serving"
    /\ run' = "stopping"
    /\ tasks' = [n \in Natives |-> IF tasks[n].step \in {"idle", "unslot"} THEN tasks[n]
                                   ELSE [tasks[n] EXCEPT !.canceled = TRUE]]
    /\ UNCHANGED <<used, draining, drained, requests, slot, timedOut>>

(* The deadline of drainCtx, which every wait of the shutdown shares. *)
DrainTimeout ==
    /\ run \notin {"serving", "closed"} /\ ~timedOut
    /\ timedOut' = TRUE
    /\ UNCHANGED <<used, draining, drained, requests, tasks, slot, run>>

(* server.Shutdown and Batcher.Drain wait for the requests. *)
Shutdown ==
    /\ run = "stopping"
    /\ timedOut \/ \A p \in Parsers : requests[p].step = "idle"
    /\ run' = "drain"
    /\ UNCHANGED <<used, draining, drained, requests, tasks, slot, timedOut>>

Drain ==
    /\ run = "drain"
    /\ run' = "draining"
    /\ draining' = TRUE
    /\ tasks' = Woken(tasks)
    /\ drained' = IF used = 0 THEN drained + 1 ELSE drained
    /\ UNCHANGED <<used, requests, slot, timedOut>>

(* Budget.Drain waits for the permits, then Run for the worker. *)
Join ==
    /\ \/ /\ run = "draining" /\ (timedOut \/ drained > 0)
          /\ run' = "join"
       \/ /\ run = "join" /\ (timedOut \/ \A n \in Natives : tasks[n].step = "idle")
          /\ run' = "closed"
    /\ UNCHANGED <<used, draining, drained, requests, tasks, slot, timedOut>>

RequestStep(p) ==
    ReserveWorking(p) \/ DecodeStore(p) \/ ParseEnvelope(p) \/ EndRequest(p)
NativeStep(n) ==
    \/ TakeSlot(n) \/ AcquireContext(n) \/ StartChild(n) \/ Joined(n) \/ Terminate(n) \/ Kill(n)
    \/ Reap(n) \/ ReleasePermit(n) \/ ReleaseSlot(n)
RunStep == DrainTimeout \/ Shutdown \/ Drain \/ Join

Next ==
    \/ \E p \in Parsers : StartRequest(p) \/ RequestStep(p) \/ Answered(p) \/ Abandoned(p)
    \/ \E n \in Natives : StartTask(n) \/ CancelTask(n) \/ LeaderExits(n) \/ NativeStep(n)
    \/ Stop \/ RunStep

Spec == Init /\ [][Next]_vars

(* Goroutines are scheduled and the deadline passes; a child may run as    *)
(* long as it likes.  Nothing is assumed of a batch while the process      *)
(* serves or waits: only once the deadline has canceled the batcher does   *)
(* it answer a request or abandon it.                                      *)
Fairness ==
    /\ \A p \in Parsers :
           WF_vars(RequestStep(p)) /\ WF_vars(timedOut /\ (Answered(p) \/ Abandoned(p)))
    /\ \A n \in Natives : WF_vars(NativeStep(n))
    /\ WF_vars(DrainTimeout) /\ WF_vars(Shutdown \/ Drain \/ Join)

FairSpec == Spec /\ Fairness

(***************************************************************************)
(* Correctness.                                                            *)
(***************************************************************************)

Owned(n) == tasks[n].step \in {"start", "wait", "grace", "killed", "check", "done"}

(* Every byte of the budget is some live permit's, and none is counted     *)
(* twice: permits go back exactly once on every path.                      *)
UsedIsHeld ==
    used = FoldSet(LAMBDA p, sum : sum + FoldLeft(LAMBDA s, b : s + b, 0, requests[p].held), 0, Parsers)
             + Reservation * Cardinality({n \in Natives : Owned(n)})

(* No lost wakeup: who sleeps on the budget could not be admitted, and     *)
(* nobody sleeps on a budget that drains.                                  *)
NoSleeperForgotten ==
    \A n \in Natives : tasks[n].step = "asleep" => ~draining /\ Reservation > Limit - used

(* The drained channel is closed once (closing it again would panic), and  *)
(* after that nothing is reserved any more.                                *)
DrainedOnce == drained <= 1 /\ (drained = 1 => draining /\ used = 0)

(* A living process of a child's group, the leader or not, has its permit  *)
(* and the slot of the gate, and no other task has a permit: there is one  *)
(* such group in the process.                                              *)
ChildrenAreOwned ==
    \A n \in Natives :
        tasks[n].leader \/ tasks[n].child =>
            Owned(n) /\ ~slot /\ \A m \in Natives \ {n} : ~Owned(m)

(* Where a child reserves the whole budget, no request is being decoded    *)
(* beside it.                                                              *)
ChildrenRunAlone ==
    Reservation = Limit /\ (\E n \in Natives : tasks[n].leader \/ tasks[n].child) =>
        \A p \in Parsers : requests[p].held = <<>>

HasSlot(n) == tasks[n].step \notin {"idle", "slot"}

(* The inductive strengthening of ChildrenAreOwned and NoSleeperForgotten: *)
(* the token of the gate is in the slot or with one task, a process lives  *)
(* only between the start of the child and its reaping, and a request has  *)
(* permits to release.                                                     *)
GateInv ==
    /\ \A n \in Natives : HasSlot(n) => ~slot
    /\ \A m, n \in Natives : HasSlot(m) /\ HasSlot(n) => m = n
    /\ \A n \in Natives :
           /\ tasks[n].leader => tasks[n].step \in {"wait", "grace"}
           /\ tasks[n].child => tasks[n].step \in {"wait", "grace", "check"}
    /\ \A p \in Parsers : requests[p].step \in {"parse", "sink", "lost", "release"} => requests[p].held # <<>>
    /\ NoSleeperForgotten

(* A canceled task ends: its child is killed and reaped, its permit and    *)
(* the slot are given back.                                                *)
CanceledTasksEnd == \A n \in Natives : tasks[n].canceled ~> ~tasks[n].canceled

(* A stopped process ends within its drain timeout, and by then or later   *)
(* all that was reserved is released, unless the timeout has abandoned a   *)
(* request that waits for its batch: only such a request keeps a permit    *)
(* for ever (Runtime.Run, Budget.Drain, Batcher.Drain).                    *)
ShutdownDrains ==
    /\ run = "stopping" ~> run = "closed"
    /\ run = "stopping" ~> drained = 1 \/ \E p \in Parsers : requests[p].step = "lost"
=============================================================================
