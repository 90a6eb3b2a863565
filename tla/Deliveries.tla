----------------------------- MODULE Deliveries -----------------------------
(***************************************************************************)
(* The outbox of alert deliveries.  Workers claim a due delivery under a   *)
(* lease, send it and record the answer; a lost lease, a crash after the   *)
(* remote side received the request, a retryable answer and a restore lead *)
(* to another attempt.  Operators retry, revise the rule, disable the      *)
(* destination; a restore pauses deliveries and fences the claimed ones.   *)
(*                                                                         *)
(* Every SQL transaction is one action; the order of retry_at and          *)
(* created_at is abstracted to the choice of any due delivery.             *)
(***************************************************************************)
EXTENDS Integers, FiniteSets, TLC

CONSTANTS
    Ids,            \* deliveries
    Workers,        \* processes that send
    MaxAttempts,    \* attempts between two operator retries
    MaxFence,       \* bound on deliveries.fence
    Scenarios       \* what a behaviour may meet

NoOwner == "no owner"

Budgets == [ids : SUBSET Ids, workers : SUBSET Workers, faults : Nat, crashes : Nat, lapses : Nat,
            retries : Nat, edits : Nat, restores : 0..1]

DeliveriesAssumption ==
    /\ MaxAttempts \in Nat \ {0} /\ MaxFence \in Nat
    /\ IsFiniteSet(Workers) /\ NoOwner \notin Workers
    /\ Scenarios \subseteq Budgets

VARIABLES
    rows,       \* the table deliveries
    site,       \* alerts_paused, storage_generation and the destination
    procs,      \* the workers
    sent,       \* transmissions of each delivery
    answered,   \* deliveries some transmission of which was answered with 2xx
    retried,    \* operator retries of each delivery
    budget      \* what may still happen

vars == <<rows, site, procs, sent, answered, retried, budget>>

Absent == [state |-> "absent", owner |-> NoOwner, fence |-> 0, attempt |-> 0, live |-> FALSE,
           due |-> FALSE]
Ended == {"succeeded", "failed", "canceled"}
Outcomes == {"ok", "retry", "permanent"}

Spend(what) == /\ budget[what] > 0
               /\ budget' = [budget EXCEPT ![what] = @ - 1]

TypeOK ==
    /\ \A d \in Ids :
           /\ rows[d].state \in Ended \cup {"absent", "queued", "running"}
           /\ (rows[d].state = "running") = (rows[d].owner # NoOwner)
           /\ rows[d].fence \in 0..MaxFence
           /\ rows[d].attempt \in 0..MaxAttempts
    /\ site \in [paused : BOOLEAN, restoring : BOOLEAN, gen : 1..2, dest : BOOLEAN]
    /\ \A w \in Workers : procs[w].step \in {"idle", "send", "answer"}

Stopped(gen) == [step |-> "idle", gen |-> gen]

Init ==
    /\ budget \in Scenarios
    /\ rows = [d \in Ids |-> Absent]
    /\ site = [paused |-> FALSE, restoring |-> FALSE, gen |-> 1, dest |-> TRUE]
    /\ procs = [w \in Workers |-> Stopped(1)]
    /\ sent = [d \in Ids |-> 0] /\ retried = [d \in Ids |-> 0]
    /\ answered = {}

(* A window or a transition fires (modules Alerts and Issues). *)
Fire(d) ==
    /\ d \in budget.ids
    /\ rows[d].state = "absent"
    /\ site.dest /\ ~site.paused
    /\ rows' = [rows EXCEPT ![d].state = "queued", ![d].due = TRUE]
    /\ UNCHANGED <<site, procs, sent, answered, retried, budget>>

(***************************************************************************)
(* DeliveryWorker.RunOnce.                                                 *)
(***************************************************************************)

Close(r, state) == [r EXCEPT !.state = state, !.owner = NoOwner, !.live = FALSE]

(* Mutant: one attempt more than the limit. *)
HasAttemptsOver(r) == r.attempt <= MaxAttempts

HasAttempts(r) == r.attempt < MaxAttempts

Claimable(r) == (r.state = "queued" /\ r.due) \/ (r.state = "running" /\ ~r.live)

(* The sweep of every claim: what has no attempt left is given up. *)
Swept ==
    [d \in Ids |->
        IF ~HasAttempts(rows[d]) /\ (rows[d].state = "queued" \/ (rows[d].state = "running" /\ ~rows[d].live))
        THEN Close(rows[d], "failed") ELSE rows[d]]

ClaimDelivery(w) ==
    /\ w \in budget.workers
    /\ procs[w].step = "idle"
    /\ procs[w].gen = site.gen
    /\ ~site.paused
    /\ LET ready == {d \in Ids : HasAttempts(rows[d]) /\ Claimable(rows[d])}
       IN \/ /\ ready = {} /\ Swept # rows
             /\ rows' = Swept
             /\ UNCHANGED procs
          \/ \E d \in ready :
                LET r == rows[d]
                IN /\ r.fence < MaxFence
                   /\ rows' = [Swept EXCEPT ![d] = [r EXCEPT !.state = "running", !.owner = w,
                                   !.fence = r.fence + 1, !.attempt = r.attempt + 1, !.live = TRUE]]
                   /\ procs' = [procs EXCEPT ![w] =
                          [step |-> "send", gen |-> site.gen, id |-> d, fence |-> r.fence + 1]]
    /\ UNCHANGED <<site, sent, answered, retried, budget>>

(* Sender.Send: the request reaches the destination, or not; an answer is  *)
(* a success, retryable or permanent.  A body that no longer matches its   *)
(* digest and a secret that cannot be decrypted end as permanent, unsent.  *)
Send(w) ==
    /\ procs[w].step = "send"
    /\ \E outcome \in Outcomes, received \in BOOLEAN :
           LET d == procs[w].id
           IN /\ outcome = "ok" => received
              /\ IF outcome = "ok" THEN UNCHANGED budget ELSE Spend("faults")
              /\ sent' = [sent EXCEPT ![d] = @ + (IF received THEN 1 ELSE 0)]
              /\ answered' = IF outcome = "ok" THEN answered \cup {d} ELSE answered
              /\ procs' = [procs EXCEPT ![w] = [step |-> "answer", gen |-> @.gen, id |-> d,
                                                fence |-> @.fence, outcome |-> outcome]]
    /\ UNCHANGED <<rows, site, retried>>

Holds(w) ==
    LET r == rows[procs[w].id]
    IN r.state = "running" /\ r.owner = w /\ r.fence = procs[w].fence /\ r.live

(* The state finishDelivery gives a delivery. *)
Finished(r, outcome) ==
    CASE outcome = "ok" -> "succeeded"
      [] outcome = "permanent" -> "failed"
      [] OTHER -> IF site.paused \/ ~HasAttempts(r) THEN "failed" ELSE "queued"

(* CompleteDelivery and FailDelivery: refused in another storage           *)
(* generation and for a lost lease.                                        *)
FinishDelivery(w) ==
    /\ procs[w].step = "answer"
    /\ LET d == procs[w].id
           state == Finished(rows[d], procs[w].outcome)
       IN IF procs[w].gen = site.gen /\ Holds(w)
          THEN rows' = [rows EXCEPT ![d] = [Close(@, state) EXCEPT !.due = state # "queued"]]
          ELSE UNCHANGED rows
    /\ procs' = [procs EXCEPT ![w] = Stopped(@.gen)]
    /\ UNCHANGED <<site, sent, answered, retried, budget>>

(* HeartbeatDelivery is refused, the send is canceled. *)
HeartbeatRefused(w) ==
    /\ procs[w].step = "send"
    /\ procs[w].gen # site.gen \/ site.paused \/ ~Holds(w)
    /\ procs' = [procs EXCEPT ![w] = Stopped(@.gen)]
    /\ UNCHANGED <<rows, site, sent, answered, retried, budget>>

(* The process ends, or is shut down while the send is under way. *)
Crash(w) ==
    /\ procs[w].step # "idle"
    /\ Spend("crashes")
    /\ procs' = [procs EXCEPT ![w] = Stopped(@.gen)]
    /\ UNCHANGED <<rows, site, sent, answered, retried>>

(* A process of an earlier storage generation is started anew. *)
Restart(w) ==
    /\ procs[w].step = "idle" /\ procs[w].gen # site.gen
    /\ procs' = [procs EXCEPT ![w] = Stopped(site.gen)]
    /\ UNCHANGED <<rows, site, sent, answered, retried, budget>>

Attended(d) ==
    \E w \in Workers : /\ procs[w].step # "idle" /\ procs[w].id = d
                       /\ procs[w].fence = rows[d].fence /\ rows[d].owner = w
LeaseLapses(d) ==
    /\ rows[d].live
    /\ rows' = [rows EXCEPT ![d].live = FALSE]
    /\ IF Attended(d) THEN Spend("lapses") ELSE UNCHANGED budget
    /\ UNCHANGED <<site, procs, sent, answered, retried>>

(* retry_at has come. *)
BackoffEnds(d) ==
    /\ rows[d].state = "queued" /\ ~rows[d].due
    /\ rows' = [rows EXCEPT ![d].due = TRUE]
    /\ UNCHANGED <<site, procs, sent, answered, retried, budget>>

(***************************************************************************)
(* Operators.                                                              *)
(***************************************************************************)

RetryDelivery(d) ==
    /\ Spend("retries")
    /\ rows[d].state = "failed" /\ site.dest
    /\ rows' = [rows EXCEPT ![d] = [Close(@, "queued") EXCEPT !.attempt = 0, !.due = TRUE]]
    /\ retried' = [retried EXCEPT ![d] = @ + 1]
    /\ UNCHANGED <<site, procs, sent, answered>>

Canceled ==
    [d \in Ids |-> IF rows[d].state \in {"queued", "running"} THEN Close(rows[d], "canceled") ELSE rows[d]]

(* UpdateAlert cancels the deliveries of the rule. *)
UpdateAlert ==
    /\ Spend("edits")
    /\ rows' = Canceled
    /\ UNCHANGED <<site, procs, sent, answered, retried>>

(* UpdateDestination; disabling cancels the deliveries to it. *)
UpdateDestination ==
    /\ Spend("edits")
    /\ site' = [site EXCEPT !.dest = ~@]
    /\ rows' = IF site.dest THEN Canceled ELSE rows
    /\ UNCHANGED <<procs, sent, answered, retried>>

BeginRecoveryVerification ==
    /\ Spend("restores")
    /\ site' = [site EXCEPT !.paused = TRUE, !.restoring = TRUE]
    /\ UNCHANGED <<rows, procs, sent, answered, retried>>

(* ActivateRecovery: what was claimed is due again under a new fence. *)
Requeued(r) ==
    IF r.state = "running" THEN [Close(r, "queued") EXCEPT !.fence = r.fence + 1, !.due = TRUE] ELSE r

ActivateRecovery ==
    /\ site.restoring
    /\ \A d \in Ids : rows[d].fence < MaxFence
    /\ site' = [site EXCEPT !.restoring = FALSE, !.gen = @ + 1]
    /\ rows' = [d \in Ids |-> Requeued(rows[d])]
    /\ UNCHANGED <<procs, sent, answered, retried, budget>>

(* Alerting is resumed by hand after a restore. *)
ResumeAlerts ==
    /\ site.paused /\ ~site.restoring
    /\ site' = [site EXCEPT !.paused = FALSE]
    /\ UNCHANGED <<rows, procs, sent, answered, retried, budget>>

WorkerStep(w) ==
    ClaimDelivery(w) \/ Send(w) \/ FinishDelivery(w) \/ HeartbeatRefused(w) \/ Restart(w)

Next ==
    \/ \E d \in Ids : Fire(d) \/ LeaseLapses(d) \/ BackoffEnds(d) \/ RetryDelivery(d)
    \/ \E w \in Workers : WorkerStep(w) \/ Crash(w)
    \/ UpdateAlert
    \/ UpdateDestination
    \/ BeginRecoveryVerification
    \/ ActivateRecovery
    \/ ResumeAlerts

Spec == Init /\ [][Next]_vars

(* Workers run on and are restarted, back-off and the leases of workers    *)
(* that are gone run out.                                                  *)
Fairness ==
    /\ \A w \in Workers : WF_vars(WorkerStep(w))
    /\ \A d \in Ids : WF_vars(BackoffEnds(d)) /\ WF_vars(~Attended(d) /\ LeaseLapses(d))

FairSpec == Spec /\ Fairness

(***************************************************************************)
(* Correctness.                                                            *)
(***************************************************************************)

(* A delivery that is recorded as succeeded was received and answered with *)
(* 2xx at least once, and the destination never sees a delivery more often *)
(* than the attempts an operator allowed.                                  *)
SendsAreBounded ==
    \A d \in Ids :
        /\ rows[d].state = "succeeded" => d \in answered
        /\ sent[d] <= MaxAttempts * (1 + retried[d])

KeepsEnded ==
    \A d \in Ids :
        /\ rows[d].state \in {"succeeded", "canceled"} => rows'[d] = rows[d]
        /\ rows[d].state = "failed" /\ rows'[d] # rows[d] => retried'[d] = retried[d] + 1

(* An answer that arrives after the delivery was canceled, succeeded or    *)
(* failed changes nothing: succeeded and canceled are final, failed is     *)
(* left only by RetryDelivery.                                             *)
EndedStays == [][KeepsEnded]_vars

Settled(d) == rows[d].state \in Ended \/ site.paused

(* Every delivery ends, through lost leases, crashes and a restore, unless *)
(* deliveries are paused for good.                                         *)
DeliveriesEnd == \A d \in Ids : rows[d].state \in {"queued", "running"} ~> Settled(d)

(***************************************************************************)
(* The inductive invariant.                                                *)
(***************************************************************************)

Row == [state : Ended \cup {"absent", "queued", "running"}, owner : Workers \cup {NoOwner},
        fence : 0..MaxFence, attempt : 0..MaxAttempts, live : BOOLEAN, due : BOOLEAN]
Process == [step : {"idle"}, gen : Nat]
           \cup [step : {"send"}, gen : Nat, id : Ids, fence : Nat]
           \cup [step : {"answer"}, gen : Nat, id : Ids, fence : Nat, outcome : Outcomes]

Typed ==
    /\ rows \in [Ids -> Row] /\ procs \in [Workers -> Process]
    /\ site \in [paused : BOOLEAN, restoring : BOOLEAN, gen : Nat, dest : BOOLEAN]
    /\ sent \in [Ids -> Nat] /\ retried \in [Ids -> Nat] /\ answered \subseteq Ids
    /\ budget \in Budgets

(* A lease belongs to a delivery that is being sent. *)
LeaseFits(r) == (r.state = "running") = (r.owner # NoOwner) /\ (r.live => r.state = "running")

(* There is at most one restore. *)
RestoresFit ==
    site.gen >= 1 /\ budget.restores + (IF site.restoring THEN 1 ELSE 0) + site.gen <= 2

(* Every claim pays for one transmission, the ones under way included. *)
Sending(d) == {w \in Workers : procs[w].step = "send" /\ procs[w].id = d}
ClaimsPay(d) == sent[d] + Cardinality(Sending(d)) <= MaxAttempts * retried[d] + rows[d].attempt

SuccessFits ==
    /\ \A d \in Ids : rows[d].state = "succeeded" => d \in answered
    /\ \A w \in Workers :
           procs[w].step = "answer" /\ procs[w].outcome = "ok" => procs[w].id \in answered

(* What every step of the outbox preserves. *)
Inductive ==
    /\ Typed /\ RestoresFit /\ SuccessFits
    /\ \A d \in Ids : LeaseFits(rows[d]) /\ ClaimsPay(d)
=============================================================================
