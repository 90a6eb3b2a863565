------------------------------- MODULE Alerts -------------------------------
(***************************************************************************)
(* Threshold alerts: evaluators reserve the windows of a rule behind a     *)
(* barrier on received time, wait for publication to reach the reserved    *)
(* cut, count the window through a query over a snapshot and decide        *)
(* whether the rule fires.  Batches are accepted and published meanwhile,  *)
(* the rule is revised, evaluators crash and race, leases and snapshots    *)
(* expire, the retention floor moves and the installation is restored.     *)
(*                                                                         *)
(* Time is counted in minutes.  Every SQL transaction is one action.  A    *)
(* batch holds one record.  The query is a step that ends with the count   *)
(* of its snapshot or fails (module Queries); a fired window is a row of   *)
(* the outbox (module Deliveries).                                         *)
(***************************************************************************)
EXTENDS Integers, Sequences, FiniteSets, SequencesExt, FiniteSetsExt, TLC

CONSTANTS
    Lanes,          \* lanes of the tenant
    Kinds,          \* record kinds a rule may count
    Evaluators,     \* processes with the maintenance role
    MaxMinute,      \* bound on the clock
    MaxRevision,    \* bound on alerts.revision
    MaxFence,       \* bound on alert_evaluations.fence
    MaxPending,     \* open windows of one rule
    MaxSnapshots,   \* live alert snapshots of one tenant
    Threshold,      \* the rule fires at this count
    Cooldown,       \* cooldown_seconds, in minutes
    Scenarios       \* what a behaviour may meet

Budgets == [lanes : SUBSET Lanes, kinds : SUBSET Kinds, evaluators : SUBSET Evaluators,
            records : Nat, minutes : 0..MaxMinute, steps : Nat, window : Nat \ {0}, edits : Nat, crashes : Nat,
            faults : Nat, lapses : Nat, expiries : Nat, floors : Nat, restores : 0..1, ends : Nat]

AlertsAssumption ==
    /\ MaxMinute \in Nat /\ MaxRevision \in Nat /\ MaxFence \in Nat
    /\ MaxPending \in Nat \ {0} /\ MaxSnapshots \in Nat \ {0}
    /\ Threshold \in Nat /\ Cooldown \in Nat
    /\ Scenarios \subseteq Budgets

VARIABLES
    clock,      \* the database clock and the retention floor
    lanes,      \* accepted records, published_seq and last_received_time_us
    alert,      \* the row of alerts
    site,       \* installation, project and destination
    evals,      \* alert_evaluations, by revision and window end; kind is the
                \* rule of that revision, kept for the properties
    snaps,      \* query_snapshots of the rule with their query_jobs
    outbox,     \* deliveries of the rule, by dedupe_key
    procs,      \* the evaluators
    budget      \* what may still happen

vars == <<clock, lanes, alert, site, evals, snaps, outbox, procs, budget>>

None == 0
NoOwner == "no owner"
NoSnapshot == <<>>
Open == {"waiting", "queued", "running"}
Idle == [step |-> "idle", rule |-> None, n |-> 0, list |-> <<>>, fence |-> 0, observed |-> 0]

Spend(what) == /\ budget[what] > 0
               /\ budget' = [budget EXCEPT ![what] = @ - 1]

TypeOK ==
    /\ clock \in [now : 0..MaxMinute, floor : 0..MaxMinute]
    /\ \A l \in Lanes : /\ lanes[l].published \in 0..Len(lanes[l].records)
                        /\ lanes[l].last \in 0..MaxMinute
    /\ alert \in [rev : 1..MaxRevision, enabled : BOOLEAN, kind : Kinds, window : Nat,
                  first : Nat, completed : 0..MaxMinute, fired : 0..MaxMinute]
    /\ site \in [paused : BOOLEAN, active : BOOLEAN, rights : Nat, dest : BOOLEAN,
                 destRev : Nat,
                 recovery : {"ready", "restoring"}, gen : 1..2]
    /\ \A k \in DOMAIN evals :
           /\ evals[k].state \in Open \cup {"succeeded", "failed", "canceled"}
           /\ (evals[k].state = "running") = (evals[k].owner # NoOwner)
           /\ evals[k].fence \in 0..MaxFence
    /\ \A s \in DOMAIN snaps :
           /\ snaps[s].state \in {"active", "released"}
           /\ snaps[s].query \in {"none", "running", "succeeded", "failed", "canceled"}
    /\ outbox \subseteq DOMAIN evals
    /\ \A e \in Evaluators : procs[e].step \in
           {"idle", "reserve", "open", "promote", "snapshot", "find", "submit", "claim",
            "await", "read", "fail", "complete"}

(* CreateAlert's first window: it starts at the next full minute. *)
FirstWindowEnd(window) == clock.now + 1 + window

Init ==
    /\ budget \in Scenarios
    /\ clock = [now |-> 0, floor |-> 0]
    /\ lanes = [l \in Lanes |-> [records |-> <<>>, published |-> 0, last |-> 0]]
    /\ \E k \in budget.kinds :
           alert = [rev |-> 1, enabled |-> TRUE, kind |-> k, window |-> budget.window,
                    first |-> FirstWindowEnd(budget.window), completed |-> None, fired |-> None]
    /\ site = [paused |-> FALSE, active |-> TRUE, rights |-> 1, dest |-> TRUE, destRev |-> 1,
               recovery |-> "ready", gen |-> 1]
    /\ evals = <<>> /\ snaps = <<>> /\ outbox = {}
    /\ procs = [e \in Evaluators |-> Idle]

(***************************************************************************)
(* Records.                                                                *)
(***************************************************************************)

(* acceptOnce under the lane lock: received time never goes back. *)
Accept(l, kind) ==
    /\ l \in budget.lanes /\ kind \in budget.kinds
    /\ Spend("records")
    /\ LET received == Max({clock.now, lanes[l].last})
       IN lanes' = [lanes EXCEPT ![l].records = Append(@, [time |-> received, kind |-> kind]),
                                 ![l].last = received]
    /\ UNCHANGED <<clock, alert, site, evals, snaps, outbox, procs>>

Publish(l) ==
    /\ lanes[l].published < Len(lanes[l].records)
    /\ lanes' = [lanes EXCEPT ![l].published = @ + 1]
    /\ UNCHANGED <<clock, alert, site, evals, snaps, outbox, procs, budget>>

Tick ==
    /\ Spend("minutes")
    /\ clock' = [clock EXCEPT !.now = @ + 1]
    /\ UNCHANGED <<lanes, alert, site, evals, snaps, outbox, procs>>

(* The wall clock of the database is set back. *)
ClockStepsBack ==
    /\ Spend("steps")
    /\ clock.now > 0
    /\ clock' = [clock EXCEPT !.now = @ - 1]
    /\ UNCHANGED <<lanes, alert, site, evals, snaps, outbox, procs>>

(* AdvanceRetentionFloor, or a shorter retention period. *)
AdvanceRetentionFloor ==
    /\ Spend("floors")
    /\ clock.floor < clock.now
    /\ clock' = [clock EXCEPT !.floor = clock.now]
    /\ UNCHANGED <<lanes, alert, site, evals, snaps, outbox, procs>>

(* Records of a kind received in [start, end), up to a cut and a floor.  A *)
(* bundle holds one record here; the catalog drops a bundle once its       *)
(* newest record is below the floor, and the count itself has no floor.    *)
Received(kind, start, end) ==
    {p \in UNION {{l} \X (1..Len(lanes[l].records)) : l \in Lanes} :
        LET r == lanes[p[1]].records[p[2]]
        IN r.kind = kind /\ r.time >= start /\ r.time < end}
Visible(rows, cut, floor) ==
    {p \in rows : p[2] <= cut[p[1]] /\ lanes[p[1]].records[p[2]].time >= floor}

(***************************************************************************)
(* Reserving windows.                                                      *)
(***************************************************************************)

Move(e, p) == procs' = [procs EXCEPT ![e] = p]

(* EvaluateOnce has read the page of enabled rules; by the time the rule   *)
(* is evaluated the copy may be old.                                       *)
EvaluateOnce(e) ==
    /\ e \in budget.evaluators
    /\ procs[e].step = "idle"
    /\ alert.enabled /\ ~site.paused
    /\ Move(e, [Idle EXCEPT !.step = "reserve", !.rule = alert.kind, !.n = MaxPending])
    /\ UNCHANGED <<clock, lanes, alert, site, evals, snaps, outbox, budget>>

Ends(rev) == {k[2] : k \in {k \in DOMAIN evals : k[1] = rev}}
OpenOf(rev) == {k \in DOMAIN evals : k[1] = rev /\ evals[k].state \in Open}
NextEnd ==
    LET base == IF alert.completed = None THEN alert.first ELSE alert.completed + 1
        last == Max({0} \cup Ends(alert.rev))
    IN IF last >= base THEN last + 1 ELSE base

(* Later batches are received at the window's end or after it. *)
Raised(end) == [l \in Lanes |-> [lanes[l] EXCEPT !.last = Max({@, end})]]

AcceptedCut == [l \in Lanes |-> Len(lanes[l].records)]

(* One reservation of the loop, with all lanes and the rule locked. *)
ReserveThresholdWindow(e) ==
    /\ procs[e].step = "reserve"
    /\ IF ~site.active
       THEN Move(e, Idle) /\ UNCHANGED <<lanes, evals>>
       ELSE IF ~alert.enabled \/ site.paused \/ Cardinality(OpenOf(alert.rev)) >= MaxPending
                  \/ NextEnd > clock.now
       THEN Move(e, [procs[e] EXCEPT !.step = "open"]) /\ UNCHANGED <<lanes, evals>>
       ELSE /\ lanes' = Raised(NextEnd)
            /\ evals' = evals @@ (<<alert.rev, NextEnd>> :>
                   [start |-> NextEnd - alert.window, cut |-> AcceptedCut, state |-> "waiting",
                    kind |-> alert.kind, owner |-> NoOwner, fence |-> 0, live |-> FALSE, snap |-> NoSnapshot,
                    observed |-> 0, fired |-> FALSE])
            /\ Move(e, [procs[e] EXCEPT !.n = @ - 1,
                                        !.step = IF procs[e].n = 1 THEN "open" ELSE "reserve"])
    /\ UNCHANGED <<clock, alert, site, snaps, outbox, budget>>

(***************************************************************************)
(* One pass over the open windows.  The list is read once; each member     *)
(* carries the state and the snapshot it had then.                         *)
(***************************************************************************)

StepOf(h) ==
    CASE h.state = "waiting" -> "promote"
      [] h.state # "waiting" /\ h.snap # NoSnapshot -> "find"
      [] h.state = "queued" /\ h.snap = NoSnapshot -> "snapshot"
      [] OTHER -> "idle"

(* The evaluator turns to the first window of the list.  A running window  *)
(* without a snapshot is an error and ends the pass.                       *)
Enter(e, list) ==
    IF list = <<>> \/ StepOf(list[1]) = "idle" THEN Idle
    ELSE [procs[e] EXCEPT !.list = list, !.step = StepOf(list[1])]

ListOpenThresholdEvaluations(e) ==
    /\ procs[e].step = "open"
    /\ LET open == {k \in DOMAIN evals : evals[k].state \in Open}
           sorted == SetToSortSeq(open, LAMBDA a, b : a[2] < b[2] \/ (a[2] = b[2] /\ a[1] < b[1]))
           list == SubSeq(sorted, 1, Min({Len(sorted), MaxPending}))
       IN Move(e, Enter(e, [i \in DOMAIN list |->
               [key |-> list[i], state |-> evals[list[i]].state, snap |-> evals[list[i]].snap]]))
    /\ UNCHANGED <<clock, lanes, alert, site, evals, snaps, outbox, budget>>

Head1(e) == procs[e].list[1]
Key(e) == Head1(e).key
Rest(e) == Enter(e, Tail(procs[e].list))
(* The evaluator goes on with the window as it now is. *)
GoOn(e, state, snap) ==
    Enter(e, <<[Head1(e) EXCEPT !.state = state, !.snap = snap]>> \o Tail(procs[e].list))

Published(cut) == \A l \in Lanes : lanes[l].published >= cut[l]

Current(k) == alert.enabled /\ alert.rev = k[1]

(* PromoteThresholdEvaluation; a window that is not ready ends the pass. *)
PromoteThresholdEvaluation(e) ==
    /\ procs[e].step = "promote"
    /\ LET k == Key(e)
           To(state) == evals' = [evals EXCEPT ![k].state = state]
       IN IF ~site.active
          THEN Move(e, Idle) /\ UNCHANGED evals
          ELSE IF evals[k].state # "waiting"
          THEN /\ Move(e, IF evals[k].state = "queued" THEN GoOn(e, "queued", evals[k].snap) ELSE Idle)
               /\ UNCHANGED evals
          ELSE IF ~Current(k) THEN Move(e, Idle) /\ To("canceled")
          ELSE IF clock.floor > evals[k].start THEN Move(e, Idle) /\ To("failed")
          ELSE IF ~Published(evals[k].cut) THEN Move(e, Idle) /\ UNCHANGED evals
          ELSE Move(e, GoOn(e, "queued", evals[k].snap)) /\ To("queued")
    /\ UNCHANGED <<clock, lanes, alert, site, snaps, outbox, budget>>

LiveSnapshots == {s \in DOMAIN snaps : snaps[s].state = "active" /\ snaps[s].live}

(* CreateAlertSnapshot: the dataset comes from the evaluator's copy of the *)
(* rule, the cut from the window, the floor from the installation.         *)
CreateAlertSnapshot(e) ==
    /\ procs[e].step = "snapshot"
    /\ LET k == Key(e)
           s == k \o <<Cardinality({t \in DOMAIN snaps : t[1] = k[1] /\ t[2] = k[2]}) + 1>>
       IN IF /\ ~site.paused /\ site.recovery = "ready" /\ site.active
             /\ Cardinality(LiveSnapshots) < MaxSnapshots
             /\ Current(k) /\ evals[k].state = "queued" /\ Published(evals[k].cut)
          THEN /\ snaps' = snaps @@ (s :> [state |-> "active", live |-> TRUE, gen |-> site.gen,
                                           rights |-> site.rights, kind |-> procs[e].rule, floor |-> clock.floor,
                                           query |-> "none"])
               /\ evals' = [evals EXCEPT ![k].snap = s]
               /\ Move(e, GoOn(e, "queued", s))
          ELSE Move(e, Idle) /\ UNCHANGED <<evals, snaps>>
    /\ UNCHANGED <<clock, lanes, alert, site, outbox, budget>>

(* loadAlertSnapshot: the snapshot lives and nothing it was made under has *)
(* changed, the project's auth_revision included.                          *)
Readable(s) ==
    /\ snaps[s].state = "active" /\ snaps[s].live
    /\ alert.enabled /\ alert.rev = s[1]
    /\ ~site.paused /\ site.recovery = "ready" /\ site.gen = snaps[s].gen
    /\ site.active /\ site.rights = snaps[s].rights

Snap(e) == Head1(e).snap

FindAlertQuery(e) ==
    /\ procs[e].step = "find"
    /\ Move(e, IF snaps[Snap(e)].query = "none" THEN [procs[e] EXCEPT !.step = "submit"]
               ELSE IF Readable(Snap(e)) THEN [procs[e] EXCEPT !.step = "claim"]
               ELSE Idle)
    /\ UNCHANGED <<clock, lanes, alert, site, evals, snaps, outbox, budget>>

(* submitAlertQuery: the window still has this snapshot, the dataset of    *)
(* the evaluator's rule is the snapshot's, and a snapshot has one query.   *)
SubmitAlertQuery(e) ==
    /\ procs[e].step = "submit"
    /\ LET s == Snap(e)
           submittable == /\ \E k \in DOMAIN evals : evals[k].state \in Open /\ evals[k].snap = s
                          /\ Readable(s) /\ snaps[s].kind = procs[e].rule
                          /\ snaps[s].query = "none"
       IN \/ /\ submittable
             /\ snaps' = [snaps EXCEPT ![s].query = "running"]
             /\ Move(e, [procs[e] EXCEPT !.step = "claim"])
             /\ UNCHANGED budget
          \/ ~submittable /\ Move(e, Idle) /\ UNCHANGED <<snaps, budget>>
          \/ Spend("faults") /\ Move(e, Idle) /\ UNCHANGED snaps
    /\ UNCHANGED <<clock, lanes, alert, site, evals, outbox>>

(* The query ends: with a result, or failed. *)
QueryEnds(s) ==
    /\ snaps[s].query = "running"
    /\ \/ snaps' = [snaps EXCEPT ![s].query = "succeeded"] /\ UNCHANGED budget
       \/ snaps' = [snaps EXCEPT ![s].query = "failed"] /\ Spend("faults")
    /\ UNCHANGED <<clock, lanes, alert, site, evals, outbox, procs>>

(* Mutant: a window is claimed from the queue only. *)
ClaimableQueued(v) == v.state = "queued"

Claimable(v) == v.state = "queued" \/ (v.state = "running" /\ ~v.live)

(* ClaimThresholdEvaluation; a window another evaluator holds is left. *)
ClaimThresholdEvaluation(e) ==
    /\ procs[e].step = "claim"
    /\ LET k == Key(e)
           v == evals[k]
       IN IF Claimable(v)
          THEN /\ v.fence < MaxFence
               /\ evals' = [evals EXCEPT ![k] = [@ EXCEPT !.state = "running", !.owner = e,
                                                      !.fence = v.fence + 1, !.live = TRUE]]
               /\ Move(e, [procs[e] EXCEPT !.step = "await", !.fence = v.fence + 1])
          ELSE Move(e, Rest(e)) /\ UNCHANGED evals
    /\ UNCHANGED <<clock, lanes, alert, site, snaps, outbox, budget>>

(* Mutant: only the fence is compared, not the state and the owner. *)
HoldsByFence(e) == evals[Key(e)].fence = procs[e].fence

Holds(e) ==
    LET v == evals[Key(e)]
    IN v.state = "running" /\ v.owner = e /\ v.fence = procs[e].fence /\ v.live

(* awaitAlertQuery polls the query, then keeps the lease alive; an error of *)
(* either, and the shutdown of the process, fail the window.                *)
AwaitAlertQuery(e) ==
    /\ procs[e].step = "await"
    /\ LET s == Snap(e)
           To(step) == Move(e, [procs[e] EXCEPT !.step = step])
           gone == ~Readable(s) \/ snaps[s].query \in {"failed", "canceled"}
       IN \/ ~gone /\ snaps[s].query = "succeeded" /\ To("read") /\ UNCHANGED budget
          \/ gone /\ To("fail") /\ UNCHANGED budget
          \/ ~gone /\ snaps[s].query = "running" /\ ~Holds(e) /\ To("fail") /\ UNCHANGED budget
          \/ ~gone /\ snaps[s].query = "running" /\ Spend("ends") /\ To("fail")
    /\ UNCHANGED <<clock, lanes, alert, site, evals, snaps, outbox>>

(* The count the query of a snapshot found. *)
CountOf(k, s) ==
    Cardinality(Visible(Received(snaps[s].kind, evals[k].start, k[2]), evals[k].cut, snaps[s].floor))

ReadAlertCount(e) ==
    /\ procs[e].step = "read"
    /\ \/ /\ Move(e, [procs[e] EXCEPT !.step = "complete", !.observed = CountOf(Key(e), Snap(e))])
          /\ UNCHANGED budget
       \/ Spend("faults") /\ Move(e, [procs[e] EXCEPT !.step = "fail"])
    /\ UNCHANGED <<clock, lanes, alert, site, evals, snaps, outbox>>

Release(s) == IF s = NoSnapshot THEN snaps ELSE [snaps EXCEPT ![s].state = "released"]

Close(v, state) == [v EXCEPT !.state = state, !.owner = NoOwner, !.live = FALSE]

FailThresholdEvaluation(e) ==
    /\ procs[e].step = "fail"
    /\ IF Holds(e)
       THEN /\ evals' = [evals EXCEPT ![Key(e)] = Close(@, "failed")]
            /\ snaps' = Release(evals[Key(e)].snap)
       ELSE UNCHANGED <<evals, snaps>>
    /\ Move(e, Idle)
    /\ UNCHANGED <<clock, lanes, alert, site, outbox, budget>>

Expected == IF alert.completed = None THEN alert.first ELSE alert.completed + 1

(* Mutant: a later window may complete before an earlier one. *)
InOrderOrLater(end) == end >= Expected

InOrder(end) == end = Expected

CooledDown(end) == alert.fired = None \/ end - alert.fired >= Cooldown

(* CompleteThresholdEvaluation, with the rule, its destination and the     *)
(* window locked.  A window out of order is left running.                  *)
CompleteThresholdEvaluation(e) ==
    /\ procs[e].step = "complete"
    /\ LET k == Key(e)
           end == k[2]
           fired == procs[e].observed >= Threshold /\ CooledDown(end) /\ site.dest
       IN IF ~Holds(e)
          THEN Move(e, Idle) /\ UNCHANGED <<alert, evals, snaps, outbox>>
          ELSE IF ~Current(k)
          THEN /\ evals' = [evals EXCEPT ![k] = Close(@, "canceled")]
               /\ Move(e, Rest(e)) /\ UNCHANGED <<alert, snaps, outbox>>
          ELSE IF ~InOrder(end)
          THEN Move(e, Idle) /\ UNCHANGED <<alert, evals, snaps, outbox>>
          ELSE /\ evals' = [evals EXCEPT ![k] = [Close(@, "succeeded") EXCEPT
                                !.observed = procs[e].observed, !.fired = fired]]
               /\ alert' = [alert EXCEPT !.completed = end, !.fired = IF fired THEN end ELSE @]
               /\ outbox' = IF fired THEN outbox \cup {k} ELSE outbox
               /\ snaps' = Release(evals[k].snap)
               /\ Move(e, Rest(e))
    /\ UNCHANGED <<clock, lanes, site, budget>>

(***************************************************************************)
(* Operators of the installation, time and faults.                         *)
(***************************************************************************)

(* UpdateAlert: a new revision starts over and ends the work of the old    *)
(* one; outstanding deliveries are canceled with it.                       *)
UpdateAlert(kind, enabled) ==
    /\ kind \in budget.kinds
    /\ Spend("edits")
    /\ alert.rev < MaxRevision
    /\ enabled => site.dest
    /\ alert' = [alert EXCEPT !.rev = @ + 1, !.kind = kind, !.enabled = enabled,
                              !.first = FirstWindowEnd(alert.window),
                              !.completed = None, !.fired = None]
    /\ evals' = [k \in DOMAIN evals |->
                    IF evals[k].state \in Open THEN Close(evals[k], "canceled") ELSE evals[k]]
    /\ snaps' = [s \in DOMAIN snaps |->
                    [snaps[s] EXCEPT !.state = "released",
                                     !.query = IF @ = "running" THEN "canceled" ELSE @]]
    /\ UNCHANGED <<clock, lanes, site, outbox, procs>>

UpdateDestination ==
    /\ Spend("edits")
    /\ site' = [site EXCEPT !.dest = ~@, !.destRev = @ + 1]
    /\ UNCHANGED <<clock, lanes, alert, evals, snaps, outbox, procs>>

DisableProject ==
    /\ Spend("edits")
    /\ site.active
    /\ site' = [site EXCEPT !.active = FALSE, !.rights = @ + 1]
    /\ UNCHANGED <<clock, lanes, alert, evals, snaps, outbox, procs>>

(* A key of the project is revoked, which raises the project's             *)
(* auth_revision.                                                          *)
RevokeProjectKey ==
    /\ Spend("edits")
    /\ site' = [site EXCEPT !.rights = @ + 1]
    /\ UNCHANGED <<clock, lanes, alert, evals, snaps, outbox, procs>>

(* The process dies: its lease remains until it lapses. *)
Crash(e) ==
    /\ procs[e].step # "idle"
    /\ Spend("crashes")
    /\ Move(e, Idle)
    /\ UNCHANGED <<clock, lanes, alert, site, evals, snaps, outbox>>

Lapse(k) == evals' = [evals EXCEPT ![k].live = FALSE]
Attended(k) ==
    \E e \in Evaluators :
        /\ procs[e].step \in {"await", "read", "complete", "fail"}
        /\ Key(e) = k /\ procs[e].fence = evals[k].fence /\ evals[k].owner = e
(* A holder that stops sending heartbeats loses the lease: always when it  *)
(* is gone, and when it is too slow.                                       *)
LeaseLapses(k) ==
    /\ evals[k].live
    /\ Lapse(k)
    /\ IF Attended(k) THEN Spend("lapses") ELSE UNCHANGED budget
    /\ UNCHANGED <<clock, lanes, alert, site, snaps, outbox, procs>>

(* Five minutes after it was created the snapshot is over. *)
SnapshotExpires(s) ==
    /\ Spend("expiries")
    /\ snaps[s].state = "active" /\ snaps[s].live
    /\ snaps' = [snaps EXCEPT ![s].live = FALSE]
    /\ UNCHANGED <<clock, lanes, alert, site, evals, outbox, procs>>

BeginRecoveryVerification ==
    /\ Spend("restores")
    /\ site' = [site EXCEPT !.recovery = "restoring", !.paused = TRUE]
    /\ UNCHANGED <<clock, lanes, alert, evals, snaps, outbox, procs>>

ActivateRecovery ==
    /\ site.recovery = "restoring"
    /\ site' = [site EXCEPT !.recovery = "ready", !.gen = @ + 1]
    /\ evals' = [k \in DOMAIN evals |->
                    IF evals[k].state \in Open THEN Close(evals[k], "failed") ELSE evals[k]]
    /\ UNCHANGED <<clock, lanes, alert, snaps, outbox, procs, budget>>

(* Alerting is resumed by hand after a restore. *)
ResumeAlerts ==
    /\ site.recovery = "ready" /\ site.paused
    /\ site' = [site EXCEPT !.paused = FALSE]
    /\ UNCHANGED <<clock, lanes, alert, evals, snaps, outbox, procs, budget>>

EvaluatorStep(e) ==
    \/ EvaluateOnce(e)
    \/ ReserveThresholdWindow(e)
    \/ ListOpenThresholdEvaluations(e)
    \/ PromoteThresholdEvaluation(e)
    \/ CreateAlertSnapshot(e)
    \/ FindAlertQuery(e)
    \/ SubmitAlertQuery(e)
    \/ ClaimThresholdEvaluation(e)
    \/ AwaitAlertQuery(e)
    \/ ReadAlertCount(e)
    \/ FailThresholdEvaluation(e)
    \/ CompleteThresholdEvaluation(e)

Next ==
    \/ \E l \in Lanes, k \in Kinds : Accept(l, k)
    \/ \E l \in Lanes : Publish(l)
    \/ Tick
    \/ ClockStepsBack
    \/ AdvanceRetentionFloor
    \/ \E e \in Evaluators : EvaluatorStep(e) \/ Crash(e)
    \/ \E s \in DOMAIN snaps : QueryEnds(s) \/ SnapshotExpires(s)
    \/ \E k \in DOMAIN evals : LeaseLapses(k)
    \/ \E k \in Kinds, b \in BOOLEAN : UpdateAlert(k, b)
    \/ UpdateDestination
    \/ DisableProject
    \/ RevokeProjectKey
    \/ BeginRecoveryVerification
    \/ ActivateRecovery
    \/ ResumeAlerts

Spec == Init /\ [][Next]_vars

(* Evaluators are restarted and run a pass after a pass; publication and   *)
(* queries make progress; the lease of a holder that is gone runs out.     *)
Fairness ==
    /\ WF_vars(\E l \in Lanes : Publish(l))
    /\ \A e \in Evaluators : WF_vars(EvaluatorStep(e))
    /\ WF_vars(\E s \in DOMAIN snaps : QueryEnds(s))
    /\ WF_vars(\E k \in DOMAIN evals : ~Attended(k) /\ LeaseLapses(k))

FairSpec == Spec /\ Fairness

(***************************************************************************)
(* Correctness.                                                            *)
(***************************************************************************)

SnapshotsOf(k) == {s \in DOMAIN snaps : s[1] = k[1] /\ s[2] = k[2]}
Whole(k) == Cardinality(Received(evals[k].kind, evals[k].start, k[2]))
RuleKept(k) == \A s \in SnapshotsOf(k) : snaps[s].kind = evals[k].kind
HistoryKept(k) == \A s \in SnapshotsOf(k) : snaps[s].floor <= evals[k].start
Succeeded == {k \in DOMAIN evals : evals[k].state = "succeeded"}

(* A window that succeeded was counted over every record ever received in *)
(* it, those accepted while it was reserved and published long after       *)
(* included: the barrier ReserveThresholdWindow raises and the cut         *)
(* PromoteThresholdEvaluation waits for leave no record out and none too   *)
(* many.  Left out are a window retention has cut into, which is           *)
(* CountsAreWhole's, and one that an evaluator counts with the rule it had *)
(* read before an operator revised it.                                     *)
CountsAreExact ==
    \A k \in Succeeded :
        RuleKept(k) /\ HistoryKept(k) => evals[k].observed = Whole(k)

(* A window whose records retention has already hidden is not counted:     *)
(* it fails, as a window found expired by PromoteThresholdEvaluation does. *)
CountsAreWhole == \A k \in Succeeded : RuleKept(k) => evals[k].observed = Whole(k)

(* CompleteThresholdEvaluation never steps over a window: what succeeded   *)
(* of a revision is one unbroken run of minutes, for the current revision  *)
(* from its first window to last_completed_end_us.                         *)
WindowsSucceedInOrder ==
    \A rev \in 1..alert.rev :
        LET ends == {k[2] : k \in {k \in Succeeded : k[1] = rev}}
        IN /\ ends # {} => ends = Min(ends)..Max(ends)
           /\ rev = alert.rev =>
                  ends = IF alert.completed = None THEN {} ELSE alert.first..alert.completed

(* A delivery exists for exactly the windows that fired; two windows of a  *)
(* revision that fired are a cooldown apart; and a window that matched and *)
(* did not fire lies in the cooldown of one that did, unless the           *)
(* destination was changed.                                                *)
FiringFollowsCooldown ==
    /\ outbox = {k \in Succeeded : evals[k].fired}
    /\ \A k \in Succeeded :
           LET before == {j \in outbox : j[1] = k[1] /\ j[2] < k[2] /\ k[2] - j[2] < Cooldown}
           IN IF evals[k].fired THEN evals[k].observed >= Threshold /\ before = {}
              ELSE evals[k].observed >= Threshold /\ site.destRev = 1 => before # {}

KeepsEnded ==
    \A k \in DOMAIN evals : evals[k].state \notin Open => evals'[k] = evals[k]

(* An evaluation that has ended keeps its result, whatever an evaluator    *)
(* that lost it, was revised under or was restored under still does.       *)
EndedStays == [][KeepsEnded]_vars

OpenWindow(end) == <<alert.rev, end>> \in DOMAIN evals /\ evals[<<alert.rev, end>>].state \in Open
Expired ==
    \E s \in DOMAIN snaps :
        s[1] = alert.rev /\ (~snaps[s].live \/ snaps[s].rights # site.rights)
(* Alerting is held up by its operators, or by a window that failed. *)
Hindered ==
    \/ site.paused \/ ~site.active
    \/ \E k \in DOMAIN evals : k[1] = alert.rev /\ evals[k].state = "failed"
    \/ \E s \in DOMAIN snaps : s[1] = alert.rev /\ snaps[s].kind # alert.kind

Settled(end) == ~OpenWindow(end) \/ Hindered \/ Expired

(* Every window that was reserved ends, through crashes and takeovers of   *)
(* evaluators, unless alerting is paused, an earlier window of the         *)
(* revision failed, or a snapshot of the revision expired or outlived the  *)
(* project's auth_revision.                                                *)
WindowsEndInTime == \A end \in 1..MaxMinute : OpenWindow(end) ~> Settled(end)

=============================================================================
