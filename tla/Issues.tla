------------------------------- MODULE Issues -------------------------------
(***************************************************************************)
(* The life of an issue and the alerts on it.  Batches of occurrences are  *)
(* accepted on several lanes and published per lane, so that occurrences   *)
(* accepted before a resolution are published after it and the other way   *)
(* round.  Users resolve, ignore and reopen with the revision they last    *)
(* read; evaluators decide once per transition whether a rule on issues    *)
(* sends; the rule is revised meanwhile.                                   *)
(*                                                                         *)
(* One issue is modelled: rows of different issues never meet.  A record   *)
(* is a number; Event gives its event time.  Every SQL transaction is one  *)
(* action.  moment counts accepted batches and dates what happens between  *)
(* them, for the properties.                                               *)
(***************************************************************************)
EXTENDS Integers, Sequences, FiniteSets, SequencesExt, FiniteSetsExt, Folds, TLC

CONSTANTS
    Lanes,          \* lanes of the tenant
    Records,        \* record ids
    Event,          \* event time of a record
    Users,          \* people who change the status
    Evaluators,     \* processes that evaluate alerts
    MaxMinute,      \* bound on the clock
    MaxRevision,    \* bound on alerts.revision
    Cooldown,       \* cooldown_seconds, in minutes
    Scenarios       \* what a behaviour may meet

Budgets == [lanes : SUBSET Lanes, users : SUBSET Users, evaluators : SUBSET Evaluators,
            events : SUBSET {"created", "regressed"}, batches : Nat, size : Nat, dups : Nat, changes : Nat,
            losses : Nat, edits : Nat, crashes : Nat, minutes : 0..MaxMinute]

IssuesAssumption ==
    /\ Lanes \subseteq Nat /\ Records \subseteq Nat
    /\ Event \in [Records -> Nat]
    /\ MaxMinute \in Nat /\ MaxRevision \in Nat /\ Cooldown \in Nat
    /\ Scenarios \subseteq Budgets

VARIABLES
    lanes,          \* accepted batches and published_seq
    moment,         \* number of batches accepted so far
    issue,          \* the row of issues
    occurrences,    \* issue_occurrences
    transitions,    \* issue_transitions, in the order of commit
    users,          \* people with a status change under way
    alert,          \* a rule of kind issue
    decisions,      \* issue_alert_evaluations
    now,            \* the database clock
    procs,          \* the evaluators
    budget          \* what may still happen

issueVars == <<lanes, moment, issue, occurrences, transitions, users>>
alertVars == <<alert, decisions, now, procs>>
vars == <<issueVars, alertVars, budget>>

NoIssue == [status |-> "absent", rev |-> 0, count |-> 0, first |-> <<>>, last |-> <<>>,
            received |-> 0, cut |-> <<>>]
None == -1
Idle == [step |-> "idle"]
Actions == {"resolve", "ignore", "reopen"}

Spend(what) == /\ budget[what] > 0
               /\ budget' = [budget EXCEPT ![what] = @ - 1]

TypeOK ==
    /\ \A l \in Lanes : lanes[l].published \in 0..Len(lanes[l].batches)
    /\ issue.status \in {"absent", "unresolved", "resolved", "ignored"}
    /\ (issue.status = "resolved") = (DOMAIN issue.cut = Lanes)
    /\ alert \in [rev : 1..MaxRevision, enabled : BOOLEAN, events : SUBSET {"created", "regressed"},
                  cut : [Lanes -> Nat], fired : Nat \cup {None}, since : Nat, dest : BOOLEAN]
    /\ now \in 0..MaxMinute

PublishedCut == [l \in Lanes |-> lanes[l].published]
AcceptedCut == [l \in Lanes |-> Len(lanes[l].batches)]

Init ==
    /\ budget \in Scenarios
    /\ lanes = [l \in Lanes |-> [batches |-> <<>>, published |-> 0]]
    /\ moment = 0 /\ now = 0
    /\ issue = NoIssue
    /\ occurrences = {} /\ transitions = <<>> /\ decisions = {}
    /\ users = [u \in Users |-> Idle]
    /\ procs = [e \in Evaluators |-> Idle]
    /\ alert = [rev |-> 1, enabled |-> TRUE, events |-> budget.events,
                cut |-> [l \in Lanes |-> 0], fired |-> None, since |-> 0, dest |-> TRUE]

(***************************************************************************)
(* Accepting and publishing occurrences.                                   *)
(***************************************************************************)

Accepted == UNION {ToSet(lanes[l].batches[i].records) :
                       <<l, i>> \in {p \in Lanes \X (1..moment) : p[2] <= Len(lanes[p[1]].batches)}}
Before(a, b) == Event[a] < Event[b] \/ (Event[a] = Event[b] /\ a < b)

(* A batch of occurrences; a record may come again once it is no longer    *)
(* found as a duplicate.                                                   *)
Accept(l, records) ==
    /\ l \in budget.lanes
    /\ budget.batches > 0 /\ Cardinality(records) <= budget.size
    /\ Cardinality(records \cap Accepted) <= budget.dups
    /\ budget' = [budget EXCEPT !.batches = @ - 1, !.dups = @ - Cardinality(records \cap Accepted)]
    /\ moment' = moment + 1
    /\ lanes' = [lanes EXCEPT ![l].batches =
                     Append(@, [records |-> SetToSortSeq(records, Before), received |-> moment + 1])]
    /\ UNCHANGED <<issue, occurrences, transitions, users, alertVars>>

Tuple(r) == <<Event[r], r>>
LessEventTuple(a, b) == a[1] < b[1] \/ (a[1] = b[1] /\ a[2] < b[2])

(* Mutant: the first batch after the cut does not count as new. *)
RegressesAfterNext(state, o) == state.status = "resolved" /\ o.seq > state.cut[o.lane] + 1

Regresses(state, o) == state.status = "resolved" /\ o.seq > state.cut[o.lane]

(* ApplyUniqueOccurrence. *)
ApplyUniqueOccurrence(state, o) ==
    IF state.status = "absent"
    THEN [status |-> "unresolved", rev |-> 1, count |-> 1, first |-> Tuple(o.rec),
          last |-> Tuple(o.rec), received |-> o.received, cut |-> <<>>]
    ELSE LET seen == [state EXCEPT
                 !.count = @ + 1,
                 !.first = IF LessEventTuple(Tuple(o.rec), @) THEN Tuple(o.rec) ELSE @,
                 !.last = IF LessEventTuple(@, Tuple(o.rec)) THEN Tuple(o.rec) ELSE @,
                 !.received = Max({@, o.received})]
         IN IF Regresses(state, o)
            THEN [seen EXCEPT !.status = "unresolved", !.rev = @ + 1, !.cut = <<>>] ELSE seen

Transition(type, rev, o, op) ==
    [type |-> type, rev |-> rev, rec |-> o.rec, lane |-> o.lane, seq |-> o.seq,
     received |-> o.received, op |-> op, at |-> moment]

(* insertIssueOccurrence: ON CONFLICT(record_id) DO NOTHING. *)
IsNew(occs, o) == \A p \in occs : p.rec # o.rec

(* publishIssueGroup: the occurrences of a batch in the order of their     *)
(* event times.                                                            *)
PublishOne(g, o) ==
    IF ~IsNew(g.occs, o) THEN g
    ELSE LET next == ApplyUniqueOccurrence(g.issue, o)
         IN [issue |-> next, occs |-> g.occs \cup {o},
             trans |-> IF next.rev = g.issue.rev THEN g.trans
                       ELSE Append(g.trans, Transition(IF g.issue.rev = 0 THEN "created" ELSE "regressed",
                                                       next.rev, o, <<>>))]

Publish(l) ==
    LET seq == lanes[l].published + 1
        batch == lanes[l].batches[seq]
        Occurrence(r) == [rec |-> r, lane |-> l, seq |-> seq, received |-> batch.received]
        group == FoldLeft(LAMBDA g, r : PublishOne(g, Occurrence(r)),
                          [issue |-> issue, occs |-> occurrences, trans |-> transitions],
                          batch.records)
    IN /\ lanes[l].published < Len(lanes[l].batches)
       /\ lanes' = [lanes EXCEPT ![l].published = seq]
       /\ issue' = group.issue /\ occurrences' = group.occs /\ transitions' = group.trans
       /\ UNCHANGED <<moment, users, alertVars, budget>>

(***************************************************************************)
(* Changing the status.                                                    *)
(***************************************************************************)

(* A user has read the issue and asks for a change.  The operation id is   *)
(* written with the revision that was read, for the properties.            *)
ReadIssue(u, action) ==
    /\ u \in budget.users
    /\ users[u].step = "idle" /\ issue.status # "absent"
    /\ Spend("changes")
    /\ users' = [users EXCEPT ![u] = [step |-> "change", action |-> action, expected |-> issue.rev,
                                      op |-> <<u, budget.changes, issue.rev>>]]
    /\ UNCHANGED <<lanes, moment, issue, occurrences, transitions, alertVars>>

(* lockAcceptedCut: all lanes are locked against Accept and Publish. *)
LockAcceptedCut == AcceptedCut

CutAfter(action) == IF action = "resolve" THEN LockAcceptedCut ELSE <<>>

StatusOf(action) ==
    CASE action = "resolve" -> "resolved" [] action = "ignore" -> "ignored" [] OTHER -> "unresolved"
TypeOf(action) ==
    CASE action = "resolve" -> "resolved" [] action = "ignore" -> "ignored" [] OTHER -> "reopened"

UpToDate(expected) == issue.rev = expected

(* ChangeIssueStatus, Resolve, Ignore, Reopen and mutateStatus.  The reply *)
(* is lost, and the same operation submitted again, or it arrives.         *)
ChangeIssueStatus(u) ==
    /\ users[u].step = "change"
    /\ LET c == users[u]
           done == \E i \in DOMAIN transitions : transitions[i].op = c.op
           changes == ~done /\ UpToDate(c.expected) /\ issue.status # StatusOf(c.action)
       IN IF changes
          THEN /\ issue' = [issue EXCEPT !.status = StatusOf(c.action), !.rev = @ + 1,
                                         !.cut = CutAfter(c.action)]
               /\ transitions' = Append(transitions, Transition(TypeOf(c.action), issue.rev + 1,
                      [rec |-> None, lane |-> None, seq |-> 0, received |-> 0], c.op))
          ELSE UNCHANGED <<issue, transitions>>
    /\ \/ users' = [users EXCEPT ![u] = Idle] /\ UNCHANGED budget
       \/ Spend("losses") /\ UNCHANGED users
    /\ UNCHANGED <<lanes, moment, occurrences, alertVars>>

(***************************************************************************)
(* Alerts on issues.                                                       *)
(***************************************************************************)

(* The page of rules is read; the revision is the copy's. *)
EvaluateOnce(e) ==
    /\ e \in budget.evaluators
    /\ procs[e].step = "idle" /\ alert.enabled
    /\ procs' = [procs EXCEPT ![e] = [step |-> "list", rev |-> alert.rev]]
    /\ UNCHANGED <<issueVars, alert, decisions, now, budget>>

Eligible(t) == t.type \in alert.events /\ t.seq > alert.cut[t.lane]
Decided(t) == \E d \in decisions : d.rev = alert.rev /\ d.issueRev = t.rev
Pending == {i \in DOMAIN transitions : LET t == transitions[i]
                                       IN t.lane # None /\ Eligible(t) /\ ~Decided(t)}

(* ListPendingIssueTransitions, by lane and batch. *)
ListPendingIssueTransitions(e) ==
    /\ procs[e].step = "list"
    /\ LET Earlier(i, j) ==
               LET a == transitions[i] b == transitions[j]
               IN a.lane < b.lane \/ (a.lane = b.lane /\ a.seq < b.seq)
                    \/ (a.lane = b.lane /\ a.seq = b.seq /\ i < j)
           list == SetToSortSeq(Pending, Earlier)
       IN procs' = [procs EXCEPT ![e] = IF list = <<>> THEN Idle
                        ELSE [step |-> "commit", rev |-> procs[e].rev, list |-> list]]
    /\ UNCHANGED <<issueVars, alert, decisions, now, budget>>

LastEvaluation == Max({0} \cup {d.at : d \in {d \in decisions : d.rev = alert.rev}})

CooledDown(at) == alert.fired = None \/ at - alert.fired >= Cooldown

(* CommitIssueTransition.  A rule that was revised is a conflict and the   *)
(* pass goes on; a transition that is not eligible ends it.                *)
CommitIssueTransition(e) ==
    /\ procs[e].step = "commit"
    /\ LET i == procs[e].list[1]
           t == transitions[i]
           at == Max({now, LastEvaluation})
           decision == IF ~alert.enabled \/ ~alert.dest THEN "disabled"
                       ELSE IF CooledDown(at) THEN "sent" ELSE "cooldown"
           rest == IF Len(procs[e].list) = 1 THEN Idle ELSE [procs[e] EXCEPT !.list = Tail(@)]
       IN IF procs[e].rev # alert.rev \/ Decided(t)
          THEN procs' = [procs EXCEPT ![e] = rest] /\ UNCHANGED <<alert, decisions>>
          ELSE IF ~Eligible(t)
          THEN procs' = [procs EXCEPT ![e] = Idle] /\ UNCHANGED <<alert, decisions>>
          ELSE /\ decisions' = decisions \cup
                      {[rev |-> alert.rev, issueRev |-> t.rev, decision |-> decision, at |-> at]}
               /\ alert' = [alert EXCEPT !.fired = IF decision = "sent" THEN at ELSE @]
               /\ procs' = [procs EXCEPT ![e] = rest]
    /\ UNCHANGED <<issueVars, now, budget>>

Crash(e) ==
    /\ procs[e].step # "idle"
    /\ Spend("crashes")
    /\ procs' = [procs EXCEPT ![e] = Idle]
    /\ UNCHANGED <<issueVars, alert, decisions, now>>

(* lockPublishedCut, under the locks of all lanes. *)
RevisedCut == PublishedCut

UpdateAlert(enabled) ==
    /\ Spend("edits")
    /\ alert.rev < MaxRevision
    /\ enabled => alert.dest
    /\ alert' = [alert EXCEPT !.rev = @ + 1, !.enabled = enabled, !.cut = RevisedCut,
                              !.fired = None, !.since = Len(transitions)]
    /\ UNCHANGED <<issueVars, decisions, now, procs>>

(* The destination is disabled, or enabled again. *)
UpdateDestination ==
    /\ Spend("edits")
    /\ alert' = [alert EXCEPT !.dest = ~@]
    /\ UNCHANGED <<issueVars, decisions, now, procs>>

Tick ==
    /\ Spend("minutes")
    /\ now' = now + 1
    /\ UNCHANGED <<issueVars, alert, decisions, procs>>

EvaluatorStep(e) ==
    EvaluateOnce(e) \/ ListPendingIssueTransitions(e) \/ CommitIssueTransition(e)

Next ==
    \/ \E l \in Lanes, records \in SUBSET Records \ {{}} : Accept(l, records)
    \/ \E l \in Lanes : Publish(l)
    \/ \E u \in Users : ChangeIssueStatus(u) \/ \E a \in Actions : ReadIssue(u, a)
    \/ \E e \in Evaluators : EvaluatorStep(e) \/ Crash(e)
    \/ \E b \in BOOLEAN : UpdateAlert(b)
    \/ UpdateDestination
    \/ Tick

Spec == Init /\ [][Next]_vars

(* Evaluators run pass after pass and are restarted. *)
Fairness == \A e \in Evaluators : WF_vars(EvaluatorStep(e))

FairSpec == Spec /\ Fairness

(***************************************************************************)
(* Correctness.                                                            *)
(***************************************************************************)

LastChange == Max({0} \cup {i \in DOMAIN transitions : transitions[i].type = "resolved"})

(* While the issue is resolved nothing that was accepted after the         *)
(* resolution has been published: the first such occurrence, on whichever  *)
(* lane it comes, turns the issue back.                                    *)
NoRegressionIsLost ==
    issue.status = "resolved" =>
        \A o \in occurrences : o.received <= transitions[LastChange].at

(* Only an occurrence accepted after the resolution regresses the issue:   *)
(* the backlog that was accepted before it and published after it does not.*)
RegressionsAreNew ==
    \A i \in DOMAIN transitions :
        transitions[i].type = "regressed" =>
            LET before == Max({j \in 1..(i - 1) : transitions[j].type = "resolved"})
            IN transitions[i].received > transitions[before].at

(* Whatever the order of publication, and however often a record is        *)
(* published, the issue counts each record once and its first and last     *)
(* seen are the extremes over all of them.                                 *)
SummaryMatchesOccurrences ==
    issue.status # "absent" =>
        LET seen == {o.rec : o \in occurrences}
        IN /\ issue.count = Cardinality(seen)
           /\ issue.first = Tuple(CHOOSE r \in seen : \A s \in seen \ {r} : Before(r, s))
           /\ issue.last = Tuple(CHOOSE r \in seen : \A s \in seen \ {r} : Before(s, r))
           /\ issue.received = Max({o.received : o \in occurrences})

(* Every change of the status is one transition, the transitions number    *)
(* the revisions without a gap, each user operation made at most one, and  *)
(* the revision a user saw is the one that was changed.                    *)
HistoryIsLegal ==
    /\ \A i \in DOMAIN transitions : transitions[i].rev = i
    /\ issue.rev = Len(transitions)
    /\ \A i, j \in DOMAIN transitions :
           transitions[i].op # <<>> /\ transitions[i].op = transitions[j].op => i = j
    /\ \A i \in DOMAIN transitions : transitions[i].op # <<>> => i = transitions[i].op[3] + 1
    /\ \A i \in DOMAIN transitions :
           /\ (i = 1) = (transitions[i].type = "created")
           /\ transitions[i].type = "regressed" => transitions[i - 1].type = "resolved"
           /\ i > 1 => transitions[i].type # transitions[i - 1].type

(* A rule never sends for what was published before it was enabled or      *)
(* revised, and what it sends is a cooldown apart.                         *)
SendsFollowTheRule ==
    /\ \A d \in decisions : d.rev = alert.rev => d.issueRev > alert.since
    /\ \A c, d \in {d \in decisions : d.decision = "sent"} :
           c.rev = d.rev /\ c # d => c.at - d.at >= Cooldown \/ d.at - c.at >= Cooldown

Undecided(n, rev) ==
    /\ budget.evaluators # {} /\ n \in DOMAIN transitions /\ alert.rev = rev /\ n > alert.since
    /\ alert.enabled /\ transitions[n].type \in alert.events
Settled(n, rev) == alert.rev # rev \/ \E d \in decisions : d.rev = rev /\ d.issueRev = n

(* Every transition a rule asks for that is committed while the rule       *)
(* stands is decided, unless the rule is revised or disabled first (where  *)
(* the scenario has an evaluator).                                         *)
TransitionsAreDecided ==
    \A n \in 1..4, rev \in 1..MaxRevision : Undecided(n, rev) ~> Settled(n, rev)
=============================================================================
