--------------------------- MODULE DeliveriesProofs ---------------------------
(***************************************************************************)
(* For any deliveries, workers and limits: a delivery recorded as          *)
(* succeeded was answered, the destination sees a delivery no more often   *)
(* than its attempts allow, and a late answer changes nothing about a      *)
(* delivery that ended.                                                    *)
(***************************************************************************)
EXTENDS Deliveries, FiniteSetTheorems, TLAPS

-----------------------------------------------------------------------------
(* Transmissions under way *)

(* The workers that send a delivery are finitely many. *)
LEMMA SendingFinite ==
    ASSUME DeliveriesAssumption, NEW d
    PROVE  IsFiniteSet(Sending(d)) /\ Cardinality(Sending(d)) \in Nat
<1>1. Sending(d) \subseteq Workers /\ IsFiniteSet(Workers)
    BY DEF Sending, DeliveriesAssumption
<1>2. IsFiniteSet(Sending(d))
    BY <1>1, FS_Subset, Zenon
<1> QED
    BY <1>2, FS_CardinalityType, Zenon

(* A step that transmits nothing, claims nothing and takes no attempt away *)
(* leaves every transmission paid for.                                     *)
LEMMA PayKept ==
    ASSUME DeliveriesAssumption, Inductive, rows' \in [Ids -> Row],
           sent' = sent, retried' = retried,
           \A d \in Ids : rows'[d].attempt = rows[d].attempt /\ Sending(d)' \subseteq Sending(d)
    PROVE  \A d \in Ids : ClaimsPay(d)'
<1> SUFFICES ASSUME NEW d \in Ids
             PROVE  ClaimsPay(d)'
    OBVIOUS
<1>1. Cardinality(Sending(d)) \in Nat /\ IsFiniteSet(Sending(d))
    BY SendingFinite
<1>2. IsFiniteSet(Sending(d)') /\ Cardinality(Sending(d)') <= Cardinality(Sending(d))
    BY <1>1, FS_Subset, Zenon
<1>3. Cardinality(Sending(d)') \in Nat
    BY <1>2, FS_CardinalityType, Zenon
<1>4. Cardinality(Sending(d))' = Cardinality(Sending(d)')
    OBVIOUS
<1>5. /\ sent[d] + Cardinality(Sending(d)) <= MaxAttempts * retried[d] + rows[d].attempt
      /\ sent[d] \in Nat /\ retried[d] \in Nat /\ rows[d].attempt \in Nat /\ MaxAttempts \in Nat
    BY DEF Inductive, Typed, ClaimsPay, Row, DeliveriesAssumption
<1>6. MaxAttempts * retried[d] \in Nat
    BY <1>5
<1>7. sent[d] + Cardinality(Sending(d)') <= MaxAttempts * retried[d] + rows[d].attempt
    BY <1>1, <1>2, <1>3, <1>5, <1>6
<1> QED
    BY <1>4, <1>7 DEF ClaimsPay

(* Such a step keeps the whole invariant if the rows fit. *)
LEMMA QuietStep ==
    ASSUME DeliveriesAssumption, Inductive,
           Typed', RestoresFit', SuccessFits', \A d \in Ids : LeaseFits(rows[d])',
           sent' = sent, retried' = retried,
           \A d \in Ids : rows'[d].attempt = rows[d].attempt,
           \A w \in Workers : procs'[w] = procs[w] \/ procs'[w].step # "send"
    PROVE  Inductive'
<1>1. \A d \in Ids : Sending(d)' \subseteq Sending(d)
    BY DEF Sending
<1>2. \A d \in Ids : ClaimsPay(d)'
    BY <1>1, PayKept DEF Typed
<1> QED
    BY <1>2 DEF Inductive
-----------------------------------------------------------------------------
(* Rows *)

(* Closing a row gives up its lease and nothing else. *)
LEMMA CloseRow ==
    ASSUME NEW r \in Row, NEW state \in Ended \cup {"queued"}
    PROVE  /\ Close(r, state) \in Row /\ LeaseFits(Close(r, state))
           /\ Close(r, state).state = state /\ Close(r, state).attempt = r.attempt
           /\ Close(r, state).fence = r.fence
BY DEF Close, Row, LeaseFits, Ended

(* What a sweep does to a row: it fails one without attempts, or nothing. *)
LEMMA SweptRows ==
    ASSUME rows \in [Ids -> Row], \A d \in Ids : LeaseFits(rows[d])
    PROVE  /\ Swept \in [Ids -> Row]
           /\ \A d \in Ids : /\ LeaseFits(Swept[d]) /\ Swept[d].attempt = rows[d].attempt
                             /\ Swept[d] = rows[d] \/ Swept[d].state = "failed"
                             /\ Swept[d] # rows[d] => rows[d].state \in {"queued", "running"}
<1> SUFFICES ASSUME NEW d \in Ids
             PROVE  /\ Swept[d] \in Row /\ LeaseFits(Swept[d]) /\ Swept[d].attempt = rows[d].attempt
                    /\ Swept[d] = rows[d] \/ Swept[d].state = "failed"
                    /\ Swept[d] # rows[d] => rows[d].state \in {"queued", "running"}
    BY DEF Swept
<1>1. Swept[d] = Close(rows[d], "failed") \/ Swept[d] = rows[d]
    BY DEF Swept
<1>2. Swept[d] # rows[d] => rows[d].state \in {"queued", "running"}
    BY DEF Swept
<1>3. rows[d] \in Row /\ "failed" \in Ended \cup {"queued"}
    BY DEF Ended
<1> QED
    BY <1>1, <1>2, <1>3, CloseRow

(* Canceling closes what is queued or running. *)
LEMMA CanceledRows ==
    ASSUME rows \in [Ids -> Row], \A d \in Ids : LeaseFits(rows[d])
    PROVE  /\ Canceled \in [Ids -> Row]
           /\ \A d \in Ids : /\ LeaseFits(Canceled[d]) /\ Canceled[d].attempt = rows[d].attempt
                             /\ Canceled[d] = rows[d] \/ Canceled[d].state = "canceled"
                             /\ Canceled[d] # rows[d] => rows[d].state \in {"queued", "running"}
<1> SUFFICES ASSUME NEW d \in Ids
             PROVE  /\ Canceled[d] \in Row /\ LeaseFits(Canceled[d])
                    /\ Canceled[d].attempt = rows[d].attempt
                    /\ Canceled[d] = rows[d] \/ Canceled[d].state = "canceled"
                    /\ Canceled[d] # rows[d] => rows[d].state \in {"queued", "running"}
    BY DEF Canceled
<1>1. Canceled[d] = Close(rows[d], "canceled") \/ Canceled[d] = rows[d]
    BY DEF Canceled
<1>2. Canceled[d] # rows[d] => rows[d].state \in {"queued", "running"}
    BY DEF Canceled
<1>3. rows[d] \in Row /\ "canceled" \in Ended \cup {"queued"}
    BY DEF Ended
<1> QED
    BY <1>1, <1>2, <1>3, CloseRow

(* A restore closes what is running, under a new fence. *)
LEMMA RequeuedRow ==
    ASSUME NEW r \in Row, LeaseFits(r), r.fence < MaxFence, DeliveriesAssumption
    PROVE  /\ Requeued(r) \in Row /\ LeaseFits(Requeued(r)) /\ Requeued(r).attempt = r.attempt
           /\ Requeued(r) = r \/ (r.state = "running" /\ Requeued(r).state = "queued")
<1>1. r.fence + 1 \in 0..MaxFence /\ "queued" \in Ended \cup {"queued"}
    BY DEF Row, DeliveriesAssumption
<1>2. CASE r.state = "running"
    BY <1>1, <1>2 DEF Requeued, Close, Row, LeaseFits, Ended
<1>3. CASE r.state # "running"
    BY <1>3 DEF Requeued
<1> QED
    BY <1>2, <1>3

(* One thing less may happen. *)
LEMMA Spent ==
    ASSUME Typed, NEW what \in {"faults", "crashes", "lapses", "retries", "edits", "restores"},
           Spend(what)
    PROVE  /\ budget' \in Budgets
           /\ budget'.restores = IF what = "restores" THEN budget.restores - 1 ELSE budget.restores
BY DEF Typed, Spend, Budgets

-----------------------------------------------------------------------------
(* The steps *)

(* A step that transmits nothing: rows give up leases or get new times,    *)
(* processes stop.                                                         *)
LEMMA TableStep ==
    ASSUME DeliveriesAssumption, Inductive, rows' \in [Ids -> Row],
           \A d \in Ids : /\ LeaseFits(rows'[d]) /\ rows'[d].attempt = rows[d].attempt
                          /\ rows'[d].state = "succeeded" => d \in answered,
           budget' \in Budgets, RestoresFit',
           site' \in [paused : BOOLEAN, restoring : BOOLEAN, gen : Nat, dest : BOOLEAN],
           procs' \in [Workers -> Process],
           \A w \in Workers : procs'[w] = procs[w] \/ procs'[w].step = "idle",
           sent' = sent, answered' = answered, retried' = retried
    PROVE  Inductive'
<1>1. Typed'
    BY DEF Inductive, Typed
<1>2. SuccessFits'
    BY DEF Inductive, SuccessFits
<1>3. \A d \in Ids : LeaseFits(rows[d])'
    OBVIOUS
<1>4. \A w \in Workers : procs'[w] = procs[w] \/ procs'[w].step # "send"
    OBVIOUS
<1>5. \A d \in Ids : rows'[d].attempt = rows[d].attempt
    OBVIOUS
<1> QED
    BY <1>1, <1>2, <1>3, <1>4, <1>5, QuietStep

(* One row is replaced. *)
LEMMA RowStep ==
    ASSUME DeliveriesAssumption, Inductive, NEW e \in Ids, NEW r \in Row,
           rows' = [rows EXCEPT ![e] = r], LeaseFits(r), r.attempt = rows[e].attempt,
           r.state = "succeeded" => rows[e].state = "succeeded",
           budget' \in Budgets, budget'.restores = budget.restores,
           UNCHANGED <<site, procs, sent, answered, retried>>
    PROVE  Inductive'
<1>1. rows \in [Ids -> Row] /\ \A d \in Ids : LeaseFits(rows[d])
    BY DEF Inductive, Typed
<1>2. \A d \in Ids : rows[d].state = "succeeded" => d \in answered
    BY DEF Inductive, SuccessFits
<1>3. /\ rows' \in [Ids -> Row]
      /\ \A d \in Ids : /\ LeaseFits(rows'[d]) /\ rows'[d].attempt = rows[d].attempt
                        /\ rows'[d].state = "succeeded" => d \in answered
    BY <1>1, <1>2
<1>4. /\ RestoresFit'
      /\ site' \in [paused : BOOLEAN, restoring : BOOLEAN, gen : Nat, dest : BOOLEAN]
      /\ procs' \in [Workers -> Process]
    BY DEF Inductive, Typed, RestoresFit
<1> QED
    BY <1>3, <1>4, TableStep

LEMMA FireStep ==
    ASSUME DeliveriesAssumption, Inductive, NEW d \in Ids, Fire(d)
    PROVE  Inductive'
<1> DEFINE c == [rows[d] EXCEPT !.state = "queued", !.due = TRUE]
<1>1. rows \in [Ids -> Row] /\ rows[d] \in Row /\ LeaseFits(rows[d]) /\ budget \in Budgets
    BY DEF Inductive, Typed
<1>2. c \in Row /\ LeaseFits(c) /\ c.attempt = rows[d].attempt /\ c.state = "queued"
    BY <1>1 DEF Fire, Row, LeaseFits, Ended
<1>3. rows' = [rows EXCEPT ![d] = c]
    BY <1>1 DEF Fire, Row
<1>4. UNCHANGED <<site, procs, sent, answered, retried, budget>>
    BY DEF Fire
<1> HIDE DEF c
<1> QED
    BY <1>1, <1>2, <1>3, <1>4, RowStep

LEMMA LeaseLapsesStep ==
    ASSUME DeliveriesAssumption, Inductive, NEW d \in Ids, LeaseLapses(d)
    PROVE  Inductive'
<1> DEFINE c == [rows[d] EXCEPT !.live = FALSE]
<1>1. rows \in [Ids -> Row] /\ rows[d] \in Row /\ LeaseFits(rows[d]) /\ budget \in Budgets
    BY DEF Inductive, Typed
<1>2. c \in Row /\ LeaseFits(c) /\ c.attempt = rows[d].attempt /\ c.state = rows[d].state
    BY <1>1 DEF Row, LeaseFits
<1>3. rows' = [rows EXCEPT ![d] = c] /\ UNCHANGED <<site, procs, sent, answered, retried>>
    BY DEF LeaseLapses
<1>4. Spend("lapses") \/ budget' = budget
    BY DEF LeaseLapses
<1>5. budget' \in Budgets /\ budget'.restores = budget.restores
    <2>1. Spend("lapses") => budget' \in Budgets /\ budget'.restores = budget.restores
        BY Spent DEF Inductive
    <2> QED
        BY <1>1, <1>4, <2>1
<1> HIDE DEF c
<1> QED
    BY <1>2, <1>3, <1>5, RowStep

LEMMA BackoffEndsStep ==
    ASSUME DeliveriesAssumption, Inductive, NEW d \in Ids, BackoffEnds(d)
    PROVE  Inductive'
<1> DEFINE c == [rows[d] EXCEPT !.due = TRUE]
<1>1. rows \in [Ids -> Row] /\ rows[d] \in Row /\ LeaseFits(rows[d]) /\ budget \in Budgets
    BY DEF Inductive, Typed
<1>2. c \in Row /\ LeaseFits(c) /\ c.attempt = rows[d].attempt /\ c.state = rows[d].state
    BY <1>1 DEF Row, LeaseFits
<1>3. rows' = [rows EXCEPT ![d] = c] /\ UNCHANGED <<site, procs, sent, answered, retried, budget>>
    BY DEF BackoffEnds
<1> HIDE DEF c
<1> QED
    BY <1>1, <1>2, <1>3, RowStep

(* An operator's retry pays for as many transmissions as a new delivery.   *)
LEMMA RetryDeliveryStep ==
    ASSUME DeliveriesAssumption, Inductive, NEW d \in Ids, RetryDelivery(d)
    PROVE  Inductive'
<1> DEFINE c == [Close(rows[d], "queued") EXCEPT !.attempt = 0, !.due = TRUE]
<1>1. /\ rows \in [Ids -> Row] /\ rows[d] \in Row /\ budget \in Budgets
      /\ sent \in [Ids -> Nat] /\ retried \in [Ids -> Nat] /\ MaxAttempts \in Nat
    BY DEF Inductive, Typed, DeliveriesAssumption
<1>2. c \in Row /\ LeaseFits(c) /\ c.attempt = 0 /\ c.state = "queued"
    <2>1. 0 \in 0..MaxAttempts
        BY <1>1
    <2> QED
        BY <1>1, <2>1 DEF Close, Row, LeaseFits, Ended
<1>3. /\ rows' = [rows EXCEPT ![d] = c] /\ retried' = [retried EXCEPT ![d] = @ + 1]
      /\ UNCHANGED <<site, procs, sent, answered>> /\ Spend("retries")
    BY DEF RetryDelivery
<1>4. budget' \in Budgets /\ budget'.restores = budget.restores
    BY <1>3, Spent DEF Inductive
<1> HIDE DEF c
<1>5. Typed'
    BY <1>1, <1>2, <1>3, <1>4 DEF Inductive, Typed
<1>6. RestoresFit'
    BY <1>3, <1>4 DEF Inductive, RestoresFit
<1>7. SuccessFits'
    BY <1>1, <1>2, <1>3 DEF Inductive, SuccessFits
<1>8. \A e \in Ids : LeaseFits(rows[e])'
    BY <1>1, <1>2, <1>3 DEF Inductive
<1>9. ASSUME NEW e \in Ids
      PROVE  ClaimsPay(e)'
    <2>1. Cardinality(Sending(e)) \in Nat /\ Sending(e)' = Sending(e)
        BY <1>3, SendingFinite DEF Sending
    <2>2. sent[e] + Cardinality(Sending(e)) <= MaxAttempts * retried[e] + rows[e].attempt
        BY DEF Inductive, ClaimsPay
    <2>3. /\ sent[e] \in Nat /\ retried[e] \in Nat /\ rows[e].attempt \in 0..MaxAttempts
          /\ MaxAttempts * retried[e] \in Nat
          /\ MaxAttempts * (retried[e] + 1) = MaxAttempts * retried[e] + MaxAttempts
        BY <1>1 DEF Row
    <2>4. CASE e = d
        <3>1. rows'[e].attempt = 0 /\ retried'[e] = retried[e] + 1
            BY <1>1, <1>2, <1>3, <2>4
        <3>2. sent[e] + Cardinality(Sending(e)) <= MaxAttempts * (retried[e] + 1) + 0
            BY <1>1, <2>1, <2>2, <2>3
        <3> QED
            BY <1>3, <2>1, <3>1, <3>2 DEF ClaimsPay
    <2>5. CASE e # d
        BY <1>1, <1>3, <2>1, <2>2, <2>5 DEF ClaimsPay
    <2> QED
        BY <2>4, <2>5
<1> QED
    BY <1>5, <1>6, <1>7, <1>8, <1>9 DEF Inductive

-----------------------------------------------------------------------------
(* The workers *)

(* A worker stops, at most one row changes.                                *)
LEMMA StopStep ==
    ASSUME DeliveriesAssumption, Inductive, NEW w \in Workers, NEW gen \in Nat,
           procs' = [procs EXCEPT ![w] = Stopped(gen)],
           rows' \in [Ids -> Row],
           \A d \in Ids : /\ LeaseFits(rows'[d]) /\ rows'[d].attempt = rows[d].attempt
                          /\ rows'[d].state = "succeeded" => d \in answered,
           budget' \in Budgets, budget'.restores = budget.restores,
           UNCHANGED <<site, sent, answered, retried>>
    PROVE  Inductive'
<1>1. procs \in [Workers -> Process]
    BY DEF Inductive, Typed
<1>2. Stopped(gen) \in Process /\ Stopped(gen).step = "idle"
    BY DEF Stopped, Process
<1>3. /\ procs' \in [Workers -> Process]
      /\ \A v \in Workers : procs'[v] = procs[v] \/ procs'[v].step = "idle"
    BY <1>1, <1>2
<1>4. /\ RestoresFit'
      /\ site' \in [paused : BOOLEAN, restoring : BOOLEAN, gen : Nat, dest : BOOLEAN]
    BY DEF Inductive, Typed, RestoresFit
<1> QED
    BY <1>3, <1>4, TableStep

(* The table is left alone.                                                *)
LEMMA RowsAsTheyAre ==
    ASSUME Inductive, rows' = rows
    PROVE  /\ rows' \in [Ids -> Row]
           /\ \A d \in Ids : /\ LeaseFits(rows'[d]) /\ rows'[d].attempt = rows[d].attempt
                             /\ rows'[d].state = "succeeded" => d \in answered
BY DEF Inductive, Typed, SuccessFits

(* A process knows the generation it was started in.                       *)
LEMMA GenerationOf ==
    ASSUME Inductive, NEW w \in Workers
    PROVE  procs[w].gen \in Nat
<1>1. procs[w] \in Process
    BY DEF Inductive, Typed
<1> QED
    BY <1>1 DEF Process

LEMMA HeartbeatRefusedStep ==
    ASSUME DeliveriesAssumption, Inductive, NEW w \in Workers, HeartbeatRefused(w)
    PROVE  Inductive'
<1>1. /\ procs' = [procs EXCEPT ![w] = Stopped(procs[w].gen)]
      /\ rows' = rows /\ UNCHANGED <<site, sent, answered, retried, budget>>
    BY DEF HeartbeatRefused
<1>2. budget \in Budgets /\ procs[w].gen \in Nat
    BY GenerationOf DEF Inductive, Typed
<1> QED
    BY <1>1, <1>2, StopStep, RowsAsTheyAre

LEMMA CrashStep ==
    ASSUME DeliveriesAssumption, Inductive, NEW w \in Workers, Crash(w)
    PROVE  Inductive'
<1>1. /\ procs' = [procs EXCEPT ![w] = Stopped(procs[w].gen)]
      /\ rows' = rows /\ UNCHANGED <<site, sent, answered, retried>> /\ Spend("crashes")
    BY DEF Crash
<1>2. budget' \in Budgets /\ budget'.restores = budget.restores
    BY <1>1, Spent DEF Inductive
<1> QED
    BY <1>1, <1>2, GenerationOf, StopStep, RowsAsTheyAre

LEMMA RestartStep ==
    ASSUME DeliveriesAssumption, Inductive, NEW w \in Workers, Restart(w)
    PROVE  Inductive'
<1>1. /\ procs' = [procs EXCEPT ![w] = Stopped(site.gen)]
      /\ rows' = rows /\ UNCHANGED <<site, sent, answered, retried, budget>>
    BY DEF Restart
<1>2. budget \in Budgets /\ site.gen \in Nat
    BY DEF Inductive, Typed
<1> QED
    BY <1>1, <1>2, StopStep, RowsAsTheyAre

(* An answer counts only for the worker that still has the claim, and only *)
(* a positive one makes a delivery succeed.                                *)
LEMMA FinishDeliveryStep ==
    ASSUME DeliveriesAssumption, Inductive, NEW w \in Workers, FinishDelivery(w)
    PROVE  Inductive'
<1> DEFINE d == procs[w].id
           state == Finished(rows[d], procs[w].outcome)
           c == [Close(rows[d], state) EXCEPT !.due = state # "queued"]
<1>1. /\ procs' = [procs EXCEPT ![w] = Stopped(procs[w].gen)] /\ procs[w].step = "answer"
      /\ UNCHANGED <<site, sent, answered, retried, budget>>
      /\ rows' = rows \/ rows' = [rows EXCEPT ![d] = c]
    BY DEF FinishDelivery
<1>2. /\ budget \in Budgets /\ procs[w] \in Process /\ rows \in [Ids -> Row]
      /\ \A e \in Ids : LeaseFits(rows[e])
    BY DEF Inductive, Typed
<1>3. d \in Ids /\ procs[w].outcome \in Outcomes /\ procs[w].gen \in Nat
    BY <1>1, <1>2 DEF Process
<1>4. /\ state \in Ended \cup {"queued"}
      /\ state = "succeeded" => d \in answered
    BY <1>1, <1>3 DEF Inductive, SuccessFits, Finished, Outcomes, Ended
<1>5. /\ c \in Row /\ LeaseFits(c) /\ c.state = state /\ c.attempt = rows[d].attempt
    <2>1. rows[d] \in Row
        BY <1>2, <1>3
    <2> HIDE DEF state, d
    <2> QED
        BY <1>4, <2>1 DEF Close, Row, LeaseFits, Ended
<1>6. /\ rows' \in [Ids -> Row]
      /\ \A e \in Ids : /\ LeaseFits(rows'[e]) /\ rows'[e].attempt = rows[e].attempt
                        /\ rows'[e].state = "succeeded" => e \in answered
    <2>1. CASE rows' = rows
        BY <2>1, RowsAsTheyAre
    <2>2. CASE rows' = [rows EXCEPT ![d] = c]
        <3>1. \A e \in Ids : rows[e].state = "succeeded" => e \in answered
            BY DEF Inductive, SuccessFits
        <3> HIDE DEF c, state, d
        <3> QED
            BY <1>2, <1>3, <1>4, <1>5, <2>2, <3>1
    <2> QED
        BY <1>1, <2>1, <2>2
<1> HIDE DEF c, state, d
<1> QED
    BY <1>1, <1>2, <1>3, <1>6, StopStep

(* A transmission under way becomes at most one the destination has seen.  *)
LEMMA SendStep ==
    ASSUME DeliveriesAssumption, Inductive, NEW w \in Workers, Send(w)
    PROVE  Inductive'
<1> DEFINE d == procs[w].id
<1>1. PICK outcome \in Outcomes, received \in BOOLEAN :
          /\ outcome = "ok" => received
          /\ IF outcome = "ok" THEN UNCHANGED budget ELSE Spend("faults")
          /\ sent' = [sent EXCEPT ![d] = @ + (IF received THEN 1 ELSE 0)]
          /\ answered' = IF outcome = "ok" THEN answered \cup {d} ELSE answered
          /\ procs' = [procs EXCEPT ![w] = [step |-> "answer", gen |-> @.gen, id |-> d,
                                            fence |-> @.fence, outcome |-> outcome]]
    BY DEF Send
<1> DEFINE p == [step |-> "answer", gen |-> procs[w].gen, id |-> d, fence |-> procs[w].fence,
                 outcome |-> outcome]
<1>2. procs[w].step = "send" /\ UNCHANGED <<rows, site, retried>>
    BY DEF Send
<1>3. /\ budget \in Budgets /\ procs \in [Workers -> Process] /\ rows \in [Ids -> Row]
      /\ sent \in [Ids -> Nat] /\ retried \in [Ids -> Nat] /\ answered \subseteq Ids
      /\ MaxAttempts \in Nat
    BY DEF Inductive, Typed, DeliveriesAssumption
<1>4. d \in Ids /\ procs[w].gen \in Nat /\ procs[w].fence \in Nat
    <2>1. procs[w] \in Process
        BY <1>3
    <2> QED
        BY <1>2, <2>1 DEF Process
<1>5. budget' \in Budgets /\ budget'.restores = budget.restores
    <2>1. Spend("faults") => budget' \in Budgets /\ budget'.restores = budget.restores
        BY Spent DEF Inductive
    <2> QED
        BY <1>1, <1>3, <2>1
<1>6. /\ p \in Process /\ p.step = "answer" /\ p.id = d /\ p.outcome = outcome
      /\ procs' = [procs EXCEPT ![w] = p]
    BY <1>1, <1>4 DEF Process
<1> HIDE DEF p, d
<1>7. Typed'
    <2>1. sent' \in [Ids -> Nat] /\ answered' \subseteq Ids /\ procs' \in [Workers -> Process]
        BY <1>1, <1>3, <1>4, <1>6
    <2> QED
        BY <1>2, <1>5, <2>1 DEF Inductive, Typed
<1>8. RestoresFit'
    BY <1>2, <1>5 DEF Inductive, RestoresFit
<1>9. SuccessFits'
    <2>1. answered \subseteq answered' /\ (outcome = "ok" => d \in answered')
        BY <1>1
    <2>2. \A v \in Workers : procs'[v] = IF v = w THEN p ELSE procs[v]
        BY <1>3, <1>6
    <2> QED
        BY <1>2, <1>6, <2>1, <2>2 DEF Inductive, SuccessFits
<1>10. ASSUME NEW e \in Ids
       PROVE  ClaimsPay(e)'
    <2>1. /\ Sending(e)' = IF e = d THEN Sending(e) \ {w} ELSE Sending(e)
          /\ e = d => w \in Sending(e)
        <3>1. procs[w].id = d
            BY DEF d
        <3>2. \A v \in Workers : procs'[v] = IF v = w THEN p ELSE procs[v]
            BY <1>3, <1>6
        <3>3. Sending(e)' = {v \in Workers : procs'[v].step = "send" /\ procs'[v].id = e}
            BY DEF Sending
        <3>4. \A v : v \in Sending(e)' <=> v \in Sending(e) /\ ~(v = w)
            BY <1>6, <3>2, <3>3 DEF Sending
        <3>5. w \in Sending(e) <=> e = d
            BY <1>2, <3>1 DEF Sending
        <3> QED
            BY <3>4, <3>5
    <2>2. IsFiniteSet(Sending(e)) /\ Cardinality(Sending(e)) \in Nat
        BY SendingFinite
    <2>3. sent[e] + Cardinality(Sending(e)) <= MaxAttempts * retried[e] + rows[e].attempt
        BY DEF Inductive, ClaimsPay
    <2>4. /\ sent[e] \in Nat /\ MaxAttempts * retried[e] \in Nat /\ rows[e].attempt \in Nat
        BY <1>3 DEF Row
    <2>5. CASE e = d
        <3>1. Cardinality(Sending(e) \ {w}) = Cardinality(Sending(e)) - 1
            BY <2>1, <2>2, <2>5, FS_RemoveElement, Zenon
        <3>2. sent'[e] \in Nat /\ sent'[e] <= sent[e] + 1
            BY <1>1, <1>3, <2>5
        <3>3. Cardinality(Sending(e))' = Cardinality(Sending(e)) - 1
            BY <2>1, <2>5, <3>1
        <3> QED
            BY <1>2, <2>2, <2>3, <2>4, <3>2, <3>3 DEF ClaimsPay
    <2>6. CASE e # d
        <3>1. sent'[e] = sent[e] /\ Cardinality(Sending(e))' = Cardinality(Sending(e))
            BY <1>1, <1>3, <2>1, <2>6
        <3> QED
            BY <1>2, <2>3, <3>1 DEF ClaimsPay
    <2> QED
        BY <2>5, <2>6
<1>11. \A e \in Ids : LeaseFits(rows[e])'
    BY <1>2 DEF Inductive
<1> QED
    BY <1>7, <1>8, <1>9, <1>10, <1>11 DEF Inductive

(* A claim takes one attempt and starts one transmission.                  *)
LEMMA ClaimStep ==
    ASSUME DeliveriesAssumption, Inductive, NEW w \in Workers, NEW d \in Ids,
           procs[w].step = "idle", HasAttempts(rows[d]), rows[d].fence < MaxFence,
           rows' = [Swept EXCEPT ![d] = [rows[d] EXCEPT !.state = "running", !.owner = w,
                        !.fence = rows[d].fence + 1, !.attempt = rows[d].attempt + 1, !.live = TRUE]],
           procs' = [procs EXCEPT ![w] =
               [step |-> "send", gen |-> site.gen, id |-> d, fence |-> rows[d].fence + 1]],
           UNCHANGED <<site, sent, answered, retried, budget>>
    PROVE  Inductive'
<1> DEFINE c == [rows[d] EXCEPT !.state = "running", !.owner = w, !.fence = rows[d].fence + 1,
                                !.attempt = rows[d].attempt + 1, !.live = TRUE]
           p == [step |-> "send", gen |-> site.gen, id |-> d, fence |-> rows[d].fence + 1]
<1>1. /\ rows \in [Ids -> Row] /\ rows[d] \in Row /\ procs \in [Workers -> Process]
      /\ sent \in [Ids -> Nat] /\ retried \in [Ids -> Nat] /\ site.gen \in Nat
      /\ \A e \in Ids : LeaseFits(rows[e])
    BY DEF Inductive, Typed
<1>2. rows[d].attempt + 1 \in 0..MaxAttempts /\ rows[d].fence + 1 \in 0..MaxFence /\ w # NoOwner
    BY <1>1 DEF Row, HasAttempts, DeliveriesAssumption
<1>3. c \in Row /\ LeaseFits(c) /\ c.state = "running" /\ c.attempt = rows[d].attempt + 1
    BY <1>1, <1>2 DEF Row, LeaseFits
<1>4. p \in Process /\ p.step = "send" /\ p.id = d
    <2>1. rows[d].fence + 1 \in Nat
        BY <1>2
    <2> QED
        BY <1>1, <2>1 DEF Process
<1>5. rows' = [Swept EXCEPT ![d] = c] /\ procs' = [procs EXCEPT ![w] = p]
    OBVIOUS
<1> HIDE DEF c, p
<1>6. /\ Swept \in [Ids -> Row]
      /\ \A e \in Ids : /\ LeaseFits(Swept[e]) /\ Swept[e].attempt = rows[e].attempt
                        /\ Swept[e] = rows[e] \/ Swept[e].state = "failed"
    BY <1>1, SweptRows
<1>7. /\ rows' \in [Ids -> Row] /\ rows'[d] = c /\ \A e \in Ids \ {d} : rows'[e] = Swept[e]
      /\ procs' \in [Workers -> Process] /\ procs'[w] = p
      /\ \A v \in Workers \ {w} : procs'[v] = procs[v]
    BY <1>1, <1>3, <1>4, <1>5, <1>6
<1>8. Typed'
    BY <1>7 DEF Inductive, Typed
<1>9. RestoresFit'
    BY DEF Inductive, RestoresFit
<1>10. SuccessFits'
    <2>1. \A e \in Ids : rows'[e].state = "succeeded" => rows[e].state = "succeeded"
        BY <1>3, <1>6, <1>7
    <2> QED
        BY <1>4, <1>7, <2>1 DEF Inductive, SuccessFits
<1>11. \A e \in Ids : LeaseFits(rows[e])'
    BY <1>3, <1>6, <1>7
<1>12. ASSUME NEW e \in Ids
       PROVE  ClaimsPay(e)'
    <2>1. Sending(e)' = {v \in Workers : procs'[v].step = "send" /\ procs'[v].id = e}
        BY DEF Sending
    <2>2. w \notin Sending(e)
        BY DEF Sending
    <2>3. IsFiniteSet(Sending(e)) /\ Cardinality(Sending(e)) \in Nat
        BY SendingFinite
    <2>4. sent[e] + Cardinality(Sending(e)) <= MaxAttempts * retried[e] + rows[e].attempt
        BY DEF Inductive, ClaimsPay
    <2>5. sent[e] \in Nat /\ MaxAttempts * retried[e] \in Nat /\ rows[e].attempt \in Nat
        BY <1>1 DEF Row, DeliveriesAssumption
    <2>6. CASE e = d
        <3>1. Sending(e)' = Sending(e) \cup {w}
            BY <1>4, <1>7, <2>1, <2>6 DEF Sending
        <3>2. Cardinality(Sending(e) \cup {w}) = Cardinality(Sending(e)) + 1
            BY <2>2, <2>3, FS_AddElement, Zenon
        <3>3. /\ Cardinality(Sending(e))' = Cardinality(Sending(e)) + 1
              /\ rows'[e].attempt = rows[e].attempt + 1
            BY <1>3, <1>7, <2>6, <3>1, <3>2
        <3> QED
            BY <2>3, <2>4, <2>5, <3>3 DEF ClaimsPay
    <2>7. CASE e # d
        <3>1. Sending(e)' = Sending(e)
            BY <1>4, <1>7, <2>1, <2>2, <2>7 DEF Sending
        <3>2. rows'[e].attempt = rows[e].attempt
            BY <1>6, <1>7, <2>7
        <3> QED
            BY <2>4, <3>1, <3>2 DEF ClaimsPay
    <2> QED
        BY <2>6, <2>7
<1> QED
    BY <1>8, <1>9, <1>10, <1>11, <1>12 DEF Inductive

LEMMA ClaimDeliveryStep ==
    ASSUME DeliveriesAssumption, Inductive, NEW w \in Workers, ClaimDelivery(w)
    PROVE  Inductive'
<1>1. procs[w].step = "idle" /\ UNCHANGED <<site, sent, answered, retried, budget>>
    BY DEF ClaimDelivery
<1>2. /\ rows \in [Ids -> Row] /\ \A d \in Ids : LeaseFits(rows[d])
      /\ procs \in [Workers -> Process] /\ budget \in Budgets
      /\ site \in [paused : BOOLEAN, restoring : BOOLEAN, gen : Nat, dest : BOOLEAN]
    BY DEF Inductive, Typed
<1>3. CASE rows' = Swept /\ UNCHANGED procs
    <2>1. \A d \in Ids : rows[d].state = "succeeded" => d \in answered
        BY DEF Inductive, SuccessFits
    <2>2. /\ rows' \in [Ids -> Row]
          /\ \A d \in Ids : /\ LeaseFits(rows'[d]) /\ rows'[d].attempt = rows[d].attempt
                            /\ rows'[d].state = "succeeded" => d \in answered
        BY <1>2, <1>3, <2>1, SweptRows
    <2>3. RestoresFit'
        BY <1>1 DEF Inductive, RestoresFit
    <2> QED
        BY <1>1, <1>2, <1>3, <2>2, <2>3, TableStep
<1>4. ASSUME NEW d \in Ids, HasAttempts(rows[d]), rows[d].fence < MaxFence,
             rows' = [Swept EXCEPT ![d] = [rows[d] EXCEPT !.state = "running", !.owner = w,
                          !.fence = rows[d].fence + 1, !.attempt = rows[d].attempt + 1, !.live = TRUE]],
             procs' = [procs EXCEPT ![w] =
                 [step |-> "send", gen |-> site.gen, id |-> d, fence |-> rows[d].fence + 1]]
      PROVE  Inductive'
    BY <1>1, <1>4, ClaimStep
<1> QED
    BY <1>3, <1>4 DEF ClaimDelivery

-----------------------------------------------------------------------------
(* Operators and the restore *)

LEMMA CanceledStep ==
    ASSUME DeliveriesAssumption, Inductive, rows' = Canceled \/ rows' = rows,
           budget' \in Budgets, budget'.restores = budget.restores,
           site' \in [paused : BOOLEAN, restoring : BOOLEAN, gen : Nat, dest : BOOLEAN],
           site'.gen = site.gen, site'.restoring = site.restoring,
           UNCHANGED <<procs, sent, answered, retried>>
    PROVE  Inductive'
<1>1. /\ rows \in [Ids -> Row] /\ \A d \in Ids : LeaseFits(rows[d])
      /\ procs \in [Workers -> Process]
    BY DEF Inductive, Typed
<1>2. \A d \in Ids : rows[d].state = "succeeded" => d \in answered
    BY DEF Inductive, SuccessFits
<1>3. /\ rows' \in [Ids -> Row]
      /\ \A d \in Ids : /\ LeaseFits(rows'[d]) /\ rows'[d].attempt = rows[d].attempt
                        /\ rows'[d].state = "succeeded" => d \in answered
    <2>1. CASE rows' = Canceled
        BY <1>1, <1>2, <2>1, CanceledRows
    <2>2. CASE rows' = rows
        BY <2>2, RowsAsTheyAre
    <2> QED
        BY <2>1, <2>2
<1>4. RestoresFit'
    BY DEF Inductive, RestoresFit
<1> QED
    BY <1>1, <1>3, <1>4, TableStep

LEMMA UpdateAlertStep ==
    ASSUME DeliveriesAssumption, Inductive, UpdateAlert
    PROVE  Inductive'
<1>1. /\ rows' = Canceled /\ UNCHANGED <<site, procs, sent, answered, retried>> /\ Spend("edits")
    BY DEF UpdateAlert
<1>2. budget' \in Budgets /\ budget'.restores = budget.restores
    BY <1>1, Spent DEF Inductive
<1>3. site' \in [paused : BOOLEAN, restoring : BOOLEAN, gen : Nat, dest : BOOLEAN] /\ site' = site
    BY <1>1 DEF Inductive, Typed
<1> QED
    BY <1>1, <1>2, <1>3, CanceledStep

LEMMA UpdateDestinationStep ==
    ASSUME DeliveriesAssumption, Inductive, UpdateDestination
    PROVE  Inductive'
<1>1. /\ rows' = Canceled \/ rows' = rows
      /\ UNCHANGED <<procs, sent, answered, retried>> /\ Spend("edits")
      /\ site' = [site EXCEPT !.dest = ~site.dest]
    BY DEF UpdateDestination
<1>2. budget' \in Budgets /\ budget'.restores = budget.restores
    BY <1>1, Spent DEF Inductive
<1>3. /\ site' \in [paused : BOOLEAN, restoring : BOOLEAN, gen : Nat, dest : BOOLEAN]
      /\ site'.gen = site.gen /\ site'.restoring = site.restoring
    BY <1>1 DEF Inductive, Typed
<1> QED
    BY <1>1, <1>2, <1>3, CanceledStep

(* The one restore begins.                                                 *)
LEMMA BeginRecoveryVerificationStep ==
    ASSUME DeliveriesAssumption, Inductive, BeginRecoveryVerification
    PROVE  Inductive'
<1>1. /\ rows' = rows /\ UNCHANGED <<procs, sent, answered, retried>> /\ Spend("restores")
      /\ site' = [site EXCEPT !.paused = TRUE, !.restoring = TRUE]
    BY DEF BeginRecoveryVerification
<1>2. /\ procs \in [Workers -> Process] /\ budget \in Budgets /\ budget.restores \in 0..1
      /\ site \in [paused : BOOLEAN, restoring : BOOLEAN, gen : Nat, dest : BOOLEAN]
    BY DEF Inductive, Typed, Budgets
<1>3. budget' \in Budgets /\ budget'.restores = budget.restores - 1 /\ budget.restores > 0
    <2>1. budget' \in Budgets /\ budget'.restores = budget.restores - 1
        BY <1>1, Spent DEF Inductive
    <2> QED
        BY <1>1, <2>1 DEF Spend
<1>4. /\ site' \in [paused : BOOLEAN, restoring : BOOLEAN, gen : Nat, dest : BOOLEAN]
      /\ site'.gen = site.gen /\ site'.restoring
    BY <1>1, <1>2
<1>5. RestoresFit'
    BY <1>2, <1>3, <1>4 DEF Inductive, RestoresFit
<1> QED
    BY <1>1, <1>2, <1>3, <1>4, <1>5, RowsAsTheyAre, TableStep

(* What was claimed is fenced and due again.                               *)
LEMMA ActivateRecoveryStep ==
    ASSUME DeliveriesAssumption, Inductive, ActivateRecovery
    PROVE  Inductive'
<1>1. /\ UNCHANGED <<procs, sent, answered, retried, budget>> /\ site.restoring
      /\ site' = [site EXCEPT !.restoring = FALSE, !.gen = site.gen + 1]
      /\ rows' = [d \in Ids |-> Requeued(rows[d])] /\ \A d \in Ids : rows[d].fence < MaxFence
    BY DEF ActivateRecovery
<1>2. /\ procs \in [Workers -> Process] /\ budget \in Budgets /\ budget.restores \in 0..1
      /\ site \in [paused : BOOLEAN, restoring : BOOLEAN, gen : Nat, dest : BOOLEAN]
      /\ rows \in [Ids -> Row]
    BY DEF Inductive, Typed, Budgets
<1>3. /\ site' \in [paused : BOOLEAN, restoring : BOOLEAN, gen : Nat, dest : BOOLEAN]
      /\ site'.gen = site.gen + 1 /\ ~site'.restoring
    <2>1. site.gen + 1 \in Nat /\ DOMAIN site = {"paused", "restoring", "gen", "dest"}
        BY <1>2
    <2>2. site'.gen = site.gen + 1 /\ site'.restoring = FALSE
        BY <1>1, <2>1, Zenon
    <2>3. site' \in [paused : BOOLEAN, restoring : BOOLEAN, gen : Nat, dest : BOOLEAN]
        BY <1>1, <1>2, <2>1
    <2> QED
        BY <2>2, <2>3
<1>4. RestoresFit'
    BY <1>1, <1>2, <1>3 DEF Inductive, RestoresFit
<1>5. ASSUME NEW d \in Ids
      PROVE  /\ rows'[d] \in Row /\ LeaseFits(rows'[d]) /\ rows'[d].attempt = rows[d].attempt
             /\ rows'[d].state = "succeeded" => d \in answered
    <2>1. rows[d] \in Row /\ LeaseFits(rows[d]) /\ rows[d].fence < MaxFence
        BY <1>1, <1>2 DEF Inductive
    <2>2. rows[d].state = "succeeded" => d \in answered
        BY DEF Inductive, SuccessFits
    <2>3. rows'[d] = Requeued(rows[d])
        BY <1>1
    <2> QED
        BY <2>1, <2>2, <2>3, RequeuedRow
<1>6. rows' \in [Ids -> Row]
    BY <1>1, <1>5
<1>7. procs' \in [Workers -> Process] /\ budget' \in Budgets
    BY <1>1, <1>2
<1> QED
    BY <1>1, <1>3, <1>4, <1>5, <1>6, <1>7, TableStep

LEMMA ResumeAlertsStep ==
    ASSUME DeliveriesAssumption, Inductive, ResumeAlerts
    PROVE  Inductive'
<1>1. /\ rows' = rows /\ UNCHANGED <<procs, sent, answered, retried, budget>>
      /\ site' = [site EXCEPT !.paused = FALSE]
    BY DEF ResumeAlerts
<1>2. /\ site' \in [paused : BOOLEAN, restoring : BOOLEAN, gen : Nat, dest : BOOLEAN]
      /\ site'.gen = site.gen /\ site'.restoring = site.restoring
    BY <1>1 DEF Inductive, Typed
<1>3. budget' \in Budgets /\ budget'.restores = budget.restores
    BY <1>1 DEF Inductive, Typed
<1> QED
    BY <1>1, <1>2, <1>3, CanceledStep

-----------------------------------------------------------------------------
(* Every step *)

(* Nothing has been fired or sent.                                         *)
LEMMA InitInductive ==
    ASSUME DeliveriesAssumption, Init
    PROVE  Inductive
<1>1. Absent \in Row /\ LeaseFits(Absent) /\ Absent.state = "absent" /\ Absent.attempt = 0
    <2>1. 0 \in 0..MaxFence /\ 0 \in 0..MaxAttempts
        BY DEF DeliveriesAssumption
    <2> QED
        BY <2>1 DEF Absent, Row, LeaseFits
<1>2. Stopped(1) \in Process /\ Stopped(1).step = "idle"
    BY DEF Stopped, Process
<1>3. /\ rows = [d \in Ids |-> Absent] /\ procs = [w \in Workers |-> Stopped(1)]
      /\ sent = [d \in Ids |-> 0] /\ retried = [d \in Ids |-> 0] /\ answered = {}
      /\ site = [paused |-> FALSE, restoring |-> FALSE, gen |-> 1, dest |-> TRUE]
    BY DEF Init
<1>4. budget \in Budgets /\ budget.restores \in 0..1
    BY DEF Init, DeliveriesAssumption, Budgets
<1>5. Typed
    BY <1>1, <1>2, <1>3, <1>4 DEF Typed
<1>6. RestoresFit
    BY <1>3, <1>4 DEF RestoresFit
<1>7. SuccessFits
    BY <1>1, <1>2, <1>3 DEF SuccessFits
<1>8. ASSUME NEW d \in Ids
      PROVE  LeaseFits(rows[d]) /\ ClaimsPay(d)
    <2>1. Sending(d) = {}
        BY <1>2, <1>3 DEF Sending
    <2>2. Cardinality(Sending(d)) = 0
        BY <2>1, FS_EmptySet, Zenon
    <2>3. MaxAttempts * 0 = 0
        BY DEF DeliveriesAssumption
    <2> QED
        BY <1>1, <1>3, <2>2, <2>3 DEF ClaimsPay
<1> QED
    BY <1>5, <1>6, <1>7, <1>8 DEF Inductive

LEMMA NextInductive ==
    ASSUME DeliveriesAssumption, Inductive, [Next]_vars
    PROVE  Inductive'
<1>1. ASSUME NEW d \in Ids, Fire(d) \/ LeaseLapses(d) \/ BackoffEnds(d) \/ RetryDelivery(d)
      PROVE  Inductive'
    BY <1>1, FireStep, LeaseLapsesStep, BackoffEndsStep, RetryDeliveryStep
<1>2. ASSUME NEW w \in Workers, WorkerStep(w) \/ Crash(w)
      PROVE  Inductive'
    BY <1>2, ClaimDeliveryStep, SendStep, FinishDeliveryStep, HeartbeatRefusedStep, RestartStep, CrashStep
       DEF WorkerStep
<1>3. ASSUME \/ UpdateAlert \/ UpdateDestination \/ BeginRecoveryVerification
             \/ ActivateRecovery \/ ResumeAlerts
      PROVE  Inductive'
    BY <1>3, UpdateAlertStep, UpdateDestinationStep, BeginRecoveryVerificationStep,
       ActivateRecoveryStep, ResumeAlertsStep
<1>4. ASSUME UNCHANGED vars
      PROVE  Inductive'
    <2>1. /\ rows' = rows /\ procs' = procs /\ site' = site /\ budget' = budget
          /\ sent' = sent /\ answered' = answered /\ retried' = retried
        BY <1>4 DEF vars
    <2>2. /\ procs \in [Workers -> Process] /\ budget \in Budgets
          /\ site \in [paused : BOOLEAN, restoring : BOOLEAN, gen : Nat, dest : BOOLEAN]
        BY DEF Inductive, Typed
    <2>3. RestoresFit'
        BY <2>1 DEF Inductive, RestoresFit
    <2> QED
        BY <2>1, <2>2, <2>3, RowsAsTheyAre, TableStep
<1> QED
    BY <1>1, <1>2, <1>3, <1>4 DEF Next

(* Rows fit their leases, and every transmission, the ones under way       *)
(* included, was paid for by a claim or an operator's retry.               *)
THEOREM InductiveHolds ==
    ASSUME DeliveriesAssumption
    PROVE  Spec => []Inductive
<1>1. Init => Inductive
    BY InitInductive
<1>2. Inductive /\ [Next]_vars => Inductive'
    BY NextInductive
<1> QED
    BY <1>1, <1>2, PTL DEF Spec

(* Rows, the site and the processes keep their types and bounds.           *)
THEOREM TypeOKHolds ==
    ASSUME DeliveriesAssumption
    PROVE  Spec => []TypeOK
<1>1. Inductive => TypeOK
    <2> SUFFICES ASSUME Inductive
                 PROVE  TypeOK
        OBVIOUS
    <2>1. /\ rows \in [Ids -> Row] /\ procs \in [Workers -> Process] /\ budget.restores \in 0..1
          /\ site \in [paused : BOOLEAN, restoring : BOOLEAN, gen : Nat, dest : BOOLEAN]
        BY DEF Inductive, Typed, Budgets
    <2>2. \A d \in Ids : /\ rows[d].state \in Ended \cup {"absent", "queued", "running"}
                         /\ (rows[d].state = "running") = (rows[d].owner # NoOwner)
                         /\ rows[d].fence \in 0..MaxFence /\ rows[d].attempt \in 0..MaxAttempts
        BY <2>1 DEF Inductive, LeaseFits, Row
    <2>3. site.gen \in 1..2
        BY <2>1 DEF Inductive, RestoresFit
    <2>4. site \in [paused : BOOLEAN, restoring : BOOLEAN, gen : 1..2, dest : BOOLEAN]
        BY <2>1, <2>3
    <2>5. ASSUME NEW w \in Workers
          PROVE  procs[w].step \in {"idle", "send", "answer"}
        <3>1. procs[w] \in Process
            BY <2>1
        <3> QED
            BY <3>1 DEF Process
    <2> QED
        BY <2>2, <2>4, <2>5 DEF TypeOK
<1> QED
    BY <1>1, InductiveHolds, PTL

(* A delivery recorded as succeeded was answered with 2xx, and the         *)
(* destination sees it no more often than MaxAttempts times per round of   *)
(* attempts, through lost leases, crashes, late answers and a restore.     *)
THEOREM SendsAreBoundedHolds ==
    ASSUME DeliveriesAssumption
    PROVE  Spec => []SendsAreBounded
<1>1. Inductive => SendsAreBounded
    <2> SUFFICES ASSUME Inductive, NEW d \in Ids
                 PROVE  /\ rows[d].state = "succeeded" => d \in answered
                        /\ sent[d] <= MaxAttempts * (1 + retried[d])
        BY DEF SendsAreBounded
    <2>1. rows[d].state = "succeeded" => d \in answered
        BY DEF Inductive, SuccessFits
    <2>2. Cardinality(Sending(d)) \in Nat
        BY SendingFinite
    <2>3. sent[d] + Cardinality(Sending(d)) <= MaxAttempts * retried[d] + rows[d].attempt
        BY DEF Inductive, ClaimsPay
    <2>4. /\ sent[d] \in Nat /\ retried[d] \in Nat /\ MaxAttempts \in Nat
          /\ rows[d].attempt \in 0..MaxAttempts
        BY DEF Inductive, Typed, Row, DeliveriesAssumption
    <2>5. MaxAttempts * (1 + retried[d]) = MaxAttempts * retried[d] + MaxAttempts
        BY <2>4
    <2>6. MaxAttempts * retried[d] \in Nat
        BY <2>4
    <2> QED
        BY <2>1, <2>2, <2>3, <2>4, <2>5, <2>6
<1> QED
    BY <1>1, InductiveHolds, PTL

-----------------------------------------------------------------------------
(* What ended stays *)

LEMMA NextKeepsEnded ==
    ASSUME DeliveriesAssumption, Inductive, [Next]_vars
    PROVE  KeepsEnded
<1>1. /\ rows \in [Ids -> Row] /\ \A d \in Ids : LeaseFits(rows[d])
      /\ retried \in [Ids -> Nat] /\ procs \in [Workers -> Process]
    BY DEF Inductive, Typed
<1>2. ASSUME \A d \in Ids : rows'[d] # rows[d] => rows[d].state \in {"absent", "queued", "running"}
      PROVE  KeepsEnded
    BY <1>2 DEF KeepsEnded
<1>3. ASSUME NEW d \in Ids, Fire(d) \/ LeaseLapses(d) \/ BackoffEnds(d)
      PROVE  KeepsEnded
    <2>1. rows[d].state \in {"absent", "queued", "running"}
        BY <1>1, <1>3 DEF Fire, LeaseLapses, BackoffEnds, LeaseFits
    <2>2. \A e \in Ids : e # d => rows'[e] = rows[e]
        BY <1>1, <1>3 DEF Fire, LeaseLapses, BackoffEnds
    <2> QED
        BY <1>2, <2>1, <2>2
<1>4. ASSUME NEW d \in Ids, RetryDelivery(d)
      PROVE  KeepsEnded
    <2>1. rows[d].state = "failed" /\ retried'[d] = retried[d] + 1
        BY <1>1, <1>4 DEF RetryDelivery
    <2>2. \A e \in Ids : e # d => rows'[e] = rows[e]
        BY <1>1, <1>4 DEF RetryDelivery
    <2> QED
        BY <2>1, <2>2 DEF KeepsEnded
<1>5. ASSUME NEW w \in Workers, ClaimDelivery(w)
      PROVE  KeepsEnded
    <2>1. \A d \in Ids : Swept[d] # rows[d] => rows[d].state \in {"queued", "running"}
        BY <1>1, SweptRows
    <2>2. CASE rows' = Swept
        BY <1>2, <2>1, <2>2
    <2>3. ASSUME NEW d \in Ids, NEW c, Claimable(rows[d]), rows' = [Swept EXCEPT ![d] = c]
          PROVE  KeepsEnded
        <3>1. rows[d].state \in {"queued", "running"}
            BY <2>3 DEF Claimable
        <3>2. Swept \in [Ids -> Row]
            BY <1>1, SweptRows
        <3>3. \A e \in Ids : e # d => rows'[e] = Swept[e]
            BY <2>3, <3>2
        <3> QED
            BY <1>2, <2>1, <3>1, <3>3
    <2> QED
        BY <1>5, <2>2, <2>3 DEF ClaimDelivery
<1>6. ASSUME NEW w \in Workers, FinishDelivery(w)
      PROVE  KeepsEnded
    <2>1. procs[w] \in Process /\ procs[w].step = "answer"
        BY <1>1, <1>6 DEF FinishDelivery
    <2>2. procs[w].id \in Ids
        BY <2>1 DEF Process
    <2>3. CASE rows' = rows
        BY <1>2, <2>3
    <2>4. CASE Holds(w) /\ \E c : rows' = [rows EXCEPT ![procs[w].id] = c]
        <3>1. rows[procs[w].id].state = "running"
            BY <2>4 DEF Holds
        <3>2. \A e \in Ids : e # procs[w].id => rows'[e] = rows[e]
            BY <1>1, <2>4
        <3> QED
            BY <1>2, <3>1, <3>2
    <2> QED
        BY <1>6, <2>3, <2>4 DEF FinishDelivery
<1>7. ASSUME NEW w \in Workers, Send(w) \/ HeartbeatRefused(w) \/ Restart(w) \/ Crash(w)
      PROVE  KeepsEnded
    <2>1. rows' = rows
        BY <1>7 DEF Send, HeartbeatRefused, Restart, Crash
    <2> QED
        BY <1>2, <2>1
<1>8. ASSUME UpdateAlert \/ UpdateDestination
      PROVE  KeepsEnded
    <2>1. rows' = Canceled \/ rows' = rows
        BY <1>8 DEF UpdateAlert, UpdateDestination
    <2>2. \A d \in Ids : Canceled[d] # rows[d] => rows[d].state \in {"queued", "running"}
        BY <1>1, CanceledRows
    <2> QED
        BY <1>2, <2>1, <2>2
<1>9. ASSUME ActivateRecovery
      PROVE  KeepsEnded
    <2>1. \A d \in Ids : rows'[d] = Requeued(rows[d])
        BY <1>9 DEF ActivateRecovery
    <2>2. \A d \in Ids : Requeued(rows[d]) # rows[d] => rows[d].state = "running"
        BY DEF Requeued
    <2> QED
        BY <1>2, <2>1, <2>2
<1>10. ASSUME BeginRecoveryVerification \/ ResumeAlerts \/ UNCHANGED vars
       PROVE  KeepsEnded
    <2>1. rows' = rows
        BY <1>10 DEF BeginRecoveryVerification, ResumeAlerts, vars
    <2> QED
        BY <1>2, <2>1
<1> QED
    BY <1>3, <1>4, <1>5, <1>6, <1>7, <1>8, <1>9, <1>10 DEF Next, WorkerStep

(* Succeeded and canceled are final, and failed is left only by an         *)
(* operator's retry, whatever answer arrives late.                         *)
THEOREM EndedStaysHolds ==
    ASSUME DeliveriesAssumption
    PROVE  Spec => EndedStays
<1>1. Inductive /\ [Next]_vars => [KeepsEnded]_vars
    BY NextKeepsEnded
<1> QED
    BY <1>1, InductiveHolds, PTL DEF Spec, EndedStays
=============================================================================
