----------------------------- MODULE Acceptance -----------------------------
(***************************************************************************)
(* Durable acceptance of SDK requests: an upload workflow writes a sealed  *)
(* batch to a journal object under a registered intent, and the Accept     *)
(* transaction assigns the lane sequence, deduplicates source events and   *)
(* writes the receipts.  A transaction is as many steps as it takes locks: *)
(* PostgreSQL runs it at READ COMMITTED, so every statement sees what      *)
(* others committed meanwhile.                                             *)
(*                                                                         *)
(* One tenant (nothing in the program changes a tenant row).  The project, *)
(* key, scrub and config revisions of a project are one number, authority, *)
(* and disabling a project or revoking its key changes it.  A workflow may *)
(* get a request another one has: Accept is written for same-ID retries.   *)
(***************************************************************************)
EXTENDS Naturals, FiniteSets, Sequences, FiniteSetsExt

CONSTANTS
    Requests,           \* acceptance ids
    LaneOf, ProjectOf,  \* lane and project of a request
    Content,            \* its candidates: [source, hash], in journal order
    Lanes, Projects,
    Events,             \* source event keys, ordered as numbers
    NoEvent,            \* a candidate without a source event id
    Workflows,
    MaxUploadAttempts,
    MaxRevision, MaxGeneration, MaxLapses       \* bounds

AcceptanceAssumption ==
    /\ LaneOf \in [Requests -> Lanes] /\ ProjectOf \in [Requests -> Projects]
    /\ IsFiniteSet(Requests) /\ IsFiniteSet(Events)
    /\ Events \subseteq Nat /\ NoEvent \notin Events
    /\ \A r \in Requests :
          /\ Content[r] \in Seq(Range(Content[r]))
          /\ \A c \in Range(Content[r]) : c.source \in Events \cup {NoEvent}
    /\ {MaxUploadAttempts, MaxRevision, MaxGeneration} \subseteq Nat \ {0}
    /\ MaxLapses \in Nat

VARIABLES
    generation,     \* installation storage generation
    authority,      \* current revision of a project
    snapshot,       \* revision a request was admitted under, 0 before
    wf,             \* workflows: control point, batch, commands left, attempt, journals
    tx,             \* open transaction of a workflow: locks and claims
    results,        \* what a workflow answered to a command
    intents,        \* journal intents
    objects,        \* journals in the object store
    log,            \* ingest_batches of a lane
    receipts,       \* receipts rows
    dedupe,         \* event_dedupe rows
    lapses          \* times a dedupe row outlived its retention

database == <<intents, log, receipts, dedupe>>
environment == <<generation, authority, snapshot, lapses>>
vars == <<generation, authority, snapshot, wf, tx, results, intents, objects,
          log, receipts, dedupe, lapses>>

Journals == Workflows \X (1..(MaxUploadAttempts * Cardinality(Requests)))
NoReceipt == [lane |-> "none", seq |-> 0, classes |-> <<>>]
NoTx == [phase |-> "none", keys |-> {}, won |-> {}]
NoKey == [state |-> "absent", hash |-> "none"]
NoIntent == [state |-> "absent", live |-> FALSE, gen |-> 0, requests |-> {}]
Classes == {"accepted", "duplicate", "conflict"}

(* Types of the workflows, the transactions and the tables. *)
TypeOK ==
    /\ generation \in 1..MaxGeneration
    /\ authority \in [Projects -> 1..MaxRevision]
    /\ snapshot \in [Requests -> 0..MaxRevision]
    /\ \A w \in Workflows :
          /\ wf[w].at \in {"idle", "register", "put", "mark", "begin", "authorize",
                           "lane", "keys", "confirm", "done"}
          /\ wf[w].todo \subseteq Requests /\ wf[w].attempt \in 0..MaxUploadAttempts
          /\ wf[w].uploads \in 0..(MaxUploadAttempts * Cardinality(Requests))
          /\ tx[w].phase \in {"none", "begun", "shared", "lane", "limbo"}
          /\ tx[w].won \subseteq tx[w].keys /\ tx[w].keys \subseteq Events
    /\ results \in [Workflows -> [Requests -> {"none", "receipt", "rejected", "failed"}]]
    /\ \A j \in Journals :
          intents[j].state \in {"absent", "pending", "uploaded", "referenced", "deleting", "deleted"}
    /\ objects \subseteq Journals
    /\ \A r \in Requests : receipts[r].seq # 0 =>
          receipts[r].lane \in Lanes /\ receipts[r].classes \in Seq(Classes)
    /\ \A e \in Events : dedupe[e].state \in {"absent", "live", "expired"}
    /\ lapses \in [Events -> 0..MaxLapses]

Init ==
    /\ generation = 1
    /\ authority = [p \in Projects |-> 1]
    /\ snapshot = [r \in Requests |-> 0]
    /\ wf = [w \in Workflows |->
                [at |-> "idle", order |-> <<>>, todo |-> {}, attempt |-> 0, uploads |-> 0, gen |-> 1]]
    /\ tx = [w \in Workflows |-> NoTx]
    /\ results = [w \in Workflows |-> [r \in Requests |-> "none"]]
    /\ intents = [j \in Journals |-> NoIntent]
    /\ objects = {}
    /\ log = [l \in Lanes |-> <<>>]
    /\ receipts = [r \in Requests |-> NoReceipt]
    /\ dedupe = [e \in Events |-> NoKey]
    /\ lapses = [e \in Events |-> 0]

-----------------------------------------------------------------------------
(* What a workflow carries and what its transaction locks *)

Lane(w) == LaneOf[CHOOSE r \in wf[w].todo : TRUE]
Journal(w) == <<w, wf[w].uploads>>
Accepted(r) == receipts[r].seq # 0

EventsOf(r) == {c.source : c \in Range(Content[r])} \ {NoEvent}
KeysOf(w) == UNION {EventsOf(r) : r \in wf[w].todo}

HoldsInstallation(w) == tx[w].phase # "none"

(* Mutant: the project rows are read without FOR SHARE. *)
HoldsNoProject(w, p) == FALSE

HoldsProject(w, p) ==
    tx[w].phase \in {"shared", "lane", "limbo"} /\ \E r \in wf[w].todo : ProjectOf[r] = p

HoldsLane(w, l) == tx[w].phase \in {"lane", "limbo"} /\ Lane(w) = l
HoldsKey(w, e) == e \in tx[w].keys
HoldsIntent(w, j) == tx[w].phase = "limbo" /\ Journal(w) = j

(* The commands left keep the order of the batch. *)
Precedes(w, r, q) ==
    \E i, k \in DOMAIN wf[w].order : i < k /\ wf[w].order[i] = r /\ wf[w].order[k] = q

(* Command r has the batch's first candidate of event e. *)
IsFirst(w, r, e) ==
    /\ r \in wf[w].todo /\ e \in EventsOf(r)
    /\ \A q \in wf[w].todo : Precedes(w, q, r) => e \notin EventsOf(q)

(* Mutant: the keys are claimed in the order of the journal. *)
KeyInJournalOrder(w) ==
    LET left == KeysOf(w) \ tx[w].keys
        r == CHOOSE r \in wf[w].todo : /\ EventsOf(r) \cap left # {}
                                      /\ \A q \in wf[w].todo : Precedes(w, q, r) => EventsOf(q) \cap left = {}
    IN  Content[r][Min({k \in DOMAIN Content[r] : Content[r][k].source \in left})].source

(* selectCandidates sorts the keys before it claims them. *)
NextKey(w) == Min(KeysOf(w) \ tx[w].keys)

-----------------------------------------------------------------------------
(* Environment: admission, project administration, restore, time *)

(* An API handler reads the project's revisions and builds the command. *)
Admit(r) ==
    /\ snapshot[r] = 0
    /\ snapshot' = [snapshot EXCEPT ![r] = authority[ProjectOf[r]]]
    /\ UNCHANGED <<generation, authority, wf, tx, results, objects, database, lapses>>

(* CreateProjectKey, RevokeProjectKey, UpdateProject: the row update waits *)
(* for the share locks.                                                    *)
ChangeAuthority(p) ==
    /\ authority[p] < MaxRevision
    /\ \A w \in Workflows : ~HoldsProject(w, p)
    /\ authority' = [authority EXCEPT ![p] = @ + 1]
    /\ UNCHANGED <<generation, snapshot, wf, tx, results, objects, database, lapses>>

(* ActivateRecovery locks the installation row FOR UPDATE. *)
ActivateRecovery ==
    /\ generation < MaxGeneration
    /\ \A w \in Workflows : ~HoldsInstallation(w)
    /\ generation' = generation + 1
    /\ UNCHANGED <<authority, snapshot, wf, tx, results, objects, database, lapses>>

ExpireKey(e) ==
    /\ dedupe[e].state = "live" /\ lapses[e] < MaxLapses
    /\ dedupe' = [dedupe EXCEPT ![e] = [state |-> "expired", hash |-> @.hash]]
    /\ lapses' = [lapses EXCEPT ![e] = @ + 1]
    /\ UNCHANGED <<generation, authority, snapshot, wf, tx, results, intents, objects,
                   log, receipts>>

(* runRetentionCleanup holds every lane of the tenant when it deletes      *)
(* expired keys; the rest of it is about published batches.                *)
RunRetentionCleanup ==
    /\ \A w \in Workflows, l \in Lanes : ~HoldsLane(w, l)
    /\ \E gone \in (SUBSET {e \in Events : dedupe[e].state = "expired"}) \ {{}} :
          dedupe' = [e \in Events |-> IF e \in gone THEN NoKey ELSE dedupe[e]]
    /\ UNCHANGED <<environment, wf, tx, results, intents, objects, log, receipts>>

ExpireIntent(j) ==
    /\ intents[j].state \in {"pending", "uploaded"} /\ intents[j].live
    /\ intents' = [intents EXCEPT ![j].live = FALSE]
    /\ UNCHANGED <<environment, wf, tx, results, objects, log, receipts, dedupe>>

ClaimGCObject(j) ==
    /\ intents[j].state \in {"pending", "uploaded"} /\ ~intents[j].live
    /\ \A w \in Workflows : ~HoldsIntent(w, j)
    /\ intents' = [intents EXCEPT ![j].state = "deleting"]
    /\ UNCHANGED <<environment, wf, tx, results, objects, log, receipts, dedupe>>

DeleteObject(j) ==
    /\ intents[j].state = "deleting"
    /\ intents' = [intents EXCEPT ![j].state = "deleted"]
    /\ objects' = objects \ {j}
    /\ UNCHANGED <<environment, wf, tx, results, log, receipts, dedupe>>

-----------------------------------------------------------------------------
(* The workflow: Process, processSubset, uploadAttempt *)

(* The batcher hands over commands of one lane, in any order.  A process   *)
(* keeps the storage generation it was started with.                       *)
Start(w) ==
    /\ wf[w].at = "idle"
    /\ \E S \in SUBSET {r \in Requests : snapshot[r] # 0} :
          /\ S # {} /\ \A r, q \in S : LaneOf[r] = LaneOf[q]
          /\ \E order \in Bijection(1..Cardinality(S), S), g \in 1..generation :
                wf' = [wf EXCEPT ![w] = [at |-> "register", order |-> order, todo |-> S,
                                         attempt |-> 1, uploads |-> 0, gen |-> g]]
    /\ UNCHANGED <<environment, tx, results, objects, database>>

(* Answer the commands R, then run processSubset on the others. *)
AnswerAndContinue(w, R, answer) ==
    LET rest == wf[w].todo \ R
    IN  /\ results' = [results EXCEPT ![w] =
                          [r \in Requests |-> IF r \in R THEN answer ELSE @[r]]]
        /\ wf' = [wf EXCEPT ![w].todo = IF rest = {} THEN @ ELSE rest,
                            ![w].at = IF rest = {} THEN "done" ELSE "register",
                            ![w].attempt = IF rest = {} THEN @ ELSE 1]
        /\ tx' = [tx EXCEPT ![w] = NoTx]

(* Answer every command left; the transaction is rolled back. *)
Finish(w, answer) == AnswerAndContinue(w, wf[w].todo, answer)

Goto(w, at) == wf' = [wf EXCEPT ![w].at = at]

RegisterJournalIntent(w) ==
    LET j == <<w, wf[w].uploads + 1>>
    IN  /\ wf[w].at = "register" /\ wf[w].gen = generation
        /\ intents' = [intents EXCEPT ![j] = [state |-> "pending", live |-> TRUE,
                                              gen |-> generation, requests |-> wf[w].todo]]
        /\ wf' = [wf EXCEPT ![w].at = "put", ![w].uploads = @ + 1]
        /\ UNCHANGED <<environment, tx, results, objects, log, receipts, dedupe>>

PutStream(w) ==
    /\ wf[w].at = "put"
    /\ objects' = objects \cup {Journal(w)}
    /\ Goto(w, "mark")
    /\ UNCHANGED <<environment, tx, results, database>>

MarkJournalIntentUploaded(w) ==
    /\ wf[w].at = "mark"
    /\ intents[Journal(w)].state = "pending" /\ intents[Journal(w)].live
    /\ intents' = [intents EXCEPT ![Journal(w)].state = "uploaded"]
    /\ Goto(w, "begin")
    /\ UNCHANGED <<environment, tx, results, objects, log, receipts, dedupe>>

(* Mutant: one attempt more than MaxUploadAttempts. *)
UploadFailsInclusive(w) ==
    /\ wf[w].at \in {"register", "put", "mark"} /\ wf[w].attempt <= MaxUploadAttempts
    /\ wf' = [wf EXCEPT ![w].at = "register", ![w].attempt = @ + 1]
    /\ UNCHANGED <<environment, tx, results, objects, database>>

(* Any step of an upload attempt may fail, a PUT with or without storing   *)
(* the object: another attempt, or the answer when the attempts or the     *)
(* workflow's time are used up.                                            *)
UploadFails(w) ==
    /\ wf[w].at \in {"register", "put", "mark"}
    /\ \/ UNCHANGED objects
       \/ wf[w].at = "put" /\ objects' = objects \cup {Journal(w)}
    /\ \/ Finish(w, "failed")
       \/ /\ wf[w].attempt < MaxUploadAttempts
          /\ wf' = [wf EXCEPT ![w].at = "register", ![w].attempt = @ + 1]
          /\ UNCHANGED <<tx, results>>
    /\ UNCHANGED <<environment, database>>

-----------------------------------------------------------------------------
(* The Accept transaction *)

(* lookupAndClassify: all commands have receipts, or some, or none. *)
LookupAndClassify(w, none) ==
    IF \E r \in wf[w].todo : Accepted(r)
    THEN AnswerAndContinue(w, {r \in wf[w].todo : Accepted(r)}, "receipt")
    ELSE none /\ UNCHANGED results

(* Share locks on the installation and the tenant, first lookup. *)
BeginAccept(w) ==
    /\ wf[w].at = "begin"
    /\ IF wf[w].gen # generation
       THEN Finish(w, "failed")
       ELSE LookupAndClassify(w, /\ tx' = [tx EXCEPT ![w].phase = "begun"]
                                 /\ Goto(w, "authorize"))
    /\ UNCHANGED <<environment, objects, database>>

(* The first command whose snapshot differs from an earlier one of its project. *)
Mixed(w) ==
    LET differs == {r \in wf[w].todo :
                       \E q \in wf[w].todo : /\ Precedes(w, q, r) /\ ProjectOf[q] = ProjectOf[r]
                                            /\ snapshot[q] # snapshot[r]}
    IN  {r \in differs : \A q \in differs : ~Precedes(w, q, r)}

(* lockProjectAuthorities: a command that disagrees with the batch is      *)
(* rejected before the rows are read.                                      *)
Rejected(w) ==
    IF Mixed(w) # {} THEN Mixed(w)
    ELSE {r \in wf[w].todo : snapshot[r] # authority[ProjectOf[r]]}

LockProjectAuthorities(w) ==
    /\ wf[w].at = "authorize"
    /\ IF Rejected(w) # {}
       THEN AnswerAndContinue(w, Rejected(w), "rejected")
       ELSE /\ tx' = [tx EXCEPT ![w].phase = "shared"]
            /\ Goto(w, "lane") /\ UNCHANGED results
    /\ UNCHANGED <<environment, objects, database>>

(* Mutant: no second lookup once the lane is locked. *)
LockLaneWithoutLookup(w) ==
    /\ wf[w].at = "lane"
    /\ \A v \in Workflows \ {w} : ~HoldsLane(v, Lane(w))
    /\ tx' = [tx EXCEPT ![w].phase = "lane"] /\ Goto(w, "keys")
    /\ UNCHANGED <<environment, results, objects, database>>

(* The lane row FOR UPDATE, then the lookup again. *)
LockLane(w) ==
    /\ wf[w].at = "lane"
    /\ \A v \in Workflows \ {w} : ~HoldsLane(v, Lane(w))
    /\ LookupAndClassify(w, tx' = [tx EXCEPT ![w].phase = "lane"] /\ Goto(w, "keys"))
    /\ UNCHANGED <<environment, objects, database>>

(* INSERT ... ON CONFLICT DO NOTHING waits for a transaction that has the  *)
(* key; the transaction wins it if there is no row or an expired one.      *)
ClaimKey(w) ==
    LET e == NextKey(w)
    IN  /\ wf[w].at = "keys" /\ KeysOf(w) # tx[w].keys
        /\ \A v \in Workflows \ {w} : ~HoldsKey(v, e)
        /\ tx' = [tx EXCEPT ![w].keys = @ \cup {e},
                            ![w].won = IF dedupe[e].state = "live" THEN @ ELSE @ \cup {e}]
        /\ UNCHANGED <<environment, wf, results, objects, database>>

(* Hash of the first candidate of event e in the batch. *)
WinnerHash(w, e) ==
    LET r == CHOOSE r \in wf[w].todo : IsFirst(w, r, e)
    IN  Content[r][Min({k \in DOMAIN Content[r] : Content[r][k].source = e})].hash

(* The candidate <<r, k>> is the first one of its event in the batch. *)
IsWinner(w, r, k) ==
    LET e == Content[r][k].source
    IN  /\ IsFirst(w, r, e)
        /\ \A n \in 1..(k - 1) : Content[r][n].source # e

(* Mutant: candidates are compared with the batch's first one, not with    *)
(* the row that was there.                                                 *)
ClassAgainstWinner(w, r, k) ==
    LET c == Content[r][k]
    IN  IF c.source = NoEvent \/ (c.source \in tx[w].won /\ IsWinner(w, r, k))
        THEN "accepted"
        ELSE IF c.hash = WinnerHash(w, c.source) THEN "duplicate" ELSE "conflict"

(* Mutant: the first candidate of the batch is taken as new. *)
ClassWinnerAccepted(w, r, k) ==
    LET c == Content[r][k]
    IN  IF c.source = NoEvent \/ IsWinner(w, r, k)
        THEN "accepted"
        ELSE IF c.hash = WinnerHash(w, c.source) THEN "duplicate" ELSE "conflict"

(* selectCandidates: the winner of a won key is new; the others repeat it, *)
(* or repeat the row that was there.                                       *)
Class(w, r, k) ==
    LET c == Content[r][k]
        kept == IF c.source \in tx[w].won THEN WinnerHash(w, c.source)
                ELSE dedupe[c.source].hash
    IN  IF c.source = NoEvent \/ (c.source \in tx[w].won /\ IsWinner(w, r, k))
        THEN "accepted"
        ELSE IF c.hash = kept THEN "duplicate" ELSE "conflict"

(* Mutant: the intent's expiry and state are not looked at. *)
AnyJournal(w) == intents[Journal(w)].gen = wf[w].gen

(* lockJournalIntent *)
JournalUsable(w) ==
    LET i == intents[Journal(w)]
    IN  i.state = "uploaded" /\ i.live /\ i.gen = wf[w].gen

(* What the transaction writes: batch, receipts, keys and intent. *)
Write(w) ==
    LET l == Lane(w)
        seq == Len(log[l]) + 1
        receipt(r) == [lane |-> l, seq |-> seq,
                       classes |-> [k \in 1..Len(Content[r]) |-> Class(w, r, k)]]
    IN  /\ log' = [log EXCEPT ![l] = Append(@, [journal |-> Journal(w), requests |-> wf[w].todo])]
        /\ receipts' = [r \in Requests |-> IF r \in wf[w].todo THEN receipt(r) ELSE receipts[r]]
        /\ dedupe' = [e \in Events |-> IF e \in tx[w].won
                         THEN [state |-> "live", hash |-> WinnerHash(w, e)] ELSE dedupe[e]]
        /\ intents' = [intents EXCEPT ![Journal(w)].state = "referenced"]

Ready(w) == wf[w].at = "keys" /\ KeysOf(w) = tx[w].keys

Commit(w) ==
    /\ Ready(w)
    /\ IF JournalUsable(w) THEN Write(w) /\ Finish(w, "receipt")
       ELSE Finish(w, "failed") /\ UNCHANGED database
    /\ UNCHANGED <<environment, objects>>

(* The connection breaks at COMMIT: the server has committed, has rolled   *)
(* back, or will do one of the two.                                        *)
CommitReplyLost(w) ==
    /\ Ready(w) /\ JournalUsable(w)
    /\ Goto(w, "confirm")
    /\ \/ Write(w) /\ tx' = [tx EXCEPT ![w] = NoTx]
       \/ UNCHANGED database /\ tx' = [tx EXCEPT ![w] = NoTx]
       \/ UNCHANGED database /\ tx' = [tx EXCEPT ![w].phase = "limbo"]
    /\ UNCHANGED <<environment, results, objects>>

Settle(w) ==
    /\ tx[w].phase = "limbo"
    /\ Write(w) \/ UNCHANGED database
    /\ tx' = [tx EXCEPT ![w] = NoTx]
    /\ UNCHANGED <<environment, wf, results, objects>>

(* Mutant: an unknown commit is taken for a commit. *)
ConfirmUnknown(w) ==
    /\ wf[w].at = "confirm"
    /\ results' = [results EXCEPT ![w] =
                      [r \in Requests |-> IF r \in wf[w].todo THEN "receipt" ELSE @[r]]]
    /\ Goto(w, "done")
    /\ UNCHANGED <<environment, tx, objects, database>>

(* confirmAfterCommitError: a lookup outside the transaction. *)
Confirm(w) ==
    LET all == \A r \in wf[w].todo : Accepted(r)
    IN  /\ wf[w].at = "confirm"
        /\ \E answer \in {"failed"} \cup IF all THEN {"receipt"} ELSE {} :
              results' = [results EXCEPT ![w] =
                             [r \in Requests |-> IF r \in wf[w].todo THEN answer ELSE @[r]]]
        /\ Goto(w, "done")
        /\ UNCHANGED <<environment, tx, objects, database>>

(* A deadlock, a serialization failure or a row that went away in between: *)
(* rollback, and the transaction is run again.                             *)
RetryAccept(w) ==
    /\ wf[w].at \in {"authorize", "lane", "keys"}
    /\ Goto(w, "begin") /\ tx' = [tx EXCEPT ![w] = NoTx]
    /\ UNCHANGED <<environment, results, objects, database>>

(* Another statement fails, the attempts are used up, or the workflow's    *)
(* time is up: rollback.                                                   *)
AcceptFails(w) ==
    /\ wf[w].at \in {"begin", "authorize", "lane", "keys"}
    /\ Finish(w, "failed")
    /\ UNCHANGED <<environment, objects, database>>

-----------------------------------------------------------------------------
WorkflowStep(w) ==
    \/ Start(w) \/ RegisterJournalIntent(w) \/ PutStream(w) \/ MarkJournalIntentUploaded(w)
    \/ UploadFails(w) \/ BeginAccept(w) \/ LockProjectAuthorities(w) \/ LockLane(w)
    \/ ClaimKey(w) \/ Commit(w) \/ CommitReplyLost(w) \/ Settle(w) \/ Confirm(w)
    \/ RetryAccept(w) \/ AcceptFails(w)

Next ==
    \/ \E r \in Requests : Admit(r)
    \/ \E p \in Projects : ChangeAuthority(p)
    \/ ActivateRecovery
    \/ \E e \in Events : ExpireKey(e)
    \/ RunRetentionCleanup
    \/ \E j \in Journals : ExpireIntent(j) \/ ClaimGCObject(j) \/ DeleteObject(j)
    \/ \E w \in Workflows : WorkflowStep(w)

Spec == Init /\ [][Next]_vars

-----------------------------------------------------------------------------
Batch(l, n) == log[l][n]
Batches == UNION {{l} \X DOMAIN log[l] : l \in Lanes}

(* A request is in one batch at most, whatever workflows retried it, and   *)
(* has a receipt exactly when it is: the receipt names that batch.         *)
ReceiptsMatchBatches ==
    \A r \in Requests :
        LET in == {b \in Batches : r \in Batch(b[1], b[2]).requests}
        IN  in = IF Accepted(r) THEN {<<receipts[r].lane, receipts[r].seq>>} ELSE {}

(* The journal of an accepted batch is stored, is referenced, and holds    *)
(* exactly the batch's requests: no collection, expiry or later attempt    *)
(* takes it away.                                                          *)
BatchesAreDurable ==
    \A b \in Batches :
        LET j == Batch(b[1], b[2]).journal
        IN  /\ j \in objects /\ intents[j].state = "referenced"
            /\ intents[j].requests = Batch(b[1], b[2]).requests

(* "No ACK after an unconfirmed commit": success is answered only for a    *)
(* request that has a receipt, also after a lost commit reply.             *)
AcknowledgedIsAccepted ==
    \A w \in Workflows, r \in Requests : results[w][r] = "receipt" => Accepted(r)

Occurrences(e, class) ==
    {o \in UNION {{r} \X DOMAIN Content[r] : r \in {q \in Requests : Accepted(q)}} :
        /\ Content[o[1]][o[2]].source = e
        /\ receipts[o[1]].classes[o[2]] = class}

(* A source event is accepted once, across lanes and concurrent            *)
(* transactions, until its dedupe row outlives the retention.              *)
AcceptedOnce ==
    \A e \in Events : Cardinality(Occurrences(e, "accepted")) <= 1 + lapses[e]

(* What is counted as a duplicate repeats an accepted candidate with the   *)
(* same hash, and a conflict one with another hash.                        *)
ClassesAreTrue ==
    \A e \in Events :
        LET hash(o) == Content[o[1]][o[2]].hash
            accepted == Occurrences(e, "accepted")
        IN  /\ \A o \in Occurrences(e, "duplicate") : \E a \in accepted : hash(a) = hash(o)
            /\ \A o \in Occurrences(e, "conflict") : \E a \in accepted : hash(a) # hash(o)

AcceptsUnderCurrentAuthority ==
    \A r \in Requests : ~Accepted(r) /\ Accepted(r)' =>
        /\ snapshot[r] = authority[ProjectOf[r]]
        /\ intents[log'[LaneOf[r]][receipts'[r].seq].journal].gen = generation

(* A request is accepted only under the project revisions and the storage  *)
(* generation that are current when its transaction commits.               *)
AcceptedUnderCurrentAuthority == [][AcceptsUnderCurrentAuthority]_vars

WaitsFor(w, v) ==
    \/ wf[w].at = "lane" /\ HoldsLane(v, Lane(w))
    \/ wf[w].at = "keys" /\ KeysOf(w) # tx[w].keys /\ HoldsKey(v, NextKey(w))

(* No transactions wait for each other: lanes come before keys, and keys   *)
(* are claimed in one order.                                               *)
NoLockCycle ==
    \A S \in (SUBSET Workflows) \ {{}} : \E w \in S : \A v \in S \ {w} : ~WaitsFor(w, v)

(* "If auth becomes stale ... rebuild still-valid requests": a request is  *)
(* rejected only if its own snapshot is out of date.                       *)
RejectedWereStale ==
    [][\A w \in Workflows, r \in Requests :
          results[w][r] = "none" /\ results'[w][r] = "rejected"
             => snapshot[r] # authority[ProjectOf[r]]]_vars

-----------------------------------------------------------------------------
(* The inductive invariant *)

Points == {"idle", "register", "put", "mark", "begin", "authorize", "lane", "keys", "confirm", "done"}
Answers == {"none", "receipt", "rejected", "failed"}
Workflow == [at : Points, order : Seq(Requests), todo : SUBSET Requests,
             attempt : 0..MaxUploadAttempts, uploads : Nat, gen : Nat]
Transaction == [phase : {"none", "begun", "shared", "lane", "limbo"},
                keys : SUBSET Events, won : SUBSET Events]
Intent == [state : {"absent", "pending", "uploaded", "referenced", "deleting", "deleted"},
           live : BOOLEAN, gen : Nat, requests : SUBSET Requests]

(* The types of the variables, as sets. *)
Typed ==
    /\ generation \in Nat /\ authority \in [Projects -> Nat] /\ snapshot \in [Requests -> Nat]
    /\ wf \in [Workflows -> Workflow] /\ tx \in [Workflows -> Transaction]
    /\ results \in [Workflows -> [Requests -> Answers]]
    /\ intents \in [Journals -> Intent] /\ objects \subseteq Journals
    /\ log \in [Lanes -> Seq([journal : Journals, requests : SUBSET Requests])]
    /\ receipts \in [Requests -> [lane : Lanes \cup {"none"}, seq : Nat, classes : Seq(Classes)]]
    /\ DOMAIN dedupe = Events /\ lapses \in [Events -> Nat]

(* The bounds of the model, and the states of a dedupe row. *)
Bounded ==
    /\ generation \in 1..MaxGeneration /\ authority \in [Projects -> 1..MaxRevision]
    /\ snapshot \in [Requests -> 0..MaxRevision] /\ lapses \in [Events -> 0..MaxLapses]
    /\ \A e \in Events : dedupe[e].state \in {"absent", "live", "expired"}

(* How far a workflow has come tells what its transaction holds. *)
PhaseFits(w) ==
    LET at == wf[w].at
        phase == tx[w].phase
    IN  /\ at = "authorize" => phase = "begun"
        /\ at = "lane" => phase = "shared"
        /\ at = "keys" => phase = "lane"
        /\ at \in {"confirm", "done"} => phase \in {"none", "limbo"}
        /\ at \in {"idle", "register", "put", "mark", "begin"} => phase = "none"
        /\ phase \notin {"lane", "limbo"} => tx[w].keys = {} /\ tx[w].won = {}

(* The commands left are of one lane, were admitted, and have each one     *)
(* place in the batch.                                                     *)
BatchFits(w) ==
    LET order == wf[w].order
    IN  /\ \A i, k \in DOMAIN order : order[i] = order[k] => i = k
        /\ \A r \in wf[w].todo : snapshot[r] # 0 /\ \E i \in DOMAIN order : order[i] = r
        /\ \A r, q \in wf[w].todo : LaneOf[r] = LaneOf[q]
        /\ wf[w].at # "idle" => wf[w].todo # {}

(* Every subset that is run again is smaller, so the journals suffice. *)
UploadsFit(w) ==
    LET spent == MaxUploadAttempts * (Cardinality(Requests) - Cardinality(wf[w].todo))
    IN  IF wf[w].at = "idle" THEN wf[w].uploads = 0
        ELSE wf[w].uploads + (IF wf[w].at = "register" THEN 1 ELSE 0) <= spent + wf[w].attempt

(* The workflow's own journal, from its registration to its commit. *)
Uploading(w) ==
    wf[w].at \in {"put", "mark", "begin", "authorize", "lane", "keys", "confirm"}
        \/ tx[w].phase = "limbo"

JournalFits(w) ==
    LET i == intents[Journal(w)]
    IN  /\ Uploading(w) => Journal(w) \in Journals /\ i.requests = wf[w].todo
        /\ wf[w].at = "mark" /\ i.state = "pending" => Journal(w) \in objects
        /\ tx[w].phase = "limbo" => i.state = "uploaded" /\ i.gen = wf[w].gen
        /\ \A j \in Journals : j[1] = w /\ j[2] > wf[w].uploads => intents[j].state = "absent"

(* What the rows that a transaction has locked say while it has them. *)
LocksFit(w) ==
    LET phase == tx[w].phase
    IN  /\ phase # "none" => wf[w].gen = generation
        /\ phase \in {"shared", "lane", "limbo"} =>
              \A r \in wf[w].todo : snapshot[r] = authority[ProjectOf[r]]
        /\ phase \in {"lane", "limbo"} => \A r \in wf[w].todo : ~Accepted(r)

(* Keys are claimed in ascending order, and won unless a live row is there, *)
(* which stays while the transaction has the lane.                         *)
KeysFit(w) ==
    /\ tx[w].keys \subseteq KeysOf(w) /\ tx[w].won \subseteq tx[w].keys
    /\ \A e \in tx[w].keys, f \in KeysOf(w) \ tx[w].keys : e < f
    /\ \A e \in tx[w].won : dedupe[e].state # "live"
    /\ \A e \in tx[w].keys \ tx[w].won : dedupe[e].state # "absent"
    /\ tx[w].phase = "limbo" => tx[w].keys = KeysOf(w)

(* No two transactions have the same lane or the same key. *)
Exclusive(w, v) ==
    /\ \A l \in Lanes : ~(HoldsLane(w, l) /\ HoldsLane(v, l))
    /\ tx[w].keys \cap tx[v].keys = {}

(* A receipt names the one batch with its request. *)
ReceiptFits(r) ==
    /\ Accepted(r) => /\ receipts[r].lane = LaneOf[r]
                      /\ receipts[r].seq \in DOMAIN log[LaneOf[r]]
    /\ \A l \in Lanes : \A n \in DOMAIN log[l] :
          r \in log[l][n].requests <=> Accepted(r) /\ receipts[r].lane = l /\ receipts[r].seq = n

(* The accepted occurrences of an event: one for the live row, and one for *)
(* each row that lapsed.                                                   *)
CountFits(e) ==
    Cardinality(Occurrences(e, "accepted")) <= lapses[e] + (IF dedupe[e].state = "live" THEN 1 ELSE 0)

(* The row of an event has the hash of an accepted occurrence. *)
RowFits(e) ==
    dedupe[e].state # "absent" =>
        \E o \in Occurrences(e, "accepted") : Content[o[1]][o[2]].hash = dedupe[e].hash

(* What every step of the write path preserves. *)
Inductive ==
    /\ Typed
    /\ \A w \in Workflows : /\ PhaseFits(w) /\ BatchFits(w) /\ UploadsFit(w) /\ JournalFits(w)
                            /\ LocksFit(w) /\ KeysFit(w)
    /\ \A w, v \in Workflows : w # v => Exclusive(w, v)
    /\ \A j \in Journals : intents[j].state \in {"uploaded", "referenced"} => j \in objects
    /\ BatchesAreDurable
    /\ \A r \in Requests : ReceiptFits(r)
    /\ AcknowledgedIsAccepted
    /\ \A e \in Events : CountFits(e) /\ RowFits(e)
    /\ ClassesAreTrue
=============================================================================
