-------------------------------- MODULE Live --------------------------------
(***************************************************************************)
(* The live tail (GET /v1/live): an API process polls the published cut of *)
(* every lane and sends the rows that match a filter as server-sent events *)
(* whose ids are signed checkpoints; the browser reconnects with the last  *)
(* id it received.                                                         *)
(*                                                                         *)
(* A poll reads one snapshot and is one action, with every event it sends: *)
(* an event waits on the wire, and a broken connection loses the suffix    *)
(* that is still there.  A batch is the sequence of its records, TRUE for  *)
(* one the filter and the received-time bound accept.  Heartbeats carry no *)
(* id and are left out, and so is retention, which only hides more rows.   *)
(***************************************************************************)
EXTENDS Integers, Sequences, FiniteSets, SequencesExt

CONSTANTS
    Lanes,              \* lane numbers
    Batches,            \* contents a published batch may have
    LivePageRows,       \* rows of a page
    LiveMaximumRows,    \* rows of a rate window
    MaxInt32,           \* the ordinal that stands for a whole batch
    MaxSeq,             \* bound on the batches of a lane
    Scenarios           \* what a behaviour may meet

Budgets == [catchup : BOOLEAN, publishes : Nat, merges : Nat, breaks : Nat, restores : Nat, expiries : Nat,
            failures : Nat, refreshes : Nat]

LiveAssumption ==
    /\ Lanes \subseteq Nat /\ IsFiniteSet(Lanes)
    /\ Batches \subseteq Seq(BOOLEAN)
    /\ LivePageRows \in Nat \ {0} /\ LiveMaximumRows \in Nat /\ MaxSeq \in Nat
    /\ \A b \in Batches : Len(b) <= MaxInt32
    /\ Scenarios \subseteq Budgets

VARIABLES
    generation, \* installations.storage_generation
    lanes,      \* the published batches of each lane
    files,      \* the analytics files of each lane, by the sequences they hold
    backup,     \* the lanes and files a backup holds
    stream,     \* the handler of the open connection
    wire,       \* the events sent and not yet received
    client,     \* the browser
    budget      \* what may still happen

vars == <<generation, lanes, files, backup, stream, wire, client, budget>>
catalogVars == <<generation, lanes, files, backup>>

NoCuts == <<>>
NoToken == [gen |-> 0, pos |-> <<>>]
NoStream == [on |-> FALSE, refused |-> FALSE]
Cuts == [l \in Lanes |-> Len(lanes[l])]
Spend(field) == budget[field] > 0 /\ budget' = [budget EXCEPT ![field] = @ - 1]

-----------------------------------------------------------------------------
(* Positions.                                                              *)

At(seq, ordinal) == [seq |-> seq, ord |-> ordinal]
Before(p, q) == p.seq < q.seq \/ (p.seq = q.seq /\ p.ord < q.ord)

InitialLivePositions(cuts, catchup) ==
    [l \in Lanes |-> IF ~catchup /\ cuts[l] > 0 THEN At(cuts[l], MaxInt32) ELSE At(0, -1)]

RowsOf(rows, l) == SelectSeq(rows, LAMBDA r : r.lane = l)
PositionOf(row) == At(row.seq, row.ord)

\* AdvanceLivePositions refuses rows that do not advance strictly within the
\* cut, and a complete page whose cut is behind the position.
Advances(current, cuts, rows, complete) ==
    \A l \in Lanes :
        LET path == <<current[l]>> \o [i \in 1..Len(RowsOf(rows, l)) |-> PositionOf(RowsOf(rows, l)[i])]
        IN /\ \A i \in 1..Len(path) - 1 : Before(path[i], path[i + 1])
           /\ \A r \in ToSet(RowsOf(rows, l)) : r.seq \in 1..cuts[l]
           /\ complete => path[Len(path)].seq <= cuts[l]

\* Mutant: the positions move only when the interval is complete.
AdvanceWhenComplete(current, cuts, rows, complete) ==
    [l \in Lanes |-> IF complete /\ cuts[l] > 0 THEN At(cuts[l], MaxInt32) ELSE current[l]]

AdvanceLivePositions(current, cuts, rows, complete) ==
    [l \in Lanes |->
        IF complete /\ cuts[l] > 0 THEN At(cuts[l], MaxInt32)
        ELSE IF RowsOf(rows, l) = <<>> THEN current[l]
        ELSE PositionOf(Last(RowsOf(rows, l)))]

LiveMinimumSequences(positions) ==
    [l \in Lanes |-> positions[l].seq + (IF positions[l].ord = MaxInt32 THEN 1 ELSE 0)]

-----------------------------------------------------------------------------
(* A page: the files the catalog lists, the rows of them after the         *)
(* positions and within the cuts, and the first of those in order.         *)

Listed(l, minimum) == {f \in files[l] : f[2] >= minimum}

\* The published rows of a lane that match the request.
LaneRows(l) ==
    UNION {{[gen |-> lanes[l][s].gen, lane |-> l, seq |-> s, ord |-> o - 1] :
               o \in {o \in DOMAIN lanes[l][s].rows : lanes[l][s].rows[o]}} : s \in DOMAIN lanes[l]}

Matching(positions, cuts) ==
    UNION {{r \in LaneRows(l) :
               /\ r.seq <= cuts[l]
               /\ Before(positions[l], PositionOf(r))
               /\ \E f \in Listed(l, LiveMinimumSequences(positions)[l]) : r.seq \in f[1]..f[2]} : l \in Lanes}

Precedes(a, b) == a.lane < b.lane \/ (a.lane = b.lane /\ Before(PositionOf(a), PositionOf(b)))
InOrder(rows) ==
    [i \in 1..Cardinality(rows) |-> CHOOSE r \in rows : Cardinality({q \in rows : Precedes(q, r)}) = i - 1]

\* finalizeLiveResult reads one row more than a page; that row makes the page
\* incomplete and is not sent.
PageOf(positions, cuts) ==
    IF positions = InitialLivePositions(cuts, FALSE) THEN [rows |-> <<>>, complete |-> TRUE]
    ELSE LET all == InOrder(Matching(positions, cuts))
         IN [rows |-> SubSeq(all, 1, IF Len(all) < LivePageRows THEN Len(all) ELSE LivePageRows),
             complete |-> Len(all) <= LivePageRows]

-----------------------------------------------------------------------------
(* Checkpoints and events.                                                 *)

\* validLiveClaims
Signable(positions) == \A l \in Lanes : positions[l].seq = 0 => positions[l].ord = -1
Token(positions) == [gen |-> stream.gen, pos |-> positions]

RowsEvent(rows, positions) == [type |-> "rows", id |-> Token(positions), rows |-> rows]
CheckpointEvent(positions) == [type |-> "checkpoint", id |-> Token(positions), rows |-> <<>>]
EndEvent(type) == [type |-> type, id |-> NoToken, rows |-> <<>>]
When(condition, event) == IF condition THEN <<event>> ELSE <<>>

\* The handler returns after a last event, and the response ends.
Finish(events) ==
    /\ wire' = wire \o events
    /\ stream' = NoStream

\* VerifyLive: the checkpoint is of this storage generation and has not
\* expired.
Resumable(token, expired) == token.gen = generation /\ ~expired

\* LiveBudget.Observe: the age of an incomplete drain, then the rows of the
\* window, which starts again when it is over.
Window(rolled, rows) == (IF rolled THEN 0 ELSE stream.window) + Len(rows)

OverRate(rolled, rows) == Window(rolled, rows) > LiveMaximumRows

\* The cuts an incomplete page captured stay the target until it is drained.
Target == IF stream.drain = NoCuts THEN Cuts ELSE stream.drain

\* Mutant: a drain that is complete keeps its target.
DrainKept(page, cuts) == cuts

DrainAfter(page, cuts) == IF page.complete THEN NoCuts ELSE cuts

-----------------------------------------------------------------------------
(* The browser opens a connection; livePreflight takes a snapshot, accepts *)
(* the checkpoint or starts at the current cut, or at the catchup start.   *)

Connect ==
    /\ client.mode = "waiting" /\ ~stream.on /\ wire = <<>>
    /\ \E expired \in BOOLEAN :
        /\ expired => client.resume # NoToken
        /\ IF expired THEN Spend("expiries") ELSE UNCHANGED budget
        /\ client' = [client EXCEPT !.mode = "open"]
        /\ LET from == IF client.resume # NoToken THEN client.resume.pos
                       ELSE InitialLivePositions(Cuts, client.catchup)
               first == client.resume = NoToken /\ ~client.catchup
           IN IF client.resume # NoToken /\ ~Resumable(client.resume, expired)
              THEN Finish(<<EndEvent("resync_required")>>)
              ELSE /\ stream' = [on |-> Signable(from), gen |-> generation, started |-> first, pos |-> from,
                                 drain |-> NoCuts, window |-> 0, refused |-> ~Signable(from)]
                   /\ wire' = When(first /\ Signable(from), [type |-> "checkpoint", rows |-> <<>>,
                                                              id |-> [gen |-> generation, pos |-> from]])
    /\ UNCHANGED catalogVars

(* One round of Live's loop that reads a page: the budgets are observed    *)
(* before anything is sent, then the positions advance, then the rows and  *)
(* the checkpoint go out under tokens of the new positions.                *)

\* A refusal of AdvanceLivePositions or of the signature closes the
\* connection without a last event.
Send(page, cuts, rolled, refresh) ==
    LET pos == AdvanceLivePositions(stream.pos, cuts, page.rows, page.complete)
        legal == Advances(stream.pos, cuts, page.rows, page.complete) /\ Signable(pos)
        rows == page.rows # <<>>
        check == page.complete /\ (pos # stream.pos \/ ~(stream.started \/ rows))
    IN /\ refresh => legal /\ stream.started /\ ~rows /\ ~check
       /\ wire' = wire \o When(legal /\ rows, RowsEvent(page.rows, pos))
                       \o When(legal /\ (check \/ refresh), CheckpointEvent(pos))
       /\ stream' = [stream EXCEPT
              !.on = legal, !.refused = ~legal, !.pos = pos, !.started = @ \/ rows \/ check,
              !.drain = DrainAfter(page, cuts),
              !.window = Window(rolled, page.rows)]

\* At most MaxWire events wait: the handler writes to a socket of bounded
\* buffers.
MaxWire == 1

Poll ==
    /\ stream.on /\ Len(wire) <= MaxWire
    /\ \E page \in {PageOf(stream.pos, Target)} : \E rolled, refresh \in BOOLEAN :
        /\ stream.window = 0 => rolled
        /\ IF refresh THEN Spend("refreshes") ELSE UNCHANGED budget
        /\ IF OverRate(rolled, page.rows)
           THEN ~refresh /\ Finish(<<EndEvent("resync_required")>>)
           ELSE Send(page, Target, rolled, refresh)
    /\ UNCHANGED <<catalogVars, client>>

\* A drain that lasts too long, or a page above the pending byte limit: the
\* client is told to start again, before its checkpoint moves.
PollOverLimit ==
    /\ stream.on
    /\ \/ stream.drain # NoCuts
       \/ PageOf(stream.pos, Target).rows # <<>>
    /\ Finish(<<EndEvent("resync_required")>>)
    /\ Spend("failures")
    /\ UNCHANGED <<catalogVars, client>>

\* A dependency fails or the session lost its authority: an error event, or
\* an HTTP error that the browser retries when nothing was sent yet.
PollFails ==
    /\ stream.on
    /\ Finish(IF stream.started THEN <<EndEvent("error")>> ELSE <<>>)
    /\ Spend("failures")
    /\ UNCHANGED <<catalogVars, client>>

-----------------------------------------------------------------------------
(* The browser: streamLive in web/src/shared/search/live.ts.               *)

Terminal(event) == event.type \in {"resync_required", "error"}

Receive ==
    /\ client.mode = "open" /\ wire # <<>>
    /\ LET event == Head(wire)
       IN client' = [client EXCEPT
              !.mode = IF Terminal(event) THEN "ended" ELSE "open",
              !.resume = IF event.id # NoToken THEN event.id ELSE @,
              !.start = IF @ = NoToken /\ event.id # NoToken
                        THEN IF client.catchup THEN [event.id EXCEPT !.pos = InitialLivePositions(Cuts, TRUE)]
                             ELSE event.id
                        ELSE @,
              !.got = @ \o event.rows]
    /\ wire' = Tail(wire)
    /\ UNCHANGED <<catalogVars, stream, budget>>

\* The response ended, or a terminal event closed it.
Closed ==
    /\ \/ client.mode = "open" /\ ~stream.on /\ wire = <<>>
       \/ client.mode = "ended" /\ (stream.on \/ wire # <<>>)
    /\ client' = [client EXCEPT !.mode = IF @ = "open" THEN "waiting" ELSE @]
    /\ stream' = NoStream /\ wire' = <<>>
    /\ UNCHANGED <<catalogVars, budget>>

\* The connection breaks: the events on the wire are lost and the handler's
\* next write fails.
Break ==
    /\ client.mode = "open"
    /\ Spend("breaks")
    /\ client' = [client EXCEPT !.mode = "waiting"]
    /\ stream' = NoStream /\ wire' = <<>>
    /\ UNCHANGED catalogVars

-----------------------------------------------------------------------------
(* The catalog under the stream.                                           *)

Publish(l, rows) ==
    /\ Len(lanes[l]) < MaxSeq
    /\ Spend("publishes")
    /\ lanes' = [lanes EXCEPT ![l] = Append(@, [gen |-> generation, rows |-> rows])]
    /\ files' = [files EXCEPT ![l] = @ \cup {<<Len(lanes[l]) + 1, Len(lanes[l]) + 1>>}]
    /\ UNCHANGED <<generation, backup, stream, wire, client>>

\* Compaction replaces two files that follow each other by one.
Merge(l) ==
    /\ Spend("merges")
    /\ \E f, g \in files[l] :
        /\ f[2] + 1 = g[1]
        /\ files' = [files EXCEPT ![l] = (@ \ {f, g}) \cup {<<f[1], g[2]>>}]
    /\ UNCHANGED <<generation, lanes, backup, stream, wire, client>>

Backup ==
    /\ budget.restores > 0
    /\ backup' = [lanes |-> lanes, files |-> files]
    /\ backup' # backup
    /\ UNCHANGED <<generation, lanes, files, stream, wire, client, budget>>

\* Every process is stopped for a restore; it activates a new generation.
Restore ==
    /\ Spend("restores")
    /\ generation' = generation + 1
    /\ lanes' = backup.lanes /\ files' = backup.files
    /\ client' = [client EXCEPT !.mode = IF @ = "open" THEN "waiting" ELSE @]
    /\ stream' = NoStream /\ wire' = <<>>
    /\ UNCHANGED backup

-----------------------------------------------------------------------------

Init ==
    /\ generation = 1
    /\ lanes = [l \in Lanes |-> <<>>]
    /\ files = [l \in Lanes |-> {}]
    /\ backup = [lanes |-> lanes, files |-> files]
    /\ stream = NoStream /\ wire = <<>>
    /\ budget \in Scenarios
    /\ client = [mode |-> "waiting", resume |-> NoToken, catchup |-> budget.catchup, start |-> NoToken, got |-> <<>>]

Next ==
    \/ Connect \/ Poll \/ PollOverLimit \/ PollFails
    \/ Receive \/ Closed \/ Break
    \/ \E l \in Lanes : Merge(l) \/ \E b \in Batches : Publish(l, b)
    \/ Backup \/ Restore

Spec == Init /\ [][Next]_vars

(* The browser reconnects, reads and notices that a response ended; the    *)
(* handler polls on a timer.                                               *)
Browse == Connect \/ Receive \/ Closed
Fairness == WF_vars(Browse) /\ WF_vars(Poll)

FairSpec == Spec /\ Fairness

-----------------------------------------------------------------------------

Positions == [seq : 0..MaxSeq, ord : -1..MaxInt32]
Rows == [gen : Nat, lane : Lanes, seq : 1..MaxSeq, ord : 0..MaxInt32 - 1]
IsToken(t) == t.gen \in 1..generation /\ t.pos \in [Lanes -> Positions] /\ Signable(t.pos)

(* The state has the shape the code gives it; a checkpoint is one that     *)
(* SignLiveFrom would sign.                                                *)
TypeOK ==
    /\ generation \in Nat \ {0}
    /\ \A l \in Lanes :
        /\ lanes[l] \in Seq([gen : 1..generation, rows : Batches]) /\ Len(lanes[l]) <= MaxSeq
        /\ UNION {f[1]..f[2] : f \in files[l]} = 1..Len(lanes[l])
    /\ client.mode \in {"waiting", "open", "ended"}
    /\ client.resume = NoToken \/ IsToken(client.resume)
    /\ \A i \in 1..Len(wire) : wire[i].id = NoToken \/ IsToken(wire[i].id)
    /\ ToSet(client.got) \subseteq Rows
    /\ stream.on => stream.pos \in [Lanes -> Positions] /\ stream.window \in 0..LiveMaximumRows

\* The matching rows of the published lanes between the positions.
Between(from, to) ==
    UNION {{r \in LaneRows(l) : Before(from[l], PositionOf(r)) /\ ~Before(to[l], PositionOf(r))} : l \in Lanes}

(* The checkpoint the browser would resume from has nothing unsent behind  *)
(* it: every matching row between the place where the stream started and   *)
(* that checkpoint was received, over any number of pages, merged files,   *)
(* broken connections and resumes (DESIGN.md: catch up without loss).      *)
NothingIsSkipped ==
    client.resume # NoToken /\ client.resume.gen = generation =>
        Between(client.start.pos, client.resume.pos) \subseteq ToSet(client.got)

(* The browser receives the rows of a lane in ascending order and none of  *)
(* them twice: a page and its checkpoint are one event, so a resume never  *)
(* sends again what arrived.                                               *)
RowsArriveOnceInOrder ==
    \A i, j \in 1..Len(client.got) :
        i < j /\ client.got[i].lane = client.got[j].lane =>
            Before(PositionOf(client.got[i]), PositionOf(client.got[j]))

(* The checks of AdvanceLivePositions and SignLiveFrom never fail: no cut  *)
(* is behind a position, and no page repeats a row.                        *)
NoPollIsRefused == ~stream.refused

CaughtUp ==
    /\ client.start # NoToken
    /\ client.start.gen = generation => Between(client.start.pos, [l \in Lanes |-> At(Len(lanes[l]), MaxInt32)])
                                            \subseteq ToSet(client.got)

ToldAll == CaughtUp \/ client.mode = "ended"

(* Publishing stops: the browser has every row published since it started, *)
(* or its stream ended with an event that says so.                         *)
StreamCatchesUp == <>[]ToldAll
=============================================================================
