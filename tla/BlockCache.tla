----------------------------- MODULE BlockCache -----------------------------
(***************************************************************************)
(* The block cache of a worker and the range gateways of its query tasks.  *)
(* A task reserves disk space, the requests of its native child read       *)
(* blocks through the cache, and the blocks stay pinned until the child    *)
(* has exited.                                                             *)
(*                                                                         *)
(* Every section of code under the cache's mutex is one action; files are  *)
(* read and loaded between them.  An entry is an object of its own: a key  *)
(* may have a listed entry while readers still hold an invalid one.  Which *)
(* unpinned block is the least recently used is left open.                 *)
(***************************************************************************)
EXTENDS Integers, Sequences, FiniteSets, SequencesExt, FiniteSetsExt, TLC

CONSTANTS
    Blocks,         \* keys of blocks
    Size,           \* the bytes of each
    Tasks,          \* query tasks
    Handlers,       \* requests of their children
    TaskOf,         \* the task of a request
    Requests,       \* block sequences a request may cover
    Entries,        \* identities of cache entries
    MaxBytes,       \* the limit of the cache
    DiskLimit,      \* the shared disk budget
    TaskBytes,      \* the reservation of a task
    Scenarios       \* what a behaviour may meet

Budgets == [tasks : Nat, staged : Nat, spoiled : Nat, failures : Nat, timeouts : Nat, closes : Nat, crashes : Nat]

BlockCacheAssumption ==
    /\ IsFiniteSet(Blocks) /\ IsFiniteSet(Entries) /\ IsFiniteSet(Handlers)
    /\ Size \in [Blocks -> Nat \ {0}]
    /\ TaskOf \in [Handlers -> Tasks]
    /\ Requests \subseteq Seq(Blocks)
    /\ MaxBytes \in Nat /\ DiskLimit \in Nat /\ TaskBytes \in Nat
    /\ Scenarios \subseteq Budgets

VARIABLES
    files,      \* the block files on disk
    entries,    \* cache entries: those of BlockCache.entries are listed
    flights,    \* loads in progress, by key
    used,       \* BlockCache.used, which is also what its permits hold
    closed,     \* BlockCache.closed
    tasks,      \* query tasks with their disk permits
    handlers,   \* gateway requests
    budget      \* what may still happen

vars == <<files, entries, flights, used, closed, tasks, handlers, budget>>

NoBlock == "no block"
NoEntry == 0
NoHandler == "no handler"
Unused == [key |-> NoBlock, state |-> "free", pins |-> 0]
Idle == [step |-> "idle", want |-> <<>>, staged |-> FALSE, entry |-> NoEntry, pins |-> <<>>]
NoTask == [step |-> "idle", reserved |-> FALSE]
Spend(field) == budget[field] > 0 /\ budget' = [budget EXCEPT ![field] = @ - 1]

Listed(k) == {e \in Entries : entries[e].state = "listed" /\ entries[e].key = k}
Key(h) == Head(handlers[h].want)
Step(h, step) == handlers' = [handlers EXCEPT ![h].step = step]
Sum(blocks) == FoldSet(LAMBDA b, n : n + Size[b], 0, blocks)
Held == used + TaskBytes * Cardinality({t \in Tasks : tasks[t].reserved})

-----------------------------------------------------------------------------
(* The parts of the cache that run under its mutex, as functions of the    *)
(* entries and of the bytes used.                                          *)

\* release: an invalid entry gives its bytes back with its last pin.
Unpin(s, e) ==
    LET last == s.entries[e].pins = 1 /\ s.entries[e].state = "invalid"
    IN [s EXCEPT !.entries[e].pins = @ - 1,
                 !.entries[e].state = IF last THEN "free" ELSE @,
                 !.used = IF last THEN @ - Size[s.entries[e].key] ELSE @]

UnpinAll(s, pins) == FoldLeft(Unpin, s, pins)

\* Take an entry out of the map: what it holds is given back now, or by the
\* last pin.
Unlist(s, e) ==
    IF s.entries[e].pins = 0
    THEN [s EXCEPT !.entries[e].state = "free", !.used = @ - Size[s.entries[e].key]]
    ELSE [s EXCEPT !.entries[e].state = "invalid"]

\* Remove the entries and their files.
Evict(s, E) ==
    [FoldSet(LAMBDA e, t : Unlist(t, e), s, E) EXCEPT
        !.files = [b \in Blocks |-> IF b \in {s.entries[e].key : e \in E} THEN "none" ELSE s.files[b]]]

StillListed(e) == entries[e].state = "listed"

Evictable(s) == {e \in Entries : s.entries[e].state = "listed" /\ s.entries[e].pins = 0}

Fits(s, k, disk) == s.used + Size[k] <= MaxBytes /\ s.used + Size[k] + disk <= DiskLimit

\* The sets install may evict before the block fits, one at a time.
Evictions(s, k, disk) ==
    LET After(E) == [s EXCEPT !.used = @ - Sum({s.entries[e].key : e \in E})]
    IN {E \in SUBSET Evictable(s) :
           /\ Fits(After(E), k, disk)
           /\ E = {} \/ \E e \in E : ~Fits(After(E \ {e}), k, disk)}

State == [entries |-> entries, used |-> used, files |-> files]
Become(s) == entries' = s.entries /\ used' = s.used /\ files' = s.files

-----------------------------------------------------------------------------
(* Tasks: Workflow.Execute reserves disk space and serves the child.       *)

StartTask(t) ==
    /\ tasks[t].step \in {"idle", "refused"} /\ ~closed
    /\ Spend("tasks")
    /\ tasks' = [tasks EXCEPT ![t] =
          IF Held + TaskBytes <= DiskLimit THEN [step |-> "running", reserved |-> TRUE]
          ELSE [@ EXCEPT !.step = "refused"]]
    /\ UNCHANGED <<files, entries, flights, used, closed, handlers>>

\* A request of the child, or the staging of a warm input before it starts.
Request(h, want, staged) ==
    /\ handlers[h].step = "idle" /\ tasks[TaskOf[h]].step = "running"
    /\ IF staged THEN Len(want) = 1 /\ Spend("staged") ELSE UNCHANGED budget
    /\ handlers' = [handlers EXCEPT ![h] = [Idle EXCEPT !.step = "look", !.want = want, !.staged = staged]]
    /\ UNCHANGED <<files, entries, flights, used, closed, tasks>>

Quiet(h) == handlers[h].step \in {"idle", "served", "failed"}
Own(t) == {h \in Handlers : TaskOf[h] = t}

Pins(t) == FoldSet(LAMBDA h, s : s \o handlers[h].pins, <<>>, Own(t))

\* The child has exited.  Shutdown waits for the requests, for five seconds;
\* then the pins and the reservation are released.
EndTask(t) ==
    /\ tasks[t].step = "running"
    /\ IF \A h \in Own(t) : Quiet(h) THEN UNCHANGED budget ELSE Spend("timeouts")
    /\ Become(UnpinAll(State, Pins(t)))
    /\ handlers' = [h \in Handlers |->
          IF TaskOf[h] # t THEN handlers[h]
          ELSE IF Quiet(h) THEN Idle ELSE [handlers[h] EXCEPT !.pins = <<>>]]
    /\ tasks' = [tasks EXCEPT ![t] = [step |-> IF \A h \in Own(t) : Quiet(h) THEN "idle" ELSE "late",
                                      reserved |-> FALSE]]
    /\ UNCHANGED <<flights, closed>>

-----------------------------------------------------------------------------
(* BlockCache.Read and ReadCached.                                         *)

\* A closed cache refuses; ReadCached neither joins nor starts a load.
Refuse(h) ==
    /\ handlers[h].step = "look"
    /\ closed \/ (handlers[h].staged /\ Listed(Key(h)) = {})
    /\ Step(h, "failed")
    /\ UNCHANGED <<files, entries, flights, used, closed, tasks, budget>>

Pin(h) ==
    /\ handlers[h].step = "look" /\ ~closed
    /\ \E e \in Listed(Key(h)) :
        /\ entries' = [entries EXCEPT ![e].pins = @ + 1]
        /\ handlers' = [handlers EXCEPT ![h].step = "reading", ![h].entry = e]
    /\ UNCHANGED <<files, flights, used, closed, tasks, budget>>

\* Mutant: every reader that misses loads the block itself.
JoinsNone(h) == FALSE

Joins(h) == flights[Key(h)] # NoHandler

\* A miss joins the load of the block or starts it.
Miss(h) ==
    /\ handlers[h].step = "look" /\ ~closed /\ ~handlers[h].staged /\ Listed(Key(h)) = {}
    /\ Step(h, IF Joins(h) THEN "waiting" ELSE "loading")
    /\ flights' = [flights EXCEPT ![Key(h)] = IF Joins(h) THEN @ ELSE h]
    /\ UNCHANGED <<files, entries, used, closed, tasks, budget>>

\* os.ReadFile and the digest: a good block stays pinned for the gateway, and
\* the request goes on with its next block.
ReadFile(h) ==
    /\ handlers[h].step = "reading"
    /\ handlers' = [handlers EXCEPT ![h] =
          IF files[Key(h)] = "good"
          THEN [@ EXCEPT !.step = IF Len(handlers[h].want) = 1 THEN "served" ELSE "look",
                         !.want = Tail(@), !.entry = NoEntry, !.pins = Append(@, handlers[h].entry)]
          ELSE [@ EXCEPT !.step = "unpin"]]
    /\ UNCHANGED <<files, entries, flights, used, closed, tasks, budget>>

\* A file that is missing, short or changed: the pin is released, and then the
\* entry is invalidated if it is still the one of its key.
Release(h) ==
    /\ handlers[h].step = "unpin"
    /\ Become(Unpin(State, handlers[h].entry))
    /\ Step(h, "invalidate")
    /\ UNCHANGED <<flights, closed, tasks, budget>>

Invalidate(h) ==
    /\ handlers[h].step = "invalidate"
    /\ Become(IF StillListed(handlers[h].entry) THEN Evict(State, {handlers[h].entry}) ELSE State)
    /\ handlers' = [handlers EXCEPT ![h].step = IF handlers[h].staged THEN "failed" ELSE "look",
                                    ![h].entry = NoEntry]
    /\ UNCHANGED <<flights, closed, tasks, budget>>

\* The load: the block with its digest, or an error of the provider or of the
\* request's context.
Load(h) ==
    /\ handlers[h].step = "loading"
    /\ \/ Step(h, "install") /\ UNCHANGED budget
       \/ Step(h, "land failed") /\ Spend("failures")
    /\ UNCHANGED <<files, entries, flights, used, closed, tasks>>

Fresh == {e \in Entries : entries[e].state = "free" /\ \A h \in Handlers : handlers[h].entry # e}

Place(s, k, e) ==
    [s EXCEPT !.entries[e] = [key |-> k, state |-> "listed", pins |-> 0], !.used = @ + Size[k],
              !.files[k] = "good"]

\* install: an entry that is listed already is kept; otherwise unpinned blocks
\* make room, in the cache and then on the shared disk, and all of them go
\* when even that is too little.
Installed(k) ==
    LET room == Evictions(State, k, Held - used)
        e == CHOOSE e \in Fresh : TRUE
    IN IF closed THEN {<<"land failed", State>>}
       ELSE IF Listed(k) # {} THEN {<<"land", State>>}
       ELSE IF room = {} THEN {<<"land failed", Evict(State, Evictable(State))>>}
       ELSE {<<"land", Place(Evict(State, E), k, e)>> : E \in room}

Install(h) ==
    /\ handlers[h].step = "install"
    /\ \E r \in Installed(Key(h)) : Step(h, r[1]) /\ Become(r[2])
    /\ UNCHANGED <<flights, closed, tasks, budget>>

\* Closing the channel wakes the readers that joined the flight.
Woken(h, k) == {w \in Handlers : handlers[w].step = "waiting" /\ Key(w) = k}

\* The flight ends: its waiters look again, or fail with the error of the load.
Land(h) ==
    /\ handlers[h].step \in {"land", "land failed"}
    /\ LET next == IF handlers[h].step = "land" THEN "look" ELSE "failed"
       IN handlers' = [w \in Handlers |->
              IF w = h \/ w \in Woken(h, Key(h)) THEN [handlers[w] EXCEPT !.step = next] ELSE handlers[w]]
    /\ flights' = [flights EXCEPT ![Key(h)] = NoHandler]
    /\ UNCHANGED <<files, entries, used, closed, tasks, budget>>

\* The context of a request that waits for another's load ends.
Cancel(h) ==
    /\ handlers[h].step = "waiting"
    /\ Step(h, "failed")
    /\ Spend("failures")
    /\ UNCHANGED <<files, entries, flights, used, closed, tasks>>

-----------------------------------------------------------------------------
(* The process and its disk.                                               *)

\* A block file is damaged.
Spoil(k) ==
    /\ files[k] = "good"
    /\ Spend("spoiled")
    /\ files' = [files EXCEPT ![k] = "bad"]
    /\ UNCHANGED <<entries, flights, used, closed, tasks, handlers>>

\* Close keeps the files and gives back what is not pinned.
Close ==
    /\ ~closed
    /\ Spend("closes")
    /\ closed' = TRUE
    /\ Become(FoldSet(LAMBDA e, s : Unlist(s, e), State, {e \in Entries : entries[e].state = "listed"}))
    /\ UNCHANGED <<flights, tasks, handlers>>

\* The sets of files NewBlockCache can index, in whatever order it finds them.
Indexable(all) ==
    {K \in SUBSET all :
        /\ Sum(K) <= MaxBytes /\ Sum(K) <= DiskLimit
        /\ \A b \in all \ K : Sum(K \cup {b}) > MaxBytes \/ Sum(K \cup {b}) > DiskLimit}

\* The process dies, and NewBlockCache indexes the files it finds by name and
\* size; the others are removed.
Restart ==
    /\ Spend("crashes")
    /\ \E K \in Indexable({b \in Blocks : files[b] # "none"}) :
        LET f == CHOOSE g \in [K -> Entries] : \A a, b \in K : a # b => g[a] # g[b]
        IN /\ files' = [b \in Blocks |-> IF b \in K THEN files[b] ELSE "none"]
           /\ entries' = [e \in Entries |->
                 IF \E b \in K : f[b] = e
                 THEN [key |-> CHOOSE b \in K : f[b] = e, state |-> "listed", pins |-> 0] ELSE Unused]
           /\ used' = Sum(K)
    /\ flights' = [b \in Blocks |-> NoHandler]
    /\ closed' = FALSE
    /\ tasks' = [t \in Tasks |-> NoTask]
    /\ handlers' = [h \in Handlers |-> Idle]

-----------------------------------------------------------------------------

Init ==
    /\ files = [b \in Blocks |-> "none"]
    /\ entries = [e \in Entries |-> Unused]
    /\ flights = [b \in Blocks |-> NoHandler]
    /\ used = 0
    /\ closed = FALSE
    /\ tasks = [t \in Tasks |-> NoTask]
    /\ handlers = [h \in Handlers |-> Idle]
    /\ budget \in Scenarios

ReadStep(h) ==
    Refuse(h) \/ Pin(h) \/ Miss(h) \/ ReadFile(h) \/ Release(h) \/ Invalidate(h) \/ Load(h) \/ Install(h) \/ Land(h)

Next ==
    \/ \E t \in Tasks : StartTask(t) \/ EndTask(t)
    \/ \E h \in Handlers :
        \/ ReadStep(h) \/ Cancel(h)
        \/ \E want \in Requests, staged \in BOOLEAN : Request(h, want, staged)
    \/ \E k \in Blocks : Spoil(k)
    \/ Close \/ Restart

Spec == Init /\ [][Next]_vars

(* The goroutine of a request runs.                                        *)
Fairness == \A h \in Handlers : WF_vars(ReadStep(h))

FairSpec == Spec /\ Fairness

-----------------------------------------------------------------------------

Steps == {"idle", "look", "reading", "unpin", "invalidate", "loading", "waiting", "install", "land", "land failed",
          "served", "failed"}

(* The state has the shape the code gives it, and no entry has a negative  *)
(* number of pins.                                                         *)
TypeOK ==
    /\ files \in [Blocks -> {"none", "good", "bad"}]
    /\ entries \in [Entries -> [key : Blocks \cup {NoBlock}, state : {"free", "listed", "invalid"}, pins : Nat]]
    /\ flights \in [Blocks -> Handlers \cup {NoHandler}]
    /\ used \in Nat /\ closed \in BOOLEAN
    /\ tasks \in [Tasks -> [step : {"idle", "running", "refused", "late"}, reserved : BOOLEAN]]
    /\ \A h \in Handlers : handlers[h].step \in Steps

(* Bytes are neither lost nor given back twice, whatever the order in      *)
(* which readers, invalidations, evictions and Close meet: the cache       *)
(* accounts for the listed blocks and for the invalid ones still pinned,   *)
(* stays within its limit, and the disk budget covers it with the tasks.   *)
UsedIsAccounted ==
    /\ used = FoldSet(LAMBDA e, n : n + Size[entries[e].key], 0,
                      {e \in Entries : entries[e].state = "listed" \/ entries[e].pins > 0})
    /\ used <= MaxBytes /\ Held <= DiskLimit

(* A listed block has its file, one entry and, while it is loaded, one     *)
(* loader: eviction and invalidation never remove the file of an entry     *)
(* that was installed since.                                               *)
ListedBlocksAreStored ==
    \A k \in Blocks :
        /\ Cardinality(Listed(k)) <= 1
        /\ Listed(k) # {} => files[k] # "none"
        /\ Cardinality({h \in Handlers : handlers[h].step \in {"loading", "install", "land", "land failed"}
                                            /\ Key(h) = k}) <= 1

Holds(h, e) ==
    Cardinality({i \in DOMAIN handlers[h].pins : handlers[h].pins[i] = e})
    + (IF handlers[h].step \in {"reading", "unpin"} /\ handlers[h].entry = e THEN 1 ELSE 0)

(* Every pin has its reader, and a reader that keeps pins belongs to a     *)
(* task whose child may still read them.  Nothing is said of a request     *)
(* that outlived the five seconds Shutdown waits: it may pin a block after *)
(* ReleasePins, and that pin is never released.                            *)
PinsAreOwned ==
    /\ \A e \in Entries : entries[e].pins = FoldSet(LAMBDA h, n : n + Holds(h, e), 0, Handlers)
    /\ \A h \in Handlers : handlers[h].pins # <<>> => tasks[TaskOf[h]].step \in {"running", "late"}

\* An unpinned block leaves the cache to make room.
Evicts == \E e \in Entries : entries[e].state = "listed" /\ entries'[e].state = "free"

(* Every request ends: it is served or it fails, also when it waits for    *)
(* the load of another request or finds its block damaged; unless blocks   *)
(* are evicted again and again (an installed block is pinned only when its *)
(* reader looks again, so two readers can keep evicting each other's).     *)
RequestsEnd == []<><<Evicts>>_vars \/ \A h \in Handlers : []<>Quiet(h)
=============================================================================
