----------------------------- MODULE QueryPlan -----------------------------
(***************************************************************************)
(* How a query is cut into tasks and what the tasks compute: the catalog's *)
(* files are pruned and partitioned into scans, the scans feed a tree of   *)
(* reducers, and the root's output is the result.                          *)
(*                                                                         *)
(* A row is [time, id, in]: its sort key, its record id and whether it is  *)
(* in the dataset (time window, projects, kinds, cut and retention floor). *)
(* A file is [rows, full, bytes, blocks]: full says that its catalog       *)
(* metadata alone proves every row to be in the dataset; blocks is what    *)
(* its block manifest adds to a task's manifest.  An operation is          *)
(* [kind, limit, first]: first marks the first page of a filter that is    *)
(* constantly true.                                                        *)
(***************************************************************************)
EXTENDS Integers, Sequences, SequencesExt, FiniteSetsExt

CONSTANTS
    MaxFilesPerScan,        \* files of one scan
    TargetScanBytes,        \* compressed bytes of one scan
    MaxTaskManifestBytes,   \* what one manifest may weigh
    MaxScanPartitions,      \* scans of one query
    ReduceFanIn             \* inputs of one reducer

QueryPlanAssumption ==
    /\ MaxFilesPerScan \in Nat \ {0} /\ TargetScanBytes \in Nat \ {0}
    /\ MaxTaskManifestBytes \in Nat \ {0} /\ MaxScanPartitions \in Nat \ {0}
    /\ ReduceFanIn \in Nat /\ ReduceFanIn >= 2

MinTime(f) == Min({r.time : r \in f.rows})
MaxTime(f) == Max({r.time : r \in f.rows})

(* Mutant: files that only tie with the bound are pruned. *)
pruneTies(op, files) ==
    LET sure == {i \in DOMAIN files : files[i].full}
        RowsFrom(t) == MapThenSumSet(LAMBDA i : Cardinality(files[i].rows),
                                     {i \in sure : MinTime(files[i]) >= t})
        bounds == {t \in {MinTime(files[i]) : i \in sure} : RowsFrom(t) >= op.limit + 1}
    IN IF op.kind # "rows" \/ ~op.first \/ bounds = {} THEN files
       ELSE SelectSeq(files, LAMBDA f : MaxTime(f) > Max(bounds))

(* The primary sort key of the last row of a page is at least every time   *)
(* whose fully matching files hold the page's rows and the one that tells  *)
(* whether there are more.  Files that can tie with it stay.               *)
pruneFirstPageRows(op, files) ==
    LET sure == {i \in DOMAIN files : files[i].full}
        RowsFrom(t) == MapThenSumSet(LAMBDA i : Cardinality(files[i].rows),
                                     {i \in sure : MinTime(files[i]) >= t})
        bounds == {t \in {MinTime(files[i]) : i \in sure} : RowsFrom(t) >= op.limit + 1}
    IN IF op.kind # "rows" \/ ~op.first \/ bounds = {} THEN files
       ELSE SelectSeq(files, LAMBDA f : MaxTime(f) >= Max(bounds))

(* Files are packed in order until the next one would exceed either bound. *)
partitionCatalog(files) ==
    LET Pack(acc, f) ==
            IF acc.current # <<>> /\ (\/ Len(acc.current) = MaxFilesPerScan
                                      \/ acc.bytes + f.bytes > TargetScanBytes)
            THEN [done |-> Append(acc.done, acc.current), current |-> <<f>>, bytes |-> f.bytes]
            ELSE [acc EXCEPT !.current = Append(@, f), !.bytes = @ + f.bytes]
        end == FoldLeft(Pack, [done |-> <<>>, current |-> <<>>, bytes |-> 0], files)
    IN IF end.current = <<>> THEN end.done ELSE Append(end.done, end.current)

ManifestBytes(partition) == FoldLeft(LAMBDA n, f : n + f.blocks, 0, partition)

(* A partition whose manifest is too heavy is halved; a single file that   *)
(* is too heavy fails the plan.                                            *)
RECURSIVE appendScan(_)
appendScan(partition) ==
    IF ManifestBytes(partition) > MaxTaskManifestBytes /\ Len(partition) > 1
    THEN LET middle == Len(partition) \div 2
         IN appendScan(SubSeq(partition, 1, middle))
                \o appendScan(SubSeq(partition, middle + 1, Len(partition)))
    ELSE <<partition>>

Scans(op, files) ==
    LET partitions == partitionCatalog(pruneFirstPageRows(op, files))
    IN FlattenSeq([i \in DOMAIN partitions |-> appendScan(partitions[i])])

(* ErrQueryLimit: the whole catalog, pruned files included, has to fit. *)
PlanFails(op, files) ==
    \/ Len(partitionCatalog(files)) > MaxScanPartitions
    \/ Len(Scans(op, files)) > MaxScanPartitions
    \/ \E i \in DOMAIN Scans(op, files) :
           ManifestBytes(Scans(op, files)[i]) > MaxTaskManifestBytes

(* The reducers of a level take ReduceFanIn consecutive outputs of the     *)
(* level below, until one remains.  Without a scan one reducer answers.    *)
Width(n, level) == LET w[l \in Nat] == IF l = 0 THEN n
                                       ELSE (w[l - 1] + ReduceFanIn - 1) \div ReduceFanIn
                   IN w[level]
TopLevel(n) == IF n = 0 THEN 1 ELSE CHOOSE l \in 0..n : Width(n, l) = 1 /\ \A k \in 0..l - 1 : Width(n, k) > 1
TaskKeys(n) == IF n = 0 THEN {<<1, 0>>}
               ELSE UNION {{<<l, p>> : p \in 0..Width(n, l) - 1} : l \in 0..TopLevel(n)}

Inputs(n, key) ==
    IF key[1] = 0 \/ n = 0 THEN <<>>
    ELSE [i \in 1..Min({ReduceFanIn, Width(n, key[1] - 1) - key[2] * ReduceFanIn}) |->
              <<key[1] - 1, key[2] * ReduceFanIn + i - 1>>]

(* Sorted rows, newest first, ties by descending record id. *)
Before(r, s) == r.time > s.time \/ (r.time = s.time /\ r.id > s.id)
FirstRows(rows, n) == SubSeq(SortSeq(rows, Before), 1, Min({n, Len(rows)}))

(* What a scan and a reducer write: the first limit + 1 rows, or the count *)
(* of rows per group (a group is a time).                                  *)
Groups(rows) == {rows[i].time : i \in DOMAIN rows}
ScanOutput(op, files) ==
    LET rows == FlattenSeq([i \in DOMAIN files |->
                    SetToSeq({r \in files[i].rows : r.in})])
    IN IF op.kind = "rows" THEN FirstRows(rows, op.limit + 1)
       ELSE [g \in Groups(rows) |-> Cardinality({i \in DOMAIN rows : rows[i].time = g})]
ReduceOutput(op, outputs) ==
    IF op.kind = "rows" THEN FirstRows(FlattenSeq(outputs), op.limit + 1)
    ELSE [g \in UNION {DOMAIN outputs[i] : i \in DOMAIN outputs} |->
             MapThenSumSet(LAMBDA i : outputs[i][g], {i \in DOMAIN outputs : g \in DOMAIN outputs[i]})]

TaskOutput(op, scans, key, outputs) ==
    IF key[1] = 0 THEN ScanOutput(op, scans[key[2] + 1])
    ELSE ReduceOutput(op, outputs)

(* What the query means: its operation over all files of its catalog. *)
Answer(op, files) == ScanOutput(op, files)

(* What the plan computes when every task runs once. *)
RECURSIVE Evaluate(_, _, _)
Evaluate(op, scans, key) ==
    LET in == Inputs(Len(scans), key)
    IN TaskOutput(op, scans, key, [i \in DOMAIN in |-> Evaluate(op, scans, in[i])])

Root(n) == <<TopLevel(n), 0>>

=============================================================================
