-------------------------- MODULE AcceptanceFrames --------------------------
(***************************************************************************)
(* What the proofs about acceptance share: facts about numbers, orders and *)
(* finite sets, the initial states, and what steps that touch one workflow *)
(* preserve of the inductive invariant.                                    *)
(***************************************************************************)
EXTENDS Acceptance, FiniteSetTheorems, WellFoundedInduction, TLAPS

-----------------------------------------------------------------------------
(* Numbers and sets *)

(* A set of numbers that is not empty has a smallest element.              *)
LEMMA SmallestExists ==
    ASSUME NEW S, S \subseteq Nat, S # {}
    PROVE  Min(S) \in S /\ \A y \in S : Min(S) <= y
<1>1. PICK x \in S : \A y \in S : ~(<<y, x>> \in OpToRel(<, Nat))
    BY NatLessThanWellFounded, WFMin, Zenon
<1>2. \A y \in S : ~(y < x)
    BY <1>1, Zenon DEF OpToRel
<1>3. \A y \in S : x <= y
    BY <1>2
<1> QED
    BY <1>3 DEF Min

(* A finite set of numbers that is not empty has a largest element.        *)
LEMMA LargestExists ==
    ASSUME NEW S, S \subseteq Nat, IsFiniteSet(S), S # {}
    PROVE  \E x \in S : \A y \in S : y <= x
<1> DEFINE HasLargest(T) == \E x \in T : \A y \in T : y <= x
           Bad == {T \in FiniteSubsetsOf(S) : T # {} /\ ~HasLargest(T)}
<1>1. SUFFICES ASSUME Bad # {} PROVE FALSE
    <2>1. S \in FiniteSubsetsOf(S)
        BY DEF FiniteSubsetsOf
    <2> QED
        BY <1>1, <2>1
<1>2. PICK T \in Bad : \A U \in Bad : ~(<<U, T>> \in StrictSubsetOrdering(S))
    <2>1. Bad \subseteq FiniteSubsetsOf(S)
        OBVIOUS
    <2> HIDE DEF Bad
    <2> QED
        BY <1>1, <2>1, FS_StrictSubsetOrderingWellFounded, WFMin, Zenon
<1>3. T \subseteq S /\ IsFiniteSet(T) /\ T # {} /\ ~HasLargest(T)
    BY DEF FiniteSubsetsOf
<1>4. PICK x \in T : TRUE
    BY <1>3
<1>5. IsFiniteSet(T \ {x})
    BY <1>3, FS_RemoveElement
<1>6. T \ {x} \in FiniteSubsetsOf(S) /\ <<T \ {x}, T>> \in StrictSubsetOrdering(S)
    BY <1>3, <1>4, <1>5 DEF FiniteSubsetsOf, StrictSubsetOrdering
<1>7. CASE T \ {x} = {}
    <2>1. \A y \in T : y <= x
        BY <1>3, <1>4, <1>7
    <2> QED
        BY <1>3, <1>4, <2>1
<1>8. CASE T \ {x} # {}
    <2>1. HasLargest(T \ {x})
        BY <1>2, <1>6, <1>8
    <2>2. PICK m \in T \ {x} : \A y \in T \ {x} : y <= m
        BY <2>1
    <2>3. m \in Nat /\ x \in Nat
        BY <1>3, <1>4
    <2>4. CASE x <= m
        <3>1. \A y \in T : y <= m
            BY <2>2, <2>4
        <3> QED
            BY <1>3, <3>1
    <2>5. CASE m <= x
        <3>1. \A y \in T : y <= x
            BY <1>3, <2>2, <2>3, <2>5
        <3> QED
            BY <1>3, <3>1
    <2> QED
        BY <2>3, <2>4, <2>5
<1> QED
    BY <1>7, <1>8

(* An order of a finite set has each of its elements once.                 *)
LEMMA OrderOfBatch ==
    ASSUME NEW S, IsFiniteSet(S), NEW order \in Bijection(1..Cardinality(S), S)
    PROVE  /\ order \in Seq(S)
           /\ \A i, k \in DOMAIN order : order[i] = order[k] => i = k
           /\ \A r \in S : \E i \in DOMAIN order : order[i] = r
<1>1. Cardinality(S) \in Nat
    BY FS_CardinalityType, Zenon
<1>2. /\ order \in [1..Cardinality(S) -> S]
      /\ \A i, k \in DOMAIN order : order[i] = order[k] => i = k
      /\ \A r \in S : \E i \in 1..Cardinality(S) : order[i] = r
    BY DEF Bijection, Injection, Surjection, IsInjective
<1> QED
    BY <1>1, <1>2

(* What is appended to a sequence comes after its end.                     *)
LEMMA LastOfAppend ==
    ASSUME NEW S, NEW s \in Seq(S), NEW x
    PROVE  Append(s, x)[Len(s) + 1] = x
OBVIOUS

(* A positive number is an index below every larger one.                   *)
LEMMA EarlierIndex ==
    ASSUME NEW k \in Nat \ {0}, NEW n \in Nat, k < n
    PROVE  k \in 1..(n - 1)
OBVIOUS

-----------------------------------------------------------------------------
(* The initial states *)

(* Nothing is admitted, uploaded or accepted.                              *)
LEMMA InitInductive ==
    ASSUME AcceptanceAssumption, Init
    PROVE  Inductive
<1>1. Typed
    <2>1. NoIntent \in Intent /\ NoTx \in Transaction
        BY DEF NoIntent, Intent, NoTx, Transaction
    <2>2. [at |-> "idle", order |-> <<>>, todo |-> {}, attempt |-> 0, uploads |-> 0, gen |-> 1] \in Workflow
        BY DEF AcceptanceAssumption, Workflow, Points
    <2>3. NoReceipt \in [lane : Lanes \cup {"none"}, seq : Nat, classes : Seq(Classes)]
        BY DEF NoReceipt
    <2>4. receipts \in [Requests -> [lane : Lanes \cup {"none"}, seq : Nat, classes : Seq(Classes)]]
        BY <2>3 DEF Init
    <2>5. log \in [Lanes -> Seq([journal : Journals, requests : SUBSET Requests])]
        BY DEF Init
    <2>6. wf \in [Workflows -> Workflow] /\ tx \in [Workflows -> Transaction]
        BY <2>1, <2>2 DEF Init
    <2>7. intents \in [Journals -> Intent] /\ objects \subseteq Journals
        BY <2>1 DEF Init
    <2>8. results \in [Workflows -> [Requests -> Answers]]
        BY DEF Init, Answers
    <2> QED
        BY <2>4, <2>5, <2>6, <2>7, <2>8 DEF Init, Typed
<1>2. ASSUME NEW w \in Workflows
      PROVE  /\ PhaseFits(w) /\ BatchFits(w) /\ UploadsFit(w) /\ JournalFits(w)
             /\ LocksFit(w) /\ KeysFit(w)
    <2>1. /\ wf[w] = [at |-> "idle", order |-> <<>>, todo |-> {}, attempt |-> 0, uploads |-> 0, gen |-> 1]
          /\ tx[w] = NoTx
        BY DEF Init
    <2>2. \A j \in Journals : intents[j].state = "absent"
        BY DEF Init, NoIntent
    <2>3. PhaseFits(w) /\ UploadsFit(w) /\ LocksFit(w) /\ KeysFit(w)
        BY <2>1 DEF PhaseFits, UploadsFit, LocksFit, KeysFit, NoTx
    <2>4. BatchFits(w)
        BY <2>1 DEF BatchFits
    <2>5. JournalFits(w)
        BY <2>1, <2>2 DEF JournalFits, NoTx, Uploading
    <2> QED
        BY <2>3, <2>4, <2>5
<1>3. ASSUME NEW w \in Workflows, NEW v \in Workflows
      PROVE  Exclusive(w, v)
    BY DEF Init, Exclusive, NoTx, HoldsLane
<1>4. \A j \in Journals : intents[j].state = "absent"
    BY DEF Init, NoIntent
<1>5. Batches = {}
    BY DEF Init, Batches
<1>6. \A r \in Requests : ~Accepted(r)
    BY DEF Init, Accepted, NoReceipt
<1>7. \A r \in Requests : ReceiptFits(r)
    BY <1>6 DEF Init, ReceiptFits
<1>8. AcknowledgedIsAccepted
    BY DEF Init, AcknowledgedIsAccepted
<1>9. \A e \in Events : \A class : Occurrences(e, class) = {}
    BY <1>6 DEF Occurrences
<1>10. ASSUME NEW e \in Events
       PROVE  CountFits(e) /\ RowFits(e)
    <2>1. Cardinality(Occurrences(e, "accepted")) = 0
        BY <1>9, FS_EmptySet
    <2>2. dedupe[e].state = "absent" /\ lapses[e] = 0
        BY DEF Init, NoKey
    <2> QED
        BY <2>1, <2>2 DEF CountFits, RowFits
<1>11. ClassesAreTrue
    BY <1>9 DEF ClassesAreTrue
<1> QED
    BY <1>1, <1>2, <1>3, <1>4, <1>5, <1>7, <1>8, <1>10, <1>11 DEF Inductive, BatchesAreDurable

(* And every counter starts within its bound.                              *)
LEMMA InitBounded ==
    ASSUME AcceptanceAssumption, Init
    PROVE  Bounded
<1>1. 1 \in 1..MaxGeneration /\ 1 \in 1..MaxRevision /\ 0 \in 0..MaxRevision /\ 0 \in 0..MaxLapses
    BY DEF AcceptanceAssumption
<1>2. \A e \in Events : dedupe[e].state = "absent"
    BY DEF Init, NoKey
<1> QED
    BY <1>1, <1>2 DEF Init, Bounded

-----------------------------------------------------------------------------
(* Steps of a workflow that write no batch *)

(* What the invariant says of a workflow.                                  *)
LEMMA WorkflowFits ==
    ASSUME Inductive, NEW w \in Workflows
    PROVE  /\ PhaseFits(w) /\ BatchFits(w) /\ UploadsFit(w) /\ JournalFits(w)
           /\ LocksFit(w) /\ KeysFit(w)
BY DEF Inductive

(* A workflow keeps its place and its transaction, and nothing that they   *)
(* depend on moves.                                                        *)
LEMMA WorkflowKept ==
    ASSUME NEW v, wf'[v] = wf[v], tx'[v] = tx[v],
           generation' = generation, authority' = authority, snapshot' = snapshot,
           receipts' = receipts, dedupe' = dedupe,
           PhaseFits(v), BatchFits(v), UploadsFit(v), LocksFit(v), KeysFit(v)
    PROVE  PhaseFits(v)' /\ BatchFits(v)' /\ UploadsFit(v)' /\ LocksFit(v)' /\ KeysFit(v)'
<1>1. PhaseFits(v)'
    BY DEF PhaseFits
<1>2. BatchFits(v)'
    BY DEF BatchFits
<1>3. UploadsFit(v)'
    BY DEF UploadsFit
<1>4. LocksFit(v)'
    BY DEF LocksFit, Accepted
<1>5. KeysFit(v)'
    BY DEF KeysFit, KeysOf
<1> QED
    BY <1>1, <1>2, <1>3, <1>4, <1>5

(* The occurrences, while no receipt is written.                           *)
LEMMA OccurrencesKept ==
    ASSUME UNCHANGED receipts, NEW e, NEW class
    PROVE  Occurrences(e, class)' = Occurrences(e, class)
BY DEF Occurrences, Accepted

(* The classes stay true as long.                                          *)
LEMMA ClassesKept ==
    ASSUME receipts' = receipts, ClassesAreTrue
    PROVE  ClassesAreTrue'
<1>1. \A e, class : Occurrences(e, class)' = Occurrences(e, class)
    BY OccurrencesKept
<1> QED
    BY <1>1 DEF ClassesAreTrue

(* So do the counts and the rows, while no row is written.                 *)
LEMMA RowsKept ==
    ASSUME receipts' = receipts, dedupe' = dedupe, lapses' = lapses,
           NEW e, CountFits(e), RowFits(e)
    PROVE  CountFits(e)' /\ RowFits(e)'
<1>1. \A class : Occurrences(e, class)' = Occurrences(e, class)
    BY OccurrencesKept
<1> QED
    BY <1>1 DEF CountFits, RowFits

(* And the receipts, while no batch is written.                            *)
LEMMA ReceiptsKept ==
    ASSUME receipts' = receipts, log' = log, NEW r, ReceiptFits(r)
    PROVE  ReceiptFits(r)'
BY DEF ReceiptFits, Accepted

(* What such a step of w has to show: its own rows fit, and it has locked  *)
(* nothing that another transaction holds.                                 *)
LEMMA LocalStep ==
    ASSUME AcceptanceAssumption, Inductive, NEW w \in Workflows,
           NEW x \in Workflow, NEW y \in Transaction,
           wf' = [wf EXCEPT ![w] = x], tx' = [tx EXCEPT ![w] = y],
           results' \in [Workflows -> [Requests -> Answers]],
           objects' \in SUBSET Journals, objects \subseteq objects',
           UNCHANGED <<environment, log, receipts, dedupe>>,
           intents' \in [Journals -> Intent],
           \A j \in Journals : j[1] # w => intents'[j] = intents[j],
           \A j \in Journals : intents[j].state = "referenced" => intents'[j] = intents[j],
           \A j \in Journals : intents'[j].state \in {"uploaded", "referenced"} => j \in objects',
           PhaseFits(w)', BatchFits(w)', UploadsFit(w)', JournalFits(w)', LocksFit(w)', KeysFit(w)',
           \A v \in Workflows \ {w} : Exclusive(w, v)',
           AcknowledgedIsAccepted'
    PROVE  Inductive'
<1>1. Typed'
    BY DEF Inductive, Typed, environment
<1>2. \A v \in Workflows \ {w} : wf'[v] = wf[v] /\ tx'[v] = tx[v]
    BY DEF Inductive, Typed
<1>3. ASSUME NEW v \in Workflows \ {w}
      PROVE  /\ PhaseFits(v)' /\ BatchFits(v)' /\ UploadsFit(v)' /\ JournalFits(v)'
             /\ LocksFit(v)' /\ KeysFit(v)'
    <2>1. wf'[v] = wf[v] /\ tx'[v] = tx[v]
        BY <1>2
    <2>2. /\ generation' = generation /\ authority' = authority /\ snapshot' = snapshot
          /\ receipts' = receipts /\ dedupe' = dedupe
        BY DEF environment
    <2>3. PhaseFits(v) /\ BatchFits(v) /\ UploadsFit(v) /\ LocksFit(v) /\ KeysFit(v)
        BY WorkflowFits, Zenon
    <2>4. PhaseFits(v)' /\ BatchFits(v)' /\ UploadsFit(v)' /\ LocksFit(v)' /\ KeysFit(v)'
        BY <2>1, <2>2, <2>3, WorkflowKept, Zenon
    <2>5. JournalFits(v)'
        <3>1. Journal(v)' = Journal(v) /\ Journal(v)[1] = v
            BY <2>1 DEF Journal
        <3>2. Uploading(v)' <=> Uploading(v)
            BY <2>1 DEF Uploading
        <3>3. JournalFits(v)
            BY DEF Inductive
        <3>4. Journal(v) \in Journals => intents'[Journal(v)] = intents[Journal(v)]
            BY <3>1
        <3>5. \A j \in Journals : j[1] = v => intents'[j] = intents[j]
            OBVIOUS
        <3>6. wf[v].at = "mark" => Uploading(v)
            BY DEF Uploading
        <3>7. tx[v].phase = "limbo" => Uploading(v)
            BY DEF Uploading
        <3> QED
            BY <2>1, <3>1, <3>2, <3>3, <3>4, <3>5, <3>6, <3>7 DEF JournalFits
    <2> QED
        BY <2>4, <2>5, Zenon
<1>4. ASSUME NEW u \in Workflows, NEW v \in Workflows, u # v
      PROVE  Exclusive(u, v)'
    <2>1. CASE u # w /\ v # w
        <3>1. wf'[u] = wf[u] /\ tx'[u] = tx[u] /\ wf'[v] = wf[v] /\ tx'[v] = tx[v]
            BY <1>2, <2>1
        <3>2. Exclusive(u, v)
            BY <1>4 DEF Inductive
        <3> QED
            BY <3>1, <3>2 DEF Exclusive, HoldsLane, Lane
    <2>2. CASE u = w
        BY <1>4, <2>2
    <2>3. CASE v = w
        <3>1. Exclusive(v, u)'
            BY <1>4, <2>3
        <3> QED
            BY <3>1 DEF Exclusive
    <2> QED
        BY <2>1, <2>2, <2>3
<1>5. BatchesAreDurable'
    <2>1. Batches' = Batches
        BY DEF Batches
    <2>2. ASSUME NEW b \in Batches
          PROVE  LET j == Batch(b[1], b[2])'.journal
                 IN  /\ j \in objects' /\ intents'[j].state = "referenced"
                     /\ intents'[j].requests = Batch(b[1], b[2])'.requests
        <3>1. Batch(b[1], b[2])' = Batch(b[1], b[2])
            BY DEF Batch
        <3>2. PICK j : j = Batch(b[1], b[2]).journal
            OBVIOUS
        <3>3. j \in objects /\ intents[j].state = "referenced"
              /\ intents[j].requests = Batch(b[1], b[2]).requests
            BY <3>2 DEF Inductive, BatchesAreDurable
        <3>4. j \in Journals
            BY <3>3 DEF Inductive, Typed
        <3> QED
            BY <3>1, <3>2, <3>3, <3>4
    <2> QED
        BY <2>1, <2>2 DEF BatchesAreDurable
<1>6. receipts' = receipts /\ log' = log /\ dedupe' = dedupe /\ lapses' = lapses
    BY DEF environment
<1>7. \A r \in Requests : ReceiptFits(r)'
    <2>1. \A r \in Requests : ReceiptFits(r)
        BY Zenon DEF Inductive
    <2> QED
        BY <1>6, <2>1, ReceiptsKept, Zenon
<1>8. \A e \in Events : CountFits(e)' /\ RowFits(e)'
    <2>1. \A e \in Events : CountFits(e) /\ RowFits(e)
        BY Zenon DEF Inductive
    <2> QED
        BY <1>6, <2>1, RowsKept, Zenon
<1>9. ClassesAreTrue'
    BY <1>6, ClassesKept, Zenon DEF Inductive
<1> QED
    BY <1>1, <1>3, <1>4, <1>5, <1>7, <1>8, <1>9 DEF Inductive

(* A step that only moves w and its transaction.                           *)
LEMMA QuietStep ==
    ASSUME AcceptanceAssumption, Inductive, NEW w \in Workflows,
           NEW x \in Workflow, NEW y \in Transaction,
           wf' = [wf EXCEPT ![w] = x], tx' = [tx EXCEPT ![w] = y],
           results' \in [Workflows -> [Requests -> Answers]],
           objects' \in SUBSET Journals, objects \subseteq objects',
           UNCHANGED <<environment, database>>,
           PhaseFits(w)', BatchFits(w)', UploadsFit(w)', JournalFits(w)', LocksFit(w)', KeysFit(w)',
           \A v \in Workflows \ {w} : Exclusive(w, v)',
           AcknowledgedIsAccepted'
    PROVE  Inductive'
<1>1. UNCHANGED <<environment, log, receipts, dedupe>> /\ intents' = intents
    BY DEF database
<1>2. /\ intents' \in [Journals -> Intent]
      /\ \A j \in Journals : intents'[j].state \in {"uploaded", "referenced"} => j \in objects'
    BY <1>1 DEF Inductive, Typed
<1> QED
    BY <1>1, <1>2, LocalStep

(* A subset that is run again has spent no more journals than its share.   *)
LEMMA SmallerSubset ==
    ASSUME NEW m \in Nat, NEW n \in Nat, NEW c \in Nat, NEW d \in Nat, d < c, c <= n
    PROVE  m * (n - c) + m <= m * (n - d)
<1>1. PICK k \in Nat : n - d = (n - c) + 1 + k
    <2>1. (n - d) - (n - c) - 1 \in Nat /\ n - d = (n - c) + 1 + ((n - d) - (n - c) - 1)
        OBVIOUS
    <2> QED
        BY <2>1
<1>2. n - c \in Nat
    OBVIOUS
<1>3. m * ((n - c) + 1 + k) = m * (n - c) + m + m * k
    BY <1>2
<1>4. m * k \in Nat /\ m * (n - c) \in Nat
    BY <1>2
<1> QED
    BY <1>1, <1>3, <1>4

(* The commands left, and how many there are.                              *)
LEMMA TodoFinite ==
    ASSUME AcceptanceAssumption, NEW S \in SUBSET Requests
    PROVE  /\ IsFiniteSet(S) /\ Cardinality(S) \in Nat /\ Cardinality(Requests) \in Nat
           /\ Cardinality(S) <= Cardinality(Requests)
           /\ \A T \in SUBSET S : T # S => Cardinality(T) < Cardinality(S)
           /\ S # {} => Cardinality(S) >= 1
<1>1. IsFiniteSet(Requests)
    BY DEF AcceptanceAssumption
<1>2. IsFiniteSet(S) /\ Cardinality(S) <= Cardinality(Requests)
    BY <1>1, FS_Subset
<1>3. Cardinality(S) \in Nat /\ Cardinality(Requests) \in Nat
    BY <1>1, <1>2, FS_CardinalityType
<1>4. ASSUME NEW T \in SUBSET S, T # S
      PROVE  Cardinality(T) < Cardinality(S)
    <2>1. IsFiniteSet(T) /\ Cardinality(T) <= Cardinality(S) /\ Cardinality(T) # Cardinality(S)
        BY <1>2, <1>4, FS_Subset
    <2>2. Cardinality(T) \in Nat
        BY <2>1, FS_CardinalityType
    <2> QED
        BY <1>3, <2>1, <2>2
<1>5. S # {} => Cardinality(S) >= 1
    BY <1>2, <1>3, FS_EmptySet
<1> QED
    BY <1>2, <1>3, <1>4, <1>5

(* A workflow that has moved is a workflow.                                *)
LEMMA MovedWorkflow ==
    ASSUME NEW x \in Workflow, NEW todo \in SUBSET Requests, NEW at \in Points,
           NEW attempt \in 0..MaxUploadAttempts
    PROVE  [x EXCEPT !.todo = todo, !.at = at, !.attempt = attempt] \in Workflow
BY DEF Workflow

(* Commands are answered, the transaction is rolled back, and the rest is  *)
(* run again.                                                              *)
LEMMA AnswerStep ==
    ASSUME AcceptanceAssumption, Inductive, NEW w \in Workflows,
           NEW R \in SUBSET wf[w].todo, R # {}, NEW answer \in Answers,
           wf[w].at \notin {"idle", "confirm", "done"},
           AnswerAndContinue(w, R, answer),
           answer = "receipt" => \A r \in R : Accepted(r),
           objects' \in SUBSET Journals, objects \subseteq objects',
           UNCHANGED <<environment, database>>
    PROVE  Inductive'
<1> DEFINE rest == wf[w].todo \ R
           x == [wf[w] EXCEPT !.todo = IF rest = {} THEN @ ELSE rest,
                              !.at = IF rest = {} THEN "done" ELSE "register",
                              !.attempt = IF rest = {} THEN @ ELSE 1]
<1>1. wf[w] \in Workflow /\ tx[w] \in Transaction
    BY DEF Inductive, Typed
<1>2. x \in Workflow /\ NoTx \in Transaction
    <2>1. 1 \in 0..MaxUploadAttempts
        BY DEF AcceptanceAssumption
    <2>2. rest \subseteq Requests
        BY <1>1 DEF Workflow
    <2>4. "done" \in Points /\ "register" \in Points
        BY DEF Points
    <2>5. /\ (IF rest = {} THEN wf[w].todo ELSE rest) \in SUBSET Requests
          /\ (IF rest = {} THEN "done" ELSE "register") \in Points
          /\ (IF rest = {} THEN wf[w].attempt ELSE 1) \in 0..MaxUploadAttempts
        BY <1>1, <2>1, <2>2, <2>4 DEF Workflow
    <2>6. x \in Workflow
        BY <1>1, <2>5, MovedWorkflow
    <2> QED
        BY <2>6 DEF NoTx, Transaction
<1>3. wf' = [wf EXCEPT ![w] = x] /\ tx' = [tx EXCEPT ![w] = NoTx]
    BY <1>1 DEF AnswerAndContinue, Workflow
<1>4. /\ wf'[w] = x /\ tx'[w] = NoTx
      /\ x.todo = (IF rest = {} THEN wf[w].todo ELSE rest)
      /\ x.at = (IF rest = {} THEN "done" ELSE "register")
      /\ x.attempt = (IF rest = {} THEN wf[w].attempt ELSE 1)
      /\ x.order = wf[w].order /\ x.uploads = wf[w].uploads /\ x.gen = wf[w].gen
    BY <1>1, <1>3 DEF Inductive, Typed, Workflow
<1>5. PhaseFits(w)' /\ LocksFit(w)' /\ KeysFit(w)'
    BY <1>4 DEF PhaseFits, LocksFit, KeysFit, NoTx
<1>6. BatchFits(w)'
    <2>1. BatchFits(w)
        BY DEF Inductive
    <2>2. x.todo \subseteq wf[w].todo /\ x.todo # {}
        BY <1>4
    <2> QED
        BY <1>4, <2>1, <2>2 DEF BatchFits, environment
<1>7. UploadsFit(w)'
    <2>1. UploadsFit(w) /\ MaxUploadAttempts \in Nat
        BY DEF Inductive, AcceptanceAssumption
    <2>2. wf[w].attempt \in Nat /\ wf[w].attempt <= MaxUploadAttempts /\ wf[w].uploads \in Nat
        BY <1>1, <2>1 DEF Workflow
    <2>3. CASE rest = {}
        <3>1. Cardinality(wf[w].todo) \in Nat /\ Cardinality(Requests) \in Nat
            BY <1>1, TodoFinite DEF Workflow
        <3> DEFINE spent == MaxUploadAttempts * (Cardinality(Requests) - Cardinality(wf[w].todo))
        <3>2. spent \in Int
            BY <2>1, <3>1
        <3>3. wf[w].uploads + (IF wf[w].at = "register" THEN 1 ELSE 0) <= spent + wf[w].attempt
            BY <2>1 DEF UploadsFit
        <3> HIDE DEF spent
        <3>4. wf[w].uploads + 0 <= spent + wf[w].attempt
            BY <2>2, <3>2, <3>3
        <3> QED
            BY <1>4, <2>3, <3>4 DEF UploadsFit, spent
    <2>4. CASE rest # {}
        <3>1. /\ Cardinality(wf[w].todo) \in Nat /\ Cardinality(Requests) \in Nat
              /\ Cardinality(wf[w].todo) <= Cardinality(Requests)
              /\ rest \in SUBSET wf[w].todo /\ rest # wf[w].todo
            BY <1>1, TodoFinite DEF Workflow
        <3>2. Cardinality(rest) \in Nat /\ Cardinality(rest) < Cardinality(wf[w].todo)
            BY <1>1, <3>1, TodoFinite DEF Workflow
        <3> DEFINE spent == MaxUploadAttempts * (Cardinality(Requests) - Cardinality(wf[w].todo))
                   more == MaxUploadAttempts * (Cardinality(Requests) - Cardinality(rest))
        <3>3. spent + MaxUploadAttempts <= more
            BY <2>1, <3>1, <3>2, SmallerSubset
        <3>4. spent \in Int /\ more \in Int
            BY <2>1, <3>1, <3>2
        <3>5. wf[w].uploads + (IF wf[w].at = "register" THEN 1 ELSE 0) <= spent + wf[w].attempt
            BY <2>1 DEF UploadsFit
        <3> HIDE DEF spent, more
        <3>6. wf[w].uploads + 1 <= more + 1
            BY <2>1, <2>2, <3>3, <3>4, <3>5
        <3> QED
            BY <1>4, <2>4, <3>6 DEF UploadsFit, more
    <2> QED
        BY <2>3, <2>4
<1>8. JournalFits(w)'
    <2>1. JournalFits(w) /\ intents' = intents
        BY DEF Inductive, database
    <2>2. ~Uploading(w)' /\ wf'[w].at # "mark" /\ tx'[w].phase # "limbo"
        BY <1>4 DEF Uploading, NoTx
    <2> QED
        BY <1>4, <2>1, <2>2 DEF JournalFits
<1>9. \A v \in Workflows \ {w} : Exclusive(w, v)'
    BY <1>4 DEF Exclusive, HoldsLane, NoTx
<1>10. AcknowledgedIsAccepted'
    <2>1. \A r \in Requests : Accepted(r)' <=> Accepted(r)
        BY DEF Accepted, database
    <2>2. \A v \in Workflows, r \in Requests :
              results'[v][r] = IF v = w /\ r \in R THEN answer ELSE results[v][r]
        BY DEF AnswerAndContinue, Inductive, Typed
    <2> QED
        BY <2>1, <2>2 DEF AcknowledgedIsAccepted, Inductive
<1>11. results' \in [Workflows -> [Requests -> Answers]]
    BY DEF AnswerAndContinue, Inductive, Typed
<1> QED
    BY <1>2, <1>3, <1>5, <1>6, <1>7, <1>8, <1>9, <1>10, <1>11, QuietStep

(* A workflow that goes on keeps its batch, its lane and its keys.         *)
LEMMA GoneOn ==
    ASSUME Typed, NEW w \in Workflows, NEW a, wf' = [wf EXCEPT ![w].at = a]
    PROVE  /\ wf'[w] = [wf[w] EXCEPT !.at = a]
           /\ wf'[w].at = a /\ wf'[w].order = wf[w].order /\ wf'[w].todo = wf[w].todo
           /\ wf'[w].attempt = wf[w].attempt /\ wf'[w].uploads = wf[w].uploads
           /\ wf'[w].gen = wf[w].gen
           /\ Journal(w)' = Journal(w) /\ KeysOf(w)' = KeysOf(w) /\ Lane(w)' = Lane(w)
           /\ \A v \in Workflows \ {w} : wf'[v] = wf[v] /\ Lane(v)' = Lane(v)
<1>1. wf[w] \in Workflow
    BY DEF Typed
<1>2. /\ wf'[w] = [wf[w] EXCEPT !.at = a]
      /\ wf'[w].at = a /\ wf'[w].order = wf[w].order /\ wf'[w].todo = wf[w].todo
      /\ wf'[w].attempt = wf[w].attempt /\ wf'[w].uploads = wf[w].uploads
      /\ wf'[w].gen = wf[w].gen
    BY <1>1 DEF Typed, Workflow
<1>3. \A v \in Workflows \ {w} : wf'[v] = wf[v]
    BY DEF Typed
<1>4. Journal(w)' = Journal(w) /\ KeysOf(w)' = KeysOf(w) /\ Lane(w)' = Lane(w)
    BY <1>2 DEF Journal, KeysOf, Lane
<1>5. \A v \in Workflows \ {w} : Lane(v)' = Lane(v)
    BY <1>3 DEF Lane
<1> QED
    BY <1>2, <1>3, <1>4, <1>5

(* Going on changes nothing of the batch and spends no journal.            *)
LEMMA BatchKept ==
    ASSUME AcceptanceAssumption, Inductive, NEW w \in Workflows, wf[w].at # "idle",
           NEW a \in Points, a \notin {"idle", "register"},
           wf' = [wf EXCEPT ![w].at = a], UNCHANGED environment
    PROVE  /\ [wf[w] EXCEPT !.at = a] \in Workflow
           /\ wf' = [wf EXCEPT ![w] = [wf[w] EXCEPT !.at = a]]
           /\ BatchFits(w)' /\ UploadsFit(w)'
<1>1. wf[w] \in Workflow /\ Typed
    BY DEF Inductive, Typed
<1>2. /\ wf'[w].at = a /\ wf'[w].order = wf[w].order /\ wf'[w].todo = wf[w].todo
      /\ wf'[w].attempt = wf[w].attempt /\ wf'[w].uploads = wf[w].uploads
    BY <1>1, GoneOn
<1>3. [wf[w] EXCEPT !.at = a] \in Workflow /\ wf' = [wf EXCEPT ![w] = [wf[w] EXCEPT !.at = a]]
    BY <1>1 DEF Workflow
<1>4. BatchFits(w)'
    BY <1>2 DEF Inductive, BatchFits, environment
<1>5. UploadsFit(w)'
    <2> DEFINE spent == MaxUploadAttempts * (Cardinality(Requests) - Cardinality(wf[w].todo))
    <2>1. spent \in Int
        <3>1. Cardinality(wf[w].todo) \in Nat /\ Cardinality(Requests) \in Nat /\ MaxUploadAttempts \in Nat
            BY <1>1, TodoFinite DEF Workflow, AcceptanceAssumption
        <3> QED
            BY <3>1
    <2>2. wf[w].uploads + (IF wf[w].at = "register" THEN 1 ELSE 0) <= spent + wf[w].attempt
        BY DEF Inductive, UploadsFit
    <2>3. wf[w].uploads \in Nat /\ wf[w].attempt \in Int
        BY <1>1 DEF Workflow
    <2> HIDE DEF spent
    <2>4. wf[w].uploads + 0 <= spent + wf[w].attempt
        BY <2>1, <2>2, <2>3
    <2> QED
        BY <1>2, <2>4 DEF UploadsFit, spent
<1> QED
    BY <1>3, <1>4, <1>5

(* A workflow goes on with the journal it has uploaded or is uploading.    *)
LEMMA MoveStep ==
    ASSUME AcceptanceAssumption, Inductive, NEW w \in Workflows, Uploading(w),
           NEW a \in Points, a \notin {"idle", "register"}, NEW y \in Transaction,
           wf' = [wf EXCEPT ![w].at = a], tx' = [tx EXCEPT ![w] = y],
           results' \in [Workflows -> [Requests -> Answers]], AcknowledgedIsAccepted',
           objects' \in SUBSET Journals, objects \subseteq objects',
           UNCHANGED <<environment, database>>,
           a = "mark" => Journal(w) \in objects',
           y.phase = "limbo" => /\ intents[Journal(w)].state = "uploaded"
                                /\ intents[Journal(w)].gen = wf[w].gen,
           PhaseFits(w)', LocksFit(w)', KeysFit(w)',
           \A v \in Workflows \ {w} : Exclusive(w, v)'
    PROVE  Inductive'
<1>1. Typed /\ wf[w].at # "idle" /\ UNCHANGED environment
    BY DEF Inductive, Uploading, PhaseFits
<1>2. /\ [wf[w] EXCEPT !.at = a] \in Workflow
      /\ wf' = [wf EXCEPT ![w] = [wf[w] EXCEPT !.at = a]]
      /\ BatchFits(w)' /\ UploadsFit(w)'
    BY <1>1, BatchKept
<1>3. JournalFits(w)'
    <2>1. JournalFits(w) /\ intents' = intents /\ tx'[w] = y
        BY <1>1, WorkflowFits DEF database, Typed
    <2>2. /\ wf'[w].at = a /\ wf'[w].todo = wf[w].todo /\ wf'[w].uploads = wf[w].uploads
          /\ wf'[w].gen = wf[w].gen
        BY <1>1 DEF Typed, Workflow
    <2>3. Journal(w)' = Journal(w)
        BY <2>2 DEF Journal
    <2> QED
        BY <2>1, <2>2, <2>3 DEF JournalFits
<1> QED
    BY <1>2, <1>3, QuietStep

(* The transaction is rolled back: the workflow tries again, or looks up   *)
(* what became of it.                                                      *)
LEMMA RollbackStep ==
    ASSUME AcceptanceAssumption, Inductive, NEW w \in Workflows, Uploading(w),
           NEW a \in {"begin", "confirm"},
           wf' = [wf EXCEPT ![w].at = a], tx' = [tx EXCEPT ![w] = NoTx],
           UNCHANGED <<environment, results, objects, database>>
    PROVE  Inductive'
<1>1. Typed
    BY DEF Inductive
<1>2. wf'[w].at = a /\ tx'[w] = NoTx
    BY <1>1, GoneOn DEF Typed
<1>3. PhaseFits(w)' /\ LocksFit(w)' /\ KeysFit(w)'
    BY <1>2 DEF PhaseFits, LocksFit, KeysFit, NoTx
<1>4. \A v \in Workflows \ {w} : Exclusive(w, v)'
    BY <1>2 DEF Exclusive, HoldsLane, NoTx
<1>5. AcknowledgedIsAccepted' /\ results' \in [Workflows -> [Requests -> Answers]]
    BY DEF Inductive, AcknowledgedIsAccepted, Accepted, database, Typed
<1>6. objects' \in SUBSET Journals /\ objects \subseteq objects' /\ UNCHANGED <<environment, database>>
    BY <1>1 DEF Typed
<1>7. /\ a \in Points /\ a \notin {"idle", "register"} /\ a # "mark"
      /\ NoTx \in Transaction /\ NoTx.phase # "limbo"
    BY DEF Points, NoTx, Transaction
<1> QED
    BY <1>3, <1>4, <1>5, <1>6, <1>7, MoveStep
=============================================================================
