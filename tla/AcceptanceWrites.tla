-------------------------- MODULE AcceptanceWrites --------------------------
(***************************************************************************)
(* Writing a batch preserves the inductive invariant of acceptance: what a *)
(* transaction with its lane and its keys locked writes makes each source  *)
(* event accepted once and classifies every other candidate truly. So do   *)
(* the commit, its lost reply and what becomes of it.                      *)
(***************************************************************************)
EXTENDS AcceptanceFrames

-----------------------------------------------------------------------------
(* The write *)

(* Every key of a batch has one winner, the first candidate of its event.  *)
LEMMA WinnerExists ==
    ASSUME AcceptanceAssumption, NEW w, wf[w] \in Workflow, BatchFits(w),
           NEW e \in KeysOf(w)
    PROVE  \E r \in wf[w].todo : \E k \in DOMAIN Content[r] :
               /\ Content[r][k].source = e /\ IsWinner(w, r, k)
               /\ Content[r][k].hash = WinnerHash(w, e)
               /\ \A q \in wf[w].todo : \A n \in DOMAIN Content[q] :
                     Content[q][n].source = e /\ IsWinner(w, q, n) => q = r /\ n = k
<1> DEFINE order == wf[w].order
           S == {i \in DOMAIN order : order[i] \in wf[w].todo /\ e \in EventsOf(order[i])}
           m == Min(S)
           r == order[m]
           K == {k \in DOMAIN Content[r] : Content[r][k].source = e}
           k == Min(K)
<1>1. order \in Seq(Requests) /\ DOMAIN order \subseteq Nat /\ wf[w].todo \subseteq Requests
    BY DEF Workflow
<1>2. S \subseteq Nat /\ S # {}
    <2>1. PICK q \in wf[w].todo : e \in EventsOf(q)
        BY DEF KeysOf
    <2>2. PICK i \in DOMAIN order : order[i] = q
        BY <2>1 DEF BatchFits
    <2> QED
        BY <1>1, <2>1, <2>2
<1>3. m \in S /\ \A i \in S : m <= i
    <2> HIDE DEF S
    <2> QED
        BY <1>2, SmallestExists
<1>4. r \in wf[w].todo /\ e \in EventsOf(r) /\ m \in DOMAIN order
    BY <1>3
<1> HIDE DEF m
<1>5. \A i, n \in DOMAIN order : order[i] = order[n] => i = n
    BY DEF BatchFits
<1>6. IsFirst(w, r, e)
    <2>1. ASSUME NEW q \in wf[w].todo, Precedes(w, q, r), e \in EventsOf(q)
          PROVE  FALSE
        <3>1. PICK i, n \in DOMAIN order : i < n /\ order[i] = q /\ order[n] = r
            BY <2>1 DEF Precedes
        <3>2. n = m /\ i \in S
            BY <1>4, <1>5, <2>1, <3>1
        <3> QED
            BY <1>1, <1>3, <1>4, <3>1, <3>2
    <2> QED
        BY <1>4, <2>1 DEF IsFirst
<1>7. ASSUME NEW q \in wf[w].todo, IsFirst(w, q, e)
      PROVE  q = r
    <2>1. PICK i \in DOMAIN order : order[i] = q
        BY DEF BatchFits
    <2>2. i \in S /\ m <= i /\ i \in Nat /\ m \in Nat
        BY <1>1, <1>3, <1>4, <1>7, <2>1 DEF IsFirst
    <2>3. ~(m < i)
        <3>1. m < i => Precedes(w, r, q)
            BY <1>4, <2>1 DEF Precedes
        <3> QED
            BY <1>4, <1>7, <3>1 DEF IsFirst
    <2>4. i = m
        BY <2>2, <2>3
    <2> QED
        BY <2>1, <2>4
<1>8. Content[r] \in Seq(Range(Content[r])) /\ DOMAIN Content[r] \subseteq Nat \ {0}
    <2>1. r \in Requests
        BY <1>1, <1>4
    <2>2. Content[r] \in Seq(Range(Content[r]))
        BY <2>1 DEF AcceptanceAssumption
    <2> QED
        BY <2>2
<1>9. K \subseteq Nat /\ K # {}
    <2>1. PICK c \in Range(Content[r]) : c.source = e
        BY <1>4 DEF EventsOf
    <2>2. PICK i \in DOMAIN Content[r] : Content[r][i] = c
        BY <2>1 DEF Range
    <2> QED
        BY <1>8, <2>1, <2>2
<1>10. k \in K /\ \A n \in K : k <= n
    <2> HIDE DEF K
    <2> QED
        BY <1>9, SmallestExists
<1>11. WinnerHash(w, e) = Content[r][k].hash
    <2>1. (CHOOSE q \in wf[w].todo : IsFirst(w, q, e)) = r
        BY <1>4, <1>6, <1>7
    <2> QED
        BY <2>1 DEF WinnerHash
<1>12. Content[r][k].source = e /\ k \in DOMAIN Content[r] /\ k \in Nat \ {0}
    BY <1>8, <1>10
<1> HIDE DEF k
<1>13. IsWinner(w, r, k)
    <2>1. ASSUME NEW n \in 1..(k - 1), Content[r][n].source = e
          PROVE  FALSE
        <3>1. n \in DOMAIN Content[r]
            BY <1>8, <1>12
        <3>2. n \in K
            BY <2>1, <3>1
        <3>3. k <= n
            BY <1>10, <3>2
        <3> QED
            BY <1>12, <3>3
    <2> QED
        BY <1>6, <1>12, <2>1 DEF IsWinner
<1>14. ASSUME NEW q \in wf[w].todo, NEW n \in DOMAIN Content[q],
              Content[q][n].source = e, IsWinner(w, q, n)
       PROVE  q = r /\ n = k
    <2>1. q = r
        BY <1>7, <1>14 DEF IsWinner
    <2>2. n \in K /\ k <= n /\ n \in Nat
        BY <1>8, <1>10, <1>14, <2>1
    <2>3. ~(k < n)
        <3>1. k < n => k \in 1..(n - 1)
            BY <1>12, <2>2, EarlierIndex, Zenon
        <3> QED
            BY <1>12, <1>14, <2>1, <3>1 DEF IsWinner
    <2> QED
        BY <1>12, <2>1, <2>2, <2>3
<1> HIDE DEF r
<1> QED
    BY <1>4, <1>11, <1>12, <1>13, <1>14


(* What a transaction that commits leaves in the tables.                   *)
LEMMA Written ==
    ASSUME AcceptanceAssumption, Inductive, NEW w \in Workflows,
           tx[w].phase \in {"lane", "limbo"}, intents[Journal(w)].state = "uploaded", Write(w)
    PROVE  /\ Lane(w) \in Lanes /\ wf[w].todo # {} /\ wf[w].todo \subseteq Requests
           /\ \A r \in wf[w].todo : LaneOf[r] = Lane(w) /\ ~Accepted(r)
           /\ Journal(w) \in Journals /\ Journal(w) \in objects
           /\ intents[Journal(w)].requests = wf[w].todo
           /\ log' = [log EXCEPT ![Lane(w)] =
                         Append(@, [journal |-> Journal(w), requests |-> wf[w].todo])]
           /\ log' \in [Lanes -> Seq([journal : Journals, requests : SUBSET Requests])]
           /\ \A r \in Requests \ wf[w].todo : receipts'[r] = receipts[r]
           /\ \A r \in wf[w].todo :
                 receipts'[r] = [lane |-> Lane(w), seq |-> Len(log[Lane(w)]) + 1,
                                 classes |-> [k \in 1..Len(Content[r]) |-> Class(w, r, k)]]
           /\ receipts' \in [Requests -> [lane : Lanes \cup {"none"}, seq : Nat, classes : Seq(Classes)]]
           /\ \A r \in Requests : Accepted(r)' <=> Accepted(r) \/ r \in wf[w].todo
           /\ intents' \in [Journals -> Intent]
           /\ intents'[Journal(w)].state = "referenced"
           /\ intents'[Journal(w)].requests = wf[w].todo
           /\ \A j \in Journals : j # Journal(w) => intents'[j] = intents[j]
<1> DEFINE l == Lane(w)
           T == wf[w].todo
           j == Journal(w)
           b == [journal |-> j, requests |-> T]
           n == Len(log[l]) + 1
           receipt(r) == [lane |-> l, seq |-> n, classes |-> [k \in 1..Len(Content[r]) |-> Class(w, r, k)]]
<1>1. Typed /\ wf[w] \in Workflow /\ PhaseFits(w) /\ BatchFits(w) /\ JournalFits(w) /\ LocksFit(w)
    BY DEF Inductive, Typed
<1>2. wf[w].at # "idle" /\ Uploading(w)
    BY <1>1 DEF PhaseFits, Uploading, Workflow, Points
<1>3. T # {} /\ T \subseteq Requests
    BY <1>1, <1>2 DEF BatchFits, Workflow
<1>4. l \in Lanes /\ \A r \in T : LaneOf[r] = l /\ ~Accepted(r)
    <2>1. PICK q \in T : q = CHOOSE r \in T : TRUE
        BY <1>3
    <2>2. l = LaneOf[q]
        BY <2>1 DEF Lane
    <2> QED
        BY <1>1, <1>3, <2>1, <2>2 DEF BatchFits, LocksFit, AcceptanceAssumption
<1>5. j \in Journals /\ j \in objects /\ intents[j].requests = T
    BY <1>1, <1>2 DEF JournalFits, Inductive
<1>6. /\ log' = [log EXCEPT ![l] = Append(@, b)]
      /\ receipts' = [r \in Requests |-> IF r \in T THEN receipt(r) ELSE receipts[r]]
      /\ intents' = [intents EXCEPT ![j].state = "referenced"]
    BY DEF Write
<1>7. b \in [journal : Journals, requests : SUBSET Requests]
    BY <1>3, <1>5
<1> HIDE DEF l, T, j, b
<1>8. log' \in [Lanes -> Seq([journal : Journals, requests : SUBSET Requests])]
    <2>1. log[l] \in Seq([journal : Journals, requests : SUBSET Requests])
        BY <1>1, <1>4 DEF Typed
    <2>2. Append(log[l], b) \in Seq([journal : Journals, requests : SUBSET Requests])
        BY <1>7, <2>1
    <2> QED
        BY <1>1, <1>4, <1>6, <2>2 DEF Typed
<1>9. n \in Nat /\ n # 0
    <2>1. log[l] \in Seq([journal : Journals, requests : SUBSET Requests])
        BY <1>1, <1>4 DEF Typed
    <2> QED
        BY <2>1
<1> HIDE DEF n
<1>10. ASSUME NEW r \in T
       PROVE  receipt(r) \in [lane : Lanes \cup {"none"}, seq : Nat, classes : Seq(Classes)]
    <2>1. Len(Content[r]) \in Nat
        <3>1. Content[r] \in Seq(Range(Content[r]))
            BY <1>3, <1>10 DEF AcceptanceAssumption
        <3> QED
            BY <3>1
    <2>2. \A k \in 1..Len(Content[r]) : Class(w, r, k) \in Classes
        BY DEF Class, Classes
    <2>3. [k \in 1..Len(Content[r]) |-> Class(w, r, k)] \in Seq(Classes)
        BY <2>1, <2>2
    <2> QED
        BY <1>4, <1>9, <2>3
<1>11. /\ \A r \in Requests \ T : receipts'[r] = receipts[r]
       /\ \A r \in T : receipts'[r] = receipt(r)
    BY <1>3, <1>6
<1>12. receipts' \in [Requests -> [lane : Lanes \cup {"none"}, seq : Nat, classes : Seq(Classes)]]
    <2> HIDE DEF receipt
    <2> QED
        BY <1>1, <1>6, <1>10 DEF Typed
<1>13. \A r \in Requests : Accepted(r)' <=> Accepted(r) \/ r \in T
    <2>1. ASSUME NEW r \in T
          PROVE  receipts'[r].seq = n
        <3> DEFINE c == [k \in 1..Len(Content[r]) |-> Class(w, r, k)]
        <3>1. receipts'[r] = [lane |-> l, seq |-> n, classes |-> c]
            BY <1>11
        <3> HIDE DEF c
        <3> QED
            BY <3>1
    <2> HIDE DEF receipt
    <2> QED
        BY <1>9, <1>11, <2>1 DEF Accepted
<1>14. /\ intents' \in [Journals -> Intent]
       /\ intents'[j].state = "referenced" /\ intents'[j].requests = T
       /\ \A k \in Journals : k # j => intents'[k] = intents[k]
    <2>1. intents[j] \in Intent
        BY <1>1, <1>5 DEF Typed
    <2>2. [intents[j] EXCEPT !.state = "referenced"] \in Intent
        BY <2>1 DEF Intent
    <2> QED
        BY <1>1, <1>5, <1>6, <2>1, <2>2 DEF Typed, Intent
<1> QED
    BY <1>3, <1>4, <1>5, <1>6, <1>8, <1>11, <1>12, <1>13, <1>14 DEF l, T, j, b, n


(* The candidates of a batch with an event and a class.                    *)
Counted(w, e, class) ==
    {o \in UNION {{r} \X DOMAIN Content[r] : r \in wf[w].todo} :
        Content[o[1]][o[2]].source = e /\ Class(w, o[1], o[2]) = class}

(* The occurrences of an event after the write: those before it, and the   *)
(* candidates of the batch.                                                *)
LEMMA OccurrencesWritten ==
    ASSUME AcceptanceAssumption, Inductive, NEW w \in Workflows,
           tx[w].phase \in {"lane", "limbo"}, intents[Journal(w)].state = "uploaded", Write(w),
           NEW e, NEW class
    PROVE  Occurrences(e, class)' = Occurrences(e, class) \cup Counted(w, e, class)
<1> DEFINE T == wf[w].todo
           Cand(R) == UNION {{r} \X DOMAIN Content[r] : r \in R}
           Old == {q \in Requests : Accepted(q)}
           New == {q \in Requests : Accepted(q)'}
<1>1. /\ T \subseteq Requests /\ \A r \in T : ~Accepted(r)
      /\ \A r \in Requests \ T : receipts'[r] = receipts[r]
      /\ \A r \in T : receipts'[r] = [lane |-> Lane(w), seq |-> Len(log[Lane(w)]) + 1,
                                      classes |-> [k \in 1..Len(Content[r]) |-> Class(w, r, k)]]
      /\ \A r \in Requests : Accepted(r)' <=> Accepted(r) \/ r \in T
    BY Written
<1>2. New = Old \cup T
    BY <1>1
<1>3. Cand(New) = Cand(Old) \cup Cand(T)
    BY <1>2
<1>4. ASSUME NEW o \in Cand(Old)
      PROVE  o[1] \in Requests /\ o[1] \notin T /\ receipts'[o[1]] = receipts[o[1]]
    BY <1>1
<1>5. ASSUME NEW o \in Cand(T)
      PROVE  receipts'[o[1]].classes[o[2]] = Class(w, o[1], o[2])
    <2>1. PICK r \in T : o \in {r} \X DOMAIN Content[r]
        OBVIOUS
    <2>2. o[1] = r /\ o[2] \in DOMAIN Content[r]
        BY <2>1
    <2>3. DOMAIN Content[r] = 1..Len(Content[r])
        <3>1. Content[r] \in Seq(Range(Content[r]))
            BY <1>1 DEF AcceptanceAssumption
        <3> QED
            BY <3>1
    <2>4. receipts'[r].classes = [k \in 1..Len(Content[r]) |-> Class(w, r, k)]
        <3> DEFINE c == [k \in 1..Len(Content[r]) |-> Class(w, r, k)]
        <3>1. receipts'[r] = [lane |-> Lane(w), seq |-> Len(log[Lane(w)]) + 1, classes |-> c]
            BY <1>1
        <3> HIDE DEF c
        <3>2. receipts'[r].classes = c
            BY <3>1
        <3> QED
            BY <3>2 DEF c
    <2> QED
        BY <2>2, <2>3, <2>4
<1>6. Occurrences(e, class)' =
          {o \in Cand(New) : Content[o[1]][o[2]].source = e /\ receipts'[o[1]].classes[o[2]] = class}
    BY DEF Occurrences
<1>7. Occurrences(e, class) =
          {o \in Cand(Old) : Content[o[1]][o[2]].source = e /\ receipts[o[1]].classes[o[2]] = class}
    BY DEF Occurrences
<1>8. Counted(w, e, class) =
          {o \in Cand(T) : Content[o[1]][o[2]].source = e /\ Class(w, o[1], o[2]) = class}
    BY DEF Counted
<1> HIDE DEF Cand, Old, New, T
<1> QED
    BY <1>3, <1>4, <1>5, <1>6, <1>7, <1>8

(* One candidate of an event the transaction has won is new, with the hash *)
(* that is kept, and none of another event.                                *)
LEMMA AcceptedInBatch ==
    ASSUME AcceptanceAssumption, Inductive, NEW w \in Workflows, wf[w].at # "idle",
           tx[w].keys = KeysOf(w), NEW e \in Events
    PROVE  /\ e \notin tx[w].won => Counted(w, e, "accepted") = {}
           /\ e \in tx[w].won =>
                 \E a : /\ Counted(w, e, "accepted") = {a}
                        /\ Content[a[1]][a[2]].hash = WinnerHash(w, e)
<1>1. wf[w] \in Workflow /\ BatchFits(w) /\ tx[w].won \subseteq KeysOf(w) /\ e # NoEvent
    BY DEF Inductive, Typed, KeysFit, AcceptanceAssumption
<1>2. \A r, k : Content[r][k].source = e =>
          (Class(w, r, k) = "accepted" <=> e \in tx[w].won /\ IsWinner(w, r, k))
    BY <1>1 DEF Class
<1>3. e \notin tx[w].won => Counted(w, e, "accepted") = {}
    BY <1>2 DEF Counted
<1>4. ASSUME e \in tx[w].won
      PROVE  \E a : /\ Counted(w, e, "accepted") = {a}
                    /\ Content[a[1]][a[2]].hash = WinnerHash(w, e)
    <2>1. PICK r \in wf[w].todo : \E k \in DOMAIN Content[r] :
              /\ Content[r][k].source = e /\ IsWinner(w, r, k)
              /\ Content[r][k].hash = WinnerHash(w, e)
              /\ \A q \in wf[w].todo : \A n \in DOMAIN Content[q] :
                    Content[q][n].source = e /\ IsWinner(w, q, n) => q = r /\ n = k
        BY <1>1, <1>4, WinnerExists
    <2>2. PICK k \in DOMAIN Content[r] :
              /\ Content[r][k].source = e /\ IsWinner(w, r, k)
              /\ Content[r][k].hash = WinnerHash(w, e)
              /\ \A q \in wf[w].todo : \A n \in DOMAIN Content[q] :
                    Content[q][n].source = e /\ IsWinner(w, q, n) => q = r /\ n = k
        BY <2>1
    <2>3. <<r, k>> \in Counted(w, e, "accepted")
        BY <1>2, <1>4, <2>2 DEF Counted
    <2>4. ASSUME NEW o \in Counted(w, e, "accepted")
          PROVE  o = <<r, k>>
        <3>1. PICK q \in wf[w].todo : o \in {q} \X DOMAIN Content[q]
            BY DEF Counted
        <3>2. PICK n \in DOMAIN Content[q] : o = <<q, n>>
            BY <3>1
        <3>3. Content[q][n].source = e /\ Class(w, q, n) = "accepted"
            BY <3>2 DEF Counted
        <3>4. q = r /\ n = k
            BY <1>2, <2>2, <3>3
        <3> QED
            BY <3>2, <3>4
    <2>5. Counted(w, e, "accepted") = {<<r, k>>}
        BY <2>3, <2>4
    <2>6. Content[<<r, k>>[1]][<<r, k>>[2]].hash = WinnerHash(w, e)
        BY <2>2
    <2> WITNESS <<r, k>>
    <2> QED
        BY <2>5, <2>6
<1> QED
    BY <1>3, <1>4


(* An event occurs finitely often.                                         *)
LEMMA OccurrencesFinite ==
    ASSUME AcceptanceAssumption, NEW e, NEW class
    PROVE  IsFiniteSet(Occurrences(e, class)) /\ Cardinality(Occurrences(e, class)) \in Nat
<1> DEFINE f == [r \in Requests |-> {r} \X DOMAIN Content[r]]
           P == {f[r] : r \in Requests}
<1>1. IsFiniteSet(P)
    <2>1. f \in Surjection(Requests, P)
        BY DEF Surjection
    <2>2. IsFiniteSet(Requests)
        BY DEF AcceptanceAssumption
    <2> HIDE DEF f, P
    <2> QED
        BY <2>1, <2>2, FS_Surjection
<1>2. ASSUME NEW r \in Requests
      PROVE  IsFiniteSet(f[r])
    <2>1. DOMAIN Content[r] = 1..Len(Content[r]) /\ Len(Content[r]) \in Nat
        <3>1. Content[r] \in Seq(Range(Content[r]))
            BY DEF AcceptanceAssumption
        <3> QED
            BY <3>1
    <2>2. IsFiniteSet(DOMAIN Content[r]) /\ IsFiniteSet({r})
        <3>1. 1 \in Int /\ Len(Content[r]) \in Int
            BY <2>1
        <3>2. IsFiniteSet(1..Len(Content[r]))
            BY <3>1, FS_Interval, Zenon
        <3> QED
            BY <2>1, <3>2, FS_Singleton, Zenon
    <2>3. IsFiniteSet({r} \X DOMAIN Content[r])
        BY <2>2, FS_Product, Zenon
    <2> QED
        BY <2>3
<1>3. \A S \in P : IsFiniteSet(S)
    BY <1>2
<1>4. IsFiniteSet(UNION P)
    <2> HIDE DEF P
    <2> QED
        BY <1>1, <1>3, FS_UNION
<1>5. Occurrences(e, class) \in SUBSET UNION P
    BY DEF Occurrences
<1>6. IsFiniteSet(Occurrences(e, class))
    <2> HIDE DEF P
    <2> QED
        BY <1>4, <1>5, FS_Subset
<1> QED
    BY <1>6, FS_CardinalityType

(* The write keeps the counts, the rows and the classes of every event.    *)
LEMMA WriteKeepsEvents ==
    ASSUME AcceptanceAssumption, Inductive, NEW w \in Workflows,
           tx[w].phase \in {"lane", "limbo"}, intents[Journal(w)].state = "uploaded", Write(w),
           tx[w].keys = KeysOf(w), UNCHANGED environment, NEW e \in Events
    PROVE  /\ CountFits(e)' /\ RowFits(e)'
           /\ \A o \in Occurrences(e, "duplicate")' :
                 \E a \in Occurrences(e, "accepted")' : Content[a[1]][a[2]].hash = Content[o[1]][o[2]].hash
           /\ \A o \in Occurrences(e, "conflict")' :
                 \E a \in Occurrences(e, "accepted")' : Content[a[1]][a[2]].hash # Content[o[1]][o[2]].hash
<1> DEFINE hash(o) == Content[o[1]][o[2]].hash
           Occ == Occurrences(e, "accepted")
           OccNext == Occurrences(e, "accepted")'
           kept == IF e \in tx[w].won THEN WinnerHash(w, e) ELSE dedupe[e].hash
<1>1. wf[w].at # "idle" /\ PhaseFits(w) /\ KeysFit(w) /\ lapses' = lapses /\ lapses[e] \in Nat
    BY DEF Inductive, PhaseFits, Typed, environment
<1>2. CountFits(e) /\ RowFits(e)
    BY DEF Inductive
<1>3. /\ dedupe'[e] = IF e \in tx[w].won THEN [state |-> "live", hash |-> WinnerHash(w, e)] ELSE dedupe[e]
    BY DEF Write
<1>4. IsFiniteSet(Occ) /\ Cardinality(Occ) \in Nat
    BY OccurrencesFinite
<1>5. OccNext = Occ \cup Counted(w, e, "accepted")
    BY OccurrencesWritten
<1>6. /\ e \notin tx[w].won => Counted(w, e, "accepted") = {}
      /\ e \in tx[w].won => \E a : Counted(w, e, "accepted") = {a} /\ hash(a) = WinnerHash(w, e)
    BY <1>1, AcceptedInBatch
<1> HIDE DEF Occ, OccNext
<1>7. CountFits(e)' /\ RowFits(e)'
    <2>1. CASE e \notin tx[w].won
        <3>1. OccNext = Occ /\ dedupe'[e] = dedupe[e]
            BY <1>3, <1>5, <1>6, <2>1
        <3> QED
            BY <1>1, <1>2, <3>1 DEF CountFits, RowFits, Occ, OccNext
    <2>2. CASE e \in tx[w].won
        <3>1. PICK a : Counted(w, e, "accepted") = {a} /\ hash(a) = WinnerHash(w, e)
            BY <1>6, <2>2
        <3>2. OccNext = Occ \cup {a}
            BY <1>5, <3>1
        <3>3. Cardinality(OccNext) <= Cardinality(Occ) + 1
            <4>1. Cardinality(OccNext) = IF a \in Occ THEN Cardinality(Occ) ELSE Cardinality(Occ) + 1
                BY <1>4, <3>2, FS_AddElement, Zenon
            <4> QED
                BY <1>4, <4>1
        <3>4. Cardinality(Occ) <= lapses[e]
            <4>1. dedupe[e].state # "live"
                BY <1>1, <2>2 DEF KeysFit
            <4>2. Cardinality(Occ) <= lapses[e] + 0
                BY <1>2, <4>1 DEF CountFits, Occ
            <4> QED
                BY <1>1, <1>4, <4>2
        <3>5. IsFiniteSet(OccNext) /\ Cardinality(OccNext) \in Nat
            <4>1. IsFiniteSet(OccNext)
                BY <1>4, <3>2, FS_AddElement
            <4> QED
                BY <4>1, FS_CardinalityType
        <3>6. Cardinality(OccNext) <= lapses[e] + 1
            BY <1>1, <1>4, <3>3, <3>4, <3>5
        <3>7. dedupe'[e].state = "live" /\ dedupe'[e].hash = WinnerHash(w, e)
            BY <1>3, <2>2
        <3> QED
            BY <1>1, <3>1, <3>2, <3>6, <3>7 DEF CountFits, RowFits, OccNext
    <2> QED
        BY <2>1, <2>2
<1>8. ASSUME NEW class, NEW o \in Counted(w, e, class), class # "accepted"
      PROVE  /\ class = "duplicate" => hash(o) = kept
             /\ class = "conflict" => hash(o) # kept
             /\ \E a \in OccNext : hash(a) = kept
    <2>1. PICK r \in wf[w].todo : o \in {r} \X DOMAIN Content[r]
        BY DEF Counted
    <2>2. PICK k \in DOMAIN Content[r] : o = <<r, k>>
        BY <2>1
    <2>3. Content[r][k].source = e /\ Class(w, r, k) = class
        BY <2>2 DEF Counted
    <2>4. class = IF hash(o) = kept THEN "duplicate" ELSE "conflict"
        BY <1>8, <2>2, <2>3 DEF Class
    <2>5. e \in KeysOf(w)
        <3>1. Content[r][k] \in Range(Content[r]) /\ e # NoEvent
            BY DEF Range, AcceptanceAssumption
        <3>2. e \in EventsOf(r)
            BY <2>3, <3>1 DEF EventsOf
        <3> QED
            BY <3>2 DEF KeysOf
    <2>6. CASE e \in tx[w].won
        BY <1>5, <1>6, <2>4, <2>6
    <2>7. CASE e \notin tx[w].won
        <3>1. dedupe[e].state # "absent"
            BY <1>1, <2>5, <2>7 DEF KeysFit
        <3>2. \E a \in Occ : hash(a) = kept
            BY <1>2, <2>7, <3>1 DEF RowFits, Occ
        <3> QED
            BY <1>5, <2>4, <3>2
    <2> QED
        BY <2>6, <2>7
<1>9. \A o \in Occurrences(e, "duplicate")' : \E a \in OccNext : hash(a) = hash(o)
    <2>1. Occurrences(e, "duplicate")' = Occurrences(e, "duplicate") \cup Counted(w, e, "duplicate")
        BY OccurrencesWritten
    <2>2. \A o \in Occurrences(e, "duplicate") : \E a \in Occ : hash(a) = hash(o)
        BY DEF Inductive, ClassesAreTrue, Occ
    <2> HIDE DEF hash, kept
    <2> QED
        BY <1>5, <1>8, <2>1, <2>2
<1>10. \A o \in Occurrences(e, "conflict")' : \E a \in OccNext : hash(a) # hash(o)
    <2>1. Occurrences(e, "conflict")' = Occurrences(e, "conflict") \cup Counted(w, e, "conflict")
        BY OccurrencesWritten
    <2>2. \A o \in Occurrences(e, "conflict") : \E a \in Occ : hash(a) # hash(o)
        BY DEF Inductive, ClassesAreTrue, Occ
    <2> HIDE DEF hash, kept
    <2> QED
        BY <1>5, <1>8, <2>1, <2>2
<1> QED
    BY <1>7, <1>9, <1>10 DEF OccNext


(* A transaction that has its lane, its keys and its journal commits.      *)
LEMMA WriteStep ==
    ASSUME AcceptanceAssumption, Inductive, NEW w \in Workflows,
           tx[w].phase \in {"lane", "limbo"}, intents[Journal(w)].state = "uploaded", Write(w),
           tx[w].keys = KeysOf(w),
           NEW a \in {"confirm", "done"},
           wf' = [wf EXCEPT ![w].at = a], tx' = [tx EXCEPT ![w] = NoTx],
           results' \in [Workflows -> [Requests -> Answers]],
           \A v \in Workflows, r \in Requests :
               results'[v][r] = "receipt" => results[v][r] = "receipt" \/ r \in wf[w].todo,
           objects' = objects, UNCHANGED environment
    PROVE  Inductive'
<1> DEFINE l == Lane(w)
           T == wf[w].todo
           j == Journal(w)
           b == [journal |-> j, requests |-> T]
           n == Len(log[l]) + 1
<1>1. Typed /\ PhaseFits(w) /\ KeysFit(w) /\ JournalFits(w) /\ wf[w].at # "idle"
    BY DEF Inductive, PhaseFits
<1>2. /\ l \in Lanes /\ T # {} /\ T \subseteq Requests
      /\ \A r \in T : LaneOf[r] = l /\ ~Accepted(r)
      /\ j \in Journals /\ j \in objects /\ intents[j].requests = T
      /\ log' = [log EXCEPT ![l] = Append(@, b)]
      /\ log' \in [Lanes -> Seq([journal : Journals, requests : SUBSET Requests])]
    BY Written
<1>3. /\ \A r \in Requests \ T : receipts'[r] = receipts[r]
      /\ \A r \in T : receipts'[r].lane = l /\ receipts'[r].seq = n
      /\ receipts' \in [Requests -> [lane : Lanes \cup {"none"}, seq : Nat, classes : Seq(Classes)]]
      /\ \A r \in Requests : Accepted(r)' <=> Accepted(r) \/ r \in T
    <2>1. ASSUME NEW r \in T
          PROVE  receipts'[r].lane = l /\ receipts'[r].seq = n
        <3> DEFINE c == [k \in 1..Len(Content[r]) |-> Class(w, r, k)]
        <3>1. receipts'[r] = [lane |-> l, seq |-> n, classes |-> c]
            BY Written
        <3> HIDE DEF c
        <3> QED
            BY <3>1
    <2> QED
        BY <2>1, Written
<1>4. /\ intents' \in [Journals -> Intent]
      /\ intents'[j].state = "referenced" /\ intents'[j].requests = T
      /\ \A k \in Journals : k # j => intents'[k] = intents[k]
    BY Written
<1>5. /\ log[l] \in Seq([journal : Journals, requests : SUBSET Requests]) /\ n \in Nat
      /\ DOMAIN log'[l] = 1..n /\ DOMAIN log[l] = 1..(n - 1) /\ log'[l][n] = b
      /\ \A k \in 1..(n - 1) : log'[l][k] = log[l][k]
      /\ \A m \in Lanes \ {l} : log'[m] = log[m]
    <2>1. log[l] \in Seq([journal : Journals, requests : SUBSET Requests])
        BY <1>1, <1>2 DEF Typed
    <2>2. log'[l] = Append(log[l], b) /\ \A m \in Lanes \ {l} : log'[m] = log[m]
        BY <1>1, <1>2 DEF Typed
    <2> HIDE DEF l, b
    <2> QED
        BY <2>1, <2>2
<1>6. b.journal = j /\ b.requests = T
    OBVIOUS
<1>7. /\ wf'[w].at = a /\ wf'[w].todo = T /\ wf'[w].uploads = wf[w].uploads
      /\ Journal(w)' = j /\ tx'[w] = NoTx
      /\ \A v \in Workflows \ {w} : wf'[v] = wf[v] /\ tx'[v] = tx[v] /\ Lane(v)' = Lane(v)
    BY <1>1, GoneOn DEF Typed
<1>8. /\ [wf[w] EXCEPT !.at = a] \in Workflow
      /\ wf' = [wf EXCEPT ![w] = [wf[w] EXCEPT !.at = a]]
      /\ BatchFits(w)' /\ UploadsFit(w)'
    <2>1. a \in Points /\ a \notin {"idle", "register"}
        BY DEF Points
    <2> QED
        BY <1>1, <2>1, BatchKept
<1>9. DOMAIN dedupe' = Events /\ \A e \in Events \ tx[w].won : dedupe'[e] = dedupe[e]
    BY DEF Write
<1> HIDE DEF l, T, j, b, n
<1>10. ASSUME NEW m \in Lanes, NEW k \in DOMAIN log'[m], ~(m = l /\ k = n)
       PROVE  k \in DOMAIN log[m] /\ log'[m][k] = log[m][k]
    <2>1. CASE m = l
        <3>1. k \in 1..n /\ k # n
            BY <1>5, <1>10, <2>1
        <3>2. k \in 1..(n - 1)
            BY <1>5, <3>1
        <3> QED
            BY <1>5, <2>1, <3>2
    <2>2. CASE m # l
        BY <1>5, <2>2
    <2> QED
        BY <2>1, <2>2
<1>11. Typed'
    <2>1. NoTx \in Transaction
        BY DEF NoTx, Transaction
    <2>2. wf' \in [Workflows -> Workflow] /\ tx' \in [Workflows -> Transaction]
        BY <1>1, <1>8, <2>1 DEF Typed
    <2> QED
        BY <1>1, <1>2, <1>3, <1>4, <1>9, <2>2 DEF Typed, environment
<1>12. PhaseFits(w)' /\ LocksFit(w)' /\ KeysFit(w)' /\ JournalFits(w)'
    <2>1. PhaseFits(w)' /\ LocksFit(w)' /\ KeysFit(w)'
        BY <1>7 DEF PhaseFits, LocksFit, KeysFit, NoTx
    <2>2. ASSUME NEW k \in Journals, k[1] = w, k[2] > wf'[w].uploads
          PROVE  intents'[k].state = "absent"
        <3>1. intents[k].state = "absent"
            BY <1>1, <1>7, <2>2 DEF JournalFits
        <3> QED
            BY <1>4, <3>1 DEF j
    <2>3. JournalFits(w)'
        BY <1>2, <1>4, <1>7, <2>2 DEF JournalFits, NoTx
    <2> QED
        BY <2>1, <2>3
<1>13. ASSUME NEW v \in Workflows \ {w}
       PROVE  /\ PhaseFits(v)' /\ BatchFits(v)' /\ UploadsFit(v)' /\ JournalFits(v)'
              /\ LocksFit(v)' /\ KeysFit(v)'
    <2>1. /\ wf'[v] = wf[v] /\ tx'[v] = tx[v] /\ v # w /\ Exclusive(w, v)
          /\ PhaseFits(v) /\ BatchFits(v) /\ UploadsFit(v) /\ JournalFits(v) /\ LocksFit(v) /\ KeysFit(v)
        BY <1>7 DEF Inductive
    <2>2. PhaseFits(v)' /\ UploadsFit(v)'
        BY <2>1 DEF PhaseFits, UploadsFit
    <2>3. BatchFits(v)'
        BY <2>1 DEF BatchFits, environment
    <2>4. LocksFit(v)'
        <3>1. ASSUME tx[v].phase \in {"lane", "limbo"}, NEW r \in wf[v].todo
              PROVE  ~Accepted(r)'
            <4>1. ~Accepted(r) /\ r \in Requests
                BY <1>1, <2>1, <3>1 DEF LocksFit, Typed, Workflow
            <4>2. LaneOf[r] = Lane(v)
                <5>1. PICK q \in wf[v].todo : q = CHOOSE x \in wf[v].todo : TRUE
                    BY <3>1
                <5> QED
                    BY <2>1, <3>1, <5>1 DEF BatchFits, Lane
            <4>3. HoldsLane(w, l) /\ HoldsLane(v, Lane(v))
                BY <3>1 DEF HoldsLane, l
            <4>4. Lane(v) # l
                BY <1>2, <2>1, <4>3 DEF Exclusive
            <4>5. r \notin T
                BY <1>2, <4>2, <4>4
            <4> QED
                BY <1>3, <4>1, <4>5
        <3> QED
            BY <2>1, <3>1 DEF LocksFit, environment
    <2>5. KeysFit(v)'
        <3>1. KeysOf(v)' = KeysOf(v)
            BY <2>1 DEF KeysOf
        <3>2. tx[v].keys \subseteq Events /\ tx[v].won \subseteq Events /\ tx[v].won \subseteq tx[v].keys
            BY <1>1, <2>1 DEF Typed, Transaction, KeysFit
        <3>3. \A e \in tx[v].keys : dedupe'[e] = dedupe[e]
            BY <1>1, <1>9, <2>1, <3>2 DEF Exclusive, KeysFit
        <3> QED
            BY <2>1, <3>1, <3>2, <3>3 DEF KeysFit
    <2>6. JournalFits(v)'
        <3>1. Journal(v)' = Journal(v) /\ Journal(v)[1] = v /\ j[1] = w
            BY <2>1 DEF Journal, j
        <3>2. \A k \in Journals : k[1] = v => intents'[k] = intents[k]
            BY <1>4, <2>1, <3>1
        <3>3. Uploading(v)' <=> Uploading(v)
            BY <2>1 DEF Uploading
        <3>4. (wf[v].at = "mark" \/ tx[v].phase = "limbo") => Uploading(v)
            BY DEF Uploading
        <3> QED
            BY <2>1, <3>1, <3>2, <3>3, <3>4 DEF JournalFits
    <2> QED
        BY <2>2, <2>3, <2>4, <2>5, <2>6
<1>14. ASSUME NEW u \in Workflows, NEW v \in Workflows, u # v
       PROVE  Exclusive(u, v)'
    <2>1. Exclusive(u, v)
        BY <1>14 DEF Inductive
    <2>2. CASE u # w /\ v # w
        BY <1>7, <2>1, <2>2 DEF Exclusive, HoldsLane
    <2>3. CASE u = w \/ v = w
        BY <1>7, <2>3 DEF Exclusive, HoldsLane, NoTx
    <2> QED
        BY <2>2, <2>3
<1>15. \A k \in Journals : intents'[k].state \in {"uploaded", "referenced"} => k \in objects'
    BY <1>2, <1>4 DEF Inductive
<1>16. BatchesAreDurable'
    <2>1. ASSUME NEW m \in Lanes, NEW k \in DOMAIN log'[m]
          PROVE  /\ log'[m][k].journal \in objects
                 /\ intents'[log'[m][k].journal].state = "referenced"
                 /\ intents'[log'[m][k].journal].requests = log'[m][k].requests
        <3>1. CASE m = l /\ k = n
            BY <1>2, <1>4, <1>5, <1>6, <3>1
        <3>2. CASE ~(m = l /\ k = n)
            <4>1. k \in DOMAIN log[m] /\ log'[m][k] = log[m][k]
                BY <1>10, <3>2
            <4>2. <<m, k>> \in Batches
                BY <4>1 DEF Batches
            <4>3. /\ log[m][k].journal \in objects /\ intents[log[m][k].journal].state = "referenced"
                  /\ intents[log[m][k].journal].requests = log[m][k].requests
                BY <4>2 DEF Inductive, BatchesAreDurable, Batch
            <4>4. log[m][k].journal # j /\ log[m][k].journal \in Journals
                BY <1>1, <4>3 DEF j, Typed
            <4> QED
                BY <1>4, <4>1, <4>3, <4>4
        <3> QED
            BY <3>1, <3>2
    <2>2. ASSUME NEW c \in Batches'
          PROVE  c[1] \in Lanes /\ c[2] \in DOMAIN log'[c[1]]
        BY <2>2 DEF Batches
    <2> QED
        BY <1>1, <2>1, <2>2 DEF BatchesAreDurable, Batch
<1>17. ASSUME NEW r \in Requests
       PROVE  ReceiptFits(r)'
    <2>1. ReceiptFits(r)
        BY DEF Inductive
    <2>2. CASE r \in T
        <3>1. receipts'[r].lane = LaneOf[r] /\ receipts'[r].seq \in DOMAIN log'[LaneOf[r]]
            BY <1>2, <1>3, <1>5, <2>2
        <3>2. ASSUME NEW m \in Lanes, NEW k \in DOMAIN log'[m]
              PROVE  r \in log'[m][k].requests <=> Accepted(r)' /\ receipts'[r].lane = m /\ receipts'[r].seq = k
            <4>1. CASE m = l /\ k = n
                BY <1>3, <1>5, <1>6, <2>2, <4>1
            <4>2. CASE ~(m = l /\ k = n)
                <5>1. k \in DOMAIN log[m] /\ log'[m][k] = log[m][k]
                    BY <1>10, <4>2
                <5>2. r \notin log[m][k].requests
                    BY <1>2, <2>1, <2>2, <5>1 DEF ReceiptFits
                <5> QED
                    BY <1>3, <2>2, <4>2, <5>1, <5>2
            <4> QED
                BY <4>1, <4>2
        <3> QED
            BY <3>1, <3>2 DEF ReceiptFits
    <2>3. CASE r \notin T
        <3>1. receipts'[r] = receipts[r] /\ (Accepted(r)' <=> Accepted(r)) /\ LaneOf[r] \in Lanes
            BY <1>3, <2>3 DEF AcceptanceAssumption
        <3>2. Accepted(r) => /\ receipts[r].lane = LaneOf[r] /\ receipts[r].seq \in DOMAIN log'[LaneOf[r]]
                             /\ ~(receipts[r].lane = l /\ receipts[r].seq = n)
            BY <1>5, <2>1, <3>1 DEF ReceiptFits
        <3>3. ASSUME NEW m \in Lanes, NEW k \in DOMAIN log'[m]
              PROVE  r \in log'[m][k].requests <=> Accepted(r)' /\ receipts'[r].lane = m /\ receipts'[r].seq = k
            <4>1. CASE m = l /\ k = n
                BY <1>5, <1>6, <2>3, <3>1, <3>2, <4>1
            <4>2. CASE ~(m = l /\ k = n)
                <5>1. k \in DOMAIN log[m] /\ log'[m][k] = log[m][k]
                    BY <1>10, <4>2
                <5> QED
                    BY <2>1, <3>1, <5>1 DEF ReceiptFits
            <4> QED
                BY <4>1, <4>2
        <3> QED
            BY <3>1, <3>2, <3>3 DEF ReceiptFits
    <2> QED
        BY <2>2, <2>3
<1>18. AcknowledgedIsAccepted'
    BY <1>3 DEF AcknowledgedIsAccepted, Inductive, T
<1>19. \A e \in Events : CountFits(e)' /\ RowFits(e)'
    BY WriteKeepsEvents
<1>20. ClassesAreTrue'
    BY WriteKeepsEvents DEF ClassesAreTrue
<1> QED
    BY <1>8, <1>11, <1>12, <1>13, <1>14, <1>15, <1>16, <1>17, <1>18, <1>19, <1>20 DEF Inductive


(* The commit: the write, or the answer that the journal is not usable.    *)
LEMMA CommitStep ==
    ASSUME AcceptanceAssumption, Inductive, NEW w \in Workflows, Commit(w)
    PROVE  Inductive'
<1>1. /\ wf[w].at = "keys" /\ KeysOf(w) = tx[w].keys /\ objects' = objects /\ UNCHANGED environment
      /\ wf[w].at \notin {"idle", "confirm", "done"}
    BY DEF Commit, Ready
<1>2. Typed /\ wf[w] \in Workflow /\ wf[w].todo # {} /\ tx[w].phase = "lane"
    BY <1>1 DEF Inductive, Typed, BatchFits, PhaseFits
<1>3. CASE JournalUsable(w)
    <2>1. Write(w) /\ AnswerAndContinue(w, wf[w].todo, "receipt")
        BY <1>3 DEF Commit, Finish
    <2>2. intents[Journal(w)].state = "uploaded" /\ tx[w].phase \in {"lane", "limbo"}
        BY <1>2, <1>3 DEF JournalUsable
    <2>3. wf' = [wf EXCEPT ![w].at = "done"]
        <3>1. wf' = [wf EXCEPT ![w].todo = @, ![w].at = "done", ![w].attempt = @]
            BY <2>1 DEF AnswerAndContinue
        <3>2. [wf[w] EXCEPT !.todo = wf[w].todo, !.at = "done", !.attempt = wf[w].attempt]
                = [wf[w] EXCEPT !.at = "done"]
            BY <1>2 DEF Workflow
        <3> QED
            BY <1>2, <3>1, <3>2 DEF Typed
    <2>4. tx' = [tx EXCEPT ![w] = NoTx]
        BY <2>1 DEF AnswerAndContinue
    <2>5. results' = [results EXCEPT ![w] =
                         [r \in Requests |-> IF r \in wf[w].todo THEN "receipt" ELSE @[r]]]
        BY <2>1 DEF AnswerAndContinue
    <2>6. results' \in [Workflows -> [Requests -> Answers]]
        BY <1>2, <2>5 DEF Typed, Answers
    <2>7. \A v \in Workflows, r \in Requests :
              results'[v][r] = "receipt" => results[v][r] = "receipt" \/ r \in wf[w].todo
        BY <1>2, <2>5 DEF Typed
    <2>8. "done" \in {"confirm", "done"}
        OBVIOUS
    <2> QED
        BY <1>1, <2>1, <2>2, <2>3, <2>4, <2>6, <2>7, <2>8, WriteStep
<1>4. CASE ~JournalUsable(w)
    <2>1. AnswerAndContinue(w, wf[w].todo, "failed") /\ UNCHANGED database
        BY <1>4 DEF Commit, Finish
    <2>2. UNCHANGED <<environment, database>> /\ objects' \in SUBSET Journals /\ objects \subseteq objects'
        BY <1>1, <1>2, <2>1 DEF Typed
    <2>3. "failed" \in Answers /\ "failed" # "receipt"
        BY DEF Answers
    <2> QED
        BY <1>1, <1>2, <2>1, <2>2, <2>3, AnswerStep
<1> QED
    BY <1>3, <1>4

(* The reply is lost: the write, the rollback, or one of the two later.    *)
LEMMA CommitReplyLostStep ==
    ASSUME AcceptanceAssumption, Inductive, NEW w \in Workflows, CommitReplyLost(w)
    PROVE  Inductive'
<1>1. /\ wf[w].at = "keys" /\ KeysOf(w) = tx[w].keys /\ wf' = [wf EXCEPT ![w].at = "confirm"]
      /\ intents[Journal(w)].state = "uploaded" /\ intents[Journal(w)].gen = wf[w].gen
      /\ objects' = objects /\ results' = results /\ UNCHANGED environment
    BY DEF CommitReplyLost, Ready, Goto, JournalUsable
<1>2. Typed /\ tx[w] \in Transaction /\ tx[w].phase = "lane" /\ Uploading(w)
    BY <1>1 DEF Inductive, Typed, PhaseFits, Uploading
<1>3. results' \in [Workflows -> [Requests -> Answers]]
    BY <1>1, <1>2 DEF Typed
<1>4. CASE Write(w) /\ tx' = [tx EXCEPT ![w] = NoTx]
    <2>1. tx[w].phase \in {"lane", "limbo"} /\ "confirm" \in {"confirm", "done"}
        BY <1>2
    <2> QED
        BY <1>1, <1>3, <1>4, <2>1, WriteStep
<1>5. CASE UNCHANGED database /\ tx' = [tx EXCEPT ![w] = NoTx]
    <2>1. UNCHANGED <<environment, results, objects, database>> /\ "confirm" \in {"begin", "confirm"}
        BY <1>1, <1>5
    <2> QED
        BY <1>1, <1>2, <1>5, <2>1, RollbackStep
<1>6. CASE UNCHANGED database /\ tx' = [tx EXCEPT ![w].phase = "limbo"]
    <2> DEFINE y == [tx[w] EXCEPT !.phase = "limbo"]
    <2>1. y \in Transaction /\ y.phase = "limbo" /\ y.keys = tx[w].keys /\ y.won = tx[w].won
        BY <1>2 DEF Transaction
    <2>2. /\ tx' = [tx EXCEPT ![w] = y] /\ tx'[w] = y
          /\ \A v \in Workflows \ {w} : tx'[v] = tx[v]
        BY <1>2, <1>6 DEF Typed
    <2>3. /\ wf'[w].at = "confirm" /\ wf'[w].todo = wf[w].todo /\ wf'[w].gen = wf[w].gen
          /\ KeysOf(w)' = KeysOf(w) /\ Lane(w)' = Lane(w) /\ \A v \in Workflows \ {w} : Lane(v)' = Lane(v)
        BY <1>1, <1>2, GoneOn
    <2>4. LocksFit(w) /\ KeysFit(w) /\ dedupe' = dedupe /\ receipts' = receipts
        BY <1>6 DEF Inductive, database
    <2> HIDE DEF y
    <2>5. PhaseFits(w)' /\ LocksFit(w)' /\ KeysFit(w)'
        <3>1. PhaseFits(w)'
            BY <2>1, <2>2, <2>3 DEF PhaseFits
        <3>2. LocksFit(w)'
            BY <1>1, <1>2, <2>1, <2>2, <2>3, <2>4 DEF LocksFit, Accepted, environment
        <3>3. KeysFit(w)'
            BY <1>1, <2>1, <2>2, <2>3, <2>4 DEF KeysFit
        <3> QED
            BY <3>1, <3>2, <3>3
    <2>6. \A v \in Workflows \ {w} : Exclusive(w, v)'
        BY <1>2, <2>1, <2>2, <2>3 DEF Inductive, Exclusive, HoldsLane
    <2>7. AcknowledgedIsAccepted'
        BY <1>1, <2>4 DEF Inductive, AcknowledgedIsAccepted, Accepted
    <2>8. /\ objects' \in SUBSET Journals /\ objects \subseteq objects' /\ UNCHANGED <<environment, database>>
          /\ "confirm" \in Points /\ "confirm" \notin {"idle", "register"} /\ "confirm" # "mark"
        BY <1>1, <1>2, <1>6 DEF Typed, Points
    <2> QED
        BY <1>1, <1>2, <1>3, <2>1, <2>2, <2>5, <2>6, <2>7, <2>8, MoveStep
<1> QED
    BY <1>4, <1>5, <1>6 DEF CommitReplyLost

(* The server ends the transaction whose reply was lost.                   *)
LEMMA SettleStep ==
    ASSUME AcceptanceAssumption, Inductive, NEW w \in Workflows, Settle(w)
    PROVE  Inductive'
<1>1. /\ tx[w].phase = "limbo" /\ tx' = [tx EXCEPT ![w] = NoTx] /\ wf' = wf /\ results' = results
      /\ objects' = objects /\ UNCHANGED environment
    BY DEF Settle
<1>2. /\ Typed /\ Uploading(w) /\ wf[w].at \in {"confirm", "done"} /\ tx[w].keys = KeysOf(w)
      /\ intents[Journal(w)].state = "uploaded" /\ wf[w] \in Workflow
    BY <1>1 DEF Inductive, Typed, Uploading, PhaseFits, KeysFit, JournalFits, Workflow, Points
<1>3. wf' = [wf EXCEPT ![w].at = wf[w].at]
    BY <1>1, <1>2 DEF Typed, Workflow
<1>4. results' \in [Workflows -> [Requests -> Answers]]
    BY <1>1, <1>2 DEF Typed
<1>5. CASE Write(w)
    <2>1. tx[w].phase \in {"lane", "limbo"}
        BY <1>1
    <2> QED
        BY <1>1, <1>2, <1>3, <1>4, <1>5, <2>1, WriteStep
<1>6. CASE UNCHANGED database
    <2>1. tx'[w] = NoTx /\ wf'[w].at = wf[w].at
        BY <1>1, <1>2 DEF Typed
    <2>2. PhaseFits(w)' /\ LocksFit(w)' /\ KeysFit(w)'
        BY <1>2, <2>1 DEF PhaseFits, LocksFit, KeysFit, NoTx
    <2>3. \A v \in Workflows \ {w} : Exclusive(w, v)'
        BY <2>1 DEF Exclusive, HoldsLane, NoTx
    <2>4. AcknowledgedIsAccepted'
        BY <1>1, <1>6 DEF Inductive, AcknowledgedIsAccepted, Accepted, database
    <2>5. /\ objects' \in SUBSET Journals /\ objects \subseteq objects' /\ UNCHANGED <<environment, database>>
          /\ wf[w].at \in Points /\ wf[w].at \notin {"idle", "register"} /\ wf[w].at # "mark"
          /\ NoTx \in Transaction /\ NoTx.phase # "limbo"
        BY <1>1, <1>2, <1>6 DEF Typed, Points, NoTx, Transaction
    <2> QED
        BY <1>1, <1>2, <1>3, <1>4, <2>2, <2>3, <2>4, <2>5, MoveStep
<1> QED
    BY <1>5, <1>6 DEF Settle
=============================================================================
