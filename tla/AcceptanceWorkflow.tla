------------------------- MODULE AcceptanceWorkflow -------------------------
(***************************************************************************)
(* The steps of a workflow up to the commit, the upload of its journal and *)
(* the locks its transaction takes, preserve the inductive invariant of    *)
(* acceptance.                                                             *)
(***************************************************************************)
EXTENDS AcceptanceFrames

-----------------------------------------------------------------------------
(* The upload *)

(* A workflow starts with a batch of admitted commands of one lane.        *)
LEMMA StartStep ==
    ASSUME AcceptanceAssumption, Inductive, NEW w \in Workflows, Start(w)
    PROVE  Inductive'
<1>1. PICK S \in SUBSET {r \in Requests : snapshot[r] # 0} :
          /\ S # {} /\ \A r, q \in S : LaneOf[r] = LaneOf[q]
          /\ \E order \in Bijection(1..Cardinality(S), S), g \in 1..generation :
                wf' = [wf EXCEPT ![w] = [at |-> "register", order |-> order, todo |-> S,
                                         attempt |-> 1, uploads |-> 0, gen |-> g]]
    BY DEF Start
<1>2. PICK order \in Bijection(1..Cardinality(S), S), g \in 1..generation :
          wf' = [wf EXCEPT ![w] = [at |-> "register", order |-> order, todo |-> S,
                                   attempt |-> 1, uploads |-> 0, gen |-> g]]
    BY <1>1
<1> DEFINE x == [at |-> "register", order |-> order, todo |-> S, attempt |-> 1, uploads |-> 0, gen |-> g]
<1>3. /\ wf[w].at = "idle" /\ tx' = tx /\ results' = results /\ objects' = objects
      /\ UNCHANGED <<environment, database>>
    BY DEF Start
<1>4. tx[w] \in Transaction /\ tx[w].phase = "none" /\ tx[w].keys = {} /\ tx[w].won = {} /\ wf[w].uploads = 0
    BY <1>3 DEF Inductive, Typed, PhaseFits, UploadsFit
<1>5. S \in SUBSET Requests /\ IsFiniteSet(S)
    BY TodoFinite
<1>6. /\ order \in Seq(S)
      /\ \A i, k \in DOMAIN order : order[i] = order[k] => i = k
      /\ \A r \in S : \E i \in DOMAIN order : order[i] = r
    BY <1>5, OrderOfBatch
<1>7. x \in Workflow
    <2>1. order \in Seq(Requests)
        BY <1>5, <1>6
    <2>2. 1 \in 0..MaxUploadAttempts /\ g \in Nat
        BY DEF AcceptanceAssumption, Inductive, Typed
    <2> QED
        BY <1>5, <2>1, <2>2 DEF Workflow, Points
<1>8. wf'[w] = x /\ tx'[w] = tx[w]
    BY <1>2, <1>3 DEF Inductive, Typed
<1>9. PhaseFits(w)' /\ LocksFit(w)' /\ KeysFit(w)'
    BY <1>4, <1>8 DEF PhaseFits, LocksFit, KeysFit
<1>10. BatchFits(w)'
    <2>1. /\ wf'[w].order = order /\ wf'[w].todo = S /\ snapshot' = snapshot
          /\ \A r \in S : snapshot[r] # 0
        BY <1>3, <1>8 DEF environment
    <2> QED
        BY <1>1, <1>6, <2>1 DEF BatchFits
<1>11. UploadsFit(w)'
    <2>1. /\ Cardinality(S) \in Nat /\ Cardinality(Requests) \in Nat
          /\ Cardinality(S) <= Cardinality(Requests) /\ MaxUploadAttempts \in Nat
        BY <1>5, TodoFinite DEF AcceptanceAssumption
    <2>2. Cardinality(Requests) - Cardinality(S) \in Nat
        BY <2>1
    <2>3. MaxUploadAttempts * (Cardinality(Requests) - Cardinality(S)) \in Nat
        BY <2>1, <2>2
    <2> QED
        BY <1>8, <2>3 DEF UploadsFit
<1>12. JournalFits(w)'
    <2>1. JournalFits(w) /\ intents' = intents
        BY <1>3 DEF Inductive, database
    <2>2. ~Uploading(w)'
        BY <1>4, <1>8 DEF Uploading
    <2> QED
        BY <1>4, <1>8, <2>1, <2>2 DEF JournalFits
<1>13. \A v \in Workflows \ {w} : Exclusive(w, v)'
    BY <1>4, <1>8 DEF Exclusive, HoldsLane
<1>14. AcknowledgedIsAccepted' /\ results' \in [Workflows -> [Requests -> Answers]]
    BY <1>3 DEF Inductive, AcknowledgedIsAccepted, Accepted, database, Typed
<1>15. tx' = [tx EXCEPT ![w] = tx[w]]
    BY <1>3 DEF Inductive, Typed
<1>16. objects' \in SUBSET Journals /\ objects \subseteq objects'
    BY <1>3 DEF Inductive, Typed
<1> QED
    BY <1>2, <1>3, <1>4, <1>7, <1>9, <1>10, <1>11, <1>12, <1>13, <1>14, <1>15, <1>16, QuietStep

(* The next journal is one of the journals a workflow may write.           *)
LEMMA NextJournal ==
    ASSUME AcceptanceAssumption, Inductive, NEW w \in Workflows, wf[w].at = "register"
    PROVE  <<w, wf[w].uploads + 1>> \in Journals
<1>1. wf[w] \in Workflow /\ wf[w].todo # {}
    BY DEF Inductive, Typed, BatchFits
<1> DEFINE c == Cardinality(wf[w].todo)
           n == Cardinality(Requests)
           m == MaxUploadAttempts
<1>2. c \in Nat /\ n \in Nat /\ m \in Nat /\ c <= n /\ 1 <= c
    BY <1>1, TodoFinite DEF Workflow, AcceptanceAssumption
<1>3. wf[w].uploads + 1 <= m * (n - c) + wf[w].attempt
    BY DEF Inductive, UploadsFit
<1>4. wf[w].uploads \in Nat /\ wf[w].attempt \in 0..m
    BY <1>1 DEF Workflow
<1> HIDE DEF c, n, m
<1>5. m * (n - c) + m <= m * (n - 0)
    BY <1>2, SmallerSubset
<1>6. m * (n - c) \in Int /\ m * (n - 0) = m * n /\ m * n \in Int
    BY <1>2
<1>7. wf[w].uploads + 1 <= m * n
    BY <1>2, <1>3, <1>4, <1>5, <1>6
<1> QED
    BY <1>4, <1>6, <1>7 DEF Journals, m, n


(* An attempt registers the intent of a new journal.                       *)
LEMMA RegisterStep ==
    ASSUME AcceptanceAssumption, Inductive, NEW w \in Workflows, RegisterJournalIntent(w)
    PROVE  Inductive'
<1> DEFINE j == <<w, wf[w].uploads + 1>>
           i == [state |-> "pending", live |-> TRUE, gen |-> generation, requests |-> wf[w].todo]
           x == [wf[w] EXCEPT !.at = "put", !.uploads = wf[w].uploads + 1]
<1>1. /\ wf[w].at = "register" /\ intents' = [intents EXCEPT ![j] = i]
      /\ wf' = [wf EXCEPT ![w].at = "put", ![w].uploads = @ + 1]
      /\ tx' = tx /\ results' = results /\ objects' = objects
      /\ UNCHANGED <<environment, log, receipts, dedupe>>
    BY DEF RegisterJournalIntent
<1>2. wf[w] \in Workflow /\ tx[w] \in Transaction /\ tx[w].phase = "none" /\ tx[w].keys = {} /\ tx[w].won = {}
    BY <1>1 DEF Inductive, Typed, PhaseFits
<1>3. j \in Journals /\ intents[j].state = "absent"
    <2>1. j \in Journals
        BY <1>1, NextJournal
    <2>2. j[1] = w /\ j[2] > wf[w].uploads
        BY <1>2 DEF Workflow
    <2> QED
        BY <2>1, <2>2 DEF Inductive, JournalFits
<1>4. x \in Workflow /\ wf' = [wf EXCEPT ![w] = x]
    <2>1. "put" \in Points /\ wf[w].uploads + 1 \in Nat
        BY <1>2 DEF Points, Workflow
    <2>2. x \in Workflow
        BY <1>2, <2>1 DEF Workflow
    <2>3. wf' = [wf EXCEPT ![w] = x]
        BY <1>1
    <2> QED
        BY <2>2, <2>3
<1>5. /\ wf'[w] = x /\ x.at = "put" /\ x.uploads = wf[w].uploads + 1 /\ x.todo = wf[w].todo
      /\ x.order = wf[w].order /\ x.attempt = wf[w].attempt /\ tx'[w] = tx[w]
    BY <1>1, <1>2, <1>4 DEF Inductive, Typed, Workflow
<1>6. i \in Intent
    BY <1>2 DEF Inductive, Typed, Intent, Workflow
<1>7. intents' \in [Journals -> Intent] /\ intents'[j] = i
    BY <1>1, <1>3, <1>6 DEF Inductive, Typed
<1>8. /\ \A k \in Journals : k[1] # w => intents'[k] = intents[k]
      /\ \A k \in Journals : intents[k].state = "referenced" => intents'[k] = intents[k]
      /\ \A k \in Journals : intents'[k].state \in {"uploaded", "referenced"} => k \in objects'
    <2>1. \A k \in Journals : k # j => intents'[k] = intents[k]
        BY <1>1 DEF Inductive, Typed
    <2> QED
        BY <1>1, <1>3, <1>7, <2>1 DEF Inductive
<1>9. PhaseFits(w)' /\ LocksFit(w)' /\ KeysFit(w)'
    BY <1>2, <1>5 DEF PhaseFits, LocksFit, KeysFit
<1>10. BatchFits(w)'
    <2>1. BatchFits(w) /\ snapshot' = snapshot /\ wf[w].todo # {}
        BY <1>1 DEF Inductive, BatchFits, environment
    <2> HIDE DEF x
    <2> QED
        BY <1>5, <2>1 DEF BatchFits
<1>11. UploadsFit(w)'
    <2> DEFINE spent == MaxUploadAttempts * (Cardinality(Requests) - Cardinality(wf[w].todo))
    <2>1. wf[w].uploads + 1 <= spent + wf[w].attempt
        BY <1>1 DEF Inductive, UploadsFit
    <2>2. wf[w].uploads + 1 + 0 = wf[w].uploads + 1
        BY <1>2 DEF Workflow
    <2> QED
        BY <1>5, <2>1, <2>2 DEF UploadsFit
<1>12. JournalFits(w)'
    <2>1. Journal(w)' = j
        BY <1>5 DEF Journal
    <2>2. ASSUME NEW k \in Journals, k[1] = w, k[2] > wf'[w].uploads
          PROVE  intents'[k].state = "absent"
        <3>1. k[2] > wf[w].uploads /\ k # j
            BY <1>2, <1>5, <2>2 DEF Workflow, Journals
        <3>2. intents[k].state = "absent"
            BY <2>2, <3>1 DEF Inductive, JournalFits
        <3> QED
            BY <1>1, <3>1, <3>2 DEF Inductive, Typed
    <2> QED
        BY <1>2, <1>3, <1>5, <1>7, <2>1, <2>2 DEF JournalFits
<1>13. \A v \in Workflows \ {w} : Exclusive(w, v)'
    BY <1>2, <1>5 DEF Exclusive, HoldsLane
<1>14. AcknowledgedIsAccepted' /\ results' \in [Workflows -> [Requests -> Answers]]
    BY <1>1 DEF Inductive, AcknowledgedIsAccepted, Accepted, Typed
<1>15. tx' = [tx EXCEPT ![w] = tx[w]] /\ objects' \in SUBSET Journals /\ objects \subseteq objects'
    BY <1>1 DEF Inductive, Typed
<1> QED
    BY <1>1, <1>2, <1>4, <1>7, <1>8, <1>9, <1>10, <1>11, <1>12, <1>13, <1>14, <1>15, LocalStep

(* The journal is stored.                                                  *)
LEMMA PutStep ==
    ASSUME AcceptanceAssumption, Inductive, NEW w \in Workflows, PutStream(w)
    PROVE  Inductive'
<1>1. /\ wf[w].at = "put" /\ wf' = [wf EXCEPT ![w].at = "mark"]
      /\ objects' = objects \cup {Journal(w)}
      /\ tx' = tx /\ results' = results /\ UNCHANGED <<environment, database>>
    BY DEF PutStream, Goto
<1>2. /\ Typed /\ Uploading(w) /\ Journal(w) \in Journals /\ tx[w] \in Transaction
      /\ tx[w].phase = "none" /\ tx[w].keys = {} /\ tx[w].won = {}
    BY <1>1 DEF Inductive, Typed, PhaseFits, JournalFits, Uploading
<1>3. wf'[w].at = "mark" /\ tx'[w] = tx[w] /\ tx' = [tx EXCEPT ![w] = tx[w]]
    BY <1>1, <1>2, GoneOn DEF Typed
<1>4. PhaseFits(w)' /\ LocksFit(w)' /\ KeysFit(w)'
    BY <1>2, <1>3 DEF PhaseFits, LocksFit, KeysFit
<1>5. \A v \in Workflows \ {w} : Exclusive(w, v)'
    BY <1>2, <1>3 DEF Exclusive, HoldsLane
<1>6. AcknowledgedIsAccepted' /\ results' \in [Workflows -> [Requests -> Answers]]
    BY <1>1 DEF Inductive, AcknowledgedIsAccepted, Accepted, database, Typed
<1>7. objects' \in SUBSET Journals /\ objects \subseteq objects' /\ Journal(w) \in objects'
    BY <1>1, <1>2 DEF Typed
<1>8. "mark" \in Points /\ "mark" \notin {"idle", "register"}
    BY DEF Points
<1> QED
    BY <1>1, <1>2, <1>3, <1>4, <1>5, <1>6, <1>7, <1>8, MoveStep


(* The intent is marked uploaded, once the journal is stored.              *)
LEMMA MarkStep ==
    ASSUME AcceptanceAssumption, Inductive, NEW w \in Workflows, MarkJournalIntentUploaded(w)
    PROVE  Inductive'
<1> DEFINE j == Journal(w)
           i == [intents[j] EXCEPT !.state = "uploaded"]
<1>1. /\ wf[w].at = "mark" /\ wf' = [wf EXCEPT ![w].at = "begin"] /\ intents[j].state = "pending"
      /\ intents' = [intents EXCEPT ![j].state = "uploaded"]
      /\ tx' = tx /\ results' = results /\ objects' = objects
      /\ UNCHANGED <<environment, log, receipts, dedupe>> /\ UNCHANGED environment
    BY DEF MarkJournalIntentUploaded, Goto
<1>2. /\ Typed /\ j \in Journals /\ j \in objects /\ intents[j] \in Intent /\ intents[j].requests = wf[w].todo
      /\ tx[w] \in Transaction /\ tx[w].phase = "none" /\ tx[w].keys = {} /\ tx[w].won = {}
    BY <1>1 DEF Inductive, Typed, PhaseFits, JournalFits, Uploading
<1>3. i \in Intent /\ i.state = "uploaded" /\ i.requests = wf[w].todo
    BY <1>2 DEF Intent
<1>4. intents' = [intents EXCEPT ![j] = i]
    BY <1>1
<1>5. /\ intents' \in [Journals -> Intent] /\ intents'[j] = i
      /\ \A k \in Journals : k # j => intents'[k] = intents[k]
    BY <1>2, <1>3, <1>4 DEF Typed
<1>6. j[1] = w
    BY DEF Journal
<1>7. /\ \A k \in Journals : k[1] # w => intents'[k] = intents[k]
      /\ \A k \in Journals : intents[k].state = "referenced" => intents'[k] = intents[k]
      /\ \A k \in Journals : intents'[k].state \in {"uploaded", "referenced"} => k \in objects'
    BY <1>1, <1>2, <1>5, <1>6 DEF Inductive
<1>8. wf'[w].at = "begin" /\ wf'[w].todo = wf[w].todo /\ wf'[w].uploads = wf[w].uploads /\ Journal(w)' = j
    BY <1>1, <1>2, GoneOn
<1>9. tx'[w] = tx[w] /\ tx' = [tx EXCEPT ![w] = tx[w]]
    BY <1>1, <1>2 DEF Typed
<1>10. PhaseFits(w)' /\ LocksFit(w)' /\ KeysFit(w)'
    BY <1>2, <1>8, <1>9 DEF PhaseFits, LocksFit, KeysFit
<1>11. /\ [wf[w] EXCEPT !.at = "begin"] \in Workflow
       /\ wf' = [wf EXCEPT ![w] = [wf[w] EXCEPT !.at = "begin"]]
       /\ BatchFits(w)' /\ UploadsFit(w)'
    <2>1. "begin" \in Points /\ "begin" \notin {"idle", "register"} /\ wf[w].at # "idle"
        BY <1>1 DEF Points
    <2> QED
        BY <1>1, <2>1, BatchKept
<1>12. JournalFits(w)'
    <2>1. ASSUME NEW k \in Journals, k[1] = w, k[2] > wf'[w].uploads
          PROVE  intents'[k].state = "absent"
        <3>1. intents[k].state = "absent"
            BY <1>8, <2>1 DEF Inductive, JournalFits
        <3> QED
            BY <1>1, <1>5, <3>1
    <2> QED
        BY <1>2, <1>3, <1>5, <1>8, <1>9, <2>1 DEF JournalFits
<1>13. \A v \in Workflows \ {w} : Exclusive(w, v)'
    BY <1>2, <1>9 DEF Exclusive, HoldsLane
<1>14. AcknowledgedIsAccepted' /\ results' \in [Workflows -> [Requests -> Answers]]
    BY <1>1 DEF Inductive, AcknowledgedIsAccepted, Accepted, Typed
<1>15. objects' \in SUBSET Journals /\ objects \subseteq objects'
    BY <1>1, <1>2 DEF Typed
<1> QED
    BY <1>1, <1>2, <1>5, <1>7, <1>9, <1>10, <1>11, <1>12, <1>13, <1>14, <1>15, LocalStep

(* An attempt fails: the commands are answered, or the next attempt starts. *)
LEMMA UploadFailsStep ==
    ASSUME AcceptanceAssumption, Inductive, NEW w \in Workflows, UploadFails(w)
    PROVE  Inductive'
<1>1. wf[w].at \in {"register", "put", "mark"} /\ UNCHANGED <<environment, database>>
    BY DEF UploadFails
<1>2. /\ Typed /\ wf[w] \in Workflow /\ wf[w].todo # {}
      /\ tx[w] \in Transaction /\ tx[w].phase = "none" /\ tx[w].keys = {} /\ tx[w].won = {}
    BY <1>1 DEF Inductive, Typed, PhaseFits, BatchFits
<1>3. objects' \in SUBSET Journals /\ objects \subseteq objects'
    <2>1. CASE UNCHANGED objects
        BY <1>2, <2>1 DEF Typed
    <2>2. CASE wf[w].at = "put" /\ objects' = objects \cup {Journal(w)}
        <3>1. Journal(w) \in Journals
            BY <2>2 DEF Inductive, JournalFits, Uploading
        <3> QED
            BY <1>2, <2>2, <3>1 DEF Typed
    <2> QED
        BY <2>1, <2>2 DEF UploadFails
<1>4. CASE Finish(w, "failed")
    <2>1. "failed" \in Answers /\ "failed" # "receipt" /\ wf[w].at \notin {"idle", "confirm", "done"}
        BY <1>1 DEF Answers
    <2> QED
        BY <1>1, <1>2, <1>3, <1>4, <2>1, AnswerStep DEF Finish
<1>5. CASE /\ wf[w].attempt < MaxUploadAttempts
           /\ wf' = [wf EXCEPT ![w].at = "register", ![w].attempt = @ + 1]
           /\ UNCHANGED <<tx, results>>
    <2> DEFINE x == [wf[w] EXCEPT !.at = "register", !.attempt = wf[w].attempt + 1]
    <2>1. wf[w].attempt + 1 \in 0..MaxUploadAttempts /\ "register" \in Points
        BY <1>2, <1>5 DEF Workflow, Points, AcceptanceAssumption
    <2>2. x \in Workflow
        BY <1>2, <2>1 DEF Workflow
    <2>3. wf' = [wf EXCEPT ![w] = x] /\ tx' = [tx EXCEPT ![w] = tx[w]] /\ tx'[w] = tx[w]
        BY <1>2, <1>5 DEF Typed
    <2>4. /\ wf'[w].at = "register" /\ wf'[w].attempt = wf[w].attempt + 1
          /\ wf'[w].order = wf[w].order /\ wf'[w].todo = wf[w].todo /\ wf'[w].uploads = wf[w].uploads
        BY <1>2, <1>5 DEF Typed, Workflow
    <2> HIDE DEF x
    <2>5. PhaseFits(w)' /\ LocksFit(w)' /\ KeysFit(w)'
        BY <1>2, <2>3, <2>4 DEF PhaseFits, LocksFit, KeysFit
    <2>6. BatchFits(w)'
        BY <1>1, <1>2, <2>4 DEF Inductive, BatchFits, environment
    <2>7. UploadsFit(w)'
        <3> DEFINE spent == MaxUploadAttempts * (Cardinality(Requests) - Cardinality(wf[w].todo))
        <3>1. Cardinality(wf[w].todo) \in Nat /\ Cardinality(Requests) \in Nat /\ MaxUploadAttempts \in Nat
            BY <1>2, TodoFinite DEF Workflow, AcceptanceAssumption
        <3>2. spent \in Int
            BY <3>1
        <3>3. wf[w].uploads + (IF wf[w].at = "register" THEN 1 ELSE 0) <= spent + wf[w].attempt
            BY <1>1 DEF Inductive, UploadsFit
        <3>4. wf[w].uploads \in Nat /\ wf[w].attempt \in Int
            BY <1>2 DEF Workflow
        <3> HIDE DEF spent
        <3>5. wf[w].uploads + 1 <= spent + (wf[w].attempt + 1)
            BY <3>2, <3>3, <3>4
        <3> QED
            BY <2>4, <3>5 DEF UploadsFit, spent
    <2>8. JournalFits(w)'
        <3>1. JournalFits(w) /\ intents' = intents
            BY <1>1 DEF Inductive, database
        <3>2. ~Uploading(w)' /\ tx'[w].phase # "limbo"
            BY <1>2, <2>3, <2>4 DEF Uploading
        <3> QED
            BY <2>4, <3>1, <3>2 DEF JournalFits
    <2>9. \A v \in Workflows \ {w} : Exclusive(w, v)'
        BY <1>2, <2>3 DEF Exclusive, HoldsLane
    <2>10. AcknowledgedIsAccepted' /\ results' \in [Workflows -> [Requests -> Answers]]
        BY <1>1, <1>5 DEF Inductive, AcknowledgedIsAccepted, Accepted, database, Typed
    <2> QED
        BY <1>1, <1>2, <1>3, <2>2, <2>3, <2>5, <2>6, <2>7, <2>8, <2>9, <2>10, QuietStep
<1> QED
    BY <1>4, <1>5 DEF UploadFails


-----------------------------------------------------------------------------
(* The transaction *)

(* The first lookup: receipts are answered, or the transaction goes on.    *)
LEMMA BeginStep ==
    ASSUME AcceptanceAssumption, Inductive, NEW w \in Workflows, BeginAccept(w)
    PROVE  Inductive'
<1>1. wf[w].at = "begin" /\ objects' = objects /\ UNCHANGED <<environment, database>>
    BY DEF BeginAccept
<1>2. /\ Typed /\ wf[w].todo # {} /\ Uploading(w) /\ wf[w].at \notin {"idle", "confirm", "done"}
      /\ tx[w] \in Transaction /\ tx[w].phase = "none" /\ tx[w].keys = {} /\ tx[w].won = {}
    BY <1>1 DEF Inductive, Typed, PhaseFits, BatchFits, Uploading
<1>3. objects' \in SUBSET Journals /\ objects \subseteq objects'
    BY <1>1, <1>2 DEF Typed
<1>4. CASE wf[w].gen # generation
    <2>1. Finish(w, "failed") /\ "failed" \in Answers /\ "failed" # "receipt"
        BY <1>4 DEF BeginAccept, Answers
    <2> QED
        BY <1>1, <1>2, <1>3, <2>1, AnswerStep DEF Finish
<1>5. CASE wf[w].gen = generation /\ \E r \in wf[w].todo : Accepted(r)
    <2> DEFINE R == {r \in wf[w].todo : Accepted(r)}
    <2>1. AnswerAndContinue(w, R, "receipt") /\ "receipt" \in Answers
        BY <1>5 DEF BeginAccept, LookupAndClassify, Answers
    <2>2. R \in SUBSET wf[w].todo /\ R # {} /\ \A r \in R : Accepted(r)
        BY <1>5
    <2> HIDE DEF R
    <2> QED
        BY <1>1, <1>2, <1>3, <2>1, <2>2, AnswerStep
<1>6. CASE wf[w].gen = generation /\ ~\E r \in wf[w].todo : Accepted(r)
    <2> DEFINE y == [tx[w] EXCEPT !.phase = "begun"]
    <2>1. /\ wf' = [wf EXCEPT ![w].at = "authorize"] /\ results' = results
          /\ tx' = [tx EXCEPT ![w].phase = "begun"]
        BY <1>6 DEF BeginAccept, LookupAndClassify, Goto
    <2>2. y \in Transaction /\ tx' = [tx EXCEPT ![w] = y] /\ tx'[w] = y
        BY <1>2, <2>1 DEF Typed, Transaction
    <2>3. y.phase = "begun" /\ y.keys = {} /\ y.won = {}
        BY <1>2 DEF Transaction
    <2>4. wf'[w].at = "authorize" /\ wf'[w].gen = wf[w].gen /\ generation' = generation
        BY <1>1, <1>2, <2>1, GoneOn DEF environment
    <2> HIDE DEF y
    <2>5. PhaseFits(w)' /\ LocksFit(w)' /\ KeysFit(w)'
        BY <1>6, <2>2, <2>3, <2>4 DEF PhaseFits, LocksFit, KeysFit
    <2>6. \A v \in Workflows \ {w} : Exclusive(w, v)'
        BY <2>2, <2>3 DEF Exclusive, HoldsLane
    <2>7. AcknowledgedIsAccepted' /\ results' \in [Workflows -> [Requests -> Answers]]
        BY <1>1, <2>1 DEF Inductive, AcknowledgedIsAccepted, Accepted, database, Typed
    <2>8. "authorize" \in Points /\ "authorize" \notin {"idle", "register"} /\ "authorize" # "mark" /\ y.phase # "limbo"
        BY <2>3 DEF Points
    <2> QED
        BY <1>1, <1>2, <1>3, <2>1, <2>2, <2>3, <2>5, <2>6, <2>7, <2>8, MoveStep
<1> QED
    BY <1>4, <1>5, <1>6

(* The projects' rows are share-locked once every snapshot is current.     *)
LEMMA AuthorizeStep ==
    ASSUME AcceptanceAssumption, Inductive, NEW w \in Workflows, LockProjectAuthorities(w)
    PROVE  Inductive'
<1>1. wf[w].at = "authorize" /\ objects' = objects /\ UNCHANGED <<environment, database>>
    BY DEF LockProjectAuthorities
<1>2. /\ Typed /\ wf[w].todo # {} /\ Uploading(w) /\ wf[w].at \notin {"idle", "confirm", "done"}
      /\ tx[w] \in Transaction /\ tx[w].phase = "begun" /\ tx[w].keys = {} /\ tx[w].won = {}
      /\ wf[w].gen = generation
    BY <1>1 DEF Inductive, Typed, PhaseFits, BatchFits, Uploading, LocksFit
<1>3. objects' \in SUBSET Journals /\ objects \subseteq objects'
    BY <1>1, <1>2 DEF Typed
<1>4. CASE Rejected(w) # {}
    <2>1. AnswerAndContinue(w, Rejected(w), "rejected")
        BY <1>4 DEF LockProjectAuthorities
    <2>2. Rejected(w) \in SUBSET wf[w].todo /\ "rejected" \in Answers /\ "rejected" # "receipt"
        BY DEF Rejected, Mixed, Answers
    <2> QED
        BY <1>1, <1>2, <1>3, <1>4, <2>1, <2>2, AnswerStep
<1>5. CASE Rejected(w) = {}
    <2> DEFINE y == [tx[w] EXCEPT !.phase = "shared"]
    <2>1. /\ wf' = [wf EXCEPT ![w].at = "lane"] /\ results' = results
          /\ tx' = [tx EXCEPT ![w].phase = "shared"]
        BY <1>5 DEF LockProjectAuthorities, Goto
    <2>2. y \in Transaction /\ tx' = [tx EXCEPT ![w] = y] /\ tx'[w] = y
        BY <1>2, <2>1 DEF Typed, Transaction
    <2>3. y.phase = "shared" /\ y.keys = {} /\ y.won = {}
        BY <1>2 DEF Transaction
    <2>4. /\ wf'[w].at = "lane" /\ wf'[w].gen = wf[w].gen /\ wf'[w].todo = wf[w].todo
          /\ generation' = generation /\ snapshot' = snapshot /\ authority' = authority
        BY <1>1, <1>2, <2>1, GoneOn DEF environment
    <2>5. \A r \in wf[w].todo : snapshot[r] = authority[ProjectOf[r]]
        BY <1>5 DEF Rejected
    <2> HIDE DEF y
    <2>6. PhaseFits(w)' /\ LocksFit(w)' /\ KeysFit(w)'
        BY <1>2, <2>2, <2>3, <2>4, <2>5 DEF PhaseFits, LocksFit, KeysFit
    <2>7. \A v \in Workflows \ {w} : Exclusive(w, v)'
        BY <2>2, <2>3 DEF Exclusive, HoldsLane
    <2>8. AcknowledgedIsAccepted' /\ results' \in [Workflows -> [Requests -> Answers]]
        BY <1>1, <2>1 DEF Inductive, AcknowledgedIsAccepted, Accepted, database, Typed
    <2>9. "lane" \in Points /\ "lane" \notin {"idle", "register"} /\ "lane" # "mark" /\ y.phase # "limbo"
        BY <2>3 DEF Points
    <2> QED
        BY <1>1, <1>2, <1>3, <2>1, <2>2, <2>3, <2>6, <2>7, <2>8, <2>9, MoveStep
<1> QED
    BY <1>4, <1>5

(* The lane is locked and the lookup repeated: no command has a receipt.   *)
LEMMA LockLaneStep ==
    ASSUME AcceptanceAssumption, Inductive, NEW w \in Workflows, LockLane(w)
    PROVE  Inductive'
<1>1. /\ wf[w].at = "lane" /\ objects' = objects /\ UNCHANGED <<environment, database>>
      /\ \A v \in Workflows \ {w} : ~HoldsLane(v, Lane(w))
    BY DEF LockLane
<1>2. /\ Typed /\ wf[w].todo # {} /\ Uploading(w) /\ wf[w].at \notin {"idle", "confirm", "done"}
      /\ tx[w] \in Transaction /\ tx[w].phase = "shared" /\ tx[w].keys = {} /\ tx[w].won = {}
      /\ wf[w].gen = generation /\ \A r \in wf[w].todo : snapshot[r] = authority[ProjectOf[r]]
    BY <1>1 DEF Inductive, Typed, PhaseFits, BatchFits, Uploading, LocksFit
<1>3. objects' \in SUBSET Journals /\ objects \subseteq objects'
    BY <1>1, <1>2 DEF Typed
<1>4. CASE \E r \in wf[w].todo : Accepted(r)
    <2> DEFINE R == {r \in wf[w].todo : Accepted(r)}
    <2>1. AnswerAndContinue(w, R, "receipt") /\ "receipt" \in Answers
        BY <1>4 DEF LockLane, LookupAndClassify, Answers
    <2>2. R \in SUBSET wf[w].todo /\ R # {} /\ \A r \in R : Accepted(r)
        BY <1>4
    <2> HIDE DEF R
    <2> QED
        BY <1>1, <1>2, <1>3, <2>1, <2>2, AnswerStep
<1>5. CASE ~\E r \in wf[w].todo : Accepted(r)
    <2> DEFINE y == [tx[w] EXCEPT !.phase = "lane"]
    <2>1. /\ wf' = [wf EXCEPT ![w].at = "keys"] /\ results' = results
          /\ tx' = [tx EXCEPT ![w].phase = "lane"]
        BY <1>5 DEF LockLane, LookupAndClassify, Goto
    <2>2. /\ y \in Transaction /\ tx' = [tx EXCEPT ![w] = y] /\ tx'[w] = y
          /\ \A v \in Workflows \ {w} : tx'[v] = tx[v]
        BY <1>2, <2>1 DEF Typed, Transaction
    <2>3. y.phase = "lane" /\ y.keys = {} /\ y.won = {}
        BY <1>2 DEF Transaction
    <2>4. /\ wf'[w].at = "keys" /\ wf'[w].gen = wf[w].gen /\ wf'[w].todo = wf[w].todo /\ Lane(w)' = Lane(w)
          /\ \A v \in Workflows \ {w} : Lane(v)' = Lane(v)
        BY <1>2, <2>1, GoneOn
    <2>5. /\ generation' = generation /\ snapshot' = snapshot /\ authority' = authority
          /\ \A r \in wf[w].todo : ~Accepted(r)'
        BY <1>1, <1>5 DEF environment, database, Accepted
    <2> HIDE DEF y
    <2>6. PhaseFits(w)' /\ LocksFit(w)' /\ KeysFit(w)'
        BY <1>2, <2>2, <2>3, <2>4, <2>5 DEF PhaseFits, LocksFit, KeysFit
    <2>7. \A v \in Workflows \ {w} : Exclusive(w, v)'
        BY <1>1, <2>2, <2>3, <2>4 DEF Exclusive, HoldsLane
    <2>8. AcknowledgedIsAccepted' /\ results' \in [Workflows -> [Requests -> Answers]]
        BY <1>1, <2>1 DEF Inductive, AcknowledgedIsAccepted, Accepted, database, Typed
    <2>9. "keys" \in Points /\ "keys" \notin {"idle", "register"} /\ "keys" # "mark" /\ y.phase # "limbo"
        BY <2>3 DEF Points
    <2> QED
        BY <1>1, <1>2, <1>3, <2>1, <2>2, <2>3, <2>6, <2>7, <2>8, <2>9, MoveStep
<1> QED
    BY <1>4, <1>5


(* The keys of a batch are source events.                                  *)
LEMMA KeysAreEvents ==
    ASSUME AcceptanceAssumption, Typed, NEW w \in Workflows
    PROVE  KeysOf(w) \subseteq Events /\ KeysOf(w) \subseteq Nat
<1>1. wf[w].todo \subseteq Requests
    BY DEF Typed, Workflow
<1>2. \A r \in Requests : EventsOf(r) \subseteq Events
    BY DEF AcceptanceAssumption, EventsOf
<1> QED
    BY <1>1, <1>2 DEF KeysOf, AcceptanceAssumption

(* The smallest key that is left is claimed, if nobody has it.             *)
LEMMA ClaimKeyStep ==
    ASSUME AcceptanceAssumption, Inductive, NEW w \in Workflows, ClaimKey(w)
    PROVE  Inductive'
<1> DEFINE e == NextKey(w)
           left == KeysOf(w) \ tx[w].keys
           won == IF dedupe[e].state = "live" THEN tx[w].won ELSE tx[w].won \cup {e}
           y == [tx[w] EXCEPT !.keys = tx[w].keys \cup {e}, !.won = won]
<1>1. /\ wf[w].at = "keys" /\ KeysOf(w) # tx[w].keys /\ wf' = wf /\ results' = results /\ objects' = objects
      /\ UNCHANGED <<environment, database>>
      /\ \A v \in Workflows \ {w} : e \notin tx[v].keys
      /\ tx' = [tx EXCEPT ![w].keys = @ \cup {e},
                          ![w].won = IF dedupe[e].state = "live" THEN @ ELSE @ \cup {e}]
    BY DEF ClaimKey, HoldsKey
<1>2. /\ Typed /\ Uploading(w) /\ tx[w] \in Transaction /\ tx[w].phase = "lane"
      /\ KeysFit(w) /\ LocksFit(w) /\ PhaseFits(w) /\ wf[w] \in Workflow
    BY <1>1 DEF Inductive, Typed, PhaseFits, Uploading
<1>3. e \in left /\ \A f \in left : e <= f
    <2>1. left \subseteq Nat /\ left # {}
        BY <1>1, <1>2, KeysAreEvents DEF KeysFit
    <2> QED
        BY <2>1, SmallestExists DEF NextKey
<1>4. KeysOf(w) \subseteq Events /\ KeysOf(w) \subseteq Nat
    BY <1>2, KeysAreEvents
<1>5. e \in Events /\ won \subseteq Events /\ tx[w].keys \cup {e} \subseteq Events
    BY <1>2, <1>3, <1>4 DEF Transaction
<1> HIDE DEF e
<1>6. y \in Transaction /\ y.phase = "lane" /\ y.keys = tx[w].keys \cup {e} /\ y.won = won
    <2> HIDE DEF won
    <2> QED
        BY <1>2, <1>5 DEF Transaction
<1>7. tx' = [tx EXCEPT ![w] = y] /\ tx'[w] = y /\ \A v \in Workflows \ {w} : tx'[v] = tx[v]
    BY <1>1, <1>2 DEF Typed
<1>8. wf' = [wf EXCEPT ![w].at = "keys"]
    BY <1>1, <1>2 DEF Typed, Workflow
<1>9. PhaseFits(w)' /\ LocksFit(w)'
    <2> HIDE DEF y
    <2> QED
        BY <1>1, <1>2, <1>6, <1>7 DEF PhaseFits, LocksFit, Accepted, database, environment
<1>10. KeysFit(w)'
    <2>1. KeysOf(w)' = KeysOf(w) /\ dedupe' = dedupe
        BY <1>1 DEF KeysOf, database
    <2>2. /\ won \subseteq tx[w].keys \cup {e} /\ \A f \in won : dedupe[f].state # "live"
          /\ \A f \in (tx[w].keys \cup {e}) \ won : dedupe[f].state # "absent"
        BY <1>2 DEF KeysFit
    <2>3. tx[w].keys \cup {e} \subseteq KeysOf(w)
        BY <1>2, <1>3 DEF KeysFit
    <2>4. ASSUME NEW c \in tx[w].keys \cup {e}, NEW f \in KeysOf(w) \ (tx[w].keys \cup {e})
          PROVE  c < f
        <3>1. f \in left /\ f # e /\ e \in Nat /\ f \in Nat
            BY <1>3, <1>4, <2>4
        <3>2. CASE c = e
            BY <1>3, <3>1, <3>2
        <3>3. CASE c \in tx[w].keys
            BY <1>2, <3>1, <3>3 DEF KeysFit
        <3> QED
            BY <3>2, <3>3
    <2> HIDE DEF won, y
    <2> QED
        BY <1>6, <1>7, <2>1, <2>2, <2>3, <2>4 DEF KeysFit
<1>11. \A v \in Workflows \ {w} : Exclusive(w, v)'
    <2>1. ASSUME NEW v \in Workflows \ {w}
          PROVE  Exclusive(w, v)'
        <3>1. Exclusive(w, v) /\ Lane(w)' = Lane(w) /\ Lane(v)' = Lane(v)
            BY <1>1 DEF Inductive, Lane
        <3> HIDE DEF y
        <3> QED
            BY <1>1, <1>2, <1>6, <1>7, <3>1 DEF Exclusive, HoldsLane
    <2> QED
        BY <2>1
<1>12. AcknowledgedIsAccepted' /\ results' \in [Workflows -> [Requests -> Answers]]
    BY <1>1 DEF Inductive, AcknowledgedIsAccepted, Accepted, database, Typed
<1>13. objects' \in SUBSET Journals /\ objects \subseteq objects'
    BY <1>1, <1>2 DEF Typed
<1>14. "keys" \in Points /\ "keys" \notin {"idle", "register"} /\ "keys" # "mark" /\ y.phase # "limbo"
    BY <1>6 DEF Points
<1> HIDE DEF y
<1> QED
    BY <1>1, <1>2, <1>6, <1>7, <1>8, <1>9, <1>10, <1>11, <1>12, <1>13, <1>14, MoveStep

(* The lookup after a lost commit reply answers with what it finds.        *)
LEMMA ConfirmStep ==
    ASSUME AcceptanceAssumption, Inductive, NEW w \in Workflows, Confirm(w)
    PROVE  Inductive'
<1>1. /\ wf[w].at = "confirm" /\ wf' = [wf EXCEPT ![w].at = "done"] /\ tx' = tx /\ objects' = objects
      /\ UNCHANGED <<environment, database>>
    BY DEF Confirm, Goto
<1>2. PICK answer \in {"failed", "receipt"} :
          /\ answer = "receipt" => \A r \in wf[w].todo : Accepted(r)
          /\ results' = [results EXCEPT ![w] =
                            [r \in Requests |-> IF r \in wf[w].todo THEN answer ELSE @[r]]]
    BY DEF Confirm
<1>3. /\ Typed /\ Uploading(w) /\ tx[w] \in Transaction /\ tx[w].phase \in {"none", "limbo"}
      /\ KeysFit(w) /\ LocksFit(w) /\ PhaseFits(w) /\ JournalFits(w)
    BY <1>1 DEF Inductive, Typed, PhaseFits, Uploading
<1>4. /\ wf'[w].at = "done" /\ wf'[w].todo = wf[w].todo /\ wf'[w].gen = wf[w].gen
      /\ KeysOf(w)' = KeysOf(w) /\ Lane(w)' = Lane(w) /\ \A v \in Workflows \ {w} : Lane(v)' = Lane(v)
    BY <1>1, <1>3, GoneOn
<1>5. PhaseFits(w)' /\ LocksFit(w)' /\ KeysFit(w)'
    BY <1>1, <1>3, <1>4 DEF PhaseFits, LocksFit, KeysFit, Accepted, database, environment
<1>6. \A v \in Workflows \ {w} : Exclusive(w, v)'
    BY <1>1, <1>4 DEF Inductive, Exclusive, HoldsLane
<1>7. results' \in [Workflows -> [Requests -> Answers]]
    BY <1>2, <1>3 DEF Typed, Answers
<1>8. AcknowledgedIsAccepted'
    <2>1. \A r \in Requests : Accepted(r)' <=> Accepted(r)
        BY <1>1 DEF Accepted, database
    <2>2. \A v \in Workflows, r \in Requests :
              results'[v][r] = IF v = w /\ r \in wf[w].todo THEN answer ELSE results[v][r]
        BY <1>2, <1>3 DEF Typed
    <2> QED
        BY <1>2, <2>1, <2>2 DEF AcknowledgedIsAccepted, Inductive
<1>9. /\ objects' \in SUBSET Journals /\ objects \subseteq objects' /\ tx' = [tx EXCEPT ![w] = tx[w]]
      /\ "done" \in Points /\ "done" \notin {"idle", "register"} /\ "done" # "mark"
    BY <1>1, <1>3 DEF Typed, Points
<1>10. tx[w].phase = "limbo" => intents[Journal(w)].state = "uploaded" /\ intents[Journal(w)].gen = wf[w].gen
    BY <1>3 DEF JournalFits
<1> QED
    BY <1>1, <1>3, <1>5, <1>6, <1>7, <1>8, <1>9, <1>10, MoveStep
=============================================================================
