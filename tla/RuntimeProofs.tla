--------------------------- MODULE RuntimeProofs ---------------------------
(***************************************************************************)
(* For every number of requests and native tasks and every size of the     *)
(* budget: no task sleeps on a budget that has room for it, and every      *)
(* living process of a native child is covered by the one permit of the    *)
(* gate.                                                                   *)
(***************************************************************************)
EXTENDS Runtime, SequenceTheorems, TLAPS

TaskType == [step : NativeSteps, canceled : BOOLEAN, leader : BOOLEAN, child : BOOLEAN]
RequestType == [step : RequestSteps, held : Seq({Parse, More})]

(* The types the argument needs.  That used is never negative is a fact    *)
(* about the sum of all permits and is not needed here.                    *)
Typed ==
    /\ used \in Int
    /\ draining \in BOOLEAN /\ slot \in BOOLEAN
    /\ tasks \in [Natives -> TaskType]
    /\ requests \in [Parsers -> RequestType]

IInv == Typed /\ GateInv

(* Waking the sleepers leaves nobody asleep and changes nothing else.      *)
LEMMA WokenTasks ==
    ASSUME NEW t \in [Natives -> TaskType]
    PROVE  /\ Woken(t) \in [Natives -> TaskType]
           /\ \A n \in Natives :
                  /\ Woken(t)[n].step # "asleep"
                  /\ t[n].step # "asleep" => Woken(t)[n] = t[n]
                  /\ t[n].step = "asleep" => Woken(t)[n].step = "bytes"
                  /\ Woken(t)[n].leader = t[n].leader
                  /\ Woken(t)[n].child = t[n].child
BY DEF Woken, TaskType, NativeSteps

(* The process starts with a free slot and nobody asleep.                  *)
LEMMA InitIInv == Init => IInv
<1> SUFFICES ASSUME Init PROVE IInv
    OBVIOUS
<1>1. Typed
    <2>1. <<>> \in Seq({Parse, More})
        OBVIOUS
    <2>2. NoTask \in TaskType
        BY DEF NoTask, TaskType, NativeSteps
    <2>3. [step |-> "idle", held |-> <<>>] \in RequestType
        BY <2>1 DEF RequestType, RequestSteps
    <2>4. used \in Int
        BY DEF Init
    <2>5. draining \in BOOLEAN /\ slot \in BOOLEAN
        BY DEF Init
    <2> QED
        BY <2>2, <2>3, <2>4, <2>5 DEF Init, Typed
<1>2. GateInv
    <2>1. \A n \in Natives : tasks[n].step = "idle" /\ ~tasks[n].leader /\ ~tasks[n].child
        BY DEF Init, NoTask
    <2>2. \A p \in Parsers : requests[p].step = "idle"
        BY DEF Init
    <2> QED
        BY <2>1, <2>2 DEF GateInv, NoSleeperForgotten, HasSlot
<1> QED
    BY <1>1, <1>2 DEF IInv

(* A step of one task that changes neither the budget nor the requests.    *)
LEMMA TaskStep ==
    ASSUME IInv, NEW n \in Natives,
           StartTask(n) \/ CancelTask(n) \/ LeaderExits(n) \/ TakeSlot(n) \/ StartChild(n)
           \/ Joined(n) \/ Terminate(n) \/ Kill(n) \/ Reap(n) \/ ReleaseSlot(n)
    PROVE  IInv'
<1> USE DEF IInv
<1>1. /\ UNCHANGED <<used, draining, requests>>
      /\ tasks' \in [Natives -> TaskType] /\ slot' \in BOOLEAN
      /\ \A m \in Natives \ {n} : tasks'[m] = tasks[m]
      /\ tasks'[n].step # "asleep" \/ tasks[n].step = "asleep"
      /\ tasks'[n].leader => tasks'[n].step \in {"wait", "grace"}
      /\ tasks'[n].child => tasks'[n].step \in {"wait", "grace", "check"}
      /\ tasks'[n].step \notin {"idle", "slot"} => ~slot' /\ (slot \/ HasSlot(n))
      /\ tasks'[n].step \in {"idle", "slot"} /\ slot' => slot \/ HasSlot(n)
    <2>t. tasks[n] \in TaskType
        BY DEF Typed
    <2>1. CASE StartTask(n)
        BY <2>1 DEF StartTask, Typed, GateInv, HasSlot, TaskType, NativeSteps, NoTask
    <2>2. CASE CancelTask(n)
        <3> DEFINE t == [tasks[n] EXCEPT !.canceled = TRUE]
        <3>1. t \in TaskType
            BY <2>t DEF TaskType, NativeSteps
        <3>2. tasks' = [tasks EXCEPT ![n] = t] /\ UNCHANGED <<used, draining, requests, slot>>
            BY <2>2, <2>t DEF CancelTask, TaskType
        <3>3. tasks' \in [Natives -> TaskType] /\ tasks'[n] = t /\ \A m \in Natives \ {n} : tasks'[m] = tasks[m]
            BY <3>1, <3>2 DEF Typed
        <3> QED
            BY <2>2, <2>t, <3>2, <3>3 DEF CancelTask, Typed, GateInv, HasSlot, TaskType, NativeSteps
    <2>3. CASE LeaderExits(n)
        <3> DEFINE t == [tasks[n] EXCEPT !.leader = FALSE]
        <3>1. t \in TaskType
            BY <2>t DEF TaskType, NativeSteps
        <3>2. tasks' = [tasks EXCEPT ![n] = t] /\ UNCHANGED <<used, draining, requests, slot>>
            BY <2>3, <2>t DEF LeaderExits, TaskType
        <3>3. tasks' \in [Natives -> TaskType] /\ tasks'[n] = t /\ \A m \in Natives \ {n} : tasks'[m] = tasks[m]
            BY <3>1, <3>2 DEF Typed
        <3> QED
            BY <2>3, <2>t, <3>2, <3>3 DEF LeaderExits, Typed, GateInv, HasSlot, TaskType, NativeSteps
    <2>4. CASE TakeSlot(n)
        <3> DEFINE t == [tasks[n] EXCEPT !.step = "bytes"]
        <3>1. t \in TaskType /\ NoTask \in TaskType
            BY <2>t DEF TaskType, NativeSteps, NoTask
        <3>2. CASE slot /\ slot' = FALSE /\ tasks' = [tasks EXCEPT ![n].step = "bytes"]
            <4>1. tasks' = [tasks EXCEPT ![n] = t]
                BY <3>2
            <4>2. tasks' \in [Natives -> TaskType] /\ tasks'[n] = t /\ \A m \in Natives \ {n} : tasks'[m] = tasks[m]
                BY <3>1, <4>1 DEF Typed
            <4>3. ~HasSlot(n)
                BY <3>2 DEF GateInv
            <4> QED
                BY <2>4, <2>t, <3>2, <4>2, <4>3 DEF TakeSlot, GateInv, TaskType, HasSlot
        <3>3. CASE tasks' = [tasks EXCEPT ![n] = NoTask] /\ UNCHANGED slot
            <4>1. tasks' \in [Natives -> TaskType] /\ tasks'[n] = NoTask /\ \A m \in Natives \ {n} : tasks'[m] = tasks[m]
                BY <3>1, <3>3 DEF Typed
            <4>2. slot' \in BOOLEAN
                BY <3>3 DEF Typed
            <4> QED
                BY <2>4, <3>3, <4>1, <4>2 DEF TakeSlot, NoTask
        <3> QED
            BY <2>4, <3>2, <3>3 DEF TakeSlot
    <2>5. CASE StartChild(n)
        <3>1. PICK child \in BOOLEAN :
                  tasks' = [tasks EXCEPT ![n] = IF @.canceled THEN [@ EXCEPT !.step = "done"]
                                ELSE [@ EXCEPT !.step = "wait", !.leader = TRUE, !.child = child]]
            BY <2>5 DEF StartChild
        <3> DEFINE t == IF tasks[n].canceled THEN [tasks[n] EXCEPT !.step = "done"]
                        ELSE [tasks[n] EXCEPT !.step = "wait", !.leader = TRUE, !.child = child]
        <3>2. t \in TaskType
            BY <2>t, <3>1 DEF TaskType, NativeSteps
        <3>3. tasks' \in [Natives -> TaskType] /\ tasks'[n] = t /\ \A m \in Natives \ {n} : tasks'[m] = tasks[m]
            BY <3>1, <3>2 DEF Typed
        <3>4. \/ t.step = "done" /\ t.leader = tasks[n].leader /\ t.child = tasks[n].child
              \/ t.step = "wait"
            BY <2>t DEF TaskType
        <3>5. tasks[n].step = "start" /\ ~tasks[n].leader /\ ~tasks[n].child /\ HasSlot(n) /\ ~slot
            BY <2>5 DEF StartChild, GateInv, HasSlot
        <3>6. slot' = slot /\ slot' \in BOOLEAN /\ UNCHANGED <<used, draining, requests>>
            BY <2>5 DEF StartChild, Typed
        <3> HIDE DEF t
        <3> QED
            BY <3>3, <3>4, <3>5, <3>6
    <2>6. CASE Joined(n)
        BY <2>6 DEF Joined, Typed, GateInv, HasSlot, TaskType, NativeSteps, NoTask
    <2>7. CASE Terminate(n)
        BY <2>7 DEF Terminate, Typed, GateInv, HasSlot, TaskType, NativeSteps, NoTask
    <2>8. CASE Kill(n)
        <3> DEFINE t == [tasks[n] EXCEPT !.step = "killed", !.leader = FALSE, !.child = FALSE]
        <3>1. t \in TaskType
            BY <2>t DEF TaskType, NativeSteps
        <3>2. tasks' = [tasks EXCEPT ![n] = t] /\ UNCHANGED <<used, draining, requests, slot>>
            BY <2>8, <2>t DEF Kill, TaskType
        <3>3. tasks' \in [Natives -> TaskType] /\ tasks'[n] = t /\ \A m \in Natives \ {n} : tasks'[m] = tasks[m]
            BY <3>1, <3>2 DEF Typed
        <3> QED
            BY <2>8, <2>t, <3>2, <3>3 DEF Kill, Typed, GateInv, HasSlot, TaskType, NativeSteps
    <2>9. CASE Reap(n)
        <3> DEFINE t == [tasks[n] EXCEPT !.step = "done", !.child = FALSE]
        <3>1. t \in TaskType
            BY <2>t DEF TaskType, NativeSteps
        <3>2. tasks' = [tasks EXCEPT ![n] = t] /\ UNCHANGED <<used, draining, requests, slot>>
            BY <2>9, <2>t DEF Reap, TaskType
        <3>3. tasks' \in [Natives -> TaskType] /\ tasks'[n] = t /\ \A m \in Natives \ {n} : tasks'[m] = tasks[m]
            BY <3>1, <3>2 DEF Typed
        <3> QED
            BY <2>9, <2>t, <3>2, <3>3 DEF Reap, Typed, GateInv, HasSlot, TaskType, NativeSteps
    <2>10. CASE ReleaseSlot(n)
        BY <2>10 DEF ReleaseSlot, Typed, GateInv, HasSlot, TaskType, NativeSteps, NoTask
    <2> QED
        BY <2>1, <2>2, <2>3, <2>4, <2>5, <2>6, <2>7, <2>8, <2>9, <2>10
<1>2. Typed'
    BY <1>1 DEF Typed
<1>3. GateInv'
    BY <1>1 DEF GateInv, HasSlot, NoSleeperForgotten, Typed
<1> QED
    BY <1>2, <1>3

(* The gate asks the budget: the task is admitted, refused or goes to      *)
(* sleep because there is no room.                                         *)
LEMMA AcquireStep ==
    ASSUME IInv, NEW n \in Natives, AcquireContext(n)
    PROVE  IInv'
<1> USE DEF IInv
<1>t. tasks[n] \in TaskType /\ NoTask \in TaskType
    BY DEF Typed, NoTask, TaskType, NativeSteps
<1>h. tasks[n].step \in {"bytes", "asleep"} /\ HasSlot(n) /\ ~slot /\ ~tasks[n].leader /\ ~tasks[n].child
    BY DEF AcquireContext, HasSlot, GateInv
<1>u. UNCHANGED <<draining, requests>>
    BY DEF AcquireContext
<1>1. CASE Refused(n)
    <2>1. /\ tasks' \in [Natives -> TaskType] /\ tasks'[n] = NoTask
          /\ \A m \in Natives \ {n} : tasks'[m] = tasks[m]
        BY <1>1, <1>t DEF Refused, Typed
    <2>2. slot' = TRUE /\ used' = used
        BY <1>1 DEF Refused
    <2>3. Typed'
        BY <2>1, <2>2, <1>u DEF Typed
    <2>4. GateInv'
        BY <1>h, <1>u, <2>1, <2>2 DEF GateInv, HasSlot, NoSleeperForgotten, NoTask
    <2> QED
        BY <2>3, <2>4
<1>2. CASE /\ Admits(Reservation) /\ used' = used + Reservation
           /\ tasks' = [tasks EXCEPT ![n].step = "start"] /\ UNCHANGED slot
    <2> DEFINE t == [tasks[n] EXCEPT !.step = "start"]
    <2>1. t \in TaskType /\ t.step = "start" /\ t.leader = tasks[n].leader /\ t.child = tasks[n].child
        BY <1>t DEF TaskType, NativeSteps
    <2>2. /\ tasks' \in [Natives -> TaskType] /\ tasks'[n] = t
          /\ \A m \in Natives \ {n} : tasks'[m] = tasks[m]
        BY <1>2, <2>1 DEF Typed
    <2>3. used' \in Int
        BY <1>2, RuntimeAssumption DEF Typed
    <2>4. Typed'
        BY <1>2, <1>u, <2>2, <2>3 DEF Typed
    <2>5. \A m \in Natives : tasks'[m].step # "asleep"
        BY <1>h, <2>1, <2>2 DEF GateInv, HasSlot
    <2> HIDE DEF t
    <2>6. GateInv'
        BY <1>2, <1>h, <1>u, <2>1, <2>2, <2>5 DEF GateInv, HasSlot, NoSleeperForgotten
    <2> QED
        BY <2>4, <2>6
<1>3. CASE /\ ~draining /\ ~Admits(Reservation)
           /\ tasks' = [tasks EXCEPT ![n].step = "asleep"] /\ UNCHANGED <<used, slot>>
    <2> DEFINE t == [tasks[n] EXCEPT !.step = "asleep"]
    <2>1. t \in TaskType /\ t.step = "asleep" /\ t.leader = tasks[n].leader /\ t.child = tasks[n].child
        BY <1>t DEF TaskType, NativeSteps
    <2>2. /\ tasks' \in [Natives -> TaskType] /\ tasks'[n] = t
          /\ \A m \in Natives \ {n} : tasks'[m] = tasks[m]
        BY <1>3, <2>1 DEF Typed
    <2>3. Typed'
        BY <1>3, <1>u, <2>2 DEF Typed
    <2>4. ~draining' /\ Reservation > Limit - used'
        BY <1>3, <1>u, RuntimeAssumption DEF Admits, Typed
    <2> HIDE DEF t
    <2>5. GateInv'
        BY <1>3, <1>h, <1>u, <2>1, <2>2, <2>4 DEF GateInv, HasSlot, NoSleeperForgotten
    <2> QED
        BY <2>3, <2>5
<1> QED
    BY <1>1, <1>2, <1>3 DEF AcquireContext

(* A release wakes every sleeper, so none is left behind whatever the      *)
(* bytes were; a task that gives back its permit keeps the slot.           *)
LEMMA ReleaseStep ==
    ASSUME IInv, NEW n \in Natives, ReleasePermit(n)
    PROVE  IInv'
<1> USE DEF IInv
<1> DEFINE t == [tasks EXCEPT ![n].step = "unslot"]
<1>1. /\ tasks[n].step = "done" /\ tasks' = Woken(t) /\ used' = used - Reservation
      /\ UNCHANGED <<draining, requests, slot>>
    BY DEF ReleasePermit, Release
<1>2. /\ t \in [Natives -> TaskType]
      /\ t[n].step = "unslot" /\ t[n].leader = tasks[n].leader /\ t[n].child = tasks[n].child
      /\ \A m \in Natives \ {n} : t[m] = tasks[m]
    BY DEF Typed, TaskType, NativeSteps
<1> HIDE DEF t
<1>3. Typed'
    BY <1>1, <1>2, WokenTasks, RuntimeAssumption DEF Typed
<1>4. \A m \in Natives :
          /\ tasks'[m].step # "asleep"
          /\ tasks'[m].leader = tasks[m].leader /\ tasks'[m].child = tasks[m].child
          /\ (tasks'[m].step \notin {"idle", "slot"}) = HasSlot(m)
          /\ m # n => tasks'[m].step = tasks[m].step \/ tasks[m].step = "asleep"
    BY <1>1, <1>2, WokenTasks DEF HasSlot
<1>5. ~tasks[n].leader /\ ~tasks[n].child
    BY <1>1 DEF GateInv
<1>6. GateInv'
    BY <1>1, <1>4, <1>5 DEF GateInv, HasSlot, NoSleeperForgotten
<1> QED
    BY <1>3, <1>6

(* Steps of a request that release nothing: what it takes only makes less  *)
(* room.                                                                   *)
LEMMA RequestKeeps ==
    ASSUME IInv, NEW p \in Parsers,
           StartRequest(p) \/ ReserveWorking(p) \/ DecodeStore(p) \/ ParseEnvelope(p) \/ Answered(p)
           \/ Abandoned(p)
    PROVE  IInv'
<1> USE DEF IInv
<1>r. requests[p] \in RequestType
    BY DEF Typed
<1>1. /\ UNCHANGED <<draining, tasks, slot>>
      /\ used' \in Int /\ used' >= used
      /\ \E r \in RequestType :
             /\ r.step \in {"parse", "sink", "lost", "release"} => r.held # <<>>
             /\ requests' = [requests EXCEPT ![p] = r]
    <2>1. CASE StartRequest(p)
        <3> DEFINE r == [requests[p] EXCEPT !.step = "body"]
        <3>1. r \in RequestType /\ r.step = "body"
            BY <1>r DEF RequestType, RequestSteps
        <3>2. requests' = [requests EXCEPT ![p] = r] /\ UNCHANGED <<used, draining, tasks, slot>>
            BY <2>1 DEF StartRequest
        <3>3. used' \in Int /\ used' >= used
            BY <3>2 DEF Typed
        <3> HIDE DEF r
        <3> QED
            BY <3>1, <3>2, <3>3
    <2>2. CASE ReserveWorking(p)
        <3>1. <<Parse>> \in Seq({Parse, More}) /\ <<Parse>> # <<>>
            OBVIOUS
        <3> DEFINE r == IF Admits(Parse) THEN [step |-> "parse", held |-> <<Parse>>]
                        ELSE [requests[p] EXCEPT !.step = "idle"]
        <3>2. r \in RequestType /\ (r.step \in {"parse", "sink", "lost", "release"} => r.held # <<>>)
            BY <1>r, <3>1 DEF RequestType, RequestSteps
        <3>3. requests' = [requests EXCEPT ![p] = r]
            BY <2>2 DEF ReserveWorking
        <3>4. used' \in Int /\ used' >= used
            BY <2>2, RuntimeAssumption DEF ReserveWorking, Typed
        <3> QED
            BY <2>2, <3>2, <3>3, <3>4 DEF ReserveWorking
    <2>3. CASE DecodeStore(p)
        <3>1. Append(requests[p].held, More) \in Seq({Parse, More}) /\ Append(requests[p].held, More) # <<>>
            BY <1>r DEF RequestType, RequestSteps
        <3>2. requests[p].held # <<>>
            BY <2>3 DEF DecodeStore, GateInv
        <3> DEFINE r == IF Admits(More) THEN [step |-> "sink", held |-> Append(requests[p].held, More)]
                        ELSE [requests[p] EXCEPT !.step = "release"]
        <3>3. r \in RequestType /\ r.held # <<>>
            BY <1>r, <3>1, <3>2 DEF RequestType, RequestSteps
        <3>4. requests' = [requests EXCEPT ![p] = r]
            BY <2>3 DEF DecodeStore
        <3>5. used' \in Int /\ used' >= used
            BY <2>3, RuntimeAssumption DEF DecodeStore, Typed
        <3> QED
            BY <2>3, <3>3, <3>4, <3>5 DEF DecodeStore
    <2>4. CASE ParseEnvelope(p)
        <3>1. requests[p].held # <<>>
            BY <2>4 DEF ParseEnvelope, GateInv
        <3>2. PICK step \in {"sink", "release"} : requests' = [requests EXCEPT ![p].step = step]
            BY <2>4 DEF ParseEnvelope
        <3> DEFINE r == [requests[p] EXCEPT !.step = step]
        <3>3. r \in RequestType /\ r.held # <<>>
            BY <1>r, <3>1 DEF RequestType, RequestSteps
        <3>4. requests' = [requests EXCEPT ![p] = r] /\ UNCHANGED <<used, draining, tasks, slot>>
            BY <2>4, <3>2 DEF ParseEnvelope
        <3>5. used' \in Int /\ used' >= used
            BY <3>4 DEF Typed
        <3> HIDE DEF r
        <3> QED
            BY <3>3, <3>4, <3>5
    <2>5. CASE Answered(p)
        <3>1. requests[p].held # <<>>
            BY <2>5 DEF Answered, GateInv
        <3> DEFINE r == [requests[p] EXCEPT !.step = "release"]
        <3>2. r \in RequestType /\ r.held # <<>>
            BY <1>r, <3>1 DEF RequestType, RequestSteps
        <3>3. requests' = [requests EXCEPT ![p] = r] /\ UNCHANGED <<used, draining, tasks, slot>>
            BY <2>5 DEF Answered
        <3>4. used' \in Int /\ used' >= used
            BY <3>3 DEF Typed
        <3> HIDE DEF r
        <3> QED
            BY <3>2, <3>3, <3>4
    <2>6. CASE Abandoned(p)
        <3>1. requests[p].held # <<>>
            BY <2>6 DEF Abandoned, GateInv
        <3> DEFINE r == [requests[p] EXCEPT !.step = "lost"]
        <3>2. r \in RequestType /\ r.held # <<>>
            BY <1>r, <3>1 DEF RequestType, RequestSteps
        <3>3. requests' = [requests EXCEPT ![p] = r] /\ UNCHANGED <<used, draining, tasks, slot>>
            BY <2>6 DEF Abandoned
        <3>4. used' \in Int /\ used' >= used
            BY <3>3 DEF Typed
        <3> HIDE DEF r
        <3> QED
            BY <3>2, <3>3, <3>4
    <2> QED
        BY <2>1, <2>2, <2>3, <2>4, <2>5, <2>6
<1>2. Typed'
    BY <1>1 DEF Typed
<1>3. NoSleeperForgotten'
    <2>1. used \in Int /\ used' \in Int /\ used' >= used
        BY <1>1 DEF Typed
    <2>2. (Reservation > Limit - used) => (Reservation > Limit - used')
        <3>1. \A r, l, u, v \in Int : v >= u /\ r > l - u => r > l - v
            OBVIOUS
        <3>2. Reservation \in Int /\ Limit \in Int
            BY RuntimeAssumption
        <3> QED
            BY <2>1, <3>1, <3>2
    <2>3. UNCHANGED <<draining, tasks>>
        BY <1>1
    <2> QED
        BY <2>2, <2>3 DEF GateInv, NoSleeperForgotten
<1>4. GateInv'
    BY <1>1, <1>3 DEF GateInv, HasSlot, Typed
<1> QED
    BY <1>2, <1>4

(* The end of a request releases its last permit and wakes the sleepers.   *)
LEMMA RequestReleases ==
    ASSUME IInv, NEW p \in Parsers, EndRequest(p)
    PROVE  IInv'
<1> USE DEF IInv
<1> DEFINE held == requests[p].held
<1>1. held \in Seq({Parse, More}) /\ held # <<>>
    BY DEF Typed, RequestType, RequestSteps, EndRequest, GateInv
<1>2. Last(held) \in {Parse, More}
    BY <1>1 DEF Last
<1>3. Front(held) \in Seq({Parse, More}) /\ (Len(held) # 1 => Front(held) # <<>>)
    <2>1. Len(held) \in Nat /\ Len(held) # 0 /\ \A i \in 1..(Len(held) - 1) : held[i] \in {Parse, More}
        BY <1>1
    <2>2. /\ SubSeq(held, 1, Len(held) - 1) \in Seq({Parse, More})
          /\ Len(SubSeq(held, 1, Len(held) - 1)) = IF 1 <= Len(held) - 1 THEN Len(held) - 1 ELSE 0
        BY <2>1, SubSeqProperties
    <2> HIDE DEF held
    <2>3. Len(held) # 1 => Len(SubSeq(held, 1, Len(held) - 1)) # 0
        <3>1. \A k \in Nat : k # 0 /\ k # 1 => (IF 1 <= k - 1 THEN k - 1 ELSE 0) # 0
            OBVIOUS
        <3> QED
            BY <2>1, <2>2, <3>1
    <2> QED
        BY <2>2, <2>3 DEF Front
<1>4. /\ used' = used - Last(held) /\ tasks' = Woken(tasks)
      /\ UNCHANGED <<draining, slot>>
    BY DEF EndRequest, Release
<1> DEFINE r == IF Len(held) = 1 THEN [step |-> "idle", held |-> <<>>]
                ELSE [step |-> "release", held |-> Front(held)]
<1>5. r \in RequestType /\ (r.step \in {"parse", "sink", "lost", "release"} => r.held # <<>>)
    <2>1. CASE Len(held) = 1
        <3>1. <<>> \in Seq({Parse, More})
            OBVIOUS
        <3> QED
            BY <2>1, <3>1 DEF RequestType, RequestSteps
    <2>2. CASE Len(held) # 1
        BY <2>2, <1>3 DEF RequestType, RequestSteps, Typed
    <2> QED
        BY <2>1, <2>2
<1>6. requests' = [requests EXCEPT ![p] = r]
    BY DEF EndRequest
<1>7. used' \in Int
    BY <1>2, <1>4, RuntimeAssumption DEF Typed
<1> HIDE DEF r, held
<1>8. Typed'
    BY <1>4, <1>5, <1>6, <1>7, WokenTasks DEF Typed
<1>9. \A m \in Natives :
          /\ tasks'[m].step # "asleep"
          /\ tasks'[m].leader = tasks[m].leader /\ tasks'[m].child = tasks[m].child
          /\ (tasks'[m].step \notin {"idle", "slot"}) = HasSlot(m)
          /\ tasks'[m].step = tasks[m].step \/ tasks[m].step = "asleep"
    BY <1>4, WokenTasks DEF HasSlot, Typed
<1>10. GateInv'
    BY <1>4, <1>5, <1>6, <1>9 DEF GateInv, HasSlot, NoSleeperForgotten, Typed
<1> QED
    BY <1>8, <1>10

(* Stopping cancels tasks; draining wakes the sleepers.                    *)
LEMMA RunKeeps ==
    ASSUME IInv, Stop \/ RunStep
    PROVE  IInv'
<1> USE DEF IInv
<1>1. CASE Stop
    <2>1. /\ tasks' \in [Natives -> TaskType]
          /\ \A n \in Natives : /\ tasks'[n].step = tasks[n].step
                                /\ tasks'[n].leader = tasks[n].leader
                                /\ tasks'[n].child = tasks[n].child
        BY <1>1 DEF Stop, Typed, TaskType
    <2>2. UNCHANGED <<used, draining, requests, slot>>
        BY <1>1 DEF Stop
    <2>3. Typed'
        BY <2>1, <2>2 DEF Typed
    <2>4. GateInv'
        BY <2>1, <2>2 DEF GateInv, HasSlot, NoSleeperForgotten
    <2> QED
        BY <2>3, <2>4
<1>2. CASE Drain
    <2>1. tasks' = Woken(tasks) /\ draining' = TRUE /\ UNCHANGED <<used, requests, slot>>
        BY <1>2 DEF Drain
    <2>2. Typed'
        BY <2>1, WokenTasks DEF Typed
    <2>3. \A m \in Natives :
              /\ tasks'[m].step # "asleep"
              /\ tasks'[m].leader = tasks[m].leader /\ tasks'[m].child = tasks[m].child
              /\ (tasks'[m].step \notin {"idle", "slot"}) = HasSlot(m)
              /\ tasks'[m].step = tasks[m].step \/ tasks[m].step = "asleep"
        BY <2>1, WokenTasks DEF HasSlot, Typed
    <2>4. GateInv'
        BY <2>1, <2>3 DEF GateInv, HasSlot, NoSleeperForgotten
    <2> QED
        BY <2>2, <2>4
<1>3. CASE DrainTimeout \/ Shutdown \/ Join
    <2>1. UNCHANGED <<used, draining, requests, tasks, slot>>
        BY <1>3 DEF DrainTimeout, Shutdown, Join
    <2> QED
        BY <2>1 DEF Typed, GateInv, HasSlot, NoSleeperForgotten
<1> QED
    BY <1>1, <1>2, <1>3 DEF RunStep

(* Every step of the process preserves the invariant.                      *)
LEMMA NextIInv == IInv /\ [Next]_vars => IInv'
<1> SUFFICES ASSUME IInv, [Next]_vars PROVE IInv'
    OBVIOUS
<1>1. ASSUME NEW p \in Parsers, StartRequest(p) \/ RequestStep(p) \/ Answered(p) \/ Abandoned(p) PROVE IInv'
    BY <1>1, RequestKeeps, RequestReleases DEF RequestStep
<1>2. ASSUME NEW n \in Natives, StartTask(n) \/ CancelTask(n) \/ LeaderExits(n) \/ NativeStep(n) PROVE IInv'
    BY <1>2, TaskStep, AcquireStep, ReleaseStep DEF NativeStep
<1>3. CASE UNCHANGED vars
    BY <1>3 DEF vars, IInv, Typed, GateInv, HasSlot, NoSleeperForgotten
<1> QED
    BY <1>1, <1>2, <1>3, RunKeeps DEF Next

(* The invariant holds throughout. *)
LEMMA InvariantHolds == Spec => []IInv
BY InitIInv, NextIInv, PTL DEF Spec

(* The token of the gate is in its slot or with one task, processes live   *)
(* only between the start and the reaping of their child, and nobody       *)
(* sleeps who could be admitted.                                           *)
THEOREM GateHolds == Spec => []GateInv
<1>1. IInv => GateInv
    BY DEF IInv
<1> QED
    BY <1>1, InvariantHolds, PTL

(* No wakeup is lost, whatever the number of tasks and requests and the    *)
(* sizes they reserve: a task that waits on the budget does not fit, and   *)
(* no task waits on a draining budget.                                     *)
THEOREM NoSleeperForgottenHolds == Spec => []NoSleeperForgotten
<1>1. IInv => NoSleeperForgotten
    BY DEF IInv, GateInv
<1> QED
    BY <1>1, InvariantHolds, PTL

(* Every living process of a native child is covered by the permit and the *)
(* slot of its task, and there is one such task in the process.            *)
THEOREM ChildrenAreOwnedHolds == Spec => []ChildrenAreOwned
<1>1. IInv => ChildrenAreOwned
    BY DEF IInv, GateInv, HasSlot, ChildrenAreOwned, Owned
<1> QED
    BY <1>1, InvariantHolds, PTL
=============================================================================
