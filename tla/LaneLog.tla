------------------------------- MODULE LaneLog -------------------------------
(***************************************************************************)
(* What the publication pipeline promises its readers, without workers,    *)
(* leases, fences, intents or S3: a lane is an append-only log of batches, *)
(* and a growing prefix of it is visible.  A batch becomes visible as a    *)
(* whole, in one step, each of its files exactly once, and stays visible.  *)
(***************************************************************************)
EXTENDS Naturals

CONSTANTS Lanes, MaxSeq, MaxParts, PartCounts

VARIABLES
    length,     \* batches appended to a lane
    size,       \* files of a batch, 0 before it is appended
    visible,    \* length of a lane's visible prefix
    copies      \* how often a reader sees each file of a batch

logVars == <<length, size, visible, copies>>

Batches == Lanes \X (1..MaxSeq)

Init ==
    /\ length = [l \in Lanes |-> 0]
    /\ size = [b \in Batches |-> 0]
    /\ visible = [l \in Lanes |-> 0]
    /\ copies = [b \in Batches |-> [p \in 1..MaxParts |-> 0]]

Append(l, n) ==
    /\ length[l] < MaxSeq
    /\ length' = [length EXCEPT ![l] = length[l] + 1]
    /\ size' = [size EXCEPT ![<<l, length[l] + 1>>] = n]
    /\ UNCHANGED <<visible, copies>>

Reveal(l) ==
    LET b == <<l, visible[l] + 1>>
    IN  /\ visible[l] < length[l]
        /\ visible' = [visible EXCEPT ![l] = visible[l] + 1]
        /\ copies' = [copies EXCEPT ![b] =
                         [p \in 1..MaxParts |-> IF p <= size[b] THEN 1 ELSE 0]]
        /\ UNCHANGED <<length, size>>

Next ==
    \/ \E l \in Lanes, n \in PartCounts : Append(l, n)
    \/ \E l \in Lanes : Reveal(l)

Spec == Init /\ [][Next]_logVars
=============================================================================
