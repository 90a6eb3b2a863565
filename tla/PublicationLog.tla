--------------------------- MODULE PublicationLog ---------------------------
(***************************************************************************)
(* Publication implements LaneLog: the catalog of each lane is a log whose *)
(* visible prefix grows by whole batches.                                  *)
(***************************************************************************)
EXTENDS Publication

(* The files rows of batch j that carry its file p, over all attempts. *)
Copies(j, p) == {i \in files : i[1] = j /\ i[3] = p}

Log == INSTANCE LaneLog WITH
    length <- [l \in Lanes |-> lanes[l].accepted],
    size <- [j \in JobIds |-> batches[j].parts],
    visible <- [l \in Lanes |-> lanes[l].published],
    copies <- [j \in JobIds |-> [p \in Parts |-> Cardinality(Copies(j, p))]]

(* Every step of workers, publishers, garbage collection and restore is an *)
(* Append (Accept), a Reveal (Publish) or invisible to a reader of the     *)
(* catalog: no interleaving shows part of a batch, a batch out of order or *)
(* a file of two attempts.                                                 *)
ImplementsLog == Log!Spec
=============================================================================
