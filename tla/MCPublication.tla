---------------------------- MODULE MCPublication ----------------------------
(***************************************************************************)
(* TLC instances of publication.  A run that checks safety explores the    *)
(* cases below; each bounds what the other lets happen.                    *)
(***************************************************************************)
EXTENDS PublicationLog, TLC

(* Worker processes are interchangeable. *)
Symmetry == Permutations(Workers)

(* One batch with at most one file: leases lapse and jobs are taken over,  *)
(* twice or once and after a restore.                                      *)
OneBatch ==
    /\ \A l \in Lanes : lanes[l].accepted <= 1 /\ \A j \in JobIds : batches[j].parts <= 1
    /\ generation = 1 \/ faults <= 1

(* Two batches without files or with two, and one fault. *)
TwoBatches ==
    /\ generation = 1 /\ faults <= 1
    /\ \A j \in JobIds : batches[j].parts \in {0, 2} /\ jobs[j].fence <= 3

Cases == OneBatch \/ TwoBatches
=============================================================================
