---------------------------- MODULE MCAcceptance ----------------------------
(***************************************************************************)
(* TLC instance of acceptance: four requests of two lanes, two workflows.  *)
(* A run explores the cases below; each bounds what the others let happen. *)
(***************************************************************************)
EXTENDS Acceptance, TLC

ASSUME AcceptanceAssumption

(* a and b have both events in opposite orders; c and d share a lane. *)
MCLaneOf == [a |-> "l1", b |-> "l2", c |-> "l1", d |-> "l1"]
MCProjectOf == [r \in {"a", "b", "c", "d"} |-> "p"]
MCContent ==
    LET one(h) == [source |-> 1, hash |-> h]
        two(h) == [source |-> 2, hash |-> h]
    IN  [a |-> <<one("x"), two("x")>>, b |-> <<two("x"), one("y"), one("x")>>,
         c |-> <<one("x")>>, d |-> <<[source |-> 0, hash |-> "x"]>>]

(* Upload workflows are interchangeable. *)
Symmetry == Permutations(Workflows)

Only(S) == \A r \in Requests \ S : snapshot[r] = 0
Uploads(n) == \A w \in Workflows : wf[w].attempt <= n
Environment(g, revision, lapsed) ==
    /\ generation <= g /\ \A p \in Projects : authority[p] <= revision
    /\ \A e \in Events : lapses[e] <= lapsed

JournalsLive == \A j \in Journals : intents[j].state = "absent" \/ intents[j].live

(* Two lanes with the same events, whose rows may outlive their retention, *)
(* and journals that expire and are collected.                             *)
TwoLanes == Only({"a", "b"}) /\ Uploads(1) /\ Environment(1, 1, 1)

(* One lane: requests retried by another workflow while the project        *)
(* changes or the installation is restored, ...                            *)
Retried ==
    /\ Only({"c", "d"}) /\ Uploads(1) /\ JournalsLive
    /\ Environment(1, 2, 0) \/ Environment(2, 1, 0)

(* ... or uploaded again by one workflow while both happen. *)
UploadedAgain ==
    /\ Only({"c", "d"})
    /\ \A w, v \in Workflows : w # v => wf[w].at = "idle" \/ wf[v].at = "idle"
    /\ Environment(2, 1, 0) \/ (Environment(2, 2, 0) /\ JournalsLive)

Cases == TwoLanes \/ Retried \/ UploadedAgain
=============================================================================
