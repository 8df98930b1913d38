--------------------------- MODULE FfsplitPartition ---------------------------
(***************************************************************************)
(* The partition choice of the 50:50 split algorithm of corosync-qnetd     *)
(* (qdevices/qnetd-algo-ffsplit.c): is the membership reported by the      *)
(* clients of a cluster stable, and which partition gets the vote.         *)
(*                                                                         *)
(* A client is named by its node id, and what qnetd keeps of its reports   *)
(* is a record                                                             *)
(*   config   the configuration node list (a set of node ids)              *)
(*   members  the last membership node list                                *)
(*   ring     the ring id of that membership                               *)
(*   heur     the last heuristics result                                   *)
(*   keep     the keep_active_partition_tie_breaker option                 *)
(* `stored' maps the clients of the cluster to their stored records.  A    *)
(* decision is triggered by one client c with the record `new' it has just *)
(* reported, which is stored only after the decision; c may be leaving.    *)
(***************************************************************************)
EXTENDS Integers, FiniteSets, FiniteSetsExt, Folds

CONSTANT TieBreaker   \* [mode : {"lowest", "highest", "node_id"}, id : node id]

\* The NULL best_client, and the outcome of a failed assert().
NoClient     == 0
AssertFailed == -1

(* A variant that forgets that a client is leaving.                         *)
LiveWithLeaving(cl, c, leaving) == cl

(* The clients that take part in the decision: a leaving client is skipped. *)
Live(cl, c, leaving) == IF leaving THEN cl \ {c} ELSE cl

(* The report each client is judged by: the fresh one for the trigger.      *)
Reports(stored, c, new) == [stored EXCEPT ![c] = new]

(***************************************************************************)
(* qnetd_algo_ffsplit_is_membership_stable: all live clients report the    *)
(* same configuration, and every connected member of a client's partition  *)
(* reports the same ring id and at least the same members.                 *)
(***************************************************************************)
IsMembershipStable(rep, live) ==
    /\ \A n, m \in live : n # m => rep[n].config \subseteq rep[m].config
    /\ \A n \in live : \A m \in rep[n].members \cap live :
           /\ rep[n].ring = rep[m].ring
           /\ rep[n].members \subseteq rep[m].members

(* Variants: without a best partition so far the judged one is compared     *)
(* with itself, or failed heuristics do not lower the score.                *)
StatsWithoutNull(stored, n, r) ==
    LET act == r.members \cap DOMAIN stored
        With(v) == {m \in act : (IF m = n THEN r.heur ELSE stored[m].heur) = v}
    IN  [active |-> Cardinality(act),
         score  |-> Cardinality(act) + Cardinality(With("pass")) - Cardinality(With("fail"))]
StatsWithoutFail(stored, n, r) ==
    IF n = NoClient
    THEN [active |-> 0, score |-> 0]
    ELSE LET act == r.members \cap DOMAIN stored
             pass == {m \in act : (IF m = n THEN r.heur ELSE stored[m].heur) = "pass"}
         IN  [active |-> Cardinality(act), score |-> Cardinality(act) + Cardinality(pass)]

(***************************************************************************)
(* qnetd_algo_ffsplit_get_active_clients_in_partition_stats.  Members are  *)
(* looked up in the cluster's client list, which still holds a leaving     *)
(* client; the fresh heuristics are used only for the client whose         *)
(* partition is being judged.                                              *)
(***************************************************************************)
PartitionStats(stored, n, r) ==
    IF n = NoClient
    THEN [active |-> 0, score |-> 0]
    ELSE LET act == r.members \cap DOMAIN stored
             With(v) == {m \in act :
                            (IF m = n THEN r.heur ELSE stored[m].heur) = v}
         IN  [active |-> Cardinality(act),
              score  |-> Cardinality(act) + Cardinality(With("pass"))
                                          - Cardinality(With("fail"))]

(* qnetd_algo_ffsplit_is_preferred_partition and its assertion.             *)
TieBreakerAsserts(r) == TieBreaker.mode # "node_id" /\ r.config = {}

IsPreferredPartition(r) ==
    \/ TieBreaker.mode = "lowest"  /\ Min(r.config) \in r.members
    \/ TieBreaker.mode = "highest" /\ Max(r.config) \in r.members
    \/ TieBreaker.mode = "node_id" /\ TieBreaker.id \in r.members

(***************************************************************************)
(* qnetd_algo_ffsplit_partition_cmp: is the partition of client n better   *)
(* than the one of client `best' (possibly NoClient)?  `keep' holds when   *)
(* every client asked for the keep-active-partition tie-breaker.           *)
(***************************************************************************)
PartitionCmp(stored, rep, n, best, quorate, keep) ==
    LET r     == rep[n]
        half  == Cardinality(r.config) \div 2
        size  == Cardinality(r.members)
        s1    == PartitionStats(stored, n, r)
        s2    == PartitionStats(stored, best, IF best = NoClient THEN r ELSE rep[best])
        was1  == n \in quorate
        was2  == best \in quorate
    IN  CASE Cardinality(r.config) % 2 # 0 -> IF size > half THEN "better" ELSE "worse"
          [] Cardinality(r.config) % 2 = 0 /\ size > half -> "better"
          [] Cardinality(r.config) % 2 = 0 /\ size < half -> "worse"
          [] OTHER ->
             IF s1.score # s2.score
             THEN IF s1.score > s2.score THEN "better" ELSE "worse"
             ELSE IF s1.active # s2.active
             THEN IF s1.active > s2.active THEN "better" ELSE "worse"
             ELSE IF keep /\ best # NoClient /\ was1 # was2
             THEN IF was1 THEN "better" ELSE "worse"
             ELSE IF TieBreakerAsserts(r) THEN "abort"
             ELSE IF IsPreferredPartition(r) THEN "better" ELSE "worse"

(***************************************************************************)
(* qnetd_algo_ffsplit_select_partition: the clients are compared in the    *)
(* order of their node ids (the order of the cluster's client list) with   *)
(* the best one so far.  The result is a client whose membership list is   *)
(* the chosen partition, NoClient, or AssertFailed.                        *)
(***************************************************************************)
SelectPartition(stored, c, leaving, new, quorate) ==
    LET rep  == Reports(stored, c, new)
        keep == \A n \in DOMAIN stored : stored[n].keep
        Step(n, best) ==
            LET res == PartitionCmp(stored, rep, n, best, quorate, keep)
            IN  IF best = AssertFailed \/ res = "worse" THEN best
                ELSE IF res = "abort" THEN AssertFailed ELSE n
    IN  MapThenFoldSet(Step, NoClient, LAMBDA n : n, LAMBDA S : Max(S),
                       Live(DOMAIN stored, c, leaving))
=============================================================================
