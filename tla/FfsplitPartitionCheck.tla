-------------------------- MODULE FfsplitPartitionCheck --------------------------
(***************************************************************************)
(* The partition choice of FfsplitPartition against the rule that the      *)
(* manual page of corosync-qdevice gives for ffsplit.  A state is one      *)
(* decision qnetd takes in a cluster whose nodes have split into two rings *)
(* (or form one), with some of the nodes connected:                        *)
(*   "report"      a client reports what it has reported before            *)
(*   "heuristics"  a client reports a new heuristics result                *)
(*   "leaving"     a client is being disconnected                          *)
(***************************************************************************)
EXTENDS FfsplitPartition

CONSTANTS Nodes, Results   \* all nodes, and the heuristics results

VARIABLE query

NoQuery == [kind |-> "none"]

(* The nodes have split into P and the rest, both may be empty; cl are the  *)
(* clients, and a former decision was for P, for the rest or for nobody.    *)
Split(P, cl, keep, prev) ==
    /\ query.kind = "none"
    /\ query' = [kind |-> "split", rings |-> {P, Nodes \ P}, clients |-> cl, keep |-> keep,
                 quorate |-> prev]

(* A client c of the split reports, changes its heuristics result to h, or  *)
(* leaves; the clients' results so far are heur.                            *)
Ask(kind, c, heur, h) ==
    query' = [kind |-> kind, c |-> c, heur |-> h, quorate |-> query.quorate,
              stored |-> [n \in query.clients |->
                  [config |-> Nodes, members |-> CHOOSE p \in query.rings : n \in p,
                   ring |-> CHOOSE p \in query.rings : n \in p,
                   heur |-> heur[n], keep |-> query.keep]]]

CheckInit == query = NoQuery
CheckNext ==
    \/ \E P \in SUBSET Nodes : Min(Nodes) \in P /\
           \E cl \in (SUBSET Nodes) \ {{}}, keep \in BOOLEAN, prev \in {{}, P, Nodes \ P} :
               Split(P, cl, keep, prev)
    \/ /\ query.kind = "split"
       /\ \E c \in query.clients, heur \in [query.clients -> Results] :
           \/ Ask("report", c, heur, heur[c])
           \/ Ask("leaving", c, heur, heur[c])
           \/ \E h \in Results \ {heur[c]} : Ask("heuristics", c, heur, h)
CheckSpec == CheckInit /\ [][CheckNext]_query

(* What qnetd decides: the chosen partition, {} for none.                   *)
Asked  == query.kind \in {"report", "heuristics", "leaving"}
Leaves == query.kind = "leaving"
New    == [query.stored[query.c] EXCEPT !.heur = query.heur]
Fresh  == Reports(query.stored, query.c, New)
Active == Live(DOMAIN query.stored, query.c, Leaves)
Chosen ==
    LET best == SelectPartition(query.stored, query.c, Leaves, New, query.quorate)
    IN  IF best = NoClient THEN {} ELSE Fresh[best].members

-----------------------------------------------------------------------------
(* The rule of the manual page, on the partitions of the connected nodes.   *)
Candidates == {Fresh[n].members : n \in Active}
Eligible   == {p \in Candidates : 2 * Cardinality(p) >= Cardinality(Nodes)}
Conn(p)    == p \cap Active
With(p, v) == {n \in Conn(p) : Fresh[n].heur = v}
Score(p)   == Cardinality(Conn(p)) + Cardinality(With(p, "pass"))
                                   - Cardinality(With(p, "fail"))
Kept(p)    == (\A n \in DOMAIN query.stored : Fresh[n].keep) /\ p \cap query.quorate # {}
Preferred(p) == IsPreferredPartition([config |-> Nodes, members |-> p])

Beats(p, o) ==
    \/ Cardinality(p) > Cardinality(o)
    \/ Score(p) > Score(o)
    \/ /\ Score(p) = Score(o)
       /\ \/ Cardinality(Conn(p)) > Cardinality(Conn(o))
          \/ /\ Cardinality(Conn(p)) = Cardinality(Conn(o))
             /\ \/ Kept(p) /\ ~Kept(o)
                \/ Kept(p) = Kept(o) /\ Preferred(p)

ManPageChoice ==
    IF Eligible = {} THEN {}
    ELSE CHOOSE p \in Eligible : \A o \in Eligible \ {p} : Beats(p, o)

(***************************************************************************)
(* Whatever triggers the decision, somebody gets the vote when a connected *)
(* node is in a partition of at least half the nodes, and a partition that *)
(* gets it has a majority if any connected node is in one.                 *)
(***************************************************************************)
VoteIsProvided ==
    Asked =>
        /\ Chosen \in Eligible \/ (Chosen = {} /\ Eligible = {})
        /\ \A p \in Eligible : Cardinality(Chosen) >= Cardinality(p)

(* The choice of a decision that a repeated report triggers is the one of   *)
(* the manual page.                                                         *)
ReportFollowsManPage == query.kind = "report" => Chosen = ManPageChoice
=============================================================================
