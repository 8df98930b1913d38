------------------------------- MODULE QnetdLms -------------------------------
(***************************************************************************)
(* corosync-qnetd serving one cluster with a last-man-standing algorithm:  *)
(* lms (qnetd-algo-lms.c, qnetd-algo-utils.c) or 2nodelms                  *)
(* (qnetd-algo-2nodelms.c).  Unlike ffsplit these answer the client that   *)
(* asks and no other.  A client that has to wait is looked at again by a   *)
(* timer of its own (qnetd-client-algo-timer.c).                           *)
(*                                                                         *)
(* An action is one callback of qnetd's poll loop.  The clients report     *)
(* memberships that exist: a ring has one set of members, and a client     *)
(* reports rings it is in.  `room' says whether the client has a send      *)
(* buffer left for the answer.                                             *)
(***************************************************************************)
EXTENDS Integers, FiniteSets, FiniteSetsExt

CONSTANTS
    Configured,   \* for each algorithm looked at, the nodes of its cluster
    RingMembers,  \* the members of each ring, a function on ring ids 1, 2, ...
    HeurResults,  \* heuristics results that clients report
    TieBreaker    \* [mode : {"lowest", "highest", "node_id"}, id : node id]

Algorithms == DOMAIN Configured
Nodes  == UNION {Configured[a] : a \in Algorithms}
Rings  == DOMAIN RingMembers
NoRing == 0   \* a ring id with sequence number 0

ASSUME LmsAssumption ==
    /\ Nodes \subseteq Nat \ {0} /\ IsFiniteSet(Nodes)
    /\ Rings \subseteq Nat \ {0}
    /\ \A r \in Rings : RingMembers[r] \subseteq Nodes /\ RingMembers[r] # {}
    /\ HeurResults \subseteq {"undefined", "pass", "fail"}
    /\ Algorithms \subseteq {"lms", "2nodelms"}
    /\ "2nodelms" \in Algorithms => Cardinality(Configured["2nodelms"]) = 2

VARIABLES
    algorithm,  \* the decision algorithm of the cluster
    clients,    \* cluster->client_list
    ring,       \* last_ring_id of each client
    members,    \* last_membership_node_list
    heur,       \* last_heuristics
    last,       \* last_result of the algorithm, "none" while it is 0
    timer,      \* the clients with an algo_timer
    told,       \* the vote each client was sent last
    scheduled   \* the clients with schedule_disconnect set

(* The rings that nodes of the cluster can form.                            *)
ClusterRings == {r \in Rings : RingMembers[r] \subseteq Configured[algorithm]}

reports == <<ring, members, heur>>
vars    == <<algorithm, clients, reports, last, timer, told, scheduled>>

Results == {"none", "WAIT_FOR_REPLY", "ACK", "NACK"}

Init ==
    /\ algorithm \in Algorithms
    /\ clients = {}
    /\ ring = [n \in Nodes |-> NoRing]
    /\ members = [n \in Nodes |-> {}]
    /\ heur = [n \in Nodes |-> "undefined"]
    /\ last = [n \in Nodes |-> "none"]
    /\ timer = {}
    /\ told = [n \in Nodes |-> "none"]
    /\ scheduled = {}

-----------------------------------------------------------------------------
(* lms                                                                     *)

(* A variant that only looks at the stored list of client n itself.         *)
OwnListMatches(n, r) ==
    \A m \in clients \ {n} : m \in members[n] => ring[m] = r

(* qnetd_algo_all_ring_ids_match: the ring r of client n against the rings  *)
(* of the clients in its stored list, or that have it in theirs.            *)
AllRingIdsMatch(n, r) ==
    \A m \in clients \ {n} : m \in members[n] \/ n \in members[m] => ring[m] = r

(* qnetd_algo_create_partitions: by the stored ring ids.                    *)
Partitions == {ring[m] : m \in clients} \ {NoRing}
In(p)      == {m \in clients : ring[m] = p}
NumNodes   == [p \in Partitions |-> Cardinality(In(p))]
Score      == [p \in Partitions |-> Cardinality(In(p))
                                    + Cardinality({m \in In(p) : heur[m] = "pass"})
                                    - Cardinality({m \in In(p) : heur[m] = "fail"})]

(* The partitions with the greatest value.                                  *)
Leaders(value) == {p \in Partitions : \A q \in Partitions : value[q] <= value[p]}

(* A newcomer must not take the vote from an active partition.              *)
ActiveElsewhere(n, r) ==
    last[n] = "none" /\ \E m \in clients : ring[m] # r /\ last[m] = "ACK"

(* The tie-breaker of lms, by the stored ring of the tie-breaking node.  In *)
(* the node id mode only the tie-breaking client itself looks at any ring,  *)
(* and the last one it sees is that of the last client of the list.         *)
LmsTieBreak(n, r) ==
    CASE TieBreaker.mode = "lowest"  -> ring[Min(clients)] = r \/ n = Min(clients)
      [] TieBreaker.mode = "highest" -> ring[Max(clients)] = r \/ n = Max(clients)
      [] TieBreaker.mode = "node_id" -> n = TieBreaker.id \/ r = NoRing

AckIf(b) == IF b THEN "ACK" ELSE "NACK"

(* do_lms_algorithm once there is more than one partition.                  *)
ChoosePartition(n, r) ==
    IF Cardinality(Leaders(Score)) = 1 THEN AckIf(Leaders(Score) = {r})
    ELSE IF Cardinality(Leaders(NumNodes)) = 1 THEN AckIf(Leaders(NumNodes) = {r})
    ELSE AckIf(LmsTieBreak(n, r))

LmsVote(n, r) ==
    CASE ~AllRingIdsMatch(n, r) \/ Partitions = {} -> "WAIT_FOR_REPLY"
      [] AllRingIdsMatch(n, r) /\ Cardinality(Partitions) = 1 -> "ACK"
      [] OTHER -> IF ActiveElsewhere(n, r) THEN "NACK" ELSE ChoosePartition(n, r)

(* The NACK for a newcomer is not remembered.                               *)
LmsLast(n, r, vote) == IF vote = "NACK" /\ ActiveElsewhere(n, r) THEN last[n] ELSE vote

-----------------------------------------------------------------------------
(* 2nodelms                                                                *)

HeuristicsRank(h) == CASE h = "fail" -> 0 [] h = "undefined" -> 1 [] h = "pass" -> 2

TwoNodeTieBreak(n) ==
    CASE TieBreaker.mode = "lowest"  -> n = Min(clients)
      [] TieBreaker.mode = "highest" -> n = Max(clients)
      [] TieBreaker.mode = "node_id" -> n = TieBreaker.id

(* qnetd_algo_2nodelms_membership_node_list_received.                       *)
TwoNodeVote(n, r, h) ==
    LET other == Max(clients \ {n})
    IN  IF ActiveElsewhere(n, r) THEN "NACK"
        ELSE IF Cardinality(RingMembers[r]) = 2 \/ clients = {n} THEN "ACK"
        ELSE IF HeuristicsRank(h) # HeuristicsRank(heur[other])
        THEN AckIf(HeuristicsRank(h) > HeuristicsRank(heur[other]))
        ELSE AckIf(TwoNodeTieBreak(n))

TwoNodeLast(n, r, h) == IF ActiveElsewhere(n, r) THEN last[n] ELSE TwoNodeVote(n, r, h)

-----------------------------------------------------------------------------
(* Handlers                                                                *)

CanRead(n) == n \in clients \ scheduled

(* The answer goes out, or the client is disconnected.                      *)
Answer(n, vote, room) ==
    /\ told' = IF room THEN [told EXCEPT ![n] = vote] ELSE told
    /\ scheduled' = IF room THEN scheduled ELSE scheduled \cup {n}

(* do_lms_algorithm for client n: its timer runs exactly when it waits.     *)
DoLms(n, r, room) ==
    \E vote \in {LmsVote(n, r)} :
        /\ last' = [last EXCEPT ![n] = LmsLast(n, r, vote)]
        /\ timer' = IF vote = "WAIT_FOR_REPLY" THEN timer \cup {n} ELSE timer \ {n}
        /\ Answer(n, vote, room)

ClientInit(n, r) ==
    /\ n \notin clients
    /\ clients' = clients \cup {n}
    /\ ring' = [ring EXCEPT ![n] = r]
    /\ UNCHANGED <<algorithm, members, heur, last, timer, told, scheduled>>

(* The list is stored after the algorithm has been called.                  *)
MembershipNodeListReceived(n, r, h, room) ==
    /\ CanRead(n)
    /\ n \in RingMembers[r]
    /\ \/ algorithm = "lms" /\ DoLms(n, r, room)
       \/ /\ algorithm = "2nodelms"
          /\ last' = [last EXCEPT ![n] = TwoNodeLast(n, r, h)]
          /\ Answer(n, TwoNodeVote(n, r, h), room)
          /\ UNCHANGED timer
    /\ ring' = [ring EXCEPT ![n] = r]
    /\ members' = [members EXCEPT ![n] = RingMembers[r]]
    /\ heur' = [heur EXCEPT ![n] = h]
    /\ UNCHANGED <<algorithm, clients>>

(* A quorum list follows the membership list; only lms looks at it.         *)
QuorumNodeListReceived(n, room) ==
    /\ CanRead(n)
    /\ members[n] # {}
    /\ \/ algorithm = "lms" /\ DoLms(n, ring[n], room)
       \/ algorithm = "2nodelms" /\ Answer(n, told[n], room) /\ UNCHANGED <<last, timer>>
    /\ UNCHANGED <<algorithm, clients, reports>>

AskForVoteReceived(n, room) ==
    /\ CanRead(n)
    /\ members[n] # {}
    /\ \/ algorithm = "lms" /\ DoLms(n, ring[n], room)
       \/ /\ algorithm = "2nodelms"
          /\ Answer(n, IF last[n] = "none" THEN told[n] ELSE last[n], room)
          /\ UNCHANGED <<last, timer>>
    /\ UNCHANGED <<algorithm, clients, reports>>

(* A changed heuristics result is stored, but decides nothing.              *)
HeuristicsChangeReceived(n, h, room) ==
    /\ CanRead(n)
    /\ h # "undefined"
    /\ heur' = [heur EXCEPT ![n] = h]
    /\ Answer(n, told[n], room)
    /\ UNCHANGED <<algorithm, clients, ring, members, last, timer>>

(* A variant whose callback returns 0, which deletes the timer that the     *)
(* algorithm has just scheduled again.                                      *)
TimerFiresOnce(n, room) ==
    /\ n \in timer
    /\ \E vote \in {LmsVote(n, ring[n])} :
        /\ last' = [last EXCEPT ![n] = LmsLast(n, ring[n], vote)]
        /\ timer' = timer \ {n}
        /\ IF vote = "WAIT_FOR_REPLY" THEN UNCHANGED <<told, scheduled>> ELSE Answer(n, vote, room)
    /\ UNCHANGED <<algorithm, clients, reports>>

(* The timer of a waiting client; nothing is sent while it has to wait on.  *)
TimerCallback(n, room) ==
    /\ n \in timer
    /\ \E vote \in {LmsVote(n, ring[n])} :
        /\ last' = [last EXCEPT ![n] = LmsLast(n, ring[n], vote)]
        /\ timer' = IF vote = "WAIT_FOR_REPLY" THEN timer ELSE timer \ {n}
        /\ IF vote = "WAIT_FOR_REPLY" THEN UNCHANGED <<told, scheduled>> ELSE Answer(n, vote, room)
    /\ UNCHANGED <<algorithm, clients, reports>>

ScheduleDisconnect(n) ==
    /\ CanRead(n)
    /\ scheduled' = scheduled \cup {n}
    /\ UNCHANGED <<algorithm, clients, reports, last, timer, told>>

(* The others are not looked at when a client goes.                         *)
ClientDisconnect(n) ==
    /\ n \in scheduled
    /\ clients' = clients \ {n}
    /\ ring' = [ring EXCEPT ![n] = NoRing]
    /\ members' = [members EXCEPT ![n] = {}]
    /\ heur' = [heur EXCEPT ![n] = "undefined"]
    /\ last' = [last EXCEPT ![n] = "none"]
    /\ timer' = timer \ {n}
    /\ told' = [told EXCEPT ![n] = "none"]
    /\ scheduled' = scheduled \ {n}
    /\ UNCHANGED algorithm

Next ==
    \E n \in Nodes :
        \/ \E r \in ClusterRings : n \in RingMembers[r] /\ ClientInit(n, r)
        \/ ScheduleDisconnect(n)
        \/ ClientDisconnect(n)
        \/ \E room \in BOOLEAN :
            \/ \E r \in ClusterRings, h \in HeurResults : MembershipNodeListReceived(n, r, h, room)
            \/ QuorumNodeListReceived(n, room)
            \/ AskForVoteReceived(n, room)
            \/ \E h \in HeurResults : HeuristicsChangeReceived(n, h, room)
            \/ TimerCallback(n, room)

Spec == Init /\ [][Next]_vars

(* qnetd serves its timers and ends the connections it has given up.        *)
FairSpec ==
    /\ Spec
    /\ \A n \in Nodes : /\ WF_vars(\E room \in BOOLEAN : TimerCallback(n, room))
                        /\ WF_vars(ClientDisconnect(n))

-----------------------------------------------------------------------------
LmsTypeOK ==
    /\ algorithm \in Algorithms
    /\ scheduled \subseteq clients /\ clients \subseteq Nodes /\ timer \subseteq clients
    /\ ring \in [Nodes -> Rings \cup {NoRing}]
    /\ members \in [Nodes -> SUBSET Nodes]
    /\ heur \in [Nodes -> {"undefined", "pass", "fail"}]
    /\ last \in [Nodes -> Results] /\ told \in [Nodes -> Results]

(***************************************************************************)
(* A client that has to wait is looked at again: with lms exactly the      *)
(* clients whose last result is WAIT_FOR_REPLY have a timer, whatever      *)
(* lists, questions and callbacks abort and schedule it                    *)
(* (do_lms_algorithm, qnetd_client_algo_timer_callback).  With both        *)
(* algorithms a timer belongs to a connected client (LmsTypeOK).           *)
(***************************************************************************)
WaitingClientsAreRetried ==
    /\ LmsTypeOK
    /\ algorithm = "lms" => timer = {n \in clients : last[n] = "WAIT_FOR_REPLY"}

(***************************************************************************)
(* "If we're a newcomer and there is another active partition, then we     *)
(* must NACK": a client without a result of its own is not given the vote  *)
(* while a connected client in another ring holds it, although the rings   *)
(* compared are stored ones, the newcomer's own being that of its init.    *)
(***************************************************************************)
NewcomerTakesNoVote ==
    [][\A n \in clients :
         last[n] = "none" /\ told[n] # "ACK" /\ told'[n] = "ACK" =>
            \A m \in clients \ (scheduled \cup {n}) : told[m] = "ACK" => ring[m] = ring'[n]]_vars

(***************************************************************************)
(* "If the node is the only one left in the cluster that can see the qnetd *)
(* server then we return a vote" (man/corosync-qdevice.8, lms): a client   *)
(* that stays the only one, and has reported its membership, is given the  *)
(* vote.  qnetd_algo_lms_client_disconnect does not look at the others, a  *)
(* NACK has no timer, and the device does not ask again by itself.         *)
(***************************************************************************)
LastManGetsVote ==
    \A n \in Nodes :
        <>[](clients = {n} /\ scheduled = {} /\ members[n] # {}) => []<>(told[n] = "ACK")
=============================================================================
