----------------------------- MODULE QnetdLmsProofs -----------------------------
(***************************************************************************)
(* Proofs about qnetd with lms and 2nodelms, for every cluster, every set  *)
(* of rings and every tie-breaker: a client that waits has a timer, and a  *)
(* newcomer does not take the vote from an active partition.               *)
(***************************************************************************)
EXTENDS QnetdLms, FiniteSetTheorems, TLAPS

(* Nothing is left of a client that is gone, and timers are used by lms.    *)
NothingLeft ==
    /\ \A n \in Nodes \ clients : last[n] = "none" /\ told[n] = "none" /\ members[n] = {}
    /\ algorithm # "lms" => timer = {}

(***************************************************************************)
(* What a client was told is what the algorithm remembers, as long as the  *)
(* client is not given up: a vote that did not fit into the send buffers   *)
(* is remembered but was not told, and a NACK for a newcomer is told but   *)
(* not remembered.                                                         *)
(***************************************************************************)
ToldIsRemembered ==
    \A n \in clients \ scheduled : told[n] = "ACK" => last[n] = "ACK"

(* A client is in the ring it is stored with, and one with a result has     *)
(* sent the members of that ring.                                           *)
ReportsAreRings ==
    \A n \in clients :
        /\ ring[n] \in Rings
        /\ n \in RingMembers[ring[n]]
        /\ last[n] # "none" => members[n] # {}
        /\ members[n] # {} => members[n] = RingMembers[ring[n]]

(* The inductive invariant.                                                 *)
LmsInv ==
    /\ WaitingClientsAreRetried
    /\ NothingLeft
    /\ ToldIsRemembered
    /\ ReportsAreRings

-----------------------------------------------------------------------------
(* The votes of lms (do_lms_algorithm).                                     *)
LEMMA LmsVoteType ==
    \A n, r : LmsVote(n, r) \in {"WAIT_FOR_REPLY", "ACK", "NACK"}
BY DEF LmsVote, ChoosePartition, AckIf

(* The branches of do_lms_algorithm that do not choose a partition.         *)
LEMMA LmsVoteBranches ==
    ASSUME NEW n, NEW r
    PROVE  /\ ~AllRingIdsMatch(n, r) \/ Partitions = {} => LmsVote(n, r) = "WAIT_FOR_REPLY"
           /\ /\ AllRingIdsMatch(n, r) /\ Partitions # {} /\ Cardinality(Partitions) # 1
              /\ ActiveElsewhere(n, r)
              => LmsVote(n, r) = "NACK"
<1>1. CASE ~AllRingIdsMatch(n, r) \/ Partitions = {}
  <2>1. Partitions = {} => Cardinality(Partitions) # 1
    BY FS_EmptySet
  <2> QED BY <1>1, <2>1 DEF LmsVote
<1>2. CASE AllRingIdsMatch(n, r) /\ Partitions # {}
  BY <1>2 DEF LmsVote
<1> QED BY <1>1, <1>2

(* The votes of 2nodelms.                                                   *)
LEMMA TwoNodeVoteType ==
    \A n, r, h : /\ TwoNodeVote(n, r, h) \in {"ACK", "NACK"}
                 /\ TwoNodeLast(n, r, h) \in {"ACK", "NACK", last[n]}
                 /\ TwoNodeVote(n, r, h) = "ACK" => /\ TwoNodeLast(n, r, h) = "ACK"
                                                    /\ ~ActiveElsewhere(n, r)
BY DEF TwoNodeVote, TwoNodeLast, AckIf

(* What do_lms_algorithm remembers: the vote, or nothing for a newcomer     *)
(* that is refused.                                                         *)
LEMMA LmsLastFacts ==
    ASSUME NEW n, NEW r, NEW vote \in {"WAIT_FOR_REPLY", "ACK", "NACK"}
    PROVE  /\ LmsLast(n, r, vote) = vote \/ (vote = "NACK" /\ LmsLast(n, r, vote) = last[n]
                                                          /\ last[n] = "none")
BY DEF LmsLast, ActiveElsewhere

(* Rings that nodes of the cluster form are rings.                          *)
LEMMA ClusterRingsAreRings ==
    \A r \in ClusterRings : r \in Rings /\ RingMembers[r] \subseteq Nodes /\ RingMembers[r] # {}
BY LmsAssumption DEF ClusterRings

(***************************************************************************)
(* An ACK of lms for a newcomer is for the ring of every client that was   *)
(* told ACK.  When there is more than one partition the newcomer check     *)
(* says so; when there is one, the client that was told ACK has the        *)
(* newcomer in its list, and the rings are compared.                       *)
(***************************************************************************)
LEMMA LmsAckForNewcomer ==
    ASSUME LmsInv, NEW n \in clients, NEW r, LmsVote(n, r) = "ACK", last[n] = "none",
           NEW m \in clients \ (scheduled \cup {n}), told[m] = "ACK"
    PROVE  ring[m] = r
<1>1. m \in clients /\ m # n /\ last[m] = "ACK"
  BY DEF LmsInv, ToldIsRemembered
<1>2. AllRingIdsMatch(n, r) /\ Partitions # {}
  BY LmsVoteBranches
<1>3. CASE Cardinality(Partitions) = 1
  <2>1. IsFiniteSet(Partitions)
    <3>1. clients \subseteq Nodes
      BY DEF LmsInv, WaitingClientsAreRetried, LmsTypeOK
    <3>2. IsFiniteSet(clients)
      BY <3>1, LmsAssumption, FS_Subset
    <3> DEFINE f == [k \in clients |-> ring[k]]
    <3>3. IsFiniteSet({ring[k] : k \in clients})
      <4>1. f \in Surjection(clients, {ring[k] : k \in clients})
        BY DEF Surjection
      <4> HIDE DEF f
      <4> QED BY <3>2, <4>1, FS_Surjection
    <3> QED BY <3>3, FS_Subset DEF Partitions
  <2>2. PICK p : Partitions = {p}
    BY <1>3, <2>1, FS_Singleton
  <2>3. \A k \in clients : ring[k] \in Partitions
    BY LmsAssumption DEF LmsInv, ReportsAreRings, Partitions, NoRing
  <2>4. ring[n] = ring[m]
    BY <1>1, <2>2, <2>3
  <2>5. n \in members[m]
    BY <1>1, <2>4 DEF LmsInv, ReportsAreRings
  <2> QED BY <1>1, <1>2, <2>5 DEF AllRingIdsMatch
<1>4. CASE Cardinality(Partitions) # 1
  <2>1. ~ActiveElsewhere(n, r)
    BY <1>2, <1>4, LmsVoteBranches
  <2> QED BY <1>1, <2>1 DEF ActiveElsewhere
<1> QED BY <1>3, <1>4

(* The state after a handler of client n that has called do_lms_algorithm   *)
(* for ring r: what its timer, its result and its answer have to do with    *)
(* each other.                                                              *)
LEMMA DoLmsFacts ==
    ASSUME LmsInv, NEW n \in clients, NEW r, NEW room \in BOOLEAN, algorithm = "lms",
           algorithm' = algorithm, clients' = clients, DoLms(n, r, room),
           \A k \in Nodes \ clients : members'[k] = members[k]
    PROVE  /\ last' \in [Nodes -> Results] /\ told' \in [Nodes -> Results]
           /\ scheduled' \subseteq clients
           /\ timer' = {k \in clients' : last'[k] = "WAIT_FOR_REPLY"}
           /\ \A k \in Nodes \ {n} : last'[k] = last[k] /\ told'[k] = told[k]
           /\ NothingLeft' /\ ToldIsRemembered'
<1>1. PICK vote \in {LmsVote(n, r)} :
          /\ last' = [last EXCEPT ![n] = LmsLast(n, r, vote)]
          /\ timer' = IF vote = "WAIT_FOR_REPLY" THEN timer \cup {n} ELSE timer \ {n}
          /\ Answer(n, vote, room)
  BY DEF DoLms
<1>2. vote \in {"WAIT_FOR_REPLY", "ACK", "NACK"}
  BY LmsVoteType
<1>3. LmsLast(n, r, vote) = vote \/ (vote = "NACK" /\ LmsLast(n, r, vote) = "none")
  BY <1>2, LmsLastFacts
<1>4. LmsTypeOK /\ timer = {k \in clients : last[k] = "WAIT_FOR_REPLY"}
  BY DEF LmsInv, WaitingClientsAreRetried
<1>5. n \in Nodes
  BY <1>4 DEF LmsTypeOK
<1>6. /\ last' \in [Nodes -> Results]
      /\ last'[n] = LmsLast(n, r, vote)
      /\ \A k \in Nodes \ {n} : last'[k] = last[k]
  BY <1>1, <1>2, <1>3, <1>4, <1>5 DEF LmsTypeOK, Results
<1>7. /\ told' \in [Nodes -> Results] /\ scheduled' \subseteq clients
      /\ \A k \in Nodes \ {n} : told'[k] = told[k]
      /\ n \notin scheduled' => told'[n] = vote
      /\ scheduled \subseteq scheduled'
  BY <1>1, <1>2, <1>4, <1>5 DEF Answer, LmsTypeOK, Results
<1>8. timer' = {k \in clients' : last'[k] = "WAIT_FOR_REPLY"}
  BY <1>1, <1>2, <1>3, <1>4, <1>6 DEF LmsTypeOK
<1>9. NothingLeft'
  BY <1>4, <1>6, <1>7 DEF LmsInv, NothingLeft, LmsTypeOK
<1>10. ToldIsRemembered'
  BY <1>2, <1>3, <1>4, <1>6, <1>7 DEF LmsInv, ToldIsRemembered, LmsTypeOK
<1> QED BY <1>6, <1>7, <1>8, <1>9, <1>10

-----------------------------------------------------------------------------
(* The inductive invariant, one lemma per handler.                          *)

(* There are no clients.                                                    *)
LEMMA LmsInitInv == Init => LmsInv
<1> SUFFICES ASSUME Init PROVE LmsInv
  OBVIOUS
<1>1. LmsTypeOK
  BY DEF Init, LmsTypeOK, Results, NoRing
<1> QED BY <1>1 DEF Init, LmsInv, WaitingClientsAreRetried, NothingLeft,
                    ToldIsRemembered, ReportsAreRings

(* A client sends init.                                                     *)
LEMMA ClientInitKeeps ==
    ASSUME LmsInv, NEW n \in Nodes, NEW r \in ClusterRings, n \in RingMembers[r],
           ClientInit(n, r)
    PROVE  LmsInv'
<1> USE DEF ClientInit
<1>0. LmsTypeOK /\ r \in Rings /\ last[n] = "none" /\ members[n] \subseteq Nodes
  BY ClusterRingsAreRings DEF LmsInv, WaitingClientsAreRetried, NothingLeft, LmsTypeOK
<1>1. LmsTypeOK'
  BY <1>0 DEF LmsTypeOK
<1>2. WaitingClientsAreRetried'
  BY <1>0, <1>1 DEF LmsInv, WaitingClientsAreRetried
<1>3. NothingLeft'
  BY DEF LmsInv, NothingLeft
<1>4. ToldIsRemembered'
  BY <1>0 DEF LmsInv, ToldIsRemembered, NothingLeft
<1>5. ReportsAreRings'
  BY <1>0 DEF LmsInv, ReportsAreRings, NothingLeft, LmsTypeOK
<1> QED BY <1>2, <1>3, <1>4, <1>5 DEF LmsInv

(* A handler in which the algorithm ran, or nothing was decided: the        *)
(* reports it stores are those of a ring.                                   *)
LEMMA HandlerKeepsReports ==
    ASSUME LmsInv, NEW n \in clients, clients' = clients,
           \A k \in Nodes \ {n} : last'[k] = last[k],
           UNCHANGED <<ring, members>> /\ members[n] # {} 
    PROVE  ReportsAreRings'
BY DEF LmsInv, WaitingClientsAreRetried, LmsTypeOK, ReportsAreRings

(* A membership node list is decided on and then stored.                    *)
LEMMA MembershipKeeps ==
    ASSUME LmsInv, NEW n \in Nodes, NEW r \in ClusterRings, NEW h \in HeurResults,
           NEW room \in BOOLEAN, MembershipNodeListReceived(n, r, h, room)
    PROVE  LmsInv'
<1>0. /\ n \in clients /\ clients' = clients /\ algorithm' = algorithm
      /\ n \in RingMembers[r]
      /\ ring' = [ring EXCEPT ![n] = r]
      /\ members' = [members EXCEPT ![n] = RingMembers[r]]
      /\ heur' = [heur EXCEPT ![n] = h]
  BY DEF MembershipNodeListReceived, CanRead
<1>1. LmsTypeOK /\ r \in Rings /\ RingMembers[r] \subseteq Nodes /\ RingMembers[r] # {}
  BY ClusterRingsAreRings DEF LmsInv, WaitingClientsAreRetried
<1>2. /\ ring' \in [Nodes -> Rings \cup {NoRing}]
      /\ members' \in [Nodes -> SUBSET Nodes]
      /\ heur' \in [Nodes -> {"undefined", "pass", "fail"}]
  BY <1>0, <1>1, LmsAssumption DEF LmsTypeOK
<1>3. /\ last' \in [Nodes -> Results] /\ told' \in [Nodes -> Results]
      /\ scheduled' \subseteq clients /\ timer' \subseteq clients
      /\ algorithm = "lms" => timer' = {k \in clients' : last'[k] = "WAIT_FOR_REPLY"}
      /\ \A k \in Nodes \ {n} : last'[k] = last[k]
      /\ NothingLeft' /\ ToldIsRemembered'
  <2>1. CASE algorithm = "lms" /\ DoLms(n, r, room)
    <3>0. \A k \in Nodes \ clients : members'[k] = members[k]
      BY <1>0, <1>1 DEF LmsTypeOK
    <3>1. /\ last' \in [Nodes -> Results] /\ told' \in [Nodes -> Results]
          /\ scheduled' \subseteq clients
          /\ timer' = {k \in clients' : last'[k] = "WAIT_FOR_REPLY"}
          /\ \A k \in Nodes \ {n} : last'[k] = last[k] /\ told'[k] = told[k]
          /\ NothingLeft' /\ ToldIsRemembered'
      BY <1>0, <2>1, <3>0, DoLmsFacts
    <3> QED BY <1>0, <3>1
  <2>2. CASE /\ algorithm = "2nodelms"
             /\ last' = [last EXCEPT ![n] = TwoNodeLast(n, r, h)]
             /\ Answer(n, TwoNodeVote(n, r, h), room)
             /\ UNCHANGED timer
    <3>1. /\ TwoNodeVote(n, r, h) \in {"ACK", "NACK"}
          /\ TwoNodeLast(n, r, h) \in {"ACK", "NACK", last[n]}
          /\ TwoNodeVote(n, r, h) = "ACK" => TwoNodeLast(n, r, h) = "ACK"
      BY TwoNodeVoteType
    <3>2. /\ last' \in [Nodes -> Results] /\ told' \in [Nodes -> Results]
          /\ last'[n] = TwoNodeLast(n, r, h)
          /\ scheduled \subseteq scheduled' /\ scheduled' \subseteq clients
          /\ \A k \in Nodes \ {n} : last'[k] = last[k] /\ told'[k] = told[k]
          /\ n \notin scheduled' => told'[n] = TwoNodeVote(n, r, h)
      BY <1>0, <1>1, <2>2, <3>1 DEF Answer, LmsTypeOK, Results
    <3>3. NothingLeft'
      BY <1>0, <1>1, <2>2, <3>2 DEF LmsInv, NothingLeft, LmsTypeOK
    <3>4. ToldIsRemembered'
      BY <1>0, <1>1, <3>1, <3>2 DEF LmsInv, ToldIsRemembered, LmsTypeOK
    <3> QED BY <1>1, <2>2, <3>2, <3>3, <3>4 DEF LmsTypeOK
  <2> QED BY <2>1, <2>2 DEF MembershipNodeListReceived
<1>4. WaitingClientsAreRetried'
  BY <1>0, <1>1, <1>2, <1>3 DEF WaitingClientsAreRetried, LmsTypeOK
<1>5. ReportsAreRings'
  BY <1>0, <1>1, <1>3 DEF LmsInv, ReportsAreRings, LmsTypeOK
<1> QED BY <1>3, <1>4, <1>5 DEF LmsInv

(* A handler of client n that decides nothing anew: it answers with what    *)
(* the client knows, or with what is remembered.                            *)
LEMMA AnswerKeeps ==
    ASSUME LmsInv, NEW n \in clients, NEW room \in BOOLEAN, NEW vote \in {told[n], last[n]},
           CanRead(n), Answer(n, vote, room),
           UNCHANGED <<algorithm, clients, ring, members, last, timer>>,
           heur' \in [Nodes -> {"undefined", "pass", "fail"}]
    PROVE  LmsInv'
<1>1. LmsTypeOK /\ n \in Nodes
  BY DEF LmsInv, WaitingClientsAreRetried, LmsTypeOK
<1>2. /\ told' \in [Nodes -> Results]
      /\ scheduled \subseteq scheduled' /\ scheduled' \subseteq clients
      /\ \A k \in Nodes \ {n} : told'[k] = told[k]
      /\ told'[n] \in {told[n], last[n]}
  BY <1>1 DEF Answer, LmsTypeOK
<1>3. WaitingClientsAreRetried'
  BY <1>1, <1>2 DEF LmsInv, WaitingClientsAreRetried, LmsTypeOK
<1>4. ToldIsRemembered'
  BY <1>1, <1>2 DEF LmsInv, ToldIsRemembered, LmsTypeOK, CanRead
<1>5. NothingLeft' /\ ReportsAreRings'
  BY <1>2 DEF LmsInv, NothingLeft, ReportsAreRings
<1> QED BY <1>3, <1>4, <1>5 DEF LmsInv

(* The algorithm runs for a client whose list is stored.                    *)
LEMMA LmsRunKeeps ==
    ASSUME LmsInv, NEW n \in clients, NEW room \in BOOLEAN, algorithm = "lms",
           members[n] # {}, DoLms(n, ring[n], room), UNCHANGED <<algorithm, clients, reports>>
    PROVE  LmsInv'
<1>1. /\ last' \in [Nodes -> Results] /\ told' \in [Nodes -> Results]
      /\ scheduled' \subseteq clients
      /\ timer' = {k \in clients' : last'[k] = "WAIT_FOR_REPLY"}
      /\ \A k \in Nodes \ {n} : last'[k] = last[k] /\ told'[k] = told[k]
      /\ NothingLeft' /\ ToldIsRemembered'
  BY DoLmsFacts DEF reports
<1>2. ReportsAreRings'
  BY <1>1, HandlerKeepsReports DEF reports
<1>3. WaitingClientsAreRetried'
  BY <1>1 DEF LmsInv, WaitingClientsAreRetried, LmsTypeOK, reports
<1> QED BY <1>1, <1>2, <1>3 DEF LmsInv

(* A quorum node list, and the question for a vote.                         *)
LEMMA QuestionKeeps ==
    ASSUME LmsInv, NEW n \in Nodes, NEW room \in BOOLEAN,
           QuorumNodeListReceived(n, room) \/ AskForVoteReceived(n, room)
    PROVE  LmsInv'
<1>1. n \in clients /\ CanRead(n) /\ members[n] # {}
  BY DEF QuorumNodeListReceived, AskForVoteReceived, CanRead
<1>2. UNCHANGED <<algorithm, clients, reports>>
  BY DEF QuorumNodeListReceived, AskForVoteReceived
<1>3. heur' \in [Nodes -> {"undefined", "pass", "fail"}]
  BY <1>2 DEF reports, LmsInv, WaitingClientsAreRetried, LmsTypeOK
<1>4. CASE algorithm = "lms" /\ DoLms(n, ring[n], room)
  BY <1>1, <1>2, <1>4, LmsRunKeeps
<1>5. CASE Answer(n, told[n], room) /\ UNCHANGED <<last, timer>>
  BY <1>1, <1>2, <1>3, <1>5, AnswerKeeps DEF reports
<1>6. CASE Answer(n, last[n], room) /\ UNCHANGED <<last, timer>>
  BY <1>1, <1>2, <1>3, <1>6, AnswerKeeps DEF reports
<1> QED BY <1>4, <1>5, <1>6 DEF QuorumNodeListReceived, AskForVoteReceived

(* A heuristics change is decided on and then stored.                       *)
LEMMA HeuristicsChangeKeeps ==
    ASSUME LmsInv, NEW n \in Nodes, NEW h \in HeurResults, NEW room \in BOOLEAN,
           HeuristicsChangeReceived(n, h, room)
    PROVE  LmsInv'
<1>1. n \in clients /\ CanRead(n)
  BY DEF HeuristicsChangeReceived, CanRead
<1>2. heur' \in [Nodes -> {"undefined", "pass", "fail"}]
  BY LmsAssumption DEF HeuristicsChangeReceived, LmsInv, WaitingClientsAreRetried, LmsTypeOK
<1> QED BY <1>1, <1>2, AnswerKeeps DEF HeuristicsChangeReceived

(* The timer runs only with lms, for a client that waits; what it does      *)
(* when the client has to wait on is nothing.                               *)
LEMMA TimerCallbackKeeps ==
    ASSUME LmsInv, NEW n \in Nodes, NEW room \in BOOLEAN, TimerCallback(n, room)
    PROVE  LmsInv'
<1>1. n \in timer /\ UNCHANGED <<algorithm, clients, reports>>
  BY DEF TimerCallback
<1>2. /\ algorithm = "lms" /\ n \in clients /\ last[n] = "WAIT_FOR_REPLY"
      /\ members[n] # {} /\ LmsTypeOK
  BY <1>1 DEF LmsInv, NothingLeft, WaitingClientsAreRetried, ReportsAreRings
<1>3. PICK vote \in {LmsVote(n, ring[n])} :
          /\ last' = [last EXCEPT ![n] = LmsLast(n, ring[n], vote)]
          /\ timer' = IF vote = "WAIT_FOR_REPLY" THEN timer ELSE timer \ {n}
          /\ IF vote = "WAIT_FOR_REPLY" THEN UNCHANGED <<told, scheduled>>
                                        ELSE Answer(n, vote, room)
  BY DEF TimerCallback
<1>4. CASE vote = "WAIT_FOR_REPLY"
  <2>1. last' = last /\ timer' = timer /\ UNCHANGED <<told, scheduled>>
    BY <1>2, <1>3, <1>4 DEF LmsLast, LmsTypeOK
  <2>2. UNCHANGED vars
    BY <1>1, <2>1 DEF vars
  <2> QED BY <2>2 DEF vars, reports, LmsInv, WaitingClientsAreRetried, LmsTypeOK, NothingLeft,
                      ToldIsRemembered, ReportsAreRings
<1>5. CASE vote # "WAIT_FOR_REPLY"
  <2>1. DoLms(n, ring[n], room)
    BY <1>3, <1>5 DEF DoLms
  <2> QED BY <1>1, <1>2, <2>1, LmsRunKeeps
<1> QED BY <1>4, <1>5

(* A client leaves.                                                         *)
LEMMA DisconnectKeeps ==
    ASSUME LmsInv, NEW n \in Nodes, ScheduleDisconnect(n) \/ ClientDisconnect(n)
    PROVE  LmsInv'
<1>1. CASE ScheduleDisconnect(n)
  <2> USE <1>1 DEF ScheduleDisconnect, CanRead, reports
  <2>1. WaitingClientsAreRetried'
    BY DEF LmsInv, WaitingClientsAreRetried, LmsTypeOK
  <2>2. NothingLeft' /\ ToldIsRemembered' /\ ReportsAreRings'
    BY DEF LmsInv, NothingLeft, ToldIsRemembered, ReportsAreRings
  <2> QED BY <2>1, <2>2 DEF LmsInv
<1>2. CASE ClientDisconnect(n)
  <2> USE <1>2 DEF ClientDisconnect
  <2>1. LmsTypeOK /\ n \in clients
    BY DEF LmsInv, WaitingClientsAreRetried, LmsTypeOK
  <2>2. LmsTypeOK'
    BY <2>1 DEF LmsTypeOK, Results
  <2>3. WaitingClientsAreRetried'
    BY <2>1, <2>2 DEF LmsInv, WaitingClientsAreRetried, LmsTypeOK
  <2>4. NothingLeft'
    BY <2>1 DEF LmsInv, NothingLeft, LmsTypeOK
  <2>5. ToldIsRemembered'
    BY <2>1 DEF LmsInv, ToldIsRemembered, LmsTypeOK
  <2>6. ReportsAreRings'
    BY <2>1 DEF LmsInv, ReportsAreRings, LmsTypeOK
  <2> QED BY <2>3, <2>4, <2>5, <2>6 DEF LmsInv
<1> QED BY <1>1, <1>2

(* The invariant is kept by every step.                                     *)
LEMMA LmsStep == LmsInv /\ [Next]_vars => LmsInv'
<1> SUFFICES ASSUME LmsInv, [Next]_vars PROVE LmsInv'
  OBVIOUS
<1>1. CASE UNCHANGED vars
  BY <1>1 DEF vars, reports, LmsInv, WaitingClientsAreRetried, LmsTypeOK, NothingLeft,
              ToldIsRemembered, ReportsAreRings
<1>2. ASSUME NEW n \in Nodes, NEW r \in ClusterRings, n \in RingMembers[r], ClientInit(n, r)
      PROVE  LmsInv'
  BY <1>2, ClientInitKeeps
<1>3. ASSUME NEW n \in Nodes, NEW room \in BOOLEAN, NEW r \in ClusterRings,
             NEW h \in HeurResults, MembershipNodeListReceived(n, r, h, room)
      PROVE  LmsInv'
  BY <1>3, MembershipKeeps
<1>4. ASSUME NEW n \in Nodes, NEW room \in BOOLEAN,
             QuorumNodeListReceived(n, room) \/ AskForVoteReceived(n, room)
      PROVE  LmsInv'
  BY <1>4, QuestionKeeps
<1>5. ASSUME NEW n \in Nodes, NEW room \in BOOLEAN, NEW h \in HeurResults,
             HeuristicsChangeReceived(n, h, room)
      PROVE  LmsInv'
  BY <1>5, HeuristicsChangeKeeps
<1>6. ASSUME NEW n \in Nodes, NEW room \in BOOLEAN, TimerCallback(n, room)
      PROVE  LmsInv'
  BY <1>6, TimerCallbackKeeps
<1>7. ASSUME NEW n \in Nodes, ScheduleDisconnect(n) \/ ClientDisconnect(n)
      PROVE  LmsInv'
  BY <1>7, DisconnectKeeps
<1> QED BY <1>1, <1>2, <1>3, <1>4, <1>5, <1>6, <1>7 DEF Next

(* LmsInv is an invariant of qnetd with lms or 2nodelms.                    *)
THEOREM LmsInvariant == Spec => []LmsInv
BY LmsInitInv, LmsStep, PTL DEF Spec

(***************************************************************************)
(* Every client that waits for a vote of lms has a timer that looks at it  *)
(* again, and no other client has one (do_lms_algorithm,                   *)
(* qnetd_client_algo_timer_callback).                                      *)
(***************************************************************************)
THEOREM WaitingClientsHaveTimers == Spec => []WaitingClientsAreRetried
<1>1. LmsInv => WaitingClientsAreRetried
  BY DEF LmsInv
<1> QED BY <1>1, LmsInvariant, PTL

-----------------------------------------------------------------------------
(* The step of NewcomerTakesNoVote: how client n comes by its ACK.          *)
LEMMA NewcomerStep ==
    ASSUME LmsInv, [Next]_vars, NEW n \in clients, last[n] = "none", told[n] # "ACK",
           told'[n] = "ACK",
           NEW m \in clients \ (scheduled \cup {n}), told[m] = "ACK"
    PROVE  ring[m] = ring'[n]
<1>0. LmsTypeOK /\ n \in Nodes /\ m \in clients /\ m # n /\ last[m] = "ACK"
  BY DEF LmsInv, WaitingClientsAreRetried, LmsTypeOK, ToldIsRemembered
(* Only an answer to n with an ACK changes what n was told into one.        *)
<1>1. ASSUME NEW k \in Nodes, NEW vote, NEW room, Answer(k, vote, room)
      PROVE  k = n /\ vote = "ACK"
  BY <1>0, <1>1 DEF Answer, LmsTypeOK
<1>2. ASSUME NEW k \in Nodes, NEW r, NEW room, DoLms(k, r, room)
      PROVE  k = n /\ ring[m] = r
  <2>1. PICK vote \in {LmsVote(k, r)} : Answer(k, vote, room)
    BY <1>2 DEF DoLms
  <2>2. k = n /\ LmsVote(n, r) = "ACK"
    BY <1>1, <2>1
  <2> QED BY <2>2, LmsAckForNewcomer
<1>3. CASE UNCHANGED told
  BY <1>3
<1>4. ASSUME NEW k \in Nodes, NEW room \in BOOLEAN, NEW r \in ClusterRings,
             NEW h \in HeurResults, MembershipNodeListReceived(k, r, h, room)
      PROVE  ring[m] = ring'[n]
  <2>1. k = n /\ ring[m] = r
    <3>1. CASE DoLms(k, r, room)
      BY <1>2, <3>1
    <3>2. CASE Answer(k, TwoNodeVote(k, r, h), room)
      <4>1. k = n /\ TwoNodeVote(k, r, h) = "ACK"
        BY <1>1, <3>2
      <4>2. ~ActiveElsewhere(k, r)
        BY <4>1, TwoNodeVoteType
      <4> QED BY <1>0, <4>1, <4>2 DEF ActiveElsewhere
    <3> QED BY <1>4, <3>1, <3>2 DEF MembershipNodeListReceived
  <2> QED BY <1>0, <1>4, <2>1 DEF MembershipNodeListReceived, LmsTypeOK
<1>5. ASSUME NEW k \in Nodes, NEW room \in BOOLEAN,
             \/ QuorumNodeListReceived(k, room)
             \/ AskForVoteReceived(k, room)
             \/ TimerCallback(k, room)
      PROVE  ring[m] = ring'[n]
  <2>1. ring' = ring
    BY <1>5 DEF QuorumNodeListReceived, AskForVoteReceived, TimerCallback, reports
  <2>2. CASE DoLms(k, ring[k], room)
    BY <1>2, <2>1, <2>2
  <2>3. CASE Answer(k, told[k], room)
    BY <1>1, <2>3
  <2>4. CASE Answer(k, IF last[k] = "none" THEN told[k] ELSE last[k], room)
    BY <1>1, <2>4
  <2>5. CASE TimerCallback(k, room)
    <3>1. PICK vote \in {LmsVote(k, ring[k])} :
              IF vote = "WAIT_FOR_REPLY" THEN UNCHANGED <<told, scheduled>>
                                         ELSE Answer(k, vote, room)
      BY <2>5 DEF TimerCallback
    <3>2. k = n /\ LmsVote(n, ring[n]) = "ACK"
      BY <1>1, <3>1
    <3> QED BY <2>1, <3>2, LmsAckForNewcomer
  <2> QED BY <1>5, <2>2, <2>3, <2>4, <2>5 DEF QuorumNodeListReceived, AskForVoteReceived
<1>6. ASSUME NEW k \in Nodes, NEW room \in BOOLEAN, NEW h \in HeurResults,
             HeuristicsChangeReceived(k, h, room)
      PROVE  ring[m] = ring'[n]
  BY <1>1, <1>6 DEF HeuristicsChangeReceived
<1>7. ASSUME NEW k \in Nodes, ClientDisconnect(k)
      PROVE  ring[m] = ring'[n]
  BY <1>0, <1>7 DEF ClientDisconnect, LmsTypeOK
<1> QED BY <1>3, <1>4, <1>5, <1>6, <1>7 DEF Next, vars, ClientInit, ScheduleDisconnect

(***************************************************************************)
(* A newcomer is not given the vote while a client in another ring holds   *)
(* it (do_lms_algorithm, qnetd_algo_2nodelms_membership_node_list_received,*)
(* "If we're a newcomer and there is another active partition, then we     *)
(* must NACK").                                                            *)
(***************************************************************************)
THEOREM NewcomersAreRefused == Spec => NewcomerTakesNoVote
<1> DEFINE Refused ==
        \A n \in clients :
          last[n] = "none" /\ told[n] # "ACK" /\ told'[n] = "ACK" =>
            \A m \in clients \ (scheduled \cup {n}) : told[m] = "ACK" => ring[m] = ring'[n]
<1>1. LmsInv /\ [Next]_vars => [Refused]_vars
  BY NewcomerStep
<1> QED BY <1>1, LmsInvariant, PTL DEF Spec, NewcomerTakesNoVote
=============================================================================
