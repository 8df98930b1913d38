--------------------------- MODULE QnetdFfsplitProofs ---------------------------
(***************************************************************************)
(* Proofs about qnetd with ffsplit, for every set of nodes and rings,      *)
(* every number of send buffers and every range of sequence numbers.  The  *)
(* clients may send any message at any time, and which partition is chosen *)
(* (SelectPartition) is left open: the proofs use only that the vote goes  *)
(* to the membership list of a client that takes part in the decision, or  *)
(* to nobody.                                                              *)
(***************************************************************************)
EXTENDS QnetdFfsplit, SequenceTheorems, TLAPS

(***************************************************************************)
(* A client that is owed an ACK is in the quorate partition.  Without it   *)
(* the ACKs sent when the last NACK is confirmed could go to anyone.       *)
(***************************************************************************)
AckOwedInQuoratePartition ==
    \A n \in clients : algo[n].state = "SENDING_ACK" => n \in quorate

(* The inductive invariant.                                                 *)
QnetdInv ==
    /\ QnetdTypeOK
    /\ AckOnlyInQuoratePartition
    /\ AckOwedInQuoratePartition
    /\ NacksConfirmedBeforeAcks

(***************************************************************************)
(* What a decision d of FfsplitDo promises about the clients `live' that   *)
(* take part in it.                                                        *)
(***************************************************************************)
DecisionOK(d, c, live) ==
    /\ d.abort \in BOOLEAN
    /\ d.result \in ReplyVotes
    /\ d.state \in ClusterStates
    /\ d.quorate \subseteq Nodes
    /\ d.algo \in [Nodes -> Algo]
    /\ d.last \in [Nodes -> {"none", "ACK", "NACK"}]
    /\ d.out \in [Nodes -> Seq(ServerMsg)]
    /\ d.failed \subseteq {c}
    /\ \A n \in live : d.last[n] = "ACK" => n \in d.quorate
    /\ \A n \in live : d.algo[n].state = "SENDING_ACK" => n \in d.quorate
    /\ d.state \in {"SENDING_ACKS", "WAITING_FOR_CHANGE"} =>
           \A n \in live : d.algo[n].state # "SENDING_NACK"

-----------------------------------------------------------------------------
(* The messages qnetd builds are messages of the protocol.                  *)
LEMMA ServerMessages ==
    /\ [type |-> "init_reply"] \in ServerMsg
    /\ [type |-> "set_option_reply"] \in ServerMsg
    /\ [type |-> "server_error"] \in ServerMsg
    /\ \A r \in Rings, v \in ReplyVotes :
           [type |-> "reply", ring |-> r, vote |-> v] \in ServerMsg
    /\ \A s \in SeqNums, r \in Rings, v \in {"ACK", "NACK"} :
           [type |-> "vote_info", seq |-> s, ring |-> r, vote |-> v] \in ServerMsg
BY DEF ServerMsg

(* Sequence numbers stay in their range when they wrap (seq_num in          *)
(* qnetd_client_send_vote_info is advanced by send_votes).                  *)
LEMMA SeqAdvances == \A s \in SeqNums : (s + 1) % SeqMod \in SeqNums
BY SeqAssumption DEF SeqNums

(* A new client starts with the expected sequence number 0.                 *)
LEMMA ZeroIsSeqNum == 0 \in SeqNums
BY SeqAssumption DEF SeqNums

(* The ring id of a client that has sent none is a ring id.                 *)
LEMMA SomeRing == AnyRing \in Rings
BY RingsAssumption DEF AnyRing

(* The record of a client whose init was accepted is well typed.            *)
LEMMA NewReportType == ASSUME NEW r \in Rings PROVE NewReport(r) \in Report
BY DEF NewReport, Report, Heuristics

(* A stored report stays one when a message replaces some of its fields.    *)
LEMMA ReportUpdated ==
    ASSUME NEW old \in Report
    PROVE  /\ \A nodes \in ConfigLists : [old EXCEPT !.config = nodes] \in Report
           /\ \A r \in Rings, nodes \in MemberLists, h \in HeurResults :
                  [old EXCEPT !.members = nodes, !.ring = r, !.heur = h] \in Report
           /\ \A h \in HeurResults : [old EXCEPT !.heur = h] \in Report
           /\ \A keep \in KeepOptions : [old EXCEPT !.keep = keep] \in Report
<1>1. /\ \A nodes \in ConfigLists : nodes \in ConfigLists \cup {{}}
      /\ \A nodes \in MemberLists : nodes \in SUBSET Nodes
      /\ \A h \in HeurResults : h \in Heuristics
      /\ \A keep \in KeepOptions : keep \in BOOLEAN
  BY MessagesAssumption
<1> QED BY <1>1, Zenon DEF Report

(* The algorithm's data of a new client are well typed.                     *)
LEMMA NewAlgoType == NewAlgo \in Algo
BY ZeroIsSeqNum DEF NewAlgo, Algo, ClientStates

(* Queueing a reply (send_buffer_list_get_new) keeps the buffers well typed. *)
LEMMA QueueType ==
    ASSUME NEW out \in [Nodes -> Seq(ServerMsg)], NEW n \in Nodes, NEW msg \in ServerMsg
    PROVE  /\ Queue(out, n, msg) \in [Nodes -> Seq(ServerMsg)]
           /\ QueueFailed(out, n) \subseteq {n}
<1>1. Append(out[n], msg) \in Seq(ServerMsg)
  BY AppendProperties
<1> QED BY <1>1 DEF Queue, QueueFailed

(***************************************************************************)
(* send_votes: whatever the set of clients told, the data stay well typed  *)
(* and only the trigger of the decision can be scheduled for disconnect.   *)
(***************************************************************************)
LEMMA VotedType ==
    ASSUME QnetdTypeOK,
           NEW al \in [Nodes -> Algo], NEW to, NEW vote \in {"ACK", "NACK"},
           NEW rep, \A n \in to \cap Nodes : rep[n].ring \in Rings,
           NEW c
    PROVE  /\ VotedAlgo(al, to) \in [Nodes -> Algo]
           /\ \A n \in Nodes : VotedAlgo(al, to)[n].state = al[n].state
           /\ VotedLast(to, vote) \in [Nodes -> {"none", "ACK", "NACK"}]
           /\ VotedOut(al, rep, to, vote) \in [Nodes -> Seq(ServerMsg)]
           /\ VoteFailed(c, to) \subseteq {c}
<1>1. \A n \in Nodes : (al[n].seq + 1) % SeqMod \in SeqNums
  BY SeqAdvances DEF Algo
<1>2. /\ VotedAlgo(al, to) \in [Nodes -> Algo]
      /\ \A n \in Nodes : VotedAlgo(al, to)[n].state = al[n].state
  BY <1>1 DEF VotedAlgo, Algo
<1>3. VotedLast(to, vote) \in [Nodes -> {"none", "ACK", "NACK"}]
  BY DEF VotedLast, QnetdTypeOK
<1>4. ASSUME NEW n \in Nodes, n \in to
      PROVE  Append(toClient[n], [type |-> "vote_info", seq |-> (al[n].seq + 1) % SeqMod,
                                  ring |-> rep[n].ring, vote |-> vote]) \in Seq(ServerMsg)
  <2>1. [type |-> "vote_info", seq |-> (al[n].seq + 1) % SeqMod,
         ring |-> rep[n].ring, vote |-> vote] \in ServerMsg
    BY <1>1, <1>4, ServerMessages
  <2>2. toClient[n] \in Seq(ServerMsg)
    BY DEF QnetdTypeOK
  <2> QED BY <2>1, <2>2, AppendProperties
<1>5. VotedOut(al, rep, to, vote) \in [Nodes -> Seq(ServerMsg)]
  BY <1>4 DEF VotedOut, QnetdTypeOK
<1>6. VoteFailed(c, to) \subseteq {c}
  BY DEF VoteFailed
<1> QED BY <1>2, <1>3, <1>5, <1>6

(* update_nodes_state gives every client a state that fits the partition q.  *)
LEMMA NodesStateUpdated ==
    ASSUME QnetdTypeOK, NEW c, NEW leaving \in BOOLEAN, NEW q
    PROVE  /\ UpdateNodesState(c, leaving, q) \in [Nodes -> Algo]
           /\ \A n \in Live(clients, c, leaving) :
                  UpdateNodesState(c, leaving, q)[n].state =
                      IF n \in q THEN "SENDING_ACK" ELSE "SENDING_NACK"
<1>1. \A n \in Nodes : algo[n] \in Algo
  BY DEF QnetdTypeOK
<1>2. \A n \in Live(clients, c, leaving) : n \in Nodes /\ n \in clients /\ ~(leaving /\ n = c)
  BY DEF Live, QnetdTypeOK
<1> QED BY <1>1, <1>2 DEF UpdateNodesState, Algo, ClientStates

(***************************************************************************)
(* The decision: the partition chosen is known to everyone who is told     *)
(* ACK, and no NACK is outstanding when ACKs go out at once.               *)
(***************************************************************************)
LEMMA DecisionCorrect ==
    ASSUME QnetdInv, NEW c \in clients, NEW leaving \in BOOLEAN, NEW new \in Report
    PROVE  DecisionOK(FfsplitDo(c, leaving, new), c, Live(clients, c, leaving))
<1> DEFINE stored == [n \in clients |-> report[n]]
           rep    == Reports(stored, c, new)
           live   == Live(clients, c, leaving)
           best   == SelectPartition(stored, c, leaving, new, quorate)
           q      == IF best \in live THEN rep[best].members ELSE {}
           nacks  == live \ q
           al     == UpdateNodesState(c, leaving, q)
           to     == IF nacks # {} THEN nacks ELSE live
           vote   == IF nacks # {} THEN "NACK" ELSE "ACK"
           wait   == [abort |-> FALSE, result |-> "WAIT_FOR_REPLY",
                      state |-> "WAITING_FOR_STABLE_MEMBERSHIP", quorate |-> quorate,
                      algo |-> algo, last |-> lastVote, out |-> toClient, failed |-> {}]
           told   == [abort |-> best = AssertFailed, result |-> "NO_CHANGE",
                      state |-> IF nacks # {} THEN "SENDING_NACKS"
                                ELSE IF live # {} THEN "SENDING_ACKS" ELSE "WAITING_FOR_CHANGE",
                      quorate |-> q,
                      algo |-> VotedAlgo(al, to), last |-> VotedLast(to, vote),
                      out |-> VotedOut(al, rep, to, vote), failed |-> VoteFailed(c, to)]
<1>0. FfsplitDo(c, leaving, new) = IF ~IsMembershipStable(rep, live) THEN wait ELSE told
  BY DEF FfsplitDo
<1>1. live \subseteq clients /\ live \subseteq Nodes
  BY DEF QnetdInv, QnetdTypeOK, Live
<1>2. \A n \in live : rep[n] \in Report
  BY <1>1 DEF Reports, QnetdInv, QnetdTypeOK
<1>3. q \subseteq Nodes
  BY <1>2 DEF Report
<1>4. to \subseteq live
  OBVIOUS
<1>5. /\ al \in [Nodes -> Algo]
      /\ \A n \in live : al[n].state = IF n \in q THEN "SENDING_ACK" ELSE "SENDING_NACK"
  <2> HIDE DEF q
  <2> QED BY NodesStateUpdated DEF QnetdInv
<1>6. \A n \in to \cap Nodes : rep[n].ring \in Rings
  BY <1>2, <1>4 DEF Report
<1>7. vote \in {"ACK", "NACK"}
  OBVIOUS
<1>8. /\ VotedAlgo(al, to) \in [Nodes -> Algo]
      /\ \A n \in Nodes : VotedAlgo(al, to)[n].state = al[n].state
      /\ VotedLast(to, vote) \in [Nodes -> {"none", "ACK", "NACK"}]
      /\ VotedOut(al, rep, to, vote) \in [Nodes -> Seq(ServerMsg)]
      /\ VoteFailed(c, to) \subseteq {c}
  <2> HIDE DEF al, to, vote, rep
  <2> QED BY <1>5, <1>6, <1>7, VotedType, ZenonT(60) DEF QnetdInv
<1>9. DecisionOK(wait, c, live)
  BY <1>1 DEF DecisionOK, QnetdInv, QnetdTypeOK, AckOnlyInQuoratePartition,
              AckOwedInQuoratePartition, ReplyVotes, ClusterStates
<1>10. DecisionOK(told, c, live)
  <2>1. \A n \in live : VotedLast(to, vote)[n] = "ACK" => n \in q
    BY <1>1 DEF VotedLast, QnetdInv, AckOnlyInQuoratePartition
  <2>2. \A n \in live : VotedAlgo(al, to)[n].state =
                            IF n \in q THEN "SENDING_ACK" ELSE "SENDING_NACK"
    BY <1>1, <1>5, <1>8
  <2>3. told.state \in {"SENDING_ACKS", "WAITING_FOR_CHANGE"} => \A n \in live : n \in q
    OBVIOUS
  <2>4. told.abort \in BOOLEAN /\ told.result \in ReplyVotes /\ told.state \in ClusterStates
    BY DEF ReplyVotes, ClusterStates
  <2> HIDE DEF al, to, vote, rep, q, best, live, nacks
  <2> QED BY <1>3, <1>8, <2>1, <2>2, <2>3, <2>4 DEF DecisionOK
<1> HIDE DEF wait, told, rep
<1> QED BY <1>0, <1>9, <1>10

(* Each of the three ways a handler ends keeps the invariant.               *)
LEMMA DecideAndReplyInv ==
    ASSUME QnetdInv, NEW n \in clients, NEW new \in Report, DecideAndReply(n, new)
    PROVE  QnetdInv'
<1> DEFINE d == FfsplitDo(n, FALSE, new)
           msg == [type |-> "reply", ring |-> new.ring, vote |-> d.result]
<1>1. n \in Nodes
  BY DEF QnetdInv, QnetdTypeOK
<1>2. DecisionOK(d, n, clients)
  BY DecisionCorrect DEF Live
<1> HIDE DEF d
<1>3. msg \in ServerMsg
  <2>1. d.result \in ReplyVotes /\ new.ring \in Rings
    BY <1>2 DEF DecisionOK, Report
  <2> QED BY <2>1, ServerMessages
<1>4. /\ Queue(d.out, n, msg) \in [Nodes -> Seq(ServerMsg)]
      /\ QueueFailed(d.out, n) \subseteq {n}
  <2>1. d.out \in [Nodes -> Seq(ServerMsg)]
    BY <1>2 DEF DecisionOK
  <2> HIDE DEF msg
  <2> QED BY <1>1, <1>3, <2>1, QueueType
<1>5. /\ report' = [report EXCEPT ![n] = new]
      /\ algo' = d.algo /\ clusterState' = d.state /\ quorate' = d.quorate
      /\ lastVote' = d.last /\ toClient' = Queue(d.out, n, msg)
      /\ scheduled' = scheduled \cup d.failed \cup QueueFailed(d.out, n)
      /\ aborted' = d.abort /\ clients' = clients
  BY DEF DecideAndReply, d
<1> HIDE DEF msg
<1>6. QnetdTypeOK'
  BY <1>1, <1>2, <1>4, <1>5 DEF DecisionOK, QnetdInv, QnetdTypeOK
<1>7. /\ AckOnlyInQuoratePartition' /\ AckOwedInQuoratePartition'
      /\ NacksConfirmedBeforeAcks'
  BY <1>2, <1>5 DEF DecisionOK, AckOnlyInQuoratePartition,
     AckOwedInQuoratePartition, NacksConfirmedBeforeAcks
<1> QED BY <1>6, <1>7 DEF QnetdInv

(* Storing a report without a decision keeps the invariant.                 *)
LEMMA StoreAndReplyInv ==
    ASSUME QnetdInv, NEW n \in clients, NEW new \in Report, NEW vote \in ReplyVotes,
           StoreAndReply(n, new, vote)
    PROVE  QnetdInv'
<1> DEFINE msg == [type |-> "reply", ring |-> new.ring, vote |-> vote]
<1>1. n \in Nodes
  BY DEF QnetdInv, QnetdTypeOK
<1>2. msg \in ServerMsg
  BY ServerMessages DEF Report
<1>3. /\ Queue(toClient, n, msg) \in [Nodes -> Seq(ServerMsg)]
      /\ QueueFailed(toClient, n) \subseteq {n}
  BY <1>1, <1>2, QueueType DEF QnetdInv, QnetdTypeOK
<1>4. QnetdTypeOK'
  BY <1>1, <1>3 DEF StoreAndReply, QnetdInv, QnetdTypeOK
<1> QED BY <1>4 DEF StoreAndReply, QnetdInv, AckOnlyInQuoratePartition,
     AckOwedInQuoratePartition, NacksConfirmedBeforeAcks

(* A reply that goes with no change of state keeps the invariant.           *)
LEMMA JustReplyInv ==
    ASSUME QnetdInv, NEW n \in clients, NEW msg \in ServerMsg, JustReply(n, msg)
    PROVE  QnetdInv'
<1>1. n \in Nodes
  BY DEF QnetdInv, QnetdTypeOK
<1>2. /\ Queue(toClient, n, msg) \in [Nodes -> Seq(ServerMsg)]
      /\ QueueFailed(toClient, n) \subseteq {n}
  BY <1>1, QueueType DEF QnetdInv, QnetdTypeOK
<1>3. QnetdTypeOK'
  BY <1>1, <1>2 DEF JustReply, QnetdInv, QnetdTypeOK
<1> QED BY <1>3 DEF JustReply, QnetdInv, AckOnlyInQuoratePartition,
     AckOwedInQuoratePartition, NacksConfirmedBeforeAcks

(* An error reply (qnetd_client_send_err) keeps the invariant.              *)
LEMMA ServerErrorInv ==
    ASSUME QnetdInv, NEW n \in clients, ServerError(n)
    PROVE  QnetdInv'
BY ServerMessages, JustReplyInv DEF ServerError

-----------------------------------------------------------------------------
(* One lemma per callback of the poll loop.                                 *)
LEMMA ClientInitInv ==
    ASSUME QnetdInv, NEW n \in Nodes, NEW r \in Rings, ClientInit(n, r)
    PROVE  QnetdInv'
<1>1. NewReport(r) \in Report /\ NewAlgo \in Algo
  BY NewReportType, NewAlgoType
<1>2. <<[type |-> "init_reply"]>> \in Seq(ServerMsg)
  BY ServerMessages
<1>3. QnetdTypeOK'
  BY <1>1, <1>2 DEF ClientInit, QnetdInv, QnetdTypeOK, ClusterStates
<1>4. NewAlgo.state = "WAITING_FOR_CHANGE"
  BY DEF NewAlgo
<1>5. ASSUME NEW m \in clients' PROVE m = n \/ (m # n /\ m \in clients /\ clients # {})
  BY <1>5 DEF ClientInit
<1>6. AckOnlyInQuoratePartition'
  BY <1>5 DEF ClientInit, QnetdInv, QnetdTypeOK, AckOnlyInQuoratePartition
<1>7. AckOwedInQuoratePartition'
  BY <1>4, <1>5 DEF ClientInit, QnetdInv, QnetdTypeOK, AckOwedInQuoratePartition
<1>8. NacksConfirmedBeforeAcks'
  BY <1>4, <1>5 DEF ClientInit, QnetdInv, QnetdTypeOK, NacksConfirmedBeforeAcks
<1> QED BY <1>3, <1>6, <1>7, <1>8 DEF QnetdInv

(* A set-option message changes only the tie-breaker flag.                  *)
LEMMA SetOptionInv ==
    ASSUME QnetdInv, NEW n \in Nodes, NEW keep \in KeepOptions, SetOption(n, keep)
    PROVE  QnetdInv'
<1>1. n \in clients /\ keep \in BOOLEAN
  BY MessagesAssumption DEF SetOption, CanRead
<1>2. /\ Queue(toClient, n, [type |-> "set_option_reply"]) \in [Nodes -> Seq(ServerMsg)]
      /\ QueueFailed(toClient, n) \subseteq {n}
  BY ServerMessages, QueueType DEF QnetdInv, QnetdTypeOK
<1>3. [report EXCEPT ![n].keep = keep] \in [Nodes -> Report]
  <2>1. report[n] \in Report
    BY DEF QnetdInv, QnetdTypeOK
  <2>2. [report[n] EXCEPT !.keep = keep] \in Report
    BY <2>1, ReportUpdated
  <2> QED BY <2>2 DEF QnetdInv, QnetdTypeOK
<1>4. QnetdTypeOK'
  BY <1>1, <1>2, <1>3 DEF SetOption, QnetdInv, QnetdTypeOK
<1> QED BY <1>4 DEF SetOption, QnetdInv, AckOnlyInQuoratePartition,
     AckOwedInQuoratePartition, NacksConfirmedBeforeAcks

(* A configuration node list: error, stored, or a decision.                 *)
LEMMA ConfigNodeListInv ==
    ASSUME QnetdInv, NEW n \in Nodes, NEW nodes \in ConfigLists, NEW initial \in BOOLEAN,
           ConfigNodeListReceived(n, nodes, initial)
    PROVE  QnetdInv'
<1> DEFINE new == [report[n] EXCEPT !.config = nodes]
<1>1. n \in clients
  BY DEF ConfigNodeListReceived, CanRead
<1>2. new \in Report
  <2>1. report[n] \in Report
    BY DEF QnetdInv, QnetdTypeOK
  <2> QED BY <2>1, ReportUpdated
<1>3. \/ ServerError(n) \/ StoreAndReply(n, new, "ASK_LATER") \/ DecideAndReply(n, new)
  BY DEF ConfigNodeListReceived
<1>4. "ASK_LATER" \in ReplyVotes
  BY DEF ReplyVotes
<1> HIDE DEF new
<1> QED BY <1>1, <1>2, <1>3, <1>4, ServerErrorInv, StoreAndReplyInv, DecideAndReplyInv

(* A membership node list: error, stored, or a decision.                    *)
LEMMA MembershipNodeListInv ==
    ASSUME QnetdInv, NEW n \in Nodes, NEW r \in Rings, NEW nodes \in MemberLists,
           NEW h \in HeurResults, MembershipNodeListReceived(n, r, nodes, h)
    PROVE  QnetdInv'
<1> DEFINE new == [report[n] EXCEPT !.members = nodes, !.ring = r, !.heur = h]
<1>1. n \in clients
  BY DEF MembershipNodeListReceived, CanRead
<1>2. new \in Report
  <2>1. report[n] \in Report
    BY DEF QnetdInv, QnetdTypeOK
  <2> QED BY <2>1, ReportUpdated
<1>3. \/ ServerError(n) \/ StoreAndReply(n, new, "ASK_LATER") \/ DecideAndReply(n, new)
  BY DEF MembershipNodeListReceived
<1>4. "ASK_LATER" \in ReplyVotes
  BY DEF ReplyVotes
<1> HIDE DEF new
<1> QED BY <1>1, <1>2, <1>3, <1>4, ServerErrorInv, StoreAndReplyInv, DecideAndReplyInv

(* A heuristics change: error, stored, or a decision.                       *)
LEMMA HeuristicsChangeInv ==
    ASSUME QnetdInv, NEW n \in Nodes, NEW h \in HeurResults, HeuristicsChangeReceived(n, h)
    PROVE  QnetdInv'
<1> DEFINE new == [report[n] EXCEPT !.heur = h]
<1>1. n \in clients
  BY DEF HeuristicsChangeReceived, CanRead
<1>2. new \in Report
  <2>1. report[n] \in Report
    BY DEF QnetdInv, QnetdTypeOK
  <2> QED BY <2>1, ReportUpdated
<1>3. \/ ServerError(n) \/ StoreAndReply(n, new, "ASK_LATER") \/ DecideAndReply(n, new)
  BY DEF HeuristicsChangeReceived
<1>4. "ASK_LATER" \in ReplyVotes
  BY DEF ReplyVotes
<1> HIDE DEF new
<1> QED BY <1>1, <1>2, <1>3, <1>4, ServerErrorInv, StoreAndReplyInv, DecideAndReplyInv

(* A quorum node list is answered without a decision.                       *)
LEMMA QuorumNodeListInv ==
    ASSUME QnetdInv, NEW n \in Nodes, QuorumNodeListReceived(n)
    PROVE  QnetdInv'
<1>1. n \in clients
  BY DEF QuorumNodeListReceived, CanRead
<1>2. report[n].ring \in Rings /\ "NO_CHANGE" \in ReplyVotes
  BY DEF QnetdInv, QnetdTypeOK, Report, ReplyVotes
<1>3. [type |-> "reply", ring |-> report[n].ring, vote |-> "NO_CHANGE"] \in ServerMsg
  BY <1>2, ServerMessages
<1> QED BY <1>1, <1>3, JustReplyInv DEF QuorumNodeListReceived

(* Ask-for-vote is answered with an error.                                  *)
LEMMA AskForVoteInv ==
    ASSUME QnetdInv, NEW n \in Nodes, AskForVoteReceived(n)
    PROVE  QnetdInv'
BY ServerErrorInv DEF AskForVoteReceived, CanRead

(***************************************************************************)
(* The confirmation of a vote.  The ACKs go to the clients that are owed   *)
(* one, hence into the quorate partition, and only when no client owes the *)
(* confirmation of a NACK.                                                 *)
(***************************************************************************)
LEMMA VoteInfoReplyInv ==
    ASSUME QnetdInv, NEW n \in Nodes, NEW s \in SeqNums, VoteInfoReplyReceived(n, s)
    PROVE  QnetdInv'
<1> DEFINE al     == [algo EXCEPT ![n].state = "WAITING_FOR_CHANGE"]
           nacks  == {m \in clients : al[m].state = "SENDING_NACK"}
           acks   == {m \in clients : al[m].state = "SENDING_ACK"}
           sendAcks == clusterState = "SENDING_NACKS" /\ nacks = {}
           to     == IF sendAcks THEN acks ELSE {}
<1>1. CASE ~IsExpectedSeq(n, s)
  <2>1. UNCHANGED serverVars
    BY <1>1 DEF VoteInfoReplyReceived
  <2> QED BY <2>1 DEF serverVars, QnetdInv, QnetdTypeOK, AckOnlyInQuoratePartition,
       AckOwedInQuoratePartition, NacksConfirmedBeforeAcks
<1>2. CASE IsExpectedSeq(n, s)
  <2>1. n \in clients /\ clients \subseteq Nodes
    BY DEF VoteInfoReplyReceived, CanRead, QnetdInv, QnetdTypeOK
  <2>2. /\ al \in [Nodes -> Algo]
        /\ al[n].state = "WAITING_FOR_CHANGE"
        /\ \A m \in Nodes \ {n} : al[m] = algo[m]
    BY DEF QnetdInv, QnetdTypeOK, Algo, ClientStates
  <2>3. to \subseteq clients
    OBVIOUS
  <2>4. \A m \in to : m \in quorate
    BY <2>1, <2>2 DEF QnetdInv, AckOwedInQuoratePartition
  <2>5. \A m \in to \cap Nodes : report[m].ring \in Rings
    BY DEF QnetdInv, QnetdTypeOK, Report
  <2>6. /\ algo' = VotedAlgo(al, to)
        /\ lastVote' = VotedLast(to, "ACK")
        /\ toClient' = VotedOut(al, report, to, "ACK")
        /\ scheduled' = scheduled \cup VoteFailed(n, to)
        /\ clusterState' = IF sendAcks /\ acks # {} THEN "SENDING_ACKS"
                           ELSE IF sendAcks \/ (clusterState = "SENDING_ACKS" /\ acks = {})
                           THEN "WAITING_FOR_CHANGE" ELSE clusterState
        /\ UNCHANGED <<clients, report, quorate, aborted>>
    BY <1>2 DEF VoteInfoReplyReceived
  <2>7. clusterState' \in ClusterStates
    BY <2>6 DEF QnetdInv, QnetdTypeOK, ClusterStates
  <2>8. clusterState' \in {"SENDING_ACKS", "WAITING_FOR_CHANGE"} =>
           \A m \in clients : al[m].state # "SENDING_NACK"
    BY <2>1, <2>2, <2>6 DEF QnetdInv, NacksConfirmedBeforeAcks
  <2>9. /\ VotedAlgo(al, to) \in [Nodes -> Algo]
        /\ \A m \in Nodes : VotedAlgo(al, to)[m].state = al[m].state
        /\ VotedLast(to, "ACK") \in [Nodes -> {"none", "ACK", "NACK"}]
        /\ VotedOut(al, report, to, "ACK") \in [Nodes -> Seq(ServerMsg)]
        /\ VoteFailed(n, to) \subseteq {n}
    <3> HIDE DEF al, to
    <3> QED BY <2>2, <2>5, VotedType DEF QnetdInv
  <2> HIDE DEF al, to, nacks, acks, sendAcks
  <2>10. QnetdTypeOK'
    BY <2>1, <2>6, <2>7, <2>9 DEF QnetdInv, QnetdTypeOK
  <2>11. AckOnlyInQuoratePartition'
    BY <2>1, <2>4, <2>6 DEF VotedLast, QnetdInv, AckOnlyInQuoratePartition
  <2>12. AckOwedInQuoratePartition'
    BY <2>1, <2>2, <2>6, <2>9 DEF QnetdInv, AckOwedInQuoratePartition
  <2>13. NacksConfirmedBeforeAcks'
    BY <2>1, <2>6, <2>8, <2>9 DEF NacksConfirmedBeforeAcks
  <2> QED BY <2>10, <2>11, <2>12, <2>13 DEF QnetdInv
<1> QED BY <1>1, <1>2

(* A written buffer leaves the send buffer list.                            *)
LEMMA NetWriteInv ==
    ASSUME QnetdInv, NEW n \in Nodes, NetWrite(n)
    PROVE  QnetdInv'
<1>1. Tail(toClient[n]) \in Seq(ServerMsg)
  BY HeadTailProperties DEF NetWrite, QnetdInv, QnetdTypeOK
<1>2. QnetdTypeOK'
  BY <1>1 DEF NetWrite, QnetdInv, QnetdTypeOK
<1> QED BY <1>2 DEF NetWrite, QnetdInv, AckOnlyInQuoratePartition,
     AckOwedInQuoratePartition, NacksConfirmedBeforeAcks

(* Only a connected client is scheduled for disconnect.                     *)
LEMMA ScheduleDisconnectInv ==
    ASSUME QnetdInv, NEW n \in Nodes, ScheduleDisconnect(n)
    PROVE  QnetdInv'
BY DEF ScheduleDisconnect, CanRead, QnetdInv, QnetdTypeOK, AckOnlyInQuoratePartition,
   AckOwedInQuoratePartition, NacksConfirmedBeforeAcks

(***************************************************************************)
(* A disconnect decides for the clients that stay.  Nothing is promised    *)
(* about the one that leaves, and it is not a client any more.             *)
(***************************************************************************)
LEMMA ClientDisconnectInv ==
    ASSUME QnetdInv, NEW n \in Nodes, ClientDisconnect(n)
    PROVE  QnetdInv'
<1> DEFINE d == FfsplitDo(n, TRUE, report[n])
<1>1. n \in clients /\ report[n] \in Report
  BY DEF ClientDisconnect, QnetdInv, QnetdTypeOK
<1>2. DecisionOK(d, n, clients \ {n})
  BY <1>1, DecisionCorrect DEF Live
<1>3. /\ clients' = clients \ {n}
      /\ report' = [report EXCEPT ![n] = NewReport(AnyRing)]
      /\ algo' = [d.algo EXCEPT ![n] = NewAlgo]
      /\ clusterState' = IF clients = {n} THEN "WAITING_FOR_CHANGE" ELSE d.state
      /\ quorate' = IF clients = {n} THEN {} ELSE d.quorate
      /\ lastVote' = [d.last EXCEPT ![n] = "none"]
      /\ toClient' = [d.out EXCEPT ![n] = <<>>]
      /\ scheduled' = (scheduled \cup d.failed) \ {n}
      /\ aborted' = d.abort
  BY DEF ClientDisconnect
<1> HIDE DEF d
<1>4. NewReport(AnyRing) \in Report /\ NewAlgo \in Algo
  BY SomeRing, NewReportType, NewAlgoType
<1>5. QnetdTypeOK'
  BY <1>1, <1>2, <1>3, <1>4 DEF DecisionOK, QnetdInv, QnetdTypeOK, ClusterStates
<1>6. \A m \in clients' : m \in Nodes /\ m # n /\ clients # {n}
  BY <1>1, <1>3 DEF QnetdInv, QnetdTypeOK
<1>7. \A m \in clients' : lastVote'[m] = d.last[m] /\ algo'[m] = d.algo[m]
  BY <1>2, <1>3, <1>6 DEF DecisionOK
<1>8. /\ AckOnlyInQuoratePartition' /\ AckOwedInQuoratePartition'
      /\ NacksConfirmedBeforeAcks'
  BY <1>2, <1>3, <1>6, <1>7 DEF DecisionOK, AckOnlyInQuoratePartition,
     AckOwedInQuoratePartition, NacksConfirmedBeforeAcks
<1> QED BY <1>5, <1>8 DEF QnetdInv

(* The data of a process that has just started are well typed.              *)
LEMMA FreshType ==
    /\ [n \in Nodes |-> NewReport(AnyRing)] \in [Nodes -> Report]
    /\ [n \in Nodes |-> NewAlgo] \in [Nodes -> Algo]
    /\ [n \in Nodes |-> <<>>] \in [Nodes -> Seq(ServerMsg)]
    /\ [n \in Nodes |-> "none"] \in [Nodes -> {"none", "ACK", "NACK"}]
<1>1. NewReport(AnyRing) \in Report /\ NewAlgo \in Algo
  BY SomeRing, NewReportType, NewAlgoType
<1>2. << >> \in Seq(ServerMsg)
  OBVIOUS
<1> QED BY <1>1, <1>2

(* A restarted qnetd is in its initial state.                               *)
LEMMA RestartInv ==
    ASSUME QnetdInv, Restart
    PROVE  QnetdInv'
<1>1. QnetdTypeOK'
  BY FreshType DEF Restart, QnetdTypeOK, ClusterStates
<1> QED BY <1>1 DEF Restart, QnetdInv, AckOnlyInQuoratePartition,
     AckOwedInQuoratePartition, NacksConfirmedBeforeAcks

(* A qnetd without clients satisfies the invariant.                         *)
LEMMA QnetdInitInv == QnetdInit => QnetdInv
<1> SUFFICES ASSUME QnetdInit PROVE QnetdInv
  OBVIOUS
<1>1. QnetdTypeOK
  BY FreshType DEF QnetdInit, QnetdTypeOK, ClusterStates
<1> QED BY <1>1 DEF QnetdInit, QnetdInv, AckOnlyInQuoratePartition,
     AckOwedInQuoratePartition, NacksConfirmedBeforeAcks

-----------------------------------------------------------------------------
(* Whatever the clients send, in whatever order, the invariant holds.       *)
THEOREM QnetdInvariant == QnetdSpec => []QnetdInv
<1>1. QnetdInit => QnetdInv
  BY QnetdInitInv
<1>2. QnetdInv /\ [QnetdNext]_serverVars => QnetdInv'
  <2> SUFFICES ASSUME QnetdInv, [QnetdNext]_serverVars PROVE QnetdInv'
    OBVIOUS
  <2>1. CASE UNCHANGED serverVars
    BY <2>1 DEF serverVars, QnetdInv, QnetdTypeOK, AckOnlyInQuoratePartition,
       AckOwedInQuoratePartition, NacksConfirmedBeforeAcks
  <2>2. CASE Restart
    BY <2>2, RestartInv
  <2>3. ASSUME NEW n \in Nodes, NEW r \in Rings, ClientInit(n, r) PROVE QnetdInv'
    BY <2>3, ClientInitInv
  <2>4. ASSUME NEW n \in Nodes, NEW keep \in KeepOptions, SetOption(n, keep)
        PROVE  QnetdInv'
    BY <2>4, SetOptionInv
  <2>5. ASSUME NEW n \in Nodes, NEW nodes \in ConfigLists, NEW initial \in BOOLEAN,
               ConfigNodeListReceived(n, nodes, initial)
        PROVE  QnetdInv'
    BY <2>5, ConfigNodeListInv
  <2>6. ASSUME NEW n \in Nodes, NEW r \in Rings, NEW nodes \in MemberLists,
               NEW h \in HeurResults, MembershipNodeListReceived(n, r, nodes, h)
        PROVE  QnetdInv'
    BY <2>6, MembershipNodeListInv
  <2>7. ASSUME NEW n \in Nodes, QuorumNodeListReceived(n) PROVE QnetdInv'
    BY <2>7, QuorumNodeListInv
  <2>8. ASSUME NEW n \in Nodes, AskForVoteReceived(n) PROVE QnetdInv'
    BY <2>8, AskForVoteInv
  <2>9. ASSUME NEW n \in Nodes, NEW h \in HeurResults, HeuristicsChangeReceived(n, h)
        PROVE  QnetdInv'
    BY <2>9, HeuristicsChangeInv
  <2>10. ASSUME NEW n \in Nodes, NEW s \in SeqNums, VoteInfoReplyReceived(n, s)
         PROVE  QnetdInv'
    BY <2>10, VoteInfoReplyInv
  <2>11. ASSUME NEW n \in Nodes, NetWrite(n) PROVE QnetdInv'
    BY <2>11, NetWriteInv
  <2>12. ASSUME NEW n \in Nodes, ScheduleDisconnect(n) PROVE QnetdInv'
    BY <2>12, ScheduleDisconnectInv
  <2>13. ASSUME NEW n \in Nodes, ClientDisconnect(n) PROVE QnetdInv'
    BY <2>13, ClientDisconnectInv
  <2> QED BY <2>1, <2>2, <2>3, <2>4, <2>5, <2>6, <2>7, <2>8, <2>9, <2>10, <2>11,
             <2>12, <2>13 DEF QnetdNext
<1> QED BY <1>1, <1>2, PTL DEF QnetdSpec

(* qnetd's data are well typed; only connected clients are scheduled for    *)
(* disconnect.                                                              *)
THEOREM QnetdTypeCorrect == QnetdSpec => []QnetdTypeOK
<1>1. QnetdInv => QnetdTypeOK
  BY DEF QnetdInv
<1> QED BY <1>1, QnetdInvariant, PTL

(* A client whose last vote is ACK is in the partition of the last decision, *)
(* for every choice of partition and every order of messages.                *)
THEOREM AcksAreForQuoratePartition == QnetdSpec => []AckOnlyInQuoratePartition
<1>1. QnetdInv => AckOnlyInQuoratePartition
  BY DEF QnetdInv
<1> QED BY <1>1, QnetdInvariant, PTL

(* ACKs go out only when every connected client has confirmed its NACK.     *)
THEOREM NacksComeFirst == QnetdSpec => []NacksConfirmedBeforeAcks
<1>1. QnetdInv => NacksConfirmedBeforeAcks
  BY DEF QnetdInv
<1> QED BY <1>1, QnetdInvariant, PTL
=============================================================================
