------------------------------ MODULE QnetdFfsplit ------------------------------
(***************************************************************************)
(* corosync-qnetd serving one cluster with the ffsplit algorithm: the      *)
(* client records of the cluster, the algorithm's data, the send buffers   *)
(* of the clients and the deferred disconnects.                            *)
(*                                                                         *)
(* qnetd is one thread around a poll loop, so an action is one callback of *)
(* that loop: one received message handled to its end                      *)
(* (qnetd-client-msg-received.c and the algorithm function it calls), one  *)
(* buffer written, one scheduled disconnect carried out.  The clients are  *)
(* the environment and may send any message at any time.                   *)
(***************************************************************************)
EXTENDS QnetProtocol, FfsplitPartition

CONSTANT MaxSendBuffers   \* max_client_send_buffers, 32 by default

ASSUME BuffersAssumption == MaxSendBuffers \in Nat \ {0}

VARIABLES
    clients,       \* the nodes in cluster->client_list (their init was accepted)
    report,        \* what each client has reported (see FfsplitPartition)
    algo,          \* struct qnetd_algo_ffsplit_client_data of each client
    clusterState,  \* cluster_data->cluster_state
    quorate,       \* cluster_data->quorate_partition_node_list
    lastVote,      \* last_sent_ack_nack_vote of each client
    toClient,      \* the send buffer list of each client
    scheduled,     \* the clients with schedule_disconnect set
    aborted        \* an assert() has failed and the process is gone

serverVars == <<clients, report, algo, clusterState, quorate, lastVote,
                toClient, scheduled, aborted>>

ClusterStates == {"WAITING_FOR_CHANGE", "WAITING_FOR_STABLE_MEMBERSHIP",
                  "SENDING_NACKS", "SENDING_ACKS"}
ClientStates  == {"WAITING_FOR_CHANGE", "SENDING_NACK", "SENDING_ACK"}

Report == [config : ConfigLists \cup {{}}, members : SUBSET Nodes, ring : Rings,
           heur : Heuristics, keep : BOOLEAN]
Algo   == [state : ClientStates, seq : SeqNums]

NewReport(r) == [config |-> {}, members |-> {}, ring |-> r,
                 heur |-> "undefined", keep |-> FALSE]
NewAlgo      == [state |-> "WAITING_FOR_CHANGE", seq |-> 0]
AnyRing      == CHOOSE r \in Rings : TRUE

QnetdInit ==
    /\ clients = {}
    /\ report = [n \in Nodes |-> NewReport(AnyRing)]
    /\ algo = [n \in Nodes |-> NewAlgo]
    /\ clusterState = "WAITING_FOR_CHANGE"
    /\ quorate = {}
    /\ lastVote = [n \in Nodes |-> "none"]
    /\ toClient = [n \in Nodes |-> <<>>]
    /\ scheduled = {}
    /\ aborted = FALSE

-----------------------------------------------------------------------------
(* Send buffers                                                            *)

(* send_buffer_list_get_new fails when every buffer of the list is in use.  *)
Full(out, n) == Len(out[n]) >= MaxSendBuffers

(* A reply to client n is queued, or the handler returns -1 and the read    *)
(* callback schedules the disconnect of n.                                  *)
Queue(out, n, msg) == IF Full(out, n) THEN out ELSE [out EXCEPT ![n] = Append(@, msg)]
QueueFailed(out, n) == IF Full(out, n) THEN {n} ELSE {}

-----------------------------------------------------------------------------
(* Decisions and votes                                                     *)

(***************************************************************************)
(* qnetd_algo_ffsplit_send_votes to the clients `to': the expected         *)
(* sequence number advances and the vote is remembered even when no buffer *)
(* is left for the message.  A failure schedules the disconnect of the     *)
(* client c that triggered the decision.                                   *)
(***************************************************************************)
VotedAlgo(al, to) ==
    [n \in Nodes |-> IF n \in to THEN [al[n] EXCEPT !.seq = (@ + 1) % SeqMod]
                                 ELSE al[n]]
VotedLast(to, vote) == [n \in Nodes |-> IF n \in to THEN vote ELSE lastVote[n]]
VotedOut(al, rep, to, vote) ==
    [n \in Nodes |->
        IF n \in to /\ ~Full(toClient, n)
        THEN Append(toClient[n], [type |-> "vote_info", seq |-> (al[n].seq + 1) % SeqMod,
                                  ring |-> rep[n].ring, vote |-> vote])
        ELSE toClient[n]]
VoteFailed(c, to) == IF \E n \in to : Full(toClient, n) THEN {c} ELSE {}

(* Variants of update_nodes_state with a bug: a client that waits for its   *)
(* ACK keeps waiting when it falls out of the partition, or one that owes   *)
(* the confirmation of a NACK still owes it when it is back in.             *)
AckStateKept(c, leaving, q) ==
    [n \in Nodes |->
        IF n \notin clients \/ (leaving /\ n = c) \/ algo[n].state = "SENDING_ACK" THEN algo[n]
        ELSE [algo[n] EXCEPT !.state = IF n \in q THEN "SENDING_ACK" ELSE "SENDING_NACK"]]
NackStateKept(c, leaving, q) ==
    [n \in Nodes |->
        IF n \notin clients \/ (leaving /\ n = c) \/ algo[n].state = "SENDING_NACK" THEN algo[n]
        ELSE [algo[n] EXCEPT !.state = IF n \in q THEN "SENDING_ACK" ELSE "SENDING_NACK"]]

(* qnetd_algo_ffsplit_update_nodes_state.                                   *)
UpdateNodesState(c, leaving, q) ==
    [n \in Nodes |->
        IF n \notin clients THEN algo[n]
        ELSE [algo[n] EXCEPT !.state =
                  IF leaving /\ n = c THEN "WAITING_FOR_CHANGE"
                  ELSE IF n \in q THEN "SENDING_ACK" ELSE "SENDING_NACK"]]

(***************************************************************************)
(* qnetd_algo_ffsplit_do.  The cluster waits while the membership is not   *)
(* stable.  Once it is, the partition is chosen and NACKs go to every      *)
(* client outside it; only when there is none do the ACKs go out at once.  *)
(***************************************************************************)
FfsplitDo(c, leaving, new) ==
    LET stored == [n \in clients |-> report[n]]
        rep    == Reports(stored, c, new)
        live   == Live(clients, c, leaving)
        best   == SelectPartition(stored, c, leaving, new, quorate)
        q      == IF best \in live THEN rep[best].members ELSE {}
        nacks  == live \ q
        al     == UpdateNodesState(c, leaving, q)
        to     == IF nacks # {} THEN nacks ELSE live
        vote   == IF nacks # {} THEN "NACK" ELSE "ACK"
    IN  IF ~IsMembershipStable(rep, live)
        THEN [abort |-> FALSE, result |-> "WAIT_FOR_REPLY",
              state |-> "WAITING_FOR_STABLE_MEMBERSHIP", quorate |-> quorate,
              algo |-> algo, last |-> lastVote, out |-> toClient, failed |-> {}]
        ELSE [abort |-> best = AssertFailed, result |-> "NO_CHANGE",
              state |-> IF nacks # {} THEN "SENDING_NACKS"
                        ELSE IF live # {} THEN "SENDING_ACKS" ELSE "WAITING_FOR_CHANGE",
              quorate |-> q,
              algo |-> VotedAlgo(al, to), last |-> VotedLast(to, vote),
              out |-> VotedOut(al, rep, to, vote), failed |-> VoteFailed(c, to)]

(* A message of client n is read only while it is connected, not scheduled  *)
(* for disconnect, and the process is alive.                                *)
CanRead(n) == ~aborted /\ n \in clients \ scheduled

(* The algorithm decides, the report is stored and the result is sent back. *)
DecideAndReply(n, new) ==
    \E d \in {FfsplitDo(n, FALSE, new)} :
        /\ report' = [report EXCEPT ![n] = new]
        /\ algo' = d.algo
        /\ clusterState' = d.state
        /\ quorate' = d.quorate
        /\ lastVote' = d.last
        /\ toClient' = Queue(d.out, n, [type |-> "reply", ring |-> new.ring, vote |-> d.result])
        /\ scheduled' = scheduled \cup d.failed \cup QueueFailed(d.out, n)
        /\ aborted' = d.abort
        /\ UNCHANGED clients

(* The report is stored, and the reply needs no decision.                   *)
StoreAndReply(n, new, vote) ==
    /\ report' = [report EXCEPT ![n] = new]
    /\ toClient' = Queue(toClient, n, [type |-> "reply", ring |-> new.ring, vote |-> vote])
    /\ scheduled' = scheduled \cup QueueFailed(toClient, n)
    /\ UNCHANGED <<clients, algo, clusterState, quorate, lastVote, aborted>>

(* Any message without effect on the client's report or on the decision.    *)
JustReply(n, msg) ==
    /\ toClient' = Queue(toClient, n, msg)
    /\ scheduled' = scheduled \cup QueueFailed(toClient, n)
    /\ UNCHANGED <<clients, report, algo, clusterState, quorate, lastVote, aborted>>

ServerError(n) == JustReply(n, [type |-> "server_error"])

-----------------------------------------------------------------------------
(* Message handlers                                                        *)

(***************************************************************************)
(* An accepted init (qnetd_client_msg_received_init): the client enters    *)
(* the cluster, unless its node id is already there, and the algorithm     *)
(* creates its data; the first client also creates the cluster's.          *)
(***************************************************************************)
ClientInit(n, r) ==
    /\ ~aborted
    /\ n \notin clients
    /\ clients' = clients \cup {n}
    /\ report' = [report EXCEPT ![n] = NewReport(r)]
    /\ algo' = [algo EXCEPT ![n] = NewAlgo]
    /\ clusterState' = IF clients = {} THEN "WAITING_FOR_CHANGE" ELSE clusterState
    /\ quorate' = IF clients = {} THEN {} ELSE quorate
    /\ lastVote' = [lastVote EXCEPT ![n] = "none"]
    /\ toClient' = [toClient EXCEPT ![n] = <<[type |-> "init_reply"]>>]
    /\ UNCHANGED <<scheduled, aborted>>

(* qnetd_client_msg_received_set_option with the tie-breaker option.        *)
SetOption(n, keep) ==
    /\ CanRead(n)
    /\ report' = [report EXCEPT ![n].keep = keep]
    /\ toClient' = Queue(toClient, n, [type |-> "set_option_reply"])
    /\ scheduled' = scheduled \cup QueueFailed(toClient, n)
    /\ UNCHANGED <<clients, algo, clusterState, quorate, lastVote, aborted>>

(* A configuration node list, the first one of a connection or a changed one. *)
ConfigNodeListReceived(n, nodes, initial) ==
    LET new == [report[n] EXCEPT !.config = nodes]
    IN  /\ CanRead(n)
        /\ \/ n \notin nodes /\ ServerError(n)
           \/ /\ n \in nodes
              /\ initial \/ report[n].members = {}
              /\ StoreAndReply(n, new, "ASK_LATER")
           \/ /\ n \in nodes
              /\ ~initial /\ report[n].members # {}
              /\ DecideAndReply(n, new)

(* A membership node list with its ring id and the heuristics result.       *)
MembershipNodeListReceived(n, r, nodes, h) ==
    LET new == [report[n] EXCEPT !.members = nodes, !.ring = r, !.heur = h]
    IN  /\ CanRead(n)
        /\ \/ n \notin nodes /\ ServerError(n)
           \/ /\ n \in nodes
              /\ report[n].config = {}
              /\ StoreAndReply(n, new, "ASK_LATER")
           \/ /\ n \in nodes
              /\ report[n].config # {}
              /\ DecideAndReply(n, new)

(* A quorum node list is informative.                                       *)
QuorumNodeListReceived(n) ==
    CanRead(n) /\ JustReply(n, [type |-> "reply", ring |-> report[n].ring, vote |-> "NO_CHANGE"])

(* ffsplit has no answer to ask-for-vote.                                   *)
AskForVoteReceived(n) == CanRead(n) /\ ServerError(n)

(* A changed result of the regular heuristics.                              *)
HeuristicsChangeReceived(n, h) ==
    LET new == [report[n] EXCEPT !.heur = h]
    IN  /\ CanRead(n)
        /\ \/ h = "undefined" /\ ServerError(n)
           \/ /\ h # "undefined"
              /\ report[n].config = {} \/ report[n].members = {}
              /\ StoreAndReply(n, new, "ASK_LATER")
           \/ /\ h # "undefined"
              /\ report[n].config # {} /\ report[n].members # {}
              /\ DecideAndReply(n, new)

(* Does a vote-info reply confirm the vote sent last?  As it should be, and *)
(* a variant in which any confirmation counts.                              *)
AnyNumberConfirms(n, s) == TRUE
IsExpectedSeq(n, s) == s = algo[n].seq

(***************************************************************************)
(* A vote-info reply.  One with an old sequence number changes nothing.    *)
(* When the last NACK is confirmed the ACKs go out, and when the last ACK  *)
(* is confirmed (or there was none to send) the cluster is at rest.        *)
(***************************************************************************)
VoteInfoReplyReceived(n, s) ==
    LET al     == [algo EXCEPT ![n].state = "WAITING_FOR_CHANGE"]
        nacks  == {m \in clients : al[m].state = "SENDING_NACK"}
        acks   == {m \in clients : al[m].state = "SENDING_ACK"}
        sendAcks == clusterState = "SENDING_NACKS" /\ nacks = {}
        to     == IF sendAcks THEN acks ELSE {}
    IN  /\ CanRead(n)
        /\ \/ /\ ~IsExpectedSeq(n, s)
              /\ UNCHANGED serverVars
           \/ /\ IsExpectedSeq(n, s)
              /\ algo' = VotedAlgo(al, to)
              /\ lastVote' = VotedLast(to, "ACK")
              /\ toClient' = VotedOut(al, report, to, "ACK")
              /\ scheduled' = scheduled \cup VoteFailed(n, to)
              /\ clusterState' =
                    IF sendAcks /\ acks # {} THEN "SENDING_ACKS"
                    ELSE IF \/ sendAcks
                            \/ clusterState = "SENDING_ACKS" /\ acks = {}
                         THEN "WAITING_FOR_CHANGE" ELSE clusterState
              /\ UNCHANGED <<clients, report, quorate, aborted>>

-----------------------------------------------------------------------------
(* Connections                                                             *)

(* The socket accepted the first buffer of n's send buffer list.            *)
NetWrite(n) ==
    /\ CanRead(n)
    /\ toClient[n] # <<>>
    /\ toClient' = [toClient EXCEPT ![n] = Tail(@)]
    /\ UNCHANGED <<clients, report, algo, clusterState, quorate, lastVote,
                   scheduled, aborted>>

(* A variant: a timer that outlives its client.                             *)
ScheduleAnyDisconnect(n) ==
    /\ ~aborted
    /\ scheduled' = scheduled \cup {n}
    /\ UNCHANGED <<clients, report, algo, clusterState, quorate, lastVote,
                   toClient, aborted>>

(* End of file, a socket error, or the dead-peer-detection timer.           *)
ScheduleDisconnect(n) ==
    /\ CanRead(n)
    /\ scheduled' = scheduled \cup {n}
    /\ UNCHANGED <<clients, report, algo, clusterState, quorate, lastVote,
                   toClient, aborted>>

(***************************************************************************)
(* The pre-poll callback carries out a scheduled disconnect: the algorithm *)
(* decides for the clients that stay, then the client and its data go; the *)
(* cluster's data go with the last client.                                 *)
(***************************************************************************)
ClientDisconnect(n) ==
    /\ ~aborted
    /\ n \in scheduled
    /\ \E d \in {FfsplitDo(n, TRUE, report[n])} :
        /\ clients' = clients \ {n}
        /\ report' = [report EXCEPT ![n] = NewReport(AnyRing)]
        /\ algo' = [d.algo EXCEPT ![n] = NewAlgo]
        /\ clusterState' = IF clients = {n} THEN "WAITING_FOR_CHANGE" ELSE d.state
        /\ quorate' = IF clients = {n} THEN {} ELSE d.quorate
        /\ lastVote' = [d.last EXCEPT ![n] = "none"]
        /\ toClient' = [d.out EXCEPT ![n] = <<>>]
        /\ scheduled' = (scheduled \cup d.failed) \ {n}
        /\ aborted' = d.abort

(* The process is gone (a crash, a failed assertion, a power cut) and       *)
(* systemd starts it again: nothing of its state is persistent.             *)
Restart ==
    /\ clients' = {}
    /\ report' = [n \in Nodes |-> NewReport(AnyRing)]
    /\ algo' = [n \in Nodes |-> NewAlgo]
    /\ clusterState' = "WAITING_FOR_CHANGE"
    /\ quorate' = {}
    /\ lastVote' = [n \in Nodes |-> "none"]
    /\ toClient' = [n \in Nodes |-> <<>>]
    /\ scheduled' = {}
    /\ aborted' = FALSE

QnetdNext ==
    \/ Restart
    \/ \E n \in Nodes :
        \/ \E r \in Rings : ClientInit(n, r)
        \/ \E keep \in KeepOptions : SetOption(n, keep)
        \/ \E nodes \in ConfigLists, initial \in BOOLEAN :
               ConfigNodeListReceived(n, nodes, initial)
        \/ \E r \in Rings, nodes \in MemberLists, h \in HeurResults :
               MembershipNodeListReceived(n, r, nodes, h)
        \/ QuorumNodeListReceived(n)
        \/ AskForVoteReceived(n)
        \/ \E h \in HeurResults : HeuristicsChangeReceived(n, h)
        \/ \E s \in SeqNums : VoteInfoReplyReceived(n, s)
        \/ NetWrite(n)
        \/ ScheduleDisconnect(n)
        \/ ClientDisconnect(n)

QnetdSpec == QnetdInit /\ [][QnetdNext]_serverVars

-----------------------------------------------------------------------------
QnetdTypeOK ==
    /\ clients \subseteq Nodes
    /\ report \in [Nodes -> Report]
    /\ algo \in [Nodes -> Algo]
    /\ clusterState \in ClusterStates
    /\ quorate \subseteq Nodes
    /\ lastVote \in [Nodes -> {"none", "ACK", "NACK"}]
    /\ toClient \in [Nodes -> Seq(ServerMsg)]
    /\ scheduled \subseteq clients
    /\ aborted \in BOOLEAN

(***************************************************************************)
(* A connected client whose last vote is ACK belongs to the partition      *)
(* qnetd regards as quorate: a client that falls out of the partition is   *)
(* told so in the same decision, and the others are not told ACK before.   *)
(***************************************************************************)
AckOnlyInQuoratePartition ==
    \A n \in clients : lastVote[n] = "ACK" => n \in quorate

(***************************************************************************)
(* ACKs are out, or everything is at rest, only when no connected client   *)
(* still owes the confirmation of a NACK.                                  *)
(***************************************************************************)
NacksConfirmedBeforeAcks ==
    clusterState \in {"SENDING_ACKS", "WAITING_FOR_CHANGE"} =>
        \A n \in clients : algo[n].state # "SENDING_NACK"

(***************************************************************************)
(* The assertion of qnetd_algo_ffsplit_is_preferred_partition: a partition *)
(* put to the tie-breaker comes with a configuration node list.            *)
(***************************************************************************)
AssertionsHold == ~aborted
=============================================================================
