------------------------------ MODULE MCAlgorithms ------------------------------
(***************************************************************************)
(* The algorithms that both daemons rest on, each from its own inputs:     *)
(*   "partition"  every decision of a four-node cluster with the default   *)
(*                tie-breaker                                              *)
(*   "timers"     up to six timers, the smallest heap in which a deletion  *)
(*                moves an entry up                                        *)
(*   "messages"   one or two messages of every type, in pieces             *)
(***************************************************************************)
EXTENDS FfsplitPartitionCheck, TimerList, MsgIo

MCTieBreaker == [mode |-> "lowest", id |-> 1]

Ring == [node_id |-> 2, seq |-> 70000]
Node(n, d, s) == [node_id |-> n, data_center_id |-> d, node_state |-> s]
Ids(n) == [i \in 1..n |-> Node(i, 0, 0)]
TooMany == 11      \* nodes whose list can be sent but is too long for the receiver
FarTooMany == 13   \* nodes whose list does not fit into a send buffer
Name == <<99, 49>>
Tie(m, n) == [mode |-> m, node_id |-> n]

MCToQnetd ==
    {CreatePreinit(Name, TRUE, 1), CreateStarttls(TRUE, 2),
     CreateInit(TRUE, 3, 1, SupportedMessages, SupportedOptions, 300, 8000, Tie(3, 2), Ring),
     CreateInit(TRUE, 3, 3, SupportedMessages, SupportedOptions, 1, 8000, Tie(1, 2), Ring),
     CreateSetOption(TRUE, 4, 0, -1), CreateSetOption(TRUE, 4, -1, 1),
     CreateEchoRequest(TRUE, 2147483647),
     CreateNodeList(5, 0, <<>>, <<16777216>>, <<>>, NotSet, <<Node(1, 7, 0), Node(2, 0, 0)>>),
     CreateNodeList(6, 1, <<>>, <<>>, <<>>, NotSet, <<Node(1, 0, 0)>>),
     CreateNodeList(7, 2, <<Ring>>, <<>>, <<>>, 1, <<Node(1, 0, 0), Node(2, 0, 0), Node(3, 0, 0)>>),
     CreateNodeList(7, 2, <<Ring>>, <<>>, <<>>, 1, Ids(TooMany)),
     CreateNodeList(7, 2, <<Ring>>, <<>>, <<>>, 1, Ids(FarTooMany)),
     CreateNodeList(8, 3, <<>>, <<>>, <<1>>, NotSet, <<Node(1, 0, 1), Node(2, 0, 2)>>),
     CreateAskForVote(256), CreateVoteInfoReply(65535), CreateHeuristicsChange(9, 2),
     CreateHeuristicsChange(9, NotSet),
     [type |-> 18, options |-> Opt("msg_seq_number", 10)],
     [type |-> 12, options |-> Opt("unknown", <<1, 2, 3>>) \o Opt("msg_seq_number", 11)]}

MCToQdevice ==
    {CreatePreinitReply(TRUE, 1, 2, 1),
     CreateInitReply(TRUE, 3, 0, SupportedMessages, SupportedOptions, 32768, 32768, <<0, 1, 2, 3>>),
     CreateServerError(FALSE, 0, 5), CreateServerError(TRUE, 4, 17),
     CreateSetOptionReply(TRUE, 4, 8000, -1), CreateSetOptionReply(TRUE, 4, -1, 0),
     CreateEchoReply(CreateEchoRequest(TRUE, 12)),
     CreateNodeListReply(7, 2, Ring, 4), CreateAskForVoteReply(8, Ring, 1),
     CreateVoteInfo(9, Ring, 2), CreateHeuristicsChangeReply(10, Ring, 1, 5),
     [type |-> 300, options |-> Opt("msg_seq_number", 10)]}

VARIABLE part

Init ==
    /\ CheckInit /\ TimersInit /\ MsgIoInit
    /\ part \in {"partition", "timers", "messages"}
    /\ part # "timers" => heap = <<>>
    /\ part # "messages" => receiver = "qnetd"

Answered == Asked /\ UNCHANGED query

Next ==
    /\ UNCHANGED part
    /\ \/ part = "partition" /\ (CheckNext \/ Answered) /\ UNCHANGED <<timerVars, msgIoVars>>
       \/ part = "timers" /\ TimersNext /\ UNCHANGED <<query, msgIoVars>>
       \/ part = "messages" /\ MsgIoNext /\ UNCHANGED <<query, timerVars>>

Spec == Init /\ [][Next]_<<part, query, timerVars, msgIoVars>>
=============================================================================
