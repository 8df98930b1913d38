------------------------------ MODULE QnetProtocol ------------------------------
(***************************************************************************)
(* What corosync-qnetd and the corosync-qdevice net model tell each other  *)
(* about the votes of one cluster.  A message keeps the options the vote   *)
(* decisions look at; preinit, starttls and echo messages, which only      *)
(* build up and watch the connection, are not part of it.                  *)
(***************************************************************************)
EXTENDS Integers, Sequences

CONSTANTS
    Nodes,         \* node ids of the cluster's nodes
    Rings,         \* ring ids
    SeqMod,        \* vote-info sequence numbers are counted modulo this, 2^32
    ConfigLists,   \* the configuration lists, the membership lists, the
    MemberLists,   \* heuristics results and the values of the tie-breaker
    HeurResults,   \* option that clients send
    KeepOptions

Heuristics == {"undefined", "pass", "fail"}

ASSUME NodesAssumption == Nodes \subseteq Nat \ {0}
ASSUME RingsAssumption == Rings # {}
ASSUME SeqAssumption == SeqMod \in Nat \ {0}
ASSUME MessagesAssumption ==
    /\ ConfigLists \subseteq SUBSET (Nat \ {0})   \* nodes without a device too
    /\ MemberLists \subseteq SUBSET Nodes
    /\ HeurResults \subseteq Heuristics
    /\ KeepOptions \subseteq BOOLEAN

SeqNums    == 0 .. SeqMod - 1
ReplyVotes == {"ASK_LATER", "WAIT_FOR_REPLY", "NO_CHANGE"}

(* To a client.  "reply" answers a node list or a heuristics change: a      *)
(* client takes the vote from either in the same way.                       *)
ServerMsg ==
         [type : {"init_reply", "set_option_reply", "server_error"}]
    \cup [type : {"vote_info"}, seq : SeqNums, ring : Rings, vote : {"ACK", "NACK"}]
    \cup [type : {"reply"}, ring : Rings, vote : ReplyVotes]

(* To the server.                                                           *)
ClientMsg ==
         [type : {"init"}, ring : Rings]
    \cup [type : {"set_option"}, keep : KeepOptions]
    \cup [type : {"config_node_list"}, nodes : ConfigLists, initial : BOOLEAN]
    \cup [type : {"membership_node_list"}, ring : Rings, nodes : MemberLists,
          heur : HeurResults]
    \cup [type : {"quorum_node_list"}]
    \cup [type : {"heuristics_change"}, heur : HeurResults]
    \cup [type : {"vote_info_reply"}, seq : SeqNums]
=============================================================================
