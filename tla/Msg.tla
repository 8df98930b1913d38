---------------------------------- MODULE Msg ----------------------------------
(***************************************************************************)
(* The messages between qdevice and qnetd (msg.c): how each one is created *)
(* from its options, and what is decoded from the bytes.                   *)
(*                                                                         *)
(* msg_create_<type> is an operator that gives the options in the order    *)
(* they are added.  A message that is created is a record of its type and  *)
(* of these options; Encode makes the bytes.                               *)
(***************************************************************************)
EXTENDS Tlv, FiniteSets

(* enum msg_type: a message's type is its place, counted from 0.            *)
MessageNames ==
    <<"preinit", "preinit_reply", "starttls", "init", "init_reply", "server_error",
      "set_option", "set_option_reply", "echo_request", "echo_reply", "node_list",
      "node_list_reply", "ask_for_vote", "ask_for_vote_reply", "vote_info",
      "vote_info_reply", "heuristics_change", "heuristics_change_reply">>

MsgType(name) == (CHOOSE i \in DOMAIN MessageNames : MessageNames[i] = name) - 1

(* msg_get_supported_messages                                               *)
SupportedMessages == [i \in DOMAIN MessageNames |-> i - 1]

HeaderLength == 6   \* two bytes of type, four of length

-----------------------------------------------------------------------------
(* Creation                                                                *)

Message(name, options) == [type |-> MsgType(name), options |-> options]

Opt(name, v)        == <<[name |-> name, value |-> v]>>
OptIf(add, name, v) == IF add THEN Opt(name, v) ELSE <<>>

Seq1(seq) == Opt("msg_seq_number", seq)

CreatePreinit(cluster_name, add_seq, seq) ==
    Message("preinit", OptIf(add_seq, "msg_seq_number", seq) \o Opt("cluster_name", cluster_name))

CreatePreinitReply(add_seq, seq, tls_supported, cert_required) ==
    Message("preinit_reply",
            OptIf(add_seq, "msg_seq_number", seq) \o Opt("tls_supported", tls_supported)
              \o Opt("tls_client_cert_required", cert_required))

CreateStarttls(add_seq, seq) ==
    Message("starttls", OptIf(add_seq, "msg_seq_number", seq))

CreateServerError(add_seq, seq, code) ==
    Message("server_error", OptIf(add_seq, "msg_seq_number", seq) \o Opt("reply_error_code", code))

(* Arrays are left out when they are empty.                                 *)
CreateInit(add_seq, seq, algorithm, msgs, opts, node_id, heartbeat, tie_breaker, ring_id) ==
    Message("init",
            OptIf(add_seq, "msg_seq_number", seq)
              \o OptIf(msgs # <<>>, "supported_messages", msgs)
              \o OptIf(opts # <<>>, "supported_options", opts)
              \o Opt("node_id", node_id) \o Opt("decision_algorithm", algorithm)
              \o Opt("heartbeat_interval", heartbeat)
              \o Opt("tie_breaker", tie_breaker) \o Opt("ring_id", ring_id))

CreateInitReply(add_seq, seq, code, msgs, opts, max_request, max_reply, algorithms) ==
    Message("init_reply",
            Opt("reply_error_code", code)
              \o OptIf(msgs # <<>>, "supported_messages", msgs)
              \o OptIf(opts # <<>>, "supported_options", opts)
              \o OptIf(add_seq, "msg_seq_number", seq)
              \o Opt("server_maximum_request_size", max_request)
              \o Opt("server_maximum_reply_size", max_reply)
              \o OptIf(algorithms # <<>>, "supported_decision_algorithms", algorithms))

(* hb and kap are the values to be added, or -1.                            *)
SetOptionOptions(add_seq, seq, hb, kap) ==
    OptIf(add_seq, "msg_seq_number", seq)
      \o OptIf(hb # -1, "heartbeat_interval", hb)
      \o OptIf(kap # -1, "keep_active_partition_tie_breaker", kap)

CreateSetOption(add_seq, seq, hb, kap) ==
    Message("set_option", SetOptionOptions(add_seq, seq, hb, kap))

CreateSetOptionReply(add_seq, seq, hb, kap) ==
    Message("set_option_reply", SetOptionOptions(add_seq, seq, hb, kap))

CreateEchoRequest(add_seq, seq) ==
    Message("echo_request", OptIf(add_seq, "msg_seq_number", seq))

(* The request with another type.                                           *)
CreateEchoReply(request) == [request EXCEPT !.type = MsgType("echo_reply")]

(* ring, version and quorate are what is to be added, each in a sequence    *)
(* that may be empty; a node list entry is made a node info as it is.       *)
CreateNodeList(seq, list_type, ring, version, quorate, heuristics, nodes) ==
    Message("node_list",
            Seq1(seq) \o Opt("node_list_type", list_type)
              \o (IF ring = <<>> THEN <<>> ELSE Opt("ring_id", ring[1]))
              \o (IF version = <<>> THEN <<>> ELSE Opt("config_version", version[1]))
              \o (IF quorate = <<>> THEN <<>> ELSE Opt("quorate", quorate[1]))
              \o Joined([i \in DOMAIN nodes |-> Opt("node_info", nodes[i])])
              \o OptIf(heuristics # NotSet, "heuristics", heuristics))

CreateNodeListReply(seq, list_type, ring_id, vote) ==
    Message("node_list_reply",
            Seq1(seq) \o Opt("node_list_type", list_type) \o Opt("ring_id", ring_id)
              \o Opt("vote", vote))

CreateAskForVote(seq) == Message("ask_for_vote", Seq1(seq))

CreateAskForVoteReply(seq, ring_id, vote) ==
    Message("ask_for_vote_reply", Seq1(seq) \o Opt("vote", vote) \o Opt("ring_id", ring_id))

(* A variant that leaves out the ring.                                      *)
VoteInfoWithoutRing(seq, ring_id, vote) == Message("vote_info", Seq1(seq) \o Opt("vote", vote))

CreateVoteInfo(seq, ring_id, vote) ==
    Message("vote_info", Seq1(seq) \o Opt("vote", vote) \o Opt("ring_id", ring_id))

CreateVoteInfoReply(seq) == Message("vote_info_reply", Seq1(seq))

CreateHeuristicsChange(seq, heuristics) ==
    Message("heuristics_change", Seq1(seq) \o Opt("heuristics", heuristics))

CreateHeuristicsChangeReply(seq, ring_id, heuristics, vote) ==
    Message("heuristics_change_reply",
            Seq1(seq) \o Opt("vote", vote) \o Opt("ring_id", ring_id)
              \o Opt("heuristics", heuristics))

(* msg_add_type, msg_add_len, the options, msg_set_len.                     *)
Encode(m) ==
    LET body == Joined([i \in DOMAIN m.options |->
                   TlvAdd(m.options[i].name, OptionValue(m.options[i].name, m.options[i].value))])
    IN  Bytes(m.type, 2) \o Bytes(Len(body), 4) \o body

(* msg_create_<type> returns the size, and 0 if the message does not fit or *)
(* heuristics are undefined (tlv_add_heuristics).                           *)
Fits(m, max) ==
    /\ \A i \in DOMAIN m.options : m.options[i].name = "heuristics" => m.options[i].value # NotSet
    /\ Len(Encode(m)) <= max

-----------------------------------------------------------------------------
(* Decoding                                                                *)

(* msg_get_type, msg_get_len, msg_is_valid_msg_type                         *)
GetType(bytes)     == Number(Slice(bytes, 0, 2))
GetLen(bytes)      == Number(Slice(bytes, 2, 4))
ValidType(bytes)   == GetType(bytes) + 1 \in DOMAIN MessageNames

(* msg_decode: the first error ends it.  Of an option that comes twice the  *)
(* last one counts, but every node info adds a node.                        *)
MsgDecode(bytes) ==
    LET tlvs   == Tlvs(bytes, HeaderLength)
        d      == [i \in DOMAIN tlvs |-> DecodeOption(tlvs[i])]
        bad    == SelectSeq(d, LAMBDA x : x.res # 0)
        named(n) == {i \in DOMAIN tlvs : NameOf(tlvs[i].type) = n}
        names  == {n \in ToSet(OptionNames) \ {"node_info"} : named(n) # {}}
        last(n) == CHOOSE i \in named(n) : \A j \in named(n) : j <= i
        infos  == SelectSeq([i \in DOMAIN tlvs |-> i],
                            LAMBDA i : NameOf(tlvs[i].type) = "node_info")
    IN  IF bad # <<>> THEN [res |-> Head(bad).res]
        ELSE [res     |-> 0,
              type    |-> GetType(bytes),
              options |-> [n \in names |-> d[last(n)].value],
              nodes   |-> [k \in DOMAIN infos |-> d[infos[k]].value]]

-----------------------------------------------------------------------------
(* What the other side's handlers insist on                                *)

QnetdRequires(name, list_type) ==
    CASE name = "preinit" -> {"cluster_name"}
      [] name = "init"    -> {"node_id", "ring_id", "heartbeat_interval", "tie_breaker",
                              "decision_algorithm"}
      [] name = "node_list" ->
            {"node_list_type", "msg_seq_number"}
              \cup (CASE list_type = 2 -> {"ring_id"} [] list_type = 3 -> {"quorate"} [] OTHER -> {})
      [] name \in {"ask_for_vote", "vote_info_reply"} -> {"msg_seq_number"}
      [] name = "heuristics_change" -> {"msg_seq_number", "heuristics"}
      [] OTHER -> {}

QdeviceRequires(name) ==
    CASE name = "preinit_reply" -> {"msg_seq_number", "tls_supported", "tls_client_cert_required"}
      [] name = "init_reply" ->
            {"msg_seq_number", "reply_error_code", "server_maximum_request_size",
             "server_maximum_reply_size", "supported_messages", "supported_options",
             "supported_decision_algorithms"}
      [] name = "server_error" -> {"reply_error_code"}
      [] name = "echo_reply"   -> {"msg_seq_number"}
      [] name = "node_list_reply" -> {"vote", "msg_seq_number", "node_list_type", "ring_id"}
      [] name \in {"ask_for_vote_reply", "vote_info"} -> {"vote", "msg_seq_number", "ring_id"}
      [] name = "heuristics_change_reply" -> {"vote", "msg_seq_number", "heuristics", "ring_id"}
      [] OTHER -> {}
=============================================================================
