---------------------------------- MODULE Tlv ----------------------------------
(***************************************************************************)
(* The options of a message and their encoding (tlv.c): a type and a       *)
(* length of two bytes each, then the value, numbers in network order.     *)
(*                                                                         *)
(* A byte is a number below 256 and a message a sequence of bytes.  TLC    *)
(* has integers of 32 bits: numbers are below 2^31 here.                   *)
(***************************************************************************)
EXTENDS Integers, Sequences, SequencesExt

(* enum tlv_opt_type: an option's type is its place, counted from 0.        *)
OptionNames ==
    <<"msg_seq_number", "cluster_name", "tls_supported", "tls_client_cert_required",
      "supported_messages", "supported_options", "reply_error_code",
      "server_maximum_request_size", "server_maximum_reply_size", "node_id",
      "supported_decision_algorithms", "decision_algorithm", "heartbeat_interval",
      "ring_id", "config_version", "data_center_id", "node_state", "node_info",
      "node_list_type", "vote", "quorate", "tie_breaker", "heuristics",
      "keep_active_partition_tie_breaker">>

(* "unknown" is an option that only a newer version knows.                  *)
OptType(name) ==
    IF name = "unknown" THEN Len(OptionNames)
    ELSE (CHOOSE i \in DOMAIN OptionNames : OptionNames[i] = name) - 1

(* tlv_get_supported_options                                                *)
SupportedOptions == [i \in DOMAIN OptionNames |-> i - 1]

(* What the decoders of enumerations accept; the other options of one byte  *)
(* take any value.                                                          *)
ValidValues ==
    [tls_supported |-> 0..2, tls_client_cert_required |-> 0..255, node_state |-> 1..3,
     node_list_type |-> 0..3, vote |-> 1..5, quorate |-> 0..1, heuristics |-> 1..2,
     keep_active_partition_tie_breaker |-> 0..1]

U8Options    == DOMAIN ValidValues
U16Options   == {"reply_error_code", "decision_algorithm"}
U32Options   == {"msg_seq_number", "server_maximum_request_size", "server_maximum_reply_size",
                 "node_id", "heartbeat_interval", "data_center_id"}
ArrayOptions == {"supported_messages", "supported_options", "supported_decision_algorithms"}

NotSet == 0   \* TLV_NODE_STATE_NOT_SET, TLV_HEURISTICS_UNDEFINED, no data centre

TieBreakerModes  == 1..3
ByNodeId         == 3   \* TLV_TIE_BREAKER_MODE_NODE_ID

-----------------------------------------------------------------------------
(* Numbers: htons, htonl, htobe64 and back                                 *)

(* The w bytes of n, the first one being the highest.                       *)
Bytes(n, w) == [i \in 1..w |-> IF w - i > 3 THEN 0 ELSE (n \div 256 ^ (w - i)) % 256]

Number(bytes) ==
    LET Upto[i \in 0..Len(bytes)] == IF i = 0 THEN 0 ELSE Upto[i - 1] * 256 + bytes[i]
    IN  Upto[Len(bytes)]

Slice(bytes, pos, n) == SubSeq(bytes, pos + 1, pos + n)

Joined(parts) ==
    LET Upto[i \in 0..Len(parts)] == IF i = 0 THEN <<>> ELSE Upto[i - 1] \o parts[i]
    IN  Upto[Len(parts)]

-----------------------------------------------------------------------------
(* Encoding                                                                *)

(* tlv_add, without the limit of the buffer.                                *)
TlvAdd(name, value) == Bytes(OptType(name), 2) \o Bytes(Len(value), 2) \o value

(* tlv_add_u16_array                                                        *)
U16Array(numbers) ==
    [i \in 1..(2 * Len(numbers)) |-> Bytes(numbers[(i + 1) \div 2], 2)[2 - (i % 2)]]

(* tlv_add_node_info: a message in the message, of what is set.             *)
NodeInfoValue(node) ==
    TlvAdd("node_id", Bytes(node.node_id, 4))
      \o (IF node.data_center_id = NotSet THEN <<>>
          ELSE TlvAdd("data_center_id", Bytes(node.data_center_id, 4)))
      \o (IF node.node_state = NotSet THEN <<>>
          ELSE TlvAdd("node_state", Bytes(node.node_state, 1)))

RingIdValue(ring) == Bytes(ring.node_id, 4) \o Bytes(ring.seq, 8)

(* tlv_add_tie_breaker: the node counts in one of the modes.                *)
TieBreakerValue(tb) ==
    Bytes(tb.mode, 1) \o Bytes(IF tb.mode = ByNodeId THEN tb.node_id ELSE 0, 4)

(* tlv_add_<option>: a string is its bytes.                                 *)
OptionValue(name, v) ==
    CASE name \in U8Options       -> Bytes(v, 1)
      [] name \in U16Options      -> Bytes(v, 2)
      [] name \in U32Options      -> Bytes(v, 4)
      [] name = "config_version"  -> Bytes(v, 8)
      [] name \in {"cluster_name", "unknown"} -> v
      [] name \in ArrayOptions    -> U16Array(v)
      [] name = "ring_id"         -> RingIdValue(v)
      [] name = "tie_breaker"     -> TieBreakerValue(v)
      [] name = "node_info"       -> NodeInfoValue(v)

-----------------------------------------------------------------------------
(* Decoding: an answer is a result code and a value                        *)

Decoded(v)      == [res |-> 0, value |-> v]
BadLength       == [res |-> -1, value |-> NotSet]
Inconsistent    == [res |-> -3, value |-> NotSet]
InvalidContent  == [res |-> -4, value |-> NotSet]

(* tlv_iter_next, check_tlv_validity: the option at pos ends in the         *)
(* message.  When less than its type and length is left it does not,        *)
(* whatever is read as its length.                                          *)
TlvIsValid(bytes, pos) ==
    /\ pos + 4 <= Len(bytes)
    /\ pos + 4 + Number(Slice(bytes, pos + 2, 2)) <= Len(bytes)

(* The options that tlv_iter_next goes through after a header: with type    *)
(* and value, the last of them being -1 if it is inconsistent.              *)
Tlvs(bytes, header) ==
    LET From[pos \in 0..Len(bytes)] ==
          IF ~TlvIsValid(bytes, pos) THEN <<[type |-> -1, value |-> <<>>]>>
          ELSE LET len == Number(Slice(bytes, pos + 2, 2))
                   end == pos + 4 + len
               IN  <<[type |-> Number(Slice(bytes, pos, 2)), value |-> Slice(bytes, pos + 4, len)]>>
                     \o (IF end >= Len(bytes) THEN <<>> ELSE From[end])
    IN  From[header]

NameOf(type) == IF type + 1 \in DOMAIN OptionNames THEN OptionNames[type + 1] ELSE "unknown"

(* tlv_iter_decode_u8 .. u64                                                *)
DecodeNumber(value, w) == IF Len(value) # w THEN BadLength ELSE Decoded(Number(value))

(* The decoders of options of one byte.                                     *)
DecodeEnum(name, value) ==
    LET d == DecodeNumber(value, 1)
    IN  IF d.res = 0 /\ d.value \notin ValidValues[name] THEN InvalidContent ELSE d

DecodeArray(value) ==
    IF Len(value) % 2 # 0 THEN BadLength
    ELSE Decoded([i \in 1..(Len(value) \div 2) |-> Number(Slice(value, 2 * (i - 1), 2))])

DecodeRingId(value) ==
    IF Len(value) # 12 THEN BadLength
    ELSE Decoded([node_id |-> Number(Slice(value, 0, 4)), seq |-> Number(Slice(value, 4, 8))])

DecodeTieBreaker(value) ==
    IF Len(value) # 5 THEN BadLength
    ELSE IF value[1] \notin TieBreakerModes THEN InvalidContent
    ELSE Decoded([mode |-> value[1],
                  node_id |-> IF value[1] = ByNodeId THEN Number(Slice(value, 1, 4)) ELSE 0])

(* The part of a node info that an option of it is; others are skipped.     *)
DecodeNodePart(tlv) ==
    IF tlv.type = -1 THEN Inconsistent
    ELSE IF NameOf(tlv.type) \in {"node_id", "data_center_id"} THEN DecodeNumber(tlv.value, 4)
    ELSE IF NameOf(tlv.type) = "node_state" THEN DecodeEnum("node_state", tlv.value)
    ELSE Decoded(NotSet)

DecodeNodeInfo(value) ==
    LET parts  == Tlvs(value, 0)
        d      == [i \in DOMAIN parts |-> DecodeNodePart(parts[i])]
        bad    == SelectSeq(d, LAMBDA x : x.res # 0)
        of(n)  == FoldLeft(LAMBDA last, i : IF NameOf(parts[i].type) = n THEN d[i].value ELSE last,
                           NotSet, [i \in DOMAIN parts |-> i])
    IN  IF bad # <<>> THEN Head(bad)
        ELSE IF of("node_id") = 0 THEN InvalidContent
        ELSE Decoded([node_id |-> of("node_id"), data_center_id |-> of("data_center_id"),
                      node_state |-> of("node_state")])

(* The cases of msg_decode: an option of an unknown type is skipped.        *)
DecodeOption(tlv) ==
    LET name == NameOf(tlv.type)
    IN  CASE tlv.type = -1            -> Inconsistent
          [] name \in U8Options       -> DecodeEnum(name, tlv.value)
          [] name \in U16Options      -> DecodeNumber(tlv.value, 2)
          [] name \in U32Options      -> DecodeNumber(tlv.value, 4)
          [] name = "config_version"  -> DecodeNumber(tlv.value, 8)
          [] name = "cluster_name"    -> Decoded(tlv.value)
          [] name \in ArrayOptions    -> DecodeArray(tlv.value)
          [] name = "ring_id"         -> DecodeRingId(tlv.value)
          [] name = "tie_breaker"     -> DecodeTieBreaker(tlv.value)
          [] name = "node_info"       -> DecodeNodeInfo(tlv.value)
          [] OTHER                    -> Decoded(NotSet)
=============================================================================
