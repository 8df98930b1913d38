--------------------------------- MODULE MsgIo ---------------------------------
(***************************************************************************)
(* One direction of a connection, as bytes: messages are created into send *)
(* buffers (send-buffer-list.c), written in pieces (msgio_write), and put  *)
(* together again by the receiver (msgio_read) in its receive buffer       *)
(* (dynar.c), which decodes them.  The receiver is qnetd, which skips what *)
(* it cannot take and answers with an error, or qdevice, which disconnects.*)
(*                                                                         *)
(* A socket takes and gives any number of bytes; at most MaxShort          *)
(* transfers are shorter than they could be, by all but one byte.          *)
(***************************************************************************)
EXTENDS Msg

CONSTANTS
    Receivers,    \* subset of {"qnetd", "qdevice"}
    ToQnetd,      \* messages that are created for qnetd
    ToQdevice,    \* messages that are created for qdevice
    MaxMessages,  \* bound: messages created
    MaxShort,     \* bound: short transfers
    ChunkSize,    \* MSGIO_LOCAL_BUF_SIZE
    PipeSize,     \* what the sockets take before a send would block
    MaxEntries,   \* max_list_entries of the send buffer list
    MaxSend,      \* max_buffer_size of the send buffer list
    MaxReceive,   \* maximum size of the receive buffer
    MemoryFails   \* bound: whether memory for the receive buffer may run out

ASSUME MsgIoAssumption ==
    /\ Receivers \subseteq {"qnetd", "qdevice"}
    /\ ChunkSize \in Nat /\ ChunkSize >= HeaderLength
    /\ MaxReceive \in Nat /\ MaxReceive >= HeaderLength
    /\ PipeSize \in Nat \ {0}
    /\ MaxEntries \in Nat \ {0} /\ MaxMessages \in Nat /\ MaxShort \in Nat
    /\ MemoryFails \in BOOLEAN

VARIABLES
    receiver,
    open,       \* the receiver has not ended the connection
    entries,    \* send buffer list: allocated entries, and those in free_list
    list,       \* its list: the bytes to be sent
    sent,       \* msg_already_sent_bytes of the first entry
    pipe,       \* bytes on their way
    shorts,     \* short transfers still to come
    buf,        \* receive_buffer: data, allocated, maximum
    received,   \* msg_already_received_bytes
    skipping,   \* skipping_msg
    reason,     \* qnetd: skipping_msg_reason
    meant,      \* history: the messages created
    got         \* history: what the receiver made of them

sendVars    == <<entries, list, sent, meant>>
receiveVars == <<open, buf, received, skipping, reason, got>>
msgIoVars   == <<receiver, sendVars, pipe, shorts, receiveVars>>

NoError == 0   \* TLV_REPLY_ERROR_CODE_NO_ERROR, and the codes of skipped messages
UnsupportedMessage == 4
MessageTooLong     == 5
ErrorDecodingMsg   == 9

MsgIoInit ==
    /\ receiver \in Receivers
    /\ open = TRUE
    /\ entries = [allocated |-> 0, free |-> 0]
    /\ list = <<>>
    /\ sent = 0
    /\ pipe = <<>>
    /\ shorts = MaxShort
    /\ buf = [data |-> <<>>, allocated |-> 0]
    /\ received = 0
    /\ skipping = FALSE
    /\ reason = NoError
    /\ meant = <<>>
    /\ got = <<>>

-----------------------------------------------------------------------------
(* The sender                                                              *)

(* send_buffer_list_get_new: a free entry, or a new one below the limit.    *)
CanGetNew == entries.free > 0 \/ entries.allocated + 1 <= MaxEntries

AfterGetNew ==
    IF entries.free > 0 THEN [entries EXCEPT !.free = @ - 1]
    ELSE [entries EXCEPT !.allocated = @ + 1]

(* send_buffer_list_discard_new and send_buffer_list_delete: the entry goes *)
(* to the free list.                                                        *)
Discarded(e) == [e EXCEPT !.free = @ + 1]

Messages == IF receiver = "qnetd" THEN ToQnetd ELSE ToQdevice

(* A message is created and put at the end of the list, or its creation     *)
(* fails and the entry is given back.                                       *)
Create(m) ==
    /\ Len(meant) < MaxMessages
    /\ CanGetNew
    /\ IF Fits(m, MaxSend)
       THEN /\ entries' = AfterGetNew
            /\ list' = Append(list, Encode(m))
            /\ meant' = Append(meant, m)
       ELSE /\ entries' = Discarded(AfterGetNew)
            /\ UNCHANGED <<list, meant>>
    /\ UNCHANGED <<receiver, sent, pipe, shorts, receiveVars>>

(* What a transfer of at most n bytes may move.                             *)
Smaller(a, b) == IF a <= b THEN a ELSE b
Transfers(n)  == {n} \cup (IF shorts > 0 THEN {1} ELSE {})
Shorter(k, n) == shorts' = IF k < n THEN shorts - 1 ELSE shorts

(* msgio_write, and what qnetd_client_net_write and qdevice_net_socket_write *)
(* do when all was sent.                                                    *)
Write ==
    /\ open /\ list # <<>> /\ Len(pipe) < PipeSize
    /\ LET left == Len(Head(list)) - sent
           n    == Smaller(Smaller(left, ChunkSize), PipeSize - Len(pipe))
       IN  \E k \in Transfers(n) :
              /\ Shorter(k, n)
              /\ pipe' = pipe \o SubSeq(Head(list), sent + 1, sent + k)
              /\ IF k = left
                 THEN /\ sent' = 0
                      /\ list' = Tail(list)
                      /\ entries' = Discarded(entries)
                 ELSE sent' = sent + k /\ UNCHANGED <<list, entries>>
    /\ UNCHANGED <<receiver, meant, receiveVars>>

-----------------------------------------------------------------------------
(* The receiver                                                            *)

(* A variant that doubles without a look at what is to be added.            *)
Doubled(allocated, n) == IF n > allocated THEN Smaller(2 * allocated + 1, MaxReceive) ELSE allocated

(* dynar_prealloc: the allocated size when the array is to hold n bytes in  *)
(* all, of which the last ones are added.                                   *)
Prealloc(allocated, n) ==
    IF n > allocated THEN Smaller((allocated + (n - Len(buf.data))) * 2, MaxReceive) ELSE allocated

(* A variant that asks for a whole message at once.                         *)
ToReadGreedy ==
    IF received < HeaderLength THEN ChunkSize
    ELSE Smaller((HeaderLength + GetLen(buf.data)) - received, ChunkSize)

(* msgio_read: to_read, the rest of the header or of the message.           *)
ToRead ==
    IF received < HeaderLength THEN HeaderLength - received
    ELSE Smaller((HeaderLength + GetLen(buf.data)) - received, ChunkSize)

(* dynar_cat of bytes: fails when there is no room or, once the header is   *)
(* there, no memory.                                                        *)
CatResults(n) ==
    LET size == Len(buf.data) + n
    IN  {size <= MaxReceive} \cup
          (IF MemoryFails /\ received >= HeaderLength /\ size > buf.allocated THEN {FALSE} ELSE {})

(* The rest of msgio_read for bytes that were received, added to the buffer *)
(* or not: the result and what becomes of the buffer.                       *)
MsgioRead(bytes, added) ==
    LET now     == received + Len(bytes)
        data    == IF skipping \/ ~added THEN buf.data ELSE buf.data \o bytes
        unable  == ~skipping /\ ~added
        header  == ~skipping /\ added /\ now = HeaderLength
        badType == header /\ ~ValidType(data)
        tooLong == header /\ ~badType /\ HeaderLength + GetLen(data) > MaxReceive
    IN  [ret      |-> CASE now < HeaderLength /\ (skipping \/ unable)     -> -3
                        [] now >= HeaderLength /\ now = HeaderLength + GetLen(data) -> 1
                        [] unable  -> -4
                        [] badType -> -5
                        [] tooLong -> -6
                        [] OTHER   -> 0,
         now      |-> now,
         data     |-> data,
         skipping |-> skipping \/ unable \/ badType \/ tooLong]

(* After a message, read or skipped, everything is reset; the memory stays. *)
ResetRead ==
    /\ received' = 0
    /\ skipping' = FALSE
    /\ reason' = NoError
    /\ buf' = [buf EXCEPT !.data = <<>>]

KeepRead(r) ==
    /\ received' = r.now
    /\ skipping' = r.skipping
    /\ buf' = [data |-> r.data, allocated |-> Prealloc(buf.allocated, Len(r.data))]

Received(data) ==
    LET d == MsgDecode(data)
    IN  IF d.res # 0 THEN [error |-> ErrorDecodingMsg] ELSE [message |-> d]

(* The reasons that qnetd_client_net_read stores.                           *)
SkipReason(ret) ==
    CASE ret = -4 -> ErrorDecodingMsg [] ret = -5 -> UnsupportedMessage [] ret = -6 -> MessageTooLong

(* qnetd_client_net_read: of a skipped message the client is told why.      *)
QnetdRead(r) ==
    CASE r.ret = 1 ->
            /\ got' = Append(got, IF r.skipping THEN [error |-> reason] ELSE Received(r.data))
            /\ ResetRead
            /\ UNCHANGED open
      [] r.ret \in {-4, -5, -6} ->
            /\ KeepRead(r)
            /\ reason' = SkipReason(r.ret)
            /\ UNCHANGED <<open, got>>
      [] r.ret = 0 -> KeepRead(r) /\ UNCHANGED <<open, got, reason>>
      [] r.ret = -3 ->
            /\ open' = FALSE
            /\ UNCHANGED <<buf, received, skipping, reason, got>>

(* qdevice_net_socket_read: what cannot be read or decoded disconnects, and *)
(* the end of a skipped message ends the daemon.                            *)
QdeviceRead(r) ==
    /\ UNCHANGED reason
    /\ CASE r.ret = 1 /\ ~r.skipping ->
               /\ got' = Append(got, Received(r.data))
               /\ open' = (MsgDecode(r.data).res = 0)
               /\ received' = 0 /\ skipping' = FALSE /\ buf' = [buf EXCEPT !.data = <<>>]
         [] r.ret = 1 /\ r.skipping ->
               /\ got' = Append(got, [exit |-> TRUE])
               /\ open' = FALSE
               /\ UNCHANGED <<buf, received, skipping>>
         [] r.ret = 0 -> KeepRead(r) /\ UNCHANGED <<open, got>>
         [] OTHER -> open' = FALSE /\ UNCHANGED <<buf, received, skipping, got>>

Read ==
    /\ open /\ pipe # <<>>
    /\ LET n == Smaller(ToRead, Len(pipe))
       IN  \E k \in Transfers(n) :
              /\ Shorter(k, n)
              /\ pipe' = SubSeq(pipe, k + 1, Len(pipe))
              /\ \E added \in CatResults(k) :
                   \E r \in {MsgioRead(SubSeq(pipe, 1, k), added)} :
                      IF receiver = "qnetd" THEN QnetdRead(r) ELSE QdeviceRead(r)
    /\ UNCHANGED <<receiver, sendVars>>

(* Nothing is left to do.                                                   *)
Done ==
    /\ ~open \/ (Len(meant) = MaxMessages /\ list = <<>> /\ pipe = <<>>)
    /\ UNCHANGED msgIoVars

MsgIoNext == (\E m \in Messages : Create(m)) \/ Write \/ Read \/ Done

-----------------------------------------------------------------------------
MsgIoTypeOK ==
    /\ entries.allocated \in 0..MaxEntries /\ entries.free \in 0..entries.allocated
    /\ received >= HeaderLength => received < HeaderLength + GetLen(buf.data)
    /\ skipping \in BOOLEAN
    /\ Len(got) <= MaxMessages

(* The memory of the receive buffer is large enough for what is moved into  *)
(* it and never larger than its maximum, whatever the sizes of the pieces   *)
(* and of the messages before (dynar_prealloc).                             *)
BufferHoldsData ==
    /\ Len(buf.data) <= buf.allocated
    /\ buf.allocated <= MaxReceive

(* No send buffer gets lost: neither when a message is sent nor when its    *)
(* creation fails.  A lost one is missed for the rest of the connection.    *)
NoSendBufferIsLost == entries.allocated = Len(list) + entries.free

(* The buffers of both ends are in order: well-typed, large enough for what *)
(* is moved into them, and none is lost on any path, failures included.     *)
BuffersAreSound == MsgIoTypeOK /\ BufferHoldsData /\ NoSendBufferIsLost

(* The message that was meant, as it should be decoded: the node of a       *)
(* tie-breaker that does not count is not sent, options of a newer protocol *)
(* are skipped.                                                             *)
Expected(m) ==
    LET infos == SelectSeq(m.options, LAMBDA o : o.name = "node_info")
        others == SelectSeq(m.options, LAMBDA o : o.name # "node_info")
        names == {others[i].name : i \in DOMAIN others} \ {"unknown"}
        of(n) == others[CHOOSE i \in DOMAIN others : others[i].name = n].value
    IN  [res |-> 0, type |-> m.type,
         options |-> [n \in names |->
             IF n = "tie_breaker" /\ of(n).mode # ByNodeId THEN [of(n) EXCEPT !.node_id = 0]
             ELSE of(n)],
         nodes |-> [i \in DOMAIN infos |-> infos[i].value]]

Known(m) == m.type + 1 \in DOMAIN MessageNames

(* When everything is sent and read, every message has come to an end: no   *)
(* piece of one waits in the receive buffer for bytes that do not come.     *)
QuietMeansArrived ==
    open /\ list = <<>> /\ pipe = <<>> => received = 0 /\ Len(got) = Len(meant)

(* The stream stays in step: the i-th outcome is about the i-th message     *)
(* created.  A message that the receiver can take is decoded to what was    *)
(* meant; one that it skips is answered with the reason, and what follows   *)
(* is read as if nothing had been; qdevice takes nothing after it.          *)
(* Nothing stays behind (QuietMeansArrived).                                *)
StreamStaysInStep ==
    /\ QuietMeansArrived
    /\ Len(got) <= Len(meant)
    /\ \A i \in DOMAIN got :
          LET m == meant[i] IN
          \/ Known(m) /\ Fits(m, MaxReceive) /\ got[i] = [message |-> Expected(m)]
          \/ ~Known(m) /\ got[i] = [error |-> UnsupportedMessage]
          \/ Known(m) /\ ~Fits(m, MaxReceive) /\ got[i] = [error |-> MessageTooLong]
          \/ MemoryFails /\ got[i] = [error |-> ErrorDecodingMsg]

(* Every message that one side creates has what the other side's handler of *)
(* it insists on: no exchange can end in a missing option.                  *)
NothingRequiredIsMissing ==
    \A i \in DOMAIN got : "message" \in DOMAIN got[i] =>
        LET m    == got[i].message
            name == MessageNames[m.type + 1]
            has  == DOMAIN m.options
        IN  IF receiver = "qdevice" THEN QdeviceRequires(name) \subseteq has
            ELSE QnetdRequires(name, IF "node_list_type" \in has THEN m.options["node_list_type"]
                                     ELSE 0) \subseteq has
=============================================================================
