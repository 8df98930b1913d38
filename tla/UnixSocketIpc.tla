----------------------------- MODULE UnixSocketIpc -----------------------------
(***************************************************************************)
(* The local socket of a daemon (unix-socket.c, unix-socket-ipc.c,         *)
(* unix-socket-client.c and -list.c, with the parsing of commands in       *)
(* qnetd-ipc.c and qdevice-ipc.c): a tool connects, sends one line, and is *)
(* sent one reply.                                                         *)
(*                                                                         *)
(* A connected socket is a slot, reused like a descriptor number.  What a  *)
(* tool sent is told apart as far as the daemon does: bytes without a      *)
(* newline, or bytes with one.  A reply is a number of pieces, each one    *)
(* send().  Where memory or the buffers' maximum size decides, both        *)
(* outcomes are possible.                                                  *)
(***************************************************************************)
EXTENDS Integers, FiniteSets

CONSTANTS
    Slots,       \* descriptors for accepted sockets
    MaxClients,  \* ipc_max_clients, 0 for no limit
    MaxPending,  \* bound: connections not yet accepted
    MaxTools,    \* bound: connections made
    Pieces,      \* the number of pieces of a reply
    Commands     \* what tools send

ASSUME IpcAssumption ==
    /\ MaxClients \in Nat /\ MaxPending \in Nat \ {0} /\ MaxTools \in Nat
    /\ Pieces \in Nat \ {0}
    /\ Commands \subseteq {"shutdown", "status", "list", "unknown", "empty"}

VARIABLES
    ipc_open,  \* local_ipc.socket >= 0
    pending,   \* connections waiting in the backlog
    made,      \* connections made so far
    peer,      \* the tool at the other end of each slot
    ipc_list   \* local_ipc.clients, by slot

ipcVars == <<ipc_open, pending, made, peer, ipc_list>>

(* The tool: whether it is still there, the bytes it sent that are not read *)
(* yet (none, some without a newline, or a line with its command), whether  *)
(* it sent the line, and whether it has the whole reply.                    *)
NoPeer  == [there |-> FALSE, unread |-> "none", sent |-> FALSE, answered |-> FALSE]
NewPeer == [NoPeer EXCEPT !.there = TRUE]

(* struct unix_socket_client with the user data of the daemon; `left' is    *)
(* what is left to send of the reply.                                       *)
NoClient == [used |-> FALSE, reading |-> FALSE, writing |-> FALSE,
             scheduled |-> FALSE, shutdown |-> FALSE, left |-> 0]

(* unix_socket_client_init, then unix_socket_client_read_line(client, 1)    *)
NewClient == [NoClient EXCEPT !.used = TRUE, !.reading = TRUE]

Connected == {c \in Slots : ipc_list[c].used}

IpcInit ==
    /\ ipc_open = TRUE
    /\ pending = 0
    /\ made = 0
    /\ peer = [c \in Slots |-> NoPeer]
    /\ ipc_list = [c \in Slots |-> NoClient]

-----------------------------------------------------------------------------
(* The tools                                                               *)

ToolConnects ==
    /\ ipc_open /\ pending < MaxPending /\ made < MaxTools
    /\ pending' = pending + 1
    /\ made' = made + 1
    /\ UNCHANGED <<ipc_open, peer, ipc_list>>

ToolSends(c, bytes) ==
    /\ peer[c].there /\ ~peer[c].sent /\ peer[c].unread = "none"
    /\ peer' = [peer EXCEPT ![c].unread = bytes, ![c].sent = (bytes \in Commands)]
    /\ UNCHANGED <<ipc_open, pending, made, ipc_list>>

ToolCloses(c) ==
    /\ peer[c].there
    /\ peer' = [peer EXCEPT ![c].there = FALSE]
    /\ UNCHANGED <<ipc_open, pending, made, ipc_list>>

-----------------------------------------------------------------------------
(* The daemon's calls.  They leave `made' alone.                           *)

(* unix_socket_ipc_close: closes the listening socket, once.  What waited   *)
(* in its backlog is reset.                                                 *)
IpcClose == ipc_open' = FALSE /\ pending' = 0

(* unix_socket_ipc_accept: is the list full?                                *)
TooManyClients == MaxClients # 0 /\ Cardinality(Connected) >= MaxClients

(* unix_socket_ipc_accept refuses, or cannot allocate: the new socket is    *)
(* closed again.                                                            *)
AcceptRefused ==
    /\ pending > 0
    /\ pending' = pending - 1
    /\ UNCHANGED <<ipc_open, peer, ipc_list>>

AcceptClient(c) ==
    /\ pending > 0
    /\ ~TooManyClients
    /\ ~ipc_list[c].used
    /\ pending' = pending - 1
    /\ peer' = [peer EXCEPT ![c] = NewPeer]
    /\ ipc_list' = [ipc_list EXCEPT ![c] = NewClient]
    /\ UNCHANGED ipc_open

(* unix_socket_ipc_client_disconnect: closes the socket, frees the client.  *)
ClientFreed(c) ==
    /\ peer' = [peer EXCEPT ![c] = NoPeer]
    /\ ipc_list' = [ipc_list EXCEPT ![c] = NoClient]

Scheduled(client) == [client EXCEPT !.scheduled = TRUE]

(* A variant that leaves the client alone when its reply does not fit.      *)
ReplyOrNothing(client) == {[client EXCEPT !.writing = TRUE, !.left = Pieces], client}

(* A reply is ready to be sent (send_buffer, or send_error in its place),   *)
(* or does not even fit into the buffer, and the client is disconnected.    *)
Reply(client) == {[client EXCEPT !.writing = TRUE, !.left = Pieces], Scheduled(client)}

(* parse_line of the two daemons: what may become of the client.            *)
QnetdParseLine(client, cmd) ==
    Reply([client EXCEPT !.shutdown = (cmd = "shutdown")])

QdeviceParseLine(client, cmd) ==
    Reply([client EXCEPT !.shutdown = (cmd = "shutdown")])

(* io_read after a full line: no more reading.                              *)
LineRead(client) == [client EXCEPT !.reading = FALSE]

(* unix_socket_client_io_read and io_read.  Bytes that do not fit into the  *)
(* receive buffer, the end of the connection and errors disconnect.         *)
IoRead(c, Parsed) ==
    /\ peer' = [peer EXCEPT ![c].unread = "none"]
    /\ LET client == ipc_list[c] IN
       \E after \in CASE peer[c].unread = "none"     -> {Scheduled(client)}
                      [] peer[c].unread = "part"     -> {client, Scheduled(client)}
                      [] peer[c].unread \in Commands -> Parsed \cup {Scheduled(client)} :
          ipc_list' = [ipc_list EXCEPT ![c] = after]
    /\ UNCHANGED <<ipc_open, pending>>

(* unix_socket_client_io_write and io_write: a piece is sent; the last one  *)
(* ends the connection, and the daemon if its shutdown was asked for.       *)
IoWrite(c) ==
    LET client == ipc_list[c]
        last   == client.left = 1
    IN  IF ~peer[c].there
        THEN /\ ipc_list' = [ipc_list EXCEPT ![c] = Scheduled(client)]
             /\ UNCHANGED <<ipc_open, pending, peer>>
        ELSE /\ ipc_list' = [ipc_list EXCEPT ![c] =
                   [client EXCEPT !.left = @ - 1, !.writing = ~last, !.scheduled = last]]
             /\ peer' = [peer EXCEPT ![c].answered = last]
             /\ IF last /\ client.shutdown THEN IpcClose
                ELSE UNCHANGED <<ipc_open, pending>>

(* A variant that waits for more input before it sends.                     *)
ClientEventsReadOnly(c) == IF ipc_list[c].reading THEN {"in"} ELSE {}

(* What a client wants to be polled for (set_events of a client socket).    *)
ClientEvents(c) == (IF ipc_list[c].reading THEN {"in"} ELSE {})
                     \cup (IF ipc_list[c].writing THEN {"out"} ELSE {})

(* ipc_destroy, once the main loop has ended.                               *)
IpcDestroy ==
    /\ IpcClose
    /\ peer' = [c \in Slots |-> NoPeer]
    /\ ipc_list' = [c \in Slots |-> NoClient]

-----------------------------------------------------------------------------
IpcTypeOK ==
    /\ ipc_open \in BOOLEAN
    /\ pending \in 0..MaxPending /\ made \in 0..MaxTools
    /\ \A c \in Slots : /\ peer[c].unread \in {"none", "part"} \cup Commands
                        /\ ipc_list[c].left \in 0..Pieces
=============================================================================
