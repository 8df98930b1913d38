------------------------------ MODULE DaemonLoops ------------------------------
(***************************************************************************)
(* The main loops of corosync-qnetd and corosync-qdevice: the poll loop    *)
(* with everything that is registered in it, from the start of the loop to *)
(* the end of the daemon.                                                  *)
(*                                                                         *)
(*   qnetd    the listening sockets, the local tools, and the clients with *)
(*            their dead-peer timers.  Clients that are to be disconnected *)
(*            are, in the pre-poll callback (qnetd-instance.c).            *)
(*   qdevice  the local tools, the pipes of the heuristics worker,         *)
(*            votequorum, cmap, and the socket to qnetd, which is another  *)
(*            one while it is being connected (qdevice-net-socket.c).  The *)
(*            model ends the loop and starts it again to reconnect.        *)
(*                                                                         *)
(* A message of a client is what it makes qnetd do: queue messages for any *)
(* clients, or give up the one it came from.  A client that cannot be sent *)
(* a vote is given up as well (qnetd-algo-ffsplit.c, send_votes).          *)
(***************************************************************************)
EXTENDS PrPollLoop, UnixSocketIpc

CONSTANTS
    Daemons,     \* subset of {"qnetd", "qdevice"}
    NetClients,  \* sockets for clients of qnetd
    MaxOut,      \* max_client_send_buffers
    MaxWork,     \* bound: messages of clients, and of the server
    MaxReady,    \* bound: descriptors, but for the local socket's, ready at a time
    NetSocks     \* sockets for the connection of qdevice

ASSUME DaemonAssumption ==
    /\ Daemons \subseteq {"qnetd", "qdevice"}
    /\ MaxOut \in Nat \ {0} /\ MaxWork \in Nat
    /\ Cardinality(NetSocks) >= 2

VARIABLES
    daemon,   \* which of the two runs
    running,  \* "loop", then "ended"
    net,      \* qnetd: the clients
    clients,  \* qnetd: instance->clients, a list
    walk,     \* qnetd: where the pre-poll callback is in it
    work,     \* messages still to come
    qd        \* qdevice: the instance

netVars == <<net, clients, walk>>
vars    == <<loopVars, ipcVars, daemon, running, netVars, work, qd>>

NoNet  == [scheduled |-> FALSE, out |-> 0]
NoSock == "nosock"

QnetdFds   == {"ipc", "server"} \cup Slots \cup NetClients
QdeviceFds == {"ipc", "heurrecv", "heursend", "votequorum", "cmap"} \cup Slots \cup NetSocks

(* No name stands for two descriptors.                                      *)
ASSUME DescriptorAssumption ==
    LET fixed == {"ipc", "server", "heurrecv", "heursend", "votequorum", "cmap"}
    IN  /\ Slots \cap (fixed \cup NetClients \cup NetSocks) = {}
        /\ NetClients \cap (fixed \cup NetSocks) = {} /\ NetSocks \cap fixed = {}
        /\ {NoEntry, NoSock} \cap (QnetdFds \cup QdeviceFds) = {}

(* struct qdevice_instance and qdevice_net_instance, as far as the loop     *)
(* goes.  `trying' is non_blocking_client.socket.                           *)
NewQd == [sync |-> FALSE, heurcmd |-> FALSE,
          trying |-> NoSock, destroyed |-> TRUE, socket |-> NoSock, scheduled |-> FALSE,
          queued |-> FALSE, closed |-> "no"]

FixedFds(d) == IF d = "qnetd" THEN <<"ipc", "server">>
               ELSE <<"ipc", "heurrecv", "heursend", "votequorum", "cmap">>

Init ==
    /\ daemon \in Daemons
    /\ running = IF daemon = "qnetd" THEN "loop" ELSE "connect"
    /\ LoopInit
    /\ fd_list = FixedFds(daemon)
    /\ IpcInit
    /\ net = [n \in NetClients |-> NoNet]
    /\ clients = <<>>
    /\ walk = <<>>
    /\ work = MaxWork
    /\ qd = NewQd

-----------------------------------------------------------------------------
(* Both daemons: the local socket                                          *)

(* A variant that skips a closed socket instead of ending.                  *)
IpcSocketResultSkips == IF ipc_open THEN 0 ELSE -1

(* set_events of the listening socket: its end ends the loop.               *)
IpcSocketResult == IF ipc_open THEN 0 ELSE -2

IpcSocketEvents ==
    /\ Asked("ipc")
    /\ Fill(IpcSocketResult, {"in"})
    /\ UNCHANGED <<listVars, ipcVars, daemon, running, netVars, work, qd>>

(* qnetd_ipc_accept and qdevice_ipc_accept.  A socket that cannot be added  *)
(* to the loop is disconnected at once.                                     *)
IpcAccept ==
    /\ Turn("ipc", "read")
    /\ Called(0)
    /\ \/ AcceptRefused /\ UNCHANGED listVars
       \/ \E c \in {s \in Slots : ~ipc_list[s].used} :
             /\ AcceptClient(c)
             /\ AddFd(c)
    /\ UNCHANGED <<made, daemon, running, netVars, work, qd>>

(* accept() fails when a signal closed the listening socket after it was    *)
(* found readable.                                                          *)
IpcAcceptFails ==
    /\ Turn("ipc", "read")
    /\ pending = 0
    /\ Called(0)
    /\ UNCHANGED <<listVars, ipcVars, daemon, running, netVars, work, qd>>

IpcSocketErr ==
    /\ Turn("ipc", "err")
    /\ Called(-1)
    /\ UNCHANGED <<listVars, ipcVars, daemon, running, netVars, work, qd>>

(* set_events of a scheduled client: it is freed, and so is its entry.      *)
ClientSocketDisconnect(c) == ClientFreed(c) /\ DelFd(c)

ClientSocketEvents(c) ==
    /\ Asked(c)
    /\ IF ipc_list[c].scheduled
       THEN /\ Fill(-1, {})
            /\ ClientSocketDisconnect(c)
            /\ UNCHANGED <<ipc_open, pending>>
       ELSE /\ Fill(IF ClientEvents(c) = {} THEN -1 ELSE 0, ClientEvents(c))
            /\ UNCHANGED <<listVars, ipc_open, pending, peer, ipc_list>>
    /\ UNCHANGED <<made, daemon, running, netVars, work, qd>>

QnetdIpcIoRead(c) ==
    /\ daemon = "qnetd"
    /\ Turn(c, "read")
    /\ Called(0)
    /\ IoRead(c, QnetdParseLine(LineRead(ipc_list[c]), peer[c].unread))
    /\ UNCHANGED <<listVars, made, daemon, running, netVars, work, qd>>

QdeviceIpcIoRead(c) ==
    /\ daemon = "qdevice"
    /\ Turn(c, "read")
    /\ Called(0)
    /\ IoRead(c, QdeviceParseLine(LineRead(ipc_list[c]), peer[c].unread))
    /\ UNCHANGED <<listVars, made, daemon, running, netVars, work, qd>>

ClientSocketWrite(c) ==
    /\ Turn(c, "write")
    /\ Called(0)
    /\ IoWrite(c)
    /\ UNCHANGED <<listVars, made, daemon, running, netVars, work, qd>>

ClientSocketErr(c) ==
    /\ Turn(c, "err")
    /\ Called(0)
    /\ ipc_list' = [ipc_list EXCEPT ![c] = Scheduled(@)]
    /\ UNCHANGED <<listVars, ipc_open, pending, made, peer, daemon, running, netVars, work, qd>>

(* signal_int_handler, signal_term_handler: at any moment.  What tells the  *)
(* moments apart is the next look at the socket: when the descriptors are   *)
(* asked (or the loop has returned), in PR_Poll, and in accept.             *)
Signal ==
    /\ running # "ended" /\ ipc_open /\ phase \in {"out", "poll", "dispatch"}
    /\ IpcClose
    /\ UNCHANGED <<loopVars, made, peer, ipc_list, daemon, running, netVars, work, qd>>

(* Only accept, recv, send and PR_Poll see what the tools do; what happens  *)
(* in the other phases is the same as if it happened when the daemon polls. *)
Tools ==
    /\ running = "loop" /\ phase \in {"poll", "dispatch"}
    /\ \/ ToolConnects
       \/ \E c \in Slots : \/ \E b \in {"part"} \cup Commands : ToolSends(c, b)
                           \/ ToolCloses(c)
    /\ UNCHANGED <<loopVars, daemon, running, netVars, work, qd>>

-----------------------------------------------------------------------------
(* qnetd: clients                                                          *)

Clients == Range(clients)

(* Messages are queued for S.  A client without a free buffer is given up.  *)
SendTo(state, S) ==
    [n \in NetClients |->
        IF n \notin S THEN state[n]
        ELSE IF state[n].out < MaxOut THEN [state[n] EXCEPT !.out = @ + 1]
        ELSE [state[n] EXCEPT !.scheduled = TRUE]]

(* The listening socket has no set_events callback, and no error on it is   *)
(* survived.                                                                *)
ServerSocketEvents ==
    /\ daemon = "qnetd"
    /\ Asked("server")
    /\ Fill(0, {"in"})
    /\ UNCHANGED <<listVars, ipcVars, daemon, running, netVars, work, qd>>

ServerSocketErr ==
    /\ daemon = "qnetd"
    /\ Turn("server", "err")
    /\ Called(-1)
    /\ UNCHANGED <<listVars, ipcVars, daemon, running, netVars, work, qd>>

(* qnetd_client_net_accept.                                                 *)
NetAccept ==
    /\ daemon = "qnetd"
    /\ Turn("server", "read")
    /\ Called(0)
    /\ \/ \E n \in NetClients :
             /\ n \notin Clients
             /\ AddFd(n)
             /\ clients' = Append(clients, n)
       \/ UNCHANGED <<listVars, clients>>
    /\ UNCHANGED <<ipcVars, daemon, running, net, walk, work, qd>>

(* qnetd_client_net_socket_poll_loop_set_events_cb                          *)
NetSocketEventsOf(n) ==
    /\ IF net[n].scheduled THEN Fill(-1, {})
       ELSE Fill(0, {"in"} \cup (IF net[n].out > 0 THEN {"out"} ELSE {}))
    /\ UNCHANGED <<listVars, net, clients>>

NetSocketEvents(n) ==
    /\ daemon = "qnetd"
    /\ Asked(n)
    /\ NetSocketEventsOf(n)
    /\ UNCHANGED <<ipcVars, daemon, running, walk, work, qd>>

(* qnetd_client_net_socket_poll_loop_read_cb: a part of a message, a        *)
(* message, or the client is gone.  A client that is to be disconnected is  *)
(* not read.                                                                *)
NetSocketRead(n) ==
    /\ daemon = "qnetd"
    /\ Turn(n, "read")
    /\ Called(0)
    /\ IF net[n].scheduled THEN UNCHANGED <<net, work>>
       ELSE \/ UNCHANGED <<net, work>>
            \/ net' = [net EXCEPT ![n].scheduled = TRUE] /\ UNCHANGED work
            \/ /\ work > 0
               /\ work' = work - 1
               /\ \E S \in SUBSET Clients : net' = SendTo(net, S)
    /\ UNCHANGED <<listVars, ipcVars, daemon, running, clients, walk, qd>>

NetSocketWrite(n) ==
    /\ daemon = "qnetd"
    /\ Turn(n, "write")
    /\ Called(0)
    /\ IF net[n].scheduled THEN UNCHANGED net
       ELSE \/ net' = [net EXCEPT ![n].out = @ - 1]
            \/ net' = [net EXCEPT ![n].scheduled = TRUE]
    /\ UNCHANGED <<listVars, ipcVars, daemon, running, clients, walk, work, qd>>

NetSocketErr(n) ==
    /\ daemon = "qnetd"
    /\ Turn(n, "err")
    /\ Called(0)
    /\ net' = [net EXCEPT ![n].scheduled = TRUE]
    /\ UNCHANGED <<listVars, ipcVars, daemon, running, clients, walk, work, qd>>

-----------------------------------------------------------------------------
(* qnetd: qnetd_run_main_loop                                              *)

QnetdExec ==
    /\ daemon = "qnetd" /\ running = "loop"
    /\ ExecStart
    /\ walk' = clients
    /\ UNCHANGED <<ipcVars, daemon, running, net, clients, work, qd>>

(* qnetd_instance_client_disconnect, with what the decision algorithm       *)
(* sends to the others.                                                     *)
PrePollDisconnect(n) ==
    IF net[n].scheduled
    THEN \E S \in SUBSET (Clients \ {n}) :
            /\ DelFd(n)
            /\ net' = SendTo([net EXCEPT ![n] = NoNet], S)
            /\ clients' = Without(clients, n)
    ELSE UNCHANGED <<listVars, net, clients>>

(* qnetd_instance_poll_loop_pre_poll_cb, one client after the other.        *)
PrePollClient ==
    /\ daemon = "qnetd" /\ phase = "pre" /\ walk # <<>>
    /\ PrePollDisconnect(Head(walk))
    /\ walk' = Tail(walk)
    /\ UNCHANGED <<controlVars, ipcVars, daemon, running, work, qd>>

PrePollEnd ==
    /\ daemon = "qnetd" /\ walk = <<>>
    /\ PrePollDone(fd_list)
    /\ UNCHANGED <<listVars, ipcVars, daemon, running, netVars, work, qd>>

(* timer_list_expire: qnetd_dpd_timer_cb for silent clients.                *)
QnetdTimers ==
    /\ daemon = "qnetd"
    /\ Expired
    /\ \E S \in SUBSET Clients :
          net' = [n \in NetClients |->
                     IF n \in S THEN [net[n] EXCEPT !.scheduled = TRUE] ELSE net[n]]
    /\ UNCHANGED <<listVars, ipcVars, daemon, running, clients, walk, work, qd>>

(* The loop ended: everything is destroyed.                                 *)
QnetdEnd ==
    /\ daemon = "qnetd" /\ running = "loop"
    /\ phase = "out" /\ result # 0
    /\ running' = "ended"
    /\ IpcDestroy
    /\ fd_list' = <<>>
    /\ net' = [n \in NetClients |-> NoNet]
    /\ clients' = <<>>
    /\ UNCHANGED <<freed, controlVars, made, daemon, walk, work, qd>>

-----------------------------------------------------------------------------
(* qdevice: qdevice_run_main_loop                                          *)

QdUnchanged == UNCHANGED <<ipcVars, daemon, netVars>>

FreeSocks == NetSocks \ {qd.trying, qd.socket}

(* nss_sock_non_blocking_client_try_next: the next address of the server,   *)
(* or none is left and the client is destroyed.  Result: the socket.        *)
TryNext == FreeSocks \cup {NoSock}

(* qdevice_model_net_pre_poll_loop                                          *)
QdPrePollLoop ==
    /\ daemon = "qdevice" /\ running = "connect"
    /\ running' = "loop"
    /\ \E sock \in TryNext :
          /\ qd' = [qd EXCEPT !.trying = sock,
                              !.destroyed = (sock = NoSock), !.socket = NoSock]
          /\ IF sock = NoSock THEN UNCHANGED listVars ELSE AddFd(sock)
    /\ result' = 0
    /\ UNCHANGED <<poll_array, allocated, phase, cursor, due, work>>
    /\ QdUnchanged

QdExec ==
    /\ daemon = "qdevice" /\ running = "loop"
    /\ ExecStart
    /\ UNCHANGED <<running, work, qd>>
    /\ QdUnchanged

(* check_schedule_disconnect_cb                                             *)
QdPrePoll ==
    /\ daemon = "qdevice"
    /\ IF qd.scheduled THEN PrePollFailed ELSE PrePollDone(fd_list)
    /\ UNCHANGED <<listVars, running, work, qd>>
    /\ QdUnchanged

(* The set_events callbacks: a command for the worker, the cmap connection  *)
(* that is blocked during a sync, and the sockets.                          *)
QdEvents(fd) ==
    CASE fd \in {"heurrecv", "votequorum"} -> {"in"}
      [] fd = "heursend" -> IF qd.heurcmd THEN {"out"} ELSE {}
      [] fd = "cmap"     -> IF qd.sync THEN {} ELSE {"in"}
      [] fd = qd.trying /\ ~qd.destroyed -> {"out", "pri"}
      [] fd = qd.socket  -> {"in"} \cup (IF qd.queued THEN {"out"} ELSE {})

QdSetEvents ==
    /\ daemon = "qdevice"
    /\ \E fd \in QdeviceFds \ ({"ipc"} \cup Slots) :
          Asked(fd) /\ Fill(IF QdEvents(fd) = {} THEN -1 ELSE 0, QdEvents(fd))
    /\ UNCHANGED <<listVars, running, work, qd>>
    /\ QdUnchanged

(* A callback that read less than a message.                                *)
PartOfMessage(fd) == Turn(fd, "read") /\ Called(0) /\ UNCHANGED <<qd, work>>

(* The pipes of the worker: their end ends the loop.                        *)
QdHeuristics ==
    /\ daemon = "qdevice"
    /\ \/ PartOfMessage("heurrecv")
       \/ /\ Turn("heurrecv", "read") /\ Called(0)
          /\ work > 0 /\ work' = work - 1
          /\ \E q \in BOOLEAN : qd' = [qd EXCEPT !.queued = @ \/ (q /\ qd.socket # NoSock)]
       \/ /\ Turn("heursend", "write") /\ Called(0)
          /\ qd' = [qd EXCEPT !.heurcmd = FALSE]
          /\ UNCHANGED work
       \/ /\ \/ Turn("heurrecv", "read") \/ Turn("heurrecv", "err")
             \/ Turn("heursend", "write") \/ Turn("heursend", "err")
          /\ Called(-1)
          /\ qd' = [qd EXCEPT !.closed = "heuristics"]
          /\ UNCHANGED work
    /\ UNCHANGED <<listVars, running>>
    /\ QdUnchanged

(* votequorum and cmap callbacks.  They start heuristics, queue messages,   *)
(* begin and end syncs, and may schedule a disconnect.                      *)
QdCorosync ==
    /\ daemon = "qdevice"
    /\ \/ PartOfMessage("votequorum") \/ PartOfMessage("cmap")
       \/ /\ Turn("votequorum", "read") \/ Turn("cmap", "read")
          /\ Called(0)
          /\ work > 0 /\ work' = work - 1
          /\ \E sync \in BOOLEAN, eff \in {"heurcmd", "queued", "scheduled"} :
                /\ sync # qd.sync => Turn("votequorum", "read")
                /\ eff = "queued" => qd.socket # NoSock
                /\ qd' = [qd EXCEPT !.sync = sync, ![eff] = TRUE]
       \/ /\ \E st \in {"read", "err"} : Turn("votequorum", st) \/ Turn("cmap", st)
          /\ Called(-1)
          /\ qd' = [qd EXCEPT !.closed = "corosync"]
          /\ UNCHANGED work
    /\ UNCHANGED <<listVars, running>>
    /\ QdUnchanged

(* non_blocking_client_socket_write_cb, which the error callback calls too: *)
(* still connecting; failed, and the next address is tried; or connected.   *)
(* The socket is taken out of the loop in its own callback.                 *)
NonBlockingClientWrite ==
    /\ daemon = "qdevice" /\ ~qd.destroyed
    /\ Turn(qd.trying, "write") \/ Turn(qd.trying, "err")
    /\ \/ Called(0) /\ UNCHANGED <<listVars, qd>>
       \/ \E sock \in TryNext :
             /\ Called(0)
             /\ IF sock = NoSock THEN DelFd(qd.trying) ELSE ReplaceFd(qd.trying, sock)
             /\ qd' = [qd EXCEPT !.trying = sock, !.destroyed = (sock = NoSock)]
       \/ \E queued \in BOOLEAN :
             /\ Called(IF queued THEN 0 ELSE -1)
             /\ ReplaceFd(qd.trying, qd.trying)
             /\ qd' = [qd EXCEPT !.socket = qd.trying, !.trying = NoSock, !.destroyed = TRUE,
                                 !.queued = queued]
    /\ UNCHANGED <<running, work>>
    /\ QdUnchanged

(* socket_read_cb, socket_write_cb, socket_err_cb                           *)
QdSocket ==
    /\ daemon = "qdevice" /\ qd.socket # NoSock
    /\ \/ PartOfMessage(qd.socket)
       \/ /\ Turn(qd.socket, "read") /\ Called(0)
          /\ work > 0 /\ work' = work - 1
          /\ qd' = [qd EXCEPT !.queued = TRUE]
       \/ /\ Turn(qd.socket, "write") /\ Called(0)
          /\ qd' = [qd EXCEPT !.queued = FALSE]
          /\ UNCHANGED work
       \/ /\ \E st \in Stages : Turn(qd.socket, st)
          /\ Called(-1)
          /\ qd' = [qd EXCEPT !.scheduled = TRUE]
          /\ UNCHANGED work
    /\ UNCHANGED <<listVars, running>>
    /\ QdUnchanged

(* The connect timer, and later the timer that gives up a silent server.    *)
QdTimers ==
    /\ daemon = "qdevice"
    /\ Expired
    /\ \/ UNCHANGED qd
       \/ qd' = [qd EXCEPT !.scheduled = TRUE]
    /\ UNCHANGED <<listVars, running, work>>
    /\ QdUnchanged

(* A variant that does not take the socket out of the loop.                 *)
SocketStaysInLoop == UNCHANGED listVars

(* qdevice_net_socket_del_from_main_poll_loop                               *)
DelFromMainPollLoop ==
    IF ~qd.destroyed THEN DelFd(qd.trying)
    ELSE IF qd.socket # NoSock THEN DelFd(qd.socket)
    ELSE UNCHANGED listVars

(* qdevice_model_net_post_poll_loop: ends when the worker, corosync or the  *)
(* local socket is gone; else the reason of a scheduled disconnect decides  *)
(* whether to reconnect, and without a reason there is no reconnect.        *)
QdPostPollLoop ==
    /\ daemon = "qdevice" /\ running = "loop"
    /\ phase = "out" /\ result = -1
    /\ DelFromMainPollLoop
    /\ qd' = [NewQd EXCEPT !.sync = qd.sync, !.heurcmd = qd.heurcmd, !.closed = qd.closed]
    /\ \/ running' = "destroy"
       \/ qd.closed = "no" /\ ipc_open /\ qd.scheduled /\ running' = "connect"
    /\ UNCHANGED <<controlVars, work>>
    /\ QdUnchanged

(* PR_Poll failed: qdevice_run_main_loop returns without the model's part.  *)
QdPollFailed ==
    /\ daemon = "qdevice" /\ running = "loop"
    /\ phase = "out" /\ result = -3
    /\ running' = "destroy"
    /\ UNCHANGED <<loopVars, work, qd>>
    /\ QdUnchanged

(* The end of main: the local socket, and the loop with its entries.        *)
QdDestroy ==
    /\ daemon = "qdevice" /\ running = "destroy"
    /\ running' = "ended"
    /\ IpcDestroy
    /\ fd_list' = <<>>
    /\ UNCHANGED <<freed, controlVars, made, daemon, netVars, work, qd>>

-----------------------------------------------------------------------------
(* PR_Poll                                                                 *)

(* The stages that requested events may be reported as.                     *)
Readable(events, b) == IF b /\ "in" \in events THEN {"read"} ELSE {}
Writable(events)    == IF "out" \in events THEN {"write"} ELSE {}

(* The sets of flags that PR_Poll may report for a descriptor.  A closed    *)
(* one is reported as invalid; a tool that is gone leaves its socket ready, *)
(* with or without an error.  The rest of the world may do anything.        *)
FlagsOf(fd, events) ==
    CASE fd = "ipc" -> {IF ~ipc_open THEN {"err"} ELSE Readable(events, pending > 0)}
      [] fd \in Slots ->
            IF peer[fd].there
            THEN {Readable(events, peer[fd].unread # "none") \cup Writable(events)}
            ELSE {Readable(events, TRUE) \cup Writable(events) \cup {"err"}, {"err"}}
      [] fd = "server" -> {{}, {"read"}, {"err"}}
      [] OTHER -> {f \in SUBSET Stages : /\ "read" \in f => "in" \in events
                                         /\ "write" \in f => "out" \in events}

(* A timer is scheduled: PR_Poll has a timeout.  qdevice always has the     *)
(* timer of its vote, qnetd one for each client.                            *)
TimerScheduled == daemon = "qdevice" \/ Clients # {}

(* The flags that may be reported for the i-th item of the array.           *)
FlagsAt(i) == FlagsOf(poll_array[i].entry, poll_array[i].events)

(* Some items are ready, with at most MaxReady of the rest of the world, or *)
(* the timeout has passed.                                                  *)
PollReturns ==
    /\ phase = "poll"
    /\ \E ready \in SUBSET DOMAIN poll_array :
          /\ Cardinality({i \in ready : poll_array[i].entry \notin {"ipc"} \cup Slots}) <= MaxReady
          /\ TimerScheduled \/ ready # {}
          /\ \A i \in DOMAIN poll_array \ ready : {} \in FlagsAt(i)
          /\ \E f \in [ready -> UNION {FlagsAt(i) : i \in ready}] :
                /\ \A i \in ready : f[i] \in FlagsAt(i) \ {{}}
                /\ Poll([i \in DOMAIN poll_array |-> IF i \in ready THEN f[i] ELSE {}])
    /\ UNCHANGED <<listVars, ipcVars, daemon, running, netVars, work, qd>>

(* The steps of the loop itself that call no callback, and those that fail. *)
LoopStep ==
    /\ FillEnd \/ FillFails \/ PollError
    /\ UNCHANGED <<listVars, ipcVars, daemon, running, netVars, work, qd>>

-----------------------------------------------------------------------------
QnetdStep ==
    \/ ServerSocketEvents \/ ServerSocketErr \/ NetAccept \/ QnetdExec \/ PrePollClient \/ PrePollEnd \/ QnetdTimers \/ QnetdEnd
    \/ \E n \in NetClients : NetSocketEvents(n) \/ NetSocketRead(n)
                               \/ NetSocketWrite(n) \/ NetSocketErr(n)
    \/ \E c \in Slots : QnetdIpcIoRead(c)

QdeviceStep ==
    \/ QdPrePollLoop \/ QdExec \/ QdPrePoll \/ QdSetEvents \/ QdHeuristics \/ QdCorosync
    \/ NonBlockingClientWrite \/ QdSocket \/ QdTimers \/ QdPostPollLoop \/ QdPollFailed \/ QdDestroy
    \/ \E c \in Slots : QdeviceIpcIoRead(c)

(* What the running daemon does, each step in the order its code gives.     *)
DaemonStep ==
    \/ IpcSocketEvents \/ IpcAccept \/ IpcAcceptFails \/ IpcSocketErr
    \/ \E c \in Slots : ClientSocketEvents(c) \/ ClientSocketWrite(c) \/ ClientSocketErr(c)
    \/ PollReturns \/ LoopStep
    \/ QnetdStep \/ QdeviceStep

Environment == Signal \/ Tools

Ended == running = "ended" /\ UNCHANGED vars

Next == DaemonStep \/ Environment \/ Ended

(* The daemon is one process that the system schedules.                     *)
Spec == Init /\ [][Next]_vars /\ WF_vars(DaemonStep)

-----------------------------------------------------------------------------
TypeOK ==
    /\ LoopTypeOK
    /\ IpcTypeOK
    /\ daemon \in Daemons
    /\ running \in {"connect", "loop", "destroy", "ended"}
    /\ \A n \in NetClients : net[n].out \in 0..MaxOut
    /\ IsInjective(clients) /\ Range(clients) \subseteq NetClients
    /\ qd.trying \in NetSocks \cup {NoSock} /\ qd.socket \in NetSocks \cup {NoSock}

(* While the daemon runs the loop has exactly the descriptors that are      *)
(* open: the fixed ones, one per connected tool, one per client, and the    *)
(* socket to the server that is being connected or used.  A descriptor that *)
(* was closed but not taken out would be polled under its reused number.    *)
(* The poll array is large enough for them (TypeOK).                        *)
LoopHasOpenDescriptors ==
    /\ TypeOK
    /\ running # "ended" =>
        Registered = Range(FixedFds(daemon)) \cup Connected
                       \cup IF daemon = "qnetd" THEN Clients
                            ELSE (IF qd.destroyed THEN {} ELSE {qd.trying})
                                   \cup ({qd.socket} \ {NoSock})

Polled(fd, event) ==
    \E i \in DOMAIN poll_array : /\ poll_array[i].entry = fd
                                 /\ event \in poll_array[i].events

(* Nothing that waits to be sent sleeps through PR_Poll: not a vote that a  *)
(* disconnect of another client caused (the reason for the pre-poll         *)
(* callback, qnetd-instance.c:51), not a reply to a tool, not a message to  *)
(* the server, not a command to the heuristics worker.  And no tool is      *)
(* forgotten, which would use up a place of ipc_max_clients for ever: it is *)
(* about to be freed, or there is an event that the daemon waits for.       *)
QueuedIsPolled ==
    phase = "poll" =>
        /\ \A n \in Clients : net[n].out > 0 /\ ~net[n].scheduled => Polled(n, "out")
        /\ \A c \in Connected : ipc_list[c].writing /\ ~ipc_list[c].scheduled => Polled(c, "out")
        /\ \A c \in Connected : \/ ipc_list[c].scheduled
                                \/ Polled(c, "in") # Polled(c, "out")
        /\ qd.queued /\ qd.socket # NoSock => Polled(qd.socket, "out")
        /\ qd.heurcmd => Polled("heursend", "out")

(* A tool that sent its line, and waits, gets a reply or is disconnected.   *)
LineIsAnswered ==
    \A c \in Slots : peer[c].there /\ peer[c].sent
                       ~> peer[c].answered \/ ~peer[c].there

(* Once the local socket is closed, by a signal or after a shutdown         *)
(* command, the daemon ends.                                                *)
ClosedSocketEndsDaemon == ~ipc_open ~> running = "ended"
=============================================================================
