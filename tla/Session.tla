--------------------------------- MODULE Session ---------------------------------
(***************************************************************************)
(* The sessions of devices with qnetd: how they are opened (preinit,       *)
(* starttls, init), admitted to a cluster, kept alive by echo requests,    *)
(* given up by either side when the other one is silent, and opened again. *)
(*                                                                         *)
(* Time passes in ticks; a timer is the number of ticks it has left.       *)
(* Messages of a connection arrive in order and within some ticks,         *)
(* unless the connection is cut, which neither side is told.               *)
(*                                                                         *)
(* Heuristics are disabled here, so that their result is there at once,    *)
(* and votes are left to QnetdFfsplit.                                     *)
(***************************************************************************)
EXTENDS Integers, Sequences, FiniteSets, SequencesExt

CONSTANTS
    Devices,          \* the node ids
    ClusterOf,        \* the cluster name of each device
    Setups,           \* what is configured and what may happen, see below
    Configs,          \* tie-breaker and algorithm, in the versions of the configuration
    Slots,            \* numbers: places for connections
    MaxClients,       \* max_clients of qnetd
    Heartbeat,        \* heartbeat interval of the devices
    HeartbeatMax,     \* QNETD_DEFAULT_HEARTBEAT_INTERVAL_MAX
    DpdCoefficient,   \* dpd_interval_coefficient
    ConnectTimeout,   \* connect_timeout of the devices
    MaxSleep,         \* longest delay before a device connects again
    EchoWidth         \* the numbers of echo requests wrap here

(* A setup: TLS of the server (server, certRequired, valid: the clusters    *)
(* with a certificate) and of the devices (device), and as bounds: the      *)
(* devices that take part (on), the ticks a message is on its way           *)
(* (maxDelay), and the number of cuts, crashes and restarts (maxFaults).    *)
(* A heartbeat and its answer fit in the intervals after which the peers    *)
(* give up, and a connect and two exchanges in the connect timeout.         *)
TlsModes == {"unsupported", "supported", "required"}

ASSUME SessionAssumption ==
    /\ Devices \subseteq Nat /\ Slots \subseteq Nat \ {0}
    /\ 1 \in DOMAIN Configs /\ DOMAIN Configs \subseteq Nat
    /\ \A v \in DOMAIN Configs :
          Configs[v] = [tieBreaker |-> Configs[v].tieBreaker, algorithm |-> Configs[v].algorithm]
    /\ {Heartbeat, HeartbeatMax, DpdCoefficient, ConnectTimeout, MaxSleep} \subseteq Nat \ {0}
    /\ EchoWidth \in Nat \ {0, 1}
    /\ \A u \in Setups :
          /\ u.server \in TlsModes /\ u.device \in [Devices -> TlsModes]
          /\ u.certRequired \in BOOLEAN
          /\ u.on \subseteq Devices /\ u.maxDelay \in Nat /\ u.maxFaults \in Nat
          /\ 2 * u.maxDelay < Heartbeat /\ 5 * u.maxDelay < ConnectTimeout
          /\ 2 * u.maxDelay + Heartbeat < DpdCoefficient * Heartbeat

VARIABLES
    setup,      \* the setup, one of Setups
    dev,        \* qdevice_net_instance of each device
    config,     \* what each device has as tie-breaker and algorithm
    slot,       \* the connections: both directions, the link, and qnetd's client
    clusters,   \* qnetd's list of clusters: the slots of their clients
    reach,      \* whether the server can be reached from each device
    faults      \* faults still to come

vars == <<setup, dev, config, slot, clusters, reach, faults>>

Off      == -1      \* a timer that is not scheduled
NoSlot   == 0
(* qnetd_client_init, qnetd_client_dpd_timer_init                           *)
NewClient ==
    [exists |-> TRUE, preinit |-> FALSE, tls |-> FALSE, verified |-> FALSE, init |-> FALSE,
     node |-> 0, config |-> 0, cluster |-> "", interval |-> DpdCoefficient * HeartbeatMax,
     dpd |-> DpdCoefficient * HeartbeatMax, disconnect |-> "none"]

NoClient == [NewClient EXCEPT !.exists = FALSE]
FreeSlot == [link |-> "free", up |-> <<>>, down |-> <<>>, client |-> NoClient]

(* qdevice_net_instance_clean and qdevice_model_net_pre_poll_loop.          *)
NewDev ==
    [conn |-> NoSlot, state |-> "waiting_connect", tls |-> FALSE, seq |-> 1,
     connect |-> ConnectTimeout, echo |-> Off, expected |-> 0, received |-> 0,
     disconnect |-> "none", sleep |-> Off]

Init ==
    /\ setup \in Setups
    /\ dev = [d \in Devices |-> IF d \in setup.on THEN NewDev
                               ELSE [NewDev EXCEPT !.state = "stopped", !.connect = Off]]
    /\ config = [d \in Devices |-> 1]
    /\ slot = [s \in Slots |-> FreeSlot]
    /\ clusters = [n \in {} |-> <<>>]
    /\ reach = [d \in Devices |-> TRUE]
    /\ faults = setup.maxFaults

-----------------------------------------------------------------------------
(* Messages                                                                *)

(* opt are the options of a message beyond those that all of them have.     *)
Msg(type, seq, tls, opt) == [type |-> type, seq |-> seq, tls |-> tls, opt |-> opt, age |-> 0]

(* What is sent on a link that is not up is lost.                           *)
SentUp(sl, msgs)   == IF sl.link = "up" THEN [sl EXCEPT !.up = @ \o msgs] ELSE sl
SentDown(sl, msg) == IF sl.link = "up" THEN [sl EXCEPT !.down = Append(@, msg)] ELSE sl

(* The other side of a link that was up learns that it is closed when it    *)
(* has read what was sent before; it is free when both sides are gone.      *)
Closed(sl, by) == [sl EXCEPT !.link = IF @ = "up" THEN by ELSE @]
Cleared(sl, used) == IF ~used /\ ~sl.client.exists THEN FreeSlot ELSE sl

Clients == {s \in Slots : slot[s].client.exists}

-----------------------------------------------------------------------------
(* qnetd                                                                   *)

(* qnetd_client_msg_received_check_tls                                      *)
CheckTls(c) ==
    LET cert == setup.certRequired /\ ~c.verified
        check == CASE setup.server = "unsupported" -> FALSE
                   [] setup.server = "supported"   -> c.tls /\ cert
                   [] setup.server = "required"    -> cert
    IN  CASE setup.server = "required" /\ ~c.tls -> "error"
          [] ~(setup.server = "required" /\ ~c.tls) /\ check -> "certificate"
          [] OTHER -> "ok"

(* qnetd_cluster_list_find_by_name                                          *)
ClientsOf(name) == IF name \in DOMAIN clusters THEN clusters[name] ELSE <<>>

(* What a new client and one of its cluster do not agree on.                *)
Conflict(c, o) ==
    IF Configs[c.config].tieBreaker # Configs[o.config].tieBreaker THEN "tie_breaker_differs"
    ELSE IF Configs[c.config].algorithm # Configs[o.config].algorithm THEN "algorithm_differs"
    ELSE IF c.node = o.node THEN "duplicate_node_id" ELSE "no_error"

(* qnetd_client_msg_received_init_check_new_client: the first client that   *)
(* the new one does not go with decides.                                    *)
CheckNewClient(c, name) ==
    LET others == ClientsOf(name)
        bad    == {i \in DOMAIN others : Conflict(c, slot[others[i]].client) # "no_error"}
    IN  IF bad = {} THEN "no_error" ELSE Conflict(c, slot[others[Min(bad)]].client)

(* qnetd_cluster_list_add_client: before the first with a greater node id.  *)
AddClient(name, s, node) ==
    LET list    == ClientsOf(name)
        greater == {i \in DOMAIN list : slot[list[i]].client.node > node}
        at      == IF greater = {} THEN Len(list) + 1 ELSE Min(greater)
    IN  [n \in DOMAIN clusters \cup {name} |->
            IF n = name THEN InsertAt(list, at, s) ELSE clusters[n]]

Without(list, s) == RemoveAt(list, CHOOSE i \in DOMAIN list : list[i] = s)

(* A variant that keeps a cluster without clients.                          *)
DelClientOnly(name, s) == [clusters EXCEPT ![name] = Without(@, s)]

(* qnetd_cluster_list_del_client                                            *)
DelClient(name, s) ==
    LET list == Without(clusters[name], s)
    IN  [n \in {m \in DOMAIN clusters : m # name \/ list # <<>>} |->
            IF n = name THEN list ELSE clusters[n]]

(* A variant that takes the timer from its list to change its interval, and *)
(* does not put it back.                                                    *)
UpdateIntervalOnly(c, heartbeat) == [c EXCEPT !.interval = DpdCoefficient * heartbeat, !.dpd = Off]

(* qnetd_client_dpd_timer_update_interval                                   *)
UpdateInterval(c, heartbeat) ==
    IF c.dpd = Off THEN c
    ELSE [c EXCEPT !.interval = DpdCoefficient * heartbeat, !.dpd = DpdCoefficient * heartbeat]

(* A variant that restarts the timer for some messages only.                *)
DpdRescheduleUnlessEcho(c, m) ==
    IF c.dpd = Off \/ m.type = "echo_request" THEN c ELSE [c EXCEPT !.dpd = c.interval]

(* qnetd_client_dpd_timer_reschedule, for every message.                    *)
DpdReschedule(c, m) == IF c.dpd = Off THEN c ELSE [c EXCEPT !.dpd = c.interval]

(* The message at the head of what the device has sent is handled: the      *)
(* client becomes c, and a reply may be sent.                               *)
Taken(s)          == [slot[s] EXCEPT !.up = Tail(@)]
Answer(s, c, msg) == slot' = [slot EXCEPT ![s] = SentDown([Taken(s) EXCEPT !.client = c], msg)]
NoAnswer(s, c)    == slot' = [slot EXCEPT ![s] = [Taken(s) EXCEPT !.client = c]]
ServerError(s, c, m) == Answer(s, c, Msg("server_error", m.seq, c.tls, "none"))

(* qnetd_client_msg_received_preinit                                        *)
Preinit(s, c, m) ==
    /\ m.type = "preinit"
    /\ Answer(s, [c EXCEPT !.preinit = TRUE, !.cluster = m.opt],
              Msg("preinit_reply", m.seq, c.tls, setup.server))
    /\ UNCHANGED clusters

(* qnetd_client_msg_received_starttls                                       *)
Starttls(s, c, m) ==
    /\ m.type = "starttls"
    /\ IF ~c.preinit THEN ServerError(s, c, m)
       ELSE NoAnswer(s, [c EXCEPT !.tls = TRUE, !.verified = FALSE])
    /\ UNCHANGED clusters

(* qnetd_client_msg_received_init: the reply tells an error, and a client   *)
(* that has one is not in its cluster.                                      *)
InitMsg(s, c, m) ==
    LET c1    == UpdateInterval([c EXCEPT !.node = m.opt.node, !.config = m.opt.config], Heartbeat)
        error == IF ~c.preinit THEN "preinit_required" ELSE CheckNewClient(c1, c.cluster)
    IN  /\ Answer(s, [c1 EXCEPT !.init = @ \/ error = "no_error"],
                  Msg("init_reply", m.seq, c.tls, error))
        /\ clusters' = IF error = "no_error" THEN AddClient(c.cluster, s, m.opt.node) ELSE clusters

(* qnetd_client_msg_received_set_option and .._echo_request                 *)
SetOption(s, c, m) ==
    /\ IF ~c.init THEN ServerError(s, c, m)
       ELSE Answer(s, c, Msg("set_option_reply", m.seq, c.tls, "none"))
    /\ UNCHANGED clusters

EchoRequest(s, c, m) ==
    /\ IF ~c.init THEN ServerError(s, c, m)
       ELSE Answer(s, c, Msg("echo_reply", m.seq, c.tls, "none"))
    /\ UNCHANGED clusters

(* The handlers of messages that need TLS where it is required: a valid     *)
(* certificate is looked for once.                                          *)
Checked(s, c, m) ==
    LET check == CheckTls(c)
        valid == c.cluster \in setup.valid
        c1    == IF check = "certificate" THEN [c EXCEPT !.verified = TRUE] ELSE c
    IN  /\ m.type \in {"init", "set_option", "echo_request"}
        /\ \/ check = "error" /\ ServerError(s, c, m) /\ UNCHANGED clusters
           \/ /\ check = "certificate" /\ ~valid
              /\ NoAnswer(s, [c EXCEPT !.disconnect = "certificate"])
              /\ UNCHANGED clusters
           \/ /\ check = "ok" \/ (check = "certificate" /\ valid)
              /\ \/ m.type = "init" /\ InitMsg(s, c1, m)
                 \/ m.type = "set_option" /\ SetOption(s, c1, m)
                 \/ m.type = "echo_request" /\ EchoRequest(s, c1, m)

Serving(s) == slot[s].client.exists /\ slot[s].client.disconnect = "none"

(* qnetd_client_net_read and qnetd_client_msg_received                      *)
ServerRead(s) ==
    /\ Serving(s) /\ slot[s].up # <<>>
    /\ LET m == Head(slot[s].up)
           c == DpdReschedule(slot[s].client, m)
       IN  Preinit(s, c, m) \/ Starttls(s, c, m) \/ Checked(s, c, m)
    /\ UNCHANGED <<setup, dev, config, reach, faults>>

(* The client closed the connection.                                        *)
ServerEof(s) ==
    /\ Serving(s) /\ slot[s].up = <<>> /\ slot[s].link = "device_closed"
    /\ slot' = [slot EXCEPT ![s].client.disconnect = "closed"]
    /\ UNCHANGED <<setup, dev, config, clusters, reach, faults>>

(* qnetd_dpd_timer_cb                                                       *)
DpdTimer(s) ==
    /\ slot[s].client.exists /\ slot[s].client.dpd = 0
    /\ slot' = [slot EXCEPT ![s].client.dpd = Off,
                            ![s].client.disconnect = IF @ = "none" THEN "dpd" ELSE @]
    /\ UNCHANGED <<setup, dev, config, clusters, reach, faults>>

Uses(s) == \E d \in Devices : dev[d].conn = s

(* qnetd_instance_client_disconnect, before the next poll.                  *)
ClientDisconnect(s) ==
    /\ slot[s].client.exists /\ slot[s].client.disconnect # "none"
    /\ slot' = [slot EXCEPT ![s] = Cleared([Closed(@, "server_closed") EXCEPT !.client = NoClient,
                                                                             !.up = <<>>], Uses(s))]
    /\ clusters' = IF slot[s].client.init THEN DelClient(slot[s].client.cluster, s) ELSE clusters
    /\ UNCHANGED <<setup, dev, config, reach, faults>>

-----------------------------------------------------------------------------
(* The device                                                              *)

Awake(d) == dev[d].sleep = Off /\ dev[d].state # "stopped"
Alive(d) == Awake(d) /\ dev[d].disconnect = "none"
Scheduled(v, reason) == [v EXCEPT !.disconnect = reason]

(* non_blocking_client_socket_write_cb after a connect that succeeded, and  *)
(* qnetd_client_net_accept, which closes the connection when there are too  *)
(* many clients.                                                            *)
Connect(d, s) ==
    LET full    == Cardinality(Clients) >= MaxClients
        preinit == Msg("preinit", 1, FALSE, ClusterOf[d])
    IN  /\ Alive(d) /\ dev[d].state = "waiting_connect" /\ reach[d]
        /\ slot[s].link = "free" /\ \A o \in Slots : slot[o].link = "free" => s <= o
        /\ dev' = [dev EXCEPT ![d].conn = s, ![d].state = "waiting_preinit_reply", ![d].seq = 1]
        /\ slot' = [slot EXCEPT ![s] =
                      IF full THEN [FreeSlot EXCEPT !.link = "server_closed"]
                      ELSE [link |-> "up", up |-> <<preinit>>, down |-> <<>>, client |-> NewClient]]
        /\ UNCHANGED <<setup, config, clusters, reach, faults>>

(* A variant that goes on in the clear whenever the server can.             *)
TlsIfServerRequires(server, client) ==
    CASE server = "required" /\ client = "unsupported" -> -1
      [] server = "required" /\ client # "unsupported" -> 1
      [] OTHER -> 0

(* qdevice_net_msg_received_check_tls_compatibility                         *)
TlsCompatibility(server, client) ==
    CASE "required" \in {server, client} /\ "unsupported" \in {server, client} -> -1
      [] "required" \notin {server, client} /\ "unsupported" \in {server, client} -> 0
      [] "unsupported" \notin {server, client} -> 1

(* qdevice_net_send_init, from an instance that has the number of its last  *)
(* message.                                                                 *)
InitOf(d, v) ==
    Msg("init", v.seq, v.tls, [node |-> d, config |-> config[d]])

(* A message is read: the device becomes v and sends msgs.                  *)
ReadOf(sl) == [sl EXCEPT !.down = Tail(@)]
Become(d, v, msgs) ==
    /\ dev' = [dev EXCEPT ![d] = v]
    /\ slot' = [slot EXCEPT ![dev[d].conn] = SentUp(ReadOf(@), msgs)]

NextSeq(v) == [v EXCEPT !.seq = @ + 1]

(* qdevice_net_msg_received_preinit_reply                                   *)
PreinitReply(d, m) ==
    LET v   == NextSeq(dev[d])
        tls == TlsCompatibility(m.opt, setup.device[d])
    IN  /\ m.type = "preinit_reply"
        /\ CASE dev[d].state # "waiting_preinit_reply" ->
                  Become(d, Scheduled(dev[d], "unexpected_msg"), <<>>)
             [] dev[d].state = "waiting_preinit_reply" /\ tls = -1 ->
                  Become(d, Scheduled(dev[d], "incompatible_tls"), <<>>)
             [] dev[d].state = "waiting_preinit_reply" /\ tls = 1 ->
                  Become(d, [v EXCEPT !.state = "waiting_starttls_being_sent"], <<>>)
             [] dev[d].state = "waiting_preinit_reply" /\ tls = 0 ->
                  Become(d, [v EXCEPT !.state = "waiting_init_reply"], <<InitOf(d, v)>>)

(* A variant that switches to TLS only for what comes after the init.       *)
StarttlsSentLate(d) ==
    LET v == NextSeq(dev[d])
        t == [v EXCEPT !.state = "waiting_init_reply", !.tls = TRUE]
    IN  /\ Alive(d) /\ dev[d].state = "waiting_starttls_being_sent"
        /\ dev' = [dev EXCEPT ![d] = t]
        /\ slot' = [slot EXCEPT ![dev[d].conn] =
                      SentUp(@, <<Msg("starttls", dev[d].seq, FALSE, "none"), InitOf(d, v)>>)]
        /\ UNCHANGED <<setup, config, clusters, reach, faults>>

(* qdevice_net_socket_write_finished: the starttls was sent, what follows   *)
(* is in TLS.                                                               *)
StarttlsSent(d) ==
    LET v == [NextSeq(dev[d]) EXCEPT !.state = "waiting_init_reply", !.tls = TRUE]
    IN  /\ Alive(d) /\ dev[d].state = "waiting_starttls_being_sent"
        /\ dev' = [dev EXCEPT ![d] = v]
        /\ slot' = [slot EXCEPT ![dev[d].conn] =
                      SentUp(@, <<Msg("starttls", dev[d].seq, FALSE, "none"), InitOf(d, v)>>)]
        /\ UNCHANGED <<setup, config, clusters, reach, faults>>

(* qdevice_net_msg_received_init_reply, with the after-connect heuristics   *)
(* that are disabled.                                                       *)
InitReply(d, m) ==
    LET v == [NextSeq(dev[d]) EXCEPT !.connect = Off, !.echo = Heartbeat,
                    !.expected = 0, !.received = 0, !.state = "connected"]
    IN  /\ m.type = "init_reply"
        /\ CASE dev[d].state # "waiting_init_reply" ->
                  Become(d, Scheduled(dev[d], "unexpected_msg"), <<>>)
             [] dev[d].state = "waiting_init_reply" /\ m.seq # dev[d].seq ->
                  Become(d, Scheduled(dev[d], "required_option_missing"), <<>>)
             [] dev[d].state = "waiting_init_reply" /\ m.seq = dev[d].seq /\ m.opt # "no_error" ->
                  Become(d, Scheduled(dev[d], m.opt), <<>>)
             [] dev[d].state = "waiting_init_reply" /\ m.seq = dev[d].seq /\ m.opt = "no_error" ->
                  Become(d, v, <<Msg("set_option", v.seq, v.tls, "none")>>)

(* qdevice_net_msg_received_server_error                                    *)
ServerErrorReceived(d, m) ==
    m.type = "server_error" /\ Become(d, Scheduled(dev[d], "server_sent_error"), <<>>)

(* qdevice_net_msg_received_set_option_reply: it has no heartbeat interval. *)
SetOptionReply(d, m) ==
    /\ m.type = "set_option_reply"
    /\ Become(d, IF dev[d].state = "connected" THEN dev[d]
                 ELSE Scheduled(dev[d], "unexpected_msg"), <<>>)

(* qdevice_net_msg_received_echo_reply, with the algorithm's answer to a    *)
(* number that it does not expect.                                          *)
EchoReply(d, m) ==
    /\ m.type = "echo_reply"
    /\ Become(d, IF m.seq = dev[d].expected THEN [dev[d] EXCEPT !.received = m.seq]
                 ELSE Scheduled(dev[d], "algo_echo_reply_received"), <<>>)

(* qdevice_net_socket_read                                                  *)
DeviceRead(d) ==
    /\ Alive(d) /\ dev[d].conn # NoSlot /\ slot[dev[d].conn].down # <<>>
    /\ LET m == Head(slot[dev[d].conn].down)
       IN  \/ PreinitReply(d, m) \/ InitReply(d, m) \/ ServerErrorReceived(d, m)
           \/ SetOptionReply(d, m) \/ EchoReply(d, m)
    /\ UNCHANGED <<setup, config, clusters, reach, faults>>

DeviceEof(d) ==
    /\ Alive(d) /\ dev[d].conn # NoSlot
    /\ slot[dev[d].conn].down = <<>> /\ slot[dev[d].conn].link = "server_closed"
    /\ dev' = [dev EXCEPT ![d] = Scheduled(@, "server_closed_connection")]
    /\ UNCHANGED <<setup, config, slot, clusters, reach, faults>>

(* qdevice_net_echo_request_timer_callback: the reply to the last request   *)
(* is missing, or the next one is sent.                                     *)
EchoTimer(d) ==
    LET n == (dev[d].expected + 1) % EchoWidth
    IN  /\ Awake(d) /\ dev[d].echo = 0
        /\ IF dev[d].received # dev[d].expected
           THEN /\ dev' = [dev EXCEPT ![d] = [Scheduled(@, "algo_echo_reply_not_received")
                                              EXCEPT !.echo = Off]]
                /\ UNCHANGED slot
           ELSE /\ dev' = [dev EXCEPT ![d].expected = n, ![d].echo = Heartbeat]
                /\ slot' = [slot EXCEPT ![dev[d].conn] =
                              SentUp(@, <<Msg("echo_request", n, dev[d].tls, "none")>>)]
        /\ UNCHANGED <<setup, config, clusters, reach, faults>>

(* qdevice_model_net_timer_connect_timeout                                  *)
ConnectTimer(d) ==
    /\ Awake(d) /\ dev[d].connect = 0
    /\ dev' = [dev EXCEPT ![d] = [Scheduled(@, "cant_connect_to_the_server") EXCEPT !.connect = Off]]
    /\ UNCHANGED <<setup, config, slot, clusters, reach, faults>>

(* qdevice_net_disconnect_reason_try_reconnect                              *)
TryReconnect(reason) ==
    reason \in {"server_closed_connection", "cant_connect_to_the_server",
                "algo_echo_reply_not_received", "duplicate_node_id", "tie_breaker_differs",
                "algorithm_differs"}

(* The timers are deleted and the instance is cleaned.                      *)
Clean == [NewDev EXCEPT !.connect = Off]

(* qdevice_model_net_post_poll_loop: the connection is closed, and the      *)
(* device ends, sleeps before it connects again (a moment at least) or, if  *)
(* it was not connected, tries at once.                                     *)
PostPollLoop(d) ==
    /\ Awake(d) /\ dev[d].disconnect # "none"
    /\ IF ~TryReconnect(dev[d].disconnect)
       THEN dev' = [dev EXCEPT ![d] = [Clean EXCEPT !.state = "stopped"]]
       ELSE IF dev[d].state = "waiting_connect" THEN dev' = [dev EXCEPT ![d] = NewDev]
       ELSE \E n \in 1..MaxSleep : dev' = [dev EXCEPT ![d] = [Clean EXCEPT !.sleep = n]]
    /\ slot' = [s \in Slots |->
                  IF s # dev[d].conn THEN slot[s]
                  ELSE Cleared([Closed(slot[s], "device_closed") EXCEPT !.down = <<>>], FALSE)]
    /\ UNCHANGED <<setup, config, clusters, reach, faults>>

(* qdevice_model_net_pre_poll_loop                                          *)
Wake(d) ==
    /\ dev[d].sleep = 0
    /\ dev' = [dev EXCEPT ![d] = NewDev]
    /\ UNCHANGED <<setup, config, slot, clusters, reach, faults>>

-----------------------------------------------------------------------------
(* Time and faults                                                         *)

Timers(v)     == {v.connect, v.echo, v.sleep}
Less(t)       == IF t = Off THEN Off ELSE t - 1
Older(msgs)   == [i \in DOMAIN msgs |-> [msgs[i] EXCEPT !.age = @ + 1]]
Waited(c)     == IF c.exists THEN [c EXCEPT !.dpd = Less(@)] ELSE c
InTime(msgs)  == \A i \in DOMAIN msgs : msgs[i].age < setup.maxDelay

(* Timers are served, disconnects are done, closed connections are seen and *)
(* messages arrive in time; so does a connect when the server is reachable. *)
Tick ==
    /\ \A d \in Devices :
          /\ 0 \notin Timers(dev[d]) /\ dev[d].disconnect = "none"
          /\ dev[d].state # "waiting_starttls_being_sent"
          /\ Awake(d) /\ dev[d].state = "waiting_connect" /\ reach[d] =>
                dev[d].connect > ConnectTimeout - setup.maxDelay
    /\ \A s \in Slots : slot[s].link \notin {"device_closed", "server_closed"}
    /\ \A s \in Slots :
          /\ slot[s].client.exists => slot[s].client.dpd # 0 /\ slot[s].client.disconnect = "none"
          /\ InTime(slot[s].up) /\ InTime(slot[s].down)
    /\ dev' = [d \in Devices |-> [dev[d] EXCEPT !.connect = Less(@), !.echo = Less(@),
                                                !.sleep = Less(@)]]
    /\ slot' = [s \in Slots |->
                  [slot[s] EXCEPT !.up = Older(@), !.down = Older(@), !.client = Waited(@)]]
    /\ UNCHANGED <<setup, config, clusters, reach, faults>>

Fault == faults > 0 /\ faults' = faults - 1

CutOff(sl) == [sl EXCEPT !.link = "cut", !.up = <<>>, !.down = <<>>]

(* Nothing gets through between a device and the server any more, and       *)
(* nobody is told; and it is repaired, but the connection is lost.          *)
Cut(d) ==
    /\ Fault /\ reach[d] /\ d \in setup.on
    /\ reach' = [reach EXCEPT ![d] = FALSE]
    /\ slot' = [s \in Slots |-> IF s = dev[d].conn THEN CutOff(slot[s]) ELSE slot[s]]
    /\ UNCHANGED <<setup, dev, config, clusters>>

Heal(d) ==
    /\ ~reach[d]
    /\ reach' = [reach EXCEPT ![d] = TRUE]
    /\ UNCHANGED <<setup, dev, config, slot, clusters, faults>>

(* The node of a device loses power, or its daemon is restarted, and comes  *)
(* back with this or the next version of the configuration.                 *)
Restart(d, v, crash) ==
    /\ Fault /\ d \in setup.on /\ v \in {config[d], config[d] + 1} \cap DOMAIN Configs
    /\ config' = [config EXCEPT ![d] = v]
    /\ dev' = [dev EXCEPT ![d] = NewDev]
    /\ slot' = [s \in Slots |->
                  IF s # dev[d].conn THEN slot[s]
                  ELSE Cleared(IF crash THEN CutOff(slot[s])
                               ELSE [Closed(slot[s], "device_closed") EXCEPT !.down = <<>>], FALSE)]
    /\ UNCHANGED <<setup, clusters, reach>>

(* qnetd is restarted (qnetd_instance_destroy).                             *)
ServerRestart ==
    /\ Fault
    /\ slot' = [s \in Slots |->
                  Cleared([Closed(slot[s], "server_closed") EXCEPT !.client = NoClient, !.up = <<>>],
                          Uses(s))]
    /\ clusters' = [n \in {} |-> <<>>]
    /\ UNCHANGED <<setup, dev, config, reach>>

-----------------------------------------------------------------------------
Server(s) == ServerRead(s) \/ ServerEof(s) \/ DpdTimer(s) \/ ClientDisconnect(s)
Device(d) ==
    \/ \E s \in Slots : Connect(d, s)
    \/ StarttlsSent(d) \/ DeviceRead(d) \/ DeviceEof(d) \/ EchoTimer(d) \/ ConnectTimer(d)
    \/ PostPollLoop(d) \/ Wake(d)
Next ==
    \/ \E s \in Slots : Server(s)
    \/ \E d \in Devices : Device(d) \/ Cut(d) \/ Heal(d)
    \/ \E d \in Devices, v \in DOMAIN Configs, crash \in BOOLEAN : Restart(d, v, crash)
    \/ ServerRestart
    \/ Tick

(* Both daemons run, time passes, and the network is repaired.              *)
Spec ==
    /\ Init /\ [][Next]_vars
    /\ \A s \in Slots : WF_vars(Server(s))
    /\ \A d \in Devices : WF_vars(Device(d)) /\ WF_vars(Heal(d))
    /\ WF_vars(Tick)

-----------------------------------------------------------------------------
TypeOK ==
    /\ \A d \in Devices :
          /\ dev[d].conn \in Slots \cup {NoSlot}
          /\ Timers(dev[d]) \subseteq Off..(ConnectTimeout + Heartbeat + MaxSleep)
          /\ dev[d].echo # Off => dev[d].state = "connected"
          /\ dev[d].connect # Off => dev[d].state # "connected" /\ dev[d].sleep = Off
    /\ \A s \in Slots : slot[s].link \in {"free", "up", "cut", "device_closed", "server_closed"}

Connected(d) == dev[d].state = "connected" /\ dev[d].disconnect = "none"

(* TLS is used where it must be: an init leaves a device in the clear only  *)
(* when one of the two cannot do TLS and neither insists on it, and who is  *)
(* in a cluster of a server that requires TLS has started it, with a valid  *)
(* certificate if one is required.                                          *)
TlsIsUsed ==
    /\ \A s \in Slots : \A i \in DOMAIN slot[s].up :
          LET m == slot[s].up[i] IN
          m.type \in {"init", "set_option", "echo_request"} /\ ~m.tls =>
             /\ setup.server = "unsupported" \/ \E d \in Devices : setup.device[d] = "unsupported"
             /\ setup.server # "required"
    /\ \A s \in Clients : slot[s].client.init /\ setup.server = "required" =>
          slot[s].client.tls /\ (setup.certRequired => slot[s].client.verified)

(* Both sides switch to TLS at the same place of the stream: a message is   *)
(* read by a peer that expects it in the form in which it was sent.         *)
TlsInStep ==
    /\ \A s \in Slots : Serving(s) /\ slot[s].up # <<>> =>
          Head(slot[s].up).tls = slot[s].client.tls
    /\ \A d \in Devices : Alive(d) /\ dev[d].conn # NoSlot /\ slot[dev[d].conn].down # <<>> =>
          Head(slot[dev[d].conn].down).tls = dev[d].tls

(* The list of clusters is what the clients say: a cluster exists as long   *)
(* as it has clients, each of them is in it once, by node id, and they      *)
(* agree on tie-breaker and algorithm.  The timers are those of the state   *)
(* the session is in (TypeOK).                                              *)
ClustersMatchClients ==
    /\ TypeOK
    /\ \A n \in DOMAIN clusters :
          /\ clusters[n] # <<>>
          /\ \A i \in DOMAIN clusters[n] :
                LET c == slot[clusters[n][i]].client IN
                /\ c.exists /\ c.init /\ c.cluster = n
                /\ \A j \in 1..(i - 1) :
                      LET o == slot[clusters[n][j]].client IN
                      o.node < c.node /\ Configs[o.config] = Configs[c.config]
    /\ \A s \in Clients : slot[s].client.init =>
          \E i \in DOMAIN clusters[slot[s].client.cluster] : clusters[slot[s].client.cluster][i] = s

(* Nobody gives up a peer that is well: the server does so only when the    *)
(* connection is cut or closed or its device has not been admitted, and a   *)
(* device only misses an echo reply when the connection is cut or closed.   *)
HealthyPeersStay ==
    /\ \A s \in Clients : slot[s].client.disconnect = "dpd" =>
          slot[s].link # "up" \/ ~slot[s].client.init
    /\ \A d \in Devices : dev[d].disconnect \in {"algo_echo_reply_not_received",
                                                 "algo_echo_reply_received"} =>
          slot[dev[d].conn].link # "up"

Compatible(d) ==
    /\ TlsCompatibility(setup.server, setup.device[d]) # -1
    /\ TlsCompatibility(setup.server, setup.device[d]) = 1 /\ setup.certRequired =>
          ClusterOf[d] \in setup.valid
    /\ \A e \in setup.on : ClusterOf[e] = ClusterOf[d] => config[e] = config[d]

(* When the faults are over, every device of a cluster with one             *)
(* configuration gets its session, although the server may still have the   *)
(* last one of it, or of the others with the old configuration, or be full: *)
(* the server gets rid of clients it cannot hear, and no device ends for a  *)
(* reason that time would have mended.                                      *)
EventuallyConnected ==
    \A d \in Devices : faults = 0 /\ d \in setup.on /\ Compatible(d) ~> Connected(d)
=============================================================================
