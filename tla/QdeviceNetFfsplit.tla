--------------------------- MODULE QdeviceNetFfsplit ---------------------------
(***************************************************************************)
(* The net model of corosync-qdevice with the ffsplit algorithm, one       *)
(* device per node: its connection to qnetd, the ring id it knows and the  *)
(* one it has reported, the heuristics executions it waits for, and the    *)
(* vote it casts to votequorum.                                            *)
(*                                                                         *)
(* A device is one thread around a poll loop, so an action is one callback *)
(* of that loop: a votequorum or cmap notification, a result of the        *)
(* heuristics worker, a timer, a message of the server, or the end of the  *)
(* loop itself, which closes the connection.                               *)
(***************************************************************************)
EXTENDS QnetProtocol

CONSTANTS
    MaxDeviceBuffers,   \* net_max_send_buffers, 10 by default
    RegularHeuristics,  \* heuristics mode "on": also executed at regular times
    DeviceKeep          \* keep_active_partition_tie_breaker of the nodes

ASSUME DeviceAssumption ==
    /\ MaxDeviceBuffers \in Nat \ {0}
    /\ RegularHeuristics \in BOOLEAN
    /\ DeviceKeep \in KeepOptions

VARIABLE dev   \* the device of each node

DeviceStates == {"WAITING_CONNECT", "WAITING_INIT_REPLY", "READY"}
Votes        == {"ACK", "NACK", "ASK_LATER", "WAIT_FOR_REPLY"}

(* READY is QDEVICE_NET_INSTANCE_STATE_WAITING_VOTEQUORUM_CMAP_EVENTS.      *)
Device ==
    [state    : DeviceStates,
     sched    : BOOLEAN,         \* schedule_disconnect
     ring     : Rings,           \* vq_poll_ring_id and vq_node_list_ring_id
     members  : MemberLists,     \* vq_node_list
     config   : ConfigLists,     \* config_node_list
     sentRing : Rings,           \* last_sent_ring_id
     vote     : Votes,           \* cast_vote_timer_vote; the timer runs for ACK, NACK
     paused   : BOOLEAN,         \* cast_vote_timer_paused
     waiting  : BOOLEAN,         \* waiting_for_result
     active   : SUBSET {"vq", "regular", "connect"},   \* active result notifiers
     timer    : BOOLEAN,         \* regular_heuristics_timer is scheduled
     heur     : HeurResults,     \* latest_heuristics_result
     polled   : [ring : Rings, cast : BOOLEAN],   \* the last votequorum_qdevice_poll
     out      : Seq(ClientMsg)]  \* send_buffer_list

(* The state in which the poll loop starts: the first votequorum list and   *)
(* its heuristics have been waited for, and no vote has been cast.          *)
NewDevice(r, ms, cfg, h) ==
    [state |-> "WAITING_CONNECT", sched |-> FALSE, ring |-> r, members |-> ms,
     config |-> cfg, sentRing |-> r, vote |-> "ASK_LATER", paused |-> FALSE,
     waiting |-> FALSE, active |-> {}, timer |-> RegularHeuristics, heur |-> h,
     polled |-> [ring |-> r, cast |-> FALSE], out |-> <<>>]

-----------------------------------------------------------------------------
(* Steps the callbacks are made of                                         *)

Ready(d)   == d.state = "READY"
OutFull(d) == Len(d.out) >= MaxDeviceBuffers
Send(d, msg) == [d EXCEPT !.out = Append(@, msg)]

(* What a callback sends; without a free buffer the disconnect is scheduled. *)
SendOrSchedule(d, msg) == IF OutFull(d) THEN [d EXCEPT !.sched = TRUE] ELSE Send(d, msg)

MembershipMsg(d, h) ==
    [type |-> "membership_node_list", ring |-> d.ring, nodes |-> d.members, heur |-> h]

(* A variant that does not look at the pause.                               *)
PollAlways(d) == [d EXCEPT !.polled = [ring |-> d.ring, cast |-> d.vote = "ACK"]]

(* qdevice_net_cast_vote_timer_callback: nothing is polled while paused.    *)
Poll(d) ==
    IF d.paused THEN d
    ELSE [d EXCEPT !.polled = [ring |-> d.ring, cast |-> d.vote = "ACK"]]

(* Variants: "no change" is taken for a vote, or a NACK only stops the      *)
(* timer.                                                                   *)
UpdateWithNoChange(d, vote) ==
    IF vote \in {"ACK", "NACK"} THEN Poll([d EXCEPT !.vote = vote])
    ELSE [d EXCEPT !.vote = vote]
UpdateWithoutNack(d, vote) ==
    CASE vote = "NO_CHANGE" -> d
      [] vote = "ACK"       -> Poll([d EXCEPT !.vote = vote])
      [] vote = "NACK"      -> [d EXCEPT !.vote = "ASK_LATER"]
      [] OTHER              -> [d EXCEPT !.vote = vote]

(* qdevice_net_cast_vote_timer_update.                                      *)
CastVoteTimerUpdate(d, vote) ==
    CASE vote = "NO_CHANGE"         -> d
      [] vote \in {"ACK", "NACK"}   -> Poll([d EXCEPT !.vote = vote])
      [] OTHER                      -> [d EXCEPT !.vote = vote]

(* The vote of a notification that comes while there is no connection.      *)
SafeVote(d) == IF ~Ready(d) /\ d.vote = "ACK" THEN "NACK" ELSE "NO_CHANGE"

(* Variants of the end of a loop: the vote is kept, or the pause is.        *)
DisconnectedWithVote(d) ==
    [d EXCEPT !.paused = FALSE, !.state = "WAITING_CONNECT", !.sched = FALSE, !.out = <<>>]
DisconnectedPaused(d) ==
    [CastVoteTimerUpdate(d, "NACK")
        EXCEPT !.state = "WAITING_CONNECT", !.sched = FALSE, !.out = <<>>]

(* qdevice_model_net_post_poll_loop after the loop has ended; the algorithm *)
(* asks for a NACK and the loop starts again.                               *)
Disconnected(d) ==
    [CastVoteTimerUpdate([d EXCEPT !.paused = FALSE], "NACK")
        EXCEPT !.state = "WAITING_CONNECT", !.sched = FALSE, !.out = <<>>]

(***************************************************************************)
(* The callbacks of the heuristics result notifiers.  Each deactivates     *)
(* itself first.                                                           *)
(***************************************************************************)
VqResult(d, h) ==
    LET d0 == [d EXCEPT !.active = @ \ {"vq"}]
        d1 == IF Ready(d)
              THEN CastVoteTimerUpdate(
                       [Send(d0, MembershipMsg(d, h)) EXCEPT !.sentRing = d.ring,
                                                             !.paused = FALSE],
                       "WAIT_FOR_REPLY")
              ELSE CastVoteTimerUpdate([d0 EXCEPT !.paused = FALSE], SafeVote(d0))
    IN  IF Ready(d) /\ OutFull(d)
        THEN [d0 EXCEPT !.sched = TRUE]
        ELSE [d1 EXCEPT !.heur = h, !.timer = RegularHeuristics]

RegularResult(d, h) ==
    LET d0 == [d EXCEPT !.active = @ \ {"regular"}]
        send == h # d.heur /\ Ready(d)
        d1 == IF send THEN Send(d0, [type |-> "heuristics_change", heur |-> h]) ELSE d0
    IN  IF h = "undefined" THEN d0
        ELSE IF send /\ OutFull(d) THEN [d0 EXCEPT !.sched = TRUE]
        ELSE [d1 EXCEPT !.heur = h, !.timer = RegularHeuristics]

(* The connection is set up with four messages.  When the buffers do not    *)
(* suffice the callback returns half way, without scheduling a disconnect.  *)
ConnectResult(d, h) ==
    LET d0   == [d EXCEPT !.active = @ \ {"connect"}]
        msgs == << [type |-> "set_option", keep |-> DeviceKeep],
                   [type |-> "config_node_list", nodes |-> d.config, initial |-> TRUE],
                   MembershipMsg(d, h),
                   [type |-> "quorum_node_list"] >>
        free == MaxDeviceBuffers - Len(d.out)
        sent == SubSeq(msgs, 1, IF free < 4 THEN free ELSE 4)
        d1   == [d0 EXCEPT !.out = @ \o sent,
                           !.sentRing = IF Len(sent) >= 3 THEN d.ring ELSE @]
    IN  IF d.state # "WAITING_INIT_REPLY" THEN d0
        ELSE IF Len(sent) < 4 THEN d1
        ELSE [CastVoteTimerUpdate(d1, "WAIT_FOR_REPLY") EXCEPT !.state = "READY", !.heur = h]

-----------------------------------------------------------------------------
(* Callbacks                                                               *)

(***************************************************************************)
(* votequorum announces a new membership: the cast vote timer is paused    *)
(* until the heuristics started here have finished.                        *)
(***************************************************************************)
NodeListNotify(n, r, ms) ==
    LET d  == dev[n]
        d1 == [d EXCEPT !.ring = r, !.timer = FALSE,
                        !.active = IF d.timer THEN @ \ {"regular"} ELSE @]
        d2 == CastVoteTimerUpdate(d1, SafeVote(d1))
    IN  dev' = [dev EXCEPT ![n] =
                   [d2 EXCEPT !.paused = TRUE, !.members = ms, !.waiting = TRUE,
                              !.active = @ \cup {"vq"}]]

(* A variant that calls only one of the active notifiers.                   *)
FirstNotifierOnly(n, h) ==
    /\ dev[n].waiting
    /\ dev' = [dev EXCEPT ![n] =
          LET d == [dev[n] EXCEPT !.waiting = FALSE]
          IN  IF "connect" \in d.active THEN ConnectResult(d, h)
              ELSE IF "vq" \in d.active THEN VqResult(d, h) ELSE d]

(* The worker's result for the latest execution: the active notifiers are   *)
(* called in the order they were added.                                     *)
HeuristicsResult(n, h) ==
    LET d0 == [dev[n] EXCEPT !.waiting = FALSE]
        d1 == IF "vq" \in d0.active THEN VqResult(d0, h) ELSE d0
        d2 == IF "regular" \in d1.active THEN RegularResult(d1, h) ELSE d1
        d3 == IF "connect" \in d2.active THEN ConnectResult(d2, h) ELSE d2
    IN  /\ dev[n].waiting
        /\ dev' = [dev EXCEPT ![n] = d3]

(* The regular heuristics timer; it is repeated while another execution runs. *)
RegularTimer(n) ==
    /\ dev[n].timer
    /\ ~dev[n].waiting
    /\ dev' = [dev EXCEPT ![n].timer = FALSE, ![n].waiting = TRUE,
                          ![n].active = @ \cup {"regular"}]

CastVoteTimer(n) ==
    /\ dev[n].vote \in {"ACK", "NACK"}
    /\ dev' = [dev EXCEPT ![n] = Poll(@)]

(* The configured node list has changed; ffsplit checks the number of votes *)
(* of every node and gives up the connection when the check fails.          *)
ConfigNodeListChanged(n, nodes, valid) ==
    LET d  == dev[n]
        d1 == IF valid THEN CastVoteTimerUpdate(d, SafeVote(d)) ELSE [d EXCEPT !.sched = TRUE]
        d2 == IF valid /\ Ready(d)
              THEN SendOrSchedule(d1, [type |-> "config_node_list", nodes |-> nodes,
                                       initial |-> FALSE])
              ELSE d1
    IN  /\ nodes # d.config
        /\ dev' = [dev EXCEPT ![n] = [d2 EXCEPT !.config = nodes]]

(* The heuristics configuration was reloaded: the regular timer is started  *)
(* if it does not run.                                                      *)
HeuristicsReloaded(n) ==
    dev' = [dev EXCEPT ![n].timer = RegularHeuristics]

QuorumNotify(n) ==
    LET d  == dev[n]
        d1 == CastVoteTimerUpdate(d, SafeVote(d))
    IN  dev' = [dev EXCEPT ![n] =
                   IF Ready(d) THEN SendOrSchedule(d1, [type |-> "quorum_node_list"]) ELSE d1]

(* votequorum announces new expected votes and the votes check of ffsplit   *)
(* fails; when it succeeds nothing changes.                                 *)
ExpectedVotesNotify(n) == dev' = [dev EXCEPT ![n].sched = TRUE]

(* A connection is established up to the init message (preinit and TLS are  *)
(* part of this step).                                                      *)
Connect(n) ==
    /\ dev[n].state = "WAITING_CONNECT"
    /\ dev' = [dev EXCEPT ![n].state = "WAITING_INIT_REPLY",
                          ![n].sentRing = dev[n].ring,
                          ![n].out = <<[type |-> "init", ring |-> dev[n].ring]>>]

(* The init was accepted: the heuristics run before the node lists are sent. *)
ReceivedInitReply(d) == [d EXCEPT !.active = @ \cup {"connect"}, !.waiting = TRUE]

(* For ffsplit a vote counts only for the ring id sent last.                *)
AcceptedVote(d, msg) == IF msg.ring = d.sentRing THEN msg.vote ELSE "NO_CHANGE"

ReceivedVote(d, msg) == CastVoteTimerUpdate(d, AcceptedVote(d, msg))

(* A vote info is confirmed whether or not its vote counts.                 *)
ReceivedVoteInfo(d, msg) ==
    IF OutFull(d) THEN Disconnected(ReceivedVote(d, msg))
    ELSE Send(ReceivedVote(d, msg), [type |-> "vote_info_reply", seq |-> msg.seq])

(***************************************************************************)
(* A message of the server (qdevice-net-msg-received.c).  A server error   *)
(* or a message that does not fit the state ends the loop.                 *)
(***************************************************************************)
Receive(n, msg) ==
    LET d == dev[n]
    IN  /\ d.state # "WAITING_CONNECT"
        /\ dev' = [dev EXCEPT ![n] =
              CASE msg.type = "init_reply" /\ d.state = "WAITING_INIT_REPLY" ->
                       ReceivedInitReply(d)
                [] msg.type = "set_option_reply" /\ Ready(d) -> d
                [] msg.type = "reply" /\ Ready(d)            -> ReceivedVote(d, msg)
                [] msg.type = "vote_info" /\ Ready(d)        -> ReceivedVoteInfo(d, msg)
                [] OTHER                                     -> Disconnected(d)]

(* The socket accepted the first send buffer.                               *)
DeviceWrite(n) ==
    /\ dev[n].out # <<>>
    /\ dev' = [dev EXCEPT ![n].out = Tail(@)]

(* A timer gives up the connection: the connect timer before the init reply, *)
(* the echo request timer after it.                                          *)
DeviceScheduleDisconnect(n) ==
    /\ ~dev[n].sched
    /\ dev' = [dev EXCEPT ![n].sched = TRUE]

(* The loop ends, by a scheduled disconnect or because the socket failed.   *)
Disconnect(n) ==
    /\ dev[n].sched \/ dev[n].state # "WAITING_CONNECT"
    /\ dev' = [dev EXCEPT ![n] = Disconnected(@)]

-----------------------------------------------------------------------------
QdeviceInit ==
    \E r \in Rings, ms \in MemberLists, cfg \in ConfigLists, h \in HeurResults :
        dev = [n \in Nodes |-> NewDevice(r, ms, cfg, h)]

QdeviceNext ==
    \E n \in Nodes :
        \/ \E r \in Rings, ms \in MemberLists : NodeListNotify(n, r, ms)
        \/ \E h \in HeurResults : HeuristicsResult(n, h)
        \/ RegularTimer(n)
        \/ CastVoteTimer(n)
        \/ \E nodes \in ConfigLists, valid \in BOOLEAN :
               ConfigNodeListChanged(n, nodes, valid)
        \/ HeuristicsReloaded(n)
        \/ QuorumNotify(n)
        \/ ExpectedVotesNotify(n)
        \/ Connect(n)
        \/ \E msg \in ServerMsg : Receive(n, msg)
        \/ DeviceWrite(n)
        \/ DeviceScheduleDisconnect(n)
        \/ Disconnect(n)

QdeviceSpec == QdeviceInit /\ [][QdeviceNext]_dev

-----------------------------------------------------------------------------
QdeviceTypeOK == dev \in [Nodes -> Device]

(***************************************************************************)
(* The vote in force belongs to the ring in force: while the cast vote     *)
(* timer runs with ACK there is a connection and qnetd has been told of    *)
(* the device's ring.  Pausing at a membership change and resuming only    *)
(* when the new membership has been sent (or the connection given up) is   *)
(* what keeps an ACK of the old ring from being cast for the new one.      *)
(***************************************************************************)
RunningDeviceHasReported(d) == Ready(d) /\ ~d.paused => d.ring = d.sentRing
AckOnlyForReportedRing ==
    \A n \in Nodes : /\ RunningDeviceHasReported(dev[n])
                     /\ dev[n].vote = "ACK" => Ready(dev[n])

(***************************************************************************)
(* What votequorum sees: a positive vote is cast only by a connected       *)
(* device, for a ring it has already reported.                             *)
(***************************************************************************)
CastsOnlyForReportedRing ==
    [][\A n \in Nodes :
          dev'[n].polled # dev[n].polled /\ dev'[n].polled.cast =>
              Ready(dev'[n]) /\ dev'[n].polled.ring = dev'[n].sentRing]_dev

(***************************************************************************)
(* A paused device is always waiting for the heuristics result that        *)
(* resumes it, or is about to close the connection, and an active notifier *)
(* always has an execution under way: no wake-up is lost.                  *)
(***************************************************************************)
PauseHasAnEnd ==
    \A n \in Nodes :
        /\ dev[n].paused => "vq" \in dev[n].active \/ dev[n].sched
        /\ dev[n].active # {} => dev[n].waiting
=============================================================================
