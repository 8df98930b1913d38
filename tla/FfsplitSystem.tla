----------------------------- MODULE FfsplitSystem -----------------------------
(***************************************************************************)
(* One cluster and its qnetd: a device on every node, the server, the      *)
(* connections between them, and the corosync rings the nodes form.        *)
(*                                                                         *)
(* A connection is two queues: the device's send buffers (dev[n].out) hold *)
(* what the server has not handled yet, the server's (toClient[n]) what    *)
(* the device has not.  Nothing is lost or reordered on a connection, but  *)
(* its two ends learn of its end separately: the server may still serve a  *)
(* connection the device has left (and reject the next one of the same     *)
(* node as a duplicate), and a device may hold a connection the server has *)
(* closed.                                                                 *)
(***************************************************************************)
EXTENDS QnetdFfsplit, QdeviceNetFfsplit

CONSTANTS
    Starts,      \* where the run begins: the nodes have booted "apart", each in a
                 \*   ring of its own, or are connected and "settled" in one ring
    MaxRing,     \* bound: rings 1 .. MaxRing are formed
    MaxConnects, \* bound: connections the devices open altogether
    MaxEvents    \* bound: connections given up by one end, server crashes,
                 \*   regular heuristics executions

ASSUME SystemAssumption ==
    /\ Starts \subseteq {"apart", "settled"}
    /\ MaxRing \in Nat /\ MaxConnects \in Nat /\ MaxEvents \in Nat
    /\ Rings = 1 .. MaxRing
    /\ 1 \in Rings /\ ("apart" \in Starts => Nodes \subseteq Rings)
    /\ (SUBSET Nodes) \ {{}} \subseteq MemberLists /\ Nodes \in ConfigLists

VARIABLES
    coro,      \* the ring corosync runs on each node
    part,      \* the members of that ring
    link,      \* the device's connection: "down", "up", or "closed" by the server
    srv,       \* the server's client of a node: "none", on the device's
               \*   connection ("cur") or on one the device has left ("orph")
    orph,      \* what the device sent on the connection it has left
    connects,  \* how many connections have been opened
    events     \* how many of the bounded events have happened

netVars == <<link, srv, orph>>
envVars == <<coro, part, connects, events>>
vars    == <<serverVars, dev, netVars, envVars>>

(* The nodes have booted without seeing each other.                         *)
InitApart ==
    /\ "apart" \in Starts
    /\ QnetdInit
    /\ coro = [n \in Nodes |-> n]
    /\ part = [n \in Nodes |-> {n}]
    /\ \E h \in HeurResults : dev = [n \in Nodes |-> NewDevice(n, {n}, Nodes, h)]
    /\ link = [n \in Nodes |-> "down"]
    /\ srv = [n \in Nodes |-> "none"]
    /\ orph = [n \in Nodes |-> <<>>]
    /\ connects = 0
    /\ events = 0

(* The nodes have booted together, connected, and had their first decision  *)
(* confirmed: the state qnetd and the devices rest in until a ring changes. *)
InitSettled ==
    /\ "settled" \in Starts
    /\ \E h \in HeurResults :
        /\ dev = [n \in Nodes |->
                     [NewDevice(1, Nodes, Nodes, h) EXCEPT
                         !.state = "READY", !.vote = "ACK", !.polled.cast = TRUE]]
        /\ report = [n \in Nodes |-> [config |-> Nodes, members |-> Nodes, ring |-> 1,
                                      heur |-> h, keep |-> DeviceKeep]]
    /\ clients = Nodes
    /\ algo = [n \in Nodes |-> [NewAlgo EXCEPT !.seq = 1]]
    /\ clusterState = "WAITING_FOR_CHANGE"
    /\ quorate = Nodes
    /\ lastVote = [n \in Nodes |-> "ACK"]
    /\ toClient = [n \in Nodes |-> <<>>]
    /\ scheduled = {}
    /\ aborted = FALSE
    /\ coro = [n \in Nodes |-> 1]
    /\ part = [n \in Nodes |-> Nodes]
    /\ link = [n \in Nodes |-> "up"]
    /\ srv = [n \in Nodes |-> "cur"]
    /\ orph = [n \in Nodes |-> <<>>]
    /\ connects = Cardinality(Nodes)
    /\ events = 0

Init == InitApart \/ InitSettled

Event == events < MaxEvents /\ events' = events + 1

(* votequorum counts the qdevice vote of a node: the last poll was positive *)
(* and for the ring corosync runs.                                          *)
Granted(n) == dev[n].polled.cast /\ dev[n].polled.ring = coro[n]

(* The device and the server are at the two ends of one connection.         *)
Connected(n) == link[n] = "up" /\ srv[n] = "cur"

-----------------------------------------------------------------------------
(* corosync                                                                *)

(* A set of nodes forms a new ring.                                         *)
FormRing(S) ==
    LET r == Max({coro[n] : n \in Nodes}) + 1
    IN  /\ r <= MaxRing
        /\ coro' = [n \in Nodes |-> IF n \in S THEN r ELSE coro[n]]
        /\ part' = [n \in Nodes |-> IF n \in S THEN S ELSE part[n]]
        /\ UNCHANGED <<serverVars, dev, netVars, connects, events>>

LearnRing(n) ==
    /\ dev[n].ring # coro[n]
    /\ NodeListNotify(n, coro[n], part[n])
    /\ UNCHANGED <<serverVars, netVars, envVars>>

-----------------------------------------------------------------------------
(* The device on its own                                                   *)

WorkerAnswers(n) ==
    /\ \E h \in HeurResults : HeuristicsResult(n, h)
    /\ UNCHANGED <<serverVars, netVars, envVars>>

RegularExecution(n) ==
    /\ RegularTimer(n)
    /\ Event
    /\ UNCHANGED <<serverVars, netVars, coro, part, connects>>

DeviceCastsVote(n) ==
    /\ CastVoteTimer(n)
    /\ UNCHANGED <<serverVars, netVars, envVars>>

DeviceConnects(n) ==
    /\ Connect(n)
    /\ connects < MaxConnects
    /\ connects' = connects + 1
    /\ link' = [link EXCEPT ![n] = "up"]
    /\ UNCHANGED <<serverVars, srv, orph, coro, part, events>>

(* The device leaves its connection.  What it sent last may still reach the *)
(* server, unless the server is still busy with an older connection.        *)
Leave(n) ==
    /\ link' = [link EXCEPT ![n] = "down"]
    /\ srv' = [srv EXCEPT ![n] = IF @ = "none" THEN "none" ELSE "orph"]
    /\ orph' = [orph EXCEPT ![n] =
                   IF link[n] = "up" /\ srv[n] # "orph" THEN dev[n].out ELSE @]

(* A disconnect was scheduled, or the server has closed the connection.     *)
DeviceDisconnects(n) ==
    /\ dev[n].sched \/ link[n] = "closed"
    /\ Disconnect(n)
    /\ Leave(n)
    /\ UNCHANGED <<serverVars, envVars>>

(* The connection fails for the device: a socket error, no echo reply.      *)
DeviceGivesUp(n) ==
    /\ link[n] = "up"
    /\ Event
    /\ Disconnect(n)
    /\ Leave(n)
    /\ UNCHANGED <<serverVars, coro, part, connects>>

(* The server's next message on the connection.                             *)
DeviceReceives(n) ==
    /\ Connected(n)
    /\ toClient[n] # <<>>
    /\ Receive(n, Head(toClient[n]))
    /\ NetWrite(n)
    /\ IF dev'[n].state = "WAITING_CONNECT" THEN Leave(n) ELSE UNCHANGED netVars
    /\ UNCHANGED envVars

-----------------------------------------------------------------------------
(* The server                                                              *)

Handle(n, msg) ==
    \/ msg.type = "set_option"       /\ SetOption(n, msg.keep)
    \/ msg.type = "config_node_list" /\ ConfigNodeListReceived(n, msg.nodes, msg.initial)
    \/ msg.type = "membership_node_list"
           /\ MembershipNodeListReceived(n, msg.ring, msg.nodes, msg.heur)
    \/ msg.type = "quorum_node_list"  /\ QuorumNodeListReceived(n)
    \/ msg.type = "heuristics_change" /\ HeuristicsChangeReceived(n, msg.heur)
    \/ msg.type = "vote_info_reply"   /\ VoteInfoReplyReceived(n, msg.seq)

ServerReceives(n) ==
    /\ Connected(n)
    /\ dev[n].out # <<>>
    /\ Handle(n, Head(dev[n].out))
    /\ DeviceWrite(n)
    /\ UNCHANGED <<netVars, envVars>>

ServerAccepts(n) ==
    /\ link[n] = "up" /\ srv[n] = "none" /\ orph[n] = <<>>
    /\ dev[n].out # <<>>
    /\ ClientInit(n, Head(dev[n].out).ring)
    /\ DeviceWrite(n)
    /\ srv' = [srv EXCEPT ![n] = "cur"]
    /\ UNCHANGED <<link, orph, envVars>>

(* Duplicate node id: the device gets the error and leaves.                 *)
ServerRejects(n) ==
    /\ link[n] = "up" /\ srv[n] = "orph" /\ ~aborted
    /\ dev[n].out # <<>>
    /\ Disconnect(n)
    /\ link' = [link EXCEPT ![n] = "down"]
    /\ UNCHANGED <<serverVars, srv, orph, envVars>>

(* What is left on a connection the device has left.                        *)
ServerReceivesOrphan(n) ==
    /\ orph[n] # <<>>
    /\ \/ srv[n] = "none" /\ ClientInit(n, Head(orph[n]).ring)
       \/ srv[n] = "orph" /\ Handle(n, Head(orph[n]))
    /\ srv' = [srv EXCEPT ![n] = "orph"]
    /\ orph' = [orph EXCEPT ![n] = Tail(@)]
    /\ UNCHANGED <<dev, link, envVars>>

(* The end of a connection the device has left: it is read after the rest   *)
(* of what was sent, or the dead-peer-detection timer comes first.          *)
ServerNoticesEnd(n) ==
    /\ srv[n] = "orph"
    /\ ScheduleDisconnect(n)
    /\ UNCHANGED <<dev, netVars, envVars>>

(* The connection fails for the server: a socket error, no echo request.    *)
ServerGivesUp(n) ==
    /\ srv[n] = "cur"
    /\ Event
    /\ ScheduleDisconnect(n)
    /\ UNCHANGED <<dev, netVars, coro, part, connects>>

ServerDisconnects(n) ==
    /\ ClientDisconnect(n)
    /\ link' = [link EXCEPT ![n] = IF srv[n] = "cur" THEN "closed" ELSE @]
    /\ srv' = [srv EXCEPT ![n] = "none"]
    /\ orph' = [orph EXCEPT ![n] = <<>>]
    /\ UNCHANGED <<dev, envVars>>

(* A crash of the server; after a failed assertion it is no extra event.    *)
ServerRestarts ==
    /\ Restart
    /\ IF aborted THEN UNCHANGED events ELSE Event
    /\ link' = [n \in Nodes |-> IF link[n] = "up" THEN "closed" ELSE link[n]]
    /\ srv' = [n \in Nodes |-> "none"]
    /\ orph' = [n \in Nodes |-> <<>>]
    /\ UNCHANGED <<dev, coro, part, connects>>

-----------------------------------------------------------------------------
Next ==
    \/ \E S \in (SUBSET Nodes) \ {{}} : FormRing(S)
    \/ ServerRestarts
    \/ \E n \in Nodes :
        \/ LearnRing(n)
        \/ WorkerAnswers(n)
        \/ RegularExecution(n)
        \/ DeviceCastsVote(n)
        \/ DeviceConnects(n)
        \/ DeviceDisconnects(n)
        \/ DeviceGivesUp(n)
        \/ DeviceReceives(n)
        \/ ServerReceives(n)
        \/ ServerAccepts(n)
        \/ ServerRejects(n)
        \/ ServerReceivesOrphan(n)
        \/ ServerNoticesEnd(n)
        \/ ServerGivesUp(n)
        \/ ServerDisconnects(n)

Spec == Init /\ [][Next]_vars

(***************************************************************************)
(* Poll loops run on: a process with a pending event handles one.  The     *)
(* server's dead-peer detection and systemd's restart belong to that; new  *)
(* rings and failing connections do not.  This is weak fairness with the   *)
(* enabling conditions written out.                                        *)
(***************************************************************************)
DeviceStep(n) ==
    \/ LearnRing(n)
    \/ WorkerAnswers(n)
    \/ DeviceConnects(n)
    \/ DeviceDisconnects(n)
    \/ DeviceReceives(n)

DevicePending(n) ==
    \/ dev[n].ring # coro[n]
    \/ dev[n].waiting
    \/ link[n] = "down" /\ connects < MaxConnects
    \/ dev[n].sched \/ link[n] = "closed"
    \/ Connected(n) /\ toClient[n] # <<>> /\ CanRead(n)

ServerStep ==
    \/ aborted /\ ServerRestarts
    \/ \E n \in Nodes : \/ ServerAccepts(n)
                        \/ ServerRejects(n)
                        \/ ServerReceives(n)
                        \/ ServerReceivesOrphan(n)
                        \/ ServerNoticesEnd(n)
                        \/ ServerDisconnects(n)

ServerPending ==
    \/ aborted
    \/ scheduled # {}
    \/ \E n \in Nodes : \/ srv[n] = "orph"
                        \/ orph[n] # <<>>
                        \/ link[n] = "up" /\ dev[n].out # <<>>

Fairness ==
    /\ ([]<>~ServerPending) \/ ([]<><<ServerStep>>_vars)
    /\ \A n \in Nodes : ([]<>~DevicePending(n)) \/ ([]<><<DeviceStep(n)>>_vars)

FairSpec == Spec /\ Fairness

-----------------------------------------------------------------------------
(***************************************************************************)
(* Two connected nodes never hold the qdevice vote in two different rings: *)
(* a partition gets the vote only when every connected node outside of it  *)
(* has given it up.                                                        *)
(***************************************************************************)
NoSplitVote ==
    \A n, m \in Nodes :
        Granted(n) /\ Granted(m) /\ Connected(n) /\ Connected(m) => coro[n] = coro[m]

(***************************************************************************)
(* The NACK phase of a decision ends: every client told NACK confirms it   *)
(* or is disconnected.                                                     *)
(***************************************************************************)
NackPhaseEnds == clusterState = "SENDING_NACKS" ~> clusterState # "SENDING_NACKS"

(* A device does not keep its cast vote timer paused for ever.              *)
DevicesResume == \A n \in Nodes : dev[n].paused ~> ~dev[n].paused

(***************************************************************************)
(* A connected node outside of the partition qnetd regards as quorate      *)
(* stops voting, or is in that partition again.                            *)
(***************************************************************************)
Losing(n) == Connected(n) /\ Granted(n) /\ n \notin quorate
LosersStopVoting == \A n \in Nodes : Losing(n) ~> ~Losing(n)

(***************************************************************************)
(* When a decision is over, every connected node of the quorate partition  *)
(* has been told ACK.                                                      *)
(***************************************************************************)
DecisionReachesPartition ==
    clusterState = "WAITING_FOR_CHANGE" /\ ~aborted =>
        \A n \in clients \cap quorate :
            report[n].config # {} /\ report[n].members # {} => lastVote[n] = "ACK"
=============================================================================
