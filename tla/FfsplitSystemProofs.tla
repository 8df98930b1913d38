-------------------------- MODULE FfsplitSystemProofs --------------------------
(***************************************************************************)
(* Two connected nodes never hold the qdevice vote in two different rings: *)
(* the proof of NoSplitVote for every cluster, every number of rings,      *)
(* connections and failures, every size of the send buffers and every      *)
(* outcome of the tie-breaker, as long as no sequence number of a vote has *)
(* wrapped around.                                                         *)
(***************************************************************************)
EXTENDS FfsplitConnectionProofs, WellFoundedInduction

(* The server's record of a node is on the device's connection.             *)
Cur(n) == srv[n] = "cur"

(* What ConnOK, HasVote and NackOwed are about, for node n.                 *)
Conn(n)  == ConnOK(dev[n], report[n].ring, algo[n].seq, toClient[n])
Holds(n) == Cur(n) /\ HasVote(dev[n], report[n].ring, toClient[n])
Owes(n)  == NackOwed(dev[n], report[n].ring, algo[n].seq, toClient[n])

(* The server has the configuration of the node, or will not hear of it.    *)
Knows(n) == link[n] # "up" \/ (Cur(n) /\ report[n].config # {})

(* The connections and the rings of corosync.                               *)
NetTypeOK ==
    /\ coro \in [Nodes -> Rings]
    /\ part \in [Nodes -> (SUBSET Nodes) \ {{}}]
    /\ link \in [Nodes -> {"down", "up", "closed"}]
    /\ srv \in [Nodes -> {"none", "cur", "orph"}]
    /\ orph \in [Nodes -> Seq(ClientMsg)]

(* A device whose init the server has not read yet has no vote and nothing  *)
(* to confirm.                                                              *)
NewDeviceWaits(n) ==
    link[n] = "up" /\ ~Cur(n) =>
        /\ dev[n].state # "WAITING_CONNECT" /\ dev[n].vote # "ACK" /\ ~dev[n].polled.cast
        /\ dev[n].out # <<>> /\ dev[n].out[1].type = "init"
        /\ \A i \in 1 .. Len(dev[n].out) : ~IsReply(dev[n].out[i])

(* One node, its device and its connection.                                 *)
NodeInv(n) ==
    /\ Cur(n) => n \in clients /\ link[n] = "up" /\ dev[n].state # "WAITING_CONNECT"
    /\ dev[n].ring <= coro[n]
    /\ DeviceSound(dev[n], Knows(n))
    /\ NewDeviceWaits(n)
    /\ srv[n] = "none" /\ orph[n] # <<>> => orph[n][1].type = "init"
    /\ Cur(n) => Conn(n)

(* Nodes that vote, or will vote when their messages arrive, have reported  *)
(* one ring.                                                                *)
VotesAgree == \A n, m \in Nodes : Holds(n) /\ Holds(m) => report[n].ring = report[m].ring

(***************************************************************************)
(* While the confirmations of NACKs are waited for: the nodes to be told   *)
(* ACK afterwards are in one ring, with every node that has a vote and     *)
(* owes nothing; and a node that owes its confirmation was told NACK last. *)
(***************************************************************************)
AcksAgree ==
    clusterState = "SENDING_NACKS" =>
        \A k, n \in Nodes :
            /\ Cur(k) /\ algo[k].state = "SENDING_ACK"
            /\ Cur(n) /\ (\/ algo[n].state = "SENDING_ACK"
                          \/ algo[n].state = "WAITING_FOR_CHANGE" /\ Holds(n))
            => report[k].ring = report[n].ring
NacksOwed ==
    clusterState = "SENDING_NACKS" =>
        \A n \in Nodes : Cur(n) /\ algo[n].state = "SENDING_NACK" => Owes(n)

(* The inductive invariant.                                                 *)
SystemInv ==
    /\ QnetdInv
    /\ QdeviceInv
    /\ NetTypeOK
    /\ \A n \in Nodes : NodeInv(n)
    /\ VotesAgree
    /\ AcksAgree
    /\ NacksOwed

(* No sequence number is about to wrap around.                              *)
SeqNumbersLast == \A n \in Nodes : algo[n].seq < SeqMod - 1

-----------------------------------------------------------------------------
(* No node gains a vote, or another ring for the vote it has.               *)
NoVoteGained(n) == Holds(n)' => Holds(n) /\ report'[n].ring = report[n].ring

(* A node goes on as before in the NACK phase: it has nothing, or what it   *)
(* had, and only the wait for the confirmation of an ACK may have ended.    *)
PhaseGoesOn(n) ==
    Cur(n)' =>
        \/ algo'[n].state = "WAITING_FOR_CHANGE" /\ ~Holds(n)'
        \/ /\ Cur(n) /\ report'[n].ring = report[n].ring
           /\ \/ algo'[n].state = algo[n].state
              \/ algo[n].state = "SENDING_ACK" /\ algo'[n].state = "WAITING_FOR_CHANGE"
           /\ Owes(n) => Owes(n)'

(* Votes agree as long as no node gains one.                                *)
LEMMA VotesKept ==
    ASSUME VotesAgree, \A n \in Nodes : NoVoteGained(n)
    PROVE  VotesAgree'
BY DEF VotesAgree, NoVoteGained

(* The NACK phase goes on.                                                  *)
LEMMA PhaseKept ==
    ASSUME AcksAgree, NacksOwed, clusterState' = "SENDING_NACKS" => clusterState = "SENDING_NACKS",
           \A n \in Nodes : NoVoteGained(n),
           clusterState' = "SENDING_NACKS" => \A n \in Nodes : PhaseGoesOn(n)
    PROVE  AcksAgree' /\ NacksOwed'
<1> SUFFICES ASSUME clusterState' = "SENDING_NACKS"
             PROVE  /\ \A k, n \in Nodes :
                           /\ Cur(k)' /\ algo'[k].state = "SENDING_ACK"
                           /\ Cur(n)' /\ (\/ algo'[n].state = "SENDING_ACK"
                                          \/ algo'[n].state = "WAITING_FOR_CHANGE" /\ Holds(n)')
                           => report'[k].ring = report'[n].ring
                    /\ \A n \in Nodes : Cur(n)' /\ algo'[n].state = "SENDING_NACK" => Owes(n)'
  BY DEF AcksAgree, NacksOwed
<1>1. \A n \in Nodes : Cur(n)' /\ algo'[n].state = "SENDING_ACK" =>
          /\ Cur(n) /\ algo[n].state = "SENDING_ACK" /\ report'[n].ring = report[n].ring
  BY DEF PhaseGoesOn
<1>2. \A n \in Nodes : Cur(n)' /\ algo'[n].state = "WAITING_FOR_CHANGE" /\ Holds(n)' =>
          /\ Cur(n) /\ report'[n].ring = report[n].ring
          /\ \/ algo[n].state = "SENDING_ACK"
             \/ algo[n].state = "WAITING_FOR_CHANGE" /\ Holds(n)
  BY DEF PhaseGoesOn, NoVoteGained
<1>3. \A n \in Nodes : Cur(n)' /\ algo'[n].state = "SENDING_NACK" => Owes(n)'
  BY DEF PhaseGoesOn, NacksOwed
<1>4. ASSUME NEW k \in Nodes, NEW n \in Nodes, Cur(k)', algo'[k].state = "SENDING_ACK", Cur(n)',
             \/ algo'[n].state = "SENDING_ACK"
             \/ algo'[n].state = "WAITING_FOR_CHANGE" /\ Holds(n)'
      PROVE  report'[k].ring = report'[n].ring
  BY <1>1, <1>2, <1>4 DEF AcksAgree
<1> QED BY <1>3, <1>4

(* What the proof looks at is unchanged for a node.                         *)
Untouched(n) ==
    /\ dev'[n] = dev[n] /\ link'[n] = link[n] /\ srv'[n] = srv[n] /\ orph'[n] = orph[n]
    /\ coro'[n] = coro[n] /\ report'[n] = report[n] /\ algo'[n] = algo[n]
    /\ toClient'[n] = toClient[n] /\ (n \in clients => n \in clients')

(* Nothing is lost or gained where nothing happens.                         *)
LEMMA UntouchedNode ==
    ASSUME NEW n \in Nodes, NodeInv(n), Untouched(n)
    PROVE  NodeInv(n)' /\ NoVoteGained(n) /\ PhaseGoesOn(n)
<1>1. /\ Cur(n)' <=> Cur(n)
      /\ Knows(n)' <=> Knows(n)
      /\ Conn(n)' <=> Conn(n)
      /\ Holds(n)' <=> Holds(n)
      /\ Owes(n)' <=> Owes(n)
  BY DEF Untouched, Cur, Knows, Conn, Holds, Owes
<1>2. Knows(n) \in BOOLEAN /\ Knows(n)' \in BOOLEAN
  BY DEF Knows
<1>3. DeviceSound(dev[n], Knows(n)) => DeviceSound(dev'[n], Knows(n)')
  <2>1. Knows(n)' = Knows(n) /\ dev'[n] = dev[n]
    BY <1>1, <1>2 DEF Untouched
  <2> QED BY <2>1
<1>4. NewDeviceWaits(n) => NewDeviceWaits(n)'
  BY <1>1 DEF NewDeviceWaits, Untouched
<1>5. NodeInv(n)'
  BY <1>1, <1>3, <1>4 DEF NodeInv, Untouched
<1> QED BY <1>1, <1>5 DEF NoVoteGained, PhaseGoesOn, Untouched

(* The data of one node are well typed.                                     *)
LEMMA NodeTypes ==
    ASSUME SystemInv, NEW n \in Nodes
    PROVE  /\ dev[n] \in Device /\ CallbackInv(dev[n]) /\ dev[n].ring \in Int
           /\ report[n] \in Report /\ report[n].ring \in Int
           /\ algo[n] \in Algo /\ algo[n].seq \in Int
           /\ toClient[n] \in Seq(ServerMsg)
           /\ coro[n] \in Rings /\ coro[n] \in Int /\ part[n] \in MemberLists
<1>1. /\ dev[n] \in Device /\ CallbackInv(dev[n])
      /\ report[n] \in Report /\ report[n].ring \in Rings
      /\ algo[n] \in Algo /\ algo[n].seq \in SeqNums
      /\ toClient[n] \in Seq(ServerMsg)
      /\ coro[n] \in Rings /\ part[n] \in (SUBSET Nodes) \ {{}}
  BY DEF SystemInv, QdeviceInv, DeviceInv, QnetdInv, QnetdTypeOK, NetTypeOK, Report, Algo
<1> QED BY <1>1, RingsAreNumbers, DeviceNumbers, SystemAssumption

(* The server does nothing.                                                 *)
LEMMA QnetdUnchanged ==
    ASSUME QnetdInv, UNCHANGED serverVars
    PROVE  QnetdInv'
BY DEF serverVars, QnetdInv, QnetdTypeOK, AckOnlyInQuoratePartition,
       AckOwedInQuoratePartition, NacksConfirmedBeforeAcks

(* A step that touches one node and sends no vote.                          *)
LEMMA OneNode ==
    ASSUME SystemInv, QnetdInv', QdeviceInv', NetTypeOK', NEW n \in Nodes,
           \A k \in Nodes \ {n} : Untouched(k),
           NodeInv(n)', NoVoteGained(n),
           clusterState' = "SENDING_NACKS" => clusterState = "SENDING_NACKS" /\ PhaseGoesOn(n)
    PROVE  SystemInv'
<1>1. \A k \in Nodes \ {n} : NodeInv(k)' /\ NoVoteGained(k) /\ PhaseGoesOn(k)
  BY UntouchedNode DEF SystemInv
<1>2. \A k \in Nodes : NodeInv(k)' /\ NoVoteGained(k)
  BY <1>1
<1>3. VotesAgree'
  BY <1>2, VotesKept DEF SystemInv
<1>4. clusterState' = "SENDING_NACKS" => \A k \in Nodes : PhaseGoesOn(k)
  BY <1>1
<1>5. AcksAgree' /\ NacksOwed'
  BY <1>2, <1>4, PhaseKept DEF SystemInv
<1> QED BY <1>2, <1>3, <1>5 DEF SystemInv

-----------------------------------------------------------------------------
(* The device on its own.                                                   *)

(* A step of a device that does not use its connection, or only sends.      *)
LEMMA OwnDevice ==
    ASSUME SystemInv, NEW n \in Nodes, StepOK(n), UNCHANGED <<serverVars, netVars, coro, part>>,
           DeviceSound(dev'[n], Knows(n)), OwnStep(dev[n], dev'[n]), dev'[n].ring <= coro[n]
    PROVE  SystemInv'
<1> DEFINE d == dev[n]
           e == dev'[n]
<1>1. d \in Device /\ e \in Device /\ QdeviceInv' /\ \A k \in Nodes \ {n} : dev'[k] = dev[k]
  BY DEF StepOK, SystemInv, QdeviceInv
<1>2. QnetdInv' /\ NetTypeOK'
  BY QnetdUnchanged DEF SystemInv, NetTypeOK, netVars
<1>3. \A k \in Nodes \ {n} : Untouched(k)
  BY <1>1 DEF Untouched, serverVars, netVars
<1>4. /\ report' = report /\ algo' = algo /\ toClient' = toClient /\ clients' = clients
      /\ clusterState' = clusterState /\ link' = link /\ srv' = srv /\ orph' = orph /\ coro' = coro
  BY DEF serverVars, netVars
<1>5. (Cur(n)' <=> Cur(n)) /\ Knows(n)' = Knows(n)
  BY <1>4 DEF Cur, Knows
<1>6. NodeInv(n)
  BY DEF SystemInv
<1>7. Cur(n) => /\ Conn(n)'
                /\ Holds(n)' => Holds(n)
                /\ Owes(n) => Owes(n)'
  <2> SUFFICES ASSUME Cur(n) PROVE Conn(n)' /\ (Holds(n)' => Holds(n)) /\ (Owes(n) => Owes(n)')
    OBVIOUS
  <2>1. ConnOK(d, report[n].ring, algo[n].seq, toClient[n])
    BY <1>6 DEF NodeInv, Conn
  <2>2. /\ ConnOK(e, report[n].ring, algo[n].seq, toClient[n])
        /\ HasVote(e, report[n].ring, toClient[n]) => HasVote(d, report[n].ring, toClient[n])
        /\ NackOwed(d, report[n].ring, algo[n].seq, toClient[n]) =>
               NackOwed(e, report[n].ring, algo[n].seq, toClient[n])
    BY <1>1, <2>1, NodeTypes, OwnStepConn
  <2> QED BY <1>4, <2>2 DEF Conn, Holds, Owes
<1>8. NewDeviceWaits(n)'
  <2> SUFFICES ASSUME link[n] = "up", ~Cur(n)
               PROVE  /\ e.state # "WAITING_CONNECT" /\ e.vote # "ACK" /\ ~e.polled.cast
                      /\ e.out # <<>> /\ e.out[1].type = "init"
                      /\ \A i \in 1 .. Len(e.out) : ~IsReply(e.out[i])
    BY <1>4, <1>5 DEF NewDeviceWaits
  <2>1. /\ d.state # "WAITING_CONNECT" /\ d.vote # "ACK" /\ ~d.polled.cast
        /\ d.out # <<>> /\ d.out[1].type = "init"
        /\ \A i \in 1 .. Len(d.out) : ~IsReply(d.out[i])
    BY <1>6 DEF NodeInv, NewDeviceWaits
  <2>2. e.state # "WAITING_CONNECT" /\ e.vote # "ACK" /\ ~e.polled.cast
    BY <2>1 DEF OwnStep
  <2>3. Len(d.out) >= 1 /\ Len(d.out) \in Nat /\ Len(e.out) \in Nat /\ Len(d.out) <= Len(e.out)
    BY <1>1, <2>1, TailAt, DeviceNumbers DEF OwnStep
  <2>4. e.out[1] = d.out[1] /\ Len(e.out) >= 1
    <3>1. 1 \in 1 .. Len(d.out)
      BY <2>3
    <3> QED BY <2>3, <3>1 DEF OwnStep
  <2>5. \A i \in 1 .. Len(e.out) : ~IsReply(e.out[i])
    <3> SUFFICES ASSUME NEW i \in 1 .. Len(e.out) PROVE ~IsReply(e.out[i])
      OBVIOUS
    <3>1. i \in 1 .. Len(d.out) \/ i > Len(d.out)
      BY <2>3
    <3> QED BY <2>1, <3>1 DEF OwnStep
  <2> QED BY <2>1, <2>2, <2>4, <2>5
<1>9. e.state = "WAITING_CONNECT" <=> d.state = "WAITING_CONNECT"
  BY DEF OwnStep
<1>10. NodeInv(n)'
  BY <1>4, <1>5, <1>6, <1>7, <1>8, <1>9 DEF NodeInv
<1>11. NoVoteGained(n) /\ PhaseGoesOn(n)
  BY <1>4, <1>5, <1>7 DEF NoVoteGained, PhaseGoesOn, Holds
<1> QED BY <1>1, <1>2, <1>3, <1>4, <1>10, <1>11, OneNode

(* votequorum tells the device its ring.                                    *)
LEMMA LearnRingInv ==
    ASSUME SystemInv, NEW n \in Nodes, LearnRing(n)
    PROVE  SystemInv'
<1>1. /\ NodeListNotify(n, coro[n], part[n]) /\ dev[n].ring # coro[n]
      /\ UNCHANGED <<serverVars, netVars, coro, part>>
  BY DEF LearnRing, envVars
<1>2. dev[n].ring < coro[n]
  BY <1>1, NodeTypes DEF SystemInv, NodeInv
<1>3. QdeviceInv /\ DeviceSound(dev[n], Knows(n))
  BY DEF SystemInv, NodeInv
<1>4. StepOK(n)
  BY <1>1, <1>3, NodeTypes, NodeListNotifyInv
<1>5. /\ DeviceSound(dev'[n], Knows(n)) /\ OwnStep(dev[n], dev'[n]) /\ dev'[n].ring = coro[n]
  BY <1>1, <1>2, <1>3, NodeTypes, NotifyOwn
<1> QED BY <1>1, <1>4, <1>5, NodeTypes, OwnDevice

(* A heuristics result.                                                     *)
LEMMA WorkerAnswersInv ==
    ASSUME SystemInv, NEW n \in Nodes, WorkerAnswers(n)
    PROVE  SystemInv'
<1> PICK h \in HeurResults : HeuristicsResult(n, h)
  BY DEF WorkerAnswers
<1>1. UNCHANGED <<serverVars, netVars, coro, part>>
  BY DEF WorkerAnswers, envVars
<1>2. QdeviceInv /\ DeviceSound(dev[n], Knows(n)) /\ dev[n].ring <= coro[n]
  BY DEF SystemInv, NodeInv
<1>3. StepOK(n)
  BY <1>2, HeuristicsResultInv
<1>4. DeviceSound(dev'[n], Knows(n)) /\ OwnStep(dev[n], dev'[n]) /\ dev'[n].ring = dev[n].ring
  BY <1>2, ResultOwn
<1> QED BY <1>1, <1>2, <1>3, <1>4, OwnDevice

(* The timer of the regular heuristics.                                     *)
LEMMA RegularExecutionInv ==
    ASSUME SystemInv, NEW n \in Nodes, RegularExecution(n)
    PROVE  SystemInv'
<1> DEFINE d == dev[n]
           e == [d EXCEPT !.timer = FALSE, !.waiting = TRUE, !.active = d.active \cup {"regular"}]
<1>1. RegularTimer(n) /\ UNCHANGED <<serverVars, netVars, coro, part>>
  BY DEF RegularExecution
<1>2. /\ QdeviceInv /\ DeviceSound(d, Knows(n)) /\ d.ring <= coro[n]
      /\ d \in Device
  BY NodeTypes DEF SystemInv, NodeInv
<1>3. StepOK(n)
  BY <1>1, <1>2, RegularTimerInv
<1>4. dev'[n] = e
  BY <1>1 DEF RegularTimer, QdeviceInv, SystemInv
<1> HIDE DEF d
<1>5. e \in Device /\ Same(d, e) /\ e.out = d.out
  BY <1>2 DEF Device, Same
<1> HIDE DEF e
<1>6. DeviceSound(e, Knows(n)) /\ OwnStep(d, e) /\ e.ring = d.ring
  BY <1>2, <1>5, SameOwnStep DEF Same
<1> QED BY <1>1, <1>2, <1>3, <1>4, <1>6, OwnDevice DEF d

(* The cast vote timer polls votequorum.                                    *)
LEMMA DeviceCastsVoteInv ==
    ASSUME SystemInv, NEW n \in Nodes, DeviceCastsVote(n)
    PROVE  SystemInv'
<1> DEFINE d == dev[n]
           e == Poll(d)
<1>1. CastVoteTimer(n) /\ UNCHANGED <<serverVars, netVars, coro, part>>
  BY DEF DeviceCastsVote, envVars
<1>2. /\ QdeviceInv /\ DeviceSound(d, Knows(n)) /\ d.ring <= coro[n]
      /\ d \in Device /\ CallbackInv(d)
  BY NodeTypes DEF SystemInv, NodeInv
<1>3. StepOK(n)
  BY <1>1, <1>2, CastVoteTimerInv
<1>4. dev'[n] = e
  BY <1>1 DEF CastVoteTimer, QdeviceInv, SystemInv
<1> HIDE DEF d
<1>5. /\ e \in Device /\ Frame(d, e) /\ e.vote = d.vote
      /\ \/ e.polled = d.polled
         \/ ~d.paused /\ e.polled.ring = d.ring /\ (e.polled.cast => d.vote = "ACK")
  BY <1>2 DEF Poll, Device, Frame
<1> HIDE DEF e
<1>6. DeviceSound(e, Knows(n)) /\ OwnStep(d, e) /\ e.ring = d.ring
  BY <1>2, <1>5, TimerOwnStep DEF Frame
<1> QED BY <1>1, <1>2, <1>3, <1>4, <1>6, OwnDevice DEF d

-----------------------------------------------------------------------------
(* Connections begin and end.                                               *)

(* The device connects.                                                     *)
LEMMA DeviceConnectsInv ==
    ASSUME SystemInv, NEW n \in Nodes, DeviceConnects(n)
    PROVE  SystemInv'
<1>1. /\ Connect(n) /\ link' = [link EXCEPT ![n] = "up"]
      /\ UNCHANGED <<serverVars, srv, orph, coro, part>>
  BY DEF DeviceConnects
<1>2. QdeviceInv /\ NodeInv(n) /\ RingsInOrder(dev[n])
  BY DEF SystemInv, NodeInv, DeviceSound
<1>3. StepOK(n)
  BY <1>1, <1>2, ConnectInv
<1>4. QdeviceInv' /\ \A k \in Nodes \ {n} : dev'[k] = dev[k]
  BY <1>2, <1>3 DEF StepOK, QdeviceInv
<1>5. ~Cur(n) /\ ~Cur(n)'
  BY <1>1, <1>2 DEF NodeInv, Cur, Connect
<1>6. /\ DeviceSound(dev'[n], Knows(n)') /\ dev'[n].ring = dev[n].ring
      /\ dev'[n].vote # "ACK" /\ ~dev'[n].polled.cast /\ dev'[n].out # <<>>
      /\ dev'[n].out[1].type = "init"
  BY <1>1, <1>2, ConnectSound
<1>7. QnetdInv' /\ NetTypeOK'
  BY <1>1, QnetdUnchanged DEF SystemInv, NetTypeOK
<1>8. \A k \in Nodes \ {n} : Untouched(k)
  BY <1>1, <1>4 DEF Untouched, serverVars, SystemInv, NetTypeOK
<1>9. NodeInv(n)'
  <2>1. dev'[n].state # "WAITING_CONNECT" /\ \A i \in 1 .. Len(dev'[n].out) : ~IsReply(dev'[n].out[i])
    <3>1. /\ dev'[n].state = "WAITING_INIT_REPLY"
          /\ dev'[n].out = <<[type |-> "init", ring |-> dev[n].ring]>>
      BY <1>1, <1>2 DEF Connect, QdeviceInv, Device
    <3> QED BY <3>1 DEF IsReply
  <2> QED BY <1>1, <1>2, <1>5, <1>6, <2>1 DEF NodeInv, NewDeviceWaits
<1>10. NoVoteGained(n) /\ PhaseGoesOn(n)
  BY <1>5 DEF NoVoteGained, PhaseGoesOn, Holds
<1>11. clusterState' = clusterState
  BY <1>1 DEF serverVars
<1> QED BY <1>4, <1>7, <1>8, <1>9, <1>10, <1>11, OneNode

(* The device has closed its connection.                                    *)
LEMMA DeviceLeft ==
    ASSUME SystemInv, NEW n \in Nodes, QnetdInv', QdeviceInv', NetTypeOK',
           \A k \in Nodes \ {n} : Untouched(k),
           clusterState' = clusterState, coro' = coro,
           dev'[n].ring = dev[n].ring, \A has : DeviceSound(dev'[n], has),
           link'[n] # "up", ~Cur(n)',
           srv'[n] = "none" /\ orph'[n] # <<>> => orph'[n][1].type = "init"
    PROVE  SystemInv'
<1>1. NodeInv(n)'
  <2>1. dev[n].ring <= coro[n]
    BY DEF SystemInv, NodeInv
  <2>2. DeviceSound(dev'[n], Knows(n)')
    OBVIOUS
  <2> QED BY <2>1, <2>2 DEF NodeInv, NewDeviceWaits
<1>2. NoVoteGained(n) /\ PhaseGoesOn(n)
  BY DEF NoVoteGained, PhaseGoesOn, Holds
<1> QED BY <1>1, <1>2, OneNode

(* What Leave makes of the connection.                                      *)
LEMMA LeaveFacts ==
    ASSUME SystemInv, NEW n \in Nodes, Leave(n), UNCHANGED <<coro, part>>
    PROVE  /\ NetTypeOK' /\ link'[n] # "up" /\ ~Cur(n)'
           /\ srv'[n] = "none" /\ orph'[n] # <<>> => orph'[n][1].type = "init"
           /\ \A k \in Nodes \ {n} : link'[k] = link[k] /\ srv'[k] = srv[k] /\ orph'[k] = orph[k]
<1>1. NetTypeOK /\ NodeInv(n) /\ dev[n].out \in Seq(ClientMsg)
  BY NodeTypes, DeviceNumbers DEF SystemInv
<1>2. NetTypeOK' /\ link'[n] = "down" /\ ~Cur(n)'
  BY <1>1 DEF NetTypeOK, Leave, Cur
<1>3. \A k \in Nodes \ {n} : link'[k] = link[k] /\ srv'[k] = srv[k] /\ orph'[k] = orph[k]
  BY <1>1 DEF NetTypeOK, Leave
<1>4. ASSUME srv'[n] = "none", orph'[n] # <<>> PROVE orph'[n][1].type = "init"
  <2>1. srv[n] = "none" /\ ~Cur(n)
    BY <1>1, <1>4 DEF NetTypeOK, Leave, Cur
  <2>2. CASE link[n] = "up"
    <3>1. orph'[n] = dev[n].out
      BY <1>1, <2>1, <2>2 DEF NetTypeOK, Leave
    <3> QED BY <1>1, <2>1, <2>2, <3>1 DEF NodeInv, NewDeviceWaits
  <2>3. CASE link[n] # "up"
    <3>1. orph'[n] = orph[n]
      BY <1>1, <2>3 DEF NetTypeOK, Leave
    <3> QED BY <1>1, <1>4, <2>1, <3>1 DEF NodeInv
  <2> QED BY <2>2, <2>3
<1> QED BY <1>2, <1>3, <1>4

(* The device after the end of its loop.                                    *)
LEMMA DisconnectFacts ==
    ASSUME SystemInv, NEW n \in Nodes, Disconnect(n)
    PROVE  /\ QdeviceInv' /\ dev'[n].ring = dev[n].ring
           /\ \A has : DeviceSound(dev'[n], has)
           /\ \A k \in Nodes \ {n} : dev'[k] = dev[k]
<1>1. QdeviceInv /\ RingsInOrder(dev[n]) /\ dev[n] \in Device
  BY NodeTypes DEF SystemInv, NodeInv, DeviceSound
<1>2. StepOK(n)
  BY <1>1, DisconnectInv
<1>3. dev'[n] = Disconnected(dev[n])
  BY <1>1 DEF Disconnect, QdeviceInv
<1>4. QdeviceInv' /\ \A k \in Nodes \ {n} : dev'[k] = dev[k]
  BY <1>1, <1>2 DEF StepOK, QdeviceInv
<1>5. dev'[n].ring = dev[n].ring /\ \A has : DeviceSound(dev'[n], has)
  BY <1>1, <1>3, DisconnectedSound
<1> QED BY <1>4, <1>5

(* The device ends its connection.                                          *)
LEMMA DeviceLeavesInv ==
    ASSUME SystemInv, NEW n \in Nodes, DeviceDisconnects(n) \/ DeviceGivesUp(n)
    PROVE  SystemInv'
<1>1. Disconnect(n) /\ Leave(n) /\ UNCHANGED <<serverVars, coro, part>>
  BY DEF DeviceDisconnects, DeviceGivesUp, envVars
<1>2. QnetdInv' /\ clusterState' = clusterState
  BY <1>1, QnetdUnchanged DEF SystemInv, serverVars
<1>3. /\ QdeviceInv' /\ dev'[n].ring = dev[n].ring /\ \A has : DeviceSound(dev'[n], has)
      /\ \A k \in Nodes \ {n} : dev'[k] = dev[k]
  BY <1>1, DisconnectFacts
<1>4. /\ NetTypeOK' /\ link'[n] # "up" /\ ~Cur(n)'
      /\ srv'[n] = "none" /\ orph'[n] # <<>> => orph'[n][1].type = "init"
      /\ \A k \in Nodes \ {n} : link'[k] = link[k] /\ srv'[k] = srv[k] /\ orph'[k] = orph[k]
  BY <1>1, LeaveFacts
<1>5. \A k \in Nodes \ {n} : Untouched(k)
  BY <1>1, <1>3, <1>4 DEF Untouched, serverVars
<1> QED BY <1>1, <1>2, <1>3, <1>4, <1>5, DeviceLeft

(* The server closes the connection of a duplicate.                         *)
LEMMA ServerRejectsInv ==
    ASSUME SystemInv, NEW n \in Nodes, ServerRejects(n)
    PROVE  SystemInv'
<1>1. /\ Disconnect(n) /\ link' = [link EXCEPT ![n] = "down"] /\ srv[n] = "orph"
      /\ UNCHANGED <<serverVars, srv, orph, coro, part>>
  BY DEF ServerRejects, envVars
<1>2. QnetdInv' /\ clusterState' = clusterState
  BY <1>1, QnetdUnchanged DEF SystemInv, serverVars
<1>3. /\ QdeviceInv' /\ dev'[n].ring = dev[n].ring /\ \A has : DeviceSound(dev'[n], has)
      /\ \A k \in Nodes \ {n} : dev'[k] = dev[k]
  BY <1>1, DisconnectFacts
<1>4. NetTypeOK' /\ link'[n] # "up" /\ ~Cur(n)'
  BY <1>1 DEF SystemInv, NetTypeOK, Cur
<1>5. \A k \in Nodes \ {n} : Untouched(k)
  BY <1>1, <1>3 DEF Untouched, serverVars, SystemInv, NetTypeOK
<1> QED BY <1>1, <1>2, <1>3, <1>4, <1>5, DeviceLeft

(* A message of the server reaches the device.                              *)
LEMMA DeviceReceivesInv ==
    ASSUME SystemInv, NEW n \in Nodes, DeviceReceives(n)
    PROVE  SystemInv'
<1> DEFINE d  == dev[n]
           e  == dev'[n]
           r  == report[n].ring
           s  == algo[n].seq
           in == toClient[n]
           m  == Head(in)
<1>1. /\ Cur(n) /\ in # <<>> /\ Receive(n, m) /\ NetWrite(n)
      /\ IF e.state = "WAITING_CONNECT" THEN Leave(n) ELSE UNCHANGED netVars
      /\ UNCHANGED <<coro, part>>
  BY DEF DeviceReceives, Connected, Cur, envVars
<1>2. /\ d \in Device /\ r \in Int /\ s \in Int /\ in \in Seq(ServerMsg) /\ QdeviceInv
      /\ DeviceSound(d, Knows(n)) /\ ConnOK(d, r, s, in) /\ NodeInv(n)
  BY <1>1, NodeTypes DEF SystemInv, NodeInv, Conn
<1>3. m \in ServerMsg
  BY <1>1, <1>2, TailAt
<1>4. StepOK(n) /\ QnetdInv'
  BY <1>1, <1>2, <1>3, ReceiveInv, NetWriteInv DEF SystemInv
<1>5. QdeviceInv' /\ e \in Device /\ \A k \in Nodes \ {n} : dev'[k] = dev[k]
  BY <1>2, <1>4 DEF StepOK, QdeviceInv
<1>6. /\ report' = report /\ algo' = algo /\ clients' = clients /\ clusterState' = clusterState
      /\ toClient'[n] = Tail(in) /\ \A k \in Nodes \ {n} : toClient'[k] = toClient[k]
  BY <1>1 DEF NetWrite, SystemInv, QnetdInv, QnetdTypeOK
<1>7. /\ e.ring = d.ring
      /\ \/ e.state = "WAITING_CONNECT" /\ \A has : DeviceSound(e, has)
         \/ /\ e.state # "WAITING_CONNECT" /\ DeviceSound(e, Knows(n))
            /\ OwnStep(d, e) \/ Confirmed(d, e, m)
  BY <1>1, <1>2, <1>3, ReceiveSound
<1>8. CASE e.state = "WAITING_CONNECT"
  <2>1. \A has : DeviceSound(e, has)
    BY <1>7, <1>8
  <2>2. /\ NetTypeOK' /\ link'[n] # "up" /\ ~Cur(n)'
        /\ srv'[n] = "none" /\ orph'[n] # <<>> => orph'[n][1].type = "init"
        /\ \A k \in Nodes \ {n} : link'[k] = link[k] /\ srv'[k] = srv[k] /\ orph'[k] = orph[k]
    BY <1>1, <1>8, LeaveFacts
  <2>3. \A k \in Nodes \ {n} : Untouched(k)
    BY <1>1, <1>5, <1>6, <2>2 DEF Untouched
  <2> QED BY <1>1, <1>4, <1>5, <1>6, <1>7, <2>1, <2>2, <2>3, DeviceLeft
<1>9. CASE e.state # "WAITING_CONNECT"
  <2>1. /\ link' = link /\ srv' = srv /\ orph' = orph /\ coro' = coro /\ part' = part
        /\ DeviceSound(e, Knows(n)) /\ (OwnStep(d, e) \/ Confirmed(d, e, m))
    BY <1>1, <1>7, <1>9 DEF netVars
  <2>2. NetTypeOK' /\ Cur(n)' /\ Knows(n)' = Knows(n)
    BY <1>1, <1>6, <2>1 DEF SystemInv, NetTypeOK, Cur, Knows
  <2>3. \A k \in Nodes \ {n} : Untouched(k)
    BY <1>5, <1>6, <2>1 DEF Untouched
  <2>4. /\ ConnOK(e, r, s, Tail(in))
        /\ HasVote(e, r, Tail(in)) => HasVote(d, r, in)
        /\ NackOwed(d, r, s, in) => NackOwed(e, r, s, Tail(in))
    <3>1. CASE OwnStep(d, e)
      <4>1. /\ Tail(in) \in Seq(ServerMsg) /\ ConnOK(d, r, s, Tail(in))
            /\ HasVote(d, r, Tail(in)) => HasVote(d, r, in)
            /\ NackOwed(d, r, s, in) => NackOwed(d, r, s, Tail(in))
        BY <1>1, <1>2, FirstRead
      <4>2. /\ ConnOK(e, r, s, Tail(in))
            /\ HasVote(e, r, Tail(in)) => HasVote(d, r, Tail(in))
            /\ NackOwed(d, r, s, Tail(in)) => NackOwed(e, r, s, Tail(in))
        <5> HIDE DEF d, e, r, s, in
        <5> QED BY <1>2, <1>5, <3>1, <4>1, OwnStepConn
      <4> QED BY <4>1, <4>2
    <3>2. CASE Confirmed(d, e, m)
      <4>1. PICK reply \in ClientMsg :
                IsReply(reply) /\ reply.seq = m.seq /\ e.out = Append(d.out, reply)
        BY <3>2 DEF Confirmed
      <4>2. /\ Ready(d) /\ IsVote(m) /\ RingsInOrder(d)
            /\ e.ring = d.ring /\ e.sentRing = d.sentRing
            /\ m.ring # d.sentRing => e.vote = d.vote /\ e.polled = d.polled
            /\ m.ring = d.sentRing => e.vote = m.vote
            /\ m.ring = d.sentRing /\ ~d.paused => e.polled.cast = (m.vote = "ACK")
        BY <1>2, <3>2 DEF Confirmed, DeviceSound
      <4>3. m = Head(in)
        OBVIOUS
      <4> HIDE DEF d, e, r, s, in, m
      <4> QED BY <1>1, <1>2, <1>5, <4>1, <4>2, <4>3, VoteRead
    <3> QED BY <2>1, <3>1, <3>2
  <2>5. /\ Conn(n)' /\ (Holds(n)' => Holds(n)) /\ (Owes(n) => Owes(n)')
    BY <1>1, <1>6, <2>4 DEF Conn, Holds, Owes
  <2>6. NodeInv(n)'
    BY <1>1, <1>2, <1>6, <1>7, <1>9, <2>1, <2>2, <2>5 DEF NodeInv, NewDeviceWaits
  <2>7. NoVoteGained(n) /\ PhaseGoesOn(n)
    BY <1>1, <1>6, <2>5 DEF NoVoteGained, PhaseGoesOn
  <2> QED BY <1>4, <1>5, <1>6, <2>2, <2>3, <2>6, <2>7, OneNode
<1> QED BY <1>8, <1>9

-----------------------------------------------------------------------------
(* The rings of corosync, and the server alone.                             *)

(* A set of numbers with an upper bound has a maximum.                      *)
LEMMA MaximumExists ==
    ASSUME NEW b \in Int, NEW S, S \subseteq Int, S # {}, \A x \in S : x <= b
    PROVE  Max(S) \in S /\ \A x \in S : x <= Max(S)
<1> DEFINE T == {b - x : x \in S}
<1>1. T \subseteq Nat /\ T # {}
  <2>1. \A x \in S : b - x \in Nat
    OBVIOUS
  <2> QED BY <2>1
<1>2. PICK y \in T : \A z \in T : ~(<<z, y>> \in OpToRel(<, Nat))
  BY <1>1, WFMin, NatLessThanWellFounded, Zenon
<1>3. \A z \in T : <<z, y>> \in Nat \X Nat /\ ~(<<z, y>> \in OpToRel(<, Nat))
  BY <1>1, <1>2, Zenon
<1>4. \A z \in T : ~(z < y)
  <2>1. \A z \in T : <<z, y>>[1] = z /\ <<z, y>>[2] = y
    OBVIOUS
  <2> HIDE DEF T
  <2>2. ASSUME NEW z \in T, z < y PROVE <<z, y>> \in OpToRel(<, Nat)
    BY <1>3, <2>1, <2>2, Zenon DEF OpToRel
  <2> QED BY <1>3, <2>2, Zenon
<1>5. PICK x \in S : y = b - x
  OBVIOUS
<1>6. \A z \in S : x >= z
  <2> SUFFICES ASSUME NEW z \in S PROVE x >= z
    OBVIOUS
  <2>1. ~(b - z < b - x)
    BY <1>4, <1>5
  <2> QED BY <2>1
<1> QED BY <1>5, <1>6 DEF Max

(* Rings have a maximum.                                                    *)
LEMMA MaximumRing ==
    ASSUME NEW R, R \subseteq Rings, R # {}
    PROVE  Max(R) \in R /\ \A x \in R : x <= Max(R)
<1>1. MaxRing \in Int /\ R \subseteq Int /\ \A x \in R : x <= MaxRing
  BY SystemAssumption
<1> QED BY <1>1, MaximumExists, Zenon

(* The newest of the rings that corosync runs.                              *)
LEMMA NewestRing ==
    ASSUME coro \in [Nodes -> Rings], NEW k \in Nodes,
           NEW R, R = {coro[n] : n \in Nodes}
    PROVE  Max(R) \in Rings /\ \A n \in Nodes : coro[n] <= Max(R)
<1>1. R \subseteq Rings
  OBVIOUS
<1>2. \A n \in Nodes : coro[n] \in R
  OBVIOUS
<1> QED BY <1>1, <1>2, MaximumRing, Zenon

(* corosync forms a ring.                                                   *)
LEMMA FormRingInv ==
    ASSUME SystemInv, NEW S \in (SUBSET Nodes) \ {{}}, FormRing(S)
    PROVE  SystemInv'
<1> DEFINE R == {coro[n] : n \in Nodes}
           r == Max(R) + 1
<1>1. /\ r <= MaxRing
      /\ coro' = [n \in Nodes |-> IF n \in S THEN r ELSE coro[n]]
      /\ part' = [n \in Nodes |-> IF n \in S THEN S ELSE part[n]]
      /\ UNCHANGED <<serverVars, dev, netVars>>
  BY DEF FormRing
<1>2. coro \in [Nodes -> Rings] /\ Rings = 1 .. MaxRing /\ MaxRing \in Nat
  BY SystemAssumption DEF SystemInv, NetTypeOK
<1>3. Max(R) \in Rings /\ \A n \in Nodes : coro[n] <= Max(R)
  <2>1. PICK k \in Nodes : TRUE
    OBVIOUS
  <2>2. R = {coro[n] : n \in Nodes}
    OBVIOUS
  <2> HIDE DEF R
  <2> QED BY <1>2, <2>1, <2>2, NewestRing, Zenon
<1> HIDE DEF R
<1>4. r \in Rings /\ \A n \in Nodes : coro[n] <= r
  <2>1. Max(R) \in 1 .. MaxRing /\ Max(R) \in Int
    BY <1>2, <1>3
  <2>2. \A n \in Nodes : coro[n] \in Int
    BY <1>2
  <2> QED BY <1>1, <1>2, <1>3, <2>1, <2>2
<1> HIDE DEF r
<1>5. NetTypeOK'
  BY <1>1, <1>4 DEF SystemInv, NetTypeOK, netVars
<1>6. \A n \in Nodes : dev[n].ring <= coro'[n]
  <2> SUFFICES ASSUME NEW n \in Nodes PROVE dev[n].ring <= coro'[n]
    OBVIOUS
  <2>1. dev[n].ring <= coro[n] /\ dev[n].ring \in Int /\ coro[n] \in Int /\ r \in Int
    BY <1>4, NodeTypes, RingsAreNumbers DEF SystemInv, NodeInv
  <2> QED BY <1>1, <1>4, <2>1
<1>7. QnetdInv' /\ QdeviceInv'
  BY <1>1, QnetdUnchanged DEF SystemInv, QdeviceInv
<1>8. ASSUME NEW n \in Nodes PROVE NodeInv(n)'
  BY <1>1, <1>6 DEF SystemInv, NodeInv, NewDeviceWaits, Knows, Cur, Conn, netVars, serverVars
<1>9. VotesAgree' /\ AcksAgree' /\ NacksOwed'
  BY <1>1 DEF SystemInv, VotesAgree, AcksAgree, NacksOwed, Holds, Owes, Cur, netVars, serverVars
<1> QED BY <1>5, <1>7, <1>8, <1>9 DEF SystemInv

(* A disconnect that is only scheduled changes nothing yet.                 *)
LEMMA ServerSchedulesInv ==
    ASSUME SystemInv, NEW n \in Nodes, ServerNoticesEnd(n) \/ ServerGivesUp(n)
    PROVE  SystemInv'
<1>1. ScheduleDisconnect(n) /\ UNCHANGED <<dev, netVars, coro, part>>
  BY DEF ServerNoticesEnd, ServerGivesUp, envVars
<1>2. QnetdInv' /\ QdeviceInv' /\ NetTypeOK'
  BY <1>1, ScheduleDisconnectInv DEF SystemInv, QdeviceInv, NetTypeOK, netVars
<1>3. \A k \in Nodes : Untouched(k) /\ NodeInv(k)
  BY <1>1 DEF Untouched, ScheduleDisconnect, netVars, SystemInv
<1>4. NodeInv(n)' /\ NoVoteGained(n) /\ PhaseGoesOn(n) /\ clusterState' = clusterState
  BY <1>1, <1>3, UntouchedNode DEF ScheduleDisconnect
<1> QED BY <1>2, <1>3, <1>4, OneNode

(* A device of which the server knows nothing any more is not asked for     *)
(* anything.                                                                *)
LEMMA AnnouncedAnyway ==
    ASSUME NEW d, NEW has, DeviceSound(d, has)
    PROVE  DeviceSound(d, TRUE)
BY DEF DeviceSound, Announced

(* qnetd crashes and is started again.                                      *)
LEMMA ServerRestartsInv ==
    ASSUME SystemInv, ServerRestarts
    PROVE  SystemInv'
<1>1. /\ Restart
      /\ link' = [n \in Nodes |-> IF link[n] = "up" THEN "closed" ELSE link[n]]
      /\ srv' = [n \in Nodes |-> "none"]
      /\ orph' = [n \in Nodes |-> <<>>]
      /\ UNCHANGED <<dev, coro, part>>
  BY DEF ServerRestarts
<1>2. QnetdInv' /\ QdeviceInv'
  BY <1>1, RestartInv DEF SystemInv, QdeviceInv
<1>3. NetTypeOK'
  BY <1>1, ClientMessages DEF SystemInv, NetTypeOK
<1>4. \A n \in Nodes : ~Cur(n)' /\ link'[n] # "up" /\ Knows(n)'
  BY <1>1 DEF Cur, Knows
<1>5. ASSUME NEW n \in Nodes PROVE NodeInv(n)'
  <2>1. Knows(n)' = TRUE
    BY <1>4 DEF Knows
  <2>2. DeviceSound(dev[n], TRUE) /\ dev[n].ring <= coro[n]
    BY AnnouncedAnyway DEF SystemInv, NodeInv
  <2> QED BY <1>1, <1>4, <2>1, <2>2 DEF NodeInv, NewDeviceWaits
<1>6. VotesAgree' /\ AcksAgree' /\ NacksOwed'
  BY <1>4 DEF VotesAgree, AcksAgree, NacksOwed, Holds
<1> QED BY <1>2, <1>3, <1>5, <1>6 DEF SystemInv

-----------------------------------------------------------------------------
(* Decisions of the server.                                                 *)

(* A vote is sent to client k, or there is no buffer left for it.           *)
VoteSent(d, rep, k, v) ==
    /\ d.algo[k].seq = algo[k].seq + 1
    /\ \E m \in ServerMsg :
           /\ IsVote(m) /\ m.seq = algo[k].seq + 1 /\ m.ring = rep[k].ring /\ m.vote = v
           /\ d.out[k] = toClient[k] \/ d.out[k] = Append(toClient[k], m)

(***************************************************************************)
(* The three decisions of FfsplitDo about the clients `live' with the      *)
(* reports rep: none yet, NACKs to some of them while the others, which    *)
(* are in one ring, wait for their ACK, or an ACK to all of them, which    *)
(* are in one ring.                                                        *)
(***************************************************************************)
DecisionWaits(d) ==
    d.state = "WAITING_FOR_STABLE_MEMBERSHIP" /\ d.algo = algo /\ d.out = toClient
DecisionNacks(d, rep, live) ==
    /\ \A k \in live :
           \/ /\ d.algo[k].state = "SENDING_ACK" /\ d.algo[k].seq = algo[k].seq
              /\ d.out[k] = toClient[k]
           \/ d.algo[k].state = "SENDING_NACK" /\ VoteSent(d, rep, k, "NACK")
    /\ \A k, n \in live :
           d.algo[k].state = "SENDING_ACK" /\ d.algo[n].state = "SENDING_ACK" =>
               rep[k].ring = rep[n].ring
DecisionAcks(d, rep, live) ==
    /\ d.state # "SENDING_NACKS"
    /\ \A k \in live : VoteSent(d, rep, k, "ACK")
    /\ \A k, n \in live : rep[k].ring = rep[n].ring

(* A sequence number that does not wrap around advances by one.             *)
LEMMA SeqIsNext ==
    ASSUME QnetdTypeOK, SeqNumbersLast, NEW k \in Nodes
    PROVE  /\ (algo[k].seq + 1) % SeqMod = algo[k].seq + 1
           /\ algo[k].seq + 1 \in SeqNums
<1>1. algo[k].seq \in SeqNums /\ algo[k].seq < SeqMod - 1
  BY DEF QnetdTypeOK, Algo, SeqNumbersLast
<1>2. SeqMod \in Nat
  BY SeqAssumption
<1>3. algo[k].seq \in Nat /\ algo[k].seq + 1 < SeqMod
  BY <1>1, <1>2 DEF SeqNums
<1> QED BY <1>2, <1>3 DEF SeqNums

(* What send_votes does for one client.                                     *)
LEMMA VotedIsSent ==
    ASSUME QnetdTypeOK, SeqNumbersLast, NEW al, NEW to, NEW rep, NEW vote \in {"ACK", "NACK"},
           NEW k \in Nodes, k \in to, al[k].seq = algo[k].seq, al[k] \in Algo,
           rep[k].ring \in Rings,
           NEW d, d.algo = VotedAlgo(al, to), d.out = VotedOut(al, rep, to, vote)
    PROVE  VoteSent(d, rep, k, vote)
<1> DEFINE m == [type |-> "vote_info", seq |-> (al[k].seq + 1) % SeqMod,
                 ring |-> rep[k].ring, vote |-> vote]
<1>1. (al[k].seq + 1) % SeqMod = algo[k].seq + 1 /\ algo[k].seq + 1 \in SeqNums
  BY SeqIsNext
<1>2. m \in ServerMsg
  BY <1>1, ServerMessages
<1>3. IsVote(m) /\ m.seq = algo[k].seq + 1 /\ m.ring = rep[k].ring /\ m.vote = vote
  BY <1>1 DEF IsVote
<1>4. d.algo[k].seq = algo[k].seq + 1
  <2>1. d.algo[k] = [al[k] EXCEPT !.seq = (@ + 1) % SeqMod]
    BY DEF VotedAlgo
  <2> QED BY <1>1, <2>1 DEF Algo
<1>5. d.out[k] = toClient[k] \/ d.out[k] = Append(toClient[k], m)
  BY DEF VotedOut
<1> HIDE DEF m
<1> QED BY <1>2, <1>3, <1>4, <1>5 DEF VoteSent

(* qnetd_algo_ffsplit_do does one of three things.                          *)
LEMMA DecisionShape ==
    ASSUME QnetdInv, SeqNumbersLast, NEW c \in clients, NEW leaving \in BOOLEAN,
           NEW new \in Report, NEW d, d = FfsplitDo(c, leaving, new),
           NEW rep, rep = Reports([n \in clients |-> report[n]], c, new),
           NEW live, live = Live(clients, c, leaving)
    PROVE  DecisionWaits(d) \/ DecisionNacks(d, rep, live) \/ DecisionAcks(d, rep, live)
<1> DEFINE stored == [n \in clients |-> report[n]]
           best   == SelectPartition(stored, c, leaving, new, quorate)
           q      == IF best \in live THEN rep[best].members ELSE {}
           nacks  == live \ q
           al     == UpdateNodesState(c, leaving, q)
           to     == IF nacks # {} THEN nacks ELSE live
           vote   == IF nacks # {} THEN "NACK" ELSE "ACK"
           wait   == [abort |-> FALSE, result |-> "WAIT_FOR_REPLY",
                      state |-> "WAITING_FOR_STABLE_MEMBERSHIP", quorate |-> quorate,
                      algo |-> algo, last |-> lastVote, out |-> toClient, failed |-> {}]
           told   == [abort |-> best = AssertFailed, result |-> "NO_CHANGE",
                      state |-> IF nacks # {} THEN "SENDING_NACKS"
                                ELSE IF live # {} THEN "SENDING_ACKS" ELSE "WAITING_FOR_CHANGE",
                      quorate |-> q,
                      algo |-> VotedAlgo(al, to), last |-> VotedLast(to, vote),
                      out |-> VotedOut(al, rep, to, vote), failed |-> VoteFailed(c, to)]
<1>0. d = IF ~IsMembershipStable(rep, live) THEN wait ELSE told
  BY DEF FfsplitDo
<1>1. live \subseteq clients /\ live \subseteq Nodes
  BY DEF QnetdInv, QnetdTypeOK, Live
<1>2. \A n \in live : rep[n] \in Report /\ rep[n].ring \in Rings
  BY <1>1 DEF Reports, QnetdInv, QnetdTypeOK, Report
<1>3. CASE ~IsMembershipStable(rep, live)
  BY <1>0, <1>3 DEF DecisionWaits
<1>4. CASE IsMembershipStable(rep, live)
  <2>1. d = told
    BY <1>0, <1>4
  <2>2. /\ d.state = (IF nacks # {} THEN "SENDING_NACKS"
                      ELSE IF live # {} THEN "SENDING_ACKS" ELSE "WAITING_FOR_CHANGE")
        /\ d.algo = VotedAlgo(al, to) /\ d.out = VotedOut(al, rep, to, vote)
    <3> HIDE DEF nacks, al, to, vote, best, q
    <3> QED BY <2>1
  <2>3. al \in [Nodes -> Algo]
        /\ \A k \in live : al[k].state = (IF k \in q THEN "SENDING_ACK" ELSE "SENDING_NACK")
    <3> HIDE DEF q
    <3> QED BY NodesStateUpdated DEF QnetdInv
  <2>4. \A k \in Nodes : al[k].seq = algo[k].seq
    <3> HIDE DEF q
    <3> QED BY DEF UpdateNodesState, QnetdInv, QnetdTypeOK, Algo
  <2>5. \A k \in live \cap q : rep[k].ring = rep[best].ring
    BY <1>4 DEF IsMembershipStable
  <2>6. \A k \in to : VoteSent(d, rep, k, vote)
    <3> SUFFICES ASSUME NEW k \in to PROVE VoteSent(d, rep, k, vote)
      OBVIOUS
    <3>1. k \in Nodes /\ rep[k].ring \in Rings /\ vote \in {"ACK", "NACK"}
      BY <1>1, <1>2
    <3> HIDE DEF al, to, vote
    <3> QED BY <2>2, <2>3, <2>4, <3>1, VotedIsSent DEF QnetdInv
  <2>7. \A k \in live : d.algo[k].state = al[k].state
    <3> HIDE DEF al, to
    <3> QED BY <1>1, <2>2, <2>3 DEF VotedAlgo, Algo
  <2>8. \A k \in live : k \notin to => d.algo[k].seq = algo[k].seq /\ d.out[k] = toClient[k]
    <3> HIDE DEF al, to
    <3> QED BY <1>1, <2>2, <2>4 DEF VotedAlgo, VotedOut
  <2>9. CASE nacks # {}
    <3>1. to = nacks /\ vote = "NACK"
      BY <2>9
    <3>2. \A k \in live :
              \/ k \in q /\ k \notin to /\ d.algo[k].state = "SENDING_ACK"
              \/ k \in to /\ d.algo[k].state = "SENDING_NACK"
      BY <2>3, <2>7, <3>1
    <3> HIDE DEF al, to, vote, nacks, q, best
    <3>3. \A k, n \in live :
              d.algo[k].state = "SENDING_ACK" /\ d.algo[n].state = "SENDING_ACK" =>
                  rep[k].ring = rep[n].ring
      BY <2>5, <3>2
    <3> QED BY <2>6, <2>8, <3>1, <3>2, <3>3 DEF DecisionNacks
  <2>10. CASE nacks = {}
    <3>1. to = live /\ vote = "ACK" /\ live \subseteq q /\ d.state # "SENDING_NACKS"
      BY <2>2, <2>10
    <3> HIDE DEF al, to, vote, nacks, q, best
    <3>2. \A k, n \in live : rep[k].ring = rep[n].ring
      BY <2>5, <3>1
    <3> QED BY <2>6, <3>1, <3>2 DEF DecisionAcks
  <2> QED BY <2>9, <2>10, SMTT(30)
<1> QED BY <1>3, <1>4

(* The connection of a client that is sent a vote.                          *)
LEMMA VoteSentConn ==
    ASSUME NEW k \in Nodes, NEW e \in Device, NEW d, NEW rep, NEW v,
           algo[k].seq \in Int, toClient[k] \in Seq(ServerMsg), rep[k].ring \in Int,
           VoteSent(d, rep, k, v), ConnOK(e, rep[k].ring, algo[k].seq, toClient[k])
    PROVE  /\ d.out[k] \in Seq(ServerMsg)
           /\ ConnOK(e, rep[k].ring, d.algo[k].seq, d.out[k])
           /\ v = "NACK" =>
                  /\ HasVote(e, rep[k].ring, d.out[k]) => HasVote(e, rep[k].ring, toClient[k])
                  /\ NackOwed(e, rep[k].ring, d.algo[k].seq, d.out[k])
<1>1. PICK m \in ServerMsg :
          /\ IsVote(m) /\ m.seq = algo[k].seq + 1 /\ m.ring = rep[k].ring /\ m.vote = v
          /\ d.out[k] = toClient[k] \/ d.out[k] = Append(toClient[k], m)
  BY DEF VoteSent
<1>2. d.algo[k].seq = algo[k].seq + 1
  BY DEF VoteSent
<1> DEFINE r == rep[k].ring
           s == algo[k].seq
           in == toClient[k]
           in2 == d.out[k]
<1>3. /\ r \in Int /\ s \in Int /\ in \in Seq(ServerMsg) /\ ConnOK(e, r, s, in)
      /\ in2 = in \/ in2 = Append(in, m)
      /\ m.seq = s + 1 /\ m.ring = r
  BY <1>1
<1> HIDE DEF r, s, in, in2
<1>4. /\ in2 \in Seq(ServerMsg)
      /\ ConnOK(e, r, s + 1, in2)
      /\ m.vote = "NACK" => /\ HasVote(e, r, in2) => HasVote(e, r, in)
                            /\ NackOwed(e, r, s + 1, in2)
  BY <1>1, <1>3, VoteQueued
<1> QED BY <1>1, <1>2, <1>4 DEF r, s, in, in2

(* A client before a decision of which the votes are then sent, and what    *)
(* the step makes of it.                                                    *)
DecidedFor(d, rep, live, k) ==
    /\ Cur(k) /\ k \in live /\ report'[k].ring = rep[k].ring
    /\ ConnOK(dev'[k], report'[k].ring, algo[k].seq, toClient[k])
    /\ HasVote(dev'[k], report'[k].ring, toClient[k]) =>
           Holds(k) /\ report'[k].ring = report[k].ring
    /\ algo'[k] = d.algo[k]
    /\ \/ toClient'[k] = d.out[k]
       \/ \E m \in ServerMsg : ~IsVote(m) /\ toClient'[k] = Append(d.out[k], m)

(* The reply that follows the votes of a decision changes nothing.          *)
LEMMA RepliedConn ==
    ASSUME NEW k \in Nodes, dev'[k] \in Device, NEW d, NEW rep, NEW live,
           DecidedFor(d, rep, live, k), rep[k].ring \in Int, d.algo[k].seq \in Int,
           d.out[k] \in Seq(ServerMsg),
           ConnOK(dev'[k], rep[k].ring, d.algo[k].seq, d.out[k])
    PROVE  /\ Conn(k)'
           /\ HasVote(dev'[k], report'[k].ring, toClient'[k]) =>
                  HasVote(dev'[k], rep[k].ring, d.out[k])
           /\ NackOwed(dev'[k], rep[k].ring, d.algo[k].seq, d.out[k]) => Owes(k)'
<1> DEFINE e == dev'[k]
           r == rep[k].ring
           s == d.algo[k].seq
           in == d.out[k]
           in2 == toClient'[k]
<1>1. report'[k].ring = r /\ algo'[k].seq = s
  BY DEF DecidedFor
<1>2. /\ e \in Device /\ r \in Int /\ s \in Int /\ in \in Seq(ServerMsg) /\ ConnOK(e, r, s, in)
      /\ in2 = in \/ \E m \in ServerMsg : ~IsVote(m) /\ in2 = Append(in, m)
  BY DEF DecidedFor
<1>3. /\ ConnOK(e, r, s, in2)
      /\ HasVote(e, r, in2) => HasVote(e, r, in)
      /\ NackOwed(e, r, s, in) => NackOwed(e, r, s, in2)
  <2> HIDE DEF e, r, s, in, in2
  <2>1. CASE in2 = in
    BY <1>2, <2>1
  <2>2. CASE \E m \in ServerMsg : ~IsVote(m) /\ in2 = Append(in, m)
    <3>1. PICK m \in ServerMsg : ~IsVote(m) /\ in2 = Append(in, m)
      BY <2>2
    <3> QED BY <1>2, <3>1, OtherQueued
  <2> QED BY <1>2, <2>1, <2>2
<1> QED BY <1>1, <1>3 DEF Conn, Owes

(* The votes of a decision leave the nodes in agreement.                    *)
LEMMA DecisionStep ==
    ASSUME SystemInv, dev' \in [Nodes -> Device], NEW d, NEW rep, NEW live,
           DecisionWaits(d) \/ DecisionNacks(d, rep, live) \/ DecisionAcks(d, rep, live),
           d.state # "SENDING_NACKS" => clusterState' # "SENDING_NACKS",
           \A k \in live : rep[k].ring \in Int /\ d.algo[k].seq \in Int,
           \A k \in Nodes : Cur(k)' => DecidedFor(d, rep, live, k)
    PROVE  VotesAgree' /\ AcksAgree' /\ NacksOwed' /\ \A k \in Nodes : Cur(k)' => Conn(k)'
<1>1. ASSUME NEW k \in Nodes, Cur(k)'
      PROVE  /\ DecidedFor(d, rep, live, k) /\ k \in live /\ rep[k].ring \in Int
             /\ dev'[k] \in Device /\ d.algo[k].seq \in Int
             /\ algo[k].seq \in Int /\ toClient[k] \in Seq(ServerMsg)
             /\ report'[k].ring = rep[k].ring /\ algo'[k] = d.algo[k]
             /\ ConnOK(dev'[k], rep[k].ring, algo[k].seq, toClient[k])
             /\ HasVote(dev'[k], rep[k].ring, toClient[k]) =>
                    Holds(k) /\ rep[k].ring = report[k].ring
  <2>1. DecidedFor(d, rep, live, k) /\ algo[k].seq \in Int /\ toClient[k] \in Seq(ServerMsg)
    BY <1>1, NodeTypes
  <2> QED BY <2>1 DEF DecidedFor
<1>2. CASE DecisionWaits(d)
  <2>1. ASSUME NEW k \in Nodes, Cur(k)' PROVE Conn(k)' /\ NoVoteGained(k)
    <3>1. d.out[k] = toClient[k] /\ d.algo[k].seq = algo[k].seq
      BY <1>2 DEF DecisionWaits
    <3>2. /\ Conn(k)'
          /\ HasVote(dev'[k], report'[k].ring, toClient'[k]) =>
                 HasVote(dev'[k], rep[k].ring, d.out[k])
      BY <1>1, <2>1, <3>1, RepliedConn
    <3> QED BY <1>1, <2>1, <3>1, <3>2 DEF NoVoteGained, Holds
  <2>2. \A k \in Nodes : NoVoteGained(k)
    BY <2>1 DEF NoVoteGained, Holds
  <2>3. clusterState' # "SENDING_NACKS"
    BY <1>2 DEF DecisionWaits
  <2> QED BY <2>1, <2>2, <2>3, VotesKept DEF SystemInv, AcksAgree, NacksOwed
<1>3. CASE DecisionNacks(d, rep, live)
  <2>1. ASSUME NEW k \in Nodes, Cur(k)'
        PROVE  /\ Conn(k)' /\ NoVoteGained(k)
               /\ algo'[k].state = "SENDING_NACK" => Owes(k)'
               /\ algo'[k].state # "WAITING_FOR_CHANGE"
    <3>1. CASE d.algo[k].state = "SENDING_ACK" /\ d.algo[k].seq = algo[k].seq
               /\ d.out[k] = toClient[k]
      <4>1. /\ Conn(k)'
            /\ HasVote(dev'[k], report'[k].ring, toClient'[k]) =>
                   HasVote(dev'[k], rep[k].ring, d.out[k])
        BY <1>1, <2>1, <3>1, RepliedConn
      <4> QED BY <1>1, <2>1, <3>1, <4>1 DEF NoVoteGained, Holds
    <3>2. CASE d.algo[k].state = "SENDING_NACK" /\ VoteSent(d, rep, k, "NACK")
      <4>1. /\ d.out[k] \in Seq(ServerMsg)
            /\ ConnOK(dev'[k], rep[k].ring, d.algo[k].seq, d.out[k])
            /\ HasVote(dev'[k], rep[k].ring, d.out[k]) => HasVote(dev'[k], rep[k].ring, toClient[k])
            /\ NackOwed(dev'[k], rep[k].ring, d.algo[k].seq, d.out[k])
        BY <1>1, <2>1, <3>2, VoteSentConn
      <4>2. /\ Conn(k)'
            /\ HasVote(dev'[k], report'[k].ring, toClient'[k]) =>
                   HasVote(dev'[k], rep[k].ring, d.out[k])
            /\ Owes(k)'
        BY <1>1, <2>1, <4>1, RepliedConn
      <4> QED BY <1>1, <2>1, <3>2, <4>1, <4>2 DEF NoVoteGained, Holds
    <3> QED BY <1>1, <1>3, <2>1, <3>1, <3>2 DEF DecisionNacks
  <2>2. \A k \in Nodes : NoVoteGained(k)
    BY <2>1 DEF NoVoteGained, Holds
  <2>3. \A k, n \in Nodes : Cur(k)' /\ Cur(n)' /\ algo'[k].state = "SENDING_ACK"
                            /\ algo'[n].state = "SENDING_ACK" => report'[k].ring = report'[n].ring
    BY <1>1, <1>3 DEF DecisionNacks
  <2>4. AcksAgree' /\ NacksOwed'
    BY <2>1, <2>3 DEF AcksAgree, NacksOwed
  <2> QED BY <2>1, <2>2, <2>4, VotesKept DEF SystemInv
<1>4. CASE DecisionAcks(d, rep, live)
  <2>1. ASSUME NEW k \in Nodes, Cur(k)' PROVE Conn(k)'
    <3>1. VoteSent(d, rep, k, "ACK")
      BY <1>1, <1>4, <2>1 DEF DecisionAcks
    <3>2. d.out[k] \in Seq(ServerMsg) /\ ConnOK(dev'[k], rep[k].ring, d.algo[k].seq, d.out[k])
      BY <1>1, <2>1, <3>1, VoteSentConn
    <3> QED BY <1>1, <2>1, <3>2, RepliedConn
  <2>2. clusterState' # "SENDING_NACKS"
    BY <1>4 DEF DecisionAcks
  <2>3. \A k, n \in Nodes : Cur(k)' /\ Cur(n)' => report'[k].ring = report'[n].ring
    BY <1>1, <1>4 DEF DecisionAcks
  <2>4. VotesAgree'
    BY <2>3 DEF VotesAgree, Holds
  <2> QED BY <2>1, <2>2, <2>4 DEF AcksAgree, NacksOwed
<1> QED BY <1>2, <1>3, <1>4

-----------------------------------------------------------------------------
(* The server handles a message.                                            *)

(* The invariant of the server alone.                                       *)
LEMMA HandleInv ==
    ASSUME QnetdInv, NEW n \in Nodes, NEW msg \in ClientMsg, Handle(n, msg)
    PROVE  QnetdInv' /\ n \in clients /\ clients' = clients
<1>1. /\ msg.type = "set_option" => msg.keep \in KeepOptions
      /\ msg.type = "config_node_list" => msg.nodes \in ConfigLists /\ msg.initial \in BOOLEAN
      /\ msg.type = "membership_node_list" =>
             msg.ring \in Rings /\ msg.nodes \in MemberLists /\ msg.heur \in HeurResults
      /\ msg.type = "heuristics_change" => msg.heur \in HeurResults
      /\ msg.type = "vote_info_reply" => msg.seq \in SeqNums
  BY DEF ClientMsg
<1>2. CASE msg.type = "set_option" /\ SetOption(n, msg.keep)
  BY <1>1, <1>2, SetOptionInv DEF SetOption, CanRead
<1>3. CASE msg.type = "config_node_list" /\ ConfigNodeListReceived(n, msg.nodes, msg.initial)
  <2>1. QnetdInv'
    BY <1>1, <1>3, ConfigNodeListInv
  <2>2. n \in clients /\ clients' = clients
    BY <1>3
       DEF ConfigNodeListReceived, CanRead, ServerError, JustReply, StoreAndReply, DecideAndReply
  <2> QED BY <2>1, <2>2
<1>4. CASE msg.type = "membership_node_list"
           /\ MembershipNodeListReceived(n, msg.ring, msg.nodes, msg.heur)
  <2>1. QnetdInv'
    BY <1>1, <1>4, MembershipNodeListInv
  <2>2. n \in clients /\ clients' = clients
    BY <1>4
       DEF MembershipNodeListReceived, CanRead, ServerError, JustReply, StoreAndReply, DecideAndReply
  <2> QED BY <2>1, <2>2
<1>5. CASE msg.type = "quorum_node_list" /\ QuorumNodeListReceived(n)
  BY <1>5, QuorumNodeListInv DEF QuorumNodeListReceived, CanRead, JustReply
<1>6. CASE msg.type = "heuristics_change" /\ HeuristicsChangeReceived(n, msg.heur)
  <2>1. QnetdInv'
    BY <1>1, <1>6, HeuristicsChangeInv
  <2>2. n \in clients /\ clients' = clients
    BY <1>6
       DEF HeuristicsChangeReceived, CanRead, ServerError, JustReply, StoreAndReply, DecideAndReply
  <2> QED BY <2>1, <2>2
<1>7. CASE msg.type = "vote_info_reply" /\ VoteInfoReplyReceived(n, msg.seq)
  BY <1>1, <1>7, VoteInfoReplyInv DEF VoteInfoReplyReceived, CanRead, serverVars
<1> QED BY <1>2, <1>3, <1>4, <1>5, <1>6, <1>7 DEF Handle

(* The step, apart from what the handler does to the server.                *)
LEMMA HandledFrame ==
    ASSUME SystemInv, NEW n \in Nodes, ServerReceives(n)
    PROVE  /\ Cur(n) /\ dev[n].out # <<>> /\ Handle(n, Head(dev[n].out))
           /\ Head(dev[n].out) \in ClientMsg
           /\ dev'[n] = [dev[n] EXCEPT !.out = Tail(dev[n].out)]
           /\ \A k \in Nodes \ {n} : dev'[k] = dev[k]
           /\ link' = link /\ srv' = srv /\ orph' = orph /\ coro' = coro /\ part' = part
           /\ QdeviceInv' /\ NetTypeOK' /\ QnetdInv' /\ clients' = clients
<1>1. /\ Cur(n) /\ dev[n].out # <<>> /\ Handle(n, Head(dev[n].out)) /\ DeviceWrite(n)
      /\ link' = link /\ srv' = srv /\ orph' = orph /\ coro' = coro /\ part' = part
  BY DEF ServerReceives, Connected, Cur, netVars, envVars
<1>2. QdeviceInv /\ QnetdInv /\ dev[n] \in Device
  BY NodeTypes DEF SystemInv
<1>3. StepOK(n)
  BY <1>1, <1>2, DeviceWriteInv
<1>4. QdeviceInv' /\ \A k \in Nodes \ {n} : dev'[k] = dev[k]
  BY <1>2, <1>3 DEF StepOK, QdeviceInv
<1>5. dev'[n] = [dev[n] EXCEPT !.out = Tail(dev[n].out)]
  BY <1>1, <1>2 DEF DeviceWrite, QdeviceInv
<1>6. Head(dev[n].out) \in ClientMsg
  BY <1>1, <1>2, FirstHandled
<1>7. QnetdInv' /\ clients' = clients
  BY <1>1, <1>2, <1>6, HandleInv
<1>8. NetTypeOK'
  BY <1>1 DEF SystemInv, NetTypeOK
<1> QED BY <1>1, <1>4, <1>5, <1>6, <1>7, <1>8

(* The node whose message was handled.                                      *)
LEMMA HandledNode ==
    ASSUME SystemInv, NEW n \in Nodes, ServerReceives(n),
           report'[n].config = report[n].config \/ report'[n].config # {},
           IsConfig(Head(dev[n].out)) => report'[n].config # {},
           Conn(n)'
    PROVE  NodeInv(n)'
<1> DEFINE d == dev[n]
           e == dev'[n]
<1>1. /\ Cur(n) /\ d.out # <<>> /\ e = [d EXCEPT !.out = Tail(d.out)]
      /\ link' = link /\ srv' = srv /\ orph' = orph /\ coro' = coro /\ clients' = clients
  BY HandledFrame
<1>2. NodeInv(n) /\ d \in Device /\ Cur(n)' /\ Knows(n) \in BOOLEAN /\ Knows(n)' \in BOOLEAN
  BY <1>1, NodeTypes DEF SystemInv, Cur, Knows
<1>3. e.ring = d.ring /\ e.state = d.state
  BY <1>1, <1>2, FirstHandled
<1>4. Knows(n) \/ IsConfig(Head(d.out)) => Knows(n)'
  BY <1>1, <1>2 DEF Knows
<1>5. DeviceSound(e, Knows(n)')
  <2>1. RingsInOrder(d) /\ OutInOrder(d) /\ Announced(d, Knows(n))
    BY <1>2 DEF NodeInv, DeviceSound
  <2> HIDE DEF d, e
  <2>2. RingsInOrder(e) /\ OutInOrder(e) /\ Announced(e, Knows(n)')
    BY <1>1, <1>2, <1>4, <2>1, FirstHandledOrder
  <2> QED BY <2>2 DEF DeviceSound
<1> QED BY <1>1, <1>2, <1>3, <1>5 DEF NodeInv, NewDeviceWaits

(* A message that is answered at most, and changes neither the ring nor     *)
(* the sequence number of the client, leaves its connection as it is.       *)
LEMMA QuietlyHandled ==
    ASSUME SystemInv, NEW n \in Nodes, ServerReceives(n),
           report'[n].ring = report[n].ring, algo'[n].seq = algo[n].seq,
           \/ toClient'[n] = toClient[n]
           \/ \E m \in ServerMsg : ~IsVote(m) /\ toClient'[n] = Append(toClient[n], m)
    PROVE  Conn(n)' /\ (Holds(n)' => Holds(n)) /\ (Owes(n) => Owes(n)')
<1> DEFINE d == dev[n]
           e == dev'[n]
           r == report[n].ring
           s == algo[n].seq
           in == toClient[n]
           in2 == toClient'[n]
<1>1. /\ Cur(n) /\ d.out # <<>> /\ e = [d EXCEPT !.out = Tail(d.out)]
  BY HandledFrame
<1>2. /\ d \in Device /\ r \in Int /\ s \in Int /\ in \in Seq(ServerMsg) /\ ConnOK(d, r, s, in)
  BY <1>1, NodeTypes DEF SystemInv, NodeInv, Conn
<1>3. in2 = in \/ \E m \in ServerMsg : ~IsVote(m) /\ in2 = Append(in, m)
  OBVIOUS
<1>4. /\ ConnOK(e, r, s, in2)
      /\ HasVote(e, r, in2) => HasVote(d, r, in)
      /\ NackOwed(d, r, s, in) => NackOwed(e, r, s, in2)
  <2> HIDE DEF d, e, r, s, in, in2
  <2>1. /\ ConnOK(e, r, s, in) /\ e \in Device
        /\ HasVote(e, r, in) => HasVote(d, r, in)
        /\ NackOwed(d, r, s, in) => NackOwed(e, r, s, in)
    BY <1>1, <1>2, FirstHandledConn, FirstHandled
  <2>2. CASE in2 = in
    BY <2>1, <2>2
  <2>3. CASE \E m \in ServerMsg : ~IsVote(m) /\ in2 = Append(in, m)
    <3>1. PICK m \in ServerMsg : ~IsVote(m) /\ in2 = Append(in, m)
      BY <2>3
    <3>2. /\ ConnOK(e, r, s, in2)
          /\ HasVote(e, r, in2) => HasVote(e, r, in)
          /\ NackOwed(e, r, s, in) => NackOwed(e, r, s, in2)
      BY <1>2, <2>1, <3>1, OtherQueued
    <3> QED BY <2>1, <3>2
  <2> QED BY <1>3, <2>2, <2>3
<1> QED BY <1>1, <1>4 DEF Conn, Holds, Owes

(* ... and if the rest of the server's state stays, so does the invariant.  *)
LEMMA StoredInv ==
    ASSUME SystemInv, NEW n \in Nodes, ServerReceives(n),
           \A k \in Nodes \ {n} : report'[k] = report[k] /\ toClient'[k] = toClient[k],
           algo' = algo, clusterState' = clusterState,
           report'[n].ring = report[n].ring,
           report'[n].config = report[n].config \/ report'[n].config # {},
           IsConfig(Head(dev[n].out)) => report'[n].config # {},
           \/ toClient'[n] = toClient[n]
           \/ \E m \in ServerMsg : ~IsVote(m) /\ toClient'[n] = Append(toClient[n], m)
    PROVE  SystemInv'
<1>1. Conn(n)' /\ (Holds(n)' => Holds(n)) /\ (Owes(n) => Owes(n)')
  BY QuietlyHandled
<1>2. NodeInv(n)'
  BY <1>1, HandledNode
<1>3. /\ Cur(n) /\ QdeviceInv' /\ NetTypeOK' /\ QnetdInv' /\ clients' = clients
      /\ link' = link /\ srv' = srv /\ orph' = orph /\ coro' = coro
      /\ \A k \in Nodes \ {n} : dev'[k] = dev[k]
  BY HandledFrame
<1>4. \A k \in Nodes \ {n} : Untouched(k)
  BY <1>3 DEF Untouched
<1>5. NoVoteGained(n) /\ PhaseGoesOn(n)
  BY <1>1, <1>3 DEF NoVoteGained, PhaseGoesOn
<1> QED BY <1>2, <1>3, <1>4, <1>5, OneNode

(* What queueing a reply does to the send buffers.                          *)
LEMMA QueueAt ==
    ASSUME NEW out, NEW n \in Nodes, NEW msg, out \in [Nodes -> Seq(ServerMsg)]
    PROVE  /\ \A k \in Nodes \ {n} : Queue(out, n, msg)[k] = out[k]
           /\ \/ Queue(out, n, msg)[n] = out[n]
              \/ Queue(out, n, msg)[n] = Append(out[n], msg)
BY DEF Queue

(* A message after which the algorithm decides.                             *)
LEMMA DecidedInv ==
    ASSUME SystemInv, SeqNumbersLast, NEW n \in Nodes, ServerReceives(n),
           NEW new \in Report, DecideAndReply(n, new),
           new.config = report[n].config, ~IsConfig(Head(dev[n].out)),
           ConnOK(dev'[n], new.ring, algo[n].seq, toClient[n]),
           HasVote(dev'[n], new.ring, toClient[n]) => Holds(n) /\ new.ring = report[n].ring
    PROVE  SystemInv'
<1> DEFINE d    == FfsplitDo(n, FALSE, new)
           rep  == Reports([k \in clients |-> report[k]], n, new)
           msg  == [type |-> "reply", ring |-> new.ring, vote |-> d.result]
<1>1. /\ QnetdInv' /\ QdeviceInv' /\ NetTypeOK' /\ clients' = clients
      /\ link' = link /\ srv' = srv /\ orph' = orph /\ coro' = coro /\ Cur(n)
      /\ \A k \in Nodes \ {n} : dev'[k] = dev[k]
  BY HandledFrame
<1>2. /\ report' = [report EXCEPT ![n] = new] /\ algo' = d.algo /\ clusterState' = d.state
      /\ toClient' = Queue(d.out, n, msg)
  BY DEF DecideAndReply
<1>3. QnetdInv /\ n \in clients /\ Live(clients, n, FALSE) = clients
  BY <1>1 DEF SystemInv, NodeInv, Live
<1>4. DecisionOK(d, n, clients)
  <2>1. FALSE \in BOOLEAN
    OBVIOUS
  <2> QED BY <1>3, <2>1, DecisionCorrect
<1>5. DecisionWaits(d) \/ DecisionNacks(d, rep, clients) \/ DecisionAcks(d, rep, clients)
  <2>1. FALSE \in BOOLEAN
    OBVIOUS
  <2> QED BY <1>3, <2>1, DecisionShape
<1>6. /\ d.algo \in [Nodes -> Algo] /\ d.out \in [Nodes -> Seq(ServerMsg)]
      /\ d.result \in ReplyVotes
  BY <1>4 DEF DecisionOK
<1>7. \A k \in clients : k \in Nodes /\ rep[k] = report'[k] /\ rep[k] \in Report
  BY <1>2, <1>3 DEF QnetdInv, QnetdTypeOK, Reports
<1>8. msg \in ServerMsg /\ ~IsVote(msg)
  <2>1. new.ring \in Rings
    BY DEF Report
  <2> QED BY <1>6, <2>1, ServerMessages DEF IsVote
<1> HIDE DEF d, rep, msg
<1>9. \A k \in clients : rep[k].ring \in Int /\ d.algo[k].seq \in Int
  BY <1>6, <1>7, RingsAreNumbers DEF Report, Algo
<1>10. /\ \A k \in Nodes \ {n} : toClient'[k] = d.out[k]
       /\ toClient'[n] = d.out[n] \/ toClient'[n] = Append(d.out[n], msg)
  BY <1>2, <1>6, QueueAt, SMTT(30)
<1>11. \A k \in Nodes : Cur(k)' => DecidedFor(d, rep, clients, k)
  <2> SUFFICES ASSUME NEW k \in Nodes, Cur(k)' PROVE DecidedFor(d, rep, clients, k)
    OBVIOUS
  <2>1. Cur(k) /\ k \in clients /\ report'[k].ring = rep[k].ring /\ algo'[k] = d.algo[k]
    BY <1>1, <1>2, <1>7 DEF Cur, SystemInv, NodeInv
  <2>2. CASE k = n
    <3>1. report'[k] = new
      BY <1>2, <2>2 DEF SystemInv, QnetdInv, QnetdTypeOK
    <3> QED BY <1>8, <1>10, <2>1, <2>2, <3>1 DEF DecidedFor
  <2>3. CASE k # n
    <3>1. report'[k] = report[k] /\ dev'[k] = dev[k] /\ toClient'[k] = d.out[k]
      BY <1>1, <1>2, <1>10, <2>3 DEF SystemInv, QnetdInv, QnetdTypeOK
    <3>2. Conn(k)
      BY <2>1 DEF SystemInv, NodeInv
    <3> QED BY <2>1, <3>1, <3>2 DEF DecidedFor, Conn, Holds
  <2> QED BY <2>2, <2>3
<1>12. dev' \in [Nodes -> Device]
  BY <1>1 DEF QdeviceInv
<1>13. VotesAgree' /\ AcksAgree' /\ NacksOwed' /\ \A k \in Nodes : Cur(k)' => Conn(k)'
  BY <1>2, <1>5, <1>9, <1>11, <1>12, DecisionStep
<1>14. NodeInv(n)'
  <2>1. report'[n].config = report[n].config /\ Conn(n)'
    BY <1>1, <1>2, <1>13 DEF Cur, SystemInv, QnetdInv, QnetdTypeOK
  <2> QED BY <2>1, HandledNode
<1>15. ASSUME NEW k \in Nodes \ {n} PROVE NodeInv(k)'
  <2>1. NodeInv(k) /\ report'[k] = report[k] /\ dev'[k] = dev[k]
    BY <1>1, <1>2 DEF SystemInv, QnetdInv, QnetdTypeOK
  <2>2. Knows(k)' = Knows(k) /\ (Cur(k)' <=> Cur(k))
    BY <1>1, <2>1 DEF Knows, Cur
  <2> QED BY <1>1, <1>13, <2>1, <2>2 DEF NodeInv, NewDeviceWaits
<1> QED BY <1>1, <1>13, <1>14, <1>15 DEF SystemInv

(* A node whose device, report and connection ends are unchanged.           *)
LEMMA OtherNode ==
    ASSUME NEW k \in Nodes, NodeInv(k), dev'[k] = dev[k], report'[k] = report[k],
           link'[k] = link[k], srv'[k] = srv[k], orph'[k] = orph[k], coro'[k] = coro[k],
           k \in clients => k \in clients', Cur(k)' => Conn(k)'
    PROVE  NodeInv(k)'
<1>1. Knows(k)' = Knows(k) /\ (Cur(k)' <=> Cur(k))
  BY DEF Knows, Cur
<1> QED BY <1>1 DEF NodeInv, NewDeviceWaits

(* Everything but node n and its connection is as before.                   *)
OthersStay(n) ==
    /\ coro' = coro
    /\ \A k \in Nodes \ {n} :
           /\ dev'[k] = dev[k] /\ report'[k] = report[k]
           /\ link'[k] = link[k] /\ srv'[k] = srv[k] /\ orph'[k] = orph[k]

(***************************************************************************)
(* The last NACK is confirmed by client n and the ACKs go out: every node  *)
(* that still has a vote was not told NACK, so it is in the ring of the    *)
(* nodes that are told ACK now.                                            *)
(***************************************************************************)
LEMMA AcksSentInv ==
    ASSUME SystemInv, SeqNumbersLast, NEW n \in Nodes, n \in clients, NEW al, NEW to,
           al \in [Nodes -> Algo], al[n].state = "WAITING_FOR_CHANGE",
           \A k \in Nodes : al[k].seq = algo[k].seq,
           \A k \in Nodes \ {n} : al[k] = algo[k],
           to = {m \in clients : al[m].state = "SENDING_ACK"},
           \A m \in clients : al[m].state # "SENDING_NACK",
           clusterState = "SENDING_NACKS", clusterState' # "SENDING_NACKS",
           algo' = VotedAlgo(al, to), toClient' = VotedOut(al, report, to, "ACK"),
           report' = report, clients' = clients, QnetdInv', QdeviceInv', NetTypeOK',
           OthersStay(n), NodeInv(n)', Holds(n)' => Holds(n),
           algo[n].state = "SENDING_NACK" => ~Holds(n)
    PROVE  SystemInv'
<1>1. QnetdTypeOK /\ clients \subseteq Nodes /\ algo \in [Nodes -> Algo]
  BY DEF SystemInv, QnetdInv, QnetdTypeOK
<1>2. \A k \in to : k \in clients /\ k \in Nodes /\ k # n /\ algo[k].state = "SENDING_ACK"
  BY <1>1
<1>3. \A k \in clients \ {n} : k \notin to => algo[k].state = "WAITING_FOR_CHANGE"
  <2>1. \A k \in clients \ {n} : algo[k].state \in ClientStates /\ al[k] = algo[k]
    BY <1>1 DEF Algo
  <2> QED BY <2>1 DEF ClientStates
<1>4. \A k \in Nodes : k \notin to => algo'[k] = al[k] /\ toClient'[k] = toClient[k]
  BY DEF VotedAlgo, VotedOut
<1>5. ASSUME NEW k \in to, Cur(k) PROVE Conn(k)'
  <2> DEFINE d == [algo |-> algo', out |-> toClient']
  <2>1. /\ report[k].ring \in Rings /\ report[k].ring \in Int /\ "ACK" \in {"ACK", "NACK"}
        /\ k \in Nodes /\ dev'[k] = dev[k] /\ dev[k] \in Device /\ algo[k].seq \in Int
        /\ toClient[k] \in Seq(ServerMsg) /\ Conn(k)
    BY <1>2, <1>5, NodeTypes DEF SystemInv, NodeInv, Report, OthersStay
  <2>2. d.algo = VotedAlgo(al, to) /\ d.out = VotedOut(al, report, to, "ACK")
    OBVIOUS
  <2>3. d.algo[k].seq = algo'[k].seq /\ d.out[k] = toClient'[k]
    OBVIOUS
  <2> HIDE DEF d
  <2>4. VoteSent(d, report, k, "ACK")
    BY <1>1, <2>1, <2>2, VotedIsSent
  <2>5. ConnOK(dev[k], report[k].ring, d.algo[k].seq, d.out[k])
    BY <2>1, <2>4, VoteSentConn DEF Conn
  <2> QED BY <2>1, <2>3, <2>5 DEF Conn
<1>6. ASSUME NEW k \in Nodes \ {n} PROVE NodeInv(k)'
  <2>1. NodeInv(k) /\ dev'[k] = dev[k] /\ report'[k] = report[k] /\ srv'[k] = srv[k]
    BY DEF SystemInv, OthersStay
  <2>2. ASSUME Cur(k)' PROVE Conn(k)'
    <3>1. Cur(k)
      BY <2>1, <2>2 DEF Cur
    <3>2. CASE k \in to
      BY <1>5, <3>1, <3>2
    <3>3. CASE k \notin to
      BY <1>4, <2>1, <3>1, <3>3 DEF NodeInv, Conn
    <3> QED BY <3>2, <3>3
  <2> QED BY <2>1, <2>2, OtherNode DEF OthersStay
<1>7. ASSUME NEW k \in Nodes, Holds(k)'
      PROVE  /\ Cur(k)
             /\ \/ algo[k].state = "SENDING_ACK"
                \/ algo[k].state = "WAITING_FOR_CHANGE" /\ Holds(k)
  <2>1. CASE k = n
    <3>1. Holds(n) /\ algo[n].state \in ClientStates
      BY <1>1, <1>7, <2>1 DEF Algo
    <3> QED BY <2>1, <3>1 DEF ClientStates, Holds
  <2>2. CASE k # n
    <3>1. Cur(k) /\ k \in clients
      BY <1>7, <2>2 DEF Holds, Cur, OthersStay, SystemInv, NodeInv
    <3>2. CASE k \in to
      BY <1>2, <3>1, <3>2
    <3>3. CASE k \notin to
      <4>1. dev'[k] = dev[k] /\ toClient'[k] = toClient[k]
        BY <1>4, <2>2, <3>3 DEF OthersStay
      <4>2. Holds(k)
        BY <1>7, <3>1, <4>1 DEF Holds
      <4> QED BY <1>3, <2>2, <3>1, <3>3, <4>2
    <3> QED BY <3>2, <3>3
  <2> QED BY <2>1, <2>2
<1>8. VotesAgree'
  <2> SUFFICES ASSUME NEW k \in Nodes, NEW m \in Nodes, Holds(k)', Holds(m)'
               PROVE  report[k].ring = report[m].ring
    BY DEF VotesAgree
  <2> QED BY <1>7 DEF SystemInv, VotesAgree, AcksAgree
<1> QED BY <1>6, <1>8 DEF SystemInv, AcksAgree, NacksOwed

(* A confirmation.                                                          *)
LEMMA ConfirmedInv ==
    ASSUME SystemInv, SeqNumbersLast, NEW n \in Nodes, ServerReceives(n),
           IsReply(Head(dev[n].out)), VoteInfoReplyReceived(n, Head(dev[n].out).seq)
    PROVE  SystemInv'
<1> DEFINE s      == Head(dev[n].out).seq
           al     == [algo EXCEPT ![n].state = "WAITING_FOR_CHANGE"]
           nacks  == {m \in clients : al[m].state = "SENDING_NACK"}
           acks   == {m \in clients : al[m].state = "SENDING_ACK"}
           sendAcks == clusterState = "SENDING_NACKS" /\ nacks = {}
           to     == IF sendAcks THEN acks ELSE {}
<1>1. /\ QnetdInv' /\ QdeviceInv' /\ NetTypeOK' /\ clients' = clients
      /\ link' = link /\ srv' = srv /\ orph' = orph /\ coro' = coro /\ Cur(n)
      /\ dev[n].out # <<>> /\ \A k \in Nodes \ {n} : dev'[k] = dev[k]
  BY HandledFrame
<1>2. /\ QnetdTypeOK /\ QnetdInv /\ NodeInv(n) /\ n \in clients /\ clients \subseteq Nodes
      /\ algo \in [Nodes -> Algo] /\ dev[n] \in Device
  BY <1>1, NodeTypes DEF SystemInv, NodeInv, QnetdInv, QnetdTypeOK
<1>3. ~IsConfig(Head(dev[n].out))
  BY DEF IsReply, IsConfig
<1>4. CASE ~IsExpectedSeq(n, s)
  <2>1. UNCHANGED serverVars
    BY <1>4 DEF VoteInfoReplyReceived
  <2> QED BY <1>3, <2>1, StoredInv DEF serverVars
<1>5. CASE IsExpectedSeq(n, s)
  <2>1. s = algo[n].seq
    BY <1>5 DEF IsExpectedSeq
  <2>2. /\ algo' = VotedAlgo(al, to) /\ toClient' = VotedOut(al, report, to, "ACK")
        /\ report' = report
        /\ clusterState' = IF sendAcks /\ acks # {} THEN "SENDING_ACKS"
                           ELSE IF \/ sendAcks
                                   \/ clusterState = "SENDING_ACKS" /\ acks = {}
                                THEN "WAITING_FOR_CHANGE" ELSE clusterState
    BY <1>5 DEF VoteInfoReplyReceived
  <2>3. /\ al \in [Nodes -> Algo] /\ al[n].state = "WAITING_FOR_CHANGE"
        /\ \A k \in Nodes : al[k].seq = algo[k].seq
        /\ \A k \in Nodes \ {n} : al[k] = algo[k]
    BY <1>2 DEF Algo, ClientStates
  <2>4. n \notin acks /\ n \notin to
    BY <2>3
  <2>5. \A k \in Nodes : k \notin to => algo'[k] = al[k] /\ toClient'[k] = toClient[k]
    <3> HIDE DEF al, to
    <3> QED BY <2>2 DEF VotedAlgo, VotedOut
  <2>6. Conn(n)' /\ (Holds(n)' => Holds(n))
    <3>1. algo'[n].seq = algo[n].seq /\ toClient'[n] = toClient[n]
      <4> HIDE DEF al, to
      <4> QED BY <2>3, <2>4, <2>5
    <3> QED BY <2>2, <3>1, QuietlyHandled
  <2>7. NodeInv(n)'
    BY <1>3, <2>2, <2>6, HandledNode
  \* A confirmed NACK: the node has no vote.
  <2>8. clusterState = "SENDING_NACKS" /\ algo[n].state = "SENDING_NACK" => ~Holds(n)
    <3> SUFFICES ASSUME clusterState = "SENDING_NACKS", algo[n].state = "SENDING_NACK"
                 PROVE  ~Holds(n)
      OBVIOUS
    <3>1. Owes(n)
      BY <1>1 DEF SystemInv, NacksOwed
    <3>2. 1 \in 1 .. Len(dev[n].out) /\ Head(dev[n].out) = dev[n].out[1]
      BY <1>1, <1>2, FirstHandled
    <3>3. IsReply(dev[n].out[1]) /\ dev[n].out[1].seq = algo[n].seq
      BY <2>1, <3>2
    <3> QED BY <3>1, <3>2, <3>3 DEF Owes, NackOwed, Holds
  <2>9. CASE ~sendAcks
    <3>1. to = {}
      BY <2>9
    <3>2. clusterState' = "SENDING_NACKS" => clusterState = "SENDING_NACKS"
      BY <2>2, <2>9
    <3> HIDE DEF al, to, sendAcks, acks, nacks
    <3>3. \A k \in Nodes : algo'[k] = al[k] /\ toClient'[k] = toClient[k]
      BY <2>5, <3>1
    <3>4. \A k \in Nodes \ {n} : Untouched(k)
      BY <1>1, <2>2, <2>3, <3>3 DEF Untouched
    <3>5. NoVoteGained(n)
      BY <2>2, <2>6 DEF NoVoteGained
    <3>6. algo'[n].state = "WAITING_FOR_CHANGE" /\ algo'[n].seq = algo[n].seq
      BY <2>3, <3>3
    <3>7. Owes(n) => Owes(n)'
      BY <2>2, <3>3, <3>6, QuietlyHandled
    <3>8. algo[n].state \in ClientStates
      BY <1>2 DEF Algo
    <3>9. clusterState' = "SENDING_NACKS" => PhaseGoesOn(n)
      BY <1>1, <2>2, <2>6, <2>8, <3>2, <3>6, <3>7, <3>8 DEF PhaseGoesOn, ClientStates
    <3> QED BY <1>1, <2>7, <3>2, <3>4, <3>5, <3>9, OneNode
  <2>10. CASE sendAcks
    <3>1. /\ to = acks /\ clusterState = "SENDING_NACKS"
          /\ \A m \in clients : al[m].state # "SENDING_NACK"
      BY <2>10
    <3>2. clusterState' # "SENDING_NACKS"
      BY <2>2, <2>10
    <3>3. to = {m \in clients : al[m].state = "SENDING_ACK"}
      BY <3>1
    <3>4. OthersStay(n)
      BY <1>1, <2>2 DEF OthersStay
    <3> HIDE DEF al, to, sendAcks, acks, nacks
    <3> QED BY <1>1, <1>2, <2>2, <2>3, <2>6, <2>7, <2>8, <3>1, <3>2, <3>3, <3>4, AcksSentInv
  <2> QED BY <2>9, <2>10
<1> QED BY <1>4, <1>5

(* A message that is stored and answered, or only answered.                 *)
LEMMA AnsweredInv ==
    ASSUME SystemInv, NEW n \in Nodes, ServerReceives(n), NEW new, NEW msg \in ServerMsg,
           report' = [report EXCEPT ![n] = new], toClient' = Queue(toClient, n, msg),
           algo' = algo, clusterState' = clusterState, ~IsVote(msg),
           new.ring = report[n].ring, new.config = report[n].config \/ new.config # {},
           IsConfig(Head(dev[n].out)) => new.config # {}
    PROVE  SystemInv'
<1>1. /\ toClient \in [Nodes -> Seq(ServerMsg)] /\ report'[n] = new
      /\ \A k \in Nodes \ {n} : report'[k] = report[k]
  BY DEF SystemInv, QnetdInv, QnetdTypeOK
<1>2. /\ \A k \in Nodes \ {n} : toClient'[k] = toClient[k]
      /\ toClient'[n] = toClient[n] \/ toClient'[n] = Append(toClient[n], msg)
  BY <1>1, QueueAt
<1> QED BY <1>1, <1>2, StoredInv

(* A message that is answered with an error.                                *)
LEMMA ServerErrorHandled ==
    ASSUME SystemInv, NEW n \in Nodes, ServerReceives(n), ServerError(n),
           ~IsConfig(Head(dev[n].out))
    PROVE  SystemInv'
<1>1. /\ report' = report /\ algo' = algo /\ clusterState' = clusterState
      /\ toClient' = Queue(toClient, n, [type |-> "server_error"])
  BY DEF ServerError, JustReply
<1>2. report = [report EXCEPT ![n] = report[n]]
  BY DEF SystemInv, QnetdInv, QnetdTypeOK
<1>3. [type |-> "server_error"] \in ServerMsg /\ ~IsVote([type |-> "server_error"])
  BY ServerMessages DEF IsVote
<1> QED BY <1>1, <1>2, <1>3, AnsweredInv

(* A configuration is stored.                                               *)
LEMMA StoreHandled ==
    ASSUME SystemInv, NEW n \in Nodes, ServerReceives(n), NEW new \in Report,
           StoreAndReply(n, new, "ASK_LATER"),
           new.ring = report[n].ring, new.config = report[n].config \/ new.config # {},
           IsConfig(Head(dev[n].out)) => new.config # {}
    PROVE  SystemInv'
<1> DEFINE msg == [type |-> "reply", ring |-> new.ring, vote |-> "ASK_LATER"]
<1>1. /\ report' = [report EXCEPT ![n] = new] /\ algo' = algo /\ clusterState' = clusterState
      /\ toClient' = Queue(toClient, n, msg)
  BY DEF StoreAndReply
<1>2. msg \in ServerMsg /\ ~IsVote(msg)
  BY ServerMessages DEF IsVote, ReplyVotes, Report
<1> HIDE DEF msg
<1> QED BY <1>1, <1>2, AnsweredInv

(* The server reads a message of the current connection.                    *)
LEMMA ServerReceivesInv ==
    ASSUME SystemInv, SeqNumbersLast, NEW n \in Nodes, ServerReceives(n)
    PROVE  SystemInv'
<1> DEFINE d   == dev[n]
           e   == dev'[n]
           msg == Head(d.out)
           r   == report[n].ring
           s   == algo[n].seq
           in  == toClient[n]
<1>1. /\ Cur(n) /\ d.out # <<>> /\ Handle(n, msg) /\ msg \in ClientMsg
      /\ e = [d EXCEPT !.out = Tail(d.out)]
  BY HandledFrame
<1>2. /\ NodeInv(n) /\ d \in Device /\ report[n] \in Report /\ r \in Int /\ s \in Int
      /\ in \in Seq(ServerMsg) /\ ConnOK(d, r, s, in) /\ OutInOrder(d) /\ Announced(d, Knows(n))
      /\ link[n] = "up"
  BY <1>1, NodeTypes DEF SystemInv, NodeInv, Conn, DeviceSound
<1>3. 1 \in 1 .. Len(d.out) /\ msg = d.out[1]
  BY <1>1, <1>2, FirstHandled
<1>4. CASE msg.type = "set_option" /\ SetOption(n, msg.keep)
  <2> DEFINE new == [report[n] EXCEPT !.keep = msg.keep]
  <2>1. /\ report' = [report EXCEPT ![n] = new] /\ algo' = algo /\ clusterState' = clusterState
        /\ toClient' = Queue(toClient, n, [type |-> "set_option_reply"])
    BY <1>4 DEF SetOption
  <2>2. [type |-> "set_option_reply"] \in ServerMsg /\ ~IsVote([type |-> "set_option_reply"])
    BY ServerMessages DEF IsVote
  <2>3. new.ring = report[n].ring /\ new.config = report[n].config
    BY <1>2 DEF Report
  <2>4. ~IsConfig(msg)
    BY <1>4 DEF IsConfig
  <2> HIDE DEF new
  <2> QED BY <2>1, <2>2, <2>3, <2>4, AnsweredInv
<1>5. CASE msg.type = "config_node_list" /\ ConfigNodeListReceived(n, msg.nodes, msg.initial)
  <2> DEFINE new == [report[n] EXCEPT !.config = msg.nodes]
  <2>1. msg.nodes = Nodes /\ msg.initial
    BY <1>2, <1>3, <1>5 DEF OutInOrder, IsConfig
  <2>2. StoreAndReply(n, new, "ASK_LATER")
    BY <1>5, <2>1 DEF ConfigNodeListReceived
  <2>3. msg.nodes \in ConfigLists
    BY <2>1, SystemAssumption
  <2>4. new \in Report
    BY <1>2, <2>3, ReportUpdated
  <2>5. new.ring = report[n].ring /\ new.config # {}
    BY <1>2, <2>1 DEF Report
  <2> HIDE DEF new
  <2> QED BY <2>2, <2>4, <2>5, StoreHandled
<1>6. CASE msg.type = "membership_node_list"
           /\ MembershipNodeListReceived(n, msg.ring, msg.nodes, msg.heur)
  <2> DEFINE new == [report[n] EXCEPT !.members = msg.nodes, !.ring = msg.ring, !.heur = msg.heur]
  <2>1. report[n].config # {}
    <3>1. Knows(n) \/ \E j \in 1 .. (1 - 1) : IsConfig(d.out[j])
      BY <1>2, <1>3, <1>6 DEF Announced, IsMembership
    <3>2. Knows(n)
      BY <3>1
    <3> QED BY <1>2, <3>2 DEF Knows
  <2>2. ServerError(n) \/ DecideAndReply(n, new)
    BY <1>6, <2>1 DEF MembershipNodeListReceived
  <2>3. msg.ring \in Rings /\ msg.nodes \in MemberLists /\ msg.heur \in HeurResults
    BY <1>1, <1>6 DEF ClientMsg
  <2>4. new \in Report
    BY <1>2, <2>3, ReportUpdated
  <2>5. new.ring = msg.ring /\ new.config = report[n].config
    BY <1>2 DEF Report
  <2>6. ~IsConfig(msg) /\ IsRing(msg)
    BY <1>6 DEF IsConfig, IsRing
  <2>7. CASE ServerError(n)
    BY <2>6, <2>7, ServerErrorHandled
  <2>8. CASE DecideAndReply(n, new)
    <3> DEFINE r2 == msg.ring
    <3>1. /\ ConnOK(e, r2, s, in)
          /\ HasVote(e, r2, in) => HasVote(d, r, in) /\ r2 = r
      <4>1. r2 = Head(d.out).ring /\ IsRing(Head(d.out))
        BY <2>6
      <4>2. /\ d \in Device /\ d.out # <<>> /\ e = [d EXCEPT !.out = Tail(d.out)]
            /\ r \in Int /\ s \in Int /\ in \in Seq(ServerMsg)
            /\ ConnOK(d, r, s, in) /\ OutInOrder(d)
        BY <1>1, <1>2
      <4> HIDE DEF d, e, r, s, in, msg, r2, new
      <4> QED BY <4>1, <4>2, RingHandledConn
    <3>2. HasVote(e, new.ring, in) => Holds(n) /\ new.ring = report[n].ring
      BY <1>1, <2>5, <3>1 DEF Holds
    <3>3. ConnOK(e, new.ring, s, in)
      BY <2>5, <3>1
    <3> HIDE DEF new
    <3> QED BY <2>4, <2>5, <2>6, <2>8, <3>2, <3>3, DecidedInv
  <2> QED BY <2>2, <2>7, <2>8
<1>7. CASE msg.type = "quorum_node_list" /\ QuorumNodeListReceived(n)
  <2> DEFINE reply == [type |-> "reply", ring |-> report[n].ring, vote |-> "NO_CHANGE"]
  <2>1. /\ report' = report /\ algo' = algo /\ clusterState' = clusterState
        /\ toClient' = Queue(toClient, n, reply)
    BY <1>7 DEF QuorumNodeListReceived, JustReply
  <2>2. report = [report EXCEPT ![n] = report[n]]
    BY DEF SystemInv, QnetdInv, QnetdTypeOK
  <2>3. reply \in ServerMsg /\ ~IsVote(reply)
    BY <1>2, ServerMessages DEF IsVote, ReplyVotes, Report
  <2>4. ~IsConfig(msg)
    BY <1>7 DEF IsConfig
  <2> HIDE DEF reply
  <2> QED BY <2>1, <2>2, <2>3, <2>4, AnsweredInv
<1>8. CASE msg.type = "heuristics_change" /\ HeuristicsChangeReceived(n, msg.heur)
  <2> DEFINE new == [report[n] EXCEPT !.heur = msg.heur]
  <2>1. ServerError(n) \/ StoreAndReply(n, new, "ASK_LATER") \/ DecideAndReply(n, new)
    BY <1>8 DEF HeuristicsChangeReceived
  <2>2. msg.heur \in HeurResults
    BY <1>1, <1>8 DEF ClientMsg
  <2>3. new \in Report
    BY <1>2, <2>2, ReportUpdated
  <2>4. new.ring = report[n].ring /\ new.config = report[n].config
    BY <1>2 DEF Report
  <2>5. ~IsConfig(msg)
    BY <1>8 DEF IsConfig
  <2>6. ConnOK(e, r, s, in) /\ (HasVote(e, r, in) => HasVote(d, r, in))
    <3> HIDE DEF d, e, r, s, in, msg
    <3> QED BY <1>1, <1>2, FirstHandledConn
  <2>7. CASE ServerError(n)
    BY <2>5, <2>7, ServerErrorHandled
  <2>8. CASE StoreAndReply(n, new, "ASK_LATER")
    <3> HIDE DEF new
    <3> QED BY <2>3, <2>4, <2>5, <2>8, StoreHandled
  <2>9. CASE DecideAndReply(n, new)
    <3>1. HasVote(e, new.ring, in) => Holds(n) /\ new.ring = report[n].ring
      BY <1>1, <2>4, <2>6 DEF Holds
    <3>2. ConnOK(e, new.ring, s, in)
      BY <2>4, <2>6
    <3> HIDE DEF new
    <3> QED BY <2>3, <2>4, <2>5, <2>9, <3>1, <3>2, DecidedInv
  <2> QED BY <2>1, <2>7, <2>8, <2>9
<1>9. CASE msg.type = "vote_info_reply" /\ VoteInfoReplyReceived(n, msg.seq)
  BY <1>9, ConfirmedInv DEF IsReply
<1> QED BY <1>1, <1>4, <1>5, <1>6, <1>7, <1>8, <1>9 DEF Handle

-----------------------------------------------------------------------------
(* The server accepts a connection, serves one the device has left, and     *)
(* ends one.                                                                *)

(* What an accepted init leaves alone.                                      *)
LEMMA ClientInitFacts ==
    ASSUME SystemInv, NEW n \in Nodes, NEW r \in Rings, ClientInit(n, r)
    PROVE  /\ QnetdInv' /\ n \in clients' /\ clients \subseteq clients'
           /\ \A k \in Nodes \ {n} : /\ report'[k] = report[k] /\ algo'[k] = algo[k]
                                     /\ toClient'[k] = toClient[k]
           /\ report'[n] = NewReport(r) /\ algo'[n] = NewAlgo
           /\ toClient'[n] = <<[type |-> "init_reply"]>>
           /\ clusterState' = "SENDING_NACKS" => clusterState = "SENDING_NACKS"
<1>1. QnetdInv'
  BY ClientInitInv DEF SystemInv
<1> QED BY <1>1 DEF ClientInit, SystemInv, QnetdInv, QnetdTypeOK

(* The server reads the init of a new connection.                           *)
LEMMA ServerAcceptsInv ==
    ASSUME SystemInv, NEW n \in Nodes, ServerAccepts(n)
    PROVE  SystemInv'
<1> DEFINE d   == dev[n]
           e   == dev'[n]
           r   == Head(d.out).ring
           in2 == toClient'[n]
<1>1. /\ link[n] = "up" /\ srv[n] = "none" /\ d.out # <<>> /\ ClientInit(n, r) /\ DeviceWrite(n)
      /\ srv' = [srv EXCEPT ![n] = "cur"] /\ orph' = orph /\ link' = link /\ coro' = coro
      /\ part' = part
  BY DEF ServerAccepts, envVars
<1>2. QdeviceInv /\ NodeInv(n) /\ d \in Device /\ ~Cur(n)
  BY <1>1, NodeTypes DEF SystemInv, Cur
<1>3. /\ d.state # "WAITING_CONNECT" /\ d.vote # "ACK" /\ ~d.polled.cast
      /\ d.out[1].type = "init" /\ \A i \in 1 .. Len(d.out) : ~IsReply(d.out[i])
  BY <1>1, <1>2 DEF NodeInv, NewDeviceWaits
<1>4. /\ QdeviceInv' /\ e = [d EXCEPT !.out = Tail(d.out)]
      /\ \A k \in Nodes \ {n} : dev'[k] = dev[k]
  <2>1. StepOK(n)
    BY <1>1, <1>2, DeviceWriteInv
  <2> QED BY <1>1, <1>2, <2>1 DEF StepOK, QdeviceInv, DeviceWrite
<1> HIDE DEF d, e, r, in2
<1>5. /\ \A i \in 1 .. Len(e.out) : i + 1 \in 1 .. Len(d.out) /\ e.out[i] = d.out[i + 1]
      /\ Len(e.out) \in Nat /\ 1 \in 1 .. Len(d.out) /\ e \in Device
      /\ Head(d.out) = d.out[1] /\ Head(d.out) \in ClientMsg
      /\ e.ring = d.ring /\ e.sentRing = d.sentRing /\ e.vote = d.vote /\ e.polled = d.polled
      /\ e.state = d.state
  BY <1>1, <1>2, <1>4, FirstHandled
<1>6. r \in Rings /\ IsRing(Head(d.out)) /\ ~IsConfig(Head(d.out))
  BY <1>3, <1>5 DEF ClientMsg, IsRing, IsConfig, r
<1>7. /\ QnetdInv' /\ n \in clients' /\ clients \subseteq clients'
      /\ \A k \in Nodes \ {n} : /\ report'[k] = report[k] /\ algo'[k] = algo[k]
                                /\ toClient'[k] = toClient[k]
      /\ report'[n] = NewReport(r) /\ algo'[n] = NewAlgo
      /\ in2 = <<[type |-> "init_reply"]>>
      /\ clusterState' = "SENDING_NACKS" => clusterState = "SENDING_NACKS"
  BY <1>1, <1>6, ClientInitFacts DEF in2
<1>8. NetTypeOK' /\ Cur(n)'
  BY <1>1 DEF SystemInv, NetTypeOK, Cur
<1>9. \A k \in Nodes \ {n} : Untouched(k)
  BY <1>1, <1>4, <1>7 DEF Untouched, SystemInv, NetTypeOK
<1>10. ~HoldsVote(e)
  BY <1>3, <1>5 DEF HoldsVote
<1>11. Len(in2) = 1 /\ ~IsVote(in2[1])
  BY <1>7 DEF IsVote
<1>12. \A i \in 1 .. Len(in2) : ~IsVote(in2[i])
  <2> SUFFICES ASSUME NEW i \in 1 .. Len(in2) PROVE ~IsVote(in2[i])
    OBVIOUS
  <2>1. i = 1
    BY <1>11
  <2> QED BY <1>11, <2>1
<1>13. ~HasVote(e, r, in2)
  BY <1>10, <1>12 DEF HasVote, AckComing
<1>14. RingsInOrder(d) /\ OutInOrder(d) /\ Announced(d, Knows(n))
  BY <1>2 DEF NodeInv, DeviceSound, d
<1>15. ConnOK(e, r, 0, in2)
  <2>1. r <= e.sentRing
    BY <1>5, <1>6, <1>14 DEF OutInOrder, r
  <2>2. \A i \in 1 .. Len(e.out) : IsRing(e.out[i]) => r <= e.out[i].ring
    <3> SUFFICES ASSUME NEW i \in 1 .. Len(e.out), IsRing(e.out[i]) PROVE r <= e.out[i].ring
      OBVIOUS
    <3>1. i + 1 \in 1 .. Len(d.out) /\ e.out[i] = d.out[i + 1] /\ 1 < i + 1
      BY <1>5
    <3> QED BY <1>5, <1>6, <1>14, <3>1 DEF OutInOrder, r
  <2>3. \A i \in 1 .. Len(e.out) : ~IsReply(e.out[i])
    BY <1>3, <1>5
  <2> QED BY <1>10, <1>12, <2>1, <2>2, <2>3 DEF ConnOK
<1>16. report'[n].ring = r /\ report'[n].config = {} /\ algo'[n].seq = 0
       /\ algo'[n].state = "WAITING_FOR_CHANGE"
  BY <1>7 DEF NewReport, NewAlgo
<1>17. Conn(n)' /\ ~Holds(n)'
  BY <1>13, <1>15, <1>16 DEF Conn, Holds, e, in2
<1>18. Knows(n)' = FALSE /\ Knows(n) = FALSE
  BY <1>1, <1>2, <1>16 DEF Knows
<1>19. DeviceSound(e, Knows(n)')
  <2>1. FALSE \/ IsConfig(Head(d.out)) => FALSE
    BY <1>6
  <2>2. Announced(d, FALSE)
    BY <1>14, <1>18
  <2>3. RingsInOrder(e) /\ OutInOrder(e) /\ Announced(e, FALSE)
    BY <1>1, <1>2, <1>4, <1>14, <2>1, <2>2, FirstHandledOrder
  <2> QED BY <1>18, <2>3 DEF DeviceSound
<1>20. NodeInv(n)'
  BY <1>1, <1>2, <1>3, <1>5, <1>7, <1>8, <1>17, <1>19 DEF NodeInv, NewDeviceWaits, Cur, d, e
<1>21. NoVoteGained(n) /\ PhaseGoesOn(n)
  BY <1>16, <1>17 DEF NoVoteGained, PhaseGoesOn
<1> QED BY <1>4, <1>7, <1>8, <1>9, <1>20, <1>21, OneNode

(* A decision in which client n is not, or not any more, on the connection  *)
(* of its device.                                                           *)
LEMMA DecidedForOthersInv ==
    ASSUME SystemInv, SeqNumbersLast, NEW n \in Nodes, n \in clients, ~Cur(n)',
           NEW leaving \in BOOLEAN, NEW new \in Report, NEW d, d = FfsplitDo(n, leaving, new),
           OthersStay(n), \A k \in clients \ {n} : k \in clients',
           \A k \in Nodes \ {n} : algo'[k] = d.algo[k] /\ toClient'[k] = d.out[k],
           d.state # "SENDING_NACKS" => clusterState' # "SENDING_NACKS",
           QnetdInv', QdeviceInv', NetTypeOK', NodeInv(n)'
    PROVE  SystemInv'
<1> DEFINE rep  == Reports([k \in clients |-> report[k]], n, new)
           live == Live(clients, n, leaving)
<1>1. QnetdInv
  BY DEF SystemInv
<1>2. DecisionOK(d, n, live)
  BY <1>1, DecisionCorrect
<1>3. DecisionWaits(d) \/ DecisionNacks(d, rep, live) \/ DecisionAcks(d, rep, live)
  BY <1>1, DecisionShape
<1>4. live \subseteq clients /\ clients \ {n} \subseteq live
  BY DEF Live
<1>5. \A k \in clients : k \in Nodes /\ rep[k] \in Report /\ (k # n => rep[k] = report[k])
  BY <1>1 DEF QnetdInv, QnetdTypeOK, Reports
<1> HIDE DEF rep, live
<1>6. \A k \in live : rep[k].ring \in Int /\ d.algo[k].seq \in Int
  BY <1>2, <1>4, <1>5, RingsAreNumbers DEF DecisionOK, Report, Algo
<1>7. \A k \in Nodes : Cur(k)' => DecidedFor(d, rep, live, k)
  <2> SUFFICES ASSUME NEW k \in Nodes, Cur(k)' PROVE DecidedFor(d, rep, live, k)
    OBVIOUS
  <2>1. k # n
    OBVIOUS
  <2>2. dev'[k] = dev[k] /\ report'[k] = report[k] /\ srv'[k] = srv[k]
    BY <2>1 DEF OthersStay
  <2>3. Cur(k) /\ NodeInv(k)
    BY <2>2 DEF Cur, SystemInv
  <2>4. k \in live /\ rep[k] = report[k] /\ Conn(k)
    BY <1>4, <1>5, <2>1, <2>3 DEF NodeInv
  <2> QED BY <2>1, <2>2, <2>3, <2>4 DEF DecidedFor, Conn, Holds
<1>8. dev' \in [Nodes -> Device]
  BY DEF QdeviceInv
<1>9. VotesAgree' /\ AcksAgree' /\ NacksOwed' /\ \A k \in Nodes : Cur(k)' => Conn(k)'
  BY <1>3, <1>6, <1>7, <1>8, DecisionStep
<1>10. ASSUME NEW k \in Nodes \ {n} PROVE NodeInv(k)'
  BY <1>9, OtherNode DEF SystemInv, OthersStay
<1> QED BY <1>9, <1>10 DEF SystemInv

(* The server ends a connection.                                            *)
LEMMA ServerDisconnectsInv ==
    ASSUME SystemInv, SeqNumbersLast, NEW n \in Nodes, ServerDisconnects(n)
    PROVE  SystemInv'
<1> DEFINE d == FfsplitDo(n, TRUE, report[n])
<1>1. /\ ClientDisconnect(n)
      /\ link' = [link EXCEPT ![n] = IF srv[n] = "cur" THEN "closed" ELSE @]
      /\ srv' = [srv EXCEPT ![n] = "none"]
      /\ orph' = [orph EXCEPT ![n] = <<>>]
      /\ dev' = dev /\ coro' = coro /\ part' = part
  BY DEF ServerDisconnects, envVars
<1>2. /\ n \in clients /\ report[n] \in Report /\ QnetdInv /\ NodeInv(n) /\ NetTypeOK
      /\ report \in [Nodes -> Report]
  BY <1>1 DEF ClientDisconnect, SystemInv, QnetdInv, QnetdTypeOK
<1>3. /\ clients' = clients \ {n} /\ report' = [report EXCEPT ![n] = NewReport(AnyRing)]
      /\ algo' = [d.algo EXCEPT ![n] = NewAlgo]
      /\ clusterState' = (IF clients = {n} THEN "WAITING_FOR_CHANGE" ELSE d.state)
      /\ toClient' = [d.out EXCEPT ![n] = <<>>]
  BY <1>1 DEF ClientDisconnect
<1>4. QnetdInv' /\ QdeviceInv'
  BY <1>1, <1>2, ClientDisconnectInv DEF SystemInv, QdeviceInv
<1>5. NetTypeOK' /\ ~Cur(n)'
  BY <1>1, <1>2, ClientMessages DEF NetTypeOK, Cur
<1>6. OthersStay(n)
  BY <1>1, <1>2, <1>3 DEF OthersStay, NetTypeOK
<1>7. TRUE \in BOOLEAN /\ DecisionOK(d, n, Live(clients, n, TRUE))
  BY <1>2, DecisionCorrect
<1>8. d = FfsplitDo(n, TRUE, report[n])
  OBVIOUS
<1> HIDE DEF d
<1>9. \A k \in Nodes \ {n} : algo'[k] = d.algo[k] /\ toClient'[k] = d.out[k]
  BY <1>3, <1>7 DEF DecisionOK
<1>10. d.state # "SENDING_NACKS" => clusterState' # "SENDING_NACKS"
  BY <1>3
<1>11. NodeInv(n)'
  <2>1. srv'[n] = "none" /\ orph'[n] = <<>>
        /\ link'[n] = IF srv[n] = "cur" THEN "closed" ELSE link[n]
    BY <1>1, <1>2 DEF NetTypeOK
  <2>2. DeviceSound(dev[n], Knows(n)) /\ dev[n].ring <= coro[n] /\ NewDeviceWaits(n)
    BY <1>2 DEF NodeInv
  <2>3. DeviceSound(dev[n], Knows(n)')
    <3>1. CASE Cur(n)
      <4>1. Knows(n)' = TRUE
        BY <2>1, <3>1 DEF Knows, Cur
      <4> QED BY <2>2, <4>1, AnnouncedAnyway
    <3>2. CASE ~Cur(n)
      <4>1. Knows(n)' = Knows(n)
        BY <1>5, <2>1, <3>2 DEF Knows, Cur
      <4> QED BY <2>2, <4>1
    <3> QED BY <3>1, <3>2
  <2>4. NewDeviceWaits(n)'
    BY <1>1, <2>1, <2>2 DEF NewDeviceWaits, Cur
  <2> QED BY <1>1, <1>5, <2>1, <2>2, <2>3, <2>4 DEF NodeInv
<1>12. \A k \in clients \ {n} : k \in clients'
  BY <1>3
<1>13. PICK leaving \in BOOLEAN : d = FfsplitDo(n, leaving, report[n])
  BY <1>8
<1> QED BY <1>2, <1>4, <1>5, <1>6, <1>9, <1>10, <1>11, <1>12, <1>13, DecidedForOthersInv

(* The step, apart from what the handler does to the server.                *)
LEMMA OrphanFrame ==
    ASSUME SystemInv, NEW n \in Nodes, ServerReceivesOrphan(n)
    PROVE  /\ orph[n] # <<>> /\ Head(orph[n]) \in ClientMsg /\ Head(orph[n]) = orph[n][1]
           /\ dev' = dev /\ link' = link /\ coro' = coro
           /\ \A k \in Nodes \ {n} : srv'[k] = srv[k] /\ orph'[k] = orph[k]
           /\ ~Cur(n) /\ ~Cur(n)' /\ QdeviceInv' /\ NetTypeOK'
           /\ (n \in clients => n \in clients') => NodeInv(n)'
<1>1. /\ orph[n] # <<>> /\ srv' = [srv EXCEPT ![n] = "orph"]
      /\ orph' = [orph EXCEPT ![n] = Tail(@)]
      /\ dev' = dev /\ link' = link /\ coro' = coro /\ part' = part
      /\ srv[n] \in {"none", "orph"}
  BY DEF ServerReceivesOrphan, envVars
<1>2. NetTypeOK /\ NodeInv(n) /\ QdeviceInv /\ orph[n] \in Seq(ClientMsg)
  BY DEF SystemInv, NetTypeOK
<1>3. Tail(orph[n]) \in Seq(ClientMsg) /\ Head(orph[n]) \in ClientMsg /\ Head(orph[n]) = orph[n][1]
  BY <1>1, <1>2, TailAt
<1>4. NetTypeOK' /\ QdeviceInv'
  BY <1>1, <1>2, <1>3 DEF NetTypeOK, QdeviceInv
<1>5. /\ ~Cur(n) /\ ~Cur(n)' /\ srv'[n] = "orph"
      /\ \A k \in Nodes \ {n} : srv'[k] = srv[k] /\ orph'[k] = orph[k]
  BY <1>1, <1>2 DEF NetTypeOK, Cur
<1>6. Knows(n)' = Knows(n)
  BY <1>1, <1>5 DEF Knows
<1>7. NodeInv(n)'
  BY <1>1, <1>2, <1>5, <1>6 DEF NodeInv, NewDeviceWaits
<1> QED BY <1>1, <1>3, <1>4, <1>5, <1>7

(* A message that leads to no decision and sends no vote.                   *)
LEMMA OrphanAnswered ==
    ASSUME SystemInv, NEW n \in Nodes, ServerReceivesOrphan(n), QnetdInv',
           clients \subseteq clients',
           \A k \in Nodes \ {n} : /\ report'[k] = report[k] /\ algo'[k] = algo[k]
                                  /\ toClient'[k] = toClient[k],
           clusterState' = "SENDING_NACKS" => clusterState = "SENDING_NACKS"
    PROVE  SystemInv'
<1>1. /\ dev' = dev /\ link' = link /\ coro' = coro
      /\ \A k \in Nodes \ {n} : srv'[k] = srv[k] /\ orph'[k] = orph[k]
      /\ ~Cur(n)' /\ QdeviceInv' /\ NetTypeOK' /\ NodeInv(n)'
  BY OrphanFrame
<1>2. \A k \in Nodes \ {n} : Untouched(k)
  BY <1>1 DEF Untouched
<1>3. NoVoteGained(n) /\ PhaseGoesOn(n)
  BY <1>1 DEF NoVoteGained, PhaseGoesOn, Holds
<1> QED BY <1>1, <1>2, <1>3, OneNode

(* A message of the connection the device has left that leads to a decision. *)
LEMMA OrphanDecided ==
    ASSUME SystemInv, SeqNumbersLast, NEW n \in Nodes, ServerReceivesOrphan(n), n \in clients,
           QnetdInv', NEW new \in Report, DecideAndReply(n, new)
    PROVE  SystemInv'
<1> DEFINE d   == FfsplitDo(n, FALSE, new)
           msg == [type |-> "reply", ring |-> new.ring, vote |-> d.result]
<1>1. /\ dev' = dev /\ link' = link /\ coro' = coro
      /\ \A k \in Nodes \ {n} : srv'[k] = srv[k] /\ orph'[k] = orph[k]
      /\ ~Cur(n)' /\ QdeviceInv' /\ NetTypeOK'
      /\ (n \in clients => n \in clients') => NodeInv(n)'
  BY OrphanFrame
<1>2. /\ report' = [report EXCEPT ![n] = new] /\ algo' = d.algo /\ clusterState' = d.state
      /\ toClient' = Queue(d.out, n, msg) /\ clients' = clients
  BY DEF DecideAndReply
<1>3. QnetdInv /\ FALSE \in BOOLEAN /\ report \in [Nodes -> Report]
  BY DEF SystemInv, QnetdInv, QnetdTypeOK
<1>4. DecisionOK(d, n, Live(clients, n, FALSE))
  BY <1>3, DecisionCorrect
<1>5. d = FfsplitDo(n, FALSE, new)
  OBVIOUS
<1> HIDE DEF d, msg
<1>6. \A k \in Nodes \ {n} : algo'[k] = d.algo[k] /\ toClient'[k] = d.out[k]
  BY <1>2, <1>4, QueueAt DEF DecisionOK
<1>7. OthersStay(n)
  BY <1>1, <1>2, <1>3 DEF OthersStay
<1>8. /\ \A k \in clients \ {n} : k \in clients'
      /\ d.state # "SENDING_NACKS" => clusterState' # "SENDING_NACKS"
      /\ ~Cur(n)' /\ QdeviceInv' /\ NetTypeOK' /\ NodeInv(n)'
  BY <1>1, <1>2
<1>9. PICK leaving \in BOOLEAN : d = FfsplitDo(n, leaving, new)
  BY <1>5
<1> QED BY <1>6, <1>7, <1>8, <1>9, DecidedForOthersInv

(* A confirmation from a connection that the device has left.               *)
LEMMA OrphanConfirmed ==
    ASSUME SystemInv, SeqNumbersLast, NEW n \in Nodes, ServerReceivesOrphan(n), n \in clients,
           QnetdInv', NEW s, VoteInfoReplyReceived(n, s)
    PROVE  SystemInv'
<1> DEFINE al     == [algo EXCEPT ![n].state = "WAITING_FOR_CHANGE"]
           nacks  == {m \in clients : al[m].state = "SENDING_NACK"}
           acks   == {m \in clients : al[m].state = "SENDING_ACK"}
           sendAcks == clusterState = "SENDING_NACKS" /\ nacks = {}
           to     == IF sendAcks THEN acks ELSE {}
<1>1. /\ dev' = dev /\ link' = link /\ coro' = coro
      /\ \A k \in Nodes \ {n} : srv'[k] = srv[k] /\ orph'[k] = orph[k]
      /\ ~Cur(n) /\ ~Cur(n)' /\ QdeviceInv' /\ NetTypeOK'
      /\ (n \in clients => n \in clients') => NodeInv(n)'
  BY OrphanFrame
<1>2. CASE UNCHANGED serverVars
  BY <1>2, OrphanAnswered DEF serverVars
<1>3. CASE ~UNCHANGED serverVars
  <2>1. /\ algo' = VotedAlgo(al, to) /\ toClient' = VotedOut(al, report, to, "ACK")
        /\ report' = report /\ clients' = clients
        /\ clusterState' = IF sendAcks /\ acks # {} THEN "SENDING_ACKS"
                           ELSE IF \/ sendAcks
                                   \/ clusterState = "SENDING_ACKS" /\ acks = {}
                                THEN "WAITING_FOR_CHANGE" ELSE clusterState
    BY <1>3 DEF VoteInfoReplyReceived
  <2>2. /\ al \in [Nodes -> Algo] /\ al[n].state = "WAITING_FOR_CHANGE"
        /\ \A k \in Nodes : al[k].seq = algo[k].seq
        /\ \A k \in Nodes \ {n} : al[k] = algo[k]
    BY DEF Algo, ClientStates, SystemInv, QnetdInv, QnetdTypeOK
  <2>3. CASE ~sendAcks
    <3>1. to = {}
      BY <2>3
    <3>2. clusterState' = "SENDING_NACKS" => clusterState = "SENDING_NACKS"
      BY <2>1, <2>3
    <3> HIDE DEF al, to, sendAcks, acks, nacks
    <3>3. \A k \in Nodes \ {n} : algo'[k] = algo[k] /\ toClient'[k] = toClient[k]
      BY <2>1, <2>2, <3>1 DEF VotedAlgo, VotedOut
    <3> QED BY <2>1, <3>2, <3>3, OrphanAnswered
  <2>4. CASE sendAcks
    <3>1. /\ to = {m \in clients : al[m].state = "SENDING_ACK"}
          /\ clusterState = "SENDING_NACKS" /\ \A m \in clients : al[m].state # "SENDING_NACK"
      BY <2>4
    <3>2. clusterState' # "SENDING_NACKS"
      BY <2>1, <2>4
    <3>3. OthersStay(n)
      BY <1>1, <2>1 DEF OthersStay
    <3>4. ~Holds(n) /\ ~Holds(n)'
      BY <1>1 DEF Holds
    <3> HIDE DEF al, to, sendAcks, acks, nacks
    <3> QED BY <1>1, <2>1, <2>2, <3>1, <3>2, <3>3, <3>4, AcksSentInv
  <2> QED BY <2>3, <2>4
<1> QED BY <1>2, <1>3

(* The server reads a message of a connection that the device has left.     *)
LEMMA ServerReceivesOrphanInv ==
    ASSUME SystemInv, SeqNumbersLast, NEW n \in Nodes, ServerReceivesOrphan(n)
    PROVE  SystemInv'
<1> DEFINE msg == Head(orph[n])
<1>1. msg \in ClientMsg /\ msg = orph[n][1] /\ orph[n] # <<>>
  BY OrphanFrame
<1>2. CASE srv[n] = "none" /\ ClientInit(n, msg.ring)
  <2>1. msg.type = "init"
    BY <1>1, <1>2 DEF SystemInv, NodeInv
  <2>2. msg.ring \in Rings
    BY <1>1, <2>1 DEF ClientMsg
  <2> HIDE DEF msg
  <2> QED BY <1>2, <2>2, ClientInitFacts, OrphanAnswered
<1>3. CASE srv[n] = "orph" /\ Handle(n, msg)
  <2>1. QnetdInv' /\ n \in clients /\ clients' = clients
    BY <1>1, <1>3, HandleInv DEF SystemInv
  <2>2. /\ report[n] \in Report /\ report \in [Nodes -> Report]
        /\ toClient \in [Nodes -> Seq(ServerMsg)]
    BY DEF SystemInv, QnetdInv, QnetdTypeOK
  <2>3. ASSUME NEW reply, toClient' = Queue(toClient, n, reply), algo' = algo,
               clusterState' = clusterState, NEW new, report' = [report EXCEPT ![n] = new]
        PROVE  SystemInv'
    <3>1. \A k \in Nodes \ {n} : toClient'[k] = toClient[k] /\ report'[k] = report[k]
      BY <2>2, <2>3, QueueAt
    <3> QED BY <2>1, <2>3, <3>1, OrphanAnswered
  <2>4. report = [report EXCEPT ![n] = report[n]]
    BY <2>2
  <2>5. ServerError(n) => SystemInv'
    BY <2>3, <2>4 DEF ServerError, JustReply
  <2>6. \A new \in Report : StoreAndReply(n, new, "ASK_LATER") => SystemInv'
    BY <2>3 DEF StoreAndReply
  <2>7. \A new \in Report : DecideAndReply(n, new) => SystemInv'
    BY <2>1, OrphanDecided
  <2>8. CASE msg.type = "set_option" /\ SetOption(n, msg.keep)
    <3>1. /\ report' = [report EXCEPT ![n] = [report[n] EXCEPT !.keep = msg.keep]]
          /\ algo' = algo /\ clusterState' = clusterState
          /\ toClient' = Queue(toClient, n, [type |-> "set_option_reply"])
      BY <2>8 DEF SetOption
    <3> QED BY <2>3, <3>1
  <2>9. CASE msg.type = "config_node_list" /\ ConfigNodeListReceived(n, msg.nodes, msg.initial)
    <3> DEFINE new == [report[n] EXCEPT !.config = msg.nodes]
    <3>1. ServerError(n) \/ StoreAndReply(n, new, "ASK_LATER") \/ DecideAndReply(n, new)
      BY <2>9 DEF ConfigNodeListReceived
    <3>2. msg.nodes \in ConfigLists
      BY <1>1, <2>9 DEF ClientMsg
    <3>3. new \in Report
      BY <2>2, <3>2, ReportUpdated
    <3> HIDE DEF new
    <3> QED BY <2>5, <2>6, <2>7, <3>1, <3>3
  <2>10. CASE msg.type = "membership_node_list"
              /\ MembershipNodeListReceived(n, msg.ring, msg.nodes, msg.heur)
    <3> DEFINE new == [report[n] EXCEPT !.members = msg.nodes, !.ring = msg.ring, !.heur = msg.heur]
    <3>1. ServerError(n) \/ StoreAndReply(n, new, "ASK_LATER") \/ DecideAndReply(n, new)
      BY <2>10 DEF MembershipNodeListReceived
    <3>2. msg.ring \in Rings /\ msg.nodes \in MemberLists /\ msg.heur \in HeurResults
      BY <1>1, <2>10 DEF ClientMsg
    <3>3. new \in Report
      BY <2>2, <3>2, ReportUpdated
    <3> HIDE DEF new
    <3> QED BY <2>5, <2>6, <2>7, <3>1, <3>3
  <2>11. CASE msg.type = "quorum_node_list" /\ QuorumNodeListReceived(n)
    BY <2>3, <2>4, <2>11 DEF QuorumNodeListReceived, JustReply
  <2>12. CASE msg.type = "heuristics_change" /\ HeuristicsChangeReceived(n, msg.heur)
    <3> DEFINE new == [report[n] EXCEPT !.heur = msg.heur]
    <3>1. ServerError(n) \/ StoreAndReply(n, new, "ASK_LATER") \/ DecideAndReply(n, new)
      BY <2>12 DEF HeuristicsChangeReceived
    <3>2. msg.heur \in HeurResults
      BY <1>1, <2>12 DEF ClientMsg
    <3>3. new \in Report
      BY <2>2, <3>2, ReportUpdated
    <3> HIDE DEF new
    <3> QED BY <2>5, <2>6, <2>7, <3>1, <3>3
  <2>13. CASE msg.type = "vote_info_reply" /\ VoteInfoReplyReceived(n, msg.seq)
    BY <2>1, <2>13, OrphanConfirmed
  <2> QED BY <1>3, <2>8, <2>9, <2>10, <2>11, <2>12, <2>13 DEF Handle
<1> QED BY <1>2, <1>3 DEF ServerReceivesOrphan

-----------------------------------------------------------------------------
(* The states in which the cluster is looked at first.                      *)

(* The nodes boot, each in a ring of its own.                               *)
LEMMA ApartInv == InitApart => SystemInv
<1> SUFFICES ASSUME InitApart PROVE SystemInv
  OBVIOUS
<1>1. PICK h \in HeurResults : dev = [n \in Nodes |-> NewDevice(n, {n}, Nodes, h)]
  BY DEF InitApart
<1>2. /\ QnetdInit /\ coro = [n \in Nodes |-> n] /\ part = [n \in Nodes |-> {n}]
      /\ link = [n \in Nodes |-> "down"] /\ srv = [n \in Nodes |-> "none"]
      /\ orph = [n \in Nodes |-> <<>>] /\ "apart" \in Starts
  BY DEF InitApart
<1>3. QnetdInv
  BY <1>2, QnetdInitInv
<1>4. ASSUME NEW n \in Nodes
      PROVE  /\ dev[n] \in Device /\ DeviceInv(dev[n])
             /\ dev[n].ring = n /\ \A has : DeviceSound(dev[n], has)
  <2> DEFINE d == NewDevice(n, {n}, Nodes, h)
  <2>1. n \in Rings /\ n \in Int /\ {n} \in MemberLists /\ Nodes \in ConfigLists
    BY <1>2, SystemAssumption, RingsAreNumbers
  <2>2. d \in Device
    BY <2>1, ClientMessages, DeviceAssumption DEF NewDevice, Device, DeviceStates, Votes
  <2>3. /\ d.vote = "ASK_LATER" /\ ~d.paused /\ d.active = {} /\ d.out = <<>> /\ d.sentRing = n
        /\ d.ring = n /\ d.polled.ring = n /\ ~d.polled.cast /\ d.config = Nodes
        /\ d.state = "WAITING_CONNECT"
    BY DEF NewDevice
  <2>4. dev[n] = d
    BY <1>1
  <2> HIDE DEF d
  <2>5. DeviceInv(d)
    BY <2>2, <2>3, DeviceAssumption DEF DeviceInv, CallbackInv, RunningDeviceHasReported, Ready
  <2>6. Len(d.out) = 0
    BY <2>3
  <2>7. RingsInOrder(d)
    BY <2>1, <2>3 DEF RingsInOrder, Ready
  <2>8. OutInOrder(d) /\ \A has : Announced(d, has)
    <3>1. \A i \in 1 .. Len(d.out) : FALSE
      BY <2>6
    <3> QED BY <2>3, <3>1 DEF OutInOrder, Announced, Ready
  <2> QED BY <2>2, <2>3, <2>4, <2>5, <2>7, <2>8 DEF DeviceSound
<1>5. QdeviceInv
  BY <1>1, <1>4 DEF QdeviceInv
<1>6. NetTypeOK
  BY <1>2, SystemAssumption, ClientMessages DEF NetTypeOK
<1>7. \A n \in Nodes : ~Cur(n) /\ link[n] # "up" /\ orph[n] = <<>> /\ coro[n] = n
  BY <1>2 DEF Cur
<1>8. ASSUME NEW n \in Nodes PROVE NodeInv(n)
  <2>1. n \in Int
    BY NodesAssumption
  <2> QED BY <1>4, <1>7, <2>1 DEF NodeInv, NewDeviceWaits
<1>9. VotesAgree /\ AcksAgree /\ NacksOwed
  BY <1>7 DEF VotesAgree, AcksAgree, NacksOwed, Holds
<1> QED BY <1>3, <1>5, <1>6, <1>8, <1>9 DEF SystemInv

(* The nodes are connected and at rest in one ring.                         *)
LEMMA SettledInv == InitSettled /\ SeqNumbersLast => SystemInv
<1> SUFFICES ASSUME InitSettled, SeqNumbersLast PROVE SystemInv
  OBVIOUS
<1>1. PICK h \in HeurResults :
        /\ dev = [n \in Nodes |->
                     [NewDevice(1, Nodes, Nodes, h) EXCEPT
                         !.state = "READY", !.vote = "ACK", !.polled.cast = TRUE]]
        /\ report = [n \in Nodes |-> [config |-> Nodes, members |-> Nodes, ring |-> 1,
                                      heur |-> h, keep |-> DeviceKeep]]
  BY DEF InitSettled
<1>2. /\ clients = Nodes /\ algo = [n \in Nodes |-> [NewAlgo EXCEPT !.seq = 1]]
      /\ clusterState = "WAITING_FOR_CHANGE" /\ quorate = Nodes
      /\ lastVote = [n \in Nodes |-> "ACK"] /\ toClient = [n \in Nodes |-> <<>>]
      /\ scheduled = {} /\ aborted = FALSE
      /\ coro = [n \in Nodes |-> 1] /\ part = [n \in Nodes |-> Nodes]
      /\ link = [n \in Nodes |-> "up"] /\ srv = [n \in Nodes |-> "cur"]
      /\ orph = [n \in Nodes |-> <<>>]
  BY DEF InitSettled
<1>3. ASSUME NEW n \in Nodes
      PROVE  /\ report[n] \in Report /\ report[n].ring = 1 /\ report[n].config # {}
             /\ algo[n] \in Algo /\ algo[n].seq = 1 /\ algo[n].state = "WAITING_FOR_CHANGE"
             /\ toClient[n] \in Seq(ServerMsg) /\ toClient[n] = <<>>
  <2>1. algo[n] = [state |-> "WAITING_FOR_CHANGE", seq |-> 1]
    BY <1>2 DEF NewAlgo
  <2>2. 1 \in SeqNums
    <3>1. 1 < SeqMod - 1
      BY <2>1 DEF SeqNumbersLast
    <3> QED BY <3>1, SeqAssumption DEF SeqNums
  <2>3. algo[n] \in Algo /\ algo[n].seq = 1 /\ algo[n].state = "WAITING_FOR_CHANGE"
    BY <2>1, <2>2 DEF Algo, ClientStates
  <2>4. DeviceKeep \in BOOLEAN /\ h \in Heuristics /\ 1 \in Rings /\ Nodes \in ConfigLists
    BY DeviceAssumption, MessagesAssumption, SystemAssumption
  <2>5. report[n] \in Report /\ report[n].ring = 1 /\ report[n].config # {}
    BY <1>1, <2>4 DEF Report
  <2> QED BY <1>2, <2>3, <2>5
<1>4. QnetdInv
  <2>1. QnetdTypeOK
    BY <1>1, <1>2, <1>3 DEF QnetdTypeOK, ClusterStates
  <2> QED BY <1>2, <1>3, <2>1
          DEF QnetdInv, AckOnlyInQuoratePartition, AckOwedInQuoratePartition,
              NacksConfirmedBeforeAcks
<1>5. ASSUME NEW n \in Nodes
      PROVE  /\ dev[n] \in Device /\ DeviceInv(dev[n]) /\ dev[n].ring = 1
             /\ DeviceSound(dev[n], TRUE) /\ dev[n].state = "READY"
             /\ ConnOK(dev[n], 1, 1, <<>>)
  <2> DEFINE d == [NewDevice(1, Nodes, Nodes, h) EXCEPT
                       !.state = "READY", !.vote = "ACK", !.polled.cast = TRUE]
  <2>1. 1 \in Rings /\ Nodes \in MemberLists /\ Nodes \in ConfigLists
    BY SystemAssumption
  <2>2. d \in Device
    BY <2>1, ClientMessages, DeviceAssumption DEF NewDevice, Device, DeviceStates, Votes
  <2>3. /\ d.vote = "ACK" /\ ~d.paused /\ d.active = {} /\ d.out = <<>> /\ d.sentRing = 1
        /\ d.ring = 1 /\ d.polled.ring = 1 /\ d.config = Nodes /\ d.state = "READY"
    BY DEF NewDevice
  <2>4. dev[n] = d
    BY <1>1
  <2> HIDE DEF d
  <2>5. DeviceInv(d)
    BY <2>2, <2>3, DeviceAssumption DEF DeviceInv, CallbackInv, RunningDeviceHasReported, Ready
  <2>6. \A i \in 1 .. Len(d.out) : FALSE
    BY <2>3
  <2>7. RingsInOrder(d)
    BY <2>3 DEF RingsInOrder, Ready
  <2>8. OutInOrder(d) /\ Announced(d, TRUE)
    BY <2>6 DEF OutInOrder, Announced
  <2>9. ConnOK(d, 1, 1, <<>>)
    BY <2>3, <2>6 DEF ConnOK
  <2> QED BY <2>2, <2>3, <2>4, <2>5, <2>7, <2>8, <2>9 DEF DeviceSound
<1>6. QdeviceInv
  BY <1>1, <1>5 DEF QdeviceInv
<1>7. NetTypeOK
  BY <1>2, SystemAssumption, ClientMessages DEF NetTypeOK
<1>8. ASSUME NEW n \in Nodes PROVE NodeInv(n)
  <2>1. Cur(n) /\ link[n] = "up" /\ coro[n] = 1 /\ orph[n] = <<>> /\ n \in clients
    BY <1>2 DEF Cur
  <2>2. Knows(n) = TRUE /\ Conn(n)
    BY <1>3, <1>5, <2>1 DEF Knows, Conn
  <2>3. DeviceSound(dev[n], Knows(n)) /\ dev[n].ring <= coro[n]
    <3>1. DeviceSound(dev[n], Knows(n))
      BY <1>5, <2>2
    <3>2. dev[n].ring = 1 /\ coro[n] = 1
      BY <1>5, <2>1
    <3>3. dev[n].ring <= coro[n]
      BY <3>2
    <3> QED BY <3>1, <3>3
  <2>4. dev[n].state # "WAITING_CONNECT" /\ NewDeviceWaits(n)
    BY <1>5, <2>1 DEF NewDeviceWaits
  <2> QED BY <2>1, <2>2, <2>3, <2>4 DEF NodeInv
<1>9. VotesAgree /\ AcksAgree /\ NacksOwed
  BY <1>2, <1>3 DEF VotesAgree, AcksAgree, NacksOwed
<1> QED BY <1>4, <1>6, <1>7, <1>8, <1>9 DEF SystemInv

-----------------------------------------------------------------------------
(* Every step keeps the inductive invariant, as long as the sequence        *)
(* numbers of votes have not wrapped around before it.                      *)
LEMMA SystemStep ==
    ASSUME SystemInv, SeqNumbersLast, [Next]_vars
    PROVE  SystemInv'
<1>1. CASE UNCHANGED vars
  <2>1. UNCHANGED <<serverVars, dev, netVars, coro, part>>
    BY <1>1 DEF vars, envVars
  <2>2. QnetdInv' /\ QdeviceInv' /\ NetTypeOK'
    BY <2>1, QnetdUnchanged DEF SystemInv, QdeviceInv, NetTypeOK, netVars
  <2>3. \A n \in Nodes : Untouched(n) /\ NodeInv(n)
    BY <2>1 DEF Untouched, SystemInv, netVars, serverVars
  <2>4. clusterState' = clusterState
    BY <2>1 DEF serverVars
  <2>5. \A n \in Nodes : NodeInv(n)' /\ NoVoteGained(n) /\ PhaseGoesOn(n)
    BY <2>3, UntouchedNode
  <2>6. VotesAgree'
    BY <2>5, VotesKept DEF SystemInv
  <2>7. AcksAgree' /\ NacksOwed'
    BY <2>4, <2>5, PhaseKept DEF SystemInv
  <2> QED BY <2>2, <2>5, <2>6, <2>7 DEF SystemInv
<1>2. CASE Next
  <2>1. CASE \E S \in (SUBSET Nodes) \ {{}} : FormRing(S)
    BY <2>1, FormRingInv
  <2>2. CASE ServerRestarts
    BY <2>2, ServerRestartsInv
  <2>3. ASSUME NEW n \in Nodes,
               \/ LearnRing(n) \/ WorkerAnswers(n) \/ RegularExecution(n)
               \/ DeviceCastsVote(n) \/ DeviceConnects(n) \/ DeviceDisconnects(n)
               \/ DeviceGivesUp(n) \/ DeviceReceives(n)
        PROVE  SystemInv'
    BY <2>3, LearnRingInv, WorkerAnswersInv, RegularExecutionInv, DeviceCastsVoteInv,
       DeviceConnectsInv, DeviceLeavesInv, DeviceReceivesInv
  <2>4. ASSUME NEW n \in Nodes,
               \/ ServerReceives(n) \/ ServerAccepts(n) \/ ServerRejects(n)
               \/ ServerReceivesOrphan(n) \/ ServerNoticesEnd(n) \/ ServerGivesUp(n)
               \/ ServerDisconnects(n)
        PROVE  SystemInv'
    BY <2>4, ServerReceivesInv, ServerAcceptsInv, ServerRejectsInv, ServerReceivesOrphanInv,
       ServerSchedulesInv, ServerDisconnectsInv
  <2> QED BY <1>2, <2>1, <2>2, <2>3, <2>4 DEF Next
<1> QED BY <1>1, <1>2

(* A node whose vote counts has reported the ring it is in, and that is the *)
(* ring for which it has the vote.                                          *)
LEMMA GrantedHolds ==
    ASSUME SystemInv, NEW n \in Nodes, Granted(n), Connected(n)
    PROVE  Holds(n) /\ report[n].ring = coro[n]
<1>1. /\ Cur(n) /\ NodeInv(n) /\ RingsInOrder(dev[n])
      /\ dev[n].polled.cast /\ dev[n].polled.ring = coro[n]
  BY DEF Connected, Granted, Cur, SystemInv, NodeInv, DeviceSound
<1>2. dev[n].ring \in Int /\ dev[n].polled.ring \in Int /\ coro[n] \in Int
  BY NodeTypes, DeviceNumbers
<1>3. dev[n].polled.ring <= dev[n].ring /\ dev[n].ring <= coro[n]
  BY <1>1 DEF RingsInOrder, NodeInv
<1>4. dev[n].polled.ring = dev[n].ring /\ dev[n].ring = coro[n]
  BY <1>1, <1>2, <1>3
<1>5. dev[n].sentRing = dev[n].ring /\ HoldsVote(dev[n])
  BY <1>1, <1>4 DEF RingsInOrder, HoldsVote
<1>6. report[n].ring = dev[n].sentRing
  BY <1>1, <1>5 DEF NodeInv, Conn, ConnOK
<1> QED BY <1>1, <1>4, <1>5, <1>6 DEF Holds, HasVote

(***************************************************************************)
(* The inductive invariant of the composed system.  The sequence numbers   *)
(* of qnetd_algo_ffsplit_send_votes are 32 bits wide and start again at 0: *)
(* after that the confirmation of an old vote could be taken for the one   *)
(* of the newest, so the theorem is about runs in which no client is sent  *)
(* 2^32 - 1 votes on one connection.                                       *)
(***************************************************************************)
THEOREM SystemInvariant == Spec /\ []SeqNumbersLast => []SystemInv
<1>1. Init /\ SeqNumbersLast => SystemInv
  BY ApartInv, SettledInv DEF Init
<1>2. SystemInv /\ SeqNumbersLast /\ [Next]_vars => SystemInv'
  BY SystemStep
<1> QED BY <1>1, <1>2, PTL DEF Spec

(***************************************************************************)
(* Two connected nodes never hold the qdevice vote in two different rings: *)
(* for every number of nodes, rings, connections and failures, every size  *)
(* of the send buffers and every choice of partition.                      *)
(***************************************************************************)
THEOREM VoteIsNeverSplit == Spec /\ []SeqNumbersLast => []NoSplitVote
<1>1. SystemInv => NoSplitVote
  <2> SUFFICES ASSUME SystemInv, NEW n \in Nodes, NEW m \in Nodes,
                      Granted(n), Granted(m), Connected(n), Connected(m)
               PROVE  coro[n] = coro[m]
    BY DEF NoSplitVote
  <2>1. Holds(n) /\ report[n].ring = coro[n] /\ Holds(m) /\ report[m].ring = coro[m]
    BY GrantedHolds
  <2> QED BY <2>1 DEF SystemInv, VotesAgree
<1> QED BY <1>1, SystemInvariant, PTL
=============================================================================
