------------------------ MODULE QdeviceNetFfsplitProofs ------------------------
(***************************************************************************)
(* Proofs about the net model of corosync-qdevice with ffsplit, for every  *)
(* set of nodes, rings and messages and every number of send buffers.  The *)
(* server may send any message at any time, and rings, heuristics results, *)
(* configuration reloads and connection failures may come in any order.    *)
(***************************************************************************)
EXTENDS QdeviceNetFfsplit, SequenceTheorems, TLAPS

(* What holds of a device even between two result notifiers: among it, that *)
(* the vote and the ring in force go together, and that a pause has an end. *)
CallbackInv(d) ==
    /\ d \in Device
    /\ Len(d.out) <= MaxDeviceBuffers
    /\ RunningDeviceHasReported(d)
    /\ d.vote = "ACK" => Ready(d)
    /\ d.paused => "vq" \in d.active \/ d.sched

(* What holds of a device between two callbacks of its poll loop.           *)
DeviceInv(d) ==
    /\ CallbackInv(d)
    /\ d.active # {} => d.waiting

(* The inductive invariant.                                                 *)
QdeviceInv == dev \in [Nodes -> Device] /\ \A n \in Nodes : DeviceInv(dev[n])

(* The fields the cast vote timer leaves alone.                             *)
Frame(d, e) ==
    /\ e.state = d.state /\ e.sched = d.sched /\ e.ring = d.ring
    /\ e.members = d.members /\ e.config = d.config /\ e.sentRing = d.sentRing
    /\ e.paused = d.paused /\ e.waiting = d.waiting /\ e.active = d.active
    /\ e.timer = d.timer /\ e.heur = d.heur /\ e.out = d.out

(* From d to e no positive vote has been cast; this is transitive.          *)
NoCast(d, e) == e.polled = d.polled \/ ~e.polled.cast

(* A positive vote cast between d and e is for the ring reported.           *)
CastReported(d, e) ==
    e.polled # d.polled /\ e.polled.cast => Ready(e) /\ e.polled.ring = e.sentRing

(* A good callback of node n's device: the invariant is kept, a vote cast   *)
(* is for the reported ring, and no other device is touched.                *)
StepOK(n) ==
    /\ dev' \in [Nodes -> Device]
    /\ DeviceInv(dev'[n])
    /\ CastReported(dev[n], dev'[n])
    /\ \A m \in Nodes \ {n} : dev'[m] = dev[m]

-----------------------------------------------------------------------------
(* It suffices to look at the device of the node.                           *)
LEMMA OneDevice ==
    ASSUME QdeviceInv, NEW n \in Nodes, NEW e, dev' = [dev EXCEPT ![n] = e],
           DeviceInv(e), CastReported(dev[n], e)
    PROVE  StepOK(n)
<1>1. e \in Device
  BY DEF DeviceInv, CallbackInv
<1>2. dev' \in [Nodes -> Device] /\ dev'[n] = e /\ \A m \in Nodes \ {n} : dev'[m] = dev[m]
  BY <1>1 DEF QdeviceInv
<1> QED BY <1>2 DEF StepOK

(* The messages a device builds are messages of the protocol.               *)
LEMMA ClientMessages ==
    /\ << >> \in Seq(ClientMsg)
    /\ [type |-> "quorum_node_list"] \in ClientMsg
    /\ \A r \in Rings : [type |-> "init", ring |-> r] \in ClientMsg
    /\ \A s \in SeqNums : [type |-> "vote_info_reply", seq |-> s] \in ClientMsg
    /\ \A h \in HeurResults : [type |-> "heuristics_change", heur |-> h] \in ClientMsg
    /\ \A k \in KeepOptions : [type |-> "set_option", keep |-> k] \in ClientMsg
    /\ \A nodes \in ConfigLists, i \in BOOLEAN :
           [type |-> "config_node_list", nodes |-> nodes, initial |-> i] \in ClientMsg
    /\ \A r \in Rings, nodes \in MemberLists, h \in HeurResults :
           [type |-> "membership_node_list", ring |-> r, nodes |-> nodes, heur |-> h]
               \in ClientMsg
BY DEF ClientMsg

(* The cast vote timer: only the vote and the poll change, and a poll is    *)
(* made only when the timer is not paused.                                  *)
LEMMA TimerUpdated ==
    ASSUME NEW d \in Device, NEW vote \in Votes \cup {"NO_CHANGE"}
    PROVE  LET e == CastVoteTimerUpdate(d, vote)
           IN  /\ e \in Device
               /\ Frame(d, e)
               /\ e.vote = IF vote = "NO_CHANGE" THEN d.vote ELSE vote
               /\ \/ e.polled = d.polled
                  \/ /\ ~d.paused /\ e.polled.ring = d.ring
                     /\ e.polled.cast = (vote = "ACK")
<1>1. CASE vote = "NO_CHANGE"
  BY <1>1 DEF CastVoteTimerUpdate, Frame
<1>2. CASE vote \in {"ACK", "NACK"}
  <2> DEFINE f == [d EXCEPT !.vote = vote]
  <2>1. CastVoteTimerUpdate(d, vote) = Poll(f)
    BY <1>2 DEF CastVoteTimerUpdate
  <2>2. f \in Device /\ Frame(d, f) /\ f.vote = vote /\ f.polled = d.polled
    BY <1>2 DEF Device, Votes, Frame
  <2> HIDE DEF f
  <2>3. Poll(f) \in Device /\ Frame(f, Poll(f)) /\ Poll(f).vote = f.vote
    BY <2>2 DEF Poll, Device, Frame
  <2>4. \/ Poll(f).polled = f.polled
        \/ ~f.paused /\ Poll(f).polled.ring = f.ring /\ Poll(f).polled.cast = (f.vote = "ACK")
    BY <2>2 DEF Poll, Device
  <2> QED BY <1>2, <2>1, <2>2, <2>3, <2>4 DEF Frame
<1>3. CASE vote \in {"ASK_LATER", "WAIT_FOR_REPLY"}
  BY <1>3 DEF CastVoteTimerUpdate, Frame, Device, Votes
<1> QED BY <1>1, <1>2, <1>3 DEF Votes

(* A NACK is cast at once when the timer is not paused.                     *)
LEMMA NackIsCast ==
    ASSUME NEW d \in Device, ~d.paused
    PROVE  ~CastVoteTimerUpdate(d, "NACK").polled.cast
<1> DEFINE f == [d EXCEPT !.vote = "NACK"]
<1>1. CastVoteTimerUpdate(d, "NACK") = Poll(f)
  BY DEF CastVoteTimerUpdate
<1>2. f \in Device /\ f.vote = "NACK" /\ ~f.paused
  BY DEF Device, Votes
<1> HIDE DEF f
<1> QED BY <1>1, <1>2 DEF Poll, Device

(* Putting a message into a free buffer, or giving up the connection.       *)
LEMMA SendFacts ==
    ASSUME NEW d \in Device, Len(d.out) <= MaxDeviceBuffers, NEW msg \in ClientMsg
    PROVE  /\ ~OutFull(d) => /\ Send(d, msg) \in Device
                             /\ Len(Send(d, msg).out) <= MaxDeviceBuffers
           /\ Send(d, msg) = [d EXCEPT !.out = Append(d.out, msg)]
<1>1. d.out \in Seq(ClientMsg)
  BY DEF Device
<1>2. Append(d.out, msg) \in Seq(ClientMsg) /\ Len(Append(d.out, msg)) = Len(d.out) + 1
  BY <1>1, AppendProperties
<1>3. Len(d.out) \in Nat
  BY <1>1, LenProperties
<1>4. ~OutFull(d) => Len(d.out) + 1 <= MaxDeviceBuffers
  BY <1>3, DeviceAssumption DEF OutFull
<1>5. Send(d, msg) = [d EXCEPT !.out = Append(d.out, msg)]
  BY DEF Send
<1>6. Send(d, msg) \in Device /\ Send(d, msg).out = Append(d.out, msg)
  BY <1>2, <1>5 DEF Device
<1> QED BY <1>2, <1>4, <1>5, <1>6

(* When the loop has ended the device votes NACK, without a connection and  *)
(* without anything in its send buffers.                                    *)
LEMMA DisconnectedInv ==
    ASSUME NEW d \in Device
    PROVE  /\ CallbackInv(Disconnected(d))
           /\ ~Disconnected(d).polled.cast
           /\ Disconnected(d).active = d.active
           /\ Disconnected(d).waiting = d.waiting
<1> DEFINE f == [d EXCEPT !.paused = FALSE]
           g == CastVoteTimerUpdate(f, "NACK")
           e == [g EXCEPT !.state = "WAITING_CONNECT", !.sched = FALSE, !.out = <<>>]
<1>1. Disconnected(d) = e
  BY DEF Disconnected
<1>2. /\ f \in Device /\ ~f.paused
      /\ f.active = d.active /\ f.waiting = d.waiting
  BY DEF Device
<1> HIDE DEF f
<1>3. /\ g \in Device /\ Frame(f, g) /\ g.vote = "NACK"
      /\ ~g.polled.cast
  <2>1. "NACK" \in Votes \cup {"NO_CHANGE"} /\ "NACK" # "NO_CHANGE" /\ "NACK" # "ACK"
    BY DEF Votes
  <2> QED BY <1>2, <2>1, TimerUpdated, NackIsCast
<1> HIDE DEF g
<1>4. /\ e \in Device /\ e.state = "WAITING_CONNECT" /\ e.out = <<>> /\ e.vote = "NACK"
      /\ ~e.paused /\ e.polled = g.polled /\ e.active = g.active /\ e.waiting = g.waiting
  BY <1>2, <1>3, ClientMessages DEF Device, DeviceStates, Frame
<1>5. Len(e.out) <= MaxDeviceBuffers
  BY <1>4, DeviceAssumption
<1> HIDE DEF e
<1>6. CallbackInv(e)
  BY <1>4, <1>5 DEF CallbackInv, RunningDeviceHasReported, Ready
<1> QED BY <1>1, <1>2, <1>3, <1>4, <1>6 DEF Frame

(* A vote other than ACK is always safe to take over.                       *)
LEMMA NoAckUpdate ==
    ASSUME NEW d, CallbackInv(d), NEW vote \in (Votes \cup {"NO_CHANGE"}) \ {"ACK"}
    PROVE  LET e == CastVoteTimerUpdate(d, vote)
           IN  CallbackInv(e) /\ Frame(d, e) /\ NoCast(d, e)
<1> DEFINE e == CastVoteTimerUpdate(d, vote)
<1>1. d \in Device
  BY DEF CallbackInv
<1>2. /\ e \in Device /\ Frame(d, e)
      /\ e.vote = d.vote \/ e.vote # "ACK"
      /\ e.polled = d.polled \/ ~e.polled.cast
  BY <1>1, TimerUpdated
<1> HIDE DEF e
<1>3. CallbackInv(e)
  BY <1>2 DEF CallbackInv, Frame, RunningDeviceHasReported, Ready
<1> QED BY <1>2, <1>3 DEF NoCast, e

(* The vote chosen for a notification without a connection is never ACK.    *)
LEMMA SafeVoteFacts ==
    ASSUME NEW d
    PROVE  SafeVote(d) \in (Votes \cup {"NO_CHANGE"}) \ {"ACK"}
BY DEF SafeVote, Votes

-----------------------------------------------------------------------------
(* The result notifiers.  Each deactivates itself, keeps the invariant and  *)
(* casts no positive vote.                                                  *)
LEMMA VqResultInv ==
    ASSUME NEW d, CallbackInv(d), NEW h \in HeurResults
    PROVE  LET e == VqResult(d, h)
           IN  /\ CallbackInv(e) /\ NoCast(d, e)
               /\ e.active = d.active \ {"vq"} /\ e.waiting = d.waiting
<1> DEFINE d0 == [d EXCEPT !.active = @ \ {"vq"}]
<1>0. d \in Device /\ d.ring \in Rings /\ d.members \in MemberLists
  BY DEF CallbackInv, Device
<1>1. /\ d0 \in Device /\ d0.active = d.active \ {"vq"} /\ d0.state = d.state
      /\ d0.ring = d.ring /\ d0.sentRing = d.sentRing /\ d0.paused = d.paused
      /\ d0.sched = d.sched /\ d0.out = d.out /\ d0.polled = d.polled
      /\ d0.vote = d.vote /\ d0.waiting = d.waiting
  BY <1>0 DEF Device
<1>2. CASE Ready(d) /\ OutFull(d)
  <2> DEFINE e == [d0 EXCEPT !.sched = TRUE]
  <2>1. VqResult(d, h) = e
    BY <1>2 DEF VqResult
  <2> HIDE DEF d0
  <2>2. /\ e \in Device /\ e.active = d0.active /\ e.state = d0.state /\ e.ring = d0.ring
        /\ e.sentRing = d0.sentRing /\ e.paused = d0.paused /\ e.sched
        /\ e.out = d0.out /\ e.polled = d0.polled /\ e.vote = d0.vote
        /\ e.waiting = d0.waiting
    BY <1>1 DEF Device
  <2> HIDE DEF e
  <2> QED BY <1>1, <2>1, <2>2
          DEF CallbackInv, RunningDeviceHasReported, Ready, NoCast
<1>3. CASE Ready(d) /\ ~OutFull(d)
  <2> DEFINE m == Send(d0, MembershipMsg(d, h))
             f == [m EXCEPT !.sentRing = d.ring, !.paused = FALSE]
             g == CastVoteTimerUpdate(f, "WAIT_FOR_REPLY")
             e == [g EXCEPT !.heur = h, !.timer = RegularHeuristics]
  <2>1. VqResult(d, h) = e
    BY <1>3 DEF VqResult
  <2> HIDE DEF d0
  <2>2. MembershipMsg(d, h) \in ClientMsg
    BY <1>0, ClientMessages DEF MembershipMsg
  <2>3. /\ m \in Device /\ Len(m.out) <= MaxDeviceBuffers
        /\ m = [d0 EXCEPT !.out = Append(d0.out, MembershipMsg(d, h))]
    <3>1. ~OutFull(d0) /\ Len(d0.out) <= MaxDeviceBuffers
      BY <1>1, <1>3 DEF OutFull, CallbackInv
    <3> QED BY <1>1, <2>2, <3>1, SendFacts
  <2>4. /\ m.active = d0.active /\ m.state = d0.state /\ m.ring = d0.ring
        /\ m.polled = d0.polled /\ m.vote = d0.vote /\ m.waiting = d0.waiting
    BY <1>1, <2>3 DEF Device
  <2> HIDE DEF m
  <2>5. /\ f \in Device /\ f.active = m.active /\ f.state = m.state /\ f.ring = m.ring
        /\ f.sentRing = d.ring /\ ~f.paused /\ f.out = m.out /\ f.polled = m.polled
        /\ f.vote = m.vote /\ f.waiting = m.waiting
    BY <1>0, <2>3 DEF Device
  <2> HIDE DEF f
  <2>6. CallbackInv(f)
    BY <1>1, <1>3, <2>3, <2>4, <2>5 DEF CallbackInv, RunningDeviceHasReported, Ready
  <2>7. CallbackInv(g) /\ Frame(f, g) /\ NoCast(f, g)
    <3>1. "WAIT_FOR_REPLY" \in (Votes \cup {"NO_CHANGE"}) \ {"ACK"}
      BY DEF Votes
    <3> QED BY <2>6, <3>1, NoAckUpdate
  <2> HIDE DEF g
  <2>8. /\ e \in Device /\ e.active = g.active /\ e.state = g.state /\ e.ring = g.ring
        /\ e.sentRing = g.sentRing /\ e.paused = g.paused /\ e.sched = g.sched
        /\ e.out = g.out /\ e.polled = g.polled /\ e.vote = g.vote /\ e.waiting = g.waiting
    BY <2>7, DeviceAssumption DEF CallbackInv, Device
  <2> HIDE DEF e
  <2> QED BY <1>1, <2>1, <2>4, <2>5, <2>7, <2>8
          DEF CallbackInv, RunningDeviceHasReported, Ready, NoCast, Frame
<1>4. CASE ~Ready(d)
  <2> DEFINE f == [d0 EXCEPT !.paused = FALSE]
             g == CastVoteTimerUpdate(f, SafeVote(d0))
             e == [g EXCEPT !.heur = h, !.timer = RegularHeuristics]
  <2>1. VqResult(d, h) = e
    BY <1>4 DEF VqResult
  <2> HIDE DEF d0
  <2>2. /\ f \in Device /\ f.active = d0.active /\ f.state = d0.state
        /\ ~f.paused /\ f.out = d0.out /\ f.polled = d0.polled
        /\ f.vote = d0.vote /\ f.waiting = d0.waiting
    BY <1>1 DEF Device
  <2> HIDE DEF f
  <2>3. CallbackInv(f)
    BY <1>1, <1>4, <2>2 DEF CallbackInv, RunningDeviceHasReported, Ready
  <2>4. CallbackInv(g) /\ Frame(f, g) /\ NoCast(f, g)
    BY <2>3, SafeVoteFacts, NoAckUpdate
  <2> HIDE DEF g
  <2>5. /\ e \in Device /\ e.active = g.active /\ e.state = g.state /\ e.ring = g.ring
        /\ e.sentRing = g.sentRing /\ e.paused = g.paused /\ e.sched = g.sched
        /\ e.out = g.out /\ e.polled = g.polled /\ e.vote = g.vote /\ e.waiting = g.waiting
    BY <2>4, DeviceAssumption DEF CallbackInv, Device
  <2> HIDE DEF e
  <2> QED BY <1>1, <2>1, <2>2, <2>4, <2>5
          DEF CallbackInv, RunningDeviceHasReported, Ready, NoCast, Frame
<1> QED BY <1>2, <1>3, <1>4

(* The regular heuristics: at most a heuristics change is sent.             *)
LEMMA RegularResultInv ==
    ASSUME NEW d, CallbackInv(d), NEW h \in HeurResults
    PROVE  LET e == RegularResult(d, h)
           IN  /\ CallbackInv(e) /\ NoCast(d, e)
               /\ e.active = d.active \ {"regular"} /\ e.waiting = d.waiting
<1> DEFINE d0 == [d EXCEPT !.active = @ \ {"regular"}]
           e  == RegularResult(d, h)
           msg == [type |-> "heuristics_change", heur |-> h]
           kept(f) == /\ f \in Device /\ Len(f.out) <= MaxDeviceBuffers
                      /\ f.active = d0.active /\ f.state = d0.state /\ f.ring = d0.ring
                      /\ f.sentRing = d0.sentRing /\ f.paused = d0.paused
                      /\ f.sched \/ ~d0.sched
                      /\ f.polled = d0.polled /\ f.vote = d0.vote /\ f.waiting = d0.waiting
<1>0. d \in Device
  BY DEF CallbackInv
<1>1. /\ d0 \in Device /\ d0.active = d.active \ {"regular"} /\ d0.state = d.state
      /\ d0.ring = d.ring /\ d0.sentRing = d.sentRing /\ d0.paused = d.paused
      /\ d0.sched = d.sched /\ d0.out = d.out /\ d0.polled = d.polled
      /\ d0.vote = d.vote /\ d0.waiting = d.waiting
  BY <1>0 DEF Device
<1>2. kept(d0)
  BY <1>1 DEF CallbackInv
<1>3. \/ e = d0
      \/ e = [d0 EXCEPT !.sched = TRUE]
      \/ e = [d0 EXCEPT !.heur = h, !.timer = RegularHeuristics]
      \/ ~OutFull(d) /\ e = [Send(d0, msg) EXCEPT !.heur = h, !.timer = RegularHeuristics]
  BY DEF RegularResult
<1> HIDE DEF d0
<1>4. kept([d0 EXCEPT !.sched = TRUE])
  BY <1>2 DEF Device
<1>5. \A f : kept(f) => kept([f EXCEPT !.heur = h, !.timer = RegularHeuristics])
  BY DeviceAssumption DEF Device
<1>6. ~OutFull(d) => kept(Send(d0, msg))
  <2> SUFFICES ASSUME ~OutFull(d) PROVE kept(Send(d0, msg))
    OBVIOUS
  <2>1. msg \in ClientMsg
    BY ClientMessages
  <2>2. ~OutFull(d0)
    BY <1>1 DEF OutFull
  <2>3. /\ Send(d0, msg) \in Device /\ Len(Send(d0, msg).out) <= MaxDeviceBuffers
        /\ Send(d0, msg) = [d0 EXCEPT !.out = Append(d0.out, msg)]
    BY <1>2, <2>1, <2>2, SendFacts
  <2> QED BY <1>1, <2>3 DEF Device
<1>7. kept(e)
  BY <1>2, <1>3, <1>4, <1>5, <1>6
<1> HIDE DEF e
<1>8. /\ CallbackInv(e) /\ NoCast(d, e)
      /\ e.active = d.active \ {"regular"} /\ e.waiting = d.waiting
  BY <1>1, <1>7 DEF CallbackInv, RunningDeviceHasReported, Ready, NoCast
<1> QED BY <1>8 DEF e

(* What the connect notifier sends fits the buffers, and ends with the      *)
(* membership of the device's ring when it is complete.                     *)
LEMMA SetupFits ==
    ASSUME NEW out \in Seq(ClientMsg), Len(out) <= MaxDeviceBuffers,
           NEW m1 \in ClientMsg, NEW m2 \in ClientMsg, NEW m3 \in ClientMsg,
           NEW m4 \in ClientMsg,
           NEW k, k = IF MaxDeviceBuffers - Len(out) < 4 THEN MaxDeviceBuffers - Len(out) ELSE 4
    PROVE  /\ out \o SubSeq(<<m1, m2, m3, m4>>, 1, k) \in Seq(ClientMsg)
           /\ Len(out \o SubSeq(<<m1, m2, m3, m4>>, 1, k)) <= MaxDeviceBuffers
           /\ Len(SubSeq(<<m1, m2, m3, m4>>, 1, k)) = k
           /\ k \in 0 .. 4
<1> DEFINE ms == <<m1, m2, m3, m4>>
<1>1. Len(out) \in Nat
  BY LenProperties
<1>2. k \in 0 .. 4 /\ Len(out) + k <= MaxDeviceBuffers
  BY <1>1, DeviceAssumption
<1>3. \A i \in 1 .. 4 : ms[i] \in ClientMsg
  OBVIOUS
<1> HIDE DEF ms
<1>4. /\ SubSeq(ms, 1, k) \in Seq(ClientMsg)
      /\ Len(SubSeq(ms, 1, k)) = k
  <2>1. k \in Int /\ 1 \in Int /\ 1 .. k \subseteq 1 .. 4
    BY <1>2
  <2>2. \A i \in 1 .. k : ms[i] \in ClientMsg
    BY <1>3, <2>1
  <2>3. Len(SubSeq(ms, 1, k)) = (IF 1 <= k THEN k - 1 + 1 ELSE 0)
    BY <2>1, <2>2, SubSeqProperties
  <2>4. SubSeq(ms, 1, k) \in Seq(ClientMsg)
    BY <2>1, <2>2, SubSeqProperties
  <2> QED BY <1>2, <2>3, <2>4
<1>5. /\ out \o SubSeq(ms, 1, k) \in Seq(ClientMsg)
      /\ Len(out \o SubSeq(ms, 1, k)) = Len(out) + k
  BY <1>4, ConcatProperties
<1> QED BY <1>2, <1>4, <1>5 DEF ms

(* The connect notifier: a device that becomes READY has just reported its  *)
(* ring, and has no vote.                                                   *)
LEMMA ConnectResultInv ==
    ASSUME NEW d, CallbackInv(d), NEW h \in HeurResults
    PROVE  LET e == ConnectResult(d, h)
           IN  /\ CallbackInv(e) /\ NoCast(d, e)
               /\ e.active = d.active \ {"connect"} /\ e.waiting = d.waiting
<1> DEFINE d0   == [d EXCEPT !.active = @ \ {"connect"}]
           msgs == << [type |-> "set_option", keep |-> DeviceKeep],
                      [type |-> "config_node_list", nodes |-> d.config, initial |-> TRUE],
                      MembershipMsg(d, h),
                      [type |-> "quorum_node_list"] >>
           free == MaxDeviceBuffers - Len(d.out)
           sent == SubSeq(msgs, 1, IF free < 4 THEN free ELSE 4)
           d1   == [d0 EXCEPT !.out = d0.out \o sent,
                              !.sentRing = IF Len(sent) >= 3 THEN d.ring ELSE d0.sentRing]
           g    == CastVoteTimerUpdate(d1, "WAIT_FOR_REPLY")
           e    == [g EXCEPT !.state = "READY", !.heur = h]
<1>0. /\ d \in Device /\ d.ring \in Rings /\ d.sentRing \in Rings
      /\ d.members \in MemberLists /\ d.config \in ConfigLists
      /\ d.out \in Seq(ClientMsg) /\ Len(d.out) <= MaxDeviceBuffers
  BY DEF CallbackInv, Device
<1>1. /\ d0 \in Device /\ d0.active = d.active \ {"connect"} /\ d0.state = d.state
      /\ d0.ring = d.ring /\ d0.sentRing = d.sentRing /\ d0.paused = d.paused
      /\ d0.sched = d.sched /\ d0.out = d.out /\ d0.polled = d.polled
      /\ d0.vote = d.vote /\ d0.waiting = d.waiting
  BY <1>0 DEF Device
<1>2. ConnectResult(d, h) = IF d.state # "WAITING_INIT_REPLY" THEN d0
                            ELSE IF Len(sent) < 4 THEN d1 ELSE e
  BY DEF ConnectResult
<1> HIDE DEF d0
<1>3. CallbackInv(d0)
  BY <1>1 DEF CallbackInv, RunningDeviceHasReported, Ready
<1>4. /\ d.out \o sent \in Seq(ClientMsg) /\ Len(d.out \o sent) <= MaxDeviceBuffers
      /\ Len(sent) \in 0 .. 4
  <2>1. DeviceKeep \in KeepOptions
    BY DeviceAssumption
  <2>2. MembershipMsg(d, h) \in ClientMsg
    BY <1>0, ClientMessages DEF MembershipMsg
  <2>3. /\ [type |-> "set_option", keep |-> DeviceKeep] \in ClientMsg
        /\ [type |-> "config_node_list", nodes |-> d.config, initial |-> TRUE] \in ClientMsg
        /\ [type |-> "quorum_node_list"] \in ClientMsg
    BY <1>0, <2>1, ClientMessages
  <2> DEFINE m1 == [type |-> "set_option", keep |-> DeviceKeep]
             m2 == [type |-> "config_node_list", nodes |-> d.config, initial |-> TRUE]
             m3 == MembershipMsg(d, h)
             m4 == [type |-> "quorum_node_list"]
             out == d.out
             k  == IF MaxDeviceBuffers - Len(out) < 4 THEN MaxDeviceBuffers - Len(out) ELSE 4
  <2>4. sent = SubSeq(<<m1, m2, m3, m4>>, 1, k)
    OBVIOUS
  <2>5. /\ m1 \in ClientMsg /\ m2 \in ClientMsg /\ m3 \in ClientMsg /\ m4 \in ClientMsg
        /\ out \in Seq(ClientMsg) /\ Len(out) <= MaxDeviceBuffers
        /\ k = IF MaxDeviceBuffers - Len(out) < 4 THEN MaxDeviceBuffers - Len(out) ELSE 4
    BY <1>0, <2>2, <2>3
  <2> HIDE DEF m1, m2, m3, m4, k, sent, out
  <2>6. /\ out \o SubSeq(<<m1, m2, m3, m4>>, 1, k) \in Seq(ClientMsg)
        /\ Len(out \o SubSeq(<<m1, m2, m3, m4>>, 1, k)) <= MaxDeviceBuffers
        /\ Len(SubSeq(<<m1, m2, m3, m4>>, 1, k)) = k
        /\ k \in 0 .. 4
    BY <2>5, SetupFits
  <2> QED BY <2>4, <2>6 DEF out
<1> HIDE DEF sent
<1>5. /\ d1 \in Device /\ d1.out = d.out \o sent /\ d1.active = d0.active
      /\ d1.state = d0.state /\ d1.ring = d0.ring /\ d1.paused = d0.paused
      /\ d1.sched = d0.sched /\ d1.polled = d0.polled /\ d1.vote = d0.vote
      /\ d1.waiting = d0.waiting
      /\ Len(sent) >= 3 => d1.sentRing = d.ring
  BY <1>0, <1>1, <1>4 DEF Device
<1> HIDE DEF d1
<1>6. CASE d.state # "WAITING_INIT_REPLY"
  BY <1>1, <1>2, <1>3, <1>6 DEF NoCast
<1>7. ASSUME d.state = "WAITING_INIT_REPLY" PROVE CallbackInv(d1)
  BY <1>1, <1>3, <1>4, <1>5, <1>7 DEF CallbackInv, RunningDeviceHasReported, Ready
<1>8. CASE d.state = "WAITING_INIT_REPLY" /\ Len(sent) < 4
  BY <1>1, <1>2, <1>5, <1>7, <1>8 DEF NoCast
<1>9. CASE d.state = "WAITING_INIT_REPLY" /\ ~(Len(sent) < 4)
  <2>1. Len(sent) >= 3
    BY <1>4, <1>9
  <2>2. CallbackInv(g) /\ Frame(d1, g) /\ NoCast(d1, g)
    <3>1. "WAIT_FOR_REPLY" \in (Votes \cup {"NO_CHANGE"}) \ {"ACK"}
      BY DEF Votes
    <3> QED BY <1>7, <1>9, <3>1, NoAckUpdate
  <2> HIDE DEF g
  <2>3. /\ e \in Device /\ e.active = g.active /\ Ready(e) /\ e.ring = g.ring
        /\ e.sentRing = g.sentRing /\ e.paused = g.paused /\ e.sched = g.sched
        /\ e.out = g.out /\ e.polled = g.polled /\ e.vote = g.vote /\ e.waiting = g.waiting
    BY <2>2 DEF CallbackInv, Device, DeviceStates, Ready
  <2> HIDE DEF e
  <2>4. e.ring = e.sentRing
    BY <1>1, <1>5, <2>1, <2>2, <2>3 DEF Frame
  <2>5. CallbackInv(e)
    BY <2>2, <2>3, <2>4 DEF CallbackInv, RunningDeviceHasReported
  <2> QED BY <1>1, <1>2, <1>5, <1>9, <2>2, <2>3, <2>5 DEF Frame, NoCast
<1> QED BY <1>6, <1>8, <1>9

(***************************************************************************)
(* All active notifiers are called with the worker's result: none is left  *)
(* active, so nobody waits for a result that will not come.                *)
(***************************************************************************)
LEMMA HeuristicsResultInv ==
    ASSUME QdeviceInv, NEW n \in Nodes, NEW h \in HeurResults, HeuristicsResult(n, h)
    PROVE  StepOK(n)
<1> DEFINE d0 == [dev[n] EXCEPT !.waiting = FALSE]
           d1 == IF "vq" \in d0.active THEN VqResult(d0, h) ELSE d0
           d2 == IF "regular" \in d1.active THEN RegularResult(d1, h) ELSE d1
           d3 == IF "connect" \in d2.active THEN ConnectResult(d2, h) ELSE d2
<1>1. dev' = [dev EXCEPT ![n] = d3]
  BY DEF HeuristicsResult
<1>2. CallbackInv(dev[n]) /\ dev[n] \in Device
  BY DEF QdeviceInv, DeviceInv, CallbackInv
<1>3. CallbackInv(d0) /\ d0.polled = dev[n].polled
  <2>1. /\ d0 \in Device /\ d0.active = dev[n].active /\ d0.state = dev[n].state
        /\ d0.ring = dev[n].ring /\ d0.sentRing = dev[n].sentRing
        /\ d0.paused = dev[n].paused /\ d0.sched = dev[n].sched /\ d0.out = dev[n].out
        /\ d0.polled = dev[n].polled /\ d0.vote = dev[n].vote
    BY <1>2 DEF Device
  <2> HIDE DEF d0
  <2> QED BY <1>2, <2>1 DEF CallbackInv, RunningDeviceHasReported, Ready
<1> HIDE DEF d0
<1>4. CallbackInv(d1) /\ NoCast(d0, d1) /\ "vq" \notin d1.active
  BY <1>3, VqResultInv DEF NoCast
<1> HIDE DEF d1
<1>5. CallbackInv(d2) /\ NoCast(d1, d2) /\ d2.active \subseteq d1.active \ {"regular"}
  BY <1>4, RegularResultInv DEF NoCast
<1> HIDE DEF d2
<1>6. CallbackInv(d3) /\ NoCast(d2, d3) /\ d3.active \subseteq d2.active \ {"connect"}
  BY <1>5, ConnectResultInv DEF NoCast
<1> HIDE DEF d3
<1>7. d3 \in Device /\ d3.active = {}
  BY <1>4, <1>5, <1>6 DEF CallbackInv, Device
<1>8. NoCast(dev[n], d3)
  BY <1>3, <1>4, <1>5, <1>6 DEF NoCast
<1>9. DeviceInv(d3) /\ CastReported(dev[n], d3)
  BY <1>6, <1>7, <1>8 DEF DeviceInv, CastReported, NoCast
<1> QED BY <1>1, <1>9, OneDevice

-----------------------------------------------------------------------------
(* The other callbacks.  A membership change pauses the cast vote timer.    *)
LEMMA NodeListNotifyInv ==
    ASSUME QdeviceInv, NEW n \in Nodes, NEW r \in Rings, NEW ms \in MemberLists,
           NodeListNotify(n, r, ms)
    PROVE  StepOK(n)
<1> DEFINE d  == dev[n]
           d1 == [d EXCEPT !.ring = r, !.timer = FALSE,
                           !.active = IF d.timer THEN d.active \ {"regular"} ELSE d.active]
           d2 == CastVoteTimerUpdate(d1, SafeVote(d1))
           e  == [d2 EXCEPT !.paused = TRUE, !.members = ms, !.waiting = TRUE,
                            !.active = d2.active \cup {"vq"}]
<1>1. dev' = [dev EXCEPT ![n] = e]
  BY DEF NodeListNotify
<1>2. d \in Device /\ CallbackInv(d)
  BY DEF QdeviceInv, DeviceInv, CallbackInv
<1> HIDE DEF d
<1>3. /\ d1 \in Device /\ d1.out = d.out /\ d1.vote = d.vote /\ d1.state = d.state
      /\ d1.polled = d.polled
  BY <1>2 DEF Device
<1> HIDE DEF d1
<1>4. SafeVote(d1) \in Votes \cup {"NO_CHANGE"} /\ SafeVote(d1) # "ACK"
  BY SafeVoteFacts
<1>5. /\ d2 \in Device /\ Frame(d1, d2)
      /\ d2.vote = d1.vote \/ d2.vote # "ACK"
      /\ d2.polled = d1.polled \/ ~d2.polled.cast
  BY <1>3, <1>4, TimerUpdated
<1> HIDE DEF d2
<1>6. /\ e \in Device /\ e.paused /\ e.waiting /\ "vq" \in e.active
      /\ e.out = d2.out /\ e.vote = d2.vote /\ e.state = d2.state /\ e.polled = d2.polled
  BY <1>5 DEF Device
<1> HIDE DEF e
<1>7. DeviceInv(e)
  BY <1>2, <1>3, <1>5, <1>6
     DEF DeviceInv, CallbackInv, RunningDeviceHasReported, Ready, Frame
<1>8. CastReported(d, e)
  BY <1>3, <1>5, <1>6 DEF CastReported
<1> QED BY <1>1, <1>7, <1>8, OneDevice DEF d

(* A device that takes part in no callback keeps what it has; the fields    *)
(* below are not looked at by the invariant.                                *)
LEMMA RegularTimerInv ==
    ASSUME QdeviceInv, NEW n \in Nodes, RegularTimer(n)
    PROVE  StepOK(n)
<1> DEFINE d == dev[n]
           e == [d EXCEPT !.timer = FALSE, !.waiting = TRUE,
                          !.active = d.active \cup {"regular"}]
<1>1. dev' = [dev EXCEPT ![n] = e]
  BY DEF RegularTimer
<1>2. d \in Device /\ DeviceInv(d)
  BY DEF QdeviceInv
<1> HIDE DEF d
<1>3. /\ e \in Device /\ e.out = d.out /\ e.vote = d.vote /\ e.state = d.state
      /\ e.polled = d.polled /\ e.ring = d.ring /\ e.sentRing = d.sentRing
      /\ e.paused = d.paused /\ e.sched = d.sched /\ e.waiting
      /\ "vq" \in d.active => "vq" \in e.active
  BY <1>2 DEF Device
<1> HIDE DEF e
<1>4. DeviceInv(e) /\ CastReported(d, e)
  BY <1>2, <1>3
     DEF DeviceInv, CallbackInv, RunningDeviceHasReported, Ready, CastReported
<1> QED BY <1>1, <1>4, OneDevice DEF d

(* The timer repeats the vote in force, which is for the reported ring.     *)
LEMMA CastVoteTimerInv ==
    ASSUME QdeviceInv, NEW n \in Nodes, CastVoteTimer(n)
    PROVE  StepOK(n)
<1> DEFINE d == dev[n]
           e == Poll(d)
<1>1. dev' = [dev EXCEPT ![n] = e]
  BY DEF CastVoteTimer
<1>2. d \in Device /\ DeviceInv(d)
  BY DEF QdeviceInv
<1> HIDE DEF d
<1>3. /\ e \in Device /\ Frame(d, e) /\ e.vote = d.vote
      /\ \/ e.polled = d.polled
         \/ ~d.paused /\ e.polled.ring = d.ring /\ e.polled.cast = (d.vote = "ACK")
  BY <1>2 DEF Poll, Device, Frame
<1> HIDE DEF e
<1>4. DeviceInv(e) /\ CastReported(d, e)
  BY <1>2, <1>3
     DEF DeviceInv, CallbackInv, RunningDeviceHasReported, Ready, CastReported, Frame
<1> QED BY <1>1, <1>4, OneDevice DEF d

(* A callback that sends one message, or gives up the connection.           *)
LEMMA SendOrScheduleInv ==
    ASSUME NEW d, CallbackInv(d), NEW msg \in ClientMsg
    PROVE  LET e == SendOrSchedule(d, msg)
           IN  /\ CallbackInv(e) /\ e.polled = d.polled /\ e.active = d.active
               /\ e.waiting = d.waiting
<1>1. d \in Device /\ Len(d.out) <= MaxDeviceBuffers
  BY DEF CallbackInv
<1>2. CASE OutFull(d)
  <2> DEFINE e == [d EXCEPT !.sched = TRUE]
  <2>1. SendOrSchedule(d, msg) = e
    BY <1>2 DEF SendOrSchedule
  <2>2. /\ e \in Device /\ e.out = d.out /\ e.vote = d.vote /\ e.state = d.state
        /\ e.polled = d.polled /\ e.ring = d.ring /\ e.sentRing = d.sentRing
        /\ e.paused = d.paused /\ e.sched /\ e.active = d.active /\ e.waiting = d.waiting
    BY <1>1 DEF Device
  <2> HIDE DEF e
  <2> QED BY <2>1, <2>2 DEF CallbackInv, RunningDeviceHasReported, Ready
<1>3. CASE ~OutFull(d)
  <2> DEFINE e == Send(d, msg)
  <2>1. SendOrSchedule(d, msg) = e
    BY <1>3 DEF SendOrSchedule
  <2>2. /\ e \in Device /\ Len(e.out) <= MaxDeviceBuffers
        /\ e = [d EXCEPT !.out = Append(d.out, msg)]
    BY <1>1, <1>3, SendFacts
  <2>3. /\ e.vote = d.vote /\ e.state = d.state
        /\ e.polled = d.polled /\ e.ring = d.ring /\ e.sentRing = d.sentRing
        /\ e.paused = d.paused /\ e.sched = d.sched /\ e.active = d.active
        /\ e.waiting = d.waiting
    BY <1>1, <2>2 DEF Device
  <2> HIDE DEF e
  <2> QED BY <2>1, <2>2, <2>3 DEF CallbackInv, RunningDeviceHasReported, Ready
<1> QED BY <1>2, <1>3

(* A reloaded configuration is sent to a connected server.                  *)
LEMMA ConfigNodeListChangedInv ==
    ASSUME QdeviceInv, NEW n \in Nodes, NEW nodes \in ConfigLists,
           NEW valid \in BOOLEAN, ConfigNodeListChanged(n, nodes, valid)
    PROVE  StepOK(n)
<1> DEFINE d   == dev[n]
           msg == [type |-> "config_node_list", nodes |-> nodes, initial |-> FALSE]
           d1  == IF valid THEN CastVoteTimerUpdate(d, SafeVote(d))
                  ELSE [d EXCEPT !.sched = TRUE]
           d2  == IF valid /\ Ready(d) THEN SendOrSchedule(d1, msg) ELSE d1
           e   == [d2 EXCEPT !.config = nodes]
<1>1. dev' = [dev EXCEPT ![n] = e]
  BY DEF ConfigNodeListChanged
<1>2. DeviceInv(d) /\ CallbackInv(d)
  BY DEF QdeviceInv, DeviceInv
<1> HIDE DEF d
<1>3. CallbackInv(d1) /\ NoCast(d, d1) /\ d1.active = d.active /\ d1.waiting = d.waiting
  <2>1. CASE valid
    <3>1. d1 = CastVoteTimerUpdate(d, SafeVote(d))
      BY <2>1
    <3> HIDE DEF d1
    <3> QED BY <3>1, <1>2, SafeVoteFacts, NoAckUpdate DEF Frame
  <2>2. CASE ~valid
    <3>1. d1 = [d EXCEPT !.sched = TRUE]
      BY <2>2
    <3> HIDE DEF d1
    <3>2. /\ d1 \in Device /\ d1.out = d.out /\ d1.vote = d.vote /\ d1.state = d.state
          /\ d1.polled = d.polled /\ d1.ring = d.ring /\ d1.sentRing = d.sentRing
          /\ d1.paused = d.paused /\ d1.sched /\ d1.active = d.active
          /\ d1.waiting = d.waiting
      BY <3>1, <1>2 DEF CallbackInv, Device
    <3> QED BY <3>2, <1>2 DEF CallbackInv, RunningDeviceHasReported, Ready, NoCast
  <2> QED BY <2>1, <2>2
<1> HIDE DEF d1
<1>4. msg \in ClientMsg
  BY ClientMessages
<1> HIDE DEF msg
<1>5. CallbackInv(d2) /\ NoCast(d, d2) /\ d2.active = d.active /\ d2.waiting = d.waiting
  BY <1>3, <1>4, SendOrScheduleInv DEF NoCast
<1> HIDE DEF d2
<1>6. /\ e \in Device /\ e.out = d2.out /\ e.vote = d2.vote /\ e.state = d2.state
      /\ e.polled = d2.polled /\ e.ring = d2.ring /\ e.sentRing = d2.sentRing
      /\ e.paused = d2.paused /\ e.sched = d2.sched /\ e.active = d2.active
      /\ e.waiting = d2.waiting
  BY <1>5 DEF CallbackInv, Device
<1> HIDE DEF e
<1>7. DeviceInv(e) /\ CastReported(d, e)
  BY <1>2, <1>5, <1>6
     DEF DeviceInv, CallbackInv, RunningDeviceHasReported, Ready, CastReported, NoCast
<1> QED BY <1>1, <1>7, OneDevice DEF d

(* Only the regular timer is started.                                       *)
LEMMA HeuristicsReloadedInv ==
    ASSUME QdeviceInv, NEW n \in Nodes, HeuristicsReloaded(n)
    PROVE  StepOK(n)
<1> DEFINE d == dev[n]
           e == [d EXCEPT !.timer = RegularHeuristics]
<1>1. dev' = [dev EXCEPT ![n] = e]
  BY DEF HeuristicsReloaded
<1>2. d \in Device /\ DeviceInv(d)
  BY DEF QdeviceInv
<1> HIDE DEF d
<1>3. /\ e \in Device /\ e.out = d.out /\ e.vote = d.vote /\ e.state = d.state
      /\ e.polled = d.polled /\ e.ring = d.ring /\ e.sentRing = d.sentRing
      /\ e.paused = d.paused /\ e.sched = d.sched /\ e.active = d.active
      /\ e.waiting = d.waiting
  BY <1>2, DeviceAssumption DEF Device
<1> HIDE DEF e
<1>4. DeviceInv(e) /\ CastReported(d, e)
  BY <1>2, <1>3
     DEF DeviceInv, CallbackInv, RunningDeviceHasReported, Ready, CastReported
<1> QED BY <1>1, <1>4, OneDevice DEF d

(* A quorum change is sent to a connected server.                           *)
LEMMA QuorumNotifyInv ==
    ASSUME QdeviceInv, NEW n \in Nodes, QuorumNotify(n)
    PROVE  StepOK(n)
<1> DEFINE d   == dev[n]
           msg == [type |-> "quorum_node_list"]
           d1  == CastVoteTimerUpdate(d, SafeVote(d))
           e   == IF Ready(d) THEN SendOrSchedule(d1, msg) ELSE d1
<1>1. dev' = [dev EXCEPT ![n] = e]
  BY DEF QuorumNotify
<1>2. DeviceInv(d) /\ CallbackInv(d)
  BY DEF QdeviceInv, DeviceInv
<1> HIDE DEF d
<1>3. CallbackInv(d1) /\ Frame(d, d1) /\ NoCast(d, d1)
  BY <1>2, SafeVoteFacts, NoAckUpdate
<1> HIDE DEF d1
<1>4. msg \in ClientMsg
  BY ClientMessages
<1> HIDE DEF msg
<1>5. CallbackInv(e) /\ NoCast(d, e) /\ e.active = d.active /\ e.waiting = d.waiting
  BY <1>3, <1>4, SendOrScheduleInv DEF NoCast, Frame
<1> HIDE DEF e
<1>6. DeviceInv(e) /\ CastReported(d, e)
  BY <1>2, <1>5 DEF DeviceInv, CastReported, NoCast
<1> QED BY <1>1, <1>6, OneDevice DEF d

(* A new connection starts with an init message in an empty buffer list.    *)
LEMMA ConnectInv ==
    ASSUME QdeviceInv, NEW n \in Nodes, Connect(n)
    PROVE  StepOK(n)
<1> DEFINE d == dev[n]
           out == <<[type |-> "init", ring |-> d.ring]>>
           e == [d EXCEPT !.state = "WAITING_INIT_REPLY", !.sentRing = d.ring, !.out = out]
<1>1. dev' = [dev EXCEPT ![n] = e] /\ d.state = "WAITING_CONNECT"
  BY DEF Connect
<1>2. d \in Device /\ DeviceInv(d) /\ d.ring \in Rings
  BY DEF QdeviceInv, Device
<1> HIDE DEF d
<1>3. out \in Seq(ClientMsg) /\ Len(out) = 1
  BY <1>2, ClientMessages
<1> HIDE DEF out
<1>4. /\ e \in Device /\ e.out = out /\ e.vote = d.vote /\ e.state = "WAITING_INIT_REPLY"
      /\ e.polled = d.polled /\ e.paused = d.paused /\ e.sched = d.sched
      /\ e.active = d.active /\ e.waiting = d.waiting
  BY <1>2, <1>3 DEF Device, DeviceStates
<1> HIDE DEF e
<1>5. Len(e.out) <= MaxDeviceBuffers
  <2>1. 1 <= MaxDeviceBuffers
    BY DeviceAssumption
  <2>2. Len(e.out) = 1
    BY <1>3, <1>4
  <2> QED BY <2>1, <2>2
<1>6. DeviceInv(e) /\ CastReported(d, e)
  BY <1>1, <1>2, <1>4, <1>5
     DEF DeviceInv, CallbackInv, RunningDeviceHasReported, Ready, CastReported
<1> QED BY <1>1, <1>6, OneDevice DEF d

(* The fields of the messages that carry a vote.                            *)
LEMMA ServerVotes ==
    ASSUME NEW msg \in ServerMsg
    PROVE  /\ msg.type = "vote_info" => msg.vote \in {"ACK", "NACK"} /\ msg.seq \in SeqNums
           /\ msg.type = "reply" => msg.vote \in ReplyVotes
BY DEF ServerMsg

(* A vote for the ring sent last reaches votequorum only when the timer is  *)
(* not paused, that is when the ring sent last is the one in force.         *)
LEMMA VoteTaken ==
    ASSUME NEW d, CallbackInv(d), Ready(d), NEW vote \in Votes \cup {"NO_CHANGE"}
    PROVE  LET e == CastVoteTimerUpdate(d, vote)
           IN  CallbackInv(e) /\ Frame(d, e) /\ CastReported(d, e)
<1> DEFINE e == CastVoteTimerUpdate(d, vote)
<1>1. d \in Device
  BY DEF CallbackInv
<1>2. /\ e \in Device /\ Frame(d, e)
      /\ e.polled = d.polled \/ (~d.paused /\ e.polled.ring = d.ring)
  BY <1>1, TimerUpdated
<1> HIDE DEF e
<1>3. CallbackInv(e) /\ CastReported(d, e)
  BY <1>2 DEF CallbackInv, Frame, RunningDeviceHasReported, Ready, CastReported
<1> QED BY <1>2, <1>3 DEF e

(* Whatever the server sends, the invariant holds afterwards.               *)
LEMMA ReceiveInv ==
    ASSUME QdeviceInv, NEW n \in Nodes, NEW msg \in ServerMsg, Receive(n, msg)
    PROVE  StepOK(n)
<1> DEFINE d    == dev[n]
           vote == IF msg.ring = d.sentRing THEN msg.vote ELSE "NO_CHANGE"
           d1   == CastVoteTimerUpdate(d, vote)
           init == [d EXCEPT !.active = d.active \cup {"connect"}, !.waiting = TRUE]
           reply == [type |-> "vote_info_reply", seq |-> msg.seq]
<1> SUFFICES ASSUME NEW e, dev' = [dev EXCEPT ![n] = e],
                    \/ e = init
                    \/ e = d
                    \/ e = d1 /\ msg.type = "reply" /\ Ready(d)
                    \/ e = Disconnected(d1) /\ msg.type = "vote_info" /\ Ready(d)
                    \/ e = Send(d1, reply) /\ msg.type = "vote_info" /\ Ready(d) /\ ~OutFull(d)
                    \/ e = Disconnected(d)
             PROVE  DeviceInv(e) /\ CastReported(d, e)
  BY OneDevice DEF Receive, ReceivedInitReply, ReceivedVote, AcceptedVote, ReceivedVoteInfo
<1>1. d \in Device /\ DeviceInv(d) /\ CallbackInv(d)
  BY DEF QdeviceInv, DeviceInv
<1> HIDE DEF d
<1>2. CASE e = init
  <2>1. /\ e \in Device /\ e.out = d.out /\ e.vote = d.vote /\ e.state = d.state
        /\ e.polled = d.polled /\ e.ring = d.ring /\ e.sentRing = d.sentRing
        /\ e.paused = d.paused /\ e.sched = d.sched /\ e.waiting
        /\ "vq" \in d.active => "vq" \in e.active
    BY <1>1, <1>2 DEF Device
  <2> QED BY <1>1, <2>1
          DEF DeviceInv, CallbackInv, RunningDeviceHasReported, Ready, CastReported
<1>3. CASE e = d
  BY <1>1, <1>3 DEF CastReported
<1>4. ASSUME msg.type \in {"reply", "vote_info"}, Ready(d)
      PROVE  CallbackInv(d1) /\ Frame(d, d1) /\ CastReported(d, d1)
  <2>1. vote \in Votes \cup {"NO_CHANGE"}
    BY <1>4, ServerVotes DEF Votes, ReplyVotes
  <2> HIDE DEF vote
  <2> QED BY <1>1, <1>4, <2>1, VoteTaken
<1> HIDE DEF d1
<1>5. CASE e = d1 /\ msg.type = "reply" /\ Ready(d)
  BY <1>1, <1>4, <1>5 DEF DeviceInv, Frame
<1>6. CASE e = Disconnected(d1) /\ msg.type = "vote_info" /\ Ready(d)
  <2>1. d1 \in Device /\ d1.active = d.active /\ d1.waiting = d.waiting
    BY <1>4, <1>6 DEF CallbackInv, Frame
  <2>2. CallbackInv(e) /\ ~e.polled.cast /\ e.active = d1.active /\ e.waiting = d1.waiting
    BY <1>6, <2>1, DisconnectedInv
  <2> QED BY <1>1, <2>1, <2>2 DEF DeviceInv, CastReported
<1>7. CASE e = Send(d1, reply) /\ msg.type = "vote_info" /\ Ready(d) /\ ~OutFull(d)
  <2>1. CallbackInv(d1) /\ Frame(d, d1) /\ CastReported(d, d1) /\ ~OutFull(d1)
    BY <1>4, <1>7 DEF Frame, OutFull
  <2>2. reply \in ClientMsg
    BY <1>7, ServerVotes, ClientMessages
  <2> HIDE DEF reply
  <2>3. d1 \in Device /\ Len(d1.out) <= MaxDeviceBuffers
    BY <2>1 DEF CallbackInv
  <2>4. /\ e \in Device /\ Len(e.out) <= MaxDeviceBuffers
        /\ e = [d1 EXCEPT !.out = Append(d1.out, reply)]
    BY <1>7, <2>1, <2>2, <2>3, SendFacts
  <2>5. /\ e.vote = d1.vote /\ e.state = d1.state
        /\ e.polled = d1.polled /\ e.ring = d1.ring /\ e.sentRing = d1.sentRing
        /\ e.paused = d1.paused /\ e.sched = d1.sched /\ e.active = d1.active
        /\ e.waiting = d1.waiting
    BY <2>3, <2>4 DEF Device
  <2> QED BY <1>1, <2>1, <2>4, <2>5
          DEF DeviceInv, CallbackInv, RunningDeviceHasReported, Ready, CastReported, Frame
<1>8. CASE e = Disconnected(d)
  <2>1. CallbackInv(e) /\ ~e.polled.cast /\ e.active = d.active /\ e.waiting = d.waiting
    BY <1>1, <1>8, DisconnectedInv
  <2> QED BY <1>1, <2>1 DEF DeviceInv, CastReported
<1> QED BY <1>2, <1>3, <1>5, <1>6, <1>7, <1>8

(* The socket takes a buffer.                                               *)
LEMMA DeviceWriteInv ==
    ASSUME QdeviceInv, NEW n \in Nodes, DeviceWrite(n)
    PROVE  StepOK(n)
<1> DEFINE d == dev[n]
           out == Tail(d.out)
           e == [d EXCEPT !.out = out]
<1>1. dev' = [dev EXCEPT ![n] = e] /\ d.out # <<>>
  BY DEF DeviceWrite
<1>2. /\ d \in Device /\ DeviceInv(d) /\ d.out \in Seq(ClientMsg)
      /\ Len(d.out) <= MaxDeviceBuffers
  BY DEF QdeviceInv, DeviceInv, CallbackInv, Device
<1>3. out \in Seq(ClientMsg) /\ Len(out) = Len(d.out) - 1 /\ Len(d.out) \in Nat
  BY <1>1, <1>2, HeadTailProperties, LenProperties
<1>4. Len(out) <= MaxDeviceBuffers
  BY <1>2, <1>3, DeviceAssumption
<1> HIDE DEF d, out
<1>5. /\ e \in Device /\ e.out = out /\ e.vote = d.vote /\ e.state = d.state
      /\ e.polled = d.polled /\ e.ring = d.ring /\ e.sentRing = d.sentRing
      /\ e.paused = d.paused /\ e.sched = d.sched /\ e.active = d.active
      /\ e.waiting = d.waiting
  BY <1>2, <1>3 DEF Device
<1> HIDE DEF e
<1>6. DeviceInv(e) /\ CastReported(d, e)
  BY <1>2, <1>4, <1>5
     DEF DeviceInv, CallbackInv, RunningDeviceHasReported, Ready, CastReported
<1> QED BY <1>1, <1>6, OneDevice DEF d

(* A timer or the check of the votes gives up the connection.               *)
LEMMA DeviceScheduleDisconnectInv ==
    ASSUME QdeviceInv, NEW n \in Nodes,
           DeviceScheduleDisconnect(n) \/ ExpectedVotesNotify(n)
    PROVE  StepOK(n)
<1> DEFINE d == dev[n]
           e == [d EXCEPT !.sched = TRUE]
<1>1. dev' = [dev EXCEPT ![n] = e]
  BY DEF DeviceScheduleDisconnect, ExpectedVotesNotify
<1>2. d \in Device /\ DeviceInv(d)
  BY DEF QdeviceInv
<1> HIDE DEF d
<1>3. /\ e \in Device /\ e.out = d.out /\ e.vote = d.vote /\ e.state = d.state
      /\ e.polled = d.polled /\ e.ring = d.ring /\ e.sentRing = d.sentRing
      /\ e.paused = d.paused /\ e.sched /\ e.active = d.active /\ e.waiting = d.waiting
  BY <1>2 DEF Device
<1> HIDE DEF e
<1>4. DeviceInv(e) /\ CastReported(d, e)
  BY <1>2, <1>3
     DEF DeviceInv, CallbackInv, RunningDeviceHasReported, Ready, CastReported
<1> QED BY <1>1, <1>4, OneDevice DEF d

(* The poll loop ends.                                                      *)
LEMMA DisconnectInv ==
    ASSUME QdeviceInv, NEW n \in Nodes, Disconnect(n)
    PROVE  StepOK(n)
<1> DEFINE e == Disconnected(dev[n])
<1>1. dev' = [dev EXCEPT ![n] = e]
  BY DEF Disconnect
<1>2. dev[n] \in Device /\ DeviceInv(dev[n])
  BY DEF QdeviceInv
<1>3. CallbackInv(e) /\ ~e.polled.cast /\ e.active = dev[n].active /\ e.waiting = dev[n].waiting
  BY <1>2, DisconnectedInv
<1> HIDE DEF e
<1>4. DeviceInv(e) /\ CastReported(dev[n], e)
  BY <1>2, <1>3 DEF DeviceInv, CastReported
<1> QED BY <1>1, <1>4, OneDevice

(* A device at the start of its first loop.                                 *)
LEMMA QdeviceInitInv == QdeviceInit => QdeviceInv
<1> SUFFICES ASSUME NEW r \in Rings, NEW ms \in MemberLists, NEW cfg \in ConfigLists,
                    NEW h \in HeurResults,
                    dev = [n \in Nodes |-> NewDevice(r, ms, cfg, h)]
             PROVE  QdeviceInv
  BY DEF QdeviceInit
<1> DEFINE d == NewDevice(r, ms, cfg, h)
<1>1. d \in Device
  BY ClientMessages, DeviceAssumption DEF NewDevice, Device, DeviceStates, Votes
<1>2. Len(d.out) <= MaxDeviceBuffers
  BY DeviceAssumption DEF NewDevice
<1>3. DeviceInv(d)
  BY <1>1, <1>2 DEF NewDevice, DeviceInv, CallbackInv, RunningDeviceHasReported, Ready
<1> HIDE DEF d
<1> QED BY <1>1, <1>3 DEF QdeviceInv, d

(* Every step is a good callback of one device.                             *)
LEMMA NextStepOK ==
    ASSUME QdeviceInv, QdeviceNext
    PROVE  \E n \in Nodes : StepOK(n)
<1> PICK n \in Nodes :
        \/ \E r \in Rings, ms \in MemberLists : NodeListNotify(n, r, ms)
        \/ \E h \in HeurResults : HeuristicsResult(n, h)
        \/ RegularTimer(n)
        \/ CastVoteTimer(n)
        \/ \E nodes \in ConfigLists, valid \in BOOLEAN :
               ConfigNodeListChanged(n, nodes, valid)
        \/ HeuristicsReloaded(n)
        \/ QuorumNotify(n)
        \/ ExpectedVotesNotify(n)
        \/ Connect(n)
        \/ \E msg \in ServerMsg : Receive(n, msg)
        \/ DeviceWrite(n)
        \/ DeviceScheduleDisconnect(n)
        \/ Disconnect(n)
  BY DEF QdeviceNext
<1>1. StepOK(n)
  BY NodeListNotifyInv, HeuristicsResultInv, RegularTimerInv, CastVoteTimerInv,
     ConfigNodeListChangedInv, HeuristicsReloadedInv, QuorumNotifyInv, ConnectInv, ReceiveInv, DeviceWriteInv,
     DeviceScheduleDisconnectInv, DisconnectInv
<1> QED BY <1>1

-----------------------------------------------------------------------------
(* Whatever happens to the devices, in whatever order, the invariant holds. *)
THEOREM QdeviceInvariant == QdeviceSpec => []QdeviceInv
<1>1. QdeviceInit => QdeviceInv
  BY QdeviceInitInv
<1>2. QdeviceInv /\ [QdeviceNext]_dev => QdeviceInv'
  <2>1. QdeviceInv /\ UNCHANGED dev => QdeviceInv'
    BY DEF QdeviceInv
  <2>2. ASSUME QdeviceInv, QdeviceNext PROVE QdeviceInv'
    <3> PICK n \in Nodes : StepOK(n)
      BY <2>2, NextStepOK
    <3> QED BY <2>2 DEF QdeviceInv, StepOK
  <2> QED BY <2>1, <2>2
<1> QED BY <1>1, <1>2, PTL DEF QdeviceSpec

(* The data of every device are well typed.                                 *)
THEOREM QdeviceTypeCorrect == QdeviceSpec => []QdeviceTypeOK
<1>1. QdeviceInv => QdeviceTypeOK
  BY DEF QdeviceInv, QdeviceTypeOK
<1> QED BY <1>1, QdeviceInvariant, PTL

(* A device whose cast vote timer runs has reported its ring, and one that  *)
(* votes ACK is connected.                                                  *)
THEOREM AcksAreForReportedRing == QdeviceSpec => []AckOnlyForReportedRing
<1>1. QdeviceInv => AckOnlyForReportedRing
  BY DEF QdeviceInv, DeviceInv, CallbackInv, AckOnlyForReportedRing
<1> QED BY <1>1, QdeviceInvariant, PTL

(* No wake-up of a paused device is lost.                                   *)
THEOREM PausesEnd == QdeviceSpec => []PauseHasAnEnd
<1>1. QdeviceInv => PauseHasAnEnd
  BY DEF QdeviceInv, DeviceInv, CallbackInv, PauseHasAnEnd
<1> QED BY <1>1, QdeviceInvariant, PTL

(* votequorum is given a positive vote only by a connected device and for a *)
(* ring that qnetd has been told of.                                        *)
THEOREM CastsAreForReportedRing == QdeviceSpec => CastsOnlyForReportedRing
<1> DEFINE Cast == \A n \in Nodes :
              dev'[n].polled # dev[n].polled /\ dev'[n].polled.cast =>
                  Ready(dev'[n]) /\ dev'[n].polled.ring = dev'[n].sentRing
<1>1. QdeviceInv /\ [QdeviceNext]_dev => [Cast]_dev
  <2> SUFFICES ASSUME QdeviceInv, QdeviceNext PROVE Cast
    OBVIOUS
  <2> PICK n \in Nodes : StepOK(n)
    BY NextStepOK
  <2> QED BY DEF StepOK, CastReported
<1> HIDE DEF Cast
<1>2. QdeviceSpec => [][Cast]_dev
  BY <1>1, QdeviceInvariant, PTL DEF QdeviceSpec
<1> QED BY <1>2 DEF CastsOnlyForReportedRing, Cast
=============================================================================
