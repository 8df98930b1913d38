------------------------ MODULE FfsplitConnectionProofs ------------------------
(***************************************************************************)
(* One connection between a device and qnetd: the lemmas on which the      *)
(* proof of NoSplitVote (FfsplitSystemProofs) rests.  They are about a     *)
(* device d, the ring r and the sequence number s that the server keeps    *)
(* for it, and the messages `in' on their way to it.                       *)
(***************************************************************************)
EXTENDS FfsplitSystem, QnetdFfsplitProofs, QdeviceNetFfsplitProofs

IsVote(m)   == m.type = "vote_info"
IsRing(m)   == m.type \in {"init", "membership_node_list"}
IsReply(m)  == m.type = "vote_info_reply"
IsConfig(m) == m.type = "config_node_list"
IsMembership(m) == m.type = "membership_node_list"

(* The rings a device knows, has reported and has polled for; and when it   *)
(* is paused.                                                               *)
RingsInOrder(d) ==
    /\ d.polled.ring <= d.ring /\ d.sentRing <= d.ring
    /\ d.polled.cast => Ready(d)
    /\ Ready(d) /\ "vq" \in d.active => d.paused
    /\ Ready(d) /\ d.paused => d.sentRing # d.ring
    /\ ~Ready(d) /\ d.paused => "vq" \in d.active
    /\ d.polled.cast /\ d.polled.ring = d.ring => d.sentRing = d.ring
    /\ d.config = Nodes

(* The rings a device reports only grow.                                    *)
OutInOrder(d) ==
    /\ \A i \in 1 .. Len(d.out) : IsRing(d.out[i]) => d.out[i].ring <= d.sentRing
    /\ \A i, j \in 1 .. Len(d.out) :
           i < j /\ IsRing(d.out[i]) /\ IsRing(d.out[j]) => d.out[i].ring <= d.out[j].ring
    /\ \A i \in 1 .. Len(d.out) :
           IsConfig(d.out[i]) => d.out[i].nodes = Nodes /\ d.out[i].initial

(* A membership is sent after the configuration, which the server `has'.    *)
Announced(d, has) ==
    /\ \A i \in 1 .. Len(d.out) :
           IsMembership(d.out[i]) => has \/ \E j \in 1 .. (i - 1) : IsConfig(d.out[j])
    /\ Ready(d) => has \/ \E j \in 1 .. Len(d.out) : IsConfig(d.out[j])

(* The device votes, or has voted, for the ring it is in.                   *)
HoldsVote(d) ==
    /\ d.ring = d.sentRing
    /\ d.vote = "ACK" \/ (d.polled.cast /\ d.polled.ring = d.ring)

(* An ACK that the device will take over is on its way.                     *)
AckComing(r, in) ==
    \E i \in 1 .. Len(in) : IsVote(in[i]) /\ in[i].vote = "ACK" /\ in[i].ring = r

HasVote(d, r, in) == HoldsVote(d) \/ AckComing(r, in)

(* The two ends of a connection.                                            *)
ConnOK(d, r, s, in) ==
    /\ r <= d.sentRing
    /\ \A i \in 1 .. Len(d.out) : IsRing(d.out[i]) => r <= d.out[i].ring
    /\ \A i \in 1 .. Len(d.out) : IsReply(d.out[i]) => d.out[i].seq <= s
    /\ \A i \in 1 .. Len(in) : IsVote(in[i]) => in[i].ring <= r /\ in[i].seq <= s
    /\ \A i, j \in 1 .. Len(in) : i < j /\ IsVote(in[i]) /\ IsVote(in[j]) => in[i].seq < in[j].seq
    /\ HoldsVote(d) => r = d.sentRing

(* The vote sent last is a NACK, and a device that has confirmed it has no  *)
(* vote.                                                                    *)
NackOwed(d, r, s, in) ==
    /\ \A i \in 1 .. Len(in) :
           IsVote(in[i]) /\ in[i].seq = s => in[i].vote = "NACK" /\ in[i].ring = r
    /\ \A i \in 1 .. Len(d.out) : IsReply(d.out[i]) /\ d.out[i].seq = s => ~HasVote(d, r, in)

(***************************************************************************)
(* What a callback of the device that is not about a vote of the server    *)
(* does: it may send, it may report a newer ring, and it gains no vote.    *)
(***************************************************************************)
OwnStep(d, e) ==
    /\ d.sentRing <= e.sentRing
    /\ HoldsVote(e) => HoldsVote(d) /\ e.sentRing = d.sentRing
    /\ e.vote = "ACK" => d.vote = "ACK"
    /\ e.polled.cast => d.polled.cast \/ d.vote = "ACK"
    /\ e.state = "WAITING_CONNECT" <=> d.state = "WAITING_CONNECT"
    /\ Len(d.out) <= Len(e.out)
    /\ \A i \in 1 .. Len(d.out) : e.out[i] = d.out[i]
    /\ \A i \in 1 .. Len(e.out) : i > Len(d.out) =>
           /\ ~IsReply(e.out[i])
           /\ IsRing(e.out[i]) => d.sentRing <= e.out[i].ring

(* The devices and messages the lemmas are about, and numbers.              *)
LEMMA RingsAreNumbers == Rings \subseteq Int /\ SeqNums \subseteq Int
BY SystemAssumption, SeqAssumption DEF SeqNums

(* The numbers in a device.                                                 *)
LEMMA DeviceNumbers ==
    ASSUME NEW d \in Device
    PROVE  /\ d.ring \in Int /\ d.sentRing \in Int /\ d.polled.ring \in Int
           /\ d.polled.cast \in BOOLEAN /\ d.paused \in BOOLEAN
           /\ d.out \in Seq(ClientMsg) /\ Len(d.out) \in Nat
           /\ \A i \in 1 .. Len(d.out) : d.out[i] \in ClientMsg
<1>1. /\ d.ring \in Rings /\ d.sentRing \in Rings /\ d.polled.ring \in Rings
      /\ d.polled.cast \in BOOLEAN /\ d.paused \in BOOLEAN /\ d.out \in Seq(ClientMsg)
  BY DEF Device
<1>2. Len(d.out) \in Nat /\ \A i \in 1 .. Len(d.out) : d.out[i] \in ClientMsg
  BY <1>1, LenProperties, ElementOfSeq
<1> QED BY <1>1, <1>2, RingsAreNumbers

(* The numbers in messages.                                                 *)
LEMMA MessageNumbers ==
    /\ \A m \in ClientMsg : /\ IsRing(m) => m.ring \in Int
                            /\ IsReply(m) => m.seq \in Int
    /\ \A m \in ServerMsg : IsVote(m) => m.ring \in Int /\ m.seq \in Int /\ m.vote \in {"ACK", "NACK"}
<1>1. ASSUME NEW m \in ClientMsg
      PROVE  (IsRing(m) => m.ring \in Rings) /\ (IsReply(m) => m.seq \in SeqNums)
  BY DEF ClientMsg, IsRing, IsReply
<1>2. ASSUME NEW m \in ServerMsg, IsVote(m)
      PROVE  m.ring \in Rings /\ m.seq \in SeqNums /\ m.vote \in {"ACK", "NACK"}
  BY <1>2 DEF ServerMsg, IsVote
<1> QED BY <1>1, <1>2, RingsAreNumbers

(* The numbers in the messages on their way to a device.                    *)
LEMMA InNumbers ==
    ASSUME NEW in \in Seq(ServerMsg)
    PROVE  /\ Len(in) \in Nat
           /\ \A i \in 1 .. Len(in) :
                  /\ in[i] \in ServerMsg
                  /\ IsVote(in[i]) => in[i].ring \in Int /\ in[i].seq \in Int
                                      /\ in[i].vote \in {"ACK", "NACK"}
<1>1. Len(in) \in Nat /\ \A i \in 1 .. Len(in) : in[i] \in ServerMsg
  BY LenProperties, ElementOfSeq
<1> QED BY <1>1, MessageNumbers

-----------------------------------------------------------------------------
(* A callback of its own does not disturb the device's connection.          *)
LEMMA OwnStepConn ==
    ASSUME NEW d \in Device, NEW e \in Device, NEW r \in Int, NEW s \in Int,
           NEW in \in Seq(ServerMsg), OwnStep(d, e), ConnOK(d, r, s, in)
    PROVE  /\ ConnOK(e, r, s, in)
           /\ HasVote(e, r, in) => HasVote(d, r, in)
           /\ NackOwed(d, r, s, in) => NackOwed(e, r, s, in)
<1>1. /\ d.sentRing \in Int /\ e.sentRing \in Int /\ Len(d.out) \in Nat /\ Len(e.out) \in Nat
      /\ \A i \in 1 .. Len(e.out) : IsRing(e.out[i]) => e.out[i].ring \in Int
  BY DeviceNumbers, MessageNumbers
<1>2. HasVote(e, r, in) => HasVote(d, r, in)
  BY DEF OwnStep, HasVote
<1>3. \A i \in 1 .. Len(e.out) :
          \/ i \in 1 .. Len(d.out) /\ e.out[i] = d.out[i]
          \/ i > Len(d.out) /\ ~IsReply(e.out[i]) /\ (IsRing(e.out[i]) => d.sentRing <= e.out[i].ring)
  BY <1>1 DEF OwnStep
<1>4. r <= e.sentRing /\ (HoldsVote(e) => r = e.sentRing)
  BY <1>1 DEF OwnStep, ConnOK
<1>5. ConnOK(e, r, s, in)
  <2>1. \A i \in 1 .. Len(e.out) : IsRing(e.out[i]) => r <= e.out[i].ring
    <3> SUFFICES ASSUME NEW i \in 1 .. Len(e.out), IsRing(e.out[i]) PROVE r <= e.out[i].ring
      OBVIOUS
    <3>1. e.out[i].ring \in Int /\ r <= d.sentRing
      BY <1>1 DEF ConnOK
    <3>2. CASE i \in 1 .. Len(d.out) /\ e.out[i] = d.out[i]
      BY <3>2 DEF ConnOK
    <3>3. CASE d.sentRing <= e.out[i].ring
      BY <1>1, <3>1, <3>3
    <3> QED BY <1>3, <3>2, <3>3
  <2>2. \A i \in 1 .. Len(e.out) : IsReply(e.out[i]) => e.out[i].seq <= s
    BY <1>3 DEF ConnOK
  <2> QED BY <1>4, <2>1, <2>2 DEF ConnOK
<1>6. NackOwed(d, r, s, in) => NackOwed(e, r, s, in)
  BY <1>2, <1>3 DEF NackOwed
<1> QED BY <1>2, <1>5, <1>6

-----------------------------------------------------------------------------
(* The messages of the two queues of a connection.                          *)
LEMMA AppendAt ==
    ASSUME NEW S, NEW q \in Seq(S), NEW x \in S
    PROVE  /\ Append(q, x) \in Seq(S) /\ Len(q) \in Nat /\ Len(Append(q, x)) = Len(q) + 1
           /\ \A i \in 1 .. Len(q) : Append(q, x)[i] = q[i]
           /\ Append(q, x)[Len(q) + 1] = x
BY AppendProperties, LenProperties

(* What is left of a queue after its first message.                         *)
LEMMA TailAt ==
    ASSUME NEW S, NEW q \in Seq(S), q # << >>
    PROVE  /\ Tail(q) \in Seq(S) /\ Len(q) \in Nat /\ Len(q) >= 1 /\ Len(Tail(q)) = Len(q) - 1
           /\ Head(q) = q[1] /\ Head(q) \in S
           /\ \A i \in 1 .. Len(Tail(q)) : i + 1 \in 1 .. Len(q) /\ Tail(q)[i] = q[i + 1]
<1>1. Tail(q) \in Seq(S) /\ Len(Tail(q)) = Len(q) - 1 /\ Len(q) \in Nat /\ Head(q) \in S
  BY HeadTailProperties, LenProperties
<1>2. Len(q) # 0
  BY EmptySeq
<1> QED BY <1>1, <1>2

(* A message without a vote is queued for the device.                       *)
LEMMA OtherQueued ==
    ASSUME NEW d \in Device, NEW r \in Int, NEW s \in Int, NEW in \in Seq(ServerMsg),
           NEW m \in ServerMsg, ~IsVote(m)
    PROVE  LET in2 == Append(in, m)
           IN  /\ in2 \in Seq(ServerMsg)
               /\ ConnOK(d, r, s, in) => ConnOK(d, r, s, in2)
               /\ HasVote(d, r, in2) => HasVote(d, r, in)
               /\ NackOwed(d, r, s, in) => NackOwed(d, r, s, in2)
<1> DEFINE in2 == Append(in, m)
<1>1. /\ in2 \in Seq(ServerMsg) /\ Len(in) \in Nat /\ Len(in2) = Len(in) + 1
      /\ \A i \in 1 .. Len(in) : in2[i] = in[i]
      /\ in2[Len(in) + 1] = m
  BY AppendAt
<1> HIDE DEF in2
<1>2. \A i \in 1 .. Len(in2) : IsVote(in2[i]) => i \in 1 .. Len(in) /\ in2[i] = in[i]
  BY <1>1
<1>3. HasVote(d, r, in2) => HasVote(d, r, in)
  BY <1>2 DEF HasVote, AckComing
<1>4. ConnOK(d, r, s, in) => ConnOK(d, r, s, in2)
  BY <1>2 DEF ConnOK
<1>5. NackOwed(d, r, s, in) => NackOwed(d, r, s, in2)
  BY <1>2, <1>3 DEF NackOwed
<1> QED BY <1>1, <1>3, <1>4, <1>5 DEF in2

(***************************************************************************)
(* A vote is sent: the sequence number advances, and the vote is queued    *)
(* unless there is no buffer left.                                         *)
(***************************************************************************)
LEMMA VoteQueued ==
    ASSUME NEW d \in Device, NEW r \in Int, NEW s \in Int, NEW in \in Seq(ServerMsg),
           NEW m \in ServerMsg, IsVote(m), m.seq = s + 1, m.ring = r,
           NEW in2, in2 = in \/ in2 = Append(in, m), ConnOK(d, r, s, in)
    PROVE  /\ in2 \in Seq(ServerMsg)
           /\ ConnOK(d, r, s + 1, in2)
           /\ m.vote = "NACK" => /\ HasVote(d, r, in2) => HasVote(d, r, in)
                                 /\ NackOwed(d, r, s + 1, in2)
<1>1. /\ in2 \in Seq(ServerMsg) /\ Len(in) \in Nat /\ Len(in2) \in Nat
      /\ \A i \in 1 .. Len(in2) :
             \/ i \in 1 .. Len(in) /\ in2[i] = in[i]
             \/ i = Len(in) + 1 /\ in2[i] = m
  <2>1. CASE in2 = in
    BY <2>1, LenProperties
  <2>2. CASE in2 = Append(in, m)
    <3>1. /\ in2 \in Seq(ServerMsg) /\ Len(in) \in Nat /\ Len(in2) = Len(in) + 1
          /\ \A i \in 1 .. Len(in) : in2[i] = in[i]
          /\ in2[Len(in) + 1] = m
      BY <2>2, AppendAt
    <3> QED BY <3>1
  <2> QED BY <2>1, <2>2
<1>2. \A i \in 1 .. Len(in) : IsVote(in[i]) => in[i].seq \in Int /\ in[i].seq < s + 1
  <2> SUFFICES ASSUME NEW i \in 1 .. Len(in), IsVote(in[i])
               PROVE  in[i].seq \in Int /\ in[i].seq < s + 1
    OBVIOUS
  <2>1. in[i].seq <= s
    BY DEF ConnOK
  <2>2. in[i].seq \in Int
    BY InNumbers
  <2> QED BY <2>1, <2>2
<1>3. \A i \in 1 .. Len(d.out) : IsReply(d.out[i]) => d.out[i].seq \in Int /\ d.out[i].seq < s + 1
  <2> SUFFICES ASSUME NEW i \in 1 .. Len(d.out), IsReply(d.out[i])
               PROVE  d.out[i].seq \in Int /\ d.out[i].seq < s + 1
    OBVIOUS
  <2>1. d.out[i].seq <= s
    BY DEF ConnOK
  <2>2. d.out[i].seq \in Int
    BY DeviceNumbers, MessageNumbers
  <2> QED BY <2>1, <2>2
<1>4. ConnOK(d, r, s + 1, in2)
  <2>1. \A i \in 1 .. Len(in2) : IsVote(in2[i]) => in2[i].ring <= r /\ in2[i].seq <= s + 1
    <3> SUFFICES ASSUME NEW i \in 1 .. Len(in2), IsVote(in2[i])
                 PROVE  in2[i].ring <= r /\ in2[i].seq <= s + 1
      OBVIOUS
    <3>1. CASE i \in 1 .. Len(in) /\ in2[i] = in[i]
      BY <1>2, <3>1 DEF ConnOK
    <3>2. CASE in2[i] = m
      BY <3>2
    <3> QED BY <1>1, <3>1, <3>2
  <2>2. \A i, j \in 1 .. Len(in2) :
            i < j /\ IsVote(in2[i]) /\ IsVote(in2[j]) => in2[i].seq < in2[j].seq
    <3> SUFFICES ASSUME NEW i \in 1 .. Len(in2), NEW j \in 1 .. Len(in2), i < j,
                        IsVote(in2[i]), IsVote(in2[j])
                 PROVE  in2[i].seq < in2[j].seq
      OBVIOUS
    <3>1. i \in 1 .. Len(in) /\ in2[i] = in[i]
      BY <1>1
    <3>2. CASE j \in 1 .. Len(in) /\ in2[j] = in[j]
      BY <3>1, <3>2 DEF ConnOK
    <3>3. CASE in2[j] = m
      BY <1>2, <3>1, <3>3
    <3> QED BY <1>1, <3>2, <3>3
  <2>3. \A i \in 1 .. Len(d.out) : IsReply(d.out[i]) => d.out[i].seq <= s + 1
    BY <1>3
  <2> QED BY <2>1, <2>2, <2>3 DEF ConnOK
<1>5. ASSUME m.vote = "NACK"
      PROVE  /\ HasVote(d, r, in2) => HasVote(d, r, in)
             /\ NackOwed(d, r, s + 1, in2)
  <2>1. HasVote(d, r, in2) => HasVote(d, r, in)
    BY <1>1, <1>5 DEF HasVote, AckComing
  <2>2. \A i \in 1 .. Len(in2) : IsVote(in2[i]) /\ in2[i].seq = s + 1 =>
            in2[i].vote = "NACK" /\ in2[i].ring = r
    BY <1>1, <1>2, <1>5
  <2>3. \A i \in 1 .. Len(d.out) : ~(IsReply(d.out[i]) /\ d.out[i].seq = s + 1)
    BY <1>3
  <2> QED BY <2>1, <2>2, <2>3 DEF NackOwed
<1> QED BY <1>1, <1>4, <1>5

(* The device reads the first message.                                      *)
LEMMA FirstRead ==
    ASSUME NEW d \in Device, NEW r \in Int, NEW s \in Int, NEW in \in Seq(ServerMsg),
           in # << >>
    PROVE  /\ Tail(in) \in Seq(ServerMsg)
           /\ ConnOK(d, r, s, in) => ConnOK(d, r, s, Tail(in))
           /\ HasVote(d, r, Tail(in)) => HasVote(d, r, in)
           /\ NackOwed(d, r, s, in) => NackOwed(d, r, s, Tail(in))
<1> DEFINE in2 == Tail(in)
<1>1. /\ in2 \in Seq(ServerMsg) /\ Len(in2) \in Nat
      /\ \A i \in 1 .. Len(in2) : i + 1 \in 1 .. Len(in) /\ in2[i] = in[i + 1]
  BY TailAt, LenProperties
<1> HIDE DEF in2
<1>2. HasVote(d, r, in2) => HasVote(d, r, in)
  BY <1>1 DEF HasVote, AckComing
<1>3. ConnOK(d, r, s, in) => ConnOK(d, r, s, in2)
  <2> SUFFICES ASSUME ConnOK(d, r, s, in) PROVE ConnOK(d, r, s, in2)
    OBVIOUS
  <2>1. \A i \in 1 .. Len(in2) : IsVote(in2[i]) => in2[i].ring <= r /\ in2[i].seq <= s
    BY <1>1 DEF ConnOK
  <2>2. \A i, j \in 1 .. Len(in2) :
            i < j /\ IsVote(in2[i]) /\ IsVote(in2[j]) => in2[i].seq < in2[j].seq
    <3> SUFFICES ASSUME NEW i \in 1 .. Len(in2), NEW j \in 1 .. Len(in2), i < j,
                        IsVote(in2[i]), IsVote(in2[j])
                 PROVE  in2[i].seq < in2[j].seq
      OBVIOUS
    <3>1. i + 1 \in 1 .. Len(in) /\ j + 1 \in 1 .. Len(in) /\ i + 1 < j + 1
      BY <1>1
    <3> QED BY <1>1, <3>1 DEF ConnOK
  <2> QED BY <2>1, <2>2 DEF ConnOK
<1>4. NackOwed(d, r, s, in) => NackOwed(d, r, s, in2)
  BY <1>1, <1>2 DEF NackOwed
<1> QED BY <1>1, <1>2, <1>3, <1>4 DEF in2

(***************************************************************************)
(* The device reads a vote and confirms it.  An ACK it takes over was      *)
(* coming, and after the NACK that is owed it has no vote: a device whose  *)
(* timer is paused is in a ring it has not reported, so it has none        *)
(* anyway.                                                                 *)
(***************************************************************************)
LEMMA VoteRead ==
    ASSUME NEW d \in Device, NEW e \in Device, NEW r \in Int, NEW s \in Int,
           NEW in \in Seq(ServerMsg), in # << >>, ConnOK(d, r, s, in),
           RingsInOrder(d), Ready(d),
           NEW m, m = Head(in), IsVote(m),
           NEW reply \in ClientMsg, IsReply(reply), reply.seq = m.seq,
           e.ring = d.ring, e.sentRing = d.sentRing, e.out = Append(d.out, reply),
           m.ring # d.sentRing => e.vote = d.vote /\ e.polled = d.polled,
           m.ring = d.sentRing => e.vote = m.vote,
           m.ring = d.sentRing /\ ~d.paused => e.polled.cast = (m.vote = "ACK")
    PROVE  /\ ConnOK(e, r, s, Tail(in))
           /\ HasVote(e, r, Tail(in)) => HasVote(d, r, in)
           /\ NackOwed(d, r, s, in) => NackOwed(e, r, s, Tail(in))
<1> DEFINE in2 == Tail(in)
<1>1. /\ m = in[1] /\ 1 \in 1 .. Len(in) /\ Len(in2) \in Nat
      /\ \A i \in 1 .. Len(in2) : i + 1 \in 1 .. Len(in) /\ in2[i] = in[i + 1] /\ 1 < i + 1
  BY TailAt, LenProperties
<1>2. /\ m.ring \in Int /\ m.seq \in Int /\ m.vote \in {"ACK", "NACK"}
      /\ m.ring <= r /\ m.seq <= s /\ r <= d.sentRing /\ d.sentRing \in Int
  BY <1>1, InNumbers, DeviceNumbers DEF ConnOK
<1>3. /\ ConnOK(d, r, s, in2) /\ (HasVote(d, r, in2) => HasVote(d, r, in))
      /\ NackOwed(d, r, s, in) => NackOwed(d, r, s, in2)
      /\ AckComing(r, in2) => AckComing(r, in)
  <2>1. AckComing(r, in2) => AckComing(r, in)
    BY <1>1 DEF AckComing
  <2> QED BY <2>1, FirstRead
(* How the device comes by its vote.                                        *)
<1>4. ASSUME HoldsVote(e)
      PROVE  /\ (m.ring # d.sentRing /\ HoldsVote(d)) \/ (m.ring = r /\ m.vote = "ACK")
             /\ r = d.sentRing
  <2>1. CASE m.ring # d.sentRing
    <3>1. HoldsVote(d)
      BY <1>4, <2>1 DEF HoldsVote
    <3> QED BY <2>1, <3>1 DEF ConnOK
  <2>2. CASE m.ring = d.sentRing /\ m.vote = "ACK"
    BY <1>2, <2>2
  <2>3. CASE m.ring = d.sentRing /\ m.vote = "NACK"
    <3>1. e.vote = "NACK"
      BY <2>3
    <3>2. d.ring = d.sentRing /\ e.polled.cast
      BY <1>4, <3>1 DEF HoldsVote
    <3>3. ~d.paused
      BY <3>2 DEF RingsInOrder
    <3>4. e.polled.cast = FALSE
      BY <2>3, <3>3
    <3> QED BY <3>2, <3>4
  <2> QED BY <1>2, <2>1, <2>2, <2>3
<1>5. HasVote(e, r, in2) => HasVote(d, r, in)
  BY <1>1, <1>3, <1>4 DEF HasVote, AckComing
<1>6. /\ Len(d.out) \in Nat /\ Len(e.out) = Len(d.out) + 1
      /\ \A i \in 1 .. Len(e.out) :
             \/ i \in 1 .. Len(d.out) /\ e.out[i] = d.out[i]
             \/ e.out[i] = reply
  <2>1. d.out \in Seq(ClientMsg)
    BY DeviceNumbers
  <2>2. /\ Len(d.out) \in Nat /\ Len(e.out) = Len(d.out) + 1
        /\ \A i \in 1 .. Len(d.out) : e.out[i] = d.out[i]
        /\ e.out[Len(d.out) + 1] = reply
    BY <2>1, AppendAt
  <2> QED BY <2>2
<1>7. ~IsRing(reply)
  BY DEF IsReply, IsRing
<1>8. ConnOK(e, r, s, in2)
  <2>1. \A i \in 1 .. Len(e.out) : IsRing(e.out[i]) => r <= e.out[i].ring
    BY <1>6, <1>7 DEF ConnOK
  <2>2. \A i \in 1 .. Len(e.out) : IsReply(e.out[i]) => e.out[i].seq <= s
    BY <1>2, <1>6 DEF ConnOK
  <2>3. r <= e.sentRing /\ (HoldsVote(e) => r = e.sentRing)
    BY <1>2, <1>4
  <2> QED BY <1>3, <2>1, <2>2, <2>3 DEF ConnOK
<1>9. ASSUME NackOwed(d, r, s, in) PROVE NackOwed(e, r, s, in2)
  <2>1. \A i \in 1 .. Len(in2) :
            IsVote(in2[i]) /\ in2[i].seq = s => in2[i].vote = "NACK" /\ in2[i].ring = r
    BY <1>3, <1>9 DEF NackOwed
  <2>2. \A i \in 1 .. Len(e.out) : IsReply(e.out[i]) /\ e.out[i].seq = s => ~HasVote(e, r, in2)
    <3> SUFFICES ASSUME NEW i \in 1 .. Len(e.out), IsReply(e.out[i]), e.out[i].seq = s
                 PROVE  ~HasVote(e, r, in2)
      OBVIOUS
    <3>1. CASE i \in 1 .. Len(d.out) /\ e.out[i] = d.out[i]
      BY <1>5, <1>9, <3>1 DEF NackOwed
    <3>2. CASE e.out[i] = reply
      <4>1. m.seq = s
        BY <3>2
      <4>2. m.vote = "NACK" /\ m.ring = r
        BY <1>1, <1>9, <4>1 DEF NackOwed
      <4>3. ~HoldsVote(e)
        BY <1>4, <4>2
      <4>4. \A k \in 1 .. Len(in2) : ~IsVote(in2[k])
        <5> SUFFICES ASSUME NEW k \in 1 .. Len(in2), IsVote(in2[k]) PROVE FALSE
          OBVIOUS
        <5>1. k + 1 \in 1 .. Len(in) /\ IsVote(in[k + 1]) /\ 1 < k + 1
          BY <1>1
        <5>2. m.seq < in[k + 1].seq /\ in[k + 1].seq <= s /\ in[k + 1].seq \in Int
          BY <1>1, <5>1, InNumbers DEF ConnOK
        <5> QED BY <4>1, <5>2
      <4> QED BY <4>3, <4>4 DEF HasVote, AckComing
    <3> QED BY <1>6, <3>1, <3>2
  <2> QED BY <2>1, <2>2 DEF NackOwed
<1> QED BY <1>5, <1>8, <1>9 DEF in2

-----------------------------------------------------------------------------
(* The server handles the first message of the device.                      *)

(* The rest of the queue, and the fields the write leaves alone.            *)
LEMMA FirstHandled ==
    ASSUME NEW d \in Device, d.out # << >>, NEW e, e = [d EXCEPT !.out = Tail(d.out)]
    PROVE  /\ e \in Device
           /\ \A i \in 1 .. Len(e.out) : i + 1 \in 1 .. Len(d.out) /\ e.out[i] = d.out[i + 1]
           /\ Len(e.out) \in Nat /\ Len(d.out) \in Nat /\ 1 \in 1 .. Len(d.out)
           /\ Len(e.out) = Len(d.out) - 1
           /\ Head(d.out) = d.out[1] /\ Head(d.out) \in ClientMsg
           /\ e.ring = d.ring /\ e.sentRing = d.sentRing /\ e.vote = d.vote
           /\ e.polled = d.polled /\ e.paused = d.paused /\ e.active = d.active
           /\ e.config = d.config /\ e.state = d.state
           /\ HoldsVote(e) <=> HoldsVote(d)
<1>1. d.out \in Seq(ClientMsg)
  BY DEF Device
<1>2. /\ Tail(d.out) \in Seq(ClientMsg) /\ Len(d.out) \in Nat /\ Len(d.out) >= 1
      /\ Len(Tail(d.out)) = Len(d.out) - 1
      /\ Head(d.out) = d.out[1] /\ Head(d.out) \in ClientMsg
      /\ \A i \in 1 .. Len(Tail(d.out)) :
             i + 1 \in 1 .. Len(d.out) /\ Tail(d.out)[i] = d.out[i + 1]
  BY <1>1, TailAt
<1>3. /\ e \in Device /\ e.out = Tail(d.out)
      /\ e.ring = d.ring /\ e.sentRing = d.sentRing /\ e.vote = d.vote
      /\ e.polled = d.polled /\ e.paused = d.paused /\ e.active = d.active
      /\ e.config = d.config /\ e.state = d.state
  BY <1>2 DEF Device
<1>4. HoldsVote(e) <=> HoldsVote(d)
  BY <1>3 DEF HoldsVote
<1> QED BY <1>2, <1>3, <1>4

(* What a device knows of itself does not depend on its first message, and  *)
(* a configuration that is handled is one the server has.                   *)
LEMMA FirstHandledOrder ==
    ASSUME NEW d \in Device, d.out # << >>, NEW e, e = [d EXCEPT !.out = Tail(d.out)],
           RingsInOrder(d), OutInOrder(d)
    PROVE  /\ RingsInOrder(e) /\ OutInOrder(e)
           /\ \A has, has2 : /\ Announced(d, has)
                             /\ has2 \in BOOLEAN
                             /\ has \/ IsConfig(Head(d.out)) => has2
                             => Announced(e, has2)
<1>1. /\ \A i \in 1 .. Len(e.out) : i + 1 \in 1 .. Len(d.out) /\ e.out[i] = d.out[i + 1]
      /\ Len(e.out) \in Nat /\ Len(d.out) \in Nat /\ 1 \in 1 .. Len(d.out)
      /\ Len(e.out) = Len(d.out) - 1 /\ Head(d.out) = d.out[1]
      /\ e.ring = d.ring /\ e.sentRing = d.sentRing
      /\ e.polled = d.polled /\ e.paused = d.paused /\ e.active = d.active
      /\ e.config = d.config /\ e.state = d.state
  BY FirstHandled
<1>2. RingsInOrder(e)
  BY <1>1 DEF RingsInOrder, Ready
<1>3. OutInOrder(e)
  <2>1. \A i \in 1 .. Len(e.out) : IsRing(e.out[i]) => e.out[i].ring <= e.sentRing
    BY <1>1 DEF OutInOrder
  <2>2. \A i, j \in 1 .. Len(e.out) :
            i < j /\ IsRing(e.out[i]) /\ IsRing(e.out[j]) => e.out[i].ring <= e.out[j].ring
    <3> SUFFICES ASSUME NEW i \in 1 .. Len(e.out), NEW j \in 1 .. Len(e.out), i < j,
                        IsRing(e.out[i]), IsRing(e.out[j])
                 PROVE  e.out[i].ring <= e.out[j].ring
      OBVIOUS
    <3>1. i + 1 \in 1 .. Len(d.out) /\ j + 1 \in 1 .. Len(d.out) /\ i + 1 < j + 1
      BY <1>1
    <3> QED BY <1>1, <3>1 DEF OutInOrder
  <2>3. \A i \in 1 .. Len(e.out) :
            IsConfig(e.out[i]) => e.out[i].nodes = Nodes /\ e.out[i].initial
    BY <1>1 DEF OutInOrder
  <2> QED BY <2>1, <2>2, <2>3 DEF OutInOrder
<1>4. ASSUME NEW has, NEW has2, Announced(d, has), has2 \in BOOLEAN,
             has \/ IsConfig(Head(d.out)) => has2
      PROVE  Announced(e, has2)
  <2>1. CASE has2
    BY <2>1 DEF Announced
  <2>2. CASE ~has2
    <3>1. ~has /\ ~IsConfig(d.out[1])
      BY <1>1, <1>4, <2>2
    (* A configuration message of d is not its first.                       *)
    <3>2. ASSUME NEW k \in 1 .. Len(d.out), \E j \in 1 .. k : IsConfig(d.out[j])
          PROVE  \E j \in 1 .. (k - 1) : IsConfig(e.out[j])
      <4>1. PICK j \in 1 .. k : IsConfig(d.out[j])
        BY <3>2
      <4>2. j # 1 /\ j - 1 \in 1 .. (k - 1) /\ j - 1 \in 1 .. Len(e.out) /\ (j - 1) + 1 = j
        BY <1>1, <3>1, <4>1
      <4>3. IsConfig(e.out[j - 1])
        BY <1>1, <4>1, <4>2
      <4> QED BY <4>2, <4>3
    <3>3. \A i \in 1 .. Len(e.out) :
              IsMembership(e.out[i]) => \E j \in 1 .. (i - 1) : IsConfig(e.out[j])
      <4> SUFFICES ASSUME NEW i \in 1 .. Len(e.out), IsMembership(e.out[i])
                   PROVE  \E j \in 1 .. (i - 1) : IsConfig(e.out[j])
        OBVIOUS
      <4>1. i + 1 \in 1 .. Len(d.out) /\ IsMembership(d.out[i + 1]) /\ i \in 1 .. Len(d.out)
            /\ (i + 1) - 1 = i
        BY <1>1
      <4>2. \E j \in 1 .. i : IsConfig(d.out[j])
        BY <1>4, <3>1, <4>1 DEF Announced
      <4> QED BY <3>2, <4>1, <4>2
    <3>4. Ready(e) => \E j \in 1 .. Len(e.out) : IsConfig(e.out[j])
      <4> SUFFICES ASSUME Ready(e) PROVE \E j \in 1 .. Len(e.out) : IsConfig(e.out[j])
        OBVIOUS
      <4>1. \E j \in 1 .. Len(d.out) : IsConfig(d.out[j])
        BY <1>1, <1>4, <3>1 DEF Announced, Ready
      <4>2. Len(d.out) \in 1 .. Len(d.out)
        BY <1>1
      <4> QED BY <1>1, <3>2, <4>1, <4>2
    <3> QED BY <3>3, <3>4 DEF Announced
  <2> QED BY <1>4, <2>1, <2>2
<1> QED BY <1>2, <1>3, <1>4

(* The message is not a ring: the server's ring stays.                      *)
LEMMA FirstHandledConn ==
    ASSUME NEW d \in Device, d.out # << >>, NEW e, e = [d EXCEPT !.out = Tail(d.out)],
           NEW r \in Int, NEW s \in Int, NEW in \in Seq(ServerMsg), ConnOK(d, r, s, in)
    PROVE  /\ ConnOK(e, r, s, in)
           /\ HasVote(e, r, in) => HasVote(d, r, in)
           /\ NackOwed(d, r, s, in) => NackOwed(e, r, s, in)
<1>1. /\ \A i \in 1 .. Len(e.out) : i + 1 \in 1 .. Len(d.out) /\ e.out[i] = d.out[i + 1]
      /\ e.sentRing = d.sentRing /\ (HoldsVote(e) <=> HoldsVote(d))
  BY FirstHandled
<1>2. HasVote(e, r, in) <=> HasVote(d, r, in)
  BY <1>1 DEF HasVote
<1>3. ConnOK(e, r, s, in)
  BY <1>1 DEF ConnOK
<1>4. NackOwed(d, r, s, in) => NackOwed(e, r, s, in)
  BY <1>1, <1>2 DEF NackOwed
<1> QED BY <1>2, <1>3, <1>4

(***************************************************************************)
(* The message is a ring, which becomes the server's: rings only grow, and *)
(* a device that has a vote has nothing newer on its way.                  *)
(***************************************************************************)
LEMMA RingHandledConn ==
    ASSUME NEW d \in Device, d.out # << >>, NEW e, e = [d EXCEPT !.out = Tail(d.out)],
           NEW r \in Int, NEW s \in Int, NEW in \in Seq(ServerMsg), ConnOK(d, r, s, in),
           OutInOrder(d), IsRing(Head(d.out)), NEW r2, r2 = Head(d.out).ring
    PROVE  /\ r2 \in Int /\ ConnOK(e, r2, s, in)
           /\ HasVote(e, r2, in) => HasVote(d, r, in) /\ r2 = r
<1>1. /\ \A i \in 1 .. Len(e.out) : i + 1 \in 1 .. Len(d.out) /\ e.out[i] = d.out[i + 1]
      /\ 1 \in 1 .. Len(d.out) /\ Len(e.out) \in Nat /\ Head(d.out) = d.out[1]
      /\ Head(d.out) \in ClientMsg
      /\ e.sentRing = d.sentRing /\ (HoldsVote(e) <=> HoldsVote(d))
  BY FirstHandled
<1>2. r2 \in Int /\ r <= r2 /\ r2 <= d.sentRing /\ d.sentRing \in Int
  BY <1>1, MessageNumbers, DeviceNumbers DEF ConnOK, OutInOrder
<1>3. HoldsVote(e) => r2 = r /\ r2 = d.sentRing
  BY <1>1, <1>2 DEF ConnOK
<1>4. AckComing(r2, in) => r2 = r
  <2> SUFFICES ASSUME NEW i \in 1 .. Len(in), IsVote(in[i]), in[i].ring = r2 PROVE r2 = r
    BY DEF AckComing
  <2>1. in[i].ring <= r
    BY DEF ConnOK
  <2> QED BY <1>2, <2>1
<1>5. HasVote(e, r2, in) => HasVote(d, r, in) /\ r2 = r
  BY <1>1, <1>3, <1>4 DEF HasVote
<1>6. ConnOK(e, r2, s, in)
  <2>1. \A i \in 1 .. Len(e.out) : IsRing(e.out[i]) => r2 <= e.out[i].ring
    <3> SUFFICES ASSUME NEW i \in 1 .. Len(e.out), IsRing(e.out[i]) PROVE r2 <= e.out[i].ring
      OBVIOUS
    <3>1. i + 1 \in 1 .. Len(d.out) /\ 1 < i + 1 /\ e.out[i] = d.out[i + 1]
      BY <1>1
    <3> QED BY <1>1, <3>1 DEF OutInOrder
  <2>2. \A i \in 1 .. Len(e.out) : IsReply(e.out[i]) => e.out[i].seq <= s
    BY <1>1 DEF ConnOK
  <2>3. \A i \in 1 .. Len(in) : IsVote(in[i]) => in[i].ring <= r2 /\ in[i].seq <= s
    <3> SUFFICES ASSUME NEW i \in 1 .. Len(in), IsVote(in[i])
                 PROVE  in[i].ring <= r2 /\ in[i].seq <= s
      OBVIOUS
    <3>0. in[i].ring <= r /\ in[i].seq <= s
      BY DEF ConnOK
    <3>1. in[i].ring \in Int
      BY InNumbers
    <3> QED BY <1>2, <3>0, <3>1
  <2> QED BY <1>1, <1>2, <1>3, <2>1, <2>2, <2>3 DEF ConnOK
<1> QED BY <1>2, <1>5, <1>6

-----------------------------------------------------------------------------
(* The callbacks of the device's own.                                       *)

DeviceSound(d, has) == RingsInOrder(d) /\ OutInOrder(d) /\ Announced(d, has)

(* Callbacks can be put together.                                           *)
LEMMA OwnStepTransitive ==
    ASSUME NEW d \in Device, NEW e \in Device, NEW f \in Device, OwnStep(d, e), OwnStep(e, f)
    PROVE  OwnStep(d, f)
<1>1. /\ Len(d.out) \in Nat /\ Len(e.out) \in Nat /\ Len(f.out) \in Nat
      /\ d.sentRing \in Int /\ e.sentRing \in Int /\ f.sentRing \in Int
      /\ \A i \in 1 .. Len(f.out) : f.out[i] \in ClientMsg
  BY DeviceNumbers
<1>2. Len(d.out) <= Len(f.out) /\ d.sentRing <= f.sentRing
  BY <1>1 DEF OwnStep
<1>3. \A i \in 1 .. Len(d.out) : f.out[i] = d.out[i]
  <2> SUFFICES ASSUME NEW i \in 1 .. Len(d.out) PROVE f.out[i] = d.out[i]
    OBVIOUS
  <2>1. i \in 1 .. Len(e.out)
    BY <1>1 DEF OwnStep
  <2> QED BY <2>1 DEF OwnStep
<1>4. ASSUME NEW i \in 1 .. Len(f.out), i > Len(d.out)
      PROVE  ~IsReply(f.out[i]) /\ (IsRing(f.out[i]) => d.sentRing <= f.out[i].ring)
  <2>1. CASE i > Len(e.out)
    <3>1. ~IsReply(f.out[i]) /\ (IsRing(f.out[i]) => e.sentRing <= f.out[i].ring)
      BY <2>1 DEF OwnStep
    <3>2. d.sentRing <= e.sentRing
      BY DEF OwnStep
    <3>3. IsRing(f.out[i]) => f.out[i].ring \in Int
      BY <1>1, MessageNumbers
    <3> QED BY <1>1, <3>1, <3>2, <3>3
  <2>2. CASE i \in 1 .. Len(e.out)
    BY <1>4, <2>2 DEF OwnStep
  <2> QED BY <1>1, <2>1, <2>2
<1>5. /\ HoldsVote(f) => HoldsVote(d) /\ f.sentRing = d.sentRing
      /\ f.vote = "ACK" => d.vote = "ACK"
      /\ f.polled.cast => d.polled.cast \/ d.vote = "ACK"
      /\ f.state = "WAITING_CONNECT" <=> d.state = "WAITING_CONNECT"
  BY DEF OwnStep
<1> QED BY <1>2, <1>3, <1>4, <1>5 DEF OwnStep

(* Only the vote, or what is polled, changes: no ACK is new.                *)
LEMMA TimerOwnStep ==
    ASSUME NEW d, CallbackInv(d), NEW e \in Device, NEW has, DeviceSound(d, has), Frame(d, e),
           e.vote = d.vote \/ e.vote # "ACK",
           \/ e.polled = d.polled
           \/ ~d.paused /\ e.polled.ring = d.ring /\ (e.polled.cast => d.vote = "ACK")
    PROVE  DeviceSound(e, has) /\ OwnStep(d, e)
<1>1. d \in Device
  BY DEF CallbackInv
<1>2. d.ring \in Int /\ d.sentRing \in Int /\ e.polled.ring \in Int /\ Len(d.out) \in Nat
  BY <1>1, DeviceNumbers
<1>3. ASSUME e.polled # d.polled, e.polled.cast
      PROVE  d.vote = "ACK" /\ Ready(d) /\ d.ring = d.sentRing
  BY <1>3 DEF CallbackInv, RunningDeviceHasReported
<1>4. RingsInOrder(e)
  BY <1>2, <1>3 DEF DeviceSound, RingsInOrder, Frame, Ready
<1>5. OutInOrder(e) /\ Announced(e, has)
  BY DEF DeviceSound, OutInOrder, Announced, Frame, Ready
<1>6. HoldsVote(e) => HoldsVote(d)
  BY <1>3 DEF HoldsVote, Frame
<1>7. OwnStep(d, e)
  BY <1>2, <1>6 DEF OwnStep, Frame
<1> QED BY <1>4, <1>5, <1>7 DEF DeviceSound

(* Nothing of what the proof looks at changes.                              *)
Same(d, e) ==
    /\ e.state = d.state /\ e.ring = d.ring /\ e.config = d.config
    /\ e.sentRing = d.sentRing /\ e.vote = d.vote /\ e.paused = d.paused
    /\ e.polled = d.polled /\ ("vq" \in e.active <=> "vq" \in d.active)

(* A step that leaves votes and messages alone.                             *)
LEMMA SameOwnStep ==
    ASSUME NEW d \in Device, NEW e \in Device, NEW has, DeviceSound(d, has), Same(d, e),
           e.out = d.out
    PROVE  DeviceSound(e, has) /\ OwnStep(d, e)
<1>1. d.sentRing \in Int /\ Len(d.out) \in Nat
  BY DeviceNumbers
<1>2. RingsInOrder(e)
  BY DEF DeviceSound, RingsInOrder, Same, Ready
<1>3. OutInOrder(e) /\ Announced(e, has)
  BY DEF DeviceSound, OutInOrder, Announced, Same, Ready
<1>4. OwnStep(d, e)
  BY <1>1 DEF OwnStep, Same, HoldsVote
<1> QED BY <1>2, <1>3, <1>4 DEF DeviceSound

(* Messages are added to what the device sends; a ring among them is the    *)
(* one sent last from now on.                                               *)
LEMMA OutGrows ==
    ASSUME NEW d \in Device, NEW e \in Device, OutInOrder(d),
           d.sentRing <= e.sentRing, Len(d.out) <= Len(e.out),
           \A i \in 1 .. Len(d.out) : e.out[i] = d.out[i],
           \A i \in 1 .. Len(e.out) : i > Len(d.out) =>
               /\ IsRing(e.out[i]) => e.out[i].ring = e.sentRing
               /\ IsConfig(e.out[i]) => e.out[i].nodes = Nodes /\ e.out[i].initial
    PROVE  OutInOrder(e)
<1>1. /\ Len(d.out) \in Nat /\ Len(e.out) \in Nat /\ d.sentRing \in Int /\ e.sentRing \in Int
      /\ \A i \in 1 .. Len(d.out) : IsRing(d.out[i]) => d.out[i].ring \in Int
  BY DeviceNumbers, MessageNumbers
<1>2. ASSUME NEW i \in 1 .. Len(e.out), IsRing(e.out[i])
      PROVE  /\ e.out[i].ring <= e.sentRing
             /\ i > Len(d.out) => e.out[i].ring = e.sentRing
  <2>1. CASE i > Len(d.out)
    BY <1>1, <1>2, <2>1
  <2>2. CASE i \in 1 .. Len(d.out)
    <3>1. e.out[i] = d.out[i] /\ d.out[i].ring <= d.sentRing /\ d.out[i].ring \in Int
      BY <1>1, <1>2, <2>2 DEF OutInOrder
    <3> QED BY <1>1, <2>2, <3>1
  <2> QED BY <1>1, <2>1, <2>2
<1>3. ASSUME NEW i \in 1 .. Len(e.out), NEW j \in 1 .. Len(e.out), i < j,
             IsRing(e.out[i]), IsRing(e.out[j])
      PROVE  e.out[i].ring <= e.out[j].ring
  <2>1. CASE j > Len(d.out)
    BY <1>2, <1>3, <2>1
  <2>2. CASE j \in 1 .. Len(d.out)
    <3>1. i \in 1 .. Len(d.out)
      BY <1>1, <1>3, <2>2
    <3> QED BY <1>3, <2>2, <3>1 DEF OutInOrder
  <2> QED BY <1>1, <2>1, <2>2
<1>4. ASSUME NEW i \in 1 .. Len(e.out), IsConfig(e.out[i])
      PROVE  e.out[i].nodes = Nodes /\ e.out[i].initial
  <2>1. CASE i > Len(d.out)
    BY <1>4, <2>1
  <2>2. CASE i \in 1 .. Len(d.out)
    BY <1>4, <2>2 DEF OutInOrder
  <2> QED BY <1>1, <2>1, <2>2
<1> QED BY <1>2, <1>3, <1>4 DEF OutInOrder

(* Messages are added in the order of Announced.                            *)
LEMMA AnnouncedGrows ==
    ASSUME NEW d \in Device, NEW e \in Device, NEW has, Announced(d, has),
           Len(d.out) <= Len(e.out),
           \A i \in 1 .. Len(d.out) : e.out[i] = d.out[i],
           \A i \in 1 .. Len(e.out) : i > Len(d.out) /\ IsMembership(e.out[i]) =>
               has \/ \E j \in 1 .. (i - 1) : IsConfig(e.out[j]),
           Ready(e) => Ready(d) \/ has \/ \E j \in 1 .. Len(e.out) : IsConfig(e.out[j])
    PROVE  Announced(e, has)
<1>1. Len(d.out) \in Nat /\ Len(e.out) \in Nat
  BY DeviceNumbers
<1>2. ASSUME NEW i \in 1 .. Len(e.out), IsMembership(e.out[i])
      PROVE  has \/ \E j \in 1 .. (i - 1) : IsConfig(e.out[j])
  <2>1. CASE i > Len(d.out)
    BY <1>2, <2>1
  <2>2. CASE i \in 1 .. Len(d.out)
    <3>1. has \/ \E j \in 1 .. (i - 1) : IsConfig(d.out[j])
      BY <1>2, <2>2 DEF Announced
    <3>2. \A j \in 1 .. (i - 1) : j \in 1 .. Len(d.out)
      BY <1>1, <2>2
    <3> QED BY <3>1, <3>2
  <2> QED BY <1>1, <2>1, <2>2
<1>3. Ready(e) => has \/ \E j \in 1 .. Len(e.out) : IsConfig(e.out[j])
  <2>1. \A j \in 1 .. Len(d.out) : j \in 1 .. Len(e.out) /\ e.out[j] = d.out[j]
    BY <1>1
  <2> QED BY <2>1 DEF Announced
<1> QED BY <1>2, <1>3 DEF Announced

(* One message without a ring or a configuration is added.                  *)
LEMMA SendOwnStep ==
    ASSUME NEW d \in Device, NEW e \in Device, NEW has, DeviceSound(d, has), Same(d, e),
           NEW msg \in ClientMsg, e.out = Append(d.out, msg),
           ~IsRing(msg), ~IsConfig(msg)
    PROVE  /\ DeviceSound(e, has)
           /\ ~IsReply(msg) => OwnStep(d, e)
<1>1. d.sentRing \in Int /\ d.out \in Seq(ClientMsg)
  BY DeviceNumbers
<1>2. /\ Len(d.out) \in Nat /\ Len(e.out) = Len(d.out) + 1
      /\ \A i \in 1 .. Len(d.out) : e.out[i] = d.out[i]
      /\ e.out[Len(d.out) + 1] = msg
  BY <1>1, AppendAt
<1>3. \A i \in 1 .. Len(e.out) : i > Len(d.out) => e.out[i] = msg
  BY <1>2
<1>4. RingsInOrder(e)
  BY DEF DeviceSound, RingsInOrder, Same, Ready
<1>5. ~IsMembership(msg)
  BY DEF IsMembership, IsRing
<1>6. d.sentRing <= e.sentRing /\ Len(d.out) <= Len(e.out)
  BY <1>1, <1>2 DEF Same
<1>7. OutInOrder(e)
  BY <1>2, <1>3, <1>6, OutGrows DEF DeviceSound
<1>8. Announced(e, has)
  <2>1. Ready(e) => Ready(d)
    BY DEF Same, Ready
  <2> QED BY <1>2, <1>3, <1>5, <1>6, <2>1, AnnouncedGrows DEF DeviceSound
<1>9. ~IsReply(msg) => OwnStep(d, e)
  BY <1>2, <1>3, <1>6 DEF OwnStep, Same, HoldsVote
<1> QED BY <1>4, <1>7, <1>8, <1>9 DEF DeviceSound

(***************************************************************************)
(* The result of the heuristics after a membership change.  A connected    *)
(* device was paused, in a ring it had not reported; it reports the ring,  *)
(* and drops the vote it had for the old one.                              *)
(***************************************************************************)
LEMMA VqResultOwn ==
    ASSUME NEW d, CallbackInv(d), NEW h \in HeurResults, NEW has, DeviceSound(d, has),
           "vq" \in d.active
    PROVE  LET e == VqResult(d, h)
           IN  DeviceSound(e, has) /\ OwnStep(d, e) /\ e.ring = d.ring
<1> DEFINE d0 == [d EXCEPT !.active = @ \ {"vq"}]
<1>0. /\ d \in Device /\ d.ring \in Rings /\ d.members \in MemberLists
      /\ Len(d.out) <= MaxDeviceBuffers
      /\ d.out \in Seq(ClientMsg) /\ d.ring \in Int /\ d.sentRing \in Int
      /\ d.polled.ring \in Int
  BY DeviceNumbers DEF CallbackInv, Device
<1>1. /\ d0 \in Device /\ "vq" \notin d0.active /\ d0.state = d.state /\ d0.config = d.config
      /\ d0.ring = d.ring /\ d0.sentRing = d.sentRing /\ d0.paused = d.paused
      /\ d0.out = d.out /\ d0.polled = d.polled /\ d0.vote = d.vote
  BY <1>0 DEF Device
<1>2. CASE Ready(d) /\ OutFull(d)
  <2> DEFINE e == [d0 EXCEPT !.sched = TRUE]
  <2>1. VqResult(d, h) = e
    BY <1>2 DEF VqResult
  <2> HIDE DEF d0
  <2>2. /\ e \in Device /\ e.active = d0.active /\ e.state = d0.state /\ e.ring = d0.ring
        /\ e.sentRing = d0.sentRing /\ e.paused = d0.paused /\ e.config = d0.config
        /\ e.out = d0.out /\ e.polled = d0.polled /\ e.vote = d0.vote
    BY <1>1 DEF Device
  <2> HIDE DEF e
  <2>3. RingsInOrder(e)
    BY <1>1, <1>2, <2>2 DEF DeviceSound, RingsInOrder, Ready
  <2>4. OutInOrder(e) /\ Announced(e, has)
    BY <1>1, <2>2 DEF DeviceSound, OutInOrder, Announced, Ready
  <2>5. OwnStep(d, e)
    <3>1. Len(d.out) \in Nat
      BY <1>0, LenProperties
    <3> QED BY <1>0, <1>1, <2>2, <3>1 DEF OwnStep, HoldsVote
  <2> QED BY <1>1, <2>1, <2>2, <2>3, <2>4, <2>5 DEF DeviceSound
<1>3. CASE Ready(d) /\ ~OutFull(d)
  <2> DEFINE msg == MembershipMsg(d, h)
             m == Send(d0, msg)
             f == [m EXCEPT !.sentRing = d.ring, !.paused = FALSE]
             g == CastVoteTimerUpdate(f, "WAIT_FOR_REPLY")
             e == [g EXCEPT !.heur = h, !.timer = RegularHeuristics]
  <2>1. VqResult(d, h) = e
    BY <1>3 DEF VqResult
  <2> HIDE DEF d0
  <2>2. msg \in ClientMsg /\ msg.ring = d.ring /\ IsMembership(msg) /\ ~IsReply(msg) /\ ~IsConfig(msg)
    BY <1>0, ClientMessages DEF MembershipMsg, IsMembership, IsReply, IsConfig
  <2> HIDE DEF msg
  <2>3. m \in Device /\ m = [d0 EXCEPT !.out = Append(d0.out, msg)]
    <3>1. ~OutFull(d0) /\ Len(d0.out) <= MaxDeviceBuffers
      BY <1>0, <1>1, <1>3 DEF OutFull
    <3> QED BY <1>1, <2>2, <3>1, SendFacts
  <2>4. /\ m.active = d0.active /\ m.state = d0.state /\ m.ring = d0.ring
        /\ m.polled = d0.polled /\ m.config = d0.config /\ m.out = Append(d.out, msg)
    BY <1>1, <2>3 DEF Device
  <2> HIDE DEF m
  <2>5. /\ f \in Device /\ f.active = m.active /\ f.state = m.state /\ f.ring = m.ring
        /\ f.sentRing = d.ring /\ ~f.paused /\ f.out = m.out /\ f.polled = m.polled
        /\ f.config = m.config
    BY <1>0, <2>3 DEF Device
  <2> HIDE DEF f
  <2>6. /\ g \in Device /\ Frame(f, g) /\ g.vote = "WAIT_FOR_REPLY"
        /\ g.polled = f.polled \/ (g.polled.ring = f.ring /\ ~g.polled.cast)
    <3>1. /\ "WAIT_FOR_REPLY" \in Votes \cup {"NO_CHANGE"}
          /\ "WAIT_FOR_REPLY" # "NO_CHANGE" /\ "WAIT_FOR_REPLY" # "ACK"
      BY DEF Votes
    <3> QED BY <2>5, <3>1, TimerUpdated
  <2> HIDE DEF g
  <2>7. /\ e \in Device /\ e.active = g.active /\ e.state = g.state /\ e.ring = g.ring
        /\ e.sentRing = g.sentRing /\ e.paused = g.paused /\ e.config = g.config
        /\ e.out = g.out /\ e.polled = g.polled /\ e.vote = g.vote
    BY <2>6, DeviceAssumption DEF Device
  <2> HIDE DEF e
  <2>8. /\ e.active = d0.active /\ e.state = d.state /\ e.ring = d.ring /\ e.sentRing = d.ring
        /\ ~e.paused /\ e.config = d.config /\ e.out = Append(d.out, msg)
        /\ e.vote = "WAIT_FOR_REPLY"
        /\ e.polled = d.polled \/ (e.polled.ring = d.ring /\ ~e.polled.cast)
    BY <1>1, <2>4, <2>5, <2>6, <2>7 DEF Frame
  <2>9. /\ d.sentRing # d.ring /\ d.sentRing <= d.ring
        /\ ~(d.polled.cast /\ d.polled.ring = d.ring)
    BY <1>3 DEF DeviceSound, RingsInOrder
  <2>10. RingsInOrder(e) /\ ~HoldsVote(e)
    BY <1>0, <1>1, <1>3, <2>8, <2>9 DEF DeviceSound, RingsInOrder, Ready, HoldsVote
  <2>11. /\ Len(d.out) \in Nat /\ Len(e.out) = Len(d.out) + 1
         /\ \A i \in 1 .. Len(d.out) : e.out[i] = d.out[i]
         /\ e.out[Len(d.out) + 1] = msg
    BY <1>0, <2>2, <2>8, AppendAt
  <2>12. \A i \in 1 .. Len(e.out) : i > Len(d.out) => e.out[i] = msg /\ i = Len(d.out) + 1
    BY <2>11
  <2>13. OutInOrder(e)
    BY <1>0, <2>2, <2>7, <2>8, <2>9, <2>11, <2>12, OutGrows, SMTT(30) DEF DeviceSound
  <2>14. Announced(e, has)
    <3>1. has \/ \E j \in 1 .. Len(d.out) : IsConfig(e.out[j])
      BY <1>3, <2>11 DEF DeviceSound, Announced
    <3>2. \A i \in 1 .. Len(e.out) : i > Len(d.out) => i - 1 = Len(d.out)
      BY <2>11
    <3> QED BY <1>0, <1>3, <2>7, <2>11, <3>1, <3>2, AnnouncedGrows DEF DeviceSound
  <2>15. OwnStep(d, e)
    BY <1>0, <2>2, <2>8, <2>9, <2>10, <2>11, <2>12 DEF OwnStep
  <2> QED BY <2>1, <2>8, <2>10, <2>13, <2>14, <2>15 DEF DeviceSound
<1>4. CASE ~Ready(d)
  <2> DEFINE f == [d0 EXCEPT !.paused = FALSE]
             g == CastVoteTimerUpdate(f, SafeVote(d0))
             e == [g EXCEPT !.heur = h, !.timer = RegularHeuristics]
  <2>1. VqResult(d, h) = e
    BY <1>4 DEF VqResult
  <2> HIDE DEF d0
  <2>2. /\ f \in Device /\ f.active = d0.active /\ f.state = d0.state /\ f.ring = d0.ring
        /\ ~f.paused /\ f.out = d0.out /\ f.polled = d0.polled /\ f.config = d0.config
        /\ f.sentRing = d0.sentRing /\ f.vote = d0.vote
    BY <1>1 DEF Device
  <2> HIDE DEF f
  <2>3. /\ g \in Device /\ Frame(f, g) /\ (g.vote = f.vote \/ g.vote # "ACK")
        /\ g.polled = f.polled \/ (g.polled.ring = f.ring /\ ~g.polled.cast)
    <3>1. SafeVote(d0) \in Votes \cup {"NO_CHANGE"} /\ SafeVote(d0) # "ACK"
      BY SafeVoteFacts
    <3>2. /\ g \in Device /\ Frame(f, g)
          /\ g.vote = IF SafeVote(d0) = "NO_CHANGE" THEN f.vote ELSE SafeVote(d0)
          /\ \/ g.polled = f.polled
             \/ /\ ~f.paused /\ g.polled.ring = f.ring
                /\ g.polled.cast = (SafeVote(d0) = "ACK")
      BY <2>2, <3>1, TimerUpdated
    <3> HIDE DEF g
    <3>3. g.vote = f.vote \/ g.vote # "ACK"
      BY <3>1, <3>2
    <3>4. (SafeVote(d0) = "ACK") = FALSE
      BY <3>1
    <3>5. g.polled = f.polled \/ (g.polled.ring = f.ring /\ ~g.polled.cast)
      BY <3>2, <3>4
    <3> QED BY <3>2, <3>3, <3>5
  <2> HIDE DEF g
  <2>4. /\ e \in Device /\ e.active = g.active /\ e.state = g.state /\ e.ring = g.ring
        /\ e.sentRing = g.sentRing /\ e.paused = g.paused /\ e.config = g.config
        /\ e.out = g.out /\ e.polled = g.polled /\ e.vote = g.vote
    BY <2>3, DeviceAssumption DEF Device
  <2> HIDE DEF e
  <2>5. d.vote # "ACK" /\ ~d.polled.cast
    BY <1>4 DEF CallbackInv, DeviceSound, RingsInOrder
  <2>6. /\ e.active = d0.active /\ e.state = d.state /\ e.ring = d.ring
        /\ e.sentRing = d.sentRing /\ ~e.paused /\ e.config = d.config /\ e.out = d.out
        /\ e.vote # "ACK" /\ ~e.polled.cast
        /\ e.polled.ring = d.polled.ring \/ e.polled.ring = d.ring
    BY <1>1, <2>2, <2>3, <2>4, <2>5 DEF Frame
  <2>7. RingsInOrder(e) /\ ~HoldsVote(e)
    BY <1>0, <1>1, <1>4, <2>6 DEF DeviceSound, RingsInOrder, Ready, HoldsVote
  <2>8. OutInOrder(e) /\ Announced(e, has)
    BY <2>6 DEF DeviceSound, OutInOrder, Announced, Ready
  <2>9. OwnStep(d, e)
    <3>1. Len(d.out) \in Nat
      BY <1>0, LenProperties
    <3> QED BY <1>0, <2>6, <2>7, <3>1 DEF OwnStep
  <2> QED BY <2>1, <2>6, <2>7, <2>8, <2>9 DEF DeviceSound
<1> QED BY <1>2, <1>3, <1>4

(* The regular heuristics: at most a heuristics change is sent.             *)
LEMMA RegularResultOwn ==
    ASSUME NEW d, CallbackInv(d), NEW h \in HeurResults, NEW has, DeviceSound(d, has)
    PROVE  LET e == RegularResult(d, h)
           IN  DeviceSound(e, has) /\ OwnStep(d, e) /\ e.ring = d.ring
<1> DEFINE d0 == [d EXCEPT !.active = @ \ {"regular"}]
           e  == RegularResult(d, h)
           msg == [type |-> "heuristics_change", heur |-> h]
           m  == Send(d0, msg)
<1>0. d \in Device /\ Len(d.out) <= MaxDeviceBuffers
  BY DEF CallbackInv
<1>1. d0 \in Device /\ Same(d, d0) /\ d0.out = d.out
  BY <1>0 DEF Device, Same
<1>2. \/ e = d0
      \/ e = [d0 EXCEPT !.sched = TRUE]
      \/ e = [d0 EXCEPT !.heur = h, !.timer = RegularHeuristics]
      \/ ~OutFull(d) /\ e = [m EXCEPT !.heur = h, !.timer = RegularHeuristics]
  BY DEF RegularResult
<1> HIDE DEF d0
<1>3. CASE \/ e = d0
           \/ e = [d0 EXCEPT !.sched = TRUE]
           \/ e = [d0 EXCEPT !.heur = h, !.timer = RegularHeuristics]
  <2> HIDE DEF e
  <2>1. e \in Device /\ Same(d0, e) /\ e.out = d0.out
    <3>1. CASE e = d0
      BY <1>1, <3>1 DEF Same
    <3>2. CASE e = [d0 EXCEPT !.sched = TRUE]
      BY <1>1, <3>2 DEF Device, Same
    <3>3. CASE e = [d0 EXCEPT !.heur = h, !.timer = RegularHeuristics]
      BY <1>1, <3>3, DeviceAssumption DEF Device, Same
    <3> QED BY <1>3, <3>1, <3>2, <3>3
  <2>2. Same(d, e) /\ e.out = d.out
    BY <1>1, <2>1 DEF Same
  <2> QED BY <1>0, <2>1, <2>2, SameOwnStep DEF e, Same
<1>4. CASE ~OutFull(d) /\ e = [m EXCEPT !.heur = h, !.timer = RegularHeuristics]
  <2> HIDE DEF e
  <2>1. msg \in ClientMsg /\ ~IsRing(msg) /\ ~IsConfig(msg) /\ ~IsReply(msg)
    BY ClientMessages DEF IsRing, IsConfig, IsReply
  <2> HIDE DEF msg
  <2>2. m \in Device /\ m = [d0 EXCEPT !.out = Append(d0.out, msg)]
    <3>1. ~OutFull(d0) /\ Len(d0.out) <= MaxDeviceBuffers
      BY <1>0, <1>1, <1>4 DEF OutFull
    <3> QED BY <1>1, <2>1, <3>1, SendFacts
  <2>3. Same(d0, m) /\ m.out = Append(d.out, msg)
    BY <1>1, <2>2 DEF Device, Same
  <2> HIDE DEF m
  <2>4. e \in Device /\ Same(m, e) /\ e.out = m.out
    BY <1>4, <2>2, DeviceAssumption DEF Device, Same
  <2>5. Same(d, e) /\ e.out = Append(d.out, msg)
    BY <1>1, <2>3, <2>4 DEF Same
  <2> QED BY <1>0, <2>1, <2>4, <2>5, SendOwnStep DEF e, Same
<1> QED BY <1>2, <1>3, <1>4

(* Where the messages of the connection set-up are.                         *)
LEMMA SetupAt ==
    ASSUME NEW out \in Seq(ClientMsg), NEW ms \in Seq(ClientMsg), Len(ms) = 4, NEW k \in 0 .. 4,
           NEW all, all = out \o SubSeq(ms, 1, k)
    PROVE  /\ Len(out) \in Nat /\ Len(all) = Len(out) + k
           /\ \A i \in 1 .. Len(out) : all[i] = out[i]
           /\ \A i \in 1 .. k : all[Len(out) + i] = ms[i]
<1> DEFINE sub == SubSeq(ms, 1, k)
<1>0. \A i \in 1 .. Len(ms) : ms[i] \in ClientMsg
  BY ElementOfSeq
<1>1. 1 \in Int /\ k \in Int /\ \A i \in 1 .. k : ms[i] \in ClientMsg
  BY <1>0
<1>2. /\ sub \in Seq(ClientMsg) /\ Len(sub) = k
      /\ \A i \in 1 .. k : sub[i] = ms[i]
  <2>1. Len(sub) = IF 1 <= k THEN k - 1 + 1 ELSE 0
    BY <1>1, SubSeqProperties
  <2>2. sub \in Seq(ClientMsg) /\ \A i \in 1 .. (k - 1 + 1) : sub[i] = ms[1 + i - 1]
    BY <1>1, SubSeqProperties
  <2> QED BY <2>1, <2>2
<1>3. all = out \o sub
  OBVIOUS
<1> HIDE DEF sub
<1>4. /\ Len(all) = Len(out) + Len(sub) /\ Len(out) \in Nat
      /\ \A i \in 1 .. Len(out) : all[i] = out[i]
      /\ \A i \in 1 .. Len(sub) : all[Len(out) + i] = sub[i]
  BY <1>2, <1>3, ConcatProperties, LenProperties
<1> QED BY <1>2, <1>4

(***************************************************************************)
(* The result of the heuristics after the init was accepted: the           *)
(* connection is set up, the configuration before the membership.          *)
(***************************************************************************)
LEMMA ConnectResultOwn ==
    ASSUME NEW d, CallbackInv(d), NEW h \in HeurResults, NEW has, DeviceSound(d, has),
           "vq" \notin d.active
    PROVE  LET e == ConnectResult(d, h)
           IN  DeviceSound(e, has) /\ OwnStep(d, e) /\ e.ring = d.ring
<1> DEFINE d0   == [d EXCEPT !.active = @ \ {"connect"}]
           m1   == [type |-> "set_option", keep |-> DeviceKeep]
           m2   == [type |-> "config_node_list", nodes |-> d.config, initial |-> TRUE]
           m3   == MembershipMsg(d, h)
           m4   == [type |-> "quorum_node_list"]
           out  == d.out
           k    == IF MaxDeviceBuffers - Len(out) < 4 THEN MaxDeviceBuffers - Len(out) ELSE 4
           ms   == <<m1, m2, m3, m4>>
           sent == SubSeq(ms, 1, k)
           d1   == [d0 EXCEPT !.out = d0.out \o sent,
                              !.sentRing = IF Len(sent) >= 3 THEN d.ring ELSE d0.sentRing]
           g    == CastVoteTimerUpdate(d1, "WAIT_FOR_REPLY")
           e    == [g EXCEPT !.state = "READY", !.heur = h]
<1>0. /\ d \in Device /\ d.ring \in Rings /\ d.sentRing \in Rings /\ d.ring \in Int
      /\ d.sentRing \in Int /\ d.members \in MemberLists /\ d.config \in ConfigLists
      /\ d.out \in Seq(ClientMsg) /\ Len(d.out) <= MaxDeviceBuffers /\ d.polled.ring \in Int
  BY DeviceNumbers DEF CallbackInv, Device
<1>1. d0 \in Device /\ Same(d, d0) /\ d0.out = d.out
  BY <1>0 DEF Device, Same
<1>2. ConnectResult(d, h) = IF d.state # "WAITING_INIT_REPLY" THEN d0
                            ELSE IF Len(sent) < 4 THEN d1 ELSE e
  BY DEF ConnectResult
<1> HIDE DEF d0
<1>3. CASE d.state # "WAITING_INIT_REPLY"
  BY <1>0, <1>1, <1>2, <1>3, SameOwnStep DEF Same
<1>4. CASE d.state = "WAITING_INIT_REPLY"
  <2>1. /\ m1 \in ClientMsg /\ m2 \in ClientMsg /\ m3 \in ClientMsg /\ m4 \in ClientMsg
        /\ m2.nodes = Nodes /\ m2.initial /\ m3.ring = d.ring /\ IsConfig(m2)
        /\ ~IsRing(m1) /\ ~IsRing(m2) /\ ~IsRing(m4)
        /\ ~IsReply(m1) /\ ~IsReply(m2) /\ ~IsReply(m3) /\ ~IsReply(m4)
        /\ ~IsConfig(m1) /\ ~IsConfig(m3) /\ ~IsConfig(m4)
    <3>1. DeviceKeep \in KeepOptions /\ d.config = Nodes
      BY DeviceAssumption DEF DeviceSound, RingsInOrder
    <3> QED BY <1>0, <3>1, ClientMessages DEF MembershipMsg, IsConfig, IsRing, IsReply
  <2>2. \A i \in {m1, m2, m4} : ~IsMembership(i)
    BY <2>1 DEF IsMembership, IsRing
  <2> HIDE DEF m1, m2, m3, m4
  <2>3. k \in 0 .. 4 /\ Len(sent) = k /\ out \o sent \in Seq(ClientMsg)
    <3>1. out \in Seq(ClientMsg) /\ Len(out) <= MaxDeviceBuffers
      BY <1>0
    <3>2. k = IF MaxDeviceBuffers - Len(out) < 4 THEN MaxDeviceBuffers - Len(out) ELSE 4
      OBVIOUS
    <3> HIDE DEF k, out
    <3> QED BY <2>1, <3>1, <3>2, SetupFits
  <2>4. /\ Len(out) \in Nat /\ Len(out \o sent) = Len(out) + k
        /\ \A i \in 1 .. Len(out) : (out \o sent)[i] = out[i]
        /\ k >= 1 => (out \o sent)[Len(out) + 1] = m1
        /\ k >= 2 => (out \o sent)[Len(out) + 2] = m2
        /\ k >= 3 => (out \o sent)[Len(out) + 3] = m3
        /\ k >= 4 => (out \o sent)[Len(out) + 4] = m4
    <3>1. out \in Seq(ClientMsg) /\ k \in 0 .. 4
      BY <1>0, <2>3
    <3>2. ms \in Seq(ClientMsg) /\ Len(ms) = 4
      BY <2>1
    <3>3. ms[1] = m1 /\ ms[2] = m2 /\ ms[3] = m3 /\ ms[4] = m4
      OBVIOUS
    <3> HIDE DEF k, out, ms
    <3>4. /\ Len(out) \in Nat /\ Len(out \o sent) = Len(out) + k
          /\ \A i \in 1 .. Len(out) : (out \o sent)[i] = out[i]
          /\ \A i \in 1 .. k : (out \o sent)[Len(out) + i] = ms[i]
      BY <3>1, <3>2, SetupAt
    <3> QED BY <3>1, <3>3, <3>4
  <2> HIDE DEF k, sent
  <2>5. /\ d1 \in Device /\ d1.out = d.out \o sent /\ d1.active = d0.active
        /\ d1.state = d0.state /\ d1.ring = d0.ring /\ d1.paused = d0.paused
        /\ d1.polled = d0.polled /\ d1.vote = d0.vote /\ d1.config = d0.config
        /\ d1.sentRing = IF k >= 3 THEN d.ring ELSE d.sentRing
    BY <1>0, <1>1, <2>3 DEF Device, Same
  <2> HIDE DEF d1
  <2>6. /\ g \in Device /\ Frame(d1, g) /\ g.vote = "WAIT_FOR_REPLY"
        /\ g.polled = d1.polled \/ (g.polled.ring = d1.ring /\ ~g.polled.cast)
    <3>1. /\ "WAIT_FOR_REPLY" \in Votes \cup {"NO_CHANGE"}
          /\ "WAIT_FOR_REPLY" # "NO_CHANGE" /\ "WAIT_FOR_REPLY" # "ACK"
      BY DEF Votes
    <3> QED BY <2>5, <3>1, TimerUpdated
  <2> HIDE DEF g
  <2>7. /\ e \in Device /\ e.active = g.active /\ Ready(e) /\ e.ring = g.ring
        /\ e.sentRing = g.sentRing /\ e.paused = g.paused /\ e.config = g.config
        /\ e.out = g.out /\ e.polled = g.polled /\ e.vote = g.vote
    BY <2>6 DEF Device, DeviceStates, Ready
  <2> HIDE DEF e
  (* Either way the device has no vote and is not paused.                   *)
  <2>8. /\ ~d.paused /\ d.vote # "ACK" /\ ~d.polled.cast /\ d.sentRing <= d.ring
        /\ d.polled.ring <= d.ring /\ d.config = Nodes /\ ~Ready(d)
    BY <1>4 DEF CallbackInv, DeviceSound, RingsInOrder, Ready
  <2> SUFFICES ASSUME NEW f, f = ConnectResult(d, h)
               PROVE  DeviceSound(f, has) /\ OwnStep(d, f) /\ f.ring = d.ring
    OBVIOUS
  <2>9. /\ f \in Device /\ ("vq" \notin f.active) /\ f.ring = d.ring /\ ~f.paused
        /\ f.config = d.config /\ f.vote # "ACK" /\ ~f.polled.cast
        /\ f.polled.ring = d.polled.ring \/ f.polled.ring = d.ring
        /\ f.out = d.out \o sent /\ f.state # "WAITING_CONNECT"
        /\ f.sentRing = IF k >= 3 THEN d.ring ELSE d.sentRing
        /\ Ready(f) => k = 4
    <3>1. CASE Len(sent) < 4
      BY <1>1, <1>2, <1>4, <2>3, <2>5, <2>8, <3>1 DEF Same, Ready
    <3>2. CASE ~(Len(sent) < 4)
      <4>1. k = 4 /\ f = e
        BY <1>2, <1>4, <2>3, <3>2
      <4> QED BY <1>1, <2>5, <2>6, <2>7, <2>8, <4>1 DEF Same, Frame, Ready
    <3> QED BY <3>1, <3>2
  <2>10. RingsInOrder(f) /\ ~HoldsVote(f)
    BY <1>0, <2>8, <2>9 DEF RingsInOrder, HoldsVote
  <2>11. /\ Len(d.out) \in Nat /\ Len(f.out) = Len(d.out) + k
         /\ \A i \in 1 .. Len(d.out) : f.out[i] = d.out[i]
         /\ k >= 1 => f.out[Len(d.out) + 1] = m1
         /\ k >= 2 => f.out[Len(d.out) + 2] = m2
         /\ k >= 3 => f.out[Len(d.out) + 3] = m3
         /\ k >= 4 => f.out[Len(d.out) + 4] = m4
    BY <2>4, <2>9
  <2>12. ASSUME NEW i \in 1 .. Len(f.out), i > Len(d.out)
         PROVE  \/ f.out[i] = m1
                \/ f.out[i] = m2 /\ k >= 2
                \/ f.out[i] = m3 /\ i = Len(d.out) + 3 /\ k >= 3
                \/ f.out[i] = m4
    <3>1. \/ i = Len(d.out) + 1 /\ k >= 1
          \/ i = Len(d.out) + 2 /\ k >= 2
          \/ i = Len(d.out) + 3 /\ k >= 3
          \/ i = Len(d.out) + 4 /\ k >= 4
      BY <2>3, <2>11, <2>12, SMTT(30)
    <3> QED BY <2>11, <3>1
  <2>13. d.sentRing <= f.sentRing /\ Len(d.out) <= Len(f.out)
    BY <1>0, <2>3, <2>8, <2>9, <2>11
  <2>14. OutInOrder(f)
    <3>1. k >= 3 => f.sentRing = d.ring
      BY <2>9
    <3>2. \A i \in 1 .. Len(f.out) : i > Len(d.out) =>
              /\ IsRing(f.out[i]) => f.out[i].ring = f.sentRing
              /\ IsConfig(f.out[i]) => f.out[i].nodes = Nodes /\ f.out[i].initial
      BY <2>1, <2>12, <3>1
    <3> QED BY <1>0, <2>9, <2>11, <2>13, <3>2, OutGrows DEF DeviceSound
  <2>15. Announced(f, has)
    <3>1. k >= 2 => /\ Len(d.out) + 2 \in 1 .. Len(f.out)
                    /\ IsConfig(f.out[Len(d.out) + 2])
      BY <2>1, <2>3, <2>11
    <3>2. \A i \in 1 .. Len(f.out) : i > Len(d.out) /\ IsMembership(f.out[i]) =>
              \E j \in 1 .. (i - 1) : IsConfig(f.out[j])
      <4> SUFFICES ASSUME NEW i \in 1 .. Len(f.out), i > Len(d.out), IsMembership(f.out[i])
                   PROVE  \E j \in 1 .. (i - 1) : IsConfig(f.out[j])
        OBVIOUS
      <4>1. i = Len(d.out) + 3 /\ k >= 3
        BY <2>2, <2>12
      <4>2. Len(d.out) + 2 \in 1 .. (i - 1) /\ k >= 2
        BY <2>3, <2>11, <4>1
      <4> QED BY <3>1, <4>2
    <3>3. Ready(f) => \E j \in 1 .. Len(f.out) : IsConfig(f.out[j])
      BY <2>9, <3>1
    <3> QED BY <1>0, <2>9, <2>11, <2>13, <3>2, <3>3, AnnouncedGrows DEF DeviceSound
  <2>16. OwnStep(d, f)
    <3>1. \A i \in 1 .. Len(f.out) : i > Len(d.out) =>
              ~IsReply(f.out[i]) /\ (IsRing(f.out[i]) => d.sentRing <= f.out[i].ring)
      BY <2>1, <2>8, <2>12
    <3> QED BY <1>4, <2>9, <2>10, <2>11, <2>13, <3>1 DEF OwnStep
  <2> QED BY <2>9, <2>10, <2>14, <2>15, <2>16 DEF DeviceSound
<1> QED BY <1>3, <1>4

(* The result of a heuristics execution: the active notifiers, in order.    *)
LEMMA ResultOwn ==
    ASSUME QdeviceInv, NEW n \in Nodes, NEW h \in HeurResults, HeuristicsResult(n, h),
           NEW has, DeviceSound(dev[n], has)
    PROVE  DeviceSound(dev'[n], has) /\ OwnStep(dev[n], dev'[n]) /\ dev'[n].ring = dev[n].ring
<1> DEFINE d  == dev[n]
           d0 == [d EXCEPT !.waiting = FALSE]
           d1 == IF "vq" \in d0.active THEN VqResult(d0, h) ELSE d0
           d2 == IF "regular" \in d1.active THEN RegularResult(d1, h) ELSE d1
           d3 == IF "connect" \in d2.active THEN ConnectResult(d2, h) ELSE d2
<1>1. dev' = [dev EXCEPT ![n] = d3]
  BY DEF HeuristicsResult
<1>2. CallbackInv(d) /\ d \in Device /\ dev'[n] = d3
  BY <1>1 DEF QdeviceInv, DeviceInv, CallbackInv
<1> HIDE DEF d
<1>3. /\ CallbackInv(d0) /\ Same(d, d0) /\ d0.out = d.out
  <2>1. /\ d0 \in Device /\ d0.active = d.active /\ d0.state = d.state
        /\ d0.ring = d.ring /\ d0.sentRing = d.sentRing /\ d0.config = d.config
        /\ d0.paused = d.paused /\ d0.sched = d.sched /\ d0.out = d.out
        /\ d0.polled = d.polled /\ d0.vote = d.vote
    BY <1>2 DEF Device
  <2> HIDE DEF d0
  <2> QED BY <1>2, <2>1 DEF CallbackInv, RunningDeviceHasReported, Ready, Same
<1> HIDE DEF d0
<1>4. d0 \in Device /\ DeviceSound(d0, has) /\ OwnStep(d, d0) /\ d0.ring = d.ring
  BY <1>2, <1>3, SameOwnStep DEF CallbackInv, Same, d
<1>5. \A e \in Device : DeviceSound(e, has) => OwnStep(e, e)
  BY SameOwnStep DEF Same
<1>6. /\ CallbackInv(d1) /\ d1 \in Device /\ "vq" \notin d1.active
      /\ DeviceSound(d1, has) /\ OwnStep(d0, d1) /\ d1.ring = d0.ring
  <2>1. CASE "vq" \in d0.active
    <3>1. d1 = VqResult(d0, h)
      BY <2>1
    <3> HIDE DEF d1
    <3> QED BY <1>3, <1>4, <2>1, <3>1, VqResultInv, VqResultOwn DEF CallbackInv
  <2>2. CASE "vq" \notin d0.active
    BY <1>3, <1>4, <1>5, <2>2
  <2> QED BY <2>1, <2>2
<1> HIDE DEF d1
<1>7. /\ CallbackInv(d2) /\ d2 \in Device /\ "vq" \notin d2.active
      /\ DeviceSound(d2, has) /\ OwnStep(d1, d2) /\ d2.ring = d1.ring
  <2>1. CASE "regular" \in d1.active
    <3>1. d2 = RegularResult(d1, h)
      BY <2>1
    <3> HIDE DEF d2
    <3> QED BY <1>6, <2>1, <3>1, RegularResultInv, RegularResultOwn DEF CallbackInv
  <2>2. CASE "regular" \notin d1.active
    BY <1>5, <1>6, <2>2
  <2> QED BY <2>1, <2>2
<1> HIDE DEF d2
<1>8. /\ d3 \in Device /\ DeviceSound(d3, has) /\ OwnStep(d2, d3) /\ d3.ring = d2.ring
  <2>1. CASE "connect" \in d2.active
    <3>1. d3 = ConnectResult(d2, h)
      BY <2>1
    <3> HIDE DEF d3
    <3> QED BY <1>7, <2>1, <3>1, ConnectResultInv, ConnectResultOwn DEF CallbackInv
  <2>2. CASE "connect" \notin d2.active
    BY <1>5, <1>7, <2>2
  <2> QED BY <2>1, <2>2
<1> HIDE DEF d3
<1>9. OwnStep(d, d1)
  BY <1>2, <1>4, <1>6, OwnStepTransitive
<1>10. OwnStep(d, d2)
  BY <1>2, <1>6, <1>7, <1>9, OwnStepTransitive
<1>11. OwnStep(d, d3)
  BY <1>2, <1>7, <1>8, <1>10, OwnStepTransitive
<1> QED BY <1>2, <1>4, <1>6, <1>7, <1>8, <1>11 DEF d

(* A membership change: the vote in force is for a ring that is not the     *)
(* device's any more.                                                       *)
LEMMA NotifyOwn ==
    ASSUME QdeviceInv, NEW n \in Nodes, NEW r \in Rings, NEW ms \in MemberLists,
           NodeListNotify(n, r, ms), dev[n].ring < r,
           NEW has, DeviceSound(dev[n], has)
    PROVE  DeviceSound(dev'[n], has) /\ OwnStep(dev[n], dev'[n]) /\ dev'[n].ring = r
<1> DEFINE d  == dev[n]
           d1 == [d EXCEPT !.ring = r, !.timer = FALSE,
                           !.active = IF d.timer THEN d.active \ {"regular"} ELSE d.active]
           e  == [d1 EXCEPT !.paused = TRUE, !.members = ms, !.waiting = TRUE,
                            !.active = d1.active \cup {"vq"}]
<1>1. d \in Device /\ CallbackInv(d)
  BY DEF QdeviceInv, DeviceInv, CallbackInv
<1>2. /\ dev' = [dev EXCEPT ![n] = [CastVoteTimerUpdate(d1, SafeVote(d1)) EXCEPT
                    !.paused = TRUE, !.members = ms, !.waiting = TRUE,
                    !.active = CastVoteTimerUpdate(d1, SafeVote(d1)).active \cup {"vq"}]]
      /\ d.ring < r
  BY DEF NodeListNotify
<1> HIDE DEF d
<1>3. /\ d1 \in Device /\ d1.out = d.out /\ d1.vote = d.vote /\ d1.state = d.state
      /\ d1.polled = d.polled /\ d1.ring = r /\ d1.sentRing = d.sentRing /\ d1.config = d.config
  BY <1>1 DEF Device
<1> HIDE DEF d1
<1>4. CastVoteTimerUpdate(d1, SafeVote(d1)) = d1
  <2>1. SafeVote(d1) = "NO_CHANGE"
    BY <1>1, <1>3 DEF CallbackInv, SafeVote, Ready
  <2> QED BY <2>1 DEF CastVoteTimerUpdate
<1>5. dev'[n] = e
  BY <1>2, <1>4 DEF QdeviceInv
<1>6. /\ e \in Device /\ e.out = d.out /\ e.vote = d.vote /\ e.state = d.state
      /\ e.polled = d.polled /\ e.ring = r /\ e.sentRing = d.sentRing /\ e.config = d.config
      /\ e.paused /\ "vq" \in e.active
  BY <1>3 DEF Device
<1> HIDE DEF e
<1>7. /\ d.ring \in Int /\ d.sentRing \in Int /\ d.polled.ring \in Int /\ r \in Int
      /\ Len(d.out) \in Nat
  BY <1>1, DeviceNumbers, RingsAreNumbers
<1>8. d.sentRing < r /\ d.polled.ring < r /\ DeviceSound(d, has)
  BY <1>2, <1>7 DEF DeviceSound, RingsInOrder, d
<1>9. RingsInOrder(e) /\ ~HoldsVote(e)
  BY <1>6, <1>7, <1>8 DEF DeviceSound, RingsInOrder, HoldsVote, Ready
<1>10. OutInOrder(e) /\ Announced(e, has)
  BY <1>6, <1>8 DEF DeviceSound, OutInOrder, Announced, Ready
<1>11. OwnStep(d, e)
  BY <1>6, <1>7, <1>9 DEF OwnStep
<1> QED BY <1>5, <1>6, <1>9, <1>10, <1>11 DEF DeviceSound, d

(* When the poll loop has ended nothing is left of the vote.                *)
LEMMA DisconnectedSound ==
    ASSUME NEW d \in Device, RingsInOrder(d), NEW has
    PROVE  LET e == Disconnected(d)
           IN  /\ e \in Device /\ DeviceSound(e, has) /\ e.ring = d.ring
               /\ e.state = "WAITING_CONNECT"
<1> DEFINE f == [d EXCEPT !.paused = FALSE]
           g == CastVoteTimerUpdate(f, "NACK")
           e == [g EXCEPT !.state = "WAITING_CONNECT", !.sched = FALSE, !.out = <<>>]
<1>1. Disconnected(d) = e
  BY DEF Disconnected
<1>2. /\ f \in Device /\ ~f.paused /\ f.ring = d.ring /\ f.sentRing = d.sentRing
      /\ f.polled = d.polled /\ f.config = d.config
  BY DEF Device
<1> HIDE DEF f
<1>3. /\ g \in Device /\ Frame(f, g) /\ ~g.polled.cast
      /\ g.polled = f.polled \/ g.polled.ring = f.ring
  <2>1. "NACK" \in Votes \cup {"NO_CHANGE"}
    BY DEF Votes
  <2> QED BY <1>2, <2>1, TimerUpdated, NackIsCast
<1> HIDE DEF g
<1>4. /\ e \in Device /\ e.state = "WAITING_CONNECT" /\ e.out = <<>>
      /\ ~e.paused /\ e.polled = g.polled /\ e.ring = g.ring /\ e.sentRing = g.sentRing
      /\ e.config = g.config
  BY <1>2, <1>3, ClientMessages DEF Device, DeviceStates, Frame
<1>5. Len(e.out) = 0
  BY <1>4
<1> HIDE DEF e
<1>6. RingsInOrder(e) /\ e.ring = d.ring
  <2>1. d.ring \in Int
    BY DeviceNumbers
  <2> QED BY <1>2, <1>3, <1>4, <2>1 DEF RingsInOrder, Ready, Frame
<1>7. OutInOrder(e) /\ Announced(e, has)
  BY <1>4, <1>5 DEF OutInOrder, Announced, Ready
<1> QED BY <1>1, <1>4, <1>6, <1>7 DEF DeviceSound

(* A new connection: an init message, and no vote.                          *)
LEMMA ConnectSound ==
    ASSUME QdeviceInv, NEW n \in Nodes, Connect(n), RingsInOrder(dev[n]), NEW has
    PROVE  LET e == dev'[n]
           IN  /\ DeviceSound(e, has) /\ e.ring = dev[n].ring
               /\ e.vote # "ACK" /\ ~e.polled.cast /\ e.out # <<>> /\ e.out[1].type = "init"
<1> DEFINE d   == dev[n]
           msg == [type |-> "init", ring |-> d.ring]
           out == <<msg>>
           e   == [d EXCEPT !.state = "WAITING_INIT_REPLY", !.sentRing = d.ring, !.out = out]
<1>1. dev'[n] = e /\ d.state = "WAITING_CONNECT"
  BY DEF Connect, QdeviceInv
<1>2. d \in Device /\ CallbackInv(d) /\ d.ring \in Rings /\ RingsInOrder(d)
  BY DEF QdeviceInv, DeviceInv, CallbackInv, Device
<1> HIDE DEF d
<1>3. msg.type = "init" /\ msg.ring = d.ring /\ ~IsConfig(msg) /\ ~IsMembership(msg)
  BY DEF IsConfig, IsMembership
<1>4. msg \in ClientMsg
  BY <1>2, ClientMessages
<1> HIDE DEF msg
<1>5. out \in Seq(ClientMsg) /\ Len(out) = 1 /\ out[1] = msg /\ out # <<>>
  BY <1>4
<1> HIDE DEF out
<1>6. /\ e \in Device /\ e.out = out /\ e.vote = d.vote /\ e.state = "WAITING_INIT_REPLY"
      /\ e.polled = d.polled /\ e.paused = d.paused /\ e.config = d.config
      /\ e.active = d.active /\ e.ring = d.ring /\ e.sentRing = d.ring
  BY <1>2, <1>5 DEF Device, DeviceStates
<1> HIDE DEF e
<1>7. e.vote # "ACK" /\ ~e.polled.cast
  BY <1>1, <1>2, <1>6 DEF CallbackInv, RingsInOrder, Ready
<1>8. d.ring \in Int
  BY <1>2, DeviceNumbers
<1>9. RingsInOrder(e)
  BY <1>1, <1>2, <1>6, <1>7, <1>8 DEF RingsInOrder, Ready
<1>10. \A i \in 1 .. Len(e.out) : i = 1 /\ e.out[i] = msg
  <2>1. Len(e.out) = 1 /\ e.out[1] = msg
    BY <1>5, <1>6
  <2> QED BY <2>1
<1>11. OutInOrder(e)
  BY <1>3, <1>6, <1>8, <1>10 DEF OutInOrder
<1>12. Announced(e, has)
  BY <1>3, <1>6, <1>10 DEF Announced, Ready
<1>13. e.out # <<>> /\ e.out[1].type = "init"
  BY <1>3, <1>5, <1>6
<1>14. DeviceSound(e, has) /\ e.ring = dev[n].ring
  BY <1>6, <1>9, <1>11, <1>12 DEF DeviceSound, d
<1> QED BY <1>1, <1>7, <1>13, <1>14

(***************************************************************************)
(* The device handles a message of the server: it ends the loop, or the    *)
(* message was no vote and the step is one of its own, or it was a vote    *)
(* and is confirmed.                                                       *)
(***************************************************************************)
Confirmed(d, e, m) ==
    /\ Ready(d) /\ IsVote(m)
    /\ e.ring = d.ring /\ e.sentRing = d.sentRing
    /\ \E reply \in ClientMsg : IsReply(reply) /\ reply.seq = m.seq /\ e.out = Append(d.out, reply)
    /\ m.ring # d.sentRing => e.vote = d.vote /\ e.polled = d.polled
    /\ m.ring = d.sentRing => e.vote = m.vote
    /\ m.ring = d.sentRing /\ ~d.paused => e.polled.cast = (m.vote = "ACK")

(* A vote taken over at once.                                               *)
LEMMA PollNow ==
    ASSUME NEW d \in Device, ~d.paused, NEW vote \in {"ACK", "NACK"}
    PROVE  CastVoteTimerUpdate(d, vote).polled.cast = (vote = "ACK")
<1> DEFINE f == [d EXCEPT !.vote = vote]
<1>1. CastVoteTimerUpdate(d, vote) = Poll(f)
  BY DEF CastVoteTimerUpdate
<1>2. f \in Device /\ f.vote = vote /\ ~f.paused
  BY DEF Device, Votes
<1> HIDE DEF f
<1> QED BY <1>1, <1>2 DEF Poll, Device

(* A message of the server, as the device handles it.                       *)
LEMMA ReceiveSound ==
    ASSUME QdeviceInv, NEW n \in Nodes, NEW msg \in ServerMsg, Receive(n, msg),
           NEW has, DeviceSound(dev[n], has)
    PROVE  /\ dev'[n].ring = dev[n].ring
           /\ \/ dev'[n].state = "WAITING_CONNECT" /\ \A has2 : DeviceSound(dev'[n], has2)
              \/ /\ dev'[n].state # "WAITING_CONNECT" /\ DeviceSound(dev'[n], has)
                 /\ OwnStep(dev[n], dev'[n]) \/ Confirmed(dev[n], dev'[n], msg)
<1> DEFINE d    == dev[n]
           vote == IF msg.ring = d.sentRing THEN msg.vote ELSE "NO_CHANGE"
           d1   == CastVoteTimerUpdate(d, vote)
           init == [d EXCEPT !.active = d.active \cup {"connect"}, !.waiting = TRUE]
           reply == [type |-> "vote_info_reply", seq |-> msg.seq]
<1> SUFFICES ASSUME NEW e, d.state # "WAITING_CONNECT",
                    \/ e = init
                    \/ e = d
                    \/ e = d1 /\ msg.type = "reply" /\ Ready(d)
                    \/ e = Disconnected(d1) /\ msg.type = "vote_info" /\ Ready(d)
                    \/ e = Send(d1, reply) /\ msg.type = "vote_info" /\ Ready(d) /\ ~OutFull(d)
                    \/ e = Disconnected(d)
             PROVE  /\ e.ring = d.ring
                    /\ \/ e.state = "WAITING_CONNECT" /\ \A has2 : DeviceSound(e, has2)
                       \/ /\ e.state # "WAITING_CONNECT" /\ DeviceSound(e, has)
                          /\ OwnStep(d, e) \/ Confirmed(d, e, msg)
  BY DEF QdeviceInv, Receive, ReceivedInitReply, ReceivedVote, AcceptedVote, ReceivedVoteInfo
<1>1. d \in Device /\ CallbackInv(d) /\ DeviceSound(d, has)
  BY DEF QdeviceInv, DeviceInv
<1> HIDE DEF d
<1>2. CASE e = init
  <2>1. e \in Device /\ Same(d, e) /\ e.out = d.out
    BY <1>1, <1>2 DEF Device, Same
  <2> QED BY <1>1, <2>1, SameOwnStep DEF Same
<1>3. CASE e = d
  BY <1>1, <1>3, SameOwnStep DEF Same
<1>4. ASSUME msg.type \in {"reply", "vote_info"}
      PROVE  /\ d1 \in Device /\ Frame(d, d1)
             /\ d1.vote = IF vote = "NO_CHANGE" THEN d.vote ELSE vote
             /\ \/ d1.polled = d.polled
                \/ ~d.paused /\ d1.polled.ring = d.ring /\ d1.polled.cast = (vote = "ACK")
  <2>1. vote \in Votes \cup {"NO_CHANGE"}
    BY <1>4, ServerVotes DEF Votes, ReplyVotes
  <2> HIDE DEF vote
  <2> QED BY <1>1, <2>1, TimerUpdated
<1>5. CASE e = d1 /\ msg.type = "reply" /\ Ready(d)
  <2>1. vote # "ACK"
    BY <1>5, ServerVotes DEF ReplyVotes
  <2>2. (vote = "ACK") = FALSE
    BY <2>1
  <2>3. /\ e \in Device /\ Frame(d, e) /\ (e.vote = d.vote \/ e.vote # "ACK")
        /\ e.polled = d.polled \/ (~d.paused /\ e.polled.ring = d.ring /\ ~e.polled.cast)
    <3> HIDE DEF d1, vote
    <3> QED BY <1>4, <1>5, <2>1, <2>2
  <2> HIDE DEF d1, vote
  <2>4. DeviceSound(e, has) /\ OwnStep(d, e)
    BY <1>1, <2>3, TimerOwnStep
  <2> QED BY <2>3, <2>4 DEF Frame
(* A vote: the device is not paused exactly when it has reported its ring.  *)
<1>6. ASSUME msg.type = "vote_info", Ready(d) PROVE RingsInOrder(d1) /\ d1.ring = d.ring
  <2>1. /\ d.ring \in Int /\ d.sentRing \in Int /\ d.polled.ring \in Int
        /\ ~d.paused => d.ring = d.sentRing
    BY <1>1, <1>6, DeviceNumbers DEF CallbackInv, RunningDeviceHasReported
  <2> HIDE DEF d1, vote
  <2>2. d1 \in Device /\ Frame(d, d1) /\ (d1.polled = d.polled \/ (~d.paused /\ d1.polled.ring = d.ring))
    BY <1>4, <1>6
  <2> QED BY <1>1, <1>6, <2>1, <2>2 DEF DeviceSound, RingsInOrder, Frame, Ready
<1>7. CASE e = Disconnected(d1) /\ msg.type = "vote_info" /\ Ready(d)
  <2> HIDE DEF d1
  <2> QED BY <1>4, <1>6, <1>7, DisconnectedSound
<1>8. CASE e = Send(d1, reply) /\ msg.type = "vote_info" /\ Ready(d) /\ ~OutFull(d)
  <2>1. d1 \in Device /\ Frame(d, d1) /\ DeviceSound(d1, has)
    <3> HIDE DEF d1
    <3>1. d1 \in Device /\ Frame(d, d1) /\ RingsInOrder(d1)
      BY <1>4, <1>6, <1>8
    <3>2. OutInOrder(d1) /\ Announced(d1, has)
      BY <1>1, <3>1 DEF DeviceSound, OutInOrder, Announced, Frame, Ready
    <3> QED BY <3>1, <3>2 DEF DeviceSound
  <2>2. /\ msg.vote \in {"ACK", "NACK"} /\ IsVote(msg)
        /\ reply \in ClientMsg /\ IsReply(reply) /\ reply.seq = msg.seq
        /\ ~IsRing(reply) /\ ~IsConfig(reply)
    BY <1>8, ServerVotes, ClientMessages DEF IsVote, IsReply, IsRing, IsConfig
  <2> HIDE DEF reply
  <2>3. e \in Device /\ e = [d1 EXCEPT !.out = Append(d1.out, reply)]
    <3>1. ~OutFull(d1) /\ Len(d1.out) <= MaxDeviceBuffers
      BY <1>1, <1>8, <2>1 DEF OutFull, CallbackInv, Frame
    <3> HIDE DEF d1
    <3> QED BY <1>8, <2>1, <2>2, <3>1, SendFacts
  <2>4. /\ Same(d1, e) /\ e.out = Append(d.out, reply)
        /\ e.ring = d.ring /\ e.sentRing = d.sentRing /\ e.state = d.state
        /\ e.vote = d1.vote /\ e.polled = d1.polled
    <3> HIDE DEF d1
    <3>1. Same(d1, e) /\ e.out = Append(d1.out, reply)
      BY <2>1, <2>3 DEF Device, Same
    <3> QED BY <2>1, <3>1 DEF Same, Frame
  <2>5. DeviceSound(e, has)
    <3> HIDE DEF d1
    <3>1. e.out = Append(d1.out, reply)
      BY <2>1, <2>4 DEF Frame
    <3> QED BY <2>1, <2>2, <2>3, <2>4, <3>1, SendOwnStep
  <2>6. msg.ring # d.sentRing => e.vote = d.vote /\ e.polled = d.polled
    <3>1. msg.ring # d.sentRing => d1 = d
      BY DEF CastVoteTimerUpdate
    <3> QED BY <2>4, <3>1
  <2>7. msg.ring = d.sentRing => e.vote = msg.vote
    BY <1>4, <1>8, <2>2, <2>4
  <2>8. msg.ring = d.sentRing /\ ~d.paused => e.polled.cast = (msg.vote = "ACK")
    <3> SUFFICES ASSUME msg.ring = d.sentRing, ~d.paused
                 PROVE  e.polled.cast = (msg.vote = "ACK")
      OBVIOUS
    <3>1. d1 = CastVoteTimerUpdate(d, msg.vote)
      OBVIOUS
    <3> HIDE DEF d1
    <3> QED BY <1>1, <2>2, <2>4, <3>1, PollNow
  <2>9. Confirmed(d, e, msg)
    BY <1>8, <2>2, <2>4, <2>6, <2>7, <2>8 DEF Confirmed
  <2> QED BY <1>8, <2>4, <2>5, <2>9 DEF Ready
<1>9. CASE e = Disconnected(d)
  BY <1>1, <1>9, DisconnectedSound DEF DeviceSound
<1> QED BY <1>2, <1>3, <1>5, <1>7, <1>8, <1>9
=============================================================================
