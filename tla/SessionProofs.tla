----------------------------- MODULE SessionProofs -----------------------------
(***************************************************************************)
(* Proofs about module Session: what the two ends of a connection and what *)
(* is on its way between them have to do with each other, in every state   *)
(* of every behaviour, and from it the safety properties of the module.    *)
(*                                                                         *)
(* The inductive invariant Inv looks at one client, one direction, one     *)
(* connection and one device at a time (the operators with the parameter   *)
(* u, the setup); an action is then a step of one connection.              *)
(***************************************************************************)
EXTENDS Session, SequenceTheorems, FiniteSetTheorems, TLAPS

-----------------------------------------------------------------------------
(* Types                                                                   *)

UpTypes   == {"preinit", "starttls", "init", "set_option", "echo_request"}
DownTypes == {"preinit_reply", "init_reply", "set_option_reply", "echo_reply", "server_error"}
Errors    == {"no_error", "preinit_required", "tie_breaker_differs", "algorithm_differs",
              "duplicate_node_id"}
Names     == {ClusterOf[d] : d \in Devices} \cup {""}
InitOpts  == [node : Devices, config : DOMAIN Configs]
Opts      == Names \cup TlsModes \cup Errors \cup InitOpts \cup {"none"}

Msgs(T) == [type : T, seq : Nat, tls : BOOLEAN, opt : Opts, age : Nat]

ClientType ==
    [exists : BOOLEAN, preinit : BOOLEAN, tls : BOOLEAN, verified : BOOLEAN, init : BOOLEAN,
     node : Nat, config : Nat, cluster : Names, interval : Nat, dpd : Int,
     disconnect : {"none", "dpd", "closed", "certificate"}]

SlotType == [link : {"free", "up", "cut", "device_closed", "server_closed"},
             up : Seq(Msgs(UpTypes)), down : Seq(Msgs(DownTypes)), client : ClientType]

States == {"waiting_connect", "waiting_preinit_reply", "waiting_starttls_being_sent",
           "waiting_init_reply", "connected", "stopped"}

(* What a device reports when it gives up a server that it cannot hear.     *)
EchoReasons == {"algo_echo_reply_not_received", "algo_echo_reply_received"}
Reasons == Errors \cup EchoReasons
             \cup {"none", "unexpected_msg", "incompatible_tls", "required_option_missing",
                   "server_sent_error", "server_closed_connection", "cant_connect_to_the_server"}

DevType ==
    [conn : Slots \cup {NoSlot}, state : States, tls : BOOLEAN, seq : Nat, connect : Int,
     echo : Int, expected : Nat, received : Nat, disconnect : Reasons, sleep : Int]

TypeInv ==
    /\ setup \in Setups
    /\ dev \in [Devices -> DevType]
    /\ config \in [Devices -> DOMAIN Configs]
    /\ slot \in [Slots -> SlotType]
    /\ reach \in [Devices -> BOOLEAN]
    /\ faults \in Nat

-----------------------------------------------------------------------------
(* The parts of the inductive invariant                                    *)

(* The time after which qnetd gives up an admitted client.                  *)
Interval == DpdCoefficient * Heartbeat

(* qnetd_client_msg_received_check_tls has nothing more to ask for.         *)
TlsSettled(u, c) ==
    /\ u.server = "required" => c.tls
    /\ u.certRequired /\ (u.server = "required" \/ (u.server = "supported" /\ c.tls)) => c.verified

(* Messages of a session may be in the clear.                               *)
MayBeClear(u) ==
    /\ u.server = "unsupported" \/ \E d \in Devices : u.device[d] = "unsupported"
    /\ u.server # "required"

ClientOk(u, c) ==
    /\ c.dpd >= Off
    /\ c.dpd = Off => c.disconnect # "none"
    /\ c.init => /\ c.preinit /\ c.interval = Interval /\ c.config \in DOMAIN Configs
                 /\ TlsSettled(u, c)
    /\ ~c.exists => c = NoClient

(* What a device has sent and the server has not read: what may still come  *)
(* at the point of the session where the client is.                         *)
UpOk(u, up, c) ==
    \A i \in DOMAIN up :
        /\ up[i].age <= u.maxDelay
        /\ up[i].tls = (c.tls \/ (i = 2 /\ up[1].type = "starttls"))
        /\ up[i].type = "preinit" =>
              Len(up) = 1 /\ ~c.preinit /\ ~c.tls /\ ~c.init /\ up[i].opt \in Names
        /\ up[i].type = "starttls" =>
              /\ i = 1 /\ Len(up) = 2 /\ up[2].type = "init"
              /\ c.preinit /\ ~c.tls /\ ~c.init
        /\ up[i].type = "init" =>
              /\ i = Len(up) /\ (i = 1 \/ (i = 2 /\ up[1].type = "starttls"))
              /\ c.preinit /\ ~c.init /\ up[i].opt \in InitOpts
        /\ up[i].type \in {"set_option", "echo_request"} => c.init
        /\ up[i].type \in {"init", "set_option", "echo_request"} /\ ~up[i].tls => MayBeClear(u)

DownOk(u, down) ==
    \A i \in DOMAIN down :
        /\ down[i].age <= u.maxDelay
        /\ down[i].type = "preinit_reply" => down[i].opt = u.server
        /\ down[i].type = "init_reply" => down[i].opt \in Errors

SlotOk(u, sl) ==
    /\ sl.link = "free" => sl = FreeSlot
    /\ sl.link \in {"up", "device_closed"} => sl.client.exists
    /\ sl.link = "server_closed" => ~sl.client.exists
    /\ sl.link = "device_closed" => sl.down = <<>>
    /\ sl.link = "cut" => sl.up = <<>> /\ sl.down = <<>>
    /\ ~sl.client.exists => sl.up = <<>>
    /\ ClientOk(u, sl.client)
    /\ UpOk(u, sl.up, sl.client)
    /\ DownOk(u, sl.down)

DevOk(u, d, v) ==
    /\ v.conn = NoSlot <=> v.state \in {"waiting_connect", "stopped"}
    /\ v.connect \in Off..ConnectTimeout /\ v.echo \in Off..Heartbeat /\ v.sleep \in Off..MaxSleep
    /\ v.echo # Off => v.state = "connected"
    /\ v.connect # Off => v.state # "connected" /\ v.sleep = Off
    /\ v.sleep # Off => v.state = "waiting_connect"
    /\ v.tls => v.state \in {"waiting_init_reply", "connected"}
    /\ v.state \in {"waiting_init_reply", "connected"} /\ ~v.tls =>
          TlsCompatibility(u.server, u.device[d]) = 0
    /\ v.expected \in 0..(EchoWidth - 1)
    /\ v.disconnect \in EchoReasons => v.conn # NoSlot

(* Echo requests and replies of a connected device: there is one on its way *)
(* exactly when the device waits for it, and it will not be late.           *)
EchoesOk(u, v, sl) ==
    /\ \A i \in DOMAIN sl.up : sl.up[i].type = "echo_request" =>
          /\ v.received # v.expected /\ sl.up[i].seq = v.expected
          /\ v.echo >= Heartbeat - sl.up[i].age
          /\ \A k \in DOMAIN sl.up : sl.up[k].type = "echo_request" => k = i
          /\ \A k \in DOMAIN sl.down : sl.down[k].type # "echo_reply"
    /\ \A i \in DOMAIN sl.down : sl.down[i].type = "echo_reply" =>
          /\ v.received # v.expected /\ sl.down[i].seq = v.expected
          /\ v.echo >= Heartbeat - u.maxDelay - sl.down[i].age
          /\ \A k \in DOMAIN sl.down : sl.down[k].type = "echo_reply" => k = i
    /\ v.received # v.expected =>
          \/ \E i \in DOMAIN sl.up : sl.up[i].type = "echo_request"
          \/ \E i \in DOMAIN sl.down : sl.down[i].type = "echo_reply"

(* A connected device: its client is admitted, and has a message on its way *)
(* or can wait for the next echo request.                                   *)
ConnectedOk(u, v, sl) ==
    /\ sl.client.init /\ sl.client.tls = v.tls
    /\ v.echo \in 0..Heartbeat
    /\ \A i \in DOMAIN sl.down : sl.down[i].type \in {"set_option_reply", "echo_reply"}
    /\ sl.up = <<>> => sl.client.dpd >= Interval - Heartbeat + v.echo
    /\ sl.up # <<>> => sl.client.dpd >= Interval - Heartbeat - sl.up[1].age
    /\ EchoesOk(u, v, sl)

PreinitOk(v, sl) ==
    /\ ~sl.client.tls /\ ~sl.client.init
    /\ \/ Len(sl.up) = 1 /\ sl.up[1].type = "preinit" /\ sl.down = <<>>
       \/ /\ sl.up = <<>> /\ sl.client.preinit
          /\ Len(sl.down) = 1 /\ sl.down[1].type = "preinit_reply"
       \/ sl.up = <<>> /\ sl.down = <<>> /\ v.disconnect # "none"

InitOk(v, sl) ==
    \/ /\ Len(sl.up) = 2 /\ sl.up[1].type = "starttls" /\ sl.down = <<>>
       /\ v.tls /\ ~sl.client.init
    \/ /\ Len(sl.up) = 1 /\ sl.up[1].type = "init" /\ sl.down = <<>>
       /\ sl.client.tls = v.tls /\ ~sl.client.init
    \/ /\ sl.up = <<>> /\ Len(sl.down) = 1 /\ sl.client.tls = v.tls
       /\ \/ sl.down[1].type = "server_error" /\ ~sl.client.init
          \/ /\ sl.down[1].type = "init_reply"
             /\ sl.client.init <=> sl.down[1].opt = "no_error"
             /\ sl.client.init => sl.client.dpd >= Interval - sl.down[1].age
    \/ /\ sl.up = <<>> /\ sl.down = <<>>
       /\ v.disconnect # "none" \/ sl.client.disconnect # "none"

(* A connection over which messages get through, its device and its client. *)
SessionOk(u, v, sl) ==
    /\ v.state = "waiting_preinit_reply" => PreinitOk(v, sl)
    /\ v.state = "waiting_starttls_being_sent" =>
          sl.up = <<>> /\ sl.client.preinit /\ ~sl.client.tls /\ ~sl.client.init
    /\ v.state = "waiting_init_reply" => InitOk(v, sl)
    /\ v.state = "connected" => ConnectedOk(u, v, sl)
    /\ sl.client.init => sl.client.dpd > 0 /\ sl.client.disconnect # "dpd"
    /\ v.disconnect \notin EchoReasons

LinkOk(u, v, sl) ==
    /\ sl.link \in {"up", "cut", "server_closed"}
    /\ \A i \in DOMAIN sl.down : sl.down[i].tls = v.tls
    /\ v.state = "waiting_preinit_reply" => Len(sl.down) <= 1
    /\ v.state = "waiting_starttls_being_sent" => sl.down = <<>>
    /\ sl.link = "up" => SessionOk(u, v, sl)

(* Every cluster of qnetd has clients, in the order of their node ids and   *)
(* with one configuration, and every admitted client is in its cluster.     *)
ListOk(n, list, sl) ==
    /\ list \in Seq(Slots) /\ list # <<>>
    /\ \A i \in DOMAIN list : /\ sl[list[i]].client.exists /\ sl[list[i]].client.init
                              /\ sl[list[i]].client.cluster = n
    /\ \A i, j \in DOMAIN list : j < i =>
          /\ sl[list[j]].client.node < sl[list[i]].client.node
          /\ Configs[sl[list[j]].client.config] = Configs[sl[list[i]].client.config]

Member(s, cl, c) ==
    c.cluster \in DOMAIN cl /\ \E i \in DOMAIN cl[c.cluster] : cl[c.cluster][i] = s

ClustersOk(cl, sl) ==
    /\ \A n \in DOMAIN cl : ListOk(n, cl[n], sl)
    /\ \A s \in Slots : sl[s].client.init => Member(s, cl, sl[s].client)

ConnsOk ==
    /\ \A s \in Slots : slot[s].link \in {"up", "server_closed"} => Uses(s)
    /\ \A d, e \in Devices : dev[d].conn = dev[e].conn /\ dev[d].conn # NoSlot => d = e

Inv ==
    /\ TypeInv
    /\ \A s \in Slots : SlotOk(setup, slot[s])
    /\ \A d \in Devices : DevOk(setup, d, dev[d])
    /\ \A d \in Devices : dev[d].conn # NoSlot => LinkOk(setup, dev[d], slot[dev[d].conn])
    /\ ConnsOk
    /\ ClustersOk(clusters, slot)

-----------------------------------------------------------------------------
(* Steps of one connection                                                 *)

(* A step of a device d and of the connection s that only it uses, before   *)
(* or after the step, keeps the invariant if the two fit together.          *)
LEMMA StepOfConnection ==
    ASSUME Inv, NEW d \in Devices, NEW v \in DevType, NEW s \in Slots, NEW sl \in SlotType,
           dev' = [dev EXCEPT ![d] = v], slot' = [slot EXCEPT ![s] = sl], setup' = setup,
           config' \in [Devices -> DOMAIN Configs], reach' \in [Devices -> BOOLEAN], faults' \in Nat,
           dev[d].conn \in {s, NoSlot}, v.conn \in {s, NoSlot},
           \A e \in Devices : dev[e].conn = s => e = d,
           SlotOk(setup, sl), DevOk(setup, d, v), v.conn = s => LinkOk(setup, v, sl),
           sl.link \in {"up", "server_closed"} => v.conn = s,
           ClustersOk(clusters', slot')
    PROVE  Inv'
<1>1. TypeInv /\ ConnsOk
  BY DEF Inv
<1>2. dev \in [Devices -> DevType] /\ slot \in [Slots -> SlotType] /\ setup \in Setups
  BY <1>1 DEF TypeInv
<1>3. dev'[d] = v /\ \A e \in Devices : e # d => dev'[e] = dev[e]
  BY <1>2
<1>4. slot'[s] = sl /\ \A r \in Slots : r # s => slot'[r] = slot[r]
  BY <1>2
<1>5. s # NoSlot /\ \A e \in Devices : dev[e].conn \in Slots \cup {NoSlot}
  BY <1>2, SessionAssumption DEF NoSlot, DevType
<1>6. TypeInv'
  BY <1>2 DEF TypeInv
<1>7. ASSUME NEW r \in Slots PROVE SlotOk(setup', slot'[r])
  BY <1>4 DEF Inv
<1>8. ASSUME NEW e \in Devices PROVE DevOk(setup', e, dev'[e])
  BY <1>3 DEF Inv
<1>9. ASSUME NEW e \in Devices, dev'[e].conn # NoSlot
      PROVE  LinkOk(setup', dev'[e], slot'[dev'[e].conn])
  <2>1. CASE e = d
    BY <1>3, <1>4, <1>9, <2>1
  <2>2. CASE e # d
    <3>1. dev'[e] = dev[e] /\ dev[e].conn # s /\ dev[e].conn \in Slots
      BY <1>3, <1>5, <1>9, <2>2
    <3>2. slot'[dev'[e].conn] = slot[dev[e].conn]
      BY <1>4, <3>1
    <3> QED BY <1>9, <3>1, <3>2 DEF Inv
  <2> QED BY <2>1, <2>2
<1>10. ConnsOk'
  <2>1. ASSUME NEW r \in Slots, slot'[r].link \in {"up", "server_closed"}
        PROVE  \E e \in Devices : dev'[e].conn = r
    <3>1. CASE r = s
      BY <1>3, <1>4, <2>1, <3>1
    <3>2. CASE r # s
      <4>1. PICK e \in Devices : dev[e].conn = r
        BY <1>1, <1>4, <2>1, <3>2 DEF ConnsOk, Uses
      <4>2. e # d
        BY <1>5, <3>2, <4>1, SessionAssumption DEF NoSlot
      <4> QED BY <1>3, <4>1, <4>2
    <3> QED BY <3>1, <3>2
  <2>2. ASSUME NEW e \in Devices, NEW f \in Devices, dev'[e].conn = dev'[f].conn,
               dev'[e].conn # NoSlot
        PROVE  e = f
    <3>1. CASE e # d /\ f # d
      BY <1>1, <1>3, <2>2, <3>1 DEF ConnsOk
    <3>2. CASE e = d
      BY <1>3, <2>2, <3>2
    <3>3. CASE f = d
      BY <1>3, <2>2, <3>3
    <3> QED BY <3>1, <3>2, <3>3
  <2> QED BY <2>1, <2>2 DEF ConnsOk, Uses
<1> QED BY <1>6, <1>7, <1>8, <1>9, <1>10 DEF Inv

(* A step of a device alone.                                                *)
LEMMA StepOfDevice ==
    ASSUME Inv, NEW d \in Devices, NEW v \in DevType,
           dev' = [dev EXCEPT ![d] = v], UNCHANGED <<setup, slot, clusters>>,
           config' \in [Devices -> DOMAIN Configs], reach' \in [Devices -> BOOLEAN], faults' \in Nat,
           v.conn = dev[d].conn, DevOk(setup, d, v),
           v.conn # NoSlot => LinkOk(setup, v, slot[v.conn])
    PROVE  Inv'
<1>1. TypeInv /\ ConnsOk
  BY DEF Inv
<1>2. dev \in [Devices -> DevType] /\ slot \in [Slots -> SlotType] /\ setup \in Setups
  BY <1>1 DEF TypeInv
<1>3. dev'[d] = v /\ \A e \in Devices : e # d => dev'[e] = dev[e]
  BY <1>2
<1>4. \A e \in Devices : dev'[e].conn = dev[e].conn
  BY <1>3
<1>5. TypeInv'
  BY <1>2 DEF TypeInv
<1>6. \A e \in Devices : DevOk(setup', e, dev'[e])
  BY <1>3 DEF Inv
<1>7. \A e \in Devices : dev'[e].conn # NoSlot => LinkOk(setup', dev'[e], slot'[dev'[e].conn])
  BY <1>3 DEF Inv
<1>8. ConnsOk'
  BY <1>1, <1>4 DEF ConnsOk, Uses
<1>9. (\A s \in Slots : SlotOk(setup', slot'[s])) /\ ClustersOk(clusters', slot')
  BY DEF Inv
<1> QED BY <1>5, <1>6, <1>7, <1>8, <1>9 DEF Inv

(* A step of the server with one connection.                                *)
LEMMA StepOfSlot ==
    ASSUME Inv, NEW s \in Slots, NEW sl \in SlotType,
           slot' = [slot EXCEPT ![s] = sl], UNCHANGED <<setup, dev, config, reach, faults>>,
           SlotOk(setup, sl), \A d \in Devices : dev[d].conn = s => LinkOk(setup, dev[d], sl),
           sl.link \in {"up", "server_closed"} => Uses(s),
           ClustersOk(clusters', slot')
    PROVE  Inv'
<1>1. TypeInv /\ ConnsOk
  BY DEF Inv
<1>2. dev \in [Devices -> DevType] /\ slot \in [Slots -> SlotType] /\ setup \in Setups
  BY <1>1 DEF TypeInv
<1>4. slot'[s] = sl /\ \A r \in Slots : r # s => slot'[r] = slot[r]
  BY <1>2
<1>5. \A e \in Devices : dev[e].conn \in Slots \cup {NoSlot}
  BY <1>2 DEF NoSlot, DevType
<1>6. TypeInv'
  BY <1>1, <1>2 DEF TypeInv
<1>7. \A r \in Slots : SlotOk(setup', slot'[r])
  BY <1>4 DEF Inv
<1>8. \A e \in Devices : DevOk(setup', e, dev'[e])
  BY DEF Inv
<1>9. ASSUME NEW e \in Devices, dev'[e].conn # NoSlot
      PROVE  LinkOk(setup', dev'[e], slot'[dev'[e].conn])
  BY <1>4, <1>5, <1>9 DEF Inv
<1>10. ConnsOk'
  BY <1>1, <1>4 DEF ConnsOk, Uses
<1> QED BY <1>6, <1>7, <1>8, <1>9, <1>10 DEF Inv

(* What the clusters know of a client stays what it is.                     *)
SameClient(a, b) ==
    /\ a.init = b.init
    /\ a.init => /\ a.exists = b.exists /\ a.cluster = b.cluster
                 /\ a.node = b.node /\ a.config = b.config

(* The clusters go with clients that stay what they are.                    *)
LEMMA ClustersKept ==
    ASSUME NEW cl, NEW a, NEW b, ClustersOk(cl, a),
           \A s \in Slots : SameClient(a[s].client, b[s].client)
    PROVE  ClustersOk(cl, b)
<1>1. ASSUME NEW n \in DOMAIN cl PROVE ListOk(n, cl[n], b)
  <2>1. ListOk(n, cl[n], a)
    BY DEF ClustersOk
  <2>2. \A i \in DOMAIN cl[n] : cl[n][i] \in Slots
    BY <2>1 DEF ListOk
  <2> QED BY <2>1, <2>2 DEF ListOk, SameClient
<1>2. ASSUME NEW s \in Slots, b[s].client.init PROVE Member(s, cl, b[s].client)
  <2>1. a[s].client.init /\ a[s].client.cluster = b[s].client.cluster
    BY <1>2 DEF SameClient
  <2> QED BY <2>1 DEF ClustersOk, Member
<1> QED BY <1>1, <1>2 DEF ClustersOk

-----------------------------------------------------------------------------
(* The server reads                                                        *)

(* The bounds that the proofs need.                                         *)
LEMMA Constants ==
    ASSUME NEW u \in Setups
    PROVE  /\ Heartbeat \in Nat /\ Heartbeat > 0 /\ Interval \in Nat
           /\ ConnectTimeout \in Nat /\ ConnectTimeout > 0 /\ MaxSleep \in Nat /\ MaxSleep > 0
           /\ EchoWidth \in Nat /\ EchoWidth > 1
           /\ u.maxDelay \in Nat /\ 2 * u.maxDelay < Heartbeat
           /\ 2 * u.maxDelay + Heartbeat < Interval
           /\ u.server \in TlsModes /\ u.device \in [Devices -> TlsModes]
           /\ u.certRequired \in BOOLEAN
<1>1. DpdCoefficient \in Nat /\ Heartbeat \in Nat
  BY SessionAssumption
<1>2. Interval \in Nat
  BY <1>1 DEF Interval
<1> QED BY <1>2, SessionAssumption DEF Interval

(* qnetd_client_msg_received_check_tls asks for what is not settled yet.    *)
LEMMA CheckTlsAsks ==
    ASSUME setup \in Setups, NEW c \in ClientType
    PROVE  /\ CheckTls(c) \in {"ok", "certificate", "error"}
           /\ CheckTls(c) = "ok" <=> TlsSettled(setup, c)
           /\ CheckTls(c) = "certificate" => TlsSettled(setup, [c EXCEPT !.verified = TRUE])
<1>1. setup.server \in {"unsupported", "supported", "required"} /\ setup.certRequired \in BOOLEAN
  BY Constants DEF TlsModes
<1>2. c.tls \in BOOLEAN /\ c.verified \in BOOLEAN
  BY DEF ClientType
<1>3. [c EXCEPT !.verified = TRUE].verified = TRUE /\ [c EXCEPT !.verified = TRUE].tls = c.tls
  BY DEF ClientType
<1>4. CASE setup.server = "unsupported"
  BY <1>2, <1>3, <1>4 DEF CheckTls, TlsSettled
<1>5. CASE setup.server = "supported"
  BY <1>1, <1>2, <1>3, <1>5 DEF CheckTls, TlsSettled
<1>6. CASE setup.server = "required"
  BY <1>1, <1>2, <1>3, <1>6 DEF CheckTls, TlsSettled
<1> QED BY <1>1, <1>4, <1>5, <1>6

(* A connection of which one field is changed.                              *)
LEMMA SlotWith ==
    ASSUME NEW sl \in SlotType
    PROVE  \A x :
           /\ [sl EXCEPT !.link = x] =
                 [link |-> x, up |-> sl.up, down |-> sl.down, client |-> sl.client]
           /\ [sl EXCEPT !.up = x] =
                 [link |-> sl.link, up |-> x, down |-> sl.down, client |-> sl.client]
           /\ [sl EXCEPT !.down = x] =
                 [link |-> sl.link, up |-> sl.up, down |-> x, client |-> sl.client]
           /\ [sl EXCEPT !.client = x] =
                 [link |-> sl.link, up |-> sl.up, down |-> sl.down, client |-> x]
BY DEF SlotType

(* The message at the head is taken and a reply is sent.                    *)
TakenWith(sl, c)       == [[sl EXCEPT !.up = Tail(@)] EXCEPT !.client = c]
AnsweredWith(sl, c, r) == SentDown(TakenWith(sl, c), r)

(* A connection of which the server has taken a message.                    *)
LEMMA TakenSlot ==
    ASSUME NEW u \in Setups, NEW sl \in SlotType, SlotOk(u, sl), sl.client.exists, sl.up # <<>>,
           NEW c \in ClientType, c.exists, ClientOk(u, c), UpOk(u, Tail(sl.up), c),
           NEW t, t = TakenWith(sl, c)
    PROVE  /\ t \in SlotType /\ SlotOk(u, t) /\ sl.link \in {"up", "device_closed"}
           /\ t.link = sl.link /\ t.client = c /\ t.up = Tail(sl.up) /\ t.down = sl.down
<1>1. sl.up \in Seq(Msgs(UpTypes)) /\ sl.down \in Seq(Msgs(DownTypes))
  BY DEF SlotType
<1>2. Tail(sl.up) \in Seq(Msgs(UpTypes))
  BY <1>1
<1>3. t = [link |-> sl.link, up |-> Tail(sl.up), down |-> sl.down, client |-> c]
  <2> DEFINE k == [sl EXCEPT !.up = Tail(@)]
             rec == [link |-> sl.link, up |-> Tail(sl.up), down |-> sl.down, client |-> sl.client]
  <2>1. k = rec
    BY SlotWith, Zenon
  <2>2. t = [rec EXCEPT !.client = c]
    BY <2>1, Zenon DEF TakenWith
  <2> QED BY <2>2
<1>4. sl.link \in {"up", "device_closed"}
  BY DEF SlotOk, SlotType, FreeSlot
<1>5. t \in SlotType
  BY <1>1, <1>2, <1>3 DEF SlotType
<1>6. t.link = sl.link /\ t.client = c /\ t.up = Tail(sl.up) /\ t.down = sl.down
  BY <1>3
<1>7. SlotOk(u, t)
  BY <1>4, <1>6 DEF SlotOk
<1> QED BY <1>4, <1>5, <1>6, <1>7

(* A connection on which the server has answered a message.                 *)
LEMMA AnsweredSlot ==
    ASSUME NEW u \in Setups, NEW sl \in SlotType, SlotOk(u, sl), sl.client.exists, sl.up # <<>>,
           NEW c \in ClientType, c.exists, ClientOk(u, c), UpOk(u, Tail(sl.up), c),
           NEW r \in Msgs(DownTypes), r.age = 0,
           r.type = "preinit_reply" => r.opt = u.server,
           r.type = "init_reply" => r.opt \in Errors,
           NEW t, t = AnsweredWith(sl, c, r)
    PROVE  /\ t \in SlotType /\ SlotOk(u, t) /\ sl.link \in {"up", "device_closed"}
           /\ t.link = sl.link /\ t.client = c /\ t.up = Tail(sl.up)
           /\ sl.link = "up" => t.down = Append(sl.down, r)
<1> DEFINE k == TakenWith(sl, c)
<1>1. /\ k \in SlotType /\ SlotOk(u, k) /\ sl.link \in {"up", "device_closed"}
      /\ k.link = sl.link /\ k.client = c /\ k.up = Tail(sl.up) /\ k.down = sl.down
  BY TakenSlot
<1>2. CASE sl.link # "up"
  BY <1>1, <1>2 DEF AnsweredWith, SentDown
<1>3. CASE sl.link = "up"
  <2>1. t = [link |-> "up", up |-> Tail(sl.up), down |-> Append(sl.down, r), client |-> c]
    BY <1>1, <1>3 DEF AnsweredWith, SentDown, SlotType
  <2>2. sl.down \in Seq(Msgs(DownTypes)) /\ k.up \in Seq(Msgs(UpTypes))
    BY <1>1 DEF SlotType
  <2>3. t \in SlotType
    BY <1>1, <2>1, <2>2 DEF SlotType
  <2>4. DownOk(u, t.down)
    <3>1. DownOk(u, sl.down) /\ 0 <= u.maxDelay
      BY Constants DEF SlotOk
    <3> QED BY <2>1, <2>2, <3>1 DEF DownOk
  <2>5. SlotOk(u, t)
    BY <1>1, <2>1, <2>4 DEF SlotOk
  <2> QED BY <1>1, <1>3, <2>1, <2>3, <2>5
<1> QED BY <1>2, <1>3

(* qnetd_client_dpd_timer_reschedule for a client that is served.           *)
LEMMA RescheduledClient ==
    ASSUME NEW u \in Setups, NEW c \in ClientType, ClientOk(u, c), c.exists, c.disconnect = "none",
           NEW m, NEW r, r = DpdReschedule(c, m)
    PROVE  /\ r \in ClientType /\ ClientOk(u, r) /\ r.exists /\ r.disconnect = "none"
           /\ r.dpd = c.interval /\ r.interval = c.interval
           /\ r.preinit = c.preinit /\ r.tls = c.tls /\ r.verified = c.verified /\ r.init = c.init
           /\ r.cluster = c.cluster /\ r.node = c.node /\ r.config = c.config
<1>1. r = [c EXCEPT !.dpd = c.interval]
  BY DEF DpdReschedule, ClientOk
<1>2. c.interval \in Nat
  BY DEF ClientType
<1>3. /\ r \in ClientType /\ r.exists /\ r.disconnect = "none"
      /\ r.dpd = c.interval /\ r.interval = c.interval
      /\ r.preinit = c.preinit /\ r.tls = c.tls /\ r.verified = c.verified /\ r.init = c.init
      /\ r.exists = c.exists /\ r.cluster = c.cluster /\ r.node = c.node /\ r.config = c.config
  <2>1. r \in ClientType
    BY <1>1, <1>2 DEF ClientType
  <2>2. r.exists /\ r.exists = c.exists
    BY <1>1 DEF ClientType
  <2>3. r.disconnect = "none"
    BY <1>1 DEF ClientType
  <2>4. r.dpd = c.interval /\ r.interval = c.interval
    BY <1>1 DEF ClientType
  <2>5. r.preinit = c.preinit /\ r.tls = c.tls
    BY <1>1 DEF ClientType
  <2>6. r.verified = c.verified /\ r.init = c.init
    BY <1>1 DEF ClientType
  <2>7. r.cluster = c.cluster /\ r.node = c.node /\ r.config = c.config
    BY <1>1 DEF ClientType
  <2> QED BY <2>1, <2>2, <2>3, <2>4, <2>5, <2>6, <2>7
<1>4. ClientOk(u, r)
  <2>1. r.dpd >= Off /\ r.dpd # Off
    BY <1>2, <1>3 DEF Off
  <2>2. c.init => /\ c.preinit /\ c.interval = Interval /\ c.config \in DOMAIN Configs
                  /\ TlsSettled(u, c)
    BY DEF ClientOk
  <2>3. TlsSettled(u, c) => TlsSettled(u, r)
    BY <1>3, Zenon DEF TlsSettled
  <2> QED BY <1>3, <2>1, <2>2, <2>3, Zenon DEF ClientOk
<1> QED BY <1>1, <1>3, <1>4

(* What is left of a stream whose head was read.                            *)
LEMMA TailOfStream ==
    ASSUME NEW M, NEW q \in Seq(M), q # <<>>
    PROVE  /\ Tail(q) \in Seq(M) /\ Len(q) \in Nat /\ Len(q) > 0
           /\ Len(Tail(q)) = Len(q) - 1
           /\ DOMAIN q = 1..Len(q) /\ DOMAIN Tail(q) = 1..(Len(q) - 1)
           /\ \A i \in DOMAIN Tail(q) : i + 1 \in DOMAIN q /\ Tail(q)[i] = q[i + 1]
           /\ Len(q) = 1 => Tail(q) = <<>>
           /\ Head(q) = q[1] /\ q[1] \in M
<1>1. Tail(q) \in Seq(M) /\ Len(q) \in Nat /\ Len(q) > 0 /\ Len(Tail(q)) = Len(q) - 1
  OBVIOUS
<1>2. DOMAIN q = 1..Len(q) /\ DOMAIN Tail(q) = 1..(Len(q) - 1)
  BY <1>1
<1>3. \A i \in 1..(Len(q) - 1) : i + 1 \in 1..Len(q) /\ Tail(q)[i] = q[i + 1]
  BY <1>1
<1>4. Len(q) = 1 => Tail(q) = <<>>
  <2>1. \A k \in Seq(M) : Len(k) = 0 => k = <<>>
    BY EmptySeq
  <2>2. Len(q) = 1 => Len(Tail(q)) = 0
    BY <1>1
  <2> QED BY <1>1, <2>1, <2>2, Zenon
<1>5. Head(q) = q[1] /\ q[1] \in M
  BY <1>1
<1> QED BY <1>1, <1>2, <1>3, <1>4, <1>5

(* A device whose connection has a client that is served and a message for  *)
(* it: the connection is up, and the device is where the message says.      *)
LEMMA WhoSent ==
    ASSUME NEW u \in Setups, NEW d \in Devices, NEW v \in DevType, DevOk(u, d, v), v.conn # NoSlot,
           NEW sl \in SlotType, SlotOk(u, sl), LinkOk(u, v, sl),
           sl.client.exists, sl.up # <<>>
    PROVE  /\ sl.link = "up" /\ SessionOk(u, v, sl)
           /\ sl.up[1].type = "preinit" => v.state = "waiting_preinit_reply"
           /\ sl.up[1].type \in {"starttls", "init"} => v.state = "waiting_init_reply"
           /\ sl.up[1].type \in {"set_option", "echo_request"} => v.state = "connected"
<1>1. sl.link = "up"
  BY DEF SlotOk, LinkOk
<1>2. SessionOk(u, v, sl)
  BY <1>1 DEF LinkOk
<1>3. sl.up \in Seq(Msgs(UpTypes)) /\ 1 \in DOMAIN sl.up /\ sl.up[1].type \in UpTypes
  <2>1. sl.up \in Seq(Msgs(UpTypes))
    BY DEF SlotType
  <2>2. 1 \in DOMAIN sl.up /\ sl.up[1] \in Msgs(UpTypes)
    BY <2>1
  <2> QED BY <2>1, <2>2 DEF Msgs
<1>4. v.state \in {"waiting_preinit_reply", "waiting_starttls_being_sent",
                   "waiting_init_reply", "connected"}
  BY DEF DevOk, DevType, States
<1>5. UpOk(u, sl.up, sl.client)
  BY DEF SlotOk
<1>6. CASE v.state = "waiting_preinit_reply"
  BY <1>1, <1>2, <1>3, <1>6 DEF SessionOk, PreinitOk
<1>7. CASE v.state = "waiting_starttls_being_sent"
  BY <1>2, <1>7 DEF SessionOk
<1>8. CASE v.state = "waiting_init_reply"
  BY <1>1, <1>2, <1>3, <1>8 DEF SessionOk, InitOk
<1>9. CASE v.state = "connected"
  <2>1. sl.client.init
    BY <1>2, <1>9 DEF SessionOk, ConnectedOk
  <2> QED BY <1>1, <1>2, <1>3, <1>5, <1>9, <2>1 DEF UpOk, UpTypes
<1> QED BY <1>4, <1>6, <1>7, <1>8, <1>9

(* A message at the end of a stream.                                        *)
LEMMA AppendToStream ==
    ASSUME NEW M, NEW q \in Seq(M), NEW r \in M
    PROVE  /\ Append(q, r) \in Seq(M) /\ Len(q) \in Nat /\ Len(Append(q, r)) = Len(q) + 1
           /\ DOMAIN q = 1..Len(q) /\ DOMAIN Append(q, r) = 1..(Len(q) + 1)
           /\ \A i \in 1..Len(q) : Append(q, r)[i] = q[i]
           /\ Append(q, r)[Len(q) + 1] = r
           /\ Append(q, r) # <<>>
OBVIOUS

(* A message in a stream that was empty.                                    *)
LEMMA OneMessage ==
    ASSUME NEW M, NEW r \in M, NEW q, q = Append(<<>>, r)
    PROVE  Len(q) = 1 /\ q[1] = r /\ DOMAIN q = 1..1 /\ q # <<>>
<1>1. <<>> \in Seq(M) /\ Len(<<>>) = 0
  BY EmptySeq
<1> QED BY <1>1, AppendToStream

(* The device waits for the reply to its preinit, and nothing else is on    *)
(* its way.                                                                 *)
LEMMA PreinitAnswered ==
    ASSUME NEW u \in Setups, NEW d \in Devices, NEW v \in DevType, DevOk(u, d, v), v.conn # NoSlot,
           NEW sl \in SlotType, SlotOk(u, sl), LinkOk(u, v, sl),
           sl.client.exists, sl.up # <<>>, sl.up[1].type = "preinit",
           NEW r \in Msgs(DownTypes), r.type = "preinit_reply", r.tls = sl.client.tls,
           NEW t, t.link = sl.link, t.up = Tail(sl.up), t.down = Append(sl.down, r),
           t.client.preinit, t.client.tls = sl.client.tls, t.client.init = sl.client.init
    PROVE  LinkOk(u, v, t)
<1>1. sl.link = "up" /\ SessionOk(u, v, sl) /\ v.state = "waiting_preinit_reply"
  BY WhoSent
<1>2. PreinitOk(v, sl) /\ v.disconnect \notin EchoReasons
  BY <1>1 DEF SessionOk
<1>3. sl.down = <<>> /\ Len(sl.up) = 1 /\ ~sl.client.tls /\ ~sl.client.init
  BY <1>2 DEF PreinitOk
<1>4. sl.up \in Seq(Msgs(UpTypes))
  BY DEF SlotType
<1>5. t.up = <<>>
  BY <1>3, <1>4, TailOfStream
<1>6. Len(t.down) = 1 /\ t.down[1] = r /\ DOMAIN t.down = 1..1
  BY <1>3, OneMessage
<1>7. v.tls = FALSE /\ r.tls = FALSE
  <2>1. v.tls \in BOOLEAN /\ ~v.tls
    BY <1>1 DEF DevOk, DevType
  <2>2. r.tls \in BOOLEAN
    BY DEF Msgs
  <2>3. ~r.tls
    BY <1>3, Zenon
  <2> QED BY <2>1, <2>2, <2>3, Zenon
<1>8. PreinitOk(v, t)
  BY <1>3, <1>5, <1>6 DEF PreinitOk
<1>9. SessionOk(u, v, t)
  BY <1>1, <1>2, <1>3, <1>8 DEF SessionOk
<1>10. \A i \in DOMAIN t.down : t.down[i].tls = v.tls
  <2>1. \A i \in DOMAIN t.down : t.down[i] = r
    BY <1>6
  <2> QED BY <1>7, <2>1, Zenon
<1> QED BY <1>1, <1>6, <1>9, <1>10 DEF LinkOk

(* After the starttls the client reads what the device sends in TLS.        *)
LEMMA StarttlsTaken ==
    ASSUME NEW u \in Setups, NEW d \in Devices, NEW v \in DevType, DevOk(u, d, v), v.conn # NoSlot,
           NEW sl \in SlotType, SlotOk(u, sl), LinkOk(u, v, sl),
           sl.client.exists, sl.up # <<>>, sl.up[1].type = "starttls",
           NEW t, t.link = sl.link, t.up = Tail(sl.up), t.down = sl.down,
           t.client.tls = TRUE, t.client.init = sl.client.init
    PROVE  LinkOk(u, v, t)
<1>1. sl.link = "up" /\ SessionOk(u, v, sl) /\ v.state = "waiting_init_reply"
  BY WhoSent
<1>2. InitOk(v, sl) /\ v.disconnect \notin EchoReasons
  BY <1>1 DEF SessionOk
<1>3. sl.down = <<>> /\ Len(sl.up) = 2 /\ v.tls = TRUE /\ ~sl.client.init
  BY <1>2 DEF InitOk, DevType
<1>4. sl.up \in Seq(Msgs(UpTypes)) /\ UpOk(u, sl.up, sl.client)
  BY DEF SlotType, SlotOk
<1>5. Len(t.up) = 1 /\ t.up[1] = sl.up[2]
  BY <1>3, <1>4, TailOfStream
<1>6. sl.up[2].type = "init"
  <2>1. 1 \in DOMAIN sl.up
    BY <1>3, <1>4
  <2> QED BY <1>4, <2>1 DEF UpOk
<1>7. InitOk(v, t)
  BY <1>3, <1>5, <1>6 DEF InitOk
<1>8. SessionOk(u, v, t)
  BY <1>1, <1>2, <1>3, <1>7 DEF SessionOk
<1>9. \A i \in DOMAIN t.down : t.down[i].tls = v.tls
  BY <1>3
<1>10. t.link = "up" /\ t.link \in {"up", "cut", "server_closed"}
  BY <1>1
<1> QED BY <1>1, <1>8, <1>9, <1>10 DEF LinkOk

(* The init of a device is answered: with a server error, or with a reply   *)
(* that says whether the client was admitted.                               *)
LEMMA InitAnswered ==
    ASSUME NEW u \in Setups, NEW d \in Devices, NEW v \in DevType, DevOk(u, d, v), v.conn # NoSlot,
           NEW sl \in SlotType, SlotOk(u, sl), LinkOk(u, v, sl),
           sl.client.exists, sl.up # <<>>, sl.up[1].type = "init",
           NEW r \in Msgs(DownTypes), r.tls = sl.client.tls, r.age = 0,
           NEW t, t.link = sl.link, t.up = Tail(sl.up), t.down = Append(sl.down, r),
           t.client.tls = sl.client.tls,
           \/ r.type = "server_error" /\ ~t.client.init
           \/ r.type = "init_reply" /\ (t.client.init <=> r.opt = "no_error"),
           t.client.init => t.client.dpd = Interval /\ t.client.disconnect = "none"
    PROVE  LinkOk(u, v, t)
<1>1. sl.link = "up" /\ SessionOk(u, v, sl) /\ v.state = "waiting_init_reply"
  BY WhoSent
<1>2. InitOk(v, sl) /\ v.disconnect \notin EchoReasons
  BY <1>1 DEF SessionOk
<1>3. sl.down = <<>> /\ Len(sl.up) = 1 /\ sl.client.tls = v.tls
  BY <1>2 DEF InitOk
<1>4. sl.up \in Seq(Msgs(UpTypes))
  BY DEF SlotType
<1>5. t.up = <<>>
  BY <1>3, <1>4, TailOfStream
<1>6. Len(t.down) = 1 /\ t.down[1] = r /\ DOMAIN t.down = 1..1 /\ t.down # <<>>
  BY <1>3, OneMessage
<1>7. Interval \in Nat /\ Interval > 0
  BY Constants
<1>8. t.client.init => t.client.dpd >= Interval - r.age
  BY <1>7
<1>9. InitOk(v, t)
  BY <1>3, <1>5, <1>6, <1>8 DEF InitOk
<1>10. SessionOk(u, v, t)
  BY <1>1, <1>2, <1>7, <1>9 DEF SessionOk
<1>11. \A i \in DOMAIN t.down : t.down[i].tls = v.tls
  BY <1>3, <1>6
<1> QED BY <1>1, <1>10, <1>11 DEF LinkOk

(* A client without a valid certificate: no reply.                          *)
LEMMA InitRefused ==
    ASSUME NEW u \in Setups, NEW d \in Devices, NEW v \in DevType, DevOk(u, d, v), v.conn # NoSlot,
           NEW sl \in SlotType, SlotOk(u, sl), LinkOk(u, v, sl),
           sl.client.exists, sl.up # <<>>, sl.up[1].type = "init",
           NEW t, t.link = sl.link, t.up = Tail(sl.up), t.down = sl.down,
           ~t.client.init, t.client.disconnect # "none"
    PROVE  LinkOk(u, v, t)
<1>1. sl.link = "up" /\ SessionOk(u, v, sl) /\ v.state = "waiting_init_reply"
  BY WhoSent
<1>2. InitOk(v, sl) /\ v.disconnect \notin EchoReasons
  BY <1>1 DEF SessionOk
<1>3. sl.down = <<>> /\ Len(sl.up) = 1
  BY <1>2 DEF InitOk
<1>4. sl.up \in Seq(Msgs(UpTypes))
  BY DEF SlotType
<1>5. t.up = <<>>
  BY <1>3, <1>4, TailOfStream
<1>6. InitOk(v, t)
  BY <1>3, <1>5 DEF InitOk
<1>7. SessionOk(u, v, t)
  BY <1>1, <1>2, <1>6 DEF SessionOk
<1>8. \A i \in DOMAIN t.down : t.down[i].tls = v.tls
  BY <1>3
<1> QED BY <1>1, <1>7, <1>8 DEF LinkOk

(* An echo request is answered, or another message of a connected device:   *)
(* no echo is lost, and none is late.                                       *)
LEMMA EchoAnswered ==
    ASSUME NEW u \in Setups, NEW v \in DevType, NEW sl \in SlotType, EchoesOk(u, v, sl),
           UpOk(u, sl.up, sl.client), sl.up # <<>>, NEW r \in Msgs(DownTypes), r.age = 0,
           \/ sl.up[1].type = "set_option" /\ r.type = "set_option_reply"
           \/ /\ sl.up[1].type = "echo_request" /\ r.type = "echo_reply"
              /\ r.seq = sl.up[1].seq,
           NEW t, t.up = Tail(sl.up), t.down = Append(sl.down, r)
    PROVE  EchoesOk(u, v, t)
<1>1. sl.up \in Seq(Msgs(UpTypes)) /\ sl.down \in Seq(Msgs(DownTypes))
  BY DEF SlotType
<1>2. /\ Len(sl.up) \in Nat /\ Len(sl.up) > 0 /\ DOMAIN sl.up = 1..Len(sl.up)
      /\ DOMAIN t.up = 1..(Len(sl.up) - 1) /\ 1 \in DOMAIN sl.up
      /\ \A i \in DOMAIN t.up : i + 1 \in DOMAIN sl.up /\ t.up[i] = sl.up[i + 1]
  BY <1>1, TailOfStream
<1>3. /\ Len(sl.down) \in Nat /\ DOMAIN sl.down = 1..Len(sl.down)
      /\ DOMAIN t.down = 1..(Len(sl.down) + 1)
      /\ \A i \in DOMAIN sl.down : t.down[i] = sl.down[i]
      /\ t.down[Len(sl.down) + 1] = r
  BY <1>1, AppendToStream
<1>4. /\ u.maxDelay \in Nat /\ Heartbeat \in Nat /\ v.echo \in Int
      /\ \A i \in DOMAIN sl.up : sl.up[i].age \in Nat /\ sl.up[i].age <= u.maxDelay
      /\ \A i \in DOMAIN sl.down : sl.down[i].age \in Nat
  <2>1. /\ \A i \in DOMAIN sl.up : sl.up[i] \in Msgs(UpTypes)
        /\ \A i \in DOMAIN sl.down : sl.down[i] \in Msgs(DownTypes)
    BY <1>1
  <2>2. u.maxDelay \in Nat /\ Heartbeat \in Nat
    BY Constants
  <2> QED BY <2>1, <2>2 DEF UpOk, Msgs, DevType
<1>5. \A k \in DOMAIN sl.up : k = 1 \/ (k - 1 \in DOMAIN t.up /\ t.up[k - 1] = sl.up[k])
  BY <1>2
<1>6. \A k \in DOMAIN t.down : k \in DOMAIN sl.down \/ k = Len(sl.down) + 1
  BY <1>3
<1>7. CASE sl.up[1].type = "set_option" /\ r.type = "set_option_reply"
  <2>1. ASSUME NEW i \in DOMAIN t.up, t.up[i].type = "echo_request"
        PROVE  /\ v.received # v.expected /\ t.up[i].seq = v.expected
               /\ v.echo >= Heartbeat - t.up[i].age
               /\ \A k \in DOMAIN t.up : t.up[k].type = "echo_request" => k = i
               /\ \A k \in DOMAIN t.down : t.down[k].type # "echo_reply"
    BY <1>2, <1>3, <1>6, <1>7, <2>1, SMTT(40) DEF EchoesOk
  <2>2. ASSUME NEW i \in DOMAIN t.down, t.down[i].type = "echo_reply"
        PROVE  /\ v.received # v.expected /\ t.down[i].seq = v.expected
               /\ v.echo >= Heartbeat - u.maxDelay - t.down[i].age
               /\ \A k \in DOMAIN t.down : t.down[k].type = "echo_reply" => k = i
    BY <1>3, <1>6, <1>7, <2>2 DEF EchoesOk
  <2>3. ASSUME v.received # v.expected
        PROVE  \/ \E i \in DOMAIN t.up : t.up[i].type = "echo_request"
               \/ \E i \in DOMAIN t.down : t.down[i].type = "echo_reply"
    <3>1. CASE \E i \in DOMAIN sl.up : sl.up[i].type = "echo_request"
      BY <1>5, <1>7, <3>1
    <3>2. CASE \E i \in DOMAIN sl.down : sl.down[i].type = "echo_reply"
      BY <1>3, <3>2
    <3> QED BY <2>3, <3>1, <3>2 DEF EchoesOk
  <2> QED BY <2>1, <2>2, <2>3 DEF EchoesOk
<1>8. CASE sl.up[1].type = "echo_request" /\ r.type = "echo_reply" /\ r.seq = sl.up[1].seq
  <2>1. /\ v.received # v.expected /\ sl.up[1].seq = v.expected
        /\ v.echo >= Heartbeat - sl.up[1].age
        /\ \A k \in DOMAIN sl.up : sl.up[k].type = "echo_request" => k = 1
        /\ \A k \in DOMAIN sl.down : sl.down[k].type # "echo_reply"
    BY <1>2, <1>8 DEF EchoesOk
  <2>2. \A i \in DOMAIN t.up : t.up[i].type # "echo_request"
    BY <1>2, <2>1
  <2>3. \A i \in DOMAIN t.down : t.down[i].type = "echo_reply" => i = Len(sl.down) + 1
    BY <1>3, <1>6, <2>1
  <2>4. v.echo >= Heartbeat - u.maxDelay - r.age
    <3> DEFINE a == sl.up[1].age
               m == u.maxDelay
               e == v.echo
    <3>1. a \in Nat /\ a <= m /\ m \in Nat /\ Heartbeat \in Nat /\ e \in Int
      BY <1>2, <1>4, Zenon
    <3>2. e >= Heartbeat - a
      BY <2>1, Zenon
    <3> HIDE DEF a, m, e
    <3>3. e >= Heartbeat - m - 0
      BY <3>1, <3>2
    <3> QED BY <3>3, Zenon DEF m, e
  <2>5. Len(sl.down) + 1 \in DOMAIN t.down
    BY <1>3
  <2> QED BY <1>3, <1>8, <2>1, <2>2, <2>3, <2>4, <2>5 DEF EchoesOk
<1> QED BY <1>7, <1>8

(* A message of a connected device is answered.                             *)
LEMMA ConnectedAnswered ==
    ASSUME NEW u \in Setups, NEW d \in Devices, NEW v \in DevType, DevOk(u, d, v), v.conn # NoSlot,
           NEW sl \in SlotType, SlotOk(u, sl), LinkOk(u, v, sl),
           sl.client.exists, sl.up # <<>>,
           NEW r \in Msgs(DownTypes), r.tls = sl.client.tls, r.age = 0,
           \/ sl.up[1].type = "set_option" /\ r.type = "set_option_reply"
           \/ /\ sl.up[1].type = "echo_request" /\ r.type = "echo_reply"
              /\ r.seq = sl.up[1].seq,
           NEW t \in SlotType, t.link = sl.link, t.up = Tail(sl.up), t.down = Append(sl.down, r),
           t.client.tls = sl.client.tls, t.client.init,
           t.client.dpd = Interval, t.client.disconnect = "none"
    PROVE  LinkOk(u, v, t)
<1>1. sl.link = "up" /\ SessionOk(u, v, sl) /\ v.state = "connected"
  BY WhoSent
<1>2. ConnectedOk(u, v, sl) /\ v.disconnect \notin EchoReasons
  BY <1>1 DEF SessionOk
<1>3. EchoesOk(u, v, sl) /\ sl.client.tls = v.tls /\ v.echo \in 0..Heartbeat
  BY <1>2 DEF ConnectedOk
<1>4. sl.down \in Seq(Msgs(DownTypes)) /\ t.up \in Seq(Msgs(UpTypes)) /\ UpOk(u, sl.up, sl.client)
  BY DEF SlotType, SlotOk
<1>5. EchoesOk(u, v, t)
  BY <1>3, <1>4, EchoAnswered
<1>6. /\ Len(sl.down) \in Nat /\ DOMAIN sl.down = 1..Len(sl.down)
      /\ DOMAIN t.down = 1..(Len(sl.down) + 1)
      /\ \A i \in DOMAIN sl.down : t.down[i] = sl.down[i]
      /\ t.down[Len(sl.down) + 1] = r
  BY <1>4, AppendToStream
<1>7. \A k \in DOMAIN t.down : t.down[k] = r \/ (k \in DOMAIN sl.down /\ t.down[k] = sl.down[k])
  BY <1>6
<1>8. \A i \in DOMAIN t.down : t.down[i].type \in {"set_option_reply", "echo_reply"}
  BY <1>2, <1>7 DEF ConnectedOk
<1>9. Interval \in Nat /\ Interval > 0 /\ Heartbeat \in Nat
  BY Constants
<1>10. t.up # <<>> => t.up[1].age \in Nat
  <2>1. t.up # <<>> => t.up[1] \in Msgs(UpTypes)
    BY <1>4, TailOfStream
  <2> QED BY <2>1 DEF Msgs
<1>11. ConnectedOk(u, v, t)
  <2>1. t.client.init /\ t.client.tls = v.tls
    BY <1>3, Zenon
  <2>2. t.up = <<>> => t.client.dpd >= Interval - Heartbeat + v.echo
    BY <1>3, <1>9
  <2>3. t.up # <<>> => t.client.dpd >= Interval - Heartbeat - t.up[1].age
    BY <1>9, <1>10, SMTT(40)
  <2> QED BY <1>3, <1>5, <1>8, <2>1, <2>2, <2>3 DEF ConnectedOk
<1>12. SessionOk(u, v, t)
  <2>1. t.client.dpd > 0 /\ t.client.disconnect # "dpd"
    BY <1>9
  <2> QED BY <1>1, <1>2, <1>11, <2>1 DEF SessionOk
<1>13. \A i \in DOMAIN t.down : t.down[i].tls = v.tls
  <2>1. \A i \in DOMAIN sl.down : sl.down[i].tls = v.tls
    BY DEF LinkOk
  <2> QED BY <1>3, <1>7, <2>1, Zenon
<1> QED BY <1>1, <1>12, <1>13 DEF LinkOk

(* What is known of a client that is served and of the message it sent.     *)
LEMMA Reading ==
    ASSUME Inv, NEW s \in Slots, Serving(s), slot[s].up # <<>>,
           NEW m, m = Head(slot[s].up), NEW c, c = DpdReschedule(slot[s].client, m)
    PROVE  /\ setup \in Setups /\ slot[s] \in SlotType /\ SlotOk(setup, slot[s])
           /\ slot[s].client \in ClientType /\ slot[s].client.exists
           /\ m = slot[s].up[1] /\ m \in Msgs(UpTypes)
           /\ UpOk(setup, slot[s].up, slot[s].client)
           /\ c \in ClientType /\ ClientOk(setup, c) /\ c.exists /\ c.disconnect = "none"
           /\ c.dpd = c.interval /\ c.interval = slot[s].client.interval
           /\ c.preinit = slot[s].client.preinit /\ c.tls = slot[s].client.tls
           /\ c.verified = slot[s].client.verified /\ c.init = slot[s].client.init
           /\ c.cluster = slot[s].client.cluster
           /\ c.node = slot[s].client.node /\ c.config = slot[s].client.config
<1>1. setup \in Setups /\ slot[s] \in SlotType /\ SlotOk(setup, slot[s])
  BY DEF Inv, TypeInv
<1>2. slot[s].client \in ClientType /\ slot[s].up \in Seq(Msgs(UpTypes))
  BY <1>1 DEF SlotType
<1>3. m = slot[s].up[1] /\ m \in Msgs(UpTypes)
  BY <1>2, TailOfStream
<1>4. /\ ClientOk(setup, slot[s].client) /\ UpOk(setup, slot[s].up, slot[s].client)
      /\ slot[s].client.exists /\ slot[s].client.disconnect = "none"
  BY <1>1 DEF SlotOk, Serving
<1>5. /\ c \in ClientType /\ ClientOk(setup, c) /\ c.exists /\ c.disconnect = "none"
      /\ c.dpd = c.interval /\ c.interval = slot[s].client.interval
      /\ c.preinit = slot[s].client.preinit /\ c.tls = slot[s].client.tls
      /\ c.verified = slot[s].client.verified /\ c.init = slot[s].client.init
      /\ c.cluster = slot[s].client.cluster
      /\ c.node = slot[s].client.node /\ c.config = slot[s].client.config
  BY <1>1, <1>2, <1>4, RescheduledClient
<1> QED BY <1>1, <1>2, <1>3, <1>4, <1>5

(* The clusters go with a step of one client in which it stays in its       *)
(* cluster, or in none.                                                     *)
LEMMA ClientChanged ==
    ASSUME Inv, NEW s \in Slots, NEW t, slot' = [slot EXCEPT ![s] = t],
           SameClient(slot[s].client, t.client)
    PROVE  ClustersOk(clusters, slot')
<1>1. slot \in [Slots -> SlotType] /\ ClustersOk(clusters, slot)
  BY DEF Inv, TypeInv
<1>2. \A r \in Slots : slot'[r] = IF r = s THEN t ELSE slot[r]
  BY <1>1
<1>3. \A r \in Slots : SameClient(slot[r].client, slot'[r].client)
  BY <1>2 DEF SameClient
<1> QED BY <1>1, <1>3, ClustersKept

(* A message is read and answered.                                          *)
LEMMA AnswerStep ==
    ASSUME Inv, NEW s \in Slots, Serving(s), slot[s].up # <<>>,
           NEW c \in ClientType, c.exists, ClientOk(setup, c), UpOk(setup, Tail(slot[s].up), c),
           NEW r \in Msgs(DownTypes), r.age = 0,
           r.type = "preinit_reply" => r.opt = setup.server,
           r.type = "init_reply" => r.opt \in Errors,
           Answer(s, c, r), UNCHANGED <<setup, dev, config, reach, faults>>,
           \A d \in Devices : \A t \in SlotType :
              /\ dev[d].conn = s /\ t.link = slot[s].link /\ t.client = c
              /\ t.up = Tail(slot[s].up) /\ t.down = Append(slot[s].down, r)
              => LinkOk(setup, dev[d], t),
           \A t \in SlotType : slot' = [slot EXCEPT ![s] = t] /\ t.client = c =>
              ClustersOk(clusters', slot')
    PROVE  Inv'
<1> DEFINE t == AnsweredWith(slot[s], c, r)
<1>1. setup \in Setups /\ slot[s] \in SlotType /\ SlotOk(setup, slot[s]) /\ slot[s].client.exists
  BY DEF Inv, TypeInv, Serving
<1>2. /\ t \in SlotType /\ SlotOk(setup, t) /\ slot[s].link \in {"up", "device_closed"}
      /\ t.link = slot[s].link /\ t.client = c /\ t.up = Tail(slot[s].up)
      /\ slot[s].link = "up" => t.down = Append(slot[s].down, r)
  BY <1>1, AnsweredSlot
<1>3. slot' = [slot EXCEPT ![s] = t]
  BY Zenon DEF Answer, Taken, AnsweredWith, TakenWith
<1>4. ASSUME NEW d \in Devices, dev[d].conn = s PROVE LinkOk(setup, dev[d], t)
  <2>1. LinkOk(setup, dev[d], slot[s])
    BY <1>4, SessionAssumption DEF Inv, NoSlot
  <2>2. slot[s].link = "up"
    BY <1>2, <2>1 DEF LinkOk
  <2> QED BY <1>2, <1>4, <2>2
<1>5. t.link \in {"up", "server_closed"} => Uses(s)
  BY <1>2 DEF Inv, ConnsOk
<1>6. ClustersOk(clusters', slot')
  BY <1>2, <1>3
<1> HIDE DEF t
<1> QED BY <1>2, <1>3, <1>4, <1>5, <1>6, StepOfSlot

(* A message is read and not answered.                                      *)
LEMMA NoAnswerStep ==
    ASSUME Inv, NEW s \in Slots, Serving(s), slot[s].up # <<>>,
           NEW c \in ClientType, c.exists, ClientOk(setup, c), UpOk(setup, Tail(slot[s].up), c),
           NoAnswer(s, c), UNCHANGED <<setup, dev, config, clusters, reach, faults>>,
           SameClient(slot[s].client, c),
           \A d \in Devices : \A t \in SlotType :
              /\ dev[d].conn = s /\ t.link = slot[s].link /\ t.client = c
              /\ t.up = Tail(slot[s].up) /\ t.down = slot[s].down
              => LinkOk(setup, dev[d], t)
    PROVE  Inv'
<1> DEFINE t == TakenWith(slot[s], c)
<1>1. setup \in Setups /\ slot[s] \in SlotType /\ SlotOk(setup, slot[s]) /\ slot[s].client.exists
  BY DEF Inv, TypeInv, Serving
<1>2. /\ t \in SlotType /\ SlotOk(setup, t) /\ t.link = slot[s].link /\ t.client = c
      /\ t.up = Tail(slot[s].up) /\ t.down = slot[s].down
  BY <1>1, TakenSlot
<1>3. slot' = [slot EXCEPT ![s] = t]
  BY Zenon DEF NoAnswer, Taken, TakenWith
<1>4. ASSUME NEW d \in Devices, dev[d].conn = s PROVE LinkOk(setup, dev[d], t)
  BY <1>2, <1>4
<1>5. t.link \in {"up", "server_closed"} => Uses(s)
  BY <1>2 DEF Inv, ConnsOk
<1> HIDE DEF t
<1>6. ClustersOk(clusters', slot')
  BY <1>2, <1>3, ClientChanged
<1> QED BY <1>2, <1>3, <1>4, <1>5, <1>6, StepOfSlot

(* Nothing is left of a stream of one message.                              *)
LEMMA NothingLeft ==
    ASSUME NEW q \in Seq(Msgs(UpTypes)), Len(q) = 1
    PROVE  Tail(q) = <<>> /\ \A u, c : UpOk(u, Tail(q), c)
<1>1. q # <<>>
  OBVIOUS
<1>2. Tail(q) = <<>>
  BY <1>1, TailOfStream
<1>3. DOMAIN Tail(q) = {}
  BY <1>2
<1> QED BY <1>2, <1>3 DEF UpOk

(* qnetd_client_msg_received_preinit                                        *)
LEMMA ServerReadsPreinit ==
    ASSUME Inv, NEW s \in Slots, Serving(s), slot[s].up # <<>>,
           NEW m, m = Head(slot[s].up), NEW c, c = DpdReschedule(slot[s].client, m),
           Preinit(s, c, m), UNCHANGED <<setup, dev, config, reach, faults>>
    PROVE  Inv'
<1> DEFINE c2 == [c EXCEPT !.preinit = TRUE, !.cluster = m.opt]
           r  == Msg("preinit_reply", m.seq, c.tls, setup.server)
<1>1. /\ setup \in Setups /\ slot[s] \in SlotType /\ SlotOk(setup, slot[s])
      /\ slot[s].client.exists /\ m = slot[s].up[1] /\ m \in Msgs(UpTypes)
      /\ UpOk(setup, slot[s].up, slot[s].client)
      /\ c \in ClientType /\ ClientOk(setup, c) /\ c.exists /\ c.disconnect = "none"
      /\ c.tls = slot[s].client.tls /\ c.init = slot[s].client.init
  BY Reading
<1>2. m.type = "preinit" /\ Answer(s, c2, r) /\ clusters' = clusters
  BY DEF Preinit
<1>3. slot[s].up \in Seq(Msgs(UpTypes)) /\ 1 \in DOMAIN slot[s].up
  BY <1>1, SMTT(40) DEF SlotType
<1>4. Len(slot[s].up) = 1 /\ ~slot[s].client.tls /\ ~slot[s].client.init /\ m.opt \in Names
  BY <1>1, <1>2, <1>3 DEF UpOk
<1>5. c2 \in ClientType
  BY <1>1, <1>4 DEF ClientType
<1>6. c2.exists = c.exists /\ c2.preinit = TRUE /\ c2.disconnect = c.disconnect
  BY <1>1 DEF ClientType
<1>7. c2.init = c.init /\ c2.dpd = c.dpd
  BY <1>1 DEF ClientType
<1>8. c2.tls = c.tls
  BY <1>1 DEF ClientType
<1>9. r \in Msgs(DownTypes) /\ r.age = 0 /\ r.type = "preinit_reply" /\ r.opt = setup.server
  <2>1. m.seq \in Nat /\ c.tls \in BOOLEAN /\ setup.server \in Opts
    BY <1>1, Constants DEF Msgs, ClientType, Opts
  <2> QED BY <2>1 DEF Msg, Msgs, DownTypes
<1>10. r.tls = c.tls
  BY DEF Msg
<1> HIDE DEF c2, r
<1>11. ~c.init /\ ~c2.init /\ c2.exists
  BY <1>1, <1>4, <1>6, <1>7, Zenon
<1>12. ClientOk(setup, c2)
  BY <1>1, <1>6, <1>7, <1>11 DEF ClientOk
<1>13. UpOk(setup, Tail(slot[s].up), c2)
  BY <1>3, <1>4, NothingLeft
<1>14. SameClient(slot[s].client, c2)
  BY <1>1, <1>4, <1>7, <1>11, Zenon DEF SameClient
<1>15. ASSUME NEW d \in Devices, NEW t \in SlotType,
              dev[d].conn = s, t.link = slot[s].link, t.client = c2,
              t.up = Tail(slot[s].up), t.down = Append(slot[s].down, r)
       PROVE  LinkOk(setup, dev[d], t)
  <2>1. dev[d] \in DevType /\ dev[d].conn # NoSlot
    BY <1>15, SessionAssumption DEF Inv, TypeInv, NoSlot
  <2>2. DevOk(setup, d, dev[d]) /\ LinkOk(setup, dev[d], slot[s])
    BY <1>15, <2>1 DEF Inv
  <2>3. t.client.preinit /\ t.client.tls = slot[s].client.tls /\ t.client.init = slot[s].client.init
    BY <1>1, <1>6, <1>7, <1>8, <1>15, Zenon
  <2>4. r.tls = slot[s].client.tls
    BY <1>1, <1>10, Zenon
  <2> QED BY <1>1, <1>2, <1>9, <1>15, <2>1, <2>2, <2>3, <2>4, PreinitAnswered
<1>16. \A t \in SlotType : slot' = [slot EXCEPT ![s] = t] /\ t.client = c2 =>
          ClustersOk(clusters', slot')
  BY <1>2, <1>14, ClientChanged
<1> QED BY <1>2, <1>5, <1>9, <1>11, <1>12, <1>13, <1>15, <1>16, AnswerStep

(* The device of a connection.                                              *)
LEMMA PeerOf ==
    ASSUME Inv, NEW s \in Slots, NEW d \in Devices, dev[d].conn = s
    PROVE  /\ dev[d] \in DevType /\ dev[d].conn # NoSlot
           /\ DevOk(setup, d, dev[d]) /\ LinkOk(setup, dev[d], slot[s])
<1>1. dev[d] \in DevType /\ dev[d].conn # NoSlot
  BY SessionAssumption DEF Inv, TypeInv, NoSlot
<1> QED BY <1>1 DEF Inv

(* After the switch to TLS only the init is on its way.                     *)
LEMMA InitAlone ==
    ASSUME NEW u, NEW t, NEW c, NEW e, DOMAIN t = 1..1, Len(t) = 1, t[1] = e,
           e.age <= u.maxDelay, e.opt \in InitOpts, e.tls = TRUE, e.type = "init",
           c.tls = TRUE, c.preinit, ~c.init
    PROVE  UpOk(u, t, c)
<1>1. \A i \in DOMAIN t : i = 1 /\ t[i] = e
  OBVIOUS
<1> SUFFICES ASSUME NEW i \in DOMAIN t
             PROVE  /\ e.age <= u.maxDelay
                    /\ e.tls = (c.tls \/ (i = 2 /\ t[1].type = "starttls"))
                    /\ i = Len(t) /\ i = 1
                    /\ e.type \notin {"preinit", "starttls", "set_option", "echo_request"}
                    /\ c.preinit /\ ~c.init /\ e.opt \in InitOpts
  BY <1>1, Zenon DEF UpOk
<1> QED BY <1>1

(* qnetd_client_msg_received_starttls                                       *)
LEMMA ServerReadsStarttls ==
    ASSUME Inv, NEW s \in Slots, Serving(s), slot[s].up # <<>>,
           NEW m, m = Head(slot[s].up), NEW c, c = DpdReschedule(slot[s].client, m),
           Starttls(s, c, m), UNCHANGED <<setup, dev, config, reach, faults>>
    PROVE  Inv'
<1> DEFINE c2 == [c EXCEPT !.tls = TRUE, !.verified = FALSE]
           q  == slot[s].up
<1>1. /\ setup \in Setups /\ slot[s] \in SlotType /\ SlotOk(setup, slot[s])
      /\ slot[s].client.exists /\ m = slot[s].up[1] /\ m \in Msgs(UpTypes)
      /\ UpOk(setup, slot[s].up, slot[s].client)
      /\ c \in ClientType /\ ClientOk(setup, c) /\ c.exists /\ c.disconnect = "none"
      /\ c.preinit = slot[s].client.preinit /\ c.init = slot[s].client.init
  BY Reading
<1>2. q \in Seq(Msgs(UpTypes)) /\ 1 \in DOMAIN q
  BY <1>1 DEF SlotType
<1>3. /\ q[1].type = "starttls" /\ Len(q) = 2 /\ q[2].type = "init" /\ slot[s].client.preinit
      /\ ~slot[s].client.init
  BY <1>1, <1>2 DEF UpOk, Starttls
<1>4. NoAnswer(s, c2) /\ clusters' = clusters
  <2>1. c.preinit
    BY <1>1, <1>3, Zenon
  <2> QED BY <2>1 DEF Starttls
<1>5. c2 \in ClientType
  BY <1>1 DEF ClientType
<1>6. c2.exists = c.exists /\ c2.preinit = c.preinit /\ c2.disconnect = c.disconnect
  BY <1>1 DEF ClientType
<1>7. c2.init = c.init /\ c2.dpd = c.dpd /\ c2.tls = TRUE
  BY <1>1 DEF ClientType
<1> HIDE DEF c2
<1>8. ~c.init /\ ~c2.init /\ c2.exists /\ c2.preinit /\ c2.tls
  BY <1>1, <1>3, <1>6, <1>7, Zenon
<1>9. ClientOk(setup, c2)
  BY <1>1, <1>6, <1>7, <1>8 DEF ClientOk
<1>10. UpOk(setup, Tail(q), c2)
  <2>1. /\ DOMAIN Tail(q) = 1..1 /\ Len(Tail(q)) = 1 /\ Tail(q)[1] = q[2] /\ 2 \in DOMAIN q
    BY <1>2, <1>3, TailOfStream
  <2>2. /\ q[2].age <= setup.maxDelay /\ q[2].opt \in InitOpts
        /\ q[2].tls = (slot[s].client.tls \/ (2 = 2 /\ q[1].type = "starttls"))
    BY <1>1, <1>3, <2>1 DEF UpOk
  <2>3. q[2].tls = TRUE
    BY <1>3, <2>2
  <2> DEFINE t == Tail(q)
             e == q[2]
  <2>4. DOMAIN t = 1..1 /\ Len(t) = 1 /\ t[1] = e
    BY <2>1
  <2>5. e.age <= setup.maxDelay /\ e.opt \in InitOpts /\ e.tls = TRUE /\ e.type = "init"
    BY <1>3, <2>2, <2>3
  <2> HIDE DEF t, e
  <2>6. UpOk(setup, t, c2)
    BY <1>7, <1>8, <2>4, <2>5, InitAlone
  <2> QED BY <2>6 DEF t
<1>11. SameClient(slot[s].client, c2)
  BY <1>1, <1>3, <1>7, <1>8, Zenon DEF SameClient
<1>12. ASSUME NEW d \in Devices, NEW t \in SlotType,
              dev[d].conn = s, t.link = slot[s].link, t.client = c2,
              t.up = Tail(q), t.down = slot[s].down
       PROVE  LinkOk(setup, dev[d], t)
  <2>1. /\ dev[d] \in DevType /\ dev[d].conn # NoSlot
        /\ DevOk(setup, d, dev[d]) /\ LinkOk(setup, dev[d], slot[s])
    BY <1>12, PeerOf
  <2>2. t.client.tls = TRUE /\ t.client.init = slot[s].client.init
    BY <1>1, <1>7, <1>12, Zenon
  <2> QED BY <1>1, <1>3, <1>12, <2>1, <2>2, StarttlsTaken
<1> QED BY <1>4, <1>5, <1>8, <1>9, <1>10, <1>11, <1>12, NoAnswerStep

-----------------------------------------------------------------------------
(* The lists of clients                                                    *)

(* InsertAt and RemoveAt, position by position.                             *)
LEMMA InsertAtPositions ==
    ASSUME NEW S, NEW q \in Seq(S), NEW e \in S, NEW at \in 1..(Len(q) + 1),
           NEW r, r = InsertAt(q, at, e)
    PROVE  /\ r \in Seq(S) /\ Len(q) \in Nat /\ Len(r) = Len(q) + 1
           /\ DOMAIN q = 1..Len(q) /\ DOMAIN r = 1..(Len(q) + 1) /\ r # <<>>
           /\ \A i \in 1..(Len(q) + 1) :
                 r[i] = IF i < at THEN q[i] ELSE IF i = at THEN e ELSE q[i - 1]
<1> DEFINE a == SubSeq(q, 1, at - 1)
           b == SubSeq(q, at, Len(q))
<1>1. Len(q) \in Nat /\ DOMAIN q = 1..Len(q) /\ at \in Nat /\ \A i \in 1..Len(q) : q[i] \in S
  OBVIOUS
<1>2. /\ a \in Seq(S) /\ Len(a) = at - 1 /\ \A i \in 1..(at - 1) : a[i] = q[i]
  BY <1>1
<1>3. /\ b \in Seq(S) /\ Len(b) = Len(q) - at + 1
      /\ \A i \in 1..(Len(q) - at + 1) : b[i] = q[at + i - 1]
  BY <1>1
<1>4. <<e>> \in Seq(S) /\ Len(<<e>>) = 1 /\ <<e>>[1] = e
  OBVIOUS
<1>5. r = (a \o <<e>>) \o b
  BY DEF InsertAt
<1> HIDE DEF a, b
<1>6. /\ a \o <<e>> \in Seq(S) /\ Len(a \o <<e>>) = at
      /\ \A i \in 1..at : (a \o <<e>>)[i] = IF i < at THEN q[i] ELSE e
  BY <1>1, <1>2, <1>4
<1>7. /\ r \in Seq(S) /\ Len(r) = Len(q) + 1
      /\ \A i \in 1..(Len(q) + 1) : r[i] = IF i <= at THEN (a \o <<e>>)[i] ELSE b[i - at]
  <2> DEFINE x == a \o <<e>>
  <2>1. x \in Seq(S) /\ Len(x) = at /\ r = x \o b
    BY <1>5, <1>6
  <2> HIDE DEF x
  <2>2. /\ r \in Seq(S) /\ Len(r) = Len(x) + Len(b)
        /\ \A i \in 1..(Len(x) + Len(b)) : r[i] = IF i <= Len(x) THEN x[i] ELSE b[i - Len(x)]
    BY <1>3, <2>1, ConcatProperties
  <2>3. Len(x) + Len(b) = Len(q) + 1
    BY <1>1, <1>3, <2>1
  <2>4. \A i \in 1..(Len(q) + 1) : r[i] = IF i <= at THEN x[i] ELSE b[i - at]
    BY <2>1, <2>2, <2>3
  <2> QED BY <2>2, <2>3, <2>4 DEF x
<1>8. \A i \in 1..(Len(q) + 1) : r[i] = IF i < at THEN q[i] ELSE IF i = at THEN e ELSE q[i - 1]
  <2> TAKE i \in 1..(Len(q) + 1)
  <2>1. CASE i <= at
    BY <1>1, <1>6, <1>7, <2>1, SMTT(40)
  <2>2. CASE i > at
    <3>1. i - at \in 1..(Len(q) - at + 1) /\ at + (i - at) - 1 = i - 1
      BY <1>1, <2>2
    <3> QED BY <1>1, <1>3, <1>7, <2>2, <3>1, SMTT(40)
  <2> QED BY <1>1, <2>1, <2>2
<1> QED BY <1>1, <1>7, <1>8

(* r is the list q without its element number at.                          *)
IsRemoval(S, q, at, r) ==
    /\ r \in Seq(S) /\ Len(q) \in Nat /\ Len(r) = Len(q) - 1
    /\ DOMAIN q = 1..Len(q) /\ DOMAIN r = 1..(Len(q) - 1)
    /\ \A i \in 1..(Len(q) - 1) : r[i] = IF i < at THEN q[i] ELSE q[i + 1]

(* Where the elements of a list are when one of them is removed.            *)
LEMMA RemoveAtPositions ==
    ASSUME NEW S, NEW q \in Seq(S), NEW at \in 1..Len(q)
    PROVE  IsRemoval(S, q, at, RemoveAt(q, at))
<1> DEFINE r == RemoveAt(q, at)
<1> DEFINE a == SubSeq(q, 1, at - 1)
           b == SubSeq(q, at + 1, Len(q))
<1>1. Len(q) \in Nat /\ DOMAIN q = 1..Len(q) /\ at \in Nat /\ \A i \in 1..Len(q) : q[i] \in S
  OBVIOUS
<1>2. /\ a \in Seq(S) /\ Len(a) = at - 1 /\ \A i \in 1..(at - 1) : a[i] = q[i]
  BY <1>1
<1>3. /\ b \in Seq(S) /\ Len(b) = Len(q) - at
      /\ \A i \in 1..(Len(q) - at) : b[i] = q[at + i]
  <2>1. \A i \in (at + 1)..Len(q) : q[i] \in S
    BY <1>1
  <2>2. /\ b \in Seq(S) /\ Len(b) = IF at + 1 <= Len(q) THEN Len(q) - (at + 1) + 1 ELSE 0
        /\ \A i \in 1..(Len(q) - (at + 1) + 1) : b[i] = q[(at + 1) + i - 1]
    BY <1>1, <2>1, SubSeqProperties
  <2>3. /\ at + 1 <= Len(q) => Len(q) - (at + 1) + 1 = Len(q) - at
        /\ ~(at + 1 <= Len(q)) => Len(q) - at = 0
    OBVIOUS
  <2>4. \A i \in 1..(Len(q) - at) : /\ i \in 1..(Len(q) - (at + 1) + 1)
                                     /\ (at + 1) + i - 1 = at + i
    OBVIOUS
  <2> HIDE DEF b
  <2>5. \A i \in 1..(Len(q) - at) : b[i] = q[at + i]
    BY <2>2, <2>4, Zenon
  <2>6. Len(b) = Len(q) - at
    <3>1. CASE at + 1 <= Len(q)
      BY <2>2, <2>3, <3>1, Zenon
    <3>2. CASE ~(at + 1 <= Len(q))
      BY <2>2, <2>3, <3>2, Zenon
    <3> QED BY <3>1, <3>2
  <2> QED BY <2>2, <2>5, <2>6, Zenon
<1>4. r = a \o b
  BY DEF RemoveAt
<1> HIDE DEF a, b, r
<1>5. /\ r \in Seq(S) /\ Len(r) = Len(q) - 1
      /\ \A i \in 1..(Len(q) - 1) : r[i] = IF i <= at - 1 THEN a[i] ELSE b[i - (at - 1)]
  <2>1. /\ r \in Seq(S) /\ Len(r) = Len(a) + Len(b)
        /\ \A i \in 1..(Len(a) + Len(b)) : r[i] = IF i <= Len(a) THEN a[i] ELSE b[i - Len(a)]
    <3>1. a \in Seq(S) /\ b \in Seq(S)
      BY <1>2, <1>3
    <3> QED BY <1>4, <3>1, ConcatProperties
  <2>2. Len(a) + Len(b) = Len(q) - 1
    BY <1>1, <1>2, <1>3
  <2> QED BY <1>2, <2>1, <2>2
<1>6. \A i \in 1..(Len(q) - 1) : r[i] = IF i < at THEN q[i] ELSE q[i + 1]
  <2> TAKE i \in 1..(Len(q) - 1)
  <2>1. CASE i < at
    BY <1>1, <1>2, <1>5, <2>1
  <2>2. CASE i >= at
    <3>1. i - (at - 1) \in 1..(Len(q) - at) /\ at + (i - (at - 1)) = i + 1
      BY <1>1, <2>2
    <3> QED BY <1>1, <1>3, <1>5, <2>2, <3>1
  <2> QED BY <1>1, <2>1, <2>2
<1>7. DOMAIN r = 1..Len(r)
  BY <1>5
<1>8. IsRemoval(S, q, at, r)
  BY <1>1, <1>5, <1>6, <1>7, Zenon DEF IsRemoval
<1> QED BY <1>8, Zenon DEF r

(* A set of numbers that is not empty has a least one, and Min is it.       *)
LEMMA LeastNumber ==
    ASSUME NEW T, T \subseteq Nat, T # {}
    PROVE  Min(T) \in T /\ \A z \in T : Min(T) <= z
<1>1. PICK y \in T : \A z \in T : ~(<<z, y>> \in OpToRel(<, Nat))
  BY WFMin, NatLessThanWellFounded, Zenon
<1>2. \A z \in T : <<z, y>> \in Nat \X Nat /\ ~(<<z, y>> \in OpToRel(<, Nat))
  BY <1>1, Zenon
<1>3. \A z \in T : <<z, y>>[1] = z /\ <<z, y>>[2] = y
  OBVIOUS
<1>4. ASSUME NEW z \in T, z < y PROVE <<z, y>> \in OpToRel(<, Nat)
  BY <1>2, <1>3, <1>4, Zenon DEF OpToRel
<1>5. \A z \in T : ~(z < y)
  BY <1>2, <1>4, Zenon
<1>6. y \in T /\ \A z \in T : y <= z
  BY <1>5
<1> QED BY <1>6, Zenon DEF Min



(* The place of a new number among numbers in ascending order.              *)
AscendingWithout(n, f, x) ==
    /\ n \in Nat /\ f \in [1..n -> Nat] /\ x \in Nat
    /\ \A i, j \in 1..n : j < i => f[j] < f[i]
    /\ \A i \in 1..n : f[i] # x

(* Where a number belongs among others in ascending order.                  *)
LEMMA PlaceOfNumber ==
    ASSUME NEW n, NEW f, NEW x, AscendingWithout(n, f, x)
    PROVE  LET greater == {i \in 1..n : f[i] > x}
               at == IF greater = {} THEN n + 1 ELSE Min(greater)
           IN  /\ at \in 1..(n + 1)
               /\ \A i \in 1..n : i < at => f[i] < x
               /\ \A i \in 1..n : i >= at => f[i] > x
<1> DEFINE greater == {i \in 1..n : f[i] > x}
           at == IF greater = {} THEN n + 1 ELSE Min(greater)
<1>0. /\ n \in Nat /\ f \in [1..n -> Nat] /\ x \in Nat
      /\ \A i, j \in 1..n : j < i => f[j] < f[i]
      /\ \A i \in 1..n : f[i] # x
  BY DEF AscendingWithout
<1> SUFFICES /\ at \in 1..(n + 1)
             /\ \A i \in 1..n : i < at => f[i] < x
             /\ \A i \in 1..n : i >= at => f[i] > x
  OBVIOUS
<1>1. CASE greater = {}
  BY <1>0, <1>1
<1>2. CASE greater # {}
  <2>1. greater \subseteq Nat
    BY <1>0
  <2>2. at \in greater /\ \A z \in greater : at <= z
    BY <1>2, <2>1, LeastNumber
  <2>3. at \in 1..n /\ f[at] > x
    BY <2>2, Zenon
  <2>4. ASSUME NEW i \in 1..n, f[i] > x PROVE at <= i
    BY <2>2, <2>4, Zenon
  <2> HIDE DEF at, greater
  <2>5. ASSUME NEW i \in 1..n, i < at PROVE f[i] < x
    <3>1. ~(f[i] > x)
      BY <1>0, <2>3, <2>4, <2>5
    <3>2. f[i] \in Nat /\ f[i] # x
      BY <1>0
    <3> QED BY <1>0, <3>1, <3>2
  <2>6. ASSUME NEW i \in 1..n, i >= at PROVE f[i] > x
    <3>1. i = at \/ at < i
      BY <1>0, <2>3, <2>6
    <3>2. CASE at < i
      <4>1. f[at] < f[i] /\ f[at] \in Nat /\ f[i] \in Nat
        BY <1>0, <2>3, <3>2
      <4> QED BY <1>0, <2>3, <4>1
    <3> QED BY <2>3, <3>1, <3>2
  <2>7. at \in 1..(n + 1)
    BY <1>0, <2>3
  <2> QED BY <2>5, <2>6, <2>7
<1> QED BY <1>1, <1>2, Zenon

(* An element that is put where it belongs keeps an order P.                *)
LEMMA InsertKeepsOrder ==
    ASSUME NEW n \in Nat, NEW q, NEW e, NEW at \in 1..(n + 1), NEW r, NEW P,
           \A i \in 1..(n + 1) :
              r[i] = IF i < at THEN q[i] ELSE IF i = at THEN e ELSE q[i - 1],
           \A i, j \in 1..n : j < i => <<q[j], q[i]>> \in P,
           \A i \in 1..n : i < at => <<q[i], e>> \in P,
           \A i \in 1..n : i >= at => <<e, q[i]>> \in P
    PROVE  \A i, j \in 1..(n + 1) : j < i => <<r[j], r[i]>> \in P
<1> SUFFICES ASSUME NEW i \in 1..(n + 1), NEW j \in 1..(n + 1), j < i PROVE <<r[j], r[i]>> \in P
  OBVIOUS
<1>1. CASE i < at
  <2>1. i \in 1..n /\ j \in 1..n /\ r[i] = q[i] /\ r[j] = q[j]
    BY <1>1
  <2> QED BY <2>1
<1>2. CASE i = at
  <2>1. j \in 1..n /\ j < at /\ r[i] = e /\ r[j] = q[j]
    BY <1>2
  <2> QED BY <2>1
<1>3. CASE i > at /\ j < at
  <2>1. i - 1 \in 1..n /\ j \in 1..n /\ j < i - 1 /\ r[i] = q[i - 1] /\ r[j] = q[j]
    BY <1>3
  <2> QED BY <2>1
<1>4. CASE i > at /\ j = at
  <2>1. i - 1 \in 1..n /\ i - 1 >= at /\ r[i] = q[i - 1] /\ r[j] = e
    BY <1>4
  <2> QED BY <2>1
<1>5. CASE i > at /\ j > at
  <2>1. i - 1 \in 1..n /\ j - 1 \in 1..n /\ j - 1 < i - 1 /\ r[i] = q[i - 1] /\ r[j] = q[j - 1]
    BY <1>5
  <2> QED BY <2>1
<1> QED BY <1>1, <1>2, <1>3, <1>4, <1>5

(* What is removed from a list leaves the others in order.                  *)
LEMMA RemoveKeepsOrder ==
    ASSUME NEW n \in Nat, NEW q, NEW at \in 1..n, NEW r, NEW P,
           \A i \in 1..(n - 1) : r[i] = IF i < at THEN q[i] ELSE q[i + 1],
           \A i, j \in 1..n : j < i => <<q[j], q[i]>> \in P
    PROVE  \A i, j \in 1..(n - 1) : j < i => <<r[j], r[i]>> \in P
<1> SUFFICES ASSUME NEW i \in 1..(n - 1), NEW j \in 1..(n - 1), j < i
             PROVE  <<r[j], r[i]>> \in P
  OBVIOUS
<1>1. i \in 1..n /\ j \in 1..n /\ i + 1 \in 1..n /\ j + 1 \in 1..n /\ j < i + 1 /\ j + 1 < i + 1
  OBVIOUS
<1>2. CASE i < at
  <2>1. r[i] = q[i] /\ r[j] = q[j]
    BY <1>2
  <2> QED BY <1>1, <2>1
<1>3. CASE i >= at /\ j < at
  <2>1. r[i] = q[i + 1] /\ r[j] = q[j]
    BY <1>3
  <2> QED BY <1>1, <2>1
<1>4. CASE i >= at /\ j >= at
  <2>1. r[i] = q[i + 1] /\ r[j] = q[j + 1]
    BY <1>4
  <2> QED BY <1>1, <2>1
<1> QED BY <1>2, <1>3, <1>4

(* Two clients in the order of their list, with one configuration.          *)
Before(sl) ==
    {p \in Slots \X Slots : /\ sl[p[1]].client.node < sl[p[2]].client.node
                            /\ Configs[sl[p[1]].client.config] = Configs[sl[p[2]].client.config]}

Admitted(c, n) == c.exists /\ c.init /\ c.cluster = n

(* ListOk in these words.                                                   *)
LEMMA ListInOrder ==
    ASSUME NEW n, NEW sl, NEW list \in Seq(Slots)
    PROVE  ListOk(n, list, sl) <=>
              /\ list # <<>> /\ \A i \in DOMAIN list : Admitted(sl[list[i]].client, n)
              /\ \A i, j \in DOMAIN list : j < i => <<list[j], list[i]>> \in Before(sl)
<1>1. \A i \in DOMAIN list : list[i] \in Slots
  OBVIOUS
<1>2. \A i, j \in DOMAIN list : <<list[j], list[i]>> \in Before(sl) <=>
          /\ sl[list[j]].client.node < sl[list[i]].client.node
          /\ Configs[sl[list[j]].client.config] = Configs[sl[list[i]].client.config]
  BY <1>1 DEF Before
<1> QED BY <1>2, Zenon DEF ListOk, Admitted

(* A list r with e at a place of the list q.                                *)
Inserted(r, q, len, at, e) ==
    /\ r \in Seq(Slots) /\ DOMAIN r = 1..(len + 1) /\ r # <<>>
    /\ \A i \in 1..(len + 1) : r[i] = IF i < at THEN q[i] ELSE IF i = at THEN e ELSE q[i - 1]

(* A client s at a place of a list where it belongs.                        *)
GoesTo(n, sm, len, list, s, at) ==
    /\ len \in Nat /\ at \in 1..(len + 1)
    /\ Admitted(sm[s].client, n) /\ \A i \in 1..len : Admitted(sm[list[i]].client, n)
    /\ \A i, j \in 1..len : j < i => <<list[j], list[i]>> \in Before(sm)
    /\ \A i \in 1..len : i < at => <<list[i], s>> \in Before(sm)
    /\ \A i \in 1..len : i >= at => <<s, list[i]>> \in Before(sm)

(* A list of clients with one more at its place is a list of the cluster.   *)
LEMMA ListWithClient ==
    ASSUME NEW n, NEW sm, NEW len, NEW list, NEW s, NEW at, GoesTo(n, sm, len, list, s, at),
           NEW r, Inserted(r, list, len, at, s)
    PROVE  /\ ListOk(n, r, sm) /\ \E i \in DOMAIN r : r[i] = s
           /\ \A i \in 1..len : \E k \in DOMAIN r : r[k] = list[i]
<1> USE DEF GoesTo, Inserted
<1>1. \A i, j \in 1..(len + 1) : j < i => <<r[j], r[i]>> \in Before(sm)
  BY InsertKeepsOrder
<1>2. \A i \in 1..(len + 1) : r[i] = s \/ \E k \in 1..len : r[i] = list[k]
  <2> TAKE i \in 1..(len + 1)
  <2>1. CASE i < at
    <3>1. i \in 1..len /\ r[i] = list[i]
      BY <2>1
    <3> QED BY <3>1
  <2>2. CASE i = at
    BY <2>2
  <2>3. CASE i > at
    <3>1. i - 1 \in 1..len /\ r[i] = list[i - 1]
      BY <2>3
    <3> QED BY <3>1
  <2> QED BY <2>1, <2>2, <2>3
<1>3. \A i \in DOMAIN r : Admitted(sm[r[i]].client, n)
  BY <1>2, Zenon
<1>4. ListOk(n, r, sm)
  <2>1. \A i, j \in DOMAIN r : j < i => <<r[j], r[i]>> \in Before(sm)
    BY <1>1, Zenon
  <2> QED BY <1>3, <2>1, ListInOrder, Zenon
<1>5. at \in DOMAIN r /\ r[at] = s
  OBVIOUS
<1>6. ASSUME NEW i \in 1..len PROVE \E k \in DOMAIN r : r[k] = list[i]
  <2>1. CASE i < at
    <3>1. i \in DOMAIN r /\ r[i] = list[i]
      BY <2>1
    <3> QED BY <3>1
  <2>2. CASE i >= at
    <3>1. i + 1 \in 1..(len + 1) /\ ~(i + 1 < at) /\ i + 1 # at /\ (i + 1) - 1 = i
      BY <2>2
    <3>2. r[i + 1] = list[i]
      BY <3>1
    <3> QED BY <3>1, <3>2
  <2> QED BY <2>1, <2>2
<1> QED BY <1>4, <1>5, <1>6, Zenon

(* A client that goes with the others of its cluster, and connections with  *)
(* it (sm) and before (sl).                                                 *)
GoesWith(sl, n, list, s, c, sm) ==
    /\ sl \in [Slots -> SlotType] /\ list \in Seq(Slots)
    /\ list # <<>> => ListOk(n, list, sl)
    /\ s \in Slots /\ c \in ClientType /\ Admitted(c, n)
    /\ \A i \in DOMAIN list : /\ list[i] # s /\ sl[list[i]].client.node # c.node
                              /\ Configs[sl[list[i]].client.config] = Configs[c.config]
    /\ sm[s].client = c /\ \A o \in Slots : o # s => sm[o] = sl[o]

(* The place of a new client among those of its cluster.                    *)
LEMMA ClientPlaced ==
    ASSUME NEW sl, NEW n, NEW list, NEW s, NEW c, NEW sm, GoesWith(sl, n, list, s, c, sm),
           NEW len, len = Len(list), NEW f, f = [i \in 1..len |-> sl[list[i]].client.node]
    PROVE  /\ AscendingWithout(len, f, c.node) /\ DOMAIN list = 1..len
           /\ \A at \in 1..(len + 1) :
                 /\ \A i \in 1..len : i < at => f[i] < c.node
                 /\ \A i \in 1..len : i >= at => f[i] > c.node
                 => GoesTo(n, sm, len, list, s, at)
<1> USE DEF GoesWith
<1>1. len \in Nat /\ DOMAIN list = 1..len /\ \A i \in 1..len : list[i] \in Slots
  OBVIOUS
<1>2. c.node \in Nat
  BY DEF ClientType
<1>3. \A i \in 1..len : /\ f[i] = sl[list[i]].client.node /\ f[i] \in Nat /\ f[i] # c.node
                        /\ sm[list[i]].client = sl[list[i]].client
  <2> TAKE i \in 1..len
  <2>1. list[i] \in Slots /\ list[i] # s /\ sl[list[i]].client.node # c.node
    BY <1>1
  <2>2. sl[list[i]] \in SlotType /\ sm[list[i]] = sl[list[i]]
    BY <2>1
  <2>3. sl[list[i]].client \in ClientType
    BY <2>2 DEF SlotType
  <2>4. sl[list[i]].client.node \in Nat
    BY <2>3 DEF ClientType
  <2>5. f[i] = sl[list[i]].client.node
    OBVIOUS
  <2> QED BY <2>1, <2>2, <2>4, <2>5, Zenon
<1>4. /\ \A i \in 1..len : Admitted(sl[list[i]].client, n)
      /\ \A i, j \in 1..len : j < i => <<list[j], list[i]>> \in Before(sl)
  <2>1. CASE list = <<>>
    <3>1. 1..len = {}
      BY <2>1
    <3> QED BY <3>1
  <2>2. CASE list # <<>>
    BY <1>1, <2>2, ListInOrder
  <2> QED BY <2>1, <2>2
<1>5. f \in [1..len -> Nat]
  BY <1>3
<1>6. \A i, j \in 1..len : j < i => f[j] < f[i]
  BY <1>3, <1>4 DEF Before
<1>7. Admitted(sm[s].client, n) /\ \A i \in 1..len : Admitted(sm[list[i]].client, n)
  BY <1>3, <1>4, Zenon
<1>8. \A i, j \in 1..len : j < i => <<list[j], list[i]>> \in Before(sm)
  BY <1>1, <1>3, <1>4 DEF Before
<1>9. \A i \in 1..len : /\ f[i] < c.node => <<list[i], s>> \in Before(sm)
                        /\ f[i] > c.node => <<s, list[i]>> \in Before(sm)
  <2> TAKE i \in 1..len
  <2>1. /\ sm[list[i]].client.node = f[i] /\ sm[s].client.node = c.node
        /\ Configs[sm[list[i]].client.config] = Configs[sm[s].client.config]
    BY <1>1, <1>3
  <2>2. f[i] > c.node => c.node < f[i]
    BY <1>2, <1>3
  <2>3. list[i] \in Slots
    BY <1>1
  <2> QED BY <2>1, <2>2, <2>3 DEF Before
<1>10. AscendingWithout(len, f, c.node)
  BY <1>1, <1>2, <1>3, <1>5, <1>6, Zenon DEF AscendingWithout
<1> QED BY <1>1, <1>7, <1>8, <1>9, <1>10, Zenon DEF GoesTo

PlaceAmong(sl, list, x) ==
    LET greater == {i \in DOMAIN list : sl[list[i]].client.node > x}
    IN  IF greater = {} THEN Len(list) + 1 ELSE Min(greater)

(* qnetd_cluster_list_add_client: such a client is put at the place of its  *)
(* node id.                                                                 *)
LEMMA ClientAdded ==
    ASSUME NEW sl, NEW n, NEW list, NEW s, NEW c, NEW sm, GoesWith(sl, n, list, s, c, sm),
           NEW r, r = InsertAt(list, PlaceAmong(sl, list, c.node), s)
    PROVE  /\ ListOk(n, r, sm) /\ \E i \in DOMAIN r : r[i] = s
           /\ \A i \in DOMAIN list : \E k \in DOMAIN r : r[k] = list[i]
<1> DEFINE len == Len(list)
           f == [i \in 1..len |-> sl[list[i]].client.node]
           greater == {i \in DOMAIN list : sl[list[i]].client.node > c.node}
           at == IF greater = {} THEN len + 1 ELSE Min(greater)
<1>1. /\ AscendingWithout(len, f, c.node) /\ DOMAIN list = 1..len
      /\ \A p \in 1..(len + 1) :
            /\ \A i \in 1..len : i < p => f[i] < c.node
            /\ \A i \in 1..len : i >= p => f[i] > c.node
            => GoesTo(n, sm, len, list, s, p)
  BY ClientPlaced
<1>2. greater = {i \in 1..len : f[i] > c.node}
  BY <1>1
<1> HIDE DEF f, greater
<1>3. /\ at \in 1..(len + 1)
      /\ \A i \in 1..len : i < at => f[i] < c.node
      /\ \A i \in 1..len : i >= at => f[i] > c.node
  <2>1. at = IF {i \in 1..len : f[i] > c.node} = {} THEN len + 1
             ELSE Min({i \in 1..len : f[i] > c.node})
    BY <1>2, Zenon
  <2> HIDE DEF len, at
  <2>2. AscendingWithout(len, f, c.node)
    BY <1>1
  <2> DEFINE g == {i \in 1..len : f[i] > c.node}
             p == IF g = {} THEN len + 1 ELSE Min(g)
  <2>3. /\ p \in 1..(len + 1)
        /\ \A i \in 1..len : i < p => f[i] < c.node
        /\ \A i \in 1..len : i >= p => f[i] > c.node
    BY <2>2, PlaceOfNumber
  <2>4. at = p
    BY <2>1
  <2> HIDE DEF p
  <2> QED BY <2>3, <2>4
<1> HIDE DEF at
<1>4. Inserted(r, list, len, at, s)
  <2>0. r = InsertAt(list, at, s)
    BY Zenon DEF at, greater, PlaceAmong
  <2>1. list \in Seq(Slots) /\ s \in Slots
    BY DEF GoesWith
  <2>2. at \in 1..(Len(list) + 1)
    BY <1>3
  <2>3. Inserted(InsertAt(list, at, s), list, len, at, s)
    BY <2>1, <2>2, InsertAtPositions DEF Inserted
  <2> QED BY <2>0, <2>3, Zenon
<1> HIDE DEF len
<1>5. GoesTo(n, sm, len, list, s, at)
  BY <1>1, <1>3, Zenon
<1>6. /\ ListOk(n, r, sm) /\ \E i \in DOMAIN r : r[i] = s
      /\ \A i \in 1..len : \E k \in DOMAIN r : r[k] = list[i]
  BY <1>4, <1>5, ListWithClient
<1>7. \A i \in DOMAIN list : \E k \in DOMAIN r : r[k] = list[i]
  BY <1>1, <1>6, Zenon
<1> QED BY <1>6, <1>7, Zenon

(* A list whose clients stay what they are.                                 *)
LEMMA ListKept ==
    ASSUME NEW n, NEW list, NEW a, NEW b, ListOk(n, list, a),
           \A i \in DOMAIN list : b[list[i]].client = a[list[i]].client
    PROVE  ListOk(n, list, b)
BY DEF ListOk

(* A client that is not admitted is in no list.                             *)
LEMMA NotListed ==
    ASSUME NEW n, NEW list, NEW sl, ListOk(n, list, sl), NEW s, ~Admitted(sl[s].client, n)
    PROVE  \A i \in DOMAIN list : list[i] # s
BY DEF ListOk, Admitted

(* The list that qnetd_cluster_list_find_by_name finds.                     *)
LEMMA ListOfName ==
    ASSUME Inv, NEW name
    PROVE  /\ ClientsOf(name) \in Seq(Slots)
           /\ ClientsOf(name) # <<>> => ListOk(name, ClientsOf(name), slot)
<1>1. \A n \in DOMAIN clusters : ListOk(n, clusters[n], slot)
  BY DEF Inv, ClustersOk
<1>2. <<>> \in Seq(Slots)
  BY EmptySeq
<1>3. CASE name \in DOMAIN clusters
  BY <1>1, <1>3 DEF ClientsOf, ListOk
<1>4. CASE name \notin DOMAIN clusters
  BY <1>2, <1>4 DEF ClientsOf
<1> QED BY <1>3, <1>4

(* A client that qnetd_client_msg_received_init_check_new_client accepts    *)
(* goes with every client of its cluster, not only with the first ones.     *)
LEMMA AcceptedGoesWithAll ==
    ASSUME Inv, NEW c, c.config \in DOMAIN Configs, NEW name, CheckNewClient(c, name) = "no_error"
    PROVE  \A i \in DOMAIN ClientsOf(name) :
              /\ slot[ClientsOf(name)[i]].client.node # c.node
              /\ Configs[slot[ClientsOf(name)[i]].client.config] = Configs[c.config]
<1> DEFINE others == ClientsOf(name)
           bad    == {i \in DOMAIN others : Conflict(c, slot[others[i]].client) # "no_error"}
<1>1. others \in Seq(Slots) /\ (others # <<>> => ListOk(name, others, slot))
  BY ListOfName
<1>2. bad = {}
  <2> SUFFICES ASSUME bad # {} PROVE FALSE
    OBVIOUS
  <2>1. bad \subseteq Nat
    BY <1>1
  <2>2. Min(bad) \in bad
    BY <2>1, LeastNumber
  <2>3. Conflict(c, slot[others[Min(bad)]].client) # "no_error"
    BY <2>2, Zenon
  <2>4. Conflict(c, slot[others[Min(bad)]].client) = "no_error"
    BY DEF CheckNewClient
  <2> QED BY <2>3, <2>4
<1> SUFFICES ASSUME NEW i \in DOMAIN others
             PROVE  /\ slot[others[i]].client.node # c.node
                    /\ Configs[slot[others[i]].client.config] = Configs[c.config]
  BY Zenon
<1>3. Conflict(c, slot[others[i]].client) = "no_error"
  BY <1>2
<1> HIDE DEF bad, others
<1>4. others[i] \in Slots /\ slot[others[i]].client.init
  <2>1. others # <<>>
    BY <1>1
  <2> QED BY <1>1, <2>1 DEF ListOk
<1>5. slot[others[i]].client.config \in DOMAIN Configs
  BY <1>4 DEF Inv, SlotOk, ClientOk
<1> DEFINE o == slot[others[i]].client
<1>6. /\ Configs[c.config].tieBreaker = Configs[o.config].tieBreaker
      /\ Configs[c.config].algorithm = Configs[o.config].algorithm /\ c.node # o.node
  BY <1>3 DEF Conflict
<1>7. /\ Configs[c.config] = [tieBreaker |-> Configs[c.config].tieBreaker,
                              algorithm |-> Configs[c.config].algorithm]
      /\ Configs[o.config] = [tieBreaker |-> Configs[o.config].tieBreaker,
                              algorithm |-> Configs[o.config].algorithm]
  BY <1>5, SessionAssumption
<1>8. Configs[c.config] = Configs[o.config]
  BY <1>6, <1>7, Zenon
<1> QED BY <1>6, <1>8

(* qnetd_cluster_list_add_client keeps the clusters in order.               *)
LEMMA ClustersWithClient ==
    ASSUME Inv, NEW s \in Slots, ~slot[s].client.init,
           NEW c \in ClientType, NEW name, Admitted(c, name),
           \A i \in DOMAIN ClientsOf(name) :
              /\ slot[ClientsOf(name)[i]].client.node # c.node
              /\ Configs[slot[ClientsOf(name)[i]].client.config] = Configs[c.config],
           NEW t, t.client = c, slot' = [slot EXCEPT ![s] = t],
           clusters' = AddClient(name, s, c.node)
    PROVE  ClustersOk(clusters', slot')
<1> DEFINE list == ClientsOf(name)
           r    == InsertAt(list, PlaceAmong(slot, list, c.node), s)
<1>1. slot \in [Slots -> SlotType] /\ ClustersOk(clusters, slot)
  BY DEF Inv, TypeInv
<1>2. list \in Seq(Slots) /\ (list # <<>> => ListOk(name, list, slot))
  BY ListOfName
<1>3. slot'[s].client = c /\ \A o \in Slots : o # s => slot'[o] = slot[o]
  BY <1>1
<1>4. \A n : ~Admitted(slot[s].client, n)
  BY DEF Admitted
<1>5. \A i \in DOMAIN list : list[i] # s
  <2>1. CASE list = <<>>
    <3>1. DOMAIN list = {}
      BY <2>1
    <3> QED BY <3>1
  <2>2. CASE list # <<>>
    BY <1>2, <1>4, <2>2, NotListed
  <2> QED BY <2>1, <2>2
<1>6. /\ ListOk(name, r, slot') /\ \E i \in DOMAIN r : r[i] = s
      /\ \A i \in DOMAIN list : \E k \in DOMAIN r : r[k] = list[i]
  <2> HIDE DEF list, r
  <2>0. r = InsertAt(list, PlaceAmong(slot, list, c.node), s)
    BY DEF r
  <2>1. \A i \in DOMAIN list : /\ list[i] # s /\ slot[list[i]].client.node # c.node
                               /\ Configs[slot[list[i]].client.config] = Configs[c.config]
    BY <1>5 DEF list
  <2>2. GoesWith(slot, name, list, s, c, slot')
    BY <1>1, <1>2, <1>3, <2>1 DEF GoesWith
  <2> QED BY <2>0, <2>2, ClientAdded
<1>7. /\ DOMAIN clusters' = DOMAIN clusters \cup {name} /\ clusters'[name] = r
      /\ \A n \in DOMAIN clusters : n # name => clusters'[n] = clusters[n]
  BY DEF AddClient, PlaceAmong
<1> HIDE DEF r
<1>8. ASSUME NEW n \in DOMAIN clusters' PROVE ListOk(n, clusters'[n], slot')
  <2>1. CASE n = name
    BY <1>6, <1>7, <2>1, Zenon
  <2>2. CASE n # name
    <3>1. n \in DOMAIN clusters /\ clusters'[n] = clusters[n] /\ ListOk(n, clusters[n], slot)
      BY <1>1, <1>7, <2>2 DEF ClustersOk
    <3>2. \A i \in DOMAIN clusters[n] : clusters[n][i] # s /\ clusters[n][i] \in Slots
      <4>1. \A i \in DOMAIN clusters[n] : clusters[n][i] # s
        BY <1>4, <3>1, NotListed
      <4>2. \A i \in DOMAIN clusters[n] : clusters[n][i] \in Slots
        BY <3>1 DEF ListOk
      <4> QED BY <4>1, <4>2
    <3>3. \A i \in DOMAIN clusters[n] : slot'[clusters[n][i]].client = slot[clusters[n][i]].client
      BY <1>3, <3>2
    <3>4. ListOk(n, clusters[n], slot')
      BY <3>1, <3>3, ListKept
    <3> QED BY <3>1, <3>4
  <2> QED BY <2>1, <2>2
<1>9. ASSUME NEW o \in Slots, slot'[o].client.init PROVE Member(o, clusters', slot'[o].client)
  <2>1. CASE o = s
    <3>1. slot'[o].client.cluster = name
      BY <1>3, <2>1 DEF Admitted
    <3>2. name \in DOMAIN clusters'
      BY <1>7
    <3>3. \E i \in DOMAIN clusters'[name] : clusters'[name][i] = s
      BY <1>6, <1>7
    <3> QED BY <2>1, <3>1, <3>2, <3>3 DEF Member
  <2>2. CASE o # s
    <3> DEFINE n == slot[o].client.cluster
    <3>1. slot'[o] = slot[o] /\ Member(o, clusters, slot[o].client)
      BY <1>1, <1>3, <1>9, <2>2 DEF ClustersOk
    <3>2. PICK i \in DOMAIN clusters[n] : n \in DOMAIN clusters /\ clusters[n][i] = o
      BY <3>1 DEF Member
    <3>3. CASE n = name
      <4>1. list = clusters[n]
        BY <3>2, <3>3 DEF ClientsOf
      <4>2. \E k \in DOMAIN r : r[k] = o
        <5>1. i \in DOMAIN list /\ list[i] = o
          BY <3>2, <4>1
        <5>2. \A j \in DOMAIN list : \E k \in DOMAIN r : r[k] = list[j]
          BY <1>6
        <5> HIDE DEF list, n
        <5> QED BY <5>1, <5>2, Zenon
      <4>3. n \in DOMAIN clusters' /\ clusters'[n] = r
        BY <1>7, <3>3
      <4>4. slot'[o].client.cluster = n
        BY <3>1
      <4> HIDE DEF n
      <4> QED BY <4>2, <4>3, <4>4, Zenon DEF Member
    <3>4. CASE n # name
      BY <1>7, <3>1, <3>2, <3>4, ZenonT(60) DEF Member
    <3> QED BY <3>3, <3>4
  <2> QED BY <2>1, <2>2
<1> QED BY <1>8, <1>9 DEF ClustersOk

(* qnetd_cluster_list_del_client: what is left of a list is in order, and   *)
(* is the list without the client.                                          *)
LEMMA ClientRemoved ==
    ASSUME NEW sl \in [Slots -> SlotType], NEW n, NEW list \in Seq(Slots), ListOk(n, list, sl),
           NEW s \in Slots, NEW k \in DOMAIN list, list[k] = s, NEW r, r = Without(list, s)
    PROVE  /\ r # <<>> => ListOk(n, r, sl)
           /\ \A i \in DOMAIN r : r[i] # s
           /\ \A i \in DOMAIN list : list[i] # s => \E j \in DOMAIN r : r[j] = list[i]
<1> DEFINE at == CHOOSE i \in DOMAIN list : list[i] = s
           len == Len(list)
<1>1. len \in Nat /\ DOMAIN list = 1..len
  OBVIOUS
<1>2. at \in 1..len /\ list[at] = s
  BY <1>1
<1>3. r = RemoveAt(list, at)
  BY DEF Without
<1> HIDE DEF at
<1>5. /\ r \in Seq(Slots) /\ DOMAIN r = 1..(len - 1)
      /\ \A i \in 1..(len - 1) : r[i] = IF i < at THEN list[i] ELSE list[i + 1]
  <2>1. IsRemoval(Slots, list, at, RemoveAt(list, at))
    BY <1>2, RemoveAtPositions
  <2> QED BY <1>3, <2>1, Zenon DEF IsRemoval
<1>6. /\ \A i \in 1..len : Admitted(sl[list[i]].client, n)
      /\ \A i, j \in 1..len : j < i => <<list[j], list[i]>> \in Before(sl)
  BY <1>1, ListInOrder
<1> HIDE DEF len
<1>7. \A i, j \in 1..(len - 1) : j < i => <<r[j], r[i]>> \in Before(sl)
  BY <1>1, <1>2, <1>5, <1>6, RemoveKeepsOrder
<1>8. <<s, s>> \notin Before(sl)
  <2>1. sl[s] \in SlotType
    OBVIOUS
  <2>2. sl[s].client.node \in Nat
    BY <2>1 DEF SlotType, ClientType
  <2> QED BY <2>2 DEF Before
<1>9. \A i \in 1..len : list[i] = s => i = at
  <2> SUFFICES ASSUME NEW i \in 1..len, list[i] = s, i # at PROVE FALSE
    OBVIOUS
  <2>1. i < at \/ at < i
    BY <1>1, <1>2
  <2> QED BY <1>2, <1>6, <1>8, <2>1
<1>10. \A i \in 1..(len - 1) : \E j \in 1..len : j # at /\ r[i] = list[j]
  <2> TAKE i \in 1..(len - 1)
  <2>1. CASE i < at
    <3>1. i \in 1..len /\ i # at /\ r[i] = list[i]
      BY <1>1, <1>2, <1>5, <2>1
    <3> QED BY <3>1
  <2>2. CASE i >= at
    <3>1. i + 1 \in 1..len /\ i + 1 # at /\ r[i] = list[i + 1]
      BY <1>1, <1>2, <1>5, <2>2
    <3> QED BY <3>1
  <2> QED BY <1>1, <1>2, <2>1, <2>2
<1>11. \A i \in DOMAIN r : r[i] # s /\ Admitted(sl[r[i]].client, n)
  <2> TAKE i \in DOMAIN r
  <2>1. PICK j \in 1..len : j # at /\ r[i] = list[j]
    BY <1>5, <1>10, Zenon
  <2> QED BY <1>6, <1>9, <2>1, Zenon
<1>12. r # <<>> => ListOk(n, r, sl)
  <2>1. \A i, j \in DOMAIN r : j < i => <<r[j], r[i]>> \in Before(sl)
    BY <1>5, <1>7, Zenon
  <2>2. r \in Seq(Slots)
    BY <1>5, Zenon
  <2> QED BY <1>11, <2>1, <2>2, ListInOrder, Zenon
<1>13. ASSUME NEW i \in DOMAIN list, list[i] # s PROVE \E j \in DOMAIN r : r[j] = list[i]
  <2>1. i # at
    BY <1>2, <1>13, Zenon
  <2>2. CASE i < at
    <3>1. i \in 1..(len - 1) /\ r[i] = list[i]
      BY <1>1, <1>2, <1>5, <2>2
    <3> QED BY <1>5, <3>1, Zenon
  <2>3. CASE i > at
    <3>1. i - 1 \in 1..(len - 1) /\ ~(i - 1 < at) /\ (i - 1) + 1 = i
      BY <1>1, <1>2, <2>3
    <3>2. r[i - 1] = list[i]
      BY <1>5, <3>1
    <3> QED BY <1>5, <3>1, <3>2, Zenon
  <2> QED BY <1>1, <1>2, <2>1, <2>2, <2>3
<1> QED BY <1>11, <1>12, <1>13, Zenon

(* qnetd_cluster_list_del_client keeps the clusters in order, and no        *)
(* cluster without clients is left.                                         *)
LEMMA ClustersWithoutClient ==
    ASSUME Inv, NEW s \in Slots, slot[s].client.init, NEW name, name = slot[s].client.cluster,
           NEW t, ~t.client.init, slot' = [slot EXCEPT ![s] = t], clusters' = DelClient(name, s)
    PROVE  ClustersOk(clusters', slot')
<1> DEFINE list == clusters[name]
           r    == Without(list, s)
<1>1. slot \in [Slots -> SlotType] /\ ClustersOk(clusters, slot)
  BY DEF Inv, TypeInv
<1>2. slot'[s] = t /\ \A o \in Slots : o # s => slot'[o] = slot[o]
  BY <1>1
<1>3. PICK k \in DOMAIN list : name \in DOMAIN clusters /\ list[k] = s
  BY <1>1 DEF ClustersOk, Member
<1>4. ListOk(name, list, slot) /\ list \in Seq(Slots)
  BY <1>1, <1>3 DEF ClustersOk, ListOk
<1>5. /\ r # <<>> => ListOk(name, r, slot)
      /\ \A i \in DOMAIN r : r[i] # s
      /\ \A i \in DOMAIN list : list[i] # s => \E j \in DOMAIN r : r[j] = list[i]
  BY <1>1, <1>3, <1>4, ClientRemoved
<1>6. clusters' = [n \in {m \in DOMAIN clusters : m # name \/ r # <<>>} |->
                      IF n = name THEN r ELSE clusters[n]]
  BY DEF DelClient
<1> HIDE DEF r
<1>7. /\ DOMAIN clusters' = {m \in DOMAIN clusters : m # name \/ r # <<>>}
      /\ r # <<>> => clusters'[name] = r
      /\ \A n \in DOMAIN clusters : n # name => n \in DOMAIN clusters' /\ clusters'[n] = clusters[n]
  BY <1>3, <1>6
<1>8. ASSUME NEW n, NEW q, ListOk(n, q, slot), \A i \in DOMAIN q : q[i] # s
      PROVE  ListOk(n, q, slot')
  <2>1. \A i \in DOMAIN q : q[i] \in Slots
    BY <1>8 DEF ListOk
  <2>2. \A i \in DOMAIN q : slot'[q[i]].client = slot[q[i]].client
    BY <1>2, <1>8, <2>1
  <2> QED BY <1>8, <2>2, ListKept
<1>9. ASSUME NEW n \in DOMAIN clusters' PROVE ListOk(n, clusters'[n], slot')
  <2>1. CASE n = name
    <3>1. r # <<>> /\ clusters'[n] = r
      BY <1>7, <1>9, <2>1
    <3>2. ListOk(name, r, slot')
      BY <1>5, <1>8, <3>1
    <3> QED BY <2>1, <3>1, <3>2
  <2>2. CASE n # name
    <3>1. n \in DOMAIN clusters /\ clusters'[n] = clusters[n]
      BY <1>7, <1>9, <2>2
    <3>2. ListOk(n, clusters[n], slot)
      BY <1>1, <3>1 DEF ClustersOk
    <3>3. ~Admitted(slot[s].client, n)
      BY <2>2 DEF Admitted
    <3>4. \A i \in DOMAIN clusters[n] : clusters[n][i] # s
      BY <3>2, <3>3, NotListed
    <3>5. ListOk(n, clusters[n], slot')
      BY <1>8, <3>2, <3>4
    <3> QED BY <3>1, <3>5
  <2> QED BY <2>1, <2>2
<1>10. ASSUME NEW o \in Slots, slot'[o].client.init PROVE Member(o, clusters', slot'[o].client)
  <2>1. o # s
    BY <1>2, <1>10
  <2> DEFINE n == slot[o].client.cluster
  <2>2. slot'[o] = slot[o] /\ Member(o, clusters, slot[o].client)
    BY <1>1, <1>2, <1>10, <2>1 DEF ClustersOk
  <2>3. PICK i \in DOMAIN clusters[n] : n \in DOMAIN clusters /\ clusters[n][i] = o
    BY <2>2 DEF Member
  <2>4. CASE n = name
    <3>1. PICK j \in DOMAIN r : r[j] = o
      BY <1>5, <2>1, <2>3, <2>4, Zenon
    <3>2. r # <<>>
      BY <3>1
    <3>3. n \in DOMAIN clusters' /\ clusters'[n] = r
      BY <1>3, <1>7, <2>4, <3>2
    <3> QED BY <2>2, <3>1, <3>3, Zenon DEF Member
  <2>5. CASE n # name
    BY <1>7, <2>2, <2>3, <2>5, ZenonT(60) DEF Member
  <2> QED BY <2>4, <2>5
<1> QED BY <1>9, <1>10 DEF ClustersOk

-----------------------------------------------------------------------------
(* The server reads a message that needs TLS where it is required          *)

(* A client with a valid certificate.                                       *)
LEMMA VerifiedClient ==
    ASSUME NEW c \in ClientType, NEW c1, c1 = c \/ c1 = [c EXCEPT !.verified = TRUE]
    PROVE  /\ c1 \in ClientType /\ c1.exists = c.exists /\ c1.preinit = c.preinit /\ c1.tls = c.tls
           /\ c1.init = c.init /\ c1.cluster = c.cluster /\ c1.dpd = c.dpd
           /\ c1.disconnect = c.disconnect
<1>1. c1 \in ClientType
  BY DEF ClientType
<1>2. c1.exists = c.exists /\ c1.preinit = c.preinit
  BY DEF ClientType
<1>3. c1.tls = c.tls /\ c1.init = c.init
  BY DEF ClientType
<1>4. c1.cluster = c.cluster /\ c1.dpd = c.dpd /\ c1.disconnect = c.disconnect
  BY DEF ClientType
<1> QED BY <1>1, <1>2, <1>3, <1>4, Zenon

(* A client with another interval of its dead-peer timer.                   *)
LEMMA ClientWithInterval ==
    ASSUME NEW a \in ClientType, NEW x \in Nat
    PROVE  [a EXCEPT !.interval = x, !.dpd = x] \in ClientType
<1>1. [a EXCEPT !.interval = x] \in ClientType
  BY DEF ClientType
<1>2. \A b \in ClientType : [b EXCEPT !.dpd = x] \in ClientType
  <2>1. x \in Int
    OBVIOUS
  <2> QED BY <2>1 DEF ClientType
<1>3. [[a EXCEPT !.interval = x] EXCEPT !.dpd = x] \in ClientType
  BY <1>1, <1>2, Zenon
<1> QED BY <1>3

WithInit(c, node, cf) == UpdateInterval([c EXCEPT !.node = node, !.config = cf], Heartbeat)
Told(c, error)        == [c EXCEPT !.init = @ \/ error = "no_error"]

(* qnetd_client_dpd_timer_update_interval for a client that sends its init. *)
LEMMA InitClient ==
    ASSUME NEW c \in ClientType, c.dpd # Off, NEW node \in Nat, NEW cf \in Nat,
           NEW c2, c2 = WithInit(c, node, cf)
    PROVE  /\ c2 \in ClientType /\ c2.exists = c.exists /\ c2.preinit = c.preinit
           /\ c2.tls = c.tls /\ c2.verified = c.verified /\ c2.init = c.init
           /\ c2.cluster = c.cluster /\ c2.disconnect = c.disconnect
           /\ c2.node = node /\ c2.config = cf /\ c2.interval = Interval /\ c2.dpd = Interval
<1> DEFINE a == [c EXCEPT !.node = node, !.config = cf]
<1>1. a \in ClientType /\ a.dpd = c.dpd
  BY DEF ClientType
<1>2. a.exists = c.exists /\ a.preinit = c.preinit /\ a.tls = c.tls
  BY DEF ClientType
<1>3. a.verified = c.verified /\ a.init = c.init
  BY DEF ClientType
<1>4. a.cluster = c.cluster /\ a.disconnect = c.disconnect
  BY DEF ClientType
<1>5. a.node = node /\ a.config = cf
  BY DEF ClientType
<1>6. DpdCoefficient \in Nat /\ Heartbeat \in Nat /\ Interval \in Nat
  <2>1. DpdCoefficient \in Nat /\ Heartbeat \in Nat
    BY SessionAssumption
  <2> QED BY <2>1 DEF Interval
<1>7. c2 = [a EXCEPT !.interval = Interval, !.dpd = Interval]
  BY <1>1, Zenon DEF WithInit, UpdateInterval, Interval
<1> HIDE DEF a
<1>8. c2 \in ClientType
  BY <1>1, <1>6, <1>7, ClientWithInterval
<1>9. c2.exists = a.exists /\ c2.preinit = a.preinit /\ c2.tls = a.tls
  BY <1>1, <1>7 DEF ClientType
<1>10. c2.verified = a.verified /\ c2.init = a.init
  BY <1>1, <1>7 DEF ClientType
<1>11. c2.cluster = a.cluster /\ c2.disconnect = a.disconnect
  BY <1>1, <1>7 DEF ClientType
<1>12. c2.node = a.node /\ c2.config = a.config
  BY <1>1, <1>7 DEF ClientType
<1>13. c2.interval = Interval /\ c2.dpd = Interval
  BY <1>1, <1>7 DEF ClientType
<1> QED BY <1>2, <1>3, <1>4, <1>5, <1>8, <1>9, <1>10, <1>11, <1>12, <1>13, Zenon

(* A client that is told whether it is admitted.                            *)
LEMMA ToldClient ==
    ASSUME NEW c \in ClientType, ~c.init, NEW error,
           NEW c3, c3 = Told(c, error)
    PROVE  /\ c3 \in ClientType /\ c3.exists = c.exists /\ c3.preinit = c.preinit
           /\ c3.tls = c.tls /\ c3.verified = c.verified /\ (c3.init <=> error = "no_error")
           /\ c3.cluster = c.cluster /\ c3.disconnect = c.disconnect
           /\ c3.node = c.node /\ c3.config = c.config /\ c3.interval = c.interval
           /\ c3.dpd = c.dpd
<1> DEFINE b == error = "no_error"
<1>1. c.init = FALSE
  BY DEF ClientType
<1>2. c3 = [c EXCEPT !.init = b]
  BY <1>1 DEF Told
<1>3. b \in BOOLEAN
  OBVIOUS
<1> HIDE DEF b
<1>4. c3 \in ClientType
  BY <1>2, <1>3 DEF ClientType
<1>5. c3.exists = c.exists /\ c3.preinit = c.preinit /\ c3.tls = c.tls
  BY <1>2 DEF ClientType
<1>6. c3.verified = c.verified /\ c3.init = b
  BY <1>2 DEF ClientType
<1>7. c3.cluster = c.cluster /\ c3.disconnect = c.disconnect
  BY <1>2 DEF ClientType
<1>8. c3.node = c.node /\ c3.config = c.config /\ c3.interval = c.interval /\ c3.dpd = c.dpd
  BY <1>2 DEF ClientType
<1> QED BY <1>4, <1>5, <1>6, <1>7, <1>8, Zenon DEF b

(* What the server tells a client is one of the errors of an init reply.    *)
LEMMA CheckNewClientTells ==
    ASSUME NEW c, NEW name
    PROVE  CheckNewClient(c, name) \in Errors
<1>1. \A o : Conflict(c, o) \in Errors
  BY DEF Conflict, Errors
<1>2. "no_error" \in Errors
  BY DEF Errors
<1> QED BY <1>1, <1>2, Zenon DEF CheckNewClient

(* Nothing follows an init before its reply.                                *)
LEMMA InitIsAlone ==
    ASSUME Inv, NEW s \in Slots, Serving(s), slot[s].up # <<>>,
           NEW m, m = Head(slot[s].up), m.type = "init"
    PROVE  /\ Len(slot[s].up) = 1 /\ slot[s].client.preinit /\ ~slot[s].client.init
           /\ m.opt \in InitOpts /\ \A c : UpOk(setup, Tail(slot[s].up), c)
<1>1. /\ slot[s] \in SlotType /\ m = slot[s].up[1] /\ UpOk(setup, slot[s].up, slot[s].client)
  BY Reading
<1>2. slot[s].up \in Seq(Msgs(UpTypes)) /\ 1 \in DOMAIN slot[s].up
  BY <1>1 DEF SlotType
<1>3. /\ Len(slot[s].up) = 1 /\ slot[s].client.preinit /\ ~slot[s].client.init
      /\ m.opt \in InitOpts
  BY <1>1, <1>2 DEF UpOk
<1> QED BY <1>2, <1>3, NothingLeft

(* qnetd_client_msg_received_init: the client is admitted to its cluster    *)
(* exactly when the reply says so.                                          *)
LEMMA ServerReadsInit ==
    ASSUME Inv, NEW s \in Slots, Serving(s), slot[s].up # <<>>,
           NEW m, m = Head(slot[s].up), m.type = "init",
           NEW c, c = DpdReschedule(slot[s].client, m),
           NEW c1, c1 = c \/ c1 = [c EXCEPT !.verified = TRUE], TlsSettled(setup, c1),
           InitMsg(s, c1, m), UNCHANGED <<setup, dev, config, reach, faults>>
    PROVE  Inv'
<1> DEFINE c2    == WithInit(c1, m.opt.node, m.opt.config)
           error == CheckNewClient(c2, c1.cluster)
           c3    == Told(c2, error)
           r     == Msg("init_reply", m.seq, c1.tls, error)
<1>1. /\ setup \in Setups /\ slot[s] \in SlotType /\ SlotOk(setup, slot[s])
      /\ slot[s].client.exists /\ m = slot[s].up[1] /\ m \in Msgs(UpTypes)
      /\ c \in ClientType /\ ClientOk(setup, c) /\ c.exists /\ c.disconnect = "none"
      /\ c.preinit = slot[s].client.preinit /\ c.tls = slot[s].client.tls
      /\ c.init = slot[s].client.init
  BY Reading
<1>2. /\ Len(slot[s].up) = 1 /\ slot[s].client.preinit /\ ~slot[s].client.init
      /\ m.opt \in InitOpts /\ \A k : UpOk(setup, Tail(slot[s].up), k)
  BY InitIsAlone
<1>3. /\ c1 \in ClientType /\ c1.exists = c.exists /\ c1.preinit = c.preinit /\ c1.tls = c.tls
      /\ c1.init = c.init /\ c1.cluster = c.cluster /\ c1.dpd = c.dpd /\ c1.disconnect = c.disconnect
  BY <1>1, VerifiedClient
<1>4. c1.dpd # Off
  BY <1>1, <1>3 DEF ClientOk
<1>5. m.opt.node \in Nat /\ m.opt.config \in DOMAIN Configs /\ m.opt.config \in Nat
  BY <1>2, SessionAssumption DEF InitOpts
<1>6. c1.preinit /\ c1.exists /\ ~c1.init /\ c1.disconnect = "none"
  BY <1>1, <1>2, <1>3, Zenon
<1>7. /\ Answer(s, c3, r)
      /\ clusters' = IF error = "no_error" THEN AddClient(c1.cluster, s, m.opt.node) ELSE clusters
  BY <1>6, Zenon DEF InitMsg, WithInit, Told
<1>8. /\ c2 \in ClientType /\ c2.exists = c1.exists /\ c2.preinit = c1.preinit
      /\ c2.tls = c1.tls /\ c2.verified = c1.verified /\ c2.init = c1.init
      /\ c2.cluster = c1.cluster /\ c2.disconnect = c1.disconnect
      /\ c2.node = m.opt.node /\ c2.config = m.opt.config
      /\ c2.interval = Interval /\ c2.dpd = Interval
  BY <1>3, <1>4, <1>5, InitClient
<1> HIDE DEF c2
<1>9. error \in Errors
  BY CheckNewClientTells
<1>10. error = "no_error" => \A i \in DOMAIN ClientsOf(c1.cluster) :
              /\ slot[ClientsOf(c1.cluster)[i]].client.node # c2.node
              /\ Configs[slot[ClientsOf(c1.cluster)[i]].client.config] = Configs[c2.config]
  BY <1>5, <1>8, AcceptedGoesWithAll
<1> HIDE DEF error
<1>11. /\ c3 \in ClientType /\ c3.exists = c2.exists /\ c3.preinit = c2.preinit
       /\ c3.tls = c2.tls /\ c3.verified = c2.verified /\ (c3.init <=> error = "no_error")
       /\ c3.cluster = c2.cluster /\ c3.disconnect = c2.disconnect
       /\ c3.node = c2.node /\ c3.config = c2.config /\ c3.interval = c2.interval
       /\ c3.dpd = c2.dpd
  <2>1. ~c2.init
    BY <1>6, <1>8, Zenon
  <2> QED BY <1>8, <2>1, ToldClient
<1>12. r \in Msgs(DownTypes) /\ r.age = 0 /\ r.type = "init_reply" /\ r.opt = error
  <2>1. m.seq \in Nat /\ c1.tls \in BOOLEAN /\ error \in Opts
    BY <1>1, <1>3, <1>9 DEF Msgs, ClientType, Opts
  <2> QED BY <2>1 DEF Msg, Msgs, DownTypes
<1>13. r.tls = c1.tls
  BY DEF Msg
<1> HIDE DEF c3, r
<1>14. /\ c3.exists /\ c3.preinit /\ c3.tls = slot[s].client.tls /\ c3.disconnect = "none"
       /\ c3.cluster = c1.cluster
       /\ c3.node = m.opt.node /\ c3.config = m.opt.config
       /\ c3.interval = Interval /\ c3.dpd = Interval
  <2>1. c3.exists /\ c3.preinit /\ c3.tls = slot[s].client.tls
    <3>1. c3.exists = c1.exists /\ c3.preinit = c1.preinit /\ c3.tls = c1.tls
      BY <1>8, <1>11, Zenon
    <3>2. c1.tls = slot[s].client.tls
      BY <1>1, <1>3, Zenon
    <3> QED BY <1>6, <3>1, <3>2, Zenon
  <2>2. c3.disconnect = "none" /\ c3.cluster = c1.cluster
    BY <1>6, <1>8, <1>11, Zenon
  <2>3. c3.node = m.opt.node /\ c3.config = m.opt.config
    BY <1>8, <1>11, Zenon
  <2>4. c3.interval = Interval /\ c3.dpd = Interval
    BY <1>8, <1>11, Zenon
  <2> QED BY <2>1, <2>2, <2>3, <2>4, Zenon
<1>15. TlsSettled(setup, c3)
  BY <1>8, <1>11, Zenon DEF TlsSettled
<1>16. Interval \in Nat
  BY <1>1, Constants
<1>17. ClientOk(setup, c3)
  <2>1. c3.dpd >= Off /\ c3.dpd # Off
    BY <1>14, <1>16 DEF Off
  <2>2. c3.config \in DOMAIN Configs
    BY <1>5, <1>14, Zenon
  <2> QED BY <1>14, <1>15, <2>1, <2>2, Zenon DEF ClientOk
<1>18. ASSUME NEW d \in Devices, NEW t \in SlotType,
              dev[d].conn = s, t.link = slot[s].link, t.client = c3,
              t.up = Tail(slot[s].up), t.down = Append(slot[s].down, r)
       PROVE  LinkOk(setup, dev[d], t)
  <2>1. /\ dev[d] \in DevType /\ dev[d].conn # NoSlot
        /\ DevOk(setup, d, dev[d]) /\ LinkOk(setup, dev[d], slot[s])
    BY <1>18, PeerOf
  <2>2. t.client.tls = slot[s].client.tls /\ (t.client.init <=> r.opt = "no_error")
    BY <1>11, <1>12, <1>14, <1>18, Zenon
  <2>3. r.tls = slot[s].client.tls
    BY <1>1, <1>3, <1>13, Zenon
  <2>4. t.client.dpd = Interval /\ t.client.disconnect = "none"
    BY <1>14, <1>18, Zenon
  <2> QED BY <1>1, <1>12, <1>18, <2>1, <2>2, <2>3, <2>4, InitAnswered
<1>19. ASSUME NEW t \in SlotType, slot' = [slot EXCEPT ![s] = t], t.client = c3
       PROVE  ClustersOk(clusters', slot')
  <2>1. CASE error = "no_error"
    <3>1. Admitted(c3, c1.cluster) /\ clusters' = AddClient(c1.cluster, s, c3.node)
      BY <1>7, <1>11, <1>14, <2>1, Zenon DEF Admitted
    <3>2. \A i \in DOMAIN ClientsOf(c1.cluster) :
              /\ slot[ClientsOf(c1.cluster)[i]].client.node # c3.node
              /\ Configs[slot[ClientsOf(c1.cluster)[i]].client.config] = Configs[c3.config]
      BY <1>10, <1>11, <2>1, ZenonT(60)
    <3> QED BY <1>2, <1>11, <1>19, <3>1, <3>2, ClustersWithClient
  <2>2. CASE error # "no_error"
    <3>1. ~c3.init
      BY <1>11, <2>2, Zenon
    <3>2. SameClient(slot[s].client, c3)
      <4>1. c3.init \in BOOLEAN /\ slot[s].client.init \in BOOLEAN
        BY <1>1, <1>11 DEF SlotType, ClientType
      <4> QED BY <1>2, <3>1, <4>1 DEF SameClient
    <3>3. clusters' = clusters
      BY <1>7, <2>2, Zenon
    <3> QED BY <1>19, <3>2, <3>3, ClientChanged
  <2> QED BY <2>1, <2>2
<1> QED BY <1>2, <1>7, <1>9, <1>11, <1>12, <1>14, <1>17, <1>18, <1>19, AnswerStep

(* The init of a client that should have used TLS is answered by an error.  *)
LEMMA ServerRefusesInit ==
    ASSUME Inv, NEW s \in Slots, Serving(s), slot[s].up # <<>>,
           NEW m, m = Head(slot[s].up), m.type = "init",
           NEW c, c = DpdReschedule(slot[s].client, m),
           ServerError(s, c, m), UNCHANGED <<setup, dev, config, clusters, reach, faults>>
    PROVE  Inv'
<1> DEFINE r == Msg("server_error", m.seq, c.tls, "none")
<1>1. /\ setup \in Setups /\ slot[s] \in SlotType /\ SlotOk(setup, slot[s])
      /\ slot[s].client.exists /\ m = slot[s].up[1] /\ m \in Msgs(UpTypes)
      /\ c \in ClientType /\ ClientOk(setup, c) /\ c.exists
      /\ c.tls = slot[s].client.tls /\ c.init = slot[s].client.init
  BY Reading
<1>2. ~slot[s].client.init /\ \A k : UpOk(setup, Tail(slot[s].up), k)
  BY InitIsAlone
<1>3. r \in Msgs(DownTypes) /\ r.age = 0 /\ r.type = "server_error"
  <2>1. m.seq \in Nat /\ c.tls \in BOOLEAN /\ "none" \in Opts
    BY <1>1 DEF Msgs, ClientType, Opts
  <2> QED BY <2>1 DEF Msg, Msgs, DownTypes
<1>4. r.tls = c.tls
  BY DEF Msg
<1>5. Answer(s, c, r)
  BY DEF ServerError
<1> HIDE DEF r
<1>6. ~c.init /\ SameClient(slot[s].client, c)
  BY <1>1, <1>2, Zenon DEF SameClient
<1>7. ASSUME NEW d \in Devices, NEW t \in SlotType,
              dev[d].conn = s, t.link = slot[s].link, t.client = c,
              t.up = Tail(slot[s].up), t.down = Append(slot[s].down, r)
      PROVE  LinkOk(setup, dev[d], t)
  <2>1. /\ dev[d] \in DevType /\ dev[d].conn # NoSlot
        /\ DevOk(setup, d, dev[d]) /\ LinkOk(setup, dev[d], slot[s])
    BY <1>7, PeerOf
  <2>2. t.client.tls = slot[s].client.tls /\ ~t.client.init
    BY <1>1, <1>6, <1>7, Zenon
  <2>3. r.tls = slot[s].client.tls
    BY <1>1, <1>4, Zenon
  <2> QED BY <1>1, <1>3, <1>7, <2>1, <2>2, <2>3, InitAnswered
<1>8. \A t \in SlotType : slot' = [slot EXCEPT ![s] = t] /\ t.client = c =>
         ClustersOk(clusters', slot')
  BY <1>6, ClientChanged
<1> QED BY <1>1, <1>2, <1>3, <1>5, <1>7, <1>8, AnswerStep

(* The client of an init without a valid certificate is given up.           *)
LEMMA ServerDropsInit ==
    ASSUME Inv, NEW s \in Slots, Serving(s), slot[s].up # <<>>,
           NEW m, m = Head(slot[s].up), m.type = "init",
           NEW c, c = DpdReschedule(slot[s].client, m),
           NoAnswer(s, [c EXCEPT !.disconnect = "certificate"]),
           UNCHANGED <<setup, dev, config, clusters, reach, faults>>
    PROVE  Inv'
<1> DEFINE c2 == [c EXCEPT !.disconnect = "certificate"]
<1>1. /\ setup \in Setups /\ slot[s] \in SlotType /\ SlotOk(setup, slot[s])
      /\ slot[s].client.exists /\ m = slot[s].up[1]
      /\ c \in ClientType /\ ClientOk(setup, c) /\ c.exists /\ c.init = slot[s].client.init
  BY Reading
<1>2. ~slot[s].client.init /\ \A k : UpOk(setup, Tail(slot[s].up), k)
  BY InitIsAlone
<1>3. c2 \in ClientType /\ c2.disconnect = "certificate" /\ c2.dpd = c.dpd
  BY <1>1 DEF ClientType
<1>4. c2.exists = c.exists /\ c2.init = c.init
  BY <1>1 DEF ClientType
<1>5. NoAnswer(s, c2)
  OBVIOUS
<1> HIDE DEF c2
<1>6. c2.exists /\ ~c2.init /\ SameClient(slot[s].client, c2)
  BY <1>1, <1>2, <1>4, Zenon DEF SameClient
<1>7. ClientOk(setup, c2)
  BY <1>1, <1>3, <1>6 DEF ClientOk
<1>8. ASSUME NEW d \in Devices, NEW t \in SlotType,
              dev[d].conn = s, t.link = slot[s].link, t.client = c2,
              t.up = Tail(slot[s].up), t.down = slot[s].down
      PROVE  LinkOk(setup, dev[d], t)
  <2>1. /\ dev[d] \in DevType /\ dev[d].conn # NoSlot
        /\ DevOk(setup, d, dev[d]) /\ LinkOk(setup, dev[d], slot[s])
    BY <1>8, PeerOf
  <2>2. ~t.client.init /\ t.client.disconnect # "none"
    BY <1>3, <1>6, <1>8
  <2> QED BY <1>1, <1>8, <2>1, <2>2, InitRefused
<1> QED BY <1>2, <1>3, <1>5, <1>6, <1>7, <1>8, NoAnswerStep

(* qnetd_client_msg_received_set_option and .._echo_request                 *)
LEMMA ServerReadsOfConnected ==
    ASSUME Inv, NEW s \in Slots, Serving(s), slot[s].up # <<>>,
           NEW m, m = Head(slot[s].up), NEW c, c = DpdReschedule(slot[s].client, m),
           NEW r, r = Msg(r.type, m.seq, c.tls, "none"),
           \/ m.type = "set_option" /\ r.type = "set_option_reply"
           \/ m.type = "echo_request" /\ r.type = "echo_reply",
           Answer(s, c, r), UNCHANGED <<setup, dev, config, clusters, reach, faults>>
    PROVE  Inv'
<1>1. /\ setup \in Setups /\ slot[s] \in SlotType /\ SlotOk(setup, slot[s])
      /\ slot[s].client.exists /\ m = slot[s].up[1] /\ m \in Msgs(UpTypes)
      /\ UpOk(setup, slot[s].up, slot[s].client)
      /\ c \in ClientType /\ ClientOk(setup, c) /\ c.exists /\ c.disconnect = "none"
      /\ c.tls = slot[s].client.tls /\ c.init = slot[s].client.init
      /\ c.dpd = c.interval /\ c.cluster = slot[s].client.cluster
      /\ c.node = slot[s].client.node /\ c.config = slot[s].client.config
  BY Reading
<1>2. slot[s].up \in Seq(Msgs(UpTypes)) /\ 1 \in DOMAIN slot[s].up
  BY <1>1 DEF SlotType
<1>3. slot[s].client.init
  BY <1>1, <1>2 DEF UpOk
<1>4. r \in Msgs(DownTypes) /\ r.age = 0 /\ r.seq = m.seq
  <2>1. m.seq \in Nat /\ c.tls \in BOOLEAN /\ "none" \in Opts
    BY <1>1 DEF Msgs, ClientType, Opts
  <2> QED BY <2>1 DEF Msg, Msgs, DownTypes
<1>5. r.tls = c.tls
  BY DEF Msg
<1>6. c.init /\ SameClient(slot[s].client, c)
  BY <1>1, <1>3, Zenon DEF SameClient
<1>7. c.dpd = Interval
  BY <1>1, <1>6, SMTT(40) DEF ClientOk
<1>8. UpOk(setup, Tail(slot[s].up), c)
  <2> DEFINE q == slot[s].up
             p == Tail(q)
  <2>1. /\ p \in Seq(Msgs(UpTypes))
        /\ \A i \in DOMAIN p : i \in Nat /\ i + 1 \in DOMAIN q /\ p[i] = q[i + 1] /\ p[i] \in Msgs(UpTypes)
    BY <1>2, TailOfStream
  <2>2. \A i \in DOMAIN q : q[i].type \notin {"preinit", "starttls", "init"}
    BY <1>1, <1>3 DEF UpOk
  <2>3. \A i \in DOMAIN q : q[i].tls = slot[s].client.tls
    <3> TAKE i \in DOMAIN q
    <3>1. q[i].tls = (slot[s].client.tls \/ (i = 2 /\ q[1].type = "starttls"))
      BY <1>1 DEF UpOk
    <3>2. q[1].type # "starttls"
      BY <1>2, <2>2
    <3>3. slot[s].client.tls \in BOOLEAN
      BY <1>1 DEF SlotType, ClientType
    <3> QED BY <3>1, <3>2, <3>3
  <2>4. ASSUME NEW i \in DOMAIN p
        PROVE  /\ p[i].age <= setup.maxDelay
               /\ p[i].tls = (c.tls \/ (i = 2 /\ p[1].type = "starttls"))
               /\ p[i].type \notin {"preinit", "starttls", "init"}
               /\ p[i].type \in {"init", "set_option", "echo_request"} /\ ~p[i].tls => MayBeClear(setup)
    <3>1. i + 1 \in DOMAIN q /\ p[i] = q[i + 1]
      BY <2>1
    <3>2. p[1].type # "starttls"
      <4>1. 1 \in DOMAIN p
        BY <2>1
      <4> QED BY <2>1, <2>2, <4>1
    <3>3. p[i].tls = c.tls /\ c.tls \in BOOLEAN
      <4>1. p[i].tls = c.tls
        BY <1>1, <2>3, <3>1, ZenonT(60)
      <4>2. c.tls \in BOOLEAN
        BY <1>1 DEF ClientType
      <4> QED BY <4>1, <4>2
    <3>4. p[i].age <= setup.maxDelay /\ p[i].type \notin {"preinit", "starttls", "init"}
      BY <1>1, <2>2, <3>1 DEF UpOk
    <3>5. p[i].type \in {"init", "set_option", "echo_request"} /\ ~p[i].tls => MayBeClear(setup)
      BY <1>1, <3>1, Zenon DEF UpOk
    <3> QED BY <3>2, <3>3, <3>4, <3>5
  <2> HIDE DEF p, q
  <2> QED BY <1>6, <2>4 DEF UpOk, p, q
<1>9. ASSUME NEW d \in Devices, NEW t \in SlotType,
              dev[d].conn = s, t.link = slot[s].link, t.client = c,
              t.up = Tail(slot[s].up), t.down = Append(slot[s].down, r)
      PROVE  LinkOk(setup, dev[d], t)
  <2>1. /\ dev[d] \in DevType /\ dev[d].conn # NoSlot
        /\ DevOk(setup, d, dev[d]) /\ LinkOk(setup, dev[d], slot[s])
    BY <1>9, PeerOf
  <2>2. t.client.tls = slot[s].client.tls /\ t.client.init
    BY <1>1, <1>6, <1>9, Zenon
  <2>3. r.tls = slot[s].client.tls
    BY <1>1, <1>5, Zenon
  <2>4. t.client.dpd = Interval /\ t.client.disconnect = "none"
    BY <1>1, <1>7, <1>9, Zenon
  <2>5. \/ slot[s].up[1].type = "set_option" /\ r.type = "set_option_reply"
        \/ /\ slot[s].up[1].type = "echo_request" /\ r.type = "echo_reply"
           /\ r.seq = slot[s].up[1].seq
    BY <1>1, <1>4, Zenon
  <2> QED BY <1>1, <1>4, <1>9, <2>1, <2>2, <2>3, <2>4, <2>5, ConnectedAnswered
<1>10. \A t \in SlotType : slot' = [slot EXCEPT ![s] = t] /\ t.client = c =>
          ClustersOk(clusters', slot')
  BY <1>6, ClientChanged
<1> QED BY <1>1, <1>4, <1>8, <1>9, <1>10, AnswerStep

(* qnetd_client_msg_received for the messages that need TLS: an admitted    *)
(* client has what is asked for.                                            *)
LEMMA ServerReadsChecked ==
    ASSUME Inv, NEW s \in Slots, Serving(s), slot[s].up # <<>>,
           NEW m, m = Head(slot[s].up), NEW c, c = DpdReschedule(slot[s].client, m),
           Checked(s, c, m), UNCHANGED <<setup, dev, config, reach, faults>>
    PROVE  Inv'
<1> DEFINE check == CheckTls(c)
           valid == c.cluster \in setup.valid
           c1    == IF check = "certificate" THEN [c EXCEPT !.verified = TRUE] ELSE c
<1>1. /\ setup \in Setups /\ slot[s] \in SlotType /\ m = slot[s].up[1]
      /\ UpOk(setup, slot[s].up, slot[s].client)
      /\ c \in ClientType /\ ClientOk(setup, c) /\ c.init = slot[s].client.init
  BY Reading
<1>2. slot[s].up \in Seq(Msgs(UpTypes)) /\ 1 \in DOMAIN slot[s].up
  BY <1>1 DEF SlotType
<1>3. m.type \in {"set_option", "echo_request"} => c.init
  <2>1. m.type \in {"set_option", "echo_request"} => slot[s].client.init
    BY <1>1, <1>2 DEF UpOk
  <2> QED BY <1>1, <2>1, Zenon
<1>4. /\ check \in {"ok", "certificate", "error"} /\ (check = "ok" <=> TlsSettled(setup, c))
      /\ check = "certificate" => TlsSettled(setup, [c EXCEPT !.verified = TRUE])
  BY <1>1, CheckTlsAsks
<1>5. m.type \in {"set_option", "echo_request"} => check = "ok"
  BY <1>1, <1>3, <1>4 DEF ClientOk
<1>6. m.type \in {"init", "set_option", "echo_request"}
  BY DEF Checked
<1>7. \/ check = "error" /\ ServerError(s, c, m) /\ clusters' = clusters
      \/ /\ check = "certificate" /\ NoAnswer(s, [c EXCEPT !.disconnect = "certificate"])
         /\ clusters' = clusters
      \/ /\ check \in {"ok", "certificate"}
         /\ \/ m.type = "init" /\ InitMsg(s, c1, m)
            \/ m.type = "set_option" /\ SetOption(s, c1, m)
            \/ m.type = "echo_request" /\ EchoRequest(s, c1, m)
  BY DEF Checked
<1>8. CASE check = "error" /\ ServerError(s, c, m) /\ clusters' = clusters
  <2>1. m.type = "init"
    BY <1>5, <1>6, <1>8
  <2> QED BY <1>8, <2>1, ServerRefusesInit
<1>9. CASE /\ check = "certificate" /\ NoAnswer(s, [c EXCEPT !.disconnect = "certificate"])
           /\ clusters' = clusters
  <2>1. m.type = "init"
    BY <1>5, <1>6, <1>9
  <2> HIDE DEF check
  <2> QED BY <1>9, <2>1, ServerDropsInit
<1>10. CASE check \in {"ok", "certificate"} /\ m.type = "init" /\ InitMsg(s, c1, m)
  <2>1. c1 = c \/ c1 = [c EXCEPT !.verified = TRUE]
    BY Zenon
  <2>2. TlsSettled(setup, c1)
    <3>1. CASE check = "ok"
      BY <1>4, <3>1
    <3>2. CASE check = "certificate"
      BY <1>4, <3>2, Zenon
    <3> QED BY <1>10, <3>1, <3>2
  <2> HIDE DEF c1
  <2> QED BY <1>10, <2>1, <2>2, ServerReadsInit
<1>11. CASE m.type = "set_option" /\ SetOption(s, c1, m)
  <2>1. c1 = c /\ c.init
    BY <1>3, <1>5, <1>11
  <2> DEFINE r == Msg("set_option_reply", m.seq, c.tls, "none")
  <2>2. Answer(s, c, r) /\ clusters' = clusters
    BY <1>11, <2>1 DEF SetOption
  <2>3. r = Msg(r.type, m.seq, c.tls, "none") /\ r.type = "set_option_reply"
    BY DEF Msg
  <2> HIDE DEF r
  <2> QED BY <1>11, <2>2, <2>3, ServerReadsOfConnected
<1>12. CASE m.type = "echo_request" /\ EchoRequest(s, c1, m)
  <2>1. c1 = c /\ c.init
    BY <1>3, <1>5, <1>12
  <2> DEFINE r == Msg("echo_reply", m.seq, c.tls, "none")
  <2>2. Answer(s, c, r) /\ clusters' = clusters
    BY <1>12, <2>1 DEF EchoRequest
  <2>3. r = Msg(r.type, m.seq, c.tls, "none") /\ r.type = "echo_reply"
    BY DEF Msg
  <2> HIDE DEF r
  <2> QED BY <1>12, <2>2, <2>3, ServerReadsOfConnected
<1> QED BY <1>7, <1>8, <1>9, <1>10, <1>11, <1>12

(* qnetd_client_net_read                                                    *)
LEMMA ServerReadStep ==
    ASSUME Inv, NEW s \in Slots, ServerRead(s)
    PROVE  Inv'
<1> DEFINE m == Head(slot[s].up)
           c == DpdReschedule(slot[s].client, m)
<1>1. /\ Serving(s) /\ slot[s].up # <<>> /\ UNCHANGED <<setup, dev, config, reach, faults>>
      /\ Preinit(s, c, m) \/ Starttls(s, c, m) \/ Checked(s, c, m)
  BY DEF ServerRead
<1>2. CASE Preinit(s, c, m)
  BY <1>1, <1>2, ServerReadsPreinit
<1>3. CASE Starttls(s, c, m)
  BY <1>1, <1>3, ServerReadsStarttls
<1>4. CASE Checked(s, c, m)
  BY <1>1, <1>4, ServerReadsChecked
<1> QED BY <1>1, <1>2, <1>3, <1>4

-----------------------------------------------------------------------------
(* The server gives up a client                                            *)

(* A new client, and a place for a connection that is free.                 *)
LEMMA FreeSlotIsOk ==
    ASSUME NEW u \in Setups
    PROVE  /\ NewClient \in ClientType /\ NewClient.exists /\ ~NewClient.init /\ ~NewClient.tls
           /\ ~NewClient.preinit /\ ClientOk(u, NewClient)
           /\ NoClient \in ClientType /\ ~NoClient.exists /\ ~NoClient.init
           /\ ClientOk(u, NoClient)
           /\ FreeSlot \in SlotType /\ FreeSlot.link = "free" /\ FreeSlot.client = NoClient
           /\ FreeSlot.up = <<>> /\ FreeSlot.down = <<>> /\ SlotOk(u, FreeSlot)
           /\ (\A c : UpOk(u, <<>>, c)) /\ DownOk(u, <<>>)
<1>1. DpdCoefficient * HeartbeatMax \in Nat
  <2>1. DpdCoefficient \in Nat /\ HeartbeatMax \in Nat
    BY SessionAssumption
  <2> QED BY <2>1
<1> DEFINE x == DpdCoefficient * HeartbeatMax
<1>2. NewClient =
        [exists |-> TRUE, preinit |-> FALSE, tls |-> FALSE, verified |-> FALSE, init |-> FALSE,
         node |-> 0, config |-> 0, cluster |-> "", interval |-> x, dpd |-> x, disconnect |-> "none"]
  BY DEF NewClient
<1>3. x \in Nat /\ x \in Int /\ x >= Off /\ x # Off
  BY <1>1 DEF Off
<1> HIDE DEF x
<1>4. "" \in Names
  BY DEF Names
<1>5. NewClient \in ClientType /\ NewClient.exists = TRUE /\ NewClient.init = FALSE
  BY <1>2, <1>3, <1>4 DEF ClientType
<1>6. NewClient.tls = FALSE /\ NewClient.preinit = FALSE /\ NewClient.dpd = x
  BY <1>2
<1>7. NoClient \in ClientType /\ NoClient.exists = FALSE /\ NoClient.init = FALSE /\ NoClient.dpd = x
  BY <1>5, <1>6 DEF NoClient, ClientType
<1>8. ClientOk(u, NewClient) /\ ClientOk(u, NoClient)
  BY <1>3, <1>5, <1>6, <1>7 DEF ClientOk
<1>9. (\A c : UpOk(u, <<>>, c)) /\ DownOk(u, <<>>)
  <2>1. DOMAIN <<>> = {}
    OBVIOUS
  <2> QED BY <2>1 DEF UpOk, DownOk
<1>10. /\ FreeSlot.link = "free" /\ FreeSlot.client = NoClient
       /\ FreeSlot.up = <<>> /\ FreeSlot.down = <<>>
  BY DEF FreeSlot
<1>11. FreeSlot \in SlotType
  <2>1. <<>> \in Seq(Msgs(UpTypes)) /\ <<>> \in Seq(Msgs(DownTypes))
    BY EmptySeq
  <2> QED BY <1>7, <2>1 DEF FreeSlot, SlotType
<1>12. SlotOk(u, FreeSlot)
  BY <1>7, <1>8, <1>9, <1>10 DEF SlotOk
<1> QED BY <1>5, <1>6, <1>7, <1>8, <1>9, <1>10, <1>11, <1>12

(* A client that changes only in its timer and its reason to disconnect.    *)
LEMMA OnlyDisconnect ==
    ASSUME NEW u \in Setups, NEW sl \in SlotType, SlotOk(u, sl), sl.client.exists,
           NEW c \in ClientType, c.exists, ClientOk(u, c), c.preinit = sl.client.preinit,
           c.tls = sl.client.tls, c.init = sl.client.init, NEW t, t = [sl EXCEPT !.client = c]
    PROVE  /\ t \in SlotType /\ SlotOk(u, t)
           /\ t.link = sl.link /\ t.up = sl.up /\ t.down = sl.down /\ t.client = c
<1>1. t \in SlotType
  BY DEF SlotType
<1>2. t.link = sl.link /\ t.up = sl.up /\ t.down = sl.down /\ t.client = c
  BY DEF SlotType
<1>3. UpOk(u, sl.up, c)
  <2>1. UpOk(u, sl.up, sl.client)
    BY DEF SlotOk
  <2> QED BY <2>1, Zenon DEF UpOk
<1>4. sl.link # "free"
  BY FreeSlotIsOk DEF SlotOk
<1> QED BY <1>1, <1>2, <1>3, <1>4 DEF SlotOk

(* The client closed the connection.                                        *)
LEMMA ServerEofStep ==
    ASSUME Inv, NEW s \in Slots, ServerEof(s)
    PROVE  Inv'
<1> DEFINE c == [slot[s].client EXCEPT !.disconnect = "closed"]
           t == [slot[s] EXCEPT !.client = c]
<1>1. /\ Serving(s) /\ slot[s].link = "device_closed"
      /\ UNCHANGED <<setup, dev, config, clusters, reach, faults>>
  BY DEF ServerEof
<1>2. setup \in Setups /\ slot \in [Slots -> SlotType] /\ SlotOk(setup, slot[s])
  BY DEF Inv, TypeInv
<1>3. slot[s] \in SlotType /\ slot[s].client \in ClientType /\ slot[s].client.exists
  BY <1>1, <1>2 DEF SlotType, Serving
<1>4. slot' = [slot EXCEPT ![s] = t]
  BY <1>2 DEF ServerEof
<1>5. c \in ClientType /\ c.disconnect = "closed" /\ c.dpd = slot[s].client.dpd
  BY <1>3 DEF ClientType
<1>6. c.exists = slot[s].client.exists /\ c.preinit = slot[s].client.preinit
  BY <1>3 DEF ClientType
<1>7. c.tls = slot[s].client.tls /\ c.init = slot[s].client.init /\ c.verified = slot[s].client.verified
  BY <1>3 DEF ClientType
<1>8. c.interval = slot[s].client.interval /\ c.config = slot[s].client.config
  BY <1>3 DEF ClientType
<1>9. c.cluster = slot[s].client.cluster /\ c.node = slot[s].client.node
  BY <1>3 DEF ClientType
<1> HIDE DEF c
<1>10. ClientOk(setup, c)
  <2>1. ClientOk(setup, slot[s].client)
    BY <1>2 DEF SlotOk
  <2>2. TlsSettled(setup, slot[s].client) => TlsSettled(setup, c)
    BY <1>7, Zenon DEF TlsSettled
  <2>3. c.init => /\ c.preinit /\ c.interval = Interval /\ c.config \in DOMAIN Configs
                  /\ TlsSettled(setup, c)
    BY <1>6, <1>7, <1>8, <2>1, <2>2, Zenon DEF ClientOk
  <2> QED BY <1>3, <1>5, <1>6, <2>1, <2>3 DEF ClientOk
<1>11. c.exists /\ SameClient(slot[s].client, c)
  BY <1>3, <1>6, <1>7, <1>8, <1>9, Zenon DEF SameClient
<1>12. /\ t \in SlotType /\ SlotOk(setup, t) /\ t.link = slot[s].link /\ t.client = c
  BY <1>2, <1>3, <1>5, <1>6, <1>7, <1>10, <1>11, OnlyDisconnect
<1> HIDE DEF t
<1>13. ASSUME NEW d \in Devices, dev[d].conn = s PROVE FALSE
  <2>1. LinkOk(setup, dev[d], slot[s])
    BY <1>13, PeerOf
  <2> QED BY <1>1, <2>1 DEF LinkOk
<1>14. t.link \notin {"up", "server_closed"}
  BY <1>1, <1>12
<1>15. ClustersOk(clusters', slot')
  BY <1>1, <1>4, <1>11, <1>12, ClientChanged
<1> QED BY <1>1, <1>4, <1>12, <1>13, <1>14, <1>15, StepOfSlot

(* qnetd_dpd_timer_cb: the timer of an admitted client whose connection is  *)
(* up does not expire.                                                      *)
LEMMA DpdTimerStep ==
    ASSUME Inv, NEW s \in Slots, DpdTimer(s)
    PROVE  Inv'
<1> DEFINE o == slot[s].client
           c == [o EXCEPT !.dpd = Off, !.disconnect = IF @ = "none" THEN "dpd" ELSE @]
           t == [slot[s] EXCEPT !.client = c]
<1>1. /\ o.exists /\ o.dpd = 0 /\ UNCHANGED <<setup, dev, config, clusters, reach, faults>>
  BY DEF DpdTimer
<1>2. setup \in Setups /\ slot \in [Slots -> SlotType] /\ SlotOk(setup, slot[s])
  BY DEF Inv, TypeInv
<1>3. slot[s] \in SlotType /\ o \in ClientType
  BY <1>2 DEF SlotType
<1>4. slot' = [slot EXCEPT ![s] = t]
  BY <1>2, <1>3 DEF DpdTimer, SlotType, ClientType
<1>5. c \in ClientType /\ c.disconnect # "none" /\ c.dpd = Off
  <2> DEFINE y == IF o.disconnect = "none" THEN "dpd" ELSE o.disconnect
             a == [o EXCEPT !.dpd = Off]
  <2>1. y \in {"dpd", "closed", "certificate"}
    BY <1>3 DEF ClientType
  <2>2. a \in ClientType /\ a.dpd = Off
    BY <1>3 DEF ClientType, Off
  <2>3. c = [a EXCEPT !.disconnect = y]
    BY <1>3 DEF ClientType
  <2> HIDE DEF y, a, c
  <2> QED BY <2>1, <2>2, <2>3 DEF ClientType
<1>6. c.exists = o.exists /\ c.preinit = o.preinit
  BY <1>3 DEF ClientType
<1>7. c.tls = o.tls /\ c.init = o.init /\ c.verified = o.verified
  BY <1>3 DEF ClientType
<1>8. c.interval = o.interval /\ c.config = o.config
  BY <1>3 DEF ClientType
<1>9. c.cluster = o.cluster /\ c.node = o.node
  BY <1>3 DEF ClientType
<1> HIDE DEF c
<1>10. ClientOk(setup, c)
  <2>1. ClientOk(setup, o)
    BY <1>2 DEF SlotOk
  <2>2. TlsSettled(setup, o) => TlsSettled(setup, c)
    BY <1>7, Zenon DEF TlsSettled
  <2>3. c.init => /\ c.preinit /\ c.interval = Interval /\ c.config \in DOMAIN Configs
                  /\ TlsSettled(setup, c)
    BY <1>6, <1>7, <1>8, <2>1, <2>2, Zenon DEF ClientOk
  <2> QED BY <1>1, <1>5, <1>6, <2>3 DEF ClientOk, Off
<1>11. c.exists /\ SameClient(o, c)
  BY <1>1, <1>6, <1>7, <1>8, <1>9, Zenon DEF SameClient
<1>12. /\ t \in SlotType /\ SlotOk(setup, t)
       /\ t.link = slot[s].link /\ t.up = slot[s].up /\ t.down = slot[s].down /\ t.client = c
  BY <1>1, <1>2, <1>3, <1>5, <1>6, <1>7, <1>10, <1>11, OnlyDisconnect
<1> HIDE DEF t
<1>13. ASSUME NEW d \in Devices, dev[d].conn = s PROVE LinkOk(setup, dev[d], t)
  <2> DEFINE v == dev[d]
  <2>1. LinkOk(setup, v, slot[s])
    BY <1>13, PeerOf
  <2>2. ASSUME slot[s].link = "up" PROVE SessionOk(setup, v, t)
    <3>1. SessionOk(setup, v, slot[s])
      BY <2>1, <2>2 DEF LinkOk
    <3>2. ~o.init
      BY <1>1, <3>1 DEF SessionOk
    <3>3. ~c.init /\ (~o.tls => ~c.tls) /\ (o.preinit => c.preinit)
      BY <1>6, <1>7, <3>2, Zenon
    <3>4. v.state = "waiting_preinit_reply" => PreinitOk(v, t)
      BY <1>12, <3>1, <3>3 DEF SessionOk, PreinitOk
    <3>5. v.state = "waiting_init_reply" => InitOk(v, t)
      <4>1. SUFFICES ASSUME InitOk(v, slot[s]) PROVE InitOk(v, t)
        BY <3>1 DEF SessionOk
      <4>2. t.client.tls = slot[s].client.tls
        BY <1>7, <1>12, Zenon
      <4> QED BY <1>5, <1>12, <3>2, <3>3, <4>1, <4>2 DEF InitOk
    <3>6. v.state # "connected"
      BY <3>1, <3>2 DEF SessionOk, ConnectedOk
    <3> QED BY <1>12, <3>1, <3>3, <3>4, <3>5, <3>6 DEF SessionOk
  <2> QED BY <1>12, <2>1, <2>2 DEF LinkOk
<1>14. t.link \in {"up", "server_closed"} => Uses(s)
  BY <1>12 DEF Inv, ConnsOk
<1>15. ClustersOk(clusters', slot')
  BY <1>1, <1>4, <1>11, <1>12, ClientChanged
<1> QED BY <1>1, <1>4, <1>12, <1>13, <1>14, <1>15, StepOfSlot

(* A connection that the server has closed.                                 *)
ByServer(sl, used) ==
    Cleared([Closed(sl, "server_closed") EXCEPT !.client = NoClient, !.up = <<>>], used)

(* What becomes of a connection that the server closes.                     *)
LEMMA ClosedByServer ==
    ASSUME NEW u \in Setups, NEW sl \in SlotType, SlotOk(u, sl), NEW used \in BOOLEAN,
           used => sl.link \in {"up", "cut", "server_closed"},
           NEW t, t = ByServer(sl, used)
    PROVE  /\ t \in SlotType /\ SlotOk(u, t) /\ ~t.client.init
           /\ used => t.link \in {"cut", "server_closed"} /\ t.down = sl.down
           /\ ~used => t = FreeSlot
<1> DEFINE x == IF sl.link = "up" THEN "server_closed" ELSE sl.link
           k == [link |-> x, up |-> <<>>, down |-> sl.down, client |-> NoClient]
<1>1. /\ NoClient \in ClientType /\ ~NoClient.exists /\ ~NoClient.init /\ ClientOk(u, NoClient)
      /\ FreeSlot \in SlotType /\ FreeSlot.client = NoClient /\ SlotOk(u, FreeSlot)
      /\ (\A c : UpOk(u, <<>>, c))
  BY FreeSlotIsOk
<1>2. [Closed(sl, "server_closed") EXCEPT !.client = NoClient, !.up = <<>>] = k
  <2> DEFINE rec == [link |-> x, up |-> sl.up, down |-> sl.down, client |-> sl.client]
  <2>1. Closed(sl, "server_closed") = rec
    BY SlotWith, Zenon DEF Closed
  <2>2. [rec EXCEPT !.client = NoClient, !.up = <<>>] = k
    <3> HIDE DEF x
    <3>1. [rec EXCEPT !.client = NoClient] =
             [link |-> x, up |-> sl.up, down |-> sl.down, client |-> NoClient]
      OBVIOUS
    <3>2. [[link |-> x, up |-> sl.up, down |-> sl.down, client |-> NoClient] EXCEPT !.up = <<>>] = k
      OBVIOUS
    <3> QED BY <3>1, <3>2, Zenon
  <2> QED BY <2>1, <2>2, Zenon
<1>3. t = IF ~used /\ ~k.client.exists THEN FreeSlot ELSE k
  BY <1>2, Zenon DEF ByServer, Cleared
<1>4. CASE ~used
  BY <1>1, <1>3, <1>4
<1>5. CASE used
  <2>1. t = k
    BY <1>3, <1>5
  <2>2. x \in {"cut", "server_closed"}
    BY <1>5
  <2>3. t \in SlotType
    <3>1. <<>> \in Seq(Msgs(UpTypes)) /\ sl.down \in Seq(Msgs(DownTypes))
      BY EmptySeq DEF SlotType
    <3> HIDE DEF x
    <3> QED BY <1>1, <2>1, <2>2, <3>1 DEF SlotType
  <2>4. DownOk(u, sl.down) /\ (x = "cut" => sl.down = <<>>)
    BY DEF SlotOk
  <2> HIDE DEF x
  <2>5. t.link = x /\ t.up = <<>> /\ t.down = sl.down /\ t.client = NoClient
    BY <2>1
  <2>6. SlotOk(u, t)
    BY <1>1, <2>2, <2>4, <2>5 DEF SlotOk
  <2> QED BY <1>1, <1>5, <2>2, <2>3, <2>5, <2>6
<1> QED BY <1>4, <1>5

(* A device whose connection the server has closed, or that is cut.         *)
LEMMA LinkDown ==
    ASSUME NEW u, NEW v, NEW sl, LinkOk(u, v, sl),
           NEW t, t.link \in {"cut", "server_closed"}, t.down = sl.down
    PROVE  LinkOk(u, v, t)
BY DEF LinkOk

(* qnetd_instance_client_disconnect                                         *)
LEMMA ClientDisconnectStep ==
    ASSUME Inv, NEW s \in Slots, ClientDisconnect(s)
    PROVE  Inv'
<1> DEFINE t == ByServer(slot[s], Uses(s))
<1>1. /\ slot[s].client.exists /\ UNCHANGED <<setup, dev, config, reach, faults>>
      /\ clusters' = IF slot[s].client.init THEN DelClient(slot[s].client.cluster, s) ELSE clusters
  BY DEF ClientDisconnect
<1>2. slot' = [slot EXCEPT ![s] = t]
  BY DEF ClientDisconnect, ByServer
<1>3. setup \in Setups /\ slot[s] \in SlotType /\ SlotOk(setup, slot[s])
  BY DEF Inv, TypeInv
<1>4. Uses(s) \in BOOLEAN /\ (Uses(s) => slot[s].link \in {"up", "cut", "server_closed"})
  BY PeerOf DEF Uses, LinkOk
<1>5. /\ t \in SlotType /\ SlotOk(setup, t) /\ ~t.client.init
      /\ Uses(s) => t.link \in {"cut", "server_closed"} /\ t.down = slot[s].down
      /\ ~Uses(s) => t = FreeSlot
  BY <1>3, <1>4, ClosedByServer
<1> HIDE DEF t
<1>6. ASSUME NEW d \in Devices, dev[d].conn = s PROVE LinkOk(setup, dev[d], t)
  <2>1. LinkOk(setup, dev[d], slot[s]) /\ Uses(s)
    BY <1>6, PeerOf DEF Uses
  <2> QED BY <1>5, <2>1, LinkDown
<1>7. t.link \in {"up", "server_closed"} => Uses(s)
  BY <1>3, <1>5, FreeSlotIsOk
<1>8. ClustersOk(clusters', slot')
  <2>1. CASE slot[s].client.init
    BY <1>1, <1>2, <1>5, <2>1, ClustersWithoutClient
  <2>2. CASE ~slot[s].client.init
    <3>1. slot[s].client.init \in BOOLEAN /\ t.client.init \in BOOLEAN
      BY <1>3, <1>5 DEF SlotType, ClientType
    <3>2. SameClient(slot[s].client, t.client)
      BY <1>5, <2>2, <3>1 DEF SameClient
    <3> QED BY <1>1, <1>2, <2>2, <3>2, ClientChanged
  <2> QED BY <2>1, <2>2
<1> QED BY <1>1, <1>2, <1>5, <1>6, <1>7, <1>8, StepOfSlot

-----------------------------------------------------------------------------
(* The device                                                              *)

(* A device of which one field is changed.                                  *)
LEMMA DevWith ==
    ASSUME NEW w \in DevType
    PROVE  /\ \A x \in Slots \cup {NoSlot} : [w EXCEPT !.conn = x] \in DevType
           /\ \A x \in States : [w EXCEPT !.state = x] \in DevType
           /\ \A x \in BOOLEAN : [w EXCEPT !.tls = x] \in DevType
           /\ \A x \in Nat : [w EXCEPT !.seq = x] \in DevType
           /\ \A x \in Int : [w EXCEPT !.connect = x] \in DevType
           /\ \A x \in Int : [w EXCEPT !.echo = x] \in DevType
           /\ \A x \in Int : [w EXCEPT !.sleep = x] \in DevType
           /\ \A x \in Nat : [w EXCEPT !.expected = x] \in DevType
           /\ \A x \in Nat : [w EXCEPT !.received = x] \in DevType
           /\ \A x \in Reasons : [w EXCEPT !.disconnect = x] \in DevType
<1>1. \A x \in Slots \cup {NoSlot} : [w EXCEPT !.conn = x] \in DevType
  BY DEF DevType
<1>2. \A x \in States : [w EXCEPT !.state = x] \in DevType
  BY DEF DevType
<1>3. \A x \in BOOLEAN : [w EXCEPT !.tls = x] \in DevType
  BY DEF DevType
<1>4. \A x \in Nat : [w EXCEPT !.seq = x] \in DevType
  BY DEF DevType
<1>5. \A x \in Int : [w EXCEPT !.connect = x] \in DevType
  BY DEF DevType
<1>6. \A x \in Int : [w EXCEPT !.echo = x] \in DevType
  BY DEF DevType
<1>7. \A x \in Int : [w EXCEPT !.sleep = x] \in DevType
  BY DEF DevType
<1>8. \A x \in Nat : [w EXCEPT !.expected = x] \in DevType
  BY DEF DevType
<1>9. \A x \in Nat : [w EXCEPT !.received = x] \in DevType
  BY DEF DevType
<1>10. \A x \in Reasons : [w EXCEPT !.disconnect = x] \in DevType
  BY DEF DevType
<1> QED BY <1>1, <1>2, <1>3, <1>4, <1>5, <1>6, <1>7, <1>8, <1>9, <1>10

(* A device that will disconnect.                                           *)
LEMMA ScheduledDevice ==
    ASSUME NEW v \in DevType, NEW r \in Reasons, NEW w, w = Scheduled(v, r)
    PROVE  /\ w \in DevType /\ w.disconnect = r
           /\ w.conn = v.conn /\ w.state = v.state /\ w.tls = v.tls /\ w.connect = v.connect
           /\ w.echo = v.echo /\ w.sleep = v.sleep /\ w.expected = v.expected
           /\ w.received = v.received
<1>1. w \in DevType
  BY DevWith DEF Scheduled
<1>2. w.disconnect = r /\ w.conn = v.conn /\ w.state = v.state
  BY DEF Scheduled, DevType
<1>3. w.tls = v.tls /\ w.connect = v.connect /\ w.echo = v.echo
  BY DEF Scheduled, DevType
<1>4. w.sleep = v.sleep /\ w.expected = v.expected /\ w.received = v.received
  BY DEF Scheduled, DevType
<1> QED BY <1>1, <1>2, <1>3, <1>4

(* What the invariant says of a device does not depend on a reason that is  *)
(* not about echoes.                                                        *)
LEMMA ScheduledIsOk ==
    ASSUME NEW u, NEW d, NEW v \in DevType, DevOk(u, d, v),
           NEW r \in Reasons, v.conn # NoSlot \/ r \notin EchoReasons,
           NEW w, w = Scheduled(v, r)
    PROVE  DevOk(u, d, w)
<1>1. /\ w \in DevType /\ w.disconnect = r
      /\ w.conn = v.conn /\ w.state = v.state /\ w.tls = v.tls /\ w.connect = v.connect
      /\ w.echo = v.echo /\ w.sleep = v.sleep /\ w.expected = v.expected
  BY ScheduledDevice
<1> QED BY <1>1, Zenon DEF DevOk

(* A step of a device and of its connection.                                *)
LEMMA DeviceStep ==
    ASSUME Inv, NEW d \in Devices, NEW v \in DevType, NEW t \in SlotType, dev[d].conn # NoSlot,
           dev' = [dev EXCEPT ![d] = v], slot' = [slot EXCEPT ![dev[d].conn] = t],
           UNCHANGED <<setup, config, clusters, reach, faults>>,
           v.conn = dev[d].conn, t.client = slot[dev[d].conn].client,
           SlotOk(setup, t), DevOk(setup, d, v), LinkOk(setup, v, t)
    PROVE  Inv'
<1>1. /\ dev \in [Devices -> DevType] /\ config \in [Devices -> DOMAIN Configs]
      /\ reach \in [Devices -> BOOLEAN] /\ faults \in Nat /\ ConnsOk
  BY DEF Inv, TypeInv
<1>2. dev[d].conn \in Slots
  BY <1>1 DEF DevType
<1>3. \A e \in Devices : dev[e].conn = dev[d].conn => e = d
  BY <1>1 DEF ConnsOk
<1>4. SameClient(slot[dev[d].conn].client, t.client)
  BY DEF SameClient
<1>5. ClustersOk(clusters', slot')
  BY <1>2, <1>4, ClientChanged
<1> QED BY <1>1, <1>2, <1>3, <1>5, StepOfConnection, ZenonT(60)

(* The message at the head of what the server has sent is taken.            *)
LEMMA ReadSlot ==
    ASSUME NEW u \in Setups, NEW sl \in SlotType, SlotOk(u, sl), sl.down # <<>>,
           NEW t, t = ReadOf(sl)
    PROVE  /\ t \in SlotType /\ SlotOk(u, t) /\ t.link = sl.link /\ t.client = sl.client
           /\ t.up = sl.up /\ t.down = Tail(sl.down)
<1>1. sl.down \in Seq(Msgs(DownTypes))
  BY DEF SlotType
<1>2. /\ Tail(sl.down) \in Seq(Msgs(DownTypes))
      /\ \A i \in DOMAIN Tail(sl.down) : i + 1 \in DOMAIN sl.down /\ Tail(sl.down)[i] = sl.down[i + 1]
  BY <1>1, TailOfStream
<1>3. t = [link |-> sl.link, up |-> sl.up, down |-> Tail(sl.down), client |-> sl.client]
  BY SlotWith, Zenon DEF ReadOf
<1>4. /\ t.link = sl.link /\ t.client = sl.client /\ t.up = sl.up /\ t.down = Tail(sl.down)
  BY <1>3
<1>5. t \in SlotType
  BY <1>2, <1>3 DEF SlotType
<1>6. DownOk(u, t.down)
  BY <1>2, <1>4 DEF SlotOk, DownOk
<1>7. sl.link \notin {"free", "device_closed", "cut"}
  BY DEF SlotOk, FreeSlot
<1>8. SlotOk(u, t)
  BY <1>4, <1>6, <1>7 DEF SlotOk
<1> QED BY <1>4, <1>5, <1>8

(* Nothing is sent.                                                         *)
LEMMA NothingSent ==
    ASSUME NEW sl \in SlotType
    PROVE  SentUp(sl, <<>>) = sl
<1>1. sl.up \in Seq(Msgs(UpTypes))
  BY DEF SlotType
<1>2. sl.up \o <<>> = sl.up
  BY <1>1
<1>3. [sl EXCEPT !.up = sl.up] = sl
  BY DEF SlotType
<1> QED BY <1>2, <1>3, Zenon DEF SentUp

(* A device that reads: its connection.                                     *)
LEMMA ReaderOf ==
    ASSUME Inv, NEW d \in Devices, dev[d].conn # NoSlot
    PROVE  /\ setup \in Setups /\ dev[d] \in DevType /\ DevOk(setup, d, dev[d])
           /\ dev[d].conn \in Slots /\ slot[dev[d].conn] \in SlotType
           /\ SlotOk(setup, slot[dev[d].conn]) /\ LinkOk(setup, dev[d], slot[dev[d].conn])
<1>1. dev[d] \in DevType /\ slot \in [Slots -> SlotType] /\ setup \in Setups
  BY DEF Inv, TypeInv
<1>2. dev[d].conn \in Slots
  BY <1>1 DEF DevType
<1> QED BY <1>1, <1>2 DEF Inv

(* A message that the device does not accept, or that says that it cannot   *)
(* be served: the device will disconnect.                                   *)
LEMMA RefusedMessage ==
    ASSUME NEW u \in Setups, NEW v \in DevType, NEW sl \in SlotType, SlotOk(u, sl),
           LinkOk(u, v, sl), sl.down # <<>>, NEW r \in Reasons, r # "none",
           sl.link = "up" => v.state # "connected" /\ r \notin EchoReasons,
           NEW w, w.state = v.state, w.tls = v.tls, w.disconnect = r,
           NEW t, t.link = sl.link, t.client = sl.client, t.up = sl.up, t.down = Tail(sl.down)
    PROVE  LinkOk(u, w, t)
<1>1. sl.down \in Seq(Msgs(DownTypes))
  BY DEF SlotType
<1>2. /\ Len(sl.down) \in Nat /\ Len(Tail(sl.down)) = Len(sl.down) - 1
      /\ Len(sl.down) = 1 => Tail(sl.down) = <<>>
      /\ \A i \in DOMAIN Tail(sl.down) : i + 1 \in DOMAIN sl.down /\ Tail(sl.down)[i] = sl.down[i + 1]
  BY <1>1, TailOfStream
<1>3. \A i \in DOMAIN t.down : t.down[i].tls = w.tls
  BY <1>2 DEF LinkOk
<1>4. /\ w.state = "waiting_preinit_reply" => Len(t.down) <= 1
      /\ w.state # "waiting_starttls_being_sent"
  BY <1>2 DEF LinkOk
<1>5. ASSUME sl.link = "up" PROVE SessionOk(u, w, t)
  <2>1. SessionOk(u, v, sl)
    BY <1>5 DEF LinkOk
  <2>2. w.state = "waiting_preinit_reply" => PreinitOk(w, t)
    BY <1>2, <2>1 DEF SessionOk, PreinitOk
  <2>3. w.state = "waiting_init_reply" => InitOk(w, t)
    BY <1>2, <2>1 DEF SessionOk, InitOk
  <2> QED BY <1>4, <1>5, <2>1, <2>2, <2>3 DEF SessionOk
<1> QED BY <1>3, <1>4, <1>5 DEF LinkOk

(* A message is read and the device will disconnect.                        *)
LEMMA ReadAndGiveUp ==
    ASSUME Inv, NEW d \in Devices, dev[d].conn # NoSlot, slot[dev[d].conn].down # <<>>,
           NEW r \in Reasons, r # "none",
           slot[dev[d].conn].link = "up" => dev[d].state # "connected" /\ r \notin EchoReasons,
           Become(d, Scheduled(dev[d], r), <<>>), UNCHANGED <<setup, config, clusters, reach, faults>>
    PROVE  Inv'
<1> DEFINE v == dev[d]
           w == Scheduled(v, r)
           sl == slot[dev[d].conn]
           t == ReadOf(sl)
<1>1. /\ setup \in Setups /\ v \in DevType /\ DevOk(setup, d, v) /\ v.conn \in Slots
      /\ sl \in SlotType /\ SlotOk(setup, sl) /\ LinkOk(setup, v, sl)
  BY ReaderOf
<1>2. /\ t \in SlotType /\ SlotOk(setup, t) /\ t.link = sl.link /\ t.client = sl.client
      /\ t.up = sl.up /\ t.down = Tail(sl.down)
  BY <1>1, ReadSlot
<1>3. /\ w \in DevType /\ w.disconnect = r
      /\ w.conn = v.conn /\ w.state = v.state /\ w.tls = v.tls
  BY <1>1, ScheduledDevice
<1>4. DevOk(setup, d, w)
  BY <1>1, ScheduledIsOk
<1>5. dev' = [dev EXCEPT ![d] = w] /\ slot' = [slot EXCEPT ![dev[d].conn] = SentUp(t, <<>>)]
  BY DEF Become
<1> HIDE DEF w, t
<1>6. SentUp(t, <<>>) = t
  BY <1>2, NothingSent
<1>7. LinkOk(setup, w, t)
  BY <1>1, <1>2, <1>3, RefusedMessage
<1> QED BY <1>1, <1>2, <1>3, <1>4, <1>5, <1>6, <1>7, DeviceStep

(* A device in the clear: one of the two sides cannot do TLS, and none      *)
(* insists on it.                                                           *)
LEMMA ClearIsAllowed ==
    ASSUME NEW u \in Setups, NEW d \in Devices, TlsCompatibility(u.server, u.device[d]) = 0
    PROVE  MayBeClear(u)
<1>1. u.server \in {"unsupported", "supported", "required"}
      /\ u.device[d] \in {"unsupported", "supported", "required"}
  BY Constants DEF TlsModes
<1>2. u.server = "required" => FALSE
  BY <1>1 DEF TlsCompatibility
<1>3. u.server = "unsupported" \/ u.device[d] = "unsupported"
  BY <1>1 DEF TlsCompatibility
<1> QED BY <1>2, <1>3 DEF MayBeClear

(* The three results of the comparison.                                     *)
LEMMA TlsCompared ==
    ASSUME NEW a \in TlsModes, NEW b \in TlsModes
    PROVE  TlsCompatibility(a, b) \in {-1, 0, 1}
<1>1. a \in {"unsupported", "supported", "required"} /\ b \in {"unsupported", "supported", "required"}
  BY DEF TlsModes
<1> QED BY <1>1 DEF TlsCompatibility

(* What a device becomes when its preinit was answered.                     *)
Advanced(v, st) == [NextSeq(v) EXCEPT !.state = st]

(* The number of its last message and its state change.                     *)
LEMMA AdvancedDevice ==
    ASSUME NEW v \in DevType, NEW st \in States, NEW w, w = Advanced(v, st)
    PROVE  /\ w \in DevType /\ w.state = st /\ w.seq = v.seq + 1 /\ NextSeq(v).seq = v.seq + 1
           /\ NextSeq(v).tls = v.tls
           /\ w.conn = v.conn /\ w.tls = v.tls /\ w.connect = v.connect
           /\ w.echo = v.echo /\ w.sleep = v.sleep /\ w.expected = v.expected
           /\ w.received = v.received /\ w.disconnect = v.disconnect
<1> DEFINE a == NextSeq(v)
<1>1. v.seq + 1 \in Nat
  BY DEF DevType
<1>2. a \in DevType
  BY <1>1, DevWith DEF NextSeq
<1>3. w \in DevType
  <2> HIDE DEF a
  <2> QED BY <1>2, DevWith DEF Advanced, a
<1>4. w.state = st /\ w.seq = v.seq + 1 /\ a.seq = v.seq + 1 /\ a.tls = v.tls
  BY DEF Advanced, NextSeq, DevType
<1>5. w.conn = v.conn /\ w.tls = v.tls /\ w.connect = v.connect
  BY DEF Advanced, NextSeq, DevType
<1>6. w.echo = v.echo /\ w.sleep = v.sleep /\ w.expected = v.expected
  BY DEF Advanced, NextSeq, DevType
<1>7. w.received = v.received /\ w.disconnect = v.disconnect
  BY DEF Advanced, NextSeq, DevType
<1> QED BY <1>3, <1>4, <1>5, <1>6, <1>7

(* Messages are sent to a client that has read all that was sent before.    *)
LEMMA SentToIdle ==
    ASSUME NEW u, NEW sl \in SlotType, SlotOk(u, sl), NEW q \in Seq(Msgs(UpTypes)),
           sl.link = "up" => sl.up = <<>> /\ UpOk(u, q, sl.client),
           NEW t, t = SentUp(sl, q)
    PROVE  /\ t \in SlotType /\ SlotOk(u, t)
           /\ t.link = sl.link /\ t.down = sl.down /\ t.client = sl.client
           /\ sl.link = "up" => t.up = q
           /\ sl.link # "up" => t = sl
<1>1. CASE sl.link # "up"
  BY <1>1 DEF SentUp
<1>2. CASE sl.link = "up"
  <2>1. sl.up \o q = q
    BY <1>2, ConcatEmptySeq
  <2>2. t = [link |-> sl.link, up |-> q, down |-> sl.down, client |-> sl.client]
    BY <1>2, <2>1, SlotWith, Zenon DEF SentUp
  <2>3. /\ sl.link \in {"free", "up", "cut", "device_closed", "server_closed"}
        /\ sl.down \in Seq(Msgs(DownTypes)) /\ sl.client \in ClientType
    BY DEF SlotType
  <2>4. t \in SlotType
    BY <2>2, <2>3 DEF SlotType
  <2>5. t.link = sl.link /\ t.down = sl.down /\ t.client = sl.client /\ t.up = q
    BY <2>2
  <2>6. SlotOk(u, t)
    BY <1>2, <2>5 DEF SlotOk
  <2> QED BY <1>2, <2>4, <2>5, <2>6
<1> QED BY <1>1, <1>2

(* An init in the clear is what comes after a preinit.                      *)
LEMMA InitIsExpected ==
    ASSUME NEW u \in Setups, NEW c \in ClientType, c.preinit, ~c.tls, ~c.init, MayBeClear(u),
           NEW r, r.type = "init", r.age = 0, r.tls = FALSE, r.opt \in InitOpts
    PROVE  UpOk(u, <<r>>, c)
<1>1. c.tls = FALSE
  BY DEF ClientType
<1>2. 0 <= u.maxDelay
  BY Constants
<1> DEFINE q == <<r>>
<1>3. Len(q) = 1 /\ DOMAIN q = {1} /\ q[1] = r
  OBVIOUS
<1> HIDE DEF q
<1>4. \A i \in DOMAIN q : q[i].tls = (c.tls \/ (i = 2 /\ q[1].type = "starttls"))
  BY <1>1, <1>3
<1>5. UpOk(u, q, c)
  BY <1>2, <1>3, <1>4 DEF UpOk
<1> QED BY <1>5 DEF q

(* A preinit reply that arrives in time: the device goes on.                *)
LEMMA PreinitReplyRead ==
    ASSUME NEW u \in Setups, NEW d \in Devices, NEW v \in DevType, DevOk(u, d, v),
           NEW sl \in SlotType, SlotOk(u, sl), LinkOk(u, v, sl), sl.down # <<>>,
           v.state = "waiting_preinit_reply", v.disconnect = "none"
    PROVE  /\ Tail(sl.down) = <<>> /\ v.tls = FALSE /\ v.conn # NoSlot
           /\ sl.link = "up" => /\ sl.up = <<>> /\ sl.client.preinit
                                /\ ~sl.client.tls /\ ~sl.client.init
<1>1. sl.down \in Seq(Msgs(DownTypes)) /\ Len(sl.down) <= 1
  BY DEF SlotType, LinkOk
<1>2. Len(sl.down) = 1 /\ Tail(sl.down) = <<>>
  <2> DEFINE n == Len(sl.down)
  <2>1. n \in Nat /\ n > 0 /\ n <= 1
    BY <1>1, TailOfStream
  <2>2. n = 1 => Tail(sl.down) = <<>>
    BY <1>1, TailOfStream
  <2> HIDE DEF n
  <2>3. n = 1
    BY <2>1
  <2> QED BY <2>2, <2>3, Zenon DEF n
<1>3. v.tls = FALSE /\ v.conn # NoSlot
  BY DEF DevOk, DevType
<1>4. ASSUME sl.link = "up" PROVE PreinitOk(v, sl)
  BY <1>4 DEF LinkOk, SessionOk
<1> QED BY <1>2, <1>3, <1>4 DEF PreinitOk

(* qdevice_net_msg_received_preinit_reply with TLS: a starttls comes next.  *)
LEMMA GoesOnToStarttls ==
    ASSUME Inv, NEW d \in Devices, slot[dev[d].conn].down # <<>>, dev[d].conn # NoSlot,
           dev[d].state = "waiting_preinit_reply", dev[d].disconnect = "none",
           Become(d, Advanced(dev[d], "waiting_starttls_being_sent"), <<>>),
           UNCHANGED <<setup, config, clusters, reach, faults>>
    PROVE  Inv'
<1> DEFINE v == dev[d]
           w == Advanced(v, "waiting_starttls_being_sent")
           sl == slot[dev[d].conn]
           t == ReadOf(sl)
<1>1. /\ setup \in Setups /\ v \in DevType /\ DevOk(setup, d, v) /\ v.conn \in Slots
      /\ sl \in SlotType /\ SlotOk(setup, sl) /\ LinkOk(setup, v, sl)
  BY ReaderOf
<1>2. /\ t \in SlotType /\ SlotOk(setup, t) /\ t.link = sl.link /\ t.client = sl.client
      /\ t.up = sl.up /\ t.down = Tail(sl.down)
  BY <1>1, ReadSlot
<1>3. /\ w \in DevType /\ w.state = "waiting_starttls_being_sent"
      /\ w.conn = v.conn /\ w.tls = v.tls /\ w.connect = v.connect
      /\ w.echo = v.echo /\ w.sleep = v.sleep /\ w.expected = v.expected
      /\ w.disconnect = v.disconnect
  BY <1>1, AdvancedDevice DEF States
<1>4. /\ Tail(sl.down) = <<>> /\ v.tls = FALSE /\ v.conn # NoSlot
      /\ sl.link = "up" => /\ sl.up = <<>> /\ sl.client.preinit
                           /\ ~sl.client.tls /\ ~sl.client.init
  BY <1>1, PreinitReplyRead
<1>5. dev' = [dev EXCEPT ![d] = w] /\ slot' = [slot EXCEPT ![dev[d].conn] = SentUp(t, <<>>)]
  BY DEF Become
<1> HIDE DEF w, t
<1>6. SentUp(t, <<>>) = t
  BY <1>2, NothingSent
<1>7. DevOk(setup, d, w)
  BY <1>1, <1>3, <1>4 DEF DevOk
<1>8. ASSUME t.link = "up" PROVE SessionOk(setup, w, t)
  BY <1>2, <1>3, <1>4, <1>8 DEF SessionOk, EchoReasons
<1>9. LinkOk(setup, w, t)
  BY <1>1, <1>2, <1>3, <1>4, <1>8 DEF LinkOk
<1> QED BY <1>1, <1>2, <1>3, <1>5, <1>6, <1>7, <1>9, DeviceStep

(* qdevice_net_msg_received_preinit_reply without TLS: the init is sent.    *)
LEMMA GoesOnToInit ==
    ASSUME Inv, NEW d \in Devices, slot[dev[d].conn].down # <<>>, dev[d].conn # NoSlot,
           dev[d].state = "waiting_preinit_reply", dev[d].disconnect = "none",
           TlsCompatibility(setup.server, setup.device[d]) = 0,
           NEW r, r = InitOf(d, NextSeq(dev[d])),
           Become(d, Advanced(dev[d], "waiting_init_reply"), <<r>>),
           UNCHANGED <<setup, config, clusters, reach, faults>>
    PROVE  Inv'
<1> DEFINE v == dev[d]
           w == Advanced(v, "waiting_init_reply")
           sl == slot[dev[d].conn]
           k == ReadOf(sl)
           t == SentUp(k, <<r>>)
<1>1. /\ setup \in Setups /\ v \in DevType /\ DevOk(setup, d, v) /\ v.conn \in Slots
      /\ sl \in SlotType /\ SlotOk(setup, sl) /\ LinkOk(setup, v, sl)
  BY ReaderOf
<1>2. /\ k \in SlotType /\ SlotOk(setup, k) /\ k.link = sl.link /\ k.client = sl.client
      /\ k.up = sl.up /\ k.down = Tail(sl.down)
  BY <1>1, ReadSlot
<1>3. /\ w \in DevType /\ w.state = "waiting_init_reply" /\ NextSeq(v).seq = v.seq + 1
      /\ NextSeq(v).tls = v.tls
      /\ w.conn = v.conn /\ w.tls = v.tls /\ w.connect = v.connect
      /\ w.echo = v.echo /\ w.sleep = v.sleep /\ w.expected = v.expected
      /\ w.disconnect = v.disconnect
  BY <1>1, AdvancedDevice DEF States
<1>4. /\ Tail(sl.down) = <<>> /\ v.tls = FALSE /\ v.conn # NoSlot
      /\ sl.link = "up" => /\ sl.up = <<>> /\ sl.client.preinit
                           /\ ~sl.client.tls /\ ~sl.client.init
  BY <1>1, PreinitReplyRead
<1>5. dev' = [dev EXCEPT ![d] = w] /\ slot' = [slot EXCEPT ![dev[d].conn] = t]
  BY DEF Become
<1>6. /\ r \in Msgs(UpTypes) /\ r.type = "init" /\ r.age = 0 /\ r.tls = FALSE /\ r.opt \in InitOpts
  <2>1. config[d] \in DOMAIN Configs /\ v.seq + 1 \in Nat
    BY <1>1 DEF Inv, TypeInv, DevType
  <2>2. r = [type |-> "init", seq |-> v.seq + 1, tls |-> FALSE,
             opt |-> [node |-> d, config |-> config[d]], age |-> 0]
    BY <1>3, <1>4 DEF InitOf, Msg
  <2>3. [node |-> d, config |-> config[d]] \in InitOpts
    BY <2>1 DEF InitOpts
  <2>4. [node |-> d, config |-> config[d]] \in Opts
    BY <2>3 DEF Opts
  <2> QED BY <2>1, <2>2, <2>3, <2>4 DEF Msgs, UpTypes
<1> HIDE DEF w, k, t
<1>7. sl.link = "up" => UpOk(setup, <<r>>, sl.client)
  <2>1. MayBeClear(setup) /\ sl.client \in ClientType
    BY <1>1, ClearIsAllowed DEF SlotType
  <2> QED BY <1>1, <1>4, <1>6, <2>1, InitIsExpected
<1>8. <<r>> \in Seq(Msgs(UpTypes)) /\ Len(<<r>>) = 1 /\ <<r>>[1] = r
  BY <1>6
<1>9. /\ t \in SlotType /\ SlotOk(setup, t)
      /\ t.link = sl.link /\ t.down = k.down /\ t.client = sl.client
      /\ sl.link = "up" => t.up = <<r>>
  <2> DEFINE q == <<r>>
  <2>1. k.link = "up" => k.up = <<>> /\ UpOk(setup, q, k.client)
    BY <1>2, <1>4, <1>7
  <2>2. t = SentUp(k, q) /\ q \in Seq(Msgs(UpTypes))
    BY <1>8 DEF t
  <2> HIDE DEF q
  <2>3. /\ t \in SlotType /\ SlotOk(setup, t)
        /\ t.link = k.link /\ t.down = k.down /\ t.client = k.client
        /\ k.link = "up" => t.up = q
    BY <1>2, <2>1, <2>2, SentToIdle
  <2> QED BY <1>2, <2>3 DEF q
<1>10. DevOk(setup, d, w)
  BY <1>1, <1>3, <1>4 DEF DevOk
<1>11. ASSUME t.link = "up" PROVE SessionOk(setup, w, t)
  <2>1. t.up = <<r>> /\ Len(t.up) = 1 /\ t.up[1] = r /\ t.down = <<>>
    BY <1>2, <1>4, <1>8, <1>9, <1>11
  <2>2. t.client.tls = w.tls /\ ~t.client.init
    <3>1. sl.client.tls \in BOOLEAN
      BY <1>1 DEF SlotType, ClientType
    <3> QED BY <1>3, <1>4, <1>9, <1>11, <3>1
  <2>3. InitOk(w, t)
    BY <1>6, <2>1, <2>2, SMTT(40) DEF InitOk
  <2> QED BY <1>3, <2>2, <2>3 DEF SessionOk, EchoReasons
<1>12. LinkOk(setup, w, t)
  BY <1>1, <1>2, <1>3, <1>4, <1>9, <1>11 DEF LinkOk
<1> QED BY <1>1, <1>3, <1>5, <1>9, <1>10, <1>12, DeviceStep

(* qdevice_net_msg_received_preinit_reply                                   *)
LEMMA PreinitReplyStep ==
    ASSUME Inv, NEW d \in Devices, Alive(d), dev[d].conn # NoSlot, slot[dev[d].conn].down # <<>>,
           NEW m, m = Head(slot[dev[d].conn].down), PreinitReply(d, m),
           UNCHANGED <<setup, config, clusters, reach, faults>>
    PROVE  Inv'
<1> DEFINE v == dev[d]
           sl == slot[dev[d].conn]
           tls == TlsCompatibility(m.opt, setup.device[d])
<1>1. /\ setup \in Setups /\ v \in DevType /\ DevOk(setup, d, v) /\ v.conn \in Slots
      /\ sl \in SlotType /\ SlotOk(setup, sl) /\ LinkOk(setup, v, sl)
  BY ReaderOf
<1>2. v.disconnect = "none" /\ m.type = "preinit_reply"
  BY DEF Alive, PreinitReply
<1>3. m = sl.down[1] /\ 1 \in DOMAIN sl.down
  <2>1. sl.down \in Seq(Msgs(DownTypes))
    BY <1>1, SMTT(40) DEF SlotType
  <2> QED BY <2>1
<1>4. m.opt = setup.server
  BY <1>1, <1>2, <1>3 DEF SlotOk, DownOk
<1>5. tls \in {-1, 0, 1}
  <2>1. setup.server \in TlsModes /\ setup.device[d] \in TlsModes
    BY <1>1, Constants
  <2> QED BY <1>4, <2>1, TlsCompared
<1>6. CASE v.state # "waiting_preinit_reply"
  <2>1. Become(d, Scheduled(v, "unexpected_msg"), <<>>)
    BY <1>6 DEF PreinitReply
  <2>2. sl.link = "up" => v.state # "connected"
    BY <1>2, <1>3, <1>1 DEF LinkOk, SessionOk, ConnectedOk
  <2>3. "unexpected_msg" \in Reasons /\ "unexpected_msg" \notin EchoReasons
    BY DEF Reasons, EchoReasons
  <2> QED BY <2>1, <2>2, <2>3, ReadAndGiveUp
<1>7. CASE v.state = "waiting_preinit_reply" /\ tls = -1
  <2>1. Become(d, Scheduled(v, "incompatible_tls"), <<>>)
    <3>1. tls = -1 /\ tls # 1 /\ tls # 0
      BY <1>7
    <3> QED BY <1>7, <3>1, Zenon DEF PreinitReply
  <2>3. "incompatible_tls" \in Reasons /\ "incompatible_tls" \notin EchoReasons
    BY DEF Reasons, EchoReasons
  <2> QED BY <1>7, <2>1, <2>3, ReadAndGiveUp
<1>8. CASE v.state = "waiting_preinit_reply" /\ tls = 1
  <2>1. Become(d, Advanced(v, "waiting_starttls_being_sent"), <<>>)
    <3>1. tls = 1 /\ tls # -1 /\ tls # 0
      BY <1>8
    <3> QED BY <1>8, <3>1, Zenon DEF PreinitReply, Advanced
  <2> QED BY <1>2, <1>8, <2>1, GoesOnToStarttls
<1>9. CASE v.state = "waiting_preinit_reply" /\ tls = 0
  <2> DEFINE r == InitOf(d, NextSeq(dev[d]))
  <2>1. Become(d, Advanced(v, "waiting_init_reply"), <<r>>)
    BY <1>9 DEF PreinitReply, Advanced
  <2>2. TlsCompatibility(setup.server, setup.device[d]) = 0
    BY <1>4, <1>9
  <2> HIDE DEF r
  <2>3. r = InitOf(d, NextSeq(dev[d]))
    BY DEF r
  <2> QED BY <1>2, <1>9, <2>1, <2>2, <2>3, GoesOnToInit
<1> HIDE DEF tls
<1> QED BY <1>5, <1>6, <1>7, <1>8, <1>9

(* A starttls and an init in TLS are what comes after a preinit.            *)
LEMMA StarttlsIsExpected ==
    ASSUME NEW u \in Setups, NEW c \in ClientType, c.preinit, ~c.tls, ~c.init,
           NEW a, a.type = "starttls", a.age = 0, a.tls = FALSE,
           NEW r, r.type = "init", r.age = 0, r.tls = TRUE, r.opt \in InitOpts,
           NEW q, q = <<a, r>>
    PROVE  UpOk(u, q, c)
<1>1. c.tls = FALSE
  BY DEF ClientType
<1>2. 0 <= u.maxDelay
  BY Constants
<1>3. Len(q) = 2 /\ DOMAIN q = {1, 2} /\ q[1] = a /\ q[2] = r
  OBVIOUS
<1>4. \A i \in DOMAIN q : q[i].tls = (c.tls \/ (i = 2 /\ q[1].type = "starttls"))
  BY <1>1, <1>3
<1>5. \A i \in DOMAIN q : q[i].age <= u.maxDelay
  BY <1>2, <1>3
<1> QED BY <1>3, <1>4, <1>5 DEF UpOk

(* What a device becomes when it has sent its starttls.                     *)
InTls(v) == [NextSeq(v) EXCEPT !.state = "waiting_init_reply", !.tls = TRUE]

(* It waits for the reply to its init, and uses TLS.                        *)
LEMMA DeviceInTls ==
    ASSUME NEW v \in DevType, NEW w, w = InTls(v)
    PROVE  /\ w \in DevType /\ w.state = "waiting_init_reply" /\ w.tls = TRUE /\ w.seq = v.seq + 1
           /\ w.conn = v.conn /\ w.connect = v.connect
           /\ w.echo = v.echo /\ w.sleep = v.sleep /\ w.expected = v.expected
           /\ w.received = v.received /\ w.disconnect = v.disconnect
<1> DEFINE a == Advanced(v, "waiting_init_reply")
<1>1. /\ a \in DevType /\ a.state = "waiting_init_reply" /\ a.seq = v.seq + 1
      /\ a.conn = v.conn /\ a.connect = v.connect
      /\ a.echo = v.echo /\ a.sleep = v.sleep /\ a.expected = v.expected
      /\ a.received = v.received /\ a.disconnect = v.disconnect
  BY AdvancedDevice DEF States
<1>2. w = [a EXCEPT !.tls = TRUE]
  BY Zenon DEF InTls, Advanced
<1> HIDE DEF a
<1>3. w \in DevType
  BY <1>1, <1>2, DevWith
<1>4. w.state = a.state /\ w.tls = TRUE /\ w.seq = a.seq
  BY <1>1, <1>2 DEF DevType
<1>5. w.conn = a.conn /\ w.connect = a.connect /\ w.echo = a.echo /\ w.sleep = a.sleep
  BY <1>1, <1>2 DEF DevType
<1>6. w.expected = a.expected /\ w.received = a.received /\ w.disconnect = a.disconnect
  BY <1>1, <1>2 DEF DevType
<1> QED BY <1>1, <1>3, <1>4, <1>5, <1>6

(* qdevice_net_socket_write_finished                                        *)
LEMMA StarttlsSentStep ==
    ASSUME Inv, NEW d \in Devices, StarttlsSent(d)
    PROVE  Inv'
<1> DEFINE v == dev[d]
           w == InTls(v)
           sl == slot[dev[d].conn]
           a == Msg("starttls", v.seq, FALSE, "none")
           r == InitOf(d, w)
           q == <<a, r>>
           t == SentUp(sl, q)
<1>1. /\ v.state = "waiting_starttls_being_sent" /\ v.disconnect = "none"
      /\ dev' = [dev EXCEPT ![d] = w] /\ slot' = [slot EXCEPT ![dev[d].conn] = t]
      /\ UNCHANGED <<setup, config, clusters, reach, faults>>
  BY DEF StarttlsSent, InTls, Alive
<1>2. v.conn # NoSlot
  BY <1>1 DEF Inv, DevOk
<1>3. /\ setup \in Setups /\ v \in DevType /\ DevOk(setup, d, v) /\ v.conn \in Slots
      /\ sl \in SlotType /\ SlotOk(setup, sl) /\ LinkOk(setup, v, sl)
  BY <1>2, ReaderOf
<1>4. /\ sl.down = <<>>
      /\ sl.link = "up" => /\ sl.up = <<>> /\ sl.client.preinit
                           /\ ~sl.client.tls /\ ~sl.client.init
  BY <1>1, <1>3 DEF LinkOk, SessionOk
<1>5. /\ w \in DevType /\ w.state = "waiting_init_reply" /\ w.tls = TRUE /\ w.seq = v.seq + 1
      /\ w.conn = v.conn /\ w.connect = v.connect
      /\ w.echo = v.echo /\ w.sleep = v.sleep /\ w.expected = v.expected
      /\ w.disconnect = v.disconnect
  BY <1>3, DeviceInTls
<1>6. config[d] \in DOMAIN Configs /\ v.seq \in Nat
  BY <1>3 DEF Inv, TypeInv, DevType
<1> HIDE DEF w
<1>7. a \in Msgs(UpTypes) /\ a.type = "starttls" /\ a.age = 0 /\ a.tls = FALSE
  BY <1>6 DEF Msg, Msgs, UpTypes, Opts
<1>8. /\ r \in Msgs(UpTypes) /\ r.type = "init" /\ r.age = 0 /\ r.tls = TRUE /\ r.opt \in InitOpts
  <2>1. r = [type |-> "init", seq |-> v.seq + 1, tls |-> TRUE,
             opt |-> [node |-> d, config |-> config[d]], age |-> 0]
    BY <1>5 DEF InitOf, Msg
  <2>2. [node |-> d, config |-> config[d]] \in InitOpts
    BY <1>6 DEF InitOpts
  <2>3. [node |-> d, config |-> config[d]] \in Opts
    BY <2>2 DEF Opts
  <2> QED BY <1>6, <2>1, <2>2, <2>3 DEF Msgs, UpTypes
<1> HIDE DEF a, r
<1>9. q \in Seq(Msgs(UpTypes)) /\ Len(q) = 2 /\ q[1] = a
  BY <1>7, <1>8
<1>10. sl.link = "up" => sl.up = <<>> /\ UpOk(setup, q, sl.client)
  <2>1. sl.client \in ClientType
    BY <1>3 DEF SlotType
  <2> QED BY <1>3, <1>4, <1>7, <1>8, <2>1, StarttlsIsExpected
<1> HIDE DEF q
<1>11. /\ t \in SlotType /\ SlotOk(setup, t)
       /\ t.link = sl.link /\ t.down = sl.down /\ t.client = sl.client
       /\ sl.link = "up" => t.up = q
  BY <1>3, <1>9, <1>10, SentToIdle
<1> HIDE DEF t
<1>12. DevOk(setup, d, w)
  BY <1>1, <1>3, <1>5 DEF DevOk
<1>13. ASSUME t.link = "up" PROVE SessionOk(setup, w, t)
  <2>1. ~t.client.init
    BY <1>4, <1>11, <1>13
  <2>2. InitOk(w, t)
    BY <1>4, <1>5, <1>7, <1>9, <1>11, <1>13, <2>1 DEF InitOk
  <2> QED BY <1>1, <1>5, <2>1, <2>2 DEF SessionOk, EchoReasons
<1>14. LinkOk(setup, w, t)
  BY <1>3, <1>4, <1>5, <1>11, <1>13 DEF LinkOk
<1> QED BY <1>1, <1>2, <1>5, <1>11, <1>12, <1>14, DeviceStep

(* What a device becomes when it is admitted.                               *)
AdmittedBy(v) == [NextSeq(v) EXCEPT !.connect = Off, !.echo = Heartbeat,
                     !.expected = 0, !.received = 0, !.state = "connected"]

(* Its echo timer runs, and no reply is missing.                            *)
LEMMA AdmittedDevice ==
    ASSUME NEW v \in DevType, NEW w, w = AdmittedBy(v), Heartbeat \in Nat
    PROVE  /\ w \in DevType /\ w.state = "connected" /\ w.seq = v.seq + 1 /\ w.connect = Off
           /\ w.echo = Heartbeat /\ w.expected = 0 /\ w.received = 0
           /\ w.conn = v.conn /\ w.tls = v.tls /\ w.sleep = v.sleep /\ w.disconnect = v.disconnect
<1> DEFINE a1 == NextSeq(v)
           a2 == [a1 EXCEPT !.connect = Off]
           a3 == [a2 EXCEPT !.echo = Heartbeat]
           a4 == [a3 EXCEPT !.expected = 0]
           a5 == [a4 EXCEPT !.received = 0]
<1>1. a1 \in DevType
  <2>1. v.seq + 1 \in Nat
    BY DEF DevType
  <2> QED BY <2>1, DevWith DEF NextSeq
<1>2. a2 \in DevType
  <2> HIDE DEF a1
  <2>1. Off \in Int
    BY DEF Off
  <2> QED BY <1>1, <2>1, DevWith
<1>3. a3 \in DevType
  <2> HIDE DEF a2
  <2> QED BY <1>2, DevWith
<1>4. a4 \in DevType
  <2> HIDE DEF a3
  <2> QED BY <1>3, DevWith
<1>5. a5 \in DevType
  <2> HIDE DEF a4
  <2> QED BY <1>4, DevWith
<1>6. w = [a5 EXCEPT !.state = "connected"]
  BY Zenon DEF AdmittedBy
<1>7. w \in DevType
  <2> HIDE DEF a5
  <2>1. "connected" \in States
    BY DEF States
  <2> QED BY <1>5, <1>6, <2>1, DevWith
<1>8. w.state = "connected" /\ w.seq = v.seq + 1 /\ w.connect = Off
  BY DEF AdmittedBy, NextSeq, DevType
<1>9. w.echo = Heartbeat /\ w.expected = 0 /\ w.received = 0
  BY DEF AdmittedBy, NextSeq, DevType
<1>10. w.conn = v.conn /\ w.tls = v.tls
  BY DEF AdmittedBy, NextSeq, DevType
<1>11. w.sleep = v.sleep /\ w.disconnect = v.disconnect
  BY DEF AdmittedBy, NextSeq, DevType
<1> QED BY <1>7, <1>8, <1>9, <1>10, <1>11

(* An admitted client may be sent more.                                     *)
LEMMA MoreToAdmitted ==
    ASSUME NEW u \in Setups, NEW c \in ClientType, c.init, NEW up \in Seq(Msgs(UpTypes)),
           UpOk(u, up, c), NEW r \in Msgs(UpTypes), r.type \in {"set_option", "echo_request"},
           r.age = 0, r.tls = c.tls, ~r.tls => MayBeClear(u),
           NEW q, q = Append(up, r)
    PROVE  UpOk(u, q, c) /\ \A i \in DOMAIN up : up[i].type \in {"set_option", "echo_request"}
<1>1. \A i \in DOMAIN up : up[i] \in Msgs(UpTypes) /\ up[i].type \in {"set_option", "echo_request"}
  <2>1. \A i \in DOMAIN up : up[i] \in Msgs(UpTypes)
    OBVIOUS
  <2> QED BY <2>1 DEF UpOk, Msgs, UpTypes
<1>2. /\ Len(up) \in Nat /\ DOMAIN up = 1..Len(up) /\ DOMAIN q = 1..(Len(up) + 1)
      /\ \A i \in 1..Len(up) : q[i] = up[i]
      /\ q[Len(up) + 1] = r
  BY AppendToStream
<1>3. ASSUME NEW i \in DOMAIN q
      PROVE  /\ q[i].age <= u.maxDelay /\ q[i].tls = c.tls
             /\ q[i].type \in {"set_option", "echo_request"}
             /\ ~q[i].tls => MayBeClear(u)
  <2>1. CASE i = Len(up) + 1
    <3>1. 0 <= u.maxDelay
      BY Constants
    <3> QED BY <1>2, <2>1, <3>1
  <2>2. CASE i # Len(up) + 1
    <3>1. i \in DOMAIN up /\ q[i] = up[i] /\ 1 \in DOMAIN up
      BY <1>2, <2>2
    <3>2. up[1].type # "starttls"
      BY <1>1, <3>1
    <3>3. up[i].tls = c.tls
      <4>1. up[i].tls = (c.tls \/ FALSE)
        BY <3>1, <3>2 DEF UpOk
      <4> QED BY <4>1 DEF ClientType
    <3> QED BY <1>1, <3>1, <3>3 DEF UpOk
  <2> QED BY <2>1, <2>2
<1>4. 1 \in DOMAIN q
  BY <1>2
<1>5. q[1].type # "starttls"
  BY <1>3, <1>4
<1>6. \A i \in DOMAIN q : q[i].tls = (c.tls \/ (i = 2 /\ q[1].type = "starttls"))
  <2>1. c.tls \in BOOLEAN
    BY DEF ClientType
  <2> QED BY <1>3, <1>5, <2>1, Zenon
<1>7. UpOk(u, q, c)
  BY <1>3, <1>6 DEF UpOk
<1> QED BY <1>1, <1>7

(* A message is sent to an admitted client.                                 *)
LEMMA SentToAdmitted ==
    ASSUME NEW u \in Setups, NEW sl \in SlotType, SlotOk(u, sl), NEW r \in Msgs(UpTypes),
           r.type \in {"set_option", "echo_request"}, r.age = 0, ~r.tls => MayBeClear(u),
           sl.link = "up" => sl.client.init /\ r.tls = sl.client.tls,
           NEW t, t = SentUp(sl, <<r>>)
    PROVE  /\ t \in SlotType /\ SlotOk(u, t)
           /\ t.link = sl.link /\ t.down = sl.down /\ t.client = sl.client
           /\ sl.link = "up" => t.up = Append(sl.up, r)
<1>1. CASE sl.link # "up"
  BY <1>1 DEF SentUp
<1>2. CASE sl.link = "up"
  <2> DEFINE q == Append(sl.up, r)
  <2>1. /\ sl.link \in {"free", "up", "cut", "device_closed", "server_closed"}
        /\ sl.up \in Seq(Msgs(UpTypes))
        /\ sl.down \in Seq(Msgs(DownTypes)) /\ sl.client \in ClientType
    BY DEF SlotType
  <2>2. sl.up \o <<r>> = q /\ q \in Seq(Msgs(UpTypes))
    BY <2>1
  <2>3. UpOk(u, q, sl.client)
    <3>1. UpOk(u, sl.up, sl.client)
      BY DEF SlotOk
    <3> QED BY <1>2, <2>1, <3>1, MoreToAdmitted
  <2> HIDE DEF q
  <2>4. t = [link |-> sl.link, up |-> q, down |-> sl.down, client |-> sl.client]
    BY <1>2, <2>2, SlotWith, Zenon DEF SentUp
  <2>5. t \in SlotType
    BY <2>1, <2>2, <2>4 DEF SlotType
  <2>6. t.link = sl.link /\ t.down = sl.down /\ t.client = sl.client /\ t.up = q
    BY <2>4
  <2>7. SlotOk(u, t)
    BY <1>2, <2>3, <2>6 DEF SlotOk
  <2> QED BY <1>2, <2>5, <2>6, <2>7 DEF q
<1> QED BY <1>1, <1>2

(* The reply that admits a device: its client is admitted, has nothing to   *)
(* read, and was heard when the reply was sent.                             *)
LEMMA AdmissionRead ==
    ASSUME NEW u \in Setups, NEW v \in DevType, NEW sl \in SlotType, SlotOk(u, sl),
           LinkOk(u, v, sl), sl.link = "up", sl.down # <<>>, v.state = "waiting_init_reply",
           sl.down[1].type = "init_reply", sl.down[1].opt = "no_error"
    PROVE  /\ sl.client.init /\ sl.client.tls = v.tls /\ sl.up = <<>> /\ Tail(sl.down) = <<>>
           /\ sl.client.dpd \in Int /\ sl.client.dpd >= Interval - Heartbeat
           /\ sl.client.dpd > 0 /\ sl.client.disconnect # "dpd" /\ v.disconnect \notin EchoReasons
<1>1. SessionOk(u, v, sl)
  BY DEF LinkOk
<1>2. InitOk(v, sl)
  BY <1>1 DEF SessionOk
<1>3. /\ sl.client.init /\ sl.client.tls = v.tls /\ sl.up = <<>> /\ Len(sl.down) = 1
      /\ sl.client.dpd >= Interval - sl.down[1].age
  BY <1>2 DEF InitOk
<1>4. sl.down \in Seq(Msgs(DownTypes)) /\ sl.client.dpd \in Int
  BY DEF SlotType, ClientType
<1>5. Tail(sl.down) = <<>>
  BY <1>3, <1>4, TailOfStream
<1>6. sl.down[1].age \in Nat /\ sl.down[1].age <= u.maxDelay
  <2>1. 1 \in DOMAIN sl.down /\ sl.down[1] \in Msgs(DownTypes)
    BY <1>3, <1>4
  <2> QED BY <2>1 DEF SlotOk, DownOk, Msgs
<1>7. Interval \in Nat /\ Heartbeat \in Nat /\ u.maxDelay \in Nat /\ 2 * u.maxDelay < Heartbeat
  BY Constants
<1>8. sl.client.dpd >= Interval - Heartbeat
  BY <1>3, <1>4, <1>6, <1>7
<1> QED BY <1>1, <1>3, <1>4, <1>5, <1>8 DEF SessionOk

(* qdevice_net_msg_received_init_reply of a server that admits the device.  *)
LEMMA BecomesConnected ==
    ASSUME Inv, NEW d \in Devices, slot[dev[d].conn].down # <<>>, dev[d].conn # NoSlot,
           dev[d].state = "waiting_init_reply", dev[d].disconnect = "none",
           NEW m, m = Head(slot[dev[d].conn].down), m.type = "init_reply", m.opt = "no_error",
           NEW w, w = AdmittedBy(dev[d]),
           NEW r, r = Msg("set_option", w.seq, w.tls, "none"),
           Become(d, w, <<r>>), UNCHANGED <<setup, config, clusters, reach, faults>>
    PROVE  Inv'
<1> DEFINE v == dev[d]
           sl == slot[dev[d].conn]
           k == ReadOf(sl)
           t == SentUp(k, <<r>>)
<1>1. /\ setup \in Setups /\ v \in DevType /\ DevOk(setup, d, v) /\ v.conn \in Slots
      /\ sl \in SlotType /\ SlotOk(setup, sl) /\ LinkOk(setup, v, sl)
  BY ReaderOf
<1>2. /\ k \in SlotType /\ SlotOk(setup, k) /\ k.link = sl.link /\ k.client = sl.client
      /\ k.up = sl.up /\ k.down = Tail(sl.down)
  BY <1>1, ReadSlot
<1>3. Heartbeat \in Nat /\ Heartbeat > 0 /\ EchoWidth \in Nat /\ EchoWidth > 1 /\ Interval \in Nat
  BY <1>1, Constants
<1>4. /\ w \in DevType /\ w.state = "connected" /\ w.connect = Off
      /\ w.echo = Heartbeat /\ w.expected = 0 /\ w.received = 0
      /\ w.conn = v.conn /\ w.tls = v.tls /\ w.sleep = v.sleep /\ w.disconnect = v.disconnect
  BY <1>1, <1>3, AdmittedDevice
<1>5. dev' = [dev EXCEPT ![d] = w] /\ slot' = [slot EXCEPT ![dev[d].conn] = t]
  BY DEF Become
<1>6. /\ r \in Msgs(UpTypes) /\ r.type = "set_option" /\ r.age = 0 /\ r.tls = v.tls
  <2>1. w.seq \in Nat /\ w.tls \in BOOLEAN
    BY <1>4 DEF DevType
  <2> QED BY <1>4, <2>1 DEF Msg, Msgs, UpTypes, Opts
<1>7. /\ sl.down \in Seq(Msgs(DownTypes)) /\ m = sl.down[1] /\ 1 \in DOMAIN sl.down
      /\ \A i \in DOMAIN Tail(sl.down) : i + 1 \in DOMAIN sl.down /\ Tail(sl.down)[i] = sl.down[i + 1]
  <2>1. sl.down \in Seq(Msgs(DownTypes))
    BY <1>1 DEF SlotType
  <2> QED BY <2>1, TailOfStream
<1>8. sl.link = "up" =>
      /\ sl.client.init /\ sl.client.tls = v.tls /\ sl.up = <<>> /\ Tail(sl.down) = <<>>
      /\ sl.client.dpd \in Int /\ sl.client.dpd >= Interval - Heartbeat
      /\ sl.client.dpd > 0 /\ sl.client.disconnect # "dpd" /\ v.disconnect \notin EchoReasons
  BY <1>1, <1>7, AdmissionRead
<1> HIDE DEF k, t
<1>9. ~v.tls => MayBeClear(setup) /\ TlsCompatibility(setup.server, setup.device[d]) = 0
  BY <1>1, ClearIsAllowed DEF DevOk
<1>10. /\ t \in SlotType /\ SlotOk(setup, t)
       /\ t.link = sl.link /\ t.down = Tail(sl.down) /\ t.client = sl.client
       /\ sl.link = "up" => t.up = Append(sl.up, r)
  <2>1. k.link = "up" => k.client.init /\ r.tls = k.client.tls
    BY <1>2, <1>6, <1>8
  <2>2. ~r.tls => MayBeClear(setup)
    BY <1>6, <1>9
  <2>3. t = SentUp(k, <<r>>) /\ r.type \in {"set_option", "echo_request"}
    BY <1>6, SMTT(40) DEF t
  <2>4. /\ t \in SlotType /\ SlotOk(setup, t)
        /\ t.link = k.link /\ t.down = k.down /\ t.client = k.client
        /\ k.link = "up" => t.up = Append(k.up, r)
    BY <1>1, <1>2, <1>6, <2>1, <2>2, <2>3, SentToAdmitted, SMTT(40)
  <2> QED BY <1>2, <2>4
<1>11. DevOk(setup, d, w)
  <2>1. v.sleep \in Off..MaxSleep /\ v.conn # NoSlot /\ v.sleep = Off
    BY <1>1 DEF DevOk
  <2>2. w.echo \in Off..Heartbeat /\ w.connect \in Off..ConnectTimeout
    BY <1>1, <1>3, <1>4, Constants DEF Off
  <2>3. w.expected \in 0..(EchoWidth - 1)
    BY <1>3, <1>4
  <2>4. w.disconnect \notin EchoReasons
    BY <1>4 DEF EchoReasons
  <2>5. ~w.tls => TlsCompatibility(setup.server, setup.device[d]) = 0
    BY <1>4, <1>9
  <2> QED BY <1>4, <2>1, <2>2, <2>3, <2>4, <2>5 DEF DevOk
<1>12. ASSUME t.link = "up" PROVE SessionOk(setup, w, t)
  <2>1. Len(t.up) = 1 /\ t.up[1] = r /\ DOMAIN t.up = 1..1 /\ t.up # <<>> /\ t.down = <<>>
    BY <1>6, <1>8, <1>10, <1>12, OneMessage
  <2>2. EchoesOk(setup, w, t)
    BY <1>4, <1>6, <2>1 DEF EchoesOk
  <2>3. w.echo \in 0..Heartbeat
    BY <1>3, <1>4
  <2>4. t.client.init /\ t.client.tls = w.tls
    BY <1>4, <1>8, <1>10, <1>12
  <2>5. t.client.dpd >= Interval - Heartbeat - t.up[1].age
    BY <1>3, <1>6, <1>8, <1>10, <1>12, <2>1
  <2>6. ConnectedOk(setup, w, t)
    BY <2>1, <2>2, <2>3, <2>4, <2>5 DEF ConnectedOk
  <2> QED BY <1>4, <1>8, <1>10, <1>12, <2>6, SMTT(40) DEF SessionOk
<1>13. LinkOk(setup, w, t)
  <2>1. \A i \in DOMAIN t.down : t.down[i].tls = w.tls
    BY <1>1, <1>4, <1>7, <1>10 DEF LinkOk
  <2>2. t.link \in {"up", "cut", "server_closed"}
    BY <1>1, <1>10 DEF LinkOk
  <2> QED BY <1>4, <1>12, <2>1, <2>2, SMTT(40) DEF LinkOk
<1> QED BY <1>1, <1>4, <1>5, <1>10, <1>11, <1>13, DeviceStep

(* qdevice_net_msg_received_init_reply                                      *)
LEMMA InitReplyStep ==
    ASSUME Inv, NEW d \in Devices, Alive(d), dev[d].conn # NoSlot, slot[dev[d].conn].down # <<>>,
           NEW m, m = Head(slot[dev[d].conn].down), InitReply(d, m),
           UNCHANGED <<setup, config, clusters, reach, faults>>
    PROVE  Inv'
<1> DEFINE v == dev[d]
           sl == slot[dev[d].conn]
<1>1. /\ setup \in Setups /\ v \in DevType /\ DevOk(setup, d, v) /\ v.conn \in Slots
      /\ sl \in SlotType /\ SlotOk(setup, sl) /\ LinkOk(setup, v, sl)
  BY ReaderOf
<1>2. v.disconnect = "none" /\ m.type = "init_reply"
  BY SMTT(40) DEF Alive, InitReply
<1>3. m = sl.down[1] /\ 1 \in DOMAIN sl.down
  <2>1. sl.down \in Seq(Msgs(DownTypes))
    BY <1>1 DEF SlotType
  <2> QED BY <2>1
<1>4. m.opt \in Errors
  BY <1>1, <1>2, <1>3 DEF SlotOk, DownOk
<1>5. CASE v.state # "waiting_init_reply"
  <2>1. Become(d, Scheduled(v, "unexpected_msg"), <<>>)
    BY <1>5 DEF InitReply
  <2>2. sl.link = "up" => v.state # "connected"
    BY <1>2, <1>3, <1>1 DEF LinkOk, SessionOk, ConnectedOk
  <2>3. "unexpected_msg" \in Reasons /\ "unexpected_msg" \notin EchoReasons
    BY DEF Reasons, EchoReasons
  <2> QED BY <2>1, <2>2, <2>3, ReadAndGiveUp
<1>6. CASE v.state = "waiting_init_reply" /\ m.seq # v.seq
  <2>1. Become(d, Scheduled(v, "required_option_missing"), <<>>)
    BY <1>6 DEF InitReply
  <2>2. "required_option_missing" \in Reasons /\ "required_option_missing" \notin EchoReasons
    BY DEF Reasons, EchoReasons
  <2> QED BY <1>6, <2>1, <2>2, ReadAndGiveUp
<1>7. CASE v.state = "waiting_init_reply" /\ m.seq = v.seq /\ m.opt # "no_error"
  <2>1. Become(d, Scheduled(v, m.opt), <<>>)
    BY <1>7 DEF InitReply
  <2>2. m.opt \in Reasons /\ m.opt \notin EchoReasons /\ m.opt # "none"
    BY <1>4 DEF Reasons, EchoReasons, Errors
  <2> QED BY <1>7, <2>1, <2>2, ReadAndGiveUp
<1>8. CASE v.state = "waiting_init_reply" /\ m.seq = v.seq /\ m.opt = "no_error"
  <2> DEFINE w == AdmittedBy(v)
             r == Msg("set_option", w.seq, w.tls, "none")
  <2>1. Become(d, w, <<r>>)
    BY <1>8 DEF InitReply, AdmittedBy
  <2>2. w = AdmittedBy(dev[d]) /\ r = Msg("set_option", w.seq, w.tls, "none")
    OBVIOUS
  <2> HIDE DEF w, r
  <2> QED BY <1>2, <1>8, <2>1, <2>2, BecomesConnected
<1> QED BY <1>5, <1>6, <1>7, <1>8, SMTT(40)

(* qdevice_net_msg_received_server_error                                    *)
LEMMA ServerErrorStep ==
    ASSUME Inv, NEW d \in Devices, dev[d].conn # NoSlot, slot[dev[d].conn].down # <<>>,
           NEW m, m = Head(slot[dev[d].conn].down), ServerErrorReceived(d, m),
           UNCHANGED <<setup, config, clusters, reach, faults>>
    PROVE  Inv'
<1> DEFINE v == dev[d]
           sl == slot[dev[d].conn]
<1>1. sl \in SlotType /\ LinkOk(setup, v, sl)
  BY ReaderOf
<1>2. m = sl.down[1] /\ 1 \in DOMAIN sl.down
  <2>1. sl.down \in Seq(Msgs(DownTypes))
    BY <1>1 DEF SlotType
  <2> QED BY <2>1
<1>3. m.type = "server_error" /\ Become(d, Scheduled(v, "server_sent_error"), <<>>)
  BY DEF ServerErrorReceived
<1>4. sl.link = "up" => v.state # "connected"
  BY <1>1, <1>2, <1>3 DEF LinkOk, SessionOk, ConnectedOk
<1>5. "server_sent_error" \in Reasons /\ "server_sent_error" \notin EchoReasons
  BY DEF Reasons, EchoReasons
<1> QED BY <1>3, <1>4, <1>5, ReadAndGiveUp

(* Only a connected device has a reply of a later message on its way.       *)
LEMMA WhoIsAnswered ==
    ASSUME NEW u \in Setups, NEW d \in Devices, NEW v \in DevType, DevOk(u, d, v), v.conn # NoSlot,
           NEW sl \in SlotType, LinkOk(u, v, sl), sl.link = "up", sl.down # <<>>,
           sl.down[1].type \in {"set_option_reply", "echo_reply"}
    PROVE  v.state = "connected" /\ ConnectedOk(u, v, sl)
<1>1. v.state \in {"waiting_preinit_reply", "waiting_starttls_being_sent",
                   "waiting_init_reply", "connected"}
  BY DEF DevOk, DevType, States
<1>2. SessionOk(u, v, sl)
  BY DEF LinkOk
<1>3. v.state # "waiting_starttls_being_sent"
  BY DEF LinkOk
<1>4. v.state # "waiting_preinit_reply"
  BY <1>2 DEF SessionOk, PreinitOk
<1>5. v.state # "waiting_init_reply"
  BY <1>2 DEF SessionOk, InitOk
<1> QED BY <1>1, <1>2, <1>3, <1>4, <1>5 DEF SessionOk

(* A reply that is taken: the other echoes are still expected.              *)
LEMMA EchoesAfterReply ==
    ASSUME NEW u, NEW v, NEW sl \in SlotType, EchoesOk(u, v, sl), sl.down # <<>>,
           NEW w, w.echo = v.echo, w.expected = v.expected,
           \/ sl.down[1].type # "echo_reply" /\ w.received = v.received
           \/ sl.down[1].type = "echo_reply" /\ w.received = v.expected,
           NEW t, t.up = sl.up, t.down = Tail(sl.down)
    PROVE  EchoesOk(u, w, t)
<1>1. sl.down \in Seq(Msgs(DownTypes))
  BY DEF SlotType
<1>2. /\ Len(sl.down) \in Nat /\ Len(sl.down) > 0 /\ DOMAIN sl.down = 1..Len(sl.down)
      /\ DOMAIN t.down = 1..(Len(sl.down) - 1) /\ 1 \in DOMAIN sl.down
      /\ \A i \in DOMAIN t.down : i + 1 \in DOMAIN sl.down /\ t.down[i] = sl.down[i + 1]
  BY <1>1, TailOfStream
<1>3. CASE sl.down[1].type # "echo_reply" /\ w.received = v.received
  <2>1. ASSUME NEW i \in DOMAIN t.up, t.up[i].type = "echo_request"
        PROVE  /\ w.received # w.expected /\ t.up[i].seq = w.expected
               /\ w.echo >= Heartbeat - t.up[i].age
               /\ \A k \in DOMAIN t.up : t.up[k].type = "echo_request" => k = i
               /\ \A k \in DOMAIN t.down : t.down[k].type # "echo_reply"
    BY <1>2, <1>3, <2>1 DEF EchoesOk
  <2>2. ASSUME NEW i \in DOMAIN t.down, t.down[i].type = "echo_reply"
        PROVE  /\ w.received # w.expected /\ t.down[i].seq = w.expected
               /\ w.echo >= Heartbeat - u.maxDelay - t.down[i].age
               /\ \A k \in DOMAIN t.down : t.down[k].type = "echo_reply" => k = i
    <3>1. i + 1 \in DOMAIN sl.down /\ t.down[i] = sl.down[i + 1]
      BY <1>2
    <3>2. /\ v.received # v.expected /\ sl.down[i + 1].seq = v.expected
          /\ v.echo >= Heartbeat - u.maxDelay - sl.down[i + 1].age
          /\ \A k \in DOMAIN sl.down : sl.down[k].type = "echo_reply" => k = i + 1
      BY <2>2, <3>1 DEF EchoesOk
    <3>3. \A k \in DOMAIN t.down : t.down[k].type = "echo_reply" => k + 1 = i + 1
      BY <1>2, <3>2
    <3>4. \A k \in DOMAIN t.down : t.down[k].type = "echo_reply" => k = i
      BY <1>2, <3>3
    <3> QED BY <1>3, <3>1, <3>2, <3>4
  <2>3. ASSUME w.received # w.expected
        PROVE  \/ \E i \in DOMAIN t.up : t.up[i].type = "echo_request"
               \/ \E i \in DOMAIN t.down : t.down[i].type = "echo_reply"
    <3>1. CASE \E i \in DOMAIN sl.up : sl.up[i].type = "echo_request"
      BY <3>1
    <3>2. CASE \E i \in DOMAIN sl.down : sl.down[i].type = "echo_reply"
      <4>1. PICK i \in DOMAIN sl.down : sl.down[i].type = "echo_reply"
        BY <3>2
      <4>2. i # 1
        BY <1>3, <4>1
      <4>3. i - 1 \in DOMAIN t.down /\ (i - 1) + 1 = i
        BY <1>2, <4>2
      <4>4. t.down[i - 1] = sl.down[i]
        BY <1>2, <4>3
      <4> QED BY <4>1, <4>3, <4>4
    <3> QED BY <1>3, <2>3, <3>1, <3>2 DEF EchoesOk
  <2> QED BY <2>1, <2>2, <2>3 DEF EchoesOk
<1>4. CASE sl.down[1].type = "echo_reply" /\ w.received = v.expected
  <2>1. \A i \in DOMAIN t.up : t.up[i].type # "echo_request"
    BY <1>2, <1>4 DEF EchoesOk
  <2>2. \A i \in DOMAIN sl.down : sl.down[i].type = "echo_reply" => i = 1
    BY <1>2, <1>4 DEF EchoesOk
  <2>3. \A i \in DOMAIN t.down : t.down[i].type # "echo_reply"
    <3>1. \A i \in DOMAIN t.down : i + 1 # 1
      BY <1>2
    <3> QED BY <1>2, <2>2, <3>1
  <2> QED BY <1>4, <2>1, <2>3 DEF EchoesOk
<1> QED BY <1>3, <1>4

(* A reply is taken by a device that goes on as it is.                      *)
LEMMA ReplyTaken ==
    ASSUME NEW u \in Setups, NEW d \in Devices, NEW v \in DevType, DevOk(u, d, v), v.conn # NoSlot,
           NEW sl \in SlotType, LinkOk(u, v, sl), sl.down # <<>>,
           sl.down[1].type \in {"set_option_reply", "echo_reply"},
           NEW w, w.state = v.state, w.tls = v.tls, w.disconnect = v.disconnect, w.echo = v.echo,
           w.expected = v.expected,
           \/ sl.down[1].type # "echo_reply" /\ w.received = v.received
           \/ sl.down[1].type = "echo_reply" /\ w.received = v.expected,
           NEW t, t.link = sl.link, t.client = sl.client, t.up = sl.up, t.down = Tail(sl.down)
    PROVE  LinkOk(u, w, t)
<1>1. sl.down \in Seq(Msgs(DownTypes))
  BY DEF SlotType
<1>2. /\ Len(sl.down) \in Nat /\ Len(Tail(sl.down)) = Len(sl.down) - 1
      /\ \A i \in DOMAIN Tail(sl.down) : i + 1 \in DOMAIN sl.down /\ Tail(sl.down)[i] = sl.down[i + 1]
  BY <1>1, TailOfStream
<1>3. \A i \in DOMAIN t.down : t.down[i].tls = w.tls
  BY <1>2 DEF LinkOk
<1>4. /\ w.state = "waiting_preinit_reply" => Len(t.down) <= 1
      /\ w.state # "waiting_starttls_being_sent"
  BY <1>2 DEF LinkOk
<1>5. ASSUME sl.link = "up" PROVE SessionOk(u, w, t)
  <2>1. SessionOk(u, v, sl)
    BY <1>5 DEF LinkOk
  <2>2. v.state = "connected" /\ ConnectedOk(u, v, sl)
    BY <1>5, WhoIsAnswered
  <2>3. EchoesOk(u, v, sl)
    BY <2>2 DEF ConnectedOk
  <2>4. EchoesOk(u, w, t)
    BY <2>3, EchoesAfterReply
  <2>5. \A i \in DOMAIN t.down : t.down[i].type \in {"set_option_reply", "echo_reply"}
    BY <1>2, <2>2 DEF ConnectedOk
  <2>6. ConnectedOk(u, w, t)
    BY <2>2, <2>4, <2>5 DEF ConnectedOk
  <2> QED BY <2>1, <2>2, <2>6 DEF SessionOk
<1> QED BY <1>3, <1>4, <1>5 DEF LinkOk

(* A step that takes such a reply.                                          *)
LEMMA ReplyStep ==
    ASSUME Inv, NEW d \in Devices, dev[d].conn # NoSlot, slot[dev[d].conn].down # <<>>,
           slot[dev[d].conn].down[1].type \in {"set_option_reply", "echo_reply"},
           NEW w \in DevType, DevOk(setup, d, w),
           w.conn = dev[d].conn, w.state = dev[d].state, w.tls = dev[d].tls,
           w.disconnect = dev[d].disconnect, w.echo = dev[d].echo, w.expected = dev[d].expected,
           \/ slot[dev[d].conn].down[1].type # "echo_reply" /\ w.received = dev[d].received
           \/ slot[dev[d].conn].down[1].type = "echo_reply" /\ w.received = dev[d].expected,
           Become(d, w, <<>>), UNCHANGED <<setup, config, clusters, reach, faults>>
    PROVE  Inv'
<1> DEFINE v == dev[d]
           sl == slot[dev[d].conn]
           t == ReadOf(sl)
<1>1. /\ setup \in Setups /\ v \in DevType /\ DevOk(setup, d, v) /\ v.conn \in Slots
      /\ sl \in SlotType /\ SlotOk(setup, sl) /\ LinkOk(setup, v, sl)
  BY ReaderOf
<1>2. /\ t \in SlotType /\ SlotOk(setup, t) /\ t.link = sl.link /\ t.client = sl.client
      /\ t.up = sl.up /\ t.down = Tail(sl.down)
  BY <1>1, ReadSlot
<1>5. dev' = [dev EXCEPT ![d] = w] /\ slot' = [slot EXCEPT ![dev[d].conn] = SentUp(t, <<>>)]
  BY DEF Become
<1> HIDE DEF t
<1>6. SentUp(t, <<>>) = t
  BY <1>2, NothingSent
<1>7. LinkOk(setup, w, t)
  BY <1>1, <1>2, ReplyTaken
<1> QED BY <1>1, <1>2, <1>5, <1>6, <1>7, DeviceStep

(* qdevice_net_msg_received_set_option_reply                                *)
LEMMA SetOptionReplyStep ==
    ASSUME Inv, NEW d \in Devices, dev[d].conn # NoSlot, slot[dev[d].conn].down # <<>>,
           NEW m, m = Head(slot[dev[d].conn].down), SetOptionReply(d, m),
           UNCHANGED <<setup, config, clusters, reach, faults>>
    PROVE  Inv'
<1> DEFINE v == dev[d]
           sl == slot[dev[d].conn]
<1>1. /\ setup \in Setups /\ v \in DevType /\ DevOk(setup, d, v) /\ v.conn \in Slots
      /\ sl \in SlotType /\ SlotOk(setup, sl) /\ LinkOk(setup, v, sl)
  BY ReaderOf
<1>2. m = sl.down[1] /\ m.type = "set_option_reply"
  <2>1. sl.down \in Seq(Msgs(DownTypes))
    BY <1>1 DEF SlotType
  <2> QED BY <2>1 DEF SetOptionReply
<1>3. CASE v.state = "connected"
  <2>1. Become(d, v, <<>>)
    BY <1>3, Zenon DEF SetOptionReply
  <2> QED BY <1>1, <1>2, <2>1, ReplyStep
<1>4. CASE v.state # "connected"
  <2>1. Become(d, Scheduled(v, "unexpected_msg"), <<>>)
    BY <1>4, Zenon DEF SetOptionReply
  <2>2. "unexpected_msg" \in Reasons /\ "unexpected_msg" \notin EchoReasons
    BY DEF Reasons, EchoReasons
  <2> QED BY <1>4, <2>1, <2>2, ReadAndGiveUp
<1> QED BY <1>3, <1>4

(* qdevice_net_msg_received_echo_reply                                      *)
LEMMA EchoReplyStep ==
    ASSUME Inv, NEW d \in Devices, dev[d].conn # NoSlot, slot[dev[d].conn].down # <<>>,
           NEW m, m = Head(slot[dev[d].conn].down), EchoReply(d, m),
           UNCHANGED <<setup, config, clusters, reach, faults>>
    PROVE  Inv'
<1> DEFINE v == dev[d]
           sl == slot[dev[d].conn]
<1>1. /\ setup \in Setups /\ v \in DevType /\ DevOk(setup, d, v) /\ v.conn \in Slots
      /\ sl \in SlotType /\ SlotOk(setup, sl) /\ LinkOk(setup, v, sl)
  BY ReaderOf
<1>2. m = sl.down[1] /\ m.type = "echo_reply" /\ 1 \in DOMAIN sl.down
  <2>1. sl.down \in Seq(Msgs(DownTypes))
    BY <1>1 DEF SlotType
  <2> QED BY <2>1 DEF EchoReply
<1>3. CASE m.seq = v.expected
  <2> DEFINE w == [v EXCEPT !.received = m.seq]
  <2>1. Become(d, w, <<>>)
    BY <1>3, Zenon DEF EchoReply
  <2>2. w \in DevType
    <3>1. m.seq \in Nat
      BY <1>1, <1>3 DEF DevType
    <3> QED BY <1>1, <3>1, DevWith
  <2>3. w.conn = v.conn /\ w.state = v.state /\ w.tls = v.tls /\ w.received = v.expected
    BY <1>1, <1>3 DEF DevType
  <2>4. w.disconnect = v.disconnect /\ w.echo = v.echo /\ w.expected = v.expected
    BY <1>1 DEF DevType
  <2>5. w.connect = v.connect /\ w.sleep = v.sleep
    BY <1>1 DEF DevType
  <2> HIDE DEF w
  <2>6. DevOk(setup, d, w)
    BY <1>1, <2>3, <2>4, <2>5, Zenon DEF DevOk
  <2> QED BY <1>2, <2>1, <2>2, <2>3, <2>4, <2>6, ReplyStep
<1>4. CASE m.seq # v.expected
  <2>1. Become(d, Scheduled(v, "algo_echo_reply_received"), <<>>)
    BY <1>4, Zenon DEF EchoReply
  <2>2. sl.link # "up"
    <3>1. SUFFICES ASSUME sl.link = "up" PROVE FALSE
      OBVIOUS
    <3>2. ConnectedOk(setup, v, sl)
      BY <1>1, <1>2, <3>1, WhoIsAnswered
    <3>3. EchoesOk(setup, v, sl)
      BY <3>2 DEF ConnectedOk
    <3>4. \A i \in DOMAIN sl.down : sl.down[i].type = "echo_reply" => sl.down[i].seq = v.expected
      BY <3>3, Zenon DEF EchoesOk
    <3>5. sl.down[1].seq = v.expected
      BY <1>2, <3>4, Zenon
    <3> QED BY <1>2, <1>4, <3>5, Zenon
  <2>3. "algo_echo_reply_received" \in Reasons /\ "algo_echo_reply_received" # "none"
    BY DEF Reasons, EchoReasons
  <2> QED BY <2>1, <2>2, <2>3, ReadAndGiveUp
<1> QED BY <1>3, <1>4

(* qdevice_net_socket_read                                                  *)
LEMMA DeviceReadStep ==
    ASSUME Inv, NEW d \in Devices, DeviceRead(d)
    PROVE  Inv'
<1> DEFINE m == Head(slot[dev[d].conn].down)
<1>1. /\ Alive(d) /\ dev[d].conn # NoSlot /\ slot[dev[d].conn].down # <<>>
      /\ UNCHANGED <<setup, config, clusters, reach, faults>>
      /\ \/ PreinitReply(d, m) \/ InitReply(d, m) \/ ServerErrorReceived(d, m)
         \/ SetOptionReply(d, m) \/ EchoReply(d, m)
  BY DEF DeviceRead
<1>2. m = Head(slot[dev[d].conn].down)
  OBVIOUS
<1> HIDE DEF m
<1>3. CASE PreinitReply(d, m)
  BY <1>1, <1>2, <1>3, PreinitReplyStep
<1>4. CASE InitReply(d, m)
  BY <1>1, <1>2, <1>4, InitReplyStep
<1>5. CASE ServerErrorReceived(d, m)
  BY <1>1, <1>2, <1>5, ServerErrorStep
<1>6. CASE SetOptionReply(d, m)
  BY <1>1, <1>2, <1>6, SetOptionReplyStep
<1>7. CASE EchoReply(d, m)
  BY <1>1, <1>2, <1>7, EchoReplyStep
<1> QED BY <1>1, <1>3, <1>4, <1>5, <1>6, <1>7

(* The server closed the connection: the device will disconnect.            *)
LEMMA DeviceEofStep ==
    ASSUME Inv, NEW d \in Devices, DeviceEof(d)
    PROVE  Inv'
<1> DEFINE v == dev[d]
           w == Scheduled(v, "server_closed_connection")
           sl == slot[dev[d].conn]
<1>1. /\ v.conn # NoSlot /\ sl.link = "server_closed" /\ dev' = [dev EXCEPT ![d] = w]
      /\ UNCHANGED <<setup, config, slot, clusters, reach, faults>>
  BY DEF DeviceEof
<1>2. /\ setup \in Setups /\ v \in DevType /\ DevOk(setup, d, v)
      /\ sl \in SlotType /\ LinkOk(setup, v, sl)
  BY <1>1, ReaderOf
<1>3. /\ config' \in [Devices -> DOMAIN Configs] /\ reach' \in [Devices -> BOOLEAN]
      /\ faults' \in Nat
  BY <1>1 DEF Inv, TypeInv
<1>4. "server_closed_connection" \in Reasons /\ "server_closed_connection" \notin EchoReasons
  BY DEF Reasons, EchoReasons
<1>5. w \in DevType /\ w.conn = v.conn /\ w.state = v.state /\ w.tls = v.tls
  BY <1>2, <1>4, ScheduledDevice
<1>6. DevOk(setup, d, w)
  BY <1>2, <1>4, ScheduledIsOk
<1> HIDE DEF w
<1>7. LinkOk(setup, w, sl)
  BY <1>1, <1>2, <1>5 DEF LinkOk
<1> QED BY <1>1, <1>3, <1>5, <1>6, <1>7, StepOfDevice

(* qdevice_model_net_timer_connect_timeout                                  *)
LEMMA ConnectTimerStep ==
    ASSUME Inv, NEW d \in Devices, ConnectTimer(d)
    PROVE  Inv'
<1> DEFINE v == dev[d]
           r == "cant_connect_to_the_server"
           a == Scheduled(v, r)
           w == [a EXCEPT !.connect = Off]
           sl == slot[dev[d].conn]
<1>1. /\ v.connect = 0 /\ dev' = [dev EXCEPT ![d] = w]
      /\ UNCHANGED <<setup, config, slot, clusters, reach, faults>>
  BY DEF ConnectTimer
<1>2. setup \in Setups /\ v \in DevType /\ DevOk(setup, d, v)
  BY DEF Inv, TypeInv
<1>3. /\ config' \in [Devices -> DOMAIN Configs] /\ reach' \in [Devices -> BOOLEAN]
      /\ faults' \in Nat
  BY <1>1 DEF Inv, TypeInv
<1>4. r \in Reasons /\ r \notin EchoReasons /\ r # "none"
  BY DEF Reasons, EchoReasons
<1>5. a \in DevType /\ a.conn = v.conn /\ a.state = v.state /\ a.tls = v.tls
      /\ a.disconnect = r /\ a.echo = v.echo /\ a.sleep = v.sleep /\ a.expected = v.expected
  BY <1>2, <1>4, ScheduledDevice
<1> HIDE DEF a, r
<1>6. w \in DevType
  BY <1>5, DevWith DEF Off
<1>7. w.conn = v.conn /\ w.state = v.state /\ w.tls = v.tls /\ w.connect = Off
  BY <1>5 DEF DevType
<1>8. w.disconnect = r /\ w.echo = v.echo /\ w.sleep = v.sleep /\ w.expected = v.expected
  BY <1>5 DEF DevType
<1> HIDE DEF w
<1>9. v.state # "connected" /\ 0 # Off /\ Off \in Off..ConnectTimeout
  BY <1>1, <1>2, Constants DEF DevOk, Off
<1>10. DevOk(setup, d, w)
  BY <1>2, <1>4, <1>7, <1>8, <1>9 DEF DevOk
<1>11. ASSUME v.conn # NoSlot PROVE LinkOk(setup, w, sl)
  <2>1. sl \in SlotType /\ LinkOk(setup, v, sl)
    BY <1>11, ReaderOf
  <2>2. ASSUME sl.link = "up" PROVE SessionOk(setup, w, sl)
    <3>1. SessionOk(setup, v, sl)
      BY <2>1, <2>2 DEF LinkOk
    <3>2. w.state = "waiting_preinit_reply" => PreinitOk(w, sl)
      BY <1>4, <1>7, <1>8, <3>1 DEF SessionOk, PreinitOk
    <3>3. w.state = "waiting_init_reply" => InitOk(w, sl)
      BY <1>4, <1>7, <1>8, <3>1 DEF SessionOk, InitOk
    <3> QED BY <1>4, <1>7, <1>8, <1>9, <3>1, <3>2, <3>3 DEF SessionOk
  <2> QED BY <1>7, <2>1, <2>2 DEF LinkOk
<1> QED BY <1>1, <1>3, <1>6, <1>7, <1>10, <1>11, StepOfDevice

(* An echo reply is missing only when the connection is cut or closed: on a *)
(* connection that is up the request and its reply arrive before the timer  *)
(* expires.                                                                 *)
LEMMA NoReplyIsMissing ==
    ASSUME NEW u \in Setups, NEW v \in DevType, NEW sl \in SlotType, SlotOk(u, sl),
           LinkOk(u, v, sl), v.state = "connected", v.echo = 0, sl.link = "up"
    PROVE  v.received = v.expected
<1>1. EchoesOk(u, v, sl) /\ UpOk(u, sl.up, sl.client) /\ DownOk(u, sl.down)
  BY DEF LinkOk, SessionOk, ConnectedOk, SlotOk
<1>2. Heartbeat \in Nat /\ u.maxDelay \in Nat /\ 2 * u.maxDelay < Heartbeat
  BY Constants
<1>3. /\ \A i \in DOMAIN sl.up : sl.up[i].age \in Nat /\ sl.up[i].age <= u.maxDelay
      /\ \A i \in DOMAIN sl.down : sl.down[i].age \in Nat /\ sl.down[i].age <= u.maxDelay
  <2>1. /\ \A i \in DOMAIN sl.up : sl.up[i] \in Msgs(UpTypes)
        /\ \A i \in DOMAIN sl.down : sl.down[i] \in Msgs(DownTypes)
    BY DEF SlotType
  <2> QED BY <1>1, <2>1 DEF UpOk, DownOk, Msgs
<1>4. ASSUME NEW i \in DOMAIN sl.up, sl.up[i].type = "echo_request" PROVE FALSE
  <2>1. 0 >= Heartbeat - sl.up[i].age
    BY <1>1, <1>4 DEF EchoesOk
  <2> QED BY <1>2, <1>3, <2>1
<1>5. ASSUME NEW i \in DOMAIN sl.down, sl.down[i].type = "echo_reply" PROVE FALSE
  <2>1. 0 >= Heartbeat - u.maxDelay - sl.down[i].age
    BY <1>1, <1>5 DEF EchoesOk
  <2> QED BY <1>2, <1>3, <2>1
<1> QED BY <1>1, <1>4, <1>5 DEF EchoesOk

(* The next echo request is the only one on its way.                        *)
LEMMA EchoesAfterRequest ==
    ASSUME NEW u \in Setups, NEW v, NEW sl \in SlotType, EchoesOk(u, v, sl), v.received = v.expected,
           NEW w, w.received = v.received, w.expected # v.expected, w.echo = Heartbeat,
           NEW r \in Msgs(UpTypes), r.type = "echo_request", r.seq = w.expected, r.age = 0,
           NEW t, t.up = Append(sl.up, r), t.down = sl.down
    PROVE  EchoesOk(u, w, t)
<1>1. /\ \A i \in DOMAIN sl.up : sl.up[i].type # "echo_request"
      /\ \A i \in DOMAIN sl.down : sl.down[i].type # "echo_reply"
  BY DEF EchoesOk
<1>2. sl.up \in Seq(Msgs(UpTypes)) /\ Heartbeat \in Nat
  BY Constants DEF SlotType
<1>3. /\ Len(sl.up) \in Nat /\ DOMAIN sl.up = 1..Len(sl.up)
      /\ DOMAIN t.up = 1..(Len(sl.up) + 1)
      /\ \A i \in DOMAIN sl.up : t.up[i] = sl.up[i]
      /\ t.up[Len(sl.up) + 1] = r
  BY <1>2, AppendToStream
<1>4. \A i \in DOMAIN t.up : t.up[i].type = "echo_request" => i = Len(sl.up) + 1
  BY <1>1, <1>3
<1>5. Len(sl.up) + 1 \in DOMAIN t.up
  BY <1>3
<1> QED BY <1>1, <1>2, <1>3, <1>4, <1>5 DEF EchoesOk

(* qdevice_net_echo_request_timer_callback, when a reply is missing.        *)
LEMMA EchoMissingStep ==
    ASSUME Inv, NEW d \in Devices, dev[d].echo = 0, dev[d].received # dev[d].expected,
           NEW a, a = Scheduled(dev[d], "algo_echo_reply_not_received"),
           dev' = [dev EXCEPT ![d] = [a EXCEPT !.echo = Off]],
           UNCHANGED <<setup, config, slot, clusters, reach, faults>>
    PROVE  Inv'
<1> DEFINE v == dev[d]
           r == "algo_echo_reply_not_received"
           w == [a EXCEPT !.echo = Off]
           sl == slot[dev[d].conn]
<1>1. setup \in Setups /\ v \in DevType /\ DevOk(setup, d, v)
  BY DEF Inv, TypeInv
<1>2. v.state = "connected" /\ v.conn # NoSlot
  BY <1>1 DEF DevOk, Off
<1>3. sl \in SlotType /\ SlotOk(setup, sl) /\ LinkOk(setup, v, sl)
  BY <1>2, ReaderOf
<1>4. sl.link # "up"
  BY <1>1, <1>2, <1>3, NoReplyIsMissing
<1>5. /\ config' \in [Devices -> DOMAIN Configs] /\ reach' \in [Devices -> BOOLEAN]
      /\ faults' \in Nat
  BY DEF Inv, TypeInv
<1>6. r \in Reasons
  BY DEF Reasons, EchoReasons
<1>7. /\ a \in DevType /\ a.conn = v.conn /\ a.state = v.state /\ a.tls = v.tls
      /\ a.disconnect = r /\ a.connect = v.connect /\ a.sleep = v.sleep /\ a.expected = v.expected
  BY <1>1, <1>6, ScheduledDevice
<1>8. w \in DevType
  BY <1>7, DevWith DEF Off
<1>9. w.conn = v.conn /\ w.state = v.state /\ w.tls = v.tls /\ w.echo = Off
  BY <1>7 DEF DevType
<1>10. w.connect = v.connect /\ w.sleep = v.sleep /\ w.expected = v.expected
  BY <1>7 DEF DevType
<1> HIDE DEF w
<1>11. Off \in Off..Heartbeat
  BY <1>1, Constants DEF Off
<1>12. DevOk(setup, d, w)
  BY <1>1, <1>2, <1>9, <1>10, <1>11 DEF DevOk
<1>13. LinkOk(setup, w, sl)
  BY <1>3, <1>4, <1>9 DEF LinkOk
<1>14. dev' = [dev EXCEPT ![d] = w]
  BY DEF w
<1> QED BY <1>5, <1>8, <1>9, <1>12, <1>13, <1>14, StepOfDevice

(* The number of the next echo request.                                     *)
LEMMA NextEcho ==
    ASSUME NEW u \in Setups, NEW x \in 0..(EchoWidth - 1), NEW n, n = (x + 1) % EchoWidth
    PROVE  n \in 0..(EchoWidth - 1) /\ n \in Nat /\ n # x
<1>1. EchoWidth \in Nat /\ EchoWidth > 1
  BY Constants
<1>2. CASE x + 1 < EchoWidth
  <2>1. n = x + 1
    BY <1>1, <1>2
  <2> QED BY <1>1, <1>2, <2>1
<1>3. CASE x + 1 = EchoWidth
  <2>1. n = 0
    BY <1>1, <1>3
  <2> QED BY <1>1, <1>3, <2>1
<1> QED BY <1>1, <1>2, <1>3

(* What a device becomes when it sends its next echo request.               *)
Echoing(v, n) == [v EXCEPT !.expected = n, !.echo = Heartbeat]

(* It waits for the reply.                                                  *)
LEMMA EchoingDevice ==
    ASSUME NEW v \in DevType, NEW n \in Nat, Heartbeat \in Nat, NEW w, w = Echoing(v, n)
    PROVE  /\ w \in DevType /\ w.expected = n /\ w.echo = Heartbeat
           /\ w.conn = v.conn /\ w.state = v.state /\ w.tls = v.tls /\ w.connect = v.connect
           /\ w.sleep = v.sleep /\ w.received = v.received /\ w.disconnect = v.disconnect
<1> DEFINE a == [v EXCEPT !.expected = n]
<1>1. a \in DevType
  BY DevWith
<1>2. w = [a EXCEPT !.echo = Heartbeat]
  BY Zenon DEF Echoing
<1>3. w \in DevType
  <2> HIDE DEF a
  <2> QED BY <1>1, <1>2, DevWith
<1>4. w.expected = n /\ w.echo = Heartbeat /\ w.conn = v.conn
  BY DEF Echoing, DevType
<1>5. w.state = v.state /\ w.tls = v.tls /\ w.connect = v.connect
  BY DEF Echoing, DevType
<1>6. w.sleep = v.sleep /\ w.received = v.received /\ w.disconnect = v.disconnect
  BY DEF Echoing, DevType
<1> QED BY <1>3, <1>4, <1>5, <1>6

(* A connected device that sends an echo request stays in time.             *)
LEMMA StaysConnected ==
    ASSUME NEW u \in Setups, NEW v \in DevType, NEW sl \in SlotType, SlotOk(u, sl),
           SessionOk(u, v, sl), v.state = "connected", v.echo = 0, v.received = v.expected,
           NEW w, w.state = v.state, w.tls = v.tls, w.disconnect = v.disconnect,
           w.received = v.received, w.expected # v.expected, w.echo = Heartbeat,
           NEW r \in Msgs(UpTypes), r.type = "echo_request", r.seq = w.expected, r.age = 0,
           NEW t, t.client = sl.client, t.up = Append(sl.up, r), t.down = sl.down
    PROVE  SessionOk(u, w, t)
<1>1. ConnectedOk(u, v, sl)
  BY DEF SessionOk
<1>2. EchoesOk(u, w, t)
  BY <1>1, EchoesAfterRequest DEF ConnectedOk
<1>3. /\ Heartbeat \in Nat /\ Interval \in Nat /\ u.maxDelay \in Nat
  BY Constants
<1>4. sl.up \in Seq(Msgs(UpTypes)) /\ sl.client.dpd \in Int
  BY DEF SlotType, ClientType
<1>5. /\ Len(sl.up) \in Nat /\ DOMAIN sl.up = 1..Len(sl.up)
      /\ \A i \in 1..Len(sl.up) : t.up[i] = sl.up[i]
      /\ t.up[Len(sl.up) + 1] = r /\ t.up # <<>>
  BY <1>4, AppendToStream
<1>6. t.client.dpd >= Interval - Heartbeat - t.up[1].age
  <2>1. CASE sl.up = <<>>
    <3>1. t.up[1] = r
      BY <2>1, OneMessage
    <3>2. sl.client.dpd >= Interval - Heartbeat + 0
      BY <1>1, <2>1 DEF ConnectedOk
    <3> QED BY <1>3, <1>4, <3>1, <3>2
  <2>2. CASE sl.up # <<>>
    <3>1. 1 \in 1..Len(sl.up)
      BY <1>4, <2>2
    <3>2. t.up[1] = sl.up[1]
      BY <1>5, <3>1
    <3> QED BY <1>1, <2>2, <3>2 DEF ConnectedOk
  <2> QED BY <2>1, <2>2
<1>7. ConnectedOk(u, w, t)
  <2>1. w.echo \in 0..Heartbeat
    BY <1>3
  <2> QED BY <1>1, <1>2, <1>5, <1>6, <2>1 DEF ConnectedOk
<1> QED BY <1>7 DEF SessionOk

(* The next echo request is sent, and the device and its connection still   *)
(* fit together.                                                            *)
LEMMA EchoSent ==
    ASSUME NEW u \in Setups, NEW d \in Devices, NEW v \in DevType, DevOk(u, d, v), v.echo = 0,
           v.received = v.expected, NEW sl \in SlotType, SlotOk(u, sl), LinkOk(u, v, sl),
           NEW n \in Nat, n \in 0..(EchoWidth - 1), n # v.expected,
           NEW w, w = Echoing(v, n),
           NEW r, r = Msg("echo_request", n, v.tls, "none"),
           NEW t, t = SentUp(sl, <<r>>)
    PROVE  /\ w \in DevType /\ w.conn = v.conn /\ DevOk(u, d, w)
           /\ t \in SlotType /\ t.client = sl.client /\ SlotOk(u, t) /\ LinkOk(u, w, t)
<1>1. v.state = "connected" /\ v.conn # NoSlot
  BY DEF DevOk, Off
<1>2. Heartbeat \in Nat
  BY Constants
<1>3. /\ w \in DevType /\ w.expected = n /\ w.echo = Heartbeat
      /\ w.conn = v.conn /\ w.state = v.state /\ w.tls = v.tls /\ w.connect = v.connect
      /\ w.sleep = v.sleep /\ w.received = v.received /\ w.disconnect = v.disconnect
  BY <1>2, EchoingDevice
<1>4. r \in Msgs(UpTypes) /\ r.type = "echo_request" /\ r.age = 0 /\ r.tls = v.tls /\ r.seq = n
  <2>1. v.tls \in BOOLEAN
    BY DEF DevType
  <2> QED BY <2>1 DEF Msg, Msgs, UpTypes, Opts
<1>5. ~v.tls => MayBeClear(u)
  BY <1>1, ClearIsAllowed DEF DevOk
<1>6. sl.link = "up" => SessionOk(u, v, sl)
  BY DEF LinkOk
<1>7. sl.link = "up" => sl.client.init /\ r.tls = sl.client.tls
  BY <1>1, <1>4, <1>6 DEF SessionOk, ConnectedOk
<1>8. /\ t \in SlotType /\ SlotOk(u, t)
      /\ t.link = sl.link /\ t.down = sl.down /\ t.client = sl.client
      /\ sl.link = "up" => t.up = Append(sl.up, r)
  <2>1. ~r.tls => MayBeClear(u)
    BY <1>4, <1>5
  <2>2. r.type \in {"set_option", "echo_request"}
    BY <1>4
  <2> QED BY <1>4, <1>7, <2>1, <2>2, SentToAdmitted
<1>9. DevOk(u, d, w)
  <2>1. w.echo \in Off..Heartbeat /\ w.expected \in 0..(EchoWidth - 1)
    BY <1>2, <1>3 DEF Off
  <2> QED BY <1>1, <1>3, <2>1, Zenon DEF DevOk
<1>10. ASSUME t.link = "up" PROVE SessionOk(u, w, t)
  <2>1. t.up = Append(sl.up, r) /\ SessionOk(u, v, sl)
    BY <1>6, <1>8, <1>10
  <2>2. w.expected # v.expected /\ r.seq = w.expected
    BY <1>3, <1>4
  <2> QED BY <1>1, <1>3, <1>4, <1>8, <2>1, <2>2, StaysConnected
<1>11. LinkOk(u, w, t)
  BY <1>1, <1>3, <1>8, <1>10 DEF LinkOk
<1> QED BY <1>3, <1>8, <1>9, <1>11

(* qdevice_net_echo_request_timer_callback                                  *)
LEMMA EchoTimerStep ==
    ASSUME Inv, NEW d \in Devices, EchoTimer(d)
    PROVE  Inv'
<1> DEFINE n == (dev[d].expected + 1) % EchoWidth
           w == Echoing(dev[d], n)
           r == Msg("echo_request", n, dev[d].tls, "none")
           t == SentUp(slot[dev[d].conn], <<r>>)
           a == Scheduled(dev[d], "algo_echo_reply_not_received")
<1>1. dev[d].echo = 0 /\ UNCHANGED <<setup, config, clusters, reach, faults>>
  BY DEF EchoTimer
<1>2. CASE dev[d].received # dev[d].expected
  <2>1. dev' = [dev EXCEPT ![d] = [a EXCEPT !.echo = Off]] /\ UNCHANGED slot
    BY <1>2 DEF EchoTimer
  <2>2. a = Scheduled(dev[d], "algo_echo_reply_not_received")
    OBVIOUS
  <2> HIDE DEF a
  <2> QED BY <1>1, <1>2, <2>1, <2>2, EchoMissingStep
<1>3. CASE dev[d].received = dev[d].expected
  <2>1. dev' = [dev EXCEPT ![d] = w] /\ slot' = [slot EXCEPT ![dev[d].conn] = t]
    BY <1>3 DEF EchoTimer, Echoing
  <2>2. /\ setup \in Setups /\ dev[d] \in DevType /\ DevOk(setup, d, dev[d])
        /\ dev[d].expected \in 0..(EchoWidth - 1) /\ dev[d].conn # NoSlot
    BY <1>1 DEF Inv, TypeInv, DevOk, Off
  <2>3. slot[dev[d].conn] \in SlotType /\ SlotOk(setup, slot[dev[d].conn])
        /\ LinkOk(setup, dev[d], slot[dev[d].conn])
    BY <2>2, ReaderOf
  <2>4. n \in 0..(EchoWidth - 1) /\ n \in Nat /\ n # dev[d].expected
    BY <2>2, NextEcho
  <2> HIDE DEF n
  <2>5. /\ w \in DevType /\ w.conn = dev[d].conn /\ DevOk(setup, d, w)
        /\ t \in SlotType /\ t.client = slot[dev[d].conn].client
        /\ SlotOk(setup, t) /\ LinkOk(setup, w, t)
    BY <1>1, <1>3, <2>2, <2>3, <2>4, EchoSent
  <2> HIDE DEF w, t
  <2> QED BY <1>1, <2>1, <2>2, <2>5, DeviceStep
<1> QED BY <1>2, <1>3

(* An instance that was just cleaned.                                       *)
LEMMA NewDevice ==
    ASSUME NEW u \in Setups, NEW d, NEW w \in DevType, w.conn = NoSlot,
           w.state \in {"waiting_connect", "stopped"}, w.tls = FALSE,
           w.connect \in Off..ConnectTimeout, w.sleep \in Off..MaxSleep,
           w.connect = Off \/ w.sleep = Off, w.sleep = Off \/ w.state = "waiting_connect",
           w.echo = Off, w.expected = 0, w.disconnect = "none"
    PROVE  DevOk(u, d, w)
<1>1. Heartbeat \in Nat /\ EchoWidth \in Nat /\ EchoWidth > 1
  BY Constants
<1>2. Off \in Off..Heartbeat /\ 0 \in 0..(EchoWidth - 1) /\ "none" \notin EchoReasons
  BY <1>1 DEF Off, EchoReasons
<1> QED BY <1>2 DEF DevOk

(* Its fields.                                                              *)
LEMMA CleanFields ==
    ASSUME NEW u \in Setups
    PROVE  /\ NewDev \in DevType /\ NewDev.conn = NoSlot /\ NewDev.state = "waiting_connect"
           /\ NewDev.tls = FALSE /\ NewDev.connect = ConnectTimeout /\ NewDev.sleep = Off
           /\ NewDev.echo = Off /\ NewDev.expected = 0 /\ NewDev.disconnect = "none"
           /\ Clean \in DevType /\ Clean.conn = NoSlot /\ Clean.state = "waiting_connect"
           /\ Clean.tls = FALSE /\ Clean.connect = Off /\ Clean.sleep = Off
           /\ Clean.echo = Off /\ Clean.expected = 0 /\ Clean.disconnect = "none"
<1>1. Off \in Int /\ ConnectTimeout \in Int
  BY Constants DEF Off
<1>2. "waiting_connect" \in States /\ "none" \in Reasons
  BY DEF States, Reasons
<1>3. /\ NewDev \in DevType /\ NewDev.conn = NoSlot /\ NewDev.state = "waiting_connect"
      /\ NewDev.tls = FALSE /\ NewDev.connect = ConnectTimeout /\ NewDev.sleep = Off
      /\ NewDev.echo = Off /\ NewDev.expected = 0 /\ NewDev.disconnect = "none"
  BY <1>1, <1>2 DEF NewDev, DevType
<1>4. Clean \in DevType
  BY <1>1, <1>3, DevWith DEF Clean
<1>5. Clean.conn = NoSlot /\ Clean.state = "waiting_connect" /\ Clean.tls = FALSE
  BY <1>3 DEF Clean, DevType
<1>6. Clean.connect = Off /\ Clean.sleep = Off /\ Clean.echo = Off
  BY <1>3 DEF Clean, DevType
<1>7. Clean.expected = 0 /\ Clean.disconnect = "none"
  BY <1>3 DEF Clean, DevType
<1> QED BY <1>3, <1>4, <1>5, <1>6, <1>7

(* The states in which an instance is cleaned.                              *)
LEMMA CleanedDevice ==
    ASSUME NEW u \in Setups, NEW d, NEW w,
           \/ w = NewDev
           \/ w = [NewDev EXCEPT !.state = "stopped", !.connect = Off]
           \/ w = [Clean EXCEPT !.state = "stopped"]
           \/ \E n \in 1..MaxSleep : w = [Clean EXCEPT !.sleep = n]
    PROVE  w \in DevType /\ DevOk(u, d, w) /\ w.conn = NoSlot
<1>1. ConnectTimeout \in Nat /\ MaxSleep \in Nat
  BY Constants
<1>2. /\ Off \in Off..ConnectTimeout /\ ConnectTimeout \in Off..ConnectTimeout /\ Off \in Off..MaxSleep
      /\ \A n \in 1..MaxSleep : n \in Off..MaxSleep
  BY <1>1 DEF Off
<1>3. Off \in Int /\ ConnectTimeout \in Int /\ \A n \in 1..MaxSleep : n \in Int
  BY <1>1 DEF Off
<1>4. "stopped" \in States
  BY DEF States
<1>5. /\ NewDev \in DevType /\ NewDev.conn = NoSlot /\ NewDev.state = "waiting_connect"
      /\ NewDev.tls = FALSE /\ NewDev.connect = ConnectTimeout /\ NewDev.sleep = Off
      /\ NewDev.echo = Off /\ NewDev.expected = 0 /\ NewDev.disconnect = "none"
  BY CleanFields
<1>6. /\ Clean \in DevType /\ Clean.conn = NoSlot /\ Clean.state = "waiting_connect"
      /\ Clean.tls = FALSE /\ Clean.connect = Off /\ Clean.sleep = Off
      /\ Clean.echo = Off /\ Clean.expected = 0 /\ Clean.disconnect = "none"
  BY CleanFields
<1>7. CASE w = NewDev
  BY <1>2, <1>5, <1>7, NewDevice
<1>8. ASSUME w = [Clean EXCEPT !.state = "stopped"]
      PROVE  w \in DevType /\ DevOk(u, d, w) /\ w.conn = NoSlot
  <2>1. w \in DevType
    BY <1>4, <1>6, <1>8, DevWith
  <2>2. w.conn = NoSlot /\ w.state = "stopped" /\ w.tls = FALSE
    BY <1>6, <1>8 DEF DevType
  <2>3. w.connect = Off /\ w.sleep = Off /\ w.echo = Off
    BY <1>6, <1>8 DEF DevType
  <2>4. w.expected = 0 /\ w.disconnect = "none"
    BY <1>6, <1>8 DEF DevType
  <2> QED BY <1>2, <2>1, <2>2, <2>3, <2>4, NewDevice
<1>9. ASSUME NEW n \in 1..MaxSleep, w = [Clean EXCEPT !.sleep = n]
      PROVE  w \in DevType /\ DevOk(u, d, w) /\ w.conn = NoSlot
  <2>1. w \in DevType
    BY <1>3, <1>6, <1>9, DevWith
  <2>2. w.conn = NoSlot /\ w.state = "waiting_connect" /\ w.tls = FALSE
    BY <1>6, <1>9 DEF DevType
  <2>3. w.connect = Off /\ w.sleep = n /\ w.echo = Off
    BY <1>6, <1>9 DEF DevType
  <2>4. w.expected = 0 /\ w.disconnect = "none"
    BY <1>6, <1>9 DEF DevType
  <2> QED BY <1>2, <2>1, <2>2, <2>3, <2>4, NewDevice
<1>10. ASSUME w = [NewDev EXCEPT !.state = "stopped", !.connect = Off]
       PROVE  w \in DevType /\ DevOk(u, d, w) /\ w.conn = NoSlot
  <2> DEFINE a == [NewDev EXCEPT !.state = "stopped"]
  <2>1. a \in DevType
    BY <1>4, <1>5, DevWith
  <2>2. w = [a EXCEPT !.connect = Off]
    BY <1>10
  <2>3. w \in DevType
    <3> HIDE DEF a
    <3> QED BY <1>3, <2>1, <2>2, DevWith
  <2>4. w.conn = NoSlot /\ w.state = "stopped" /\ w.tls = FALSE
    BY <1>5, <1>10 DEF DevType
  <2>5. w.connect = Off /\ w.sleep = Off /\ w.echo = Off
    BY <1>5, <1>10 DEF DevType
  <2>6. w.expected = 0 /\ w.disconnect = "none"
    BY <1>5, <1>10 DEF DevType
  <2> QED BY <1>2, <2>3, <2>4, <2>5, <2>6, NewDevice
<1> QED BY <1>7, <1>8, <1>9, <1>10

(* A connection that its device has closed, or lost with its power.         *)
ByDevice(sl)  == Cleared([Closed(sl, "device_closed") EXCEPT !.down = <<>>], FALSE)
Powerless(sl) == Cleared(CutOff(sl), FALSE)

(* A connection that is cut as a record.                                    *)
LEMMA CutRecord ==
    ASSUME NEW sl \in SlotType
    PROVE  CutOff(sl) = [link |-> "cut", up |-> <<>>, down |-> <<>>, client |-> sl.client]
<1> DEFINE c == [link |-> "cut", up |-> <<>>, down |-> <<>>, client |-> sl.client]
<1>1. [sl EXCEPT !.link = "cut"] =
         [link |-> "cut", up |-> sl.up, down |-> sl.down, client |-> sl.client]
  BY SlotWith, Zenon
<1>2. [[link |-> "cut", up |-> sl.up, down |-> sl.down, client |-> sl.client] EXCEPT !.up = <<>>] =
         [link |-> "cut", up |-> <<>>, down |-> sl.down, client |-> sl.client]
  OBVIOUS
<1>3. [[link |-> "cut", up |-> <<>>, down |-> sl.down, client |-> sl.client] EXCEPT !.down = <<>>]
         = c
  OBVIOUS
<1> QED BY <1>1, <1>2, <1>3, Zenon DEF CutOff

(* A connection over which nothing gets through any more.                   *)
LEMMA CutSlot ==
    ASSUME NEW u \in Setups, NEW sl \in SlotType, SlotOk(u, sl),
           sl.link \in {"up", "cut", "server_closed"}, NEW t, t = CutOff(sl)
    PROVE  /\ t \in SlotType /\ SlotOk(u, t) /\ t.link = "cut" /\ t.down = <<>>
           /\ t.client = sl.client
<1>1. (\A y : UpOk(u, <<>>, y)) /\ DownOk(u, <<>>)
  BY FreeSlotIsOk
<1>2. t = [link |-> "cut", up |-> <<>>, down |-> <<>>, client |-> sl.client]
  BY CutRecord
<1>3. /\ sl.client \in ClientType /\ ClientOk(u, sl.client)
      /\ <<>> \in Seq(Msgs(DownTypes)) /\ <<>> \in Seq(Msgs(UpTypes))
  BY EmptySeq DEF SlotType, SlotOk
<1> QED BY <1>1, <1>2, <1>3 DEF SlotType, SlotOk

(* What becomes of a connection that its device has left.                   *)
LEMMA LeftByDevice ==
    ASSUME NEW u \in Setups, NEW sl \in SlotType, SlotOk(u, sl),
           sl.link \in {"up", "cut", "server_closed"},
           NEW t, t \in {ByDevice(sl), Powerless(sl)}
    PROVE  /\ t \in SlotType /\ SlotOk(u, t) /\ t.link \notin {"up", "server_closed"}
           /\ SameClient(sl.client, t.client)
<1> DEFINE x == IF sl.link = "up" THEN "device_closed" ELSE sl.link
           k == [link |-> x, up |-> sl.up, down |-> <<>>, client |-> sl.client]
           c == [link |-> "cut", up |-> <<>>, down |-> <<>>, client |-> sl.client]
<1>1. /\ FreeSlot \in SlotType /\ FreeSlot.client = NoClient /\ SlotOk(u, FreeSlot)
      /\ FreeSlot.link = "free" /\ (\A y : UpOk(u, <<>>, y)) /\ DownOk(u, <<>>)
  BY FreeSlotIsOk
<1>2. [Closed(sl, "device_closed") EXCEPT !.down = <<>>] = k
  <2> DEFINE rec == [link |-> x, up |-> sl.up, down |-> sl.down, client |-> sl.client]
  <2>1. Closed(sl, "device_closed") = rec
    BY SlotWith, Zenon DEF Closed
  <2>2. [rec EXCEPT !.down = <<>>] = k
    <3> HIDE DEF x
    <3> QED OBVIOUS
  <2> QED BY <2>1, <2>2, Zenon
<1>3. CutOff(sl) = c
  BY CutRecord
<1>4. /\ sl.client \in ClientType /\ sl.up \in Seq(Msgs(UpTypes))
      /\ <<>> \in Seq(Msgs(DownTypes)) /\ <<>> \in Seq(Msgs(UpTypes))
  BY EmptySeq DEF SlotType
<1>5. CASE ~sl.client.exists
  <2>1. t = FreeSlot
    BY <1>2, <1>3, <1>5 DEF ByDevice, Powerless, Cleared
  <2>2. sl.client = NoClient
    BY <1>5 DEF SlotOk, ClientOk
  <2> QED BY <1>1, <2>1, <2>2 DEF SameClient
<1>6. CASE sl.client.exists
  <2>1. x \in {"device_closed", "cut"} /\ ClientOk(u, sl.client) /\ UpOk(u, sl.up, sl.client)
    BY <1>6 DEF SlotOk
  <2>2. x = "cut" => sl.up = <<>>
    BY DEF SlotOk
  <2>3. t \in {k, c}
    BY <1>2, <1>3, <1>6 DEF ByDevice, Powerless, Cleared
  <2> HIDE DEF x
  <2>4. k \in SlotType /\ SlotOk(u, k)
    BY <1>1, <1>4, <1>6, <2>1, <2>2 DEF SlotType, SlotOk
  <2>5. c \in SlotType /\ SlotOk(u, c)
    BY <1>1, <1>4, <1>6, <2>1 DEF SlotType, SlotOk
  <2>6. t.link \in {"device_closed", "cut"} /\ t.client = sl.client
    BY <2>1, <2>3
  <2>7. SameClient(sl.client, t.client)
    BY <2>6 DEF SameClient
  <2> QED BY <2>3, <2>4, <2>5, <2>6, <2>7
<1> QED BY <1>5, <1>6

(* What a device leaves is not used by anybody.                             *)
LEMMA DeviceLeaves ==
    ASSUME Inv, NEW d \in Devices, NEW w \in DevType, w.conn = NoSlot, DevOk(setup, d, w),
           dev' = [dev EXCEPT ![d] = w], NEW t,
           dev[d].conn # NoSlot => t \in {ByDevice(slot[dev[d].conn]), Powerless(slot[dev[d].conn])},
           slot' = [s \in Slots |-> IF s # dev[d].conn THEN slot[s] ELSE t],
           config' \in [Devices -> DOMAIN Configs], reach' \in [Devices -> BOOLEAN], faults' \in Nat,
           UNCHANGED <<setup, clusters>>
    PROVE  Inv'
<1>1. /\ dev \in [Devices -> DevType] /\ slot \in [Slots -> SlotType] /\ ConnsOk /\ setup \in Setups
  BY DEF Inv, TypeInv
<1>2. dev[d].conn \in Slots \cup {NoSlot} /\ NoSlot \notin Slots
  BY <1>1, SessionAssumption DEF DevType, NoSlot
<1>3. CASE dev[d].conn = NoSlot
  <2>1. slot' = slot
    BY <1>1, <1>2, <1>3
  <2> QED BY <1>3, <2>1, StepOfDevice
<1>4. CASE dev[d].conn # NoSlot
  <2> DEFINE s == dev[d].conn
  <2>1. /\ s \in Slots /\ slot[s] \in SlotType /\ SlotOk(setup, slot[s])
        /\ slot[s].link \in {"up", "cut", "server_closed"}
    BY <1>4, ReaderOf DEF LinkOk
  <2>2. /\ t \in SlotType /\ SlotOk(setup, t) /\ t.link \notin {"up", "server_closed"}
        /\ SameClient(slot[s].client, t.client)
    BY <1>1, <1>4, <2>1, LeftByDevice
  <2>3. slot' = [slot EXCEPT ![s] = t]
    BY <1>1, <2>1
  <2>4. \A e \in Devices : dev[e].conn = s => e = d
    BY <1>1, <1>4 DEF ConnsOk
  <2>5. ClustersOk(clusters', slot')
    BY <2>1, <2>2, <2>3, ClientChanged
  <2>6. w.conn # s /\ w.conn \in {s, NoSlot} /\ dev[d].conn \in {s, NoSlot}
    BY <1>4
  <2> HIDE DEF s
  <2> QED BY <2>1, <2>2, <2>3, <2>4, <2>5, <2>6, StepOfConnection
<1> QED BY <1>3, <1>4

(* qdevice_model_net_post_poll_loop                                         *)
LEMMA PostPollLoopStep ==
    ASSUME Inv, NEW d \in Devices, PostPollLoop(d)
    PROVE  Inv'
<1> DEFINE t == ByDevice(slot[dev[d].conn])
<1>1. setup \in Setups /\ UNCHANGED <<setup, config, clusters, reach, faults>>
  BY DEF PostPollLoop, Inv, TypeInv
<1>2. slot' = [s \in Slots |-> IF s # dev[d].conn THEN slot[s] ELSE t]
  <2>1. slot' = [s \in Slots |-> IF s # dev[d].conn THEN slot[s] ELSE ByDevice(slot[s])]
    BY DEF PostPollLoop, ByDevice
  <2> HIDE DEF t
  <2>2. \A s \in Slots : (IF s # dev[d].conn THEN slot[s] ELSE ByDevice(slot[s])) =
                         (IF s # dev[d].conn THEN slot[s] ELSE t)
    BY DEF t
  <2> QED BY <2>1, <2>2
<1>3. \E w : /\ dev' = [dev EXCEPT ![d] = w]
             /\ \/ w = NewDev
                \/ w = [Clean EXCEPT !.state = "stopped"]
                \/ \E n \in 1..MaxSleep : w = [Clean EXCEPT !.sleep = n]
  <2>1. CASE ~TryReconnect(dev[d].disconnect)
    BY <2>1 DEF PostPollLoop
  <2>2. CASE TryReconnect(dev[d].disconnect) /\ dev[d].state = "waiting_connect"
    BY <2>2 DEF PostPollLoop
  <2>3. CASE TryReconnect(dev[d].disconnect) /\ dev[d].state # "waiting_connect"
    <3>1. PICK n \in 1..MaxSleep : dev' = [dev EXCEPT ![d] = [Clean EXCEPT !.sleep = n]]
      BY <2>3 DEF PostPollLoop
    <3> QED BY <3>1
  <2> QED BY <2>1, <2>2, <2>3
<1>4. PICK w : /\ dev' = [dev EXCEPT ![d] = w]
               /\ \/ w = NewDev
                  \/ w = [Clean EXCEPT !.state = "stopped"]
                  \/ \E n \in 1..MaxSleep : w = [Clean EXCEPT !.sleep = n]
  BY <1>3
<1>5. w \in DevType /\ DevOk(setup, d, w) /\ w.conn = NoSlot
  BY <1>1, <1>4, CleanedDevice
<1>6. /\ config' \in [Devices -> DOMAIN Configs] /\ reach' \in [Devices -> BOOLEAN]
      /\ faults' \in Nat
  BY <1>1 DEF Inv, TypeInv
<1>7. t \in {ByDevice(slot[dev[d].conn]), Powerless(slot[dev[d].conn])}
  OBVIOUS
<1> HIDE DEF t
<1> QED BY <1>1, <1>2, <1>4, <1>5, <1>6, <1>7, DeviceLeaves

(* qdevice_model_net_pre_poll_loop                                          *)
LEMMA WakeStep ==
    ASSUME Inv, NEW d \in Devices, Wake(d)
    PROVE  Inv'
<1>1. /\ dev[d].sleep = 0 /\ dev' = [dev EXCEPT ![d] = NewDev]
      /\ UNCHANGED <<setup, config, slot, clusters, reach, faults>>
  BY DEF Wake
<1>2. setup \in Setups /\ DevOk(setup, d, dev[d])
  BY DEF Inv, TypeInv
<1>3. dev[d].conn = NoSlot
  BY <1>1, <1>2 DEF DevOk, Off
<1>4. NewDev \in DevType /\ DevOk(setup, d, NewDev) /\ NewDev.conn = NoSlot
  BY <1>2, CleanedDevice
<1>5. /\ config' \in [Devices -> DOMAIN Configs] /\ reach' \in [Devices -> BOOLEAN]
      /\ faults' \in Nat
  BY <1>1 DEF Inv, TypeInv
<1> QED BY <1>1, <1>3, <1>4, <1>5, StepOfDevice

(* The node of a device loses power, or its daemon is restarted.            *)
LEMMA RestartStep ==
    ASSUME Inv, NEW d \in Devices, NEW v \in DOMAIN Configs, NEW crash \in BOOLEAN,
           Restart(d, v, crash)
    PROVE  Inv'
<1> DEFINE sl == slot[dev[d].conn]
           t == IF crash THEN Powerless(sl) ELSE ByDevice(sl)
<1>1. /\ setup \in Setups /\ UNCHANGED <<setup, clusters, reach>>
      /\ dev' = [dev EXCEPT ![d] = NewDev] /\ config' = [config EXCEPT ![d] = v]
      /\ faults > 0 /\ faults' = faults - 1
  BY DEF Restart, Fault, Inv, TypeInv
<1>2. slot' = [s \in Slots |-> IF s # dev[d].conn THEN slot[s] ELSE t]
  <2>1. CASE crash
    <3>1. slot' = [s \in Slots |-> IF s # dev[d].conn THEN slot[s] ELSE Powerless(slot[s])]
      BY <2>1 DEF Restart, Powerless
    <3>2. t = Powerless(sl)
      BY <2>1
    <3> HIDE DEF t
    <3>3. \A s \in Slots : (IF s # dev[d].conn THEN slot[s] ELSE Powerless(slot[s])) =
                           (IF s # dev[d].conn THEN slot[s] ELSE t)
      BY <3>2
    <3> QED BY <3>1, <3>3
  <2>2. CASE ~crash
    <3>1. slot' = [s \in Slots |-> IF s # dev[d].conn THEN slot[s] ELSE ByDevice(slot[s])]
      BY <2>2 DEF Restart, ByDevice
    <3>2. t = ByDevice(sl)
      BY <2>2
    <3> HIDE DEF t
    <3>3. \A s \in Slots : (IF s # dev[d].conn THEN slot[s] ELSE ByDevice(slot[s])) =
                           (IF s # dev[d].conn THEN slot[s] ELSE t)
      BY <3>2
    <3> QED BY <3>1, <3>3
  <2> QED BY <2>1, <2>2
<1>3. NewDev \in DevType /\ DevOk(setup, d, NewDev) /\ NewDev.conn = NoSlot
  BY <1>1, CleanedDevice
<1>4. /\ config' \in [Devices -> DOMAIN Configs] /\ reach' \in [Devices -> BOOLEAN]
      /\ faults' \in Nat
  BY <1>1 DEF Inv, TypeInv
<1>5. t \in {ByDevice(slot[dev[d].conn]), Powerless(slot[dev[d].conn])}
  OBVIOUS
<1> HIDE DEF t
<1> QED BY <1>1, <1>2, <1>3, <1>4, <1>5, DeviceLeaves

(* Nothing gets through any more.                                           *)
LEMMA CutStep ==
    ASSUME Inv, NEW d \in Devices, Cut(d)
    PROVE  Inv'
<1> DEFINE s == dev[d].conn
           t == CutOff(slot[s])
<1>1. /\ UNCHANGED <<setup, dev, config, clusters>> /\ faults > 0 /\ faults' = faults - 1
      /\ reach' = [reach EXCEPT ![d] = FALSE]
      /\ slot' = [r \in Slots |-> IF r = s THEN CutOff(slot[r]) ELSE slot[r]]
  BY DEF Cut, Fault
<1>2. /\ dev \in [Devices -> DevType] /\ slot \in [Slots -> SlotType] /\ ConnsOk /\ setup \in Setups
  BY DEF Inv, TypeInv
<1>3. /\ dev[d] \in DevType /\ DevOk(setup, d, dev[d]) /\ dev' = [dev EXCEPT ![d] = dev[d]]
      /\ s \in Slots \cup {NoSlot} /\ NoSlot \notin Slots
  BY <1>1, <1>2, SessionAssumption DEF Inv, DevType, NoSlot
<1>4. /\ config' \in [Devices -> DOMAIN Configs] /\ reach' \in [Devices -> BOOLEAN]
      /\ faults' \in Nat
  BY <1>1 DEF Inv, TypeInv
<1>5. CASE s = NoSlot
  <2>1. slot' = slot
    BY <1>1, <1>2, <1>3, <1>5
  <2> QED BY <1>1, <1>3, <1>4, <1>5, <2>1, StepOfDevice
<1>6. CASE s # NoSlot
  <2>1. /\ s \in Slots /\ slot[s] \in SlotType /\ SlotOk(setup, slot[s])
        /\ LinkOk(setup, dev[d], slot[s])
    BY <1>6, ReaderOf
  <2>2. slot' = [slot EXCEPT ![s] = t]
    BY <1>1, <1>2, <2>1
  <2>3. /\ t \in SlotType /\ SlotOk(setup, t) /\ t.link = "cut" /\ t.down = <<>>
        /\ t.client = slot[s].client
    <3>1. slot[s].link \in {"up", "cut", "server_closed"}
      BY <2>1 DEF LinkOk
    <3> QED BY <1>2, <2>1, <3>1, CutSlot
  <2> HIDE DEF t
  <2>4. \A e \in Devices : dev[e].conn = s => e = d
    BY <1>2, <1>6 DEF ConnsOk
  <2>5. SameClient(slot[s].client, t.client)
    BY <2>3 DEF SameClient
  <2>6. ClustersOk(clusters', slot')
    BY <1>1, <2>1, <2>2, <2>5, ClientChanged
  <2>7. LinkOk(setup, dev[d], t)
    <3>1. Len(<<>>) = 0 /\ DOMAIN <<>> = {}
      OBVIOUS
    <3> QED BY <2>3, <3>1 DEF LinkOk
  <2> DEFINE v == dev[d]
  <2>8. /\ s \in Slots /\ t \in SlotType /\ SlotOk(setup, t)
        /\ t.link \in {"up", "server_closed"} => v.conn = s
        /\ dev[d].conn \in {s, NoSlot} /\ v.conn \in {s, NoSlot}
        /\ v.conn = s => LinkOk(setup, v, t)
    BY <2>1, <2>3, <2>7
  <2>9. v \in DevType /\ DevOk(setup, d, v) /\ dev' = [dev EXCEPT ![d] = v] /\ setup' = setup
    BY <1>1, <1>3
  <2> HIDE DEF s, v
  <2> QED BY <1>4, <2>2, <2>4, <2>6, <2>8, <2>9, StepOfConnection
<1> QED BY <1>5, <1>6

(* The network is repaired.                                                 *)
LEMMA HealStep ==
    ASSUME Inv, NEW d \in Devices, Heal(d)
    PROVE  Inv'
<1>1. /\ UNCHANGED <<setup, dev, config, slot, clusters, faults>>
      /\ reach' = [reach EXCEPT ![d] = TRUE]
  BY DEF Heal
<1>2. /\ dev \in [Devices -> DevType]
      /\ config' \in [Devices -> DOMAIN Configs] /\ reach' \in [Devices -> BOOLEAN]
      /\ faults' \in Nat
  BY <1>1 DEF Inv, TypeInv
<1>3. /\ dev[d] \in DevType /\ DevOk(setup, d, dev[d]) /\ dev' = [dev EXCEPT ![d] = dev[d]]
      /\ dev[d].conn # NoSlot => LinkOk(setup, dev[d], slot[dev[d].conn])
  BY <1>1, <1>2 DEF Inv
<1> QED BY <1>1, <1>2, <1>3, StepOfDevice

(* A device that has a connection: it has sent its preinit.                 *)
Opened(v, s) == [v EXCEPT !.conn = s, !.state = "waiting_preinit_reply", !.seq = 1]

(* Its fields.                                                              *)
LEMMA OpenedDevice ==
    ASSUME NEW v \in DevType, NEW s \in Slots, NEW w, w = Opened(v, s)
    PROVE  /\ w \in DevType /\ w.conn = s /\ w.state = "waiting_preinit_reply"
           /\ w.tls = v.tls /\ w.connect = v.connect /\ w.echo = v.echo /\ w.sleep = v.sleep
           /\ w.expected = v.expected /\ w.received = v.received /\ w.disconnect = v.disconnect
<1> DEFINE a == [v EXCEPT !.conn = s]
           b == [a EXCEPT !.state = "waiting_preinit_reply"]
<1>1. a \in DevType
  BY DevWith
<1>2. b \in DevType
  <2> HIDE DEF a
  <2>1. "waiting_preinit_reply" \in States
    BY DEF States
  <2> QED BY <1>1, <2>1, DevWith
<1>3. w = [b EXCEPT !.seq = 1]
  BY Zenon DEF Opened
<1>4. w \in DevType
  <2> HIDE DEF b
  <2> QED BY <1>2, <1>3, DevWith
<1>5. w.conn = s /\ w.state = "waiting_preinit_reply" /\ w.tls = v.tls
  BY DEF Opened, DevType
<1>6. w.connect = v.connect /\ w.echo = v.echo /\ w.sleep = v.sleep
  BY DEF Opened, DevType
<1>7. w.expected = v.expected /\ w.received = v.received /\ w.disconnect = v.disconnect
  BY DEF Opened, DevType
<1> QED BY <1>4, <1>5, <1>6, <1>7

(* What the server makes of a new connection.                               *)
Refused     == [FreeSlot EXCEPT !.link = "server_closed"]
Accepted(r) == [link |-> "up", up |-> <<r>>, down |-> <<>>, client |-> NewClient]

(* A connection that was refused because the server is full.                *)
LEMMA RefusedSlot ==
    ASSUME NEW u \in Setups, NEW w, w.disconnect = "none"
    PROVE  /\ Refused \in SlotType /\ SlotOk(u, Refused) /\ LinkOk(u, w, Refused)
           /\ Refused.client = NoClient /\ Refused.link = "server_closed"
<1>1. /\ NoClient \in ClientType /\ ~NoClient.exists /\ ClientOk(u, NoClient)
      /\ FreeSlot \in SlotType /\ FreeSlot.client = NoClient
      /\ FreeSlot.up = <<>> /\ FreeSlot.down = <<>>
      /\ (\A c : UpOk(u, <<>>, c)) /\ DownOk(u, <<>>)
  BY FreeSlotIsOk
<1>2. Refused = [link |-> "server_closed", up |-> <<>>, down |-> <<>>, client |-> NoClient]
  BY <1>1, SlotWith, ZenonT(60) DEF Refused
<1>3. <<>> \in Seq(Msgs(DownTypes)) /\ <<>> \in Seq(Msgs(UpTypes)) /\ Len(<<>>) = 0 /\ DOMAIN <<>> = {}
  BY EmptySeq
<1>4. Refused \in SlotType
  BY <1>1, <1>2, <1>3 DEF SlotType
<1>5. /\ Refused.client = NoClient /\ Refused.link = "server_closed"
      /\ Refused.up = <<>> /\ Refused.down = <<>>
  BY <1>2
<1>6. SlotOk(u, Refused)
  BY <1>1, <1>5 DEF SlotOk
<1>7. LinkOk(u, w, Refused)
  BY <1>3, <1>5 DEF LinkOk
<1> QED BY <1>4, <1>5, <1>6, <1>7

(* The first message of a device.                                           *)
LEMMA PreinitMessage ==
    ASSUME NEW d \in Devices
    PROVE  LET r == Msg("preinit", 1, FALSE, ClusterOf[d])
           IN  /\ r \in Msgs(UpTypes) /\ r.type = "preinit" /\ r.age = 0 /\ r.tls = FALSE
               /\ r.opt \in Names
<1> DEFINE n == ClusterOf[d]
           r == Msg("preinit", 1, FALSE, n)
<1>1. n \in Names
  BY Zenon DEF Names
<1>2. n \in Opts
  BY <1>1, Zenon DEF Opts
<1> HIDE DEF n
<1>3. "preinit" \in UpTypes
  BY DEF UpTypes
<1>4. r \in Msgs(UpTypes)
  BY <1>2, <1>3 DEF Msg, Msgs
<1>5. r.type = "preinit" /\ r.age = 0 /\ r.opt = n
  BY DEF Msg
<1>6. r.tls = FALSE
  BY DEF Msg
<1> QED BY <1>1, <1>4, <1>5, <1>6, Zenon DEF n

(* A connection that was accepted: the preinit is on its way.               *)
LEMMA AcceptedSlot ==
    ASSUME NEW u \in Setups, NEW d \in Devices,
           NEW w, w.disconnect = "none", w.state = "waiting_preinit_reply",
           NEW r \in Msgs(UpTypes), r.type = "preinit", r.age = 0, r.tls = FALSE, r.opt \in Names
    PROVE  /\ Accepted(r) \in SlotType /\ SlotOk(u, Accepted(r)) /\ LinkOk(u, w, Accepted(r))
           /\ Accepted(r).client = NewClient
<1> DEFINE q == <<r>>
           t == Accepted(r)
<1>1. /\ NewClient \in ClientType /\ NewClient.exists /\ ~NewClient.init /\ ~NewClient.tls
      /\ ~NewClient.preinit /\ ClientOk(u, NewClient) /\ DownOk(u, <<>>)
  BY FreeSlotIsOk
<1>4. q \in Seq(Msgs(UpTypes)) /\ Len(q) = 1 /\ DOMAIN q = {1} /\ q[1] = r
  OBVIOUS
<1>5. <<>> \in Seq(Msgs(DownTypes)) /\ Len(<<>>) = 0 /\ DOMAIN <<>> = {}
  BY EmptySeq
<1>6. t.link = "up" /\ t.up = q /\ t.down = <<>> /\ t.client = NewClient
  BY DEF Accepted
<1> HIDE DEF q
<1>7. t \in SlotType
  BY <1>1, <1>4, <1>5 DEF SlotType, Accepted, q
<1> HIDE DEF t
<1>8. UpOk(u, q, NewClient)
  <2>1. 0 <= u.maxDelay
    BY Constants
  <2>2. NewClient.tls = FALSE
    BY <1>1 DEF ClientType
  <2>3. \A i \in DOMAIN q : q[i].tls = (NewClient.tls \/ (i = 2 /\ q[1].type = "starttls"))
    BY <1>4, <2>2
  <2> QED BY <1>1, <1>4, <2>1, <2>3 DEF UpOk
<1>9. SlotOk(u, t)
  BY <1>1, <1>6, <1>8 DEF SlotOk
<1>10. SessionOk(u, w, t)
  <2>1. PreinitOk(w, t)
    BY <1>1, <1>4, <1>6 DEF PreinitOk
  <2> QED BY <1>1, <1>6, <2>1 DEF SessionOk, EchoReasons
<1>11. LinkOk(u, w, t)
  BY <1>5, <1>6, <1>10 DEF LinkOk
<1> QED BY <1>6, <1>7, <1>9, <1>11 DEF t

(* non_blocking_client_socket_write_cb and qnetd_client_net_accept          *)
LEMMA ConnectStep ==
    ASSUME Inv, NEW d \in Devices, NEW s \in Slots, Connect(d, s)
    PROVE  Inv'
<1> DEFINE v == dev[d]
           w == Opened(v, s)
           r == Msg("preinit", 1, FALSE, ClusterOf[d])
           t == IF Cardinality(Clients) >= MaxClients THEN Refused ELSE Accepted(r)
<1>1. /\ v.sleep = Off /\ v.disconnect = "none" /\ v.state = "waiting_connect"
      /\ slot[s].link = "free" /\ UNCHANGED <<setup, config, clusters, reach, faults>>
  BY DEF Connect, Alive, Awake
<1>2. /\ dev \in [Devices -> DevType] /\ slot \in [Slots -> SlotType] /\ setup \in Setups
  BY DEF Inv, TypeInv
<1>3. v \in DevType /\ DevOk(setup, d, v) /\ v.conn = NoSlot /\ slot[s] = FreeSlot
  BY <1>1, <1>2 DEF Inv, DevOk, SlotOk
<1>4. slot' = [slot EXCEPT ![s] = t]
  BY DEF Connect, Refused, Accepted
<1>5. dev' = [dev EXCEPT ![d] = w]
  BY <1>2 DEF Connect, Opened
<1>6. /\ w \in DevType /\ w.conn = s /\ w.state = "waiting_preinit_reply"
      /\ w.tls = v.tls /\ w.connect = v.connect /\ w.echo = v.echo /\ w.sleep = v.sleep
      /\ w.expected = v.expected /\ w.disconnect = v.disconnect
  BY <1>3, OpenedDevice
<1> HIDE DEF w
<1>7. DevOk(setup, d, w)
  <2>1. s # NoSlot /\ "none" \notin EchoReasons
    BY SessionAssumption DEF NoSlot, EchoReasons
  <2> QED BY <1>1, <1>3, <1>6, <2>1 DEF DevOk
<1>8. /\ t \in SlotType /\ SlotOk(setup, t) /\ LinkOk(setup, w, t)
      /\ t.client \in {NoClient, NewClient}
  <2>1. w.disconnect = "none"
    BY <1>1, <1>6
  <2>2. CASE Cardinality(Clients) >= MaxClients
    <3>1. t = Refused
      BY <2>2
    <3> HIDE DEF t
    <3> QED BY <1>2, <2>1, <3>1, RefusedSlot
  <2>3. CASE ~(Cardinality(Clients) >= MaxClients)
    <3>1. t = Accepted(r)
      BY <2>3
    <3>2. /\ r \in Msgs(UpTypes) /\ r.type = "preinit" /\ r.age = 0 /\ r.tls = FALSE
          /\ r.opt \in Names
      BY PreinitMessage
    <3> HIDE DEF t, r
    <3> QED BY <1>2, <1>6, <2>1, <3>1, <3>2, AcceptedSlot
  <2> QED BY <2>2, <2>3
<1> HIDE DEF t
<1>9. SameClient(slot[s].client, t.client)
  <2>1. /\ NoClient.init \in BOOLEAN /\ ~NoClient.init /\ NewClient.init \in BOOLEAN
        /\ ~NewClient.init /\ FreeSlot.client = NoClient
    BY <1>2, FreeSlotIsOk DEF ClientType
  <2> QED BY <1>3, <1>8, <2>1 DEF SameClient
<1>10. ClustersOk(clusters', slot')
  BY <1>1, <1>4, <1>9, ClientChanged
<1>11. ASSUME NEW e \in Devices, dev[e].conn = s PROVE FALSE
  <2>1. LinkOk(setup, dev[e], slot[s])
    BY <1>11, PeerOf
  <2> QED BY <1>1, <2>1 DEF LinkOk
<1>12. /\ config' \in [Devices -> DOMAIN Configs] /\ reach' \in [Devices -> BOOLEAN]
       /\ faults' \in Nat /\ setup' = setup
  BY <1>1 DEF Inv, TypeInv
<1>13. dev[d].conn \in {s, NoSlot} /\ w.conn \in {s, NoSlot} /\ w.conn = s
  BY <1>3, <1>6
<1>14. \A e \in Devices : dev[e].conn = s => e = d
  BY <1>11
<1>15. w \in DevType /\ t \in SlotType /\ SlotOk(setup, t) /\ (w.conn = s => LinkOk(setup, w, t))
       /\ (t.link \in {"up", "server_closed"} => w.conn = s)
  BY <1>6, <1>8
<1> QED BY <1>4, <1>5, <1>7, <1>10, <1>12, <1>13, <1>14, <1>15, StepOfConnection, ZenonT(60)

-----------------------------------------------------------------------------
(* Time                                                                    *)

(* A message that is on its way for one more tick.                          *)
LEMMA OlderMessage ==
    ASSUME NEW T, NEW m \in Msgs(T), NEW n, n = [m EXCEPT !.age = @ + 1]
    PROVE  /\ n \in Msgs(T) /\ n.age = m.age + 1
           /\ n.type = m.type /\ n.seq = m.seq /\ n.tls = m.tls /\ n.opt = m.opt
<1>1. n \in Msgs(T) /\ n.age = m.age + 1
  BY DEF Msgs
<1>2. n.type = m.type /\ n.seq = m.seq
  BY DEF Msgs
<1>3. n.tls = m.tls /\ n.opt = m.opt
  BY DEF Msgs
<1> QED BY <1>1, <1>2, <1>3

(* What is on its way gets older and is otherwise what it was.              *)
SameButOlder(p, q) ==
    /\ DOMAIN p = DOMAIN q /\ Len(p) = Len(q)
    /\ p = <<>> <=> q = <<>>
    /\ \A i \in DOMAIN q : /\ p[i].age = q[i].age + 1 /\ p[i].type = q[i].type
                           /\ p[i].seq = q[i].seq /\ p[i].tls = q[i].tls /\ p[i].opt = q[i].opt

(* A stream after a tick.                                                   *)
LEMMA OlderStream ==
    ASSUME NEW T, NEW q \in Seq(Msgs(T)), NEW p, p = Older(q)
    PROVE  p \in Seq(Msgs(T)) /\ SameButOlder(p, q)
<1> DEFINE n == Len(q)
<1>1. n \in Nat /\ DOMAIN q = 1..n /\ \A i \in 1..n : q[i] \in Msgs(T)
  OBVIOUS
<1>2. p = [i \in 1..n |-> [q[i] EXCEPT !.age = @ + 1]]
  BY <1>1 DEF Older
<1>3. ASSUME NEW i \in 1..n
      PROVE  /\ p[i] \in Msgs(T) /\ p[i].age = q[i].age + 1 /\ p[i].type = q[i].type
             /\ p[i].seq = q[i].seq /\ p[i].tls = q[i].tls /\ p[i].opt = q[i].opt
  <2>1. q[i] \in Msgs(T) /\ p[i] = [q[i] EXCEPT !.age = @ + 1]
    BY <1>1, <1>2
  <2> QED BY <2>1, OlderMessage
<1>4. DOMAIN p = 1..n
  BY <1>2
<1>5. p \in [1..n -> Msgs(T)]
  BY <1>2, <1>3, <1>4
<1>6. p \in Seq(Msgs(T))
  BY <1>1, <1>5
<1>7. Len(p) = n
  BY <1>1, <1>5, <1>6
<1>8. p = <<>> <=> q = <<>>
  BY <1>6, <1>7
<1> HIDE DEF n
<1>9. \A i \in DOMAIN q : /\ p[i].age = q[i].age + 1 /\ p[i].type = q[i].type
                          /\ p[i].seq = q[i].seq /\ p[i].tls = q[i].tls /\ p[i].opt = q[i].opt
  BY <1>1, <1>3
<1> QED BY <1>1, <1>4, <1>6, <1>7, <1>8, <1>9 DEF SameButOlder, n

(* The fields of a client whose timer has run for a tick.                   *)
LEMMA ClientWithDpd ==
    ASSUME NEW c \in ClientType, NEW x \in Int, NEW w, w = [c EXCEPT !.dpd = x]
    PROVE  /\ w \in ClientType /\ w.dpd = x
           /\ w.exists = c.exists /\ w.preinit = c.preinit /\ w.tls = c.tls
           /\ w.verified = c.verified /\ w.init = c.init /\ w.node = c.node /\ w.config = c.config
           /\ w.cluster = c.cluster /\ w.interval = c.interval /\ w.disconnect = c.disconnect
<1>1. w \in ClientType /\ w.dpd = x
  BY DEF ClientType
<1>2. w.exists = c.exists /\ w.preinit = c.preinit /\ w.tls = c.tls
  BY DEF ClientType
<1>3. w.verified = c.verified /\ w.init = c.init /\ w.node = c.node /\ w.config = c.config
  BY DEF ClientType
<1>4. w.cluster = c.cluster /\ w.interval = c.interval /\ w.disconnect = c.disconnect
  BY DEF ClientType
<1> QED BY <1>1, <1>2, <1>3, <1>4

(* The dead-peer timer of a client runs: it has time left.                  *)
SameButWaited(w, c) ==
    /\ w.exists = c.exists /\ w.preinit = c.preinit /\ w.tls = c.tls
    /\ w.verified = c.verified /\ w.init = c.init /\ w.node = c.node /\ w.config = c.config
    /\ w.cluster = c.cluster /\ w.interval = c.interval /\ w.disconnect = c.disconnect
    /\ c.exists => w.dpd = c.dpd - 1 /\ c.dpd > 0
    /\ ~c.exists => w = c

(* A client after a tick.                                                   *)
LEMMA WaitedClient ==
    ASSUME NEW u, NEW c \in ClientType, ClientOk(u, c),
           c.exists => c.dpd # 0 /\ c.disconnect = "none", NEW w, w = Waited(c)
    PROVE  w \in ClientType /\ ClientOk(u, w) /\ SameButWaited(w, c)
<1>1. CASE ~c.exists
  <2>1. w = c
    BY <1>1, Zenon DEF Waited
  <2> QED BY <1>1, <2>1 DEF SameButWaited
<1>2. CASE c.exists
  <2>1. c.dpd \in Int /\ c.dpd > 0 /\ c.dpd # Off
    BY <1>2 DEF ClientOk, ClientType, Off
  <2>2. Less(c.dpd) = c.dpd - 1
    BY <2>1, Zenon DEF Less
  <2>3. w = [c EXCEPT !.dpd = Less(c.dpd)]
    BY <1>2, Zenon DEF Waited
  <2> DEFINE x == c.dpd - 1
  <2>4. w = [c EXCEPT !.dpd = x]
    BY <2>2, <2>3, Zenon
  <2>5. x \in Int /\ x >= 0
    BY <2>1
  <2> HIDE DEF x
  <2>6. /\ w \in ClientType /\ w.dpd = x
        /\ w.exists = c.exists /\ w.preinit = c.preinit /\ w.tls = c.tls
        /\ w.verified = c.verified /\ w.init = c.init /\ w.node = c.node /\ w.config = c.config
        /\ w.cluster = c.cluster /\ w.interval = c.interval /\ w.disconnect = c.disconnect
    BY <2>4, <2>5, ClientWithDpd
  <2>7. ClientOk(u, w)
    <3>1. w.dpd >= Off /\ w.dpd # Off
      BY <2>5, <2>6 DEF Off
    <3>2. w.init => TlsSettled(u, w)
      BY <2>6 DEF ClientOk, TlsSettled
    <3> QED BY <1>2, <2>6, <3>1, <3>2 DEF ClientOk
  <2> QED BY <1>2, <2>1, <2>6, <2>7 DEF SameButWaited, x
<1>3. c.exists \in BOOLEAN
  BY DEF ClientType
<1> QED BY <1>1, <1>2, <1>3

(* A connection and a device after a tick.                                  *)
Aged(sl)  == [sl EXCEPT !.up = Older(@), !.down = Older(@), !.client = Waited(@)]
Later(v)  == [v EXCEPT !.connect = Less(@), !.echo = Less(@), !.sleep = Less(@)]

(* The fields of a connection after a tick.                                 *)
LEMMA AgedFields ==
    ASSUME NEW sl \in SlotType, NEW t, t = Aged(sl)
    PROVE  t = [link |-> sl.link, up |-> Older(sl.up), down |-> Older(sl.down),
                client |-> Waited(sl.client)]
<1> DEFINE a1 == [link |-> sl.link, up |-> Older(sl.up), down |-> sl.down, client |-> sl.client]
           a2 == [link |-> sl.link, up |-> Older(sl.up), down |-> Older(sl.down),
                  client |-> sl.client]
<1>1. [sl EXCEPT !.up = Older(@)] = a1
  BY SlotWith, Zenon
<1>2. [a1 EXCEPT !.down = Older(@)] = a2
  OBVIOUS
<1>3. [a2 EXCEPT !.client = Waited(@)] =
         [link |-> sl.link, up |-> Older(sl.up), down |-> Older(sl.down),
          client |-> Waited(sl.client)]
  OBVIOUS
<1>4. t = [[[sl EXCEPT !.up = Older(@)] EXCEPT !.down = Older(@)] EXCEPT !.client = Waited(@)]
  BY DEF Aged, SlotType
<1> QED BY <1>1, <1>2, <1>3, <1>4, Zenon

(* What is on its way to the server fits with the client after a tick, too. *)
LEMMA OlderUp ==
    ASSUME NEW u \in Setups, NEW q \in Seq(Msgs(UpTypes)), NEW c \in ClientType, UpOk(u, q, c),
           \A i \in DOMAIN q : q[i].age < u.maxDelay,
           NEW p, SameButOlder(p, q), NEW w, SameButWaited(w, c)
    PROVE  UpOk(u, p, w)
<1>1. u.maxDelay \in Nat
  BY Constants
<1>2. w.tls = c.tls /\ w.preinit = c.preinit /\ w.init = c.init
  BY DEF SameButWaited
<1>3. /\ DOMAIN p = DOMAIN q /\ Len(p) = Len(q)
      /\ \A i \in DOMAIN q : /\ p[i].age = q[i].age + 1 /\ p[i].type = q[i].type
                             /\ p[i].seq = q[i].seq /\ p[i].tls = q[i].tls /\ p[i].opt = q[i].opt
  BY DEF SameButOlder
<1>4. Len(q) \in Nat /\ DOMAIN q = 1..Len(q)
  OBVIOUS
<1>5. ASSUME NEW i \in DOMAIN p
      PROVE  /\ p[i].age <= u.maxDelay
             /\ p[i].tls = (w.tls \/ (i = 2 /\ p[1].type = "starttls"))
             /\ p[i].type = "preinit" =>
                   Len(p) = 1 /\ ~w.preinit /\ ~w.tls /\ ~w.init /\ p[i].opt \in Names
             /\ p[i].type = "starttls" =>
                   /\ i = 1 /\ Len(p) = 2 /\ p[2].type = "init"
                   /\ w.preinit /\ ~w.tls /\ ~w.init
             /\ p[i].type = "init" =>
                   /\ i = Len(p) /\ (i = 1 \/ (i = 2 /\ p[1].type = "starttls"))
                   /\ w.preinit /\ ~w.init /\ p[i].opt \in InitOpts
             /\ p[i].type \in {"set_option", "echo_request"} => w.init
             /\ p[i].type \in {"init", "set_option", "echo_request"} /\ ~p[i].tls => MayBeClear(u)
  <2>1. i \in DOMAIN q /\ q[i].age \in Nat
    <3>1. i \in DOMAIN q
      BY <1>3
    <3>2. q[i] \in Msgs(UpTypes)
      BY <3>1
    <3> QED BY <3>1, <3>2 DEF Msgs
  <2>2. p[i].age <= u.maxDelay
    BY <1>1, <1>3, <2>1
  <2>3. 1 \in DOMAIN q
    BY <1>4, <2>1
  <2>4. p[1].type = q[1].type /\ p[i].tls = q[i].tls /\ p[i].type = q[i].type /\ p[i].opt = q[i].opt
    BY <1>3, <2>1, <2>3
  <2>5. q[i].type = "starttls" => p[2].type = "init"
    <3>1. q[i].type = "starttls" => Len(q) = 2 /\ q[2].type = "init"
      BY <2>1 DEF UpOk
    <3> QED BY <1>3, <1>4, <3>1
  <2>6. /\ q[i].tls = (c.tls \/ (i = 2 /\ q[1].type = "starttls"))
        /\ q[i].type = "preinit" =>
              Len(q) = 1 /\ ~c.preinit /\ ~c.tls /\ ~c.init /\ q[i].opt \in Names
        /\ q[i].type = "starttls" =>
              /\ i = 1 /\ Len(q) = 2 /\ c.preinit /\ ~c.tls /\ ~c.init
        /\ q[i].type = "init" =>
              /\ i = Len(q) /\ (i = 1 \/ (i = 2 /\ q[1].type = "starttls"))
              /\ c.preinit /\ ~c.init /\ q[i].opt \in InitOpts
        /\ q[i].type \in {"set_option", "echo_request"} => c.init
        /\ q[i].type \in {"init", "set_option", "echo_request"} /\ ~q[i].tls => MayBeClear(u)
    BY <2>1, Zenon DEF UpOk
  <2> QED BY <1>2, <1>3, <2>2, <2>4, <2>5, <2>6, Zenon
<1> QED BY <1>5, Zenon DEF UpOk

(* What is on its way to the device after a tick.                           *)
LEMMA OlderDown ==
    ASSUME NEW u \in Setups, NEW q \in Seq(Msgs(DownTypes)), DownOk(u, q),
           \A i \in DOMAIN q : q[i].age < u.maxDelay, NEW p, SameButOlder(p, q)
    PROVE  DownOk(u, p)
<1>1. u.maxDelay \in Nat
  BY Constants
<1>2. ASSUME NEW i \in DOMAIN q PROVE q[i].age \in Nat
  <2>1. q[i] \in Msgs(DownTypes)
    OBVIOUS
  <2> QED BY <2>1 DEF Msgs
<1>3. \A i \in DOMAIN p : p[i].age <= u.maxDelay
  BY <1>1, <1>2 DEF SameButOlder
<1> QED BY <1>3 DEF DownOk, SameButOlder

(* A connection after a tick.                                               *)
LEMMA AgedSlot ==
    ASSUME NEW u \in Setups, NEW sl \in SlotType, SlotOk(u, sl),
           sl.link \notin {"device_closed", "server_closed"},
           sl.client.exists => sl.client.dpd # 0 /\ sl.client.disconnect = "none",
           \A i \in DOMAIN sl.up : sl.up[i].age < u.maxDelay,
           \A i \in DOMAIN sl.down : sl.down[i].age < u.maxDelay,
           NEW t, t = Aged(sl)
    PROVE  /\ t \in SlotType /\ SlotOk(u, t) /\ t.link = sl.link
           /\ SameButOlder(t.up, sl.up) /\ SameButOlder(t.down, sl.down)
           /\ SameButWaited(t.client, sl.client)
<1> DEFINE up == Older(sl.up)
           down == Older(sl.down)
           c == Waited(sl.client)
<1>1. t = [link |-> sl.link, up |-> up, down |-> down, client |-> c]
  BY AgedFields
<1>2. /\ sl.up \in Seq(Msgs(UpTypes)) /\ sl.down \in Seq(Msgs(DownTypes))
      /\ sl.client \in ClientType
  BY DEF SlotType
<1>3. up \in Seq(Msgs(UpTypes)) /\ SameButOlder(up, sl.up)
  BY <1>2, OlderStream
<1>4. down \in Seq(Msgs(DownTypes)) /\ SameButOlder(down, sl.down)
  BY <1>2, OlderStream
<1>5. c \in ClientType /\ ClientOk(u, c) /\ SameButWaited(c, sl.client)
  <2>1. ClientOk(u, sl.client)
    BY DEF SlotOk
  <2> QED BY <1>2, <2>1, WaitedClient
<1> HIDE DEF up, down, c
<1>6. t \in SlotType
  BY <1>1, <1>3, <1>4, <1>5 DEF SlotType
<1>7. t.link = sl.link /\ t.up = up /\ t.down = down /\ t.client = c
  BY <1>1
<1>8. UpOk(u, up, c)
  BY <1>2, <1>3, <1>5, OlderUp DEF SlotOk
<1>9. DownOk(u, down)
  BY <1>2, <1>4, OlderDown DEF SlotOk
<1>10. sl.link = "free" => t = FreeSlot
  <2>1. SUFFICES ASSUME sl.link = "free" PROVE t = FreeSlot
    OBVIOUS
  <2>2. sl = FreeSlot
    BY <2>1 DEF SlotOk
  <2>3. sl.up = <<>> /\ sl.down = <<>> /\ sl.client = NoClient /\ ~sl.client.exists
    BY <2>2, FreeSlotIsOk
  <2>4. up = <<>> /\ down = <<>> /\ c = NoClient
    BY <1>3, <1>4, <1>5, <2>3 DEF SameButOlder, SameButWaited
  <2> QED BY <1>1, <2>1, <2>4, Zenon DEF FreeSlot
<1>11. /\ (up = <<>> <=> sl.up = <<>>) /\ (down = <<>> <=> sl.down = <<>>)
       /\ c.exists = sl.client.exists
  BY <1>3, <1>4, <1>5 DEF SameButOlder, SameButWaited
<1>12. SlotOk(u, t)
  BY <1>5, <1>7, <1>8, <1>9, <1>10, <1>11 DEF SlotOk
<1> QED BY <1>3, <1>4, <1>5, <1>6, <1>7, <1>12

(* The timers of a device run, and nothing else changes.                    *)
SameButLater(w, v) ==
    /\ w.conn = v.conn /\ w.state = v.state /\ w.tls = v.tls /\ w.seq = v.seq
    /\ w.expected = v.expected /\ w.received = v.received /\ w.disconnect = v.disconnect
    /\ w.connect = Less(v.connect) /\ w.echo = Less(v.echo) /\ w.sleep = Less(v.sleep)

(* A timer that is not due.                                                 *)
LEMMA LessTime ==
    ASSUME NEW n \in Nat, NEW x \in Off..n, x # 0
    PROVE  /\ Less(x) \in Off..n /\ Less(x) \in Int
           /\ x = Off <=> Less(x) = Off
           /\ x # Off => Less(x) = x - 1 /\ x > 0
BY DEF Less, Off

(* A device after a tick.                                                   *)
LEMMA LaterDevice ==
    ASSUME NEW u \in Setups, NEW d, NEW v \in DevType, DevOk(u, d, v), 0 \notin Timers(v),
           NEW w, w = Later(v)
    PROVE  w \in DevType /\ DevOk(u, d, w) /\ SameButLater(w, v)
<1>1. /\ v.connect \in Off..ConnectTimeout /\ v.echo \in Off..Heartbeat
      /\ v.sleep \in Off..MaxSleep /\ v.connect # 0 /\ v.echo # 0 /\ v.sleep # 0
  BY DEF DevOk, Timers
<1>2. ConnectTimeout \in Nat /\ Heartbeat \in Nat /\ MaxSleep \in Nat
  BY Constants
<1> DEFINE x == Less(v.connect)
           y == Less(v.echo)
           z == Less(v.sleep)
<1>3. x \in Off..ConnectTimeout /\ x \in Int /\ (v.connect = Off <=> x = Off)
  BY <1>1, <1>2, LessTime
<1>4. y \in Off..Heartbeat /\ y \in Int /\ (v.echo = Off <=> y = Off)
  BY <1>1, <1>2, LessTime
<1>5. z \in Off..MaxSleep /\ z \in Int /\ (v.sleep = Off <=> z = Off)
  BY <1>1, <1>2, LessTime
<1>6. w = [v EXCEPT !.connect = x, !.echo = y, !.sleep = z]
  BY DEF Later
<1> HIDE DEF x, y, z
<1> DEFINE a1 == [v EXCEPT !.connect = x]
           a2 == [a1 EXCEPT !.echo = y]
<1>7. a1 \in DevType
  BY <1>3, DevWith, Zenon
<1>8. a2 \in DevType
  <2> HIDE DEF a1
  <2> QED BY <1>4, <1>7, DevWith, Zenon
<1>9. w = [a2 EXCEPT !.sleep = z]
  BY <1>6, Zenon
<1>10. w \in DevType
  <2> HIDE DEF a2
  <2> QED BY <1>5, <1>8, <1>9, DevWith, Zenon
<1>11. w.conn = v.conn /\ w.state = v.state /\ w.tls = v.tls
  BY <1>6 DEF DevType
<1>12. w.seq = v.seq /\ w.expected = v.expected /\ w.received = v.received
  BY <1>6 DEF DevType
<1>13. w.disconnect = v.disconnect /\ w.connect = x
  BY <1>6 DEF DevType
<1>14. w.echo = y /\ w.sleep = z
  BY <1>6 DEF DevType
<1>15. DevOk(u, d, w)
  BY <1>3, <1>4, <1>5, <1>11, <1>12, <1>13, <1>14 DEF DevOk
<1>16. SameButLater(w, v)
  BY <1>11, <1>12, <1>13, <1>14 DEF SameButLater, x, y, z
<1> QED BY <1>10, <1>15, <1>16

(* The echo requests and replies of a connection after a tick.              *)
LEMMA OlderEchoes ==
    ASSUME NEW u \in Setups, NEW v \in DevType, NEW sl \in SlotType, EchoesOk(u, v, sl),
           v.echo \in 1..Heartbeat,
           NEW w, SameButLater(w, v),
           NEW t, SameButOlder(t.up, sl.up), SameButOlder(t.down, sl.down)
    PROVE  EchoesOk(u, w, t)
<1>1. u.maxDelay \in Nat /\ Heartbeat \in Nat
  BY Constants
<1>2. w.echo = v.echo - 1 /\ v.echo \in Int /\ w.received = v.received /\ w.expected = v.expected
  BY <1>1 DEF SameButLater, Less, Off
<1>3. /\ DOMAIN t.up = DOMAIN sl.up
      /\ \A i \in DOMAIN sl.up : /\ t.up[i].age = sl.up[i].age + 1 /\ t.up[i].type = sl.up[i].type
                                 /\ t.up[i].seq = sl.up[i].seq
  BY DEF SameButOlder
<1>4. /\ DOMAIN t.down = DOMAIN sl.down
      /\ \A i \in DOMAIN sl.down :
            /\ t.down[i].age = sl.down[i].age + 1 /\ t.down[i].type = sl.down[i].type
            /\ t.down[i].seq = sl.down[i].seq
  BY DEF SameButOlder
<1>5. ASSUME NEW i \in DOMAIN sl.up PROVE sl.up[i].age \in Nat
  <2>1. sl.up[i] \in Msgs(UpTypes)
    BY DEF SlotType
  <2> QED BY <2>1 DEF Msgs
<1>6. ASSUME NEW i \in DOMAIN sl.down PROVE sl.down[i].age \in Nat
  <2>1. sl.down[i] \in Msgs(DownTypes)
    BY DEF SlotType
  <2> QED BY <2>1 DEF Msgs
<1>7. ASSUME NEW i \in DOMAIN t.up, t.up[i].type = "echo_request"
      PROVE  /\ w.received # w.expected /\ t.up[i].seq = w.expected
             /\ w.echo >= Heartbeat - t.up[i].age
             /\ \A k \in DOMAIN t.up : t.up[k].type = "echo_request" => k = i
             /\ \A k \in DOMAIN t.down : t.down[k].type # "echo_reply"
  <2>1. i \in DOMAIN sl.up /\ sl.up[i].type = "echo_request"
    BY <1>3, <1>7
  <2>2. /\ v.received # v.expected /\ sl.up[i].seq = v.expected
        /\ v.echo >= Heartbeat - sl.up[i].age
        /\ \A k \in DOMAIN sl.up : sl.up[k].type = "echo_request" => k = i
        /\ \A k \in DOMAIN sl.down : sl.down[k].type # "echo_reply"
    BY <2>1 DEF EchoesOk
  <2>3. w.echo >= Heartbeat - t.up[i].age
    BY <1>1, <1>2, <1>3, <1>5, <2>1, <2>2
  <2> QED BY <1>2, <1>3, <1>4, <2>1, <2>2, <2>3
<1>8. ASSUME NEW i \in DOMAIN t.down, t.down[i].type = "echo_reply"
      PROVE  /\ w.received # w.expected /\ t.down[i].seq = w.expected
             /\ w.echo >= Heartbeat - u.maxDelay - t.down[i].age
             /\ \A k \in DOMAIN t.down : t.down[k].type = "echo_reply" => k = i
  <2>1. i \in DOMAIN sl.down /\ sl.down[i].type = "echo_reply"
    BY <1>4, <1>8
  <2>2. /\ v.received # v.expected /\ sl.down[i].seq = v.expected
        /\ v.echo >= Heartbeat - u.maxDelay - sl.down[i].age
        /\ \A k \in DOMAIN sl.down : sl.down[k].type = "echo_reply" => k = i
    BY <2>1 DEF EchoesOk
  <2>3. w.echo >= Heartbeat - u.maxDelay - t.down[i].age
    BY <1>1, <1>2, <1>4, <1>6, <2>1, <2>2
  <2> QED BY <1>2, <1>4, <2>1, <2>2, <2>3
<1>9. w.received # w.expected =>
         \/ \E i \in DOMAIN t.up : t.up[i].type = "echo_request"
         \/ \E i \in DOMAIN t.down : t.down[i].type = "echo_reply"
  BY <1>2, <1>3, <1>4 DEF EchoesOk
<1> QED BY <1>7, <1>8, <1>9 DEF EchoesOk

(* What is first in a stream.                                               *)
LEMMA FirstOlder ==
    ASSUME NEW T, NEW q \in Seq(Msgs(T)), q # <<>>, NEW p, SameButOlder(p, q)
    PROVE  /\ 1 \in DOMAIN q /\ q[1].age \in Nat /\ p[1].age = q[1].age + 1
           /\ p[1].type = q[1].type /\ p[1].opt = q[1].opt
<1>1. 1 \in DOMAIN q /\ q[1] \in Msgs(T)
  OBVIOUS
<1>2. q[1].age \in Nat
  BY <1>1 DEF Msgs
<1> QED BY <1>1, <1>2 DEF SameButOlder

(* A session in which nobody is about to give up, a tick later.             *)
LEMMA LaterPreinit ==
    ASSUME NEW v \in DevType, NEW sl \in SlotType, PreinitOk(v, sl),
           NEW w, SameButLater(w, v), NEW t, SameButOlder(t.up, sl.up),
           SameButOlder(t.down, sl.down), SameButWaited(t.client, sl.client)
    PROVE  PreinitOk(w, t)
<1>1. sl.up \in Seq(Msgs(UpTypes)) /\ sl.down \in Seq(Msgs(DownTypes))
  BY DEF SlotType
<1>2. /\ t.client.tls = sl.client.tls /\ t.client.init = sl.client.init
      /\ t.client.preinit = sl.client.preinit /\ w.disconnect = v.disconnect
  BY DEF SameButLater, SameButWaited
<1>3. /\ Len(t.up) = Len(sl.up) /\ Len(t.down) = Len(sl.down)
      /\ (t.up = <<>> <=> sl.up = <<>>) /\ (t.down = <<>> <=> sl.down = <<>>)
  BY DEF SameButOlder
<1>4. sl.up # <<>> => t.up[1].type = sl.up[1].type
  BY <1>1, FirstOlder
<1>5. sl.down # <<>> => t.down[1].type = sl.down[1].type
  BY <1>1, FirstOlder
<1>6. (Len(sl.up) = 1 => sl.up # <<>>) /\ (Len(sl.down) = 1 => sl.down # <<>>)
  <2>1. Len(<<>>) = 0 /\ 0 # 1
    BY EmptySeq
  <2> QED BY <2>1, Zenon
<1> QED BY <1>2, <1>3, <1>4, <1>5, <1>6, Zenon DEF PreinitOk

(* The same for a device that waits for the answer to its init.             *)
LEMMA LaterInit ==
    ASSUME NEW u \in Setups, NEW v \in DevType, NEW sl \in SlotType, InitOk(v, sl),
           v.disconnect = "none", sl.client.exists, sl.client.disconnect = "none",
           \A i \in DOMAIN sl.down : sl.down[i].age < u.maxDelay,
           NEW w, SameButLater(w, v), NEW t, SameButOlder(t.up, sl.up),
           SameButOlder(t.down, sl.down), SameButWaited(t.client, sl.client)
    PROVE  InitOk(w, t) /\ (t.client.init => t.client.dpd > 0)
<1>1. sl.up \in Seq(Msgs(UpTypes)) /\ sl.down \in Seq(Msgs(DownTypes)) /\ sl.client.dpd \in Int
  BY DEF SlotType, ClientType
<1>2. /\ t.client.tls = sl.client.tls /\ t.client.init = sl.client.init
      /\ t.client.dpd = sl.client.dpd - 1 /\ w.tls = v.tls
  BY DEF SameButLater, SameButWaited
<1>3. /\ Len(t.up) = Len(sl.up) /\ Len(t.down) = Len(sl.down)
      /\ (t.up = <<>> <=> sl.up = <<>>) /\ (t.down = <<>> <=> sl.down = <<>>)
  BY DEF SameButOlder
<1>4. sl.up # <<>> => t.up[1].type = sl.up[1].type
  BY <1>1, FirstOlder
<1>5. sl.down # <<>> => /\ t.down[1].type = sl.down[1].type /\ t.down[1].opt = sl.down[1].opt
                        /\ t.down[1].age = sl.down[1].age + 1 /\ sl.down[1].age \in Nat
                        /\ sl.down[1].age < u.maxDelay
  BY <1>1, FirstOlder
<1>6. /\ Len(sl.up) = 1 => sl.up # <<>>
      /\ Len(sl.up) = 2 => sl.up # <<>>
      /\ Len(sl.down) = 1 => sl.down # <<>>
  <2>1. Len(<<>>) = 0 /\ 0 # 1 /\ 0 # 2
    BY EmptySeq
  <2> QED BY <2>1, Zenon
<1>7. u.maxDelay \in Nat /\ Interval \in Nat /\ u.maxDelay < Interval
  BY Constants
<1>8. CASE /\ Len(sl.up) = 2 /\ sl.up[1].type = "starttls" /\ sl.down = <<>>
           /\ v.tls /\ ~sl.client.init
  <2>1. InitOk(w, t)
    BY <1>2, <1>3, <1>4, <1>6, <1>8, Zenon DEF InitOk
  <2> QED BY <1>2, <1>8, <2>1
<1>9. CASE /\ Len(sl.up) = 1 /\ sl.up[1].type = "init" /\ sl.down = <<>>
           /\ sl.client.tls = v.tls /\ ~sl.client.init
  <2>1. InitOk(w, t)
    BY <1>2, <1>3, <1>4, <1>6, <1>9, Zenon DEF InitOk
  <2> QED BY <1>2, <1>9, <2>1
<1>10. CASE /\ sl.up = <<>> /\ Len(sl.down) = 1 /\ sl.client.tls = v.tls
            /\ sl.down[1].type = "server_error" /\ ~sl.client.init
  <2>1. InitOk(w, t)
    BY <1>2, <1>3, <1>5, <1>6, <1>10, Zenon DEF InitOk
  <2> QED BY <1>2, <1>10, <2>1
<1>11. CASE /\ sl.up = <<>> /\ Len(sl.down) = 1 /\ sl.client.tls = v.tls
            /\ sl.down[1].type = "init_reply"
            /\ sl.client.init <=> sl.down[1].opt = "no_error"
            /\ sl.client.init => sl.client.dpd >= Interval - sl.down[1].age
  <2>1. /\ t.down[1].type = sl.down[1].type /\ t.down[1].opt = sl.down[1].opt
        /\ t.down[1].age = sl.down[1].age + 1 /\ sl.down[1].age \in Nat
        /\ sl.down[1].age < u.maxDelay
    BY <1>5, <1>6, <1>11, Zenon
  <2>2. sl.client.init => t.client.dpd >= Interval - t.down[1].age /\ t.client.dpd > 0
    <3> DEFINE x == sl.client.dpd
               a == sl.down[1].age
    <3>1. SUFFICES ASSUME sl.client.init PROVE x - 1 >= Interval - (a + 1) /\ x - 1 > 0
      BY <1>2, <2>1
    <3>2. x \in Int /\ a \in Nat /\ a < u.maxDelay /\ x >= Interval - a
      BY <1>1, <1>11, <2>1, <3>1
    <3> HIDE DEF x, a
    <3> QED BY <1>7, <3>2
  <2>3. InitOk(w, t)
    BY <1>2, <1>3, <1>11, <2>1, <2>2, Zenon DEF InitOk
  <2> QED BY <1>2, <2>2, <2>3
<1> QED BY <1>8, <1>9, <1>10, <1>11, Zenon DEF InitOk

(* The same for a connected device: the server has time left for the next   *)
(* message of the device, and the device for the reply to the last one.     *)
LEMMA LaterConnected ==
    ASSUME NEW u \in Setups, NEW v \in DevType, NEW sl \in SlotType, ConnectedOk(u, v, sl),
           v.echo # 0, sl.client.exists, \A i \in DOMAIN sl.up : sl.up[i].age < u.maxDelay,
           NEW w, SameButLater(w, v), NEW t, SameButOlder(t.up, sl.up),
           SameButOlder(t.down, sl.down), SameButWaited(t.client, sl.client)
    PROVE  ConnectedOk(u, w, t) /\ t.client.dpd > 0
<1>1. sl.up \in Seq(Msgs(UpTypes)) /\ sl.client.dpd \in Int
  BY DEF SlotType, ClientType
<1>2. /\ u.maxDelay \in Nat /\ Interval \in Nat /\ Heartbeat \in Nat
      /\ 2 * u.maxDelay + Heartbeat < Interval
  BY Constants
<1>3. v.echo \in 1..Heartbeat
  BY <1>2 DEF ConnectedOk
<1>4. w.echo = v.echo - 1 /\ w.echo \in 0..Heartbeat /\ w.tls = v.tls
  BY <1>2, <1>3 DEF SameButLater, Less, Off
<1>5. /\ t.client.tls = sl.client.tls /\ t.client.init = sl.client.init
      /\ t.client.dpd = sl.client.dpd - 1
  BY DEF SameButWaited
<1>6. EchoesOk(u, w, t)
  BY <1>3, OlderEchoes DEF ConnectedOk
<1>7. \A i \in DOMAIN t.down : t.down[i].type \in {"set_option_reply", "echo_reply"}
  BY DEF ConnectedOk, SameButOlder
<1>8. t.up = <<>> <=> sl.up = <<>>
  BY DEF SameButOlder
<1>9. sl.up = <<>> => t.client.dpd >= Interval - Heartbeat + w.echo /\ t.client.dpd > 0
  <2>1. sl.up = <<>> => sl.client.dpd >= Interval - Heartbeat + v.echo
    BY DEF ConnectedOk
  <2> DEFINE x == sl.client.dpd
             e == v.echo
  <2>2. SUFFICES ASSUME sl.up = <<>> PROVE x - 1 >= Interval - Heartbeat + (e - 1) /\ x - 1 > 0
    BY <1>4, <1>5
  <2>3. x \in Int /\ e \in 1..Heartbeat /\ x >= Interval - Heartbeat + e
    BY <1>1, <1>3, <2>1, <2>2
  <2> HIDE DEF x, e
  <2> QED BY <1>2, <2>3
<1>10. sl.up # <<>> => t.client.dpd >= Interval - Heartbeat - t.up[1].age /\ t.client.dpd > 0
  <2>1. SUFFICES ASSUME sl.up # <<>>
                 PROVE  t.client.dpd >= Interval - Heartbeat - t.up[1].age /\ t.client.dpd > 0
    OBVIOUS
  <2>2. sl.client.dpd >= Interval - Heartbeat - sl.up[1].age
    BY <2>1 DEF ConnectedOk
  <2>3. 1 \in DOMAIN sl.up /\ sl.up[1].age \in Nat /\ t.up[1].age = sl.up[1].age + 1
    BY <1>1, <2>1, FirstOlder
  <2>4. sl.up[1].age < u.maxDelay
    BY <2>3
  <2> DEFINE x == sl.client.dpd
             a == sl.up[1].age
  <2>5. SUFFICES x - 1 >= Interval - Heartbeat - (a + 1) /\ x - 1 > 0
    BY <1>5, <2>3
  <2>6. x \in Int /\ a \in Nat /\ a < u.maxDelay /\ x >= Interval - Heartbeat - a
    BY <1>1, <2>2, <2>3, <2>4
  <2> HIDE DEF x, a
  <2> QED BY <1>2, <2>6
<1>11. sl.client.init /\ sl.client.tls = v.tls
  BY DEF ConnectedOk
<1> QED BY <1>4, <1>5, <1>6, <1>7, <1>8, <1>9, <1>10, <1>11 DEF ConnectedOk

(* A connection and its device after a tick.                                *)
LEMMA LaterLink ==
    ASSUME NEW u \in Setups, NEW v \in DevType, NEW sl \in SlotType, LinkOk(u, v, sl),
           v.state \notin {"waiting_connect", "stopped", "waiting_starttls_being_sent"},
           v.echo # 0, v.disconnect = "none", SlotOk(u, sl),
           sl.client.exists => sl.client.disconnect = "none",
           \A i \in DOMAIN sl.up : sl.up[i].age < u.maxDelay,
           \A i \in DOMAIN sl.down : sl.down[i].age < u.maxDelay,
           NEW w, SameButLater(w, v), NEW t, t.link = sl.link, SameButOlder(t.up, sl.up),
           SameButOlder(t.down, sl.down), SameButWaited(t.client, sl.client)
    PROVE  LinkOk(u, w, t)
<1>1. /\ w.state = v.state /\ w.tls = v.tls /\ w.disconnect = v.disconnect
      /\ v.state \in {"waiting_preinit_reply", "waiting_init_reply", "connected"}
  BY DEF SameButLater, DevType, States
<1>2. \A i \in DOMAIN t.down : t.down[i].tls = w.tls
  BY <1>1 DEF LinkOk, SameButOlder
<1>3. Len(t.down) = Len(sl.down)
  BY DEF SameButOlder
<1>4. sl.link = "up" => SessionOk(u, w, t)
  <2>1. SUFFICES ASSUME sl.link = "up" PROVE SessionOk(u, w, t)
    OBVIOUS
  <2>2. SessionOk(u, v, sl) /\ sl.client.exists /\ sl.client.disconnect = "none"
    BY <2>1 DEF LinkOk, SlotOk
  <2>3. /\ t.client.init = sl.client.init /\ t.client.disconnect = "none"
        /\ w.disconnect \notin EchoReasons
    BY <1>1, <2>2 DEF SameButWaited, SessionOk
  <2>4. CASE v.state = "waiting_preinit_reply"
    <3>1. PreinitOk(v, sl)
      BY <2>2, <2>4 DEF SessionOk
    <3>2. PreinitOk(w, t) /\ ~sl.client.init
      BY <3>1, LaterPreinit DEF PreinitOk
    <3> QED BY <1>1, <2>3, <2>4, <3>2 DEF SessionOk
  <2>5. CASE v.state = "waiting_init_reply"
    <3>1. InitOk(v, sl)
      BY <2>2, <2>5 DEF SessionOk
    <3>2. InitOk(w, t) /\ (t.client.init => t.client.dpd > 0)
      BY <2>2, <3>1, LaterInit
    <3> QED BY <1>1, <2>3, <2>5, <3>2 DEF SessionOk
  <2>6. CASE v.state = "connected"
    <3>1. ConnectedOk(u, v, sl)
      BY <2>2, <2>6 DEF SessionOk
    <3>2. ConnectedOk(u, w, t) /\ t.client.dpd > 0
      BY <2>2, <3>1, LaterConnected
    <3> QED BY <1>1, <2>3, <2>6, <3>2 DEF SessionOk
  <2> QED BY <1>1, <2>4, <2>5, <2>6
<1> QED BY <1>1, <1>2, <1>3, <1>4 DEF LinkOk

(* An invariant of all connections and devices after a step of all of them. *)
LEMMA TickStep ==
    ASSUME Inv, Tick
    PROVE  Inv'
<1>1. /\ setup \in Setups /\ dev \in [Devices -> DevType] /\ slot \in [Slots -> SlotType]
      /\ \A d \in Devices : DevOk(setup, d, dev[d])
      /\ \A s \in Slots : SlotOk(setup, slot[s])
  BY DEF Inv, TypeInv
<1>2. UNCHANGED <<setup, config, clusters, reach, faults>>
  BY Zenon DEF Tick
<1>3. dev' = [d \in Devices |-> Later(dev[d])]
  BY Zenon DEF Tick, Later
<1>4. slot' = [s \in Slots |-> Aged(slot[s])]
  BY Zenon DEF Tick, Aged
<1>5. ASSUME NEW d \in Devices
      PROVE  /\ 0 \notin Timers(dev[d]) /\ dev[d].disconnect = "none"
             /\ dev[d].state # "waiting_starttls_being_sent"
  BY Zenon DEF Tick
<1>6. ASSUME NEW s \in Slots
      PROVE  /\ slot[s].link \notin {"device_closed", "server_closed"}
             /\ slot[s].client.exists => slot[s].client.dpd # 0 /\ slot[s].client.disconnect = "none"
             /\ \A i \in DOMAIN slot[s].up : slot[s].up[i].age < setup.maxDelay
             /\ \A i \in DOMAIN slot[s].down : slot[s].down[i].age < setup.maxDelay
  BY Zenon DEF Tick, InTime
<1>7. ASSUME NEW d \in Devices
      PROVE  dev'[d] \in DevType /\ DevOk(setup, d, dev'[d]) /\ SameButLater(dev'[d], dev[d])
  <2>1. dev'[d] = Later(dev[d]) /\ dev[d] \in DevType
    BY <1>1, <1>3
  <2> QED BY <1>1, <1>5, <2>1, LaterDevice
<1>8. ASSUME NEW s \in Slots
      PROVE  /\ slot'[s] \in SlotType /\ SlotOk(setup, slot'[s]) /\ slot'[s].link = slot[s].link
             /\ SameButOlder(slot'[s].up, slot[s].up) /\ SameButOlder(slot'[s].down, slot[s].down)
             /\ SameButWaited(slot'[s].client, slot[s].client)
  <2>1. slot'[s] = Aged(slot[s]) /\ slot[s] \in SlotType /\ SlotOk(setup, slot[s])
    BY <1>1, <1>4
  <2> QED BY <1>1, <1>6, <2>1, AgedSlot
<1>9. TypeInv'
  <2>1. dev' \in [Devices -> DevType]
    BY <1>3, <1>7
  <2>2. slot' \in [Slots -> SlotType]
    BY <1>4, <1>8
  <2> QED BY <1>1, <1>2, <2>1, <2>2 DEF Inv, TypeInv
<1>10. ASSUME NEW d \in Devices, dev'[d].conn # NoSlot
       PROVE  LinkOk(setup, dev'[d], slot'[dev'[d].conn])
  <2> DEFINE s == dev[d].conn
  <2>1. dev'[d].conn = s /\ SameButLater(dev'[d], dev[d]) /\ s # NoSlot
    BY <1>7, <1>10 DEF SameButLater
  <2>2. s \in Slots /\ dev[d] \in DevType
    BY <1>1, <2>1 DEF DevType
  <2>3. LinkOk(setup, dev[d], slot[s]) /\ SlotOk(setup, slot[s]) /\ slot[s] \in SlotType
    BY <1>1, <2>1, <2>2 DEF Inv
  <2>4. /\ dev[d].state \notin {"waiting_connect", "stopped", "waiting_starttls_being_sent"}
        /\ dev[d].echo # 0 /\ dev[d].disconnect = "none"
    BY <1>1, <1>5, <2>1 DEF DevOk, Timers
  <2> HIDE DEF s
  <2>5. LinkOk(setup, dev'[d], slot'[s])
    BY <1>1, <1>6, <1>8, <2>1, <2>2, <2>3, <2>4, LaterLink
  <2> QED BY <2>1, <2>5
<1>11. ConnsOk'
  <2>1. \A d \in Devices : dev'[d].conn = dev[d].conn
    BY <1>7 DEF SameButLater
  <2>2. \A s \in Slots : slot'[s].link = slot[s].link
    BY <1>8
  <2> QED BY <2>1, <2>2 DEF Inv, ConnsOk, Uses
<1>12. ClustersOk(clusters', slot')
  <2>1. \A s \in Slots : SameClient(slot[s].client, slot'[s].client)
    BY <1>8 DEF SameButWaited, SameClient
  <2>2. ClustersOk(clusters, slot)
    BY DEF Inv
  <2> QED BY <1>2, <2>1, <2>2, ClustersKept
<1> QED BY <1>2, <1>7, <1>8, <1>9, <1>10, <1>11, <1>12 DEF Inv

(* qnetd_instance_destroy                                                   *)
LEMMA ServerRestartStep ==
    ASSUME Inv, ServerRestart
    PROVE  Inv'
<1>1. /\ setup \in Setups /\ slot \in [Slots -> SlotType] /\ dev \in [Devices -> DevType]
      /\ \A s \in Slots : SlotOk(setup, slot[s])
  BY DEF Inv, TypeInv
<1>2. /\ UNCHANGED <<setup, dev, config, reach>> /\ faults' \in Nat
      /\ clusters' = [n \in {} |-> <<>>]
  <2>1. faults \in Nat /\ faults > 0 /\ faults' = faults - 1
    BY Zenon DEF ServerRestart, Fault, Inv, TypeInv
  <2>2. faults' \in Nat
    BY <2>1
  <2> QED BY <2>2, Zenon DEF ServerRestart
<1>3. slot' = [s \in Slots |-> ByServer(slot[s], Uses(s))]
  BY Zenon DEF ServerRestart, ByServer
<1>4. ASSUME NEW s \in Slots
      PROVE  /\ slot'[s] \in SlotType /\ SlotOk(setup, slot'[s]) /\ ~slot'[s].client.init
             /\ Uses(s) => slot'[s].link \in {"cut", "server_closed"} /\ slot'[s].down = slot[s].down
             /\ ~Uses(s) => slot'[s] = FreeSlot
  <2>1. Uses(s) \in BOOLEAN /\ (Uses(s) => slot[s].link \in {"up", "cut", "server_closed"})
    BY PeerOf DEF Uses, LinkOk
  <2>2. slot'[s] = ByServer(slot[s], Uses(s)) /\ slot[s] \in SlotType
    BY <1>1, <1>3
  <2> QED BY <1>1, <2>1, <2>2, ClosedByServer
<1>5. TypeInv'
  <2>1. slot' \in [Slots -> SlotType]
    BY <1>3, <1>4
  <2> QED BY <1>1, <1>2, <2>1 DEF Inv, TypeInv
<1>6. ASSUME NEW d \in Devices, dev[d].conn # NoSlot
      PROVE  LinkOk(setup, dev[d], slot'[dev[d].conn])
  <2>1. dev[d].conn \in Slots /\ Uses(dev[d].conn)
    BY <1>1, <1>6 DEF DevType, Uses
  <2>2. LinkOk(setup, dev[d], slot[dev[d].conn])
    BY <1>6 DEF Inv
  <2> QED BY <1>4, <2>1, <2>2, LinkDown
<1>7. ASSUME NEW s \in Slots, slot'[s].link \in {"up", "server_closed"} PROVE Uses(s)
  BY <1>1, <1>4, <1>7, FreeSlotIsOk
<1>8. ConnsOk'
  BY <1>2, <1>7 DEF Inv, ConnsOk, Uses
<1>9. ClustersOk(clusters', slot')
  BY <1>2, <1>4 DEF ClustersOk
<1>10. \A d \in Devices : DevOk(setup, d, dev[d])
  BY DEF Inv
<1> QED BY <1>2, <1>4, <1>5, <1>6, <1>8, <1>9, <1>10 DEF Inv

-----------------------------------------------------------------------------
(* The invariant                                                           *)

(* It holds at the start: no connections, no clients.                       *)
LEMMA InitInv ==
    ASSUME Init
    PROVE  Inv
<1>1. setup \in Setups /\ setup.maxFaults \in Nat /\ 1 \in DOMAIN Configs
  BY SessionAssumption DEF Init
<1>2. ASSUME NEW d \in Devices
      PROVE  dev[d] \in DevType /\ DevOk(setup, d, dev[d]) /\ dev[d].conn = NoSlot
  <2>1. \/ dev[d] = NewDev
        \/ dev[d] = [NewDev EXCEPT !.state = "stopped", !.connect = Off]
    BY DEF Init
  <2> QED BY <1>1, <2>1, CleanedDevice
<1>3. ASSUME NEW s \in Slots PROVE slot[s] = FreeSlot
  BY DEF Init
<1>4. /\ FreeSlot \in SlotType /\ SlotOk(setup, FreeSlot) /\ FreeSlot.link = "free"
      /\ ~FreeSlot.client.init
  BY <1>1, FreeSlotIsOk
<1>5. TypeInv
  <2>1. dev = [d \in Devices |-> dev[d]]
    BY DEF Init
  <2>2. dev \in [Devices -> DevType]
    BY <1>2, <2>1
  <2>3. slot \in [Slots -> SlotType]
    BY <1>4 DEF Init
  <2>4. config \in [Devices -> DOMAIN Configs] /\ reach \in [Devices -> BOOLEAN] /\ faults \in Nat
    BY <1>1 DEF Init
  <2> QED BY <1>1, <2>2, <2>3, <2>4 DEF TypeInv
<1>6. ConnsOk
  BY <1>2, <1>3, <1>4 DEF ConnsOk
<1>7. ClustersOk(clusters, slot)
  BY <1>3, <1>4 DEF ClustersOk, Init
<1> QED BY <1>2, <1>3, <1>4, <1>5, <1>6, <1>7 DEF Inv

(* Every step of the system keeps it.                                       *)
LEMMA NextInv ==
    ASSUME Inv, [Next]_vars
    PROVE  Inv'
<1>1. CASE UNCHANGED vars
  BY <1>1 DEF vars, Inv, TypeInv, ConnsOk, Uses
<1>2. ASSUME NEW s \in Slots, Server(s) PROVE Inv'
  BY <1>2, ServerReadStep, ServerEofStep, DpdTimerStep, ClientDisconnectStep, Zenon DEF Server
<1>3. ASSUME NEW d \in Devices, Device(d) PROVE Inv'
  BY <1>3, ConnectStep, StarttlsSentStep, DeviceReadStep, DeviceEofStep, EchoTimerStep,
     ConnectTimerStep, PostPollLoopStep, WakeStep, Zenon DEF Device
<1>4. ASSUME NEW d \in Devices, Cut(d) \/ Heal(d) PROVE Inv'
  BY <1>4, CutStep, HealStep, Zenon
<1>5. ASSUME NEW d \in Devices, NEW v \in DOMAIN Configs, NEW crash \in BOOLEAN,
             Restart(d, v, crash)
      PROVE  Inv'
  BY <1>5, RestartStep, Zenon
<1>6. CASE ServerRestart
  BY <1>6, ServerRestartStep
<1>7. CASE Tick
  BY <1>7, TickStep
<1> QED BY <1>1, <1>2, <1>3, <1>4, <1>5, <1>6, <1>7, Zenon DEF Next

(* In every state of every behaviour the two ends of a connection and what  *)
(* is on its way between them fit together: what the handlers of qnetd and  *)
(* of the device find when a message is read is what their states and flags *)
(* lead them to expect.                                                     *)
THEOREM SessionInvariant == Spec => []Inv
<1>1. Init => Inv
  BY InitInv
<1>2. Inv /\ [Next]_vars => Inv'
  BY NextInv
<1> QED BY <1>1, <1>2, PTL DEF Spec

-----------------------------------------------------------------------------
(* The properties                                                          *)

(* TLS is used where it must be (qnetd_client_msg_received_check_tls,       *)
(* qdevice_net_msg_received_preinit_reply): for all setups of the server    *)
(* and of the devices, any number of them, cuts, crashes and restarts.      *)
THEOREM TlsIsAlwaysUsed == Spec => []TlsIsUsed
<1>1. Inv => TlsIsUsed
  <2> SUFFICES ASSUME Inv PROVE TlsIsUsed
    OBVIOUS
  <2>1. ASSUME NEW s \in Slots, NEW i \in DOMAIN slot[s].up,
               slot[s].up[i].type \in {"init", "set_option", "echo_request"}, ~slot[s].up[i].tls
        PROVE  MayBeClear(setup)
    <3>1. UpOk(setup, slot[s].up, slot[s].client)
      BY DEF Inv, SlotOk
    <3> QED BY <2>1, <3>1 DEF UpOk
  <2>2. ASSUME NEW s \in Slots, slot[s].client.init, setup.server = "required"
        PROVE  slot[s].client.tls /\ (setup.certRequired => slot[s].client.verified)
    <3>1. ClientOk(setup, slot[s].client)
      BY DEF Inv, SlotOk
    <3>2. TlsSettled(setup, slot[s].client)
      BY <2>2, <3>1 DEF ClientOk
    <3> QED BY <2>2, <3>2 DEF TlsSettled
  <2> QED BY <2>1, <2>2 DEF TlsIsUsed, MayBeClear, Clients
<1> QED BY <1>1, SessionInvariant, PTL

(* Both sides switch to TLS at the same place of the stream                 *)
(* (qdevice_net_socket_write_finished, qnetd_client_msg_received_starttls). *)
THEOREM TlsStaysInStep == Spec => []TlsInStep
<1>1. Inv => TlsInStep
  <2> SUFFICES ASSUME Inv PROVE TlsInStep
    OBVIOUS
  <2>1. ASSUME NEW s \in Slots, slot[s].up # <<>>
        PROVE  Head(slot[s].up).tls = slot[s].client.tls
    <3>1. UpOk(setup, slot[s].up, slot[s].client) /\ slot[s] \in SlotType
      BY DEF Inv, TypeInv, SlotOk
    <3>2. slot[s].up \in Seq(Msgs(UpTypes)) /\ slot[s].client.tls \in BOOLEAN
      BY <3>1 DEF SlotType, ClientType
    <3>3. 1 \in DOMAIN slot[s].up /\ Head(slot[s].up) = slot[s].up[1]
      BY <2>1, <3>2
    <3>4. slot[s].up[1].tls = (slot[s].client.tls \/ (1 = 2 /\ slot[s].up[1].type = "starttls"))
      BY <3>1, <3>3 DEF UpOk
    <3> QED BY <3>2, <3>3, <3>4
  <2>2. ASSUME NEW d \in Devices, dev[d].conn # NoSlot, slot[dev[d].conn].down # <<>>
        PROVE  Head(slot[dev[d].conn].down).tls = dev[d].tls
    <3>1. dev[d] \in DevType /\ slot \in [Slots -> SlotType]
      BY DEF Inv, TypeInv
    <3>2. dev[d].conn \in Slots
      BY <2>2, <3>1 DEF DevType
    <3> DEFINE q == slot[dev[d].conn].down
    <3>3. q \in Seq(Msgs(DownTypes)) /\ \A i \in DOMAIN q : q[i].tls = dev[d].tls
      BY <2>2, <3>1, <3>2 DEF Inv, LinkOk, SlotType
    <3>4. q # <<>>
      BY <2>2
    <3> HIDE DEF q
    <3>5. 1 \in DOMAIN q /\ Head(q) = q[1]
      BY <3>3, <3>4
    <3> QED BY <3>3, <3>5 DEF q
  <2> QED BY <2>1, <2>2 DEF TlsInStep
<1> QED BY <1>1, SessionInvariant, PTL

(* The list of clusters is what the clients say                             *)
(* (qnetd_cluster_list_add_client, qnetd_cluster_list_del_client,           *)
(* qnetd_client_msg_received_init_check_new_client), and the timers are     *)
(* those of the state that the session is in.                               *)
THEOREM ClustersAlwaysMatch == Spec => []ClustersMatchClients
<1>1. Inv => TypeOK
  <2> SUFFICES ASSUME Inv PROVE TypeOK
    OBVIOUS
  <2>1. ASSUME NEW d \in Devices
        PROVE  /\ dev[d].conn \in Slots \cup {NoSlot}
               /\ Timers(dev[d]) \subseteq Off..(ConnectTimeout + Heartbeat + MaxSleep)
               /\ dev[d].echo # Off => dev[d].state = "connected"
               /\ dev[d].connect # Off => dev[d].state # "connected" /\ dev[d].sleep = Off
    <3>1. dev[d] \in DevType /\ DevOk(setup, d, dev[d]) /\ setup \in Setups
      BY DEF Inv, TypeInv
    <3>2. ConnectTimeout \in Nat /\ Heartbeat \in Nat /\ MaxSleep \in Nat
      BY <3>1, Constants
    <3> DEFINE n == ConnectTimeout + Heartbeat + MaxSleep
    <3>3. Off..ConnectTimeout \subseteq Off..n /\ Off..Heartbeat \subseteq Off..n
          /\ Off..MaxSleep \subseteq Off..n
      BY <3>2 DEF Off
    <3> HIDE DEF n
    <3>4. Timers(dev[d]) \subseteq Off..n
      BY <3>1, <3>3 DEF Timers, DevOk
    <3>5. dev[d].conn \in Slots \cup {NoSlot}
      BY <3>1 DEF DevType
    <3> QED BY <3>1, <3>4, <3>5 DEF DevOk, n
  <2>2. ASSUME NEW s \in Slots
        PROVE  slot[s].link \in {"free", "up", "cut", "device_closed", "server_closed"}
    BY DEF Inv, TypeInv, SlotType
  <2> QED BY <2>1, <2>2 DEF TypeOK
<1>2. Inv => ClustersMatchClients
  <2> SUFFICES ASSUME Inv PROVE ClustersMatchClients
    OBVIOUS
  <2>1. ClustersOk(clusters, slot) /\ TypeOK
    BY <1>1 DEF Inv
  <2>2. ASSUME NEW n \in DOMAIN clusters
        PROVE  /\ clusters[n] # <<>>
               /\ \A i \in DOMAIN clusters[n] :
                     LET c == slot[clusters[n][i]].client IN
                     /\ c.exists /\ c.init /\ c.cluster = n
                     /\ \A j \in 1..(i - 1) :
                           LET o == slot[clusters[n][j]].client IN
                           o.node < c.node /\ Configs[o.config] = Configs[c.config]
    <3>1. ListOk(n, clusters[n], slot)
      BY <2>1 DEF ClustersOk
    <3>2. clusters[n] \in Seq(Slots) /\ clusters[n] # <<>>
      BY <3>1 DEF ListOk
    <3>3. ASSUME NEW i \in DOMAIN clusters[n]
          PROVE  /\ slot[clusters[n][i]].client.exists /\ slot[clusters[n][i]].client.init
                 /\ slot[clusters[n][i]].client.cluster = n
      BY <3>1 DEF ListOk
    <3>4. ASSUME NEW i \in DOMAIN clusters[n], NEW j \in 1..(i - 1)
          PROVE  /\ slot[clusters[n][j]].client.node < slot[clusters[n][i]].client.node
                 /\ Configs[slot[clusters[n][j]].client.config] =
                       Configs[slot[clusters[n][i]].client.config]
      <4>1. j \in DOMAIN clusters[n] /\ j < i
        <5> DEFINE l == Len(clusters[n])
        <5>1. l \in Nat /\ DOMAIN clusters[n] = 1..l
          BY <3>2
        <5> HIDE DEF l
        <5> QED BY <5>1
      <4> QED BY <3>1, <4>1 DEF ListOk
    <3> QED BY <3>2, <3>3, <3>4, Zenon
  <2>3. ASSUME NEW s \in Clients, slot[s].client.init
        PROVE  \E i \in DOMAIN clusters[slot[s].client.cluster] :
                  clusters[slot[s].client.cluster][i] = s
    BY <2>1, <2>3 DEF ClustersOk, Member, Clients
  <2> QED BY <2>1, <2>2, <2>3, Zenon DEF ClustersMatchClients
<1> QED BY <1>2, SessionInvariant, PTL

(* Nobody gives up a peer that is well: with messages that take at most     *)
(* half a heartbeat interval, the dead-peer timer of the server             *)
(* (qnetd_client_dpd_timer_cb) and the echo timer of the device             *)
(* (qdevice_net_echo_request_timer_callback) find a reason only on a        *)
(* connection that is cut or closed, or of a client that is not admitted.   *)
THEOREM HealthyPeersAlwaysStay == Spec => []HealthyPeersStay
<1>1. Inv => HealthyPeersStay
  <2> SUFFICES ASSUME Inv PROVE HealthyPeersStay
    OBVIOUS
  <2>1. ASSUME NEW s \in Slots, slot[s].client.disconnect = "dpd", slot[s].link = "up"
        PROVE  ~slot[s].client.init
    <3>1. PICK d \in Devices : dev[d].conn = s
      BY <2>1 DEF Inv, ConnsOk, Uses
    <3>2. LinkOk(setup, dev[d], slot[s])
      BY <3>1, PeerOf
    <3> QED BY <2>1, <3>2 DEF LinkOk, SessionOk
  <2>2. ASSUME NEW d \in Devices, dev[d].disconnect \in EchoReasons
        PROVE  slot[dev[d].conn].link # "up"
    <3>1. dev[d].conn # NoSlot
      BY <2>2 DEF Inv, DevOk
    <3>2. LinkOk(setup, dev[d], slot[dev[d].conn])
      BY <3>1 DEF Inv
    <3> QED BY <2>2, <3>2 DEF LinkOk, SessionOk
  <2> QED BY <2>1, <2>2 DEF HealthyPeersStay, Clients, EchoReasons
<1> QED BY <1>1, SessionInvariant, PTL
=============================================================================
