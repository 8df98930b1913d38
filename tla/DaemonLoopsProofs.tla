-------------------------- MODULE DaemonLoopsProofs --------------------------
(***************************************************************************)
(* The loops of both daemons: what the loop has registered, what it polls, *)
(* and that no entry is used once it is freed.                             *)
(*                                                                         *)
(* The inductive invariant relates the three lists that a callback may     *)
(* change under the feet of pr_poll_loop_exec: the list of descriptors,    *)
(* the poll array made from it, and the callbacks that are still due.      *)
(***************************************************************************)
EXTENDS DaemonLoops, SequenceTheorems, TLAPS

Fds   == QnetdFds \cup QdeviceFds
Items == [entry : Fds, events : SUBSET Events]
Calls == [at : Nat, entry : Fds, stage : Stages]

(* What each descriptor wants to be polled for; a tool, or a client, that   *)
(* is to be disconnected wants nothing.                                     *)
Wanted ==
    [fd \in Fds |->
        IF fd \in {"ipc", "server"} THEN {"in"}
        ELSE IF fd \in Slots THEN IF ipc_list[fd].scheduled THEN {} ELSE ClientEvents(fd)
        ELSE IF fd \in NetClients
             THEN IF net[fd].scheduled THEN {}
                  ELSE {"in"} \cup (IF net[fd].out > 0 THEN {"out"} ELSE {})
        ELSE QdEvents(fd)]

ListInv == fd_list \in Seq(Fds) /\ IsInjective(fd_list)

(* The phases: what is due, and what was freed, belongs to a dispatch.      *)
ControlInv ==
    /\ poll_array \in Seq(Items) /\ allocated \in Nat /\ Len(poll_array) <= allocated
    /\ phase \in Phases /\ result \in {0, -1, -3}
    /\ due \in SUBSET Calls
    /\ phase # "dispatch" => due = {}
    /\ phase \in {"out", "pre"} => poll_array = <<>>
    /\ phase \in {"pre", "fill", "poll"} => freed = {}
    /\ running \in {"connect", "loop", "destroy", "ended"}
    /\ running # "loop" => phase = "out"

(* The walk over the list stands at the k-th entry: those before it were    *)
(* asked and have what they want, w, in the poll array arr, and nothing     *)
(* else is there.                                                           *)
StandsAt(k, list, cur) == cur = IF k <= Len(list) THEN list[k] ELSE NoEntry

HaveWhatTheyWant(k, list, arr, w) ==
    \A i \in 1..(k - 1) : w[list[i]] # {} => \E j \in DOMAIN arr : arr[j].entry = list[i]

NothingElse(k, list, arr, w) ==
    \A j \in DOMAIN arr : /\ \E i \in 1..(k - 1) : arr[j].entry = list[i]
                          /\ arr[j].events = w[arr[j].entry]

PolledOnce(arr) == \A i, j \in DOMAIN arr : arr[i].entry = arr[j].entry => i = j

WalkedTo(k, list, cur, arr, w) ==
    /\ StandsAt(k, list, cur)
    /\ HaveWhatTheyWant(k, list, arr, w)
    /\ NothingElse(k, list, arr, w)
    /\ PolledOnce(arr)

FillInv ==
    /\ phase \in {"fill", "poll"} =>
          \E k \in 1..(Len(fd_list) + 1) : WalkedTo(k, fd_list, cursor, poll_array, Wanted)
    /\ phase = "poll" => cursor = NoEntry

(* A callback that is due finds its entry, and what it was polled for: reg  *)
(* is registered and not freed, il the tools and nt the clients.            *)
Ready(x, reg, il, nt) ==
    /\ x.entry \in reg
    /\ x.entry \in Slots /\ x.stage = "read"  => il[x.entry].reading
    /\ x.entry \in Slots /\ x.stage = "write" => il[x.entry].writing
    /\ x.entry \in NetClients /\ x.stage = "write" => nt[x.entry].out > 0

(* An entry is due at one place of the array, with one callback if it is a  *)
(* tool or the socket that is being connected.                              *)
OncePerEntry(d, trying) ==
    \A x, y \in d : x.entry = y.entry =>
        x.at = y.at /\ (x.entry \in Slots \cup {trying} => x.stage = y.stage)

DueInv ==
    /\ \A x \in due : Ready(x, Registered \ freed, ipc_list, net)
    /\ OncePerEntry(due, qd.trying)

(* A tool is read from, or answered, until its disconnect is scheduled.     *)
ToolOk(k) ==
    /\ k \in [used : BOOLEAN, reading : BOOLEAN, writing : BOOLEAN,
              scheduled : BOOLEAN, shutdown : BOOLEAN, left : 0..Pieces]
    /\ ~(k.reading /\ k.writing)
    /\ k.used /\ ~k.scheduled => k.reading \/ k.writing
    /\ k.writing => k.left > 0

Peers == [there : BOOLEAN, unread : {"none", "part"} \cup Commands,
          sent : BOOLEAN, answered : BOOLEAN]

IpcInv ==
    /\ ipc_open \in BOOLEAN
    /\ pending \in 0..MaxPending /\ made \in 0..MaxTools
    /\ peer \in [Slots -> Peers]
    /\ DOMAIN ipc_list = Slots /\ \A c \in Slots : ToolOk(ipc_list[c])

NetInv ==
    /\ net \in [NetClients -> [scheduled : BOOLEAN, out : 0..MaxOut]]
    /\ clients \in Seq(NetClients) /\ IsInjective(clients)
    /\ walk \in Seq(NetClients)
    /\ daemon = "qdevice" => clients = <<>>

(* One socket at most: the one that is being connected, or the connected.   *)
QdInv ==
    /\ daemon \in Daemons
    /\ qd \in [sync : BOOLEAN, heurcmd : BOOLEAN, trying : NetSocks \cup {NoSock},
               destroyed : BOOLEAN, socket : NetSocks \cup {NoSock}, scheduled : BOOLEAN,
               queued : BOOLEAN, closed : {"no", "heuristics", "corosync"}]
    /\ qd.destroyed <=> qd.trying = NoSock
    /\ ~qd.destroyed => qd.socket = NoSock
    /\ running = "connect" => daemon = "qdevice" /\ qd.destroyed /\ qd.socket = NoSock
    /\ daemon = "qnetd" => qd = NewQd

(* The descriptors that are open.                                           *)
OpenNet == IF daemon = "qnetd" THEN Clients
           ELSE (IF qd.destroyed THEN {} ELSE {qd.trying}) \cup ({qd.socket} \ {NoSock})

OpenInv == running # "ended" => Registered = Range(FixedFds(daemon)) \cup Connected \cup OpenNet

Inv == /\ ListInv /\ ControlInv /\ FillInv /\ DueInv
       /\ IpcInv /\ NetInv /\ QdInv /\ OpenInv

-----------------------------------------------------------------------------
(* Lists                                                                   *)

(* r is the list q without its element number at.                          *)
IsRemoval(S, q, at, r) ==
    /\ r \in Seq(S) /\ Len(q) \in Nat /\ Len(r) = Len(q) - 1
    /\ DOMAIN q = 1..Len(q) /\ DOMAIN r = 1..(Len(q) - 1)
    /\ \A i \in 1..(Len(q) - 1) : r[i] = IF i < at THEN q[i] ELSE q[i + 1]

(* Where the elements of a list are when one of them is removed.            *)
LEMMA RemoveAtPositions ==
    ASSUME NEW S, NEW q \in Seq(S), NEW at \in 1..Len(q)
    PROVE  IsRemoval(S, q, at, RemoveAt(q, at))
<1> DEFINE r == RemoveAt(q, at)
<1> DEFINE a == SubSeq(q, 1, at - 1)
           b == SubSeq(q, at + 1, Len(q))
<1>1. Len(q) \in Nat /\ DOMAIN q = 1..Len(q) /\ at \in Nat /\ \A i \in 1..Len(q) : q[i] \in S
  OBVIOUS
<1>2. /\ a \in Seq(S) /\ Len(a) = at - 1 /\ \A i \in 1..(at - 1) : a[i] = q[i]
  BY <1>1
<1>3. /\ b \in Seq(S) /\ Len(b) = Len(q) - at
      /\ \A i \in 1..(Len(q) - at) : b[i] = q[at + i]
  <2>1. \A i \in (at + 1)..Len(q) : q[i] \in S
    BY <1>1
  <2>2. /\ b \in Seq(S) /\ Len(b) = IF at + 1 <= Len(q) THEN Len(q) - (at + 1) + 1 ELSE 0
        /\ \A i \in 1..(Len(q) - (at + 1) + 1) : b[i] = q[(at + 1) + i - 1]
    BY <1>1, <2>1, SubSeqProperties
  <2>3. /\ at + 1 <= Len(q) => Len(q) - (at + 1) + 1 = Len(q) - at
        /\ ~(at + 1 <= Len(q)) => Len(q) - at = 0
    OBVIOUS
  <2>4. \A i \in 1..(Len(q) - at) : /\ i \in 1..(Len(q) - (at + 1) + 1)
                                     /\ (at + 1) + i - 1 = at + i
    OBVIOUS
  <2> HIDE DEF b
  <2>5. \A i \in 1..(Len(q) - at) : b[i] = q[at + i]
    BY <2>2, <2>4, Zenon
  <2>6. Len(b) = Len(q) - at
    <3>1. CASE at + 1 <= Len(q)
      BY <2>2, <2>3, <3>1, Zenon
    <3>2. CASE ~(at + 1 <= Len(q))
      BY <2>2, <2>3, <3>2, Zenon
    <3> QED BY <3>1, <3>2
  <2> QED BY <2>2, <2>5, <2>6, Zenon
<1>4. r = a \o b
  BY DEF RemoveAt
<1> HIDE DEF a, b, r
<1>5. /\ r \in Seq(S) /\ Len(r) = Len(q) - 1
      /\ \A i \in 1..(Len(q) - 1) : r[i] = IF i <= at - 1 THEN a[i] ELSE b[i - (at - 1)]
  <2>1. /\ r \in Seq(S) /\ Len(r) = Len(a) + Len(b)
        /\ \A i \in 1..(Len(a) + Len(b)) : r[i] = IF i <= Len(a) THEN a[i] ELSE b[i - Len(a)]
    <3>1. a \in Seq(S) /\ b \in Seq(S)
      BY <1>2, <1>3
    <3> QED BY <1>4, <3>1, ConcatProperties
  <2>2. Len(a) + Len(b) = Len(q) - 1
    BY <1>1, <1>2, <1>3
  <2> QED BY <1>2, <2>1, <2>2
<1>6. \A i \in 1..(Len(q) - 1) : r[i] = IF i < at THEN q[i] ELSE q[i + 1]
  <2> TAKE i \in 1..(Len(q) - 1)
  <2>1. CASE i < at
    BY <1>1, <1>2, <1>5, <2>1
  <2>2. CASE i >= at
    <3>1. i - (at - 1) \in 1..(Len(q) - at) /\ at + (i - (at - 1)) = i + 1
      BY <1>1, <2>2
    <3> QED BY <1>1, <1>3, <1>5, <2>2, <3>1
  <2> QED BY <1>1, <2>1, <2>2
<1>7. DOMAIN r = 1..Len(r)
  BY <1>5
<1>8. IsRemoval(S, q, at, r)
  BY <1>1, <1>5, <1>6, <1>7, Zenon DEF IsRemoval
<1> QED BY <1>8, Zenon DEF r

(* The same for the removal of an element.                                  *)
LEMMA WithoutPositions ==
    ASSUME NEW S, NEW q \in Seq(S), NEW x \in Range(q), NEW r, r = Without(q, x)
    PROVE  \E at \in 1..Len(q) :
              /\ q[at] = x /\ r \in Seq(S) /\ Len(r) = Len(q) - 1
              /\ \A i \in 1..(Len(q) - 1) : r[i] = IF i < at THEN q[i] ELSE q[i + 1]
<1> DEFINE at == CHOOSE i \in DOMAIN q : q[i] = x
<1>1. \E i \in DOMAIN q : q[i] = x
  BY DEF Range
<1>2. at \in DOMAIN q /\ q[at] = x
  BY <1>1, Zenon
<1>3. at \in 1..Len(q)
  BY <1>2
<1>4. r = RemoveAt(q, at)
  BY Zenon DEF Without
<1> HIDE DEF at
<1>5. /\ r \in Seq(S) /\ Len(r) = Len(q) - 1
      /\ \A i \in 1..(Len(q) - 1) : r[i] = IF i < at THEN q[i] ELSE q[i + 1]
  <2>1. IsRemoval(S, q, at, RemoveAt(q, at))
    BY <1>3, RemoveAtPositions
  <2> QED BY <1>4, <2>1, Zenon DEF IsRemoval
<1> QED BY <1>2, <1>3, <1>5, Zenon

(* Removing an element of a list without repetitions removes exactly it.    *)
LEMMA WithoutList ==
    ASSUME NEW S, NEW q \in Seq(S), IsInjective(q), NEW x \in Range(q), NEW r, r = Without(q, x)
    PROVE  r \in Seq(S) /\ IsInjective(r) /\ Range(r) = Range(q) \ {x}
<1> DEFINE len == Len(q)
<1>1. PICK at \in 1..len : /\ q[at] = x /\ r \in Seq(S) /\ Len(r) = len - 1
                           /\ \A i \in 1..(len - 1) : r[i] = IF i < at THEN q[i] ELSE q[i + 1]
  BY WithoutPositions, SMTT(40)
<1>2. DOMAIN q = 1..len /\ DOMAIN r = 1..(len - 1) /\ len \in Nat
  BY <1>1
<1>3. \A i, j \in 1..len : q[i] = q[j] => i = j
  BY <1>2 DEF IsInjective
<1> HIDE DEF len
<1>4. \A i, j \in 1..(len - 1) : r[i] = r[j] => i = j
  <2> TAKE i, j \in 1..(len - 1)
  <2>1. r[i] = (IF i < at THEN q[i] ELSE q[i + 1]) /\ r[j] = (IF j < at THEN q[j] ELSE q[j + 1])
    BY <1>1
  <2>2. i \in 1..len /\ i + 1 \in 1..len /\ j \in 1..len /\ j + 1 \in 1..len
    BY <1>2
  <2> QED BY <1>1, <1>2, <1>3, <2>1, <2>2
<1>5. Range(r) \subseteq Range(q) \ {x}
  <2> SUFFICES ASSUME NEW i \in 1..(len - 1) PROVE r[i] \in Range(q) /\ r[i] # x
    BY <1>2 DEF Range
  <2>1. PICK j \in 1..len : r[i] = q[j] /\ j # at
    <3>1. CASE i < at
      BY <1>1, <1>2, <3>1
    <3>2. CASE i >= at
      <4>1. i + 1 \in 1..len /\ i + 1 # at /\ r[i] = q[i + 1]
        BY <1>1, <1>2, <3>2
      <4> QED BY <4>1
    <3> QED BY <1>1, <1>2, <3>1, <3>2
  <2> QED BY <1>1, <1>2, <1>3, <2>1 DEF Range
<1>6. Range(q) \ {x} \subseteq Range(r)
  <2> SUFFICES ASSUME NEW j \in 1..len, q[j] # x PROVE \E i \in 1..(len - 1) : r[i] = q[j]
    BY <1>2 DEF Range
  <2>1. CASE j < at
    <3>1. j \in 1..(len - 1) /\ r[j] = q[j]
      BY <1>1, <1>2, <2>1
    <3> QED BY <3>1
  <2>2. CASE j > at
    <3>1. j - 1 \in 1..(len - 1) /\ r[j - 1] = q[j - 1 + 1] /\ j - 1 + 1 = j
      BY <1>1, <1>2, <2>2
    <3> QED BY <3>1
  <2> QED BY <1>1, <1>2, <2>1, <2>2
<1> QED BY <1>1, <1>2, <1>4, <1>5, <1>6 DEF IsInjective

(* An element is added to a list that does not have it.                     *)
LEMMA AppendRange ==
    ASSUME NEW S, NEW q \in Seq(S), NEW x \in S
    PROVE  Append(q, x) \in Seq(S) /\ Range(Append(q, x)) = Range(q) \cup {x}
<1> DEFINE len == Len(q)
           r   == Append(q, x)
<1>1. DOMAIN q = 1..len /\ len \in Nat
  OBVIOUS
<1>2. /\ r \in Seq(S) /\ DOMAIN r = 1..(len + 1) /\ r[len + 1] = x
      /\ \A i \in 1..len : r[i] = q[i]
  OBVIOUS
<1> HIDE DEF len, r
<1>3. 1..(len + 1) = (1..len) \cup {len + 1}
  BY <1>1
<1>4. r \in Seq(S) /\ Range(r) = Range(q) \cup {x}
  BY <1>1, <1>2, <1>3 DEF Range
<1> QED BY <1>4 DEF r

LEMMA NewElementKeepsInjective ==
    ASSUME NEW S, NEW q \in Seq(S), IsInjective(q), NEW x \in S, x \notin Range(q)
    PROVE  IsInjective(Append(q, x))
<1> DEFINE len == Len(q)
           r   == Append(q, x)
<1>1. DOMAIN q = 1..len /\ len \in Nat
  OBVIOUS
<1>2. /\ DOMAIN r = 1..(len + 1) /\ r[len + 1] = x
      /\ \A i \in 1..len : r[i] = q[i]
  OBVIOUS
<1>3. \A i, j \in 1..len : q[i] = q[j] => i = j
  BY <1>1 DEF IsInjective
<1>4. \A i \in 1..len : q[i] # x
  BY <1>1 DEF Range
<1> HIDE DEF len, r
<1>5. \A i, j \in 1..(len + 1) : r[i] = r[j] => i = j
  <2> TAKE i, j \in 1..(len + 1)
  <2>1. (i = len + 1 \/ i \in 1..len) /\ (j = len + 1 \/ j \in 1..len)
    BY <1>1
  <2> QED BY <1>1, <1>2, <1>3, <1>4, <2>1
<1>6. IsInjective(r)
  BY <1>2, <1>5 DEF IsInjective
<1> QED BY <1>6 DEF r

-----------------------------------------------------------------------------
(* The list of descriptors                                                 *)

(* pr_poll_loop_add_fd                                                      *)
LEMMA AddFdStep ==
    ASSUME ListInv, NEW fd \in Fds, AddFd(fd)
    PROVE  ListInv' /\ Registered' = Registered \cup {fd} /\ freed' = freed
<1>1. fd_list' = Append(fd_list, fd) /\ fd \notin Range(fd_list) /\ freed' = freed
  BY Zenon DEF AddFd, Registered
<1>2. fd_list \in Seq(Fds) /\ IsInjective(fd_list)
  BY DEF ListInv
<1> DEFINE r == Append(fd_list, fd)
<1>3. r \in Seq(Fds) /\ IsInjective(r) /\ Range(r) = Range(fd_list) \cup {fd}
  BY <1>1, <1>2, AppendRange, NewElementKeepsInjective
<1>4. fd_list' = r
  BY <1>1
<1> HIDE DEF r
<1> QED BY <1>1, <1>3, <1>4, Zenon DEF ListInv, Registered

(* pr_poll_loop_del_fd                                                      *)
LEMMA DelFdStep ==
    ASSUME ListInv, NEW fd, DelFd(fd)
    PROVE  /\ ListInv' /\ fd \in Registered /\ Registered' = Registered \ {fd}
           /\ freed' = IF phase = "dispatch" THEN freed \cup {fd} ELSE freed
<1>1. /\ fd_list' = Without(fd_list, fd) /\ fd \in Range(fd_list)
      /\ freed' = IF phase = "dispatch" THEN freed \cup {fd} ELSE freed
  BY Zenon DEF DelFd, Registered, Freed
<1>2. fd_list \in Seq(Fds) /\ IsInjective(fd_list)
  BY DEF ListInv
<1>3. /\ fd_list' \in Seq(Fds) /\ IsInjective(fd_list')
      /\ Range(fd_list') = Range(fd_list) \ {fd}
  BY <1>1, <1>2, WithoutList
<1> QED BY <1>1, <1>3, Zenon DEF ListInv, Registered

(* Both in one callback.                                                    *)
LEMMA ReplaceFdStep ==
    ASSUME ListInv, NEW old, NEW new \in Fds, new \notin Registered \ {old}, ReplaceFd(old, new)
    PROVE  /\ ListInv' /\ old \in Registered /\ Registered' = (Registered \ {old}) \cup {new}
           /\ freed' = IF phase = "dispatch" THEN freed \cup {old} ELSE freed
<1>1. /\ fd_list' = Append(Without(fd_list, old), new) /\ old \in Range(fd_list)
      /\ freed' = IF phase = "dispatch" THEN freed \cup {old} ELSE freed
  BY Zenon DEF ReplaceFd, Registered, Freed
<1>2. fd_list \in Seq(Fds) /\ IsInjective(fd_list)
  BY DEF ListInv
<1> DEFINE q == Without(fd_list, old)
<1>3. q \in Seq(Fds) /\ IsInjective(q) /\ Range(q) = Range(fd_list) \ {old}
  BY <1>1, <1>2, WithoutList
<1> DEFINE r == Append(q, new)
<1>4. new \notin Range(q) /\ fd_list' = r
  BY <1>1, <1>3, Zenon DEF Registered
<1> HIDE DEF q
<1>5. r \in Seq(Fds) /\ IsInjective(r) /\ Range(r) = Range(q) \cup {new}
  BY <1>3, <1>4, AppendRange, NewElementKeepsInjective
<1> HIDE DEF r
<1> QED BY <1>1, <1>3, <1>4, <1>5, Zenon DEF ListInv, Registered

-----------------------------------------------------------------------------
(* The control of the loop                                                 *)

(* pr_poll_loop_exec returns.                                               *)
LEMMA ReturnStep ==
    ASSUME ControlInv, NEW r \in {0, -1, -3}, Return(r), UNCHANGED running
    PROVE  ControlInv' /\ FillInv' /\ due' = {} /\ phase' = "out"
<1>1. /\ phase' = "out" /\ result' = r /\ due' = {} /\ poll_array' = <<>> /\ allocated' = allocated
      /\ running' = running
  BY DEF Return
<1>2. allocated \in Nat /\ running \in {"connect", "loop", "destroy", "ended"}
  BY DEF ControlInv
<1>3. <<>> \in Seq(Items) /\ Len(<<>>) = 0
  OBVIOUS
<1>4. ControlInv'
  BY <1>1, <1>2, <1>3 DEF ControlInv, Phases
<1> QED BY <1>1, <1>4 DEF FillInv

(* The first callback that is due is called, and is due no more.            *)
LEMMA CalledStep ==
    ASSUME ControlInv, DueInv, NEW fd, NEW st, Turn(fd, st), NEW res \in {0, -1}, Called(res),
           UNCHANGED running
    PROVE  /\ ControlInv' /\ FillInv' /\ due' \subseteq due /\ due \in SUBSET Calls
           /\ phase = "dispatch" /\ running = "loop"
           /\ \E x \in due : x.entry = fd /\ x.stage = st
           /\ \A y \in due' : /\ ~(y.entry = fd /\ y.stage = st)
                              /\ fd \in Slots \cup {qd.trying} => y.entry # fd
<1>1. PICK x \in due : IsFirst(x) /\ x.entry = fd /\ x.stage = st
  BY DEF Turn
<1>2. /\ phase = "dispatch" /\ due \in SUBSET Calls /\ running \in {"connect", "loop", "destroy", "ended"}
      /\ running # "loop" => phase = "out"
  BY DEF ControlInv, Turn
<1>3. running = "loop"
  BY <1>2
<1>4. CASE res # 0
  <2>1. Return(-1)
    BY <1>4 DEF Called
  <2>2. ControlInv' /\ FillInv' /\ due' = {}
    BY <2>1, ReturnStep
  <2> QED BY <1>1, <1>2, <1>3, <2>2
<1>5. CASE res = 0
  <2>1. /\ due' = {y \in due : ~IsFirst(y)} /\ phase' = (IF due' = {} THEN "timers" ELSE "dispatch")
        /\ UNCHANGED <<poll_array, allocated, cursor, result>>
    BY <1>5 DEF Called
  <2>2. due' \subseteq due
    BY <2>1
  <2>3. ControlInv'
    BY <1>2, <1>3, <2>1, <2>2 DEF ControlInv, Phases
  <2>4. FillInv'
    BY <2>1 DEF FillInv
  <2>5. ASSUME NEW y \in due', y.entry = fd, st = y.stage \/ fd \in Slots \cup {qd.trying}
        PROVE  FALSE
    <3>1. y \in due /\ ~IsFirst(y)
      BY <2>1, <2>5
    <3>2. x.at = y.at /\ x.entry = y.entry /\ x.stage = y.stage
      BY <1>1, <2>5, <3>1 DEF DueInv, OncePerEntry
    <3>3. x \in Calls /\ y \in Calls
      BY <1>2, <3>1
    <3>4. x = y
      BY <3>2, <3>3 DEF Calls
    <3> QED BY <1>1, <3>1, <3>4
  <2> QED BY <1>1, <1>2, <1>3, <2>2, <2>3, <2>4, <2>5
<1> QED BY <1>4, <1>5

(* What is still due after a step of the dispatch.                          *)
LEMMA DueKept ==
    ASSUME DueInv, due' \subseteq due,
           \A x \in due' : Ready(x, (Registered \ freed)', ipc_list', net'),
           qd'.trying = qd.trying \/ \A x \in due' : x.entry # qd'.trying
    PROVE  DueInv'
<1>1. OncePerEntry(due, qd.trying)
  BY DEF DueInv
<1>2. OncePerEntry(due', qd'.trying)
  BY <1>1 DEF OncePerEntry
<1> QED BY <1>2 DEF DueInv

LEMMA NothingDue ==
    ASSUME due' = {}
    PROVE  DueInv'
BY DEF DueInv, OncePerEntry

(* What descriptors want depends on these three.                            *)
LEMMA WantedKept ==
    ASSUME UNCHANGED <<ipc_list, net, qd>>
    PROVE  Wanted' = Wanted
BY DEF Wanted, ClientEvents, QdEvents

-----------------------------------------------------------------------------
(* The walk over the list                                                  *)

(* The successor of the k-th entry.                                         *)
LEMMA NextOfList ==
    ASSUME ListInv, NEW k \in 1..Len(fd_list), NEW e, e = fd_list[k]
    PROVE  NextEntry(e) = IF k = Len(fd_list) THEN NoEntry ELSE fd_list[k + 1]
<1> DEFINE i == CHOOSE j \in DOMAIN fd_list : fd_list[j] = e
<1>1. fd_list \in Seq(Fds) /\ \A a, b \in DOMAIN fd_list : fd_list[a] = fd_list[b] => a = b
  BY DEF ListInv, IsInjective
<1>2. k \in DOMAIN fd_list
  BY <1>1
<1>3. i \in DOMAIN fd_list /\ fd_list[i] = e
  BY <1>2, Zenon
<1>4. i = k
  BY <1>1, <1>2, <1>3, Zenon
<1>5. NextEntry(e) = IF i = Len(fd_list) THEN NoEntry ELSE fd_list[i + 1]
  BY Zenon DEF NextEntry
<1> HIDE DEF i
<1> QED BY <1>4, <1>5, Zenon

(* The walk stands at an entry of the list, or at its end.                  *)
LEMMA WalkAtEntry ==
    ASSUME NEW list \in Seq(Fds), NEW k \in 1..(Len(list) + 1), NEW e \in Fds, NEW arr, NEW w,
           WalkedTo(k, list, e, arr, w)
    PROVE  k \in 1..Len(list) /\ e = list[k]
<1>1. NoEntry \notin Fds
  BY DescriptorAssumption DEF Fds
<1>2. e = IF k <= Len(list) THEN list[k] ELSE NoEntry
  BY Zenon DEF WalkedTo, StandsAt
<1>3. k <= Len(list)
  BY <1>1, <1>2, Zenon
<1> QED BY <1>2, <1>3

(* The walk goes past an entry that wants nothing.                          *)
LEMMA WalkPast ==
    ASSUME NEW list \in Seq(Fds), NEW k \in 1..Len(list), NEW e, NEW arr \in Seq(Items), NEW w,
           WalkedTo(k, list, e, arr, w), w[list[k]] = {},
           NEW g, g = k + 1, NEW n, n = IF k = Len(list) THEN NoEntry ELSE list[k + 1]
    PROVE  g \in 1..(Len(list) + 1) /\ WalkedTo(g, list, n, arr, w)
<1>1. Len(list) \in Nat /\ k \in Nat /\ g \in 1..(Len(list) + 1) /\ g \in Nat
  OBVIOUS
<1>2. n = IF g <= Len(list) THEN list[g] ELSE NoEntry
  BY <1>1
<1>3. \A i \in 1..(g - 1) : i = k \/ i \in 1..(k - 1)
  BY <1>1
<1>4. \A i \in 1..(k - 1) : i \in 1..(g - 1)
  BY <1>1
<1>5. HaveWhatTheyWant(k, list, arr, w) /\ NothingElse(k, list, arr, w) /\ PolledOnce(arr)
  BY DEF WalkedTo
<1>6. HaveWhatTheyWant(g, list, arr, w)
  BY <1>3, <1>5, Zenon DEF HaveWhatTheyWant
<1>7. NothingElse(g, list, arr, w)
  BY <1>4, <1>5, Zenon DEF NothingElse
<1>8. StandsAt(g, list, n)
  BY <1>2 DEF StandsAt
<1> QED BY <1>1, <1>5, <1>6, <1>7, <1>8 DEF WalkedTo

(* The walk adds an entry to the array.                                     *)
Longer(arr, e, ev) == Append(arr, [entry |-> e, events |-> ev])

LEMMA WalkAdds ==
    ASSUME NEW list \in Seq(Fds), IsInjective(list), NEW k \in 1..Len(list), NEW arr \in Seq(Items),
           NEW w, WalkedTo(k, list, list[k], arr, w), w[list[k]] \in SUBSET Events,
           NEW g, g = k + 1, NEW n, n = IF k = Len(list) THEN NoEntry ELSE list[k + 1],
           NEW m, m = Longer(arr, list[k], w[list[k]])
    PROVE  /\ g \in 1..(Len(list) + 1) /\ WalkedTo(g, list, n, m, w)
           /\ m \in Seq(Items) /\ Len(m) = Len(arr) + 1
<1> DEFINE len == Len(arr)
           it  == [entry |-> list[k], events |-> w[list[k]]]
<1>1. Len(list) \in Nat /\ k \in Nat /\ g \in 1..(Len(list) + 1) /\ g \in Nat
  OBVIOUS
<1>2. n = IF g <= Len(list) THEN list[g] ELSE NoEntry
  BY <1>1
<1>3. it \in Items /\ it.entry = list[k] /\ it.events = w[list[k]]
  BY <1>1 DEF Items
<1> HIDE DEF it
<1>4. m = Append(arr, it)
  BY DEF it, Longer
<1>5. /\ m \in Seq(Items) /\ Len(m) = len + 1 /\ DOMAIN m = 1..(len + 1) /\ len \in Nat
      /\ m[len + 1] = it /\ \A j \in 1..len : m[j] = arr[j]
  BY <1>3, <1>4
<1>6. DOMAIN arr = 1..len
  OBVIOUS
<1> HIDE DEF len
<1>7. /\ \A i \in 1..(k - 1) : w[list[i]] # {} => \E j \in 1..len : arr[j].entry = list[i]
      /\ \A j \in 1..len : /\ \E i \in 1..(k - 1) : arr[j].entry = list[i]
                           /\ arr[j].events = w[arr[j].entry]
      /\ \A i, j \in 1..len : arr[i].entry = arr[j].entry => i = j
  BY <1>6, Zenon DEF WalkedTo, HaveWhatTheyWant, NothingElse, PolledOnce
<1>8. \A j \in 1..(len + 1) : j = len + 1 \/ j \in 1..len
  BY <1>5
<1>9. len + 1 \in 1..(len + 1) /\ \A j \in 1..len : j \in 1..(len + 1)
  BY <1>5
<1>10. \A i \in 1..(g - 1) : i = k \/ i \in 1..(k - 1)
  BY <1>1
<1>11. k \in 1..(g - 1) /\ \A i \in 1..(k - 1) : i \in 1..(g - 1)
  BY <1>1
<1>12. ASSUME NEW i \in 1..(g - 1), w[list[i]] # {}
       PROVE  \E j \in 1..(len + 1) : m[j].entry = list[i]
  <2>1. CASE i = k
    <3>1. m[len + 1].entry = list[i]
      BY <1>3, <1>5, <2>1
    <3> QED BY <1>9, <3>1
  <2>2. CASE i \in 1..(k - 1)
    <3>1. PICK j \in 1..len : arr[j].entry = list[i]
      BY <1>7, <1>12, <2>2
    <3>2. m[j].entry = list[i]
      BY <1>5, <3>1
    <3> QED BY <1>9, <3>2
  <2> QED BY <1>10, <2>1, <2>2
<1>13. \A j \in 1..(len + 1) : /\ \E i \in 1..(g - 1) : m[j].entry = list[i]
                               /\ m[j].events = w[m[j].entry]
  <2> TAKE j \in 1..(len + 1)
  <2>1. CASE j = len + 1
    <3>1. m[j].entry = list[k] /\ m[j].events = w[list[k]]
      BY <1>3, <1>5, <2>1
    <3> QED BY <1>11, <3>1
  <2>2. CASE j \in 1..len
    <3>1. m[j] = arr[j]
      BY <1>5, <2>2
    <3>2. PICK i \in 1..(k - 1) : arr[j].entry = list[i]
      BY <1>7, <2>2
    <3>3. arr[j].events = w[arr[j].entry]
      BY <1>7, <2>2
    <3> QED BY <1>11, <3>1, <3>2, <3>3
  <2> QED BY <1>8, <2>1, <2>2
<1>14. \A i \in 1..(k - 1) : list[i] # list[k]
  BY <1>1 DEF IsInjective
<1>15. \A i \in 1..len : m[i].entry # list[k]
  <2> TAKE i \in 1..len
  <2>1. m[i] = arr[i]
    BY <1>5
  <2>2. PICK h \in 1..(k - 1) : arr[i].entry = list[h]
    BY <1>7
  <2> QED BY <1>14, <2>1, <2>2, Zenon
<1>16. ASSUME NEW i \in 1..(len + 1), NEW j \in 1..(len + 1), m[i].entry = m[j].entry
       PROVE  i = j
  <2>1. m[len + 1].entry = list[k]
    BY <1>3, <1>5
  <2>2. CASE i \in 1..len /\ j \in 1..len
    BY <1>5, <1>7, <1>16, <2>2
  <2>3. CASE i = len + 1 /\ j \in 1..len
    BY <1>15, <1>16, <2>1, <2>3
  <2>4. CASE j = len + 1 /\ i \in 1..len
    BY <1>15, <1>16, <2>1, <2>4
  <2> QED BY <1>8, <2>2, <2>3, <2>4
<1>17. DOMAIN m = 1..(len + 1)
  BY <1>5
<1>18. HaveWhatTheyWant(g, list, m, w)
  BY <1>12, <1>17, Zenon DEF HaveWhatTheyWant
<1>19. NothingElse(g, list, m, w)
  BY <1>13, <1>17, Zenon DEF NothingElse
<1>20. PolledOnce(m)
  BY <1>16, <1>17, Zenon DEF PolledOnce
<1>21. StandsAt(g, list, n)
  BY <1>2 DEF StandsAt
<1> QED BY <1>1, <1>5, <1>18, <1>19, <1>20, <1>21 DEF len, WalkedTo

(* Removing the k-th element by what it is.                                 *)
LEMMA WithoutAt ==
    ASSUME NEW S, NEW q \in Seq(S), IsInjective(q), NEW k \in 1..Len(q), NEW e, e = q[k]
    PROVE  Without(q, e) = RemoveAt(q, k)
<1> DEFINE i == CHOOSE j \in DOMAIN q : q[j] = e
<1>1. DOMAIN q = 1..Len(q)
  OBVIOUS
<1>2. i \in DOMAIN q /\ q[i] = e
  BY <1>1, Zenon
<1>3. i = k
  BY <1>1, <1>2 DEF IsInjective
<1>4. Without(q, e) = RemoveAt(q, i)
  BY Zenon DEF Without
<1> HIDE DEF i
<1> QED BY <1>3, <1>4, Zenon

(* The entry is freed in its own set_events callback.                       *)
LEMMA WalkDeletes ==
    ASSUME NEW list \in Seq(Fds), IsInjective(list), NEW k \in 1..Len(list), NEW arr \in Seq(Items),
           NEW e, e = list[k], NEW w, NEW v, \A f \in Fds : f # e => v[f] = w[f],
           WalkedTo(k, list, e, arr, w),
           NEW n, n = IF k = Len(list) THEN NoEntry ELSE list[k + 1],
           NEW r, r = Without(list, e)
    PROVE  k \in 1..(Len(r) + 1) /\ WalkedTo(k, r, n, arr, v)
<1> DEFINE at == k
<1>1. r = RemoveAt(list, k)
  <2>1. Without(list, e) = RemoveAt(list, k)
    BY WithoutAt
  <2> QED BY <2>1, Zenon
<1>3. /\ r \in Seq(Fds) /\ Len(r) = Len(list) - 1
      /\ \A i \in 1..(Len(list) - 1) : r[i] = IF i < at THEN list[i] ELSE list[i + 1]
  <2>1. IsRemoval(Fds, list, k, RemoveAt(list, k))
    BY RemoveAtPositions
  <2> QED BY <1>1, <2>1, Zenon DEF IsRemoval
<1>4. \A i \in 1..(k - 1) : i \in 1..(Len(list) - 1) /\ i < at /\ i \in 1..Len(list) /\ i # k
  <2> DEFINE len == Len(list)
  <2>1. len \in Nat /\ k \in Nat /\ k <= len
    OBVIOUS
  <2> HIDE DEF len
  <2>2. \A i \in 1..(k - 1) : i \in 1..(len - 1) /\ i < k /\ i \in 1..len /\ i # k
    BY <2>1
  <2> QED BY <2>2, Zenon DEF len
<1>5. \A i \in 1..(k - 1) : r[i] = list[i] /\ list[i] # e /\ list[i] \in Fds
  <2> TAKE i \in 1..(k - 1)
  <2>1. r[i] = list[i]
    BY <1>3, <1>4
  <2>2. list[i] # e /\ list[i] \in Fds
    BY <1>4 DEF IsInjective
  <2> QED BY <2>1, <2>2
<1>6. \A i \in 1..(k - 1) : v[r[i]] = w[list[i]] /\ r[i] = list[i]
  BY <1>5, Zenon
<1>7. k \in 1..(Len(r) + 1) /\ k <= Len(r) => k \in 1..(Len(list) - 1) /\ ~(k < at) /\ k # Len(list)
  BY <1>3
<1>8. k \in 1..(Len(r) + 1) /\ (~(k <= Len(r)) => k = Len(list))
  BY <1>3
<1>9. StandsAt(k, r, n)
  <2>1. CASE k <= Len(r)
    BY <1>3, <1>7, <1>8, <2>1 DEF StandsAt
  <2>2. CASE ~(k <= Len(r))
    BY <1>8, <2>2 DEF StandsAt
  <2> QED BY <2>1, <2>2
<1>10. HaveWhatTheyWant(k, list, arr, w) /\ NothingElse(k, list, arr, w) /\ PolledOnce(arr)
  BY DEF WalkedTo
<1>11. HaveWhatTheyWant(k, r, arr, v)
  <2> SUFFICES ASSUME NEW i \in 1..(k - 1), v[r[i]] # {}
               PROVE  \E j \in DOMAIN arr : arr[j].entry = r[i]
    BY DEF HaveWhatTheyWant
  <2>1. w[list[i]] # {} /\ r[i] = list[i]
    BY <1>6
  <2>2. \E j \in DOMAIN arr : arr[j].entry = list[i]
    BY <1>10, <2>1, Zenon DEF HaveWhatTheyWant
  <2> QED BY <2>1, <2>2
<1>12. NothingElse(k, r, arr, v)
  <2> SUFFICES ASSUME NEW j \in DOMAIN arr
               PROVE  /\ \E i \in 1..(k - 1) : arr[j].entry = r[i]
                      /\ arr[j].events = v[arr[j].entry]
    BY DEF NothingElse
  <2>1. PICK i \in 1..(k - 1) : arr[j].entry = list[i]
    BY <1>10, Zenon DEF NothingElse
  <2>2. arr[j].events = w[arr[j].entry]
    BY <1>10, Zenon DEF NothingElse
  <2>3. r[i] = list[i] /\ v[r[i]] = w[list[i]]
    BY <1>6
  <2> QED BY <2>1, <2>2, <2>3
<1> QED BY <1>8, <1>9, <1>10, <1>11, <1>12 DEF WalkedTo

-----------------------------------------------------------------------------
(* The steps that fill the poll array                                      *)

(* What a callback that leaves everything else alone need not show.         *)
LEMMA RestKept ==
    ASSUME Inv, UNCHANGED <<ipcVars, daemon, running, netVars, qd>>
    PROVE  /\ IpcInv' /\ NetInv' /\ QdInv' /\ Connected' = Connected /\ OpenNet' = OpenNet
           /\ UNCHANGED fd_list => ListInv' /\ OpenInv' /\ Registered' = Registered
<1>1. IpcInv /\ NetInv /\ QdInv /\ OpenInv /\ ListInv
  BY DEF Inv
<1>2. IpcInv'
  BY <1>1 DEF IpcInv, ipcVars
<1>3. NetInv'
  BY <1>1 DEF NetInv, netVars
<1>4. QdInv'
  BY <1>1 DEF QdInv
<1>5. Connected' = Connected
  BY DEF Connected, ipcVars
<1>6. OpenNet' = OpenNet
  BY DEF OpenNet, Clients, netVars
<1>7. UNCHANGED fd_list => ListInv' /\ Registered' = Registered
  BY <1>1 DEF ListInv, Registered
<1>8. UNCHANGED fd_list => OpenInv'
  BY <1>1, <1>5, <1>6, <1>7 DEF OpenInv
<1> QED BY <1>2, <1>3, <1>4, <1>5, <1>6, <1>7, <1>8

(* The array grows when it has to.                                          *)
LEMMA GrownIsEnough ==
    ASSUME NEW n \in Nat, allocated \in Nat, n <= allocated, NEW a, a = GrownFor(n + 1)
    PROVE  a \in Nat /\ n + 1 <= a
BY DEF GrownFor

(* prepare_poll_array, for an entry that answers what it wants.             *)
LEMMA FillKeeps ==
    ASSUME Inv, NEW fd \in Fds, Asked(fd), NEW res, NEW ev \in SUBSET Events, Fill(res, ev),
           res = -2 \/ (res = -1 /\ Wanted[fd] = {}) \/ (res = 0 /\ ev = Wanted[fd]),
           UNCHANGED <<listVars, ipcVars, daemon, running, netVars, qd>>
    PROVE  Inv'
<1>1. ListInv /\ ControlInv /\ FillInv /\ DueInv
  BY DEF Inv
<1>2. /\ IpcInv' /\ NetInv' /\ QdInv' /\ ListInv' /\ OpenInv' /\ fd_list' = fd_list /\ freed' = freed
      /\ running' = running
  BY RestKept DEF listVars
<1>3. Wanted' = Wanted
  BY WantedKept DEF ipcVars, netVars
<1>4. phase = "fill" /\ cursor = fd
  BY DEF Asked
<1>5. /\ due = {} /\ freed = {} /\ running = "loop" /\ poll_array \in Seq(Items) /\ allocated \in Nat
      /\ Len(poll_array) <= allocated /\ result \in {0, -1, -3}
  BY <1>1, <1>4 DEF ControlInv
<1>6. fd_list \in Seq(Fds) /\ IsInjective(fd_list)
  BY <1>1 DEF ListInv
<1>7. PICK k \in 1..(Len(fd_list) + 1) : WalkedTo(k, fd_list, fd, poll_array, Wanted)
  BY <1>1, <1>4 DEF FillInv
<1>8. k \in 1..Len(fd_list) /\ fd = fd_list[k]
  BY <1>6, <1>7, WalkAtEntry
<1>9. NextEntry(fd) = IF k = Len(fd_list) THEN NoEntry ELSE fd_list[k + 1]
  BY <1>1, <1>8, NextOfList
<1> DEFINE g == k + 1
           n == NextEntry(fd)
           m == Append(poll_array, [entry |-> fd, events |-> ev])
<1>10. CASE res = -2
  <2>1. Return(-1)
    BY <1>10 DEF Fill
  <2>2. ControlInv' /\ FillInv' /\ due' = {}
    BY <1>1, <1>2, <2>1, ReturnStep
  <2>3. DueInv'
    BY <2>2, NothingDue
  <2> QED BY <1>2, <2>2, <2>3 DEF Inv
<1>11. CASE res # -2 /\ (res = -1 \/ ev = {})
  <2>1. cursor' = n /\ UNCHANGED <<poll_array, allocated, phase, due, result>>
    BY <1>4, <1>11 DEF Fill
  <2>2. Wanted[fd_list[k]] = {}
    BY <1>8, <1>11
  <2>3. g \in 1..(Len(fd_list) + 1) /\ WalkedTo(g, fd_list, n, poll_array, Wanted)
    BY <1>5, <1>6, <1>7, <1>8, <1>9, <2>2, WalkPast
  <2> HIDE DEF g, n
  <2>4. FillInv'
    BY <1>2, <1>3, <1>4, <2>1, <2>3 DEF FillInv
  <2>5. ControlInv'
    BY <1>1, <1>2, <2>1 DEF ControlInv
  <2>6. DueInv'
    BY <1>5, <2>1, NothingDue
  <2> QED BY <1>2, <2>4, <2>5, <2>6 DEF Inv
<1>12. CASE res # -2 /\ res # -1 /\ ev # {}
  <2>1. /\ cursor' = n /\ poll_array' = m /\ allocated' = GrownFor(Len(poll_array) + 1)
        /\ UNCHANGED <<phase, due, result>>
    BY <1>4, <1>12 DEF Fill
  <2>2. ev = Wanted[fd]
    BY <1>12
  <2>3. /\ g \in 1..(Len(fd_list) + 1) /\ WalkedTo(g, fd_list, n, m, Wanted)
        /\ m \in Seq(Items) /\ Len(m) = Len(poll_array) + 1
    <3>1. m = Longer(poll_array, fd_list[k], Wanted[fd_list[k]])
      BY <1>8, <2>2, Zenon DEF Longer
    <3>2. WalkedTo(k, fd_list, fd_list[k], poll_array, Wanted) /\ Wanted[fd_list[k]] \in SUBSET Events
      BY <1>7, <1>8, <2>2, Zenon
    <3>3. g = k + 1 /\ n = IF k = Len(fd_list) THEN NoEntry ELSE fd_list[k + 1]
      BY <1>9
    <3> HIDE DEF g, n, m
    <3> QED BY <1>5, <1>6, <1>8, <3>1, <3>2, <3>3, WalkAdds
  <2> HIDE DEF g, n, m
  <2>4. FillInv'
    BY <1>2, <1>3, <1>4, <2>1, <2>3 DEF FillInv
  <2>5. Len(poll_array) \in Nat
    BY <1>5
  <2>6. allocated' \in Nat /\ Len(m) <= allocated'
    BY <1>5, <2>1, <2>3, <2>5, GrownIsEnough
  <2>7. ControlInv'
    BY <1>1, <1>2, <1>4, <1>5, <2>1, <2>3, <2>6 DEF ControlInv, Phases
  <2>8. DueInv'
    BY <1>5, <2>1, NothingDue
  <2> QED BY <1>2, <2>4, <2>7, <2>8 DEF Inv
<1> QED BY <1>10, <1>11, <1>12

(* The descriptors that are always there.                                   *)
LEMMA QdeviceFixed ==
    ASSUME daemon = "qdevice"
    PROVE  Range(FixedFds(daemon)) = {"ipc", "heurrecv", "heursend", "votequorum", "cmap"}
<1> DEFINE q == <<"ipc", "heurrecv", "heursend", "votequorum", "cmap">>
<1>1. FixedFds(daemon) = q
  BY DEF FixedFds
<1>2. DOMAIN q = {1, 2, 3, 4, 5}
  OBVIOUS
<1>3. q[1] = "ipc" /\ q[2] = "heurrecv" /\ q[3] = "heursend" /\ q[4] = "votequorum" /\ q[5] = "cmap"
  OBVIOUS
<1> HIDE DEF q
<1>4. Range(q) = {"ipc", "heurrecv", "heursend", "votequorum", "cmap"}
  BY <1>2, <1>3 DEF Range
<1> QED BY <1>1, <1>4, Zenon

LEMMA QnetdFixed ==
    ASSUME daemon = "qnetd"
    PROVE  Range(FixedFds(daemon)) = {"ipc", "server"}
<1> DEFINE q == <<"ipc", "server">>
<1>1. FixedFds(daemon) = q
  BY DEF FixedFds
<1>2. DOMAIN q = {1, 2} /\ q[1] = "ipc" /\ q[2] = "server"
  OBVIOUS
<1> HIDE DEF q
<1>3. Range(q) = {"ipc", "server"}
  BY <1>2 DEF Range
<1> QED BY <1>1, <1>3, Zenon

(* What each kind of descriptor wants.                                      *)
LEMMA WantedOfSlot ==
    ASSUME NEW c \in Slots
    PROVE  c \in Fds /\ Wanted[c] = IF ipc_list[c].scheduled THEN {} ELSE ClientEvents(c)
<1>1. c \in Fds /\ c \notin {"ipc", "server"}
  BY DescriptorAssumption DEF Fds, QnetdFds
<1> QED BY <1>1 DEF Wanted

LEMMA SlotWants ==
    ASSUME NEW c \in Slots
    PROVE  /\ "in" \in Wanted[c] => ipc_list[c].reading
           /\ "out" \in Wanted[c] => ipc_list[c].writing
<1>1. Wanted[c] = IF ipc_list[c].scheduled THEN {} ELSE ClientEvents(c)
  BY WantedOfSlot
<1>2. /\ "in" \in ClientEvents(c) => ipc_list[c].reading
      /\ "out" \in ClientEvents(c) => ipc_list[c].writing
  BY DEF ClientEvents
<1> QED BY <1>1, <1>2

LEMMA WantedOfClient ==
    ASSUME NEW n \in NetClients
    PROVE  /\ n \in Fds
           /\ Wanted[n] = IF net[n].scheduled THEN {}
                          ELSE {"in"} \cup (IF net[n].out > 0 THEN {"out"} ELSE {})
<1>1. n \in Fds /\ n \notin {"ipc", "server"} /\ n \notin Slots
  BY DescriptorAssumption DEF Fds, QnetdFds
<1> QED BY <1>1 DEF Wanted

LEMMA WantedOfFixed ==
    /\ {"ipc", "server"} \subseteq Fds
    /\ Wanted["ipc"] = {"in"} /\ Wanted["server"] = {"in"}
<1>1. "ipc" \in Fds /\ "server" \in Fds
  BY DEF Fds, QnetdFds
<1> QED BY <1>1 DEF Wanted

LEMMA WantedOfQdevice ==
    ASSUME NEW fd \in QdeviceFds \ ({"ipc"} \cup Slots)
    PROVE  fd \in Fds /\ Wanted[fd] = QdEvents(fd)
<1>1. fd \in Fds /\ fd \notin {"ipc", "server"} /\ fd \notin Slots /\ fd \notin NetClients
  BY DescriptorAssumption DEF Fds, QdeviceFds
<1> QED BY <1>1 DEF Wanted

(* The listening sockets.                                                   *)
LEMMA IpcSocketEventsKeeps ==
    ASSUME Inv, IpcSocketEvents
    PROVE  Inv'
<1> DEFINE res == IpcSocketResult
           ev  == {"in"}
<1>1. /\ Asked("ipc") /\ Fill(res, ev) /\ UNCHANGED <<listVars, ipcVars, daemon, running, netVars, qd>>
  BY Zenon DEF IpcSocketEvents
<1>2. res = -2 \/ res = 0
  BY DEF IpcSocketResult
<1>3. "ipc" \in Fds /\ ev = Wanted["ipc"] /\ ev \in SUBSET Events
  BY WantedOfFixed DEF Events
<1> HIDE DEF res, ev
<1> QED BY <1>1, <1>2, <1>3, FillKeeps

LEMMA ServerSocketEventsKeeps ==
    ASSUME Inv, ServerSocketEvents
    PROVE  Inv'
<1> DEFINE ev == {"in"}
           res == 0
<1>1. /\ Asked("server") /\ Fill(res, ev) /\ UNCHANGED <<listVars, ipcVars, daemon, running, netVars, qd>>
  BY Zenon DEF ServerSocketEvents
<1>2. "server" \in Fds /\ ev = Wanted["server"] /\ ev \in SUBSET Events
  BY WantedOfFixed DEF Events
<1>3. res = 0
  OBVIOUS
<1> HIDE DEF res, ev
<1> QED BY <1>1, <1>2, <1>3, FillKeeps

(* qnetd_client_net_socket_poll_loop_set_events_cb                          *)
LEMMA NetSocketEventsKeeps ==
    ASSUME Inv, NEW n \in NetClients, NetSocketEvents(n)
    PROVE  Inv'
<1> DEFINE ev == {"in"} \cup (IF net[n].out > 0 THEN {"out"} ELSE {})
           none == {}
           skip == -1
           zero == 0
<1>1. /\ Asked(n) /\ UNCHANGED <<listVars, ipcVars, daemon, running, netVars, qd>>
      /\ IF net[n].scheduled THEN Fill(skip, none) ELSE Fill(zero, ev)
  BY Zenon DEF NetSocketEvents, NetSocketEventsOf, netVars
<1>2. n \in Fds /\ Wanted[n] = IF net[n].scheduled THEN none ELSE ev
  BY WantedOfClient
<1>3. none \in SUBSET Events /\ ev \in SUBSET Events /\ skip = -1 /\ none = {} /\ zero = 0
  BY DEF Events
<1> HIDE DEF ev, none, skip, zero
<1>4. CASE net[n].scheduled
  BY <1>1, <1>2, <1>3, <1>4, FillKeeps
<1>5. CASE ~net[n].scheduled
  BY <1>1, <1>2, <1>3, <1>5, FillKeeps
<1> QED BY <1>4, <1>5

(* The set_events callbacks of qdevice: every descriptor of the loop is one *)
(* that they know.                                                          *)
LEMMA QdSetEventsKeeps ==
    ASSUME Inv, QdSetEvents
    PROVE  Inv'
<1>1. PICK fd \in QdeviceFds \ ({"ipc"} \cup Slots) :
         Asked(fd) /\ Fill(IF QdEvents(fd) = {} THEN -1 ELSE 0, QdEvents(fd))
  BY Zenon DEF QdSetEvents
<1>2. daemon = "qdevice" /\ UNCHANGED <<listVars, ipcVars, daemon, running, netVars, qd>>
  BY Zenon DEF QdSetEvents, QdUnchanged
<1> DEFINE ev  == QdEvents(fd)
           res == IF ev = {} THEN -1 ELSE 0
<1>3. fd \in Fds /\ Wanted[fd] = ev
  BY WantedOfQdevice
<1>4. fd \in Registered
  BY <1>1 DEF Fill, Asked
<1>5. fd \in Range(FixedFds(daemon)) \cup Connected \cup OpenNet
  <2>1. OpenInv /\ ControlInv /\ phase # "out"
    BY <1>1 DEF Inv, Asked
  <2>2. running # "ended"
    BY <2>1 DEF ControlInv
  <2> QED BY <1>4, <2>1, <2>2 DEF OpenInv
<1>6. Range(FixedFds(daemon)) = {"ipc", "heurrecv", "heursend", "votequorum", "cmap"}
  BY <1>2, QdeviceFixed
<1>7. \/ fd \in {"heurrecv", "heursend", "votequorum", "cmap"}
      \/ ~qd.destroyed /\ fd = qd.trying
      \/ fd = qd.socket
  BY <1>1, <1>2, <1>5, <1>6 DEF OpenNet, Connected
<1>8. ev \in SUBSET Events
  BY <1>7 DEF QdEvents, Events
<1>9. Fill(res, ev) /\ ((res = -1 /\ ev = {}) \/ res = 0)
  BY <1>1
<1> HIDE DEF ev, res
<1> QED BY <1>1, <1>2, <1>3, <1>8, <1>9, FillKeeps

(* No name stands for two descriptors.                                      *)
LEMMA SlotIsNoOther ==
    ASSUME NetInv, QdInv, NEW c \in Slots
    PROVE  c \notin Range(FixedFds(daemon)) \cup OpenNet
<1>1. daemon = "qnetd" \/ daemon = "qdevice"
  BY DaemonAssumption DEF QdInv
<1>2. c \notin Range(FixedFds(daemon))
  BY <1>1, QdeviceFixed, QnetdFixed, DescriptorAssumption
<1>3. Clients \subseteq NetClients
  BY DEF NetInv, Clients, Range
<1>4. OpenNet \subseteq NetClients \cup NetSocks
  <2>1. qd.destroyed \in BOOLEAN /\ qd.trying \in NetSocks \cup {NoSock} /\ qd.socket \in NetSocks \cup {NoSock}
    BY DEF QdInv
  <2>2. ~qd.destroyed => qd.trying # NoSock
    BY DEF QdInv
  <2> QED BY <1>3, <2>1, <2>2 DEF OpenNet
<1>5. c \notin NetClients \cup NetSocks
  BY DescriptorAssumption
<1> QED BY <1>2, <1>4, <1>5

(* A tool's socket becomes another record, or is freed.                     *)
LEMMA ToolChanged ==
    ASSUME DOMAIN ipc_list = Slots, \A d \in Slots : ToolOk(ipc_list[d]),
           NEW c \in Slots, NEW k, ToolOk(k), ipc_list' = [ipc_list EXCEPT ![c] = k]
    PROVE  /\ DOMAIN ipc_list' = Slots /\ \A d \in Slots : ToolOk(ipc_list'[d])
           /\ ipc_list'[c] = k /\ \A d \in Slots : d # c => ipc_list'[d] = ipc_list[d]
           /\ Connected' = IF k.used THEN Connected \cup {c} ELSE Connected \ {c}
<1>1. /\ DOMAIN ipc_list' = Slots /\ ipc_list'[c] = k
      /\ \A d \in Slots : d # c => ipc_list'[d] = ipc_list[d]
  OBVIOUS
<1>2. \A d \in Slots : ToolOk(ipc_list'[d])
  BY <1>1
<1>3. Connected' = IF k.used THEN Connected \cup {c} ELSE Connected \ {c}
  BY <1>1 DEF Connected
<1> QED BY <1>1, <1>2, <1>3

LEMMA FreeToolIsOk == ToolOk(NoClient) /\ ~NoClient.used /\ NoPeer \in Peers
BY IpcAssumption DEF ToolOk, NoClient, NoPeer, Peers

(* set_events of a tool that is to be disconnected: the entry is freed while *)
(* the walk stands at it.                                                   *)
LEMMA ClientSocketDisconnectKeeps ==
    ASSUME Inv, NEW c \in Slots, Asked(c), Fill(-1, {}), ClientSocketDisconnect(c),
           UNCHANGED <<ipc_open, pending, made, daemon, running, netVars, qd>>
    PROVE  Inv'
<1>1. ListInv /\ ControlInv /\ FillInv /\ DueInv /\ IpcInv /\ NetInv /\ QdInv /\ OpenInv
  BY DEF Inv
<1>2. phase = "fill" /\ cursor = c
  BY DEF Asked
<1>3. /\ due = {} /\ freed = {} /\ running = "loop" /\ poll_array \in Seq(Items)
  BY <1>1, <1>2 DEF ControlInv
<1>4. cursor' = NextEntry(c) /\ UNCHANGED <<poll_array, allocated, phase, due, result>>
  BY <1>2 DEF Fill
<1>5. /\ peer' = [peer EXCEPT ![c] = NoPeer] /\ ipc_list' = [ipc_list EXCEPT ![c] = NoClient]
      /\ DelFd(c)
  BY DEF ClientSocketDisconnect, ClientFreed
<1>6. /\ ListInv' /\ c \in Registered /\ Registered' = Registered \ {c} /\ freed' = freed
  BY <1>1, <1>2, <1>5, DelFdStep
<1>7. fd_list \in Seq(Fds) /\ IsInjective(fd_list) /\ fd_list' = Without(fd_list, c)
  BY <1>1, <1>5 DEF ListInv, DelFd
<1>8. /\ DOMAIN ipc_list' = Slots /\ \A d \in Slots : ToolOk(ipc_list'[d])
      /\ ipc_list'[c] = NoClient /\ \A d \in Slots : d # c => ipc_list'[d] = ipc_list[d]
      /\ Connected' = Connected \ {c}
  BY <1>1, <1>5, FreeToolIsOk, ToolChanged DEF IpcInv
<1>9. IpcInv'
  <2>1. peer' \in [Slots -> Peers]
    BY <1>1, <1>5, FreeToolIsOk DEF IpcInv
  <2> QED BY <1>1, <1>8, <2>1 DEF IpcInv
<1>10. NetInv' /\ QdInv' /\ OpenNet' = OpenNet
  <2>1. NetInv'
    BY <1>1 DEF NetInv, netVars
  <2>2. QdInv'
    BY <1>1 DEF QdInv
  <2>3. OpenNet' = OpenNet
    BY DEF OpenNet, Clients, netVars
  <2> QED BY <2>1, <2>2, <2>3
<1>11. OpenInv'
  <2>1. Registered = Range(FixedFds(daemon)) \cup Connected \cup OpenNet
    BY <1>1, <1>3 DEF OpenInv
  <2>2. c \notin Range(FixedFds(daemon)) \cup OpenNet
    BY <1>1, SlotIsNoOther
  <2> QED BY <1>6, <1>8, <1>10, <2>1, <2>2 DEF OpenInv
<1>12. \A f \in Fds : f # c => Wanted'[f] = Wanted[f]
  <2> SUFFICES ASSUME NEW f \in Fds, f # c PROVE Wanted'[f] = Wanted[f]
    OBVIOUS
  <2>1. net' = net /\ qd' = qd
    BY DEF netVars
  <2>2. CASE f \in Slots
    <3>1. ipc_list'[f] = ipc_list[f]
      BY <1>8, <2>2
    <3> QED BY <2>1, <2>2, <3>1 DEF Wanted, ClientEvents
  <2>3. CASE f \notin Slots
    <3>1. QdEvents(f)' = QdEvents(f)
      BY <2>1 DEF QdEvents
    <3> QED BY <2>1, <2>3, <3>1 DEF Wanted
  <2> QED BY <2>2, <2>3
<1>13. FillInv'
  <2>1. PICK k \in 1..(Len(fd_list) + 1) : WalkedTo(k, fd_list, c, poll_array, Wanted)
    BY <1>1, <1>2 DEF FillInv
  <2>2. c \in Fds
    BY WantedOfSlot
  <2>3. k \in 1..Len(fd_list) /\ c = fd_list[k]
    BY <1>7, <2>1, <2>2, WalkAtEntry
  <2>4. NextEntry(c) = IF k = Len(fd_list) THEN NoEntry ELSE fd_list[k + 1]
    BY <1>1, <2>3, NextOfList
  <2> DEFINE v == Wanted'
             w == Wanted
             r == fd_list'
             n == NextEntry(c)
  <2>5. /\ r = Without(fd_list, c) /\ WalkedTo(k, fd_list, c, poll_array, w)
        /\ \A f \in Fds : f # c => v[f] = w[f]
        /\ n = IF k = Len(fd_list) THEN NoEntry ELSE fd_list[k + 1]
    BY <1>7, <1>12, <2>1, <2>4
  <2> HIDE DEF v, w, r, n
  <2>6. k \in 1..(Len(r) + 1) /\ WalkedTo(k, r, n, poll_array, v)
    BY <1>3, <1>7, <2>3, <2>5, WalkDeletes
  <2>7. phase' = "fill" /\ cursor' = n /\ poll_array' = poll_array
    BY <1>2, <1>4 DEF n
  <2> QED BY <2>6, <2>7 DEF FillInv, v, r
<1>14. ControlInv'
  BY <1>1, <1>4, <1>6 DEF ControlInv
<1>15. DueInv'
  BY <1>3, <1>4, NothingDue
<1> QED BY <1>6, <1>9, <1>10, <1>11, <1>13, <1>14, <1>15 DEF Inv

LEMMA ClientSocketEventsKeeps ==
    ASSUME Inv, NEW c \in Slots, ClientSocketEvents(c)
    PROVE  Inv'
<1> DEFINE ev  == ClientEvents(c)
           res == IF ev = {} THEN -1 ELSE 0
<1>1. Asked(c) /\ UNCHANGED <<made, daemon, running, netVars, qd>>
  BY Zenon DEF ClientSocketEvents
<1>2. CASE ipc_list[c].scheduled
  <2>1. Fill(-1, {}) /\ ClientSocketDisconnect(c) /\ UNCHANGED <<ipc_open, pending>>
    BY <1>2, Zenon DEF ClientSocketEvents
  <2> QED BY <1>1, <2>1, ClientSocketDisconnectKeeps
<1>3. CASE ~ipc_list[c].scheduled
  <2>1. Fill(res, ev) /\ UNCHANGED <<listVars, ipc_open, pending, peer, ipc_list>>
    BY <1>3, Zenon DEF ClientSocketEvents
  <2>2. UNCHANGED <<listVars, ipcVars, daemon, running, netVars, qd>>
    BY <1>1, <2>1 DEF ipcVars
  <2>3. c \in Fds /\ Wanted[c] = ev
    BY <1>3, WantedOfSlot
  <2>4. ev \in SUBSET Events /\ ((res = -1 /\ ev = {}) \/ res = 0)
    BY DEF ClientEvents, Events
  <2> HIDE DEF ev, res
  <2> QED BY <1>1, <2>1, <2>2, <2>3, <2>4, FillKeeps
<1> QED BY <1>2, <1>3

-----------------------------------------------------------------------------
(* The steps of the loop that call no callback                             *)

(* prepare_poll_array ends, or fails; PR_Poll fails.                        *)
LEMMA LoopStepKeeps ==
    ASSUME Inv, LoopStep
    PROVE  Inv'
<1>1. ListInv /\ ControlInv /\ FillInv
  BY DEF Inv
<1>2. UNCHANGED <<listVars, ipcVars, daemon, running, netVars, qd>>
  BY Zenon DEF LoopStep
<1>3. /\ IpcInv' /\ NetInv' /\ QdInv' /\ ListInv' /\ OpenInv' /\ fd_list' = fd_list /\ freed' = freed
      /\ running' = running
  BY <1>2, RestKept DEF listVars
<1>4. CASE FillEnd
  <2>1. /\ phase = "fill" /\ cursor = NoEntry /\ phase' = "poll"
        /\ allocated' = CollectedSize(Len(poll_array))
        /\ UNCHANGED <<poll_array, cursor, due, result>>
    BY <1>4 DEF FillEnd
  <2>2. /\ due = {} /\ freed = {} /\ running = "loop" /\ poll_array \in Seq(Items) /\ allocated \in Nat
        /\ Len(poll_array) <= allocated /\ result \in {0, -1, -3}
    BY <1>1, <2>1 DEF ControlInv
  <2>3. Len(poll_array) \in Nat
    BY <2>2
  <2>4. allocated' \in Nat /\ Len(poll_array) <= allocated'
    BY <2>1, <2>2, <2>3 DEF CollectedSize
  <2>5. ControlInv'
    BY <1>3, <2>1, <2>2, <2>4 DEF ControlInv, Phases
  <2>6. Wanted' = Wanted
    BY <1>2, WantedKept DEF ipcVars, netVars
  <2>7. FillInv'
    BY <1>1, <1>3, <2>1, <2>6 DEF FillInv
  <2>8. DueInv'
    BY <2>1, <2>2, NothingDue
  <2> QED BY <1>3, <2>5, <2>7, <2>8 DEF Inv
<1>5. CASE FillFails \/ PollError
  <2>1. Return(-1) \/ Return(-3)
    BY <1>5 DEF FillFails, PollError
  <2>2. ControlInv' /\ FillInv' /\ due' = {}
    BY <1>1, <1>3, <2>1, ReturnStep
  <2>3. DueInv'
    BY <2>2, NothingDue
  <2> QED BY <1>3, <2>2, <2>3 DEF Inv
<1> QED BY <1>4, <1>5 DEF LoopStep

(* PR_Poll reports what was asked for, and errors.                          *)
LEMMA FlagsAreWanted ==
    ASSUME NEW fd, NEW ev, fd = "server" => "in" \in ev, NEW flags \in FlagsOf(fd, ev)
    PROVE  /\ flags \in SUBSET Stages
           /\ "read" \in flags => "in" \in ev
           /\ "write" \in flags => "out" \in ev
<1>1. Stages = {"read", "write", "err"}
  BY DEF Stages
<1>0. "ipc" \notin Slots /\ "server" \notin Slots
  BY DescriptorAssumption
<1>2. CASE fd = "ipc"
  <2>1. flags = {"err"} \/ flags = Readable(ev, pending > 0)
    BY <1>0, <1>2 DEF FlagsOf
  <2> QED BY <1>1, <2>1 DEF Readable
<1>3. CASE fd # "ipc" /\ fd \in Slots
  <2> DEFINE b == peer[fd].unread # "none"
             p == Readable(ev, b)
             q == Readable(ev, TRUE)
             o == Writable(ev)
  <2>1. flags \in (IF peer[fd].there THEN {p \cup o} ELSE {q \cup o \cup {"err"}, {"err"}})
    BY <1>0, <1>3 DEF FlagsOf
  <2>2. p \subseteq {"read"} /\ q \subseteq {"read"} /\ o \subseteq {"write"}
    BY DEF Readable, Writable
  <2>3. /\ "read" \in p => "in" \in ev
        /\ "read" \in q => "in" \in ev
        /\ "write" \in o => "out" \in ev
    BY DEF Readable, Writable
  <2> HIDE DEF p, q, o
  <2>4. flags = p \cup o \/ flags = q \cup o \cup {"err"} \/ flags = {"err"}
    BY <2>1
  <2> QED BY <1>1, <2>2, <2>3, <2>4
<1>4. CASE fd # "ipc" /\ fd \notin Slots /\ fd = "server"
  BY <1>0, <1>1, <1>4 DEF FlagsOf
<1>5. CASE fd # "ipc" /\ fd \notin Slots /\ fd # "server"
  BY <1>1, <1>5 DEF FlagsOf
<1> QED BY <1>2, <1>3, <1>4, <1>5

(* The socket that is being connected is not read.                          *)
LEMMA TryingWants ==
    ASSUME QdInv, qd.trying \in Fds
    PROVE  Wanted[qd.trying] = {"out", "pri"}
<1>1. NoSock \notin Fds
  BY DescriptorAssumption DEF Fds
<1>2. qd.trying \in NetSocks /\ ~qd.destroyed /\ qd.socket = NoSock /\ qd.trying # NoSock
  BY <1>1 DEF QdInv
<1>3. qd.trying \in QdeviceFds \ ({"ipc"} \cup Slots)
  BY <1>2, DescriptorAssumption DEF QdeviceFds
<1>4. qd.trying \notin {"heurrecv", "heursend", "votequorum", "cmap"}
  BY <1>2, DescriptorAssumption
<1>5. QdEvents(qd.trying) = {"out", "pri"}
  BY <1>2, <1>4 DEF QdEvents
<1> QED BY <1>3, <1>5, WantedOfQdevice

(* Two callbacks for one entry mean that it is both read and written.       *)
LEMMA BothCallbacks ==
    ASSUME NEW flags \in SUBSET Stages, NEW s \in CallbacksOf(flags), NEW t \in CallbacksOf(flags), s # t
    PROVE  "read" \in flags /\ "write" \in flags
BY DEF CallbacksOf, Stages

(* When the walk has ended, what is polled is in the list.                  *)
LEMMA PolledIsRegistered ==
    ASSUME ListInv, NEW k \in 1..(Len(fd_list) + 1),
           NEW e, WalkedTo(k, fd_list, e, poll_array, Wanted)
    PROVE  /\ \A j \in DOMAIN poll_array : poll_array[j].entry \in Registered
           /\ \A j \in DOMAIN poll_array : poll_array[j].events = Wanted[poll_array[j].entry]
           /\ PolledOnce(poll_array)
<1>1. NothingElse(k, fd_list, poll_array, Wanted) /\ PolledOnce(poll_array)
  BY DEF WalkedTo
<1>2. fd_list \in Seq(Fds)
  BY DEF ListInv
<1>3. \A i \in 1..(k - 1) : fd_list[i] \in Registered
  BY <1>2 DEF Registered, Range
<1>4. \A j \in DOMAIN poll_array : poll_array[j].entry \in Registered
  <2> TAKE j \in DOMAIN poll_array
  <2>1. PICK i \in 1..(k - 1) : poll_array[j].entry = fd_list[i]
    BY <1>1, Zenon DEF NothingElse
  <2> QED BY <1>3, <2>1
<1>5. \A j \in DOMAIN poll_array : poll_array[j].events = Wanted[poll_array[j].entry]
  BY <1>1, Zenon DEF NothingElse
<1> QED BY <1>1, <1>4, <1>5

(* PR_Poll returns: the callbacks that become due.                          *)
LEMMA PollReturnsKeeps ==
    ASSUME Inv, PollReturns
    PROVE  Inv'
<1>1. ListInv /\ ControlInv /\ FillInv /\ IpcInv /\ QdInv
  BY DEF Inv
<1>2. phase = "poll" /\ UNCHANGED <<listVars, ipcVars, daemon, running, netVars, qd>>
  BY Zenon DEF PollReturns
<1>3. /\ IpcInv' /\ NetInv' /\ QdInv' /\ ListInv' /\ OpenInv' /\ fd_list' = fd_list /\ freed' = freed
      /\ running' = running /\ Registered' = Registered /\ ipc_list' = ipc_list /\ net' = net /\ qd' = qd
  BY <1>2, RestKept DEF listVars, ipcVars, netVars
<1>4. /\ freed = {} /\ running = "loop" /\ poll_array \in Seq(Items)
  BY <1>1, <1>2 DEF ControlInv
<1>5. PICK ready \in SUBSET DOMAIN poll_array : \E f :
         /\ \A i \in ready : f[i] \in FlagsAt(i)
         /\ Poll([i \in DOMAIN poll_array |-> IF i \in ready THEN f[i] ELSE {}])
  BY Zenon DEF PollReturns
<1>5a. PICK f : /\ \A i \in ready : f[i] \in FlagsAt(i)
                /\ Poll([i \in DOMAIN poll_array |-> IF i \in ready THEN f[i] ELSE {}])
  BY <1>5
<1> DEFINE out == [i \in DOMAIN poll_array |-> IF i \in ready THEN f[i] ELSE {}]
<1>6. /\ due' = Callbacks(out) /\ phase' = (IF due' = {} THEN "timers" ELSE "dispatch")
      /\ UNCHANGED <<poll_array, allocated, cursor, result>>
  BY <1>5a DEF Poll
<1>7. \A i \in DOMAIN poll_array : out[i] = {} \/ out[i] \in FlagsAt(i)
  BY <1>5a
<1> HIDE DEF out
<1>8. PICK k \in 1..(Len(fd_list) + 1) : WalkedTo(k, fd_list, NoEntry, poll_array, Wanted)
  BY <1>1, <1>2 DEF FillInv
<1>9. /\ \A j \in DOMAIN poll_array : poll_array[j].entry \in Registered
      /\ \A j \in DOMAIN poll_array : poll_array[j].events = Wanted[poll_array[j].entry]
      /\ PolledOnce(poll_array)
  BY <1>1, <1>8, PolledIsRegistered
<1>10. ASSUME NEW i \in DOMAIN poll_array
       PROVE  /\ poll_array[i].entry \in Fds /\ i \in Nat /\ out[i] \in SUBSET Stages
              /\ "read" \in out[i] => "in" \in Wanted[poll_array[i].entry]
              /\ "write" \in out[i] => "out" \in Wanted[poll_array[i].entry]
  <2> DEFINE e  == poll_array[i].entry
             ev == poll_array[i].events
  <2>1. i \in 1..Len(poll_array) /\ poll_array[i] \in Items
    BY <1>4
  <2>2. e \in Fds /\ i \in Nat /\ ev = Wanted[e]
    BY <1>9, <2>1 DEF Items
  <2>3. e = "server" => "in" \in ev
    BY <2>2, WantedOfFixed
  <2>4. CASE out[i] = {}
    BY <2>2, <2>4
  <2>5. CASE out[i] \in FlagsAt(i)
    <3>1. out[i] \in FlagsOf(e, ev)
      BY <2>5 DEF FlagsAt
    <3> HIDE DEF e, ev
    <3>2. out[i] \in SUBSET Stages /\ ("read" \in out[i] => "in" \in ev) /\ ("write" \in out[i] => "out" \in ev)
      BY <2>3, <3>1, FlagsAreWanted
    <3>3. "read" \in out[i] => "in" \in Wanted[e]
      BY <2>2, <3>2
    <3>4. "write" \in out[i] => "out" \in Wanted[e]
      BY <2>2, <3>2
    <3> QED BY <2>2, <3>2, <3>3, <3>4 DEF e
  <2> QED BY <1>7, <2>4, <2>5
<1>11. \A x \in due' : \E i \in DOMAIN poll_array : \E s \in CallbacksOf(out[i]) :
          x = [at |-> i, entry |-> poll_array[i].entry, stage |-> s]
  BY <1>6 DEF Callbacks
<1>12. \A x \in due' : /\ x.at \in DOMAIN poll_array /\ x.entry = poll_array[x.at].entry
                       /\ x.stage \in CallbacksOf(out[x.at]) /\ x \in Calls
  <2> TAKE x \in due'
  <2>0. PICK i \in DOMAIN poll_array : \E s \in CallbacksOf(out[i]) :
           x = [at |-> i, entry |-> poll_array[i].entry, stage |-> s]
    BY <1>11
  <2>1. PICK s \in CallbacksOf(out[i]) :
           x = [at |-> i, entry |-> poll_array[i].entry, stage |-> s]
    BY <2>0
  <2>2. x.at = i /\ x.entry = poll_array[i].entry /\ x.stage = s
    BY <2>1
  <2>3. s \in Stages
    BY <1>10, <2>1 DEF CallbacksOf
  <2>4. x \in Calls
    BY <1>10, <2>1, <2>3 DEF Calls
  <2> QED BY <2>1, <2>2, <2>4
<1>13. \A x \in due' : Ready(x, (Registered \ freed)', ipc_list', net')
  <2> SUFFICES ASSUME NEW x \in due' PROVE Ready(x, Registered, ipc_list, net)
    BY <1>3, <1>4
  <2> DEFINE i == x.at
             e == x.entry
  <2>1. i \in DOMAIN poll_array /\ e = poll_array[i].entry /\ x.stage \in CallbacksOf(out[i])
    BY <1>12
  <2>2. e \in Registered
    BY <1>9, <2>1
  <2>3. x.stage \in out[i]
    BY <2>1 DEF CallbacksOf
  <2>4. /\ x.stage = "read" => "in" \in Wanted[e]
        /\ x.stage = "write" => "out" \in Wanted[e]
    BY <1>10, <2>1, <2>3
  <2>5. ASSUME e \in Slots PROVE /\ x.stage = "read" => ipc_list[e].reading
                                 /\ x.stage = "write" => ipc_list[e].writing
    BY <2>4, <2>5, SlotWants
  <2>6. ASSUME e \in NetClients, x.stage = "write" PROVE net[e].out > 0
    BY <2>4, <2>6, WantedOfClient, ZenonT(60)
  <2> QED BY <2>2, <2>5, <2>6 DEF Ready
<1>14. OncePerEntry(due', qd'.trying)
  <2> SUFFICES ASSUME NEW x \in due', NEW y \in due', x.entry = y.entry
               PROVE  /\ x.at = y.at
                      /\ x.entry \in Slots \cup {qd.trying} => x.stage = y.stage
    BY <1>3 DEF OncePerEntry
  <2> DEFINE i == x.at
             e == x.entry
  <2>1. i \in DOMAIN poll_array /\ e = poll_array[i].entry /\ x.stage \in CallbacksOf(out[i])
    BY <1>12
  <2>2. x.at = y.at
    BY <1>9, <1>12 DEF PolledOnce
  <2>3. y.stage \in CallbacksOf(out[i])
    BY <1>12, <2>2
  <2>4. ASSUME e \in Slots \cup {qd.trying}, x.stage # y.stage PROVE FALSE
    <3>1. "in" \in Wanted[e] /\ "out" \in Wanted[e]
      BY <1>10, <2>1, <2>3, <2>4, BothCallbacks
    <3>2. CASE e \in Slots
      <4>1. ipc_list[e].reading /\ ipc_list[e].writing
        BY <3>1, <3>2, SlotWants
      <4> QED BY <1>1, <3>2, <4>1 DEF IpcInv, ToolOk
    <3>3. CASE e = qd.trying
      <4>1. qd.trying \in Fds
        BY <1>10, <2>1, <3>3
      <4> QED BY <1>1, <3>1, <3>3, <4>1, TryingWants
    <3> QED BY <2>4, <3>2, <3>3
  <2> QED BY <2>2, <2>4
<1>15. DueInv'
  BY <1>13, <1>14 DEF DueInv
<1>16. ControlInv'
  <2>1. due' \in SUBSET Calls
    BY <1>12
  <2> QED BY <1>1, <1>3, <1>4, <1>6, <2>1 DEF ControlInv, Phases
<1>17. FillInv'
  BY <1>6 DEF FillInv
<1> QED BY <1>3, <1>15, <1>16, <1>17 DEF Inv

-----------------------------------------------------------------------------
(* The callbacks that leave the list of descriptors alone                  *)

(* What such a callback has to show.                                        *)
LEMMA DispatchKeeps ==
    ASSUME Inv, NEW fd, NEW st, Turn(fd, st), NEW res \in {0, -1}, Called(res),
           UNCHANGED <<listVars, daemon, running, clients>>,
           IpcInv', NetInv', QdInv', Connected' = Connected,
           qd'.trying = qd.trying, qd'.destroyed = qd.destroyed, qd'.socket = qd.socket,
           \A x \in due' : x.entry \in Slots => ipc_list'[x.entry] = ipc_list[x.entry],
           \A x \in due' : x.entry \in NetClients /\ x.stage = "write" => net'[x.entry].out > 0
    PROVE  Inv'
<1>1. ListInv /\ ControlInv /\ DueInv /\ OpenInv
  BY DEF Inv
<1>2. ControlInv' /\ FillInv' /\ due' \subseteq due
  BY <1>1, CalledStep
<1>3. fd_list' = fd_list /\ freed' = freed /\ Registered' = Registered /\ ListInv'
  BY <1>1 DEF listVars, Registered, ListInv
<1>4. OpenNet' = OpenNet
  BY DEF OpenNet, Clients
<1>5. OpenInv'
  BY <1>1, <1>3, <1>4 DEF OpenInv
<1>6. \A x \in due' : Ready(x, (Registered \ freed)', ipc_list', net')
  <2> SUFFICES ASSUME NEW x \in due' PROVE Ready(x, Registered \ freed, ipc_list', net')
    BY <1>3
  <2>1. Ready(x, Registered \ freed, ipc_list, net)
    BY <1>1, <1>2 DEF DueInv
  <2> QED BY <2>1 DEF Ready
<1>7. DueInv'
  BY <1>1, <1>2, <1>6, DueKept
<1> QED BY <1>2, <1>3, <1>5, <1>7 DEF Inv

(* A client's message is still queued when its callback comes.              *)
LEMMA StillQueued ==
    ASSUME Inv, due' \subseteq due, net' = net
    PROVE  \A x \in due' : x.entry \in NetClients /\ x.stage = "write" => net'[x.entry].out > 0
BY DEF Inv, DueInv, Ready

(* A callback that changes nothing but what the loop does next.             *)
LEMMA QuietDispatch ==
    ASSUME Inv, NEW fd, NEW st, Turn(fd, st), NEW res \in {0, -1}, Called(res),
           pending' \in 0..MaxPending,
           UNCHANGED <<listVars, ipc_open, made, peer, ipc_list, daemon, running, netVars, qd>>
    PROVE  Inv'
<1>1. ControlInv /\ DueInv /\ IpcInv /\ NetInv /\ QdInv
  BY DEF Inv
<1>2. due' \subseteq due
  BY <1>1, CalledStep
<1>3. IpcInv'
  BY <1>1 DEF IpcInv
<1>4. NetInv'
  BY <1>1 DEF NetInv, netVars
<1>5. QdInv'
  BY <1>1 DEF QdInv
<1>6. Connected' = Connected
  BY DEF Connected
<1>7. net' = net /\ clients' = clients
  BY DEF netVars
<1>8. \A x \in due' : x.entry \in NetClients /\ x.stage = "write" => net'[x.entry].out > 0
  BY <1>2, <1>7, StillQueued
<1> QED BY <1>3, <1>4, <1>5, <1>6, <1>7, <1>8, DispatchKeeps

(* accept fails, or the new connection is closed at once.                   *)
LEMMA IpcAcceptFailsKeeps ==
    ASSUME Inv, IpcAcceptFails
    PROVE  Inv'
<1>1. /\ Turn("ipc", "read") /\ Called(0) /\ pending' = pending
      /\ UNCHANGED <<listVars, ipc_open, made, peer, ipc_list, daemon, running, netVars, qd>>
  BY DEF IpcAcceptFails, ipcVars
<1>2. pending \in 0..MaxPending
  BY DEF Inv, IpcInv
<1> QED BY <1>1, <1>2, QuietDispatch

LEMMA IpcSocketErrKeeps ==
    ASSUME Inv, IpcSocketErr
    PROVE  Inv'
<1>1. /\ Turn("ipc", "err") /\ Called(-1) /\ pending' = pending
      /\ UNCHANGED <<listVars, ipc_open, made, peer, ipc_list, daemon, running, netVars, qd>>
  BY DEF IpcSocketErr, ipcVars
<1>2. pending \in 0..MaxPending
  BY DEF Inv, IpcInv
<1> QED BY <1>1, <1>2, QuietDispatch

LEMMA ServerSocketErrKeeps ==
    ASSUME Inv, ServerSocketErr
    PROVE  Inv'
<1>1. /\ Turn("server", "err") /\ Called(-1) /\ pending' = pending
      /\ UNCHANGED <<listVars, ipc_open, made, peer, ipc_list, daemon, running, netVars, qd>>
  BY DEF ServerSocketErr, ipcVars
<1>2. pending \in 0..MaxPending
  BY DEF Inv, IpcInv
<1> QED BY <1>1, <1>2, QuietDispatch

(* The callback of a tool: it is the only one that is due for it.           *)
LEMMA ToolDispatch ==
    ASSUME Inv, NEW c \in Slots, NEW st, Turn(c, st), Called(0),
           NEW k, ToolOk(k), k.used = ipc_list[c].used, ipc_list' = [ipc_list EXCEPT ![c] = k],
           peer' \in [Slots -> Peers], ipc_open' \in BOOLEAN, pending' \in 0..MaxPending,
           UNCHANGED <<listVars, made, daemon, running, netVars, qd>>
    PROVE  Inv'
<1>1. ControlInv /\ DueInv /\ IpcInv /\ NetInv /\ QdInv
  BY DEF Inv
<1>2. due' \subseteq due /\ \A y \in due' : y.entry # c
  BY <1>1, CalledStep
<1>3. DOMAIN ipc_list = Slots /\ (\A d \in Slots : ToolOk(ipc_list[d])) /\ made \in 0..MaxTools
  BY <1>1 DEF IpcInv
<1>4. /\ DOMAIN ipc_list' = Slots /\ \A d \in Slots : ToolOk(ipc_list'[d])
      /\ ipc_list'[c] = k /\ \A d \in Slots : d # c => ipc_list'[d] = ipc_list[d]
  BY <1>3, ToolChanged
<1>5. IpcInv'
  BY <1>3, <1>4 DEF IpcInv
<1>6. Connected' = Connected
  BY <1>4 DEF Connected
<1>7. NetInv'
  BY <1>1 DEF NetInv, netVars
<1>8. QdInv'
  BY <1>1 DEF QdInv
<1>9. net' = net /\ clients' = clients
  BY DEF netVars
<1>10. \A x \in due' : x.entry \in NetClients /\ x.stage = "write" => net'[x.entry].out > 0
  BY <1>2, <1>9, StillQueued
<1>11. \A x \in due' : x.entry \in Slots => ipc_list'[x.entry] = ipc_list[x.entry]
  BY <1>2, <1>4
<1> QED BY <1>5, <1>6, <1>7, <1>8, <1>9, <1>10, <1>11, DispatchKeeps

(* What a tool's socket may become when it is read.                         *)
LEMMA ScheduledIsOk ==
    ASSUME NEW k, ToolOk(k)
    PROVE  ToolOk(Scheduled(k)) /\ Scheduled(k).used = k.used
BY DEF ToolOk, Scheduled

LEMMA ParsedIsOk ==
    ASSUME NEW k, ToolOk(k), NEW b \in BOOLEAN,
           NEW j \in Reply([LineRead(k) EXCEPT !.shutdown = b])
    PROVE  ToolOk(j) /\ j.used = k.used
<1> DEFINE t == [used : BOOLEAN, reading : BOOLEAN, writing : BOOLEAN,
                 scheduled : BOOLEAN, shutdown : BOOLEAN, left : 0..Pieces]
           m == [LineRead(k) EXCEPT !.shutdown = b]
<1>1. k \in t
  BY DEF ToolOk
<1>2. Pieces \in 0..Pieces /\ Pieces > 0
  BY IpcAssumption
<1>3. m \in t /\ ~m.reading /\ m.used = k.used /\ m.scheduled = k.scheduled
  BY <1>1 DEF LineRead
<1>4. j \in {[m EXCEPT !.writing = TRUE, !.left = Pieces], [m EXCEPT !.scheduled = TRUE]}
  BY DEF Reply, Scheduled
<1>5. (m.writing => m.left > 0)
  BY DEF ToolOk, LineRead
<1> HIDE DEF m
<1>6. CASE j = [m EXCEPT !.writing = TRUE, !.left = Pieces]
  <2>1. j \in t /\ ~j.reading /\ j.writing /\ j.left = Pieces /\ j.used = k.used
    BY <1>2, <1>3, <1>6
  <2> QED BY <1>2, <2>1 DEF ToolOk
<1>7. CASE j = [m EXCEPT !.scheduled = TRUE]
  <2>1. j \in t /\ ~j.reading /\ j.scheduled /\ j.left = m.left /\ j.writing = m.writing /\ j.used = k.used
    BY <1>3, <1>7
  <2> QED BY <1>5, <2>1 DEF ToolOk
<1> QED BY <1>4, <1>6, <1>7

(* unix_socket_client_io_read, with the parser of either daemon.            *)
LEMMA IoReadKeeps ==
    ASSUME Inv, NEW c \in Slots, Turn(c, "read"), Called(0), NEW P, IoRead(c, P),
           \A j \in P : ToolOk(j) /\ j.used = ipc_list[c].used,
           UNCHANGED <<listVars, made, daemon, running, netVars, qd>>
    PROVE  Inv'
<1>1. IpcInv
  BY DEF Inv
<1>2. /\ ipc_open \in BOOLEAN /\ pending \in 0..MaxPending /\ peer \in [Slots -> Peers]
      /\ ToolOk(ipc_list[c])
  BY <1>1 DEF IpcInv
<1>3. UNCHANGED <<ipc_open, pending>> /\ peer' = [peer EXCEPT ![c].unread = "none"]
  BY DEF IoRead
<1>4. peer' \in [Slots -> Peers]
  BY <1>2, <1>3 DEF Peers
<1> DEFINE k == ipc_list[c]
           u == peer[c].unread
<1>5. u \in {"none", "part"} \cup Commands
  BY <1>2 DEF Peers
<1>6. "none" \notin Commands /\ "part" \notin Commands
  BY IpcAssumption
<1>7. PICK j \in P \cup {k, Scheduled(k)} : ipc_list' = [ipc_list EXCEPT ![c] = j]
  <2>1. CASE u = "none"
    BY <1>6, <2>1 DEF IoRead
  <2>2. CASE u = "part"
    BY <1>6, <2>2 DEF IoRead
  <2>3. CASE u \in Commands
    BY <1>6, <2>3 DEF IoRead
  <2> QED BY <1>5, <2>1, <2>2, <2>3
<1>8. ToolOk(j) /\ j.used = ipc_list[c].used
  BY <1>2, <1>7, ScheduledIsOk
<1> QED BY <1>2, <1>3, <1>4, <1>7, <1>8, ToolDispatch

LEMMA QnetdIpcIoReadKeeps ==
    ASSUME Inv, NEW c \in Slots, QnetdIpcIoRead(c)
    PROVE  Inv'
<1> DEFINE P == QnetdParseLine(LineRead(ipc_list[c]), peer[c].unread)
           b == peer[c].unread = "shutdown"
<1>1. /\ Turn(c, "read") /\ Called(0) /\ IoRead(c, P)
      /\ UNCHANGED <<listVars, made, daemon, running, netVars, qd>>
  BY Zenon DEF QnetdIpcIoRead
<1>2. P = Reply([LineRead(ipc_list[c]) EXCEPT !.shutdown = b]) /\ b \in BOOLEAN
  BY DEF QnetdParseLine
<1>3. ToolOk(ipc_list[c])
  BY DEF Inv, IpcInv
<1> HIDE DEF P, b
<1>4. \A j \in P : ToolOk(j) /\ j.used = ipc_list[c].used
  BY <1>2, <1>3, ParsedIsOk
<1> QED BY <1>1, <1>4, IoReadKeeps

LEMMA QdeviceIpcIoReadKeeps ==
    ASSUME Inv, NEW c \in Slots, QdeviceIpcIoRead(c)
    PROVE  Inv'
<1> DEFINE P == QdeviceParseLine(LineRead(ipc_list[c]), peer[c].unread)
           b == peer[c].unread = "shutdown"
<1>1. /\ Turn(c, "read") /\ Called(0) /\ IoRead(c, P)
      /\ UNCHANGED <<listVars, made, daemon, running, netVars, qd>>
  BY Zenon DEF QdeviceIpcIoRead
<1>2. P = Reply([LineRead(ipc_list[c]) EXCEPT !.shutdown = b]) /\ b \in BOOLEAN
  BY DEF QdeviceParseLine
<1>3. ToolOk(ipc_list[c])
  BY DEF Inv, IpcInv
<1> HIDE DEF P, b
<1>4. \A j \in P : ToolOk(j) /\ j.used = ipc_list[c].used
  BY <1>2, <1>3, ParsedIsOk
<1> QED BY <1>1, <1>4, IoReadKeeps

(* unix_socket_client_io_write: there is something left to send.            *)
LEMMA ClientSocketWriteKeeps ==
    ASSUME Inv, NEW c \in Slots, ClientSocketWrite(c)
    PROVE  Inv'
<1> DEFINE k == ipc_list[c]
           last == k.left = 1
           j == [k EXCEPT !.left = @ - 1, !.writing = ~last, !.scheduled = last]
<1>1. /\ Turn(c, "write") /\ Called(0) /\ IoWrite(c)
      /\ UNCHANGED <<listVars, made, daemon, running, netVars, qd>>
  BY Zenon DEF ClientSocketWrite
<1>2. /\ ipc_open \in BOOLEAN /\ pending \in 0..MaxPending /\ peer \in [Slots -> Peers]
      /\ ToolOk(k)
  BY DEF Inv, IpcInv
<1>3. k.writing
  <2>1. PICK x \in due : x.entry = c /\ x.stage = "write"
    BY <1>1 DEF Turn
  <2>2. Ready(x, Registered \ freed, ipc_list, net)
    BY DEF Inv, DueInv
  <2> QED BY <2>1, <2>2 DEF Ready
<1>4. CASE ~peer[c].there
  <2>1. ipc_list' = [ipc_list EXCEPT ![c] = Scheduled(k)] /\ UNCHANGED <<ipc_open, pending, peer>>
    BY <1>1, <1>4 DEF IoWrite
  <2>2. ToolOk(Scheduled(k)) /\ Scheduled(k).used = k.used
    BY <1>2, ScheduledIsOk
  <2> DEFINE s == Scheduled(k)
  <2>3. /\ ipc_list' = [ipc_list EXCEPT ![c] = s] /\ ToolOk(s) /\ s.used = ipc_list[c].used
        /\ ipc_open' \in BOOLEAN /\ pending' \in 0..MaxPending /\ peer' \in [Slots -> Peers]
    BY <1>2, <2>1, <2>2
  <2> HIDE DEF s
  <2> QED BY <1>1, <2>3, ToolDispatch
<1>5. CASE peer[c].there
  <2>1. /\ ipc_list' = [ipc_list EXCEPT ![c] = j] /\ peer' = [peer EXCEPT ![c].answered = last]
        /\ (ipc_open' = FALSE /\ pending' = 0) \/ UNCHANGED <<ipc_open, pending>>
    BY <1>1, <1>5 DEF IoWrite, IpcClose
  <2>2. peer' \in [Slots -> Peers]
    BY <1>2, <2>1, ZenonT(60) DEF Peers
  <2>3. ipc_open' \in BOOLEAN /\ pending' \in 0..MaxPending
    <3>1. 0 \in 0..MaxPending
      BY IpcAssumption
    <3>2. CASE ipc_open' = FALSE /\ pending' = 0
      BY <3>1, <3>2
    <3>3. CASE UNCHANGED <<ipc_open, pending>>
      BY <1>2, <3>3
    <3> HIDE DEF j, last
    <3> QED BY <2>1, <3>2, <3>3
  <2>4. k.left \in Nat /\ k.left > 0 /\ k.left <= Pieces /\ ~k.reading /\ Pieces \in Nat
    BY <1>2, <1>3, IpcAssumption DEF ToolOk
  <2>5. /\ j \in [used : BOOLEAN, reading : BOOLEAN, writing : BOOLEAN,
                  scheduled : BOOLEAN, shutdown : BOOLEAN, left : 0..Pieces]
        /\ j.left = k.left - 1 /\ j.writing = (k.left # 1) /\ j.scheduled = (k.left = 1)
        /\ ~j.reading /\ j.used = k.used
    <3> DEFINE t == [used : BOOLEAN, reading : BOOLEAN, writing : BOOLEAN,
                     scheduled : BOOLEAN, shutdown : BOOLEAN, left : 0..Pieces]
               b == k.left # 1
    <3>1. k \in t
      BY <1>2 DEF ToolOk
    <3>2. k.left - 1 \in 0..Pieces
      BY <2>4
    <3>3. j = [k EXCEPT !.left = k.left - 1, !.writing = b, !.scheduled = ~b] /\ b \in BOOLEAN
      BY <3>1
    <3> HIDE DEF j, b
    <3>4. /\ j \in t /\ j.left = k.left - 1 /\ j.writing = b /\ j.scheduled = ~b
          /\ j.reading = k.reading /\ j.used = k.used
      BY <3>1, <3>2, <3>3
    <3> QED BY <2>4, <3>4 DEF b
  <2>6. k.left # 1 => k.left - 1 > 0
    BY <2>4
  <2> HIDE DEF j
  <2>7. ToolOk(j)
    BY <2>5, <2>6 DEF ToolOk
  <2> QED BY <1>1, <2>1, <2>2, <2>3, <2>5, <2>7, ToolDispatch
<1> QED BY <1>4, <1>5

LEMMA ClientSocketErrKeeps ==
    ASSUME Inv, NEW c \in Slots, ClientSocketErr(c)
    PROVE  Inv'
<1> DEFINE k == Scheduled(ipc_list[c])
<1>1. /\ Turn(c, "err") /\ Called(0) /\ ipc_list' = [ipc_list EXCEPT ![c] = Scheduled(@)]
      /\ UNCHANGED <<listVars, ipc_open, pending, made, peer, daemon, running, netVars, qd>>
  BY Zenon DEF ClientSocketErr
<1>2. /\ ipc_open \in BOOLEAN /\ pending \in 0..MaxPending /\ peer \in [Slots -> Peers]
      /\ ToolOk(ipc_list[c])
  BY DEF Inv, IpcInv
<1>3. ipc_list' = [ipc_list EXCEPT ![c] = k] /\ ToolOk(k) /\ k.used = ipc_list[c].used
  BY <1>1, <1>2, ScheduledIsOk
<1> HIDE DEF k
<1> QED BY <1>1, <1>2, <1>3, ToolDispatch

-----------------------------------------------------------------------------
(* The callbacks of the clients of qnetd                                   *)

(* A callback that changes the clients' records.                            *)
LEMMA NetDispatch ==
    ASSUME Inv, NEW fd, NEW st, Turn(fd, st), Called(0),
           net' \in [NetClients -> [scheduled : BOOLEAN, out : 0..MaxOut]],
           UNCHANGED <<listVars, ipcVars, daemon, running, clients, walk, qd>>,
           \A x \in due' : x.entry \in NetClients /\ x.stage = "write" => net'[x.entry].out > 0
    PROVE  Inv'
<1>1. ControlInv /\ DueInv /\ IpcInv /\ NetInv /\ QdInv
  BY DEF Inv
<1>2. IpcInv'
  BY <1>1 DEF IpcInv, ipcVars
<1>3. NetInv'
  BY <1>1 DEF NetInv
<1>4. QdInv'
  BY <1>1 DEF QdInv
<1>5. Connected' = Connected /\ ipc_list' = ipc_list
  BY DEF Connected, ipcVars
<1> QED BY <1>2, <1>3, <1>4, <1>5, DispatchKeeps

(* What the due callbacks find.                                             *)
LEMMA DueHasOutput ==
    ASSUME Inv, NEW fd, NEW st, Turn(fd, st), Called(0), UNCHANGED running
    PROVE  /\ \A x \in due' : x.entry \in NetClients /\ x.stage = "write" =>
                 net[x.entry].out > 0 /\ ~(x.entry = fd /\ st = "write")
           /\ fd \in NetClients /\ st = "write" => net[fd].out > 0
<1>1. ControlInv /\ DueInv
  BY DEF Inv
<1>2. /\ due' \subseteq due /\ \E x \in due : x.entry = fd /\ x.stage = st
      /\ \A y \in due' : ~(y.entry = fd /\ y.stage = st)
  BY <1>1, CalledStep
<1>3. \A x \in due : x.entry \in NetClients /\ x.stage = "write" => net[x.entry].out > 0
  BY <1>1 DEF DueInv, Ready
<1> QED BY <1>2, <1>3

(* Queueing messages.                                                       *)
LEMMA SendToStep ==
    ASSUME NEW s \in [NetClients -> [scheduled : BOOLEAN, out : 0..MaxOut]], NEW S,
           NEW t, t = SendTo(s, S)
    PROVE  /\ t \in [NetClients -> [scheduled : BOOLEAN, out : 0..MaxOut]]
           /\ \A n \in NetClients : s[n].out > 0 => t[n].out > 0
<1> DEFINE R == [scheduled : BOOLEAN, out : 0..MaxOut]
           v(n) == IF n \notin S THEN s[n]
                   ELSE IF s[n].out < MaxOut THEN [s[n] EXCEPT !.out = @ + 1]
                   ELSE [s[n] EXCEPT !.scheduled = TRUE]
<1>1. t = [n \in NetClients |-> v(n)]
  BY DEF SendTo
<1>2. ASSUME NEW n \in NetClients PROVE v(n) \in R /\ (s[n].out > 0 => v(n).out > 0)
  <2>1. s[n] \in R /\ s[n].out \in 0..MaxOut /\ MaxOut \in Nat
    BY DaemonAssumption
  <2>2. CASE n \notin S
    BY <2>1, <2>2
  <2>3. CASE n \in S /\ s[n].out < MaxOut
    <3>1. s[n].out + 1 \in 0..MaxOut /\ s[n].out + 1 > 0
      BY <2>1, <2>3
    <3>2. v(n) = [s[n] EXCEPT !.out = s[n].out + 1]
      BY <2>3
    <3> QED BY <2>1, <3>1, <3>2
  <2>4. CASE n \in S /\ ~(s[n].out < MaxOut)
    BY <2>1, <2>4
  <2> QED BY <2>2, <2>3, <2>4
<1> HIDE DEF v
<1> QED BY <1>1, <1>2

LEMMA NetSocketReadKeeps ==
    ASSUME Inv, NEW n \in NetClients, NetSocketRead(n)
    PROVE  Inv'
<1> DEFINE R == [scheduled : BOOLEAN, out : 0..MaxOut]
<1>1. /\ Turn(n, "read") /\ Called(0)
      /\ UNCHANGED <<listVars, ipcVars, daemon, running, clients, walk, qd>>
  BY Zenon DEF NetSocketRead
<1>2. \/ net' = net
      \/ net' = [net EXCEPT ![n].scheduled = TRUE]
      \/ \E S \in SUBSET Clients : net' = SendTo(net, S)
  BY Zenon DEF NetSocketRead
<1>3. net \in [NetClients -> R]
  BY DEF Inv, NetInv
<1>4. net' \in [NetClients -> R] /\ \A m \in NetClients : net[m].out > 0 => net'[m].out > 0
  <2>1. CASE net' = net
    BY <1>3, <2>1
  <2>2. CASE net' = [net EXCEPT ![n].scheduled = TRUE]
    BY <1>3, <2>2
  <2>3. CASE \E S \in SUBSET Clients : net' = SendTo(net, S)
    BY <1>3, <2>3, SendToStep
  <2> QED BY <1>2, <2>1, <2>2, <2>3
<1>5. \A x \in due' : x.entry \in NetClients /\ x.stage = "write" => net'[x.entry].out > 0
  BY <1>1, <1>4, DueHasOutput
<1> HIDE DEF R
<1> QED BY <1>1, <1>4, <1>5, NetDispatch DEF R

LEMMA NetSocketWriteKeeps ==
    ASSUME Inv, NEW n \in NetClients, NetSocketWrite(n)
    PROVE  Inv'
<1> DEFINE R == [scheduled : BOOLEAN, out : 0..MaxOut]
<1>1. /\ Turn(n, "write") /\ Called(0)
      /\ UNCHANGED <<listVars, ipcVars, daemon, running, clients, walk, qd>>
  BY Zenon DEF NetSocketWrite
<1>2. \/ net' = net
      \/ net' = [net EXCEPT ![n].out = @ - 1]
      \/ net' = [net EXCEPT ![n].scheduled = TRUE]
  BY Zenon DEF NetSocketWrite
<1>3. net \in [NetClients -> R] /\ net[n].out > 0 /\ MaxOut \in Nat
  BY <1>1, DueHasOutput, DaemonAssumption DEF Inv, NetInv
<1>4. net' \in [NetClients -> R] /\ \A m \in NetClients : m # n => net'[m].out = net[m].out
  <2>1. CASE net' = net
    BY <1>3, <2>1
  <2>2. CASE net' = [net EXCEPT ![n].scheduled = TRUE]
    BY <1>3, <2>2
  <2>3. CASE net' = [net EXCEPT ![n].out = @ - 1]
    <3>1. net[n].out - 1 \in 0..MaxOut
      BY <1>3
    <3> QED BY <1>3, <2>3, <3>1
  <2> QED BY <1>2, <2>1, <2>2, <2>3
<1>5. \A x \in due' : x.entry \in NetClients /\ x.stage = "write" => net'[x.entry].out > 0
  BY <1>1, <1>4, DueHasOutput
<1> HIDE DEF R
<1> QED BY <1>1, <1>4, <1>5, NetDispatch DEF R

LEMMA NetSocketErrKeeps ==
    ASSUME Inv, NEW n \in NetClients, NetSocketErr(n)
    PROVE  Inv'
<1> DEFINE R == [scheduled : BOOLEAN, out : 0..MaxOut]
<1>1. /\ Turn(n, "err") /\ Called(0) /\ net' = [net EXCEPT ![n].scheduled = TRUE]
      /\ UNCHANGED <<listVars, ipcVars, daemon, running, clients, walk, qd>>
  BY Zenon DEF NetSocketErr
<1>2. net \in [NetClients -> R]
  BY DEF Inv, NetInv
<1>3. net' \in [NetClients -> R] /\ \A m \in NetClients : net'[m].out = net[m].out
  BY <1>1, <1>2
<1>4. \A x \in due' : x.entry \in NetClients /\ x.stage = "write" => net'[x.entry].out > 0
  BY <1>1, <1>3, DueHasOutput
<1> HIDE DEF R
<1> QED BY <1>1, <1>3, <1>4, NetDispatch DEF R

-----------------------------------------------------------------------------
(* The callbacks of qdevice                                                *)

Qds == [sync : BOOLEAN, heurcmd : BOOLEAN, trying : NetSocks \cup {NoSock},
        destroyed : BOOLEAN, socket : NetSocks \cup {NoSock}, scheduled : BOOLEAN,
        queued : BOOLEAN, closed : {"no", "heuristics", "corosync"}]

(* The instance with its sockets as they are.                               *)
LEMMA QdSameSockets ==
    ASSUME QdInv, daemon = "qdevice", qd' \in Qds, qd'.trying = qd.trying,
           qd'.destroyed = qd.destroyed, qd'.socket = qd.socket, UNCHANGED <<daemon, running>>
    PROVE  QdInv'
BY DEF QdInv, Qds

LEMMA QdDispatch ==
    ASSUME Inv, daemon = "qdevice", NEW fd, NEW st, Turn(fd, st), NEW res \in {0, -1}, Called(res),
           qd' \in Qds, qd'.trying = qd.trying, qd'.destroyed = qd.destroyed, qd'.socket = qd.socket,
           UNCHANGED <<listVars, running>>, QdUnchanged
    PROVE  Inv'
<1>1. ControlInv /\ DueInv /\ IpcInv /\ NetInv /\ QdInv
  BY DEF Inv
<1>2. UNCHANGED <<ipcVars, daemon, netVars>>
  BY DEF QdUnchanged
<1>3. due' \subseteq due
  BY <1>1, CalledStep
<1>4. IpcInv'
  BY <1>1, <1>2 DEF IpcInv, ipcVars
<1>5. NetInv'
  BY <1>1, <1>2 DEF NetInv, netVars
<1>6. QdInv'
  BY <1>1, <1>2, QdSameSockets
<1>7. Connected' = Connected /\ ipc_list' = ipc_list /\ net' = net /\ clients' = clients
  BY <1>2 DEF Connected, ipcVars, netVars
<1>8. \A x \in due' : x.entry \in NetClients /\ x.stage = "write" => net'[x.entry].out > 0
  BY <1>3, <1>7, StillQueued
<1> QED BY <1>2, <1>4, <1>5, <1>6, <1>7, <1>8, DispatchKeeps

(* A callback reads less than a message.                                    *)
LEMMA PartOfMessageKeeps ==
    ASSUME Inv, NEW fd, PartOfMessage(fd), UNCHANGED <<listVars, running>>, QdUnchanged
    PROVE  Inv'
<1>1. Turn(fd, "read") /\ Called(0) /\ qd' = qd
  BY DEF PartOfMessage
<1>2. pending \in 0..MaxPending
  BY DEF Inv, IpcInv
<1>3. pending' = pending /\ UNCHANGED <<ipc_open, made, peer, ipc_list, daemon, netVars>>
  BY DEF QdUnchanged, ipcVars
<1> QED BY <1>1, <1>2, <1>3, QuietDispatch

(* The pipes of the heuristics worker.                                      *)
LEMMA QdHeuristicsKeeps ==
    ASSUME Inv, QdHeuristics
    PROVE  Inv'
<1>1. daemon = "qdevice" /\ UNCHANGED <<listVars, running>> /\ QdUnchanged
  BY Zenon DEF QdHeuristics
<1>2. qd \in Qds
  BY DEF Inv, QdInv, Qds
<1>3. CASE PartOfMessage("heurrecv")
  BY <1>1, <1>3, PartOfMessageKeeps
<1>4. CASE /\ Turn("heurrecv", "read") /\ Called(0)
           /\ \E q \in BOOLEAN : qd' = [qd EXCEPT !.queued = @ \/ (q /\ qd.socket # NoSock)]
  <2>1. /\ qd' \in Qds /\ qd'.trying = qd.trying /\ qd'.destroyed = qd.destroyed
        /\ qd'.socket = qd.socket
    BY <1>2, <1>4 DEF Qds
  <2> QED BY <1>1, <1>4, <2>1, QdDispatch
<1>5. CASE /\ Turn("heursend", "write") /\ Called(0) /\ qd' = [qd EXCEPT !.heurcmd = FALSE]
  <2>1. /\ qd' \in Qds /\ qd'.trying = qd.trying /\ qd'.destroyed = qd.destroyed
        /\ qd'.socket = qd.socket
    BY <1>2, <1>5 DEF Qds
  <2> QED BY <1>1, <1>5, <2>1, QdDispatch
<1>6. CASE /\ \/ Turn("heurrecv", "read") \/ Turn("heurrecv", "err")
              \/ Turn("heursend", "write") \/ Turn("heursend", "err")
           /\ Called(-1) /\ qd' = [qd EXCEPT !.closed = "heuristics"]
  <2>1. /\ qd' \in Qds /\ qd'.trying = qd.trying /\ qd'.destroyed = qd.destroyed
        /\ qd'.socket = qd.socket
    BY <1>2, <1>6 DEF Qds
  <2>2. PICK fd : \E st : Turn(fd, st)
    BY <1>6, Zenon
  <2>3. PICK st : Turn(fd, st)
    BY <2>2
  <2> QED BY <1>1, <1>6, <2>1, <2>3, QdDispatch
<1> QED BY <1>3, <1>4, <1>5, <1>6, Zenon DEF QdHeuristics

(* votequorum and cmap.                                                     *)
LEMMA QdCorosyncKeeps ==
    ASSUME Inv, QdCorosync
    PROVE  Inv'
<1>1. daemon = "qdevice" /\ UNCHANGED <<listVars, running>> /\ QdUnchanged
  BY Zenon DEF QdCorosync
<1>2. qd \in Qds
  BY DEF Inv, QdInv, Qds
<1>3. CASE PartOfMessage("votequorum") \/ PartOfMessage("cmap")
  BY <1>1, <1>3, PartOfMessageKeeps
<1>4. CASE /\ Turn("votequorum", "read") \/ Turn("cmap", "read")
           /\ Called(0)
           /\ \E sync \in BOOLEAN, eff \in {"heurcmd", "queued", "scheduled"} :
                 qd' = [qd EXCEPT !.sync = sync, ![eff] = TRUE]
  <2>1. PICK sync \in BOOLEAN, eff \in {"heurcmd", "queued", "scheduled"} :
           qd' = [qd EXCEPT !.sync = sync, ![eff] = TRUE]
    BY <1>4
  <2>2. /\ qd' \in Qds /\ qd'.trying = qd.trying /\ qd'.destroyed = qd.destroyed
        /\ qd'.socket = qd.socket
    <3>1. CASE eff = "heurcmd"
      BY <1>2, <2>1, <3>1 DEF Qds
    <3>2. CASE eff = "queued"
      BY <1>2, <2>1, <3>2 DEF Qds
    <3>3. CASE eff = "scheduled"
      BY <1>2, <2>1, <3>3 DEF Qds
    <3> QED BY <3>1, <3>2, <3>3
  <2> QED BY <1>1, <1>4, <2>2, QdDispatch
<1>5. CASE /\ \E st \in {"read", "err"} : Turn("votequorum", st) \/ Turn("cmap", st)
           /\ Called(-1) /\ qd' = [qd EXCEPT !.closed = "corosync"]
  <2>1. /\ qd' \in Qds /\ qd'.trying = qd.trying /\ qd'.destroyed = qd.destroyed
        /\ qd'.socket = qd.socket
    BY <1>2, <1>5 DEF Qds
  <2> QED BY <1>1, <1>5, <2>1, QdDispatch
<1> QED BY <1>3, <1>4, <1>5, Zenon DEF QdCorosync

(* The connected socket.                                                    *)
LEMMA QdSocketKeeps ==
    ASSUME Inv, QdSocket
    PROVE  Inv'
<1>1. daemon = "qdevice" /\ UNCHANGED <<listVars, running>> /\ QdUnchanged
  BY Zenon DEF QdSocket
<1>2. qd \in Qds
  BY DEF Inv, QdInv, Qds
<1>3. CASE PartOfMessage(qd.socket)
  BY <1>1, <1>3, PartOfMessageKeeps
<1>4. CASE Turn(qd.socket, "read") /\ Called(0) /\ qd' = [qd EXCEPT !.queued = TRUE]
  <2>1. /\ qd' \in Qds /\ qd'.trying = qd.trying /\ qd'.destroyed = qd.destroyed
        /\ qd'.socket = qd.socket
    BY <1>2, <1>4 DEF Qds
  <2> QED BY <1>1, <1>4, <2>1, QdDispatch
<1>5. CASE Turn(qd.socket, "write") /\ Called(0) /\ qd' = [qd EXCEPT !.queued = FALSE]
  <2>1. /\ qd' \in Qds /\ qd'.trying = qd.trying /\ qd'.destroyed = qd.destroyed
        /\ qd'.socket = qd.socket
    BY <1>2, <1>5 DEF Qds
  <2> QED BY <1>1, <1>5, <2>1, QdDispatch
<1>6. CASE /\ \E st \in Stages : Turn(qd.socket, st)
           /\ Called(-1) /\ qd' = [qd EXCEPT !.scheduled = TRUE]
  <2>1. /\ qd' \in Qds /\ qd'.trying = qd.trying /\ qd'.destroyed = qd.destroyed
        /\ qd'.socket = qd.socket
    BY <1>2, <1>6 DEF Qds
  <2> QED BY <1>1, <1>6, <2>1, QdDispatch
<1> QED BY <1>3, <1>4, <1>5, <1>6, Zenon DEF QdSocket

-----------------------------------------------------------------------------
(* The callbacks that add and delete descriptors                           *)

LEMMA ListDispatch ==
    ASSUME Inv, NEW fd, NEW st, Turn(fd, st), NEW res \in {0, -1}, Called(res), UNCHANGED running,
           ListInv', IpcInv', NetInv', QdInv', OpenInv',
           \A x \in due' : Ready(x, (Registered \ freed)', ipc_list', net'),
           qd'.trying = qd.trying \/ \A x \in due' : x.entry # qd'.trying
    PROVE  Inv'
<1>1. ControlInv /\ DueInv
  BY DEF Inv
<1>2. ControlInv' /\ FillInv' /\ due' \subseteq due
  BY <1>1, CalledStep
<1>3. DueInv'
  BY <1>1, <1>2, DueKept
<1> QED BY <1>2, <1>3 DEF Inv

LEMMA NewToolIsOk == ToolOk(NewClient) /\ NewClient.used /\ NewPeer \in Peers
<1>1. 0 \in 0..Pieces
  BY IpcAssumption
<1>2. ToolOk(NewClient) /\ NewClient.used
  BY <1>1 DEF ToolOk, NewClient, NoClient
<1>3. NewPeer \in Peers
  BY DEF NewPeer, NoPeer, Peers
<1> QED BY <1>2, <1>3

(* A tool is accepted: its slot was free, so nothing is due for it.         *)
LEMMA AcceptClientKeeps ==
    ASSUME Inv, NEW c \in Slots, Turn("ipc", "read"), Called(0), AcceptClient(c), AddFd(c),
           UNCHANGED <<made, daemon, running, netVars, work, qd>>
    PROVE  Inv'
<1>1. ListInv /\ ControlInv /\ DueInv /\ IpcInv /\ NetInv /\ QdInv /\ OpenInv
  BY DEF Inv
<1>2. due' \subseteq due /\ running = "loop"
  BY <1>1, CalledStep
<1>3. /\ pending > 0 /\ pending' = pending - 1 /\ ipc_open' = ipc_open
      /\ peer' = [peer EXCEPT ![c] = NewPeer] /\ ipc_list' = [ipc_list EXCEPT ![c] = NewClient]
  BY DEF AcceptClient
<1>4. c \in Fds /\ c \notin Registered
  BY WantedOfSlot DEF AddFd
<1>5. ListInv' /\ Registered' = Registered \cup {c} /\ freed' = freed
  BY <1>1, <1>4, AddFdStep
<1>6. /\ DOMAIN ipc_list' = Slots /\ \A d \in Slots : ToolOk(ipc_list'[d])
      /\ \A d \in Slots : d # c => ipc_list'[d] = ipc_list[d]
      /\ Connected' = Connected \cup {c}
  <2> DEFINE k == NewClient
  <2>1. ipc_list' = [ipc_list EXCEPT ![c] = k] /\ ToolOk(k) /\ k.used
    BY <1>3, NewToolIsOk
  <2>2. DOMAIN ipc_list = Slots /\ \A d \in Slots : ToolOk(ipc_list[d])
    BY <1>1 DEF IpcInv
  <2> HIDE DEF k
  <2> QED BY <2>1, <2>2, ToolChanged
<1>7. IpcInv'
  <2>1. peer' \in [Slots -> Peers]
    BY <1>1, <1>3, NewToolIsOk DEF IpcInv
  <2>2. pending' \in 0..MaxPending
    BY <1>1, <1>3, IpcAssumption DEF IpcInv
  <2> QED BY <1>1, <1>3, <1>6, <2>1, <2>2 DEF IpcInv
<1>8. NetInv'
  BY <1>1 DEF NetInv, netVars
<1>9. QdInv'
  BY <1>1 DEF QdInv
<1>10. OpenNet' = OpenNet /\ net' = net
  BY DEF OpenNet, Clients, netVars
<1>11. OpenInv'
  BY <1>1, <1>2, <1>5, <1>6, <1>10 DEF OpenInv
<1>12. \A x \in due' : Ready(x, (Registered \ freed)', ipc_list', net')
  <2> SUFFICES ASSUME NEW x \in due'
               PROVE  Ready(x, (Registered \cup {c}) \ freed, ipc_list', net)
    BY <1>5, <1>10
  <2>1. Ready(x, Registered \ freed, ipc_list, net)
    BY <1>1, <1>2 DEF DueInv
  <2>2. x.entry \in Registered \ freed
    BY <2>1 DEF Ready
  <2>3. x.entry \in Slots => ipc_list'[x.entry] = ipc_list[x.entry]
    BY <1>4, <1>6, <2>2
  <2> QED BY <2>1, <2>2, <2>3 DEF Ready
<1> QED BY <1>5, <1>7, <1>8, <1>9, <1>11, <1>12, ListDispatch

LEMMA IpcAcceptKeeps ==
    ASSUME Inv, IpcAccept
    PROVE  Inv'
<1>1. Turn("ipc", "read") /\ Called(0) /\ UNCHANGED <<made, daemon, running, netVars, work, qd>>
  BY Zenon DEF IpcAccept
<1>2. CASE AcceptRefused /\ UNCHANGED listVars
  <2>1. pending > 0 /\ pending' = pending - 1 /\ UNCHANGED <<ipc_open, peer, ipc_list>>
    BY <1>2 DEF AcceptRefused
  <2>2. pending \in 0..MaxPending
    BY DEF Inv, IpcInv
  <2>3. pending' \in 0..MaxPending
    BY <2>1, <2>2, IpcAssumption
  <2> QED BY <1>1, <1>2, <2>1, <2>3, QuietDispatch
<1>3. CASE \E c \in {s \in Slots : ~ipc_list[s].used} : AcceptClient(c) /\ AddFd(c)
  BY <1>1, <1>3, AcceptClientKeeps
<1> QED BY <1>2, <1>3, Zenon DEF IpcAccept

(* qnetd_client_net_accept                                                  *)
LEMMA NetAcceptKeeps ==
    ASSUME Inv, NetAccept
    PROVE  Inv'
<1>1. /\ daemon = "qnetd" /\ Turn("server", "read") /\ Called(0)
      /\ UNCHANGED <<ipcVars, daemon, running, net, walk, work, qd>>
  BY Zenon DEF NetAccept
<1>2. CASE UNCHANGED <<listVars, clients>>
  <2>1. pending \in 0..MaxPending
    BY DEF Inv, IpcInv
  <2>2. pending' = pending /\ UNCHANGED <<ipc_open, made, peer, ipc_list, netVars>>
    BY <1>1, <1>2 DEF ipcVars, netVars
  <2> QED BY <1>1, <1>2, <2>1, <2>2, QuietDispatch
<1>3. CASE \E n \in NetClients : n \notin Clients /\ AddFd(n) /\ clients' = Append(clients, n)
  <2>1. PICK n \in NetClients : n \notin Clients /\ AddFd(n) /\ clients' = Append(clients, n)
    BY <1>3
  <2>2. ListInv /\ ControlInv /\ DueInv /\ IpcInv /\ NetInv /\ QdInv /\ OpenInv
    BY DEF Inv
  <2>3. due' \subseteq due /\ running = "loop"
    BY <1>1, <2>2, CalledStep
  <2>4. ListInv' /\ Registered' = Registered \cup {n} /\ freed' = freed
    BY <2>1, <2>2, WantedOfClient, AddFdStep
  <2>5. clients' \in Seq(NetClients) /\ IsInjective(clients') /\ Clients' = Clients \cup {n}
    <3>1. clients \in Seq(NetClients) /\ IsInjective(clients) /\ n \notin Range(clients)
      BY <2>1, <2>2 DEF NetInv, Clients
    <3> DEFINE r == Append(clients, n)
    <3>2. r \in Seq(NetClients) /\ IsInjective(r) /\ Range(r) = Range(clients) \cup {n}
      BY <3>1, AppendRange, NewElementKeepsInjective
    <3>3. clients' = r
      BY <2>1
    <3> HIDE DEF r
    <3> QED BY <3>2, <3>3 DEF Clients
  <2>6. IpcInv' /\ Connected' = Connected /\ ipc_list' = ipc_list
    BY <1>1, <2>2 DEF IpcInv, ipcVars, Connected
  <2>7. NetInv'
    BY <1>1, <2>2, <2>5 DEF NetInv
  <2>8. QdInv'
    BY <1>1, <2>2 DEF QdInv
  <2>9. OpenNet' = OpenNet \cup {n}
    BY <1>1, <2>5 DEF OpenNet
  <2>10. OpenInv'
    BY <1>1, <2>2, <2>3, <2>4, <2>6, <2>9 DEF OpenInv
  <2>11. \A x \in due' : Ready(x, (Registered \ freed)', ipc_list', net')
    <3> SUFFICES ASSUME NEW x \in due'
                 PROVE  Ready(x, (Registered \cup {n}) \ freed, ipc_list, net)
      BY <1>1, <2>4, <2>6
    <3>1. Ready(x, Registered \ freed, ipc_list, net)
      BY <2>2, <2>3 DEF DueInv
    <3> QED BY <3>1 DEF Ready
  <2>12. qd' = qd /\ running' = running
    BY <1>1
  <2> QED BY <1>1, <2>4, <2>6, <2>7, <2>8, <2>10, <2>11, <2>12, ListDispatch
<1> QED BY <1>2, <1>3, Zenon DEF NetAccept

(* The sockets of qdevice are none of its other descriptors.                *)
LEMMA SockIsNoOther ==
    ASSUME daemon = "qdevice", NEW s \in NetSocks
    PROVE  /\ s \in Fds /\ s \notin Range(FixedFds(daemon)) \cup Connected
           /\ s # NoSock /\ s \notin Slots /\ s \notin NetClients
<1>1. s \in Fds /\ s \notin Slots /\ s \notin NetClients
  BY DescriptorAssumption DEF Fds, QdeviceFds
<1>2. s \notin Range(FixedFds(daemon))
  BY QdeviceFixed, DescriptorAssumption
<1>3. s # NoSock
  BY DescriptorAssumption DEF QdeviceFds
<1> QED BY <1>1, <1>2, <1>3 DEF Connected

(* What is still due when the entry of the socket that is being connected   *)
(* is freed in its own callback.                                            *)
LEMMA TryingFreed ==
    ASSUME Inv, daemon = "qdevice", NEW st, Turn(qd.trying, st), NEW res \in {0, -1}, Called(res),
           UNCHANGED running, QdUnchanged, NEW more,
           Registered' = (Registered \ {qd.trying}) \cup more, freed' = freed \cup {qd.trying}
    PROVE  \A x \in due' : /\ Ready(x, (Registered \ freed)', ipc_list', net')
                           /\ x.entry \in Registered \ {qd.trying} /\ x.entry \in Fds
<1>1. ControlInv /\ DueInv
  BY DEF Inv
<1>2. due' \subseteq due /\ (\A y \in due' : y.entry # qd.trying) /\ due \in SUBSET Calls
  BY <1>1, CalledStep
<1>3. ipc_list' = ipc_list /\ net' = net
  BY DEF QdUnchanged, ipcVars, netVars
<1> TAKE x \in due'
<1>4. Ready(x, Registered \ freed, ipc_list, net) /\ x \in Calls
  BY <1>1, <1>2 DEF DueInv
<1>5. x.entry \in Registered \ freed /\ x.entry # qd.trying /\ x.entry \in Fds
  BY <1>2, <1>4 DEF Ready, Calls
<1>6. x.entry \in (Registered \ freed)'
  BY <1>5
<1> DEFINE reg == Registered \ freed
           req == (Registered \ freed)'
<1>7. Ready(x, reg, ipc_list, net) /\ x.entry \in req
  BY <1>4, <1>6
<1> HIDE DEF reg, req
<1>8. Ready(x, req, ipc_list', net')
  BY <1>3, <1>7 DEF Ready
<1> QED BY <1>5, <1>8 DEF req

(* The attempt failed, and the next address is tried or none is left.       *)
LEMMA TryNextKeeps ==
    ASSUME Inv, daemon = "qdevice", ~qd.destroyed, NEW st, Turn(qd.trying, st), Called(0),
           NEW sock \in TryNext,
           IF sock = NoSock THEN DelFd(qd.trying) ELSE ReplaceFd(qd.trying, sock),
           qd' = [qd EXCEPT !.trying = sock, !.destroyed = (sock = NoSock)],
           UNCHANGED running, QdUnchanged
    PROVE  Inv'
<1>1. ListInv /\ ControlInv /\ DueInv /\ IpcInv /\ NetInv /\ QdInv /\ OpenInv
  BY DEF Inv
<1>2. phase = "dispatch" /\ running = "loop"
  BY <1>1, CalledStep
<1>3. UNCHANGED <<ipcVars, daemon, netVars>>
  BY DEF QdUnchanged
<1>4. IpcInv' /\ Connected' = Connected
  BY <1>1, <1>3 DEF IpcInv, ipcVars, Connected
<1>5. NetInv'
  BY <1>1, <1>3 DEF NetInv, netVars
<1>6. qd \in Qds /\ qd.trying \in NetSocks /\ qd.socket = NoSock /\ qd.trying # NoSock
  BY <1>1 DEF QdInv, Qds
<1>7. sock \in NetSocks \cup {NoSock} /\ sock # qd.trying
  BY <1>6 DEF TryNext, FreeSocks
<1>8. /\ qd' \in Qds /\ qd'.trying = sock /\ (qd'.destroyed <=> sock = NoSock)
      /\ qd'.socket = NoSock
  BY <1>6, <1>7 DEF Qds
<1>9. QdInv'
  BY <1>1, <1>2, <1>3, <1>8 DEF QdInv, Qds
<1>10. Registered = Range(FixedFds(daemon)) \cup Connected \cup {qd.trying}
  <2>1. OpenNet = {qd.trying}
    BY <1>6 DEF OpenNet
  <2> QED BY <1>1, <1>2, <2>1 DEF OpenInv
<1>11. qd.trying \notin Range(FixedFds(daemon)) \cup Connected
  BY <1>6, SockIsNoOther
<1>12. CASE sock = NoSock
  <2>1. ListInv' /\ Registered' = Registered \ {qd.trying} /\ freed' = freed \cup {qd.trying}
    BY <1>1, <1>2, <1>12, DelFdStep
  <2>2. OpenNet' = {}
    BY <1>3, <1>8, <1>12 DEF OpenNet
  <2>3. OpenInv'
    BY <1>3, <1>4, <1>10, <1>11, <2>1, <2>2 DEF OpenInv
  <2> DEFINE more == {}
  <2>4. Registered' = (Registered \ {qd.trying}) \cup more
    BY <2>1
  <2> HIDE DEF more
  <2>5. \A x \in due' : Ready(x, (Registered \ freed)', ipc_list', net') /\ x.entry \in Fds
    BY <2>1, <2>4, TryingFreed
  <2>6. NoSock \notin Fds
    BY DescriptorAssumption DEF Fds
  <2>7. \A x \in due' : x.entry # qd'.trying
    BY <1>8, <1>12, <2>5, <2>6
  <2> QED BY <1>4, <1>5, <1>9, <2>1, <2>3, <2>5, <2>7, ListDispatch
<1>13. CASE sock # NoSock
  <2>1. sock \in NetSocks
    BY <1>7, <1>13
  <2>2. sock \in Fds /\ sock \notin Registered
    BY <1>7, <1>10, <2>1, SockIsNoOther
  <2>3. /\ ListInv' /\ Registered' = (Registered \ {qd.trying}) \cup {sock}
        /\ freed' = freed \cup {qd.trying}
    BY <1>1, <1>2, <1>13, <2>2, ReplaceFdStep
  <2>4. OpenNet' = {sock}
    BY <1>3, <1>8, <1>13 DEF OpenNet
  <2>5. OpenInv'
    BY <1>3, <1>4, <1>10, <1>11, <2>3, <2>4 DEF OpenInv
  <2>6. \A x \in due' : /\ Ready(x, (Registered \ freed)', ipc_list', net')
                        /\ x.entry \in Registered \ {qd.trying}
    BY <2>3, TryingFreed
  <2>7. \A x \in due' : x.entry # qd'.trying
    BY <1>8, <2>2, <2>6
  <2> QED BY <1>4, <1>5, <1>9, <2>3, <2>5, <2>6, <2>7, ListDispatch
<1> QED BY <1>12, <1>13

(* Connected: the socket is registered again, with other callbacks.         *)
LEMMA ConnectedKeeps ==
    ASSUME Inv, daemon = "qdevice", ~qd.destroyed, NEW st, Turn(qd.trying, st),
           NEW res \in {0, -1}, Called(res), ReplaceFd(qd.trying, qd.trying), NEW queued \in BOOLEAN,
           qd' = [qd EXCEPT !.socket = qd.trying, !.trying = NoSock, !.destroyed = TRUE,
                            !.queued = queued],
           UNCHANGED running, QdUnchanged
    PROVE  Inv'
<1>1. ListInv /\ ControlInv /\ DueInv /\ IpcInv /\ NetInv /\ QdInv /\ OpenInv
  BY DEF Inv
<1>2. phase = "dispatch" /\ running = "loop"
  BY <1>1, CalledStep
<1>3. UNCHANGED <<ipcVars, daemon, netVars>>
  BY DEF QdUnchanged
<1>4. IpcInv' /\ Connected' = Connected
  BY <1>1, <1>3 DEF IpcInv, ipcVars, Connected
<1>5. NetInv'
  BY <1>1, <1>3 DEF NetInv, netVars
<1>6. qd \in Qds /\ qd.trying \in NetSocks /\ qd.socket = NoSock /\ qd.trying # NoSock
  BY <1>1 DEF QdInv, Qds
<1>7. /\ qd' \in Qds /\ qd'.trying = NoSock /\ qd'.destroyed /\ qd'.socket = qd.trying
  BY <1>6 DEF Qds
<1>8. QdInv'
  BY <1>1, <1>2, <1>3, <1>7 DEF QdInv, Qds
<1>9. Registered = Range(FixedFds(daemon)) \cup Connected \cup {qd.trying}
  <2>1. OpenNet = {qd.trying}
    BY <1>6 DEF OpenNet
  <2> QED BY <1>1, <1>2, <2>1 DEF OpenInv
<1>10. qd.trying \in Fds
  BY <1>6, SockIsNoOther
<1> DEFINE more == {qd.trying}
           t    == qd.trying
<1>11. /\ ListInv' /\ Registered' = (Registered \ {qd.trying}) \cup more
       /\ freed' = freed \cup {qd.trying} /\ qd.trying \in Registered
  <2>1. t \in Fds /\ t \notin Registered \ {t} /\ ReplaceFd(t, t)
    BY <1>10
  <2> HIDE DEF t
  <2>2. /\ ListInv' /\ t \in Registered /\ Registered' = (Registered \ {t}) \cup {t}
        /\ freed' = freed \cup {t}
    BY <1>1, <1>2, <2>1, ReplaceFdStep
  <2> QED BY <2>2 DEF t
<1>12. OpenNet' = {qd.trying}
  BY <1>3, <1>6, <1>7 DEF OpenNet
<1>13. OpenInv'
  BY <1>3, <1>4, <1>9, <1>11, <1>12 DEF OpenInv
<1> HIDE DEF more
<1>14. \A x \in due' : Ready(x, (Registered \ freed)', ipc_list', net') /\ x.entry \in Fds
  BY <1>11, TryingFreed
<1>15. NoSock \notin Fds
  BY DescriptorAssumption DEF Fds
<1>16. \A x \in due' : x.entry # qd'.trying
  BY <1>7, <1>14, <1>15
<1> QED BY <1>4, <1>5, <1>8, <1>11, <1>13, <1>14, <1>16, ListDispatch

LEMMA NonBlockingClientWriteKeeps ==
    ASSUME Inv, NonBlockingClientWrite
    PROVE  Inv'
<1>1. /\ daemon = "qdevice" /\ ~qd.destroyed /\ UNCHANGED <<running, work>> /\ QdUnchanged
      /\ Turn(qd.trying, "write") \/ Turn(qd.trying, "err")
  BY Zenon DEF NonBlockingClientWrite
<1>2. PICK st : Turn(qd.trying, st)
  BY <1>1, Zenon
<1>3. CASE Called(0) /\ UNCHANGED <<listVars, qd>>
  <2>1. pending \in 0..MaxPending
    BY DEF Inv, IpcInv
  <2>2. pending' = pending /\ UNCHANGED <<ipc_open, made, peer, ipc_list, daemon, netVars>>
    BY <1>1 DEF QdUnchanged, ipcVars
  <2> QED BY <1>1, <1>2, <1>3, <2>1, <2>2, QuietDispatch
<1>4. CASE \E sock \in TryNext :
              /\ Called(0)
              /\ IF sock = NoSock THEN DelFd(qd.trying) ELSE ReplaceFd(qd.trying, sock)
              /\ qd' = [qd EXCEPT !.trying = sock, !.destroyed = (sock = NoSock)]
  BY <1>1, <1>2, <1>4, TryNextKeeps
<1>5. CASE \E queued \in BOOLEAN :
              /\ Called(IF queued THEN 0 ELSE -1)
              /\ ReplaceFd(qd.trying, qd.trying)
              /\ qd' = [qd EXCEPT !.socket = qd.trying, !.trying = NoSock, !.destroyed = TRUE,
                                  !.queued = queued]
  <2>1. PICK queued \in BOOLEAN :
              /\ Called(IF queued THEN 0 ELSE -1)
              /\ ReplaceFd(qd.trying, qd.trying)
              /\ qd' = [qd EXCEPT !.socket = qd.trying, !.trying = NoSock, !.destroyed = TRUE,
                                  !.queued = queued]
    BY <1>5
  <2> DEFINE res == IF queued THEN 0 ELSE -1
  <2>2. res \in {0, -1} /\ Called(res)
    BY <2>1
  <2> HIDE DEF res
  <2> QED BY <1>1, <1>2, <2>1, <2>2, ConnectedKeeps
<1> QED BY <1>3, <1>4, <1>5, Zenon DEF NonBlockingClientWrite

-----------------------------------------------------------------------------
(* The steps without a callback that is due                                *)

LEMMA IdleStep ==
    ASSUME due' = {}, phase' \notin {"fill", "poll"},
           ListInv', ControlInv', IpcInv', NetInv', QdInv', OpenInv'
    PROVE  Inv'
<1>1. DueInv'
  BY NothingDue
<1>2. FillInv'
  BY DEF FillInv
<1> QED BY <1>1, <1>2 DEF Inv

(* pr_poll_loop_exec starts.                                                *)
LEMMA ExecStartKeeps ==
    ASSUME Inv, running = "loop", ExecStart, walk' \in Seq(NetClients),
           UNCHANGED <<ipcVars, daemon, running, net, clients, qd>>
    PROVE  Inv'
<1>1. ListInv /\ ControlInv /\ IpcInv /\ NetInv /\ QdInv /\ OpenInv
  BY DEF Inv
<1>2. /\ phase = "out" /\ phase' = "pre" /\ freed' = {}
      /\ UNCHANGED <<fd_list, poll_array, allocated, cursor, due, result>>
  BY DEF ExecStart
<1>3. ControlInv' /\ due' = {}
  BY <1>1, <1>2 DEF ControlInv, Phases
<1>4. ListInv' /\ Registered' = Registered
  BY <1>1, <1>2 DEF ListInv, Registered
<1>5. IpcInv' /\ Connected' = Connected
  BY <1>1 DEF IpcInv, ipcVars, Connected
<1>6. NetInv'
  BY <1>1 DEF NetInv
<1>7. QdInv'
  BY <1>1 DEF QdInv
<1>8. OpenNet' = OpenNet
  BY DEF OpenNet, Clients
<1>9. OpenInv'
  BY <1>1, <1>4, <1>5, <1>8 DEF OpenInv
<1> QED BY <1>2, <1>3, <1>4, <1>5, <1>6, <1>7, <1>9, IdleStep

LEMMA QnetdExecKeeps ==
    ASSUME Inv, QnetdExec
    PROVE  Inv'
<1>1. /\ running = "loop" /\ ExecStart /\ walk' = clients
      /\ UNCHANGED <<ipcVars, daemon, running, net, clients, qd>>
  BY Zenon DEF QnetdExec
<1>2. clients \in Seq(NetClients)
  BY DEF Inv, NetInv
<1> QED BY <1>1, <1>2, ExecStartKeeps

LEMMA QdExecKeeps ==
    ASSUME Inv, QdExec
    PROVE  Inv'
<1>1. running = "loop" /\ ExecStart /\ UNCHANGED <<ipcVars, daemon, running, netVars, qd>>
  BY Zenon DEF QdExec, QdUnchanged
<1>2. walk' \in Seq(NetClients) /\ UNCHANGED <<net, clients>>
  BY <1>1 DEF Inv, NetInv, netVars
<1> QED BY <1>1, <1>2, ExecStartKeeps

(* qnetd_instance_client_disconnect, before the list is walked over.        *)
LEMMA PrePollClientKeeps ==
    ASSUME Inv, PrePollClient
    PROVE  Inv'
<1> DEFINE n == Head(walk)
<1>1. /\ daemon = "qnetd" /\ phase = "pre" /\ walk # <<>> /\ PrePollDisconnect(n)
      /\ walk' = Tail(walk) /\ UNCHANGED <<controlVars, ipcVars, daemon, running, work, qd>>
  BY Zenon DEF PrePollClient
<1>2. ListInv /\ ControlInv /\ IpcInv /\ NetInv /\ QdInv /\ OpenInv
  BY DEF Inv
<1>3. n \in NetClients /\ walk' \in Seq(NetClients)
  BY <1>1, <1>2 DEF NetInv
<1> HIDE DEF n
<1>4. /\ due = {} /\ running = "loop" /\ freed = {}
  BY <1>1, <1>2 DEF ControlInv
<1>5. IpcInv' /\ Connected' = Connected
  BY <1>1, <1>2 DEF IpcInv, ipcVars, Connected
<1>6. QdInv'
  BY <1>1, <1>2 DEF QdInv
<1>7. due' = {} /\ phase' = "pre"
  BY <1>1, <1>4 DEF controlVars
<1>8. CASE ~net[n].scheduled
  <2>1. UNCHANGED <<listVars, net, clients>>
    BY <1>1, <1>8 DEF PrePollDisconnect
  <2>2. NetInv'
    BY <1>1, <1>2, <1>3, <2>1 DEF NetInv
  <2>3. ControlInv'
    BY <1>1, <1>2, <2>1 DEF ControlInv, controlVars, listVars
  <2>4. ListInv' /\ Registered' = Registered
    BY <1>2, <2>1 DEF ListInv, Registered, listVars
  <2>5. OpenNet' = OpenNet
    BY <1>1, <2>1 DEF OpenNet, Clients
  <2>6. OpenInv'
    BY <1>1, <1>2, <1>5, <2>4, <2>5 DEF OpenInv
  <2> QED BY <1>5, <1>6, <1>7, <2>2, <2>3, <2>4, <2>6, IdleStep
<1>9. CASE net[n].scheduled
  <2>1. PICK S : /\ DelFd(n) /\ net' = SendTo([net EXCEPT ![n] = NoNet], S)
                 /\ clients' = Without(clients, n)
    BY <1>1, <1>9, Zenon DEF PrePollDisconnect
  <2>2. /\ ListInv' /\ n \in Registered /\ Registered' = Registered \ {n} /\ freed' = freed
    BY <1>1, <1>2, <2>1, DelFdStep
  <2>3. Registered = Range(FixedFds(daemon)) \cup Connected \cup Clients
    BY <1>1, <1>2, <1>4 DEF OpenInv, OpenNet
  <2>4. n \notin Range(FixedFds(daemon)) \cup Connected
    BY <1>1, <1>3, QnetdFixed, DescriptorAssumption DEF Connected
  <2>5. n \in Clients
    BY <2>2, <2>3, <2>4
  <2>6. clients' \in Seq(NetClients) /\ IsInjective(clients') /\ Clients' = Clients \ {n}
    <3>1. clients \in Seq(NetClients) /\ IsInjective(clients) /\ n \in Range(clients)
      BY <1>2, <2>5 DEF NetInv, Clients
    <3> QED BY <2>1, <3>1, WithoutList DEF Clients
  <2>7. net' \in [NetClients -> [scheduled : BOOLEAN, out : 0..MaxOut]]
    <3> DEFINE s == [net EXCEPT ![n] = NoNet]
    <3>1. NoNet \in [scheduled : BOOLEAN, out : 0..MaxOut]
      BY DaemonAssumption DEF NoNet
    <3>2. s \in [NetClients -> [scheduled : BOOLEAN, out : 0..MaxOut]]
      BY <1>2, <3>1 DEF NetInv
    <3>3. net' = SendTo(s, S)
      BY <2>1
    <3> HIDE DEF s
    <3> QED BY <3>2, <3>3, SendToStep
  <2>8. NetInv'
    BY <1>1, <1>3, <2>6, <2>7 DEF NetInv
  <2>9. ControlInv'
    BY <1>1, <1>2, <2>2 DEF ControlInv, controlVars
  <2>10. OpenNet' = Clients'
    BY <1>1 DEF OpenNet
  <2>11. OpenInv'
    BY <1>1, <1>5, <2>2, <2>3, <2>4, <2>6, <2>10 DEF OpenInv
  <2> QED BY <1>5, <1>6, <1>7, <2>2, <2>8, <2>9, <2>11, IdleStep
<1> QED BY <1>8, <1>9

(* The walk over the list begins.                                           *)
LEMMA WalkBegins ==
    ASSUME NEW list \in Seq(Fds), NEW w, NEW arr, arr = <<>>
    PROVE  1 \in 1..(Len(list) + 1) /\ WalkedTo(1, list, FirstEntry(list), arr, w)
<1>1. Len(list) \in Nat /\ DOMAIN arr = {}
  OBVIOUS
<1>2. \A i \in 1..(1 - 1) : FALSE
  OBVIOUS
<1>3. StandsAt(1, list, FirstEntry(list))
  <2>1. CASE list = <<>>
    <3>1. ~(1 <= Len(list)) /\ FirstEntry(list) = NoEntry
      BY <2>1 DEF FirstEntry
    <3> QED BY <3>1 DEF StandsAt
  <2>2. CASE list # <<>>
    <3>1. 1 <= Len(list) /\ FirstEntry(list) = list[1]
      BY <2>2 DEF FirstEntry
    <3> QED BY <3>1 DEF StandsAt
  <2> QED BY <2>1, <2>2
<1>4. HaveWhatTheyWant(1, list, arr, w)
  BY <1>2 DEF HaveWhatTheyWant
<1>5. NothingElse(1, list, arr, w) /\ PolledOnce(arr)
  BY <1>1 DEF NothingElse, PolledOnce
<1>6. 1 \in 1..(Len(list) + 1)
  BY <1>1
<1> QED BY <1>3, <1>4, <1>5, <1>6 DEF WalkedTo

LEMMA PrePollDoneKeeps ==
    ASSUME Inv, PrePollDone(fd_list),
           UNCHANGED <<listVars, ipcVars, daemon, running, netVars, qd>>
    PROVE  Inv'
<1>1. ListInv /\ ControlInv
  BY DEF Inv
<1>2. /\ IpcInv' /\ NetInv' /\ QdInv' /\ ListInv' /\ OpenInv' /\ fd_list' = fd_list /\ freed' = freed
      /\ running' = running
  BY RestKept DEF listVars
<1>3. /\ phase = "pre" /\ phase' = "fill" /\ cursor' = FirstEntry(fd_list)
      /\ UNCHANGED <<poll_array, allocated, due, result>>
  BY DEF PrePollDone
<1>4. due = {} /\ freed = {} /\ running = "loop" /\ poll_array = <<>>
  BY <1>1, <1>3 DEF ControlInv
<1>5. ControlInv'
  BY <1>1, <1>2, <1>3, <1>4 DEF ControlInv, Phases
<1>6. DueInv'
  BY <1>3, <1>4, NothingDue
<1>7. FillInv'
  <2> DEFINE v == Wanted'
  <2>1. fd_list \in Seq(Fds)
    BY <1>1 DEF ListInv
  <2> HIDE DEF v
  <2>2. 1 \in 1..(Len(fd_list) + 1) /\ WalkedTo(1, fd_list, FirstEntry(fd_list), poll_array, v)
    BY <1>4, <2>1, WalkBegins
  <2>3. \E k \in 1..(Len(fd_list') + 1) : WalkedTo(k, fd_list', cursor', poll_array', v)
    BY <1>2, <1>3, <2>2
  <2> QED BY <1>3, <2>3 DEF FillInv, v
<1> QED BY <1>2, <1>5, <1>6, <1>7 DEF Inv

LEMMA PrePollEndKeeps ==
    ASSUME Inv, PrePollEnd
    PROVE  Inv'
<1>1. PrePollDone(fd_list) /\ UNCHANGED <<listVars, ipcVars, daemon, running, netVars, qd>>
  BY Zenon DEF PrePollEnd
<1> QED BY <1>1, PrePollDoneKeeps

LEMMA QdPrePollKeeps ==
    ASSUME Inv, QdPrePoll
    PROVE  Inv'
<1>1. UNCHANGED <<listVars, ipcVars, daemon, running, netVars, qd>>
  BY Zenon DEF QdPrePoll, QdUnchanged
<1>2. CASE PrePollDone(fd_list)
  BY <1>1, <1>2, PrePollDoneKeeps
<1>3. CASE PrePollFailed
  <2>1. Return(-1) /\ ControlInv
    BY <1>3 DEF PrePollFailed, Inv
  <2>2. ControlInv' /\ due' = {} /\ phase' = "out"
    BY <1>1, <2>1, ReturnStep
  <2>3. IpcInv' /\ NetInv' /\ QdInv' /\ ListInv' /\ OpenInv'
    BY <1>1, RestKept DEF listVars
  <2> QED BY <2>2, <2>3, IdleStep
<1> QED BY <1>2, <1>3, Zenon DEF QdPrePoll

(* timer_list_expire                                                        *)
LEMMA QnetdTimersKeeps ==
    ASSUME Inv, QnetdTimers
    PROVE  Inv'
<1> DEFINE R == [scheduled : BOOLEAN, out : 0..MaxOut]
<1>1. /\ Expired /\ UNCHANGED <<listVars, ipcVars, daemon, running, clients, walk, qd>>
      /\ \E S \in SUBSET Clients :
            net' = [n \in NetClients |->
                       IF n \in S THEN [net[n] EXCEPT !.scheduled = TRUE] ELSE net[n]]
  BY Zenon DEF QnetdTimers
<1>2. ListInv /\ ControlInv /\ IpcInv /\ NetInv /\ QdInv /\ OpenInv
  BY DEF Inv
<1>3. ControlInv' /\ due' = {} /\ phase' = "out"
  BY <1>1, <1>2, ReturnStep DEF Expired
<1>4. net' \in [NetClients -> R]
  <2>1. net \in [NetClients -> R]
    BY <1>2 DEF NetInv
  <2>2. \A n \in NetClients : [net[n] EXCEPT !.scheduled = TRUE] \in R /\ net[n] \in R
    BY <2>1
  <2> HIDE DEF R
  <2> QED BY <1>1, <2>2
<1>5. NetInv'
  BY <1>1, <1>2, <1>4 DEF NetInv
<1>6. IpcInv' /\ Connected' = Connected
  BY <1>1, <1>2 DEF IpcInv, ipcVars, Connected
<1>7. QdInv'
  BY <1>1, <1>2 DEF QdInv
<1>8. ListInv' /\ Registered' = Registered
  BY <1>1, <1>2 DEF ListInv, Registered, listVars
<1>9. OpenNet' = OpenNet
  BY <1>1 DEF OpenNet, Clients
<1>10. OpenInv'
  BY <1>1, <1>2, <1>6, <1>8, <1>9 DEF OpenInv
<1> QED BY <1>3, <1>5, <1>6, <1>7, <1>8, <1>10, IdleStep

LEMMA QdTimersKeeps ==
    ASSUME Inv, QdTimers
    PROVE  Inv'
<1>1. /\ Expired /\ daemon = "qdevice" /\ UNCHANGED <<listVars, running, ipcVars, daemon, netVars>>
      /\ qd' = qd \/ qd' = [qd EXCEPT !.scheduled = TRUE]
  BY Zenon DEF QdTimers, QdUnchanged
<1>2. ListInv /\ ControlInv /\ IpcInv /\ NetInv /\ QdInv /\ OpenInv
  BY DEF Inv
<1>3. ControlInv' /\ due' = {} /\ phase' = "out"
  BY <1>1, <1>2, ReturnStep DEF Expired
<1>4. NetInv'
  BY <1>1, <1>2 DEF NetInv, netVars
<1>5. IpcInv' /\ Connected' = Connected
  BY <1>1, <1>2 DEF IpcInv, ipcVars, Connected
<1>6. qd \in Qds
  BY <1>2 DEF QdInv, Qds
<1>7. /\ qd' \in Qds /\ qd'.trying = qd.trying /\ qd'.destroyed = qd.destroyed
      /\ qd'.socket = qd.socket
  BY <1>1, <1>6 DEF Qds
<1>8. QdInv'
  BY <1>1, <1>2, <1>7, QdSameSockets
<1>9. ListInv' /\ Registered' = Registered
  BY <1>1, <1>2 DEF ListInv, Registered, listVars
<1>10. OpenNet' = OpenNet
  BY <1>1, <1>7 DEF OpenNet, Clients, netVars
<1>11. OpenInv'
  BY <1>1, <1>2, <1>5, <1>9, <1>10 DEF OpenInv
<1> QED BY <1>3, <1>4, <1>5, <1>8, <1>9, <1>11, IdleStep

(* Everything is destroyed.                                                 *)
LEMMA EmptyListIsOk == ASSUME fd_list' = <<>> PROVE ListInv'
<1>1. <<>> \in Seq(Fds) /\ DOMAIN <<>> = {}
  OBVIOUS
<1>2. IsInjective(<<>>)
  BY <1>1 DEF IsInjective
<1> QED BY <1>1, <1>2 DEF ListInv

LEMMA IpcDestroyed ==
    ASSUME IpcInv, IpcDestroy, UNCHANGED made
    PROVE  IpcInv'
<1>1. ipc_open' = FALSE /\ pending' = 0
  BY DEF IpcDestroy, IpcClose
<1>2. peer' = [c \in Slots |-> NoPeer] /\ ipc_list' = [c \in Slots |-> NoClient]
  BY DEF IpcDestroy
<1>3. peer' \in [Slots -> Peers] /\ DOMAIN ipc_list' = Slots /\ \A c \in Slots : ToolOk(ipc_list'[c])
  BY <1>2, FreeToolIsOk
<1>4. pending' \in 0..MaxPending
  BY <1>1, IpcAssumption
<1> QED BY <1>1, <1>3, <1>4 DEF IpcInv

LEMMA QnetdEndKeeps ==
    ASSUME Inv, QnetdEnd
    PROVE  Inv'
<1>1. /\ daemon = "qnetd" /\ phase = "out" /\ running' = "ended" /\ IpcDestroy /\ fd_list' = <<>>
      /\ net' = [n \in NetClients |-> NoNet] /\ clients' = <<>>
      /\ UNCHANGED <<freed, controlVars, made, daemon, walk, work, qd>>
  BY Zenon DEF QnetdEnd
<1>2. ControlInv /\ IpcInv /\ NetInv /\ QdInv
  BY DEF Inv
<1>3. ListInv'
  BY <1>1, EmptyListIsOk
<1>4. IpcInv'
  BY <1>1, <1>2, IpcDestroyed
<1>5. NetInv'
  <2>1. net' \in [NetClients -> [scheduled : BOOLEAN, out : 0..MaxOut]]
    BY <1>1, DaemonAssumption DEF NoNet
  <2>2. clients' \in Seq(NetClients) /\ DOMAIN clients' = {}
    BY <1>1
  <2>3. IsInjective(clients')
    BY <2>2 DEF IsInjective
  <2> QED BY <1>1, <1>2, <2>1, <2>2, <2>3 DEF NetInv
<1>6. QdInv'
  BY <1>1, <1>2 DEF QdInv
<1>7. ControlInv' /\ due' = {} /\ phase' = "out"
  BY <1>1, <1>2 DEF ControlInv, controlVars
<1>8. OpenInv'
  BY <1>1 DEF OpenInv
<1> QED BY <1>3, <1>4, <1>5, <1>6, <1>7, <1>8, IdleStep

LEMMA QdDestroyKeeps ==
    ASSUME Inv, QdDestroy
    PROVE  Inv'
<1>1. /\ daemon = "qdevice" /\ running = "destroy" /\ running' = "ended" /\ IpcDestroy
      /\ fd_list' = <<>> /\ UNCHANGED <<freed, controlVars, made, daemon, netVars, work, qd>>
  BY Zenon DEF QdDestroy
<1>2. ControlInv /\ IpcInv /\ NetInv /\ QdInv
  BY DEF Inv
<1>3. ListInv'
  BY <1>1, EmptyListIsOk
<1>4. IpcInv'
  BY <1>1, <1>2, IpcDestroyed
<1>5. NetInv'
  BY <1>1, <1>2 DEF NetInv, netVars
<1>6. QdInv'
  BY <1>1, <1>2 DEF QdInv
<1>7. ControlInv' /\ due' = {} /\ phase' = "out"
  BY <1>1, <1>2 DEF ControlInv, controlVars
<1>8. OpenInv'
  BY <1>1 DEF OpenInv
<1> QED BY <1>3, <1>4, <1>5, <1>6, <1>7, <1>8, IdleStep

(* qdevice_model_net_pre_poll_loop                                          *)
LEMMA QdPrePollLoopKeeps ==
    ASSUME Inv, QdPrePollLoop
    PROVE  Inv'
<1>1. /\ daemon = "qdevice" /\ running = "connect" /\ running' = "loop" /\ result' = 0
      /\ UNCHANGED <<poll_array, allocated, phase, cursor, due, ipcVars, daemon, netVars>>
  BY Zenon DEF QdPrePollLoop, QdUnchanged
<1>2. PICK sock \in TryNext :
          /\ qd' = [qd EXCEPT !.trying = sock,
                              !.destroyed = (sock = NoSock), !.socket = NoSock]
          /\ IF sock = NoSock THEN UNCHANGED listVars ELSE AddFd(sock)
  BY Zenon DEF QdPrePollLoop
<1>3. ListInv /\ ControlInv /\ IpcInv /\ NetInv /\ QdInv /\ OpenInv
  BY DEF Inv
<1>4. phase = "out" /\ due = {}
  BY <1>1, <1>3 DEF ControlInv
<1>5. qd \in Qds /\ qd.destroyed /\ qd.socket = NoSock
  BY <1>1, <1>3 DEF QdInv, Qds
<1>6. sock \in NetSocks \cup {NoSock}
  BY <1>2 DEF TryNext, FreeSocks
<1>7. /\ qd' \in Qds /\ qd'.trying = sock /\ (qd'.destroyed <=> sock = NoSock)
      /\ qd'.socket = NoSock
  BY <1>2, <1>5, <1>6 DEF Qds
<1>8. QdInv'
  BY <1>1, <1>3, <1>7 DEF QdInv, Qds
<1>9. NetInv'
  BY <1>1, <1>3 DEF NetInv, netVars
<1>10. IpcInv' /\ Connected' = Connected
  BY <1>1, <1>3 DEF IpcInv, ipcVars, Connected
<1>11. Registered = Range(FixedFds(daemon)) \cup Connected
  <2>1. OpenNet = {}
    BY <1>1, <1>5 DEF OpenNet
  <2> QED BY <1>1, <1>3, <2>1 DEF OpenInv
<1>12. /\ ListInv' /\ freed' = freed
       /\ Registered' = Registered \cup OpenNet'
  <2>1. CASE sock = NoSock
    <3>1. fd_list' = fd_list /\ freed' = freed
      BY <1>2, <2>1 DEF listVars
    <3>2. OpenNet' = {}
      BY <1>1, <1>7, <2>1 DEF OpenNet
    <3> QED BY <1>3, <3>1, <3>2 DEF ListInv, Registered
  <2>2. CASE sock # NoSock
    <3>1. sock \in Fds
      BY <1>1, <1>6, <2>2, SockIsNoOther
    <3>2. ListInv' /\ Registered' = Registered \cup {sock} /\ freed' = freed
      BY <1>2, <1>3, <2>2, <3>1, AddFdStep
    <3>3. OpenNet' = {sock}
      BY <1>1, <1>7, <2>2 DEF OpenNet
    <3> QED BY <3>2, <3>3
  <2> QED BY <2>1, <2>2
<1>13. OpenInv'
  BY <1>1, <1>10, <1>11, <1>12 DEF OpenInv
<1>14. ControlInv' /\ due' = {}
  BY <1>1, <1>3, <1>4, <1>12 DEF ControlInv
<1> QED BY <1>1, <1>4, <1>8, <1>9, <1>10, <1>12, <1>13, <1>14, IdleStep

(* qdevice_model_net_post_poll_loop: no socket is left in the loop.         *)
LEMMA QdPostPollLoopKeeps ==
    ASSUME Inv, QdPostPollLoop
    PROVE  Inv'
<1>1. /\ daemon = "qdevice" /\ running = "loop" /\ phase = "out" /\ DelFromMainPollLoop
      /\ qd' = [NewQd EXCEPT !.sync = qd.sync, !.heurcmd = qd.heurcmd, !.closed = qd.closed]
      /\ running' \in {"destroy", "connect"}
      /\ UNCHANGED <<controlVars, ipcVars, daemon, netVars>>
  <2>1. running' = "destroy" \/ running' = "connect"
    BY Zenon DEF QdPostPollLoop
  <2> QED BY <2>1, Zenon DEF QdPostPollLoop, QdUnchanged
<1>2. ListInv /\ ControlInv /\ IpcInv /\ NetInv /\ QdInv /\ OpenInv
  BY DEF Inv
<1>3. qd \in Qds
  BY <1>2 DEF QdInv, Qds
<1>4. qd' \in Qds /\ qd'.trying = NoSock /\ qd'.destroyed /\ qd'.socket = NoSock
  BY <1>1, <1>3 DEF Qds, NewQd
<1>5. QdInv'
  BY <1>1, <1>2, <1>4 DEF QdInv, Qds
<1>6. NetInv'
  BY <1>1, <1>2 DEF NetInv, netVars
<1>7. IpcInv' /\ Connected' = Connected
  BY <1>1, <1>2 DEF IpcInv, ipcVars, Connected
<1>8. OpenNet' = {}
  BY <1>1, <1>4 DEF OpenNet
<1>9. Registered = Range(FixedFds(daemon)) \cup Connected \cup OpenNet
  BY <1>1, <1>2 DEF OpenInv
<1>10. OpenNet \cap (Range(FixedFds(daemon)) \cup Connected) = {}
  <2>1. OpenNet \subseteq NetSocks
    BY <1>1, <1>2, <1>3 DEF OpenNet, QdInv, Qds
  <2> QED BY <1>1, <2>1, SockIsNoOther
<1>11. ListInv' /\ freed' = freed /\ Registered' = Registered \ OpenNet
  <2>1. CASE ~qd.destroyed
    <3>1. DelFd(qd.trying) /\ OpenNet = {qd.trying}
      BY <1>1, <1>2, <2>1 DEF DelFromMainPollLoop, OpenNet, QdInv
    <3> QED BY <1>1, <1>2, <3>1, DelFdStep
  <2>2. CASE qd.destroyed /\ qd.socket # NoSock
    <3>1. DelFd(qd.socket) /\ OpenNet = {qd.socket}
      BY <1>1, <2>2 DEF DelFromMainPollLoop, OpenNet
    <3> QED BY <1>1, <1>2, <3>1, DelFdStep
  <2>3. CASE qd.destroyed /\ qd.socket = NoSock
    <3>1. UNCHANGED listVars /\ OpenNet = {}
      BY <1>1, <2>3 DEF DelFromMainPollLoop, OpenNet
    <3> QED BY <1>2, <3>1 DEF listVars, ListInv, Registered
  <2> QED BY <2>1, <2>2, <2>3
<1>12. OpenInv'
  BY <1>1, <1>7, <1>8, <1>9, <1>10, <1>11 DEF OpenInv
<1>13. ControlInv' /\ due' = {} /\ phase' = "out"
  BY <1>1, <1>2, <1>11 DEF ControlInv, controlVars
<1> QED BY <1>5, <1>6, <1>7, <1>11, <1>12, <1>13, IdleStep

LEMMA QdPollFailedKeeps ==
    ASSUME Inv, QdPollFailed
    PROVE  Inv'
<1>1. /\ daemon = "qdevice" /\ phase = "out" /\ running' = "destroy" /\ running = "loop"
      /\ UNCHANGED <<loopVars, ipcVars, daemon, netVars, qd>>
  BY Zenon DEF QdPollFailed, QdUnchanged
<1>2. ListInv /\ ControlInv /\ IpcInv /\ NetInv /\ QdInv /\ OpenInv
  BY DEF Inv
<1>3. ListInv' /\ Registered' = Registered /\ freed' = freed
  BY <1>1, <1>2 DEF ListInv, Registered, loopVars, listVars
<1>4. ControlInv' /\ due' = {} /\ phase' = "out"
  BY <1>1, <1>2, <1>3 DEF ControlInv, loopVars, controlVars
<1>5. IpcInv' /\ Connected' = Connected
  BY <1>1, <1>2 DEF IpcInv, ipcVars, Connected
<1>6. NetInv'
  BY <1>1, <1>2 DEF NetInv, netVars
<1>7. QdInv'
  BY <1>1, <1>2 DEF QdInv
<1>8. OpenNet' = OpenNet
  BY <1>1 DEF OpenNet, Clients, netVars
<1>9. OpenInv'
  BY <1>1, <1>2, <1>3, <1>5, <1>8 DEF OpenInv
<1> QED BY <1>3, <1>4, <1>5, <1>6, <1>7, <1>9, IdleStep

-----------------------------------------------------------------------------
(* The environment                                                         *)

LEMMA EnvironmentStep ==
    ASSUME Inv, IpcInv', UNCHANGED <<loopVars, ipc_list, daemon, running, netVars, qd>>
    PROVE  Inv'
<1>1. ListInv /\ ControlInv /\ FillInv /\ DueInv /\ NetInv /\ QdInv /\ OpenInv
  BY DEF Inv
<1>2. /\ UNCHANGED <<fd_list, freed, poll_array, allocated, phase, cursor, due, result>>
      /\ UNCHANGED <<net, clients, walk>>
  BY DEF loopVars, listVars, controlVars, netVars
<1>3. ListInv' /\ Registered' = Registered
  BY <1>1, <1>2 DEF ListInv, Registered
<1>4. ControlInv'
  BY <1>1, <1>2 DEF ControlInv
<1>5. Wanted' = Wanted
  BY <1>2, WantedKept
<1>6. FillInv'
  BY <1>1, <1>2, <1>5 DEF FillInv
<1>7. DueInv'
  <2>1. due' \subseteq due
    BY <1>2
  <2>2. \A x \in due' : Ready(x, (Registered \ freed)', ipc_list', net')
    BY <1>1, <1>2, <1>3 DEF DueInv
  <2> QED BY <1>1, <2>1, <2>2, DueKept
<1>8. NetInv'
  BY <1>1, <1>2 DEF NetInv
<1>9. QdInv'
  BY <1>1 DEF QdInv
<1>10. OpenNet' = OpenNet /\ Connected' = Connected
  BY <1>2 DEF OpenNet, Clients, Connected
<1>11. OpenInv'
  BY <1>1, <1>3, <1>10 DEF OpenInv
<1> QED BY <1>3, <1>4, <1>6, <1>7, <1>8, <1>9, <1>11 DEF Inv

LEMMA SignalKeeps ==
    ASSUME Inv, Signal
    PROVE  Inv'
<1>1. /\ ipc_open' = FALSE /\ pending' = 0
      /\ UNCHANGED <<loopVars, made, peer, ipc_list, daemon, running, netVars, qd>>
  BY Zenon DEF Signal, IpcClose
<1>2. 0 \in 0..MaxPending
  BY IpcAssumption
<1>3. IpcInv'
  BY <1>1, <1>2 DEF Inv, IpcInv
<1> QED BY <1>1, <1>3, EnvironmentStep

LEMMA ToolsKeeps ==
    ASSUME Inv, Tools
    PROVE  Inv'
<1>1. UNCHANGED <<loopVars, daemon, running, netVars, qd>>
  BY Zenon DEF Tools
<1>2. IpcInv
  BY DEF Inv
<1>3. CASE ToolConnects
  <2>1. /\ pending < MaxPending /\ made < MaxTools /\ pending' = pending + 1 /\ made' = made + 1
        /\ UNCHANGED <<ipc_open, peer, ipc_list>>
    BY <1>3 DEF ToolConnects
  <2>2. pending \in 0..MaxPending /\ made \in 0..MaxTools /\ MaxPending \in Nat /\ MaxTools \in Nat
    BY <1>2, IpcAssumption DEF IpcInv
  <2>3. pending' \in 0..MaxPending /\ made' \in 0..MaxTools
    BY <2>1, <2>2
  <2>4. IpcInv'
    BY <1>2, <2>1, <2>3 DEF IpcInv
  <2> QED BY <1>1, <2>1, <2>4, EnvironmentStep
<1>4. ASSUME NEW c \in Slots, NEW b \in {"part"} \cup Commands, ToolSends(c, b)
      PROVE  Inv'
  <2> DEFINE s == b \in Commands
  <2>1. /\ peer' = [peer EXCEPT ![c].unread = b, ![c].sent = s]
        /\ UNCHANGED <<ipc_open, pending, made, ipc_list>>
    BY <1>4 DEF ToolSends
  <2>2. s \in BOOLEAN /\ b \in {"none", "part"} \cup Commands
    OBVIOUS
  <2> HIDE DEF s
  <2>3. peer' \in [Slots -> Peers]
    BY <1>2, <2>1, <2>2, ZenonT(60) DEF IpcInv, Peers
  <2>4. IpcInv'
    BY <1>2, <2>1, <2>3 DEF IpcInv
  <2> QED BY <1>1, <2>1, <2>4, EnvironmentStep
<1>5. ASSUME NEW c \in Slots, ToolCloses(c)
      PROVE  Inv'
  <2>1. peer' = [peer EXCEPT ![c].there = FALSE] /\ UNCHANGED <<ipc_open, pending, made, ipc_list>>
    BY <1>5 DEF ToolCloses
  <2>2. peer' \in [Slots -> Peers]
    BY <1>2, <2>1 DEF IpcInv, Peers
  <2>3. IpcInv'
    BY <1>2, <2>1, <2>2 DEF IpcInv
  <2> QED BY <1>1, <2>1, <2>3, EnvironmentStep
<1> QED BY <1>3, <1>4, <1>5, Zenon DEF Tools

-----------------------------------------------------------------------------
(* The invariant                                                           *)

LEMMA InitialList ==
    ASSUME daemon \in Daemons, fd_list = FixedFds(daemon)
    PROVE  ListInv
<1>1. daemon = "qnetd" \/ daemon = "qdevice"
  BY DaemonAssumption
<1>2. CASE daemon = "qnetd"
  <2> DEFINE q == <<"ipc", "server">>
  <2>1. fd_list = q
    BY <1>2 DEF FixedFds
  <2>2. "ipc" \in Fds /\ "server" \in Fds
    BY DEF Fds, QnetdFds
  <2>3. q \in Seq(Fds) /\ DOMAIN q = {1, 2} /\ q[1] = "ipc" /\ q[2] = "server"
    BY <2>2
  <2> HIDE DEF q
  <2>4. IsInjective(q)
    BY <2>3 DEF IsInjective
  <2> QED BY <2>1, <2>3, <2>4 DEF ListInv
<1>3. CASE daemon = "qdevice"
  <2> DEFINE q == <<"ipc", "heurrecv", "heursend", "votequorum", "cmap">>
  <2>1. fd_list = q
    BY <1>3 DEF FixedFds
  <2>2. {"ipc", "heurrecv", "heursend", "votequorum", "cmap"} \subseteq Fds
    BY DEF Fds, QdeviceFds
  <2>3. q \in Seq(Fds) /\ DOMAIN q = {1, 2, 3, 4, 5}
    BY <2>2
  <2>4. q[1] = "ipc" /\ q[2] = "heurrecv" /\ q[3] = "heursend" /\ q[4] = "votequorum" /\ q[5] = "cmap"
    OBVIOUS
  <2> HIDE DEF q
  <2>5. IsInjective(q)
    BY <2>3, <2>4 DEF IsInjective
  <2> QED BY <2>1, <2>3, <2>5 DEF ListInv
<1> QED BY <1>1, <1>2, <1>3

LEMMA InitInv == Init => Inv
<1> SUFFICES ASSUME Init PROVE Inv
  OBVIOUS
<1>1. /\ daemon \in Daemons /\ fd_list = FixedFds(daemon) /\ freed = {} /\ poll_array = <<>>
      /\ allocated = 0 /\ phase = "out" /\ due = {} /\ result = 0
      /\ running = (IF daemon = "qnetd" THEN "loop" ELSE "connect")
  BY DEF Init, LoopInit
<1>2. /\ ipc_open = TRUE /\ pending = 0 /\ made = 0 /\ peer = [c \in Slots |-> NoPeer]
      /\ ipc_list = [c \in Slots |-> NoClient]
  BY DEF Init, IpcInit
<1>3. net = [n \in NetClients |-> NoNet] /\ clients = <<>> /\ walk = <<>> /\ qd = NewQd
  BY DEF Init
<1>4. daemon = "qnetd" \/ daemon = "qdevice"
  BY <1>1, DaemonAssumption
<1>5. ListInv
  BY <1>1, InitialList
<1>6. ControlInv
  <2>1. <<>> \in Seq(Items) /\ Len(<<>>) = 0
    OBVIOUS
  <2> QED BY <1>1, <2>1 DEF ControlInv, Phases
<1>7. FillInv
  BY <1>1 DEF FillInv
<1>8. DueInv
  BY <1>1 DEF DueInv, OncePerEntry
<1>9. IpcInv
  <2>1. 0 \in 0..MaxPending /\ 0 \in 0..MaxTools
    BY IpcAssumption
  <2>2. peer \in [Slots -> Peers] /\ DOMAIN ipc_list = Slots /\ \A c \in Slots : ToolOk(ipc_list[c])
    BY <1>2, FreeToolIsOk
  <2> QED BY <1>2, <2>1, <2>2 DEF IpcInv
<1>10. NetInv
  <2>1. net \in [NetClients -> [scheduled : BOOLEAN, out : 0..MaxOut]]
    BY <1>3, DaemonAssumption DEF NoNet
  <2>2. clients \in Seq(NetClients) /\ walk \in Seq(NetClients) /\ DOMAIN clients = {}
    BY <1>3
  <2>3. IsInjective(clients)
    BY <2>2 DEF IsInjective
  <2> QED BY <1>3, <2>1, <2>2, <2>3 DEF NetInv
<1>11. QdInv
  BY <1>1, <1>3, <1>4 DEF QdInv, NewQd
<1>12. OpenInv
  <2>1. Connected = {}
    BY <1>2, FreeToolIsOk DEF Connected
  <2>2. OpenNet = {}
    BY <1>3 DEF OpenNet, Clients, Range, NewQd
  <2> QED BY <1>1, <2>1, <2>2 DEF OpenInv, Registered
<1> QED BY <1>5, <1>6, <1>7, <1>8, <1>9, <1>10, <1>11, <1>12 DEF Inv

LEMMA QnetdStepKeeps ==
    ASSUME Inv, QnetdStep
    PROVE  Inv'
<1>1. CASE ServerSocketEvents \/ ServerSocketErr \/ NetAccept
  BY <1>1, ServerSocketEventsKeeps, ServerSocketErrKeeps, NetAcceptKeeps
<1>2. CASE QnetdExec \/ PrePollClient \/ PrePollEnd \/ QnetdTimers \/ QnetdEnd
  BY <1>2, QnetdExecKeeps, PrePollClientKeeps, PrePollEndKeeps, QnetdTimersKeeps, QnetdEndKeeps
<1>3. ASSUME NEW n \in NetClients,
             NetSocketEvents(n) \/ NetSocketRead(n) \/ NetSocketWrite(n) \/ NetSocketErr(n)
      PROVE  Inv'
  BY <1>3, NetSocketEventsKeeps, NetSocketReadKeeps, NetSocketWriteKeeps, NetSocketErrKeeps
<1>4. ASSUME NEW c \in Slots, QnetdIpcIoRead(c)
      PROVE  Inv'
  BY <1>4, QnetdIpcIoReadKeeps
<1> QED BY <1>1, <1>2, <1>3, <1>4, Zenon DEF QnetdStep

LEMMA QdeviceStepKeeps ==
    ASSUME Inv, QdeviceStep
    PROVE  Inv'
<1>1. CASE QdPrePollLoop \/ QdExec \/ QdPrePoll \/ QdSetEvents
  BY <1>1, QdPrePollLoopKeeps, QdExecKeeps, QdPrePollKeeps, QdSetEventsKeeps
<1>2. CASE QdHeuristics \/ QdCorosync \/ NonBlockingClientWrite \/ QdSocket
  BY <1>2, QdHeuristicsKeeps, QdCorosyncKeeps, NonBlockingClientWriteKeeps, QdSocketKeeps
<1>3. CASE QdTimers \/ QdPostPollLoop \/ QdPollFailed \/ QdDestroy
  BY <1>3, QdTimersKeeps, QdPostPollLoopKeeps, QdPollFailedKeeps, QdDestroyKeeps
<1>4. ASSUME NEW c \in Slots, QdeviceIpcIoRead(c)
      PROVE  Inv'
  BY <1>4, QdeviceIpcIoReadKeeps
<1> QED BY <1>1, <1>2, <1>3, <1>4, Zenon DEF QdeviceStep

LEMMA StutterKeeps ==
    ASSUME Inv, UNCHANGED vars
    PROVE  Inv'
<1>1. UNCHANGED <<loopVars, ipcVars, daemon, running, netVars, qd>>
  BY DEF vars
<1>2. UNCHANGED ipc_list
  BY <1>1 DEF ipcVars
<1>3. IpcInv'
  BY <1>1 DEF Inv, IpcInv, ipcVars
<1> QED BY <1>1, <1>2, <1>3, EnvironmentStep

LEMMA NextInv == Inv /\ [Next]_vars => Inv'
<1> SUFFICES ASSUME Inv, [Next]_vars PROVE Inv'
  OBVIOUS
<1>1. CASE IpcSocketEvents \/ IpcAccept \/ IpcAcceptFails \/ IpcSocketErr
  BY <1>1, IpcSocketEventsKeeps, IpcAcceptKeeps, IpcAcceptFailsKeeps, IpcSocketErrKeeps
<1>2. ASSUME NEW c \in Slots, ClientSocketEvents(c) \/ ClientSocketWrite(c) \/ ClientSocketErr(c)
      PROVE  Inv'
  BY <1>2, ClientSocketEventsKeeps, ClientSocketWriteKeeps, ClientSocketErrKeeps
<1>3. CASE PollReturns \/ LoopStep
  BY <1>3, PollReturnsKeeps, LoopStepKeeps
<1>4. CASE QnetdStep \/ QdeviceStep
  BY <1>4, QnetdStepKeeps, QdeviceStepKeeps
<1>5. CASE Signal \/ Tools
  BY <1>5, SignalKeeps, ToolsKeeps
<1>6. CASE Ended \/ UNCHANGED vars
  BY <1>6, StutterKeeps DEF Ended
<1> QED BY <1>1, <1>2, <1>3, <1>4, <1>5, <1>6, Zenon DEF Next, DaemonStep, Environment

-----------------------------------------------------------------------------
(* What it says                                                            *)

LEMMA InvUsesNoFreedEntry == Inv => NoFreedEntryIsUsed
<1> SUFFICES ASSUME Inv PROVE NoFreedEntryIsUsed
  OBVIOUS
<1>1. ASSUME phase = "fill" PROVE cursor \in Registered \cup {NoEntry}
  <2>1. PICK k \in 1..(Len(fd_list) + 1) : WalkedTo(k, fd_list, cursor, poll_array, Wanted)
    BY <1>1 DEF Inv, FillInv
  <2>2. cursor = IF k <= Len(fd_list) THEN fd_list[k] ELSE NoEntry
    BY <2>1, Zenon DEF WalkedTo, StandsAt
  <2>3. fd_list \in Seq(Fds)
    BY DEF Inv, ListInv
  <2>4. k <= Len(fd_list) => fd_list[k] \in Registered
    BY <2>3 DEF Registered, Range
  <2> QED BY <2>2, <2>4
<1>2. \A x \in due : x.entry \in Registered \ freed
  BY DEF Inv, DueInv, Ready
<1> QED BY <1>1, <1>2 DEF NoFreedEntryIsUsed

LEMMA InvHasOpenDescriptors == Inv => LoopHasOpenDescriptors
<1> SUFFICES ASSUME Inv PROVE LoopHasOpenDescriptors
  OBVIOUS
<1>1. ListInv /\ ControlInv /\ IpcInv /\ NetInv /\ QdInv /\ OpenInv
  BY DEF Inv
<1>2. LoopTypeOK
  <2>1. \A i \in DOMAIN poll_array : poll_array[i].events \subseteq Events
    <3>1. poll_array \in Seq(Items)
      BY <1>1 DEF ControlInv
    <3>2. \A i \in DOMAIN poll_array : poll_array[i] \in Items
      BY <3>1
    <3> QED BY <3>2 DEF Items
  <2>2. \A x \in due : x.stage \in Stages
    BY <1>1 DEF ControlInv, Calls
  <2> QED BY <1>1, <2>1, <2>2 DEF LoopTypeOK, ListInv, ControlInv
<1>3. IpcTypeOK
  <2>1. \A c \in Slots : peer[c].unread \in {"none", "part"} \cup Commands
    BY <1>1 DEF IpcInv, Peers
  <2>2. \A c \in Slots : ipc_list[c].left \in 0..Pieces
    BY <1>1 DEF IpcInv, ToolOk
  <2> QED BY <1>1, <2>1, <2>2 DEF IpcTypeOK, IpcInv
<1>4. TypeOK
  <2>1. \A n \in NetClients : net[n].out \in 0..MaxOut
    BY <1>1 DEF NetInv
  <2>2. IsInjective(clients) /\ Range(clients) \subseteq NetClients
    BY <1>1 DEF NetInv, Range
  <2>3. qd.trying \in NetSocks \cup {NoSock} /\ qd.socket \in NetSocks \cup {NoSock} /\ daemon \in Daemons
    BY <1>1 DEF QdInv
  <2>4. running \in {"connect", "loop", "destroy", "ended"}
    BY <1>1 DEF ControlInv
  <2> QED BY <1>2, <1>3, <2>1, <2>2, <2>3, <2>4 DEF TypeOK
<1> QED BY <1>1, <1>4 DEF LoopHasOpenDescriptors, OpenInv, OpenNet

(* In PR_Poll every descriptor of the loop has what it wants.               *)
LEMMA WantedIsPolled ==
    ASSUME Inv, phase = "poll", NEW fd \in Registered, NEW e
    PROVE  Polled(fd, e) <=> e \in Wanted[fd]
<1>1. ListInv /\ FillInv
  BY DEF Inv
<1>2. PICK k \in 1..(Len(fd_list) + 1) : WalkedTo(k, fd_list, NoEntry, poll_array, Wanted)
  BY <1>1 DEF FillInv
<1>3. fd_list \in Seq(Fds) /\ NoEntry \notin Fds
  BY <1>1, DescriptorAssumption DEF ListInv, Fds
<1>4. NoEntry = IF k <= Len(fd_list) THEN fd_list[k] ELSE NoEntry
  BY <1>2, Zenon DEF WalkedTo, StandsAt
<1>5. ~(k <= Len(fd_list))
  BY <1>3, <1>4
<1>6. PICK i \in 1..Len(fd_list) : fd_list[i] = fd
  BY <1>3 DEF Registered, Range
<1>7. i \in 1..(k - 1)
  BY <1>3, <1>5
<1>8. \A j \in DOMAIN poll_array : poll_array[j].events = Wanted[poll_array[j].entry]
  BY <1>1, <1>2, PolledIsRegistered
<1>9. ASSUME e \in Wanted[fd] PROVE Polled(fd, e)
  <2>1. PICK j \in DOMAIN poll_array : poll_array[j].entry = fd_list[i]
    BY <1>2, <1>6, <1>7, <1>9 DEF WalkedTo, HaveWhatTheyWant
  <2> QED BY <1>6, <1>8, <1>9, <2>1 DEF Polled
<1>10. ASSUME Polled(fd, e) PROVE e \in Wanted[fd]
  BY <1>8, <1>10 DEF Polled
<1> QED BY <1>9, <1>10

LEMMA InvPollsWhatIsQueued == Inv => QueuedIsPolled
<1> SUFFICES ASSUME Inv, phase = "poll" PROVE QueuedIsPolled
  BY DEF QueuedIsPolled
<1>1. ControlInv /\ IpcInv /\ NetInv /\ QdInv /\ OpenInv
  BY DEF Inv
<1>2. Registered = Range(FixedFds(daemon)) \cup Connected \cup OpenNet
  BY <1>1 DEF ControlInv, OpenInv
<1>3. daemon = "qnetd" \/ daemon = "qdevice"
  BY <1>1, DaemonAssumption DEF QdInv
<1>4. ASSUME NEW n \in Clients, net[n].out > 0, ~net[n].scheduled PROVE Polled(n, "out")
  <2>1. n \in NetClients /\ clients # <<>>
    BY <1>1 DEF Clients, NetInv, Range
  <2>2. daemon = "qnetd"
    BY <1>1, <1>3, <2>1 DEF NetInv
  <2>3. n \in Registered
    BY <1>2, <2>2 DEF OpenNet
  <2>4. "out" \in Wanted[n]
    BY <1>4, <2>1, WantedOfClient
  <2> QED BY <2>3, <2>4, WantedIsPolled
<1>5. ASSUME NEW c \in Connected
      PROVE  /\ ipc_list[c].writing /\ ~ipc_list[c].scheduled => Polled(c, "out")
             /\ ipc_list[c].scheduled \/ (Polled(c, "in") # Polled(c, "out"))
  <2>1. c \in Slots /\ c \in Registered /\ ipc_list[c].used
    BY <1>2 DEF Connected
  <2> DEFINE k == ipc_list[c]
  <2>2. /\ k.reading \in BOOLEAN /\ k.writing \in BOOLEAN /\ ~(k.reading /\ k.writing)
        /\ ~k.scheduled => k.reading \/ k.writing
    BY <1>1, <2>1 DEF IpcInv, ToolOk
  <2>3. ASSUME ~k.scheduled
        PROVE  ("in" \in Wanted[c] <=> k.reading) /\ ("out" \in Wanted[c] <=> k.writing)
    <3>1. Wanted[c] = ClientEvents(c)
      BY <2>1, <2>3, WantedOfSlot
    <3> QED BY <3>1 DEF ClientEvents
  <2>4. (Polled(c, "in") <=> "in" \in Wanted[c]) /\ (Polled(c, "out") <=> "out" \in Wanted[c])
    BY <2>1, WantedIsPolled
  <2> QED BY <2>2, <2>3, <2>4
<1>6. ASSUME qd.queued, qd.socket # NoSock PROVE Polled(qd.socket, "out")
  <2>1. daemon = "qdevice"
    BY <1>1, <1>3, <1>6 DEF QdInv, NewQd
  <2>2. qd.socket \in NetSocks /\ qd.destroyed /\ qd.trying = NoSock
    BY <1>1, <1>6 DEF QdInv
  <2>3. qd.socket \in Registered
    BY <1>2, <1>6, <2>1 DEF OpenNet
  <2>4. /\ qd.socket \in QdeviceFds \ ({"ipc"} \cup Slots)
        /\ qd.socket \notin {"heurrecv", "heursend", "votequorum", "cmap"}
    BY <2>2, DescriptorAssumption DEF QdeviceFds
  <2>5. "out" \in QdEvents(qd.socket)
    BY <1>6, <2>2, <2>4 DEF QdEvents
  <2>6. "out" \in Wanted[qd.socket]
    BY <2>4, <2>5, WantedOfQdevice
  <2> QED BY <2>3, <2>6, WantedIsPolled
<1>7. ASSUME qd.heurcmd PROVE Polled("heursend", "out")
  <2>1. daemon = "qdevice"
    BY <1>1, <1>3, <1>7 DEF QdInv, NewQd
  <2>2. "heursend" \in Registered
    BY <1>2, <2>1, QdeviceFixed
  <2>3. "heursend" \in QdeviceFds \ ({"ipc"} \cup Slots)
    BY DescriptorAssumption DEF QdeviceFds
  <2>4. "heursend" # qd.trying /\ "heursend" # qd.socket
    BY <1>1, DescriptorAssumption DEF QdInv, QdeviceFds
  <2>5. "out" \in QdEvents("heursend")
    BY <1>7, <2>4 DEF QdEvents
  <2>6. "out" \in Wanted["heursend"]
    BY <2>3, <2>5, WantedOfQdevice
  <2> QED BY <2>2, <2>6, WantedIsPolled
<1> QED BY <1>4, <1>5, <1>6, <1>7 DEF QueuedIsPolled

-----------------------------------------------------------------------------
(* For either daemon, any number of tools, clients and sockets, the         *)
(* invariant above holds in every state: the list of descriptors, the poll  *)
(* array and the callbacks that are due fit together, whatever the          *)
(* callbacks of pr_poll_loop_exec add and delete.                           *)
THEOREM DaemonLoopsInvariant == Spec => []Inv
<1>1. Init => Inv
  BY InitInv
<1>2. Inv /\ [Next]_vars => Inv'
  BY NextInv
<1> QED BY <1>1, <1>2, PTL DEF Spec

(* pr_poll_loop_exec uses no entry that a callback freed: neither the next  *)
(* one when it fills the poll array, nor the user data of a callback.       *)
THEOREM LoopsUseNoFreedEntry == Spec => []NoFreedEntryIsUsed
<1>1. Inv => NoFreedEntryIsUsed
  BY InvUsesNoFreedEntry
<1> QED BY <1>1, DaemonLoopsInvariant, PTL

(* The loop has exactly the open descriptors until the daemon ends, and     *)
(* its poll array is large enough for what is polled.                       *)
THEOREM LoopsHaveOpenDescriptors == Spec => []LoopHasOpenDescriptors
<1>1. Inv => LoopHasOpenDescriptors
  BY InvHasOpenDescriptors
<1> QED BY <1>1, DaemonLoopsInvariant, PTL

(* When the daemon sleeps in PR_Poll, whatever is queued for a client, a    *)
(* tool, the server or the heuristics worker is polled for, and every tool  *)
(* that is not about to be freed is waited for.                             *)
THEOREM QueuedIsAlwaysPolled == Spec => []QueuedIsPolled
<1>1. Inv => QueuedIsPolled
  BY InvPollsWhatIsQueued
<1> QED BY <1>1, DaemonLoopsInvariant, PTL
=============================================================================
