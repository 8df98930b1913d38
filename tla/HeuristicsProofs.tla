--------------------------- MODULE HeuristicsProofs ---------------------------
(***************************************************************************)
(* Proofs about heuristics: the worker counts its processes, signals only  *)
(* its own children and ends all of them; a result decides nothing but the *)
(* execution it is for; regular executions go on; and device, pipes,       *)
(* worker and processes together implement HeuristicsPromise.              *)
(*                                                                         *)
(* The invariant follows one execution on its way: the commands that are   *)
(* between the device and the worker tell, at each of their positions,     *)
(* which list the worker will have when it comes to that position          *)
(* (ListAt).                                                               *)
(***************************************************************************)
EXTENDS Heuristics, FiniteSetTheorems, SequenceTheorems, TLAPS

Names == UNION {Range(c.list) : c \in Confs}

Results == {"PASS", "FAIL", "DISABLED"}

Entry == [name : Names, state : States, pid : Pids \cup {NoPid},
          status : {"none", "ok", "bad"}, exec : Nat]

Cmds == [cmd : {"exec"}, seq : Nat \ {0}] \cup {ClearCmd}
          \cup [cmd : {"exec-list-add"}, name : Names]

(* Commands and results of the executions up to n.                          *)
CmdsTo(n) == [cmd : {"exec"}, seq : 1..n] \cup {ClearCmd}
               \cup [cmd : {"exec-list-add"}, name : Names]

LinesTo(n) == [seq : 0..n, result : Results]

ProcStates == {"free", "run", "ok", "bad"}

PlistType == [active : Seq(Entry), kill : Seq(Entry), allocated : Nat,
              procs : [Pids -> ProcStates]]

-----------------------------------------------------------------------------
(* The lists of processes                                                  *)

(* The process of an entry exists, and what it did is on record.            *)
Owns(pl, e, succ) ==
    /\ HasProcess(e) => e.pid \in Pids /\ pl.procs[e.pid] # "free" /\ e.status = "none"
    /\ HasProcess(e) /\ pl.procs[e.pid] = "ok" => <<e.exec, e.name>> \in succ
    /\ e.status = "ok" => <<e.exec, e.name>> \in succ
    /\ e.state = "FINISHED" => e.status # "none"

(* No two entries of a list have the same process, or of two lists.         *)
Apart(list) ==
    \A i, k \in DOMAIN list :
        HasProcess(list[i]) /\ HasProcess(list[k]) /\ list[i].pid = list[k].pid => i = k

ApartFrom(list1, list2) ==
    \A i \in DOMAIN list1, k \in DOMAIN list2 :
        HasProcess(list1[i]) /\ HasProcess(list2[k]) => list1[i].pid # list2[k].pid

HasOwner(pl, p) ==
    \/ \E i \in DOMAIN pl.active : HasProcess(pl.active[i]) /\ pl.active[i].pid = p
    \/ \E i \in DOMAIN pl.kill : HasProcess(pl.kill[i]) /\ pl.kill[i].pid = p

(* Lists in order, with executions up to n and the successes in succ.       *)
Sound(pl, succ, n) ==
    /\ pl \in PlistType
    /\ pl.allocated = Len(pl.active) + Len(pl.kill)
    /\ pl.allocated <= MaxProcesses
    /\ \A i \in DOMAIN pl.active : Owns(pl, pl.active[i], succ) /\ pl.active[i].exec <= n
    /\ \A i \in DOMAIN pl.kill : Owns(pl, pl.kill[i], succ) /\ pl.kill[i].exec <= n
    /\ \A i \in DOMAIN pl.kill : HasProcess(pl.kill[i])
    /\ Apart(pl.active)
    /\ Apart(pl.kill)
    /\ ApartFrom(pl.active, pl.kill)
    /\ \A p \in Pids : pl.procs[p] # "free" => HasOwner(pl, p)

-----------------------------------------------------------------------------
(* The commands on their way to the worker                                 *)

Stream == cmd_in_buffer \o cmd_pipe \o cmd_out

(* Before its i-th command the worker, which has execs now, has the list:   *)
(* after the clear at j, or from the start, come adds and then executions.  *)
Shape(S, execs, i, list, j, m) ==
    /\ j > 0 => S[j].cmd = "exec-list-clear"
    /\ j = 0 => Len(list) = Len(execs) + m
    /\ j > 0 => Len(list) = m
    /\ j = 0 => \A k \in 1..Len(execs) : list[k] = execs[k]
    /\ j = 0 => \A k \in 1..m : S[k] = AddCmd(list[Len(execs) + k])
    /\ j > 0 => \A k \in 1..m : S[j + k] = AddCmd(list[k])
    /\ \A k \in (j + m + 1)..(i - 1) : S[k].cmd = "exec"

ListAt(S, execs, i, list) ==
    \E j, m \in 0..(i - 1) : j + m < i /\ Shape(S, execs, i, list, j, m)

(* After all commands the worker has the list of the device, and at an      *)
(* execution with the number n it has the list that was wanted.             *)
InOrder(S, execs, list, wanted, n) ==
    /\ ListAt(S, execs, Len(S) + 1, list)
    /\ \A i \in DOMAIN S : S[i].cmd = "exec" /\ S[i].seq = n => ListAt(S, execs, i, wanted)

-----------------------------------------------------------------------------
Working == phase \in {"poll", "lines", "check", "timers"}

WorkerInv ==
    /\ phase \in WorkerPhases
    /\ exec_timer \in BOOLEAN /\ kill_due \in BOOLEAN /\ schedule_exit \in BOOLEAN
    /\ kill_failed \in BOOLEAN
    /\ last_seq \in 0..expected_reply_seq_number
    /\ rounds \in 0..(2 * KillRounds)
    /\ cmd_in_buffer \in Seq(CmdsTo(expected_reply_seq_number))
    /\ cmd_pipe \in Seq(CmdsTo(expected_reply_seq_number))
    /\ worker_execs \in Seq(Names)
    /\ result_pipe \in Seq(LinesTo(expected_reply_seq_number))
    /\ succeeded \subseteq (0..expected_reply_seq_number) \X Names
    /\ phase = "lines" => cmd_in_buffer # <<>>
    /\ phase \in {"poll", "check", "timers"} => cmd_in_buffer = <<>>
    /\ Working => rounds = 0

(* The kill loop has sent SIGTERM after one round, SIGKILL after two.       *)
KillInv ==
    /\ phase = "killall" => rounds < 2 * KillRounds
    /\ phase = "killall" /\ rounds > 0 =>
          /\ active_list = <<>>
          /\ \A i \in DOMAIN to_kill_list : to_kill_list[i].state # "RUNNING"
    /\ phase = "killall" /\ rounds > 1 =>
          \A i \in DOMAIN to_kill_list : to_kill_list[i].state = "SIGKILL_SENT"

DeviceInv ==
    /\ up \in BOOLEAN /\ waiting_for_result \in BOOLEAN /\ regular_timer \in BOOLEAN
    /\ interrupted \in BOOLEAN
    /\ expected_reply_seq_number \in 0..MaxExecs
    /\ mode \in Modes
    /\ notifiers \subseteq Notifiers
    /\ cmd_out \in Seq(CmdsTo(expected_reply_seq_number)) /\ Len(cmd_out) <= MaxCmdBuffers
    /\ exec_list \in Seq(Names) /\ asked \in Seq(Names)
    /\ given \in Results \cup {"none"}
    /\ waiting_for_result => given = "none" /\ expected_reply_seq_number > 0
    /\ given # "none" => expected_reply_seq_number > 0
    /\ mode # "disabled" => exec_list # <<>>
    /\ regular_timer => mode = "enabled"

(* While heuristics are enabled the next execution is on its way, and it is *)
(* not one of an empty list unless votequorum waits for it as well.         *)
GoesOn ==
    up /\ Started /\ ~interrupted /\ mode = "enabled" =>
        \/ regular_timer
        \/ waiting_for_result /\ "votequorum" \in notifiers
        \/ waiting_for_result /\ "regular" \in notifiers /\ asked # <<>>

(* An execution runs a process for every name of its list, of which there   *)
(* is at least one.                                                         *)
RunsAll(wanted, list) ==
    /\ wanted # <<>>
    /\ \A k \in DOMAIN wanted : \E i \in DOMAIN list : list[i].name = wanted[k]

(* A result of the execution n says no more than what happened.             *)
Truthful(line, wanted, n, succ) ==
    line.seq = n =>
        /\ (line.result = "DISABLED") = (wanted = <<>>)
        /\ line.result = "PASS" => \A k \in DOMAIN wanted : <<n, wanted[k]>> \in succ

(* What the worker does for the latest execution.                           *)
LatestInv ==
    /\ up /\ Working =>
          InOrder(Stream, worker_execs, exec_list, asked, expected_reply_seq_number)
    /\ up /\ Working /\ exec_timer /\ last_seq = expected_reply_seq_number =>
          RunsAll(asked, active_list)
    /\ up => \A i \in DOMAIN result_pipe :
          Truthful(result_pipe[i], asked, expected_reply_seq_number, succeeded)

Inv ==
    /\ Sound(Plist, succeeded, expected_reply_seq_number)
    /\ WorkerInv
    /\ DeviceInv
    /\ ActiveIsLatestExecution
    /\ KillInv
    /\ ExitKillsAll
    /\ LatestInv
    /\ GoesOn

-----------------------------------------------------------------------------
(* Positions                                                               *)

(* A set of numbers that is not empty has a least one.                      *)
LEMMA LeastNumber ==
    ASSUME NEW T, T \subseteq Nat, T # {}
    PROVE  \E y \in T : \A z \in T : ~(z < y)
<1>1. PICK y \in T : \A z \in T : ~(<<z, y>> \in OpToRel(<, Nat))
  BY WFMin, NatLessThanWellFounded, Zenon
<1>2. \A z \in T : <<z, y>> \in Nat \X Nat /\ ~(<<z, y>> \in OpToRel(<, Nat))
  BY <1>1, Zenon
<1>3. \A z \in T : <<z, y>>[1] = z /\ <<z, y>>[2] = y
  OBVIOUS
<1>4. ASSUME NEW z \in T, z < y PROVE <<z, y>> \in OpToRel(<, Nat)
  BY <1>2, <1>3, <1>4, Zenon DEF OpToRel
<1> QED BY <1>2, <1>4, Zenon

Enumerates(f, m, K) ==
    /\ f \in [1..m -> K]
    /\ \A i, j \in 1..m : i < j => f[i] < f[j]
    /\ \A k \in K : \E i \in 1..m : f[i] = k

(* Positions up to n can be put in their order.                             *)
LEMMA EnumerationExists ==
    ASSUME NEW n \in Nat, NEW K \in SUBSET (1..n)
    PROVE  \E m \in 0..n : \E f \in [1..m -> K] : Enumerates(f, m, K)
<1> DEFINE Ok(x) == \A L \in SUBSET (1..x) : \E m \in 0..x : \E f \in [1..m -> L] : Enumerates(f, m, L)
           Bad == {x \in Nat : ~Ok(x)}
<1>1. Ok(0)
  <2> SUFFICES ASSUME NEW L \in SUBSET (1..0)
               PROVE  \E m \in 0..0 : \E f \in [1..m -> L] : Enumerates(f, m, L)
    OBVIOUS
  <2>1. L = {}
    OBVIOUS
  <2> DEFINE f == [i \in 1..0 |-> i]
  <2>2. f \in [1..0 -> L]
    OBVIOUS
  <2> HIDE DEF f
  <2>3. Enumerates(f, 0, L)
    BY <2>1, <2>2 DEF Enumerates
  <2>4. \E g \in [1..0 -> L] : Enumerates(g, 0, L)
    BY <2>2, <2>3
  <2>5. 0 \in 0..0
    OBVIOUS
  <2> QED BY <2>4, <2>5, Zenon
<1>2. ASSUME NEW x \in Nat, Ok(x) PROVE Ok(x + 1)
  <2> SUFFICES ASSUME NEW L \in SUBSET (1..(x + 1))
               PROVE  \E m \in 0..(x + 1) : \E f \in [1..m -> L] : Enumerates(f, m, L)
    OBVIOUS
  <2>1. L \ {x + 1} \in SUBSET (1..x)
    OBVIOUS
  <2>2. PICK m \in 0..x : \E f \in [1..m -> L \ {x + 1}] : Enumerates(f, m, L \ {x + 1})
    BY <1>2, <2>1
  <2>3. PICK f \in [1..m -> L \ {x + 1}] : Enumerates(f, m, L \ {x + 1})
    BY <2>2
  <2>4. CASE x + 1 \notin L
    <3>1. L \ {x + 1} = L
      BY <2>4
    <3>2. m \in 0..(x + 1)
      OBVIOUS
    <3>3. \E g \in [1..m -> L] : Enumerates(g, m, L)
      BY <2>2, <3>1
    <3> QED BY <3>2, <3>3
  <2>5. CASE x + 1 \in L
    <3> DEFINE g == [i \in 1..(m + 1) |-> IF i = m + 1 THEN x + 1 ELSE f[i]]
    <3>1. \A i \in 1..m : f[i] \in L /\ f[i] \in 1..x
      BY <2>1, <2>3
    <3>2. g \in [1..(m + 1) -> L]
      BY <2>5, <3>1
    <3>3. \A i \in 1..m : g[i] = f[i]
      OBVIOUS
    <3>4. g[m + 1] = x + 1
      OBVIOUS
    <3> HIDE DEF g
    <3>5. ASSUME NEW i \in 1..(m + 1), NEW j \in 1..(m + 1), i < j PROVE g[i] < g[j]
      <4>1. i \in 1..m /\ g[i] = f[i] /\ f[i] < x + 1
        BY <3>1, <3>3, <3>5
      <4>2. CASE j = m + 1
        BY <3>4, <4>1, <4>2
      <4>3. CASE j # m + 1
        <5>1. j \in 1..m /\ g[j] = f[j]
          BY <3>3, <4>3
        <5> QED BY <2>3, <3>5, <4>1, <5>1 DEF Enumerates
      <4> QED BY <4>2, <4>3
    <3>6. ASSUME NEW k \in L PROVE \E i \in 1..(m + 1) : g[i] = k
      <4>1. CASE k = x + 1
        BY <3>4, <4>1
      <4>2. CASE k # x + 1
        <5>1. PICK i \in 1..m : f[i] = k
          BY <2>3, <4>2 DEF Enumerates
        <5>2. i \in 1..(m + 1) /\ g[i] = k
          BY <3>3, <5>1
        <5> QED BY <5>2
      <4> QED BY <4>1, <4>2
    <3>7. Enumerates(g, m + 1, L)
      BY <3>2, <3>5, <3>6 DEF Enumerates
    <3>8. m + 1 \in 0..(x + 1)
      OBVIOUS
    <3> QED BY <3>2, <3>7, <3>8
  <2> QED BY <2>4, <2>5
<1>3. Bad = {}
  <2> SUFFICES ASSUME Bad # {} PROVE FALSE
    OBVIOUS
  <2>1. PICK y \in Bad : \A z \in Bad : ~(z < y)
    <3>1. Bad \subseteq Nat
      OBVIOUS
    <3> HIDE DEF Bad
    <3> QED BY <3>1, LeastNumber
  <2>2. y \in Nat /\ ~Ok(y)
    BY <2>1
  <2>3. y # 0
    BY <1>1, <2>2
  <2>4. y - 1 \in Nat /\ y - 1 < y
    BY <2>2, <2>3
  <2>5. Ok(y - 1)
    BY <2>1, <2>4
  <2>6. Ok((y - 1) + 1)
    <3> HIDE DEF Ok
    <3> QED BY <1>2, <2>4, <2>5
  <2>7. (y - 1) + 1 = y
    BY <2>2
  <2> HIDE DEF Ok
  <2> QED BY <2>2, <2>6, <2>7
<1>4. Ok(n)
  <2> HIDE DEF Ok
  <2> QED BY <1>3
<1> QED BY <1>4

(* What At returns: the entries at the positions K, each of them once.      *)
LEMMA AtPositions ==
    ASSUME NEW E, NEW list \in Seq(E), NEW K \in SUBSET (DOMAIN list),
           NEW r, r = At(list, K)
    PROVE  /\ r \in Seq(E)
           /\ Len(r) <= Len(list)
           /\ \E p \in [1..Len(r) -> K] :
                 /\ \A i, j \in 1..Len(r) : p[i] = p[j] => i = j
                 /\ \A k \in K : \E i \in 1..Len(r) : p[i] = k
                 /\ \A i \in 1..Len(r) : r[i] = list[p[i]]
<1>1. Len(list) \in Nat /\ DOMAIN list = 1..Len(list) /\ K \in SUBSET (1..Len(list))
  OBVIOUS
<1>2. PICK m \in 0..Len(list) : \E f \in [1..m -> K] : Enumerates(f, m, K)
  BY <1>1, EnumerationExists
<1>3. PICK f \in [1..m -> K] : Enumerates(f, m, K)
  BY <1>2
<1>4. \A g \in [1..m -> K] : (\A i, j \in 1..m : i < j => g[i] < g[j]) =>
                                \A i, j \in 1..m : g[i] = g[j] => i = j
  <2> SUFFICES ASSUME NEW g \in [1..m -> K], \A i, j \in 1..m : i < j => g[i] < g[j],
                      NEW i \in 1..m, NEW j \in 1..m, g[i] = g[j]
               PROVE  i = j
    OBVIOUS
  <2>1. g[i] \in Int /\ g[j] \in Int
    BY <1>1
  <2> QED BY <2>1
<1>5. Cardinality(K) = m
  <2>1. f \in Bijection(1..m, K)
    BY <1>3, <1>4 DEF Enumerates, Bijection, Injection, Surjection, IsInjective
  <2>2. ExistsBijection(1..m, K)
    BY <2>1 DEF ExistsBijection
  <2> QED BY <1>2, <2>2, FS_CountingElements
<1> DEFINE pos == Ascending(K)
<1>6. pos \in [1..m -> K] /\ \A i, j \in 1..m : i < j => pos[i] < pos[j]
  <2>1. \E g \in [1..Cardinality(K) -> K] : \A i, j \in DOMAIN g : i < j => g[i] < g[j]
    BY <1>3, <1>5 DEF Enumerates
  <2>2. pos \in [1..Cardinality(K) -> K] /\ \A i, j \in DOMAIN pos : i < j => pos[i] < pos[j]
    BY <2>1 DEF Ascending
  <2> QED BY <1>5, <2>2
<1> HIDE DEF pos
<1>7. \A i, j \in 1..m : pos[i] = pos[j] => i = j
  BY <1>4, <1>6
<1>8. \A k \in K : \E i \in 1..m : pos[i] = k
  <2>1. IsFiniteSet(K)
    <3>1. IsFiniteSet(1..Len(list))
      BY <1>1, FS_Interval
    <3> QED BY <1>1, <3>1, FS_Subset
  <2>2. pos \in Injection(1..m, K)
    BY <1>6, <1>7 DEF Injection, IsInjective
  <2>3. Cardinality(1..m) = m
    BY FS_Interval
  <2>4. pos \in Surjection(1..m, K)
    BY <1>5, <2>1, <2>2, <2>3, FS_Injection
  <2> QED BY <2>4 DEF Surjection
<1>9. r = [i \in 1..m |-> list[pos[i]]]
  BY <1>5 DEF At, pos
<1>10. \A i \in 1..m : list[pos[i]] \in E
  BY <1>1, <1>6
<1>11. r \in Seq(E) /\ Len(r) = m
  BY <1>2, <1>9, <1>10
<1>12. \A i \in 1..Len(r) : r[i] = list[pos[i]]
  BY <1>9, <1>11
<1>13. pos \in [1..Len(r) -> K]
  BY <1>6, <1>11
<1>14. \A i, j \in 1..Len(r) : pos[i] = pos[j] => i = j
  BY <1>7, <1>11
<1>15. \A k \in K : \E i \in 1..Len(r) : pos[i] = k
  BY <1>8, <1>11
<1>16. Len(r) <= Len(list)
  BY <1>1, <1>2, <1>11
<1> QED BY <1>11, <1>12, <1>13, <1>14, <1>15, <1>16, Zenon

-----------------------------------------------------------------------------
(* The operators on the lists                                              *)

(* A function on 1..m is a sequence.                                        *)
LEMMA FunctionIsSeq ==
    ASSUME NEW m \in Nat, NEW E, NEW f \in [1..m -> E]
    PROVE  f \in Seq(E) /\ Len(f) = m
OBVIOUS

(* The elements of two sequences, one after the other.                      *)
LEMMA ConcatAt ==
    ASSUME NEW E, NEW s \in Seq(E), NEW t \in Seq(E), NEW r, r = s \o t
    PROVE  /\ r \in Seq(E) /\ Len(r) = Len(s) + Len(t) /\ DOMAIN r = 1..(Len(s) + Len(t))
           /\ Len(s) \in Nat /\ Len(t) \in Nat
           /\ \A i \in 1..Len(s) : r[i] = s[i]
           /\ \A i \in 1..Len(t) : r[Len(s) + i] = t[i]
           /\ \A i \in DOMAIN r : i \in 1..Len(s) \/ \E j \in 1..Len(t) : i = Len(s) + j
<1>1. /\ r \in Seq(E) /\ Len(r) = Len(s) + Len(t) /\ DOMAIN r = 1..(Len(s) + Len(t))
      /\ Len(s) \in Nat /\ Len(t) \in Nat
  OBVIOUS
<1>2. \A i \in 1..Len(s) : r[i] = s[i]
  OBVIOUS
<1>3. ASSUME NEW i \in 1..Len(t) PROVE r[Len(s) + i] = t[i]
  <2>1. Len(s) + i \in 1..(Len(s) + Len(t)) /\ Len(s) + i > Len(s) /\ (Len(s) + i) - Len(s) = i
    BY <1>1
  <2> QED BY <1>1, <2>1, ConcatProperties
<1>4. ASSUME NEW i \in DOMAIN r, i \notin 1..Len(s) PROVE \E j \in 1..Len(t) : i = Len(s) + j
  <2>1. i - Len(s) \in 1..Len(t) /\ i = Len(s) + (i - Len(s))
    BY <1>1, <1>4
  <2> QED BY <2>1
<1> QED BY <1>1, <1>2, <1>3, <1>4

(* The parts of Sound that are about one list.                              *)
LEMMA SoundParts ==
    ASSUME NEW pl, NEW succ, NEW n \in Nat, Sound(pl, succ, n)
    PROVE  /\ pl.active \in Seq(Entry) /\ pl.kill \in Seq(Entry)
           /\ pl.allocated \in Nat /\ pl.procs \in [Pids -> ProcStates]
           /\ Len(pl.active) \in Nat /\ DOMAIN pl.active = 1..Len(pl.active)
           /\ Len(pl.kill) \in Nat /\ DOMAIN pl.kill = 1..Len(pl.kill)
           /\ pl = [active |-> pl.active, kill |-> pl.kill, allocated |-> pl.allocated,
                    procs |-> pl.procs]
BY DEF Sound, PlistType

(* process_list_move_active_entries_to_kill_list                            *)
LEMMA MoveSound ==
    ASSUME NEW pl, NEW succ, NEW n \in Nat, Sound(pl, succ, n),
           NEW q, q = MoveActiveToKillList(pl)
    PROVE  Sound(q, succ, n) /\ q.active = <<>>
<1> DEFINE a == pl.active
           k == pl.kill
           K == {i \in DOMAIN a : HasProcess(a[i])}
           w == WithProcess(pl)
<1>1. /\ a \in Seq(Entry) /\ k \in Seq(Entry) /\ pl.allocated \in Nat
      /\ pl.procs \in [Pids -> ProcStates]
      /\ Len(a) \in Nat /\ DOMAIN a = 1..Len(a) /\ Len(k) \in Nat /\ DOMAIN k = 1..Len(k)
  BY SoundParts
<1>2. w = At(a, K)
  BY DEF WithProcess
<1>3. /\ w \in Seq(Entry) /\ Len(w) <= Len(a)
      /\ \E p \in [1..Len(w) -> K] : /\ \A i, j \in 1..Len(w) : p[i] = p[j] => i = j
                                     /\ \A x \in K : \E i \in 1..Len(w) : p[i] = x
                                     /\ \A i \in 1..Len(w) : w[i] = a[p[i]]
  <2>1. K \in SUBSET (DOMAIN a)
    OBVIOUS
  <2> HIDE DEF a, w, K
  <2> QED BY <1>1, <1>2, <2>1, AtPositions
<1>4. PICK pos \in [1..Len(w) -> K] : /\ \A i, j \in 1..Len(w) : pos[i] = pos[j] => i = j
                                      /\ \A x \in K : \E i \in 1..Len(w) : pos[i] = x
                                      /\ \A i \in 1..Len(w) : w[i] = a[pos[i]]
  BY <1>3
<1>5. /\ q.active = <<>> /\ q.kill = k \o w
      /\ q.allocated = pl.allocated - (Len(a) - Len(w)) /\ q.procs = pl.procs
      /\ q = [active |-> q.active, kill |-> q.kill, allocated |-> q.allocated, procs |-> q.procs]
  <2>1. pl = [active |-> a, kill |-> k, allocated |-> pl.allocated, procs |-> pl.procs]
    BY SoundParts
  <2>2. q = [pl EXCEPT !.active = <<>>, !.kill = pl.kill \o w,
                       !.allocated = pl.allocated - (Len(pl.active) - Len(w))]
    BY DEF MoveActiveToKillList
  <2> HIDE DEF w
  <2>3. q = [active |-> <<>>, kill |-> k \o w,
             allocated |-> pl.allocated - (Len(a) - Len(w)), procs |-> pl.procs]
    BY <2>1, <2>2
  <2> QED BY <2>3
<1>6. pl.allocated = Len(a) + Len(k) /\ pl.allocated <= MaxProcesses
  BY DEF Sound
<1> HIDE DEF a, k, w
<1>7. /\ q.kill \in Seq(Entry) /\ Len(q.kill) = Len(k) + Len(w) /\ DOMAIN q.kill = 1..(Len(k) + Len(w))
      /\ Len(w) \in Nat
  BY <1>1, <1>3, <1>5
<1>8. \A i \in 1..Len(k) : q.kill[i] = k[i]
  BY <1>1, <1>3, <1>5
<1>9. \A i \in 1..Len(w) : /\ q.kill[Len(k) + i] = a[pos[i]]
                           /\ pos[i] \in DOMAIN a /\ HasProcess(a[pos[i]])
  <2> SUFFICES ASSUME NEW i \in 1..Len(w)
               PROVE  /\ q.kill[Len(k) + i] = a[pos[i]]
                      /\ pos[i] \in DOMAIN a /\ HasProcess(a[pos[i]])
    OBVIOUS
  <2>1. q.kill[Len(k) + i] = w[i]
    <3>1. k \in Seq(Entry) /\ w \in Seq(Entry) /\ q.kill = k \o w
      BY <1>1, <1>3, <1>5
    <3>2. \A j \in 1..Len(w) : q.kill[Len(k) + j] = w[j]
      BY <3>1, ConcatAt
    <3> QED BY <3>2
  <2>2. pos[i] \in K
    <3> HIDE DEF K
    <3> QED BY <1>4
  <2>3. w[i] = a[pos[i]]
    BY <1>4
  <2> QED BY <2>1, <2>2, <2>3
<1>10. \A x \in DOMAIN a : HasProcess(a[x]) => \E i \in 1..Len(w) : pos[i] = x
  BY <1>4
<1>11. \A i \in DOMAIN q.kill : \/ i \in 1..Len(k) /\ q.kill[i] = k[i]
                                \/ \E j \in 1..Len(w) : i = Len(k) + j /\ q.kill[i] = a[pos[j]]
  <2> SUFFICES ASSUME NEW i \in DOMAIN q.kill, i \notin 1..Len(k)
               PROVE  \E j \in 1..Len(w) : i = Len(k) + j /\ q.kill[i] = a[pos[j]]
    BY <1>8
  <2>1. i - Len(k) \in 1..Len(w) /\ i = Len(k) + (i - Len(k))
    BY <1>1, <1>7
  <2> QED BY <1>9, <2>1
<1>12. \A e : Owns(q, e, succ) = Owns(pl, e, succ)
  BY <1>5 DEF Owns
<1>13. \A i \in DOMAIN q.kill : /\ Owns(q, q.kill[i], succ) /\ q.kill[i].exec <= n
                                /\ HasProcess(q.kill[i])
  <2>1. /\ \A i \in 1..Len(k) : Owns(pl, k[i], succ) /\ k[i].exec <= n /\ HasProcess(k[i])
        /\ \A i \in DOMAIN a : Owns(pl, a[i], succ) /\ a[i].exec <= n
    BY <1>1 DEF Sound, a, k
  <2> QED BY <1>9, <1>11, <1>12, <2>1
<1>14. Apart(a) /\ Apart(k) /\ ApartFrom(a, k)
  BY DEF Sound, a, k
<1>15. Apart(q.kill)
  <2> SUFFICES ASSUME NEW i \in DOMAIN q.kill, NEW j \in DOMAIN q.kill,
                      HasProcess(q.kill[i]), HasProcess(q.kill[j]), q.kill[i].pid = q.kill[j].pid
               PROVE  i = j
    BY DEF Apart
  <2>1. CASE i \in 1..Len(k) /\ q.kill[i] = k[i] /\ j \in 1..Len(k) /\ q.kill[j] = k[j]
    BY <1>1, <1>14, <2>1 DEF Apart
  <2>2. ASSUME NEW x \in 1..Len(w), i = Len(k) + x, q.kill[i] = a[pos[x]],
               NEW y \in 1..Len(w), j = Len(k) + y, q.kill[j] = a[pos[y]]
        PROVE  i = j
    <3>1. pos[x] = pos[y]
      BY <1>9, <1>14, <2>2 DEF Apart
    <3> QED BY <1>4, <2>2, <3>1
  <2>3. ASSUME NEW x \in 1..Len(w), q.kill[i] = a[pos[x]], j \in 1..Len(k), q.kill[j] = k[j]
        PROVE  FALSE
    BY <1>1, <1>9, <1>14, <2>3 DEF ApartFrom
  <2>4. ASSUME NEW x \in 1..Len(w), q.kill[j] = a[pos[x]], i \in 1..Len(k), q.kill[i] = k[i]
        PROVE  FALSE
    BY <1>1, <1>9, <1>14, <2>4 DEF ApartFrom
  <2> QED BY <1>11, <2>1, <2>2, <2>3, <2>4
<1>16. \A p \in Pids : q.procs[p] # "free" => HasOwner(q, p)
  <2> SUFFICES ASSUME NEW p \in Pids, q.procs[p] # "free"
               PROVE  \E i \in DOMAIN q.kill : HasProcess(q.kill[i]) /\ q.kill[i].pid = p
    BY DEF HasOwner
  <2>1. HasOwner(pl, p)
    BY <1>5 DEF Sound
  <2>2. ASSUME NEW x \in DOMAIN a, HasProcess(a[x]), a[x].pid = p
        PROVE  \E i \in DOMAIN q.kill : HasProcess(q.kill[i]) /\ q.kill[i].pid = p
    <3>1. PICK y \in 1..Len(w) : pos[y] = x
      BY <1>10, <2>2
    <3>2. Len(k) + y \in DOMAIN q.kill /\ q.kill[Len(k) + y] = a[x]
      BY <1>1, <1>7, <1>9, <3>1
    <3> QED BY <2>2, <3>2
  <2>3. ASSUME NEW x \in DOMAIN k, HasProcess(k[x]), k[x].pid = p
        PROVE  \E i \in DOMAIN q.kill : HasProcess(q.kill[i]) /\ q.kill[i].pid = p
    <3>1. x \in DOMAIN q.kill /\ q.kill[x] = k[x]
      BY <1>1, <1>7, <1>8
    <3> QED BY <2>3, <3>1
  <2> QED BY <2>1, <2>2, <2>3 DEF HasOwner, a, k
<1>17. q.allocated \in Nat /\ q.allocated = Len(q.active) + Len(q.kill) /\ q.allocated <= MaxProcesses
  BY <1>1, <1>3, <1>5, <1>6, <1>7, ProcessListAssumption
<1>18. q \in PlistType
  <2>1. q.active \in Seq(Entry)
    BY <1>5
  <2> QED BY <1>1, <1>5, <1>7, <1>17, <2>1 DEF PlistType
<1>19. Apart(q.active) /\ ApartFrom(q.active, q.kill) /\ DOMAIN q.active = {}
  BY <1>5 DEF Apart, ApartFrom
<1> QED BY <1>5, <1>13, <1>15, <1>16, <1>17, <1>18, <1>19 DEF Sound

(* process_list_waitpid                                                     *)
LEMMA WaitpidSound ==
    ASSUME NEW pl, NEW succ, NEW n \in Nat, Sound(pl, succ, n), NEW q, q = Waitpid(pl)
    PROVE  /\ Sound(q, succ, n)
           /\ Len(q.active) = Len(pl.active)
           /\ \A i \in DOMAIN pl.active : /\ q.active[i].name = pl.active[i].name
                                          /\ q.active[i].exec = pl.active[i].exec
           /\ \A i \in DOMAIN q.kill : \E j \in DOMAIN pl.kill : q.kill[i] = pl.kill[j]
<1> DEFINE a == pl.active
           k == pl.kill
           Reaped(e) == IF Exited(pl, e)
                        THEN [e EXCEPT !.state = "FINISHED", !.status = pl.procs[e.pid]]
                        ELSE e
           K     == {i \in DOMAIN k : ~Exited(pl, k[i])}
           w     == At(k, K)
           ended == {e.pid : e \in {x \in Range(a) \cup Range(k) : Exited(pl, x)}}
<1>1. /\ a \in Seq(Entry) /\ k \in Seq(Entry) /\ pl.allocated \in Nat
      /\ pl.procs \in [Pids -> ProcStates]
      /\ Len(a) \in Nat /\ DOMAIN a = 1..Len(a) /\ Len(k) \in Nat /\ DOMAIN k = 1..Len(k)
  BY SoundParts
<1>2. /\ w \in Seq(Entry) /\ Len(w) <= Len(k)
      /\ \E p \in [1..Len(w) -> K] : /\ \A i, j \in 1..Len(w) : p[i] = p[j] => i = j
                                     /\ \A x \in K : \E i \in 1..Len(w) : p[i] = x
                                     /\ \A i \in 1..Len(w) : w[i] = k[p[i]]
  <2>1. K \in SUBSET (DOMAIN k)
    OBVIOUS
  <2>2. w = At(k, K)
    OBVIOUS
  <2>3. k \in Seq(Entry)
    BY <1>1
  <2> HIDE DEF a, k, w, K, ended, Reaped
  <2>4. w \in Seq(Entry) /\ Len(w) <= Len(k)
    BY <2>1, <2>2, <2>3, AtPositions
  <2>5. \E p \in [1..Len(w) -> K] : /\ \A i, j \in 1..Len(w) : p[i] = p[j] => i = j
                                    /\ \A x \in K : \E i \in 1..Len(w) : p[i] = x
                                    /\ \A i \in 1..Len(w) : w[i] = k[p[i]]
    BY <2>1, <2>2, <2>3, AtPositions
  <2> QED BY <2>4, <2>5
<1>3. PICK pos \in [1..Len(w) -> K] : /\ \A i, j \in 1..Len(w) : pos[i] = pos[j] => i = j
                                      /\ \A x \in K : \E i \in 1..Len(w) : pos[i] = x
                                      /\ \A i \in 1..Len(w) : w[i] = k[pos[i]]
  BY <1>2
<1>4. /\ q.active = [i \in DOMAIN a |-> Reaped(a[i])] /\ q.kill = w
      /\ q.allocated = pl.allocated - (Len(k) - Len(w))
      /\ q.procs = [p \in Pids |-> IF p \in ended THEN "free" ELSE pl.procs[p]]
      /\ q = [active |-> q.active, kill |-> q.kill, allocated |-> q.allocated, procs |-> q.procs]
  <2>1. q = [active |-> [i \in DOMAIN a |-> Reaped(a[i])], kill |-> w,
             allocated |-> pl.allocated - (Len(k) - Len(w)),
             procs |-> [p \in Pids |-> IF p \in ended THEN "free" ELSE pl.procs[p]]]
    BY DEF Waitpid
  <2> HIDE DEF a, k, w, ended, Reaped
  <2> QED BY <2>1
<1>5. /\ pl.allocated = Len(a) + Len(k) /\ pl.allocated <= MaxProcesses
      /\ \A i \in DOMAIN a : Owns(pl, a[i], succ) /\ a[i].exec <= n
      /\ \A i \in DOMAIN k : Owns(pl, k[i], succ) /\ k[i].exec <= n /\ HasProcess(k[i])
      /\ Apart(a) /\ Apart(k) /\ ApartFrom(a, k)
      /\ \A p \in Pids : pl.procs[p] # "free" => HasOwner(pl, p)
  BY DEF Sound
<1>6. \A p \in ended : pl.procs[p] \in {"ok", "bad"}
  BY DEF Exited
<1>7. /\ \A i \in DOMAIN a : Exited(pl, a[i]) => a[i].pid \in ended
      /\ \A i \in DOMAIN k : Exited(pl, k[i]) => k[i].pid \in ended
  BY DEF Range
<1>8. \A i \in DOMAIN a : a[i] \in Entry
  BY <1>1
<1>9. \A i \in DOMAIN k : k[i] \in Entry
  BY <1>1
<1>10. \A i \in 1..Len(w) : pos[i] \in DOMAIN k /\ ~Exited(pl, k[pos[i]]) /\ w[i] = k[pos[i]]
  <2> SUFFICES ASSUME NEW i \in 1..Len(w)
               PROVE  pos[i] \in DOMAIN k /\ ~Exited(pl, k[pos[i]]) /\ w[i] = k[pos[i]]
    OBVIOUS
  <2>1. pos[i] \in K
    <3> HIDE DEF K
    <3> QED BY <1>3
  <2>2. w[i] = k[pos[i]]
    BY <1>3
  <2> HIDE DEF k, w
  <2> QED BY <2>1, <2>2
<1>11. \A x \in DOMAIN k : ~Exited(pl, k[x]) => \E i \in 1..Len(w) : pos[i] = x
  BY <1>3
<1> HIDE DEF a, k, w, ended, K
<1>12. /\ DOMAIN q.active = DOMAIN a /\ DOMAIN q.kill = 1..Len(w) /\ Len(w) \in Nat
       /\ \A p \in Pids : q.procs[p] = IF p \in ended THEN "free" ELSE pl.procs[p]
       /\ \A i \in DOMAIN a : q.active[i] = Reaped(a[i])
       /\ \A i \in 1..Len(w) : q.kill[i] = k[pos[i]]
  <2> HIDE DEF Reaped
  <2>1. DOMAIN q.kill = 1..Len(w) /\ Len(w) \in Nat
    BY <1>2, <1>4
  <2>2. DOMAIN q.active = DOMAIN a /\ \A i \in DOMAIN a : q.active[i] = Reaped(a[i])
    BY <1>4
  <2>3. \A p \in Pids : q.procs[p] = IF p \in ended THEN "free" ELSE pl.procs[p]
    BY <1>4
  <2>4. \A i \in 1..Len(w) : q.kill[i] = k[pos[i]]
    BY <1>4, <1>10
  <2> QED BY <2>1, <2>2, <2>3, <2>4
<1>13. q.procs \in [Pids -> ProcStates]
  BY <1>1, <1>4 DEF ProcStates
<1>14. \A i \in DOMAIN a : Reaped(a[i]) \in Entry
  <2> SUFFICES ASSUME NEW i \in DOMAIN a, Exited(pl, a[i])
               PROVE  [a[i] EXCEPT !.state = "FINISHED", !.status = pl.procs[a[i].pid]] \in Entry
    BY <1>8
  <2>1. pl.procs[a[i].pid] \in {"ok", "bad"}
    BY DEF Exited
  <2> QED BY <1>8, <2>1 DEF Entry, States
<1>15. q.active \in Seq(Entry) /\ Len(q.active) = Len(a)
  <2> HIDE DEF Reaped
  <2>1. q.active = [i \in 1..Len(a) |-> Reaped(a[i])]
    BY <1>1, <1>4
  <2>2. \A i \in 1..Len(a) : Reaped(a[i]) \in Entry
    BY <1>1, <1>14
  <2>3. q.active \in [1..Len(a) -> Entry]
    BY <2>1, <2>2
  <2> QED BY <1>1, <2>3, FunctionIsSeq
<1>16. q \in PlistType /\ q.allocated = Len(q.active) + Len(q.kill) /\ q.allocated <= MaxProcesses
  <2>1. q.allocated \in Nat /\ q.allocated = Len(q.active) + Len(q.kill) /\ q.allocated <= MaxProcesses
    <3> HIDE DEF Reaped
    <3>1. Len(w) \in Nat /\ Len(w) <= Len(k) /\ Len(q.kill) = Len(w)
      BY <1>2, <1>4
    <3> QED BY <1>1, <1>4, <1>5, <1>15, <3>1, ProcessListAssumption
  <2> QED BY <1>2, <1>4, <1>13, <1>15, <2>1 DEF PlistType
(* An entry whose process did not end keeps it.                             *)
<1>17. ASSUME NEW e, Owns(pl, e, succ), ~Exited(pl, e) PROVE Owns(q, e, succ)
  <2>1. CASE ~HasProcess(e)
    BY <1>17, <2>1 DEF Owns
  <2>2. CASE HasProcess(e)
    <3>1. e.pid \in Pids /\ pl.procs[e.pid] \notin {"ok", "bad"}
      BY <1>17, <2>2 DEF Owns, Exited
    <3>2. q.procs[e.pid] = pl.procs[e.pid]
      BY <1>6, <1>12, <3>1
    <3> QED BY <1>17, <3>1, <3>2 DEF Owns
  <2> QED BY <2>1, <2>2
<1>18. ASSUME NEW i \in DOMAIN a, Exited(pl, a[i])
       PROVE  /\ Owns(q, Reaped(a[i]), succ) /\ ~HasProcess(Reaped(a[i]))
              /\ Reaped(a[i]).name = a[i].name /\ Reaped(a[i]).exec = a[i].exec
  <2>1. Reaped(a[i]) = [a[i] EXCEPT !.state = "FINISHED", !.status = pl.procs[a[i].pid]]
    BY <1>18
  <2>2. a[i] \in Entry
    BY <1>8
  <2>3. /\ Reaped(a[i]).state = "FINISHED" /\ Reaped(a[i]).status = pl.procs[a[i].pid]
        /\ Reaped(a[i]).name = a[i].name /\ Reaped(a[i]).exec = a[i].exec
    BY <2>1, <2>2 DEF Entry
  <2>4. pl.procs[a[i].pid] \in {"ok", "bad"} /\ HasProcess(a[i])
    BY <1>18 DEF Exited
  <2>5. pl.procs[a[i].pid] = "ok" => <<a[i].exec, a[i].name>> \in succ
    BY <1>5, <2>4 DEF Owns
  <2> HIDE DEF Reaped
  <2>6. ~HasProcess(Reaped(a[i]))
    BY <2>3 DEF HasProcess
  <2> QED BY <2>3, <2>4, <2>5, <2>6 DEF Owns
<1>19. \A i \in DOMAIN a : ~Exited(pl, a[i]) => Reaped(a[i]) = a[i]
  OBVIOUS
<1> HIDE DEF Reaped
<1>20. \A i \in DOMAIN q.active : /\ Owns(q, q.active[i], succ)
                                  /\ q.active[i].name = a[i].name /\ q.active[i].exec = a[i].exec
                                  /\ HasProcess(q.active[i]) => q.active[i] = a[i]
  BY <1>5, <1>12, <1>17, <1>18, <1>19
<1>21. \A i \in DOMAIN q.kill : /\ Owns(q, q.kill[i], succ) /\ q.kill[i].exec <= n
                                /\ HasProcess(q.kill[i])
  BY <1>5, <1>10, <1>12, <1>17
<1>22. \A i \in DOMAIN q.active : q.active[i].exec <= n
  BY <1>5, <1>12, <1>20
<1>23. Apart(q.active)
  BY <1>5, <1>12, <1>20 DEF Apart
<1>24. Apart(q.kill)
  <2> SUFFICES ASSUME NEW i \in DOMAIN q.kill, NEW j \in DOMAIN q.kill,
                      HasProcess(q.kill[i]), HasProcess(q.kill[j]), q.kill[i].pid = q.kill[j].pid
               PROVE  i = j
    BY DEF Apart
  <2>1. pos[i] = pos[j]
    BY <1>5, <1>10, <1>12 DEF Apart
  <2> QED BY <1>3, <1>12, <2>1
<1>25. ApartFrom(q.active, q.kill)
  BY <1>5, <1>10, <1>12, <1>20 DEF ApartFrom
<1>26. ASSUME NEW p \in Pids, q.procs[p] # "free" PROVE HasOwner(q, p)
  <2>1. p \notin ended /\ HasOwner(pl, p)
    BY <1>5, <1>12, <1>26
  <2>2. ASSUME NEW x \in DOMAIN a, HasProcess(a[x]), a[x].pid = p PROVE HasOwner(q, p)
    <3>1. ~Exited(pl, a[x])
      BY <1>7, <2>1, <2>2
    <3>2. x \in DOMAIN q.active /\ q.active[x] = a[x]
      BY <1>12, <1>19, <3>1
    <3> QED BY <2>2, <3>2 DEF HasOwner
  <2>3. ASSUME NEW x \in DOMAIN k, HasProcess(k[x]), k[x].pid = p PROVE HasOwner(q, p)
    <3>1. ~Exited(pl, k[x])
      BY <1>7, <2>1, <2>3
    <3>2. PICK i \in 1..Len(w) : pos[i] = x
      BY <1>11, <3>1
    <3>3. i \in DOMAIN q.kill /\ q.kill[i] = k[x]
      BY <1>12, <3>2
    <3> QED BY <2>3, <3>3 DEF HasOwner
  <2> QED BY <2>1, <2>2, <2>3 DEF HasOwner, a, k
<1>27. Sound(q, succ, n)
  BY <1>16, <1>20, <1>21, <1>22, <1>23, <1>24, <1>25, <1>26 DEF Sound
<1>28. \A i \in DOMAIN q.kill : \E j \in DOMAIN k : q.kill[i] = k[j]
  BY <1>10, <1>12
<1> QED BY <1>12, <1>15, <1>20, <1>27, <1>28 DEF a, k

(* process_list_process_kill_list: entries keep their processes, and are    *)
(* sent the next signal.                                                    *)
LEMMA KillSound ==
    ASSUME NEW pl, NEW succ, NEW n \in Nat, Sound(pl, succ, n), NEW m,
           NEW q, q = KillListProcessed(pl, m)
    PROVE  /\ Sound(q, succ, n)
           /\ Len(q.active) = Len(pl.active)
           /\ \A i \in DOMAIN pl.active : /\ q.active[i].name = pl.active[i].name
                                          /\ q.active[i].exec = pl.active[i].exec
           /\ m = 0 => \A i \in DOMAIN q.kill : q.kill[i].state # "RUNNING"
           /\ m = 0 /\ (\A i \in DOMAIN pl.kill : pl.kill[i].state # "RUNNING") =>
                 \A i \in DOMAIN q.kill : q.kill[i].state = "SIGKILL_SENT"
<1> DEFINE v == Waitpid(pl)
           k == v.kill
           Next1(i) == IF m = 0 \/ i <= m THEN Signalled(k[i]) ELSE k[i]
<1>1. /\ Sound(v, succ, n)
      /\ Len(v.active) = Len(pl.active)
      /\ \A i \in DOMAIN pl.active : /\ v.active[i].name = pl.active[i].name
                                     /\ v.active[i].exec = pl.active[i].exec
      /\ \A i \in DOMAIN v.kill : \E j \in DOMAIN pl.kill : v.kill[i] = pl.kill[j]
  <2>1. v = Waitpid(pl)
    OBVIOUS
  <2> HIDE DEF v
  <2> QED BY <2>1, WaitpidSound
<1>2. q = [v EXCEPT !.kill = [i \in DOMAIN v.kill |-> Next1(i)]]
  BY DEF KillListProcessed
<1> HIDE DEF v
<1>3. /\ v.active \in Seq(Entry) /\ k \in Seq(Entry) /\ v.allocated \in Nat
      /\ v.procs \in [Pids -> ProcStates]
      /\ Len(k) \in Nat /\ DOMAIN k = 1..Len(k)
      /\ v = [active |-> v.active, kill |-> k, allocated |-> v.allocated, procs |-> v.procs]
  BY <1>1, SoundParts
<1>4. /\ q.active = v.active /\ q.allocated = v.allocated /\ q.procs = v.procs
      /\ q.kill = [i \in DOMAIN k |-> Next1(i)]
      /\ q = [active |-> q.active, kill |-> q.kill, allocated |-> q.allocated, procs |-> q.procs]
  <2>1. q = [active |-> v.active, kill |-> [i \in DOMAIN k |-> Next1(i)],
             allocated |-> v.allocated, procs |-> v.procs]
    <3> HIDE DEF Next1
    <3> QED BY <1>2, <1>3
  <2> HIDE DEF Next1, k
  <2> QED BY <2>1
<1>5. \A i \in DOMAIN k : /\ k[i] \in Entry /\ HasProcess(k[i]) /\ Owns(v, k[i], succ)
                          /\ k[i].exec <= n
  <2>1. \A i \in DOMAIN k : k[i] \in Entry
    BY <1>3
  <2> QED BY <1>1, <2>1 DEF Sound
<1> HIDE DEF k
<1>6. \A i \in DOMAIN k :
         /\ Signalled(k[i]) \in Entry /\ HasProcess(Signalled(k[i]))
         /\ Signalled(k[i]).pid = k[i].pid /\ Signalled(k[i]).status = k[i].status
         /\ Signalled(k[i]).exec = k[i].exec /\ Signalled(k[i]).name = k[i].name
         /\ Signalled(k[i]).state # "FINISHED" /\ Signalled(k[i]).state # "RUNNING"
         /\ k[i].state # "RUNNING" => Signalled(k[i]).state = "SIGKILL_SENT"
  <2> SUFFICES ASSUME NEW i \in DOMAIN k, NEW e, e = k[i]
               PROVE  /\ Signalled(e) \in Entry /\ HasProcess(Signalled(e))
                      /\ Signalled(e).pid = e.pid /\ Signalled(e).status = e.status
                      /\ Signalled(e).exec = e.exec /\ Signalled(e).name = e.name
                      /\ Signalled(e).state # "FINISHED" /\ Signalled(e).state # "RUNNING"
                      /\ e.state # "RUNNING" => Signalled(e).state = "SIGKILL_SENT"
    OBVIOUS
  <2>1. e \in Entry
    BY <1>5
  <2> DEFINE st == IF e.state = "RUNNING" THEN "SIGTERM_SENT" ELSE "SIGKILL_SENT"
  <2>2. Signalled(e) = [e EXCEPT !.state = st]
    BY <2>1 DEF Signalled, Entry
  <2>3. st \in {"SIGTERM_SENT", "SIGKILL_SENT"} /\ (e.state # "RUNNING" => st = "SIGKILL_SENT")
    OBVIOUS
  <2> HIDE DEF st
  <2>4. /\ Signalled(e) \in Entry /\ Signalled(e).state = st
        /\ Signalled(e).pid = e.pid /\ Signalled(e).status = e.status
        /\ Signalled(e).exec = e.exec /\ Signalled(e).name = e.name
    BY <2>1, <2>2, <2>3 DEF Entry, States
  <2> QED BY <2>3, <2>4 DEF HasProcess
<1>7. \A i \in DOMAIN k :
         /\ Next1(i) \in Entry /\ HasProcess(Next1(i)) /\ Next1(i).pid = k[i].pid
         /\ Next1(i).exec <= n /\ Owns(v, Next1(i), succ)
  <2> SUFFICES ASSUME NEW i \in DOMAIN k
               PROVE  /\ Next1(i) \in Entry /\ HasProcess(Next1(i)) /\ Next1(i).pid = k[i].pid
                      /\ Next1(i).exec <= n /\ Owns(v, Next1(i), succ)
    OBVIOUS
  <2>1. Owns(v, Signalled(k[i]), succ)
    BY <1>5, <1>6 DEF Owns
  <2>2. CASE m = 0 \/ i <= m
    <3>1. Next1(i) = Signalled(k[i])
      BY <2>2
    <3> HIDE DEF Next1
    <3> QED BY <1>5, <1>6, <2>1, <3>1
  <2>3. CASE ~(m = 0 \/ i <= m)
    <3>1. Next1(i) = k[i]
      BY <2>3
    <3> HIDE DEF Next1
    <3> QED BY <1>5, <3>1
  <2> QED BY <2>2, <2>3
<1>8. m = 0 => \A i \in DOMAIN k : Next1(i) = Signalled(k[i])
  OBVIOUS
<1> HIDE DEF Next1
<1>9. /\ DOMAIN q.kill = DOMAIN k
      /\ \A i \in DOMAIN k : q.kill[i] = Next1(i)
  BY <1>4
<1>10. q.kill \in Seq(Entry) /\ Len(q.kill) = Len(k)
  <2>1. q.kill \in [1..Len(k) -> Entry]
    BY <1>3, <1>4, <1>7
  <2> QED BY <1>3, <2>1, FunctionIsSeq
<1>11. q \in PlistType /\ q.allocated = Len(q.active) + Len(q.kill) /\ q.allocated <= MaxProcesses
  <2>1. v.allocated = Len(v.active) + Len(k) /\ v.allocated <= MaxProcesses
    BY <1>1 DEF Sound, k
  <2> QED BY <1>3, <1>4, <1>10, <2>1 DEF PlistType
<1>12. \A e : Owns(q, e, succ) = Owns(v, e, succ)
  BY <1>4 DEF Owns
<1>13. \A i \in DOMAIN q.active : Owns(q, q.active[i], succ) /\ q.active[i].exec <= n
  BY <1>1, <1>4, <1>12 DEF Sound
<1>14. \A i \in DOMAIN q.kill : /\ Owns(q, q.kill[i], succ) /\ q.kill[i].exec <= n
                                /\ HasProcess(q.kill[i]) /\ q.kill[i].pid = k[i].pid
  BY <1>7, <1>9, <1>12
<1>15. Apart(v.active) /\ Apart(k) /\ ApartFrom(v.active, k)
  BY <1>1 DEF Sound, k
<1>16. Apart(q.active) /\ Apart(q.kill) /\ ApartFrom(q.active, q.kill)
  <2>1. Apart(q.kill)
    BY <1>5, <1>9, <1>14, <1>15 DEF Apart
  <2>2. ApartFrom(q.active, q.kill)
    BY <1>4, <1>5, <1>9, <1>14, <1>15 DEF ApartFrom
  <2> QED BY <1>4, <1>15, <2>1, <2>2
<1>17. \A p \in Pids : q.procs[p] # "free" => HasOwner(q, p)
  <2> SUFFICES ASSUME NEW p \in Pids, q.procs[p] # "free" PROVE HasOwner(q, p)
    OBVIOUS
  <2>1. HasOwner(v, p)
    BY <1>1, <1>4 DEF Sound
  <2> QED BY <1>4, <1>9, <1>14, <2>1 DEF HasOwner, k
<1>18. Sound(q, succ, n)
  BY <1>11, <1>13, <1>14, <1>16, <1>17 DEF Sound
<1>19. m = 0 => \A i \in DOMAIN q.kill : q.kill[i].state # "RUNNING"
  BY <1>6, <1>8, <1>9
<1>20. ASSUME m = 0, \A i \in DOMAIN pl.kill : pl.kill[i].state # "RUNNING", NEW i \in DOMAIN q.kill
       PROVE  q.kill[i].state = "SIGKILL_SENT"
  <2>1. PICK j \in DOMAIN pl.kill : k[i] = pl.kill[j]
    BY <1>1, <1>9 DEF k
  <2> QED BY <1>6, <1>8, <1>9, <1>20, <2>1
<1> QED BY <1>1, <1>4, <1>18, <1>19, <1>20

(* process_list_add for a list of names                                     *)
LEMMA AddedSound ==
    ASSUME NEW pl, NEW succ, NEW n \in Nat, Sound(pl, succ, n), pl.active = <<>>,
           NEW names \in Seq(Names), NEW seq \in 0..n, NEW q, q = Added(pl, names, seq)
    PROVE  /\ Sound(q, succ, n)
           /\ q.procs = pl.procs
           /\ Len(q.active) <= Len(names)
           /\ Fits(pl, names) => Len(q.active) = Len(names)
           /\ \A i \in DOMAIN q.active : q.active[i] = NewEntry(names[i], seq)
<1> DEFINE c == IF Fits(pl, names) THEN Len(names) ELSE MaxProcesses - pl.allocated
           new == [i \in 1..c |-> NewEntry(names[i], seq)]
<1>1. /\ pl.kill \in Seq(Entry) /\ pl.allocated \in Nat /\ pl.procs \in [Pids -> ProcStates]
      /\ Len(pl.kill) \in Nat
      /\ pl = [active |-> <<>>, kill |-> pl.kill, allocated |-> pl.allocated, procs |-> pl.procs]
  BY SoundParts
<1>2. pl.allocated = Len(pl.kill) /\ pl.allocated <= MaxProcesses
  BY <1>1 DEF Sound
<1>3. c \in 0..Len(names) /\ pl.allocated + c <= MaxProcesses /\ Len(names) \in Nat
  BY <1>1, <1>2, ProcessListAssumption DEF Fits
<1>4. q = [pl EXCEPT !.active = pl.active \o new, !.allocated = pl.allocated + c]
  BY DEF Added
<1>5. Fits(pl, names) => c = Len(names)
  OBVIOUS
<1> HIDE DEF c
<1>6. \A i \in 1..c : names[i] \in Names /\ NewEntry(names[i], seq) \in Entry
  <2> SUFFICES ASSUME NEW i \in 1..c
               PROVE  names[i] \in Names /\ NewEntry(names[i], seq) \in Entry
    OBVIOUS
  <2>1. i \in 1..Len(names)
    BY <1>3
  <2>2. names[i] \in Names
    BY <2>1
  <2> QED BY <2>2 DEF NewEntry, Entry, States
<1>7. new \in [1..c -> Entry] /\ \A i \in 1..c : new[i] = NewEntry(names[i], seq)
  BY <1>6
<1> HIDE DEF new
<1>8. new \in Seq(Entry) /\ Len(new) = c /\ DOMAIN new = 1..c
  BY <1>3, <1>7, FunctionIsSeq
<1>9. q = [active |-> new, kill |-> pl.kill, allocated |-> pl.allocated + c, procs |-> pl.procs]
  <2>1. pl.active \o new = new
    BY <1>8, ConcatEmptySeq
  <2> QED BY <1>1, <1>4, <2>1
<1>10. /\ q.active = new /\ q.kill = pl.kill /\ q.allocated = pl.allocated + c
       /\ q.procs = pl.procs
  BY <1>9
<1>11. q \in PlistType /\ q.allocated = Len(q.active) + Len(q.kill) /\ q.allocated <= MaxProcesses
  <2>1. pl.allocated + c \in Nat
    BY <1>1, <1>3
  <2>2. q \in PlistType
    BY <1>1, <1>8, <1>9, <2>1 DEF PlistType
  <2>3. q.allocated = Len(q.active) + Len(q.kill)
    <3>1. Len(q.active) = c /\ Len(q.kill) = pl.allocated
      BY <1>2, <1>8, <1>10
    <3>2. c \in Int /\ pl.allocated \in Int
      BY <1>1, <1>3
    <3> QED BY <1>10, <3>1, <3>2
  <2> QED BY <1>3, <1>10, <2>2, <2>3
<1>12. \A i \in DOMAIN q.active : /\ q.active[i].state = "INITIALIZED" /\ q.active[i].status = "none"
                                  /\ q.active[i].exec = seq
  BY <1>7, <1>8, <1>10 DEF NewEntry
<1>13. \A i \in DOMAIN q.active : ~HasProcess(q.active[i])
  BY <1>12 DEF HasProcess
<1>14. \A e : Owns(q, e, succ) = Owns(pl, e, succ)
  BY <1>10 DEF Owns
<1>15. \A i \in DOMAIN q.active : Owns(q, q.active[i], succ) /\ q.active[i].exec <= n
  BY <1>12, <1>13 DEF Owns
<1>16. \A i \in DOMAIN q.kill : /\ Owns(q, q.kill[i], succ) /\ q.kill[i].exec <= n
                                /\ HasProcess(q.kill[i])
  BY <1>10, <1>14 DEF Sound
<1>17. Apart(q.active) /\ Apart(q.kill) /\ ApartFrom(q.active, q.kill)
  <2>1. Apart(q.kill)
    BY <1>10 DEF Sound
  <2> QED BY <1>13, <2>1 DEF Apart, ApartFrom
<1>18. \A p \in Pids : q.procs[p] # "free" => HasOwner(q, p)
  <2> SUFFICES ASSUME NEW p \in Pids, q.procs[p] # "free" PROVE HasOwner(q, p)
    OBVIOUS
  <2>1. HasOwner(pl, p)
    BY <1>10 DEF Sound
  <2> QED BY <1>10, <2>1 DEF HasOwner
<1>19. Sound(q, succ, n)
  BY <1>11, <1>15, <1>16, <1>17, <1>18 DEF Sound
<1> QED BY <1>3, <1>5, <1>7, <1>8, <1>10, <1>19

(* The pids that fork returns are free, and each is returned once.          *)
LEMMA FreePidsDistinct ==
    ASSUME NEW pl, pl.procs \in [Pids -> ProcStates], NEW f, f = FreePids(pl)
    PROVE  /\ Len(f) \in Nat /\ f \in [1..Len(f) -> Pids]
           /\ \A i \in 1..Len(f) : pl.procs[f[i]] = "free"
           /\ \A i, j \in 1..Len(f) : f[i] = f[j] => i = j
<1> DEFINE F == {p \in Pids : pl.procs[p] = "free"}
           c == Cardinality(F)
<1>1. IsFiniteSet(F)
  <2>1. F \in SUBSET Pids
    OBVIOUS
  <2> HIDE DEF F
  <2> QED BY <2>1, ProcessListAssumption, FS_Subset
<1>2. c \in Nat /\ ExistsBijection(1..c, F)
  <2> HIDE DEF F
  <2> QED BY <1>1, FS_CardinalityType
<1>3. \E g \in [1..c -> F] : IsInjective(g)
  <2> HIDE DEF F, c
  <2> QED BY <1>2 DEF ExistsBijection, Bijection, Injection
<1>4. f \in [1..c -> F] /\ IsInjective(f)
  <2>1. f = SetToSeq(F)
    BY DEF FreePids
  <2> HIDE DEF F, c
  <2>2. \E g \in [1..Cardinality(F) -> F] : IsInjective(g)
    BY <1>3 DEF c
  <2>3. SetToSeq(F) \in [1..Cardinality(F) -> F] /\ IsInjective(SetToSeq(F))
    BY <2>2 DEF SetToSeq, IsInjective
  <2> QED BY <2>1, <2>3 DEF c
<1>5. f \in [1..c -> Pids] /\ \A i \in 1..c : pl.procs[f[i]] = "free"
  <2>1. \A i \in 1..c : f[i] \in F
    <3> HIDE DEF F, c
    <3> QED BY <1>4
  <2>2. \A i \in 1..c : f[i] \in Pids /\ pl.procs[f[i]] = "free"
    BY <2>1
  <2> HIDE DEF F, c
  <2> QED BY <1>4, <2>2
<1> HIDE DEF F, c
<1>6. Len(f) = c
  BY <1>2, <1>5, FunctionIsSeq
<1> QED BY <1>2, <1>4, <1>5, <1>6 DEF IsInjective

(* process_list_exec_initialized, for a list that has no process yet        *)
LEMMA ForkedSound ==
    ASSUME NEW pl, NEW succ, NEW n \in Nat, Sound(pl, succ, n),
           \A i \in DOMAIN pl.active : /\ pl.active[i].state = "INITIALIZED"
                                       /\ pl.active[i].status = "none",
           NEW m \in 0..Len(pl.active), m <= Len(FreePids(pl)), NEW q, q = Forked(pl, m)
    PROVE  /\ Sound(q, succ, n)
           /\ Len(q.active) = Len(pl.active)
           /\ \A i \in DOMAIN pl.active : /\ q.active[i].name = pl.active[i].name
                                          /\ q.active[i].exec = pl.active[i].exec
<1> DEFINE a == pl.active
           f == FreePids(pl)
           fork == {i \in Initialized(pl) : Cardinality({x \in Initialized(pl) : x <= i}) <= m}
           Pid(i) == f[Cardinality({x \in fork : x <= i})]
           New(i) == [a[i] EXCEPT !.state = "RUNNING", !.pid = f[i]]
<1>1. /\ a \in Seq(Entry) /\ pl.kill \in Seq(Entry) /\ pl.allocated \in Nat
      /\ pl.procs \in [Pids -> ProcStates]
      /\ Len(a) \in Nat /\ DOMAIN a = 1..Len(a) /\ Len(pl.kill) \in Nat
      /\ pl = [active |-> a, kill |-> pl.kill, allocated |-> pl.allocated, procs |-> pl.procs]
  BY SoundParts
<1>2. Initialized(pl) = 1..Len(a)
  BY <1>1 DEF Initialized
<1>3. \A j \in Nat : Cardinality(1..j) = j
  <2> SUFFICES ASSUME NEW j \in Nat PROVE Cardinality(1..j) = j
    OBVIOUS
  <2>1. Cardinality(1..j) = IF 1 > j THEN 0 ELSE j - 1 + 1
    BY FS_Interval
  <2> QED BY <2>1
<1>4. fork = 1..m
  <2>1. \A i \in 1..Len(a) : {x \in 1..Len(a) : x <= i} = 1..i
    BY <1>1
  <2>2. \A i \in 1..Len(a) : Cardinality({x \in 1..Len(a) : x <= i}) = i
    <3> SUFFICES ASSUME NEW i \in 1..Len(a)
                 PROVE  Cardinality({x \in 1..Len(a) : x <= i}) = i
      OBVIOUS
    <3>1. i \in Nat
      OBVIOUS
    <3> QED BY <1>3, <2>1, <3>1
  <2>3. fork = {i \in 1..Len(a) : Cardinality({x \in 1..Len(a) : x <= i}) <= m}
    BY <1>2
  <2>4. \A i : i \in fork <=> i \in 1..m
    <3> HIDE DEF fork, a
    <3>1. \A i : i \in fork <=> i \in 1..Len(a) /\ i <= m
      BY <2>2, <2>3
    <3> QED BY <1>1, <3>1
  <2> QED BY <2>4
<1>5. \A i \in 1..m : Pid(i) = f[i]
  <2> SUFFICES ASSUME NEW i \in 1..m PROVE Cardinality({x \in fork : x <= i}) = i
    OBVIOUS
  <2> HIDE DEF fork
  <2>1. {x \in fork : x <= i} = 1..i /\ i \in Nat
    BY <1>4
  <2> QED BY <1>3, <2>1
<1>6. q = [pl EXCEPT
             !.active = [i \in DOMAIN a |->
                           IF i \in fork THEN [a[i] EXCEPT !.state = "RUNNING", !.pid = Pid(i)]
                           ELSE a[i]],
             !.procs = [p \in Pids |-> IF \E i \in fork : Pid(i) = p THEN "run" ELSE pl.procs[p]]]
  BY DEF Forked
<1>7. /\ Len(f) \in Nat /\ f \in [1..Len(f) -> Pids]
      /\ \A i \in 1..Len(f) : pl.procs[f[i]] = "free"
      /\ \A i, j \in 1..Len(f) : f[i] = f[j] => i = j
  <2>1. f = FreePids(pl)
    OBVIOUS
  <2> HIDE DEF f
  <2> QED BY <1>1, <2>1, FreePidsDistinct
<1>8. m \in Nat /\ m <= Len(f) /\ m <= Len(a)
  BY <1>1
<1> HIDE DEF a, f
<1>9. \A i \in 1..m : /\ i \in 1..Len(f) /\ f[i] \in Pids /\ pl.procs[f[i]] = "free"
                      /\ i \in DOMAIN a
  BY <1>1, <1>7, <1>8
<1>10. \A i, j \in 1..m : f[i] = f[j] => i = j
  BY <1>7, <1>9
<1> DEFINE act == [i \in 1..Len(a) |-> IF i \in 1..m THEN New(i) ELSE a[i]]
           prc == [p \in Pids |-> IF \E i \in 1..m : f[i] = p THEN "run" ELSE pl.procs[p]]
<1>11. /\ [i \in DOMAIN a |-> IF i \in fork THEN [a[i] EXCEPT !.state = "RUNNING", !.pid = Pid(i)]
                              ELSE a[i]] = act
       /\ [p \in Pids |-> IF \E i \in fork : Pid(i) = p THEN "run" ELSE pl.procs[p]] = prc
  <2> HIDE DEF fork, Pid
  <2> QED BY <1>1, <1>4, <1>5
<1>12. q = [active |-> act, kill |-> pl.kill, allocated |-> pl.allocated, procs |-> prc]
  <2>1. q = [pl EXCEPT !.active = act, !.procs = prc]
    BY <1>6, <1>11
  <2> HIDE DEF act, prc
  <2> QED BY <1>1, <2>1
<1>13. q.active = act /\ q.kill = pl.kill /\ q.allocated = pl.allocated /\ q.procs = prc
  <2> HIDE DEF act, prc
  <2> QED BY <1>12
<1>14. \A i \in DOMAIN a : a[i] \in Entry /\ a[i].state = "INITIALIZED"
  BY <1>1 DEF a
<1>15. \A i \in 1..m : /\ New(i) \in Entry /\ New(i).state = "RUNNING" /\ New(i).pid = f[i]
                       /\ New(i).name = a[i].name /\ New(i).exec = a[i].exec
                       /\ New(i).status = a[i].status
  <2> SUFFICES ASSUME NEW i \in 1..m
               PROVE  /\ New(i) \in Entry /\ New(i).state = "RUNNING" /\ New(i).pid = f[i]
                      /\ New(i).name = a[i].name /\ New(i).exec = a[i].exec
                      /\ New(i).status = a[i].status
    OBVIOUS
  <2>1. a[i] \in Entry /\ f[i] \in Pids
    BY <1>9, <1>14
  <2> QED BY <2>1 DEF Entry, States
<1> HIDE DEF New
<1>16. act \in [1..Len(a) -> Entry]
  BY <1>1, <1>14, <1>15
<1>17. \A i \in 1..Len(a) : act[i] = IF i \in 1..m THEN New(i) ELSE a[i]
  OBVIOUS
<1>18. prc \in [Pids -> ProcStates]
  BY <1>1 DEF ProcStates
<1>19. /\ \A i \in 1..m : prc[f[i]] = "run"
       /\ \A p \in Pids : pl.procs[p] # "free" => prc[p] = pl.procs[p]
       /\ \A p \in Pids : prc[p] # "free" => pl.procs[p] # "free" \/ \E i \in 1..m : f[i] = p
  BY <1>9
<1> HIDE DEF act, prc
<1>20. act \in Seq(Entry) /\ Len(act) = Len(a) /\ DOMAIN act = 1..Len(a)
  BY <1>1, <1>16, FunctionIsSeq
<1>21. /\ pl.allocated = Len(a) + Len(pl.kill) /\ pl.allocated <= MaxProcesses
       /\ \A i \in DOMAIN a : Owns(pl, a[i], succ) /\ a[i].exec <= n
       /\ \A i \in DOMAIN pl.kill : /\ Owns(pl, pl.kill[i], succ) /\ pl.kill[i].exec <= n
                                    /\ HasProcess(pl.kill[i])
       /\ Apart(pl.kill)
       /\ \A p \in Pids : pl.procs[p] # "free" => HasOwner(pl, p)
  BY DEF Sound, a
<1>22. q \in PlistType /\ q.allocated = Len(q.active) + Len(q.kill) /\ q.allocated <= MaxProcesses
  BY <1>1, <1>12, <1>13, <1>18, <1>20, <1>21 DEF PlistType
<1>23. \A i \in DOMAIN a : ~HasProcess(a[i])
  BY <1>14 DEF HasProcess
<1>24. \A i \in DOMAIN q.active : HasProcess(q.active[i]) => i \in 1..m /\ q.active[i].pid = f[i]
  BY <1>1, <1>13, <1>15, <1>17, <1>20, <1>23
<1>25. ASSUME NEW i \in DOMAIN q.active
       PROVE  /\ Owns(q, q.active[i], succ) /\ q.active[i].exec <= n
              /\ q.active[i].name = a[i].name /\ q.active[i].exec = a[i].exec
  <2>1. i \in DOMAIN a /\ q.active[i] = act[i]
    BY <1>1, <1>13, <1>20
  <2>2. CASE i \in 1..m
    <3>1. act[i] = New(i)
      BY <1>1, <1>17, <2>1, <2>2
    <3>2. a[i].status = "none"
      BY <2>1 DEF a
    <3>3. New(i).status = "none" /\ New(i).state = "RUNNING" /\ New(i).pid \in Pids
          /\ q.procs[New(i).pid] = "run"
      BY <1>9, <1>13, <1>15, <1>19, <2>2, <3>2
    <3>4. Owns(q, New(i), succ)
      BY <3>3 DEF Owns
    <3> QED BY <1>15, <1>21, <2>1, <2>2, <3>1, <3>4
  <2>3. CASE i \notin 1..m
    <3>1. act[i] = a[i]
      BY <1>1, <1>17, <2>1, <2>3
    <3>2. Owns(q, a[i], succ)
      BY <1>21, <1>23, <2>1 DEF Owns
    <3> QED BY <1>21, <2>1, <3>1, <3>2
  <2> QED BY <2>2, <2>3
<1>26. ASSUME NEW i \in DOMAIN q.kill
       PROVE  /\ Owns(q, q.kill[i], succ) /\ q.kill[i].exec <= n /\ HasProcess(q.kill[i])
  <2>1. /\ Owns(pl, pl.kill[i], succ) /\ HasProcess(pl.kill[i]) /\ pl.kill[i].exec <= n
        /\ q.kill[i] = pl.kill[i]
    BY <1>13, <1>21
  <2>2. pl.kill[i].pid \in Pids /\ pl.procs[pl.kill[i].pid] # "free"
    BY <2>1 DEF Owns
  <2>3. q.procs[pl.kill[i].pid] = pl.procs[pl.kill[i].pid]
    BY <1>13, <1>19, <2>2
  <2> QED BY <2>1, <2>3 DEF Owns
<1>27. Apart(q.active)
  BY <1>10, <1>24 DEF Apart
<1>28. ApartFrom(q.active, q.kill)
  <2> SUFFICES ASSUME NEW i \in DOMAIN q.active, NEW j \in DOMAIN q.kill,
                      HasProcess(q.active[i]), HasProcess(q.kill[j]),
                      q.active[i].pid = q.kill[j].pid
               PROVE  FALSE
    BY DEF ApartFrom
  <2>1. pl.procs[q.kill[j].pid] # "free"
    BY <1>13, <1>21 DEF Owns
  <2>2. pl.procs[q.active[i].pid] = "free"
    BY <1>9, <1>24
  <2> QED BY <2>1, <2>2
<1>29. ASSUME NEW p \in Pids, q.procs[p] # "free" PROVE HasOwner(q, p)
  <2>1. CASE pl.procs[p] # "free"
    <3>1. HasOwner(pl, p)
      BY <1>21, <2>1
    <3>2. \E i \in DOMAIN pl.kill : HasProcess(pl.kill[i]) /\ pl.kill[i].pid = p
      BY <1>23, <3>1 DEF HasOwner, a
    <3> QED BY <1>13, <3>2 DEF HasOwner
  <2>2. CASE \E i \in 1..m : f[i] = p
    <3>1. PICK i \in 1..m : f[i] = p
      BY <2>2
    <3>2. i \in DOMAIN q.active /\ q.active[i] = New(i)
      BY <1>1, <1>9, <1>13, <1>17, <1>20
    <3>3. HasProcess(q.active[i]) /\ q.active[i].pid = p
      BY <1>15, <3>1, <3>2 DEF HasProcess
    <3> QED BY <3>2, <3>3 DEF HasOwner
  <2> QED BY <1>13, <1>19, <1>29, <2>1, <2>2
<1>30. Apart(q.kill)
  BY <1>13, <1>21
<1>31. Sound(q, succ, n)
  BY <1>22, <1>25, <1>26, <1>27, <1>28, <1>29, <1>30 DEF Sound
<1>32. Len(q.active) = Len(pl.active) /\ DOMAIN q.active = DOMAIN pl.active
  BY <1>1, <1>13, <1>20 DEF a
<1> QED BY <1>25, <1>31, <1>32 DEF a

(***************************************************************************)
(* qdevice_heuristics_worker_cmd_process_exec: after an execution that is  *)
(* over at once nothing is active, and one that runs has an entry for      *)
(* every name of the list.                                                 *)
(***************************************************************************)
LEMMA OutcomesSound ==
    ASSUME NEW pl, NEW succ, NEW n \in Nat, Sound(pl, succ, n), pl.active = <<>>,
           NEW names \in Seq(Names), NEW seq \in 0..n,
           NEW out \in ExecOutcomes(pl, names, seq)
    PROVE  /\ Sound(out.plist, succ, n)
           /\ out.runs \in BOOLEAN
           /\ ~out.runs => /\ out.plist.active = <<>>
                           /\ out.result \in {"FAIL", "DISABLED"}
                           /\ (out.result = "DISABLED") = (names = <<>>)
           /\ out.runs => /\ names # <<>>
                          /\ Len(out.plist.active) = Len(names)
                          /\ \A i \in DOMAIN out.plist.active :
                                /\ out.plist.active[i].exec = seq
                                /\ out.plist.active[i].name = names[i]
<1>1. CASE names = <<>>
  <2>1. out = [plist |-> pl, runs |-> FALSE, result |-> "DISABLED"]
    BY <1>1 DEF ExecOutcomes
  <2>2. out.plist = pl /\ out.runs = FALSE /\ out.result = "DISABLED"
    BY <2>1
  <2> QED BY <1>1, <2>2
<1>2. CASE names # <<>>
  <2> DEFINE added == Added(pl, names, seq)
             Failed(x) == [plist |-> MoveActiveToKillList(x), runs |-> FALSE, result |-> "FAIL"]
  <2>1. out \in {Failed(added)} \cup
             (IF ~Fits(pl, names) THEN {}
              ELSE {Failed(Forked(added, i)) : i \in Forks(pl, names)}
                     \cup {[plist |-> Forked(added, i), runs |-> TRUE, result |-> "none"] :
                              i \in Forks(pl, names) \cap {Len(names)}})
    BY <1>2 DEF ExecOutcomes
  <2>2. /\ Sound(added, succ, n)
        /\ added.procs = pl.procs
        /\ Fits(pl, names) => Len(added.active) = Len(names)
        /\ \A i \in DOMAIN added.active : added.active[i] = NewEntry(names[i], seq)
    <3>1. added = Added(pl, names, seq)
      OBVIOUS
    <3> HIDE DEF added
    <3> QED BY <3>1, AddedSound
  <2> HIDE DEF added
  <2>3. ASSUME NEW x, Sound(x, succ, n), out = Failed(x)
        PROVE  /\ Sound(out.plist, succ, n) /\ out.plist.active = <<>>
               /\ out.runs = FALSE /\ out.result = "FAIL"
    <3>1. out.plist = MoveActiveToKillList(x) /\ out.runs = FALSE /\ out.result = "FAIL"
      BY <2>3
    <3> QED BY <2>3, <3>1, MoveSound
  <2>4. \A i \in DOMAIN added.active : /\ added.active[i].state = "INITIALIZED"
                                       /\ added.active[i].status = "none"
                                       /\ added.active[i].exec = seq
                                       /\ added.active[i].name = names[i]
    <3> SUFFICES ASSUME NEW i \in DOMAIN added.active, NEW e, e = added.active[i]
                 PROVE  e.state = "INITIALIZED" /\ e.status = "none" /\ e.exec = seq
                          /\ e.name = names[i]
      OBVIOUS
    <3>1. e = NewEntry(names[i], seq)
      BY <2>2
    <3> QED BY <3>1 DEF NewEntry
  <2>5. ASSUME NEW i \in Forks(pl, names), Fits(pl, names)
        PROVE  /\ Sound(Forked(added, i), succ, n)
               /\ Len(Forked(added, i).active) = Len(names)
               /\ \A j \in DOMAIN Forked(added, i).active :
                     /\ Forked(added, i).active[j].exec = seq
                     /\ Forked(added, i).active[j].name = names[j]
    <3>1. FreePids(added) = FreePids(pl)
      BY <2>2 DEF FreePids
    <3>2. i \in 0..Len(added.active) /\ i <= Len(FreePids(added))
      BY <2>2, <2>5, <3>1 DEF Forks
    <3>3. /\ Sound(Forked(added, i), succ, n)
          /\ Len(Forked(added, i).active) = Len(added.active)
          /\ \A j \in DOMAIN added.active :
                /\ Forked(added, i).active[j].name = added.active[j].name
                /\ Forked(added, i).active[j].exec = added.active[j].exec
      BY <2>2, <2>4, <3>2, ForkedSound
    <3>4. DOMAIN Forked(added, i).active = DOMAIN added.active
      BY <2>2, <3>3, SoundParts
    <3> QED BY <2>2, <2>4, <2>5, <3>3, <3>4
  <2>6. CASE out = Failed(added)
    BY <1>2, <2>2, <2>3, <2>6
  <2>7. ASSUME Fits(pl, names), NEW i \in Forks(pl, names), out = Failed(Forked(added, i))
        PROVE  /\ Sound(out.plist, succ, n) /\ out.plist.active = <<>>
               /\ out.runs = FALSE /\ out.result = "FAIL"
    BY <2>3, <2>5, <2>7
  <2>8. ASSUME Fits(pl, names), NEW i \in Forks(pl, names),
               out = [plist |-> Forked(added, i), runs |-> TRUE, result |-> "none"]
        PROVE  /\ Sound(out.plist, succ, n)
               /\ out.runs = TRUE
               /\ Len(out.plist.active) = Len(names)
               /\ \A j \in DOMAIN out.plist.active : /\ out.plist.active[j].exec = seq
                                                     /\ out.plist.active[j].name = names[j]
    <3>1. out.plist = Forked(added, i) /\ out.runs = TRUE
      BY <2>8
    <3> QED BY <2>5, <2>8, <3>1
  <2>9. \/ out = Failed(added)
        \/ Fits(pl, names) /\ \E i \in Forks(pl, names) : out = Failed(Forked(added, i))
        \/ /\ Fits(pl, names)
           /\ \E i \in Forks(pl, names) :
                 out = [plist |-> Forked(added, i), runs |-> TRUE, result |-> "none"]
    <3> HIDE DEF Failed
    <3> QED BY <2>1
  <2> HIDE DEF Failed
  <2>10. CASE out = Failed(added)
    BY <1>2, <2>6, <2>10
  <2>11. CASE Fits(pl, names) /\ \E i \in Forks(pl, names) : out = Failed(Forked(added, i))
    BY <1>2, <2>7, <2>11
  <2>12. CASE /\ Fits(pl, names)
              /\ \E i \in Forks(pl, names) :
                    out = [plist |-> Forked(added, i), runs |-> TRUE, result |-> "none"]
    BY <1>2, <2>8, <2>12
  <2> QED BY <2>9, <2>10, <2>11, <2>12
<1> QED BY <1>1, <1>2

-----------------------------------------------------------------------------
(* The list at a position of the commands                                  *)

(* It depends on the commands before the position only.                     *)
LEMMA ListAtPrefix ==
    ASSUME NEW S \in Seq(Cmds), NEW T, NEW execs \in Seq(Names), NEW list \in Seq(Names),
           NEW i \in 1..(Len(S) + 1), \A k \in 1..Len(S) : T[k] = S[k],
           ListAt(S, execs, i, list)
    PROVE  ListAt(T, execs, i, list)
<1>1. Len(S) \in Nat /\ Len(execs) \in Nat
  OBVIOUS
<1>2. PICK j \in 0..(i - 1), m \in 0..(i - 1) : j + m < i /\ Shape(S, execs, i, list, j, m)
  BY DEF ListAt
<1>3. \A k \in 1..(i - 1) : T[k] = S[k]
  BY <1>1
<1>4. Shape(T, execs, i, list, j, m)
  <2>1. j > 0 => S[j].cmd = "exec-list-clear" /\ T[j] = S[j]
    BY <1>2, <1>3 DEF Shape
  <2>2. j = 0 => \A k \in 1..m : S[k] = AddCmd(list[Len(execs) + k]) /\ T[k] = S[k]
    BY <1>2, <1>3 DEF Shape
  <2>3. j > 0 => \A k \in 1..m : S[j + k] = AddCmd(list[k]) /\ T[j + k] = S[j + k]
    <3> SUFFICES ASSUME j > 0, NEW k \in 1..m
                 PROVE  S[j + k] = AddCmd(list[k]) /\ T[j + k] = S[j + k]
      OBVIOUS
    <3>1. j + k \in 1..(i - 1)
      BY <1>2
    <3> QED BY <1>2, <1>3, <3>1 DEF Shape
  <2>4. \A k \in (j + m + 1)..(i - 1) : S[k].cmd = "exec" /\ T[k] = S[k]
    <3> SUFFICES ASSUME NEW k \in (j + m + 1)..(i - 1)
                 PROVE  S[k].cmd = "exec" /\ T[k] = S[k]
      OBVIOUS
    <3>1. k \in 1..(i - 1)
      BY <1>2
    <3> QED BY <1>2, <1>3, <3>1 DEF Shape
  <2> QED BY <1>2, <2>1, <2>2, <2>3, <2>4 DEF Shape
<1> QED BY <1>2, <1>4 DEF ListAt

(* An execution at the end leaves the list as it is.                        *)
LEMMA ListAtExec ==
    ASSUME NEW S \in Seq(Cmds), NEW execs \in Seq(Names), NEW list \in Seq(Names),
           ListAt(S, execs, Len(S) + 1, list), NEW x, NEW T, T = Append(S, ExecCmd(x))
    PROVE  ListAt(T, execs, Len(S) + 1, list) /\ ListAt(T, execs, Len(S) + 2, list)
<1>1. Len(S) \in Nat /\ (\A k \in 1..Len(S) : T[k] = S[k]) /\ T[Len(S) + 1] = ExecCmd(x)
  OBVIOUS
<1>2. ListAt(T, execs, Len(S) + 1, list)
  <2> DEFINE i == Len(S) + 1
  <2>1. i \in 1..(Len(S) + 1) /\ (\A k \in 1..Len(S) : T[k] = S[k]) /\ ListAt(S, execs, i, list)
    BY <1>1
  <2> HIDE DEF i
  <2>2. ListAt(T, execs, i, list)
    BY <2>1, ListAtPrefix
  <2> QED BY <2>2 DEF i
<1>3. PICK j \in 0..((Len(S) + 1) - 1), m \in 0..((Len(S) + 1) - 1) :
         j + m < Len(S) + 1 /\ Shape(T, execs, Len(S) + 1, list, j, m)
  BY <1>2 DEF ListAt
<1>4. \A k \in (j + m + 1)..((Len(S) + 2) - 1) : T[k].cmd = "exec"
  <2> SUFFICES ASSUME NEW k \in (j + m + 1)..((Len(S) + 2) - 1) PROVE T[k].cmd = "exec"
    OBVIOUS
  <2>1. CASE k = Len(S) + 1
    BY <1>1, <2>1 DEF ExecCmd
  <2>2. CASE k # Len(S) + 1
    <3>1. k \in (j + m + 1)..((Len(S) + 1) - 1)
      BY <1>1, <2>2
    <3> QED BY <1>3, <3>1 DEF Shape
  <2> QED BY <2>1, <2>2
<1>5. Shape(T, execs, Len(S) + 2, list, j, m)
  BY <1>3, <1>4 DEF Shape
<1>6. j \in 0..((Len(S) + 2) - 1) /\ m \in 0..((Len(S) + 2) - 1) /\ j + m < Len(S) + 2
  BY <1>1, <1>3
<1>7. ListAt(T, execs, Len(S) + 2, list)
  BY <1>5, <1>6 DEF ListAt
<1> QED BY <1>2, <1>7

(* A new list at the end (qdevice_heuristics_cmd_write_exec_list).          *)
LEMMA ListAtNewList ==
    ASSUME NEW S \in Seq(Cmds), NEW execs \in Seq(Names), NEW list \in Seq(Names),
           NEW T, T = S \o ExecListCmds(list)
    PROVE  /\ T \in Seq(Cmds) /\ Len(T) = Len(S) + Len(list) + 1
           /\ \A k \in 1..Len(S) : T[k] = S[k]
           /\ \A k \in (Len(S) + 1)..Len(T) : T[k].cmd # "exec"
           /\ ListAt(T, execs, Len(T) + 1, list)
<1> DEFINE adds == [i \in DOMAIN list |-> AddCmd(list[i])]
           C == ExecListCmds(list)
<1>1. Len(S) \in Nat /\ Len(list) \in Nat /\ DOMAIN list = 1..Len(list)
  OBVIOUS
<1>2. adds \in [1..Len(list) -> Cmds] /\ \A i \in 1..Len(list) : adds[i] = AddCmd(list[i])
  <2>1. \A i \in 1..Len(list) : AddCmd(list[i]) \in Cmds
    <3> SUFFICES ASSUME NEW i \in 1..Len(list) PROVE AddCmd(list[i]) \in Cmds
      OBVIOUS
    <3>1. list[i] \in Names
      OBVIOUS
    <3> QED BY <3>1 DEF AddCmd, Cmds
  <2> QED BY <1>1, <2>1
<1>3. C = <<ClearCmd>> \o adds
  BY DEF ExecListCmds
<1> HIDE DEF adds
<1>4. adds \in Seq(Cmds) /\ Len(adds) = Len(list)
  BY <1>1, <1>2, FunctionIsSeq
<1>5. <<ClearCmd>> \in Seq(Cmds) /\ Len(<<ClearCmd>>) = 1 /\ <<ClearCmd>>[1] = ClearCmd
  BY DEF Cmds
<1>6. /\ C \in Seq(Cmds) /\ Len(C) = 1 + Len(list) /\ C[1] = ClearCmd
      /\ \A i \in 1..Len(list) : C[1 + i] = AddCmd(list[i])
  <2> HIDE DEF C
  <2>1. /\ C \in Seq(Cmds) /\ Len(C) = Len(<<ClearCmd>>) + Len(adds)
        /\ \A i \in 1..Len(<<ClearCmd>>) : C[i] = <<ClearCmd>>[i]
        /\ \A i \in 1..Len(adds) : C[Len(<<ClearCmd>>) + i] = adds[i]
    BY <1>3, <1>4, <1>5, ConcatAt
  <2> QED BY <1>2, <1>4, <1>5, <2>1
<1> HIDE DEF C
<1>7. /\ T \in Seq(Cmds) /\ Len(T) = Len(S) + Len(C)
      /\ \A i \in 1..Len(S) : T[i] = S[i]
      /\ \A i \in 1..Len(C) : T[Len(S) + i] = C[i]
  <2>1. T = S \o C
    BY DEF C
  <2>2. C \in Seq(Cmds)
    BY <1>6
  <2> DEFINE R == S \o C
  <2>3. R = S \o C
    OBVIOUS
  <2> HIDE DEF R
  <2>4. /\ R \in Seq(Cmds) /\ Len(R) = Len(S) + Len(C)
        /\ \A i \in 1..Len(S) : R[i] = S[i]
        /\ \A i \in 1..Len(C) : R[Len(S) + i] = C[i]
    BY <2>2, <2>3, ConcatAt
  <2> QED BY <2>1, <2>4 DEF R
<1>8. T[Len(S) + 1] = ClearCmd
  BY <1>1, <1>6, <1>7
<1>9. \A i \in 1..Len(list) : T[(Len(S) + 1) + i] = AddCmd(list[i])
  <2> SUFFICES ASSUME NEW i \in 1..Len(list) PROVE T[(Len(S) + 1) + i] = AddCmd(list[i])
    OBVIOUS
  <2>1. 1 + i \in 1..Len(C) /\ Len(S) + (1 + i) = (Len(S) + 1) + i
    BY <1>1, <1>6
  <2> QED BY <1>6, <1>7, <2>1
<1>10. Len(T) = Len(S) + Len(list) + 1
  BY <1>1, <1>6, <1>7
<1>11. Shape(T, execs, Len(T) + 1, list, Len(S) + 1, Len(list))
  <2>1. (Len(S) + 1) + Len(list) + 1 > (Len(T) + 1) - 1
    BY <1>1, <1>10
  <2>2. \A k \in ((Len(S) + 1) + Len(list) + 1)..((Len(T) + 1) - 1) : T[k].cmd = "exec"
    BY <1>1, <1>10, <2>1
  <2>3. Len(S) + 1 > 0 /\ Len(S) + 1 # 0
    BY <1>1
  <2>4. T[Len(S) + 1].cmd = "exec-list-clear"
    BY <1>8 DEF ClearCmd
  <2> DEFINE j == Len(S) + 1
             m == Len(list)
             i == Len(T) + 1
  <2>5. /\ j > 0 /\ j # 0 /\ T[j].cmd = "exec-list-clear" /\ Len(list) = m
        /\ \A k \in 1..m : T[j + k] = AddCmd(list[k])
        /\ \A k \in (j + m + 1)..(i - 1) : T[k].cmd = "exec"
    BY <1>9, <2>2, <2>3, <2>4
  <2> HIDE DEF j, m, i
  <2>6. Shape(T, execs, i, list, j, m)
    BY <2>5 DEF Shape
  <2> QED BY <2>6 DEF i, j, m
<1>12. ListAt(T, execs, Len(T) + 1, list)
  <2>1. /\ Len(S) + 1 \in 0..((Len(T) + 1) - 1) /\ Len(list) \in 0..((Len(T) + 1) - 1)
        /\ (Len(S) + 1) + Len(list) < Len(T) + 1
    BY <1>1, <1>10
  <2> QED BY <1>11, <2>1 DEF ListAt
<1>13. \A k \in (Len(S) + 1)..Len(T) : T[k].cmd # "exec"
  <2> SUFFICES ASSUME NEW k \in (Len(S) + 1)..Len(T) PROVE T[k].cmd # "exec"
    OBVIOUS
  <2>1. CASE k = Len(S) + 1
    BY <1>8, <2>1 DEF ClearCmd
  <2>2. CASE k # Len(S) + 1
    <3>1. k - (Len(S) + 1) \in 1..Len(list) /\ k = (Len(S) + 1) + (k - (Len(S) + 1))
      BY <1>1, <1>10, <2>2
    <3>2. T[k] = AddCmd(list[k - (Len(S) + 1)])
      BY <1>9, <3>1
    <3> QED BY <3>2 DEF AddCmd
  <2> QED BY <2>1, <2>2
<1> QED BY <1>7, <1>10, <1>12, <1>13

(* At the first command the worker has the list.                            *)
LEMMA ListAtFirst ==
    ASSUME NEW S, NEW execs \in Seq(Names), NEW list \in Seq(Names), ListAt(S, execs, 1, list)
    PROVE  list = execs
<1>1. PICK j \in 0..(1 - 1), m \in 0..(1 - 1) : Shape(S, execs, 1, list, j, m)
  BY DEF ListAt
<1>2. j = 0 /\ m = 0
  OBVIOUS
<1>3. Len(list) = Len(execs) /\ \A k \in 1..Len(execs) : list[k] = execs[k]
  BY <1>1, <1>2 DEF Shape
<1> QED BY <1>3, SeqEqual

(* What a command does to the worker's list.                                *)
ExecsAfter(execs, cmd) ==
    CASE cmd.cmd = "exec-list-clear" -> <<>>
      [] cmd.cmd = "exec-list-add"   -> Append(execs, cmd.name)
      [] cmd.cmd = "exec"            -> execs

(* The first command is processed: the others move up.                      *)
LEMMA ListAtTail ==
    ASSUME NEW S \in Seq(Cmds), S # <<>>, NEW execs \in Seq(Names), NEW list \in Seq(Names),
           NEW i \in 2..(Len(S) + 1), ListAt(S, execs, i, list)
    PROVE  ListAt(Tail(S), ExecsAfter(execs, Head(S)), i - 1, list)
<1> DEFINE T == Tail(S)
           c == Head(S)
           e == ExecsAfter(execs, c)
<1>1. /\ Len(S) \in Nat /\ Len(S) > 0 /\ c = S[1] /\ Len(T) = Len(S) - 1 /\ c \in Cmds
      /\ \A k \in 1..(Len(S) - 1) : T[k] = S[k + 1]
      /\ Len(execs) \in Nat /\ Len(list) \in Nat
  OBVIOUS
<1>2. \A k \in 2..Len(S) : T[k - 1] = S[k]
  BY <1>1
<1>3. PICK j \in 0..(i - 1), m \in 0..(i - 1) : j + m < i /\ Shape(S, execs, i, list, j, m)
  BY DEF ListAt
<1> HIDE DEF T, c
<1>4. \A k \in ((j + m + 1) - 1)..((i - 1) - 1) : k > 0 => T[k].cmd = "exec"
  <2> SUFFICES ASSUME NEW k \in ((j + m + 1) - 1)..((i - 1) - 1), k > 0 PROVE T[k].cmd = "exec"
    OBVIOUS
  <2>1. k + 1 \in (j + m + 1)..(i - 1) /\ k + 1 \in 2..Len(S) /\ (k + 1) - 1 = k
    BY <1>1
  <2> QED BY <1>2, <1>3, <2>1 DEF Shape
<1>5. CASE j > 1
  <2>1. j - 1 \in 0..((i - 1) - 1) /\ m \in 0..((i - 1) - 1) /\ (j - 1) + m < i - 1 /\ j - 1 > 0
    BY <1>3, <1>5
  <2>2. T[j - 1].cmd = "exec-list-clear"
    BY <1>1, <1>2, <1>3, <1>5, SMTT(30) DEF Shape
  <2>3. \A k \in 1..m : T[(j - 1) + k] = AddCmd(list[k])
    <3> SUFFICES ASSUME NEW k \in 1..m PROVE T[(j - 1) + k] = AddCmd(list[k])
      OBVIOUS
    <3>1. j + k \in 2..Len(S) /\ (j + k) - 1 = (j - 1) + k
      BY <1>1, <1>3, <1>5
    <3> QED BY <1>2, <1>3, <1>5, <3>1 DEF Shape
  <2>4. \A k \in ((j - 1) + m + 1)..((i - 1) - 1) : T[k].cmd = "exec"
    BY <1>4, <1>5
  <2>5. Len(list) = m
    BY <1>3, <1>5 DEF Shape
  <2>6. Shape(T, e, i - 1, list, j - 1, m)
    BY <2>1, <2>2, <2>3, <2>4, <2>5 DEF Shape
  <2> QED BY <2>1, <2>6 DEF ListAt, T, c
<1>6. CASE j = 1
  <2>1. e = <<>>
    BY <1>1, <1>3, <1>6 DEF Shape, ExecsAfter
  <2>2. m \in 0..((i - 1) - 1) /\ 0 \in 0..((i - 1) - 1) /\ 0 + m < i - 1
    BY <1>3, <1>6
  <2>3. Len(list) = Len(e) + m /\ Len(e) = 0
    BY <1>3, <1>6, <2>1 DEF Shape
  <2>4. \A k \in 1..m : T[k] = AddCmd(list[0 + k])
    <3> SUFFICES ASSUME NEW k \in 1..m PROVE T[k] = AddCmd(list[k])
      OBVIOUS
    <3>1. 1 + k \in 2..Len(S) /\ (1 + k) - 1 = k
      BY <1>1, <1>3, <1>6
    <3> QED BY <1>2, <1>3, <1>6, <3>1, SMTT(30) DEF Shape
  <2>5. \A k \in (0 + m + 1)..((i - 1) - 1) : T[k].cmd = "exec"
    BY <1>4, <1>6
  <2>6. Shape(T, e, i - 1, list, 0, m)
    BY <2>3, <2>4, <2>5 DEF Shape
  <2> QED BY <2>2, <2>6 DEF ListAt, T, c
<1>7. CASE j = 0 /\ m > 0
  <2>1. c = AddCmd(list[Len(execs) + 1])
    BY <1>1, <1>3, <1>7 DEF Shape
  <2>2. e = Append(execs, list[Len(execs) + 1])
    BY <2>1 DEF ExecsAfter, AddCmd
  <2>3. Len(list) = Len(execs) + m /\ Len(execs) + 1 \in 1..Len(list)
    BY <1>1, <1>3, <1>7 DEF Shape
  <2>4. /\ Len(e) = Len(execs) + 1 /\ \A k \in 1..Len(execs) : e[k] = execs[k]
        /\ e[Len(execs) + 1] = list[Len(execs) + 1]
    BY <2>2, <2>3
  <2>5. \A k \in 1..Len(e) : list[k] = e[k]
    <3> HIDE DEF e
    <3> SUFFICES ASSUME NEW k \in 1..Len(e) PROVE list[k] = e[k]
      OBVIOUS
    <3>1. CASE k = Len(execs) + 1
      BY <2>4, <3>1
    <3>2. CASE k # Len(execs) + 1
      <4>1. k \in 1..Len(execs)
        BY <1>1, <2>4, <3>2
      <4> QED BY <1>3, <1>7, <2>4, <4>1 DEF Shape
    <3> QED BY <3>1, <3>2
  <2>6. \A k \in 1..(m - 1) : T[k] = AddCmd(list[Len(e) + k])
    <3> HIDE DEF e
    <3> SUFFICES ASSUME NEW k \in 1..(m - 1) PROVE T[k] = AddCmd(list[Len(e) + k])
      OBVIOUS
    <3>1. /\ k + 1 \in 2..Len(S) /\ (k + 1) - 1 = k /\ k + 1 \in 1..m
          /\ Len(execs) + (k + 1) = Len(e) + k
      BY <1>1, <1>3, <1>7, <2>4
    <3> QED BY <1>2, <1>3, <1>7, <3>1 DEF Shape
  <2>7. \A k \in (0 + (m - 1) + 1)..((i - 1) - 1) : T[k].cmd = "exec"
    BY <1>4, <1>7
  <2>8. Len(list) = Len(e) + (m - 1)
    <3> HIDE DEF e
    <3> QED BY <1>1, <2>3, <2>4
  <2>9. Shape(T, e, i - 1, list, 0, m - 1)
    <3> HIDE DEF e
    <3> QED BY <2>5, <2>6, <2>7, <2>8, SMTT(30) DEF Shape
  <2>10. m - 1 \in 0..((i - 1) - 1) /\ 0 \in 0..((i - 1) - 1) /\ 0 + (m - 1) < i - 1
    BY <1>3, <1>7
  <2> QED BY <2>9, <2>10 DEF ListAt, T, c
<1>8. CASE j = 0 /\ m = 0
  <2>1. c.cmd = "exec"
    <3>1. 1 \in (j + m + 1)..(i - 1)
      BY <1>8
    <3> QED BY <1>1, <1>3, <3>1 DEF Shape
  <2>2. e = execs
    BY <2>1 DEF ExecsAfter
  <2>3. \A k \in (0 + 0 + 1)..((i - 1) - 1) : T[k].cmd = "exec"
    BY <1>4, <1>8
  <2>4. Shape(T, e, i - 1, list, 0, 0)
    <3> HIDE DEF e
    <3> QED BY <1>3, <1>8, <2>2, <2>3 DEF Shape
  <2>5. 0 \in 0..((i - 1) - 1) /\ 0 + 0 < i - 1
    BY <1>3, <1>8
  <2> QED BY <2>4, <2>5 DEF ListAt, T, c
<1> QED BY <1>3, <1>5, <1>6, <1>7, <1>8

-----------------------------------------------------------------------------
(* The commands, wherever they are                                         *)

Join(a, b, c) == (a \o b) \o c

FirstMoves(b, c, b2, c2) == c # <<>> /\ b2 = Append(b, Head(c)) /\ c2 = Tail(c)

(* qdevice_heuristics_cmd_write moves a command to the pipe.                *)
LEMMA StreamWrite ==
    ASSUME NEW E, NEW a \in Seq(E), NEW b \in Seq(E), NEW c \in Seq(E), NEW b2, NEW c2,
           FirstMoves(b, c, b2, c2)
    PROVE  Join(a, b2, c2) = Join(a, b, c)
<1> c # <<>> /\ b2 = Append(b, Head(c)) /\ c2 = Tail(c)
  BY DEF FirstMoves
<1>1. Head(c) \in E /\ Tail(c) \in Seq(E) /\ <<Head(c)>> \in Seq(E)
  BY HeadTailProperties
<1>2. Append(b, Head(c)) = b \o <<Head(c)>>
  BY <1>1, AppendIsConcat
<1>3. <<Head(c)>> \o Tail(c) = c
  OBVIOUS
<1>4. b \o <<Head(c)>> \in Seq(E) /\ a \o b \in Seq(E)
  BY <1>1, ConcatProperties
<1>5. a \o (b \o <<Head(c)>>) = (a \o b) \o <<Head(c)>>
  BY <1>1, ConcatAssociative
<1>6. ((a \o b) \o <<Head(c)>>) \o Tail(c) = (a \o b) \o (<<Head(c)>> \o Tail(c))
  BY <1>1, <1>4, ConcatAssociative, SMTT(30)
<1> QED BY <1>2, <1>3, <1>5, <1>6 DEF Join

(* qdevice_heuristics_io_read moves some from the pipe to the buffer.       *)
LEMMA StreamRead ==
    ASSUME NEW E, NEW b \in Seq(E), NEW n \in 0..Len(b)
    PROVE  /\ SubSeq(b, 1, n) \o SubSeq(b, n + 1, Len(b)) = <<>> \o b
           /\ SubSeq(b, 1, n) \in Seq(E) /\ Len(SubSeq(b, 1, n)) = n
           /\ SubSeq(b, n + 1, Len(b)) \in Seq(E)
<1>1. Len(b) \in Nat /\ (\A i \in 1..Len(b) : b[i] \in E)
  OBVIOUS
<1>2. SubSeq(b, 1, n) \o SubSeq(b, n + 1, Len(b)) = b
  <2>1. 1 \in 1..(Len(b) + 1) /\ n \in (1 - 1)..Len(b) /\ Len(b) \in n..Len(b)
    BY <1>1
  <2>2. SubSeq(b, 1, n) \o SubSeq(b, n + 1, Len(b)) = SubSeq(b, 1, Len(b))
    BY <2>1, ConcatAdjacentSubSeq
  <2> QED BY <2>2, SubSeqFull
<1>3. <<>> \o b = b
  BY ConcatEmptySeq
<1>4. SubSeq(b, 1, n) \in Seq(E) /\ Len(SubSeq(b, 1, n)) = n
  BY <1>1
<1>5. SubSeq(b, n + 1, Len(b)) \in Seq(E)
  BY <1>1
<1> QED BY <1>2, <1>3, <1>4, <1>5

(* The worker processes the first command.                                  *)
LEMMA StreamTake ==
    ASSUME NEW E, NEW a \in Seq(E), NEW b \in Seq(E), NEW c \in Seq(E), a # <<>>,
           NEW S, S = (a \o b) \o c
    PROVE  S # <<>> /\ Head(S) = Head(a) /\ (Tail(a) \o b) \o c = Tail(S)
<1>1. Head(a) \in E /\ Tail(a) \in Seq(E) /\ <<Head(a)>> \in Seq(E) /\ Len(a) \in Nat \ {0}
  BY HeadTailProperties, EmptySeq
<1>2. a \o b \in Seq(E) /\ (Tail(a) \o b) \o c \in Seq(E) /\ Tail(a) \o b \in Seq(E)
  BY <1>1, ConcatProperties
<1>3. a = <<Head(a)>> \o Tail(a)
  OBVIOUS
<1>4. a \o b = <<Head(a)>> \o (Tail(a) \o b)
  BY <1>1, <1>3, ConcatAssociative
<1>5. S = <<Head(a)>> \o ((Tail(a) \o b) \o c)
  BY <1>1, <1>2, <1>4, ConcatAssociative
<1> DEFINE R == (Tail(a) \o b) \o c
<1>6. R \in Seq(E)
  BY <1>2
<1> HIDE DEF R
<1>7. S = <<Head(a)>> \o R
  BY <1>5 DEF R
<1> DEFINE h == <<Head(a)>>
<1>8. h \in Seq(E) /\ Len(h) = 1 /\ h[1] = Head(a) /\ S = h \o R
  BY <1>1, <1>7
<1> HIDE DEF h
<1>9. /\ S \in Seq(E) /\ Len(S) = Len(h) + Len(R)
      /\ \A i \in 1..Len(h) : S[i] = h[i]
      /\ \A i \in 1..Len(R) : S[Len(h) + i] = R[i]
  <2> DEFINE Q == h \o R
  <2>1. Q = h \o R /\ h \in Seq(E)
    BY <1>8
  <2> HIDE DEF Q
  <2>2. /\ Q \in Seq(E) /\ Len(Q) = Len(h) + Len(R)
        /\ \A i \in 1..Len(h) : Q[i] = h[i]
        /\ \A i \in 1..Len(R) : Q[Len(h) + i] = R[i]
    BY <1>6, <2>1, ConcatAt
  <2> QED BY <1>8, <2>2 DEF Q
<1>10. Len(R) \in Nat
  BY <1>6
<1>11. S # <<>> /\ Head(S) = Head(a)
  BY <1>8, <1>9, <1>10
<1>12. Tail(S) \in Seq(E) /\ Len(Tail(S)) = Len(R) /\ \A i \in 1..Len(R) : Tail(S)[i] = S[i + 1]
  <2>1. /\ Tail(S) \in Seq(E) /\ Len(Tail(S)) = Len(S) - 1
        /\ \A i \in 1..Len(Tail(S)) : Tail(S)[i] = S[i + 1]
    BY <1>9, <1>11, HeadTailProperties
  <2> QED BY <1>8, <1>9, <1>10, <2>1
<1>13. \A i \in 1..Len(R) : Tail(S)[i] = R[i]
  <2> SUFFICES ASSUME NEW i \in 1..Len(R) PROVE Tail(S)[i] = R[i]
    OBVIOUS
  <2>1. Len(h) + i = i + 1
    BY <1>8, <1>10
  <2> QED BY <1>9, <1>12, <2>1
<1>14. Tail(S) = R
  BY <1>6, <1>12, <1>13, SeqEqual
<1> QED BY <1>11, <1>14 DEF R

(* More commands at the end.                                                *)
LEMMA StreamMore ==
    ASSUME NEW E, NEW a \in Seq(E), NEW b \in Seq(E), NEW c \in Seq(E), NEW S, S = (a \o b) \o c
    PROVE  /\ S \in Seq(E)
           /\ \A d \in Seq(E) : (a \o b) \o (c \o d) = S \o d
           /\ \A x \in E : (a \o b) \o Append(c, x) = Append(S, x)
<1>1. a \o b \in Seq(E) /\ S \in Seq(E)
  BY ConcatProperties
<1>2. \A d \in Seq(E) : (a \o b) \o (c \o d) = S \o d
  <2> DEFINE f == a \o b
  <2>1. f \in Seq(E) /\ S = f \o c
    BY <1>1
  <2> HIDE DEF f
  <2>2. ASSUME NEW d \in Seq(E) PROVE (f \o c) \o d = f \o (c \o d)
    BY <2>1, ConcatAssociative, SMTT(30)
  <2> QED BY <2>1, <2>2 DEF f
<1>3. ASSUME NEW x \in E PROVE (a \o b) \o Append(c, x) = Append(S, x)
  <2>1. <<x>> \in Seq(E) /\ Append(c, x) = c \o <<x>> /\ Append(S, x) = S \o <<x>>
    BY <1>1, AppendIsConcat
  <2> QED BY <1>2, <2>1
<1> QED BY <1>1, <1>2, <1>3

(* Commands and results are those of all later numbers, too.                *)
LEMMA Widen ==
    ASSUME NEW n \in Nat, NEW m \in Nat, n <= m
    PROVE  /\ \A s \in Seq(CmdsTo(n)) : s \in Seq(CmdsTo(m)) /\ s \in Seq(Cmds)
           /\ \A s \in Seq(LinesTo(n)) : s \in Seq(LinesTo(m))
<1>1. CmdsTo(n) \subseteq CmdsTo(m) /\ CmdsTo(n) \subseteq Cmds /\ LinesTo(n) \subseteq LinesTo(m)
  BY DEF CmdsTo, Cmds, LinesTo
<1> QED BY <1>1, SeqMonotonic

(* A command is processed.                                                  *)
LEMMA InOrderTail ==
    ASSUME NEW n \in Nat, NEW S \in Seq(CmdsTo(n)), S # <<>>, NEW execs \in Seq(Names),
           NEW list \in Seq(Names), NEW wanted \in Seq(Names), InOrder(S, execs, list, wanted, n)
    PROVE  InOrder(Tail(S), ExecsAfter(execs, Head(S)), list, wanted, n)
<1> DEFINE T == Tail(S)
           e == ExecsAfter(execs, Head(S))
<1>1. S \in Seq(Cmds)
  BY Widen
<1>2. /\ Len(S) \in Nat /\ Len(S) > 0 /\ Len(T) = Len(S) - 1 /\ DOMAIN T = 1..Len(T)
      /\ DOMAIN S = 1..Len(S) /\ \A k \in 1..Len(T) : T[k] = S[k + 1]
  BY <1>1
<1>3. \A i \in 2..(Len(S) + 1), l \in Seq(Names) : ListAt(S, execs, i, l) => ListAt(T, e, i - 1, l)
  BY <1>1, ListAtTail
<1> HIDE DEF T, e
<1>4. ListAt(T, e, Len(T) + 1, list)
  <2>1. ListAt(S, execs, Len(S) + 1, list) /\ Len(S) + 1 \in 2..(Len(S) + 1)
    BY <1>2 DEF InOrder
  <2>2. ListAt(T, e, (Len(S) + 1) - 1, list)
    BY <1>3, <2>1
  <2>3. (Len(S) + 1) - 1 = Len(T) + 1
    BY <1>2
  <2> QED BY <2>2, <2>3
<1>5. ASSUME NEW i \in DOMAIN T, T[i].cmd = "exec", T[i].seq = n PROVE ListAt(T, e, i, wanted)
  <2>1. i + 1 \in DOMAIN S /\ i + 1 \in 2..(Len(S) + 1) /\ T[i] = S[i + 1] /\ (i + 1) - 1 = i
    BY <1>2
  <2>2. ListAt(S, execs, i + 1, wanted)
    BY <1>5, <2>1 DEF InOrder
  <2>3. \A j \in 2..(Len(S) + 1) : ListAt(S, execs, j, wanted) => ListAt(T, e, j - 1, wanted)
    BY <1>3
  <2>4. i + 1 \in 2..(Len(S) + 1)
    BY <2>1
  <2>5. ListAt(T, e, (i + 1) - 1, wanted)
    BY <2>2, <2>3, <2>4, Zenon
  <2> QED BY <2>1, <2>5
<1>6. InOrder(T, e, list, wanted, n)
  BY <1>4, <1>5 DEF InOrder
<1> QED BY <1>6 DEF T, e

(* The device asks for another execution.                                   *)
LEMMA InOrderExec ==
    ASSUME NEW n \in Nat, NEW S \in Seq(CmdsTo(n)), NEW execs \in Seq(Names),
           NEW list \in Seq(Names), ListAt(S, execs, Len(S) + 1, list),
           NEW T, T = Append(S, ExecCmd(n + 1))
    PROVE  InOrder(T, execs, list, list, n + 1)
<1>1. S \in Seq(Cmds)
  BY Widen
<1>2. /\ Len(S) \in Nat /\ DOMAIN S = 1..Len(S) /\ DOMAIN T = 1..(Len(S) + 1)
      /\ Len(T) = Len(S) + 1 /\ \A k \in 1..Len(S) : T[k] = S[k]
  OBVIOUS
<1>3. ListAt(T, execs, Len(S) + 1, list) /\ ListAt(T, execs, Len(S) + 2, list)
  BY <1>1, ListAtExec
<1>4. ASSUME NEW i \in DOMAIN T, T[i].cmd = "exec", T[i].seq = n + 1 PROVE i = Len(S) + 1
  <2> SUFFICES ASSUME i # Len(S) + 1 PROVE FALSE
    OBVIOUS
  <2>1. i \in 1..Len(S) /\ T[i] = S[i]
    BY <1>2
  <2>2. S[i] \in CmdsTo(n) /\ S[i].cmd = "exec" /\ S[i].seq = n + 1
    BY <1>4, <2>1
  <2> QED BY <2>2 DEF CmdsTo, ClearCmd
<1>5. Len(T) + 1 = Len(S) + 2
  BY <1>2
<1> QED BY <1>3, <1>4, <1>5 DEF InOrder

ListCmds == {ClearCmd} \cup [cmd : {"exec-list-add"}, name : Names]

(* The commands that send a list.                                           *)
LEMMA CmdsOfList ==
    ASSUME NEW list \in Seq(Names), NEW C, C = ExecListCmds(list)
    PROVE  C \in Seq(ListCmds) /\ Len(C) = Len(list) + 1
<1> DEFINE adds == [i \in DOMAIN list |-> AddCmd(list[i])]
<1>1. Len(list) \in Nat /\ adds \in [1..Len(list) -> ListCmds]
  <2>1. \A i \in DOMAIN list : AddCmd(list[i]) \in ListCmds
    BY DEF AddCmd, ListCmds
  <2> QED BY <2>1
<1>2. C = <<ClearCmd>> \o adds
  BY DEF ExecListCmds
<1> HIDE DEF adds
<1>3. adds \in Seq(ListCmds) /\ Len(adds) = Len(list)
  BY <1>1, FunctionIsSeq
<1>4. <<ClearCmd>> \in Seq(ListCmds) /\ Len(<<ClearCmd>>) = 1
  BY DEF ListCmds
<1>5. <<ClearCmd>> \o adds \in Seq(ListCmds) /\ Len(<<ClearCmd>> \o adds) = 1 + Len(list)
  BY <1>1, <1>3, <1>4, ConcatProperties
<1> QED BY <1>1, <1>2, <1>5

(* The device sends another list.                                           *)
LEMMA InOrderNewList ==
    ASSUME NEW n \in Nat, NEW S \in Seq(CmdsTo(n)), NEW execs \in Seq(Names),
           NEW list \in Seq(Names), NEW wanted \in Seq(Names), NEW old \in Seq(Names),
           InOrder(S, execs, old, wanted, n), NEW T, T = S \o ExecListCmds(list)
    PROVE  InOrder(T, execs, list, wanted, n)
<1> DEFINE C == ExecListCmds(list)
<1>1. S \in Seq(Cmds)
  BY Widen
<1>2. C \in Seq(ListCmds) /\ C \in Seq(CmdsTo(n)) /\ T = S \o C
  <2>1. C \in Seq(ListCmds)
    BY CmdsOfList
  <2>2. ListCmds \subseteq CmdsTo(n)
    BY DEF ListCmds, CmdsTo
  <2> QED BY <2>1, <2>2, SeqMonotonic
<1>3. ListAt(T, execs, Len(T) + 1, list)
  BY <1>1, ListAtNewList
<1> HIDE DEF C
<1>4. /\ DOMAIN T = 1..(Len(S) + Len(C)) /\ Len(S) \in Nat
      /\ \A i \in 1..Len(S) : T[i] = S[i]
      /\ \A i \in 1..Len(C) : T[Len(S) + i] = C[i]
      /\ \A i \in DOMAIN T : i \in 1..Len(S) \/ \E j \in 1..Len(C) : i = Len(S) + j
  <2> DEFINE Q == S \o C
  <2>1. C \in Seq(CmdsTo(n)) /\ Q = S \o C
    BY <1>2
  <2> HIDE DEF Q
  <2>2. /\ \A i \in 1..Len(S) : Q[i] = S[i]
        /\ \A i \in 1..Len(C) : Q[Len(S) + i] = C[i]
    BY <2>1, ConcatAt
  <2>3. DOMAIN Q = 1..(Len(S) + Len(C)) /\ Len(S) \in Nat
    BY <2>1, ConcatAt
  <2>4. \A i \in DOMAIN Q : i \in 1..Len(S) \/ \E j \in 1..Len(C) : i = Len(S) + j
    <3>1. Len(C) \in Nat
      BY <2>1
    <3>2. \A x, y \in Nat : \A i \in 1..(x + y) : i \in 1..x \/ \E j \in 1..y : i = x + j
      <4> SUFFICES ASSUME NEW x \in Nat, NEW y \in Nat, NEW i \in 1..(x + y), i \notin 1..x
                   PROVE  \E j \in 1..y : i = x + j
        OBVIOUS
      <4>1. i - x \in 1..y /\ i = x + (i - x)
        OBVIOUS
      <4> WITNESS i - x \in 1..y
      <4> QED BY <4>1
    <3>3. Len(S) \in Nat
      BY <2>3
    <3>4. \A i \in 1..(Len(S) + Len(C)) : i \in 1..Len(S) \/ \E j \in 1..Len(C) : i = Len(S) + j
      <4> DEFINE x == Len(S)
                 y == Len(C)
      <4>1. x \in Nat /\ y \in Nat
        BY <3>1, <3>3
      <4> HIDE DEF x, y
      <4>2. \A i \in 1..(x + y) : i \in 1..x \/ \E j \in 1..y : i = x + j
        BY <3>2, <4>1
      <4> QED BY <4>2 DEF x, y
    <3> QED BY <2>3, <3>4
  <2> QED BY <1>2, <2>2, <2>3, <2>4 DEF Q
<1>5. ASSUME NEW i \in DOMAIN T, T[i].cmd = "exec", T[i].seq = n PROVE ListAt(T, execs, i, wanted)
  <2>1. i \in 1..Len(S)
    <3> SUFFICES ASSUME NEW j \in 1..Len(C), i = Len(S) + j PROVE FALSE
      BY <1>4
    <3>1. T[i] = C[j]
      BY <1>4
    <3>2. C[j] \in ListCmds
      BY <1>2
    <3>3. \A x \in ListCmds : x.cmd # "exec"
      BY DEF ListCmds, ClearCmd
    <3> QED BY <1>5, <3>1, <3>2, <3>3
  <2>2. i \in DOMAIN S /\ T[i] = S[i] /\ i \in 1..(Len(S) + 1)
    BY <1>1, <1>4, <2>1
  <2>3. ListAt(S, execs, i, wanted)
    BY <1>5, <2>2 DEF InOrder
  <2>4. \A k \in 1..Len(S) : T[k] = S[k]
    BY <1>4
  <2> QED BY <1>1, <2>2, <2>3, <2>4, ListAtPrefix
<1> QED BY <1>3, <1>5 DEF InOrder

-----------------------------------------------------------------------------
(* The steps                                                               *)

(* What the invariant says about the types of things.                       *)
LEMMA Facts ==
    ASSUME Inv
    PROVE  /\ expected_reply_seq_number \in Nat
           /\ cmd_in_buffer \in Seq(CmdsTo(expected_reply_seq_number))
           /\ cmd_pipe \in Seq(CmdsTo(expected_reply_seq_number))
           /\ cmd_out \in Seq(CmdsTo(expected_reply_seq_number))
           /\ Stream \in Seq(CmdsTo(expected_reply_seq_number))
           /\ worker_execs \in Seq(Names) /\ exec_list \in Seq(Names) /\ asked \in Seq(Names)
           /\ Plist.active = active_list /\ Plist.kill = to_kill_list
           /\ Plist.procs = procs /\ Plist.allocated = allocated_list_entries
           /\ active_list \in Seq(Entry) /\ to_kill_list \in Seq(Entry)
<1>1. /\ expected_reply_seq_number \in Nat
      /\ cmd_in_buffer \in Seq(CmdsTo(expected_reply_seq_number))
      /\ cmd_pipe \in Seq(CmdsTo(expected_reply_seq_number))
      /\ cmd_out \in Seq(CmdsTo(expected_reply_seq_number))
      /\ worker_execs \in Seq(Names) /\ exec_list \in Seq(Names) /\ asked \in Seq(Names)
  BY HeuristicsAssumption DEF Inv, WorkerInv, DeviceInv
<1>2. Stream \in Seq(CmdsTo(expected_reply_seq_number))
  BY <1>1, StreamMore DEF Stream
<1>3. /\ Plist.active = active_list /\ Plist.kill = to_kill_list
      /\ Plist.procs = procs /\ Plist.allocated = allocated_list_entries
  BY DEF Plist
<1>4. Plist.active \in Seq(Entry) /\ Plist.kill \in Seq(Entry)
  BY <1>1, SoundParts DEF Inv
<1> QED BY <1>1, <1>2, <1>3, <1>4

(* The lists are those that an operator returned.                           *)
LEMMA PlistNext ==
    ASSUME NEW pl, pl \in PlistType, SetPlist(pl)
    PROVE  Plist' = pl
BY DEF SetPlist, Plist, PlistType

(* A step of the worker leaves the device alone.                            *)
LEMMA SameDevice ==
    ASSUME Inv, UNCHANGED deviceVars
    PROVE  DeviceInv' /\ GoesOn'
<1>1. DeviceInv'
  BY DEF Inv, DeviceInv, deviceVars
<1>2. GoesOn'
  BY DEF Inv, GoesOn, Started, deviceVars
<1> QED BY <1>1, <1>2

(* The processes are the same.                                              *)
LEMMA SamePlist ==
    ASSUME Inv, UNCHANGED plistVars,
           expected_reply_seq_number' = expected_reply_seq_number
    PROVE  Sound(Plist, succeeded, expected_reply_seq_number)'
<1>1. Plist' = Plist /\ succeeded' = succeeded
  BY DEF Plist, plistVars
<1> QED BY <1>1 DEF Inv

(* poll and qdevice_heuristics_io_read: lines move from the pipe to the buffer. *)
LEMMA PollInputInv ==
    ASSUME Inv, PollInput(up), UNCHANGED deviceVars
    PROVE  Inv'
<1> USE DEF PollInput
<1>1. /\ phase = "poll" /\ UNCHANGED plistVars
      /\ UNCHANGED <<worker_execs, last_seq, exec_timer, kill_due, schedule_exit, rounds,
                     kill_failed, result_pipe>>
  OBVIOUS
<1>2. PICK n \in 0..Len(cmd_pipe) :
         /\ phase' = IF n = 0 THEN "check" ELSE "lines"
         /\ cmd_in_buffer' = SubSeq(cmd_pipe, 1, n)
         /\ cmd_pipe' = SubSeq(cmd_pipe, n + 1, Len(cmd_pipe))
  OBVIOUS
<1>3. cmd_in_buffer = <<>>
  BY <1>1 DEF Inv, WorkerInv
<1> DEFINE C == CmdsTo(expected_reply_seq_number)
<1>4. cmd_pipe \in Seq(C)
  BY Facts
<1>5. /\ cmd_in_buffer' \o cmd_pipe' = cmd_in_buffer \o cmd_pipe
      /\ cmd_in_buffer' \in Seq(C) /\ Len(cmd_in_buffer') = n /\ cmd_pipe' \in Seq(C)
  <2> HIDE DEF C
  <2> QED BY <1>2, <1>3, <1>4, StreamRead
<1>6. Stream' = Stream
  BY <1>5 DEF Stream, deviceVars
<1>7. UNCHANGED <<up, exec_list, asked, expected_reply_seq_number, active_list, to_kill_list, succeeded>>
  BY <1>1 DEF deviceVars, plistVars
<1>8. phase' \in {"check", "lines"} /\ Working
  BY <1>1, <1>2 DEF Working
<1>9. WorkerInv'
  <2>1. cmd_in_buffer' = <<>> <=> n = 0
    BY <1>5
  <2>2. cmd_in_buffer' \in Seq(CmdsTo(expected_reply_seq_number)) /\ cmd_pipe' \in Seq(CmdsTo(expected_reply_seq_number))
    BY <1>5
  <2> QED BY <1>1, <1>2, <1>7, <1>8, <2>1, <2>2 DEF Inv, WorkerInv, WorkerPhases, Working
<1>10. ActiveIsLatestExecution' /\ KillInv' /\ ExitKillsAll'
  BY <1>1, <1>7, <1>8 DEF Inv, ActiveIsLatestExecution, KillInv, ExitKillsAll
<1>11. LatestInv'
  BY <1>1, <1>6, <1>7, <1>8 DEF Inv, LatestInv, Working
<1> QED BY <1>1, <1>7, <1>9, <1>10, <1>11, SameDevice, SamePlist DEF Inv

(* The device closed the pipe, and the worker begins to end.                *)
LEMMA InputClosedInv ==
    ASSUME Inv, InputClosed(up), UNCHANGED deviceVars
    PROVE  Inv'
<1>1. /\ phase = "poll" /\ phase' = "killall" /\ UNCHANGED plistVars
      /\ UNCHANGED <<cmd_in_buffer, worker_execs, last_seq, exec_timer, kill_due,
                     schedule_exit, rounds, kill_failed, cmd_pipe, result_pipe>>
  BY DEF InputClosed
<1>2. UNCHANGED <<up, asked, expected_reply_seq_number, active_list, to_kill_list, succeeded>>
  BY <1>1 DEF deviceVars, plistVars
<1>3. rounds = 0
  BY <1>1 DEF Inv, WorkerInv, Working
<1>4. WorkerInv'
  BY <1>1, <1>2 DEF Inv, WorkerInv, WorkerPhases, Working
<1>5. ActiveIsLatestExecution' /\ KillInv' /\ ExitKillsAll'
  BY <1>1, <1>2, <1>3, WorkerAssumption DEF Inv, ActiveIsLatestExecution, KillInv, ExitKillsAll
<1>6. LatestInv'
  BY <1>1, <1>2 DEF Inv, LatestInv, Working
<1> QED BY <1>1, <1>2, <1>4, <1>5, <1>6, SameDevice, SamePlist DEF Inv

(* A line is taken from the buffer.                                         *)
LEMMA TakeLine ==
    ASSUME NEW E, NEW s \in Seq(E), s # <<>>
    PROVE  /\ Head(s) \in E /\ Tail(s) \in Seq(E)
           /\ Tail(s) = <<>> => Len(s) = 1
           /\ Len(s) = 1 => Tail(s) = <<>>
<1>1. Head(s) \in E /\ Tail(s) \in Seq(E) /\ Len(Tail(s)) = Len(s) - 1 /\ Len(s) \in Nat
  BY HeadTailProperties, EmptySeq
<1> DEFINE t == Tail(s)
<1>2. t \in Seq(E) /\ Len(t) = Len(s) - 1
  BY <1>1
<1> HIDE DEF t
<1>3. t = <<>> => Len(t) = 0
  OBVIOUS
<1>4. Len(t) = 0 => t = <<>>
  BY <1>2, EmptySeq
<1>5. (t = <<>> => Len(s) = 1) /\ (Len(s) = 1 => t = <<>>)
  BY <1>1, <1>2, <1>3, <1>4
<1> QED BY <1>1, <1>5 DEF t

(* exec-list-clear and exec-list-add: the list of the worker follows.       *)
LEMMA ProcessExecListInv ==
    ASSUME Inv, ProcessExecList, UNCHANGED deviceVars
    PROVE  Inv'
<1> DEFINE line == Head(cmd_in_buffer)
           C == CmdsTo(expected_reply_seq_number)
<1>1. /\ phase = "lines" /\ line.cmd \in {"exec-list-clear", "exec-list-add"}
      /\ worker_execs' = IF line.cmd = "exec-list-clear" THEN <<>>
                         ELSE Append(worker_execs, line.name)
      /\ cmd_in_buffer' = Tail(cmd_in_buffer)
      /\ LineDone
      /\ UNCHANGED plistVars
      /\ UNCHANGED <<last_seq, exec_timer, kill_due, schedule_exit, rounds, kill_failed,
                     cmd_pipe, result_pipe>>
  BY DEF ProcessExecList
<1>2. UNCHANGED <<up, exec_list, asked, cmd_out, expected_reply_seq_number, active_list,
                  to_kill_list, succeeded>>
  BY <1>1 DEF deviceVars, plistVars
<1>3. cmd_in_buffer # <<>> /\ cmd_in_buffer \in Seq(C) /\ cmd_pipe \in Seq(C) /\ cmd_out \in Seq(C)
  BY <1>1, Facts DEF Inv, WorkerInv
<1>4. /\ line \in C /\ Tail(cmd_in_buffer) \in Seq(C)
      /\ Tail(cmd_in_buffer) = <<>> => Len(cmd_in_buffer) = 1
      /\ Len(cmd_in_buffer) = 1 => Tail(cmd_in_buffer) = <<>>
  <2> HIDE DEF C
  <2> QED BY <1>3, TakeLine
<1>5. worker_execs' = ExecsAfter(worker_execs, line) /\ worker_execs' \in Seq(Names)
  <2>1. worker_execs' = ExecsAfter(worker_execs, line)
    BY <1>1 DEF ExecsAfter
  <2>2. line.cmd = "exec-list-add" => line.name \in Names
    BY <1>4 DEF CmdsTo, ClearCmd
  <2>3. worker_execs \in Seq(Names)
    BY Facts
  <2> QED BY <1>1, <2>1, <2>2, <2>3
<1>6. Stream # <<>> /\ Head(Stream) = line /\ Stream' = Tail(Stream)
  <2>1. Stream = (cmd_in_buffer \o cmd_pipe) \o cmd_out
    BY DEF Stream
  <2>2. /\ Stream # <<>> /\ Head(Stream) = line
        /\ (Tail(cmd_in_buffer) \o cmd_pipe) \o cmd_out = Tail(Stream)
    <3> HIDE DEF C
    <3> QED BY <1>3, <2>1, StreamTake, SMTT(30)
  <2> QED BY <1>1, <1>2, <2>2 DEF Stream
<1> HIDE DEF line
<1>7. phase' \in {"check", "lines"} /\ Working /\ (phase' = "check" <=> Len(cmd_in_buffer) = 1)
  BY <1>1 DEF LineDone, Working
<1>8. WorkerInv'
  <2>1. cmd_in_buffer' = <<>> <=> Len(cmd_in_buffer) = 1
    BY <1>1, <1>4
  <2>2. cmd_in_buffer' \in Seq(CmdsTo(expected_reply_seq_number))
    BY <1>1, <1>4
  <2> QED BY <1>1, <1>2, <1>5, <1>7, <2>1, <2>2 DEF Inv, WorkerInv, WorkerPhases, Working
<1>9. ActiveIsLatestExecution' /\ KillInv' /\ ExitKillsAll'
  BY <1>1, <1>2, <1>7 DEF Inv, ActiveIsLatestExecution, KillInv, ExitKillsAll
<1>10. LatestInv'
  <2>1. up => InOrder(Stream, worker_execs, exec_list, asked, expected_reply_seq_number)
    BY <1>7 DEF Inv, LatestInv
  <2>2. up => InOrder(Tail(Stream), ExecsAfter(worker_execs, Head(Stream)), exec_list, asked,
                      expected_reply_seq_number)
    <3> SUFFICES ASSUME up
                 PROVE  InOrder(Tail(Stream), ExecsAfter(worker_execs, Head(Stream)), exec_list,
                                asked, expected_reply_seq_number)
      OBVIOUS
    <3>1. /\ Stream \in Seq(CmdsTo(expected_reply_seq_number)) /\ Stream # <<>>
          /\ expected_reply_seq_number \in Nat
      BY <1>6, Facts
    <3>2. worker_execs \in Seq(Names) /\ exec_list \in Seq(Names) /\ asked \in Seq(Names)
      BY Facts
    <3> QED BY <2>1, <3>1, <3>2, InOrderTail
  <2>3. up' => InOrder(Stream, worker_execs, exec_list, asked, expected_reply_seq_number)'
    BY <1>2, <1>5, <1>6, <2>2
  <2> QED BY <1>1, <1>2, <1>7, <2>3 DEF Inv, LatestInv, Working
<1> QED BY <1>1, <1>2, <1>8, <1>9, <1>10, SameDevice, SamePlist DEF Inv

(* The end of a round of the worker.                                        *)
LEMMA TimersDoneInv ==
    ASSUME Inv, TimersDone, UNCHANGED deviceVars
    PROVE  Inv'
<1>1. /\ phase = "timers" /\ phase' \in {"killall", "poll"} /\ UNCHANGED plistVars
      /\ UNCHANGED <<cmd_in_buffer, worker_execs, last_seq, exec_timer, kill_due,
                     schedule_exit, rounds, kill_failed, cmd_pipe, result_pipe>>
  BY DEF TimersDone
<1>2. UNCHANGED <<up, exec_list, asked, cmd_out, expected_reply_seq_number, active_list,
                  to_kill_list, succeeded>>
  BY <1>1 DEF deviceVars, plistVars
<1>3. rounds = 0 /\ Working
  BY <1>1 DEF Inv, WorkerInv, Working
<1>4. WorkerInv'
  BY <1>1, <1>2 DEF Inv, WorkerInv, WorkerPhases, Working
<1>5. ActiveIsLatestExecution' /\ KillInv' /\ ExitKillsAll'
  BY <1>1, <1>2, <1>3, WorkerAssumption DEF Inv, ActiveIsLatestExecution, KillInv, ExitKillsAll
<1>6. Stream' = Stream
  BY <1>1, <1>2 DEF Stream
<1>7. LatestInv'
  BY <1>1, <1>2, <1>3, <1>6 DEF Inv, LatestInv, Working
<1> QED BY <1>1, <1>2, <1>4, <1>5, <1>7, SameDevice, SamePlist DEF Inv

(* process_list_free, and the worker is gone.                               *)
LEMMA WorkerExitsInv ==
    ASSUME Inv, WorkerExits, UNCHANGED deviceVars
    PROVE  Inv'
<1> DEFINE pl == [active |-> <<>>, kill |-> <<>>, allocated |-> 0, procs |-> [p \in Pids |-> "free"]]
<1>1. /\ phase = "free" /\ phase' = "gone" /\ SetPlist(pl)
      /\ cmd_in_buffer' = <<>> /\ cmd_pipe' = <<>>
      /\ UNCHANGED <<succeeded, worker_execs, last_seq, exec_timer, kill_due, schedule_exit,
                     rounds, kill_failed, result_pipe>>
  BY DEF WorkerExits
<1>2. UNCHANGED <<up, asked, expected_reply_seq_number>>
  BY DEF deviceVars
<1>3. /\ pl.active = <<>> /\ pl.kill = <<>> /\ pl.allocated = 0
      /\ pl.procs \in [Pids -> ProcStates] /\ (\A p \in Pids : pl.procs[p] = "free")
      /\ pl \in PlistType
  BY DEF PlistType, ProcStates
<1> HIDE DEF pl
<1>4. Sound(pl, succeeded, expected_reply_seq_number)
  BY <1>3, ProcessListAssumption DEF Sound, Apart, ApartFrom
<1>5. Plist' = pl
  BY <1>1, <1>3, PlistNext
<1>6. WorkerInv'
  BY <1>1, <1>2 DEF Inv, WorkerInv, WorkerPhases, Working
<1>7. ActiveIsLatestExecution' /\ KillInv' /\ ExitKillsAll'
  BY <1>1 DEF ActiveIsLatestExecution, KillInv, ExitKillsAll
<1>8. LatestInv'
  BY <1>1, <1>2 DEF Inv, LatestInv, Working
<1> QED BY <1>1, <1>2, <1>4, <1>5, <1>6, <1>7, <1>8, SameDevice DEF Inv

(* A result line is written.                                                *)
LEMMA LineAppended ==
    ASSUME NEW E, NEW lines \in Seq(E), NEW line \in E, NEW out, out = Append(lines, line)
    PROVE  /\ out \in Seq(E)
           /\ \A i \in DOMAIN out : (i \in DOMAIN lines /\ out[i] = lines[i]) \/ out[i] = line
OBVIOUS

(* process_list_get_summary_result_short: success is success of all.        *)
LEMMA PassIsEarned ==
    ASSUME NEW pl, NEW succ, NEW n \in Nat, Sound(pl, succ, n), Summary(pl) = "PASS",
           NEW i \in DOMAIN pl.active
    PROVE  <<pl.active[i].exec, pl.active[i].name>> \in succ
<1> DEFINE e == pl.active[i]
<1>1. e \in Entry /\ Owns(pl, e, succ) /\ e \in Range(pl.active)
  <2>1. pl.active \in Seq(Entry)
    BY SoundParts
  <2>2. Owns(pl, e, succ)
    BY DEF Sound
  <2> QED BY <2>1, <2>2 DEF Range
<1> HIDE DEF e
<1>2. e.state = "FINISHED" /\ e.status # "bad"
  BY <1>1 DEF Summary
<1>3. e.status = "ok"
  BY <1>1, <1>2 DEF Owns, Entry
<1> QED BY <1>1, <1>3 DEF Owns, e

(* The names of the active processes are the same.                          *)
LEMMA SameNames ==
    ASSUME NEW list1 \in Seq(Entry), NEW list2 \in Seq(Entry), Len(list2) = Len(list1), NEW wanted,
           \A i \in DOMAIN list1 : list2[i].name = list1[i].name /\ list2[i].exec = list1[i].exec,
           NEW n
    PROVE  /\ list2 # <<>> => list1 # <<>>
           /\ (\A e \in Range(list1) : e.exec = n) => \A e \in Range(list2) : e.exec = n
           /\ RunsAll(wanted, list1) => RunsAll(wanted, list2)
<1>1. DOMAIN list1 = DOMAIN list2
  OBVIOUS
<1>2. list2 # <<>> => list1 # <<>>
  OBVIOUS
<1>3. (\A e \in Range(list1) : e.exec = n) => \A e \in Range(list2) : e.exec = n
  BY <1>1 DEF Range
<1>4. RunsAll(wanted, list1) => RunsAll(wanted, list2)
  BY <1>1 DEF RunsAll
<1> QED BY <1>2, <1>3, <1>4

(* waitpid, and the result of the execution when it is known.               *)
LEMMA CheckInv ==
    ASSUME Inv, Check, UNCHANGED deviceVars
    PROVE  Inv'
<1> DEFINE pl == Waitpid(Plist)
           n  == expected_reply_seq_number
<1>1. /\ phase = "check"
      /\ UNCHANGED <<succeeded, cmd_in_buffer, worker_execs, last_seq, schedule_exit, rounds,
                     kill_failed, cmd_pipe>>
      /\ kill_due' = TRUE
  BY DEF Check
<1>2. \/ /\ SetPlist(pl) /\ phase' = "timers" /\ UNCHANGED <<exec_timer, result_pipe>>
      \/ /\ exec_timer /\ Summary(pl) # "unfinished"
         /\ WriteResult(last_seq, Summary(pl)) /\ SetPlist(MoveActiveToKillList(pl))
         /\ exec_timer' = FALSE /\ phase' = "timers"
      \/ SetPlist(pl) /\ phase' = "killall" /\ UNCHANGED <<exec_timer, result_pipe>>
  <2> HIDE DEF pl
  <2>1. \E q \in {pl} :
           IF ~exec_timer \/ Summary(q) = "unfinished"
           THEN /\ SetPlist(q)
                /\ phase' = "timers"
                /\ UNCHANGED <<exec_timer, result_pipe>>
           ELSE \/ /\ WriteResult(last_seq, Summary(q))
                   /\ SetPlist(MoveActiveToKillList(q))
                   /\ exec_timer' = FALSE
                   /\ phase' = "timers"
                \/ /\ SetPlist(q)
                   /\ phase' = "killall"
                   /\ UNCHANGED <<exec_timer, result_pipe>>
    BY DEF Check, pl
  <2> QED BY <2>1
<1>3. UNCHANGED <<up, exec_list, asked, cmd_out, expected_reply_seq_number>>
  BY DEF deviceVars
<1>4. n \in Nat /\ Sound(Plist, succeeded, n) /\ Working /\ rounds = 0 /\ Stream' = Stream
  BY <1>1, <1>3, Facts DEF Inv, Working, WorkerInv, Stream
<1>5. /\ Sound(pl, succeeded, n) /\ Len(pl.active) = Len(active_list)
      /\ \A i \in DOMAIN active_list : /\ pl.active[i].name = active_list[i].name
                                       /\ pl.active[i].exec = active_list[i].exec
  <2>1. pl = Waitpid(Plist)
    OBVIOUS
  <2> HIDE DEF pl, n
  <2>2. /\ Sound(pl, succeeded, n) /\ Len(pl.active) = Len(Plist.active)
        /\ \A i \in DOMAIN Plist.active : /\ pl.active[i].name = Plist.active[i].name
                                          /\ pl.active[i].exec = Plist.active[i].exec
    BY <1>4, <2>1, WaitpidSound
  <2> QED BY <2>2, Facts
<1> HIDE DEF pl
<1>6. /\ pl.active \in Seq(Entry) /\ active_list \in Seq(Entry) /\ pl \in PlistType
  BY <1>4, <1>5, SoundParts, Facts DEF Sound
<1>7. /\ pl.active # <<>> => active_list # <<>>
      /\ \A e \in Range(pl.active) : e.exec = last_seq
      /\ RunsAll(asked, active_list) => RunsAll(asked, pl.active)
  <2>1. \A e \in Range(active_list) : e.exec = last_seq
    BY <1>1 DEF Inv, ActiveIsLatestExecution
  <2> QED BY <1>5, <1>6, <2>1, SameNames
<1>8. CASE /\ SetPlist(pl) /\ phase' \in {"timers", "killall"}
           /\ UNCHANGED <<exec_timer, result_pipe>>
  <2>1. Plist' = pl /\ active_list' = pl.active
    BY <1>6, <1>8, PlistNext DEF SetPlist
  <2>2. WorkerInv'
    BY <1>1, <1>3, <1>8 DEF Inv, WorkerInv, WorkerPhases, Working
  <2>3. ActiveIsLatestExecution'
    BY <1>1, <1>7, <1>8, <2>1 DEF Inv, ActiveIsLatestExecution
  <2>4. KillInv' /\ ExitKillsAll'
    BY <1>1, <1>4, <1>8, WorkerAssumption DEF KillInv, ExitKillsAll
  <2>5. LatestInv'
    BY <1>1, <1>3, <1>4, <1>7, <1>8, <2>1 DEF Inv, LatestInv, Working
  <2> QED BY <1>1, <1>3, <1>5, <2>1, <2>2, <2>3, <2>4, <2>5, SameDevice DEF Inv
<1>9. CASE /\ exec_timer /\ Summary(pl) # "unfinished"
           /\ WriteResult(last_seq, Summary(pl)) /\ SetPlist(MoveActiveToKillList(pl))
           /\ exec_timer' = FALSE /\ phase' = "timers"
  <2> DEFINE q == MoveActiveToKillList(pl)
             line == [seq |-> last_seq, result |-> Summary(pl)]
  <2>1. Sound(q, succeeded, n) /\ q.active = <<>>
    <3>1. q = MoveActiveToKillList(pl)
      OBVIOUS
    <3> HIDE DEF q, n
    <3> QED BY <1>4, <1>5, <3>1, MoveSound
  <2>2. Plist' = q /\ active_list' = <<>>
    <3>1. SetPlist(q)
      BY <1>9
    <3> HIDE DEF q
    <3> QED BY <2>1, <3>1, PlistNext DEF Sound, SetPlist
  <2> HIDE DEF q
  <2>3. Summary(pl) \in {"PASS", "FAIL"} /\ last_seq \in 0..n
    BY <1>9 DEF Summary, Inv, WorkerInv
  <2>4. up => Truthful(line, asked, n, succeeded)
    <3> SUFFICES ASSUME up, last_seq = n
                 PROVE  /\ (Summary(pl) = "DISABLED") = (asked = <<>>)
                        /\ Summary(pl) = "PASS" =>
                              \A k \in DOMAIN asked : <<n, asked[k]>> \in succeeded
      BY DEF Truthful
    <3>1. RunsAll(asked, pl.active)
      BY <1>4, <1>7, <1>9 DEF Inv, LatestInv
    <3>2. ASSUME Summary(pl) = "PASS", NEW k \in DOMAIN asked PROVE <<n, asked[k]>> \in succeeded
      <4>1. PICK i \in DOMAIN pl.active : pl.active[i].name = asked[k]
        BY <3>1 DEF RunsAll
      <4>2. pl.active[i].exec = n
        BY <1>6, <1>7 DEF Range
      <4>3. <<pl.active[i].exec, pl.active[i].name>> \in succeeded
        BY <1>4, <1>5, <3>2, PassIsEarned
      <4> QED BY <4>1, <4>2, <4>3
    <3> QED BY <2>3, <3>1, <3>2 DEF RunsAll
  <2>5. result_pipe \in Seq(LinesTo(n)) /\ result_pipe' = Append(result_pipe, line)
    BY <1>9 DEF Inv, WorkerInv, WriteResult
  <2>6. /\ result_pipe' \in Seq(LinesTo(n))
        /\ up => \A i \in DOMAIN result_pipe' : Truthful(result_pipe'[i], asked, n, succeeded)
    <3>1. up => \A i \in DOMAIN result_pipe : Truthful(result_pipe[i], asked, n, succeeded)
      BY DEF Inv, LatestInv
    <3>2. Summary(pl) \in Results
      BY <2>3 DEF Results
    <3>3. line \in LinesTo(n)
      BY <1>4, <2>3, <3>2 DEF LinesTo
    <3> HIDE DEF n, line
    <3>4. /\ result_pipe' \in Seq(LinesTo(n))
          /\ \A i \in DOMAIN result_pipe' :
                \/ i \in DOMAIN result_pipe /\ result_pipe'[i] = result_pipe[i]
                \/ result_pipe'[i] = line
      BY <2>5, <3>3, LineAppended
    <3> QED BY <2>4, <3>1, <3>4
  <2>7. WorkerInv'
    BY <1>1, <1>3, <1>9, <2>6 DEF Inv, WorkerInv, WorkerPhases, Working
  <2>8. ActiveIsLatestExecution' /\ KillInv' /\ ExitKillsAll'
    BY <1>9, <2>2 DEF ActiveIsLatestExecution, KillInv, ExitKillsAll, Range
  <2>9. LatestInv'
    BY <1>1, <1>3, <1>4, <1>9, <2>6 DEF Inv, LatestInv, Working
  <2> QED BY <1>1, <1>3, <2>1, <2>2, <2>7, <2>8, <2>9, SameDevice DEF Inv
<1> QED BY <1>2, <1>8, <1>9, Zenon

(* The timeout of an execution.                                             *)
LEMMA ExecTimeoutInv ==
    ASSUME Inv, ExecTimeout, UNCHANGED deviceVars
    PROVE  Inv'
<1> DEFINE q == MoveActiveToKillList(Plist)
           n == expected_reply_seq_number
           line == [seq |-> last_seq, result |-> "FAIL"]
<1>1. /\ phase = "timers" /\ exec_timer /\ SetPlist(q) /\ exec_timer' = FALSE
      /\ \/ result_pipe' = Append(result_pipe, line) /\ UNCHANGED schedule_exit
         \/ schedule_exit' = TRUE /\ UNCHANGED result_pipe
      /\ UNCHANGED <<succeeded, phase, kill_due, rounds, kill_failed, cmd_in_buffer, worker_execs,
                     last_seq, cmd_pipe>>
  BY DEF ExecTimeout, ExecTimedOut, WriteResult
<1>2. UNCHANGED <<up, exec_list, asked, cmd_out, expected_reply_seq_number>>
  BY DEF deviceVars
<1>3. n \in Nat /\ Sound(Plist, succeeded, n) /\ Working /\ Stream' = Stream
  BY <1>1, <1>2, Facts DEF Inv, Working, Stream
<1>4. Sound(q, succeeded, n) /\ q.active = <<>>
  <2>1. q = MoveActiveToKillList(Plist)
    OBVIOUS
  <2> HIDE DEF q, n
  <2> QED BY <1>3, <2>1, MoveSound
<1> HIDE DEF q
<1>5. Plist' = q /\ active_list' = <<>>
  BY <1>1, <1>4, PlistNext DEF Sound, SetPlist
<1>6. line \in LinesTo(n)
  BY <1>3 DEF Inv, WorkerInv, LinesTo, Results
<1>7. up => Truthful(line, asked, n, succeeded)
  BY <1>1, <1>3 DEF Inv, LatestInv, Truthful, RunsAll
<1>8. /\ result_pipe' \in Seq(LinesTo(n))
      /\ up => \A i \in DOMAIN result_pipe' : Truthful(result_pipe'[i], asked, n, succeeded)
  <2>1. up => \A i \in DOMAIN result_pipe : Truthful(result_pipe[i], asked, n, succeeded)
    BY DEF Inv, LatestInv
  <2>2. result_pipe \in Seq(LinesTo(n))
    BY DEF Inv, WorkerInv
  <2> HIDE DEF n, line
  <2>3. CASE result_pipe' = Append(result_pipe, line)
    <3>1. /\ result_pipe' \in Seq(LinesTo(n))
          /\ \A i \in DOMAIN result_pipe' :
                \/ i \in DOMAIN result_pipe /\ result_pipe'[i] = result_pipe[i]
                \/ result_pipe'[i] = line
      BY <1>6, <2>2, <2>3, LineAppended
    <3> QED BY <1>7, <2>1, <3>1
  <2>4. CASE result_pipe' = result_pipe
    BY <2>1, <2>2, <2>4
  <2> QED BY <1>1, <2>3, <2>4
<1>9. WorkerInv'
  BY <1>1, <1>2, <1>8 DEF Inv, WorkerInv, WorkerPhases, Working
<1>10. ActiveIsLatestExecution' /\ KillInv' /\ ExitKillsAll'
  BY <1>1, <1>5 DEF ActiveIsLatestExecution, KillInv, ExitKillsAll, Range
<1>11. LatestInv'
  BY <1>1, <1>2, <1>3, <1>8 DEF Inv, LatestInv, Working
<1> QED BY <1>1, <1>2, <1>4, <1>5, <1>9, <1>10, <1>11, SameDevice DEF Inv

(* The kill list timer.                                                     *)
LEMMA KillListTimerInv ==
    ASSUME Inv, KillListTimer, UNCHANGED deviceVars
    PROVE  Inv'
<1> DEFINE n == expected_reply_seq_number
<1>1. /\ phase = "timers" /\ kill_due' = FALSE
      /\ UNCHANGED <<succeeded, phase, rounds, cmd_in_buffer, worker_execs, last_seq, exec_timer,
                     cmd_pipe, result_pipe>>
  BY DEF KillListTimer
<1>2. PICK m : /\ SetPlist(KillListProcessed(Plist, m))
               /\ schedule_exit' \in {schedule_exit, TRUE} /\ kill_failed' \in {kill_failed, TRUE}
  BY DEF KillListTimer
<1>3. UNCHANGED <<up, exec_list, asked, cmd_out, expected_reply_seq_number>>
  BY DEF deviceVars
<1>4. n \in Nat /\ Sound(Plist, succeeded, n) /\ Working /\ Stream' = Stream
  BY <1>1, <1>3, Facts DEF Inv, Working, Stream
<1> DEFINE q == KillListProcessed(Plist, m)
<1>5. /\ Sound(q, succeeded, n) /\ Len(q.active) = Len(active_list)
      /\ \A i \in DOMAIN active_list : /\ q.active[i].name = active_list[i].name
                                       /\ q.active[i].exec = active_list[i].exec
  <2>1. q = KillListProcessed(Plist, m)
    OBVIOUS
  <2> HIDE DEF q, n
  <2>2. /\ Sound(q, succeeded, n) /\ Len(q.active) = Len(Plist.active)
        /\ \A i \in DOMAIN Plist.active : /\ q.active[i].name = Plist.active[i].name
                                          /\ q.active[i].exec = Plist.active[i].exec
    BY <1>4, <2>1, KillSound
  <2> QED BY <2>2, Facts
<1> HIDE DEF q
<1>6. Plist' = q /\ active_list' = q.active /\ q.active \in Seq(Entry)
  <2>1. SetPlist(q)
    BY <1>2 DEF q
  <2>2. q \in PlistType
    BY <1>5 DEF Sound
  <2> QED BY <2>1, <2>2, PlistNext DEF SetPlist, PlistType
<1>7. /\ q.active # <<>> => active_list # <<>>
      /\ \A e \in Range(q.active) : e.exec = last_seq
      /\ RunsAll(asked, active_list) => RunsAll(asked, q.active)
  <2>1. \A e \in Range(active_list) : e.exec = last_seq
    BY <1>1 DEF Inv, ActiveIsLatestExecution
  <2>2. active_list \in Seq(Entry)
    BY Facts
  <2> QED BY <1>5, <1>6, <2>1, <2>2, SameNames
<1>8. WorkerInv'
  BY <1>1, <1>2, <1>3 DEF Inv, WorkerInv, WorkerPhases, Working
<1>9. ActiveIsLatestExecution'
  BY <1>1, <1>6, <1>7 DEF Inv, ActiveIsLatestExecution
<1>10. KillInv' /\ ExitKillsAll'
  BY <1>1 DEF KillInv, ExitKillsAll
<1>11. LatestInv'
  BY <1>1, <1>3, <1>4, <1>6, <1>7 DEF Inv, LatestInv, Working
<1> QED BY <1>1, <1>3, <1>5, <1>6, <1>8, <1>9, <1>10, <1>11, SameDevice DEF Inv

(* A round of process_list_killall.                                         *)
LEMMA KillallRoundInv ==
    ASSUME Inv, KillallRound, UNCHANGED deviceVars
    PROVE  Inv'
<1> DEFINE n == expected_reply_seq_number
           start == KillallStart(Plist)
<1>1. /\ phase = "killall" /\ rounds' = rounds + 1 /\ worker_execs' = <<>> /\ exec_timer' = FALSE
      /\ UNCHANGED <<succeeded, cmd_in_buffer, last_seq, kill_due, schedule_exit,
                     cmd_pipe, result_pipe>>
  BY DEF KillallRound
<1>2. PICK m :
         /\ SetPlist(KillListProcessed(start, m))
         /\ \/ /\ m = 0 /\ UNCHANGED kill_failed
               /\ phase' = IF KillallDone(KillListProcessed(start, m)) THEN "free" ELSE "killall"
            \/ phase' = "free" /\ kill_failed' = TRUE
  BY DEF KillallRound
<1>3. UNCHANGED <<up, exec_list, asked, cmd_out, expected_reply_seq_number>>
  BY DEF deviceVars
<1>4. n \in Nat /\ Sound(Plist, succeeded, n) /\ rounds \in Nat /\ KillRounds \in Nat /\ KillRounds > 0
      /\ rounds < 2 * KillRounds
  BY <1>1, Facts, WorkerAssumption DEF Inv, WorkerInv, KillInv
<1>5. /\ Sound(start, succeeded, n) /\ start.active = <<>>
      /\ rounds > 0 => \A i \in DOMAIN start.kill : start.kill[i].state # "RUNNING"
  <2>1. CASE rounds = 0
    <3>1. start = MoveActiveToKillList(Plist)
      BY <2>1 DEF KillallStart
    <3> HIDE DEF start, n
    <3> QED BY <1>4, <2>1, <3>1, MoveSound
  <2>2. CASE rounds # 0
    <3>1. start = Plist
      BY <2>2 DEF KillallStart
    <3> HIDE DEF start
    <3>2. rounds > 0
      BY <1>4, <2>2
    <3>3. active_list = <<>> /\ \A i \in DOMAIN to_kill_list : to_kill_list[i].state # "RUNNING"
      BY <1>1, <3>2 DEF Inv, KillInv
    <3>4. start.active = active_list /\ start.kill = to_kill_list
      BY <3>1, Facts
    <3> QED BY <1>4, <3>1, <3>3, <3>4
  <2> QED BY <2>1, <2>2
<1> DEFINE q == KillListProcessed(start, m)
<1>6. /\ Sound(q, succeeded, n) /\ Len(q.active) = Len(start.active)
      /\ m = 0 => \A i \in DOMAIN q.kill : q.kill[i].state # "RUNNING"
      /\ m = 0 /\ rounds > 0 => \A i \in DOMAIN q.kill : q.kill[i].state = "SIGKILL_SENT"
  <2>1. q = KillListProcessed(start, m)
    OBVIOUS
  <2> HIDE DEF q, n, start
  <2> QED BY <1>4, <1>5, <2>1, KillSound
<1> HIDE DEF start
<1>7. SetPlist(q) /\ (phase' = "killall" => ~KillallDone(q))
  BY <1>2
<1> HIDE DEF q
<1>8. q \in PlistType /\ q.active = <<>>
  <2>1. q.active \in Seq(Entry) /\ Len(q.active) = 0
    BY <1>4, <1>5, <1>6, SoundParts
  <2>2. q.active = <<>>
    BY <2>1, EmptySeq
  <2> QED BY <1>6, <2>2 DEF Sound
<1>9. Plist' = q /\ active_list' = <<>> /\ to_kill_list' = q.kill
  BY <1>7, <1>8, PlistNext DEF SetPlist
<1>10. WorkerInv'
  <2>1. phase' \in {"free", "killall"}
    BY <1>2
  <2>2. kill_failed' \in BOOLEAN
    BY <1>2 DEF Inv, WorkerInv
  <2>3. rounds' \in 0..(2 * KillRounds)
    BY <1>1, <1>4
  <2>4. worker_execs' \in Seq(Names) /\ exec_timer' \in BOOLEAN
    <3>1. <<>> \in Seq(Names)
      BY EmptySeq, Zenon
    <3> QED BY <1>1, <3>1
  <2>5. phase' \in WorkerPhases /\ ~Working' /\ phase' \notin {"lines", "poll", "check", "timers"}
    <3>1. CASE phase' = "free"
      BY <3>1 DEF WorkerPhases, Working
    <3>2. CASE phase' = "killall"
      BY <3>2 DEF WorkerPhases, Working
    <3> QED BY <2>1, <3>1, <3>2
  <2>6. /\ kill_due' = kill_due /\ schedule_exit' = schedule_exit /\ last_seq' = last_seq
        /\ cmd_in_buffer' = cmd_in_buffer /\ cmd_pipe' = cmd_pipe /\ result_pipe' = result_pipe
        /\ succeeded' = succeeded /\ expected_reply_seq_number' = expected_reply_seq_number
    BY <1>1, <1>3
  <2> QED BY <2>2, <2>3, <2>4, <2>5, <2>6 DEF Inv, WorkerInv
<1>11. KillInv'
  <2> SUFFICES ASSUME phase' = "killall"
               PROVE  /\ rounds' < 2 * KillRounds
                      /\ \A i \in DOMAIN q.kill : q.kill[i].state # "RUNNING"
                      /\ rounds' > 1 => \A i \in DOMAIN q.kill : q.kill[i].state = "SIGKILL_SENT"
    BY <1>9 DEF KillInv
  <2>1. m = 0
    BY <1>2
  <2>2. rounds + 1 # 2 * KillRounds
    BY <1>7 DEF KillallDone
  <2> QED BY <1>1, <1>4, <1>6, <2>1, <2>2
<1>12. ExitKillsAll'
  <2> SUFFICES ASSUME phase' = "free"
               PROVE  kill_failed' \/ \A e \in Range(q.kill) : e.state = "SIGKILL_SENT"
    BY <1>9 DEF ExitKillsAll
  <2>1. CASE kill_failed' = TRUE
    BY <2>1
  <2>2. CASE m = 0 /\ KillallDone(q)
    <3>1. q.kill = <<>> \/ rounds > 0
      BY <1>4, <2>2 DEF KillallDone
    <3> QED BY <1>6, <2>2, <3>1 DEF Range
  <2> QED BY <1>2, <2>1, <2>2 DEF q
<1>13. ActiveIsLatestExecution'
  BY <1>9 DEF ActiveIsLatestExecution, Range
<1>14. LatestInv'
  <2>1. ~Working'
    BY <1>2 DEF Working
  <2> QED BY <1>1, <1>3, <2>1 DEF Inv, LatestInv
<1> QED BY <1>1, <1>3, <1>6, <1>9, <1>10, <1>11, <1>12, <1>13, <1>14, SameDevice DEF Inv

(* A process ends: its status waits for waitpid, and success is on record.  *)
LEMMA ExitSound ==
    ASSUME NEW pl, NEW succ, NEW n \in Nat, Sound(pl, succ, n), NEW p \in Pids,
           pl.procs[p] = "run", NEW status \in {"ok", "bad"}, NEW succ2, succ \subseteq succ2,
           \A i \in DOMAIN pl.active :
              status = "ok" /\ HasProcess(pl.active[i]) /\ pl.active[i].pid = p
                 => <<pl.active[i].exec, pl.active[i].name>> \in succ2,
           \A i \in DOMAIN pl.kill :
              status = "ok" /\ HasProcess(pl.kill[i]) /\ pl.kill[i].pid = p
                 => <<pl.kill[i].exec, pl.kill[i].name>> \in succ2,
           NEW q, q = [pl EXCEPT !.procs = [pl.procs EXCEPT ![p] = status]]
    PROVE  Sound(q, succ2, n)
<1>1. /\ pl.active \in Seq(Entry) /\ pl.kill \in Seq(Entry)
      /\ pl.allocated \in Nat /\ pl.procs \in [Pids -> ProcStates]
      /\ pl = [active |-> pl.active, kill |-> pl.kill, allocated |-> pl.allocated, procs |-> pl.procs]
  BY SoundParts
<1>2. /\ q = [active |-> pl.active, kill |-> pl.kill, allocated |-> pl.allocated,
              procs |-> [pl.procs EXCEPT ![p] = status]]
  BY <1>1
<1>3. /\ q.active = pl.active /\ q.kill = pl.kill /\ q.allocated = pl.allocated
      /\ q.procs = [pl.procs EXCEPT ![p] = status]
  BY <1>2
<1>4. q.procs \in [Pids -> ProcStates]
  BY <1>1, <1>3 DEF ProcStates
<1>5. q \in PlistType
  BY <1>1, <1>2, <1>3, <1>4 DEF PlistType
<1>6. ASSUME NEW e \in Entry, Owns(pl, e, succ),
             status = "ok" /\ HasProcess(e) /\ e.pid = p => <<e.exec, e.name>> \in succ2
      PROVE  Owns(q, e, succ2)
  <2>1. HasProcess(e) => e.pid \in Pids /\ pl.procs[e.pid] # "free" /\ e.status = "none"
    BY <1>6 DEF Owns
  <2>2. HasProcess(e) => q.procs[e.pid] # "free"
    BY <1>1, <1>3, <2>1
  <2>3. HasProcess(e) /\ q.procs[e.pid] = "ok" => <<e.exec, e.name>> \in succ2
    BY <1>1, <1>3, <1>6, <2>1 DEF Owns
  <2>4. e.status = "ok" => <<e.exec, e.name>> \in succ2
    BY <1>6 DEF Owns
  <2>5. e.state = "FINISHED" => e.status # "none"
    BY <1>6 DEF Owns
  <2> QED BY <2>1, <2>2, <2>3, <2>4, <2>5 DEF Owns
<1>7. \A i \in DOMAIN q.active : Owns(q, q.active[i], succ2) /\ q.active[i].exec <= n
  <2> SUFFICES ASSUME NEW i \in DOMAIN pl.active
               PROVE  Owns(q, pl.active[i], succ2) /\ pl.active[i].exec <= n
    BY <1>3
  <2>1. pl.active[i] \in Entry
    BY <1>1
  <2>2. Owns(pl, pl.active[i], succ) /\ pl.active[i].exec <= n
    BY DEF Sound
  <2> QED BY <1>6, <2>1, <2>2
<1>8. \A i \in DOMAIN q.kill : Owns(q, q.kill[i], succ2) /\ q.kill[i].exec <= n
  <2> SUFFICES ASSUME NEW i \in DOMAIN pl.kill
               PROVE  Owns(q, pl.kill[i], succ2) /\ pl.kill[i].exec <= n
    BY <1>3
  <2>1. pl.kill[i] \in Entry
    BY <1>1
  <2>2. Owns(pl, pl.kill[i], succ) /\ pl.kill[i].exec <= n
    BY DEF Sound
  <2> QED BY <1>6, <2>1, <2>2
<1>9. \A x \in Pids : q.procs[x] # "free" => HasOwner(q, x)
  <2> SUFFICES ASSUME NEW x \in Pids, q.procs[x] # "free" PROVE HasOwner(q, x)
    OBVIOUS
  <2>1. pl.procs[x] # "free"
    BY <1>1, <1>3
  <2>2. HasOwner(pl, x)
    BY <2>1 DEF Sound
  <2> QED BY <1>3, <2>2 DEF HasOwner
<1>10. /\ q.allocated = Len(q.active) + Len(q.kill) /\ q.allocated <= MaxProcesses
       /\ (\A i \in DOMAIN q.kill : HasProcess(q.kill[i]))
       /\ Apart(q.active) /\ Apart(q.kill) /\ ApartFrom(q.active, q.kill)
  BY <1>3 DEF Sound
<1> QED BY <1>5, <1>7, <1>8, <1>9, <1>10 DEF Sound

(* A process ends.                                                          *)
LEMMA ProcessStepInv ==
    ASSUME Inv, ProcessStep
    PROVE  Inv'
<1> DEFINE n == expected_reply_seq_number
<1>1. /\ phase \in {"check", "timers", "killall"}
      /\ UNCHANGED <<controlVars, cmd_in_buffer, worker_execs, last_seq, exec_timer,
                     cmd_pipe, result_pipe, deviceVars>>
  BY DEF ProcessStep
<1>2. PICK p \in Pids, status \in {"ok", "bad"} : ProcessExits(p, status)
  BY DEF ProcessStep
<1> DEFINE N == {x \in Entries : status = "ok" /\ HasProcess(x) /\ x.pid = p}
           new == {<<e.exec, e.name>> : e \in N}
<1>3. /\ procs[p] = "run" /\ procs' = [procs EXCEPT ![p] = status]
      /\ succeeded' = succeeded \cup new
      /\ UNCHANGED <<active_list, to_kill_list, allocated_list_entries>>
  BY <1>2 DEF ProcessExits
<1>4. n \in Nat /\ Sound(Plist, succeeded, n) /\ active_list \in Seq(Entry) /\ to_kill_list \in Seq(Entry)
  BY Facts DEF Inv
<1>5. \A e \in Entries : e \in Entry /\ e.exec \in 0..n /\ e.name \in Names
  <2> SUFFICES ASSUME NEW e \in Entries PROVE e \in Entry /\ e.exec <= n
    BY <1>4 DEF Entry
  <2>1. CASE e \in Range(active_list)
    <3>1. PICK i \in DOMAIN active_list : e = active_list[i]
      BY <2>1 DEF Range
    <3>2. Plist.active[i].exec <= n /\ Plist.active = active_list
      BY <1>4, Facts DEF Sound
    <3> QED BY <1>4, <3>1, <3>2
  <2>2. CASE e \in Range(to_kill_list)
    <3>1. PICK i \in DOMAIN to_kill_list : e = to_kill_list[i]
      BY <2>2 DEF Range
    <3>2. Plist.kill[i].exec <= n /\ Plist.kill = to_kill_list
      BY <1>4, Facts DEF Sound
    <3> QED BY <1>4, <3>1, <3>2
  <2> QED BY <2>1, <2>2 DEF Entries
<1>6. new \subseteq (0..n) \X Names
  BY <1>5
<1> DEFINE q == [Plist EXCEPT !.procs = [Plist.procs EXCEPT ![p] = status]]
<1>7. Plist' = q
  BY <1>3 DEF Plist
<1>8. Sound(q, succeeded', n)
  <2>1. \A i \in DOMAIN Plist.active :
           status = "ok" /\ HasProcess(Plist.active[i]) /\ Plist.active[i].pid = p
              => <<Plist.active[i].exec, Plist.active[i].name>> \in succeeded'
    <3> SUFFICES ASSUME NEW i \in DOMAIN active_list, status = "ok",
                        HasProcess(active_list[i]), active_list[i].pid = p
                 PROVE  <<active_list[i].exec, active_list[i].name>> \in new
      BY <1>3, Facts
    <3>1. active_list[i] \in N
      BY DEF Entries, Range
    <3> QED BY <3>1
  <2>2. \A i \in DOMAIN Plist.kill :
           status = "ok" /\ HasProcess(Plist.kill[i]) /\ Plist.kill[i].pid = p
              => <<Plist.kill[i].exec, Plist.kill[i].name>> \in succeeded'
    <3> SUFFICES ASSUME NEW i \in DOMAIN to_kill_list, status = "ok",
                        HasProcess(to_kill_list[i]), to_kill_list[i].pid = p
                 PROVE  <<to_kill_list[i].exec, to_kill_list[i].name>> \in new
      BY <1>3, Facts
    <3>1. to_kill_list[i] \in N
      BY DEF Entries, Range
    <3> QED BY <3>1
  <2>3. Plist.procs[p] = "run" /\ succeeded \subseteq succeeded'
    BY <1>3, Facts
  <2>4. q = [Plist EXCEPT !.procs = [Plist.procs EXCEPT ![p] = status]]
    OBVIOUS
  <2> HIDE DEF q, n
  <2> QED BY <1>4, <2>1, <2>2, <2>3, <2>4, ExitSound
<1> HIDE DEF q, new
<1>9. /\ UNCHANGED <<phase, kill_due, schedule_exit, rounds, kill_failed>> /\ UNCHANGED deviceVars
      /\ UNCHANGED <<cmd_in_buffer, worker_execs, last_seq, exec_timer, cmd_pipe, result_pipe>>
      /\ UNCHANGED <<up, exec_list, asked, cmd_out, expected_reply_seq_number>>
  BY <1>1 DEF controlVars, deviceVars
<1>10. WorkerInv'
  <2>1. succeeded' \subseteq (0..n) \X Names
    BY <1>3, <1>6 DEF Inv, WorkerInv
  <2> QED BY <1>9, <2>1 DEF Inv, WorkerInv, Working
<1>11. ActiveIsLatestExecution' /\ KillInv' /\ ExitKillsAll'
  BY <1>3, <1>9 DEF Inv, ActiveIsLatestExecution, KillInv, ExitKillsAll
<1>12. LatestInv'
  <2>1. Stream' = Stream
    BY <1>9 DEF Stream
  <2>2. up => \A i \in DOMAIN result_pipe : Truthful(result_pipe[i], asked, n, succeeded')
    BY <1>3 DEF Inv, LatestInv, Truthful
  <2> QED BY <1>3, <1>9, <2>1, <2>2 DEF Inv, LatestInv, Working
<1> QED BY <1>7, <1>8, <1>9, <1>10, <1>11, <1>12, SameDevice DEF Inv

(* qdevice_heuristics_worker_cmd_process_exec                               *)
LEMMA ProcessExecInv ==
    ASSUME Inv, ProcessExec, UNCHANGED deviceVars
    PROVE  Inv'
<1> DEFINE head == Head(cmd_in_buffer)
           n    == expected_reply_seq_number
           C    == CmdsTo(expected_reply_seq_number)
           seq  == Head(cmd_in_buffer).seq
<1>1. /\ phase = "lines" /\ head.cmd = "exec" /\ last_seq' = seq
      /\ cmd_in_buffer' = Tail(cmd_in_buffer)
      /\ UNCHANGED <<succeeded, worker_execs, kill_due, schedule_exit, rounds, kill_failed, cmd_pipe>>
  BY DEF ProcessExec
<1>2. PICK out \in ExecOutcomes(Superseded, worker_execs, seq) :
         /\ SetPlist(out.plist)
         /\ exec_timer' = out.runs
         /\ \/ out.runs /\ LineDone /\ UNCHANGED result_pipe
            \/ ~out.runs /\ LineDone /\ WriteResult(seq, out.result)
            \/ ~out.runs /\ phase' = "killall" /\ UNCHANGED result_pipe
  BY DEF ProcessExec
<1>3. UNCHANGED <<up, exec_list, asked, cmd_out, expected_reply_seq_number>>
  BY DEF deviceVars
<1>4. /\ cmd_in_buffer # <<>> /\ cmd_in_buffer \in Seq(C) /\ cmd_pipe \in Seq(C)
      /\ cmd_out \in Seq(C) /\ n \in Nat /\ Sound(Plist, succeeded, n) /\ Working /\ rounds = 0
  BY <1>1, Facts DEF Inv, WorkerInv, Working
<1>5. /\ head \in C /\ Tail(cmd_in_buffer) \in Seq(C)
      /\ Tail(cmd_in_buffer) = <<>> => Len(cmd_in_buffer) = 1
      /\ Len(cmd_in_buffer) = 1 => Tail(cmd_in_buffer) = <<>>
  <2> HIDE DEF C
  <2> QED BY <1>4, TakeLine
<1>6. seq \in 1..n
  BY <1>1, <1>5 DEF CmdsTo, ClearCmd
<1>7. Stream # <<>> /\ Head(Stream) = head /\ Stream' = Tail(Stream)
  <2>1. Stream = (cmd_in_buffer \o cmd_pipe) \o cmd_out
    BY DEF Stream
  <2>2. /\ Stream # <<>> /\ Head(Stream) = head
        /\ (Tail(cmd_in_buffer) \o cmd_pipe) \o cmd_out = Tail(Stream)
    <3> HIDE DEF C
    <3> QED BY <1>4, <2>1, StreamTake, SMTT(30)
  <2> QED BY <1>1, <1>3, <2>2 DEF Stream
<1>8. Sound(Superseded, succeeded, n) /\ Superseded.active = <<>>
  <2>1. CASE exec_timer
    <3>1. Superseded = MoveActiveToKillList(Plist)
      BY <2>1 DEF Superseded
    <3> HIDE DEF n
    <3> QED BY <1>4, <3>1, MoveSound
  <2>2. CASE ~exec_timer
    <3>1. Superseded = Plist
      BY <2>2 DEF Superseded
    <3>2. active_list = <<>>
      BY <1>1, <2>2 DEF Inv, ActiveIsLatestExecution
    <3> QED BY <1>4, <3>1, <3>2, Facts
  <2> QED BY <2>1, <2>2
<1> DEFINE pl == out.plist
<1>9. /\ Sound(pl, succeeded, n) /\ out.runs \in BOOLEAN
      /\ ~out.runs => /\ pl.active = <<>> /\ out.result \in {"FAIL", "DISABLED"}
                      /\ (out.result = "DISABLED") = (worker_execs = <<>>)
      /\ out.runs => /\ worker_execs # <<>>
                     /\ Len(pl.active) = Len(worker_execs)
                     /\ \A i \in DOMAIN pl.active : /\ pl.active[i].exec = seq
                                                    /\ pl.active[i].name = worker_execs[i]
  <2>1. worker_execs \in Seq(Names)
    BY Facts
  <2> HIDE DEF n, seq
  <2>2. n \in Nat /\ seq \in 0..n
    BY <1>4, <1>6
  <2> QED BY <1>8, <2>1, <2>2, OutcomesSound
<1> HIDE DEF seq, head
<1>10. Plist' = pl /\ active_list' = pl.active /\ pl.active \in Seq(Entry)
  <2>1. SetPlist(pl)
    BY <1>2
  <2>2. pl \in PlistType
    BY <1>9 DEF Sound
  <2> HIDE DEF pl
  <2> QED BY <2>1, <2>2, PlistNext DEF SetPlist, PlistType
<1> HIDE DEF pl
<1>11. /\ phase' \in {"check", "lines", "killall"}
       /\ phase' = "lines" => Tail(cmd_in_buffer) # <<>>
       /\ phase' = "check" => Tail(cmd_in_buffer) = <<>>
  BY <1>2, <1>5 DEF LineDone
<1>12. up /\ seq = n => asked = worker_execs
  <2> SUFFICES ASSUME up, seq = n PROVE asked = worker_execs
    OBVIOUS
  <2>1. InOrder(Stream, worker_execs, exec_list, asked, n)
    BY <1>4 DEF Inv, LatestInv
  <2>2. Stream \in Seq(C) /\ 1 \in DOMAIN Stream /\ Stream[1] = head
    <3>1. Stream \in Seq(C)
      BY Facts
    <3> QED BY <1>7, <3>1
  <2>3. Stream[1].cmd = "exec" /\ Stream[1].seq = n
    BY <1>1, <2>2 DEF seq, head
  <2>4. ListAt(Stream, worker_execs, 1, asked)
    BY <2>1, <2>2, <2>3 DEF InOrder
  <2> QED BY <2>4, Facts, ListAtFirst
<1> DEFINE line == [seq |-> seq, result |-> out.result]
<1>13. /\ result_pipe' \in Seq(LinesTo(n))
       /\ up => \A i \in DOMAIN result_pipe' : Truthful(result_pipe'[i], asked, n, succeeded)
  <2>1. up => \A i \in DOMAIN result_pipe : Truthful(result_pipe[i], asked, n, succeeded)
    BY DEF Inv, LatestInv
  <2>2. result_pipe \in Seq(LinesTo(n))
    BY DEF Inv, WorkerInv
  <2>3. CASE ~out.runs /\ result_pipe' = Append(result_pipe, line)
    <3>1. line \in LinesTo(n)
      BY <1>4, <1>6, <1>9, <2>3 DEF LinesTo, Results
    <3>2. up => Truthful(line, asked, n, succeeded)
      BY <1>9, <1>12, <2>3 DEF Truthful
    <3> HIDE DEF n, line
    <3>3. /\ result_pipe' \in Seq(LinesTo(n))
          /\ \A i \in DOMAIN result_pipe' :
                \/ i \in DOMAIN result_pipe /\ result_pipe'[i] = result_pipe[i]
                \/ result_pipe'[i] = line
      BY <2>2, <2>3, <3>1, LineAppended
    <3> QED BY <2>1, <3>2, <3>3
  <2>4. CASE result_pipe' = result_pipe
    BY <2>1, <2>2, <2>4
  <2> QED BY <1>2, <2>3, <2>4 DEF WriteResult
<1>14. WorkerInv'
  <2>1. /\ phase' \in WorkerPhases
        /\ phase' = "lines" => cmd_in_buffer' # <<>>
        /\ phase' \in {"poll", "check", "timers"} => cmd_in_buffer' = <<>>
    BY <1>1, <1>11 DEF WorkerPhases
  <2>2. exec_timer' \in BOOLEAN /\ last_seq' \in 0..n /\ cmd_in_buffer' \in Seq(CmdsTo(n))
    <3>1. exec_timer' \in BOOLEAN
      BY <1>2, <1>9, Zenon
    <3>2. last_seq' \in 0..n
      BY <1>1, <1>4, <1>6
    <3>3. cmd_in_buffer' \in Seq(CmdsTo(n))
      BY <1>1, <1>5
    <3> QED BY <3>1, <3>2, <3>3
  <2> QED BY <1>1, <1>3, <1>4, <1>13, <2>1, <2>2 DEF Inv, WorkerInv
<1>15. ActiveIsLatestExecution'
  <2>1. pl.active # <<>> => out.runs
    BY <1>9
  <2>2. \A e \in Range(pl.active) : e.exec = seq
    <3>1. CASE out.runs
      BY <1>9, <3>1 DEF Range
    <3>2. CASE ~out.runs
      BY <1>9, <3>2 DEF Range
    <3> QED BY <3>1, <3>2
  <2> QED BY <1>1, <1>2, <1>10, <2>1, <2>2 DEF ActiveIsLatestExecution
<1>16. KillInv' /\ ExitKillsAll'
  BY <1>1, <1>4, <1>11, WorkerAssumption DEF KillInv, ExitKillsAll
<1>17. LatestInv'
  <2>1. up => InOrder(Tail(Stream), worker_execs, exec_list, asked, n)
    <3> SUFFICES ASSUME up PROVE InOrder(Tail(Stream), worker_execs, exec_list, asked, n)
      OBVIOUS
    <3>1. InOrder(Stream, worker_execs, exec_list, asked, n)
      BY <1>4 DEF Inv, LatestInv
    <3>2. Stream \in Seq(CmdsTo(n)) /\ Stream # <<>> /\ n \in Nat
      BY <1>7, Facts
    <3>3. worker_execs \in Seq(Names) /\ exec_list \in Seq(Names) /\ asked \in Seq(Names)
      BY Facts
    <3>4. ExecsAfter(worker_execs, Head(Stream)) = worker_execs
      BY <1>1, <1>7 DEF ExecsAfter
    <3> HIDE DEF n
    <3>5. InOrder(Tail(Stream), ExecsAfter(worker_execs, Head(Stream)), exec_list, asked, n)
      BY <3>1, <3>2, <3>3, InOrderTail
    <3> QED BY <3>4, <3>5
  <2>2. up /\ out.runs /\ seq = n => RunsAll(asked, pl.active)
    <3> SUFFICES ASSUME up, out.runs, seq = n PROVE RunsAll(worker_execs, pl.active)
      BY <1>12
    <3>1. DOMAIN pl.active = DOMAIN worker_execs
      BY <1>9, <1>10, Facts
    <3> QED BY <1>9, <3>1 DEF RunsAll
  <2> QED BY <1>1, <1>2, <1>3, <1>7, <1>10, <1>13, <2>1, <2>2 DEF LatestInv
<1> QED BY <1>1, <1>3, <1>9, <1>10, <1>14, <1>15, <1>16, <1>17, SameDevice DEF Inv

(* A step of the device leaves the worker alone.                            *)
LEMMA SameWorker ==
    ASSUME Inv, UNCHANGED workerVars,
           expected_reply_seq_number' \in {expected_reply_seq_number, expected_reply_seq_number + 1}
    PROVE  /\ Sound(Plist, succeeded, expected_reply_seq_number)'
           /\ WorkerInv' /\ ActiveIsLatestExecution' /\ KillInv' /\ ExitKillsAll'
<1> DEFINE n == expected_reply_seq_number
           m == expected_reply_seq_number'
<1>1. /\ UNCHANGED <<active_list, to_kill_list, allocated_list_entries, procs, succeeded>>
      /\ UNCHANGED <<phase, kill_due, schedule_exit, rounds, kill_failed>>
      /\ UNCHANGED <<cmd_in_buffer, worker_execs, last_seq, exec_timer, cmd_pipe, result_pipe>>
  BY DEF workerVars, plistVars, controlVars
<1>2. n \in Nat /\ m \in Nat /\ n <= m
  <2>1. n \in Nat
    BY Facts
  <2> QED BY <2>1
<1>3. Sound(Plist, succeeded, m)
  <2>1. Sound(Plist, succeeded, n)
    BY DEF Inv
  <2>2. \A i \in DOMAIN Plist.active : Plist.active[i].exec \in Nat
    <3>1. Plist.active \in Seq(Entry)
      BY <1>2, <2>1, SoundParts
    <3>2. \A i \in DOMAIN Plist.active : Plist.active[i] \in Entry
      BY <3>1
    <3>3. \A e \in Entry : e.exec \in Nat
      BY DEF Entry
    <3> QED BY <3>2, <3>3
  <2>3. \A i \in DOMAIN Plist.kill : Plist.kill[i].exec \in Nat
    <3>1. Plist.kill \in Seq(Entry)
      BY <1>2, <2>1, SoundParts
    <3>2. \A i \in DOMAIN Plist.kill : Plist.kill[i] \in Entry
      BY <3>1
    <3>3. \A e \in Entry : e.exec \in Nat
      BY DEF Entry
    <3> QED BY <3>2, <3>3
  <2> HIDE DEF n, m
  <2>4. \A i \in DOMAIN Plist.active : Owns(Plist, Plist.active[i], succeeded) /\ Plist.active[i].exec <= m
    BY <1>2, <2>1, <2>2 DEF Sound
  <2>5. \A i \in DOMAIN Plist.kill : Owns(Plist, Plist.kill[i], succeeded) /\ Plist.kill[i].exec <= m
    BY <1>2, <2>1, <2>3 DEF Sound
  <2> QED BY <2>1, <2>4, <2>5 DEF Sound
<1>4. Plist' = Plist
  BY <1>1 DEF Plist
<1>5. WorkerInv'
  <2>1. cmd_in_buffer \in Seq(CmdsTo(m)) /\ cmd_pipe \in Seq(CmdsTo(m)) /\ result_pipe \in Seq(LinesTo(m))
    BY <1>2, Widen DEF Inv, WorkerInv
  <2>2. last_seq \in 0..m /\ succeeded \subseteq (0..m) \X Names
    <3>1. (0..n) \subseteq (0..m)
      BY <1>2
    <3> QED BY <3>1 DEF Inv, WorkerInv
  <2> QED BY <1>1, <2>1, <2>2 DEF Inv, WorkerInv, Working
<1>6. ActiveIsLatestExecution' /\ KillInv' /\ ExitKillsAll'
  BY <1>1 DEF Inv, ActiveIsLatestExecution, KillInv, ExitKillsAll
<1> QED BY <1>1, <1>3, <1>4, <1>5, <1>6

(* The device ends.                                                         *)
LEMMA DeviceGoneInv ==
    ASSUME Inv, DeviceGone, UNCHANGED workerVars
    PROVE  Inv'
<1>1. /\ up' = FALSE /\ exec_list' = <<>> /\ mode' = "disabled" /\ cmd_out' = <<>>
      /\ notifiers' = {} /\ regular_timer' = FALSE
      /\ UNCHANGED <<expected_reply_seq_number, waiting_for_result, interrupted, changes, asked, given>>
  BY DEF DeviceGone
<1>2. DeviceInv'
  <2>1. <<>> \in Seq(Names) /\ <<>> \in Seq(CmdsTo(expected_reply_seq_number)) /\ Len(<<>>) <= MaxCmdBuffers
    BY HeuristicsAssumption
  <2>2. mode' \in Modes
    BY <1>1 DEF Modes
  <2> QED BY <1>1, <2>1, <2>2 DEF Inv, DeviceInv
<1>3. LatestInv' /\ GoesOn'
  BY <1>1 DEF LatestInv, GoesOn
<1> QED BY <1>1, <1>2, <1>3, SameWorker DEF Inv

(* A command moves from the buffers to the pipe.                            *)
LEMMA CmdWriteInv ==
    ASSUME Inv, CmdWrite
    PROVE  Inv'
<1> DEFINE n == expected_reply_seq_number
           C == CmdsTo(expected_reply_seq_number)
<1>1. /\ cmd_out # <<>> /\ cmd_pipe' = Append(cmd_pipe, Head(cmd_out)) /\ cmd_out' = Tail(cmd_out)
      /\ UNCHANGED plistVars
      /\ UNCHANGED <<phase, kill_due, schedule_exit, rounds, kill_failed, cmd_in_buffer, worker_execs,
                     last_seq, exec_timer, result_pipe>>
      /\ UNCHANGED <<up, expected_reply_seq_number, waiting_for_result, exec_list, mode,
                     notifiers, regular_timer, interrupted, changes, asked, given>>
  BY DEF CmdWrite, controlVars
<1>2. cmd_in_buffer \in Seq(C) /\ cmd_pipe \in Seq(C) /\ cmd_out \in Seq(C)
  BY Facts
<1>3. Head(cmd_out) \in C /\ Tail(cmd_out) \in Seq(C) /\ Len(Tail(cmd_out)) = Len(cmd_out) - 1
  <2> HIDE DEF C
  <2> QED BY <1>1, <1>2, HeadTailProperties
<1>4. cmd_pipe' \in Seq(C)
  <2> HIDE DEF C
  <2> QED BY <1>1, <1>2, <1>3, AppendProperties
<1>5. Stream' = Stream
  <2>1. FirstMoves(cmd_pipe, cmd_out, cmd_pipe', cmd_out')
    BY <1>1 DEF FirstMoves
  <2>2. (cmd_in_buffer \o cmd_pipe') \o cmd_out' = (cmd_in_buffer \o cmd_pipe) \o cmd_out
    <3> HIDE DEF C
    <3>1. Join(cmd_in_buffer, cmd_pipe', cmd_out') = Join(cmd_in_buffer, cmd_pipe, cmd_out)
      BY <1>2, <2>1, StreamWrite
    <3> QED BY <3>1 DEF Join
  <2> QED BY <1>1, <2>2 DEF Stream
<1>6. UNCHANGED <<active_list, to_kill_list, succeeded>>
  BY <1>1 DEF plistVars
<1>7. WorkerInv'
  BY <1>1, <1>4, <1>6 DEF Inv, WorkerInv, Working
<1>8. DeviceInv'
  <2>1. cmd_out' \in Seq(CmdsTo(n))
    BY <1>1, <1>3
  <2>2. Len(cmd_out') <= MaxCmdBuffers
    <3>1. Len(cmd_out) \in Nat /\ Len(cmd_out) <= MaxCmdBuffers
      BY <1>2 DEF Inv, DeviceInv
    <3> QED BY <1>1, <1>3, <3>1, HeuristicsAssumption
  <2> QED BY <1>1, <2>1, <2>2 DEF Inv, DeviceInv
<1>9. GoesOn'
  BY <1>1 DEF Inv, GoesOn, Started
<1>10. ActiveIsLatestExecution' /\ KillInv' /\ ExitKillsAll'
  BY <1>1, <1>6 DEF Inv, ActiveIsLatestExecution, KillInv, ExitKillsAll
<1>11. LatestInv'
  BY <1>1, <1>5, <1>6 DEF Inv, LatestInv, Working
<1> QED BY <1>1, <1>7, <1>8, <1>9, <1>10, <1>11, SamePlist DEF Inv

(* The device reads a result.                                               *)
LEMMA ReadResultInv ==
    ASSUME Inv, ReadResult
    PROVE  Inv'
<1> DEFINE n == expected_reply_seq_number
           line == Head(result_pipe)
<1>1. /\ up /\ result_pipe # <<>> /\ result_pipe' = Tail(result_pipe)
      /\ UNCHANGED plistVars
      /\ UNCHANGED <<phase, kill_due, schedule_exit, rounds, kill_failed, cmd_in_buffer, worker_execs,
                     last_seq, exec_timer, cmd_pipe>>
      /\ UNCHANGED <<up, expected_reply_seq_number, exec_list, mode, cmd_out, changes, asked>>
  BY DEF ReadResult, controlVars
<1>2. \/ Expected(line) /\ Notify(line.result)
      \/ UNCHANGED <<waiting_for_result, given, notifiers, regular_timer, interrupted>>
  BY DEF ReadResult
<1>3. result_pipe \in Seq(LinesTo(n))
  BY DEF Inv, WorkerInv
<1>4. /\ line \in LinesTo(n) /\ line = result_pipe[1] /\ 1 \in DOMAIN result_pipe
      /\ Tail(result_pipe) \in Seq(LinesTo(n))
      /\ \A i \in DOMAIN Tail(result_pipe) : /\ i + 1 \in DOMAIN result_pipe
                                             /\ Tail(result_pipe)[i] = result_pipe[i + 1]
  <2> DEFINE L == LinesTo(n)
  <2> HIDE DEF L
  <2>1. result_pipe \in Seq(L)
    BY <1>3 DEF L
  <2>2. line \in L /\ line = result_pipe[1] /\ 1 \in DOMAIN result_pipe /\ Tail(result_pipe) \in Seq(L)
    BY <1>1, <2>1
  <2>3. \A i \in DOMAIN Tail(result_pipe) : /\ i + 1 \in DOMAIN result_pipe
                                            /\ Tail(result_pipe)[i] = result_pipe[i + 1]
    BY <1>1, <2>1
  <2> QED BY <2>2, <2>3 DEF L
<1>5. \A i \in DOMAIN result_pipe : Truthful(result_pipe[i], asked, n, succeeded)
  BY <1>1 DEF Inv, LatestInv
<1>6. UNCHANGED <<active_list, to_kill_list, succeeded>>
  BY <1>1 DEF plistVars
<1>7. WorkerInv'
  BY <1>1, <1>4, <1>6 DEF Inv, WorkerInv, Working
<1>8. ActiveIsLatestExecution' /\ KillInv' /\ ExitKillsAll'
  BY <1>1, <1>6 DEF Inv, ActiveIsLatestExecution, KillInv, ExitKillsAll
<1>9. LatestInv'
  <2>1. \A i \in DOMAIN result_pipe' : Truthful(result_pipe'[i], asked, n, succeeded)
    BY <1>1, <1>4, <1>5
  <2>2. Stream' = Stream
    BY <1>1 DEF Stream
  <2> QED BY <1>1, <1>6, <2>1, <2>2 DEF Inv, LatestInv, Working
<1>10. line.result \in Results /\ Truthful(line, asked, n, succeeded)
  BY <1>4, <1>5 DEF LinesTo
<1> HIDE DEF line
<1>11. DeviceInv'
  <2>1. CASE Expected(line) /\ Notify(line.result)
    <3>1. /\ waiting_for_result' = FALSE /\ given' = line.result /\ notifiers' = {}
          /\ regular_timer' \in {mode = "enabled", regular_timer}
          /\ interrupted' \in {interrupted, TRUE}
          /\ n > 0
      BY <2>1 DEF Notify, Expected, Inv, DeviceInv
    <3>2. regular_timer' \in BOOLEAN /\ (regular_timer' => mode = "enabled")
      BY <3>1 DEF Inv, DeviceInv
    <3> QED BY <1>1, <1>10, <3>1, <3>2 DEF Inv, DeviceInv
  <2>2. CASE UNCHANGED <<waiting_for_result, given, notifiers, regular_timer, interrupted>>
    BY <1>1, <2>2 DEF Inv, DeviceInv
  <2> QED BY <1>2, <2>1, <2>2
<1>12. GoesOn'
  <2>1. CASE Expected(line) /\ Notify(line.result)
    <3> SUFFICES ASSUME up', Started', ~interrupted', mode' = "enabled" PROVE regular_timer'
      BY DEF GoesOn
    <3>1. regular_timer' = IF Again(line.result) THEN mode = "enabled" ELSE regular_timer
      BY <2>1 DEF Notify
    <3>2. ~interrupted /\ Started /\ mode = "enabled"
      BY <1>1, <2>1 DEF Notify, Started
    <3>3. \/ regular_timer
          \/ "votequorum" \in notifiers
          \/ "regular" \in notifiers /\ asked # <<>>
      BY <1>1, <3>2 DEF Inv, GoesOn
    <3>4. asked # <<>> => line.result # "DISABLED"
      BY <1>10, <2>1 DEF Truthful, Expected
    <3> QED BY <3>1, <3>2, <3>3, <3>4 DEF Again
  <2>2. CASE UNCHANGED <<waiting_for_result, given, notifiers, regular_timer, interrupted>>
    BY <1>1, <2>2 DEF Inv, GoesOn, Started
  <2> QED BY <1>2, <2>1, <2>2
<1> QED BY <1>1, <1>7, <1>8, <1>9, <1>11, <1>12, SamePlist DEF Inv

(* There is no execution in the stream that the device did not ask for.     *)
LEMMA InOrderNone ==
    ASSUME NEW n \in Nat, NEW S \in Seq(CmdsTo(n)), NEW execs \in Seq(Names),
           NEW list \in Seq(Names), NEW wanted, ListAt(S, execs, Len(S) + 1, list)
    PROVE  InOrder(S, execs, list, wanted, n + 1)
<1>1. ASSUME NEW i \in DOMAIN S, S[i].cmd = "exec", S[i].seq = n + 1 PROVE FALSE
  <2>1. S[i] \in CmdsTo(n)
    OBVIOUS
  <2>2. \A c \in CmdsTo(n) : c.cmd = "exec" => c.seq \in 1..n
    BY DEF CmdsTo, ClearCmd
  <2> QED BY <1>1, <2>1, <2>2
<1> QED BY <1>1 DEF InOrder

(* The number of the next execution is in use by nobody.                    *)
LEMMA NextIsUnused ==
    ASSUME Inv, UNCHANGED workerVars, up, up' = up,
           expected_reply_seq_number' = expected_reply_seq_number + 1,
           Working => InOrder(Stream, worker_execs, exec_list, asked, expected_reply_seq_number)'
    PROVE  LatestInv'
<1> DEFINE n == expected_reply_seq_number
<1>1. UNCHANGED <<phase, last_seq, exec_timer, result_pipe, active_list, succeeded>>
  BY DEF workerVars, plistVars, controlVars
<1>2. n \in Nat /\ last_seq \in 0..n /\ result_pipe \in Seq(LinesTo(n))
  BY Facts DEF Inv, WorkerInv
<1>3. last_seq' # expected_reply_seq_number'
  BY <1>1, <1>2
<1>4. \A i \in DOMAIN result_pipe : result_pipe[i].seq # n + 1
  <2>1. \A l \in LinesTo(n) : l.seq # n + 1
    BY <1>2 DEF LinesTo
  <2>2. \A i \in DOMAIN result_pipe : result_pipe[i] \in LinesTo(n)
    BY <1>2
  <2> QED BY <2>1, <2>2
<1>5. \A i \in DOMAIN result_pipe : Truthful(result_pipe[i], asked', n + 1, succeeded')
  BY <1>4 DEF Truthful
<1>6. Working' = Working
  BY <1>1 DEF Working
<1> QED BY <1>1, <1>3, <1>5, <1>6 DEF LatestInv

(* qdevice_heuristics_exec, for whatever list and after whatever commands.  *)
LEMMA ExecParts ==
    ASSUME Inv, UNCHANGED workerVars, up, up' = up, NEW out, NEW list \in Seq(Names),
           out \in Seq(CmdsTo(expected_reply_seq_number)), Exec(out, list), exec_list' = list,
           Working => ListAt(Join(cmd_in_buffer, cmd_pipe, out), worker_execs,
                             Len(Join(cmd_in_buffer, cmd_pipe, out)) + 1, list)
    PROVE  /\ LatestInv'
           /\ expected_reply_seq_number' = expected_reply_seq_number + 1
           /\ expected_reply_seq_number' \in 0..MaxExecs /\ expected_reply_seq_number' > 0
           /\ cmd_out' \in Seq(CmdsTo(expected_reply_seq_number')) /\ Len(cmd_out') <= MaxCmdBuffers
           /\ waiting_for_result' = TRUE /\ asked' = list /\ given' = "none"
<1> DEFINE n == expected_reply_seq_number
<1>1. /\ n < MaxExecs /\ expected_reply_seq_number' = n + 1 /\ waiting_for_result' = TRUE
      /\ Len(out) < MaxCmdBuffers /\ cmd_out' = Append(out, ExecCmd(n + 1))
      /\ asked' = list /\ given' = "none"
  BY DEF Exec
<1>2. n \in Nat /\ MaxExecs \in Nat /\ MaxCmdBuffers \in Nat
  BY Facts, HeuristicsAssumption
<1>3. n + 1 \in Nat /\ n + 1 \in 0..MaxExecs /\ n + 1 > 0
  BY <1>1, <1>2
<1>4. ExecCmd(n + 1) \in CmdsTo(n + 1)
  BY <1>3 DEF ExecCmd, CmdsTo
<1>5. \A s \in Seq(CmdsTo(n)) : s \in Seq(CmdsTo(n + 1))
  <2>1. n <= n + 1
    BY <1>2
  <2> QED BY <1>2, <1>3, <2>1, Widen
<1>6. cmd_out' \in Seq(CmdsTo(n + 1)) /\ Len(cmd_out') <= MaxCmdBuffers
  <2>1. out \in Seq(CmdsTo(n + 1))
    BY <1>5
  <2>2. cmd_out' \in Seq(CmdsTo(n + 1)) /\ Len(cmd_out') = Len(out) + 1 /\ Len(out) \in Nat
    BY <1>1, <1>4, <2>1, AppendProperties
  <2> QED BY <1>1, <1>2, <2>2
<1>7. UNCHANGED <<cmd_in_buffer, cmd_pipe, worker_execs, phase>>
  BY DEF workerVars, controlVars
<1> DEFINE S == Join(cmd_in_buffer, cmd_pipe, out)
<1>8. Stream' = Append(S, ExecCmd(n + 1)) /\ S \in Seq(CmdsTo(n))
  <2>1. /\ cmd_in_buffer \in Seq(CmdsTo(n)) /\ cmd_pipe \in Seq(CmdsTo(n))
        /\ out \in Seq(CmdsTo(n))
    BY Facts
  <2>2. S \in Seq(CmdsTo(n))
    BY <2>1, StreamMore DEF Join
  <2>3. Join(cmd_in_buffer, cmd_pipe, Append(out, ExecCmd(n + 1))) = Append(S, ExecCmd(n + 1))
    <3>1. /\ cmd_in_buffer \in Seq(CmdsTo(n + 1)) /\ cmd_pipe \in Seq(CmdsTo(n + 1))
          /\ out \in Seq(CmdsTo(n + 1))
      BY <1>5, <2>1
    <3> DEFINE D == CmdsTo(n + 1)
               x == ExecCmd(n + 1)
               R == (cmd_in_buffer \o cmd_pipe) \o out
    <3>2. R = (cmd_in_buffer \o cmd_pipe) \o out /\ x \in D
      BY <1>4
    <3> HIDE DEF D, x, R
    <3>3. \A y \in D : (cmd_in_buffer \o cmd_pipe) \o Append(out, y) = Append(R, y)
      BY <3>1, <3>2, StreamMore DEF D
    <3>4. (cmd_in_buffer \o cmd_pipe) \o Append(out, x) = Append(R, x)
      BY <3>2, <3>3, Zenon
    <3> QED BY <3>4 DEF Join, R, x
  <2> QED BY <1>1, <1>7, <2>2, <2>3 DEF Stream, Join
<1> HIDE DEF S
<1>9. Working => InOrder(Stream, worker_execs, exec_list, asked, expected_reply_seq_number)'
  <2> SUFFICES ASSUME Working PROVE InOrder(Stream', worker_execs, list, list, n + 1)
    BY <1>1, <1>7
  <2>1. ListAt(S, worker_execs, Len(S) + 1, list)
    BY DEF S
  <2>2. worker_execs \in Seq(Names)
    BY Facts
  <2> HIDE DEF n
  <2> QED BY <1>2, <1>8, <2>1, <2>2, InOrderExec
<1> QED BY <1>1, <1>3, <1>6, <1>9, NextIsUnused

(* An execution of the list that the device has, whether or not there is a  *)
(* buffer for the command.                                                  *)
LEMMA ExecOwnList ==
    ASSUME Inv, UNCHANGED workerVars, up, up' = up, exec_list' = exec_list,
           Exec(cmd_out, exec_list) \/ ExecFails
    PROVE  /\ LatestInv'
           /\ expected_reply_seq_number' = expected_reply_seq_number + 1
           /\ expected_reply_seq_number' \in 0..MaxExecs /\ expected_reply_seq_number' > 0
           /\ cmd_out' \in Seq(CmdsTo(expected_reply_seq_number')) /\ Len(cmd_out') <= MaxCmdBuffers
           /\ waiting_for_result' = TRUE /\ asked' = exec_list /\ given' = "none"
<1> DEFINE n == expected_reply_seq_number
<1>1. Working => ListAt(Stream, worker_execs, Len(Stream) + 1, exec_list)
  BY DEF Inv, LatestInv, InOrder
<1>2. /\ n \in Nat /\ exec_list \in Seq(Names) /\ cmd_out \in Seq(CmdsTo(n))
      /\ worker_execs \in Seq(Names) /\ Stream \in Seq(CmdsTo(n))
  BY Facts
<1>3. CASE Exec(cmd_out, exec_list)
  <2>1. Stream = Join(cmd_in_buffer, cmd_pipe, cmd_out)
    BY DEF Stream, Join
  <2>2. Working => ListAt(Join(cmd_in_buffer, cmd_pipe, cmd_out), worker_execs,
                          Len(Join(cmd_in_buffer, cmd_pipe, cmd_out)) + 1, exec_list)
    BY <1>1, <2>1
  <2> HIDE DEF n
  <2> QED BY <1>2, <1>3, <2>2, ExecParts DEF n
<1>4. CASE ExecFails
  <2>1. /\ n < MaxExecs /\ expected_reply_seq_number' = n + 1 /\ waiting_for_result' = TRUE
        /\ asked' = exec_list /\ given' = "none" /\ cmd_out' = cmd_out
    BY <1>4 DEF ExecFails, NoBuffer
  <2>2. n + 1 \in 0..MaxExecs /\ n + 1 > 0 /\ n + 1 \in Nat /\ n <= n + 1
    BY <1>2, <2>1, HeuristicsAssumption
  <2>3. cmd_out \in Seq(CmdsTo(n + 1)) /\ Len(cmd_out) <= MaxCmdBuffers
    BY <1>2, <2>2, Widen DEF Inv, DeviceInv
  <2>4. UNCHANGED <<cmd_in_buffer, cmd_pipe, worker_execs, phase>>
    BY DEF workerVars, controlVars
  <2>5. Stream' = Stream
    BY <2>1, <2>4 DEF Stream
  <2>6. Working => InOrder(Stream, worker_execs, exec_list, asked, expected_reply_seq_number)'
    <3> SUFFICES ASSUME Working PROVE InOrder(Stream, worker_execs, exec_list, exec_list, n + 1)
      BY <2>1, <2>4, <2>5
    <3>1. ListAt(Stream, worker_execs, Len(Stream) + 1, exec_list)
      BY <1>1
    <3> HIDE DEF n
    <3> QED BY <1>2, <3>1, InOrderNone
  <2> QED BY <2>1, <2>2, <2>3, <2>6, NextIsUnused
<1> QED BY <1>3, <1>4

(* qdevice_votequorum_node_list_notify_callback                             *)
LEMMA NodeListNotifyInv ==
    ASSUME Inv, NodeListNotify
    PROVE  Inv'
<1>1. up /\ UNCHANGED workerVars
  BY DEF NodeListNotify
<1>2. CASE NoBuffer /\ DeviceGone
  BY <1>1, <1>2, DeviceGoneInv
<1>3. CASE /\ Exec(cmd_out, exec_list)
           /\ regular_timer' = FALSE
           /\ notifiers' = (IF regular_timer THEN notifiers \ {"regular"} ELSE notifiers)
                              \cup {"votequorum"}
           /\ UNCHANGED <<up, exec_list, mode, interrupted, changes>>
  <2>1. /\ LatestInv'
        /\ expected_reply_seq_number' = expected_reply_seq_number + 1
        /\ expected_reply_seq_number' \in 0..MaxExecs /\ expected_reply_seq_number' > 0
        /\ cmd_out' \in Seq(CmdsTo(expected_reply_seq_number')) /\ Len(cmd_out') <= MaxCmdBuffers
        /\ waiting_for_result' = TRUE /\ asked' = exec_list /\ given' = "none"
    BY <1>1, <1>3, ExecOwnList
  <2>2. notifiers' \subseteq Notifiers /\ "votequorum" \in notifiers'
    BY <1>3 DEF Inv, DeviceInv, Notifiers
  <2>3. DeviceInv'
    BY <1>3, <2>1, <2>2 DEF Inv, DeviceInv
  <2>4. GoesOn'
    BY <2>1, <2>2 DEF GoesOn
  <2> QED BY <1>1, <2>1, <2>3, <2>4, SameWorker DEF Inv
<1> QED BY <1>2, <1>3 DEF NodeListNotify

(* qdevice_net_heuristics_exec_after_connect                                *)
LEMMA ExecAfterConnectInv ==
    ASSUME Inv, ExecAfterConnect
    PROVE  Inv'
<1>1. up /\ Initiated /\ UNCHANGED workerVars
  BY DEF ExecAfterConnect
<1>2. CASE NoBuffer /\ DeviceGone
  BY <1>1, <1>2, DeviceGoneInv
<1>3. CASE NetExec /\ notifiers' = notifiers \cup {"connect"} /\ UNCHANGED regular_timer
  <2>1. /\ Exec(cmd_out, exec_list) \/ ExecFails
        /\ UNCHANGED <<up, exec_list, mode, changes>>
        /\ interrupted' \in {interrupted, TRUE}
    BY <1>3 DEF NetExec
  <2>2. /\ LatestInv'
        /\ expected_reply_seq_number' = expected_reply_seq_number + 1
        /\ expected_reply_seq_number' \in 0..MaxExecs /\ expected_reply_seq_number' > 0
        /\ cmd_out' \in Seq(CmdsTo(expected_reply_seq_number')) /\ Len(cmd_out') <= MaxCmdBuffers
        /\ waiting_for_result' = TRUE /\ asked' = exec_list /\ given' = "none"
    BY <1>1, <2>1, ExecOwnList
  <2>3. notifiers' \subseteq Notifiers /\ notifiers \subseteq notifiers'
    BY <1>3 DEF Inv, DeviceInv, Notifiers
  <2>4. DeviceInv'
    BY <1>3, <2>1, <2>2, <2>3 DEF Inv, DeviceInv
  <2>5. GoesOn'
    <3> SUFFICES ASSUME ~interrupted', mode' = "enabled"
                 PROVE  \/ regular_timer'
                        \/ "votequorum" \in notifiers'
                        \/ "regular" \in notifiers' /\ asked' # <<>>
      BY <2>2 DEF GoesOn
    <3>1. mode = "enabled" /\ exec_list # <<>>
      BY <2>1 DEF Inv, DeviceInv
    <3>3. ~interrupted
      BY <2>1, Zenon
    <3>2. Started
      <4>1. expected_reply_seq_number \in Nat
        BY Facts
      <4> QED BY <1>1, <4>1 DEF Initiated, Started, Inv, DeviceInv
    <3> QED BY <1>1, <1>3, <2>2, <2>3, <3>1, <3>2, <3>3 DEF Inv, GoesOn
  <2> QED BY <1>1, <2>2, <2>4, <2>5, SameWorker DEF Inv
<1> QED BY <1>2, <1>3 DEF ExecAfterConnect

(* qdevice_net_heuristics_timer_callback                                    *)
LEMMA RegularTimerInv ==
    ASSUME Inv, RegularTimer
    PROVE  Inv'
<1>1. up /\ regular_timer /\ UNCHANGED workerVars
  BY DEF RegularTimer
<1>2. CASE NoBuffer /\ DeviceGone
  BY <1>1, <1>2, DeviceGoneInv
<1>3. CASE NetExec /\ notifiers' = notifiers \cup {"regular"} /\ regular_timer' = FALSE
  <2>1. /\ Exec(cmd_out, exec_list) \/ ExecFails
        /\ UNCHANGED <<up, exec_list, mode, changes>>
        /\ interrupted' \in {interrupted, TRUE}
    BY <1>3 DEF NetExec
  <2>2. /\ LatestInv'
        /\ expected_reply_seq_number' = expected_reply_seq_number + 1
        /\ expected_reply_seq_number' \in 0..MaxExecs /\ expected_reply_seq_number' > 0
        /\ cmd_out' \in Seq(CmdsTo(expected_reply_seq_number')) /\ Len(cmd_out') <= MaxCmdBuffers
        /\ waiting_for_result' = TRUE /\ asked' = exec_list /\ given' = "none"
    BY <1>1, <2>1, ExecOwnList
  <2>3. notifiers' \subseteq Notifiers /\ "regular" \in notifiers'
    BY <1>3 DEF Inv, DeviceInv, Notifiers
  <2>4. DeviceInv'
    BY <1>3, <2>1, <2>2, <2>3 DEF Inv, DeviceInv
  <2>5. GoesOn'
    <3>1. mode = "enabled" /\ exec_list # <<>>
      BY <1>1 DEF Inv, DeviceInv
    <3> QED BY <2>2, <2>3, <3>1 DEF GoesOn
  <2> QED BY <1>1, <2>2, <2>4, <2>5, SameWorker DEF Inv
<1> QED BY <1>2, <1>3 DEF RegularTimer

(* qdevice_instance_configure_from_cmap_heuristics                          *)
LEMMA EffectiveConf ==
    ASSUME NEW conf \in Confs
    PROVE  /\ EffectiveList(conf) \in Seq(Names)
           /\ EffectiveMode(conf) \in Modes
           /\ EffectiveMode(conf) # "disabled" => EffectiveList(conf) # <<>>
<1>1. conf.list \in Seq(STRING) /\ conf.mode \in Modes
  BY HeuristicsAssumption DEF Modes
<1>2. conf.list \in Seq(Names)
  <2>1. conf.list \in Seq(Range(conf.list))
    BY <1>1, SeqOfRange
  <2>2. Range(conf.list) \subseteq Names
    BY DEF Names
  <2> QED BY <2>1, <2>2, SeqMonotonic
<1>3. <<>> \in Seq(Names)
  BY EmptySeq, Zenon
<1>4. EffectiveMode(conf) \in Modes
  BY <1>1 DEF EffectiveMode, Modes
<1>5. EffectiveList(conf) \in Seq(Names)
  BY <1>2, <1>3 DEF EffectiveList
<1>6. EffectiveMode(conf) # "disabled" => EffectiveList(conf) # <<>>
  BY DEF EffectiveMode, EffectiveList
<1> QED BY <1>4, <1>5, <1>6

(* More commands in the buffers are more commands on their way.             *)
LEMMA StreamAndMore ==
    ASSUME Inv
    PROVE  \A d \in Seq(CmdsTo(expected_reply_seq_number)) :
              Join(cmd_in_buffer, cmd_pipe, cmd_out \o d) = Stream \o d
<1> DEFINE D == CmdsTo(expected_reply_seq_number)
           f == cmd_in_buffer \o cmd_pipe
<1>1. cmd_in_buffer \in Seq(D) /\ cmd_pipe \in Seq(D) /\ cmd_out \in Seq(D)
  BY Facts
<1> HIDE DEF D
<1>2. f \in Seq(D)
  BY <1>1, ConcatProperties
<1> HIDE DEF f
<1>3. ASSUME NEW d \in Seq(D) PROVE (f \o cmd_out) \o d = f \o (cmd_out \o d)
  BY <1>1, <1>2, ConcatAssociative, SMTT(30)
<1> QED BY <1>3 DEF D, Stream, Join, f

(* A list in the buffers, after what is there already.                      *)
LEMMA ListSent ==
    ASSUME Inv, up, NEW list \in Seq(Names), NEW out, out = cmd_out \o ExecListCmds(list)
    PROVE  /\ out \in Seq(CmdsTo(expected_reply_seq_number))
           /\ Len(out) = Len(cmd_out) + Len(ExecListCmds(list))
           /\ Working => InOrder(Join(cmd_in_buffer, cmd_pipe, out), worker_execs, list, asked,
                                 expected_reply_seq_number)
<1> DEFINE n == expected_reply_seq_number
           d == ExecListCmds(list)
<1>1. /\ cmd_in_buffer \in Seq(CmdsTo(n)) /\ cmd_pipe \in Seq(CmdsTo(n)) /\ cmd_out \in Seq(CmdsTo(n))
      /\ Stream \in Seq(CmdsTo(n)) /\ n \in Nat
  BY Facts
<1>2. exec_list \in Seq(Names) /\ asked \in Seq(Names) /\ worker_execs \in Seq(Names)
  BY Facts
<1>3. d \in Seq(CmdsTo(n))
  <2>1. d \in Seq(ListCmds)
    BY CmdsOfList
  <2>2. ListCmds \subseteq CmdsTo(n)
    BY DEF ListCmds, CmdsTo
  <2> QED BY <2>1, <2>2, SeqMonotonic
<1>4. out \in Seq(CmdsTo(n)) /\ Len(out) = Len(cmd_out) + Len(d)
  <2> HIDE DEF n, d
  <2> QED BY <1>1, <1>3, ConcatProperties DEF d
<1>5. Join(cmd_in_buffer, cmd_pipe, out) = Stream \o d
  <2>1. Join(cmd_in_buffer, cmd_pipe, cmd_out \o d) = Stream \o d
    <3> HIDE DEF d, n
    <3> QED BY <1>3, StreamAndMore DEF n
  <2> QED BY <2>1
<1>6. Working => InOrder(Stream \o d, worker_execs, list, asked, n)
  <2> SUFFICES ASSUME Working PROVE InOrder(Stream \o d, worker_execs, list, asked, n)
    OBVIOUS
  <2>1. InOrder(Stream, worker_execs, exec_list, asked, n)
    BY DEF Inv, LatestInv
  <2> DEFINE T == Stream \o d
  <2>2. T = Stream \o ExecListCmds(list)
    OBVIOUS
  <2> HIDE DEF n, T
  <2>3. InOrder(T, worker_execs, list, asked, n)
    BY <1>1, <1>2, <2>1, <2>2, InOrderNewList
  <2> QED BY <2>3 DEF T
<1> QED BY <1>4, <1>5, <1>6

(* qdevice_heuristics_change_exec_list                                      *)
LEMMA ChangeExecListParts ==
    ASSUME Inv, UNCHANGED workerVars, up, up' = up, NEW list \in Seq(Names), ChangeExecList(list)
    PROVE  /\ LatestInv' /\ exec_list' = list /\ asked' \in Seq(Names)
           /\ expected_reply_seq_number' \in {expected_reply_seq_number, expected_reply_seq_number + 1}
           /\ expected_reply_seq_number' \in 0..MaxExecs
           /\ expected_reply_seq_number' > 0 \/ expected_reply_seq_number' = expected_reply_seq_number
           /\ cmd_out' \in Seq(CmdsTo(expected_reply_seq_number')) /\ Len(cmd_out') <= MaxCmdBuffers
           /\ waiting_for_result' = waiting_for_result /\ given' = given
<1> DEFINE out == cmd_out \o ExecListCmds(list)
<1>1. /\ Len(cmd_out) + Len(ExecListCmds(list)) <= MaxCmdBuffers /\ exec_list' = list
      /\ waiting_for_result => Exec(out, list)
      /\ ~waiting_for_result =>
            /\ cmd_out' = out
            /\ UNCHANGED <<expected_reply_seq_number, waiting_for_result, asked, given>>
  BY DEF ChangeExecList
<1>2. /\ out \in Seq(CmdsTo(expected_reply_seq_number))
      /\ Len(out) = Len(cmd_out) + Len(ExecListCmds(list))
      /\ Working => InOrder(Join(cmd_in_buffer, cmd_pipe, out), worker_execs, list, asked,
                            expected_reply_seq_number)
  <2>1. out = cmd_out \o ExecListCmds(list)
    OBVIOUS
  <2> HIDE DEF out
  <2> QED BY <2>1, ListSent
<1> HIDE DEF out
<1>3. CASE waiting_for_result
  <2>1. Working => ListAt(Join(cmd_in_buffer, cmd_pipe, out), worker_execs,
                          Len(Join(cmd_in_buffer, cmd_pipe, out)) + 1, list)
    BY <1>2 DEF InOrder
  <2>2. /\ LatestInv'
        /\ expected_reply_seq_number' = expected_reply_seq_number + 1
        /\ expected_reply_seq_number' \in 0..MaxExecs /\ expected_reply_seq_number' > 0
        /\ cmd_out' \in Seq(CmdsTo(expected_reply_seq_number')) /\ Len(cmd_out') <= MaxCmdBuffers
        /\ waiting_for_result' = TRUE /\ asked' = list /\ given' = "none"
    BY <1>1, <1>2, <1>3, <2>1, ExecParts
  <2>3. given = "none" /\ waiting_for_result = TRUE
    BY <1>3 DEF Inv, DeviceInv
  <2> QED BY <1>1, <2>2, <2>3
<1>4. CASE ~waiting_for_result
  <2>1. /\ cmd_out' = out
        /\ UNCHANGED <<expected_reply_seq_number, waiting_for_result, asked, given>>
    BY <1>1, <1>4
  <2>2. UNCHANGED <<cmd_in_buffer, cmd_pipe, worker_execs, phase, last_seq, exec_timer, result_pipe,
                    active_list, succeeded>>
    BY DEF workerVars, controlVars, plistVars
  <2>3. Stream' = Join(cmd_in_buffer, cmd_pipe, out)
    BY <2>1, <2>2 DEF Stream, Join
  <2>4. Working => InOrder(Stream, worker_execs, exec_list, asked, expected_reply_seq_number)'
    BY <1>1, <1>2, <2>1, <2>2, <2>3
  <2>5. LatestInv'
    BY <2>1, <2>2, <2>4 DEF Inv, LatestInv, Working
  <2>6. expected_reply_seq_number \in 0..MaxExecs /\ asked \in Seq(Names)
    BY DEF Inv, DeviceInv
  <2> QED BY <1>1, <1>2, <2>1, <2>5, <2>6
<1> QED BY <1>3, <1>4

(* qdevice_cmap_heuristics_event                                            *)
LEMMA CmapHeuristicsEventInv ==
    ASSUME Inv, NEW conf \in Confs, CmapHeuristicsEvent(conf)
    PROVE  Inv'
<1> DEFINE eff == EffectiveMode(conf)
           list == EffectiveList(conf)
<1>1. up /\ UNCHANGED workerVars /\ Started
  BY DEF CmapHeuristicsEvent
<1>2. /\ list \in Seq(Names)
      /\ eff \in Modes
      /\ eff # "disabled" => list # <<>>
  BY EffectiveConf
<1>3. \/ DeviceGone
      \/ /\ IF eff # "disabled" /\ ExecListEq(list, exec_list)
            THEN UNCHANGED <<exec_list, cmd_out, expected_reply_seq_number,
                             waiting_for_result, asked, given>>
            ELSE ChangeExecList(list)
         /\ ScheduleTimer(notifiers, eff)
         /\ mode' = eff
         /\ UNCHANGED <<up, interrupted>>
  BY DEF CmapHeuristicsEvent
<1> HIDE DEF eff, list
<1>4. CASE DeviceGone
  BY <1>1, <1>4, DeviceGoneInv
<1>5. CASE /\ IF eff # "disabled" /\ ExecListEq(list, exec_list)
              THEN UNCHANGED <<exec_list, cmd_out, expected_reply_seq_number,
                               waiting_for_result, asked, given>>
              ELSE ChangeExecList(list)
           /\ ScheduleTimer(notifiers, eff)
           /\ mode' = eff
           /\ UNCHANGED <<up, interrupted>>
  <2>1. /\ regular_timer' \in BOOLEAN
        /\ regular_timer' <=> eff = "enabled"
        /\ notifiers' \subseteq notifiers
    BY <1>5 DEF ScheduleTimer, StopTimer
  <2>2. /\ LatestInv' /\ exec_list' \in Seq(Names) /\ asked' \in Seq(Names)
        /\ eff # "disabled" => exec_list' # <<>>
        /\ expected_reply_seq_number' \in {expected_reply_seq_number, expected_reply_seq_number + 1}
        /\ expected_reply_seq_number' \in 0..MaxExecs
        /\ expected_reply_seq_number' > 0
        /\ cmd_out' \in Seq(CmdsTo(expected_reply_seq_number')) /\ Len(cmd_out') <= MaxCmdBuffers
        /\ waiting_for_result' = waiting_for_result /\ given' = given
    <3>1. CASE eff # "disabled" /\ ExecListEq(list, exec_list)
      <4>1. UNCHANGED <<exec_list, cmd_out, expected_reply_seq_number, waiting_for_result, asked, given>>
        BY <1>5, <3>1
      <4>2. UNCHANGED <<cmd_in_buffer, cmd_pipe, worker_execs, phase, last_seq, exec_timer, result_pipe,
                        active_list, succeeded>>
        BY <1>1 DEF workerVars, controlVars, plistVars
      <4>3. Stream' = Stream
        BY <4>1, <4>2 DEF Stream
      <4>4. LatestInv'
        BY <1>5, <4>1, <4>2, <4>3 DEF Inv, LatestInv, Working
      <4>5. exec_list # <<>>
        <5>1. list # <<>> /\ 1 \in DOMAIN list
          BY <1>2, <3>1, EmptySeq
        <5>2. list[1] \in Range(list)
          BY <5>1 DEF Range
        <5>3. list[1] \in Range(exec_list)
          BY <3>1, <5>2 DEF ExecListEq
        <5>4. DOMAIN exec_list # {}
          BY <5>3 DEF Range
        <5>5. DOMAIN <<>> = {}
          OBVIOUS
        <5> QED BY <5>4, <5>5, Zenon
      <4>6. expected_reply_seq_number > 0
        BY <1>1 DEF Started
      <4> QED BY <4>1, <4>4, <4>5, <4>6 DEF Inv, DeviceInv
    <3>2. CASE ~(eff # "disabled" /\ ExecListEq(list, exec_list))
      <4>1. ChangeExecList(list)
        BY <1>5, <3>2
      <4>2. expected_reply_seq_number > 0
        BY <1>1 DEF Started
      <4>3. up' = up
        BY <1>5
      <4>4. /\ LatestInv' /\ exec_list' = list /\ asked' \in Seq(Names)
            /\ expected_reply_seq_number' \in {expected_reply_seq_number, expected_reply_seq_number + 1}
            /\ expected_reply_seq_number' \in 0..MaxExecs
            /\ expected_reply_seq_number' > 0 \/ expected_reply_seq_number' = expected_reply_seq_number
            /\ cmd_out' \in Seq(CmdsTo(expected_reply_seq_number')) /\ Len(cmd_out') <= MaxCmdBuffers
            /\ waiting_for_result' = waiting_for_result /\ given' = given
        BY <1>1, <1>2, <4>1, <4>3, ChangeExecListParts
      <4>5. expected_reply_seq_number' > 0
        BY <4>2, <4>4
      <4> QED BY <1>2, <4>4, <4>5
    <3> QED BY <3>1, <3>2
  <2>3. DeviceInv'
    <3>1. /\ up' \in BOOLEAN /\ interrupted' \in BOOLEAN /\ waiting_for_result' \in BOOLEAN
          /\ notifiers' \subseteq Notifiers /\ mode' \in Modes /\ given' \in Results \cup {"none"}
          /\ waiting_for_result' => given' = "none"
      BY <1>2, <1>5, <2>1, <2>2 DEF Inv, DeviceInv
    <3>2. /\ mode' = eff
          /\ regular_timer' \in BOOLEAN
          /\ regular_timer' => mode' = "enabled"
      BY <1>5, <2>1
    <3> QED BY <2>2, <3>1, <3>2 DEF DeviceInv
  <2>4. GoesOn'
    BY <1>5, <2>1 DEF GoesOn
  <2> QED BY <1>1, <2>2, <2>3, <2>4, SameWorker DEF Inv
<1> QED BY <1>3, <1>4, <1>5

-----------------------------------------------------------------------------
(* The invariant                                                           *)

(* Before the first command there is no list.                               *)
LEMMA InOrderEmpty == InOrder(<<>>, <<>>, <<>>, <<>>, 0)
<1>1. Len(<<>>) = 0 /\ DOMAIN <<>> = {}
  OBVIOUS
<1>2. ListAt(<<>>, <<>>, 1, <<>>)
  <2>1. Shape(<<>>, <<>>, 1, <<>>, 0, 0)
    BY <1>1 DEF Shape
  <2>2. 0 \in 0..(1 - 1) /\ 0 + 0 < 1
    OBVIOUS
  <2> QED BY <2>1, <2>2 DEF ListAt
<1>3. 0 + 1 = 1
  OBVIOUS
<1>4. ListAt(<<>>, <<>>, Len(<<>>) + 1, <<>>)
  BY <1>1, <1>2, <1>3
<1> QED BY <1>1, <1>4 DEF InOrder

(* The device has read its configuration, the worker was just started.      *)
LEMMA InitInv ==
    ASSUME Init
    PROVE  Inv
<1>1. PICK conf \in Confs :
          /\ mode = EffectiveMode(conf)
          /\ exec_list = EffectiveList(conf)
          /\ cmd_out = ExecListCmds(EffectiveList(conf))
          /\ Len(ExecListCmds(EffectiveList(conf))) <= MaxCmdBuffers
  BY DEF Init
<1>2. /\ exec_list \in Seq(Names)
      /\ mode \in Modes
      /\ mode # "disabled" => exec_list # <<>>
  BY <1>1, EffectiveConf
<1>3. /\ active_list = <<>> /\ to_kill_list = <<>> /\ allocated_list_entries = 0
      /\ procs = [p \in Pids |-> "free"] /\ succeeded = {}
      /\ phase = "poll" /\ cmd_in_buffer = <<>> /\ worker_execs = <<>> /\ last_seq = 0
      /\ exec_timer = FALSE /\ kill_due = TRUE /\ schedule_exit = FALSE /\ rounds = 0
      /\ kill_failed = FALSE /\ cmd_pipe = <<>> /\ result_pipe = <<>>
  BY DEF Init, WorkerInit, PlistInit
<1>4. /\ up = TRUE /\ expected_reply_seq_number = 0 /\ waiting_for_result = FALSE
      /\ notifiers = {} /\ regular_timer = FALSE /\ interrupted = FALSE
      /\ asked = <<>> /\ given = "none"
  BY DEF Init
<1>5. cmd_out \in Seq(CmdsTo(0)) /\ Len(cmd_out) <= MaxCmdBuffers
  <2>1. cmd_out = ExecListCmds(exec_list) /\ Len(cmd_out) <= MaxCmdBuffers
    BY <1>1
  <2>2. cmd_out \in Seq(ListCmds)
    BY <1>2, <2>1, CmdsOfList
  <2>3. ListCmds \subseteq CmdsTo(0)
    BY DEF ListCmds, CmdsTo
  <2> QED BY <2>1, <2>2, <2>3, SeqMonotonic
<1>6. \A X : <<>> \in Seq(X)
  BY EmptySeq, Zenon
<1>7. Sound(Plist, succeeded, expected_reply_seq_number)
  <2>1. /\ Plist.active = <<>> /\ Plist.kill = <<>> /\ Plist.allocated = 0
        /\ Plist.procs \in [Pids -> ProcStates] /\ (\A p \in Pids : Plist.procs[p] = "free")
        /\ Plist \in PlistType
    BY <1>3, <1>6 DEF Plist, PlistType, ProcStates
  <2> QED BY <2>1, ProcessListAssumption DEF Sound, Apart, ApartFrom
<1>8. WorkerInv
  <2>1. /\ cmd_in_buffer \in Seq(CmdsTo(expected_reply_seq_number))
        /\ cmd_pipe \in Seq(CmdsTo(expected_reply_seq_number))
        /\ worker_execs \in Seq(Names)
        /\ result_pipe \in Seq(LinesTo(expected_reply_seq_number))
    BY <1>3, <1>6
  <2>2. last_seq \in 0..expected_reply_seq_number /\ rounds \in 0..(2 * KillRounds)
    BY <1>3, <1>4, WorkerAssumption
  <2>3. /\ exec_timer \in BOOLEAN /\ kill_due \in BOOLEAN /\ schedule_exit \in BOOLEAN
        /\ kill_failed \in BOOLEAN
    BY <1>3
  <2> QED BY <1>3, <2>1, <2>2, <2>3 DEF WorkerInv, WorkerPhases, Working
<1>9. DeviceInv
  <2>1. /\ up \in BOOLEAN /\ waiting_for_result \in BOOLEAN /\ regular_timer \in BOOLEAN
        /\ interrupted \in BOOLEAN
    BY <1>4
  <2>2. expected_reply_seq_number \in 0..MaxExecs
    BY <1>4, HeuristicsAssumption
  <2>3. /\ cmd_out \in Seq(CmdsTo(expected_reply_seq_number)) /\ asked \in Seq(Names)
        /\ given \in Results \cup {"none"} /\ notifiers \subseteq Notifiers
    BY <1>4, <1>5, <1>6
  <2> QED BY <1>2, <1>4, <1>5, <2>1, <2>2, <2>3 DEF DeviceInv
<1>10. ActiveIsLatestExecution /\ KillInv /\ ExitKillsAll
  <2>1. Range(<<>>) = {}
    BY DEF Range
  <2> QED BY <1>3, <2>1 DEF ActiveIsLatestExecution, KillInv, ExitKillsAll
<1>11. LatestInv
  <2> DEFINE T == <<>> \o ExecListCmds(exec_list)
  <2>1. T = <<>> \o ExecListCmds(exec_list)
    OBVIOUS
  <2>2. <<>> \o cmd_out = cmd_out /\ <<>> \o <<>> = <<>>
    BY <1>5
  <2>3. Stream = T
    BY <1>1, <1>3, <2>2 DEF Stream
  <2> HIDE DEF T
  <2>4. 0 \in Nat /\ <<>> \in Seq(CmdsTo(0)) /\ <<>> \in Seq(Names)
    BY <1>6
  <2>5. InOrder(T, <<>>, exec_list, <<>>, 0)
    BY <1>2, <2>1, <2>4, InOrderEmpty, InOrderNewList
  <2>6. InOrder(Stream, worker_execs, exec_list, asked, expected_reply_seq_number)
    BY <1>3, <1>4, <2>3, <2>5
  <2>7. DOMAIN result_pipe = {}
    BY <1>3
  <2> QED BY <1>3, <2>6, <2>7 DEF LatestInv
<1>12. GoesOn
  BY <1>4 DEF GoesOn, Started
<1> QED BY <1>7, <1>8, <1>9, <1>10, <1>11, <1>12 DEF Inv

(* Nothing happens.                                                         *)
LEMMA StutterInv ==
    ASSUME Inv, UNCHANGED vars
    PROVE  Inv'
<1>1. /\ UNCHANGED <<active_list, to_kill_list, allocated_list_entries, procs, succeeded, phase,
                     kill_due, schedule_exit, rounds, kill_failed, cmd_in_buffer, worker_execs,
                     last_seq, exec_timer, cmd_pipe, result_pipe>>
      /\ UNCHANGED deviceVars
  BY DEF vars, workerVars, controlVars, plistVars
<1>2. UNCHANGED workerVars
  BY DEF vars
<1>3. UNCHANGED <<up, expected_reply_seq_number, exec_list, asked, cmd_out>>
  BY <1>1 DEF deviceVars
<1>4. DeviceInv' /\ GoesOn'
  BY <1>1, SameDevice
<1>5. LatestInv'
  BY <1>1, <1>3 DEF Inv, LatestInv, Working, Stream
<1> QED BY <1>1, <1>2, <1>3, <1>4, <1>5, SameWorker DEF Inv

(* The invariant is kept by every step of the device, the worker, the       *)
(* pipes and the processes.                                                 *)
LEMMA NextInv ==
    ASSUME Inv, [Next]_vars
    PROVE  Inv'
<1>1. CASE WorkerStep
  <2>1. UNCHANGED deviceVars
    BY <1>1 DEF WorkerStep
  <2>2. CASE PollInput(up)
    BY <2>1, <2>2, PollInputInv
  <2>3. CASE InputClosed(up)
    BY <2>1, <2>3, InputClosedInv
  <2>4. CASE ProcessExecList
    BY <2>1, <2>4, ProcessExecListInv
  <2>5. CASE ProcessExec
    BY <2>1, <2>5, ProcessExecInv
  <2>6. CASE Check
    BY <2>1, <2>6, CheckInv
  <2>7. CASE TimersDone
    BY <2>1, <2>7, TimersDoneInv
  <2>8. CASE KillallRound
    BY <2>1, <2>8, KillallRoundInv
  <2>9. CASE WorkerExits
    BY <2>1, <2>9, WorkerExitsInv
  <2> QED BY <1>1, <2>2, <2>3, <2>4, <2>5, <2>6, <2>7, <2>8, <2>9, Zenon DEF WorkerStep
<1>2. CASE ExecTimerExpires
  BY <1>2, ExecTimeoutInv DEF ExecTimerExpires
<1>3. CASE KillTimerExpires
  BY <1>3, KillListTimerInv DEF KillTimerExpires
<1>4. CASE ProcessStep
  BY <1>4, ProcessStepInv
<1>5. CASE Requests
  <2>1. CASE NodeListNotify
    BY <2>1, NodeListNotifyInv
  <2>2. CASE ExecAfterConnect
    BY <2>2, ExecAfterConnectInv
  <2>3. CASE RegularTimer
    BY <2>3, RegularTimerInv
  <2>4. CASE \E conf \in Confs : CmapHeuristicsEvent(conf)
    BY <2>4, CmapHeuristicsEventInv, Zenon
  <2> QED BY <1>5, <2>1, <2>2, <2>3, <2>4, Zenon DEF Requests
<1>6. CASE CmdWrite
  BY <1>6, CmdWriteInv
<1>7. CASE ReadResult
  BY <1>7, ReadResultInv
<1>8. CASE DeviceEnds
  BY <1>8, DeviceGoneInv DEF DeviceEnds
<1>9. CASE Ended
  BY <1>9, StutterInv DEF Ended
<1>10. CASE UNCHANGED vars
  BY <1>10, StutterInv
<1> QED
  BY <1>1, <1>2, <1>3, <1>4, <1>5, <1>6, <1>7, <1>8, <1>9, <1>10, Zenon DEF Next

(* The invariant holds of every state that heuristics come to.              *)
THEOREM HeuristicsInvariant == Spec => []Inv
<1>1. Init => Inv
  BY InitInv
<1>2. Inv /\ [Next]_vars => Inv'
  BY NextInv
<1> QED BY <1>1, <1>2, PTL DEF Spec

-----------------------------------------------------------------------------
(* What the runs check                                                     *)

(* The invariant says more than the types.                                  *)
LEMMA TypesFollow ==
    ASSUME Inv
    PROVE  ProcessesAreCounted
<1>1. /\ Plist.active = active_list /\ Plist.kill = to_kill_list
      /\ Plist.procs = procs /\ Plist.allocated = allocated_list_entries
  BY DEF Plist
<1>2. /\ active_list \in Seq(Entry) /\ to_kill_list \in Seq(Entry)
      /\ expected_reply_seq_number \in Nat
  BY Facts
<1>3. /\ procs \in [Pids -> ProcStates]
      /\ allocated_list_entries = Len(active_list) + Len(to_kill_list)
      /\ allocated_list_entries <= MaxProcesses
  BY <1>1, <1>2 DEF Inv, Sound, PlistType
<1>4. \A e \in Entries : e \in Entry
  BY <1>2 DEF Entries, Range
<1>5. \A e \in Entry : /\ e.state \in States
                       /\ e.pid \in Pids \cup {NoPid}
                       /\ e.status \in {"none", "ok", "bad"}
  BY DEF Entry
<1>6. PlistTypeOK
  BY <1>3, <1>4, <1>5 DEF PlistTypeOK, ProcStates
<1>7. WorkerTypeOK
  BY <1>2, <1>6 DEF WorkerTypeOK, Inv, WorkerInv
<1>8. TypeOK
  BY <1>7 DEF TypeOK, Inv, DeviceInv
<1> QED BY <1>3, <1>8 DEF ProcessesAreCounted, CountIsExact

(* process_list_add relies on the count of entries: it is what the lists    *)
(* hold, whichever way an entry was freed, and all data has its type.       *)
THEOREM CountOfProcesses == Spec => []ProcessesAreCounted
<1>1. Inv => ProcessesAreCounted
  BY TypesFollow
<1> QED BY <1>1, HeuristicsInvariant, PTL

(* Each entry with a process has one of its own.                            *)
LEMMA OwnChildrenFollow ==
    ASSUME Inv
    PROVE  SignalsOwnChildren
<1> DEFINE all == active_list \o to_kill_list
           a == Len(active_list)
<1>1. /\ Plist.active = active_list /\ Plist.kill = to_kill_list /\ Plist.procs = procs
  BY DEF Plist
<1>2. active_list \in Seq(Entry) /\ to_kill_list \in Seq(Entry)
  BY Facts
<1>3. /\ \A i \in DOMAIN active_list : Owns(Plist, active_list[i], succeeded)
      /\ \A i \in DOMAIN to_kill_list : Owns(Plist, to_kill_list[i], succeeded)
      /\ \A i \in DOMAIN to_kill_list : HasProcess(to_kill_list[i])
      /\ Apart(active_list) /\ Apart(to_kill_list) /\ ApartFrom(active_list, to_kill_list)
      /\ \A p \in Pids : procs[p] # "free" => HasOwner(Plist, p)
  BY <1>1 DEF Inv, Sound
<1>4. /\ DOMAIN active_list = 1..a /\ DOMAIN to_kill_list = 1..Len(to_kill_list)
      /\ DOMAIN all = 1..(a + Len(to_kill_list)) /\ a \in Nat /\ Len(to_kill_list) \in Nat
  BY <1>2
<1>5. /\ \A i \in 1..a : all[i] = active_list[i]
      /\ \A i \in 1..Len(to_kill_list) : all[a + i] = to_kill_list[i]
  <2>1. all = active_list \o to_kill_list
    OBVIOUS
  <2> HIDE DEF all
  <2> QED BY <1>2, <2>1, ConcatAt
<1> HIDE DEF all, a
<1>6. ASSUME NEW i \in DOMAIN all
      PROVE  \/ i \in DOMAIN active_list /\ all[i] = active_list[i]
             \/ i - a \in DOMAIN to_kill_list /\ all[i] = to_kill_list[i - a] /\ i - a > 0
  <2>1. CASE i \in 1..a
    BY <1>4, <1>5, <2>1
  <2>2. CASE i \notin 1..a
    <3>1. i - a \in 1..Len(to_kill_list) /\ a + (i - a) = i /\ i - a > 0
      BY <1>4, <2>2
    <3> QED BY <1>4, <1>5, <3>1
  <2> QED BY <2>1, <2>2
<1>7. ASSUME NEW i \in DOMAIN all, HasProcess(all[i]) PROVE procs[all[i].pid] # "free"
  <2>1. Owns(Plist, all[i], succeeded)
    BY <1>3, <1>6
  <2> QED BY <1>1, <1>7, <2>1 DEF Owns
<1>8. ASSUME NEW i \in DOMAIN all, NEW k \in DOMAIN all,
             HasProcess(all[i]), HasProcess(all[k]), all[i].pid = all[k].pid
      PROVE  i = k
  <2>1. CASE i \in DOMAIN active_list /\ all[i] = active_list[i]
    <3>1. CASE k \in DOMAIN active_list /\ all[k] = active_list[k]
      BY <1>3, <1>8, <2>1, <3>1 DEF Apart
    <3>2. CASE k - a \in DOMAIN to_kill_list /\ all[k] = to_kill_list[k - a] /\ k - a > 0
      BY <1>3, <1>8, <2>1, <3>2 DEF ApartFrom
    <3> QED BY <1>6, <3>1, <3>2
  <2>2. CASE i - a \in DOMAIN to_kill_list /\ all[i] = to_kill_list[i - a] /\ i - a > 0
    <3>1. CASE k \in DOMAIN active_list /\ all[k] = active_list[k]
      BY <1>3, <1>8, <2>2, <3>1 DEF ApartFrom
    <3>2. CASE k - a \in DOMAIN to_kill_list /\ all[k] = to_kill_list[k - a] /\ k - a > 0
      <4>1. i - a = k - a
        BY <1>3, <1>8, <2>2, <3>2 DEF Apart
      <4> QED BY <1>4, <4>1
    <3> QED BY <1>6, <3>1, <3>2
  <2> QED BY <1>6, <2>1, <2>2
<1>9. ASSUME NEW p \in Pids, procs[p] # "free"
      PROVE  \E i \in DOMAIN all : HasProcess(all[i]) /\ all[i].pid = p
  <2>1. \/ \E i \in DOMAIN active_list : HasProcess(active_list[i]) /\ active_list[i].pid = p
        \/ \E i \in DOMAIN to_kill_list : HasProcess(to_kill_list[i]) /\ to_kill_list[i].pid = p
    BY <1>1, <1>3, <1>9 DEF HasOwner
  <2>2. CASE \E i \in DOMAIN active_list : HasProcess(active_list[i]) /\ active_list[i].pid = p
    <3>1. PICK i \in DOMAIN active_list : HasProcess(active_list[i]) /\ active_list[i].pid = p
      BY <2>2
    <3>2. i \in DOMAIN all /\ all[i] = active_list[i]
      BY <1>4, <1>5
    <3> QED BY <3>1, <3>2
  <2>3. CASE \E i \in DOMAIN to_kill_list : HasProcess(to_kill_list[i]) /\ to_kill_list[i].pid = p
    <3>1. PICK i \in DOMAIN to_kill_list : HasProcess(to_kill_list[i]) /\ to_kill_list[i].pid = p
      BY <2>3
    <3>2. a + i \in DOMAIN all /\ all[a + i] = to_kill_list[i]
      BY <1>4, <1>5
    <3> QED BY <3>1, <3>2
  <2> QED BY <2>1, <2>2, <2>3
<1> QED BY <1>3, <1>7, <1>8, <1>9 DEF SignalsOwnChildren, all

(* waitpid and kill are called for children that exist and were not waited  *)
(* for, each of them through one entry, and no child is forgotten.          *)
THEOREM OnlyOwnChildren == Spec => []SignalsOwnChildren
<1>1. Inv => SignalsOwnChildren
  BY OwnChildrenFollow
<1> QED BY <1>1, HeuristicsInvariant, PTL

(* qdevice_heuristics_worker_poll takes the result from the active list: it *)
(* holds the processes of the latest execution only.                        *)
THEOREM ActiveListIsCurrent == Spec => []ActiveIsLatestExecution
<1>1. Inv => ActiveIsLatestExecution
  BY DEF Inv
<1> QED BY <1>1, HeuristicsInvariant, PTL

(* process_list_killall leaves no process that was not sent SIGKILL.        *)
THEOREM NothingSurvivesExit == Spec => []ExitKillsAll
<1>1. Inv => ExitKillsAll
  BY DEF Inv
<1> QED BY <1>1, HeuristicsInvariant, PTL

(* While heuristics are enabled qdevice_net_heuristics_schedule_timer was   *)
(* called, or will be by a notifier that waits for a result.                *)
THEOREM RegularExecutions == Spec => []RegularHeuristicsGoOn
<1>1. Inv => RegularHeuristicsGoOn
  BY DEF Inv, GoesOn, RegularHeuristicsGoOn
<1> QED BY <1>1, HeuristicsInvariant, PTL

-----------------------------------------------------------------------------
(* The promise                                                             *)


(* A step the abstract view does not see.                                   *)
LEMMA Unseen ==
    ASSUME UNCHANGED <<expected_reply_seq_number, asked, succeeded, given>>
    PROVE  UNCHANGED Promise!promiseVars
BY DEF Promise!promiseVars

(* Another execution is asked for.                                          *)
LEMMA Asks ==
    ASSUME Inv, expected_reply_seq_number' = expected_reply_seq_number + 1,
           asked' \in Seq(Names), given' = "none", succeeded' = succeeded
    PROVE  Promise!Next
<1>1. Range(asked') \in SUBSET Names
  BY DEF Range
<1>2. expected_reply_seq_number \in Nat /\ succeeded \subseteq (0..expected_reply_seq_number) \X Names
  BY Facts DEF Inv, WorkerInv
<1>3. {x \in succeeded' : x[1] = expected_reply_seq_number'} = {}
  <2> SUFFICES ASSUME NEW x \in succeeded, x[1] = expected_reply_seq_number + 1 PROVE FALSE
    OBVIOUS
  <2>1. x[1] \in 0..expected_reply_seq_number
    BY <1>2
  <2> QED BY <1>2, <2>1
<1>4. {s[2] : s \in {x \in succeeded' : x[1] = expected_reply_seq_number'}} = {}
  BY <1>3
<1>5. PICK S \in SUBSET Names : S = Range(asked')
  BY <1>1
<1>6. Promise!Ask(S)
  BY <1>4, <1>5 DEF Promise!Ask
<1> QED BY <1>6, Zenon DEF Promise!Next, Names

(* qdevice_heuristics_cmd_process_exec_result answers what was asked last.  *)
LEMMA Answers ==
    ASSUME Inv, ReadResult
    PROVE  Promise!Next \/ UNCHANGED Promise!promiseVars
<1> DEFINE n == expected_reply_seq_number
           line == Head(result_pipe)
<1>1. /\ up /\ result_pipe # <<>> /\ UNCHANGED <<expected_reply_seq_number, asked>>
      /\ UNCHANGED plistVars
      /\ \/ Expected(line) /\ Notify(line.result)
         \/ UNCHANGED <<waiting_for_result, given, notifiers, regular_timer, interrupted>>
  BY DEF ReadResult
<1>2. succeeded' = succeeded
  BY <1>1 DEF plistVars
<1>3. CASE UNCHANGED <<waiting_for_result, given, notifiers, regular_timer, interrupted>>
  BY <1>1, <1>2, <1>3, Unseen
<1>4. CASE Expected(line) /\ Notify(line.result)
  <2>1. line \in LinesTo(n) /\ line = result_pipe[1] /\ 1 \in DOMAIN result_pipe
    <3> DEFINE L == LinesTo(n)
    <3>1. result_pipe \in Seq(L)
      BY DEF Inv, WorkerInv
    <3> HIDE DEF L
    <3>2. line \in L /\ line = result_pipe[1] /\ 1 \in DOMAIN result_pipe
      BY <1>1, <3>1
    <3> QED BY <3>2 DEF L
  <2>2. Truthful(line, asked, n, succeeded)
    BY <1>1, <2>1 DEF Inv, LatestInv
  <2>3. waiting_for_result /\ line.seq = n /\ given' = line.result
    BY <1>4 DEF Expected, Notify
  <2>4. given = "none" /\ n > 0 /\ asked \in Seq(Names)
    BY <2>3 DEF Inv, DeviceInv
  <2> DEFINE r == line.result
  <2>5. r \in {"PASS", "FAIL", "DISABLED"}
    BY <2>1 DEF LinesTo, Results
  <2>6. /\ (r = "DISABLED") = (asked = <<>>)
        /\ r = "PASS" => \A k \in DOMAIN asked : <<n, asked[k]>> \in succeeded
    BY <2>2, <2>3 DEF Truthful
  <2> HIDE DEF line, r
  <2>7. (Range(asked) = {}) = (asked = <<>>)
    <3>1. asked = <<>> => Range(asked) = {}
      BY DEF Range
    <3>2. asked # <<>> => 1 \in DOMAIN asked
      BY <2>4, EmptySeq
    <3>3. asked # <<>> => asked[1] \in Range(asked)
      BY <3>2 DEF Range
    <3> QED BY <3>1, <3>3
  <2>8. ASSUME r = "PASS", NEW x \in Range(asked)
        PROVE  x \in {s[2] : s \in {y \in succeeded : y[1] = n}}
    <3>1. PICK k \in DOMAIN asked : x = asked[k]
      BY <2>8 DEF Range
    <3>2. <<n, x>> \in succeeded /\ <<n, x>>[1] = n /\ <<n, x>>[2] = x
      BY <2>6, <2>8, <3>1
    <3>3. <<n, x>> \in {y \in succeeded : y[1] = n}
      BY <3>2
    <3> QED BY <3>2, <3>3
  <2>9. given' = r
    BY <2>3 DEF r
  <2>10. Promise!Answer(r)
    BY <1>1, <1>2, <2>4, <2>6, <2>7, <2>8, <2>9 DEF Promise!Answer
  <2> QED BY <2>5, <2>10 DEF Promise!Next
<1> QED BY <1>1, <1>3, <1>4

(* One process ends, so no more than one command succeeds.                  *)
LEMMA OneOwner ==
    ASSUME Inv, NEW p,
           NEW x \in Entries, HasProcess(x), x.pid = p, NEW y \in Entries, HasProcess(y), y.pid = p
    PROVE  x = y
<1>1. Plist.active = active_list /\ Plist.kill = to_kill_list
  BY DEF Plist
<1>2. Apart(active_list) /\ Apart(to_kill_list) /\ ApartFrom(active_list, to_kill_list)
  BY <1>1 DEF Inv, Sound
<1>3. \A e \in Entries : \/ \E i \in DOMAIN active_list : e = active_list[i]
                         \/ \E i \in DOMAIN to_kill_list : e = to_kill_list[i]
  BY DEF Entries, Range
<1>4. CASE \E i \in DOMAIN active_list : x = active_list[i]
  <2>1. PICK i \in DOMAIN active_list : x = active_list[i]
    BY <1>4
  <2>2. ASSUME NEW k \in DOMAIN active_list, y = active_list[k] PROVE x = y
    BY <1>2, <2>1, <2>2 DEF Apart
  <2>3. ASSUME NEW k \in DOMAIN to_kill_list, y = to_kill_list[k] PROVE x = y
    BY <1>2, <2>1, <2>3 DEF ApartFrom
  <2> QED BY <1>3, <2>2, <2>3
<1>5. CASE \E i \in DOMAIN to_kill_list : x = to_kill_list[i]
  <2>1. PICK i \in DOMAIN to_kill_list : x = to_kill_list[i]
    BY <1>5
  <2>2. ASSUME NEW k \in DOMAIN active_list, y = active_list[k] PROVE x = y
    BY <1>2, <2>1, <2>2 DEF ApartFrom
  <2>3. ASSUME NEW k \in DOMAIN to_kill_list, y = to_kill_list[k] PROVE x = y
    BY <1>2, <2>1, <2>3 DEF Apart
  <2> QED BY <1>3, <2>2, <2>3
<1> QED BY <1>3, <1>4, <1>5

(* A process ends: one command more succeeded, or none that counts.         *)
LEMMA Succeeds ==
    ASSUME Inv, ProcessStep
    PROVE  Promise!Next \/ UNCHANGED Promise!promiseVars
<1> DEFINE n == expected_reply_seq_number
<1>1. UNCHANGED <<expected_reply_seq_number, asked, given>>
  BY DEF ProcessStep, deviceVars
<1>2. PICK p \in Pids, status \in {"ok", "bad"} : ProcessExits(p, status)
  BY DEF ProcessStep
<1> DEFINE N == {x \in Entries : status = "ok" /\ HasProcess(x) /\ x.pid = p}
           new == {<<e.exec, e.name>> : e \in N}
<1>3. succeeded' = succeeded \cup new
  BY <1>2 DEF ProcessExits
<1>4. CASE N = {}
  <2>1. succeeded' = succeeded
    BY <1>3, <1>4
  <2> QED BY <1>1, <2>1, Unseen
<1>5. CASE N # {}
  <2>1. PICK x \in N : TRUE
    BY <1>5
  <2>2. ASSUME NEW y \in N PROVE y = x
    BY <2>1, <2>2, OneOwner
  <2>3. new = {<<x.exec, x.name>>}
    BY <2>1, <2>2
  <2>4. x.name \in Names
    <3>1. active_list \in Seq(Entry) /\ to_kill_list \in Seq(Entry)
      BY Facts
    <3>2. x \in Entry
      BY <2>1, <3>1 DEF Entries, Range
    <3> QED BY <3>2 DEF Entry
  <2> DEFINE e == x.exec
             m == x.name
  <2> HIDE DEF e, m, n, new, N
  <2>5. succeeded' = succeeded \cup {<<e, m>>} /\ <<e, m>>[1] = e /\ <<e, m>>[2] = m
    BY <1>3, <2>3 DEF e, m
  <2>6. CASE e = n
    <3>1. {y \in succeeded' : y[1] = n} = {y \in succeeded : y[1] = n} \cup {<<e, m>>}
      BY <2>5, <2>6
    <3>2. {s[2] : s \in {y \in succeeded' : y[1] = n}}
             = {s[2] : s \in {y \in succeeded : y[1] = n}} \cup {m}
      BY <2>5, <3>1
    <3>3. Promise!Succeed(m)
      BY <1>1, <3>2 DEF Promise!Succeed, n
    <3> QED BY <2>4, <3>3 DEF Promise!Next, Names, m
  <2>7. CASE e # n
    <3>1. {y \in succeeded' : y[1] = n} = {y \in succeeded : y[1] = n}
      BY <2>5, <2>7
    <3> QED BY <1>1, <3>1 DEF Promise!promiseVars, n
  <2> QED BY <2>6, <2>7
<1> QED BY <1>4, <1>5

(* The requests: each is a question, or nothing that the promise is about.  *)
LEMMA RequestsAsk ==
    ASSUME Inv, Inv', Requests
    PROVE  Promise!Next \/ UNCHANGED Promise!promiseVars
<1>1. asked' \in Seq(Names)
  BY DEF Inv, DeviceInv
<1>2. succeeded' = succeeded
  BY DEF Requests, NodeListNotify, ExecAfterConnect, RegularTimer, CmapHeuristicsEvent, workerVars,
         plistVars
<1>3. ASSUME DeviceGone PROVE UNCHANGED Promise!promiseVars
  BY <1>2, <1>3, Unseen DEF DeviceGone
<1>4. ASSUME NEW out, NEW list, Exec(out, list) PROVE Promise!Next
  BY <1>1, <1>2, <1>4, Asks DEF Exec
<1>5. ASSUME ExecFails PROVE Promise!Next
  BY <1>1, <1>2, <1>5, Asks DEF ExecFails
<1>6. CASE NodeListNotify
  BY <1>3, <1>4, <1>6 DEF NodeListNotify
<1>7. ASSUME NetExec PROVE Promise!Next
  BY <1>4, <1>5, <1>7 DEF NetExec
<1>8. CASE ExecAfterConnect
  BY <1>3, <1>7, <1>8 DEF ExecAfterConnect
<1>9. CASE RegularTimer
  BY <1>3, <1>7, <1>9 DEF RegularTimer
<1>10. ASSUME NEW conf \in Confs, CmapHeuristicsEvent(conf)
       PROVE  Promise!Next \/ UNCHANGED Promise!promiseVars
  <2>1. \/ DeviceGone
        \/ UNCHANGED <<expected_reply_seq_number, asked, given>>
        \/ ChangeExecList(EffectiveList(conf))
    BY <1>10 DEF CmapHeuristicsEvent
  <2>2. ASSUME NEW list, ChangeExecList(list)
        PROVE  \/ Exec(cmd_out \o ExecListCmds(list), list)
               \/ UNCHANGED <<expected_reply_seq_number, asked, given>>
    BY <2>2 DEF ChangeExecList
  <2>3. CASE UNCHANGED <<expected_reply_seq_number, asked, given>>
    BY <1>2, <2>3, Unseen
  <2> QED BY <1>3, <1>4, <2>1, <2>2, <2>3
<1> QED BY <1>6, <1>8, <1>9, <1>10 DEF Requests

(* The steps of the worker are not seen.                                    *)
LEMMA WorkUnseen ==
    ASSUME WorkerStep \/ ExecTimerExpires \/ KillTimerExpires
    PROVE  UNCHANGED Promise!promiseVars
<1>1. UNCHANGED <<expected_reply_seq_number, asked, given>>
  BY DEF WorkerStep, ExecTimerExpires, KillTimerExpires, deviceVars
<1>2. succeeded' = succeeded
  <2>1. CASE WorkerStep
    BY <2>1 DEF WorkerStep, PollInput, InputClosed, ProcessExecList, ProcessExec, Check, TimersDone,
                KillallRound, WorkerExits, plistVars
  <2>2. CASE ExecTimerExpires \/ KillTimerExpires
    BY <2>2 DEF ExecTimerExpires, KillTimerExpires, ExecTimeout, KillListTimer
  <2> QED BY <2>1, <2>2
<1> QED BY <1>1, <1>2, Unseen

(* The device, the pipes, the worker and its processes together keep the    *)
(* promise: an answer is given to the latest request only, once, and a pass *)
(* only when every command that was configured succeeded for that request.  *)
THEOREM PromiseIsKept == Spec => KeepsPromise
<1>1. Init => Promise!Init
  <2> SUFFICES ASSUME Init PROVE Promise!Init
    OBVIOUS
  <2>1. expected_reply_seq_number = 0 /\ asked = <<>> /\ succeeded = {} /\ given = "none"
    BY DEF Init, WorkerInit, PlistInit
  <2>2. Range(asked) = {}
    BY <2>1 DEF Range
  <2>3. {s[2] : s \in {x \in succeeded : x[1] = expected_reply_seq_number}} = {}
    BY <2>1
  <2> QED BY <2>1, <2>2, <2>3 DEF Promise!Init
<1>2. Inv /\ Inv' /\ [Next]_vars => [Promise!Next]_(Promise!promiseVars)
  <2> SUFFICES ASSUME Inv, Inv', [Next]_vars
               PROVE  Promise!Next \/ UNCHANGED Promise!promiseVars
    OBVIOUS
  <2>1. CASE WorkerStep \/ ExecTimerExpires \/ KillTimerExpires
    BY <2>1, WorkUnseen
  <2>2. CASE ProcessStep
    BY <2>2, Succeeds
  <2>3. CASE Requests
    BY <2>3, RequestsAsk
  <2>4. CASE ReadResult
    BY <2>4, Answers
  <2>5. CASE CmdWrite
    BY <2>5, Unseen DEF CmdWrite, plistVars
  <2>6. CASE DeviceEnds
    BY <2>6, Unseen DEF DeviceEnds, DeviceGone, workerVars, plistVars
  <2>7. CASE Ended \/ UNCHANGED vars
    BY <2>7, Unseen DEF Ended, vars, deviceVars, workerVars, plistVars
  <2> QED BY <2>1, <2>2, <2>3, <2>4, <2>5, <2>6, <2>7, Zenon DEF Next
<1> QED BY <1>1, <1>2, HeuristicsInvariant, PTL DEF Spec, KeepsPromise, Promise!Spec
=============================================================================
