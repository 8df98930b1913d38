------------------------------ MODULE ProcessList ------------------------------
(***************************************************************************)
(* The processes that the heuristics worker runs (process-list.c).         *)
(*                                                                         *)
(* The active list holds the processes of the current execution, the kill  *)
(* list those of earlier ones that are still to be got rid of.  A process  *)
(* is known to the system by its pid, which is free again as soon as       *)
(* waitpid reported its end: a signal that is sent later would hit someone *)
(* else.                                                                   *)
(***************************************************************************)
EXTENDS Integers, Sequences, FiniteSets, SequencesExt

CONSTANTS
    Pids,          \* process identifiers
    MaxProcesses   \* plist->max_list_entries

ASSUME ProcessListAssumption ==
    /\ Pids \subseteq Nat \ {0} /\ IsFiniteSet(Pids)
    /\ MaxProcesses \in Nat \ {0}

VARIABLES
    active_list,             \* plist->active_list
    to_kill_list,            \* plist->to_kill_list
    allocated_list_entries,  \* plist->allocated_list_entries
    procs,                   \* the system: "free", "run", or the status of a zombie
    succeeded                \* history: <<execution, name>> of what exited with 0

plistVars == <<active_list, to_kill_list, allocated_list_entries, procs, succeeded>>

States == {"INITIALIZED", "RUNNING", "FINISHED", "SIGTERM_SENT", "SIGKILL_SENT"}
NoPid  == 0

(* struct process_list_entry.  `exec' is the execution it was added for.    *)
NewEntry(name, exec) ==
    [name |-> name, state |-> "INITIALIZED", pid |-> NoPid, status |-> "none", exec |-> exec]

(* The entry has a process: waitpid was not told about its end.             *)
HasProcess(e) == e.state \in {"RUNNING", "SIGTERM_SENT", "SIGKILL_SENT"}

Entries == Range(active_list) \cup Range(to_kill_list)

PlistInit ==
    /\ active_list = <<>>
    /\ to_kill_list = <<>>
    /\ allocated_list_entries = 0
    /\ procs = [p \in Pids |-> "free"]
    /\ succeeded = {}

-----------------------------------------------------------------------------
(* The lists, as operators on [active, kill, allocated, procs]             *)

Plist == [active |-> active_list, kill |-> to_kill_list,
          allocated |-> allocated_list_entries, procs |-> procs]

SetPlist(pl) ==
    /\ active_list' = pl.active
    /\ to_kill_list' = pl.kill
    /\ allocated_list_entries' = pl.allocated
    /\ procs' = pl.procs

(* The entries at the given positions of a list, in the order of the list.  *)
Ascending(K) ==
    CHOOSE f \in [1..Cardinality(K) -> K] : \A i, j \in DOMAIN f : i < j => f[i] < f[j]

At(list, K) == [i \in 1..Cardinality(K) |-> list[Ascending(K)[i]]]

(* process_list_add for each name of a list, up to the limit.  Without      *)
(* memory it fails earlier, which looks like a lower limit.                 *)
Fits(pl, names) == pl.allocated + Len(names) <= MaxProcesses

Added(pl, names, exec) ==
    LET n == IF Fits(pl, names) THEN Len(names) ELSE MaxProcesses - pl.allocated
    IN  [pl EXCEPT !.active = @ \o [i \in 1..n |-> NewEntry(names[i], exec)],
                   !.allocated = @ + n]

(* process_list_exec_initialized: fork for the first n entries that have no *)
(* process yet, n being less than all of them when a fork fails.            *)
FreePids(pl) == SetToSeq({p \in Pids : pl.procs[p] = "free"})

Initialized(pl) == {i \in DOMAIN pl.active : pl.active[i].state = "INITIALIZED"}

Forked(pl, n) ==
    LET fork == {i \in Initialized(pl) : Cardinality({k \in Initialized(pl) : k <= i}) <= n}
        Pid(i) == FreePids(pl)[Cardinality({k \in fork : k <= i})]
    IN  [pl EXCEPT
            !.active = [i \in DOMAIN @ |->
                IF i \in fork THEN [@[i] EXCEPT !.state = "RUNNING", !.pid = Pid(i)] ELSE @[i]],
            !.procs = [p \in Pids |-> IF \E i \in fork : Pid(i) = p THEN "run" ELSE @[p]]]

(* process_list_entry_waitpid: is there news of the process?                *)
Exited(pl, e) == HasProcess(e) /\ pl.procs[e.pid] \in {"ok", "bad"}

(* A variant that leaves finished entries on the kill list.                 *)
WaitpidKeeps(pl) ==
    LET Reaped(e) == IF Exited(pl, e)
                     THEN [e EXCEPT !.state = "FINISHED", !.status = pl.procs[e.pid]]
                     ELSE e
        ended == {e.pid : e \in {x \in Range(pl.active) \cup Range(pl.kill) : Exited(pl, x)}}
    IN  [pl EXCEPT !.active = [i \in DOMAIN @ |-> Reaped(@[i])],
                   !.procs  = [p \in Pids |-> IF p \in ended THEN "free" ELSE @[p]]]

(* process_list_waitpid: entries of the kill list are freed.                *)
Waitpid(pl) ==
    LET Reaped(e) == IF Exited(pl, e)
                     THEN [e EXCEPT !.state = "FINISHED", !.status = pl.procs[e.pid]]
                     ELSE e
        kept  == At(pl.kill, {i \in DOMAIN pl.kill : ~Exited(pl, pl.kill[i])})
        ended == {e.pid : e \in {x \in Range(pl.active) \cup Range(pl.kill) : Exited(pl, x)}}
    IN  [active    |-> [i \in DOMAIN pl.active |-> Reaped(pl.active[i])],
         kill      |-> kept,
         allocated |-> pl.allocated - (Len(pl.kill) - Len(kept)),
         procs     |-> [p \in Pids |-> IF p \in ended THEN "free" ELSE pl.procs[p]]]

(* process_list_get_summary_result_short                                    *)
Summary(pl) ==
    IF \E e \in Range(pl.active) : e.state = "FINISHED" /\ e.status = "bad" THEN "FAIL"
    ELSE IF \E e \in Range(pl.active) : e.state # "FINISHED" THEN "unfinished"
    ELSE "PASS"

(* The active entries that have a process.                                  *)
WithProcess(pl) == At(pl.active, {i \in DOMAIN pl.active : HasProcess(pl.active[i])})

(* A variant that does not count the entries it frees.                      *)
MoveKeepsCount(pl) == [pl EXCEPT !.active = <<>>, !.kill = @ \o WithProcess(pl)]

(* process_list_move_active_entries_to_kill_list                            *)
MoveActiveToKillList(pl) ==
    [pl EXCEPT !.active = <<>>,
               !.kill = @ \o WithProcess(pl),
               !.allocated = @ - (Len(pl.active) - Len(WithProcess(pl)))]

(* process_list_process_kill_list_entry: SIGTERM first, then SIGKILL.       *)
Signalled(e) ==
    [e EXCEPT !.state = IF @ = "RUNNING" THEN "SIGTERM_SENT" ELSE "SIGKILL_SENT"]

(* process_list_process_kill_list.  kill() of the n-th entry fails, or none *)
(* does (n = 0); the state of the entry changes all the same.               *)
KillListProcessed(pl, n) ==
    LET w == Waitpid(pl)
    IN  [w EXCEPT !.kill = [i \in DOMAIN @ |->
            IF n = 0 \/ i <= n THEN Signalled(@[i]) ELSE @[i]]]

KillFailures(pl) == DOMAIN Waitpid(pl).kill

-----------------------------------------------------------------------------
(* A process ends, by itself or because of a signal.                       *)
ProcessExits(p, status) ==
    /\ procs[p] = "run"
    /\ procs' = [procs EXCEPT ![p] = status]
    /\ succeeded' = succeeded \cup
          {<<e.exec, e.name>> : e \in {x \in Entries : status = "ok" /\ HasProcess(x) /\ x.pid = p}}
    /\ UNCHANGED <<active_list, to_kill_list, allocated_list_entries>>

-----------------------------------------------------------------------------
PlistTypeOK ==
    /\ \A e \in Entries : /\ e.state \in States
                          /\ e.pid \in Pids \cup {NoPid}
                          /\ e.status \in {"none", "ok", "bad"}
    /\ procs \in [Pids -> {"free", "run", "ok", "bad"}]

(* Every entry that waits for a process, or will send it a signal, has a    *)
(* process of its own which was not waited for yet: waitpid does not fail,  *)
(* and no signal goes to a pid that may belong to someone else.  What is on *)
(* the kill list has a process (the assertions of                           *)
(* process_list_process_kill_list_entry).  And every process has an entry,  *)
(* so none is left behind.                                                  *)
SignalsOwnChildren ==
    LET all == active_list \o to_kill_list IN
    /\ \A i \in DOMAIN all : HasProcess(all[i]) => procs[all[i].pid] # "free"
    /\ \A i, k \in DOMAIN all :
          HasProcess(all[i]) /\ HasProcess(all[k]) /\ all[i].pid = all[k].pid => i = k
    /\ \A i \in DOMAIN to_kill_list : HasProcess(to_kill_list[i])
    /\ \A p \in Pids : procs[p] # "free" =>
          \E i \in DOMAIN all : HasProcess(all[i]) /\ all[i].pid = p

(* The count of entries that decides whether another process may be added   *)
(* is what the lists hold.                                                  *)
CountIsExact ==
    /\ allocated_list_entries = Len(active_list) + Len(to_kill_list)
    /\ allocated_list_entries <= MaxProcesses
=============================================================================
