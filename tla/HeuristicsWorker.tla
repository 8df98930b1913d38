--------------------------- MODULE HeuristicsWorker ---------------------------
(***************************************************************************)
(* The heuristics worker (qdevice-heuristics-worker.c and -worker-cmd.c):  *)
(* a process of its own that reads commands from a pipe, runs the listed   *)
(* programs, and writes one result line for each execution.                *)
(*                                                                         *)
(* One call of qdevice_heuristics_worker_poll goes through the phases      *)
(*   poll     poll() the pipe and read some lines,                         *)
(*   lines    process them, one after the other,                           *)
(*   check    waitpid, and the result if there is one,                     *)
(*   timers   the timeout of the execution and the kill list timer,        *)
(* and the end of the worker through killall, free and gone.  A line that  *)
(* is not yet complete stays in the buffer, as if it was not read.         *)
(*                                                                         *)
(* Memory for a result line may be missing, and then the worker ends.      *)
(***************************************************************************)
EXTENDS ProcessList

CONSTANT KillRounds   \* rounds of each of the two loops of process_list_killall (10)

ASSUME WorkerAssumption == KillRounds \in Nat \ {0}

VARIABLES
    phase,          \* where the worker is
    cmd_in_buffer,  \* lines read from the pipe
    worker_execs,   \* instance->exec_list: names
    last_seq,       \* instance->last_exec_seq_number
    exec_timer,     \* instance->exec_timeout_timer is not NULL
    kill_due,       \* the kill list timer was not expired yet in this round
    schedule_exit,  \* instance->schedule_exit
    rounds,         \* rounds done of process_list_killall
    kill_failed,    \* some kill() failed
    cmd_pipe,       \* lines from the device
    result_pipe     \* lines to the device

controlVars == <<phase, kill_due, schedule_exit, rounds, kill_failed>>
workerVars  == <<plistVars, controlVars, cmd_in_buffer, worker_execs, last_seq, exec_timer,
                 cmd_pipe, result_pipe>>

WorkerPhases == {"poll", "lines", "check", "timers", "killall", "free", "gone"}

WorkerInit ==
    /\ PlistInit
    /\ phase = "poll"
    /\ cmd_in_buffer = <<>>
    /\ worker_execs = <<>>
    /\ last_seq = 0
    /\ exec_timer = FALSE
    /\ kill_due = TRUE
    /\ schedule_exit = FALSE
    /\ rounds = 0
    /\ kill_failed = FALSE
    /\ cmd_pipe = <<>>
    /\ result_pipe = <<>>

-----------------------------------------------------------------------------
(* A variant that does not notice the end of the device.                    *)
ReadableIgnoresHup(n, open) == n = 0 => cmd_pipe = <<>>

(* poll() returns: data, or the timeout while the pipe is open and empty.   *)
Readable(n, open) == n = 0 => cmd_pipe = <<>> /\ open

(* poll, qdevice_heuristics_io_read: some of the lines in the pipe, or none *)
(* before the timeout.  `open' says whether the device has the pipe open.   *)
PollInput(open) ==
    /\ phase = "poll"
    /\ \E n \in 0..Len(cmd_pipe) :
          /\ Readable(n, open)
          /\ phase' = IF n = 0 THEN "check" ELSE "lines"
          /\ cmd_in_buffer' = SubSeq(cmd_pipe, 1, n)
          /\ cmd_pipe' = SubSeq(cmd_pipe, n + 1, Len(cmd_pipe))
    /\ UNCHANGED <<plistVars, worker_execs, last_seq, exec_timer, kill_due, schedule_exit,
                   rounds, kill_failed, result_pipe>>

(* The device closed its end, and there is nothing left to read.            *)
InputClosed(open) ==
    /\ phase = "poll"
    /\ cmd_pipe = <<>> /\ ~open
    /\ phase' = "killall"
    /\ UNCHANGED <<plistVars, cmd_in_buffer, worker_execs, last_seq, exec_timer, kill_due,
                   schedule_exit, rounds, kill_failed, cmd_pipe, result_pipe>>

(* A variant that has no line for a failure.                                *)
WriteResultUnlessFail(seq, r) ==
    result_pipe' = IF r = "FAIL" THEN result_pipe
                   ELSE Append(result_pipe, [seq |-> seq, result |-> r])

(* qdevice_heuristics_worker_cmd_write_exec_result, which blocks until the  *)
(* line is written.  When it fails the worker ends.                         *)
WriteResult(seq, r) == result_pipe' = Append(result_pipe, [seq |-> seq, result |-> r])

LineDone == phase' = IF Len(cmd_in_buffer) = 1 THEN "check" ELSE "lines"

(* exec-list-clear and exec-list-add                                        *)
ProcessExecList ==
    /\ phase = "lines"
    /\ LET line == Head(cmd_in_buffer) IN
       /\ line.cmd \in {"exec-list-clear", "exec-list-add"}
       /\ worker_execs' = IF line.cmd = "exec-list-clear" THEN <<>>
                          ELSE Append(worker_execs, line.name)
    /\ cmd_in_buffer' = Tail(cmd_in_buffer)
    /\ LineDone
    /\ UNCHANGED <<plistVars, last_seq, exec_timer, kill_due, schedule_exit, rounds, kill_failed,
                   cmd_pipe, result_pipe>>

(* The lists when a new execution comes: an earlier one that still runs is  *)
(* given up.                                                                *)
Superseded == IF exec_timer THEN MoveActiveToKillList(Plist) ELSE Plist

(* How many of the processes may be forked before fork fails, if it does;   *)
(* it does when there is no pid left.                                       *)
Forks(pl, names) == {n \in 0..Len(names) : n <= Len(FreePids(pl))}

(* What may become of an execution: the lists, whether it runs, and the     *)
(* result if it is known at once.  An entry that cannot be added (the limit *)
(* on processes, or memory), a process that cannot be forked and a timer    *)
(* that cannot be added make it fail, and what was started goes to the kill *)
(* list.                                                                    *)
ExecOutcomes(pl, names, seq) ==
    IF names = <<>> THEN {[plist |-> pl, runs |-> FALSE, result |-> "DISABLED"]}
    ELSE LET added == Added(pl, names, seq)
             Failed(x) == [plist |-> MoveActiveToKillList(x), runs |-> FALSE, result |-> "FAIL"]
         IN  {Failed(added)} \cup
             (IF ~Fits(pl, names) THEN {}
              ELSE {Failed(Forked(added, n)) : n \in Forks(pl, names)}
                     \cup {[plist |-> Forked(added, n), runs |-> TRUE, result |-> "none"] :
                              n \in Forks(pl, names) \cap {Len(names)}})

(* qdevice_heuristics_worker_cmd_process_exec                               *)
ProcessExec ==
    /\ phase = "lines"
    /\ Head(cmd_in_buffer).cmd = "exec"
    /\ \E seq \in {Head(cmd_in_buffer).seq} :
       \E out \in ExecOutcomes(Superseded, worker_execs, seq) :
          /\ SetPlist(out.plist)
          /\ last_seq' = seq
          /\ exec_timer' = out.runs
          /\ cmd_in_buffer' = Tail(cmd_in_buffer)
          /\ \/ /\ out.runs
                /\ LineDone
                /\ UNCHANGED result_pipe
             \/ /\ ~out.runs
                /\ LineDone
                /\ WriteResult(seq, out.result)
             \/ /\ ~out.runs
                /\ phase' = "killall"
                /\ UNCHANGED result_pipe
    /\ UNCHANGED <<succeeded, worker_execs, kill_due, schedule_exit, rounds, kill_failed, cmd_pipe>>

(* waitpid, then the result of the execution as soon as it is certain.      *)
Check ==
    /\ phase = "check"
    /\ \E pl \in {Waitpid(Plist)} :
          IF ~exec_timer \/ Summary(pl) = "unfinished"
          THEN /\ SetPlist(pl)
               /\ phase' = "timers"
               /\ UNCHANGED <<exec_timer, result_pipe>>
          ELSE \/ /\ WriteResult(last_seq, Summary(pl))
                  /\ SetPlist(MoveActiveToKillList(pl))
                  /\ exec_timer' = FALSE
                  /\ phase' = "timers"
               \/ /\ SetPlist(pl)
                  /\ phase' = "killall"
                  /\ UNCHANGED <<exec_timer, result_pipe>>
    /\ kill_due' = TRUE
    /\ UNCHANGED <<succeeded, cmd_in_buffer, worker_execs, last_seq, schedule_exit, rounds,
                   kill_failed, cmd_pipe>>

(* A variant that leaves the processes where they are.                      *)
ExecTimeoutKeeps(pl) == pl

(* The lists after the timeout.                                             *)
ExecTimedOut(pl) == MoveActiveToKillList(pl)

(* qdevice_heuristics_worker_exec_timeout_timer_callback                    *)
ExecTimeout ==
    /\ phase = "timers" /\ exec_timer
    /\ SetPlist(ExecTimedOut(Plist))
    /\ exec_timer' = FALSE
    /\ \/ WriteResult(last_seq, "FAIL") /\ UNCHANGED schedule_exit
       \/ schedule_exit' = TRUE /\ UNCHANGED result_pipe
    /\ UNCHANGED <<succeeded, phase, kill_due, rounds, kill_failed, cmd_in_buffer, worker_execs,
                   last_seq, cmd_pipe>>

(* qdevice_heuristics_worker_kill_list_timer_callback                       *)
KillListTimer ==
    /\ phase = "timers" /\ kill_due
    /\ kill_due' = FALSE
    /\ \/ /\ SetPlist(KillListProcessed(Plist, 0))
          /\ UNCHANGED <<schedule_exit, kill_failed>>
       \/ \E n \in KillFailures(Plist) :
             /\ SetPlist(KillListProcessed(Plist, n))
             /\ schedule_exit' = TRUE
             /\ kill_failed' = TRUE
    /\ UNCHANGED <<succeeded, phase, rounds, cmd_in_buffer, worker_execs, last_seq, exec_timer,
                   cmd_pipe, result_pipe>>

TimersDone ==
    /\ phase = "timers"
    /\ phase' = IF schedule_exit THEN "killall" ELSE "poll"
    /\ UNCHANGED <<plistVars, cmd_in_buffer, worker_execs, last_seq, exec_timer, kill_due,
                   schedule_exit, rounds, kill_failed, cmd_pipe, result_pipe>>

-----------------------------------------------------------------------------
(* The end of qdevice_heuristics_worker_start: process_list_killall.  Its   *)
(* first loop does not wait, the second one waits a while in each round,    *)
(* and ends as soon as the list is empty.                                   *)
KillallStart(pl) == IF rounds = 0 THEN MoveActiveToKillList(pl) ELSE pl

(* A variant without the rounds that wait.                                  *)
KillallQuickOnly(pl) == rounds + 1 = KillRounds

KillallDone(pl) ==
    \/ rounds + 1 >= KillRounds /\ pl.kill = <<>>
    \/ rounds + 1 = 2 * KillRounds

KillallRound ==
    /\ phase = "killall"
    /\ \/ \E pl \in {KillListProcessed(KillallStart(Plist), 0)} :
             /\ SetPlist(pl)
             /\ phase' = IF KillallDone(pl) THEN "free" ELSE "killall"
             /\ UNCHANGED kill_failed
       \/ \E n \in KillFailures(KillallStart(Plist)) :
             /\ SetPlist(KillListProcessed(KillallStart(Plist), n))
             /\ phase' = "free"
             /\ kill_failed' = TRUE
    /\ rounds' = rounds + 1
    /\ worker_execs' = <<>>
    /\ exec_timer' = FALSE
    /\ UNCHANGED <<succeeded, cmd_in_buffer, last_seq, kill_due, schedule_exit,
                   cmd_pipe, result_pipe>>

(* process_list_free, and the worker exits; its processes, if any are left, *)
(* are no longer its children.                                              *)
WorkerExits ==
    /\ phase = "free"
    /\ phase' = "gone"
    /\ SetPlist([active |-> <<>>, kill |-> <<>>, allocated |-> 0,
                 procs |-> [p \in Pids |-> "free"]])
    /\ cmd_in_buffer' = <<>>
    /\ cmd_pipe' = <<>>
    /\ UNCHANGED <<succeeded, worker_execs, last_seq, exec_timer, kill_due, schedule_exit, rounds,
                   kill_failed, result_pipe>>

-----------------------------------------------------------------------------
WorkerTypeOK ==
    /\ PlistTypeOK
    /\ phase \in WorkerPhases
    /\ last_seq \in Nat
    /\ rounds \in 0..(2 * KillRounds)

(* The active processes are those of the execution that has a timeout, and  *)
(* without one there are none: a process that outlives its execution cannot *)
(* decide the result of the next one (qdevice_heuristics_worker_poll looks  *)
(* at the whole active list).                                               *)
ActiveIsLatestExecution ==
    phase \in {"poll", "lines", "check", "timers"} =>
        /\ active_list # <<>> => exec_timer
        /\ \A e \in Range(active_list) : e.exec = last_seq

(* When the worker exits every process it leaves was sent SIGKILL, unless   *)
(* kill() failed for one of them.                                           *)
ExitKillsAll ==
    phase = "free" =>
        /\ active_list = <<>>
        /\ kill_failed \/ \A e \in Range(to_kill_list) : e.state = "SIGKILL_SENT"
=============================================================================
