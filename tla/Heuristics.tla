------------------------------ MODULE Heuristics ------------------------------
(***************************************************************************)
(* The device's side of heuristics and its composition with the worker:    *)
(* qdevice-heuristics.c, -cmd.c, -result-notifier.c, the configuration in  *)
(* cmap (qdevice-cmap.c, qdevice-instance.c) and the users of results: the *)
(* membership changes of votequorum, the connection to qnetd, and the      *)
(* regular executions of the net model (qdevice-net-heuristics.c).         *)
(*                                                                         *)
(* There is one execution at a time.  Whoever needs a result activates its *)
(* notifier and starts another execution; the results of the earlier ones  *)
(* are recognised by their number and dropped.                             *)
(***************************************************************************)
EXTENDS HeuristicsWorker

CONSTANTS
    Confs,          \* what cmap may have configured: mode and sequence of names
    MaxExecsConf,   \* heuristics_max_execs
    MaxCmdBuffers,  \* heuristics_ipc_max_send_buffers
    MaxExecs,       \* bound: executions
    MaxChanges      \* bound: changes of the configuration

ASSUME HeuristicsAssumption ==
    /\ Confs \subseteq [mode : {"enabled", "sync", "disabled"}, list : Seq(STRING)]
    /\ MaxExecsConf \in Nat /\ MaxCmdBuffers \in Nat \ {0}
    /\ MaxExecs \in Nat /\ MaxChanges \in Nat

VARIABLES
    up,                          \* the device runs, and has the pipes open
    expected_reply_seq_number,
    waiting_for_result,
    exec_list,                   \* of the device: names
    mode,                        \* "enabled", "sync", "disabled"
    cmd_out,                     \* cmd_out_buffer_list
    notifiers,                   \* the active notifiers
    regular_timer,               \* regular_heuristics_timer is not NULL
    interrupted,                 \* the net model was disconnected halfway
    changes,                     \* changes of the configuration so far
    asked, given                 \* history: the list of the latest execution, its result

deviceVars == <<up, expected_reply_seq_number, waiting_for_result, exec_list, mode, cmd_out,
                notifiers, regular_timer, interrupted, changes, asked, given>>
vars == <<workerVars, deviceVars>>

Modes     == {"enabled", "sync", "disabled"}
Notifiers == {"votequorum", "regular", "connect"}

(* qdevice_instance_configure_from_cmap_heuristics: the mode in effect.     *)
EffectiveMode(conf) ==
    IF conf.list = <<>> \/ Len(conf.list) > MaxExecsConf THEN "disabled" ELSE conf.mode

EffectiveList(conf) == IF EffectiveMode(conf) = "disabled" THEN <<>> ELSE conf.list

ExecCmd(seq)  == [cmd |-> "exec", seq |-> seq]
ClearCmd      == [cmd |-> "exec-list-clear"]
AddCmd(name)  == [cmd |-> "exec-list-add", name |-> name]

(* qdevice_heuristics_cmd_write_exec_list                                   *)
ExecListCmds(list) == <<ClearCmd>> \o [i \in DOMAIN list |-> AddCmd(list[i])]

(* After qdevice_instance_configure_from_cmap: the list is on its way to    *)
(* the worker (a device that has no buffers for it does not start), and     *)
(* votequorum did not tell the membership yet.                              *)
Init ==
    /\ WorkerInit
    /\ up = TRUE
    /\ expected_reply_seq_number = 0
    /\ waiting_for_result = FALSE
    /\ \E conf \in Confs :
          /\ mode = EffectiveMode(conf)
          /\ exec_list = EffectiveList(conf)
          /\ cmd_out = ExecListCmds(EffectiveList(conf))
          /\ Len(ExecListCmds(EffectiveList(conf))) <= MaxCmdBuffers
    /\ notifiers = {}
    /\ regular_timer = FALSE
    /\ interrupted = FALSE
    /\ changes = 0
    /\ asked = <<>>
    /\ given = "none"

(* The membership is known (qdevice_votequorum_wait_for_ring_id), and the   *)
(* first execution for it is done                                           *)
(* (qdevice_pr_poll_loop_wait_for_initial_heuristics_exec_result).          *)
Started   == expected_reply_seq_number > 0
Initiated == expected_reply_seq_number > 1 \/ given # "none"

-----------------------------------------------------------------------------
(* Commands to the worker                                                  *)

(* qdevice_heuristics_exec when there is a buffer for the command.  The     *)
(* number and the flag are set first.                                       *)
Exec(out, list) ==
    /\ expected_reply_seq_number < MaxExecs
    /\ expected_reply_seq_number' = expected_reply_seq_number + 1
    /\ waiting_for_result' = TRUE
    /\ Len(out) < MaxCmdBuffers
    /\ cmd_out' = Append(out, ExecCmd(expected_reply_seq_number'))
    /\ asked' = list
    /\ given' = "none"

NoBuffer == expected_reply_seq_number < MaxExecs /\ Len(cmd_out) = MaxCmdBuffers

(* ... and when there is none, but the device goes on.                      *)
ExecFails ==
    /\ NoBuffer
    /\ expected_reply_seq_number' = expected_reply_seq_number + 1
    /\ waiting_for_result' = TRUE
    /\ asked' = exec_list
    /\ given' = "none"
    /\ UNCHANGED cmd_out

(* The device ends, and what it has is freed (qdevice_heuristics_destroy).  *)
DeviceGone ==
    /\ up' = FALSE
    /\ exec_list' = <<>> /\ mode' = "disabled" /\ cmd_out' = <<>>
    /\ notifiers' = {} /\ regular_timer' = FALSE
    /\ UNCHANGED <<expected_reply_seq_number, waiting_for_result, interrupted, changes, asked, given>>

(* qdevice_net_heuristics_stop_timer                                        *)
StopTimer(ns) ==
    /\ regular_timer' = FALSE
    /\ notifiers' = IF regular_timer THEN ns \ {"regular"} ELSE ns

(* qdevice_net_heuristics_schedule_timer                                    *)
ScheduleTimer(ns, m) ==
    IF m # "enabled" THEN StopTimer(ns)
    ELSE regular_timer' = TRUE /\ notifiers' = ns

-----------------------------------------------------------------------------
(* Those who need a result                                                 *)

(* qdevice_votequorum_node_list_notify_callback, with the net model's part: *)
(* regular executions stop until there is a result.                         *)
NodeListNotify ==
    /\ up
    /\ \/ /\ Exec(cmd_out, exec_list)
          /\ regular_timer' = FALSE
          /\ notifiers' = (IF regular_timer THEN notifiers \ {"regular"} ELSE notifiers)
                             \cup {"votequorum"}
          /\ UNCHANGED <<up, exec_list, mode, interrupted, changes>>
       \/ NoBuffer /\ DeviceGone
    /\ UNCHANGED workerVars

(* An execution for the net model.  When it cannot be started the model is  *)
(* disconnected, for a reason that ends the device unless another event of  *)
(* the same round puts its own reason in the place.                         *)
NetExec ==
    \/ /\ Exec(cmd_out, exec_list)
       /\ UNCHANGED <<up, exec_list, mode, interrupted, changes>>
    \/ /\ ExecFails
       /\ interrupted' = TRUE
       /\ UNCHANGED <<up, exec_list, mode, changes>>

(* qdevice_net_heuristics_exec_after_connect                                *)
ExecAfterConnect ==
    /\ up /\ Initiated
    /\ \/ /\ NetExec
          /\ notifiers' = notifiers \cup {"connect"}
          /\ UNCHANGED regular_timer
       \/ NoBuffer /\ DeviceGone
    /\ UNCHANGED workerVars

(* qdevice_net_heuristics_timer_callback; while another execution runs the  *)
(* timer is just scheduled again.                                           *)
RegularTimer ==
    /\ up
    /\ regular_timer /\ ~waiting_for_result
    /\ \/ /\ NetExec
          /\ notifiers' = notifiers \cup {"regular"}
          /\ regular_timer' = FALSE
       \/ NoBuffer /\ DeviceGone
    /\ UNCHANGED workerVars

-----------------------------------------------------------------------------
(* Configuration                                                           *)

(* qdevice_heuristics_exec_list_eq: the same names, in any order.           *)
ExecListEq(l1, l2) == Range(l1) = Range(l2)

(* qdevice_heuristics_change_exec_list, when everything fits into the       *)
(* buffers: a running execution is done again with the new list.            *)
ChangeExecList(list) ==
    /\ Len(cmd_out) + Len(ExecListCmds(list)) <= MaxCmdBuffers
    /\ exec_list' = list
    /\ IF waiting_for_result THEN Exec(cmd_out \o ExecListCmds(list), list)
       ELSE /\ cmd_out' = cmd_out \o ExecListCmds(list)
            /\ UNCHANGED <<expected_reply_seq_number, waiting_for_result, asked, given>>

BuffersNeeded(list) == Len(ExecListCmds(list)) + IF waiting_for_result THEN 1 ELSE 0

(* qdevice_cmap_reload_cb with qdevice_cmap_heuristics_event, then          *)
(* qdevice_model_net_cmap_changed.  A list that cannot be sent ends the     *)
(* device, wherever in the middle that was.                                 *)
CmapHeuristicsEvent(conf) ==
    /\ up /\ Started /\ changes < MaxChanges
    /\ \E eff \in {EffectiveMode(conf)}, list \in {EffectiveList(conf)} :
          \/ /\ IF eff # "disabled" /\ ExecListEq(list, exec_list)
                THEN UNCHANGED <<exec_list, cmd_out, expected_reply_seq_number,
                                 waiting_for_result, asked, given>>
                ELSE ChangeExecList(list)
             /\ ScheduleTimer(notifiers, eff)
             /\ mode' = eff
             /\ changes' = changes + 1
             /\ UNCHANGED <<up, interrupted>>
          \/ /\ eff = "disabled" \/ ~ExecListEq(list, exec_list)
             /\ Len(cmd_out) + BuffersNeeded(list) > MaxCmdBuffers
             /\ DeviceGone
    /\ UNCHANGED workerVars

-----------------------------------------------------------------------------
(* The pipes                                                               *)

(* qdevice_heuristics_cmd_write: a whole command; a part of one is seen by  *)
(* the worker as nothing.                                                   *)
CmdWrite ==
    /\ up /\ cmd_out # <<>> /\ phase # "gone"
    /\ cmd_pipe' = Append(cmd_pipe, Head(cmd_out))
    /\ cmd_out' = Tail(cmd_out)
    /\ UNCHANGED <<plistVars, controlVars, cmd_in_buffer, worker_execs, last_seq, exec_timer,
                   result_pipe, up, expected_reply_seq_number, waiting_for_result, exec_list, mode,
                   notifiers, regular_timer, interrupted, changes, asked, given>>

(* A variant that takes any result it is sent.                              *)
ExpectedAnySeq(line) == waiting_for_result

(* qdevice_heuristics_cmd_process_exec_result: is the result wanted?        *)
Expected(line) == waiting_for_result /\ line.seq = expected_reply_seq_number

(* A variant in which only the regular notifier keeps heuristics going.     *)
AgainIfRegular(result) == "regular" \in notifiers /\ result # "DISABLED"

(* Is the regular timer to be scheduled after this result?                  *)
Again(result) == "votequorum" \in notifiers \/ ("regular" \in notifiers /\ result # "DISABLED")

(* The notifiers that are active are called, the one of votequorum first.   *)
(* The regular one of the net model schedules the next execution, unless    *)
(* heuristics were disabled; it does not come to that when a change of the  *)
(* result cannot be reported.                                               *)
Notify(result) ==
    /\ waiting_for_result' = FALSE
    /\ given' = result
    /\ notifiers' = {}
    /\ \/ /\ regular_timer' = IF Again(result) THEN mode = "enabled" ELSE regular_timer
          /\ UNCHANGED interrupted
       \/ /\ "regular" \in notifiers /\ result # "DISABLED"
          /\ interrupted' = TRUE
          /\ UNCHANGED regular_timer

(* qdevice_heuristics_cmd_read_from_pipe, one line                          *)
ReadResult ==
    /\ up /\ result_pipe # <<>>
    /\ result_pipe' = Tail(result_pipe)
    /\ IF Expected(Head(result_pipe)) THEN Notify(Head(result_pipe).result)
       ELSE UNCHANGED <<waiting_for_result, given, notifiers, regular_timer, interrupted>>
    /\ UNCHANGED <<plistVars, controlVars, cmd_in_buffer, worker_execs, last_seq, exec_timer,
                   cmd_pipe, up, expected_reply_seq_number, exec_list, mode, cmd_out, changes, asked>>

(* The device ends: by a signal, a disconnect that is final, or because the *)
(* worker is gone.                                                          *)
DeviceEnds == up /\ DeviceGone /\ UNCHANGED workerVars

WorkerLost == phase = "gone" /\ result_pipe = <<>> /\ DeviceEnds

-----------------------------------------------------------------------------
WorkerStep ==
    /\ \/ PollInput(up) \/ InputClosed(up) \/ ProcessExecList \/ ProcessExec
       \/ Check \/ TimersDone \/ KillallRound \/ WorkerExits
    /\ UNCHANGED deviceVars

ExecTimerExpires == ExecTimeout /\ UNCHANGED deviceVars
KillTimerExpires == KillListTimer /\ UNCHANGED deviceVars

(* Only waitpid sees that a process ended: an end in another phase is as     *)
(* good as one right before the next call.                                  *)
ProcessStep ==
    /\ phase \in {"check", "timers", "killall"}
    /\ \E p \in Pids, status \in {"ok", "bad"} : ProcessExits(p, status)
    /\ UNCHANGED <<controlVars, cmd_in_buffer, worker_execs, last_seq, exec_timer,
                   cmd_pipe, result_pipe, deviceVars>>

Requests ==
    \/ NodeListNotify \/ ExecAfterConnect \/ RegularTimer
    \/ \E conf \in Confs : CmapHeuristicsEvent(conf)

Ended == ~up /\ phase = "gone" /\ UNCHANGED vars

Next ==
    \/ WorkerStep \/ ExecTimerExpires \/ KillTimerExpires \/ ProcessStep
    \/ Requests \/ CmdWrite \/ ReadResult \/ DeviceEnds \/ Ended

(* Both processes are scheduled, the device writes what it has and reads    *)
(* what comes, and a timer that is set expires.  Nothing is assumed of the  *)
(* programs that are run.                                                   *)
Fairness ==
    /\ WF_vars(WorkerStep)
    /\ SF_vars(ExecTimerExpires)
    /\ WF_vars(CmdWrite) /\ WF_vars(ReadResult) /\ WF_vars(WorkerLost)

Spec == Init /\ [][Next]_vars /\ Fairness

-----------------------------------------------------------------------------
TypeOK ==
    /\ WorkerTypeOK
    /\ up \in BOOLEAN /\ waiting_for_result \in BOOLEAN /\ regular_timer \in BOOLEAN
    /\ expected_reply_seq_number \in 0..MaxExecs
    /\ mode \in Modes
    /\ notifiers \subseteq Notifiers
    /\ Len(cmd_out) <= MaxCmdBuffers

(* Processes are counted exactly (CountIsExact), with well-typed data.  An  *)
(* entry freed without counting down would let executions fail for good     *)
(* once the limit is reached.                                               *)
ProcessesAreCounted == TypeOK /\ CountIsExact

(* While heuristics are enabled the next execution is on its way: the timer *)
(* is set, or a result is awaited by a notifier that sets it.               *)
(* Reconfiguration, membership changes and connects may come at any moment  *)
(* of an execution.                                                         *)
RegularHeuristicsGoOn ==
    up /\ Started /\ ~interrupted /\ mode = "enabled" =>
        \/ regular_timer
        \/ waiting_for_result /\ notifiers \cap {"regular", "votequorum"} # {}

(* The abstract view: requests of the device and their answers.             *)
Promise == INSTANCE HeuristicsPromise WITH
    Names   <- UNION {Range(c.list) : c \in Confs},
    request <- expected_reply_seq_number,
    wanted  <- Range(asked),
    passed  <- {s[2] : s \in {x \in succeeded : x[1] = expected_reply_seq_number}},
    answer  <- given

(* The device, the pipes, the worker and its processes together keep the    *)
(* promise of HeuristicsPromise.                                            *)
KeepsPromise == Promise!Spec

(* A result that the device waits for arrives, however long the programs    *)
(* run and whether or not they can be killed.                               *)
ExecIsAnswered ==
    waiting_for_result ~> ~waiting_for_result \/ ~up \/ interrupted

(* A worker whose device is gone ends too.                                  *)
WorkerFollowsDevice == ~up ~> phase = "gone"
=============================================================================
