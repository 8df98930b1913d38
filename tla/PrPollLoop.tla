------------------------------ MODULE PrPollLoop ------------------------------
(***************************************************************************)
(* The poll loop of both daemons: pr-poll-loop.c with pr-poll-array.c.     *)
(*                                                                         *)
(* pr_poll_loop_exec calls the pre-poll callbacks, asks every entry of the *)
(* list which events it wants, polls, calls the callbacks of what is       *)
(* ready, and expires timers.  Every callback is a step of its own, so the *)
(* other ends of the descriptors, and signals, act between two callbacks.  *)
(* What a callback does is left to the daemon: the operators below take    *)
(* its result, and the daemon's module conjoins its effect.                *)
(*                                                                         *)
(* An entry of the list is allocated memory, named here by its descriptor. *)
(* The poll array, and the walk over the list, hold pointers to entries    *)
(* and never look whether they were freed since, which `freed' remembers:  *)
(* a descriptor that is deleted and added again has another entry.         *)
(***************************************************************************)
EXTENDS Integers, Sequences, FiniteSets, SequencesExt

CONSTANT
    NoEntry   \* NULL

VARIABLES
    fd_list,     \* poll_loop->fd_list
    freed,       \* the entries freed by callbacks of this round
    poll_array,  \* poll_loop->poll_array: what is polled, with the entry of each
    allocated,   \* its allocated size
    phase,       \* what pr_poll_loop_exec is doing, "out" between two calls
    cursor,      \* in phase "fill": the entry whose turn it is
    due,         \* in phase "dispatch": the callbacks still to be called
    result       \* what pr_poll_loop_exec returned last

listVars    == <<fd_list, freed>>
controlVars == <<poll_array, allocated, phase, cursor, due, result>>
loopVars    == <<listVars, controlVars>>

Phases == {"out", "pre", "fill", "poll", "dispatch", "timers"}
Stages == {"read", "write", "err"}
Events == {"in", "out", "pri"}

-----------------------------------------------------------------------------
(* The list of descriptors                                                 *)

Registered == Range(fd_list)

(* pr_poll_loop_add_fd_int: refuses a descriptor that it has                *)
(* (pr_poll_loop_find_by_fd), appends else.                                 *)
AddFd(fd) ==
    /\ fd \notin Registered
    /\ fd_list' = Append(fd_list, fd)
    /\ UNCHANGED freed

Freed(fds) == freed' = IF phase = "dispatch" THEN freed \cup fds ELSE freed

(* TAILQ_REMOVE                                                             *)
Without(list, x) == RemoveAt(list, CHOOSE i \in DOMAIN list : list[i] = x)

(* pr_poll_loop_del_fd_int: the entry is freed at once.                     *)
DelFd(fd) ==
    /\ fd \in Registered
    /\ fd_list' = Without(fd_list, fd)
    /\ Freed({fd})

(* del_fd of one descriptor and add_fd of another in the same callback.     *)
ReplaceFd(old, new) ==
    /\ old \in Registered
    /\ fd_list' = Append(Without(fd_list, old), new)
    /\ Freed({old})

-----------------------------------------------------------------------------
(* The poll array                                                          *)

(* pr_poll_array_add: grows by doubling.                                    *)
GrownFor(n) == IF n > allocated THEN allocated * 2 + 1 ELSE allocated

(* pr_poll_array_gc: shrinks an array of which little is used.              *)
CollectedSize(n) == IF allocated > n * 3 + 1 THEN n * 2 + 1 ELSE allocated

-----------------------------------------------------------------------------
(* pr_poll_loop_exec                                                       *)

LoopInit ==
    /\ freed = {}
    /\ poll_array = <<>>
    /\ allocated = 0
    /\ phase = "out"
    /\ cursor = NoEntry
    /\ due = {}
    /\ result = 0

(* pr_poll_array_clean at the start of the next call, done at the end of    *)
(* this one: nothing looks at the array in between.                         *)
Return(r) ==
    /\ phase' = "out"
    /\ result' = r
    /\ cursor' = NoEntry
    /\ due' = {}
    /\ poll_array' = <<>>
    /\ UNCHANGED allocated

ExecStart ==
    /\ phase = "out"
    /\ result = 0
    /\ phase' = "pre"
    /\ freed' = {}
    /\ UNCHANGED <<fd_list, poll_array, allocated, cursor, due, result>>

FirstEntry(list) == IF list = <<>> THEN NoEntry ELSE Head(list)

(* The pre-poll callbacks returned 0, or one of them returned -1.           *)
PrePollDone(list) ==
    /\ phase = "pre"
    /\ phase' = "fill"
    /\ cursor' = FirstEntry(list)
    /\ UNCHANGED <<poll_array, allocated, due, result>>

PrePollFailed == phase = "pre" /\ Return(-1)

(* The successor in the list as it is before the callback is called.        *)
NextEntry(e) ==
    LET i == CHOOSE k \in DOMAIN fd_list : fd_list[k] = e
    IN  IF i = Len(fd_list) THEN NoEntry ELSE fd_list[i + 1]

(* One entry of prepare_poll_array.  res is the result of its set_events    *)
(* callback and events what it asked for; without memory the array cannot   *)
(* grow and the loop returns.                                               *)
Fill(res, events) ==
    /\ phase = "fill"
    /\ cursor \in Registered
    /\ IF res = -2 THEN Return(-1)
       ELSE IF res = -1 \/ events = {} THEN
            /\ cursor' = NextEntry(cursor)
            /\ UNCHANGED <<poll_array, allocated, phase, due, result>>
       ELSE /\ cursor' = NextEntry(cursor)
            /\ poll_array' = Append(poll_array, [entry |-> cursor, events |-> events])
            /\ allocated' = GrownFor(Len(poll_array) + 1)
            /\ UNCHANGED <<phase, due, result>>

FillFails ==
    /\ phase = "fill"
    /\ cursor # NoEntry
    /\ Len(poll_array) + 1 > allocated
    /\ Return(-1)

FillEnd ==
    /\ phase = "fill"
    /\ cursor = NoEntry
    /\ phase' = "poll"
    /\ allocated' = CollectedSize(Len(poll_array))
    /\ UNCHANGED <<poll_array, cursor, due, result>>

(* A variant that also calls the error callback after the other two.        *)
CallbacksAlsoErr(flags) == flags

(* The callbacks for what is reported: read and write, or the one for       *)
(* errors when it is neither.                                               *)
CallbacksOf(flags) == {s \in flags : s = "err" => flags \cap {"read", "write"} = {}}

(* The callbacks to be called, out[i] being what PR_Poll reports for the    *)
(* i-th item of the array.                                                  *)
Callbacks(out) ==
    UNION {{[at |-> i, entry |-> poll_array[i].entry, stage |-> s] : s \in CallbacksOf(out[i])} :
             i \in DOMAIN poll_array}

(* They are called in the order of the array, the one for reading before    *)
(* the one for writing, and the one for errors last.                        *)
IsFirst(x) ==
    \A y \in due : \/ x.at < y.at
                   \/ /\ x.at = y.at
                      /\ x.stage = "write" => y.stage # "read"
                      /\ x.stage = "err" => y.stage = "err"

(* PR_Poll returns: something is ready, or the first timer expires.         *)
Poll(out) ==
    /\ phase = "poll"
    /\ due' = Callbacks(out)
    /\ phase' = IF due' = {} THEN "timers" ELSE "dispatch"
    /\ UNCHANGED <<poll_array, allocated, cursor, result>>

PollError == phase = "poll" /\ Return(-3)

(* A callback was called and returned res; any other result than 0 ends.    *)
Called(res) ==
    /\ phase = "dispatch"
    /\ IF res # 0 THEN Return(-1)
       ELSE /\ due' = {x \in due : ~IsFirst(x)}
            /\ phase' = IF due' = {} THEN "timers" ELSE "dispatch"
            /\ UNCHANGED <<poll_array, allocated, cursor, result>>

Expired == phase = "timers" /\ Return(0)

Turn(fd, stage) ==
    /\ phase = "dispatch"
    /\ \E x \in due : IsFirst(x) /\ x.entry = fd /\ x.stage = stage

Asked(fd) ==
    /\ phase = "fill"
    /\ cursor = fd

-----------------------------------------------------------------------------
LoopTypeOK ==
    /\ IsInjective(fd_list)
    /\ allocated \in Nat
    /\ phase \in Phases
    /\ \A i \in DOMAIN poll_array : poll_array[i].events \subseteq Events
    /\ \A x \in due : x.stage \in Stages
    /\ result \in {0, -1, -3}
    /\ Len(poll_array) <= allocated

(* The loop uses no entry that was freed: neither the next one of its walk  *)
(* over the list, nor one whose callback is still to be called, whatever    *)
(* the callbacks before it deleted (pr_poll_loop_exec never looks).         *)
NoFreedEntryIsUsed ==
    /\ phase = "fill" => cursor \in Registered \cup {NoEntry}
    /\ \A x \in due : x.entry \in Registered \ freed
=============================================================================
