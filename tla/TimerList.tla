------------------------------- MODULE TimerList -------------------------------
(***************************************************************************)
(* The timers of both daemons (qdevices/timer-list.c): a binary heap of    *)
(* entries ordered by their expire time, a free list, and the loop that    *)
(* calls the callbacks of expired entries.  Times are readings of a clock  *)
(* that wraps around.  A callback may itself add, delete and reschedule    *)
(* timers, its own one included, before it returns.                        *)
(*                                                                         *)
(* `due' is not in the code: it is the true time left for each entry, from *)
(* which the properties tell whether the wrapped clock is read correctly.  *)
(***************************************************************************)
EXTENDS Integers, Sequences, FiniteSets, Functions

CONSTANTS
    Size,          \* memory for this many entries: 1 .. Size
    Intervals,     \* the intervals timers are set to
    Width,         \* the clock counts modulo this, 2^32 in the code
    MaxLag,        \* bound: how late the loop and how slow a callback may be
    MaxWork,       \* bound: timers at the start and thrice the users' operations
    MaxTicks       \* bound: the time that passes

Half    == (Width - 1) \div 2
Entries == 1 .. Size
NoEntry == 0
Start   == Width - 1   \* a moment before the clock wraps

(* Two entries are compared by the clock reading at which one of them was   *)
(* set, which may be a whole interval ago.                                  *)
ASSUME TimesAssumption ==
    /\ Size \in Nat \ {0} /\ MaxLag \in Nat /\ MaxWork \in Nat
    /\ MaxTicks \in 0 .. Width - 1
    /\ Intervals \subseteq Nat \ {0}
    /\ \A i, j \in Intervals : i + j + MaxLag <= Half

VARIABLES
    clock,      \* PR_IntervalNow()
    heap,       \* tlist->entries, up to tlist->size
    ent,        \* epoch, interval, expire_time and is_active of each entry
    freeList,   \* tlist->free_list
    allocated,  \* tlist->allocated
    phase,      \* "idle", "expiring" (in timer_list_expire) or "callback"
    now,        \* the clock reading timer_list_expire works with
    running,    \* the entry whose callback runs
    reused,     \* that callback has freed its own entry and got it back
    held,       \* the entries the users of the list regard as scheduled
    due,        \* the true time left of each entry in the heap
    ops         \* how many operations the users have left

listVars == <<heap, ent, freeList, allocated>>
loopVars == <<phase, now, running, reused>>
timerVars == <<clock, listVars, loopVars, held, due, ops>>

InHeap == Range(heap)
Elapsed == (clock - now) % Width

-----------------------------------------------------------------------------
(* Order and heap                                                          *)

(* timer_list_entry_time_to_expire; what looks further away than half of    *)
(* the clock's range has expired.                                           *)
TimeToExpire(expire, current) ==
    LET diff == (expire - current) % Width
    IN  IF diff > Half THEN 0 ELSE diff

(* timer_list_entry_cmp at the epoch of entry r.                            *)
Before(en, a, b, r) ==
    TimeToExpire(en[a].expire, en[r].epoch) < TimeToExpire(en[b].expire, en[r].epoch)

Swap(h, i, j) == [h EXCEPT ![i] = h[j], ![j] = h[i]]

(* timer_list_heap_sift_up and timer_list_heap_sift_down from position i.   *)
SiftUp(h, en, i) ==
    LET up[g \in Seq(Entries), k \in 1 .. Size] ==
            IF k > 1 /\ Before(en, g[k], g[k \div 2], g[k])
            THEN up[Swap(g, k, k \div 2), k \div 2]
            ELSE g
    IN  up[h, i]

SiftDown(h, en, i) ==
    LET Smaller(g, child, best) ==
            IF child <= Len(g) /\ Before(en, g[child], g[best], g[best]) THEN child ELSE best
        down[g \in Seq(Entries), k \in 1 .. Size] ==
            LET smallest == Smaller(g, 2 * k + 1, Smaller(g, 2 * k, k))
            IN  IF smallest = k THEN g ELSE down[Swap(g, k, smallest), smallest]
    IN  down[h, i]

(* The last entry takes the place of entry e, which is at e's heap_pos.     *)
Replaced(h, e) ==
    [j \in 1 .. Len(h) - 1 |-> IF h[j] = e THEN h[Len(h)] ELSE h[j]]
HeapPos(h, e) == CHOOSE i \in 1 .. Len(h) : h[i] = e

(* A variant that only ever moves the replacement down.                     *)
DeleteDownOnly(h, en, e) ==
    IF Before(en, e, h[Len(h)], e) THEN SiftDown(Replaced(h, e), en, HeapPos(h, e))
    ELSE Replaced(h, e)

(* timer_list_heap_delete.                                                  *)
HeapDelete(h, en, e) ==
    LET last == h[Len(h)]
    IN  IF Before(en, last, e, e) THEN SiftUp(Replaced(h, e), en, HeapPos(h, e))
        ELSE IF Before(en, e, last, e) THEN SiftDown(Replaced(h, e), en, HeapPos(h, e))
        ELSE Replaced(h, e)

(* timer_list_insert_into_list, once there is room.                         *)
HeapInsert(h, en, e) == SiftUp(Append(h, e), en, Len(h) + 1)

-----------------------------------------------------------------------------
(* Operations of the users                                                 *)

(* A user's operation: before the loop, or from a callback.                 *)
UserOp == phase # "expiring" /\ ops > 0 /\ ops' = ops - 1

Timed(epoch, i) ==
    [epoch |-> epoch, interval |-> i, expire |-> (epoch + i) % Width, active |-> TRUE]

(* The entry a new timer gets: the first of the free list or a new one.     *)
NewEntry ==
    IF freeList # <<>> THEN Head(freeList)
    ELSE CHOOSE e \in Entries : e \notin InHeap

FreeAfterNew == IF freeList # <<>> THEN Tail(freeList) ELSE <<>>

(* The room in the heap's array.                                            *)
Grown(size) == IF size > allocated THEN (allocated + 1) * 2 ELSE allocated

TimerListAdd(i) ==
    LET e  == NewEntry
        en == [ent EXCEPT ![e] = Timed(clock, i)]
    IN  /\ UserOp
        /\ Len(heap) + Len(freeList) < Size \/ freeList # <<>>
        /\ ent' = en
        /\ freeList' = FreeAfterNew
        /\ allocated' = Grown(Len(heap) + 1)
        /\ heap' = HeapInsert(heap, en, e)
        /\ held' = held \cup {e}
        /\ due' = [due EXCEPT ![e] = i]
        /\ reused' = (reused \/ e = running)
        /\ UNCHANGED <<clock, phase, now, running>>

(* The heap's array cannot grow: the entry goes to the free list as it is.  *)
TimerListAddFails(i) ==
    LET e == NewEntry
    IN  /\ UserOp
        /\ Len(heap) + Len(freeList) < Size \/ freeList # <<>>
        /\ Len(heap) + 1 > allocated
        /\ ent' = [ent EXCEPT ![e] = Timed(clock, i)]
        /\ freeList' = <<e>> \o FreeAfterNew
        /\ UNCHANGED <<clock, heap, allocated, loopVars, held, due>>

(* timer_list_entry_delete: an entry that is not active is left alone.      *)
EntryDelete(e) ==
    IF ent[e].active
    THEN /\ heap' = HeapDelete(heap, ent, e)
         /\ freeList' = <<e>> \o freeList
         /\ ent' = [ent EXCEPT ![e].active = FALSE]
         /\ due' = [due EXCEPT ![e] = 0]
    ELSE UNCHANGED <<heap, freeList, ent, due>>

(* Entry e is taken out and put back with another epoch and interval.       *)
SetAnew(e, epoch, i) ==
    LET en == [ent EXCEPT ![e] = Timed(epoch, i)]
    IN  /\ heap' = HeapInsert(HeapDelete(heap, ent, e), en, e)
        /\ ent' = en
        /\ due' = [due EXCEPT ![e] = i - ((clock - epoch) % Width)]
        /\ UNCHANGED freeList

TimerListEntryDelete(e) ==
    /\ UserOp
    /\ e \in held
    /\ EntryDelete(e)
    /\ held' = held \ {e}
    /\ UNCHANGED <<clock, allocated, loopVars>>

TimerListEntryReschedule(e) ==
    /\ UserOp
    /\ e \in held /\ ent[e].active
    /\ SetAnew(e, clock, ent[e].interval)
    /\ UNCHANGED <<clock, allocated, loopVars, held>>

TimerListEntrySetInterval(e, i) ==
    /\ UserOp
    /\ e \in held /\ ent[e].active
    /\ SetAnew(e, clock, i)
    /\ UNCHANGED <<clock, allocated, loopVars, held>>

-----------------------------------------------------------------------------
(* The loop                                                                *)

TimerListExpire ==
    /\ phase = "idle"
    /\ phase' = "expiring"
    /\ now' = clock
    /\ UNCHANGED <<clock, listVars, running, reused, held, due, ops>>

(* A variant that calls callbacks a tick too early.                         *)
RootExpiresSoon == heap # <<>> /\ TimeToExpire(ent[heap[1]].expire, now) <= 1

RootExpired == heap # <<>> /\ TimeToExpire(ent[heap[1]].expire, now) = 0

CallCallback ==
    /\ phase = "expiring"
    /\ RootExpired
    /\ phase' = "callback"
    /\ running' = heap[1]
    /\ UNCHANGED <<clock, listVars, now, reused, held, due, ops>>

(* The callback has returned 0.  Its user does so only when the timer is    *)
(* done, not when it has scheduled it again (qnetd_algo_lms_timer_callback). *)
CallbackReturnsZero ==
    /\ phase = "callback"
    /\ ~reused
    /\ EntryDelete(running)
    /\ held' = held \ {running}
    /\ phase' = "expiring"
    /\ running' = NoEntry
    /\ UNCHANGED <<clock, allocated, now, reused, ops>>

(* A variant that schedules again whatever has become of the entry.         *)
ReturnsNonzeroUnchecked ==
    /\ phase = "callback"
    /\ IF running \in InHeap THEN SetAnew(running, now, ent[running].interval)
       ELSE LET en == [ent EXCEPT ![running] = Timed(now, @.interval)]
            IN  /\ heap' = HeapInsert(heap, en, running)
                /\ ent' = en
                /\ UNCHANGED <<freeList, due>>
    /\ phase' = "expiring"
    /\ running' = NoEntry
    /\ reused' = FALSE
    /\ UNCHANGED <<clock, allocated, now, held, ops>>

(* The callback has returned something else: an active entry is set anew.   *)
CallbackReturnsNonzero ==
    /\ phase = "callback"
    /\ IF ent[running].active THEN SetAnew(running, now, ent[running].interval)
       ELSE UNCHANGED <<heap, freeList, ent, due>>
    /\ phase' = "expiring"
    /\ running' = NoEntry
    /\ reused' = FALSE
    /\ UNCHANGED <<clock, allocated, now, held, ops>>

ExpireReturns ==
    /\ phase = "expiring"
    /\ ~RootExpired
    /\ phase' = "idle"
    /\ UNCHANGED <<clock, listVars, now, running, reused, held, due, ops>>

(* Time passes; the loop is not later than MaxLag.                          *)
Tick ==
    /\ \A e \in InHeap : due[e] > -MaxLag
    /\ phase # "idle" => Elapsed < MaxLag
    /\ (clock - Start) % Width < MaxTicks
    /\ clock' = (clock + 1) % Width
    /\ due' = [e \in Entries |-> IF e \in InHeap THEN due[e] - 1 ELSE 0]
    /\ now' = IF phase = "idle" THEN clock' ELSE now
    /\ UNCHANGED <<listVars, phase, running, reused, held, ops>>

-----------------------------------------------------------------------------
(* Up to Size timers have been set one after the other, none earlier than   *)
(* its parent in the heap.                                                  *)
TimersInit ==
    /\ clock = Start
    /\ \E k \in 0 .. Size : \E f \in [1 .. k -> Intervals] :
        /\ \A i \in 2 .. k : f[i \div 2] <= f[i]
        /\ heap = [i \in 1 .. k |-> i]
        /\ ent = [e \in Entries |->
                     IF e <= k THEN Timed(clock, f[e])
                     ELSE [epoch |-> 0, interval |-> 0, expire |-> 0, active |-> FALSE]]
        /\ due = [e \in Entries |-> IF e <= k THEN f[e] ELSE 0]
        /\ held = 1 .. k
        /\ ops = (MaxWork - k) \div 3
        /\ allocated = IF k = 0 THEN 0 ELSE IF k <= 2 THEN 2 ELSE IF k <= 6 THEN 6 ELSE 14
    /\ freeList = <<>>
    /\ phase = "idle"
    /\ now = clock
    /\ running = NoEntry
    /\ reused = FALSE

TimersNext ==
    \/ \E i \in Intervals : TimerListAdd(i) \/ TimerListAddFails(i)
    \/ \E e \in Entries : TimerListEntryDelete(e) \/ TimerListEntryReschedule(e)
    \/ \E e \in Entries, i \in Intervals : TimerListEntrySetInterval(e, i)
    \/ TimerListExpire
    \/ CallCallback
    \/ CallbackReturnsZero
    \/ CallbackReturnsNonzero
    \/ ExpireReturns
    \/ Tick

-----------------------------------------------------------------------------
TimersTypeOK ==
    /\ clock \in 0 .. Width - 1 /\ now \in 0 .. Width - 1
    /\ heap \in Seq(Entries) /\ freeList \in Seq(Entries)
    /\ \A e \in InHeap : ent[e] = Timed(ent[e].epoch, ent[e].interval)
    /\ phase \in {"idle", "expiring", "callback"}
    /\ (phase = "callback") = (running \in Entries)
    /\ held \subseteq Entries
    /\ Len(heap) <= allocated

(***************************************************************************)
(* The heap is ordered by true time, so that the entry looked at by the    *)
(* loop and by timer_list_time_to_expire is the earliest one, although     *)
(* entries are compared by clock readings of different moments; and its    *)
(* data are what they should be.                                           *)
(***************************************************************************)
HeapOrderedByTime ==
    /\ TimersTypeOK
    /\ \A i \in 2 .. Len(heap) : due[heap[i \div 2]] <= due[heap[i]]

(***************************************************************************)
(* The users' view: exactly the timers they regard as scheduled are in the *)
(* heap, each once, and no entry is both there and on the free list,       *)
(* whatever callbacks do with their own entries.                           *)
(***************************************************************************)
HeldTimersAreScheduled ==
    /\ InHeap = held
    /\ Cardinality(InHeap) = Len(heap)
    /\ InHeap \cap Range(freeList) = {}
    /\ Cardinality(Range(freeList)) = Len(freeList)

(***************************************************************************)
(* A callback is called only for a timer that had expired when             *)
(* timer_list_expire was called, so neither early nor, however it          *)
(* reschedules itself, again and again in one call; and timer_list_expire  *)
(* does not return before all of those have been served.                   *)
(***************************************************************************)
FiresInTime ==
    [][/\ phase = "expiring" /\ phase' = "callback" => due[running'] + Elapsed <= 0
       /\ phase = "expiring" /\ phase' = "idle" => \A e \in InHeap : due[e] + Elapsed > 0]_timerVars
=============================================================================
