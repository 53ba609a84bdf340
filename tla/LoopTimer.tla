------------------------------ MODULE LoopTimer ------------------------------
(***************************************************************************)
(* The timers of shuio/linux/shu_loop.cpp and shuio/win32/shu_loop.cpp:    *)
(* structs local_timer and win32_timer, add_timer() and cancel_timer() of  *)
(* the loop, and what wakes run() for the nearest timer.                   *)
(*                                                                         *)
(* A timer is known by its id <<expire, id>>, ordered as operator <=> does.*)
(* The heap is the set of the ids it holds: pop_heap takes the least.  Time*)
(* is a counter; add_timer() reads it and takes a number before the        *)
(* closure that adds the timer is dispatched, so that another thread's     *)
(* timer can be late, and cancelled before it is there.                    *)
(*                                                                         *)
(* The two platforms share the heap and the slots.  On Linux the wait of   *)
(* run() has a timeout.  On Windows it has none: a waitable timer, set for *)
(* the first of the heap whenever the heap may have changed, wakes a thread*)
(* that posts the packet which lets run() look at the heap.                *)
(***************************************************************************)
EXTENDS Naturals, Sequences, FiniteSetsExt

CONSTANTS
    Workers,           \* threads other than the loop's
    Loop,              \* the loop thread
    Delays,            \* the times user code asks for
    MaxWait,           \* max_expired_time
    MaxTimers,         \* bound: calls of add_timer()
    MaxTime,           \* bound: the clock, but for a timer that is set later
    NoId

ASSUME TimerAssumption ==
    /\ Loop \notin Workers
    /\ NoId \notin Nat \X Nat
    /\ Delays \subseteq Nat
    /\ MaxWait \in Nat \ {0}
    /\ MaxTimers \in Nat
    /\ MaxTime \in Nat

VARIABLES
    platform,          \* "linux" or "win32", for good
    now,               \* steady_clock
    timerseq,          \* the next number for an id
    issued,            \* history: [id, by, delay] of every add_timer(), in order
    cancelled,         \* history: ids given to cancel_timer()
    adding,            \* the id a worker has computed and not yet posted
    mail,              \* the closures other threads posted
    batch,             \* those on_tasks() is running
    timers,            \* the heap
    cancel_slots,
    runs,              \* the local of timer_call(): what is left of it
    called,            \* the local now of timer_call()
    dead,              \* history: ids cancelled while in the heap
    fired,             \* history: ids of the timers run
    deadline,          \* when the wait of run() gives up: {} for INFINITE
    due,               \* when win32_timer_handle is signalled next, if it is set:
                       \* a past time until the timer thread sees it
    packet,            \* a tag_timer is at the port
    hastimer,          \* the local of run()
    pc

userVars  == <<timerseq, issued, cancelled, adding>>
heapVars  == <<timers, cancel_slots, runs, called, dead, fired>>
awakeVars == <<deadline, packet, hastimer>>
vars == <<platform, now, userVars, mail, batch, heapVars, due, awakeVars, pc>>

(* timer_get_seq() never gives zero.                                        *)
Ids == Nat \X (Nat \ {0})

(* operator <=> of sloop_timer_t_id *)
Before(a, b) == a[1] < b[1] \/ (a[1] = b[1] /\ a[2] < b[2])

Closures == [op : {"add", "erase"}, id : Ids]

TypeOK ==
    /\ platform \in {"linux", "win32"}
    /\ {now, timerseq, called} \subseteq Nat
    /\ issued \in Seq([id : Ids, by : Workers \union {Loop}, delay : Delays])
    /\ {cancelled, timers, cancel_slots, runs, dead, fired} \subseteq SUBSET Ids
    /\ adding \in [Workers -> Ids \union {NoId}]
    /\ {mail, batch} \subseteq Seq(Closures)
    /\ deadline \subseteq Nat
    /\ due \subseteq Nat
    /\ {packet, hastimer} \subseteq BOOLEAN
    /\ pc \in {"start", "check", "wait", "io", "tasks", "run", "cb", "stopped"}

Init ==
    /\ platform \in {"linux", "win32"}
    /\ now = 0 /\ timerseq = 0 /\ called = 0
    /\ issued = <<>>
    /\ cancelled = {} /\ dead = {} /\ fired = {}
    /\ adding = [w \in Workers |-> NoId]
    /\ mail = <<>> /\ batch = <<>>
    /\ timers = {} /\ cancel_slots = {} /\ runs = {}
    /\ deadline = {} /\ due = {}
    /\ packet = FALSE /\ hastimer = FALSE
    /\ pc = "start"

(* Past MaxTime the clock goes on for what the loop still sleeps for.       *)
Tick ==
    /\ \/ now < MaxTime
       \/ ~packet /\ timers # {} /\ \E t \in due : now < t
    /\ now' = now + 1
    /\ UNCHANGED <<platform, userVars, mail, batch, heapVars, due,
                   awakeVars, pc>>

-----------------------------------------------------------------------------
(* The waitable timer of Windows.                                           *)

(* _set_timer() at the time base, when the heap is heap.  It counts the time*)
(* to wait from base and Windows from now, a time that is past being none at*)
(* all.  There is no handle but in run().                                   *)
SetTimer(base, heap, first) ==
    LET expire == Min({id[1] : id \in heap} \union {base + MaxWait})
        diff   == IF base < expire THEN expire - base ELSE 0
    IN  IF /\ platform = "win32"
           /\ first \/ (pc # "start" /\ diff < MaxWait)
        THEN due' = {now + diff}
        ELSE UNCHANGED due

(* The handle is signalled, now and every MaxWait, and the timer thread sees*)
(* it.  WinLoop has the rest of that thread's life.                         *)
PostTick ==
    /\ \E t \in due : now >= t /\ due' = {t + MaxWait}
    /\ packet' = TRUE
    /\ UNCHANGED <<platform, now, userVars, mail, batch, heapVars, deadline,
                   hastimer, pc>>

(* start_timer() *)
StartTimer ==
    /\ platform = "win32"
    /\ pc = "start"
    /\ SetTimer(now, timers, TRUE)
    /\ pc' = "check"
    /\ UNCHANGED <<platform, now, userVars, mail, batch, heapVars, awakeVars>>

-----------------------------------------------------------------------------
(* add_timer() up to dispatch(): the clock is read, and timer_get_seq()     *)
(* takes the next number.                                                   *)

(* A faulty timer_get_seq(): zero is not skipped.                           *)
TimerSeqFromZero == timerseq

TimerSeq == IF timerseq = 0 THEN 1 ELSE timerseq

NewId(d) == <<now + d, TimerSeq>>

Issue(by, d) ==
    /\ Len(issued) < MaxTimers
    /\ now + d <= MaxTime
    /\ timerseq' = TimerSeq + 1
    /\ issued' = Append(issued, [id |-> NewId(d), by |-> by, delay |-> d])

Issued == {issued[i].id : i \in DOMAIN issued}

(* Ids add_timer() has returned.                                            *)
known == Issued \ {adding[w] : w \in Workers}

(* The clock as add_timer() read it, which the closure keeps.               *)
AddedAt(id) ==
    CHOOSE t \in 0 .. id[1] :
        \E i \in DOMAIN issued : issued[i].id = id /\ issued[i].delay + t = id[1]

Post(op, id) == mail' = Append(mail, [op |-> op, id |-> id])

WorkerNewTimer(w) ==
    /\ adding[w] = NoId
    /\ \E d \in Delays :
          /\ Issue(w, d)
          /\ adding' = [adding EXCEPT ![w] = NewId(d)]
    /\ UNCHANGED <<platform, now, cancelled, mail, batch, heapVars,
                   due, awakeVars, pc>>

WorkerPost(w) ==
    /\ adding[w] # NoId
    /\ Post("add", adding[w])
    /\ adding' = [adding EXCEPT ![w] = NoId]
    /\ UNCHANGED <<platform, now, timerseq, issued, cancelled, batch, heapVars,
                   due, awakeVars, pc>>

WorkerCancel(w) ==
    /\ adding[w] = NoId
    /\ \E id \in known \ cancelled :
          /\ cancelled' = cancelled \union {id}
          /\ Post("erase", id)
    /\ UNCHANGED <<platform, now, timerseq, issued, adding, batch,
                   heapVars, due, awakeVars, pc>>

-----------------------------------------------------------------------------
(* timer_add() and timer_erase().  On Linux wakeup() follows, which WakeIo  *)
(* covers; on Windows the waitable timer is set.                            *)

TimerAdd(id, base) ==
    /\ timers' = timers \union {id}
    /\ SetTimer(base, timers', FALSE)
    /\ UNCHANGED <<cancel_slots, dead>>

TimerErase(id) ==
    /\ cancel_slots' = cancel_slots \union {id}
    /\ dead' = IF id \in timers THEN dead \union {id} ELSE dead
    /\ UNCHANGED <<timers, due>>

(* User code on the loop thread: before run(), in the callbacks of sockets, *)
(* in posted tasks, in the callback of a timer.  dispatch() runs the closure*)
(* at once.                                                                 *)
InUser == pc \in {"start", "io", "tasks", "cb"}

UserAddTimer ==
    /\ InUser
    /\ \E d \in Delays :
          /\ Issue(Loop, d)
          /\ TimerAdd(NewId(d), now)
    /\ UNCHANGED <<platform, now, cancelled, adding, mail, batch, runs, called,
                   fired, awakeVars, pc>>

UserCancelTimer ==
    /\ InUser
    /\ \E id \in known \ cancelled :
          /\ TimerErase(id)
          /\ cancelled' = cancelled \union {id}
    /\ UNCHANGED <<platform, now, timerseq, issued, adding, mail, batch,
                   runs, called, fired, awakeVars, pc>>

-----------------------------------------------------------------------------
(* The loop.                                                                *)

(* timer_wait_leatest().  A faulty one does not look at the timers.         *)
DeadlineBlind == {now + MaxWait + MaxTime}

Deadline == {Min({id[1] : id \in timers} \union {now + MaxWait})}

StartWait ==
    /\ pc = "check" \/ (pc = "start" /\ platform = "linux")
    /\ deadline' = IF platform = "linux" THEN Deadline ELSE {}
    /\ pc' = "wait"
    /\ UNCHANGED <<platform, now, userVars, mail, batch, heapVars, due,
                   packet, hastimer>>

(* The completions there are, the eventfd or the packets of the loop among  *)
(* them, are taken.                                                         *)
TakeCompletions ==
    /\ pc = "wait"
    /\ packet' = FALSE
    /\ hastimer' = packet
    /\ deadline' = {}
    /\ pc' = "io"
    /\ UNCHANGED <<platform, now, userVars, mail, batch, heapVars, due>>

(* A post wakes the loop (NoLostWakeup of LinuxLoop and WinLoop), as a tick *)
(* and the timeout do; and so does the completion of some socket, at any    *)
(* time.                                                                    *)
Wake ==
    /\ mail # <<>> \/ packet \/ \E t \in deadline : now >= t
    /\ TakeCompletions

WakeIo == TakeCompletions

SwapTasks ==
    /\ pc = "io"
    /\ batch' = mail
    /\ mail' = <<>>
    /\ pc' = "tasks"
    /\ UNCHANGED <<platform, now, userVars, heapVars, due, awakeVars>>

RunTask ==
    /\ pc = "tasks"
    /\ batch # <<>>
    /\ batch' = Tail(batch)
    /\ LET t == Head(batch)
       IN  \/ t.op = "add" /\ TimerAdd(t.id, AddedAt(t.id))
           \/ t.op = "erase" /\ TimerErase(t.id)
    /\ UNCHANGED <<platform, now, userVars, mail, runs, called, fired,
                   awakeVars, pc>>

(* timer_call(): what is due leaves the heap, and runs unless a slot cancels*)
(* it.  A faulty one leaves it there.                                       *)
Due == {id \in timers : id[1] <= now}

LeftAll == timers
Left == timers \ Due

CollectDue ==
    /\ pc = "tasks"
    /\ batch = <<>>
    /\ platform = "linux" \/ hastimer
    /\ called' = now
    /\ runs' = Due \ cancel_slots
    /\ cancel_slots' = cancel_slots \ Due
    /\ timers' = Left
    /\ hastimer' = FALSE
    /\ pc' = "run"
    /\ UNCHANGED <<platform, now, userVars, mail, batch, dead, fired, due,
                   deadline, packet>>

(* On Windows nobody looks at the heap without a tick.                      *)
NoTick ==
    /\ pc = "tasks"
    /\ batch = <<>>
    /\ platform = "win32" /\ ~hastimer
    /\ pc' = "check"
    /\ UNCHANGED <<platform, now, userVars, mail, batch, heapVars, due,
                   awakeVars>>

(* The callbacks run in the order of the ids; in none, if it is faulty.     *)
InNoOrder(id) == TRUE
IsNext(id) == \A other \in runs \ {id} : Before(id, other)

RunTimer ==
    /\ pc = "run"
    /\ \E id \in runs :
          /\ IsNext(id)
          /\ fired' = fired \union {id}
          /\ runs' = runs \ {id}
    /\ pc' = "cb"
    /\ UNCHANGED <<platform, now, userVars, mail, batch, timers, cancel_slots,
                   called, dead, due, awakeVars>>

TimerReturn ==
    /\ pc = "cb"
    /\ pc' = "run"
    /\ UNCHANGED <<platform, now, userVars, mail, batch, heapVars, due,
                   awakeVars>>

(* The slots before the first timer of the heap go, and all of them when it *)
(* is empty.  A faulty clean-up drops every one.                            *)
EverySlot(s) == TRUE
Redundant(s) == \A id \in timers : Before(s, id)

(* The end of timer_call(), which on Windows sets the timer for what is left*)
(* as of the time it was called.                                            *)
DropSlots ==
    /\ pc = "run"
    /\ runs = {}
    /\ SetTimer(called, timers, FALSE)
    /\ cancel_slots' = {s \in cancel_slots : ~Redundant(s)}
    /\ called' = 0
    /\ pc' = "check"
    /\ UNCHANGED <<platform, now, userVars, mail, batch, timers, runs, dead,
                   fired, awakeVars>>

(* The loop stopped: stop_timer() ends the timer thread too.                *)
StopTimer ==
    /\ pc = "check"
    /\ timers' = {}
    /\ cancel_slots' = {}
    /\ due' = {}
    /\ pc' = "stopped"
    /\ UNCHANGED <<platform, now, userVars, mail, batch, runs, called, dead,
                   fired, awakeVars>>

LoopStep ==
    \/ StartTimer \/ StartWait \/ Wake \/ SwapTasks \/ RunTask
    \/ CollectDue \/ NoTick \/ RunTimer \/ TimerReturn \/ DropSlots

UserStep == UserAddTimer \/ UserCancelTimer

Stopped == pc = "stopped" /\ UNCHANGED vars

Next ==
    \/ /\ pc # "stopped"
       /\ \/ Tick \/ PostTick
          \/ \E w \in Workers : WorkerNewTimer(w) \/ WorkerPost(w) \/ WorkerCancel(w)
          \/ UserStep
          \/ LoopStep \/ WakeIo \/ StopTimer
    \/ Stopped

Spec == Init /\ [][Next]_vars

(* Time passes, threads and callbacks make progress.                        *)
Fairness ==
    /\ WF_vars(Tick) /\ WF_vars(PostTick)
    /\ WF_vars(LoopStep)
    /\ \A w \in Workers : WF_vars(WorkerPost(w))

FairSpec == Spec /\ Fairness

-----------------------------------------------------------------------------
(* Properties.                                                              *)

(* A timer cancelled while it is in the heap never runs: its slot outlives  *)
(* every clean-up until the heap gives the timer up.                        *)
CancelledStaysCancelled == dead \intersect (fired \union runs) = {}

(* A timer runs once, being nowhere to run again when it does, and not      *)
(* before its time.                                                         *)
FiresOnceWhenDue ==
    /\ fired \intersect (timers \union runs) = {}
    /\ \A id \in fired : id[1] <= now

(* Timers that one thread adds with the same delay run in the order they    *)
(* were added, across batches and threads' queues.                          *)
SameDelayInOrder ==
    \A i, j \in DOMAIN issued :
        /\ i < j
        /\ issued[i].by = issued[j].by
        /\ issued[i].delay = issued[j].delay
        /\ issued[j].id \in fired
        => issued[i].id \in fired \union cancelled

(* A loop that blocks is woken for its timers with no help from others: on  *)
(* Linux no later than the first of the heap is due, and after              *)
(* max_expired_time at the latest; on Windows, whose timer may be set from a*)
(* time long past, after max_expired_time at the latest.                    *)
AwaitsTimers ==
    pc = "wait" =>
        \E t \in IF platform = "linux" THEN deadline ELSE due :
            /\ t <= now + MaxWait
            /\ platform = "linux" => \A id \in timers : t <= id[1]

(* Every timer runs unless it is cancelled or the loop stops, with no help  *)
(* from other events: the wait of the loop ends in time.                    *)
TimerRuns ==
    \A i \in 1 .. MaxTimers :
        i <= Len(issued) ~>
            \/ i <= Len(issued) /\ issued[i].id \in fired \union cancelled
            \/ pc = "stopped"

(* The comment of line 67: the slots that are dropped are redundant, such   *)
(* as those of timers that have run.                                        *)
Pending == {mail[i].id : i \in {j \in DOMAIN mail : mail[j].op = "add"}}

DroppedSlotsAreRedundant ==
    [][pc' = "check" => (cancel_slots \ cancel_slots') \intersect Pending = {}]_vars
=============================================================================
