-------------------------------- MODULE Timers --------------------------------
(***************************************************************************)
(* The timers of timer.c, for the Linux device drivers MILO is linked      *)
(* with.  add_timer and del_timer keep a circular, doubly linked list      *)
(* sorted by expiry; the timer interrupt (do_timer) unlinks and runs what  *)
(* has expired and then runs the queued tasks.  mod_timer puts its timer   *)
(* in the slots of a timer wheel.  All of them run with interrupts off, so *)
(* each is one step; do_timer is not, since the handlers and tasks it runs *)
(* call the others.                                                        *)
(***************************************************************************)
EXTENDS Naturals

CONSTANTS
    AddTimers,      \* timers used with add_timer and del_timer
    ModTimers,      \* timers used with mod_timer
    Tasks,          \* tq_structs the drivers queue on tq_timer
    Head,           \* timer_head
    NULL,
    TVR_SIZE, TVN_SIZE,     \* sizes of the timer wheel's vectors
    Delays,         \* a driver asks for one of these many ticks from now
    HandlerDelays,  \* the same for a handler or a task
    MaxJiffies      \* bound on the clock

Timers == AddTimers \cup ModTimers
TimesOfDay == 0 .. MaxJiffies

ASSUME TimersAssumption ==
    /\ Head \notin Timers /\ NULL \notin Timers \cup {Head}
    /\ TVR_SIZE \in Nat \ {0} /\ TVN_SIZE \in Nat \ {0}
    /\ MaxJiffies \in Nat
    /\ Delays \subseteq Nat
    /\ HandlerDelays \subseteq Nat \ {0}

VARIABLES
    jiffies,
    next, prev,     \* links of the timers, the list head and the wheel's slots
    expires,        \* expires of the timers and of timer_head
    tq_timer,       \* the task queue
    tick,           \* where the processor is: "idle", "timers" or "tasks"
    running,        \* timer whose function do_timer is calling, or NULL
    taken           \* tasks run_task_queue has taken off and still has to run

links == <<next, prev, expires>>
vars == <<jiffies, next, prev, expires, tq_timer, tick, running, taken>>

-----------------------------------------------------------------------------
(* internal_add_timer: timer_jiffies stays 0, so idx = expires.  The fifth *)
(* vector takes what the fourth does not (up to 2^32).                     *)
Slot(e) ==
    IF e < TVR_SIZE THEN <<1, e>>
    ELSE IF e < TVR_SIZE * TVN_SIZE THEN <<2, (e \div TVR_SIZE) % TVN_SIZE>>
    ELSE IF e < TVR_SIZE * TVN_SIZE^2
         THEN <<3, (e \div (TVR_SIZE * TVN_SIZE)) % TVN_SIZE>>
    ELSE IF e < TVR_SIZE * TVN_SIZE^3
         THEN <<4, (e \div (TVR_SIZE * TVN_SIZE^2)) % TVN_SIZE>>
    ELSE <<5, (e \div (TVR_SIZE * TVN_SIZE^3)) % TVN_SIZE>>

Slots == { Slot(e) : e \in TimesOfDay }

\* timer_head's expiry is ~0: no timer expires later.
Forever == MaxJiffies + 1

Nodes == Timers \cup {Head} \cup Slots

ASSUME SlotsAssumption == Slots \cap (Timers \cup {Head, NULL}) = {}

TypeOK ==
    /\ jiffies \in TimesOfDay
    /\ next \in [Nodes -> Nodes \cup {NULL}]
    /\ prev \in [Nodes -> Nodes \cup {NULL}]
    /\ expires \in [Timers \cup {Head} -> TimesOfDay \cup {Forever}]
    /\ tq_timer \subseteq Tasks /\ taken \subseteq Tasks
    /\ tick \in {"idle", "timers", "tasks"}
    /\ running \in Timers \cup {NULL}

Init ==
    /\ jiffies = 0
    /\ next = [n \in Nodes |-> IF n = Head THEN Head ELSE NULL]
    /\ prev = next
    /\ expires = [n \in Timers \cup {Head} |-> IF n = Head THEN Forever ELSE 0]
    /\ tq_timer = {} /\ taken = {}
    /\ tick = "idle" /\ running = NULL

\* Code of a driver runs: outside an interrupt, in a handler or in a task.
\* In a tick it asks for a later one: do_timer would never end otherwise.
DriverCode == tick = "idle" \/ running # NULL \/ taken # {}
ExpiryTimes ==
    { jiffies + d : d \in IF tick = "idle" THEN Delays ELSE HandlerDelays }
      \cap TimesOfDay

-----------------------------------------------------------------------------
\* The timers only add_timer puts in a list, and those that are pending.
Plain == AddTimers \ ModTimers
Listed == { t \in Plain : next[t] # NULL }

\* Mutant: always in front.
Place_Front(e) == next[Head]

\* The loop of add_timer: p, the first node from p on that does not expire
\* before e.
Place(e) ==
    LET from[p \in Listed \cup {Head}] ==
            IF e > expires[p] THEN from[next[p]] ELSE p
    IN  from[next[Head]]

add_timer(t, e) ==
    /\ DriverCode
    /\ next[t] = NULL
    /\ LET p == Place(e) IN
          /\ next' = [next EXCEPT ![t] = p, ![prev[p]] = t]
          /\ prev' = [prev EXCEPT ![t] = prev[p], ![p] = t]
    /\ expires' = [expires EXCEPT ![t] = e]
    /\ UNCHANGED <<jiffies, tq_timer, tick, running, taken>>

\* Mutant: the timer behind keeps its back link.
Unlink_OneWay(t) ==
    /\ next' = [next EXCEPT ![prev[t]] = next[t], ![t] = NULL]
    /\ prev' = [prev EXCEPT ![t] = NULL]

\* del_timer and do_timer take timer t off its list the same way.
Unlink(t) ==
    /\ next' = [next EXCEPT ![prev[t]] = next[t], ![t] = NULL]
    /\ prev' = [prev EXCEPT ![next[t]] = prev[t], ![t] = NULL]

\* A timer that is not pending is left alone (del_timer returns 0).
del_timer(t) ==
    /\ DriverCode
    /\ next[t] # NULL
    /\ Unlink(t)
    /\ UNCHANGED <<jiffies, expires, tq_timer, tick, running, taken>>

(* mod_timer: detach_timer unlinks the timer if it has a predecessor, and  *)
(* insert_timer pushes it in front of its slot.                            *)
mod_timer(t, e) ==
    /\ DriverCode
    /\ LET slot == Slot(e)
           Detached(f, n, value) ==
               IF prev[t] # NULL /\ n # NULL THEN [f EXCEPT ![n] = value] ELSE f
           next1 == Detached(next, prev[t], next[t])
           prev1 == Detached(prev, next[t], prev[t])
           first == next1[slot]
       IN  /\ next' = [next1 EXCEPT ![t] = first, ![slot] = t]
           /\ prev' = [n \in Nodes |-> IF n = t THEN slot
                                       ELSE IF n = first THEN t ELSE prev1[n]]
    /\ expires' = [expires EXCEPT ![t] = e]
    /\ UNCHANGED <<jiffies, tq_timer, tick, running, taken>>

\* queue_task of <linux/tqueue.h>: a task that is queued stays queued once.
queue_task(k) ==
    /\ DriverCode
    /\ tq_timer' = tq_timer \cup {k}
    /\ UNCHANGED <<jiffies, links, tick, running, taken>>

-----------------------------------------------------------------------------
(* do_timer.                                                               *)
timer_interrupt ==
    /\ tick = "idle"
    /\ jiffies < MaxJiffies
    /\ jiffies' = jiffies + 1
    /\ tick' = "timers"
    /\ UNCHANGED <<links, tq_timer, running, taken>>

Expired(t) == t # Head /\ expires[t] <= jiffies

\* One round of the loop: the first timer is taken off and its function
\* called.
FireFirst ==
    /\ tick = "timers" /\ running = NULL
    /\ Expired(next[Head])
    /\ Unlink(next[Head])
    /\ running' = next[Head]
    /\ UNCHANGED <<jiffies, expires, tq_timer, tick, taken>>

FunctionReturns ==
    /\ running # NULL
    /\ running' = NULL
    /\ UNCHANGED <<jiffies, links, tq_timer, tick, taken>>

\* Mutant: the queue is lost.
TakeTasks_Lost ==
    /\ tick = "timers" /\ running = NULL
    /\ ~Expired(next[Head])
    /\ tick' = "tasks"
    /\ tq_timer' = {}
    /\ UNCHANGED <<jiffies, links, running, taken>>

\* The loop is over; run_task_queue takes the whole queue.
TakeTasks ==
    /\ tick = "timers" /\ running = NULL
    /\ ~Expired(next[Head])
    /\ tick' = "tasks"
    /\ taken' = tq_timer
    /\ tq_timer' = {}
    /\ UNCHANGED <<jiffies, links, running>>

TaskReturns(k) ==
    /\ tick = "tasks" /\ k \in taken
    /\ taken' = taken \ {k}
    /\ UNCHANGED <<jiffies, links, tq_timer, tick, running>>

Return ==
    /\ tick = "tasks" /\ taken = {}
    /\ tick' = "idle"
    /\ UNCHANGED <<jiffies, links, tq_timer, running, taken>>

do_timer ==
    \/ FireFirst \/ FunctionReturns \/ TakeTasks \/ Return
    \/ \E k \in Tasks : TaskReturns(k)

Next ==
    \/ timer_interrupt
    \/ do_timer
    \/ \E t \in AddTimers : del_timer(t) \/ \E e \in ExpiryTimes : add_timer(t, e)
    \/ \E t \in ModTimers, e \in ExpiryTimes : mod_timer(t, e)
    \/ \E k \in Tasks : queue_task(k)

Fairness == WF_vars(timer_interrupt) /\ WF_vars(do_timer)

Spec == Init /\ [][Next]_vars /\ Fairness

-----------------------------------------------------------------------------
\* The list add_timer, del_timer and do_timer share is intact after every
\* call: the links of its members agree in both directions, lead from
\* member to member, never back in time, and mod_timer's slots stay apart.
ListIntact ==
    \A n \in Listed \cup {Head} :
        /\ next[n] \in Listed \cup {Head} /\ prev[next[n]] = n
        /\ prev[n] \in Listed \cup {Head} /\ next[prev[n]] = n
        /\ next[n] # Head => n = Head \/ expires[n] <= expires[next[n]]

Queue == INSTANCE TimerQueue WITH
    Clients <- Plain, Times <- TimesOfDay, None <- NULL,
    now <- jiffies, firing <- (tick = "timers"),
    due <- [t \in Listed |-> expires[t]]

\* The linked list implements the queue of pending timers: whatever the
\* handlers add and delete while do_timer walks it, a tick fires every
\* expired timer once, in order of expiry, none early and none deleted.
ImplementsQueue == Queue!QueueSpec

\* A pending timer whose time is still to come fires or is deleted, and a
\* task queued before the last tick is run by a tick.
TimersAndTasksRun ==
    /\ \A t \in Plain : (t \in Listed /\ expires[t] > jiffies) ~> (t \notin Listed)
    /\ \A k \in Tasks : (k \in tq_timer /\ jiffies < MaxJiffies) ~> (k \in taken)
===============================================================================
