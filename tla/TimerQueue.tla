------------------------------ MODULE TimerQueue ------------------------------
(***************************************************************************)
(* What the timer interface (timer.c) promises a device driver.  A pending *)
(* timer has an expiry time.  A tick advances the clock and then fires, in *)
(* order of expiry and each exactly once, the timers that have expired; it *)
(* ends only when none is left.  A deleted timer never fires.  Timers may  *)
(* be added and deleted at any moment, also by a handler.                  *)
(***************************************************************************)
EXTENDS Naturals, Functions

CONSTANTS
    Clients,        \* the timers of the drivers
    Times,          \* values of the clock
    None            \* no timer

VARIABLES
    now,            \* the clock
    due,            \* expiry times of the pending timers
    firing,         \* a tick is firing the expired timers
    running         \* the timer whose handler runs, or None

queueVars == <<now, due, firing, running>>

Pending == DOMAIN due

Without(t) == Restrict(due, Pending \ {t})

QueueInit ==
    /\ now = 0
    /\ due = << >>
    /\ firing = FALSE
    /\ running = None

Add(t, e) ==
    /\ t \notin Pending
    /\ due' = [u \in Pending \cup {t} |-> IF u = t THEN e ELSE due[u]]
    /\ UNCHANGED <<now, firing, running>>

Delete(t) ==
    /\ t \in Pending
    /\ due' = Without(t)
    /\ UNCHANGED <<now, firing, running>>

Tick ==
    /\ ~firing
    /\ now' = now + 1
    /\ firing' = TRUE
    /\ UNCHANGED <<due, running>>

Fire(t) ==
    /\ firing /\ running = None
    /\ t \in Pending
    /\ due[t] <= now
    /\ \A u \in Pending : due[t] <= due[u]
    /\ due' = Without(t)
    /\ running' = t
    /\ UNCHANGED <<now, firing>>

Return ==
    /\ running' = None
    /\ UNCHANGED <<now, due, firing>>

EndTick ==
    /\ firing /\ running = None
    /\ \A u \in Pending : due[u] > now
    /\ firing' = FALSE
    /\ UNCHANGED <<now, due, running>>

QueueNext ==
    \/ Tick \/ Return \/ EndTick
    \/ \E t \in Clients :
          \/ Delete(t) \/ Fire(t)
          \/ \E e \in Times : Add(t, e)

QueueSpec == QueueInit /\ [][QueueNext]_queueVars
===============================================================================
