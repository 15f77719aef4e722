------------------------------ MODULE Hrtimer ------------------------------
(***************************************************************************)
(* The locking of the high resolution timers, hrtimer.c: tasks start and   *)
(* cancel timers and sleep on them while the interrupts of several CPUs    *)
(* run the callbacks and a CPU may go away.                                *)
(*                                                                         *)
(* A timer is protected by the lock of the CPU its base names, which       *)
(* changes when the timer is started elsewhere; hrtimer_active reads it    *)
(* without any lock.  Expiry times are left out (see HrtimerEvent): a      *)
(* queued timer may expire at any moment.  One clock base per CPU stands   *)
(* for the eight of the code.  The counter base->seq is only ever compared *)
(* with an earlier value of itself, so a reader has a flag that says       *)
(* whether it has moved.  Stores become visible in program order.          *)
(***************************************************************************)
EXTENDS Naturals, FiniteSets

CONSTANTS CPUs, Tasks, Timers,
          Owner,          \* [Timers -> Tasks]: who may have the timer on its stack
          Home,           \* [Tasks -> CPUs]: where the tasks run at first
          Migration,      \* migration_base: the base of a timer between two CPUs
          None,
          MaxCalls,       \* bound: the calls of each task
          MaxEvents       \* bound: restarts by a callback, wake-ups and CPUs lost, together

ASSUME PlacesAssumption == Owner \in [Timers -> Tasks] /\ Home \in [Tasks -> CPUs]
ASSUME NamesAssumption == /\ Migration \notin CPUs /\ CPUs \cap Tasks = {}
                          /\ None \notin Timers \cup Tasks \cup CPUs \cup {Migration}
ASSUME BoundAssumption == {MaxCalls, MaxEvents} \subseteq Nat

VARIABLES
    kind,       \* "shared", or "sleeper": on the stack of its owner; it never changes
    base,       \* timer->base, a CPU or Migration
    state,      \* timer->state
    queue,      \* per CPU, the timers in base->active
    running,    \* per base, base->running
    lock,       \* per CPU, the owner of cpu_base->lock
    online,     \* the CPUs that are up
    irq,        \* per CPU, where its hrtimer_interrupt is and with which timer
    plug,       \* where hrtimers_dead_cpu is, and the CPUs it moves the timers from and to
    on,         \* per task, its CPU
    pc, call, tm, \* per task: its place, its call, the timer of the call
    seen, target, \* locals of a call: the base it has read, the CPU it moves the timer to
    stale,      \* the counter of the base that was read has moved since
    waiting,    \* sleeper->task # NULL
    awake, signal,    \* TASK_RUNNING, and signal_pending, of a task
    calls, events,    \* counted for the bounds
    sawIdle, left, disturbed  \* history: see Observe and Share

timerVars == <<kind, base, state, queue, running>>
cpuVars == <<online, irq, plug, on>>
localVars == <<call, tm, seen, target, stale, calls>>
sleepVars == <<waiting, awake, signal>>
countVars == <<events, disturbed>>
vars == <<timerVars, lock, cpuVars, pc, localVars, sleepVars, countVars, sawIdle, left>>

Sleepers == {t \in Timers : kind[t] = "sleeper"}
Bases == CPUs \cup {Migration}
IrqPlaces == {"idle", "marked", "callback", "back", "post"}
Starting == {"lk_read", "lk_take", "st_switch", "st_new", "st_back", "st_enqueue"}
Counting == {"ac_state", "ac_running", "ac_retry"}
Reading == {"ac_base", "ac_seq"} \cup Counting
Sleeping == {"sl_state", "sl_test", "sl_schedule", "sl_loop"}
Places == {"idle", "inactive", "done", "tc_read", "tc_take"} \cup Starting \cup Reading \cup Sleeping
Calls == {"start", "cancel", "nanosleep", "timeout"}
ASSUME CallsAssumption == None \notin Calls
Sleeps(p) == call[p] \in {"nanosleep", "timeout"}

Init ==
    /\ kind \in [Timers -> {"shared", "sleeper"}]
    /\ online = CPUs /\ on = Home
    /\ base \in {f \in [Timers -> CPUs] : \A t \in Sleepers : f[t] = Home[Owner[t]]}
    \* a shared timer may have been started before
    /\ state \in {f \in [Timers -> {"inactive", "enqueued"}] : \A t \in Sleepers : f[t] = "inactive"}
    /\ queue = [c \in CPUs |-> {t \in Timers : state[t] = "enqueued" /\ base[t] = c}]
    /\ running = [b \in Bases |-> None] /\ lock = [c \in CPUs |-> None]
    /\ irq = [c \in CPUs |-> [at |-> "idle", timer |-> None, restart |-> FALSE]]
    /\ plug = [at |-> "idle", from |-> None, to |-> None, moving |-> None]
    /\ pc = [p \in Tasks |-> "idle"] /\ call = [p \in Tasks |-> None]
    /\ tm = [p \in Tasks |-> None] /\ seen = [p \in Tasks |-> None]
    /\ target = [p \in Tasks |-> None] /\ stale = [p \in Tasks |-> FALSE]
    /\ waiting = [t \in Timers |-> FALSE]
    /\ awake = [p \in Tasks |-> TRUE] /\ signal = [p \in Tasks |-> FALSE]
    /\ calls = [p \in Tasks |-> 0] /\ events = 0
    /\ sawIdle = [p \in Tasks |-> FALSE] /\ left = [p \in Tasks |-> FALSE]
    /\ disturbed = [p \in Tasks |-> FALSE]

-----------------------------------------------------------------------------
(* Interrupts and places.                                                  *)

\* Interrupts are off on the CPU of p from raw_spin_lock_irqsave to the end of the call.
IrqsOff(p) == pc[p] \in {"st_switch", "st_new", "st_back", "st_enqueue"}
\* A task runs when no interrupt, other task with interrupts off, or hotplug has its CPU.
CanRun(p) ==
    /\ irq[on[p]].at = "idle" /\ (plug.at = "locked" => plug.to # on[p])
    /\ \A q \in Tasks \ {p} : on[q] = on[p] => ~IrqsOff(q)
CanInterrupt(c) ==
    /\ c \in online /\ irq[c].at = "idle" /\ (plug.at = "locked" => plug.to # c)
    /\ \A p \in Tasks : on[p] = c => ~IrqsOff(p)

Happens == events < MaxEvents /\ events' = events + 1
Free(c) == lock[c] = None
Goto(p, from, to) == pc[p] = from /\ CanRun(p) /\ pc' = [pc EXCEPT ![p] = to]
\* A step of p that changes nothing but its place.
Step(p, from, to) ==
    Goto(p, from, to) /\ UNCHANGED <<timerVars, lock, cpuVars, localVars, sleepVars, countVars>>

-----------------------------------------------------------------------------
(* The calls.                                                              *)

Call(p, t, op, first) ==
    /\ Goto(p, "idle", first)
    /\ calls[p] < MaxCalls /\ calls' = [calls EXCEPT ![p] = @ + 1]
    /\ call' = [call EXCEPT ![p] = op] /\ tm' = [tm EXCEPT ![p] = t]
    /\ UNCHANGED <<kind, queue, running, lock, cpuVars, seen, target, stale, awake, signal, events>>

\* History: another task has started the timer since the call of p began.
Share(p, op) ==
    disturbed' = [q \in Tasks |->
        IF q # p THEN disturbed[q] \/ op = "start"
        ELSE \E r \in Tasks \ {p} : call[r] = "start" /\ pc[r] # "done"]
CallStart(p) ==
    \E t \in Timers \ Sleepers :
        Call(p, t, "start", "lk_read") /\ Share(p, "start") /\ UNCHANGED <<base, state, waiting>>
CallCancel(p) ==
    \E t \in Timers \ Sleepers :
        Call(p, t, "cancel", "ac_base") /\ Share(p, "cancel") /\ UNCHANGED <<base, state, waiting>>

\* __hrtimer_init: whatever the stack frame held, the timer is inactive and on this CPU.
InitTimer(p, t) ==
    /\ state' = [state EXCEPT ![t] = "inactive"] /\ base' = [base EXCEPT ![t] = on[p]]
\* __hrtimer_init_sleeper: the callback is hrtimer_wakeup, the task to wake is this one.
InitSleeper(p, t) ==
    /\ InitTimer(p, t)
    /\ waiting' = [waiting EXCEPT ![t] = TRUE]
    /\ UNCHANGED disturbed
Nanosleep(p) ==
    \E t \in Sleepers : Owner[t] = p /\ Call(p, t, "nanosleep", "sl_state") /\ InitSleeper(p, t)
\* The caller of schedule_hrtimeout has set the state of the task before.
ScheduleTimeout(p) ==
    \E t \in Sleepers : Owner[t] = p /\ Call(p, t, "timeout", "sl_state") /\ InitSleeper(p, t)

\* set_current_state(TASK_INTERRUPTIBLE).
SetState(p) ==
    /\ Goto(p, "sl_state", "lk_read")
    /\ awake' = [awake EXCEPT ![p] = FALSE]
    /\ UNCHANGED <<timerVars, lock, cpuVars, localVars, waiting, signal, countVars>>

\* The call is over.  The stack frame of a sleeper is gone from here on.
Return(p) ==
    /\ Goto(p, "done", "idle")
    /\ call' = [call EXCEPT ![p] = None] /\ tm' = [tm EXCEPT ![p] = None]
    /\ seen' = [seen EXCEPT ![p] = None] /\ target' = [target EXCEPT ![p] = None]
    /\ UNCHANGED <<timerVars, lock, cpuVars, stale, calls, sleepVars, countVars>>

-----------------------------------------------------------------------------
(* hrtimer_start_range_ns.                                                 *)

\* lock_hrtimer_base: READ_ONCE(timer->base), again while it is the migration base.
ReadBase(p, from, to) ==
    /\ Goto(p, from, to)
    /\ base[tm[p]] # Migration
    /\ seen' = [seen EXCEPT ![p] = base[tm[p]]]
    /\ UNCHANGED <<timerVars, lock, cpuVars, call, tm, target, stale, calls, sleepVars, countVars>>
\* The lock is taken, and the timer is still there: TakeBase; it is not: back to the start.
TakeBase(p) == Free(seen[p]) /\ base[tm[p]] = seen[p]
Moved(p, from, to) == Step(p, from, to) /\ Free(seen[p]) /\ base[tm[p]] # seen[p]

\* remove_hrtimer(timer, base, true): a queued timer keeps its state.  get_target_base.
RestartState(s) == s
StartLocked(p) ==
    LET t == tm[p]  c == seen[p] IN
    /\ Goto(p, "lk_take", "st_switch")
    /\ TakeBase(p)
    /\ lock' = [lock EXCEPT ![c] = p]
    /\ queue' = [queue EXCEPT ![c] = @ \ {t}]
    /\ state' = [state EXCEPT ![t] = RestartState(@)]
    /\ \E n \in online : target' = [target EXCEPT ![p] = n]
    /\ UNCHANGED <<kind, base, running, cpuVars, call, tm, seen, stale, calls, sleepVars, countVars>>

CallbackIgnored(t, c) == FALSE  \* mutant: the timer is moved although its callback runs
CallbackRunning(t, c) == running[c] = t
Retarget(p, n) ==
    /\ target' = [target EXCEPT ![p] = n]
    /\ UNCHANGED <<timerVars, lock, cpuVars, call, tm, seen, stale, calls, sleepVars, countVars>>
\* switch_hrtimer_base: to another base, unless the callback runs.
SwitchLeave(p) ==
    LET t == tm[p]  c == seen[p] IN
    /\ Goto(p, "st_switch", "st_new")
    /\ target[p] # c /\ ~CallbackRunning(t, c)
    /\ base' = [base EXCEPT ![t] = Migration]
    /\ lock' = [lock EXCEPT ![c] = None]
    /\ UNCHANGED <<kind, state, queue, running, cpuVars, localVars, sleepVars, countVars>>
\* The timer stays where it is: its callback runs, or the base is the right one already.
SwitchStay(p) ==
    /\ Goto(p, "st_switch", "st_enqueue")
    /\ target[p] # seen[p] => CallbackRunning(tm[p], seen[p])
    /\ Retarget(p, seen[p])
\* hrtimer_check_target says that the timer would be late there: take this CPU instead.
SwitchEarly(p) ==
    /\ Goto(p, "st_switch", "st_switch")
    /\ target[p] = seen[p] /\ target[p] # on[p]
    /\ Retarget(p, on[p])
\* The lock of the new base is taken and the timer belongs to it.
SwitchEnter(p) ==
    /\ Goto(p, "st_new", "st_enqueue")
    /\ Free(target[p])
    /\ lock' = [lock EXCEPT ![target[p]] = p]
    /\ base' = [base EXCEPT ![tm[p]] = target[p]]
    /\ UNCHANGED <<kind, state, queue, running, cpuVars, localVars, sleepVars, countVars>>
\* The timer would be late on the new base: back to the old one, which is locked again.
SwitchRefuse(p) ==
    /\ Goto(p, "st_new", "st_back")
    /\ Free(target[p]) /\ target[p] # on[p]
    /\ Retarget(p, on[p])
SwitchBack(p) ==
    /\ Goto(p, "st_back", "st_switch")
    /\ Free(seen[p])
    /\ lock' = [lock EXCEPT ![seen[p]] = p]
    /\ base' = [base EXCEPT ![tm[p]] = seen[p]]
    /\ UNCHANGED <<kind, state, queue, running, cpuVars, localVars, sleepVars, countVars>>

\* enqueue_hrtimer, and unlock_hrtimer_base of the base that the timer has now.
UnlockSeen(p) ==  \* mutant: the lock of the base read at first is released
    lock' = [lock EXCEPT ![seen[p]] = None]
UnlockBase(p) == lock' = [lock EXCEPT ![base[tm[p]]] = None]
EnqueueStarted(p) ==
    /\ Goto(p, "st_enqueue", IF Sleeps(p) THEN "sl_test" ELSE "done")
    /\ queue' = [queue EXCEPT ![target[p]] = @ \cup {tm[p]}]
    /\ state' = [state EXCEPT ![tm[p]] = "enqueued"]
    /\ UnlockBase(p)
    /\ UNCHANGED <<kind, base, running, cpuVars, localVars, sleepVars, countVars>>

-----------------------------------------------------------------------------
(* hrtimer_active, hrtimer_try_to_cancel and hrtimer_cancel.               *)

ActiveBase(p) ==
    /\ Goto(p, "ac_base", "ac_seq")
    /\ seen' = [seen EXCEPT ![p] = base[tm[p]]]
    /\ UNCHANGED <<timerVars, lock, cpuVars, call, tm, target, stale, calls, sleepVars, countVars>>
ActiveSeq(p) == Step(p, "ac_seq", "ac_state")
ActiveState(p) == Step(p, "ac_state", IF state[tm[p]] # "inactive" THEN "tc_read" ELSE "ac_running")
ActiveRunning(p) == Step(p, "ac_running", IF running[seen[p]] = tm[p] THEN "tc_read" ELSE "ac_retry")
MustRetryNoBase(p) == stale[p]  \* mutant: the loop looks at the counter only
MustRetry(p) == stale[p] \/ seen[p] # base[tm[p]]
ActiveRetry(p) ==
    /\ Goto(p, "ac_retry", IF MustRetry(p) THEN "ac_base" ELSE "inactive")
    /\ stale' = [stale EXCEPT ![p] = FALSE]
    /\ UNCHANGED <<timerVars, lock, cpuVars, call, tm, seen, target, calls, sleepVars, countVars>>

\* hrtimer_try_to_cancel returns 0, and with it hrtimer_cancel.
AfterCancel(p) == IF Sleeps(p) THEN "sl_loop" ELSE "done"
NothingToCancel(p) == Step(p, "inactive", AfterCancel(p))
\* The callback runs: -1, and hrtimer_cancel tries again from the start.
AfterMinusOneReturn(p) ==  \* mutant: hrtimer_try_to_cancel is taken for hrtimer_cancel
    AfterCancel(p)
AfterMinusOne(p) == "ac_base"
CancelRunning(p) ==
    /\ Step(p, "tc_take", AfterMinusOne(p))
    /\ TakeBase(p) /\ CallbackRunning(tm[p], seen[p])
\* It does not: remove_hrtimer(timer, base, false); the lock is released in the same step.
CancelQueued(p) ==
    LET t == tm[p]  c == seen[p] IN
    /\ Goto(p, "tc_take", AfterCancel(p))
    /\ TakeBase(p) /\ ~CallbackRunning(t, c)
    /\ queue' = [queue EXCEPT ![c] = @ \ {t}]
    /\ state' = [state EXCEPT ![t] = "inactive"]
    /\ UNCHANGED <<kind, base, running, lock, cpuVars, localVars, sleepVars, countVars>>

-----------------------------------------------------------------------------
(* do_nanosleep and schedule_hrtimeout_range_clock after the start.        *)

\* if (t->task) schedule();
TestTask(p) == Step(p, "sl_test", IF waiting[tm[p]] THEN "sl_schedule" ELSE "ac_base")
\* schedule() returns at once when the task was woken before, or has a signal.
Schedule(p) ==
    /\ Goto(p, "sl_schedule", "ac_base")
    /\ awake[p] \/ signal[p]
    /\ awake' = [awake EXCEPT ![p] = TRUE]
    /\ UNCHANGED <<timerVars, lock, cpuVars, localVars, waiting, signal, countVars>>
\* do_nanosleep sleeps on while the timer has not expired and there is no signal.
SleepOn(p) == call[p] = "nanosleep" /\ waiting[tm[p]] /\ ~signal[p]
AfterSleep(p) ==
    /\ Goto(p, "sl_loop", IF SleepOn(p) THEN "sl_state" ELSE "done")
    /\ awake' = [awake EXCEPT ![p] = TRUE]
    /\ signal' = [signal EXCEPT ![p] = FALSE]
    /\ UNCHANGED <<timerVars, lock, cpuVars, localVars, waiting, countVars>>

\* A signal, or somebody else, wakes the task.
WakeUp(p) ==
    /\ Sleeps(p) /\ Happens
    /\ awake' = [awake EXCEPT ![p] = TRUE]
    /\ \E s \in BOOLEAN : signal' = [signal EXCEPT ![p] = @ \/ s]
    /\ UNCHANGED <<timerVars, lock, cpuVars, pc, localVars, waiting, disturbed>>

-----------------------------------------------------------------------------
(* hrtimer_interrupt: __hrtimer_run_queues and __run_hrtimer.              *)

\* raw_write_seqcount_barrier(&base->seq).
Barrier(c) == stale' = [p \in Tasks |-> stale[p] \/ (pc[p] \in Counting /\ seen[p] = c)]
IrqAt(c, from, to) == irq[c].at = from /\ irq' = [irq EXCEPT ![c].at = to]

\* The lock is taken and an expired timer is marked as running.
Expire(c) ==
    \E t \in queue[c] :
        /\ CanInterrupt(c) /\ Free(c)
        /\ lock' = [lock EXCEPT ![c] = c]
        /\ running' = [running EXCEPT ![c] = t]
        /\ irq' = [irq EXCEPT ![c] = [at |-> "marked", timer |-> t, restart |-> FALSE]]
        /\ UNCHANGED <<kind, base, state, queue, online, plug, on, pc, localVars, sleepVars, countVars>>
\* The counter moves, the timer leaves the queue and becomes inactive, the lock is released.
Dequeue(c) ==
    LET t == irq[c].timer IN
    /\ IrqAt(c, "marked", "callback")
    /\ Barrier(c)
    /\ queue' = [queue EXCEPT ![c] = @ \ {t}]
    /\ state' = [state EXCEPT ![t] = "inactive"]
    /\ lock' = [lock EXCEPT ![c] = None]
    /\ UNCHANGED <<kind, base, running, online, plug, on, pc, call, tm, seen, target, calls, sleepVars, countVars>>

\* hrtimer_wakeup: the task is read before t->task is cleared, and woken.
TaskToWakeCleared(c) == FALSE  \* mutant: t->task is cleared before it is read
TaskToWake(c) == waiting[irq[c].timer]
Wakeup(c) ==
    LET t == irq[c].timer IN
    /\ IrqAt(c, "callback", "back") /\ t \in Sleepers
    /\ waiting' = [waiting EXCEPT ![t] = FALSE]
    /\ awake' = [awake EXCEPT ![Owner[t]] = @ \/ TaskToWake(c)]
    /\ UNCHANGED <<timerVars, lock, online, plug, on, pc, localVars, signal, countVars>>
\* Any other callback, which may ask to be started again.
Callback(c) ==
    /\ irq[c].at = "callback" /\ irq[c].timer \notin Sleepers
    /\ \E r \in BOOLEAN :
        /\ IF r THEN Happens ELSE UNCHANGED events
        /\ irq' = [irq EXCEPT ![c].at = "back", ![c].restart = r]
    /\ UNCHANGED <<timerVars, lock, online, plug, on, pc, localVars, sleepVars, disturbed>>

\* With the lock again: started again, unless hrtimer_start has done so meanwhile.
Enqueues(c) == irq[c].restart /\ state[irq[c].timer] # "enqueued"
Relock(c) ==
    LET t == irq[c].timer IN
    /\ IrqAt(c, "back", "post") /\ Free(c)
    /\ lock' = [lock EXCEPT ![c] = c]
    /\ queue' = [queue EXCEPT ![c] = IF Enqueues(c) THEN @ \cup {t} ELSE @]
    /\ state' = [state EXCEPT ![t] = IF Enqueues(c) THEN "enqueued" ELSE @]
    /\ UNCHANGED <<kind, base, running, online, plug, on, pc, localVars, sleepVars, countVars>>
\* The counter moves and base->running = NULL; unlocked, until the next timer expires.
Finish(c) ==
    /\ IrqAt(c, "post", "idle")
    /\ Barrier(c)
    /\ running' = [running EXCEPT ![c] = None]
    /\ lock' = [lock EXCEPT ![c] = None]
    /\ UNCHANGED <<kind, base, state, queue, online, plug, on, pc, call, tm, seen, target, calls, sleepVars, countVars>>

-----------------------------------------------------------------------------
(* CPU hotplug.                                                            *)

\* A CPU stops while no interrupt is off anywhere (stop_machine), and its tasks move.
GoOffline(c) ==
    /\ plug.at = "idle" /\ Happens
    /\ c \in online
    /\ \A d \in CPUs : irq[d].at = "idle"
    /\ \A p \in Tasks : ~IrqsOff(p)
    /\ online' = online \ {c}
    /\ \E n \in online \ {c} :
        /\ plug' = [plug EXCEPT !.at = "dead", !.from = c, !.to = n]
        /\ on' = [p \in Tasks |-> IF on[p] = c THEN n ELSE on[p]]
    /\ UNCHANGED <<timerVars, lock, irq, pc, localVars, sleepVars, disturbed>>

\* hrtimers_dead_cpu takes both locks with the interrupts of its CPU off.
LockBoth ==
    /\ plug.at = "dead" /\ CanInterrupt(plug.to)
    /\ Free(plug.to) /\ Free(plug.from)
    /\ lock' = [lock EXCEPT ![plug.to] = plug.to, ![plug.from] = plug.to]
    /\ plug' = [plug EXCEPT !.at = "locked"]
    /\ UNCHANGED <<timerVars, online, irq, on, pc, localVars, sleepVars, countVars>>
\* migrate_hrtimer_list: out of the old queue, still as ENQUEUED, and into the new one.
MovedState == "enqueued"
MigrateOut ==
    /\ plug.at = "locked" /\ plug.moving = None
    /\ \E t \in queue[plug.from] :
        /\ plug' = [plug EXCEPT !.moving = t]
        /\ queue' = [queue EXCEPT ![plug.from] = @ \ {t}]
        /\ state' = [state EXCEPT ![t] = MovedState]
    /\ UNCHANGED <<kind, base, running, lock, online, irq, on, pc, localVars, sleepVars, countVars>>
MigrateIn ==
    LET t == plug.moving IN
    /\ plug.at = "locked" /\ t # None
    /\ plug' = [plug EXCEPT !.moving = None]
    /\ base' = [base EXCEPT ![t] = plug.to]
    /\ queue' = [queue EXCEPT ![plug.to] = @ \cup {t}]
    /\ state' = [state EXCEPT ![t] = "enqueued"]
    /\ UNCHANGED <<kind, running, lock, online, irq, on, pc, localVars, sleepVars, countVars>>
UnlockBoth ==
    /\ plug.at = "locked" /\ plug.moving = None /\ queue[plug.from] = {}
    /\ lock' = [lock EXCEPT ![plug.to] = None, ![plug.from] = None]
    /\ plug' = [plug EXCEPT !.at = "idle", !.from = None, !.to = None]
    /\ UNCHANGED <<timerVars, online, irq, on, pc, localVars, sleepVars, countVars>>
\* hrtimers_prepare_cpu: the CPU comes back with an empty queue.
PrepareCpu(c) ==
    /\ c \notin online /\ plug.at = "idle"
    /\ online' = online \cup {c}
    /\ queue' = [queue EXCEPT ![c] = {}]
    /\ UNCHANGED <<kind, base, state, running, lock, irq, plug, on, pc, localVars, sleepVars, countVars>>

-----------------------------------------------------------------------------
Idle(t) == state[t] = "inactive" /\ \A b \in Bases : running[b] # t
\* History: what has happened to the timer of p during its present call of hrtimer_active:
\* it was idle at some moment, or on another base than the one that was read last; the
\* second is kept until a call that ends with "not active" returns.
Observe ==
    /\ sawIdle' = [p \in Tasks |->
           IF pc'[p] \notin Reading THEN pc'[p] = "inactive" /\ sawIdle[p]
           ELSE (pc[p] \in Reading /\ sawIdle[p]) \/ \E t \in Timers : tm'[p] = t /\ Idle(t)']
    /\ left' = [p \in Tasks |-> \/ pc'[p] \in {"inactive", "done"} /\ left[p]
                                \/ pc'[p] \in Counting /\ (left[p] \/ base'[tm'[p]] # seen'[p])]

Start(p) ==
    \/ ReadBase(p, "lk_read", "lk_take") \/ Moved(p, "lk_take", "lk_read") \/ StartLocked(p)
    \/ SwitchLeave(p) \/ SwitchStay(p) \/ SwitchEarly(p)
    \/ SwitchEnter(p) \/ SwitchRefuse(p) \/ SwitchBack(p) \/ EnqueueStarted(p)
Cancel(p) ==
    \/ ActiveBase(p) \/ ActiveSeq(p) \/ ActiveState(p) \/ ActiveRunning(p) \/ ActiveRetry(p)
    \/ NothingToCancel(p)
    \/ ReadBase(p, "tc_read", "tc_take") \/ Moved(p, "tc_take", "tc_read")
    \/ CancelRunning(p) \/ CancelQueued(p)
Sleep(p) == SetState(p) \/ TestTask(p) \/ Schedule(p) \/ AfterSleep(p)
Continue(p) == Start(p) \/ Cancel(p) \/ Sleep(p) \/ Return(p)
Interrupt(c) == Expire(c) \/ Dequeue(c) \/ Wakeup(c) \/ Callback(c) \/ Relock(c) \/ Finish(c)
Hotplug == LockBoth \/ MigrateOut \/ MigrateIn \/ UnlockBoth

Next ==
    /\ \/ \E p \in Tasks : \/ CallStart(p) \/ CallCancel(p) \/ Nanosleep(p) \/ ScheduleTimeout(p)
                           \/ Continue(p) \/ WakeUp(p)
       \/ \E c \in CPUs : Interrupt(c) \/ GoOffline(c) \/ PrepareCpu(c)
       \/ Hotplug
    /\ Observe

\* Tasks run, time passes and a queued timer expires, and the move of the timers of a dead
\* CPU goes on.  Weak fairness is enough for the locks, since the calls are finitely many.
Fairness ==
    /\ \A p \in Tasks : WF_vars(Continue(p) /\ Observe)
    /\ \A c \in CPUs : WF_vars(Interrupt(c) /\ Observe)
    /\ WF_vars(Hotplug /\ Observe)
Spec == Init /\ [][Next]_vars /\ Fairness

-----------------------------------------------------------------------------
\* Types, and a lock belongs to somebody who is in a section that it protects.
TypeOK ==
    /\ kind \in [Timers -> {"shared", "sleeper"}]
    /\ base \in [Timers -> Bases] /\ state \in [Timers -> {"inactive", "enqueued"}]
    /\ queue \in [CPUs -> SUBSET Timers] /\ running \in [Bases -> Timers \cup {None}]
    /\ lock \in [CPUs -> Tasks \cup CPUs \cup {None}] /\ online \subseteq CPUs
    /\ pc \in [Tasks -> Places] /\ tm \in [Tasks -> Timers \cup {None}]
    /\ call \in [Tasks -> Calls \cup {None}]
    /\ seen \in [Tasks -> Bases \cup {None}] /\ target \in [Tasks -> CPUs \cup {None}]
    /\ \A c \in CPUs : irq[c].at \in IrqPlaces /\ irq[c].timer \in Timers \cup {None}
    /\ \A c \in CPUs : /\ lock[c] \in Tasks => IrqsOff(lock[c])
                       /\ irq[c].at \in {"marked", "post"} => lock[c] = c

\* "It is important for this function to not return a false negative" (hrtimer.c:1435):
\* when hrtimer_active says that a timer is not active, the timer was neither queued nor
\* running at some moment of the call, however its reads are spread over callbacks, moves
\* to another CPU and restarts.  The exception is a timer that has left the base while it
\* was read and has come back to it: neither test of the loop can tell.
NoFalseNegative ==
    [][\A p \in Tasks : pc[p] = "ac_retry" /\ pc'[p] = "inactive" =>
           sawIdle[p] \/ (left[p] /\ base[tm[p]] = seen[p])]_vars

\* The same without the exception, as the comment has it.
NeverFalseNegative == \A p \in Tasks : pc[p] = "inactive" => sawIdle[p]

\* After hrtimer_cancel has returned the timer is in no queue and its callback runs
\* nowhere, unless another task has started it since the call began or hrtimer_active was
\* wrong about it (the exception of NoFalseNegative, which takes three CPUs: two moves and a
\* restart between two reads); and the timer on the stack of a sleeper is so from the
\* return to the next call, without exception: nobody uses the dead frame.
CancelIsFinal ==
    /\ \A p \in Tasks : pc[p] = "done" /\ call[p] = "cancel" /\ ~disturbed[p] /\ ~left[p] => Idle(tm[p])
    /\ \A t \in Sleepers : pc[Owner[t]] \in {"done", "idle"} =>
           Idle(t) /\ \A c \in CPUs : t \notin queue[c]

\* A timer is in the queue of the base it names and in no other, and only the CPU of that
\* base runs its callback; a timer that counts as enqueued is in a queue unless somebody
\* with a lock is moving it; a dead CPU that has been cleared has no timer.
OneHome ==
    /\ \A t \in Timers, c \in CPUs : t \in queue[c] => base[t] = c /\ state[t] = "enqueued"
    /\ \A t \in Timers, c \in CPUs : running[c] = t => base[t] = c
    /\ \A t \in Timers : state[t] = "enqueued" =>
           \/ \E c \in CPUs : t \in queue[c]
           \/ \E p \in Tasks : IrqsOff(p) /\ tm[p] = t
           \/ plug.moving = t
    /\ \A c \in CPUs \ online : plug.from # c => queue[c] = {}

\* Every call returns: a sleeper is woken in the end, and a canceller sees the end of the
\* callback it waits for.
CallsReturn == \A p \in Tasks : pc[p] # "idle" ~> pc[p] = "idle"

=============================================================================
