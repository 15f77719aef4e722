---------------------------- MODULE HrtimerEvent ----------------------------
(***************************************************************************)
(* When the high resolution timers of one CPU expire, hrtimer.c: what its  *)
(* clock event device is programmed for while timers are started and       *)
(* cancelled here and from other CPUs, callbacks run in the interrupt and  *)
(* in the softirq, and the clock is set.                                   *)
(*                                                                         *)
(* cpu is the struct hrtimer_cpu_base of the CPU with the queues of its    *)
(* bases, the expiry times of the timers and the next event of the device. *)
(* Its lock is free except at the place "run"; Hrtimer models the locking. *)
(* Two clocks are told apart, CLOCK_MONOTONIC and CLOCK_REALTIME, each     *)
(* with hard and soft timers.  The slack of a timer is 0.  Timers that     *)
(* expire together in one base are taken in a fixed order.                 *)
(***************************************************************************)
EXTENDS Integers, FiniteSets

CONSTANTS Timers, Soft, Real,   \* the timers, those run by the softirq, those of CLOCK_REALTIME
          None,
          MaxExpiry,            \* bound: expiry times on CLOCK_MONOTONIC
          MaxOffset,            \* bound: CLOCK_REALTIME is ahead by at most this
          MaxOps,               \* bound: starts, restarts, cancellations and adoptions together
          MaxSets               \* bound: settings of the clock

ASSUME TimersAssumption == Soft \subseteq Timers /\ Real \subseteq Timers /\ None \notin Timers
ASSUME BoundAssumption == {MaxExpiry, MaxOffset, MaxOps, MaxSets} \subseteq Nat

VARIABLES
    now,      \* CLOCK_MONOTONIC
    offset,   \* of CLOCK_REALTIME, as the timekeeper has it
    cpu,      \* see CpuBase
    at, cur, stamp, todo,  \* of the interrupt and of the softirq: its place, the timer it
                           \* runs, the time it has read, the bases it has yet to visit
    entry, retries,        \* locals of hrtimer_interrupt
    ipi,      \* clock_was_set has called retrigger_next_event on this CPU, still to run
    forward,  \* history: the clock has been set forward
    ops, sets \* counted for the bounds

heVars == <<now, offset, cpu, at, cur, stamp, todo, entry, retries, ipi, forward, ops, sets>>
runVars == <<at, cur, stamp, todo, entry, retries>>
clockVars == <<offset, forward, sets>>

Horizon == MaxExpiry + 2   \* time ends here
Never == Horizon + 1       \* KTIME_MAX
Contexts == {"hard", "soft"}
Bases == {"monotonic", "realtime"}
Smaller(m, n) == IF m < n THEN m ELSE n
Larger(m, n) == IF m > n THEN m ELSE n

OfContext(x) == IF x = "soft" THEN Soft ELSE Timers \ Soft
OfBase(b) == IF b = "realtime" THEN Real ELSE Timers \ Real

\* struct hrtimer_cpu_base; found is the value that __hrtimer_get_next_event has returned.
CpuBase == [queue : SUBSET Timers, expires : [Timers -> 0..(MaxExpiry + MaxOffset)],
            off : 0..MaxOffset, expires_next : 0..Never, softirq_expires_next : 0..Never,
            next_timer : Timers \cup {None}, softirq_next_timer : Timers \cup {None},
            hres_active : BOOLEAN, hang_detected : BOOLEAN, in_hrtirq : BOOLEAN,
            softirq_activated : BOOLEAN, event : 0..Never, found : 0..Never]

HEInit ==
    /\ now = 0 /\ offset \in 0..MaxOffset
    \* the tick has copied the offset since the clock was set at boot
    /\ cpu = [queue |-> {}, expires |-> [t \in Timers |-> 0], off |-> offset,
              expires_next |-> Never, softirq_expires_next |-> Never,
              next_timer |-> None, softirq_next_timer |-> None,
              hres_active |-> FALSE, hang_detected |-> FALSE, in_hrtirq |-> FALSE,
              softirq_activated |-> FALSE, event |-> Never, found |-> Never]
    /\ at = [x \in Contexts |-> "idle"] /\ cur = [x \in Contexts |-> None]
    /\ stamp = [x \in Contexts |-> 0] /\ todo = [x \in Contexts |-> {}]
    /\ entry = 0 /\ retries = 0 /\ ipi = FALSE /\ forward = FALSE /\ ops = 0 /\ sets = 0

-----------------------------------------------------------------------------
(* The functions that compute on a cpu_base, its lock held.                *)

\* The expiry time of a timer on CLOCK_MONOTONIC, by the offset this CPU has copied.
Mono(c, t) == c.expires[t] - (IF t \in Real THEN c.off ELSE 0)
\* hrtimer_update_base.
UpdateBase(c) == [c EXCEPT !.off = offset]

\* __hrtimer_next_event_base: the first of some timers that is earlier than a limit.
NextEventBase(c, S, limit) ==
    LET early == {t \in S : Mono(c, t) < limit}
        first == CHOOSE t \in early : \A u \in early : Mono(c, t) <= Mono(c, u)
    IN  IF early = {} THEN [timer |-> None, expires |-> Larger(limit, 0)]
        ELSE [timer |-> first, expires |-> Larger(Mono(c, first), 0)]

\* __hrtimer_get_next_event: the soft timers do not count while the softirq is pending.
GetNextEvent(c, mask) ==
    LET softToo == "soft" \in mask /\ ~c.softirq_activated
        s == NextEventBase(c, c.queue \cap Soft, Never)
        limit == IF softToo THEN s.expires ELSE Never
        h == NextEventBase(c, c.queue \ Soft, limit)
        first == IF softToo THEN s.timer ELSE None
        b == IF softToo THEN [c EXCEPT !.softirq_next_timer = s.timer, !.found = limit]
             ELSE [c EXCEPT !.found = limit]
    IN  IF "hard" \notin mask THEN b
        ELSE [b EXCEPT !.next_timer = IF h.timer # None THEN h.timer ELSE first,
                       !.found = h.expires]

\* tick_program_event(expires, 1): at once when the time has passed.
Program(c, e) == [c EXCEPT !.event = IF e = Never THEN Never ELSE Larger(e, now)]
ProgramHres(c, e) == IF ~c.hres_active \/ c.hang_detected THEN c ELSE Program(c, e)

\* hrtimer_force_reprogram.  Its local variable is gone at the end.
Forget(c) == [c EXCEPT !.found = IF at["hard"] = "program" THEN cpu.found ELSE Never]
ForceReprogram(c, skipEqual) ==
    LET a == GetNextEvent(c, Contexts)
        b == IF a.next_timer \in Soft THEN [a EXCEPT !.softirq_expires_next = a.found] ELSE a
    IN  IF skipEqual /\ b.found = b.expires_next THEN Forget(b)
        ELSE ProgramHres(Forget([b EXCEPT !.expires_next = b.found]), b.found)

\* hrtimer_reprogram, called on this CPU or on another one.
Reprogram(c, t, reprogram, local) ==
    LET e == Larger(Mono(c, t), 0)
        soft == t \in Soft
        d == IF soft THEN [c EXCEPT !.softirq_next_timer = t, !.softirq_expires_next = e] ELSE c
    IN  IF soft /\ (c.softirq_activated \/ e >= c.softirq_expires_next) THEN c
        ELSE IF \/ soft /\ ~reprogram
                \/ ~local \/ c.in_hrtirq
                \/ e >= c.expires_next
        THEN d
        ELSE ProgramHres([d EXCEPT !.next_timer = t, !.expires_next = e], e)

\* __remove_hrtimer.
RemoveHrtimer(c, t, reprogram) ==
    LET d == [c EXCEPT !.queue = @ \ {t}] IN
    IF reprogram /\ t = c.next_timer THEN ForceReprogram(d, TRUE) ELSE d
\* enqueue_hrtimer, and whether the timer is the first of its base.
Enqueue(c, t) == [c EXCEPT !.queue = @ \cup {t}]
SameBase(t, u) == (t \in Soft <=> u \in Soft) /\ (t \in Real <=> u \in Real)
IsFirst(c, t) == \A u \in c.queue \ {t} : SameBase(t, u) => Mono(c, t) < Mono(c, u)

\* hrtimer_update_softirq_timer.
UpdateSoftirqTimerNot(c, reprogram) == c  \* mutant: left to the next start of a timer
UpdateSoftirqTimer(c, reprogram) ==
    LET d == GetNextEvent(c, {"soft"}) IN
    IF d.found = Never THEN d ELSE Reprogram(Forget(d), d.softirq_next_timer, reprogram, TRUE)

\* The softirq is raised when the first soft timer is due.
RaiseSoftirq(c, time) ==
    IF time < c.softirq_expires_next THEN c
    ELSE [c EXCEPT !.softirq_expires_next = Never, !.softirq_activated = TRUE]

-----------------------------------------------------------------------------
(* Who runs.                                                               *)

Unlocked == \A x \in Contexts : at[x] # "run"
InterruptsOn == at["hard"] = "idle" /\ at["soft"] # "run"
\* This CPU executes code that may start and cancel timers: a task or a callback.
LocalCode == \A x \in Contexts : at[x] \in {"idle", "callback", "forwarded"}
Operate == ops < MaxOps /\ ops' = ops + 1
Running(t) == \E x \in Contexts : cur[x] = t
\* Every expiry time that falls into the bounds.
Expiries(t) == {e \in 0..(MaxExpiry + MaxOffset) :
                   e <= MaxExpiry + (IF t \in Real THEN MaxOffset ELSE 0)}

-----------------------------------------------------------------------------
(* Tasks, callbacks and other CPUs.                                        *)

\* hrtimer_start_range_ns leaves the timer here.  From another CPU that needs a timer not
\* earlier than the next event (hrtimer_check_target), or one whose callback runs here.
MayStayAlways(c, t, local) == TRUE  \* mutant: no hrtimer_check_target
MayStay(c, t, local) == local \/ Running(t) \/ Mono(c, t) >= c.expires_next
Start(t, local) ==
    /\ Operate
    /\ IF local THEN LocalCode ELSE Unlocked
    /\ \E e \in Expiries(t) :
        LET a == IF t \in cpu.queue THEN RemoveHrtimer(cpu, t, local) ELSE cpu
            b == [a EXCEPT !.expires[t] = e]
            d == Enqueue(b, t)
        IN  /\ MayStay(b, t, local)
            /\ cpu' = IF IsFirst(d, t) THEN Reprogram(d, t, TRUE, local) ELSE d
    /\ UNCHANGED <<now, clockVars, runVars, ipi>>

\* The expiry time of a timer that is not here does not matter any more.
Forgotten(c, t) == IF t \in c.queue THEN c ELSE [c EXCEPT !.expires[t] = 0]
\* hrtimer_try_to_cancel, or a start that takes the timer to another CPU.
Cancel(t, local) ==
    /\ Operate
    /\ IF local THEN LocalCode ELSE Unlocked
    /\ t \in cpu.queue /\ ~Running(t)
    /\ cpu' = Forgotten(RemoveHrtimer(cpu, t, local), t)
    /\ UNCHANGED <<now, clockVars, runVars, ipi>>

\* hrtimers_dead_cpu moves the timers of a dead CPU here, and then runs the interrupt.
Adopt(t) ==
    /\ Operate
    /\ InterruptsOn /\ at["soft"] = "idle"
    /\ t \notin cpu.queue
    /\ \E e \in Expiries(t) :
           cpu' = UpdateSoftirqTimer(Enqueue([cpu EXCEPT !.expires[t] = e], t), FALSE)
    /\ at' = [at EXCEPT !["hard"] = "adopted"]
    /\ UNCHANGED <<now, clockVars, cur, stamp, todo, entry, retries, ipi>>

\* settimeofday, by the timesync driver among others; then clock_was_set.
SetClock ==
    /\ sets < MaxSets /\ sets' = sets + 1
    /\ \E o \in 0..MaxOffset \ {offset} : offset' = o /\ forward' = (forward \/ o > offset)
    /\ ipi' = TRUE
    /\ UNCHANGED <<now, cpu, runVars, ops>>
\* retrigger_next_event on this CPU.
Retriggered(c) == IF c.hres_active THEN ForceReprogram(UpdateBase(c), FALSE) ELSE c
RetriggerNextEvent ==
    /\ ipi /\ InterruptsOn
    /\ ipi' = FALSE
    /\ cpu' = Retriggered(cpu)
    /\ UNCHANGED <<now, clockVars, runVars, ops>>
\* hrtimer_switch_to_hres, from hrtimer_run_queues.
SwitchToHres ==
    /\ ~cpu.hres_active /\ InterruptsOn
    /\ cpu' = Retriggered([cpu EXCEPT !.hres_active = TRUE])
    /\ UNCHANGED <<now, clockVars, runVars, ipi, ops>>

-----------------------------------------------------------------------------
(* __hrtimer_run_queues, in the interrupt and in the softirq.              *)

\* Timers of base b that x has to run: due at the time that x has read.
Due(x, b) == {t \in cpu.queue \cap OfContext(x) \cap OfBase(b) : Mono(cpu, t) <= stamp[x]}
Active(c, x) == {b \in Bases : c.queue \cap OfContext(x) \cap OfBase(b) # {}}
\* Begin a pass over the bases that are active now.
Pass(x, c, time) ==
    /\ at' = [at EXCEPT ![x] = "run"]
    /\ stamp' = [stamp EXCEPT ![x] = time]
    /\ todo' = [todo EXCEPT ![x] = Active(c, x)]
\* The monotonic base comes first and is not visited again.
Rest(x, b) == IF b = "realtime" THEN {b} ELSE todo[x]
MayRun(x) == at[x] = "run" /\ (x = "soft" => at["hard"] = "idle")
\* __run_hrtimer: the first due timer leaves the queue and its callback runs, unlocked.
RunTimer(x) ==
    /\ MayRun(x)
    /\ \E b \in todo[x] :
        /\ Due(x, b) # {} /\ (b = "realtime" /\ "monotonic" \in todo[x] => Due(x, "monotonic") = {})
        /\ LET t == NextEventBase(cpu, Due(x, b), Never).timer IN
            /\ cpu' = RemoveHrtimer(cpu, t, FALSE)
            /\ cur' = [cur EXCEPT ![x] = t]
        /\ todo' = [todo EXCEPT ![x] = Rest(x, b)]
    /\ at' = [at EXCEPT ![x] = "callback"]
    /\ UNCHANGED <<now, clockVars, stamp, entry, retries, ipi, ops>>

\* hrtimer_forward_now(timer, 1) in the callback: the first expiry after the present time.
\* When the timer has been queued again meanwhile nothing happens (the patch of this kernel).
Forwarded(t, time) == IF time < cpu.expires[t] \/ t \in cpu.queue THEN cpu.expires[t] ELSE time + 1
Time(t) == now + (IF t \in Real THEN offset ELSE 0)
Forward(x) ==
    /\ at[x] = "callback" /\ (x = "soft" => at["hard"] = "idle")
    /\ Operate
    /\ Forwarded(cur[x], Time(cur[x])) \in Expiries(cur[x])
    /\ cpu' = [cpu EXCEPT !.expires[cur[x]] = Forwarded(cur[x], Time(cur[x]))]
    /\ at' = [at EXCEPT ![x] = "forwarded"]
    /\ UNCHANGED <<now, clockVars, cur, stamp, todo, entry, retries, ipi>>
\* HRTIMER_RESTART after a forward, HRTIMER_NORESTART otherwise.
CallbackEnd(x) ==
    /\ at[x] \in {"callback", "forwarded"} /\ (x = "soft" => at["hard"] = "idle")
    /\ cpu' = IF at[x] = "forwarded" THEN Enqueue(cpu, cur[x]) ELSE Forgotten(cpu, cur[x])
    /\ cur' = [cur EXCEPT ![x] = None]
    /\ at' = [at EXCEPT ![x] = "run"]
    /\ UNCHANGED <<now, clockVars, stamp, todo, entry, retries, ipi, ops>>
\* The locals of x are gone.
Leave(x) ==
    /\ at' = [at EXCEPT ![x] = "idle"]
    /\ stamp' = [stamp EXCEPT ![x] = 0] /\ todo' = [todo EXCEPT ![x] = {}]
    /\ IF x = "hard" THEN entry' = 0 /\ retries' = 0 ELSE UNCHANGED <<entry, retries>>
PassDone(x) == MayRun(x) /\ \A b \in todo[x] : Due(x, b) = {}

-----------------------------------------------------------------------------
(* hrtimer_interrupt, hrtimer_run_queues and hrtimer_run_softirq.          *)

InterruptPass(c) == RaiseSoftirq([c EXCEPT !.in_hrtirq = TRUE, !.expires_next = Never], now)
HrtimerInterrupt ==
    /\ cpu.hres_active
    /\ at["hard"] = "adopted" \/ (InterruptsOn /\ cpu.event <= now)
    /\ cpu' = InterruptPass([UpdateBase(cpu) EXCEPT !.event = Never])
    /\ Pass("hard", cpu', now)
    /\ entry' = now /\ retries' = 0
    /\ UNCHANGED <<now, clockVars, cur, ipi, ops>>
\* __hrtimer_peek_ahead_timers does nothing without high resolution.
NoPeek ==
    /\ ~cpu.hres_active /\ at["hard"] = "adopted"
    /\ Leave("hard")
    /\ UNCHANGED <<now, clockVars, cpu, cur, ipi, ops>>
\* The next event is stored, and the lock released.
Reevaluate ==
    /\ PassDone("hard") /\ cpu.in_hrtirq
    /\ LET c == GetNextEvent(cpu, Contexts) IN
           cpu' = [c EXCEPT !.expires_next = c.found, !.in_hrtirq = FALSE]
    /\ at' = [at EXCEPT !["hard"] = "program"]
    /\ UNCHANGED <<now, clockVars, cur, stamp, todo, entry, retries, ipi, ops>>
\* tick_program_event(expires_next, 0) succeeds.
ProgramNext ==
    /\ at["hard"] = "program" /\ cpu.found > now
    /\ cpu' = [cpu EXCEPT !.event = cpu.found, !.hang_detected = FALSE, !.found = Never]
    /\ Leave("hard")
    /\ UNCHANGED <<now, clockVars, cur, ipi, ops>>
\* It is in the past: once more, and once more.
Retry ==
    /\ at["hard"] = "program" /\ cpu.found <= now /\ retries < 2
    /\ retries' = retries + 1
    /\ cpu' = InterruptPass(UpdateBase(cpu))
    /\ Pass("hard", cpu', now)
    /\ UNCHANGED <<now, clockVars, cur, entry, ipi, ops>>
\* After three passes the next interrupt waits as long as this one took, at most a limit.
HangLimit == 1
Hang ==
    /\ at["hard"] = "program" /\ cpu.found <= now /\ retries = 2
    /\ cpu' = [UpdateBase(cpu) EXCEPT !.hang_detected = TRUE, !.found = Never,
                  !.event = Smaller(Horizon, now + Smaller(HangLimit, now - entry))]
    /\ Leave("hard")
    /\ UNCHANGED <<now, clockVars, cur, ipi, ops>>

\* Without high resolution the tick polls.
RunQueues ==
    /\ ~cpu.hres_active /\ InterruptsOn
    /\ cpu' = RaiseSoftirq(UpdateBase(cpu), now)
    /\ Pass("hard", cpu', now)
    /\ UNCHANGED <<now, clockVars, cur, entry, retries, ipi, ops>>
RunQueuesDone ==
    /\ PassDone("hard") /\ ~cpu.in_hrtirq
    /\ Leave("hard")
    /\ UNCHANGED <<now, clockVars, cpu, cur, ipi, ops>>

RunSoftirq ==
    /\ cpu.softirq_activated /\ InterruptsOn /\ at["soft"] = "idle"
    /\ cpu' = UpdateBase(cpu)
    /\ Pass("soft", cpu', now)
    /\ UNCHANGED <<now, clockVars, cur, entry, retries, ipi, ops>>
RunSoftirqDone ==
    /\ PassDone("soft")
    /\ cpu' = UpdateSoftirqTimer([cpu EXCEPT !.softirq_activated = FALSE], TRUE)
    /\ Leave("soft")
    /\ UNCHANGED <<now, clockVars, cur, ipi, ops>>

Tick ==
    /\ now < Horizon
    /\ now' = now + 1
    /\ UNCHANGED <<clockVars, cpu, runVars, ipi, ops>>

-----------------------------------------------------------------------------
Interrupt == HrtimerInterrupt \/ NoPeek \/ Reevaluate \/ ProgramNext \/ Retry \/ Hang
             \/ RunQueues \/ RunQueuesDone
Softirq == RunSoftirq \/ RunSoftirqDone
Queues(x) == RunTimer(x) \/ CallbackEnd(x)

HENext ==
    \/ \E t \in Timers, local \in BOOLEAN : Start(t, local) \/ Cancel(t, local)
    \/ \E t \in Timers : Adopt(t)
    \/ SetClock \/ RetriggerNextEvent \/ SwitchToHres
    \/ \E x \in Contexts : Queues(x) \/ Forward(x)
    \/ Interrupt \/ Softirq \/ Tick

HESpec == HEInit /\ [][HENext]_heVars

-----------------------------------------------------------------------------
\* Types; and what the code keeps apart: in_hrtirq is set exactly while a pass of
\* hrtimer_interrupt runs, and the softirq is activated while it runs.
HETypeOK ==
    /\ now \in 0..Horizon /\ offset \in 0..MaxOffset /\ cpu \in CpuBase
    /\ at \in [Contexts -> {"idle", "adopted", "run", "callback", "forwarded", "program"}]
    /\ cur \in [Contexts -> Timers \cup {None}] /\ stamp \in [Contexts -> 0..Horizon]
    /\ todo \in [Contexts -> SUBSET Bases] /\ retries \in 0..2
    /\ at["soft"] # "idle" => cpu.softirq_activated

\* "we would cause it to fire late" (hrtimer.c:181): whenever this CPU runs something else
\* than the interrupt, the device is programmed for the first hard timer of its queues or
\* earlier, whatever was started, cancelled, forwarded or moved here in which order.  After
\* a hang it is programmed for the end of the pause; and until the other side of
\* clock_was_set has run the old time may stand.
HardInTime ==
    cpu.hres_active /\ at["hard"] = "idle" /\ at["soft"] # "run" /\ ~ipi =>
        \A t \in cpu.queue \ Soft :
            cpu.event <= Larger(Mono(cpu, t), IF cpu.hang_detected THEN now + HangLimit ELSE now)

\* The softirq is raised in time: while it is not pending, softirq_expires_next is not later
\* than any soft timer.  For a timer of CLOCK_REALTIME this holds as long as that clock is
\* not set forward: nothing lowers the cached value then.
SoftInTime ==
    ~cpu.softirq_activated /\ Unlocked /\ ~ipi =>
        \A t \in cpu.queue \cap Soft :
            (t \in Real => ~forward) => cpu.softirq_expires_next <= Larger(Mono(cpu, t), 0)

\* "When a timer is enqueued and expires earlier than the already enqueued timers, we have
\* to check, whether it expires earlier than the timer for which the clock event device was
\* armed" (hrtimer.c:769): so the device is never later than the first soft timer either.
SoftIsProgrammed ==
    cpu.hres_active /\ at["hard"] = "idle" /\ Unlocked /\ ~ipi /\ ~cpu.softirq_activated =>
        \A t \in cpu.queue \cap (Soft \ Real) :
            cpu.event <= Larger(Mono(cpu, t), IF cpu.hang_detected THEN now + HangLimit ELSE now)
=============================================================================
