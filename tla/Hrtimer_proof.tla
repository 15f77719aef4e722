--------------------------- MODULE Hrtimer_proof ---------------------------
(***************************************************************************)
(* Proofs about Hrtimer, for every number of CPUs, tasks and timers and    *)
(* any number of calls, restarts and CPUs that go and come.                *)
(***************************************************************************)
EXTENDS Hrtimer, TLAPS

Locked == {"st_switch", "st_enqueue"}
Between == {"st_new", "st_back"}
Off == Locked \cup Between
Cancelling == Reading \cup {"inactive", "tc_read", "tc_take"}
Quiet == Places \ Off

-----------------------------------------------------------------------------
(* The inductive invariant.                                                *)

TypeInv ==
    /\ kind \in [Timers -> {"shared", "sleeper"}]
    /\ base \in [Timers -> Bases] /\ state \in [Timers -> {"inactive", "enqueued"}]
    /\ queue \in [CPUs -> SUBSET Timers] /\ running \in [Bases -> Timers \cup {None}]
    /\ lock \in [CPUs -> Tasks \cup CPUs \cup {None}]
    /\ online \subseteq CPUs /\ on \in [Tasks -> online]
    /\ irq \in [CPUs -> [at : IrqPlaces, timer : Timers \cup {None}, restart : BOOLEAN]]
    /\ plug \in [at : {"idle", "dead", "locked"}, from : CPUs \cup {None},
                 to : CPUs \cup {None}, moving : Timers \cup {None}]
    /\ pc \in [Tasks -> Places] /\ call \in [Tasks -> Calls \cup {None}]
    /\ tm \in [Tasks -> Timers \cup {None}]
    /\ seen \in [Tasks -> Bases \cup {None}] /\ target \in [Tasks -> CPUs \cup {None}]

\* Who holds the lock of a CPU: a task that has locked the base of its timer, the interrupt
\* of the CPU, or the move of the timers of a dead one.
TaskHolds(p, c) ==
    \/ pc[p] = "st_switch" /\ seen[p] = c
    \/ pc[p] = "st_enqueue" /\ target[p] = c
PlugHolds(c) == plug.at = "locked" /\ c \in {plug.from, plug.to}
LockInv ==
    /\ \A c \in CPUs, p \in Tasks : lock[c] = p <=> TaskHolds(p, c)
    /\ \A c, d \in CPUs : lock[c] = d <=> \/ d = c /\ irq[c].at \in {"marked", "post"}
                                          \/ d = plug.to /\ PlugHolds(c)

\* A timer that is moved belongs to the dead CPU until it is in its new queue.
PlugInv ==
    /\ plug.at = "idle" => plug.from = None /\ plug.moving = None
    /\ plug.at # "idle" => plug.from \in CPUs \ online /\ plug.to \in online
    /\ plug.at = "locked" => irq[plug.to].at = "idle"
    /\ plug.moving # None => /\ plug.at = "locked" /\ base[plug.moving] = plug.from
                             /\ state[plug.moving] = "enqueued"
                             /\ \A c \in CPUs : plug.moving \notin queue[c]

IrqInv ==
    /\ running[Migration] = None
    /\ \A c \in CPUs :
         /\ c \notin online => irq[c].at = "idle"
         /\ irq[c].at = "idle" => running[c] = None
         /\ irq[c].at # "idle" => irq[c].timer \in Timers /\ running[c] = irq[c].timer
         /\ irq[c].at = "marked" => irq[c].timer \in queue[c]
         /\ irq[c].at # "idle" /\ irq[c].timer \in Sleepers => ~irq[c].restart

\* What each task is doing, and to a timer that it has locked or taken off its base.
TaskInv ==
    /\ \A p \in Tasks :
         /\ pc[p] = "idle" <=> tm[p] = None
         /\ pc[p] = "idle" <=> call[p] = None
         /\ tm[p] \in Sleepers => p = Owner[tm[p]]
         /\ pc[p] # "idle" => (Sleeps(p) <=> tm[p] \in Sleepers)
         /\ call[p] = "start" => pc[p] \in Starting \cup {"done"}
         /\ call[p] = "cancel" => pc[p] \in Cancelling \cup {"done"}
         /\ pc[p] \in {"lk_take", "tc_take"} \cup Off => seen[p] \in CPUs
         /\ pc[p] \in {"ac_seq"} \cup Counting => seen[p] \in Bases
         /\ pc[p] \in Off => target[p] \in online /\ \A c \in CPUs : tm[p] \notin queue[c]
         /\ pc[p] = "st_switch" => base[tm[p]] = seen[p]
         /\ pc[p] = "st_enqueue" => base[tm[p]] = target[p]
         /\ pc[p] \in Between => base[tm[p]] = Migration
    /\ \A p, q \in Tasks : pc[p] \in Off /\ pc[q] \in Off /\ tm[p] = tm[q] => p = q

\* A sleeper that its owner does not wait for is idle, and hrtimer_active is never wrong
\* about a sleeper, since nobody but its owner starts it.
SleeperInv ==
    /\ \A t \in Sleepers :
         tm[Owner[t]] # t \/ pc[Owner[t]] \in {"done", "inactive", "sl_loop"} => Idle(t)
    /\ \A p \in Tasks : tm[p] \in Sleepers =>
         /\ pc[p] \in {"ac_running", "ac_retry"} => state[tm[p]] = "inactive"
         /\ pc[p] = "ac_retry" => Idle(tm[p]) \/ base[tm[p]] # seen[p]

IInv == TypeInv /\ LockInv /\ PlugInv /\ IrqInv /\ TaskInv /\ OneHome /\ SleeperInv

-----------------------------------------------------------------------------
(* What the readers without a lock know.                                   *)

ReadInv ==
    \A p \in Tasks :
      /\ pc[p] \in Counting /\ base[tm[p]] # seen[p] => left[p]
      /\ pc[p] = "ac_running" => sawIdle[p] \/ stale[p] \/ left[p] \/ running[seen[p]] = tm[p]
      /\ pc[p] = "ac_retry" => sawIdle[p] \/ stale[p] \/ left[p]
      /\ pc[p] = "inactive" => sawIdle[p] \/ left[p]

\* Whom nobody disturbs sees a timer that, once idle, stays idle.
CancelInv ==
    \A p \in Tasks : call[p] = "cancel" /\ ~disturbed[p] =>
      /\ \A r \in Tasks \ {p} : call[r] = "start" => pc[r] = "done"
      /\ pc[p] \in Reading \cup {"inactive"} /\ sawIdle[p] => Idle(tm[p])
      /\ pc[p] = "done" => left[p] \/ Idle(tm[p])

\* Names that are told apart.
LEMMA Names ==
    /\ Migration \notin CPUs /\ CPUs \cap Tasks = {} /\ None \notin CPUs /\ None \notin Tasks
    /\ None \notin Timers /\ None # Migration /\ None \notin Bases
    /\ None \notin Calls /\ \A t \in Timers : Owner[t] \in Tasks
BY PlacesAssumption, NamesAssumption, CallsAssumption DEF Bases

LEMMA InitInv == Init => IInv
<1> SUFFICES ASSUME Init PROVE IInv
  OBVIOUS
<1> USE Names
<1>1. TypeInv
  <2>1. /\ queue \in [CPUs -> SUBSET Timers] /\ running \in [Bases -> Timers \cup {None}]
        /\ lock \in [CPUs -> Tasks \cup CPUs \cup {None}]
    BY DEF Init
  <2>2. irq \in [CPUs -> [at : IrqPlaces, timer : Timers \cup {None}, restart : BOOLEAN]]
    BY DEF Init, IrqPlaces
  <2>3. plug \in [at : {"idle", "dead", "locked"}, from : CPUs \cup {None},
                  to : CPUs \cup {None}, moving : Timers \cup {None}]
    BY DEF Init
  <2>4. online = CPUs /\ on \in [Tasks -> online]
    BY PlacesAssumption DEF Init
  <2>5. base \in [Timers -> Bases] /\ state \in [Timers -> {"inactive", "enqueued"}]
        /\ kind \in [Timers -> {"shared", "sleeper"}]
    BY DEF Init, Bases
  <2>6. /\ pc \in [Tasks -> Places] /\ call \in [Tasks -> Calls \cup {None}]
        /\ tm \in [Tasks -> Timers \cup {None}]
        /\ seen \in [Tasks -> Bases \cup {None}] /\ target \in [Tasks -> CPUs \cup {None}]
    BY DEF Init, Places
  <2>7. QED
    BY <2>1, <2>2, <2>3, <2>4, <2>5, <2>6 DEF TypeInv
<1>2. /\ \A c \in CPUs : irq[c].at = "idle" /\ lock[c] = None
      /\ \A p \in Tasks : pc[p] = "idle" /\ tm[p] = None /\ call[p] = None
      /\ \A b \in Bases : running[b] = None
      /\ plug.at = "idle" /\ plug.from = None /\ plug.moving = None /\ online = CPUs
  BY DEF Init
<1>3. \A t \in Timers : /\ base[t] \in CPUs /\ state[t] \in {"inactive", "enqueued"}
                        /\ t \in Sleepers => state[t] = "inactive"
                        /\ \A c \in CPUs : t \in queue[c] <=> state[t] = "enqueued" /\ base[t] = c
  BY DEF Init
<1>4. LockInv
  BY <1>2 DEF LockInv, TaskHolds, PlugHolds
<1>5. PlugInv /\ IrqInv
  BY <1>2 DEF PlugInv, IrqInv, Bases
<1>6. TaskInv
  BY <1>2 DEF TaskInv, Off, Locked, Between, Counting, Sleepers, Calls
<1>7. OneHome
  BY <1>2, <1>3 DEF OneHome, Bases
<1>8. SleeperInv
  BY <1>2, <1>3 DEF SleeperInv, Idle, Sleepers
<1>9. QED
  BY <1>1, <1>4, <1>5, <1>6, <1>7, <1>8 DEF IInv

\* A step of a task that has no interrupts off before or after it and leaves the timers alone.
LEMMA QuietStep ==
    ASSUME IInv, NEW p \in Tasks, NEW to \in Quiet \ {"idle"}, pc[p] \in Quiet \ {"idle"},
           pc' = [pc EXCEPT ![p] = to],
           UNCHANGED <<timerVars, lock, cpuVars, call, tm, target>>,
           seen' \in [Tasks -> Bases \cup {None}], \A q \in Tasks \ {p} : seen'[q] = seen[q],
           call[p] = "start" => to \in Starting \cup {"done"},
           call[p] = "cancel" => to \in Cancelling \cup {"done"},
           to \in {"lk_take", "tc_take"} => seen'[p] \in CPUs,
           to \in {"ac_seq"} \cup Counting => seen'[p] \in Bases,
           tm[p] \in Sleepers /\ to \in {"done", "inactive", "sl_loop"} => Idle(tm[p]),
           tm[p] \in Sleepers /\ to \in {"ac_running", "ac_retry"} => state[tm[p]] = "inactive",
           tm[p] \in Sleepers /\ to = "ac_retry" => Idle(tm[p]) \/ base[tm[p]] # seen'[p]
    PROVE  IInv'
<1> USE Names DEF IInv
<1>1. /\ pc'[p] = to /\ \A q \in Tasks \ {p} : pc'[q] = pc[q]
      /\ \A q \in Tasks : pc'[q] = "idle" <=> pc[q] = "idle"
      /\ \A q \in Tasks : (pc[q] \in Off \/ pc'[q] \in Off) => q # p /\ pc'[q] = pc[q] /\ seen'[q] = seen[q]
  BY DEF TypeInv, Quiet
<1>2. /\ UNCHANGED <<kind, base, state, queue, running, lock, online, irq, plug, on, call, tm, target>>
      /\ Sleepers' = Sleepers
  BY DEF timerVars, cpuVars, Sleepers
<1>3. TypeInv'
  BY <1>2 DEF TypeInv, Quiet
<1>4. LockInv'
  <2>1. \A q \in Tasks, c \in CPUs : TaskHolds(q, c)' <=> TaskHolds(q, c)
    BY <1>1, <1>2 DEF TaskHolds, Off, Locked
  <2>2. QED
    BY <1>2, <2>1 DEF LockInv, PlugHolds
<1>5. PlugInv' /\ IrqInv'
  BY <1>2 DEF PlugInv, IrqInv
<1>6. TaskInv'
  <2>1. \A q \in Tasks : Sleeps(q)' <=> Sleeps(q)
    BY <1>2 DEF Sleeps
  <2>2. QED
    BY <1>1, <1>2, <2>1 DEF TaskInv, Off, Locked, Between
<1>7. OneHome'
  <2>1. \A q \in Tasks : IrqsOff(q)' <=> IrqsOff(q)
    BY <1>1 DEF IrqsOff, Off, Locked, Between
  <2>2. QED
    BY <1>2, <2>1 DEF OneHome
<1>8. SleeperInv'
  <2>1. \A t \in Timers : Idle(t)' <=> Idle(t)
    BY <1>2 DEF Idle
  <2>2. QED
    BY <1>1, <1>2, <2>1 DEF SleeperInv, TaskInv, Sleepers
<1>9. QED
  BY <1>3, <1>4, <1>5, <1>6, <1>7, <1>8

\* Reading the base, hrtimer_active, and the steps of a sleeper outside its timer.
LEMMA QuietSteps ==
    ASSUME IInv, NEW p \in Tasks,
           \/ ReadBase(p, "lk_read", "lk_take") \/ Moved(p, "lk_take", "lk_read")
           \/ ReadBase(p, "tc_read", "tc_take") \/ Moved(p, "tc_take", "tc_read")
           \/ ActiveBase(p) \/ ActiveSeq(p) \/ ActiveState(p) \/ ActiveRunning(p) \/ ActiveRetry(p)
           \/ NothingToCancel(p) \/ CancelRunning(p) \/ Sleep(p)
    PROVE  IInv'
<1> USE Names DEF IInv
<1>1. /\ seen \in [Tasks -> Bases \cup {None}] /\ pc \in [Tasks -> Places]
      /\ pc[p] # "idle" => tm[p] \in Timers /\ base[tm[p]] \in Bases /\ (Sleeps(p) <=> tm[p] \in Sleepers)
      /\ tm[p] \in Sleepers => p = Owner[tm[p]]
      /\ Sleeps(p) => call[p] # "start" /\ call[p] # "cancel"
  BY DEF TypeInv, TaskInv, Sleeps
<1>2. /\ call[p] = "start" => pc[p] \in Starting \cup {"done"}
      /\ call[p] = "cancel" => pc[p] \in Cancelling \cup {"done"}
      /\ pc[p] \in {"ac_seq"} \cup Counting => seen[p] \in Bases
  BY DEF TaskInv
<1> USE DEF Quiet, Places, Off, Locked, Between, Goto, Starting, Cancelling, Reading, Counting, Sleeping
<1>3. CASE ReadBase(p, "lk_read", "lk_take") \/ ReadBase(p, "tc_read", "tc_take")
  <2>1. seen' \in [Tasks -> Bases \cup {None}] /\ \A q \in Tasks \ {p} : seen'[q] = seen[q]
    BY <1>1, <1>3 DEF ReadBase
  <2>2. seen'[p] \in CPUs
    BY <1>1, <1>3 DEF ReadBase, Bases
  <2>3. UNCHANGED <<timerVars, lock, cpuVars, call, tm, target>>
    BY <1>3 DEF ReadBase
  <2>4. CASE ReadBase(p, "lk_read", "lk_take")
    BY <1>2, <2>1, <2>2, <2>3, <2>4, QuietStep DEF ReadBase
  <2>5. CASE ReadBase(p, "tc_read", "tc_take")
    BY <1>2, <2>1, <2>2, <2>3, <2>5, QuietStep DEF ReadBase
  <2>6. QED
    BY <1>3, <2>4, <2>5
<1>4. CASE ActiveBase(p)
  <2>1. seen' \in [Tasks -> Bases \cup {None}] /\ \A q \in Tasks \ {p} : seen'[q] = seen[q]
    BY <1>1, <1>4 DEF ActiveBase
  <2>2. seen'[p] \in Bases
    BY <1>1, <1>4 DEF ActiveBase
  <2>3. QED
    BY <1>2, <1>4, <2>1, <2>2, QuietStep DEF ActiveBase
<1>5. ASSUME UNCHANGED <<timerVars, lock, cpuVars, call, tm, target, seen>>
      PROVE  IInv'
  <2> USE <1>5
  <2>1. CASE Moved(p, "lk_take", "lk_read")
    BY <1>1, <1>2, <2>1, QuietStep DEF Moved, Step
  <2>2. CASE Moved(p, "tc_take", "tc_read") \/ CancelRunning(p)
    BY <1>1, <1>2, <2>2, QuietStep DEF Moved, Step, CancelRunning, AfterMinusOne
  <2>3. CASE ActiveSeq(p)
    BY <1>1, <1>2, <2>3, QuietStep DEF ActiveSeq, Step
  <2>4. CASE ActiveState(p)
    <3>1. CASE state[tm[p]] # "inactive"
      BY <1>1, <1>2, <2>4, <3>1, QuietStep DEF ActiveState, Step
    <3>2. CASE state[tm[p]] = "inactive"
      BY <1>1, <1>2, <2>4, <3>2, QuietStep DEF ActiveState, Step
    <3>3. QED
      BY <3>1, <3>2
  <2>5. CASE ActiveRunning(p)
    <3>1. CASE running[seen[p]] = tm[p]
      BY <1>1, <1>2, <2>5, <3>1, QuietStep DEF ActiveRunning, Step
    <3>2. CASE running[seen[p]] # tm[p]
      <4>1. tm[p] \in Sleepers => state[tm[p]] = "inactive"
        BY <2>5 DEF ActiveRunning, Step, SleeperInv
      <4>2. tm[p] \in Sleepers => Idle(tm[p]) \/ base[tm[p]] # seen[p]
        <5>1. SUFFICES ASSUME tm[p] \in Sleepers, NEW b \in Bases, running[b] = tm[p]
                       PROVE  base[tm[p]] # seen[p]
          BY <4>1 DEF Idle
        <5>2. tm[p] \in Timers /\ b \in CPUs
          BY <1>1, <5>1, <2>5 DEF ActiveRunning, Step, IrqInv, Bases
        <5>3. base[tm[p]] = b
          BY <5>1, <5>2 DEF OneHome
        <5>4. QED
          BY <3>2, <5>1, <5>3
      <4>3. QED
        BY <1>1, <1>2, <2>5, <3>2, <4>1, <4>2, QuietStep DEF ActiveRunning, Step
    <3>3. QED
      BY <3>1, <3>2
  <2>6. CASE ActiveRetry(p)
    <3>1. CASE MustRetry(p)
      BY <1>1, <1>2, <2>6, <3>1, QuietStep DEF ActiveRetry
    <3>2. CASE ~MustRetry(p)
      <4>1. tm[p] \in Sleepers => Idle(tm[p])
        BY <2>6, <3>2 DEF ActiveRetry, MustRetry, SleeperInv
      <4>2. QED
        BY <1>1, <1>2, <2>6, <3>2, <4>1, QuietStep DEF ActiveRetry
    <3>3. QED
      BY <3>1, <3>2
  <2>7. CASE NothingToCancel(p)
    <3>1. tm[p] \in Sleepers => Idle(tm[p])
      BY <1>1, <2>7 DEF NothingToCancel, Step, SleeperInv
    <3>2. CASE Sleeps(p)
      BY <1>1, <1>2, <2>7, <3>1, <3>2, QuietStep DEF NothingToCancel, Step, AfterCancel
    <3>3. CASE ~Sleeps(p)
      BY <1>1, <1>2, <2>7, <3>1, <3>3, QuietStep DEF NothingToCancel, Step, AfterCancel
    <3>4. QED
      BY <3>2, <3>3
  <2>8. CASE SetState(p)
    BY <1>1, <1>2, <2>8, QuietStep DEF SetState
  <2>9. CASE TestTask(p)
    <3>1. CASE waiting[tm[p]]
      BY <1>1, <1>2, <2>9, <3>1, QuietStep DEF TestTask, Step
    <3>2. CASE ~waiting[tm[p]]
      BY <1>1, <1>2, <2>9, <3>2, QuietStep DEF TestTask, Step
    <3>3. QED
      BY <3>1, <3>2
  <2>10. CASE Schedule(p)
    BY <1>1, <1>2, <2>10, QuietStep DEF Schedule
  <2>11. CASE AfterSleep(p)
    <3>1. tm[p] \in Sleepers => Idle(tm[p])
      BY <1>1, <2>11 DEF AfterSleep, SleeperInv
    <3>2. CASE SleepOn(p)
      BY <1>1, <1>2, <2>11, <3>1, <3>2, QuietStep DEF AfterSleep
    <3>3. CASE ~SleepOn(p)
      BY <1>1, <1>2, <2>11, <3>1, <3>3, QuietStep DEF AfterSleep
    <3>4. QED
      BY <3>2, <3>3
  <2>12. ASSUME \/ Moved(p, "lk_take", "lk_read") \/ Moved(p, "tc_take", "tc_read")
                \/ ActiveSeq(p) \/ ActiveState(p) \/ ActiveRunning(p) \/ ActiveRetry(p)
                \/ NothingToCancel(p) \/ CancelRunning(p) \/ Sleep(p)
         PROVE  IInv'
    BY <2>1, <2>2, <2>3, <2>4, <2>5, <2>6, <2>7, <2>8, <2>9, <2>10, <2>11, <2>12 DEF Sleep
  <2>13. QED
    BY <1>3, <1>4, <2>12
<1>6. QED
  <2>1. CASE \/ Moved(p, "lk_take", "lk_read") \/ Moved(p, "tc_take", "tc_read")
             \/ ActiveSeq(p) \/ ActiveState(p) \/ ActiveRunning(p) \/ ActiveRetry(p)
             \/ NothingToCancel(p) \/ CancelRunning(p) \/ Sleep(p)
    BY <1>5, <2>1 DEF Moved, Step, ActiveSeq, ActiveState, ActiveRunning, ActiveRetry,
       NothingToCancel, CancelRunning, Sleep, SetState, TestTask, Schedule, AfterSleep, localVars
  <2>2. QED
    BY <1>3, <1>4, <2>1

\* Steps that leave the interrupts, the locks and the queues alone: what is left to show.
LEMMA OutsideStep ==
    ASSUME IInv,
           UNCHANGED <<kind, state, queue, running, lock, cpuVars>>,
           \A q \in Tasks : (pc[q] \in Off \/ pc'[q] \in Off) =>
               pc'[q] = pc[q] /\ seen'[q] = seen[q] /\ target'[q] = target[q] /\ tm'[q] = tm[q],
           base' \in [Timers -> Bases],
           \A t \in Timers : base'[t] # base[t] =>
               t \in Sleepers /\ Idle(t) /\ \A q \in Tasks : tm[q] = t => pc[q] \notin Off
    PROVE  LockInv' /\ PlugInv' /\ IrqInv' /\ OneHome' /\ \A t \in Timers : Idle(t)' <=> Idle(t)
<1> USE Names DEF IInv
<1>1. /\ UNCHANGED <<kind, state, queue, running, lock, online, irq, plug, on>>
      /\ Sleepers' = Sleepers
  BY DEF cpuVars, Sleepers
<1>2. LockInv'
  <2>1. \A q \in Tasks, c \in CPUs : TaskHolds(q, c)' <=> TaskHolds(q, c)
    BY <1>1 DEF TaskHolds, Off, Locked
  <2>2. QED
    BY <1>1, <2>1 DEF LockInv, PlugHolds
<1>3. \A t \in Timers : Idle(t) => state[t] # "enqueued"
  BY DEF Idle
<1>4. PlugInv'
  <2>1. plug.moving # None => base'[plug.moving] = base[plug.moving]
    <3>1. plug.moving # None => plug.moving \in Timers /\ state[plug.moving] = "enqueued"
      BY DEF PlugInv, TypeInv
    <3>2. QED
      BY <1>3, <3>1
  <2>2. QED
    BY <1>1, <2>1 DEF PlugInv
<1>5. IrqInv'
  BY <1>1 DEF IrqInv
<1>6. OneHome'
  <2>1. \A q \in Tasks : (IrqsOff(q) => IrqsOff(q)' /\ tm'[q] = tm[q])
    BY DEF IrqsOff, Off, Locked, Between
  <2>2. \A t \in Timers, c \in CPUs : t \in queue'[c] => base'[t] = c /\ state'[t] = "enqueued"
    BY <1>1, <1>3 DEF OneHome
  <2>3. \A t \in Timers, c \in CPUs : running'[c] = t => base'[t] = c
    BY <1>1 DEF OneHome, Idle, Bases
  <2>4. \A t \in Timers : state'[t] = "enqueued" =>
           \/ \E c \in CPUs : t \in queue'[c]
           \/ \E p \in Tasks : IrqsOff(p)' /\ tm'[p] = t
           \/ plug'.moving = t
    BY <1>1, <2>1 DEF OneHome
  <2>5. \A c \in CPUs \ online' : plug'.from # c => queue'[c] = {}
    BY <1>1 DEF OneHome
  <2>6. QED
    BY <2>2, <2>3, <2>4, <2>5 DEF OneHome
<1>7. \A t \in Timers : Idle(t)' <=> Idle(t)
  BY <1>1 DEF Idle
<1>8. QED
  BY <1>2, <1>4, <1>5, <1>6, <1>7

\* A call begins: on a shared timer, or on the timer in the stack frame of the task.
LEMMA CallStep ==
    ASSUME IInv, NEW p \in Tasks, CallStart(p) \/ CallCancel(p) \/ Nanosleep(p) \/ ScheduleTimeout(p)
    PROVE  IInv'
<1> USE Names DEF IInv
<1>1. PICK t \in Timers, op \in Calls, first \in Quiet \ {"idle", "done"} :
        /\ Call(p, t, op, first)
        /\ op = "start" => first \in Starting
        /\ op = "cancel" => first = "ac_base"
        /\ first \in {"lk_read", "ac_base", "sl_state"}
        /\ op \in {"nanosleep", "timeout"} <=> t \in Sleepers
        /\ t \in Sleepers => Owner[t] = p /\ InitTimer(p, t)
        /\ t \notin Sleepers => UNCHANGED <<base, state>>
  <2> USE DEF Calls, Quiet, Places, Off, Locked, Between, Starting, Reading, Sleeping, Sleepers
  <2>1. CASE CallStart(p)
    BY <2>1 DEF CallStart
  <2>2. CASE CallCancel(p)
    BY <2>2 DEF CallCancel
  <2>3. CASE Nanosleep(p)
    BY <2>3 DEF Nanosleep, InitSleeper
  <2>4. CASE ScheduleTimeout(p)
    BY <2>4 DEF ScheduleTimeout, InitSleeper
  <2>5. QED
    BY <2>1, <2>2, <2>3, <2>4
<1>2. /\ pc[p] = "idle" /\ tm[p] = None /\ call[p] = None
      /\ pc' = [pc EXCEPT ![p] = first] /\ call' = [call EXCEPT ![p] = op] /\ tm' = [tm EXCEPT ![p] = t]
      /\ UNCHANGED <<kind, queue, running, lock, cpuVars, seen, target>>
      /\ Sleepers' = Sleepers
  BY <1>1 DEF Call, Goto, TaskInv, Sleepers
<1>3. UNCHANGED <<online, irq, plug, on>>
  BY <1>2 DEF cpuVars
<1>4. t \in Sleepers => Idle(t)
  BY <1>1, <1>2 DEF SleeperInv
<1>5. state' = state /\ base' \in [Timers -> Bases]
      /\ \A u \in Timers : base'[u] # base[u] => u = t /\ t \in Sleepers
  <2>1. CASE t \in Sleepers
    <3>1. state' = state
      <4>1. state \in [Timers -> {"inactive", "enqueued"}] /\ state[t] = "inactive"
        BY <1>4, <2>1 DEF Idle, TypeInv
      <4>2. state' = [state EXCEPT ![t] = "inactive"]
        BY <1>1, <2>1 DEF InitTimer
      <4>3. QED
        BY <4>1, <4>2
    <3>2. on[p] \in Bases
      BY DEF TypeInv, Bases
    <3>3. QED
      BY <1>1, <2>1, <3>1, <3>2 DEF InitTimer, TypeInv
  <2>2. CASE t \notin Sleepers
    BY <1>1, <2>2 DEF TypeInv
  <2>3. QED
    BY <2>1, <2>2
<1>6. /\ pc'[p] = first /\ tm'[p] = t /\ call'[p] = op
      /\ \A q \in Tasks \ {p} : pc'[q] = pc[q] /\ tm'[q] = tm[q] /\ call'[q] = call[q]
  BY <1>2 DEF TypeInv
<1>7. \A q \in Tasks : (pc[q] \in Off \/ pc'[q] \in Off) => q # p
  BY <1>1, <1>2, <1>6 DEF Off, Locked, Between
<1>8. \A u \in Timers : base'[u] # base[u] =>
        u \in Sleepers /\ Idle(u) /\ \A q \in Tasks : tm[q] # u
  <2>1. \A q \in Tasks : t \in Sleepers => tm[q] # t
    BY <1>1, <1>2 DEF TaskInv
  <2>2. QED
    BY <1>4, <1>5, <2>1
<1>9. LockInv' /\ PlugInv' /\ IrqInv' /\ OneHome' /\ \A u \in Timers : Idle(u)' <=> Idle(u)
  BY <1>2, <1>5, <1>6, <1>7, <1>8, OutsideStep
<1>10. TypeInv'
  BY <1>1, <1>2, <1>3, <1>5 DEF TypeInv, Quiet
<1>11. TaskInv'
  <2>1. \A q \in Tasks \ {p} : Sleeps(q)' <=> Sleeps(q)
    BY <1>6 DEF Sleeps
  <2>2. Sleeps(p)' <=> t \in Sleepers
    BY <1>1, <1>6 DEF Sleeps
  <2>3. \A q \in Tasks \ {p} : pc[q] \in Off => base'[tm[q]] = base[tm[q]]
    <3>1. \A q \in Tasks \ {p} : pc[q] \in Off => tm[q] \in Timers
      BY DEF TaskInv, TypeInv, Off, Locked, Between
    <3>2. QED
      BY <1>8, <3>1
  <2>4. /\ pc'[p] # "idle" /\ tm'[p] # None /\ call'[p] # None /\ pc'[p] \notin Off
        /\ tm'[p] \in Sleepers => p = Owner[tm'[p]]
        /\ call'[p] = "start" => pc'[p] \in Starting \cup {"done"}
        /\ call'[p] = "cancel" => pc'[p] \in Cancelling \cup {"done"}
        /\ pc'[p] \notin {"lk_take", "tc_take"} /\ pc'[p] \notin {"ac_seq"} \cup Counting
    BY <1>1, <1>6, <1>7 DEF Cancelling, Reading, Counting
  <2>5. QED
    BY <1>2, <1>3, <1>6, <1>7, <2>1, <2>2, <2>3, <2>4 DEF TaskInv, Off, Locked, Between
<1>12. SleeperInv'
  <2>1. \A u \in Sleepers : tm'[Owner[u]] # u \/ pc'[Owner[u]] \in {"done", "inactive", "sl_loop"} => Idle(u)
    <3>1. SUFFICES ASSUME NEW u \in Sleepers,
                          tm'[Owner[u]] # u \/ pc'[Owner[u]] \in {"done", "inactive", "sl_loop"}
                   PROVE  Idle(u)
      OBVIOUS
    <3>2. Owner[u] = p => tm[Owner[u]] # u
      BY <1>2 DEF Sleepers
    <3>3. QED
      BY <1>6, <3>1, <3>2 DEF SleeperInv, Sleepers
  <2>2. \A q \in Tasks : tm'[q] \in Sleepers =>
         /\ pc'[q] \in {"ac_running", "ac_retry"} => state[tm'[q]] = "inactive"
         /\ pc'[q] = "ac_retry" => Idle(tm'[q]) \/ base'[tm'[q]] # seen[q]
    <3>1. SUFFICES ASSUME NEW q \in Tasks, tm'[q] \in Sleepers, pc'[q] \in {"ac_running", "ac_retry"}
                   PROVE  /\ state[tm'[q]] = "inactive"
                          /\ pc'[q] = "ac_retry" => Idle(tm'[q]) \/ base'[tm'[q]] # seen[q]
      OBVIOUS
    <3>2. q # p /\ tm'[q] = tm[q] /\ pc'[q] = pc[q] /\ tm[q] \in Timers
      BY <1>1, <1>6, <3>1 DEF Sleepers
    <3>3. QED
      BY <1>8, <3>1, <3>2 DEF SleeperInv
  <2>3. QED
    BY <1>2, <1>5, <1>9, <2>1, <2>2 DEF SleeperInv, Sleepers
<1>13. QED
  BY <1>9, <1>10, <1>11, <1>12

\* A call returns.
LEMMA ReturnStep ==
    ASSUME IInv, NEW p \in Tasks, Return(p)
    PROVE  IInv'
<1> USE Names DEF IInv
<1>1. /\ pc[p] = "done"
      /\ pc' = [pc EXCEPT ![p] = "idle"] /\ call' = [call EXCEPT ![p] = None]
      /\ tm' = [tm EXCEPT ![p] = None]
      /\ seen' = [seen EXCEPT ![p] = None] /\ target' = [target EXCEPT ![p] = None]
      /\ UNCHANGED <<kind, base, state, queue, running, lock, cpuVars, online, irq, plug, on>>
      /\ Sleepers' = Sleepers
  BY DEF Return, Goto, timerVars, cpuVars, Sleepers
<1>2. /\ pc'[p] = "idle" /\ tm'[p] = None /\ call'[p] = None
      /\ \A q \in Tasks \ {p} : /\ pc'[q] = pc[q] /\ tm'[q] = tm[q] /\ call'[q] = call[q]
                                /\ seen'[q] = seen[q] /\ target'[q] = target[q]
  BY <1>1 DEF TypeInv
<1>3. \A q \in Tasks : (pc[q] \in Off \/ pc'[q] \in Off) => q # p
  BY <1>1, <1>2 DEF Off, Locked, Between
<1>4. TypeInv'
  BY <1>1 DEF TypeInv, Places
<1>5. LockInv' /\ PlugInv' /\ IrqInv' /\ OneHome' /\ \A u \in Timers : Idle(u)' <=> Idle(u)
  <2>1. base' \in [Timers -> Bases]
    BY <1>1 DEF TypeInv
  <2>2. QED
    BY <1>1, <1>2, <1>3, <2>1, OutsideStep
<1>6. TaskInv'
  <2>1. \A q \in Tasks \ {p} : Sleeps(q)' <=> Sleeps(q)
    BY <1>2 DEF Sleeps
  <2>2. None \notin Sleepers
    BY DEF Sleepers
  <2>3. pc'[p] \notin Off \cup Counting \cup {"lk_take", "tc_take", "ac_seq"}
    BY <1>2 DEF Off, Locked, Between, Counting
  <2>4. call'[p] # "start" /\ call'[p] # "cancel"
    BY <1>2 DEF Calls
  <2>5. QED
    BY <1>1, <1>2, <1>3, <2>1, <2>2, <2>3, <2>4 DEF TaskInv, Off, Locked, Between
<1>7. SleeperInv'
  <2>1. \A u \in Sleepers : Owner[u] \in Tasks /\ u \in Timers
    BY DEF Sleepers
  <2>2. \A u \in Sleepers : Owner[u] = p => Idle(u)
    BY <1>1, <2>1 DEF SleeperInv
  <2>3. QED
    BY <1>1, <1>2, <1>5, <2>1, <2>2 DEF SleeperInv
<1>8. QED
  BY <1>4, <1>5, <1>6, <1>7

\* Whoever has a timer off its base, or has the lock of its base, is alone with it.
Mine(p) ==
    /\ tm[p] \in Timers
    /\ \A q \in Tasks \ {p} : tm[q] = tm[p] => pc[q] \notin Off
    /\ plug.moving # tm[p]
    /\ \A c \in CPUs : irq[c].at = "marked" => irq[c].timer # tm[p]

LEMMA MineLemma ==
    ASSUME IInv, NEW p \in Tasks,
           pc[p] \in Off \/ (pc[p] \in {"lk_take", "tc_take"} /\ TakeBase(p))
    PROVE  Mine(p)
<1> USE Names DEF IInv
<1>1. tm[p] \in Timers /\ (pc[p] \in {"lk_take", "tc_take"} => base[tm[p]] \in CPUs /\ lock[base[tm[p]]] = None)
  BY DEF TaskInv, TypeInv, Off, Locked, Between, TakeBase, Free
<1>2. \A c \in CPUs : pc[p] \in Off /\ base[tm[p]] = c => lock[c] = p
  BY DEF TaskInv, LockInv, TaskHolds, Off, Locked, Between
<1>3. \A q \in Tasks \ {p} : tm[q] = tm[p] => pc[q] \notin Off
  <2>1. SUFFICES ASSUME NEW q \in Tasks \ {p}, tm[q] = tm[p], pc[q] \in Off PROVE FALSE
    OBVIOUS
  <2>2. pc[p] \in {"lk_take", "tc_take"} /\ TakeBase(p)
    BY <2>1 DEF TaskInv
  <2>3. pc[q] \in Locked
    BY <1>1, <2>1, <2>2 DEF TaskInv, Off
  <2>4. TaskHolds(q, base[tm[q]])
    BY <2>3 DEF TaskInv, Locked, TaskHolds
  <2>5. QED
    BY <1>1, <2>1, <2>2, <2>4 DEF LockInv
<1>4. plug.moving # tm[p]
  <2>1. SUFFICES ASSUME plug.moving = tm[p] PROVE FALSE
    OBVIOUS
  <2>2. plug.at = "locked" /\ plug.from \in CPUs /\ plug.to \in CPUs /\ base[tm[p]] = plug.from
    BY <1>1, <2>1 DEF PlugInv, TypeInv
  <2>3. lock[plug.from] = plug.to
    BY <2>2 DEF LockInv, PlugHolds
  <2>4. QED
    BY <1>1, <1>2, <2>2, <2>3
<1>5. \A c \in CPUs : irq[c].at = "marked" => irq[c].timer # tm[p]
  <2>1. SUFFICES ASSUME NEW c \in CPUs, irq[c].at = "marked", irq[c].timer = tm[p] PROVE FALSE
    OBVIOUS
  <2>2. tm[p] \in queue[c] /\ lock[c] = c
    BY <2>1 DEF IrqInv, LockInv
  <2>3. base[tm[p]] = c
    BY <1>1, <2>2 DEF OneHome
  <2>4. QED
    BY <1>1, <1>2, <2>2, <2>3
<1>6. QED
  BY <1>1, <1>3, <1>4, <1>5 DEF Mine

\* A step of a task with the timer that it has for itself: what it must take care of.
Careful(p, to) ==
    /\ pc[p] \in {"lk_take", "tc_take"} \cup Off
    /\ pc' = [pc EXCEPT ![p] = to]
    /\ UNCHANGED <<kind, running, cpuVars, call, tm, seen>>
    /\ target' \in [Tasks -> CPUs \cup {None}] /\ \A q \in Tasks \ {p} : target'[q] = target[q]
    /\ base' \in [Timers -> Bases] /\ state' \in [Timers -> {"inactive", "enqueued"}]
    /\ queue' \in [CPUs -> SUBSET Timers] /\ lock' \in [CPUs -> Tasks \cup CPUs \cup {None}]
    /\ \A u \in Timers \ {tm[p]} :
        base'[u] = base[u] /\ state'[u] = state[u] /\ \A c \in CPUs : u \in queue'[c] <=> u \in queue[c]
    /\ \A c \in CPUs : lock'[c] # lock[c] => {lock[c], lock'[c]} \subseteq {None, p}
    /\ \A c \in CPUs : lock'[c] = p <=> TaskHolds(p, c)'
    /\ base'[tm[p]] # base[tm[p]] => \A c \in CPUs : running[c] # tm[p]
    /\ \A c \in CPUs : tm[p] \in queue'[c] =>
        base'[tm[p]] = c /\ state'[tm[p]] = "enqueued" /\ c \in online /\ to \notin Off
    /\ state'[tm[p]] = "enqueued" => to \in Off \/ \E c \in CPUs : tm[p] \in queue'[c]
    /\ call[p] = "start" => to \in Starting \cup {"done"}
    /\ call[p] = "cancel" => to \in Cancelling \cup {"done"}
    /\ to \in {"lk_take", "tc_take"} \cup Off => seen[p] \in CPUs
    /\ to \in Off => target'[p] \in online
    /\ to = "st_switch" => base'[tm[p]] = seen[p]
    /\ to = "st_enqueue" => base'[tm[p]] = target'[p]
    /\ to \in Between => base'[tm[p]] = Migration
    /\ tm[p] \in Sleepers /\ to \in {"done", "sl_loop"} => Idle(tm[p])'

LEMMA LockStep ==
    ASSUME IInv, NEW p \in Tasks, Mine(p), NEW to \in Places \ ({"idle", "inactive"} \cup Reading),
           Careful(p, to)
    PROVE  IInv'
<1> USE Names DEF IInv, Careful
<1> DEFINE t == tm[p]
<1>1. /\ pc'[p] = to /\ \A q \in Tasks \ {p} : pc'[q] = pc[q]
      /\ to # "idle" /\ pc[p] # "idle" /\ to \notin Reading \cup {"inactive"}
      /\ to \in Places
  <2>1. pc'[p] = to /\ \A q \in Tasks \ {p} : pc'[q] = pc[q]
    BY DEF TypeInv
  <2>2. pc[p] # "idle"
    BY DEF Mine, TaskInv
  <2>3. QED
    BY <2>1, <2>2
<1>2. /\ UNCHANGED <<kind, running, online, irq, plug, on, call, tm, seen>>
      /\ Sleepers' = Sleepers
  BY DEF cpuVars, Sleepers
<1>3. t \in Timers /\ plug.moving # t
  BY DEF Mine
<1>4. TypeInv'
  <2>1. pc' \in [Tasks -> Places]
    <3>1. pc \in [Tasks -> Places] /\ to \in Places
      BY <1>1 DEF TypeInv
    <3>2. QED
      BY <3>1
  <2>2. seen' \in [Tasks -> Bases \cup {None}]
    <3>1. seen \in [Tasks -> Bases \cup {None}]
      BY DEF TypeInv
    <3>2. QED
      BY <1>2, <3>1
  <2>3. QED
    BY <1>2, <2>1, <2>2 DEF TypeInv
<1>5. LockInv'
  <2>1. \A q \in Tasks \ {p}, c \in CPUs : TaskHolds(q, c)' <=> TaskHolds(q, c)
    BY <1>1, <1>2 DEF TaskHolds
  <2>2. \A c \in CPUs, q \in Tasks \ {p} : lock'[c] = q <=> lock[c] = q
    OBVIOUS
  <2>3. \A c, d \in CPUs : lock'[c] = d <=> lock[c] = d
    OBVIOUS
  <2>4. \A c \in CPUs : PlugHolds(c)' <=> PlugHolds(c)
    BY <1>2 DEF PlugHolds
  <2>5. \A c \in CPUs, q \in Tasks : lock'[c] = q <=> TaskHolds(q, c)'
    BY <2>1, <2>2 DEF LockInv
  <2>6. QED
    BY <1>2, <2>3, <2>4, <2>5 DEF LockInv
<1>6. PlugInv'
  <2>1. plug.moving \in Timers \cup {None}
    BY DEF TypeInv
  <2>2. QED
    BY <1>2, <1>3, <2>1 DEF PlugInv
<1>7. IrqInv'
  BY <1>2 DEF IrqInv, Mine
<1>8. TaskInv'
  <2>1. \A q \in Tasks : Sleeps(q)' <=> Sleeps(q)
    BY <1>2 DEF Sleeps
  <2>2. \A q \in Tasks \ {p} : pc[q] \in Off => tm[q] # t /\ tm[q] \in Timers
    BY DEF Mine, TaskInv, TypeInv, Off, Locked, Between
  <2>3. \A q \in Tasks \ {p} : pc'[q] \in Off => base'[tm[q]] = base[tm[q]] /\ \A c \in CPUs : tm[q] \notin queue'[c]
    BY <1>1, <2>2 DEF TaskInv
  <2>4. \A q \in Tasks \ {p} :
         /\ pc'[q] \in {"lk_take", "tc_take"} \cup Off => seen'[q] \in CPUs
         /\ pc'[q] \in {"ac_seq"} \cup Counting => seen'[q] \in Bases
         /\ pc'[q] \in Off => target'[q] \in online' /\ \A c \in CPUs : tm'[q] \notin queue'[c]
         /\ pc'[q] = "st_switch" => base'[tm'[q]] = seen'[q]
         /\ pc'[q] = "st_enqueue" => base'[tm'[q]] = target'[q]
         /\ pc'[q] \in Between => base'[tm'[q]] = Migration
    BY <1>1, <1>2, <2>3 DEF TaskInv, Off, Locked, Between
  <2>5. /\ pc'[p] \in {"lk_take", "tc_take"} \cup Off => seen'[p] \in CPUs
        /\ pc'[p] \notin {"ac_seq"} \cup Counting
        /\ pc'[p] \in Off => target'[p] \in online' /\ \A c \in CPUs : tm'[p] \notin queue'[c]
        /\ pc'[p] = "st_switch" => base'[tm'[p]] = seen'[p]
        /\ pc'[p] = "st_enqueue" => base'[tm'[p]] = target'[p]
        /\ pc'[p] \in Between => base'[tm'[p]] = Migration
    BY <1>1, <1>2 DEF Reading, Counting
  <2>6. \A q \in Tasks :
         /\ pc'[q] = "idle" <=> tm'[q] = None
         /\ pc'[q] = "idle" <=> call'[q] = None
         /\ tm'[q] \in Sleepers' => q = Owner[tm'[q]]
         /\ pc'[q] # "idle" => (Sleeps(q)' <=> tm'[q] \in Sleepers')
         /\ call'[q] = "start" => pc'[q] \in Starting \cup {"done"}
         /\ call'[q] = "cancel" => pc'[q] \in Cancelling \cup {"done"}
    BY <1>1, <1>2, <2>1 DEF TaskInv
  <2>7. \A q, r \in Tasks : pc'[q] \in Off /\ pc'[r] \in Off /\ tm'[q] = tm'[r] => q = r
    BY <1>1, <1>2, <2>2 DEF TaskInv
  <2>8. QED
    BY <2>4, <2>5, <2>6, <2>7 DEF TaskInv
<1>9. OneHome'
  <2>1. \A q \in Tasks \ {p} : IrqsOff(q)' <=> IrqsOff(q)
    BY <1>1 DEF IrqsOff
  <2>2. to \in Off => IrqsOff(p)'
    BY <1>1 DEF IrqsOff, Off, Locked, Between
  <2>3. \A u \in Timers, c \in CPUs : u \in queue'[c] => base'[u] = c /\ state'[u] = "enqueued"
    BY DEF OneHome
  <2>4. \A u \in Timers, c \in CPUs : running'[c] = u => base'[u] = c
    BY <1>2 DEF OneHome
  <2>5. ASSUME NEW u \in Timers, state'[u] = "enqueued"
        PROVE  \/ \E c \in CPUs : u \in queue'[c]
               \/ \E q \in Tasks : IrqsOff(q)' /\ tm'[q] = u
               \/ plug'.moving = u
    <3>1. CASE u = t
      BY <1>2, <2>2, <2>5, <3>1
    <3>2. CASE u # t
      <4>1. state[u] = "enqueued"
        BY <2>5, <3>2
      <4>2. CASE \E c \in CPUs : u \in queue[c]
        BY <3>2, <4>2
      <4>3. CASE \E q \in Tasks : IrqsOff(q) /\ tm[q] = u
        BY <1>2, <2>1, <3>2, <4>3
      <4>4. CASE plug.moving = u
        BY <1>2, <4>4
      <4>5. QED
        BY <4>1, <4>2, <4>3, <4>4 DEF OneHome
    <3>3. QED
      BY <3>1, <3>2
  <2>6. ASSUME NEW c \in CPUs \ online', plug'.from # c PROVE queue'[c] = {}
    <3>1. queue[c] = {}
      BY <1>2, <2>6 DEF OneHome
    <3>2. \A u \in Timers : u \notin queue'[c]
      BY <1>2, <2>6, <3>1
    <3>3. QED
      BY <3>2
  <2>7. QED
    BY <2>3, <2>4, <2>5, <2>6 DEF OneHome
<1>10. SleeperInv'
  <2>1. \A u \in Timers \ {t} : Idle(u)' <=> Idle(u)
    BY <1>2 DEF Idle
  <2>2. t \in Sleepers => Owner[t] = p
    BY DEF TaskInv
  <2>3. ASSUME NEW u \in Sleepers, tm[Owner[u]] # u \/ pc'[Owner[u]] \in {"done", "inactive", "sl_loop"}
        PROVE  Idle(u)'
    <3>1. CASE u = t
      BY <1>1, <2>2, <2>3, <3>1
    <3>2. CASE u # t
      <4>1. u \in Timers /\ Owner[u] \in Tasks
        BY DEF Sleepers
      <4>2. tm[Owner[u]] # u \/ pc[Owner[u]] \in {"done", "inactive", "sl_loop"}
        BY <1>1, <2>3, <3>2, <4>1
      <4>3. QED
        BY <2>1, <3>2, <4>1, <4>2 DEF SleeperInv
    <3>3. QED
      BY <3>1, <3>2
  <2>4. ASSUME NEW q \in Tasks, tm[q] \in Sleepers, pc'[q] \in {"ac_running", "ac_retry"}
        PROVE  /\ state'[tm[q]] = "inactive"
               /\ pc'[q] = "ac_retry" => Idle(tm[q])' \/ base'[tm[q]] # seen[q]
    <3>1. q # p
      BY <1>1, <2>4 DEF Reading, Counting
    <3>2. tm[q] # t /\ tm[q] \in Timers
      BY <2>2, <2>4, <3>1 DEF TaskInv, Sleepers
    <3>3. QED
      BY <1>1, <2>1, <2>4, <3>1, <3>2 DEF SleeperInv
  <2>5. QED
    BY <1>2, <2>3, <2>4 DEF SleeperInv
<1>11. QED
  BY <1>4, <1>5, <1>6, <1>7, <1>8, <1>9, <1>10

\* What a task knows of the timer that it has for itself.
LEMMA MineFacts ==
    ASSUME IInv, NEW p \in Tasks, Mine(p)
    PROVE  /\ tm[p] \in Timers /\ base[tm[p]] \in Bases /\ (Sleeps(p) <=> tm[p] \in Sleepers)
           /\ Sleeps(p) => call[p] # "start" /\ call[p] # "cancel"
           /\ call[p] = "start" => pc[p] \in Starting \cup {"done"}
           /\ call[p] = "cancel" => pc[p] \in Cancelling \cup {"done"}
           /\ pc[p] \in {"lk_take", "tc_take"} \cup Off => seen[p] \in CPUs
           /\ pc[p] \in Off => target[p] \in CPUs /\ target[p] \in online /\ \A c \in CPUs : tm[p] \notin queue[c]
           /\ pc[p] = "st_switch" => base[tm[p]] = seen[p] /\ lock[seen[p]] = p
           /\ pc[p] = "st_enqueue" => base[tm[p]] = target[p] /\ lock[target[p]] = p
           /\ pc[p] \in Between => base[tm[p]] = Migration
           /\ \A c \in CPUs : lock[c] = p => TaskHolds(p, c)
           /\ \A c \in CPUs : tm[p] \in queue[c] => base[tm[p]] = c
           /\ \A c \in CPUs : running[c] = tm[p] => base[tm[p]] = c /\ c \in online
           /\ running[Migration] # tm[p]
<1> USE Names DEF IInv
<1>1. tm[p] \in Timers /\ base[tm[p]] \in Bases /\ pc[p] # "idle"
  BY DEF Mine, TypeInv, TaskInv
<1>2. /\ Sleeps(p) <=> tm[p] \in Sleepers
      /\ Sleeps(p) => call[p] # "start" /\ call[p] # "cancel"
      /\ call[p] = "start" => pc[p] \in Starting \cup {"done"}
      /\ call[p] = "cancel" => pc[p] \in Cancelling \cup {"done"}
  BY <1>1 DEF TaskInv, Sleeps
<1>3. /\ pc[p] \in {"lk_take", "tc_take"} \cup Off => seen[p] \in CPUs
      /\ pc[p] \in Off => target[p] \in CPUs /\ target[p] \in online /\ \A c \in CPUs : tm[p] \notin queue[c]
      /\ pc[p] = "st_switch" => base[tm[p]] = seen[p]
      /\ pc[p] = "st_enqueue" => base[tm[p]] = target[p]
      /\ pc[p] \in Between => base[tm[p]] = Migration
  BY DEF TaskInv, TypeInv
<1>4. /\ \A c \in CPUs : lock[c] = p => TaskHolds(p, c)
      /\ pc[p] = "st_switch" => lock[seen[p]] = p
      /\ pc[p] = "st_enqueue" => lock[target[p]] = p
  BY <1>3 DEF LockInv, TaskHolds, Off, Locked
<1>5. \A c \in CPUs : running[c] = tm[p] => base[tm[p]] = c /\ c \in online
  BY <1>1 DEF OneHome, IrqInv
<1>6. \A c \in CPUs : tm[p] \in queue[c] => base[tm[p]] = c
  BY <1>1 DEF OneHome
<1>7. running[Migration] # tm[p]
  BY <1>1 DEF IrqInv
<1>8. QED
  BY <1>1, <1>2, <1>3, <1>4, <1>5, <1>6, <1>7

\* hrtimer_start_range_ns with the lock, and hrtimer_try_to_cancel with it.
LEMMA StartLockedStep ==
    ASSUME IInv, NEW p \in Tasks, StartLocked(p)
    PROVE  IInv'
<1> USE Names
<1> DEFINE t == tm[p]
           c == seen[p]
<1>1. /\ pc[p] = "lk_take" /\ TakeBase(p)
      /\ pc' = [pc EXCEPT ![p] = "st_switch"]
      /\ lock' = [lock EXCEPT ![c] = p] /\ queue' = [queue EXCEPT ![c] = @ \ {t}]
      /\ state' = [state EXCEPT ![t] = state[t]]
      /\ UNCHANGED <<kind, base, running, cpuVars, call, tm, seen>>
  BY DEF StartLocked, Goto, RestartState
<1>2. PICK n \in online : target' = [target EXCEPT ![p] = n]
  BY DEF StartLocked
<1>3. Mine(p)
  BY <1>1, MineLemma
<1>4. TypeInv
  BY DEF IInv
<1>5. /\ t \in Timers /\ c \in CPUs /\ base[t] = c /\ lock[c] = None
      /\ \A d \in CPUs : t \in queue[d] => d = c
      /\ \A d \in CPUs : lock[d] # p
      /\ n \in CPUs
  BY <1>1, <1>3, <1>4, MineFacts DEF TakeBase, Free, TypeInv, TaskHolds
<1>6. state' = state /\ base' = base /\ base \in [Timers -> Bases] /\ state \in [Timers -> {"inactive", "enqueued"}]
  BY <1>1, <1>4 DEF TypeInv
<1>7. /\ queue' \in [CPUs -> SUBSET Timers]
      /\ \A u \in Timers \ {t} : \A d \in CPUs : u \in queue'[d] <=> u \in queue[d]
      /\ \A d \in CPUs : t \notin queue'[d]
  BY <1>1, <1>4, <1>5 DEF TypeInv
<1>8. /\ lock' \in [CPUs -> Tasks \cup CPUs \cup {None}]
      /\ \A d \in CPUs : lock'[d] # lock[d] => {lock[d], lock'[d]} \subseteq {None, p}
      /\ \A d \in CPUs : lock'[d] = p <=> d = c
  BY <1>1, <1>4, <1>5 DEF TypeInv
<1>9. /\ target' \in [Tasks -> CPUs \cup {None}] /\ target'[p] = n
      /\ \A q \in Tasks \ {p} : target'[q] = target[q]
  BY <1>2, <1>4, <1>5 DEF TypeInv
<1>10. \A d \in CPUs : TaskHolds(p, d)' <=> d = c
  BY <1>1, <1>4 DEF TaskHolds, TypeInv
<1>11. call[p] # "cancel"
  BY <1>1, <1>3, MineFacts DEF Cancelling, Reading, Counting
<1>12. "st_switch" \in Places \ ({"idle", "inactive"} \cup Reading) /\ "st_switch" \in Off
  BY DEF Places, Reading, Starting, Counting, Off, Locked
<1>13. QED
  <2> HIDE DEF t, c
  <2>1. t = tm[p] /\ c = seen[p]
    BY DEF t, c
  <2>2. "st_switch" \in Starting /\ "st_switch" \notin Between
    BY DEF Starting, Between
  <2>3. Careful(p, "st_switch")
    BY <1>1, <1>5, <1>6, <1>7, <1>8, <1>9, <1>10, <1>11, <1>12, <2>1, <2>2 DEF Careful
  <2>4. QED
    BY <1>3, <1>12, <2>3, LockStep

\* switch_hrtimer_base: the queues and the states of the timers stay as they are.
LEMMA SwitchStep ==
    ASSUME IInv, NEW p \in Tasks,
           \/ SwitchLeave(p) \/ SwitchStay(p) \/ SwitchEarly(p)
           \/ SwitchEnter(p) \/ SwitchRefuse(p) \/ SwitchBack(p)
    PROVE  IInv'
<1> USE Names
<1> DEFINE to == pc'[p]
<1>0. pc \in [Tasks -> Places]
  BY DEF IInv, TypeInv
<1>1. /\ pc[p] \in Off /\ to \in Off /\ pc' = [pc EXCEPT ![p] = to]
      /\ UNCHANGED <<kind, state, queue, running, cpuVars, call, tm, seen>>
      /\ SwitchLeave(p) => pc[p] = "st_switch" /\ to = "st_new"
      /\ SwitchStay(p) => pc[p] = "st_switch" /\ to = "st_enqueue"
      /\ SwitchEarly(p) => pc[p] = "st_switch" /\ to = "st_switch"
      /\ SwitchEnter(p) => pc[p] = "st_new" /\ to = "st_enqueue"
      /\ SwitchRefuse(p) => pc[p] = "st_new" /\ to = "st_back"
      /\ SwitchBack(p) => pc[p] = "st_back" /\ to = "st_switch"
  <2>1. \A from, place : Goto(p, from, place) => pc[p] = from /\ to = place /\ pc' = [pc EXCEPT ![p] = to]
    BY <1>0 DEF Goto
  <2>2. /\ SwitchLeave(p) => Goto(p, "st_switch", "st_new")
        /\ SwitchStay(p) => Goto(p, "st_switch", "st_enqueue")
        /\ SwitchEarly(p) => Goto(p, "st_switch", "st_switch")
        /\ SwitchEnter(p) => Goto(p, "st_new", "st_enqueue")
        /\ SwitchRefuse(p) => Goto(p, "st_new", "st_back")
        /\ SwitchBack(p) => Goto(p, "st_back", "st_switch")
    BY DEF SwitchLeave, SwitchStay, SwitchEarly, SwitchEnter, SwitchRefuse, SwitchBack
  <2>3. UNCHANGED <<kind, state, queue, running, cpuVars, call, tm, seen>>
    BY DEF SwitchLeave, SwitchStay, SwitchEarly, SwitchEnter, SwitchRefuse, SwitchBack,
       Retarget, localVars, timerVars
  <2> HIDE DEF to
  <2>4. \E from, place \in Off : Goto(p, from, place)
    BY <2>2 DEF Off, Locked, Between
  <2>5. QED
    BY <2>1, <2>2, <2>3, <2>4
<1> HIDE DEF to
<1>2. Mine(p)
  BY <1>1, MineLemma
<1>3. /\ target \in [Tasks -> CPUs \cup {None}] /\ lock \in [CPUs -> Tasks \cup CPUs \cup {None}]
      /\ base \in [Timers -> Bases] /\ state \in [Timers -> {"inactive", "enqueued"}]
      /\ queue \in [CPUs -> SUBSET Timers] /\ on \in [Tasks -> online] /\ online \subseteq CPUs
      /\ pc'[p] = to
  BY <1>1 DEF IInv, TypeInv, to
<1>4. /\ tm[p] \in Timers /\ seen[p] \in CPUs /\ target[p] \in CPUs /\ target[p] \in online
      /\ \A c \in CPUs : tm[p] \notin queue[c]
      /\ call[p] # "cancel"
      /\ pc[p] = "st_switch" => base[tm[p]] = seen[p] /\ lock[seen[p]] = p
      /\ pc[p] \in Between => base[tm[p]] = Migration
      /\ \A c \in CPUs : lock[c] = p => TaskHolds(p, c)
      /\ \A c \in CPUs : running[c] = tm[p] => base[tm[p]] = c /\ c \in online
  <2>1. pc[p] \notin Cancelling \cup {"done"}
    BY <1>1 DEF Cancelling, Reading, Counting, Off, Locked, Between
  <2>2. QED
    BY <1>1, <1>2, <2>1, MineFacts
<1>5. /\ target' \in [Tasks -> CPUs \cup {None}] /\ \A q \in Tasks \ {p} : target'[q] = target[q]
      /\ base' \in [Timers -> Bases] /\ \A u \in Timers \ {tm[p]} : base'[u] = base[u]
      /\ lock' \in [CPUs -> Tasks \cup CPUs \cup {None}]
      /\ \A c \in CPUs : lock'[c] # lock[c] => {lock[c], lock'[c]} \subseteq {None, p}
      /\ \A c \in CPUs : lock'[c] = p <=>
            (to = "st_switch" /\ c = seen[p]) \/ (to = "st_enqueue" /\ c = target'[p])
      /\ base'[tm[p]] # base[tm[p]] => \A c \in CPUs : running[c] # tm[p]
      /\ target'[p] \in online
      /\ to = "st_switch" => base'[tm[p]] = seen[p]
      /\ to = "st_enqueue" => base'[tm[p]] = target'[p]
      /\ to \in Between => base'[tm[p]] = Migration
  <2>1. Bases = CPUs \cup {Migration} /\ Between = {"st_new", "st_back"}
    BY DEF Bases, Between
  <2>2. \A c \in CPUs : lock[c] = p => \/ pc[p] = "st_switch" /\ c = seen[p]
                                       \/ pc[p] = "st_enqueue" /\ c = target[p]
    BY <1>4 DEF TaskHolds
  <2>3. CASE SwitchLeave(p)
    <3>1. /\ pc[p] = "st_switch" /\ to = "st_new" /\ running[seen[p]] # tm[p]
          /\ base' = [base EXCEPT ![tm[p]] = Migration] /\ lock' = [lock EXCEPT ![seen[p]] = None]
          /\ target' = target
      BY <1>1, <2>3 DEF SwitchLeave, CallbackRunning, localVars
    <3>2. QED
      BY <1>3, <1>4, <2>1, <2>2, <3>1
  <2>4. CASE SwitchStay(p) \/ SwitchEarly(p) \/ SwitchRefuse(p)
    <3>1. PICK n \in CPUs : /\ target' = [target EXCEPT ![p] = n] /\ base' = base /\ lock' = lock
                            /\ n \in online
                            /\ to = "st_enqueue" => n = seen[p]
      <4>1. CASE SwitchStay(p)
        <5>1. seen[p] \in online
          BY <1>4, <4>1 DEF SwitchStay, CallbackRunning
        <5>2. QED
          BY <1>4, <4>1, <5>1 DEF SwitchStay, Retarget, timerVars
      <4>2. CASE SwitchEarly(p) \/ SwitchRefuse(p)
        <5>1. to # "st_enqueue" /\ on[p] \in online
          BY <1>1, <1>3, <4>2
        <5>2. QED
          BY <1>3, <4>2, <5>1 DEF SwitchEarly, SwitchRefuse, Retarget, timerVars
      <4>3. QED
        BY <2>4, <4>1, <4>2
    <3>2. \/ pc[p] = "st_switch" /\ to \in {"st_switch", "st_enqueue"}
          \/ pc[p] = "st_new" /\ to = "st_back"
      BY <1>1, <2>4
    <3>3. QED
      BY <1>3, <1>4, <2>1, <2>2, <3>1, <3>2
  <2>5. CASE SwitchEnter(p)
    <3>1. /\ pc[p] = "st_new" /\ to = "st_enqueue" /\ lock[target[p]] = None
          /\ base' = [base EXCEPT ![tm[p]] = target[p]] /\ lock' = [lock EXCEPT ![target[p]] = p]
          /\ target' = target
      BY <1>1, <2>5 DEF SwitchEnter, Free, localVars
    <3>2. QED
      BY <1>3, <1>4, <2>1, <2>2, <3>1
  <2>6. CASE SwitchBack(p)
    <3>1. /\ pc[p] = "st_back" /\ to = "st_switch" /\ lock[seen[p]] = None
          /\ base' = [base EXCEPT ![tm[p]] = seen[p]] /\ lock' = [lock EXCEPT ![seen[p]] = p]
          /\ target' = target
      BY <1>1, <2>6 DEF SwitchBack, Free, localVars
    <3>2. QED
      BY <1>3, <1>4, <2>1, <2>2, <3>1
  <2>7. QED
    BY <1>1, <2>3, <2>4, <2>5, <2>6
<1>6. /\ to \in Starting /\ to \in Places \ ({"idle", "inactive"} \cup Reading)
      /\ to \notin {"done", "sl_loop"}
  BY <1>1 DEF Off, Locked, Between, Starting, Places, Reading, Counting
<1>7. \A c \in CPUs : TaskHolds(p, c)' <=>
            (to = "st_switch" /\ c = seen[p]) \/ (to = "st_enqueue" /\ c = target'[p])
  BY <1>1, <1>3 DEF TaskHolds
<1>8. Careful(p, to)
  BY <1>1, <1>3, <1>4, <1>5, <1>6, <1>7 DEF Careful
<1>9. QED
  BY <1>2, <1>6, <1>8, LockStep

\* enqueue_hrtimer and the unlock of the base that the timer has now.
LEMMA EnqueueStep ==
    ASSUME IInv, NEW p \in Tasks, EnqueueStarted(p)
    PROVE  IInv'
<1> USE Names
<1>1. PICK to \in {"sl_test", "done"} :
        /\ to = "sl_test" <=> Sleeps(p)
        /\ pc[p] = "st_enqueue" /\ pc' = [pc EXCEPT ![p] = to]
        /\ queue' = [queue EXCEPT ![target[p]] = @ \cup {tm[p]}]
        /\ state' = [state EXCEPT ![tm[p]] = "enqueued"]
        /\ lock' = [lock EXCEPT ![base[tm[p]]] = None]
        /\ UNCHANGED <<kind, base, running, cpuVars, call, tm, seen, target>>
  <2>1. CASE Sleeps(p)
    BY <2>1 DEF EnqueueStarted, Goto, UnlockBase, localVars
  <2>2. CASE ~Sleeps(p)
    BY <2>2 DEF EnqueueStarted, Goto, UnlockBase, localVars
  <2>3. QED
    BY <2>1, <2>2
<1>2. pc[p] \in Off /\ Mine(p)
  BY <1>1, MineLemma DEF Off, Locked
<1>3. /\ tm[p] \in Timers /\ (Sleeps(p) <=> tm[p] \in Sleepers)
      /\ Sleeps(p) => call[p] # "start"
      /\ call[p] # "cancel"
      /\ target[p] \in CPUs /\ target[p] \in online /\ \A c \in CPUs : tm[p] \notin queue[c]
      /\ base[tm[p]] = target[p] /\ lock[target[p]] = p
      /\ \A c \in CPUs : lock[c] = p => c = target[p]
  BY <1>1, <1>2, MineFacts DEF TaskHolds, Cancelling, Reading, Counting
<1>4. /\ base \in [Timers -> Bases] /\ base' = base /\ target' = target
      /\ target \in [Tasks -> CPUs \cup {None}] /\ pc'[p] = to
  BY <1>1 DEF IInv, TypeInv
<1>5. /\ state' \in [Timers -> {"inactive", "enqueued"}] /\ state'[tm[p]] = "enqueued"
      /\ \A u \in Timers \ {tm[p]} : state'[u] = state[u]
  BY <1>1, <1>3 DEF IInv, TypeInv
<1>6. /\ queue' \in [CPUs -> SUBSET Timers]
      /\ \A u \in Timers \ {tm[p]} : \A c \in CPUs : u \in queue'[c] <=> u \in queue[c]
      /\ \A c \in CPUs : tm[p] \in queue'[c] <=> c = target[p]
  BY <1>1, <1>3 DEF IInv, TypeInv
<1>7. /\ lock' \in [CPUs -> Tasks \cup CPUs \cup {None}]
      /\ \A c \in CPUs : lock'[c] # lock[c] => {lock[c], lock'[c]} \subseteq {None, p}
      /\ \A c \in CPUs : lock'[c] # p
  BY <1>1, <1>3 DEF IInv, TypeInv
<1>8. \A c \in CPUs : ~TaskHolds(p, c)'
  BY <1>4 DEF TaskHolds
<1>9. to \in Places \ ({"idle", "inactive"} \cup Reading) /\ to \notin {"lk_take", "tc_take"} \cup Off
  BY DEF Places, Reading, Starting, Counting, Sleeping, Off, Locked, Between
<1>10. Careful(p, to)
  BY <1>1, <1>2, <1>3, <1>4, <1>5, <1>6, <1>7, <1>8, <1>9 DEF Careful, Off, Locked, Between
<1>11. QED
  BY <1>2, <1>9, <1>10, LockStep

\* hrtimer_try_to_cancel takes a timer out of its queue.
LEMMA CancelStep ==
    ASSUME IInv, NEW p \in Tasks, CancelQueued(p)
    PROVE  IInv'
<1> USE Names
<1>1. PICK to \in {"sl_loop", "done"} :
        /\ to = "sl_loop" <=> Sleeps(p)
        /\ pc[p] = "tc_take" /\ TakeBase(p) /\ running[seen[p]] # tm[p]
        /\ pc' = [pc EXCEPT ![p] = to]
        /\ queue' = [queue EXCEPT ![seen[p]] = @ \ {tm[p]}]
        /\ state' = [state EXCEPT ![tm[p]] = "inactive"]
        /\ UNCHANGED <<kind, base, running, lock, cpuVars, call, tm, seen, target>>
  <2>1. CASE Sleeps(p)
    BY <2>1 DEF CancelQueued, Goto, AfterCancel, CallbackRunning, localVars
  <2>2. CASE ~Sleeps(p)
    BY <2>2 DEF CancelQueued, Goto, AfterCancel, CallbackRunning, localVars
  <2>3. QED
    BY <2>1, <2>2
<1>2. Mine(p)
  BY <1>1, MineLemma
<1>3. /\ tm[p] \in Timers /\ (Sleeps(p) <=> tm[p] \in Sleepers)
      /\ Sleeps(p) => call[p] # "start" /\ call[p] # "cancel"
      /\ call[p] # "start"
      /\ seen[p] \in CPUs /\ base[tm[p]] = seen[p]
      /\ \A c \in CPUs : tm[p] \in queue[c] => c = seen[p]
      /\ \A b \in Bases : running[b] # tm[p]
      /\ \A c \in CPUs : lock[c] # p
  BY <1>1, <1>2, MineFacts DEF TaskHolds, TakeBase, Starting, Bases
<1>4. /\ base \in [Timers -> Bases] /\ base' = base /\ target' = target /\ lock' = lock
      /\ target \in [Tasks -> CPUs \cup {None}] /\ pc'[p] = to
      /\ lock \in [CPUs -> Tasks \cup CPUs \cup {None}]
  BY <1>1 DEF IInv, TypeInv
<1>5. /\ state' \in [Timers -> {"inactive", "enqueued"}] /\ state'[tm[p]] = "inactive"
      /\ \A u \in Timers \ {tm[p]} : state'[u] = state[u]
  BY <1>1, <1>3 DEF IInv, TypeInv
<1>6. /\ queue' \in [CPUs -> SUBSET Timers]
      /\ \A u \in Timers \ {tm[p]} : \A c \in CPUs : u \in queue'[c] <=> u \in queue[c]
      /\ \A c \in CPUs : tm[p] \notin queue'[c]
  BY <1>1, <1>3 DEF IInv, TypeInv
<1>7. \A c \in CPUs : ~TaskHolds(p, c)'
  BY <1>4 DEF TaskHolds
<1>8. to \in Places \ ({"idle", "inactive"} \cup Reading) /\ to \notin {"lk_take", "tc_take"} \cup Off
  BY DEF Places, Reading, Starting, Counting, Sleeping, Off, Locked, Between
<1>9. Idle(tm[p])'
  BY <1>1, <1>3, <1>5 DEF Idle
<1>10. Careful(p, to)
  BY <1>1, <1>3, <1>4, <1>5, <1>6, <1>7, <1>8, <1>9 DEF Careful, Off, Locked, Between
<1>11. QED
  BY <1>2, <1>8, <1>10, LockStep

-----------------------------------------------------------------------------
(* The interrupts.                                                         *)

\* A step of hrtimer_interrupt of a CPU with a timer: what it must take care of.
Interrupted(c, t) ==
    /\ c \in online /\ base[t] = c /\ ~Idle(t) /\ running[c] \in {None, t}
    /\ plug.at = "locked" => plug.to # c
    /\ UNCHANGED <<kind, base, online, plug, on, pc, call, tm, seen, target>>
    /\ irq' \in [CPUs -> [at : IrqPlaces, timer : Timers \cup {None}, restart : BOOLEAN]]
    /\ running' \in [Bases -> Timers \cup {None}] /\ running'[Migration] = None
    /\ lock' \in [CPUs -> Tasks \cup CPUs \cup {None}]
    /\ queue' \in [CPUs -> SUBSET Timers] /\ state' \in [Timers -> {"inactive", "enqueued"}]
    /\ \A d \in CPUs \ {c} : /\ irq'[d] = irq[d] /\ running'[d] = running[d]
                             /\ lock'[d] = lock[d] /\ queue'[d] = queue[d]
    /\ \A u \in Timers \ {t} : state'[u] = state[u] /\ (u \in queue'[c] <=> u \in queue[c])
    /\ \/ lock'[c] = lock[c] /\ {irq[c].at, irq'[c].at} \cap {"marked", "post"} = {}
       \/ lock[c] = None /\ lock'[c] = c /\ irq'[c].at \in {"marked", "post"}
       \/ lock[c] = c /\ lock'[c] = None /\ irq'[c].at \notin {"marked", "post"}
    /\ irq'[c].at = "idle" => running'[c] = None
    /\ irq'[c].at # "idle" => running'[c] = t /\ irq'[c].timer = t
    /\ irq'[c].at = "marked" => t \in queue'[c]
    /\ t \in Sleepers => ~irq'[c].restart /\ (state'[t] = "enqueued" => state[t] = "enqueued")
    /\ t \in queue'[c] => state'[t] = "enqueued"
    /\ state'[t] = "enqueued" => t \in queue'[c] \/ (state[t] = "enqueued" /\ queue'[c] = queue[c])
    /\ t \in queue'[c] \ queue[c] => plug.moving # t /\ \A p \in Tasks : pc[p] \in Off => tm[p] # t
    /\ plug.moving = t => state'[t] = state[t]

LEMMA InterruptedStep ==
    ASSUME IInv, NEW c \in CPUs, NEW t \in Timers, Interrupted(c, t)
    PROVE  IInv'
<1> USE Names DEF IInv, Interrupted
<1>1. UNCHANGED <<kind, base, online, plug, on, pc, call, tm, seen, target>> /\ Sleepers' = Sleepers
  BY DEF Sleepers
<1>2. TypeInv'
  BY <1>1 DEF TypeInv
<1>3. /\ plug.at \in {"idle", "dead", "locked"} /\ ~PlugHolds(c)
      /\ \A d \in CPUs : PlugHolds(d)' <=> PlugHolds(d)
  <2>1. ~PlugHolds(c)
    BY DEF PlugHolds, PlugInv, TypeInv
  <2>2. plug.at \in {"idle", "dead", "locked"}
    BY DEF TypeInv
  <2>3. QED
    BY <1>1, <2>1, <2>2 DEF PlugHolds
<1>4. LockInv'
  <2>1. \A p \in Tasks, d \in CPUs : TaskHolds(p, d)' <=> TaskHolds(p, d)
    BY <1>1 DEF TaskHolds
  <2>2. \A d \in CPUs, p \in Tasks : lock'[d] = p <=> TaskHolds(p, d)'
    <3>1. \A d \in CPUs, p \in Tasks : lock'[d] = p <=> lock[d] = p
      OBVIOUS
    <3>2. QED
      BY <2>1, <3>1 DEF LockInv
  <2>3. \A d \in CPUs : lock'[c] = d <=> d = c /\ irq'[c].at \in {"marked", "post"}
    <3>1. \A d \in CPUs : lock[c] = d <=> d = c /\ irq[c].at \in {"marked", "post"}
      BY <1>3 DEF LockInv
    <3>2. CASE lock'[c] = lock[c] /\ {irq[c].at, irq'[c].at} \cap {"marked", "post"} = {}
      BY <3>1, <3>2
    <3>3. CASE lock[c] = None /\ lock'[c] = c /\ irq'[c].at \in {"marked", "post"}
      BY <3>3
    <3>4. CASE lock[c] = c /\ lock'[c] = None /\ irq'[c].at \notin {"marked", "post"}
      BY <3>4
    <3>5. QED
      BY <3>2, <3>3, <3>4
  <2>4. \A d \in CPUs \ {c}, e \in CPUs : lock'[d] = e <=> \/ e = d /\ irq'[d].at \in {"marked", "post"}
                                                           \/ e = plug.to /\ PlugHolds(d)
    BY DEF LockInv
  <2>5. QED
    BY <1>1, <1>3, <2>2, <2>3, <2>4 DEF LockInv
<1>5. PlugInv'
  <2>1. plug.at = "locked" => irq'[plug.to] = irq[plug.to]
    <3>1. plug.at = "locked" => plug.to \in CPUs
      BY DEF PlugInv, TypeInv
    <3>2. QED
      BY <3>1
  <2>2. plug.moving # None => \A d \in CPUs : plug.moving \notin queue'[d]
    BY DEF PlugInv, TypeInv
  <2>3. plug.moving # None => state'[plug.moving] = state[plug.moving]
    BY DEF PlugInv, TypeInv
  <2>4. QED
    BY <1>1, <2>1, <2>2, <2>3 DEF PlugInv
<1>6. IrqInv'
  <2>1. \A d \in CPUs \ {c} : irq'[d].at = "marked" => irq'[d].timer \in queue'[d]
    BY DEF IrqInv
  <2>2. c \in online'
    BY <1>1
  <2>3. QED
    BY <1>1, <2>1, <2>2 DEF IrqInv
<1>7. \A u \in Timers, d \in CPUs : u \in queue'[d] =>
        u \in queue[d] \/ (u = t /\ d = c /\ t \in queue'[c] \ queue[c])
  OBVIOUS
<1>8. TaskInv'
  <2>1. \A p \in Tasks : Sleeps(p)' <=> Sleeps(p)
    BY <1>1 DEF Sleeps
  <2>2. \A p \in Tasks : pc[p] \in Off => \A d \in CPUs : tm[p] \notin queue'[d]
    BY <1>2, <1>7 DEF TaskInv, TypeInv
  <2>3. QED
    BY <1>1, <2>1, <2>2 DEF TaskInv
<1>9. OneHome'
  <2>1. \A p \in Tasks : IrqsOff(p)' <=> IrqsOff(p)
    BY <1>1 DEF IrqsOff
  <2>2. \A u \in Timers, d \in CPUs : u \in queue'[d] => base'[u] = d /\ state'[u] = "enqueued"
    BY <1>1, <1>7 DEF OneHome
  <2>3. \A u \in Timers, d \in CPUs : running'[d] = u => base'[u] = d
    <3>1. running'[c] \in {None, t}
      <4>1. irq'[c].at # "idle" => running'[c] = t
        OBVIOUS
      <4>2. QED
        BY <4>1
    <3>2. QED
      BY <1>1, <3>1 DEF OneHome
  <2>4. ASSUME NEW u \in Timers, state'[u] = "enqueued"
        PROVE  \/ \E d \in CPUs : u \in queue'[d]
               \/ \E p \in Tasks : IrqsOff(p)' /\ tm'[p] = u
               \/ plug'.moving = u
    <3>1. CASE t = u /\ t \in queue'[c]
      BY <3>1
    <3>2. CASE u # t \/ (state[t] = "enqueued" /\ queue'[c] = queue[c])
      <4>1. state[u] = "enqueued" /\ \A d \in CPUs : u \in queue[d] => u \in queue'[d]
        BY <2>4, <3>2
      <4>2. QED
        BY <1>1, <2>1, <4>1 DEF OneHome
    <3>3. QED
      BY <2>4, <3>1, <3>2
  <2>5. \A d \in CPUs \ online' : plug'.from # d => queue'[d] = {}
    BY <1>1 DEF OneHome
  <2>6. QED
    BY <2>2, <2>3, <2>4, <2>5 DEF OneHome
<1>10. SleeperInv'
  <2>1. ASSUME NEW u \in Timers, Idle(u) PROVE Idle(u)'
    <3>1. u # t /\ state'[u] = "inactive"
      BY <2>1 DEF Idle
    <3>2. running'[c] \in {None, t}
      <4>1. irq'[c].at # "idle" => running'[c] = t
        OBVIOUS
      <4>2. QED
        BY <4>1
    <3>3. \A b \in Bases : running'[b] # u
      BY <2>1, <3>1, <3>2 DEF Idle, Bases
    <3>4. QED
      BY <3>1, <3>3 DEF Idle
  <2>2. \A u \in Timers : u \in Sleepers /\ state[u] = "inactive" => state'[u] = "inactive"
    <3>1. \A u \in Timers : state'[u] \in {"inactive", "enqueued"}
      OBVIOUS
    <3>2. QED
      BY <3>1
  <2>3. \A u \in Sleepers : u \in Timers
    BY DEF Sleepers
  <2>4. \A u \in Sleepers : Idle(u) => Idle(u)'
    BY <2>1, <2>3
  <2>5. QED
    BY <1>1, <2>2, <2>3, <2>4 DEF SleeperInv
<1>11. QED
  BY <1>2, <1>4, <1>5, <1>6, <1>8, <1>9, <1>10

\* The steps of hrtimer_interrupt.
LEMMA InterruptStep ==
    ASSUME IInv, NEW c \in CPUs, Interrupt(c)
    PROVE  IInv'
<1> USE Names
<1>1. /\ irq \in [CPUs -> [at : IrqPlaces, timer : Timers \cup {None}, restart : BOOLEAN]]
      /\ running \in [Bases -> Timers \cup {None}] /\ running[Migration] = None
      /\ lock \in [CPUs -> Tasks \cup CPUs \cup {None}]
      /\ queue \in [CPUs -> SUBSET Timers] /\ state \in [Timers -> {"inactive", "enqueued"}]
      /\ c \in Bases /\ Migration # c
  BY DEF IInv, TypeInv, IrqInv, Bases
<1>2. /\ irq[c].at \in IrqPlaces
      /\ irq[c].at # "idle" =>
           /\ irq[c].timer \in Timers /\ c \in online /\ base[irq[c].timer] = c
           /\ running[c] = irq[c].timer /\ ~Idle(irq[c].timer)
           /\ plug.at = "locked" => plug.to # c
           /\ irq[c].timer \in Sleepers => ~irq[c].restart
      /\ irq[c].at = "marked" => irq[c].timer \in queue[c]
      /\ irq[c].at \in {"marked", "post"} => lock[c] = c
      /\ plug.at = "locked" => plug.to \in CPUs
  <2>1. irq[c].at # "idle" => /\ irq[c].timer \in Timers /\ c \in online
                              /\ running[c] = irq[c].timer
                              /\ irq[c].timer \in Sleepers => ~irq[c].restart
                              /\ plug.at = "locked" => plug.to # c
    BY DEF IInv, IrqInv, PlugInv
  <2>2. irq[c].at # "idle" => base[irq[c].timer] = c /\ ~Idle(irq[c].timer)
    BY <1>1, <2>1 DEF IInv, OneHome, Idle
  <2>3. irq[c].at \in IrqPlaces /\ (irq[c].at = "marked" => irq[c].timer \in queue[c])
    BY <1>1 DEF IInv, IrqInv
  <2>4. irq[c].at \in {"marked", "post"} => lock[c] = c
    BY DEF IInv, LockInv
  <2>5. plug.at = "locked" => plug.to \in CPUs
    BY DEF IInv, PlugInv, TypeInv
  <2>6. QED
    BY <2>1, <2>2, <2>3, <2>4, <2>5
<1> USE DEF IrqPlaces
<1>3. CASE Expire(c)
  <2>1. PICK t \in queue[c] :
          /\ CanInterrupt(c) /\ lock[c] = None
          /\ lock' = [lock EXCEPT ![c] = c] /\ running' = [running EXCEPT ![c] = t]
          /\ irq' = [irq EXCEPT ![c] = [at |-> "marked", timer |-> t, restart |-> FALSE]]
          /\ UNCHANGED <<kind, base, state, queue, online, plug, on, pc, call, tm, seen, target>>
    BY <1>3 DEF Expire, Free, localVars
  <2>2. /\ t \in Timers /\ base[t] = c /\ state[t] = "enqueued" /\ ~Idle(t)
        /\ c \in online /\ irq[c].at = "idle" /\ running[c] = None
        /\ plug.at = "locked" => plug.to # c
    BY <1>1, <2>1 DEF CanInterrupt, IInv, OneHome, Idle, IrqInv
  <2>3. irq' \in [CPUs -> [at : IrqPlaces, timer : Timers \cup {None}, restart : BOOLEAN]]
        /\ irq'[c].at = "marked" /\ irq'[c].timer = t /\ ~irq'[c].restart
        /\ \A d \in CPUs \ {c} : irq'[d] = irq[d]
    BY <1>1, <2>1, <2>2
  <2>4. Interrupted(c, t)
    BY <1>1, <2>1, <2>2, <2>3 DEF Interrupted
  <2>5. QED
    BY <2>2, <2>4, InterruptedStep
<1>4. ASSUME Dequeue(c) \/ Wakeup(c) \/ Callback(c) \/ Relock(c) \/ Finish(c)
      PROVE  Interrupted(c, irq[c].timer)
  <2> DEFINE t == irq[c].timer
  <2>0. irq[c].at # "idle"
    BY <1>4 DEF Dequeue, Wakeup, Callback, Relock, Finish, IrqAt
  <2>1. UNCHANGED <<kind, base, online, plug, on, pc, call, tm, seen, target>>
    BY <1>4 DEF Dequeue, Wakeup, Callback, Relock, Finish, localVars, timerVars
  <2>2. CASE Dequeue(c)
    <3>1. /\ irq[c].at = "marked" /\ irq' = [irq EXCEPT ![c].at = "callback"]
          /\ queue' = [queue EXCEPT ![c] = @ \ {t}] /\ state' = [state EXCEPT ![t] = "inactive"]
          /\ lock' = [lock EXCEPT ![c] = None] /\ running' = running
      BY <2>2 DEF Dequeue, IrqAt
    <3>2. irq' \in [CPUs -> [at : IrqPlaces, timer : Timers \cup {None}, restart : BOOLEAN]]
          /\ irq'[c].at = "callback" /\ irq'[c].timer = t /\ irq'[c].restart = irq[c].restart
          /\ \A d \in CPUs \ {c} : irq'[d] = irq[d]
      BY <1>1, <3>1
    <3>3. plug.moving # t
      BY <1>2, <2>0, <3>1 DEF IInv, PlugInv
    <3>4. QED
      BY <1>1, <1>2, <2>0, <2>1, <3>1, <3>2, <3>3 DEF Interrupted
  <2>3. CASE Wakeup(c)
    <3>1. /\ irq[c].at = "callback" /\ irq' = [irq EXCEPT ![c].at = "back"]
          /\ UNCHANGED <<queue, state, lock, running>>
      BY <2>3 DEF Wakeup, IrqAt, timerVars
    <3>2. irq' \in [CPUs -> [at : IrqPlaces, timer : Timers \cup {None}, restart : BOOLEAN]]
          /\ irq'[c].at = "back" /\ irq'[c].timer = t /\ irq'[c].restart = irq[c].restart
          /\ \A d \in CPUs \ {c} : irq'[d] = irq[d]
      BY <1>1, <3>1
    <3>3. t \in queue[c] => state[t] = "enqueued"
      BY <1>2, <2>0 DEF IInv, OneHome
    <3>4. QED
      BY <1>1, <1>2, <2>0, <2>1, <3>1, <3>2, <3>3 DEF Interrupted
  <2>4. CASE Callback(c)
    <3>1. PICK r \in BOOLEAN :
             /\ irq[c].at = "callback" /\ irq' = [irq EXCEPT ![c].at = "back", ![c].restart = r]
             /\ UNCHANGED <<queue, state, lock, running>> /\ t \notin Sleepers
      BY <2>4 DEF Callback, timerVars
    <3>2. irq' \in [CPUs -> [at : IrqPlaces, timer : Timers \cup {None}, restart : BOOLEAN]]
          /\ irq'[c].at = "back" /\ irq'[c].timer = t
          /\ \A d \in CPUs \ {c} : irq'[d] = irq[d]
      <4>1. irq[c] \in [at : IrqPlaces, timer : Timers \cup {None}, restart : BOOLEAN]
        BY <1>1
      <4>2. irq'[c] = [irq[c] EXCEPT !.at = "back", !.restart = r] /\ DOMAIN irq' = CPUs
            /\ \A d \in CPUs \ {c} : irq'[d] = irq[d]
        BY <1>1, <3>1
      <4>3. irq'[c] = [at |-> "back", timer |-> t, restart |-> r]
        BY <4>1, <4>2
      <4>4. irq' = [d \in CPUs |-> irq'[d]]
        BY <1>1, <3>1
      <4>5. \A d \in CPUs : irq'[d] \in [at : IrqPlaces, timer : Timers \cup {None}, restart : BOOLEAN]
        <5>1. t \in Timers \cup {None} /\ r \in BOOLEAN
          BY <4>1, <3>1
        <5>2. irq'[c] \in [at : IrqPlaces, timer : Timers \cup {None}, restart : BOOLEAN]
          BY <4>3, <5>1
        <5>3. \A d \in CPUs \ {c} : irq[d] \in [at : IrqPlaces, timer : Timers \cup {None}, restart : BOOLEAN]
          BY <1>1
        <5>4. QED
          BY <4>2, <5>2, <5>3
      <4>6. QED
        BY <4>2, <4>3, <4>4, <4>5
    <3>3. t \in queue[c] => state[t] = "enqueued"
      BY <1>2, <2>0 DEF IInv, OneHome
    <3>4. QED
      BY <1>1, <1>2, <2>0, <2>1, <3>1, <3>2, <3>3 DEF Interrupted
  <2>5. CASE Finish(c)
    <3>1. /\ irq[c].at = "post" /\ irq' = [irq EXCEPT ![c].at = "idle"]
          /\ running' = [running EXCEPT ![c] = None] /\ lock' = [lock EXCEPT ![c] = None]
          /\ UNCHANGED <<queue, state>>
      BY <2>5 DEF Finish, IrqAt
    <3>2. irq' \in [CPUs -> [at : IrqPlaces, timer : Timers \cup {None}, restart : BOOLEAN]]
          /\ irq'[c].at = "idle" /\ irq'[c].restart = irq[c].restart
          /\ \A d \in CPUs \ {c} : irq'[d] = irq[d]
      BY <1>1, <3>1
    <3>3. t \in queue[c] => state[t] = "enqueued"
      BY <1>2, <2>0 DEF IInv, OneHome
    <3>4. QED
      BY <1>1, <1>2, <2>0, <2>1, <3>1, <3>2, <3>3 DEF Interrupted
  <2>6. CASE Relock(c)
    <3>1. /\ irq[c].at = "back" /\ lock[c] = None /\ irq' = [irq EXCEPT ![c].at = "post"]
          /\ lock' = [lock EXCEPT ![c] = c] /\ running' = running
      BY <2>6 DEF Relock, IrqAt, Free
    <3>2. irq' \in [CPUs -> [at : IrqPlaces, timer : Timers \cup {None}, restart : BOOLEAN]]
          /\ irq'[c].at = "post" /\ irq'[c].timer = t /\ irq'[c].restart = irq[c].restart
          /\ \A d \in CPUs \ {c} : irq'[d] = irq[d]
      BY <1>1, <3>1
    <3>3. t \in queue[c] => state[t] = "enqueued"
      BY <1>2, <2>0 DEF IInv, OneHome
    <3>4. CASE Enqueues(c)
      <4>1. /\ queue' = [queue EXCEPT ![c] = @ \cup {t}] /\ state' = [state EXCEPT ![t] = "enqueued"]
            /\ state[t] # "enqueued" /\ t \notin Sleepers
        BY <1>2, <2>0, <2>6, <3>4 DEF Relock, Enqueues
      <4>2. plug.moving # t
        BY <1>2, <2>0, <4>1 DEF IInv, PlugInv
      <4>3. \A p \in Tasks : pc[p] \in Off => tm[p] # t
        <5>1. SUFFICES ASSUME NEW p \in Tasks, pc[p] \in Off, tm[p] = t PROVE FALSE
          OBVIOUS
        <5>2. TaskHolds(p, c)
          BY <1>1, <1>2, <2>0, <5>1 DEF IInv, TaskInv, TaskHolds, Off, Locked
        <5>3. QED
          BY <3>1, <5>2 DEF IInv, LockInv
      <4>4. QED
        BY <1>1, <1>2, <2>0, <2>1, <3>1, <3>2, <4>1, <4>2, <4>3 DEF Interrupted
    <3>5. CASE ~Enqueues(c)
      <4>1. queue' = queue /\ state' = state
        BY <1>1, <2>6, <3>5 DEF Relock
      <4>2. QED
        BY <1>1, <1>2, <2>0, <2>1, <3>1, <3>2, <3>3, <4>1 DEF Interrupted
    <3>6. QED
      BY <3>4, <3>5
  <2>7. QED
    BY <1>4, <2>2, <2>3, <2>4, <2>5, <2>6
<1>5. QED
  <2>1. ASSUME Dequeue(c) \/ Wakeup(c) \/ Callback(c) \/ Relock(c) \/ Finish(c) PROVE IInv'
    <3>1. irq[c].timer \in Timers
      BY <1>2, <2>1 DEF Dequeue, Wakeup, Callback, Relock, Finish, IrqAt
    <3>2. QED
      BY <1>4, <2>1, <3>1, InterruptedStep
  <2>2. QED
    BY <1>3, <2>1 DEF Interrupt

-----------------------------------------------------------------------------
(* CPU hotplug.                                                            *)

\* CPUs stop and come back while nobody holds a lock, and the tasks keep their timers.
LEMMA CpusStep ==
    ASSUME IInv, NEW c \in CPUs, GoOffline(c) \/ PrepareCpu(c)
    PROVE  IInv'
<1> USE Names DEF IInv
<1>1. /\ UNCHANGED <<kind, base, state, running, lock, irq, pc, call, tm, seen, target>>
      /\ Sleepers' = Sleepers
  BY DEF GoOffline, PrepareCpu, timerVars, localVars, Sleepers
<1>2. plug.at = "idle" /\ plug.from = None /\ plug.moving = None
  BY DEF GoOffline, PrepareCpu, PlugInv
<1>3. queue' = queue
  <2>1. CASE GoOffline(c)
    BY <2>1 DEF GoOffline, timerVars
  <2>2. CASE PrepareCpu(c)
    <3>1. queue[c] = {} /\ queue \in [CPUs -> SUBSET Timers] /\ queue' = [queue EXCEPT ![c] = {}]
      BY <1>2, <2>2 DEF PrepareCpu, OneHome, TypeInv
    <3>2. QED
      BY <3>1
  <2>3. QED
    BY <2>1, <2>2
<1>4. /\ online' \subseteq CPUs /\ on' \in [Tasks -> online']
      /\ plug' \in [at : {"idle", "dead", "locked"}, from : CPUs \cup {None},
                    to : CPUs \cup {None}, moving : Timers \cup {None}]
      /\ plug'.at # "locked" /\ plug'.moving = None
      /\ plug'.at = "idle" => plug'.from = None
      /\ plug'.at # "idle" => plug'.from \in CPUs \ online' /\ plug'.to \in online'
      /\ \A d \in CPUs \ online' : irq[d].at = "idle" /\ (plug'.from # d => d \notin online)
      /\ \A p \in Tasks : IrqsOff(p) => online \subseteq online'
  <2>1. CASE GoOffline(c)
    <3>1. PICK n \in online \ {c} :
             /\ plug' = [plug EXCEPT !.at = "dead", !.from = c, !.to = n]
             /\ on' = [p \in Tasks |-> IF on[p] = c THEN n ELSE on[p]]
             /\ online' = online \ {c} /\ c \in online
             /\ \A d \in CPUs : irq[d].at = "idle"
             /\ \A p \in Tasks : ~IrqsOff(p)
      BY <2>1 DEF GoOffline
    <3>2. plug' = [at |-> "dead", from |-> c, to |-> n, moving |-> None]
      BY <1>2, <3>1 DEF TypeInv
    <3>3. on' \in [Tasks -> online'] /\ online' \subseteq CPUs /\ n \in CPUs
      BY <3>1 DEF TypeInv
    <3>4. /\ plug'.at = "dead" /\ plug'.from = c /\ plug'.to = n /\ plug'.moving = None
          /\ plug' \in [at : {"idle", "dead", "locked"}, from : CPUs \cup {None},
                        to : CPUs \cup {None}, moving : Timers \cup {None}]
      BY <3>2, <3>3
    <3>5. \A d \in CPUs \ online' : irq[d].at = "idle" /\ (c # d => d \notin online)
      BY <3>1
    <3>6. QED
      BY <3>1, <3>3, <3>4, <3>5
  <2>2. CASE PrepareCpu(c)
    <3>1. online' = online \cup {c} /\ plug' = plug /\ on' = on
      BY <2>2 DEF PrepareCpu
    <3>2. on' \in [Tasks -> online'] /\ online' \subseteq CPUs
      BY <3>1 DEF TypeInv
    <3>3. QED
      BY <1>2, <3>1, <3>2 DEF TypeInv, IrqInv
  <2>3. QED
    BY <2>1, <2>2
<1>5. TypeInv'
  BY <1>1, <1>3, <1>4 DEF TypeInv
<1>6. LockInv'
  <2>1. \A p \in Tasks, d \in CPUs : TaskHolds(p, d)' <=> TaskHolds(p, d)
    BY <1>1 DEF TaskHolds
  <2>2. \A d \in CPUs : ~PlugHolds(d) /\ ~PlugHolds(d)'
    BY <1>2, <1>4 DEF PlugHolds
  <2>3. QED
    BY <1>1, <2>1, <2>2 DEF LockInv
<1>7. PlugInv' /\ IrqInv'
  BY <1>1, <1>3, <1>4 DEF PlugInv, IrqInv
<1>8. TaskInv'
  <2>1. \A p \in Tasks : Sleeps(p)' <=> Sleeps(p)
    BY <1>1 DEF Sleeps
  <2>2. \A p \in Tasks : pc[p] \in Off => target[p] \in online'
    BY <1>4 DEF TaskInv, IrqsOff, Off, Locked, Between
  <2>3. QED
    BY <1>1, <1>3, <2>1, <2>2 DEF TaskInv
<1>9. OneHome'
  <2>1. \A p \in Tasks : IrqsOff(p)' <=> IrqsOff(p)
    BY <1>1 DEF IrqsOff
  <2>2. \A d \in CPUs \ online' : plug'.from # d => queue'[d] = {}
    BY <1>2, <1>3, <1>4 DEF OneHome
  <2>3. \A u \in Timers : state'[u] = "enqueued" => \/ \E d \in CPUs : u \in queue'[d]
                                                    \/ \E p \in Tasks : IrqsOff(p)' /\ tm'[p] = u
    BY <1>1, <1>2, <1>3, <2>1 DEF OneHome
  <2>4. QED
    BY <1>1, <1>3, <2>2, <2>3 DEF OneHome
<1>10. SleeperInv'
  <2>1. \A u \in Timers : Idle(u)' <=> Idle(u)
    BY <1>1 DEF Idle
  <2>2. QED
    BY <1>1, <2>1 DEF SleeperInv, Sleepers, TaskInv
<1>11. QED
  BY <1>5, <1>6, <1>7, <1>8, <1>9, <1>10

\* hrtimers_dead_cpu: both locks are taken, each timer changes its queue, and they are released.
LEMMA HotplugStep ==
    ASSUME IInv, Hotplug
    PROVE  IInv'
<1> USE Names DEF IInv
<1>1. /\ UNCHANGED <<kind, running, online, irq, on, pc, call, tm, seen, target>>
      /\ Sleepers' = Sleepers
  BY DEF Hotplug, LockBoth, MigrateOut, MigrateIn, UnlockBoth, timerVars, localVars, Sleepers
<1>2. /\ plug.at \in {"dead", "locked"} /\ plug.from \in CPUs \ online /\ plug.to \in online
      /\ plug.from \in CPUs /\ plug.to \in CPUs /\ plug.from # plug.to
      /\ irq[plug.to].at = "idle" /\ irq[plug.from].at = "idle" /\ running[plug.from] = None
      /\ plug \in [at : {"idle", "dead", "locked"}, from : CPUs \cup {None},
                   to : CPUs \cup {None}, moving : Timers \cup {None}]
  <2>1. plug.at = "dead" \/ plug.at = "locked"
    BY DEF Hotplug, LockBoth, MigrateOut, MigrateIn, UnlockBoth
  <2>2. plug.at = "dead" => irq[plug.to].at = "idle"
    BY DEF Hotplug, LockBoth, MigrateOut, MigrateIn, UnlockBoth, CanInterrupt
  <2>3. QED
    BY <2>1, <2>2 DEF PlugInv, IrqInv, TypeInv
<1>3. plug.at = "locked" => lock[plug.from] = plug.to /\ lock[plug.to] = plug.to
  BY <1>2 DEF LockInv, PlugHolds
<1>4. \A p \in Tasks : Sleeps(p)' <=> Sleeps(p)
  BY <1>1 DEF Sleeps
<1>5. \A p \in Tasks : IrqsOff(p)' <=> IrqsOff(p)
  BY <1>1 DEF IrqsOff
<1>6. \A p \in Tasks, d \in CPUs : TaskHolds(p, d)' <=> TaskHolds(p, d)
  BY <1>1 DEF TaskHolds
<1>7. ASSUME LockBoth \/ UnlockBoth PROVE IInv'
  <2>1. UNCHANGED <<base, state, queue>>
    BY <1>7 DEF LockBoth, UnlockBoth, timerVars
  <2>2. plug' \in [at : {"idle", "dead", "locked"}, from : CPUs \cup {None},
                   to : CPUs \cup {None}, moving : Timers \cup {None}]
        /\ plug'.moving = None /\ plug.moving = None
        /\ \/ /\ LockBoth /\ plug'.at = "locked" /\ plug'.from = plug.from /\ plug'.to = plug.to
           \/ UnlockBoth /\ plug'.at = "idle" /\ plug'.from = None
    <3>1. CASE LockBoth
      <4>1. plug.moving = None
        BY <3>1 DEF LockBoth, PlugInv
      <4>2. plug' = [at |-> "locked", from |-> plug.from, to |-> plug.to, moving |-> None]
        BY <1>2, <3>1, <4>1 DEF LockBoth
      <4>3. QED
        BY <1>2, <3>1, <4>1, <4>2
    <3>2. CASE UnlockBoth
      <4>1. plug' = [at |-> "idle", from |-> None, to |-> None, moving |-> None]
        BY <1>2, <3>2 DEF UnlockBoth
      <4>2. QED
        BY <3>2, <4>1 DEF UnlockBoth
    <3>3. QED
      BY <1>7, <3>1, <3>2
  <2>3. /\ lock' \in [CPUs -> Tasks \cup CPUs \cup {None}]
        /\ \A d \in CPUs \ {plug.from, plug.to} : lock'[d] = lock[d]
        /\ LockBoth => /\ lock[plug.from] = None /\ lock[plug.to] = None
                       /\ lock'[plug.from] = plug.to /\ lock'[plug.to] = plug.to
        /\ UnlockBoth => lock'[plug.from] = None /\ lock'[plug.to] = None /\ queue[plug.from] = {}
    <3>1. lock \in [CPUs -> Tasks \cup CPUs \cup {None}]
      BY DEF TypeInv
    <3>2. CASE LockBoth
      <4>1. /\ lock' = [lock EXCEPT ![plug.to] = plug.to, ![plug.from] = plug.to]
            /\ lock[plug.from] = None /\ lock[plug.to] = None /\ ~UnlockBoth
        BY <3>2 DEF LockBoth, UnlockBoth, Free
      <4>2. QED
        BY <1>2, <3>1, <4>1
    <3>3. CASE UnlockBoth
      <4>1. /\ lock' = [lock EXCEPT ![plug.to] = None, ![plug.from] = None]
            /\ queue[plug.from] = {} /\ ~LockBoth
        BY <3>3 DEF LockBoth, UnlockBoth
      <4>2. QED
        BY <1>2, <3>1, <4>1
    <3>4. QED
      BY <1>7, <3>2, <3>3
  <2>4. TypeInv'
    BY <1>1, <2>1, <2>2, <2>3 DEF TypeInv
  <2>5. LockInv'
    <3>1. \A d \in CPUs, p \in Tasks : lock'[d] = p <=> lock[d] = p
      <4>1. CASE LockBoth
        BY <1>2, <2>3, <4>1
      <4>2. CASE UnlockBoth
        BY <1>2, <1>3, <2>3, <4>2 DEF UnlockBoth
      <4>3. QED
        BY <1>7, <4>1, <4>2
    <3>2. \A d \in CPUs, e \in CPUs : lock'[d] = e <=>
             (e = d /\ irq'[d].at \in {"marked", "post"}) \/ (e = plug'.to /\ PlugHolds(d)')
      <4>1. \A d \in CPUs \ {plug.from, plug.to} : ~PlugHolds(d) /\ ~PlugHolds(d)'
        BY <2>2 DEF PlugHolds
      <4>2. \A d \in CPUs \ {plug.from, plug.to}, e \in CPUs :
              lock'[d] = e <=> e = d /\ irq'[d].at \in {"marked", "post"}
        BY <1>1, <2>3, <4>1 DEF LockInv
      <4>3. \A d \in {plug.from, plug.to} : irq'[d].at \notin {"marked", "post"}
        BY <1>1, <1>2
      <4>4. \A d \in {plug.from, plug.to}, e \in CPUs : lock'[d] = e <=> e = plug'.to /\ PlugHolds(d)'
        BY <1>2, <2>2, <2>3 DEF PlugHolds
      <4>5. QED
        BY <4>1, <4>2, <4>3, <4>4
    <3>3. QED
      BY <1>6, <3>1, <3>2 DEF LockInv
  <2>6. PlugInv' /\ IrqInv'
    BY <1>1, <1>2, <2>1, <2>2 DEF PlugInv, IrqInv
  <2>7. TaskInv'
    BY <1>1, <1>4, <2>1 DEF TaskInv
  <2>8. OneHome'
    <3>1. \A d \in CPUs \ online' : plug'.from # d => queue'[d] = {}
      BY <1>1, <2>1, <2>2, <2>3 DEF OneHome
    <3>2. QED
      BY <1>1, <1>5, <2>1, <2>2, <3>1 DEF OneHome
  <2>9. SleeperInv'
    <3>1. \A u \in Timers : Idle(u)' <=> Idle(u)
      BY <1>1, <2>1 DEF Idle
    <3>2. QED
      BY <1>1, <2>1, <3>1 DEF SleeperInv, Sleepers, TaskInv
  <2>10. QED
    BY <2>4, <2>5, <2>6, <2>7, <2>8, <2>9

<1>8. ASSUME MigrateOut \/ MigrateIn PROVE IInv'
  <2>1. PICK t \in Timers :
          /\ base[t] = plug.from /\ state[t] = "enqueued"
          /\ \/ MigrateOut /\ t \in queue[plug.from] /\ plug.moving = None /\ plug'.moving = t
             \/ MigrateIn /\ plug.moving = t /\ plug'.moving = None /\ \A d \in CPUs : t \notin queue[d]
          /\ plug' \in [at : {"idle", "dead", "locked"}, from : CPUs \cup {None},
                        to : CPUs \cup {None}, moving : Timers \cup {None}]
          /\ plug'.at = plug.at /\ plug'.from = plug.from /\ plug'.to = plug.to /\ plug.at = "locked"
          /\ MigrateOut => queue' = [queue EXCEPT ![plug.from] = @ \ {t}] /\ base' = base
          /\ MigrateIn => queue' = [queue EXCEPT ![plug.to] = @ \cup {t}]
                          /\ base' = [base EXCEPT ![t] = plug.to]
          /\ state' = [state EXCEPT ![t] = "enqueued"] /\ lock' = lock
    <3>1. CASE MigrateOut
      <4>1. PICK t \in queue[plug.from] :
               /\ plug' = [plug EXCEPT !.moving = t]
               /\ queue' = [queue EXCEPT ![plug.from] = @ \ {t}]
               /\ state' = [state EXCEPT ![t] = "enqueued"]
        BY <3>1 DEF MigrateOut, MovedState
      <4>2. t \in Timers /\ base[t] = plug.from /\ state[t] = "enqueued"
        BY <1>2 DEF OneHome, TypeInv
      <4>3. plug.at = "locked" /\ plug.moving = None /\ base' = base /\ lock' = lock
        BY <3>1 DEF MigrateOut
      <4>4. plug' = [at |-> plug.at, from |-> plug.from, to |-> plug.to, moving |-> t]
        BY <1>2, <4>1
      <4>5. ~MigrateIn
        BY <4>3 DEF MigrateIn
      <4>6. QED
        BY <1>2, <3>1, <4>1, <4>2, <4>3, <4>4, <4>5
    <3>2. CASE MigrateIn
      <4>1. plug.moving \in Timers /\ plug.at = "locked"
        BY <1>2, <3>2 DEF MigrateIn
      <4>2. /\ base[plug.moving] = plug.from /\ state[plug.moving] = "enqueued"
            /\ \A d \in CPUs : plug.moving \notin queue[d]
        BY <4>1 DEF PlugInv
      <4>3. plug' = [at |-> plug.at, from |-> plug.from, to |-> plug.to, moving |-> None]
        BY <1>2, <3>2 DEF MigrateIn
      <4>4. ~MigrateOut
        BY <4>1 DEF MigrateOut
      <4>5. /\ queue' = [queue EXCEPT ![plug.to] = @ \cup {plug.moving}]
            /\ base' = [base EXCEPT ![plug.moving] = plug.to]
            /\ state' = [state EXCEPT ![plug.moving] = "enqueued"] /\ lock' = lock
        BY <3>2 DEF MigrateIn
      <4>6. QED
        BY <1>2, <3>2, <4>1, <4>2, <4>3, <4>4, <4>5
    <3>3. QED
      BY <1>8, <3>1, <3>2
  <2>2. state' = state
    <3>1. state \in [Timers -> {"inactive", "enqueued"}]
      BY DEF TypeInv
    <3>2. QED
      BY <2>1, <3>1
  <2>3. /\ queue' \in [CPUs -> SUBSET Timers] /\ base' \in [Timers -> Bases]
        /\ \A u \in Timers \ {t} : base'[u] = base[u] /\ \A d \in CPUs : u \in queue'[d] <=> u \in queue[d]
        /\ MigrateOut => base'[t] = plug.from /\ \A d \in CPUs : t \notin queue'[d]
        /\ MigrateIn => base'[t] = plug.to /\ \A d \in CPUs : t \in queue'[d] <=> d = plug.to
        /\ \A d \in CPUs \ {plug.to} : queue'[d] \subseteq queue[d]
        /\ \A d \in CPUs \ {plug.from} : queue[d] \subseteq queue'[d]
    <3>1. queue \in [CPUs -> SUBSET Timers] /\ base \in [Timers -> Bases] /\ plug.to \in Bases
      BY <1>2 DEF TypeInv, Bases
    <3>2. CASE MigrateOut
      <4>1. base[t] = plug.from /\ queue' = [queue EXCEPT ![plug.from] = @ \ {t}] /\ base' = base
        BY <2>1, <3>2
      <4>2. \A d \in CPUs : t \in queue[d] => d = plug.from
        BY <4>1 DEF OneHome
      <4>3. ~MigrateIn
        BY <1>2, <2>1, <3>2 DEF MigrateIn, MigrateOut
      <4>4. QED
        BY <1>2, <3>1, <4>1, <4>2, <4>3
    <3>3. CASE MigrateIn
      <4>1. /\ queue' = [queue EXCEPT ![plug.to] = @ \cup {t}] /\ base' = [base EXCEPT ![t] = plug.to]
            /\ \A d \in CPUs : t \notin queue[d]
        BY <2>1, <3>3 DEF MigrateIn, MigrateOut
      <4>2. ~MigrateOut
        BY <3>3 DEF MigrateIn, MigrateOut
      <4>3. QED
        BY <1>2, <3>1, <4>1, <4>2
    <3>4. QED
      BY <1>8, <3>2, <3>3
  <2>4. TypeInv'
    <3>1. queue' \in [CPUs -> SUBSET Timers] /\ base' \in [Timers -> Bases]
      BY <2>3
    <3>2. plug' \in [at : {"idle", "dead", "locked"}, from : CPUs \cup {None},
                    to : CPUs \cup {None}, moving : Timers \cup {None}]
      BY <2>1
    <3>3. lock' = lock
      BY <2>1
    <3>4. QED
      BY <1>1, <2>2, <3>1, <3>2, <3>3 DEF TypeInv
  <2>5. LockInv'
    <3>1. \A d \in CPUs : PlugHolds(d)' <=> PlugHolds(d)
      BY <2>1 DEF PlugHolds
    <3>2. QED
      BY <1>1, <1>6, <2>1, <3>1 DEF LockInv
  <2>6. PlugInv'
    BY <1>1, <1>2, <2>1, <2>2, <2>3 DEF PlugInv
  <2>7. IrqInv'
    BY <1>1, <1>2, <2>3 DEF IrqInv
  <2>8. \A p \in Tasks : pc[p] \in Off /\ tm[p] = t => base'[t] = base[t] /\ \A d \in CPUs : t \notin queue'[d]
    <3>1. CASE MigrateOut
      BY <2>1, <2>3, <3>1
    <3>2. CASE MigrateIn
      <4>1. SUFFICES ASSUME NEW p \in Tasks, pc[p] \in Off, tm[p] = t PROVE FALSE
        OBVIOUS
      <4>2. TaskHolds(p, plug.from)
        BY <1>2, <2>1, <4>1 DEF TaskInv, TaskHolds, Off, Locked
      <4>3. QED
        BY <1>2, <1>3, <2>1, <4>2 DEF LockInv
    <3>3. QED
      BY <1>8, <3>1, <3>2
  <2>9. TaskInv'
    <3>1. \A p \in Tasks : pc[p] \in Off =>
            base'[tm[p]] = base[tm[p]] /\ \A d \in CPUs : tm[p] \notin queue'[d]
      <4>1. \A p \in Tasks : pc[p] \in Off => tm[p] \in Timers /\ \A d \in CPUs : tm[p] \notin queue[d]
        BY DEF TaskInv, TypeInv, Off, Locked, Between
      <4>2. QED
        BY <2>3, <2>8, <4>1
    <3>2. QED
      BY <1>1, <1>4, <3>1 DEF TaskInv, Off, Locked, Between
  <2>10. OneHome'
    <3>1. \A u \in Timers, d \in CPUs : u \in queue'[d] => base'[u] = d /\ state'[u] = "enqueued"
      BY <1>8, <2>1, <2>2, <2>3 DEF OneHome
    <3>2. \A u \in Timers, d \in CPUs : running'[d] = u => base'[u] = d
      <4>1. \A d \in CPUs : running[d] # t
        BY <1>2, <2>1 DEF OneHome
      <4>2. QED
        BY <1>1, <2>3, <4>1 DEF OneHome
    <3>3. \A u \in Timers : state'[u] = "enqueued" => \/ \E d \in CPUs : u \in queue'[d]
                                                      \/ \E p \in Tasks : IrqsOff(p)' /\ tm'[p] = u
                                                      \/ plug'.moving = u
      <4>1. \A u \in Timers \ {t} : state'[u] = "enqueued" => \/ \E d \in CPUs : u \in queue'[d]
                                                              \/ \E p \in Tasks : IrqsOff(p)' /\ tm'[p] = u
        BY <1>1, <1>5, <2>1, <2>2, <2>3 DEF OneHome
      <4>2. (\E d \in CPUs : t \in queue'[d]) \/ plug'.moving = t
        BY <1>2, <1>8, <2>1, <2>3
      <4>3. QED
        BY <4>1, <4>2
    <3>4. \A d \in CPUs \ online' : plug'.from # d => queue'[d] = {}
      BY <1>1, <1>2, <2>1, <2>3 DEF OneHome
    <3>5. QED
      BY <3>1, <3>2, <3>3, <3>4 DEF OneHome
  <2>11. SleeperInv'
    <3>1. \A u \in Timers : Idle(u)' <=> Idle(u)
      BY <1>1, <2>2 DEF Idle
    <3>2. \A p \in Tasks : tm[p] \in Sleepers /\ pc[p] = "ac_retry" => tm[p] # t /\ tm[p] \in Timers
      BY <2>1 DEF SleeperInv, Sleepers
    <3>3. \A p \in Tasks : tm[p] \in Sleepers /\ pc[p] = "ac_retry" => base'[tm[p]] = base[tm[p]]
      BY <2>3, <3>2
    <3>4. \A u \in Sleepers : Idle(u)' <=> Idle(u)
      BY <3>1 DEF Sleepers
    <3>5. QED
      BY <1>1, <2>2, <3>3, <3>4 DEF SleeperInv
  <2>12. QED
    BY <2>4, <2>5, <2>6, <2>7, <2>9, <2>10, <2>11
<1>9. QED
  BY <1>7, <1>8 DEF Hotplug

-----------------------------------------------------------------------------
(* The invariant.                                                          *)

LEMMA StepInv == IInv /\ [Next]_vars => IInv'
<1> SUFFICES ASSUME IInv, [Next]_vars PROVE IInv'
  OBVIOUS
<1>1. ASSUME UNCHANGED <<kind, base, state, queue, running, lock, online, irq, plug, on, pc, call,
                         tm, seen, target>>
      PROVE  IInv'
  <2>1. TypeInv' /\ PlugInv' /\ IrqInv'
    BY <1>1 DEF IInv, TypeInv, PlugInv, IrqInv, Sleepers
  <2>2. LockInv'
    BY <1>1 DEF IInv, LockInv, TaskHolds, PlugHolds
  <2>3. TaskInv' /\ OneHome' /\ SleeperInv'
    BY <1>1 DEF IInv, TaskInv, OneHome, SleeperInv, Sleepers, Sleeps, IrqsOff, Idle
  <2>4. QED
    BY <2>1, <2>2, <2>3 DEF IInv
<1>2. ASSUME NEW p \in Tasks,
             CallStart(p) \/ CallCancel(p) \/ Nanosleep(p) \/ ScheduleTimeout(p) \/ Continue(p) \/ WakeUp(p)
      PROVE  IInv'
  <2>1. CASE WakeUp(p)
    BY <1>1, <2>1 DEF WakeUp, timerVars, cpuVars, localVars
  <2>2. CASE Start(p)
    BY <2>2, QuietSteps, StartLockedStep, SwitchStep, EnqueueStep DEF Start
  <2>3. CASE Cancel(p)
    BY <2>3, QuietSteps, CancelStep DEF Cancel
  <2>4. QED
    BY <1>2, <2>1, <2>2, <2>3, CallStep, ReturnStep, QuietSteps DEF Continue
<1>3. CASE UNCHANGED vars
  BY <1>1, <1>3 DEF vars, timerVars, cpuVars, localVars
<1>4. QED
  BY <1>2, <1>3, InterruptStep, CpusStep, HotplugStep DEF Next

\* Every reachable state satisfies the inductive invariant.
THEOREM Invariant == Spec => []IInv
<1>1. Init => IInv
  BY InitInv
<1>2. IInv /\ [Next]_vars => IInv'
  BY StepInv
<1>3. QED
  BY <1>1, <1>2, PTL DEF Spec

\* Type correctness, and that a task that has a lock has the interrupts of its CPU off.
THEOREM TypeCorrect == Spec => []TypeOK
<1>1. IInv => TypeOK
  <2> SUFFICES ASSUME IInv PROVE TypeOK
    OBVIOUS
  <2>1. \A c \in CPUs : irq[c].at \in IrqPlaces /\ irq[c].timer \in Timers \cup {None}
    BY DEF IInv, TypeInv
  <2>2. \A c \in CPUs : lock[c] \in Tasks => IrqsOff(lock[c])
    BY DEF IInv, LockInv, TaskHolds, IrqsOff
  <2>3. \A c \in CPUs : irq[c].at \in {"marked", "post"} => lock[c] = c
    BY DEF IInv, LockInv
  <2>4. QED
    BY <2>1, <2>2, <2>3 DEF TypeOK, IInv, TypeInv
<1>2. QED
  BY <1>1, Invariant, PTL

\* A timer is in the queue of the base that it names and in no other, whatever tasks,
\* interrupts and CPUs that stop do with it at the same time (switch_hrtimer_base,
\* __run_hrtimer, migrate_hrtimer_list).
THEOREM TimersHaveOneHome == Spec => []OneHome
<1>1. IInv => OneHome
  BY DEF IInv
<1>2. QED
  BY <1>1, Invariant, PTL

-----------------------------------------------------------------------------
(* hrtimer_active and hrtimer_cancel.                                      *)

\* An idle timer stays idle as long as no task is about to put it into a queue.
LEMMA IdleStays ==
    ASSUME IInv, Next, NEW t \in Timers, Idle(t),
           \A q \in Tasks : pc[q] = "st_enqueue" => tm[q] # t
    PROVE  Idle(t)'
<1> USE Names DEF IInv
<1>1. state[t] = "inactive" /\ \A b \in Bases : running[b] # t
  BY DEF Idle
<1>2. \A c \in CPUs : t \notin queue[c] /\ (irq[c].at # "idle" => irq[c].timer # t)
  BY <1>1 DEF OneHome, IrqInv, Bases
<1>3. plug.moving # t
  BY <1>1 DEF PlugInv
<1>4. /\ state \in [Timers -> {"inactive", "enqueued"}] /\ running \in [Bases -> Timers \cup {None}]
      /\ tm \in [Tasks -> Timers \cup {None}]
  BY DEF TypeInv
<1>5. SUFFICES state'[t] = "inactive" /\ \A b \in Bases : running'[b] # t
  BY DEF Idle
<1>6. ASSUME NEW p \in Tasks,
             CallStart(p) \/ CallCancel(p) \/ Nanosleep(p) \/ ScheduleTimeout(p) \/ Continue(p) \/ WakeUp(p)
      PROVE  state'[t] = "inactive" /\ running' = running
  <2>1. CASE CallStart(p) \/ CallCancel(p) \/ Nanosleep(p) \/ ScheduleTimeout(p)
    BY <1>1, <1>4, <2>1 DEF CallStart, CallCancel, Nanosleep, ScheduleTimeout, Call, InitSleeper, InitTimer
  <2>2. CASE Start(p)
    <3>1. CASE StartLocked(p)
      BY <1>1, <1>4, <3>1 DEF StartLocked, RestartState
    <3>2. CASE EnqueueStarted(p)
      BY <1>1, <1>4, <3>2 DEF EnqueueStarted, Goto
    <3>3. CASE ~StartLocked(p) /\ ~EnqueueStarted(p)
      BY <1>1, <2>2, <3>3 DEF Start, ReadBase, Moved, Step, SwitchLeave, SwitchStay, SwitchEarly,
         SwitchEnter, SwitchRefuse, SwitchBack, Retarget, timerVars
    <3>4. QED
      BY <3>1, <3>2, <3>3
  <2>3. CASE Cancel(p)
    <3>1. CASE CancelQueued(p)
      BY <1>1, <1>4, <3>1 DEF CancelQueued
    <3>2. CASE ~CancelQueued(p)
      BY <1>1, <2>3, <3>2 DEF Cancel, ReadBase, Moved, Step, ActiveBase, ActiveSeq, ActiveState,
         ActiveRunning, ActiveRetry, NothingToCancel, CancelRunning, timerVars
    <3>3. QED
      BY <3>1, <3>2
  <2>4. CASE Sleep(p) \/ Return(p) \/ WakeUp(p)
    BY <1>1, <2>4 DEF Sleep, SetState, TestTask, Step, Schedule, AfterSleep, Return, WakeUp, timerVars
  <2>5. QED
    BY <1>6, <2>1, <2>2, <2>3, <2>4 DEF Continue
<1>7. ASSUME NEW c \in CPUs, Interrupt(c)
      PROVE  state'[t] = "inactive" /\ \A b \in Bases : running'[b] # t
  <2>1. CASE Expire(c)
    BY <1>1, <1>2, <1>4, <2>1 DEF Expire
  <2>2. CASE Dequeue(c)
    BY <1>1, <1>4, <2>2 DEF Dequeue
  <2>3. CASE Wakeup(c) \/ Callback(c)
    BY <1>1, <2>3 DEF Wakeup, Callback, timerVars
  <2>4. CASE Relock(c)
    <3>1. irq[c].timer # t
      BY <1>2, <2>4 DEF Relock, IrqAt
    <3>2. QED
      BY <1>1, <1>4, <2>4, <3>1 DEF Relock
  <2>5. CASE Finish(c)
    BY <1>1, <1>4, <2>5 DEF Finish
  <2>6. QED
    BY <1>7, <2>1, <2>2, <2>3, <2>4, <2>5 DEF Interrupt
<1>8. ASSUME Hotplug \/ \E c \in CPUs : GoOffline(c) \/ PrepareCpu(c)
      PROVE  state'[t] = "inactive" /\ running' = running
  <2>1. CASE MigrateOut
    <3>1. PICK u \in queue[plug.from] : state' = [state EXCEPT ![u] = "enqueued"] /\ running' = running
      BY <2>1 DEF MigrateOut, MovedState
    <3>2. plug.from \in CPUs
      BY <2>1 DEF MigrateOut, PlugInv
    <3>3. QED
      BY <1>1, <1>2, <1>4, <3>1, <3>2
  <2>2. CASE MigrateIn
    BY <1>1, <1>3, <1>4, <2>2 DEF MigrateIn
  <2>3. CASE LockBoth \/ UnlockBoth
    BY <1>1, <2>3 DEF LockBoth, UnlockBoth, timerVars
  <2>4. CASE \E c \in CPUs : GoOffline(c) \/ PrepareCpu(c)
    BY <1>1, <2>4 DEF GoOffline, PrepareCpu, timerVars
  <2>5. QED
    BY <1>8, <2>1, <2>2, <2>3, <2>4 DEF Hotplug
<1>9. QED
  BY <1>1, <1>6, <1>7, <1>8 DEF Next

\* The steps of a task itself, and what is left of its call after any other step.
Own(p) == CallStart(p) \/ CallCancel(p) \/ Nanosleep(p) \/ ScheduleTimeout(p) \/ Continue(p)
StaleType == stale \in [Tasks -> BOOLEAN]
Keeps(p) ==
    /\ pc'[p] = pc[p] /\ call'[p] = call[p] /\ tm'[p] = tm[p] /\ seen'[p] = seen[p]
    /\ stale[p] => stale'[p]
    /\ disturbed[p] => disturbed'[p]
    /\ pc[p] \in Counting /\ running[seen[p]] = tm[p] => running'[seen[p]] = tm[p] \/ stale'[p]

LEMMA OwnKeeps ==
    ASSUME IInv, StaleType, NEW q \in Tasks, Own(q)
    PROVE  /\ StaleType' /\ running' = running
           /\ \A p \in Tasks \ {q} : Keeps(p) /\ (CallStart(q) => disturbed'[p])
<1>1. /\ pc \in [Tasks -> Places] /\ call \in [Tasks -> Calls \cup {None}]
      /\ tm \in [Tasks -> Timers \cup {None}] /\ seen \in [Tasks -> Bases \cup {None}]
      /\ stale \in [Tasks -> BOOLEAN]
  BY DEF IInv, TypeInv, StaleType
<1>2. running' = running
  BY DEF Own, CallStart, CallCancel, Nanosleep, ScheduleTimeout, Call, Continue, Start, Cancel, Sleep,
     Return, ReadBase, Moved, Step, StartLocked, SwitchLeave, SwitchStay, SwitchEarly, SwitchEnter,
     SwitchRefuse, SwitchBack, EnqueueStarted, Retarget, ActiveBase, ActiveSeq, ActiveState,
     ActiveRunning, ActiveRetry, NothingToCancel, CancelRunning, CancelQueued, SetState, TestTask,
     Schedule, AfterSleep, timerVars
<1>3. \A p \in Tasks \ {q} : pc'[p] = pc[p]
  <2>1. \A from, to : Goto(q, from, to) => \A p \in Tasks \ {q} : pc'[p] = pc[p]
    BY <1>1 DEF Goto
  <2>2. \E from, to : Goto(q, from, to)
    <3>1. CASE CallStart(q) \/ CallCancel(q) \/ Nanosleep(q) \/ ScheduleTimeout(q)
      BY <3>1 DEF CallStart, CallCancel, Nanosleep, ScheduleTimeout, Call
    <3>2. CASE Start(q)
      BY <3>2 DEF Start, ReadBase, Moved, Step, StartLocked, SwitchLeave, SwitchStay, SwitchEarly,
         SwitchEnter, SwitchRefuse, SwitchBack, EnqueueStarted
    <3>3. CASE Cancel(q)
      BY <3>3 DEF Cancel, ReadBase, Moved, Step, ActiveBase, ActiveSeq, ActiveState, ActiveRunning,
         ActiveRetry, NothingToCancel, CancelRunning, CancelQueued
    <3>4. CASE Sleep(q) \/ Return(q)
      BY <3>4 DEF Sleep, SetState, TestTask, Step, Schedule, AfterSleep, Return
    <3>5. QED
      BY <3>1, <3>2, <3>3, <3>4 DEF Own, Continue
  <2>3. QED
    BY <2>1, <2>2
<1>4. \A p \in Tasks \ {q} : call'[p] = call[p] /\ tm'[p] = tm[p] /\ seen'[p] = seen[p]
  <2>1. CASE CallStart(q) \/ CallCancel(q) \/ Nanosleep(q) \/ ScheduleTimeout(q)
    BY <1>1, <2>1 DEF CallStart, CallCancel, Nanosleep, ScheduleTimeout, Call
  <2>2. CASE Start(q)
    BY <1>1, <2>2 DEF Start, ReadBase, Moved, Step, StartLocked, SwitchLeave, SwitchStay, SwitchEarly,
         SwitchEnter, SwitchRefuse, SwitchBack, EnqueueStarted, Retarget, localVars
  <2>3. CASE Cancel(q)
    BY <1>1, <2>3 DEF Cancel, ReadBase, Moved, Step, ActiveBase, ActiveSeq, ActiveState, ActiveRunning,
         ActiveRetry, NothingToCancel, CancelRunning, CancelQueued, localVars
  <2>4. CASE Sleep(q) \/ Return(q)
    BY <1>1, <2>4 DEF Sleep, SetState, TestTask, Step, Schedule, AfterSleep, Return, localVars
  <2>5. QED
    BY <2>1, <2>2, <2>3, <2>4 DEF Own, Continue
<1>5. stale' = stale \/ stale' = [stale EXCEPT ![q] = FALSE]
  BY DEF Own, CallStart, CallCancel, Nanosleep, ScheduleTimeout, Call, Continue, Start, Cancel, Sleep,
     Return, ReadBase, Moved, Step, StartLocked, SwitchLeave, SwitchStay, SwitchEarly, SwitchEnter,
     SwitchRefuse, SwitchBack, EnqueueStarted, Retarget, ActiveBase, ActiveSeq, ActiveState,
     ActiveRunning, ActiveRetry, NothingToCancel, CancelRunning, CancelQueued, SetState, TestTask,
     Schedule, AfterSleep, localVars
<1>6. StaleType' /\ \A p \in Tasks \ {q} : stale'[p] = stale[p]
  BY <1>1, <1>5 DEF StaleType
<1>7. \A p \in Tasks \ {q} : (disturbed[p] => disturbed'[p]) /\ (CallStart(q) => disturbed'[p])
  <2>1. CASE CallStart(q)
    <3>1. \A p \in Tasks \ {q} : disturbed'[p] = (disturbed[p] \/ "start" = "start")
      BY <2>1 DEF CallStart, Share
    <3>2. QED
      BY <3>1
  <2>2. CASE CallCancel(q)
    <3>1. ~CallStart(q)
      BY <1>1, <2>2 DEF CallCancel, CallStart, Call
    <3>2. \A p \in Tasks \ {q} : disturbed'[p] = (disturbed[p] \/ "cancel" = "start")
      BY <2>2 DEF CallCancel, Share
    <3>3. QED
      BY <3>1, <3>2
  <2>3. CASE ~CallStart(q) /\ ~CallCancel(q)
    <3>1. disturbed' = disturbed
      BY <2>3 DEF Own, CallStart, CallCancel, Nanosleep, ScheduleTimeout, InitSleeper, Continue, Start, Cancel, Sleep,
         Return, ReadBase, Moved, Step, StartLocked, SwitchLeave, SwitchStay, SwitchEarly, SwitchEnter,
         SwitchRefuse, SwitchBack, EnqueueStarted, Retarget, ActiveBase, ActiveSeq, ActiveState,
         ActiveRunning, ActiveRetry, NothingToCancel, CancelRunning, CancelQueued, SetState, TestTask,
         Schedule, AfterSleep, countVars
    <3>2. QED
      BY <2>3, <3>1
  <2>4. QED
    BY <2>1, <2>2, <2>3
<1>8. QED
  BY <1>2, <1>3, <1>4, <1>6, <1>7 DEF Keeps

LEMMA OtherKeeps ==
    ASSUME IInv, StaleType,
           \/ \E p \in Tasks : WakeUp(p)
           \/ \E c \in CPUs : Interrupt(c) \/ GoOffline(c) \/ PrepareCpu(c)
           \/ Hotplug
    PROVE  StaleType' /\ \A p \in Tasks : Keeps(p)
<1> USE Names
<1>1. UNCHANGED <<pc, call, tm, seen, disturbed>>
  BY DEF WakeUp, Interrupt, Expire, Dequeue, Wakeup, Callback, Relock, Finish, GoOffline, PrepareCpu,
     Hotplug, LockBoth, MigrateOut, MigrateIn, UnlockBoth, localVars, countVars
<1>2. ASSUME UNCHANGED <<stale, running>> PROVE StaleType' /\ \A p \in Tasks : Keeps(p)
  BY <1>1, <1>2 DEF StaleType, Keeps
<1>3. CASE \/ \E p \in Tasks : WakeUp(p)
           \/ \E c \in CPUs : GoOffline(c) \/ PrepareCpu(c)
           \/ Hotplug
  BY <1>2, <1>3 DEF WakeUp, GoOffline, PrepareCpu, Hotplug, LockBoth, MigrateOut, MigrateIn, UnlockBoth,
     timerVars, localVars
<1>4. ASSUME NEW c \in CPUs, Interrupt(c) PROVE StaleType' /\ \A p \in Tasks : Keeps(p)
  <2>1. CASE Wakeup(c) \/ Callback(c) \/ Relock(c)
    BY <1>2, <2>1 DEF Wakeup, Callback, Relock, timerVars, localVars
  <2>2. ASSUME Barrier(c)
        PROVE  /\ StaleType' /\ \A p \in Tasks : stale[p] => stale'[p]
               /\ \A p \in Tasks : pc[p] \in Counting /\ seen[p] = c => stale'[p]
    BY <2>2 DEF Barrier, StaleType
  <2>3. CASE Dequeue(c)
    BY <1>1, <2>2, <2>3 DEF Dequeue, Keeps
  <2>4. CASE Finish(c)
    <3>1. running' = [running EXCEPT ![c] = None] /\ running \in [Bases -> Timers \cup {None}]
      BY <2>4 DEF Finish, IInv, TypeInv
    <3>2. \A p \in Tasks : pc[p] \in Counting => seen[p] \in Bases
      BY DEF IInv, TaskInv
    <3>3. ASSUME NEW p \in Tasks, pc[p] \in Counting, running[seen[p]] = tm[p]
          PROVE  running'[seen[p]] = tm[p] \/ stale'[p]
      <4>1. CASE seen[p] = c
        BY <2>2, <2>4, <3>3, <4>1 DEF Finish
      <4>2. CASE seen[p] # c
        BY <3>1, <3>2, <3>3, <4>2
      <4>3. QED
        BY <4>1, <4>2
    <3>4. QED
      BY <1>1, <2>2, <2>4, <3>3 DEF Finish, Keeps
  <2>5. CASE Expire(c)
    <3>1. PICK t \in queue[c] : running' = [running EXCEPT ![c] = t] /\ irq[c].at = "idle" /\ stale' = stale
      BY <2>5 DEF Expire, CanInterrupt, localVars
    <3>2. running[c] = None /\ running \in [Bases -> Timers \cup {None}]
      BY <3>1 DEF IInv, IrqInv, TypeInv
    <3>3. \A p \in Tasks : pc[p] \in Counting => seen[p] \in Bases /\ tm[p] # None
      BY DEF IInv, TaskInv, Counting
    <3>4. \A p \in Tasks : pc[p] \in Counting /\ running[seen[p]] = tm[p] => running'[seen[p]] = tm[p]
      BY <3>1, <3>2, <3>3
    <3>5. StaleType'
      BY <3>1 DEF StaleType
    <3>6. \A p \in Tasks : stale[p] => stale'[p]
      BY <3>1
    <3>7. QED
      BY <1>1, <3>4, <3>5, <3>6 DEF Keeps
  <2>6. QED
    BY <1>4, <2>1, <2>3, <2>4, <2>5 DEF Interrupt
<1>5. QED
  BY <1>3, <1>4

\* A step of a task that is in hrtimer_active, that enters it or that ends it.
LEMMA ReadSteps ==
    ASSUME IInv, NEW p \in Tasks, Own(p)
    PROVE  /\ pc'[p] = "ac_running" => ActiveState(p) /\ state[tm[p]] = "inactive"
           /\ pc'[p] = "ac_retry" => ActiveRunning(p) /\ running[seen[p]] # tm[p]
           /\ pc'[p] = "inactive" => ActiveRetry(p) /\ ~MustRetry(p)
           /\ pc'[p] = "done" => NothingToCancel(p) \/ CancelQueued(p) \/ EnqueueStarted(p) \/ AfterSleep(p)
<1>1. pc \in [Tasks -> Places]
  BY DEF IInv, TypeInv
<1>2. \A from, to : Goto(p, from, to) => pc'[p] = to
  BY <1>1 DEF Goto
<1>3. CASE CallStart(p) \/ CallCancel(p) \/ Nanosleep(p) \/ ScheduleTimeout(p)
  <2>1. Goto(p, "idle", "lk_read") \/ Goto(p, "idle", "ac_base") \/ Goto(p, "idle", "sl_state")
    BY <1>3 DEF CallStart, CallCancel, Nanosleep, ScheduleTimeout, Call
  <2>2. QED
    BY <1>2, <2>1
<1>4. CASE Start(p)
  <2>1. CASE EnqueueStarted(p)
    BY <1>2, <2>1 DEF EnqueueStarted
  <2>2. CASE ~EnqueueStarted(p)
    BY <1>2, <1>4, <2>2 DEF Start, ReadBase, Moved, Step, StartLocked, SwitchLeave, SwitchStay, SwitchEarly,
       SwitchEnter, SwitchRefuse, SwitchBack
  <2>3. QED
    BY <2>1, <2>2
<1>5. CASE Cancel(p)
  <2>1. CASE ActiveState(p)
    BY <1>2, <2>1 DEF ActiveState, Step
  <2>2. CASE ActiveRunning(p)
    BY <1>2, <2>2 DEF ActiveRunning, Step
  <2>3. CASE ActiveRetry(p)
    BY <1>2, <2>3 DEF ActiveRetry
  <2>4. CASE NothingToCancel(p)
    BY <1>2, <2>4 DEF NothingToCancel, Step, AfterCancel
  <2>5. CASE CancelQueued(p)
    BY <1>2, <2>5 DEF CancelQueued, AfterCancel
  <2>6. QED
    BY <1>2, <1>5, <2>1, <2>2, <2>3, <2>4, <2>5 DEF Cancel, ReadBase, Moved, Step, ActiveBase, ActiveSeq,
       CancelRunning, AfterMinusOne
<1>6. CASE Sleep(p)
  <2>1. CASE TestTask(p)
    BY <1>2, <2>1 DEF TestTask, Step
  <2>2. CASE AfterSleep(p)
    BY <1>2, <2>2 DEF AfterSleep
  <2>3. CASE SetState(p) \/ Schedule(p)
    BY <1>2, <2>3 DEF SetState, Schedule
  <2>4. QED
    BY <1>6, <2>1, <2>2, <2>3 DEF Sleep
<1>7. CASE Return(p)
  BY <1>2, <1>7 DEF Return
<1>8. QED
  BY <1>3, <1>4, <1>5, <1>6, <1>7 DEF Own, Continue

\* Every step is one of the task, or leaves its call alone; and what it adds to the history.
LEMMA EachStep ==
    ASSUME IInv, StaleType, Next
    PROVE  /\ StaleType' /\ \A p \in Tasks : Own(p) \/ Keeps(p)
           /\ \A p \in Tasks : Own(p) => running' = running
<1>1. ASSUME NEW q \in Tasks, Own(q)
      PROVE  /\ StaleType' /\ (\A p \in Tasks : Own(p) \/ Keeps(p)) /\ running' = running
  BY <1>1, OwnKeeps
<1>2. CASE \/ \E p \in Tasks : WakeUp(p)
           \/ \E c \in CPUs : Interrupt(c) \/ GoOffline(c) \/ PrepareCpu(c)
           \/ Hotplug
  BY <1>1, <1>2, OtherKeeps
<1>3. CASE \E q \in Tasks : Own(q)
  BY <1>1, <1>3
<1>4. QED
  BY <1>2, <1>3 DEF Next, Own

LEMMA History ==
    ASSUME Next, NEW p \in Tasks
    PROVE  /\ pc'[p] \in {"inactive", "done"} => (left'[p] <=> left[p])
           /\ pc'[p] \in Counting => (left'[p] <=> left[p] \/ base'[tm'[p]] # seen'[p])
           /\ pc'[p] = "inactive" => (sawIdle'[p] <=> sawIdle[p])
           /\ pc'[p] \in Reading =>
                (sawIdle'[p] <=> (pc[p] \in Reading /\ sawIdle[p]) \/ \E t \in Timers : tm'[p] = t /\ Idle(t)')
<1>1. Observe
  BY DEF Next
<1>2. left'[p] = (\/ pc'[p] \in {"inactive", "done"} /\ left[p]
                  \/ pc'[p] \in Counting /\ (left[p] \/ base'[tm'[p]] # seen'[p]))
  BY <1>1 DEF Observe
<1>3. pc'[p] = "inactive" => (sawIdle'[p] = (pc'[p] = "inactive" /\ sawIdle[p]))
  BY <1>1 DEF Observe, Reading, Counting
<1>4. pc'[p] \in Reading => (sawIdle'[p] = ((pc[p] \in Reading /\ sawIdle[p])
                                            \/ \E t \in Timers : tm'[p] = t /\ Idle(t)'))
  BY <1>1 DEF Observe
<1>5. QED
  BY <1>2, <1>3, <1>4 DEF Counting

\* The readers' invariant: the counter or the base tells whoever has missed the timer.
LEMMA ReadInvStep ==
    ASSUME IInv, StaleType, ReadInv, Next
    PROVE  ReadInv'
<1> USE Names
<1> SUFFICES ASSUME NEW p \in Tasks
             PROVE  /\ pc'[p] \in Counting /\ base'[tm'[p]] # seen'[p] => left'[p]
                    /\ pc'[p] = "ac_running" =>
                         sawIdle'[p] \/ stale'[p] \/ left'[p] \/ running'[seen'[p]] = tm'[p]
                    /\ pc'[p] = "ac_retry" => sawIdle'[p] \/ stale'[p] \/ left'[p]
                    /\ pc'[p] = "inactive" => sawIdle'[p] \/ left'[p]
  BY DEF ReadInv
<1>1. Own(p) \/ Keeps(p)
  BY EachStep
<1>2. {"ac_running", "ac_retry"} \subseteq Counting /\ Counting \subseteq Reading
  BY DEF Counting, Reading
<1>3. pc[p] \in Counting => tm[p] \in Timers /\ seen[p] \in Bases
  BY DEF IInv, TypeInv, TaskInv, Counting
<1>4. pc'[p] \in Counting /\ base'[tm'[p]] # seen'[p] => left'[p]
  BY History
<1>5. CASE Keeps(p)
  <2>1. pc'[p] = pc[p] /\ tm'[p] = tm[p] /\ seen'[p] = seen[p] /\ (stale[p] => stale'[p])
        /\ (pc[p] \in Counting /\ running[seen[p]] = tm[p] => running'[seen[p]] = tm[p] \/ stale'[p])
    BY <1>5 DEF Keeps
  <2>2. pc[p] \in Counting \cup {"inactive"} => (sawIdle[p] => sawIdle'[p]) /\ (left[p] => left'[p])
    BY <1>2, <2>1, History
  <2>3. pc'[p] = "ac_running" => sawIdle'[p] \/ stale'[p] \/ left'[p] \/ running'[seen'[p]] = tm'[p]
    BY <1>2, <2>1, <2>2 DEF ReadInv
  <2>4. pc'[p] = "ac_retry" => sawIdle'[p] \/ stale'[p] \/ left'[p]
    BY <1>2, <2>1, <2>2 DEF ReadInv
  <2>5. pc'[p] = "inactive" => sawIdle'[p] \/ left'[p]
    BY <2>1, <2>2 DEF ReadInv
  <2>6. QED
    BY <1>4, <2>3, <2>4, <2>5
<1>6. CASE Own(p)
  <2>1. ASSUME pc'[p] = "ac_running"
        PROVE  sawIdle'[p] \/ stale'[p] \/ left'[p] \/ running'[seen'[p]] = tm'[p]
    <3>1. ActiveState(p) /\ state[tm[p]] = "inactive" /\ running' = running
      BY <1>6, <2>1, ReadSteps, EachStep
    <3>2. pc[p] = "ac_state" /\ UNCHANGED <<state, running, base, tm, seen>>
      BY <3>1 DEF ActiveState, Step, Goto, timerVars, localVars
    <3>3. tm[p] \in Timers /\ seen[p] \in Bases
      BY <1>3, <3>2 DEF Counting
    <3>4. CASE \A b \in Bases : running[b] # tm[p]
      <4>1. Idle(tm[p])'
        BY <3>1, <3>2, <3>4 DEF Idle
      <4>2. sawIdle'[p]
        BY <1>2, <2>1, <3>2, <3>3, <4>1, History
      <4>3. QED
        BY <4>2
    <3>5. CASE \E b \in Bases : running[b] = tm[p]
      <4>1. PICK b \in Bases : running[b] = tm[p]
        BY <3>5
      <4>2. base[tm[p]] = b
        BY <3>3, <4>1 DEF IInv, OneHome, IrqInv, Bases
      <4>3. CASE b = seen[p]
        BY <3>2, <4>1, <4>3
      <4>4. CASE b # seen[p]
        <5>1. base'[tm'[p]] # seen'[p]
          BY <3>2, <4>2, <4>4
        <5>2. left'[p]
          BY <1>2, <1>4, <2>1, <5>1
        <5>3. QED
          BY <5>2
      <4>5. QED
        BY <4>3, <4>4
    <3>6. QED
      BY <3>4, <3>5
  <2>2. ASSUME pc'[p] = "ac_retry"
        PROVE  sawIdle'[p] \/ stale'[p] \/ left'[p]
    <3>1. ActiveRunning(p) /\ running[seen[p]] # tm[p]
      BY <1>6, <2>2, ReadSteps
    <3>2. pc[p] = "ac_running" /\ stale' = stale
      BY <3>1 DEF ActiveRunning, Step, Goto, localVars
    <3>3. sawIdle[p] \/ stale[p] \/ left[p]
      BY <3>1, <3>2 DEF ReadInv
    <3>4. (sawIdle[p] => sawIdle'[p]) /\ (left[p] => left'[p])
      BY <1>2, <2>2, <3>2, History
    <3>5. QED
      BY <3>2, <3>3, <3>4
  <2>3. ASSUME pc'[p] = "inactive"
        PROVE  sawIdle'[p] \/ left'[p]
    <3>1. ActiveRetry(p) /\ ~MustRetry(p)
      BY <1>6, <2>3, ReadSteps
    <3>2. pc[p] = "ac_retry" /\ ~stale[p]
      BY <3>1 DEF ActiveRetry, MustRetry, Goto
    <3>3. sawIdle[p] \/ left[p]
      BY <3>2 DEF ReadInv
    <3>4. (sawIdle[p] => sawIdle'[p]) /\ (left[p] => left'[p])
      BY <2>3, History
    <3>5. QED
      BY <3>3, <3>4
  <2>4. QED
    BY <1>4, <2>1, <2>2, <2>3
<1>7. QED
  BY <1>1, <1>5, <1>6

LEMMA CancelInvStep ==
    ASSUME IInv, StaleType, ReadInv, CancelInv, Next
    PROVE  CancelInv'
<1> USE Names
<1> SUFFICES ASSUME NEW p \in Tasks, call'[p] = "cancel", ~disturbed'[p]
             PROVE  /\ \A r \in Tasks \ {p} : call'[r] = "start" => pc'[r] = "done"
                    /\ pc'[p] \in Reading \cup {"inactive"} /\ sawIdle'[p] => Idle(tm[p])'
                    /\ pc'[p] = "done" => left'[p] \/ Idle(tm[p])'
  BY DEF CancelInv
<1>1. CASE CallStart(p) \/ CallCancel(p) \/ Nanosleep(p) \/ ScheduleTimeout(p)
  <2>1. CallCancel(p)
    BY <1>1 DEF CallStart, Nanosleep, ScheduleTimeout, Call, IInv, TypeInv
  <2>2. PICK t \in Timers \ Sleepers : Call(p, t, "cancel", "ac_base") /\ Share(p, "cancel")
    BY <2>1 DEF CallCancel
  <2>3. /\ pc[p] = "idle" /\ pc' = [pc EXCEPT ![p] = "ac_base"] /\ call' = [call EXCEPT ![p] = "cancel"]
        /\ pc \in [Tasks -> Places] /\ call \in [Tasks -> Calls \cup {None}]
    BY <2>2 DEF Call, Goto, IInv, TypeInv
  <2>4. disturbed'[p] = \E r \in Tasks \ {p} : call[r] = "start" /\ pc[r] # "done"
    BY <2>2 DEF Share
  <2>5. \A r \in Tasks \ {p} : call'[r] = "start" => pc'[r] = "done"
    BY <2>3, <2>4
  <2>6. pc'[p] = "ac_base" /\ pc[p] \notin Reading
    BY <2>3 DEF Reading, Counting
  <2>7. sawIdle'[p] => Idle(tm[p])'
    BY <2>6, History DEF Reading
  <2>8. QED
    BY <2>5, <2>6, <2>7
<1>2. CASE ~(CallStart(p) \/ CallCancel(p) \/ Nanosleep(p) \/ ScheduleTimeout(p))
  <2>1. Continue(p) \/ Keeps(p)
    BY <1>2, EachStep DEF Own
  <2>2. /\ call[p] = "cancel" /\ ~disturbed[p] /\ tm'[p] = tm[p]
    <3>1. CASE Keeps(p)
      BY <3>1 DEF Keeps
    <3>2. CASE Continue(p)
      <4>1. ~Return(p)
        BY DEF Return, IInv, TypeInv, Calls
      <4>2. UNCHANGED <<call, tm, disturbed>>
        BY <3>2, <4>1 DEF Continue, Start, Cancel, Sleep, ReadBase, Moved, Step, StartLocked, SwitchLeave,
           SwitchStay, SwitchEarly, SwitchEnter, SwitchRefuse, SwitchBack, EnqueueStarted, Retarget,
           ActiveBase, ActiveSeq, ActiveState, ActiveRunning, ActiveRetry, NothingToCancel, CancelRunning,
           CancelQueued, SetState, TestTask, Schedule, AfterSleep, localVars, countVars
      <4>3. QED
        BY <4>2
    <3>3. QED
      BY <2>1, <3>1, <3>2
  <2>3. \A r \in Tasks \ {p} : call[r] = "start" => pc[r] = "done"
    BY <2>2 DEF CancelInv
  <2>4. \A r \in Tasks \ {p} : call'[r] = "start" => pc'[r] = "done"
    <3>1. SUFFICES ASSUME NEW r \in Tasks \ {p}, call'[r] = "start" PROVE pc'[r] = "done"
      OBVIOUS
    <3>2. ~Keeps(r) => Own(r)
      BY EachStep
    <3>3. CASE Keeps(r)
      BY <2>3, <3>1, <3>3 DEF Keeps
    <3>4. CASE Own(r)
      <4>1. ~CallStart(r)
        BY <3>4, OwnKeeps
      <4>2. ~(CallCancel(r) \/ Nanosleep(r) \/ ScheduleTimeout(r) \/ Return(r))
        BY <3>1 DEF CallCancel, Nanosleep, ScheduleTimeout, Call, Return, IInv, TypeInv, Calls
      <4>3. call' = call /\ pc[r] # "done"
        <5>1. CASE Start(r)
          BY <5>1 DEF Start, ReadBase, Moved, Step, Goto, StartLocked, SwitchLeave, SwitchStay, SwitchEarly,
             SwitchEnter, SwitchRefuse, SwitchBack, EnqueueStarted, Retarget, localVars
        <5>2. CASE Cancel(r)
          BY <5>2 DEF Cancel, ReadBase, Moved, Step, Goto, ActiveBase, ActiveSeq, ActiveState, ActiveRunning,
             ActiveRetry, NothingToCancel, CancelRunning, CancelQueued, localVars
        <5>3. CASE Sleep(r)
          BY <5>3 DEF Sleep, SetState, TestTask, Step, Goto, Schedule, AfterSleep, localVars
        <5>4. QED
          BY <3>4, <4>1, <4>2, <5>1, <5>2, <5>3 DEF Own, Continue
      <4>4. QED
        BY <2>3, <3>1, <4>3
    <3>5. QED
      BY <3>2, <3>3, <3>4
  <2>5. tm[p] \in Timers /\ tm[p] \notin Sleepers /\ pc[p] \in Cancelling \cup {"done"}
    <3>1. call[p] # None /\ ~Sleeps(p)
      BY <2>2, Names DEF Sleeps, Calls
    <3>2. pc[p] # "idle" /\ pc[p] \in Cancelling \cup {"done"}
      BY <2>2, <3>1 DEF IInv, TaskInv
    <3>3. tm[p] \in Timers \cup {None} /\ tm[p] # None /\ tm[p] \notin Sleepers
      BY <3>1, <3>2 DEF IInv, TypeInv, TaskInv
    <3>4. QED
      BY <3>2, <3>3
  <2>6. Idle(tm[p]) => Idle(tm[p])'
    <3>1. ASSUME NEW q \in Tasks, pc[q] = "st_enqueue", tm[q] = tm[p] PROVE FALSE
      <4>1. q # p
        BY <2>5, <3>1 DEF Cancelling, Reading, Counting
      <4>2. ~Sleeps(q) /\ call[q] \in Calls
        BY <2>5, <3>1 DEF IInv, TaskInv, TypeInv
      <4>3. call[q] \in {"start", "cancel"}
        BY <4>2 DEF Sleeps, Calls
      <4>4. call[q] # "cancel"
        BY <3>1 DEF IInv, TaskInv, Cancelling, Reading, Counting
      <4>5. QED
        BY <2>3, <3>1, <4>1, <4>3, <4>4
    <3>2. ASSUME Idle(tm[p]) PROVE Idle(tm[p])'
      <4>1. PICK t \in Timers : t = tm[p]
        BY <2>5
      <4>2. Idle(t)'
        BY <3>1, <3>2, <4>1, IdleStays
      <4>3. QED
        BY <2>2, <4>1, <4>2 DEF Idle
    <3>3. QED
      BY <3>2
  <2>7. ASSUME pc'[p] \in Reading \cup {"inactive"}, sawIdle'[p] PROVE Idle(tm[p])'
    <3>1. CASE pc'[p] = "inactive"
      <4>1. sawIdle[p] /\ pc[p] \in Reading \cup {"inactive"}
        <5>1. sawIdle[p]
          BY <2>7, <3>1, History
        <5>2. CASE Keeps(p)
          BY <3>1, <5>1, <5>2 DEF Keeps
        <5>3. CASE Own(p)
          BY <3>1, <5>1, <5>3, ReadSteps DEF ActiveRetry, Goto, Reading, Counting
        <5>4. QED
          BY <2>1, <5>2, <5>3 DEF Own
      <4>2. QED
        BY <2>2, <2>6, <4>1 DEF CancelInv
    <3>2. CASE pc'[p] \in Reading
      <4>1. (pc[p] \in Reading /\ sawIdle[p]) \/ \E t \in Timers : tm'[p] = t /\ Idle(t)'
        BY <2>7, <3>2, History
      <4>2. CASE pc[p] \in Reading /\ sawIdle[p]
        BY <2>2, <2>6, <4>2 DEF CancelInv
      <4>3. QED
        BY <4>1, <4>2
    <3>3. QED
      BY <2>7, <3>1, <3>2
  <2>8. ASSUME pc'[p] = "done" PROVE left'[p] \/ Idle(tm[p])'
    <3>1. left[p] => left'[p]
      BY <2>8, History
    <3>2. CASE Keeps(p)
      BY <2>2, <2>6, <2>8, <3>1, <3>2 DEF Keeps, CancelInv
    <3>3. CASE NothingToCancel(p)
      <4>1. pc[p] = "inactive"
        BY <3>3 DEF NothingToCancel, Step, Goto
      <4>2. sawIdle[p] \/ left[p]
        BY <4>1 DEF ReadInv
      <4>3. sawIdle[p] => Idle(tm[p])
        BY <2>2, <4>1 DEF CancelInv
      <4>4. QED
        BY <2>6, <3>1, <4>2, <4>3
    <3>4. CASE CancelQueued(p)
      <4>1. Mine(p)
        BY <3>4, MineLemma DEF CancelQueued, Goto
      <4>2. /\ base[tm[p]] = seen[p] /\ running[seen[p]] # tm[p] /\ running' = running /\ tm' = tm
            /\ state' = [state EXCEPT ![tm[p]] = "inactive"]
        BY <3>4 DEF CancelQueued, TakeBase, CallbackRunning, localVars
      <4>3. \A b \in Bases : running[b] # tm[p]
        BY <4>1, <4>2, MineFacts DEF Bases
      <4>4. state \in [Timers -> {"inactive", "enqueued"}]
        BY DEF IInv, TypeInv
      <4>5. QED
        BY <2>5, <4>2, <4>3, <4>4 DEF Idle
    <3>5. ~EnqueueStarted(p) /\ ~AfterSleep(p)
      BY <2>5 DEF EnqueueStarted, AfterSleep, Goto, Cancelling, Reading, Counting
    <3>6. QED
      BY <2>1, <2>8, <3>2, <3>3, <3>4, <3>5, ReadSteps DEF Own
  <2>9. QED
    BY <2>4, <2>7, <2>8
<1>3. QED
  BY <1>1, <1>2

\* The invariant with what the readers without a lock know.
AllInv == IInv /\ StaleType /\ ReadInv /\ CancelInv

LEMMA Readers == Spec => []AllInv
<1>1. Init => AllInv
  <2> SUFFICES ASSUME Init PROVE AllInv
    OBVIOUS
  <2>1. StaleType /\ \A p \in Tasks : pc[p] = "idle" /\ call[p] = None
    BY DEF Init, StaleType
  <2>2. ReadInv
    BY <2>1 DEF ReadInv, Counting
  <2>3. CancelInv
    BY <2>1, Names DEF CancelInv, Calls
  <2>4. QED
    BY <2>1, <2>2, <2>3, InitInv DEF AllInv
<1>2. AllInv /\ [Next]_vars => AllInv'
  <2> SUFFICES ASSUME AllInv, [Next]_vars PROVE AllInv'
    OBVIOUS
  <2>1. CASE Next
    BY <2>1, StepInv, EachStep, ReadInvStep, CancelInvStep DEF AllInv
  <2>2. CASE UNCHANGED vars
    <3>1. IInv'
      BY <2>2, StepInv DEF AllInv
    <3>2. StaleType' /\ ReadInv' /\ CancelInv'
      BY <2>2 DEF AllInv, StaleType, ReadInv, CancelInv, Idle, vars, timerVars, localVars, cpuVars, countVars
    <3>3. QED
      BY <3>1, <3>2 DEF AllInv
  <2>3. QED
    BY <2>1, <2>2
<1>3. QED
  BY <1>1, <1>2, PTL DEF Spec

\* hrtimer_active says "not active" only of a timer that was idle at some moment of the
\* call, or that left the base that was read and came back to it.
THEOREM HrtimerActive == Spec => NoFalseNegative
<1>1. AllInv /\ [Next]_vars =>
        [\A p \in Tasks : pc[p] = "ac_retry" /\ pc'[p] = "inactive" =>
             sawIdle[p] \/ (left[p] /\ base[tm[p]] = seen[p])]_vars
  <2> SUFFICES ASSUME AllInv, Next, NEW p \in Tasks, pc[p] = "ac_retry", pc'[p] = "inactive"
               PROVE  sawIdle[p] \/ (left[p] /\ base[tm[p]] = seen[p])
    OBVIOUS
  <2>1. Own(p)
    BY EachStep DEF AllInv, Keeps
  <2>2. ~stale[p] /\ seen[p] = base[tm[p]]
    BY <2>1, ReadSteps DEF AllInv, MustRetry
  <2>3. QED
    BY <2>2 DEF AllInv, ReadInv
<1>2. QED
  BY <1>1, Readers, PTL DEF Spec, NoFalseNegative

\* When hrtimer_cancel has returned the timer is queued nowhere and runs nowhere, unless it
\* was started again or hrtimer_active was wrong about it; and nobody uses the timer on the
\* stack of a sleeper after do_nanosleep and schedule_hrtimeout_range_clock have returned.
THEOREM CancelledIsGone == Spec => []CancelIsFinal
<1>1. AllInv => CancelIsFinal
  <2> SUFFICES ASSUME AllInv PROVE CancelIsFinal
    OBVIOUS
  <2>1. \A p \in Tasks : pc[p] = "done" /\ call[p] = "cancel" /\ ~disturbed[p] /\ ~left[p] => Idle(tm[p])
    BY DEF AllInv, CancelInv
  <2>2. ASSUME NEW t \in Sleepers, pc[Owner[t]] \in {"done", "idle"}
        PROVE  Idle(t) /\ \A c \in CPUs : t \notin queue[c]
    <3>1. t \in Timers /\ Owner[t] \in Tasks
      BY Names DEF Sleepers
    <3>2. Idle(t)
      BY <2>2, <3>1, Names DEF AllInv, IInv, SleeperInv, TaskInv
    <3>3. QED
      BY <3>1, <3>2 DEF Idle, AllInv, IInv, OneHome
  <2>3. QED
    BY <2>1, <2>2 DEF CancelIsFinal
<1>2. QED
  BY <1>1, Readers, PTL

=============================================================================
