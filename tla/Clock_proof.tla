---------------------------- MODULE Clock_proof ----------------------------
(***************************************************************************)
(* Proofs about the two components around the setting of the system clock: *)
(* the timesync driver that sets it (Timesync), and the kernel's timers    *)
(* that follow it on a CPU (HrtimerEvent, whose specification is HESpec).  *)
(***************************************************************************)
EXTENDS Timesync, HrtimerEvent, WellFoundedInduction, TLAPS

-----------------------------------------------------------------------------
(* Timesync, for every set of programs and of periods.                     *)

(***************************************************************************)
(* Who holds the lock, and what the holder knows.                          *)
(***************************************************************************)
LockInv ==
  /\ lock = "work" <=> worker \in {"set", "unlock"}
  /\ \A a \in Apps : app[a] = "end" <=> lock = a
  /\ lock \in Apps => read["begin"].clock = clock
  /\ lock \notin Apps => OneSample(read)

(***************************************************************************)
(* The device is open only while the module is in, and past del_timer_sync *)
(* there is no timer.                                                      *)
(***************************************************************************)
LoadInv ==
  /\ driver \notin {"in", "oops"} => \A a \in Apps : app[a] = "closed"
  /\ GoneIsQuiet

IInv == TypeOK /\ LockInv /\ LoadInv

\* At first the module is not loaded.
LEMMA InitInv == Init => IInv
<1> USE TimesyncAssumption DEF Init
<1>1. Init => read \in [Field -> Stamp] /\ got \in [Apps -> [Field -> Stamp]]
  BY DEF NoSample, Stamp
<1>2. Init => copied \in [Apps -> 0..Len(Fields)]
  BY DEF Fields
<1>3. Init => TypeOK
  <2>1. Init => timer \in BOOLEAN /\ queued \in BOOLEAN
    OBVIOUS
  <2>2. Init => app \in [Apps -> {"closed", "store", "test", "del", "mod", "schedule", "idle",
                                 "end", "copy"}]
    OBVIOUS
  <2>3. QED
    BY <1>1, <1>2, <2>1, <2>2 DEF TypeOK
<1>4. Init => LockInv
  BY DEF LockInv, OneSample, NoSample, Field
<1>5. QED
  BY <1>3, <1>4 DEF IInv, LoadInv, GoneIsQuiet

\* Every step of the driver, the kernel and the programs keeps the types.
LEMMA StepType ==
  ASSUME TypeOK, [Next]_vars
  PROVE  TypeOK'
<1> USE TimesyncAssumption DEF TypeOK, kernel, Go
<1>1. CASE TimerFires \/ Callback
  BY <1>1 DEF TimerFires, Callback, CallbackTest, CallbackArm, CallbackSchedule
<1>2. CASE Work
  <2> USE DEF Work, WorkStarts, WorkLock, WorkSetsClock, WorkUnlock, WorkFaults, Loaded
  <2>1. queued' \in BOOLEAN /\ timer' = timer
    BY <1>2
  <2>2. clock' \in 0..1
    BY <1>2
  <2>3. QED
    BY <1>2, <2>1, <2>2
<1>3. CASE Load
  <2> USE DEF Load, Probe, Remove, RemoveTimer, Unmap, Deregister
  <2>1. read' \in [Field -> Stamp]
    BY <1>3 DEF NoSample, Stamp
  <2>2. timer' \in BOOLEAN /\ queued' = queued
    BY <1>3
  <2>3. period' \in Periods \cup {0} /\ driver' \in {"in", "del", "unmap", "deregister", "out"}
    BY <1>3
  <2>4. UNCHANGED <<cb, worker, lock, clock, app, copied, got>>
    BY <1>3
  <2>5. QED
    BY <2>1, <2>2, <2>3, <2>4
<1>4. ASSUME NEW a \in Apps, Open(a) \/ Close(a) \/ Write(a)
      PROVE  TypeOK'
  <2> USE DEF Open, Close, Write, WriteStore, WriteTest, WriteDel, WriteMod, WriteSchedule
  <2>1. timer' \in BOOLEAN /\ queued' \in BOOLEAN
    BY <1>4
  <2>2. PICK w \in {"store", "test", "del", "mod", "schedule", "idle", "closed"} :
          app' = [app EXCEPT ![a] = w]
    BY <1>4
  <2>3. period' \in Periods \cup {0}
    BY <1>4
  <2>4. UNCHANGED <<driver, cb, worker, lock, clock, read, copied, got>>
    BY <1>4
  <2>5. QED
    BY <2>1, <2>2, <2>3, <2>4
<1>5. ASSUME NEW a \in Apps, Read(a)
      PROVE  TypeOK'
  <2>1. Here(a) \in Stamp
    BY DEF Here, Stamp
  <2>2. CASE ReadBegin(a)
    BY <2>1, <2>2 DEF ReadBegin
  <2>3. CASE ReadEnd(a)
    BY <2>1, <2>3 DEF ReadEnd, Field
  <2>4. CASE CopyField(a)
    <3>1. Len(Fields) = 3 /\ \A n \in 1..3 : Fields[n] \in Field
      BY DEF Fields, Field
    <3>2. copied[a] + 1 \in 1..3
      BY <2>4, <3>1 DEF CopyField
    <3>3. PICK f \in Field : got' = [got EXCEPT ![a][f] = read[f]]
      BY <2>4, <3>1, <3>2 DEF CopyField
    <3>4. got' \in [Apps -> [Field -> Stamp]]
      BY <3>3
    <3>5. QED
      BY <2>4, <3>1, <3>2, <3>4 DEF CopyField
  <2>5. CASE ReadReturns(a)
    <3>1. NoSample \in [Field -> Stamp]
      BY DEF NoSample, Stamp
    <3>2. QED
      BY <2>5, <3>1 DEF ReadReturns, Fields
  <2>6. QED
    BY <1>5, <2>2, <2>3, <2>4, <2>5 DEF Read
<1>6. CASE UNCHANGED vars
  BY <1>6 DEF vars
<1>7. QED
  BY <1>1, <1>2, <1>3, <1>4, <1>5, <1>6 DEF Next, User

\* The lock keeps the samples whole: a step between begin and end of a read
\* cannot set the clock.
LEMMA StepLock ==
  ASSUME IInv, [Next]_vars
  PROVE  LockInv'
<1> USE TimesyncAssumption DEF IInv, TypeOK, LockInv, LoadInv, kernel, Go, OneSample, Field
<1>1. CASE TimerFires \/ Callback
  BY <1>1 DEF TimerFires, Callback, CallbackTest, CallbackArm, CallbackSchedule
<1>2. CASE Work
  BY <1>2 DEF Work, WorkStarts, WorkLock, WorkSetsClock, WorkUnlock, WorkFaults, Loaded
<1>3. CASE Load
  BY <1>3 DEF Load, Probe, Remove, RemoveTimer, Unmap, Deregister, NoSample
<1>4. ASSUME NEW a \in Apps, Open(a) \/ Close(a) \/ Write(a)
      PROVE  LockInv'
  BY <1>4 DEF Open, Close, Write, WriteStore, WriteTest, WriteDel, WriteMod, WriteSchedule
<1>5. ASSUME NEW a \in Apps, Read(a)
      PROVE  LockInv'
  <2>1. CASE ReadBegin(a)
    BY <2>1 DEF ReadBegin, Here
  <2>2. CASE ReadEnd(a)
    BY <2>2 DEF ReadEnd, Here
  <2>3. CASE CopyField(a) \/ ReadReturns(a)
    BY <2>3 DEF CopyField, ReadReturns
  <2>4. QED
    BY <1>5, <2>1, <2>2, <2>3 DEF Read
<1>6. CASE UNCHANGED vars
  BY <1>6 DEF vars
<1>7. QED
  BY <1>1, <1>2, <1>3, <1>4, <1>5, <1>6 DEF Next, User

\* del_timer_sync waits for the callback, and nobody arms the timer again.
LEMMA StepLoad ==
  ASSUME IInv, [Next]_vars
  PROVE  LoadInv'
<1> USE TimesyncAssumption DEF IInv, TypeOK, LoadInv, GoneIsQuiet, kernel, Go
<1>1. CASE TimerFires \/ Callback
  BY <1>1 DEF TimerFires, Callback, CallbackTest, CallbackArm, CallbackSchedule
<1>2. CASE Work
  BY <1>2 DEF Work, WorkStarts, WorkLock, WorkSetsClock, WorkUnlock, WorkFaults, Loaded
<1>3. CASE Load
  BY <1>3 DEF Load, Probe, Remove, RemoveTimer, Unmap, Deregister
<1>4. ASSUME NEW a \in Apps, driver # "oops", User(a)
      PROVE  LoadInv'
  BY <1>4 DEF User, Open, Close, Write, WriteStore, WriteTest, WriteDel, WriteMod, WriteSchedule,
              Read, ReadBegin, ReadEnd, CopyField, ReadReturns
<1>5. CASE UNCHANGED vars
  BY <1>5 DEF vars
<1>6. QED
  BY <1>1, <1>2, <1>3, <1>4, <1>5 DEF Next

\* The inductive invariant holds in every reachable state.
THEOREM Invariants == Spec => []IInv
<1>1. IInv /\ [Next]_vars => IInv'
  BY StepType, StepLock, StepLoad DEF IInv
<1>2. QED
  BY InitInv, <1>1, PTL DEF Spec

\* Type correctness of the driver, the kernel's part and the programs.
THEOREM TypeCorrect == Spec => []TypeOK
<1>1. IInv => TypeOK
  BY DEF IInv
<1>2. QED
  BY <1>1, Invariants, PTL

\* No sample spans a setting of the clock, for any number of readers.
THEOREM SamplesOnOneClock == Spec => []SampleOnOneClock
<1>1. IInv => SampleOnOneClock
  BY TimesyncAssumption DEF IInv, LockInv, SampleOnOneClock
<1>2. QED
  BY <1>1, Invariants, PTL

\* Past del_timer_sync, timesync_remove has no callback to fear.
THEOREM RemovedIsQuiet == Spec => []GoneIsQuiet
<1>1. IInv => GoneIsQuiet
  BY DEF IInv, LoadInv
<1>2. QED
  BY <1>1, Invariants, PTL

-----------------------------------------------------------------------------
(***************************************************************************)
(* The timer when the programs write one at a time.  With two writers at   *)
(* once the timer of one may be deleted by the other, or armed after it.   *)
(***************************************************************************)
OneApp == \A a, b \in Apps : a = b

TimerInv ==
  /\ \A a \in Apps : /\ app[a] \in {"mod", "schedule"} => period > 0
                     /\ app[a] = "del" => period = 0
  /\ StoppedIsStopped
  /\ driver = "in" /\ period > 0 /\ (\A a \in Apps : app[a] \notin {"test", "mod"}) =>
       timer \/ cb \in {"test", "arm"}

\* A write, its test of the period and the callback keep TimerInv.
LEMMA StepTimer ==
  ASSUME OneApp, IInv, TimerInv, [Next]_vars
  PROVE  TimerInv'
<1> USE TimesyncAssumption
    DEF IInv, TypeOK, LoadInv, GoneIsQuiet, TimerInv, StoppedIsStopped, Writing, kernel, Go
<1>1. CASE TimerFires \/ Callback
  BY <1>1 DEF TimerFires, Callback, CallbackTest, CallbackArm, CallbackSchedule
<1>2. CASE Work
  BY <1>2 DEF Work, WorkStarts, WorkLock, WorkSetsClock, WorkUnlock, WorkFaults, Loaded
<1>3. CASE Load
  BY <1>3 DEF Load, Probe, Remove, RemoveTimer, Unmap, Deregister
<1>4. ASSUME NEW a \in Apps, driver # "oops", User(a)
      PROVE  TimerInv'
  <2>1. CASE Open(a) \/ Close(a) \/ Read(a)
    BY <2>1 DEF Open, Close, Read, ReadBegin, ReadEnd, CopyField, ReadReturns
  <2>2. CASE WriteStore(a)
    BY <2>2 DEF OneApp, WriteStore
  <2>3. CASE WriteTest(a)
    BY <2>3 DEF OneApp, WriteTest
  <2>4. CASE WriteDel(a)
    BY <2>4 DEF OneApp, WriteDel
  <2>5. CASE WriteMod(a)
    BY <2>5 DEF OneApp, WriteMod
  <2>6. CASE WriteSchedule(a)
    BY <2>6 DEF OneApp, WriteSchedule
  <2>7. QED
    BY <1>4, <2>1, <2>2, <2>3, <2>4, <2>5, <2>6 DEF User, Write
<1>5. CASE UNCHANGED vars
  BY <1>5 DEF vars
<1>6. QED
  BY <1>1, <1>2, <1>3, <1>4, <1>5 DEF Next

\* The timer's invariant holds in every reachable state when writes do not overlap.
THEOREM TimerInvariant ==
  ASSUME OneApp
  PROVE  Spec => []TimerInv
<1>1. Init => TimerInv
  BY DEF Init, TimerInv, StoppedIsStopped
<1>2. IInv /\ TimerInv /\ [Next]_vars => TimerInv'
  BY StepTimer
<1>3. QED
  BY <1>1, <1>2, Invariants, PTL DEF Spec

\* With one writer, write(0) leaves no timer and no callback behind.
THEOREM StopStops ==
  ASSUME OneApp
  PROVE  Spec => []StoppedIsStopped
<1>1. TimerInv => StoppedIsStopped
  BY DEF TimerInv
<1>2. QED
  BY <1>1, TimerInvariant, PTL

\* With one writer, a positive period always has its timer.
THEOREM RunningStaysArmed ==
  ASSUME OneApp
  PROVE  Spec => []RunningIsArmed
<1>1. TimerInv => RunningIsArmed
  BY DEF TimerInv, RunningIsArmed, Writing
<1>2. QED
  BY <1>1, TimerInvariant, PTL

-----------------------------------------------------------------------------
(***************************************************************************)
(* The copy to user space when one program has the device open.            *)
(***************************************************************************)
CopyInv ==
  \A a \in Apps :
    /\ copied[a] > 0 => app[a] = "copy"
    /\ copied[a] >= 1 => got[a]["begin"] = read["begin"]
    /\ copied[a] >= 2 => got[a]["end"] = read["end"]
    /\ copied[a] >= 3 => got[a]["diff"] = read["diff"]

\* Nobody writes dev->read while the only reader copies it out.
LEMMA StepCopy ==
  ASSUME OneApp, IInv, CopyInv, [Next]_vars
  PROVE  CopyInv'
<1> USE DEF IInv, TypeOK, CopyInv, kernel, Go
<1>1. CASE TimerFires \/ Callback
  BY <1>1 DEF TimerFires, Callback, CallbackTest, CallbackArm, CallbackSchedule
<1>2. CASE Work
  BY <1>2 DEF Work, WorkStarts, WorkLock, WorkSetsClock, WorkUnlock, WorkFaults
<1>3. CASE Load
  <2>1. CASE Probe
    <3>1. \A a \in Apps : app[a] = "closed" /\ ~(copied[a] > 0)
      BY <2>1 DEF Probe, LoadInv
    <3>2. \A a \in Apps : copied[a] = 0
      BY <3>1 DEF Fields
    <3> QED
      BY <2>1, <3>2 DEF Probe
  <2>2. CASE Remove \/ RemoveTimer \/ Unmap \/ Deregister
    BY <2>2 DEF Remove, RemoveTimer, Unmap, Deregister
  <2> QED
    BY <1>3, <2>1, <2>2 DEF Load
<1>4. ASSUME NEW a \in Apps, User(a)
      PROVE  CopyInv'
  <2>1. \A b \in Apps : b = a
    BY DEF OneApp
  <2>2. copied[a] \in 0..3 /\ Len(Fields) = 3
    BY DEF Fields
  <2>3. CASE Open(a) \/ Close(a) \/ Write(a)
    BY <2>1, <2>2, <2>3
    DEF Open, Close, Write, WriteStore, WriteTest, WriteDel, WriteMod, WriteSchedule
  <2>4. CASE ReadBegin(a) \/ ReadEnd(a)
    <3>1. copied[a] = 0 /\ copied' = copied
      BY <2>2, <2>4 DEF ReadBegin, ReadEnd
    <3> QED
      BY <2>1, <3>1
  <2>5. CASE CopyField(a)
    <3>1. /\ copied[a] \in 0..2 /\ copied'[a] = copied[a] + 1 /\ app'[a] = "copy" /\ read' = read
          /\ got' = [got EXCEPT ![a][Fields[copied[a] + 1]] = read[Fields[copied[a] + 1]]]
      BY <2>2, <2>5 DEF CopyField
    <3>2. Fields[1] = "begin" /\ Fields[2] = "end" /\ Fields[3] = "diff"
      BY DEF Fields
    <3>3. CASE copied[a] = 0
      BY <2>1, <3>1, <3>2, <3>3 DEF Field
    <3>4. CASE copied[a] = 1
      BY <2>1, <3>1, <3>2, <3>4 DEF Field
    <3>5. CASE copied[a] = 2
      BY <2>1, <3>1, <3>2, <3>5 DEF Field
    <3> QED
      BY <3>1, <3>3, <3>4, <3>5
  <2>6. CASE ReadReturns(a)
    BY <2>1, <2>6 DEF ReadReturns
  <2> QED
    BY <1>4, <2>3, <2>4, <2>5, <2>6 DEF User, Read
<1>5. CASE UNCHANGED vars
  BY <1>5 DEF vars
<1>6. QED
  BY <1>1, <1>2, <1>3, <1>4, <1>5 DEF Next

\* With one program the sample that read() hands out is one sample, though it is copied
\* out of dev->read after the unlock (timesync.c:210).
THEOREM OneReaderGetsSample ==
  ASSUME OneApp
  PROVE  Spec => []ReaderGetsSample
<1>1. Init => CopyInv
  <2> SUFFICES ASSUME Init, NEW a \in Apps
               PROVE  ~(copied[a] > 0) /\ ~(copied[a] >= 1) /\ ~(copied[a] >= 2) /\ ~(copied[a] >= 3)
    BY DEF CopyInv
  <2>1. copied[a] = 0
    BY DEF Init
  <2> QED
    BY <2>1
<1>2. IInv /\ CopyInv /\ [Next]_vars => CopyInv'
  BY StepCopy
<1>3. IInv /\ CopyInv => ReaderGetsSample
  <2> SUFFICES ASSUME IInv, CopyInv, NEW a \in Apps, copied[a] = 3 PROVE OneSample(got[a])
    BY DEF ReaderGetsSample, Fields
  <2>1. app[a] = "copy"
    BY DEF CopyInv
  <2>2. lock \notin Apps
    BY <2>1 DEF IInv, LockInv, OneApp
  <2>3. OneSample(read)
    BY <2>2 DEF IInv, LockInv
  <2> QED
    BY <2>3 DEF CopyInv, OneSample
<1>4. QED
  BY <1>1, <1>2, <1>3, Invariants, PTL DEF Spec

-----------------------------------------------------------------------------
(* HrtimerEvent, for any timers, bounds and order of the steps.            *)

\* Where the interrupt and the softirq are, what they hold, and what the flags say of it.
PlaceInv ==
    /\ entry \in 0..now
    /\ cur["hard"] \in (Timers \ Soft) \cup {None} /\ cur["soft"] \in Soft \cup {None}
    /\ \A x \in Contexts : at[x] \in {"callback", "forwarded"} <=> cur[x] # None
    /\ cpu.in_hrtirq <=> cpu.hres_active /\ at["hard"] \in {"run", "callback", "forwarded"}
    /\ ~cpu.hres_active => ~cpu.hang_detected /\ at["hard"] # "program"
    /\ at["hard"] = "program" => cpu.found = cpu.expires_next

\* The offset that the CPU has copied is the one in force, or the clock has been set since;
\* unless it was set forward, the copy is not too small.
OffsetInv ==
    /\ cpu.hres_active /\ ~ipi => cpu.off = offset
    /\ ~forward => offset <= cpu.off

\* expires_next is not later than any hard timer, softirq_expires_next not later than any
\* soft one, and the device not later than expires_next.
HardCovered(c) == \A t \in c.queue \ Soft : c.expires_next <= Larger(Mono(c, t), 0)
SoftCovered(c) ==
    ~c.softirq_activated =>
        \A t \in c.queue \cap Soft :
            (t \in Real => ~forward) => c.softirq_expires_next <= Larger(Mono(c, t), 0)
DeviceSet(c) ==
    IF c.hang_detected THEN c.event <= now + HangLimit ELSE c.event <= Larger(c.expires_next, now)

HardInv ==
    cpu.hres_active /\ ~cpu.in_hrtirq =>
        /\ ~ipi /\ at["hard"] # "adopted" => HardCovered(cpu)
        /\ at["hard"] = "idle" => DeviceSet(cpu)
SoftInv == SoftCovered(cpu)

EventInv == HETypeOK /\ PlaceInv /\ OffsetInv /\ HardInv /\ SoftInv

-----------------------------------------------------------------------------
(* What the functions of a cpu_base return.                                *)

\* The bounds and the horizon are numbers.
LEMMA Times ==
    /\ MaxExpiry \in Nat /\ MaxOffset \in Nat /\ MaxOps \in Nat /\ MaxSets \in Nat
    /\ Horizon \in Nat /\ Never \in Nat /\ Horizon < Never
BY BoundAssumption DEF Horizon, Never

\* The last time is a time.
LEMMA NeverIsTime == Never \in 0..Never
BY Times

\* A set of numbers that is not empty has a least element.
LEMMA LeastExists ==
    ASSUME NEW S, S \subseteq Nat, S # {}
    PROVE  \E m \in S : \A n \in S : m <= n
<1> DEFINE Less == {ss \in Nat \X Nat : ss[1] < ss[2]}
<1>1. IsWellFoundedOn(Less, Nat)
  BY NatLessThanWellFounded DEF OpToRel
<1>2. PICK m \in S : \A n \in S : ~(<<n, m>> \in Less)
  <2> HIDE DEF Less
  <2> QED
    BY <1>1, WFMin, Zenon
<1>3. ASSUME NEW n \in S PROVE m <= n
  <2>1. ~(n < m)
    BY <1>2
  <2>2. QED
    BY <2>1
<1>4. QED
  BY <1>3

\* A time on CLOCK_MONOTONIC may be negative, by the offset at most.
LEMMA MonoType ==
    ASSUME NEW c \in CpuBase, NEW t \in Timers
    PROVE  Mono(c, t) \in Int /\ Mono(c, t) + MaxOffset \in Nat
<1>1. c.expires[t] \in Nat /\ c.off \in 0..MaxOffset
  BY Times DEF CpuBase
<1>2. QED
  BY <1>1, Times DEF Mono

\* The first of some timers before a limit, if there is one.
LEMMA NextOfBase ==
    ASSUME NEW c \in CpuBase, NEW S, S \subseteq Timers, NEW limit \in 0..Never,
           NEW r, r = NextEventBase(c, S, limit)
    PROVE  /\ r.expires \in 0..limit
           /\ \A t \in S : r.expires <= Larger(Mono(c, t), 0)
           /\ \/ r.timer = None /\ r.expires = limit
              \/ /\ r.timer \in S /\ Mono(c, r.timer) < limit
                 /\ r.expires = Larger(Mono(c, r.timer), 0)
<1> DEFINE early == {t \in S : Mono(c, t) < limit}
           first == CHOOSE t \in early : \A u \in early : Mono(c, t) <= Mono(c, u)
<1>1. limit \in Nat /\ \A t \in S : Mono(c, t) \in Int
  BY Times, MonoType
<1>2. CASE early = {}
  <2>1. r = [timer |-> None, expires |-> limit]
    BY <1>1, <1>2 DEF NextEventBase, Larger
  <2>2. \A t \in S : limit <= Mono(c, t)
    BY <1>1, <1>2
  <2>3. QED
    BY <1>1, <2>1, <2>2 DEF Larger
<1>3. CASE early # {}
  <2>1. \E t \in early : \A u \in early : Mono(c, t) <= Mono(c, u)
    <3> DEFINE T == {Mono(c, t) + MaxOffset : t \in early}
    <3>1. T \subseteq Nat /\ T # {}
      BY <1>3, MonoType
    <3>2. PICK m \in T : \A n \in T : m <= n
      <4> HIDE DEF T
      <4> QED
        BY <3>1, LeastExists
    <3>3. PICK t \in early : m = Mono(c, t) + MaxOffset
      BY <3>2
    <3>4. ASSUME NEW u \in early PROVE Mono(c, t) <= Mono(c, u)
      <4>1. m <= Mono(c, u) + MaxOffset
        BY <3>2
      <4>2. QED
        BY <1>1, <3>3, <4>1, Times
    <3>5. QED
      BY <3>4
  <2>2. first \in early /\ \A u \in early : Mono(c, first) <= Mono(c, u)
    <3> HIDE DEF early
    <3> QED
      BY <2>1
  <2>3. r = [timer |-> first, expires |-> Larger(Mono(c, first), 0)]
    BY <1>3 DEF NextEventBase
  <2> HIDE DEF first
  <2>4. \A t \in S : Mono(c, first) <= Mono(c, t)
    BY <1>1, <2>2
  <2>5. QED
    BY <1>1, <2>2, <2>3, <2>4 DEF Larger
<1>4. QED
  BY <1>2, <1>3

\* The fields that the search for the next event and the programming leave alone.
Keeps(c, d) ==
    /\ d \in CpuBase
    /\ d.queue = c.queue /\ d.expires = c.expires /\ d.off = c.off
    /\ d.hres_active = c.hres_active /\ d.hang_detected = c.hang_detected
    /\ d.in_hrtirq = c.in_hrtirq /\ d.softirq_activated = c.softirq_activated

\* Then the timers expire at the same times.
LEMMA KeptMono ==
    ASSUME NEW c, NEW d, Keeps(c, d), NEW t
    PROVE  Mono(d, t) = Mono(c, t)
BY DEF Keeps, Mono

\* __hrtimer_get_next_event returns a time that no timer it looks at is earlier than.
LEMMA NextEvent ==
    ASSUME NEW c \in CpuBase, NEW mask, NEW g, g = GetNextEvent(c, mask)
    PROVE  /\ Keeps(c, g) /\ g.event = c.event
           /\ g.expires_next = c.expires_next /\ g.softirq_expires_next = c.softirq_expires_next
           /\ "hard" \in mask => \A t \in c.queue \ Soft : g.found <= Larger(Mono(c, t), 0)
           /\ "soft" \in mask /\ ~c.softirq_activated =>
                  \A t \in c.queue \cap Soft : g.found <= Larger(Mono(c, t), 0)
           /\ "hard" \notin mask /\ g.found # Never =>
                  /\ ~c.softirq_activated /\ g.softirq_next_timer \in c.queue \cap Soft
                  /\ g.found = Larger(Mono(c, g.softirq_next_timer), 0)
           /\ "hard" \in mask /\ g.next_timer \in Soft => "soft" \in mask /\ ~c.softirq_activated
<1> DEFINE softToo == "soft" \in mask /\ ~c.softirq_activated
           s == NextEventBase(c, c.queue \cap Soft, Never)
           limit == IF softToo THEN s.expires ELSE Never
           h == NextEventBase(c, c.queue \ Soft, limit)
           first == IF softToo THEN s.timer ELSE None
           b == IF softToo THEN [c EXCEPT !.softirq_next_timer = s.timer, !.found = limit]
                ELSE [c EXCEPT !.found = limit]
<1>1. c.queue \subseteq Timers
  BY DEF CpuBase
<1>2. /\ s.expires \in 0..Never
      /\ \A t \in c.queue \cap Soft : s.expires <= Larger(Mono(c, t), 0)
      /\ \/ s.timer = None /\ s.expires = Never
         \/ s.timer \in c.queue \cap Soft /\ s.expires = Larger(Mono(c, s.timer), 0)
  <2>1. c.queue \cap Soft \subseteq Timers /\ Never \in 0..Never
    BY <1>1, Times
  <2> HIDE DEF s
  <2>2. s = NextEventBase(c, c.queue \cap Soft, Never)
    BY DEF s
  <2>3. QED
    BY <2>1, <2>2, NextOfBase
<1>3. limit \in 0..Never
  <2> HIDE DEF s
  <2> QED
    BY <1>2, Times
<1>4. /\ h.expires \in 0..limit
      /\ \A t \in c.queue \ Soft : h.expires <= Larger(Mono(c, t), 0)
      /\ h.timer = None \/ h.timer \in c.queue \ Soft
  <2>1. c.queue \ Soft \subseteq Timers
    BY <1>1
  <2> HIDE DEF h, limit
  <2>2. h = NextEventBase(c, c.queue \ Soft, limit)
    BY DEF h
  <2>3. QED
    BY <1>3, <2>1, <2>2, NextOfBase
<1>5. g = IF "hard" \notin mask THEN b
          ELSE [b EXCEPT !.next_timer = IF h.timer # None THEN h.timer ELSE first,
                         !.found = h.expires]
  BY DEF GetNextEvent
<1> HIDE DEF s, h
<1>6. Keeps(c, b) /\ b.event = c.event /\ b.expires_next = c.expires_next
      /\ b.softirq_expires_next = c.softirq_expires_next /\ b.found = limit
      /\ (softToo => b.softirq_next_timer = s.timer)
  BY <1>1, <1>2, <1>3 DEF Keeps, CpuBase
<1>7. first \in Timers \cup {None} /\ (first \in Soft => softToo)
  BY <1>1, <1>2, TimersAssumption
<1>8. CASE "hard" \notin mask
  <2>1. g = b
    BY <1>5, <1>8
  <2>2. QED
    BY <1>2, <1>6, <1>8, <2>1
<1>9. CASE "hard" \in mask
  <2> DEFINE n == IF h.timer # None THEN h.timer ELSE first
  <2>1. n \in Timers \cup {None} /\ (n \in Soft => softToo)
    BY <1>1, <1>4, <1>7
  <2>2. h.expires \in 0..Never /\ h.expires <= limit
    BY <1>3, <1>4, Times
  <2>3. g = [b EXCEPT !.next_timer = n, !.found = h.expires]
    BY <1>5, <1>9
  <2> HIDE DEF n, b, limit, first
  <2>4. /\ Keeps(c, g) /\ g.event = c.event /\ g.expires_next = c.expires_next
        /\ g.softirq_expires_next = c.softirq_expires_next /\ g.found = h.expires /\ g.next_timer = n
    BY <1>6, <2>1, <2>2, <2>3 DEF Keeps, CpuBase
  <2>5. softToo => \A t \in c.queue \cap Soft : g.found <= Larger(Mono(c, t), 0)
    <3> SUFFICES ASSUME softToo, NEW t \in c.queue \cap Soft PROVE g.found <= Larger(Mono(c, t), 0)
      OBVIOUS
    <3>1. limit = s.expires
      BY DEF limit
    <3>2. Mono(c, t) \in Int /\ s.expires <= Larger(Mono(c, t), 0)
      BY <1>1, <1>2, MonoType
    <3>3. QED
      BY <1>2, <2>2, <2>4, <3>1, <3>2, Times DEF Larger
  <2>6. QED
    BY <1>4, <1>9, <2>1, <2>4, <2>5
<1>10. QED
  BY <1>8, <1>9

\* hrtimer_force_reprogram: no hard timer is forgotten, and no soft one.
LEMMA Forced ==
    ASSUME HETypeOK, NEW c \in CpuBase, NEW skipEqual \in BOOLEAN,
           NEW f, f = ForceReprogram(c, skipEqual)
    PROVE  /\ Keeps(c, f)
           /\ HardCovered(f)
           /\ SoftCovered(c) => SoftCovered(f)
           /\ c.hres_active /\ (skipEqual \/ c.hang_detected => DeviceSet(c)) => DeviceSet(f)
<1> DEFINE a == GetNextEvent(c, Contexts)
           b == IF a.next_timer \in Soft THEN [a EXCEPT !.softirq_expires_next = a.found] ELSE a
           d == [b EXCEPT !.expires_next = b.found]
<1>1. /\ Keeps(c, a) /\ a.event = c.event /\ a.expires_next = c.expires_next
      /\ a.softirq_expires_next = c.softirq_expires_next
      /\ \A t \in c.queue \ Soft : a.found <= Larger(Mono(c, t), 0)
      /\ ~c.softirq_activated => \A t \in c.queue \cap Soft : a.found <= Larger(Mono(c, t), 0)
      /\ a.next_timer \in Soft => ~c.softirq_activated
  <2> HIDE DEF a
  <2>1. a = GetNextEvent(c, Contexts) /\ "hard" \in Contexts /\ "soft" \in Contexts
    BY DEF a, Contexts
  <2>2. QED
    BY <2>1, NextEvent
<1>2. f = IF skipEqual /\ b.found = b.expires_next THEN Forget(b) ELSE ProgramHres(Forget(d), b.found)
  BY DEF ForceReprogram
<1> HIDE DEF a
<1>3. /\ Keeps(c, b) /\ b.event = c.event /\ b.expires_next = c.expires_next /\ b.found = a.found
      /\ b.softirq_expires_next = IF a.next_timer \in Soft THEN a.found ELSE c.softirq_expires_next
  BY <1>1 DEF Keeps, CpuBase
<1> HIDE DEF b
<1>4. a.found \in 0..Never /\ c.expires_next \in 0..Never /\ c.softirq_expires_next \in 0..Never
      /\ c.event \in 0..Never /\ cpu.found \in 0..Never /\ now \in 0..Horizon
  BY <1>1 DEF Keeps, CpuBase, HETypeOK
<1>5. /\ Keeps(c, f) /\ f.expires_next = a.found
      /\ f.softirq_expires_next = b.softirq_expires_next
      /\ \/ /\ f.event = c.event
            /\ (skipEqual /\ c.expires_next = a.found) \/ ~c.hres_active \/ c.hang_detected
         \/ f.event = (IF a.found = Never THEN Never ELSE Larger(a.found, now)) /\ ~c.hang_detected
  <2> DEFINE n == IF at["hard"] = "program" THEN cpu.found ELSE Never
  <2>1. n \in 0..Never
    BY <1>4, Times
  <2>2. CASE skipEqual /\ b.found = b.expires_next
    <3>1. f = [b EXCEPT !.found = n]
      BY <1>2, <2>2 DEF Forget
    <3> HIDE DEF n
    <3>2. QED
      BY <1>3, <2>1, <2>2, <3>1 DEF Keeps, CpuBase
  <2>3. CASE ~(skipEqual /\ b.found = b.expires_next)
    <3> DEFINE e == [d EXCEPT !.found = n]
    <3>1. f = ProgramHres(e, a.found)
      BY <1>2, <1>3, <2>3 DEF Forget
    <3> HIDE DEF n
    <3>2. /\ Keeps(c, e) /\ e.expires_next = a.found /\ e.event = c.event
          /\ e.softirq_expires_next = b.softirq_expires_next
      BY <1>3, <1>4, <2>1 DEF Keeps, CpuBase
    <3> HIDE DEF e
    <3>3. CASE ~e.hres_active \/ e.hang_detected
      BY <3>1, <3>2, <3>3 DEF ProgramHres, Keeps
    <3>4. CASE e.hres_active /\ ~e.hang_detected
      <4> DEFINE v == IF a.found = Never THEN Never ELSE Larger(a.found, now)
      <4>1. v \in 0..Never
        BY <1>4, Times DEF Larger
      <4>2. f = [e EXCEPT !.event = v]
        BY <3>1, <3>4 DEF ProgramHres, Program
      <4> HIDE DEF v
      <4>3. Keeps(c, f) /\ f.expires_next = e.expires_next /\ f.event = v
            /\ f.softirq_expires_next = e.softirq_expires_next
        BY <3>2, <4>1, <4>2 DEF Keeps, CpuBase
      <4>4. ~c.hang_detected
        BY <3>2, <3>4 DEF Keeps
      <4>5. QED
        BY <3>2, <4>3, <4>4 DEF v
    <3>5. QED
      BY <3>3, <3>4
  <2>4. QED
    BY <2>2, <2>3
<1>6. f.queue = c.queue /\ f.softirq_activated = c.softirq_activated /\ f.hang_detected = c.hang_detected
  BY <1>5 DEF Keeps
<1>7. HardCovered(f)
  BY <1>1, <1>5, <1>6, KeptMono DEF HardCovered
<1>8. SoftCovered(c) => SoftCovered(f)
  <2>1. CASE a.next_timer \in Soft
    BY <1>1, <1>3, <1>5, <1>6, <2>1, KeptMono DEF SoftCovered
  <2>2. CASE a.next_timer \notin Soft
    BY <1>1, <1>3, <1>5, <1>6, <2>2, KeptMono DEF SoftCovered
  <2>3. QED
    BY <2>1, <2>2
<1>9. c.hres_active /\ (skipEqual \/ c.hang_detected => DeviceSet(c)) => DeviceSet(f)
  BY <1>4, <1>5, <1>6, Times DEF DeviceSet, Larger
<1>10. QED
  BY <1>5, <1>7, <1>8, <1>9

\* Comparing times step by step.
LEMMA Transitive ==
    \A k, m, n \in Int : k <= m /\ m <= n => k <= n
OBVIOUS

\* What hrtimer_reprogram does for a timer: the next events are lowered or left alone, and
\* the timer is covered afterwards.
Lowered(c, t, local, f) ==
    /\ Keeps(c, f) /\ f.found = c.found
    /\ f.expires_next <= c.expires_next
    /\ local = FALSE => f.expires_next = c.expires_next /\ f.event = c.event
    /\ f.softirq_expires_next <= c.softirq_expires_next
    /\ t \in Soft /\ ~c.softirq_activated => f.softirq_expires_next <= Larger(Mono(c, t), 0)
    /\ t \notin Soft /\ local = TRUE /\ ~c.in_hrtirq => f.expires_next <= Larger(Mono(c, t), 0)
    /\ c.hres_active /\ DeviceSet(c) => DeviceSet(f)

\* hrtimer_reprogram does that.
LEMMA Reprogrammed ==
    ASSUME HETypeOK, NEW c \in CpuBase, NEW t \in Timers, NEW reprogram \in BOOLEAN,
           NEW local \in BOOLEAN
    PROVE  Lowered(c, t, local, Reprogram(c, t, reprogram, local))
<1> SUFFICES ASSUME NEW f, f = Reprogram(c, t, reprogram, local) PROVE Lowered(c, t, local, f)
  OBVIOUS
<1> USE DEF Lowered
<1> DEFINE e == Larger(Mono(c, t), 0)
           soft == t \in Soft
           d == IF soft THEN [c EXCEPT !.softirq_next_timer = t, !.softirq_expires_next = e] ELSE c
           skip == soft /\ (c.softirq_activated \/ e >= c.softirq_expires_next)
           later == \/ soft /\ ~reprogram
                    \/ ~local \/ c.in_hrtirq
                    \/ e >= c.expires_next
<1>1. f = IF skip THEN c ELSE IF later THEN d
          ELSE ProgramHres([d EXCEPT !.next_timer = t, !.expires_next = e], e)
  BY DEF Reprogram
<1>2. e \in Nat
  BY MonoType DEF Larger
<1>3. c.expires_next \in 0..Never /\ c.softirq_expires_next \in 0..Never /\ c.event \in 0..Never
      /\ now \in 0..Horizon /\ Keeps(c, c)
  BY DEF CpuBase, HETypeOK, Keeps
<1>4. CASE skip
  BY <1>1, <1>2, <1>3, <1>4, Times
<1>5. ASSUME ~skip
      PROVE  /\ Keeps(c, d) /\ d.found = c.found /\ d.event = c.event /\ d.expires_next = c.expires_next
             /\ d.softirq_expires_next = IF soft THEN e ELSE c.softirq_expires_next
             /\ soft /\ ~c.softirq_activated => e < c.softirq_expires_next
             /\ soft => ~c.softirq_activated
  <2>1. soft => e \in 0..Never /\ e < c.softirq_expires_next /\ ~c.softirq_activated
    BY <1>2, <1>3, <1>5, Times
  <2> HIDE DEF e
  <2>2. QED
    BY <1>3, <2>1 DEF Keeps, CpuBase
<1>6. CASE ~skip /\ later
  <2>1. f = d
    BY <1>1, <1>6
  <2> HIDE DEF e, d
  <2>2. t \notin Soft /\ local /\ ~c.in_hrtirq => c.expires_next <= e
    BY <1>2, <1>3, <1>6, Times
  <2>3. DeviceSet(c) => DeviceSet(d)
    BY <1>5, <1>6 DEF DeviceSet, Keeps
  <2>4. e = Larger(Mono(c, t), 0)
    BY DEF e
  <2>5. QED
    BY <1>2, <1>3, <1>5, <1>6, <2>1, <2>2, <2>3, <2>4, Times
<1>7. CASE ~skip /\ ~later
  <2> DEFINE g == [d EXCEPT !.next_timer = t, !.expires_next = e]
  <2>0. local
    BY <1>7
  <2>1. f = ProgramHres(g, e) /\ e \in 0..Never /\ e < c.expires_next
    BY <1>1, <1>2, <1>3, <1>7, Times
  <2>2. /\ Keeps(c, g) /\ g.found = c.found /\ g.event = c.event /\ g.expires_next = e
        /\ g.softirq_expires_next = IF soft THEN e ELSE c.softirq_expires_next
    <3> HIDE DEF e, d
    <3>1. QED
      BY <1>5, <1>7, <2>1 DEF Keeps, CpuBase
  <2> HIDE DEF g
  <2>3. /\ Keeps(c, f) /\ f.found = c.found /\ f.expires_next = e
        /\ f.softirq_expires_next = g.softirq_expires_next
        /\ c.hres_active /\ DeviceSet(c) => DeviceSet(f)
    <3>1. CASE ~g.hres_active \/ g.hang_detected
      <4>1. f = g
        BY <2>1, <3>1 DEF ProgramHres
      <4>2. QED
        BY <2>2, <3>1, <4>1 DEF DeviceSet, Keeps
    <3>2. CASE g.hres_active /\ ~g.hang_detected
      <4> DEFINE v == IF e = Never THEN Never ELSE Larger(e, now)
      <4>1. v \in 0..Never /\ v <= Larger(e, now)
        BY <1>3, <2>1, Times DEF Larger
      <4>2. f = [g EXCEPT !.event = v]
        BY <2>1, <3>2 DEF ProgramHres, Program
      <4> HIDE DEF v, e
      <4>3. Keeps(c, f) /\ f.found = g.found /\ f.expires_next = g.expires_next /\ f.event = v
            /\ f.softirq_expires_next = g.softirq_expires_next
        BY <2>2, <4>1, <4>2 DEF Keeps, CpuBase
      <4>4. DeviceSet(f)
        BY <2>2, <3>2, <4>1, <4>3 DEF DeviceSet, Keeps
      <4>5. QED
        BY <2>2, <4>3, <4>4
    <3>3. QED
      BY <3>1, <3>2
  <2>4. e = Larger(Mono(c, t), 0)
    OBVIOUS
  <2> HIDE DEF e, g, d
  <2>5. f.expires_next <= c.expires_next
    BY <1>2, <1>3, <2>1, <2>3, Times
  <2>6. f.softirq_expires_next = IF soft THEN e ELSE c.softirq_expires_next
    BY <2>2, <2>3
  <2>7. f.softirq_expires_next <= c.softirq_expires_next
    BY <1>2, <1>3, <1>5, <1>7, <2>6, Times
  <2>8. /\ t \in Soft => f.softirq_expires_next <= e
        /\ f.expires_next <= e
    BY <1>2, <2>3, <2>6
  <2>9. QED
    BY <2>0, <2>3, <2>4, <2>5, <2>7, <2>8
<1>8. QED
  BY <1>4, <1>6, <1>7

\* __remove_hrtimer takes the timer out and covers the others as before.
LEMMA Removed ==
    ASSUME HETypeOK, NEW c \in CpuBase, NEW t \in Timers, NEW reprogram \in BOOLEAN,
           NEW f, f = RemoveHrtimer(c, t, reprogram)
    PROVE  /\ Keeps([c EXCEPT !.queue = @ \ {t}], f)
           /\ ~reprogram => f = [c EXCEPT !.queue = @ \ {t}]
           /\ HardCovered(c) => HardCovered(f)
           /\ SoftCovered(c) => SoftCovered(f)
           /\ c.hres_active /\ DeviceSet(c) => DeviceSet(f)
<1> DEFINE d == [c EXCEPT !.queue = @ \ {t}]
<1>1. /\ d \in CpuBase /\ Keeps(d, d)
      /\ d.queue = c.queue \ {t} /\ d.expires = c.expires /\ d.off = c.off
      /\ d.expires_next = c.expires_next /\ d.softirq_expires_next = c.softirq_expires_next
      /\ d.softirq_activated = c.softirq_activated /\ d.hang_detected = c.hang_detected
      /\ d.event = c.event /\ d.hres_active = c.hres_active
  BY DEF CpuBase, Keeps
<1>2. f = d \/ (reprogram /\ f = ForceReprogram(d, TRUE))
  BY DEF RemoveHrtimer
<1> HIDE DEF d
<1>3. \A u : Mono(d, u) = Mono(c, u)
  BY <1>1 DEF Mono
<1>4. /\ HardCovered(c) => HardCovered(d)
      /\ SoftCovered(c) => SoftCovered(d)
      /\ DeviceSet(c) => DeviceSet(d)
  BY <1>1, <1>3 DEF HardCovered, SoftCovered, DeviceSet
<1>5. CASE f = d
  BY <1>1, <1>4, <1>5 DEF d
<1>6. CASE reprogram /\ f = ForceReprogram(d, TRUE)
  <2>1. /\ Keeps(d, f) /\ HardCovered(f) /\ (SoftCovered(d) => SoftCovered(f))
        /\ d.hres_active /\ DeviceSet(d) => DeviceSet(f)
    BY <1>1, <1>6, Forced
  <2>2. QED
    BY <1>1, <1>4, <1>6, <2>1 DEF d
<1>7. QED
  BY <1>2, <1>5, <1>6

\* hrtimer_update_softirq_timer covers every soft timer.
LEMMA SoftirqUpdated ==
    ASSUME HETypeOK, NEW c \in CpuBase, NEW reprogram \in BOOLEAN,
           NEW f, f = UpdateSoftirqTimer(c, reprogram)
    PROVE  /\ Keeps(c, f)
           /\ f.expires_next <= c.expires_next
           /\ SoftCovered(f)
           /\ c.hres_active /\ DeviceSet(c) => DeviceSet(f)
<1> DEFINE d == GetNextEvent(c, {"soft"})
           g == Forget(d)
<1>1. /\ Keeps(c, d) /\ d.event = c.event
      /\ d.expires_next = c.expires_next /\ d.softirq_expires_next = c.softirq_expires_next
      /\ ~c.softirq_activated => \A t \in c.queue \cap Soft : d.found <= Larger(Mono(c, t), 0)
      /\ d.found # Never =>
           /\ ~c.softirq_activated /\ d.softirq_next_timer \in c.queue \cap Soft
           /\ d.found = Larger(Mono(c, d.softirq_next_timer), 0)
  <2> HIDE DEF d
  <2>1. d = GetNextEvent(c, {"soft"}) /\ "hard" \notin {"soft"} /\ "soft" \in {"soft"}
    BY DEF d
  <2>2. QED
    BY <2>1, NextEvent
<1>2. f = IF d.found = Never THEN d ELSE Reprogram(g, d.softirq_next_timer, reprogram, TRUE)
  BY DEF UpdateSoftirqTimer
<1> HIDE DEF d
<1>3. c.queue \subseteq Timers /\ c.expires_next \in 0..Never /\ c.softirq_expires_next \in 0..Never
      /\ cpu.found \in 0..Never
  BY DEF CpuBase, HETypeOK
<1>4. CASE d.found = Never
  <2>1. f = d
    BY <1>2, <1>4
  <2>2. ~c.softirq_activated => \A t \in c.queue \cap Soft : c.softirq_expires_next <= Larger(Mono(c, t), 0)
    <3> SUFFICES ASSUME ~c.softirq_activated, NEW t \in c.queue \cap Soft
                 PROVE  c.softirq_expires_next <= Larger(Mono(c, t), 0)
      OBVIOUS
    <3>1. Never <= Larger(Mono(c, t), 0) /\ Mono(c, t) \in Int
      BY <1>1, <1>3, <1>4, MonoType
    <3>2. QED
      BY <1>3, <3>1, Times DEF Larger
  <2>3. SoftCovered(f)
    BY <1>1, <2>1, <2>2, KeptMono DEF SoftCovered, Keeps
  <2>4. DeviceSet(c) => DeviceSet(f)
    BY <1>1, <2>1 DEF DeviceSet, Keeps
  <2>5. QED
    BY <1>1, <1>3, <2>1, <2>3, <2>4, Times
<1>5. CASE d.found # Never
  <2> DEFINE n == IF at["hard"] = "program" THEN cpu.found ELSE Never
             t == d.softirq_next_timer
  <2>1. n \in 0..Never /\ g = [d EXCEPT !.found = n]
    BY <1>3, Times DEF Forget
  <2> HIDE DEF n, g
  <2>2. /\ Keeps(c, g) /\ g.event = c.event
        /\ g.expires_next = c.expires_next /\ g.softirq_expires_next = c.softirq_expires_next
    BY <1>1, <2>1 DEF Keeps, CpuBase
  <2>3. t \in Timers /\ t \in Soft /\ ~c.softirq_activated /\ d.found = Larger(Mono(c, t), 0)
    BY <1>1, <1>3, <1>5
  <2>4. f = Reprogram(g, t, reprogram, TRUE)
    BY <1>2, <1>5
  <2> HIDE DEF t
  <2>5. /\ Keeps(g, f) /\ f.expires_next <= g.expires_next
        /\ t \in Soft /\ ~g.softirq_activated => f.softirq_expires_next <= Larger(Mono(g, t), 0)
        /\ g.hres_active /\ DeviceSet(g) => DeviceSet(f)
    <3>1. t \in Timers /\ g \in CpuBase
      BY <2>2, <2>3 DEF Keeps
    <3>2. Lowered(g, t, TRUE, f)
      BY <2>4, <3>1, Reprogrammed
    <3>3. QED
      BY <3>2 DEF Lowered
  <2>6. Keeps(c, f)
    BY <2>2, <2>5 DEF Keeps
  <2>7. DeviceSet(c) /\ c.hres_active => DeviceSet(g) /\ g.hres_active
    BY <2>2 DEF DeviceSet, Keeps
  <2>8. f.softirq_expires_next <= d.found
    BY <2>2, <2>3, <2>5, KeptMono DEF Keeps
  <2>9. SoftCovered(f)
    <3> SUFFICES ASSUME NEW u \in c.queue \cap Soft PROVE f.softirq_expires_next <= Larger(Mono(c, u), 0)
      BY <2>6, KeptMono DEF SoftCovered, Keeps
    <3>1. d.found <= Larger(Mono(c, u), 0) /\ Mono(c, u) \in Int
      BY <1>1, <1>3, <2>3, MonoType
    <3>2. d.found \in Nat /\ f.softirq_expires_next \in Nat
      BY <1>1, <2>6, Times DEF Keeps, CpuBase
    <3>3. QED
      BY <2>8, <3>1, <3>2 DEF Larger
  <2>10. QED
    BY <2>2, <2>5, <2>6, <2>7, <2>9
<1>6. QED
  BY <1>4, <1>5

\* The expiry time of a timer that is not queued does not matter.
LEMMA GoneExpiry ==
    ASSUME HETypeOK, NEW c \in CpuBase, NEW t \in Timers, t \notin c.queue,
           NEW e \in 0..(MaxExpiry + MaxOffset), NEW d, d = [c EXCEPT !.expires[t] = e]
    PROVE  /\ d \in CpuBase /\ d.queue = c.queue /\ d.off = c.off /\ d.found = c.found
           /\ d.hres_active = c.hres_active /\ d.hang_detected = c.hang_detected
           /\ d.in_hrtirq = c.in_hrtirq /\ d.softirq_activated = c.softirq_activated
           /\ d.expires_next = c.expires_next /\ d.event = c.event
           /\ d.softirq_expires_next = c.softirq_expires_next
           /\ \A u \in c.queue : Mono(d, u) = Mono(c, u)
           /\ HardCovered(c) => HardCovered(d)
           /\ SoftCovered(c) => SoftCovered(d)
           /\ DeviceSet(c) => DeviceSet(d)
<1>1. /\ d \in CpuBase /\ d.queue = c.queue /\ d.off = c.off /\ d.found = c.found
      /\ d.hres_active = c.hres_active /\ d.hang_detected = c.hang_detected
      /\ d.in_hrtirq = c.in_hrtirq /\ d.softirq_activated = c.softirq_activated
      /\ d.expires_next = c.expires_next /\ d.event = c.event
      /\ d.softirq_expires_next = c.softirq_expires_next
      /\ d.expires = [c.expires EXCEPT ![t] = e]
      /\ c.queue \subseteq Timers /\ c.expires \in [Timers -> 0..(MaxExpiry + MaxOffset)]
  BY DEF CpuBase
<1>2. \A u \in c.queue : Mono(d, u) = Mono(c, u)
  BY <1>1 DEF Mono
<1>3. QED
  BY <1>1, <1>2 DEF HardCovered, SoftCovered, DeviceSet

\* What a start on a CPU does for its timers; m is the new expiry time.
StartedOn(c, t, m, local, f) ==
    /\ f \in CpuBase /\ f.off = c.off
    /\ f.hres_active = c.hres_active /\ f.hang_detected = c.hang_detected
    /\ f.in_hrtirq = c.in_hrtirq /\ f.softirq_activated = c.softirq_activated
    /\ local = FALSE => f.expires_next = c.expires_next /\ f.event = c.event /\ f.found = c.found
    /\ HardCovered(c) /\ (t \notin Soft => (local = TRUE /\ ~c.in_hrtirq) \/ m >= c.expires_next)
           => HardCovered(f)
    /\ SoftCovered(c) => SoftCovered(f)
    /\ c.hres_active /\ DeviceSet(c) => DeviceSet(f)

\* It leaves all of them covered, when the timer may stay.
LEMMA Started ==
    ASSUME HETypeOK, NEW c \in CpuBase, NEW t \in Timers, t \notin c.queue,
           NEW e \in 0..(MaxExpiry + MaxOffset), NEW local \in BOOLEAN
    PROVE  LET b == [c EXCEPT !.expires[t] = e]
               d == Enqueue(b, t)
           IN  StartedOn(c, t, Mono(b, t), local,
                         IF IsFirst(d, t) THEN Reprogram(d, t, TRUE, local) ELSE d)
<1>0. SUFFICES ASSUME NEW b, b = [c EXCEPT !.expires[t] = e], NEW d, d = Enqueue(b, t),
                      NEW f, f = IF IsFirst(d, t) THEN Reprogram(d, t, TRUE, local) ELSE d
               PROVE  StartedOn(c, t, Mono(b, t), local, f)
  OBVIOUS
<1>1. /\ b \in CpuBase /\ b.queue = c.queue /\ b.off = c.off /\ b.found = c.found
      /\ b.hres_active = c.hres_active /\ b.hang_detected = c.hang_detected
      /\ b.in_hrtirq = c.in_hrtirq /\ b.softirq_activated = c.softirq_activated
      /\ b.expires_next = c.expires_next /\ b.event = c.event
      /\ b.softirq_expires_next = c.softirq_expires_next
      /\ HardCovered(c) => HardCovered(b)
      /\ SoftCovered(c) => SoftCovered(b)
      /\ DeviceSet(c) => DeviceSet(b)
  BY <1>0, GoneExpiry
<1>2. /\ d \in CpuBase /\ d.queue = c.queue \cup {t} /\ d.off = b.off /\ d.found = b.found
      /\ d.hres_active = b.hres_active /\ d.hang_detected = b.hang_detected
      /\ d.in_hrtirq = b.in_hrtirq /\ d.softirq_activated = b.softirq_activated
      /\ d.expires_next = b.expires_next /\ d.event = b.event /\ d.expires = b.expires
      /\ d.softirq_expires_next = b.softirq_expires_next
  BY <1>0, <1>1 DEF Enqueue, CpuBase
<1>3. \A u : Mono(d, u) = Mono(b, u)
  BY <1>2 DEF Mono
<1>4. Keeps(d, d) /\ Larger(Mono(d, t), 0) \in Nat /\ Mono(d, t) \in Int
  BY <1>2, MonoType DEF Keeps, Larger
<1>5. /\ Keeps(d, f)
      /\ f.expires_next <= d.expires_next /\ f.softirq_expires_next <= d.softirq_expires_next
      /\ local = FALSE => /\ f.expires_next = d.expires_next /\ f.event = d.event
                          /\ f.found = d.found
      /\ d.hres_active /\ DeviceSet(d) => DeviceSet(f)
  <2>1. CASE IsFirst(d, t)
    <3>1. f = Reprogram(d, t, TRUE, local)
      BY <1>0, <2>1
    <3>2. Lowered(d, t, local, f)
      BY <1>2, <3>1, Reprogrammed
    <3>3. QED
      BY <3>2 DEF Lowered
  <2>2. CASE ~IsFirst(d, t)
    <3>1. d.expires_next \in Nat /\ d.softirq_expires_next \in Nat
      BY <1>2, Times DEF CpuBase
    <3>2. QED
      BY <1>0, <1>4, <2>2, <3>1
  <2>3. QED
    BY <2>1, <2>2
<1>5a. f.expires_next <= d.expires_next /\ f.softirq_expires_next <= d.softirq_expires_next
  BY <1>5
<1>6. /\ f \in CpuBase /\ f.queue = c.queue \cup {t} /\ f.off = c.off
      /\ f.hres_active = c.hres_active /\ f.hang_detected = c.hang_detected
      /\ f.in_hrtirq = c.in_hrtirq /\ f.softirq_activated = c.softirq_activated
      /\ \A u : Mono(f, u) = Mono(d, u)
  <2>1. f.expires = d.expires /\ f.off = d.off
    BY <1>5 DEF Keeps
  <2>2. \A u : Mono(f, u) = Mono(d, u)
    BY <2>1 DEF Mono
  <2>3. QED
    BY <1>1, <1>2, <1>5, <2>2 DEF Keeps
<1>7. /\ f.expires_next \in Nat /\ f.softirq_expires_next \in Nat
      /\ d.expires_next \in Nat /\ d.softirq_expires_next \in Nat
      /\ \A u \in c.queue : u \in Timers /\ Mono(d, u) \in Int
  <2>1. \A k \in CpuBase : k.expires_next \in Nat /\ k.softirq_expires_next \in Nat /\ k.queue \subseteq Timers
    BY Times DEF CpuBase
  <2>2. c.queue \subseteq Timers
    BY <2>1
  <2>3. QED
    BY <1>2, <1>6, <2>1, <2>2, MonoType
<1>8. IsFirst(d, t) \/ \E u \in c.queue : SameBase(t, u) /\ Mono(d, u) <= Mono(d, t)
  <2>1. \A u \in c.queue \ {t} : Mono(d, t) < Mono(d, u) \/ Mono(d, u) <= Mono(d, t)
    BY <1>4, <1>7
  <2>2. QED
    BY <1>2, <2>1 DEF IsFirst
<1>9. IsFirst(d, t) => Lowered(d, t, local, f)
  BY <1>0, <1>2, Reprogrammed
<1>10. ASSUME HardCovered(c),
              t \notin Soft => (local = TRUE /\ ~c.in_hrtirq) \/ Mono(b, t) >= c.expires_next
       PROVE  HardCovered(f)
  <2>1. \A u \in c.queue \ Soft : d.expires_next <= Larger(Mono(d, u), 0)
    BY <1>1, <1>2, <1>3, <1>10 DEF HardCovered
  <2>2. \A u \in c.queue \ Soft : f.expires_next <= Larger(Mono(d, u), 0)
    <3> SUFFICES ASSUME NEW u \in c.queue \ Soft PROVE f.expires_next <= Larger(Mono(d, u), 0)
      OBVIOUS
    <3>1. d.expires_next <= Larger(Mono(d, u), 0) /\ Larger(Mono(d, u), 0) \in Nat
      BY <1>7, <2>1 DEF Larger
    <3>2. QED
      BY <1>5a, <1>7, <3>1, Transitive
  <2>3. t \notin Soft => f.expires_next <= Larger(Mono(d, t), 0)
    <3> SUFFICES ASSUME t \notin Soft PROVE f.expires_next <= Larger(Mono(d, t), 0)
      OBVIOUS
    <3>1. CASE Mono(b, t) >= c.expires_next
      <4>1. d.expires_next <= Mono(d, t)
        BY <1>1, <1>2, <1>3, <1>4, <1>7, <3>1
      <4>2. Mono(d, t) <= Larger(Mono(d, t), 0)
        BY <1>4 DEF Larger
      <4>3. QED
        BY <1>4, <1>5a, <1>7, <4>1, <4>2, Transitive
    <3>2. CASE local = TRUE /\ ~c.in_hrtirq /\ IsFirst(d, t)
      BY <1>1, <1>2, <1>9, <3>2 DEF Lowered
    <3>3. CASE ~IsFirst(d, t)
      <4>1. PICK u \in c.queue : SameBase(t, u) /\ Mono(d, u) <= Mono(d, t)
        BY <1>8, <3>3
      <4>2. u \notin Soft
        BY <4>1 DEF SameBase
      <4>3. f.expires_next <= Larger(Mono(d, u), 0)
        BY <2>2, <4>2
      <4>4. Larger(Mono(d, u), 0) <= Larger(Mono(d, t), 0) /\ Larger(Mono(d, u), 0) \in Nat
        BY <1>4, <1>7, <4>1 DEF Larger
      <4>5. QED
        BY <1>4, <1>7, <4>3, <4>4, Transitive
    <3>4. QED
      BY <1>10, <3>1, <3>2, <3>3
  <2>4. QED
    BY <1>6, <2>2, <2>3 DEF HardCovered
<1>11. ASSUME SoftCovered(c) PROVE SoftCovered(f)
  <2> SUFFICES ASSUME ~c.softirq_activated, NEW v \in f.queue \cap Soft, v \in Real => ~forward
               PROVE  f.softirq_expires_next <= Larger(Mono(f, v), 0)
    BY <1>6 DEF SoftCovered
  <2>1. \A u \in c.queue \cap Soft :
            (u \in Real => ~forward) => d.softirq_expires_next <= Larger(Mono(d, u), 0)
    BY <1>1, <1>2, <1>3, <1>11 DEF SoftCovered
  <2>2. \A u \in c.queue \cap Soft :
            (u \in Real => ~forward) => f.softirq_expires_next <= Larger(Mono(d, u), 0)
    <3> SUFFICES ASSUME NEW u \in c.queue \cap Soft, u \in Real => ~forward
                 PROVE  f.softirq_expires_next <= Larger(Mono(d, u), 0)
      OBVIOUS
    <3>1. d.softirq_expires_next <= Larger(Mono(d, u), 0) /\ Larger(Mono(d, u), 0) \in Nat
      BY <1>7, <2>1 DEF Larger
    <3>2. QED
      BY <1>5a, <1>7, <3>1, Transitive
  <2>3. CASE v # t
    BY <1>6, <2>2, <2>3
  <2>4. CASE v = t /\ IsFirst(d, t)
    BY <1>1, <1>2, <1>6, <1>9, <2>4 DEF Lowered
  <2>5. CASE v = t /\ ~IsFirst(d, t)
    <3>1. PICK u \in c.queue : SameBase(t, u) /\ Mono(d, u) <= Mono(d, t)
      BY <1>8, <2>5
    <3>2. u \in Soft /\ (u \in Real => ~forward)
      BY <2>5, <3>1 DEF SameBase
    <3>3. f.softirq_expires_next <= Larger(Mono(d, u), 0)
      BY <2>2, <3>2
    <3>4. QED
      BY <1>4, <1>6, <1>7, <2>5, <3>1, <3>3 DEF Larger
  <2>6. QED
    BY <2>3, <2>4, <2>5
<1>12. c.hres_active /\ DeviceSet(c) => DeviceSet(f)
  <2>1. DeviceSet(c) => DeviceSet(d)
    BY <1>1, <1>2 DEF DeviceSet
  <2>2. QED
    BY <1>1, <1>2, <1>5, <2>1
<1>13. QED
  BY <1>1, <1>2, <1>5, <1>6, <1>10, <1>11, <1>12 DEF StartedOn

\* hrtimer_update_base: without a setting forward no timer gets earlier.
LEMMA BaseUpdated ==
    ASSUME HETypeOK, NEW c \in CpuBase, NEW d, d = UpdateBase(c)
    PROVE  /\ d \in CpuBase /\ d.queue = c.queue /\ d.off = offset /\ d.found = c.found
           /\ d.hres_active = c.hres_active /\ d.hang_detected = c.hang_detected
           /\ d.in_hrtirq = c.in_hrtirq /\ d.softirq_activated = c.softirq_activated
           /\ d.expires_next = c.expires_next /\ d.event = c.event /\ d.expires = c.expires
           /\ d.softirq_expires_next = c.softirq_expires_next
           /\ c.off = offset /\ HardCovered(c) => HardCovered(d)
           /\ SoftCovered(c) /\ (~forward => offset <= c.off) => SoftCovered(d)
           /\ DeviceSet(c) => DeviceSet(d)
<1>1. /\ d \in CpuBase /\ d.queue = c.queue /\ d.off = offset /\ d.found = c.found
      /\ d.hres_active = c.hres_active /\ d.hang_detected = c.hang_detected
      /\ d.in_hrtirq = c.in_hrtirq /\ d.softirq_activated = c.softirq_activated
      /\ d.expires_next = c.expires_next /\ d.event = c.event /\ d.expires = c.expires
      /\ d.softirq_expires_next = c.softirq_expires_next
  BY DEF UpdateBase, CpuBase, HETypeOK
<1>2. c.off = offset => \A u : Mono(d, u) = Mono(c, u)
  BY <1>1 DEF Mono
<1>3. ASSUME NEW u \in c.queue, u \in Real => offset <= c.off
      PROVE  Mono(d, u) >= Mono(c, u) /\ Mono(d, u) \in Int /\ Mono(c, u) \in Int
  <2>1. u \in Timers /\ Mono(d, u) \in Int /\ Mono(c, u) \in Int
    BY <1>1, MonoType DEF CpuBase
  <2>2. c.expires[u] \in Int /\ c.off \in Int /\ offset \in Int
    BY <2>1, Times DEF CpuBase, HETypeOK
  <2>3. QED
    BY <1>1, <1>3, <2>1, <2>2 DEF Mono
<1>4. SoftCovered(c) /\ (~forward => offset <= c.off) => SoftCovered(d)
  <2> SUFFICES ASSUME SoftCovered(c), ~forward => offset <= c.off, ~c.softirq_activated,
                      NEW u \in c.queue \cap Soft, u \in Real => ~forward
               PROVE  c.softirq_expires_next <= Larger(Mono(d, u), 0)
    BY <1>1 DEF SoftCovered
  <2>1. c.softirq_expires_next <= Larger(Mono(c, u), 0)
    BY DEF SoftCovered
  <2>2. Mono(d, u) >= Mono(c, u) /\ Mono(d, u) \in Int /\ Mono(c, u) \in Int
    BY <1>3
  <2>3. c.softirq_expires_next \in Nat
    BY Times DEF CpuBase
  <2>4. QED
    BY <2>1, <2>2, <2>3 DEF Larger
<1>5. QED
  BY <1>1, <1>2, <1>4 DEF HardCovered, DeviceSet

\* Raising the softirq.
LEMMA SoftirqRaised ==
    ASSUME NEW c \in CpuBase, NEW time, NEW d, d = RaiseSoftirq(c, time)
    PROVE  /\ d \in CpuBase /\ d.queue = c.queue /\ d.off = c.off /\ d.found = c.found
           /\ d.hres_active = c.hres_active /\ d.hang_detected = c.hang_detected
           /\ d.in_hrtirq = c.in_hrtirq /\ (c.softirq_activated => d.softirq_activated)
           /\ d.expires_next = c.expires_next /\ d.event = c.event
           /\ SoftCovered(c) => SoftCovered(d)
<1>1. CASE time < c.softirq_expires_next
  BY <1>1 DEF RaiseSoftirq
<1>2. CASE ~(time < c.softirq_expires_next)
  <2>1. d = [c EXCEPT !.softirq_expires_next = Never, !.softirq_activated = TRUE] /\ Never \in 0..Never
    BY <1>2, Times DEF RaiseSoftirq
  <2>2. QED
    BY <2>1 DEF CpuBase, SoftCovered
<1>3. QED
  BY <1>1, <1>2

-----------------------------------------------------------------------------
(* EventInv is inductive.                                                  *)

\* At first nothing is queued and nothing programmed.
LEMMA InitEvent == HEInit => EventInv
<1> SUFFICES ASSUME HEInit PROVE EventInv
  OBVIOUS
<1>1. cpu \in CpuBase /\ cpu.queue = {} /\ cpu.off = offset /\ ~cpu.hres_active
      /\ ~cpu.hang_detected /\ ~cpu.in_hrtirq
  BY Times DEF HEInit, CpuBase
<1>2. HETypeOK
  BY <1>1, Times DEF HEInit, HETypeOK, Contexts
<1>3. PlaceInv
  BY <1>1 DEF HEInit, PlaceInv, Contexts
<1>4. OffsetInv /\ HardInv /\ SoftInv
  BY <1>1, Times DEF HEInit, OffsetInv, HardInv, SoftInv, SoftCovered
<1>5. QED
  BY <1>2, <1>3, <1>4 DEF EventInv

\* The contexts and where they may be.
LEMMA Placed ==
    ASSUME EventInv
    PROVE  /\ Contexts = {"hard", "soft"}
           /\ cpu \in CpuBase /\ cpu.queue \subseteq Timers /\ now \in 0..Horizon
           /\ cpu.expires_next \in Nat /\ cpu.found \in 0..Never /\ cpu.event \in 0..Never
           /\ at["soft"] # "idle" => cpu.softirq_activated
           /\ \A x \in Contexts : cur[x] # None => cur[x] \in Timers /\ cur[x] \in OfContext(x)
BY TimersAssumption, Times DEF EventInv, HETypeOK, PlaceInv, Contexts, CpuBase, OfContext

\* A step of a timer on the queues: the clocks and the places stay.
LEMMA QueueStep ==
    ASSUME EventInv, UNCHANGED <<now, offset, forward, at, cur, stamp, todo, entry, retries, ipi>>,
           cpu' \in CpuBase, cpu'.off = cpu.off,
           cpu'.hres_active = cpu.hres_active, cpu'.hang_detected = cpu.hang_detected,
           cpu'.in_hrtirq = cpu.in_hrtirq, cpu'.softirq_activated = cpu.softirq_activated,
           at["hard"] = "program" => cpu'.found = cpu.found /\ cpu'.expires_next = cpu.expires_next,
           SoftCovered(cpu'),
           cpu.hres_active /\ ~cpu.in_hrtirq /\ ~ipi /\ at["hard"] # "adopted" => HardCovered(cpu'),
           cpu.hres_active /\ at["hard"] = "idle" => DeviceSet(cpu')
    PROVE  EventInv'
<1>1. HETypeOK'
  BY DEF EventInv, HETypeOK
<1>2. PlaceInv'
  BY DEF EventInv, PlaceInv
<1>3. OffsetInv'
  BY DEF EventInv, OffsetInv
<1>4. HardInv'
  BY DEF HardInv, HardCovered, DeviceSet
<1>5. SoftInv'
  BY DEF SoftInv, SoftCovered
<1>6. QED
  BY <1>1, <1>2, <1>3, <1>4, <1>5 DEF EventInv

\* With high resolution, and nothing of the interrupt under way, this CPU has no hard callback.
LEMMA NoHardCallback ==
    ASSUME EventInv, cpu.hres_active, ~cpu.in_hrtirq
    PROVE  cur["hard"] = None
BY DEF EventInv, PlaceInv, Contexts

\* A hard timer that another CPU starts here is not earlier than the next event.
LEMMA StartKeeps ==
    ASSUME EventInv, NEW t \in Timers, NEW local \in BOOLEAN, Start(t, local)
    PROVE  EventInv'
<1> DEFINE a == IF t \in cpu.queue THEN RemoveHrtimer(cpu, t, local) ELSE cpu
<1>1. PICK e \in Expiries(t) :
        LET b == [a EXCEPT !.expires[t] = e]
            d == Enqueue(b, t)
        IN  /\ MayStay(b, t, local)
            /\ cpu' = IF IsFirst(d, t) THEN Reprogram(d, t, TRUE, local) ELSE d
  BY DEF Start
<1>2. HETypeOK /\ cpu \in CpuBase
  BY Placed DEF EventInv
<1>3. /\ a \in CpuBase /\ t \notin a.queue /\ a.off = cpu.off
      /\ a.hres_active = cpu.hres_active /\ a.hang_detected = cpu.hang_detected
      /\ a.in_hrtirq = cpu.in_hrtirq /\ a.softirq_activated = cpu.softirq_activated
      /\ HardCovered(cpu) => HardCovered(a)
      /\ SoftCovered(cpu) => SoftCovered(a)
      /\ cpu.hres_active /\ DeviceSet(cpu) => DeviceSet(a)
  <2>1. CASE t \notin cpu.queue
    BY <1>2, <2>1
  <2>2. CASE t \in cpu.queue
    <3>1. a = RemoveHrtimer(cpu, t, local)
      BY <2>2
    <3> HIDE DEF a
    <3> DEFINE q == [cpu EXCEPT !.queue = @ \ {t}]
    <3>2. /\ Keeps(q, a)
          /\ HardCovered(cpu) => HardCovered(a)
          /\ SoftCovered(cpu) => SoftCovered(a)
          /\ cpu.hres_active /\ DeviceSet(cpu) => DeviceSet(a)
      BY <1>2, <3>1, Removed
    <3>3. /\ q.queue = cpu.queue \ {t} /\ q.off = cpu.off /\ q.hres_active = cpu.hres_active
          /\ q.hang_detected = cpu.hang_detected /\ q.in_hrtirq = cpu.in_hrtirq
          /\ q.softirq_activated = cpu.softirq_activated
      BY <1>2 DEF CpuBase
    <3> HIDE DEF q
    <3>4. QED
      BY <3>2, <3>3 DEF Keeps
  <2>3. QED
    BY <2>1, <2>2
<1>4. local = FALSE => a.expires_next = cpu.expires_next /\ a.event = cpu.event /\ a.found = cpu.found
  <2>1. local = FALSE => a = [cpu EXCEPT !.queue = @ \ {t}] \/ a = cpu
    BY DEF RemoveHrtimer
  <2> HIDE DEF a
  <2>2. QED
    BY <1>2, <2>1 DEF CpuBase
<1>5. UNCHANGED <<now, offset, forward, at, cur, stamp, todo, entry, retries, ipi>>
  BY DEF Start, clockVars, runVars
<1> HIDE DEF a
<1> DEFINE b == [a EXCEPT !.expires[t] = e]
<1>6. StartedOn(a, t, Mono(b, t), local, cpu')
  <2>1. e \in 0..(MaxExpiry + MaxOffset)
    BY DEF Expiries
  <2>2. QED
    BY <1>1, <1>2, <1>3, <2>1, Started
<1>7. MayStay(b, t, local)
  BY <1>1
<1> HIDE DEF b
<1>8. ASSUME cpu.hres_active, ~cpu.in_hrtirq, ~ipi, at["hard"] # "adopted"
      PROVE  HardCovered(cpu')
  <2>1. HardCovered(cpu)
    BY <1>8 DEF EventInv, HardInv
  <2>2. t \notin Soft => local = TRUE \/ Mono(b, t) >= a.expires_next
    <3> SUFFICES ASSUME t \notin Soft, local = FALSE PROVE Mono(b, t) >= a.expires_next
      OBVIOUS
    <3>1. ~Running(t)
      BY <1>8, NoHardCallback, TimersAssumption DEF Running, EventInv, PlaceInv, Contexts
    <3>2. Mono(b, t) >= b.expires_next
      BY <1>7, <3>1 DEF MayStay
    <3>3. b.expires_next = a.expires_next
      BY <1>3 DEF b, CpuBase
    <3>4. QED
      BY <3>2, <3>3
  <2>3. QED
    BY <1>3, <1>6, <1>8, <2>1, <2>2 DEF StartedOn
<1>9. at["hard"] = "program" => cpu'.found = cpu.found /\ cpu'.expires_next = cpu.expires_next
  <2>1. at["hard"] = "program" => local = FALSE
    BY DEF Start, LocalCode, Contexts
  <2>2. QED
    BY <1>4, <1>6, <2>1 DEF StartedOn
<1>10. cpu' \in CpuBase /\ cpu'.off = cpu.off
       /\ cpu'.hres_active = cpu.hres_active /\ cpu'.hang_detected = cpu.hang_detected
       /\ cpu'.in_hrtirq = cpu.in_hrtirq /\ cpu'.softirq_activated = cpu.softirq_activated
       /\ SoftCovered(cpu')
  BY <1>3, <1>6 DEF StartedOn, EventInv, SoftInv
<1>11. cpu.hres_active /\ at["hard"] = "idle" => DeviceSet(cpu')
  <2>1. cpu.hres_active /\ at["hard"] = "idle" => DeviceSet(cpu)
    BY DEF EventInv, HardInv, PlaceInv
  <2>2. QED
    BY <1>3, <1>6, <2>1 DEF StartedOn
<1>12. QED
  BY <1>5, <1>8, <1>9, <1>10, <1>11, QueueStep

\* A cancellation takes the timer out and leaves the others covered.
LEMMA CancelKeeps ==
    ASSUME EventInv, NEW t \in Timers, NEW local \in BOOLEAN, Cancel(t, local)
    PROVE  EventInv'
<1>1. PICK a : a = RemoveHrtimer(cpu, t, local)
  OBVIOUS
<1>2. HETypeOK /\ cpu \in CpuBase
  BY Placed DEF EventInv
<1> DEFINE q == [cpu EXCEPT !.queue = @ \ {t}]
<1>3. /\ Keeps(q, a) /\ (local = FALSE => a = q)
      /\ HardCovered(cpu) => HardCovered(a)
      /\ SoftCovered(cpu) => SoftCovered(a)
      /\ cpu.hres_active /\ DeviceSet(cpu) => DeviceSet(a)
  BY <1>1, <1>2, Removed
<1>4. /\ q.queue = cpu.queue \ {t} /\ q.off = cpu.off /\ q.hres_active = cpu.hres_active
      /\ q.hang_detected = cpu.hang_detected /\ q.in_hrtirq = cpu.in_hrtirq
      /\ q.softirq_activated = cpu.softirq_activated /\ q.found = cpu.found
      /\ q.expires_next = cpu.expires_next
  BY <1>2 DEF CpuBase
<1> HIDE DEF q
<1>5. a \in CpuBase /\ t \notin a.queue /\ 0 \in 0..(MaxExpiry + MaxOffset)
  BY <1>3, <1>4, Times DEF Keeps
<1>6. PICK f : f = [a EXCEPT !.expires[t] = 0]
  OBVIOUS
<1>7. cpu' = f
  BY <1>1, <1>5, <1>6 DEF Cancel, Forgotten
<1>8. /\ f \in CpuBase /\ f.off = a.off /\ f.found = a.found
      /\ f.hres_active = a.hres_active /\ f.hang_detected = a.hang_detected
      /\ f.in_hrtirq = a.in_hrtirq /\ f.softirq_activated = a.softirq_activated
      /\ f.expires_next = a.expires_next
      /\ HardCovered(a) => HardCovered(f)
      /\ SoftCovered(a) => SoftCovered(f)
      /\ DeviceSet(a) => DeviceSet(f)
  BY <1>2, <1>5, <1>6, GoneExpiry
<1>9. UNCHANGED <<now, offset, forward, at, cur, stamp, todo, entry, retries, ipi>>
  BY DEF Cancel, clockVars, runVars
<1>10. at["hard"] = "program" => cpu'.found = cpu.found /\ cpu'.expires_next = cpu.expires_next
  <2>1. at["hard"] = "program" => local = FALSE
    BY DEF Cancel, LocalCode, Contexts
  <2>2. QED
    BY <1>3, <1>4, <1>7, <1>8, <2>1
<1>11. /\ cpu' \in CpuBase /\ cpu'.off = cpu.off
       /\ cpu'.hres_active = cpu.hres_active /\ cpu'.hang_detected = cpu.hang_detected
       /\ cpu'.in_hrtirq = cpu.in_hrtirq /\ cpu'.softirq_activated = cpu.softirq_activated
  BY <1>3, <1>4, <1>7, <1>8 DEF Keeps
<1>12. /\ SoftCovered(cpu')
       /\ cpu.hres_active /\ ~cpu.in_hrtirq /\ ~ipi /\ at["hard"] # "adopted" => HardCovered(cpu')
       /\ cpu.hres_active /\ at["hard"] = "idle" => DeviceSet(cpu')
  <2>1. /\ SoftCovered(cpu)
        /\ cpu.hres_active /\ ~cpu.in_hrtirq /\ ~ipi /\ at["hard"] # "adopted" => HardCovered(cpu)
        /\ cpu.hres_active /\ at["hard"] = "idle" => DeviceSet(cpu)
    BY DEF EventInv, SoftInv, HardInv, PlaceInv
  <2>2. QED
    BY <1>3, <1>7, <1>8, <2>1
<1>13. QED
  BY <1>9, <1>10, <1>11, <1>12, QueueStep

\* The timers of a dead CPU: the soft ones are covered at once, the hard ones by the
\* interrupt that follows.
LEMMA AdoptKeeps ==
    ASSUME EventInv, NEW t \in Timers, Adopt(t)
    PROVE  EventInv'
<1>1. PICK e \in Expiries(t) :
        cpu' = UpdateSoftirqTimer(Enqueue([cpu EXCEPT !.expires[t] = e], t), FALSE)
  BY DEF Adopt
<1>2. PICK d : d = Enqueue([cpu EXCEPT !.expires[t] = e], t)
  OBVIOUS
<1>3. HETypeOK /\ cpu \in CpuBase /\ Contexts = {"hard", "soft"}
  BY Placed DEF EventInv
<1>4. /\ d \in CpuBase /\ d.off = cpu.off
      /\ d.hres_active = cpu.hres_active /\ d.hang_detected = cpu.hang_detected
      /\ d.in_hrtirq = cpu.in_hrtirq /\ d.softirq_activated = cpu.softirq_activated
  BY <1>2, <1>3 DEF Enqueue, Expiries, CpuBase
<1>5. Keeps(d, cpu') /\ SoftCovered(cpu')
  <2>1. PICK f : f = UpdateSoftirqTimer(d, FALSE)
    OBVIOUS
  <2>2. Keeps(d, f) /\ SoftCovered(f)
    BY <1>3, <1>4, <2>1, SoftirqUpdated
  <2>3. QED
    BY <1>1, <1>2, <2>1, <2>2
<1>6. /\ cpu' \in CpuBase /\ cpu'.off = cpu.off
      /\ cpu'.hres_active = cpu.hres_active /\ cpu'.hang_detected = cpu.hang_detected
      /\ cpu'.in_hrtirq = cpu.in_hrtirq /\ cpu'.softirq_activated = cpu.softirq_activated
  BY <1>4, <1>5 DEF Keeps
<1>7. /\ at' = [at EXCEPT !["hard"] = "adopted"] /\ at["hard"] = "idle" /\ at["soft"] = "idle"
      /\ UNCHANGED <<now, offset, forward, cur, stamp, todo, entry, retries, ipi>>
  BY DEF Adopt, InterruptsOn, clockVars
<1>8. HETypeOK'
  BY <1>3, <1>6, <1>7 DEF HETypeOK
<1>9. at'["hard"] = "adopted" /\ at'["soft"] = "idle"
  BY <1>3, <1>7 DEF HETypeOK
<1>10. PlaceInv'
  BY <1>3, <1>6, <1>7, <1>9 DEF EventInv, PlaceInv
<1>11. OffsetInv' /\ HardInv'
  BY <1>6, <1>7, <1>9 DEF EventInv, OffsetInv, HardInv
<1>12. SoftInv'
  BY <1>5, <1>7 DEF SoftInv, SoftCovered
<1>13. QED
  BY <1>8, <1>10, <1>11, <1>12 DEF EventInv

\* Setting the clock leaves the CPU as it is, and calls on it.
LEMMA SetClockKeeps ==
    ASSUME EventInv, SetClock
    PROVE  EventInv'
<1>1. PICK o \in 0..MaxOffset \ {offset} : offset' = o /\ forward' = (forward \/ o > offset)
  BY DEF SetClock
<1>2. ipi' /\ UNCHANGED <<now, cpu, at, cur, stamp, todo, entry, retries>>
  BY DEF SetClock, runVars
<1>3. HETypeOK' /\ PlaceInv' /\ HardInv'
  BY <1>1, <1>2 DEF EventInv, HETypeOK, PlaceInv, HardInv, DeviceSet
<1>4. OffsetInv'
  <2>1. offset \in Int /\ cpu.off \in Int /\ o \in Int
    BY <1>1, Times DEF EventInv, HETypeOK, CpuBase
  <2>2. ~forward' => ~forward /\ ~(o > offset)
    BY <1>1, Zenon
  <2>3. ~forward => offset <= cpu.off
    BY DEF EventInv, OffsetInv
  <2>4. ~forward' => o <= cpu.off
    BY <2>1, <2>2, <2>3
  <2>5. QED
    BY <1>1, <1>2, <2>4 DEF OffsetInv
<1>5. SoftInv'
  BY <1>1, <1>2 DEF EventInv, SoftInv, SoftCovered
<1>6. QED
  BY <1>3, <1>4, <1>5 DEF EventInv

\* retrigger_next_event covers every timer by the new offset.
LEMMA RetriggeredCovers ==
    ASSUME EventInv, NEW c \in CpuBase, c.hres_active, c.off = cpu.off, SoftCovered(c),
           c.hang_detected => DeviceSet(c), NEW f, f = Retriggered(c)
    PROVE  /\ f \in CpuBase /\ f.off = offset
           /\ f.hres_active = c.hres_active /\ f.hang_detected = c.hang_detected
           /\ f.in_hrtirq = c.in_hrtirq /\ f.softirq_activated = c.softirq_activated
           /\ HardCovered(f) /\ SoftCovered(f) /\ DeviceSet(f)
<1>1. PICK d : d = UpdateBase(c)
  OBVIOUS
<1>2. /\ d \in CpuBase /\ d.off = offset
      /\ d.hres_active = c.hres_active /\ d.hang_detected = c.hang_detected
      /\ d.in_hrtirq = c.in_hrtirq /\ d.softirq_activated = c.softirq_activated
      /\ SoftCovered(c) /\ (~forward => offset <= c.off) => SoftCovered(d)
      /\ DeviceSet(c) => DeviceSet(d)
  BY <1>1, BaseUpdated DEF EventInv
<1>3. SoftCovered(d)
  BY <1>2 DEF EventInv, OffsetInv
<1>4. PICK g : g = ForceReprogram(d, FALSE)
  OBVIOUS
<1>5. /\ Keeps(d, g) /\ HardCovered(g)
      /\ SoftCovered(d) => SoftCovered(g)
      /\ d.hres_active /\ (FALSE \/ d.hang_detected => DeviceSet(d)) => DeviceSet(g)
  BY <1>2, <1>4, Forced DEF EventInv
<1>6. f = g
  BY <1>1, <1>4 DEF Retriggered
<1>7. QED
  BY <1>2, <1>3, <1>5, <1>6 DEF Keeps

\* clock_was_set has reached this CPU.
LEMMA RetriggerKeeps ==
    ASSUME EventInv, RetriggerNextEvent
    PROVE  EventInv'
<1>1. /\ ~ipi' /\ cpu' = Retriggered(cpu) /\ at["hard"] = "idle"
      /\ UNCHANGED <<now, offset, forward, at, cur, stamp, todo, entry, retries>>
  BY DEF RetriggerNextEvent, InterruptsOn, clockVars, runVars
<1>2. /\ cpu \in CpuBase /\ SoftCovered(cpu)
      /\ cpu.hres_active /\ cpu.hang_detected => DeviceSet(cpu)
  BY <1>1, Placed DEF EventInv, SoftInv, HardInv, PlaceInv
<1>3. CASE cpu.hres_active
  <2>1. PICK f : f = Retriggered(cpu)
    OBVIOUS
  <2>2. /\ f \in CpuBase /\ f.off = offset
        /\ f.hres_active = cpu.hres_active /\ f.hang_detected = cpu.hang_detected
        /\ f.in_hrtirq = cpu.in_hrtirq /\ f.softirq_activated = cpu.softirq_activated
        /\ HardCovered(f) /\ SoftCovered(f) /\ DeviceSet(f)
    BY <1>2, <1>3, <2>1, RetriggeredCovers
  <2>3. cpu' = f
    BY <1>1, <2>1
  <2>4. HETypeOK' /\ PlaceInv'
    BY <1>1, <2>2, <2>3 DEF EventInv, HETypeOK, PlaceInv
  <2>5. OffsetInv'
    <3>1. offset \in Int
      BY Times DEF EventInv, HETypeOK
    <3>2. QED
      BY <1>1, <2>2, <2>3, <3>1 DEF OffsetInv
  <2>6. HardInv' /\ SoftInv'
    BY <1>1, <2>2, <2>3 DEF HardInv, HardCovered, DeviceSet, SoftInv, SoftCovered
  <2>7. QED
    BY <2>4, <2>5, <2>6 DEF EventInv
<1>4. CASE ~cpu.hres_active
  <2>1. cpu' = cpu
    BY <1>1, <1>4 DEF Retriggered
  <2>2. QED
    BY <1>1, <1>4, <2>1 DEF EventInv, HETypeOK, PlaceInv, OffsetInv, HardInv, SoftInv, SoftCovered
<1>5. QED
  BY <1>3, <1>4

\* From the polling of the tick to the device: programmed for what is queued already.
LEMMA SwitchKeeps ==
    ASSUME EventInv, SwitchToHres
    PROVE  EventInv'
<1>1. /\ cpu' = Retriggered([cpu EXCEPT !.hres_active = TRUE])
      /\ ~cpu.hres_active /\ at["hard"] = "idle"
      /\ UNCHANGED <<now, offset, forward, at, cur, stamp, todo, entry, retries, ipi>>
  BY DEF SwitchToHres, InterruptsOn, clockVars, runVars
<1>2. PICK c : c = [cpu EXCEPT !.hres_active = TRUE]
  OBVIOUS
<1>3. cpu \in CpuBase /\ SoftCovered(cpu) /\ ~cpu.hang_detected /\ ~cpu.in_hrtirq
  BY <1>1, Placed DEF EventInv, SoftInv, PlaceInv
<1>4. /\ c \in CpuBase /\ c.hres_active /\ c.off = cpu.off /\ ~c.hang_detected /\ ~c.in_hrtirq
      /\ c.softirq_activated = cpu.softirq_activated /\ c.queue = cpu.queue
      /\ c.expires = cpu.expires /\ c.softirq_expires_next = cpu.softirq_expires_next
  BY <1>2, <1>3 DEF CpuBase
<1>5. SoftCovered(c)
  BY <1>3, <1>4 DEF SoftCovered, Mono
<1>6. PICK f : f = Retriggered(c)
  OBVIOUS
<1>7. /\ f \in CpuBase /\ f.off = offset
      /\ f.hres_active = c.hres_active /\ f.hang_detected = c.hang_detected
      /\ f.in_hrtirq = c.in_hrtirq /\ f.softirq_activated = c.softirq_activated
      /\ HardCovered(f) /\ SoftCovered(f) /\ DeviceSet(f)
  BY <1>4, <1>5, <1>6, RetriggeredCovers
<1>8. cpu' = f
  BY <1>1, <1>2, <1>6
<1>9. HETypeOK' /\ PlaceInv'
  BY <1>1, <1>4, <1>7, <1>8 DEF EventInv, HETypeOK, PlaceInv
<1>10. OffsetInv'
  <2>1. offset \in Int
    BY Times DEF EventInv, HETypeOK
  <2>2. QED
    BY <1>1, <1>7, <1>8, <2>1 DEF OffsetInv
<1>11. HardInv' /\ SoftInv'
  BY <1>1, <1>7, <1>8 DEF HardInv, HardCovered, DeviceSet, SoftInv, SoftCovered
<1>12. QED
  BY <1>9, <1>10, <1>11 DEF EventInv

\* A timer leaves the queue and its callback begins.
LEMMA RunTimerKeeps ==
    ASSUME EventInv, NEW x \in Contexts, RunTimer(x)
    PROVE  EventInv'
<1>1. PICK b \in todo[x] :
        /\ Due(x, b) # {}
        /\ LET t == NextEventBase(cpu, Due(x, b), Never).timer IN
            /\ cpu' = RemoveHrtimer(cpu, t, FALSE)
            /\ cur' = [cur EXCEPT ![x] = t]
        /\ todo' = [todo EXCEPT ![x] = Rest(x, b)]
  BY DEF RunTimer
<1>2. /\ at[x] = "run" /\ (x = "soft" => at["hard"] = "idle")
      /\ at' = [at EXCEPT ![x] = "callback"]
      /\ UNCHANGED <<now, offset, forward, stamp, entry, retries, ipi>>
  BY DEF RunTimer, MayRun, clockVars
<1>3. PICK r : r = NextEventBase(cpu, Due(x, b), Never)
  OBVIOUS
<1>4. /\ HETypeOK /\ cpu \in CpuBase /\ cpu.queue \subseteq Timers /\ Contexts = {"hard", "soft"}
      /\ todo[x] \subseteq Bases /\ stamp[x] \in 0..Horizon
  BY Placed DEF EventInv, HETypeOK
<1>5. r.timer \in Due(x, b)
  <2>1. Due(x, b) \subseteq Timers /\ Never \in 0..Never
    BY <1>4, Times DEF Due
  <2>2. /\ \A t \in Due(x, b) : r.expires <= Larger(Mono(cpu, t), 0)
        /\ \/ r.timer = None /\ r.expires = Never
           \/ r.timer \in Due(x, b)
    BY <1>3, <1>4, <2>1, NextOfBase
  <2>3. PICK t \in Due(x, b) : TRUE
    BY <1>1
  <2>4. Mono(cpu, t) <= stamp[x] /\ Mono(cpu, t) \in Int
    BY <1>4, <2>1, <2>3, MonoType DEF Due
  <2>5. Larger(Mono(cpu, t), 0) <= Horizon /\ Larger(Mono(cpu, t), 0) \in Int
    BY <1>4, <2>4, Times DEF Larger
  <2>6. r.expires # Never
    BY <2>2, <2>3, <2>5, Times
  <2>7. QED
    BY <2>2, <2>6
<1>6. PICK t : t = r.timer
  OBVIOUS
<1>7. t \in cpu.queue /\ t \in Timers /\ t # None /\ t \in OfContext(x)
  BY <1>4, <1>5, <1>6, TimersAssumption DEF Due
<1>8. /\ cpu' = [cpu EXCEPT !.queue = @ \ {t}]
      /\ cur' = [cur EXCEPT ![x] = t]
  BY <1>1, <1>3, <1>6 DEF RemoveHrtimer
<1>9. /\ cpu' \in CpuBase /\ cpu'.queue \subseteq cpu.queue /\ cpu'.off = cpu.off
      /\ cpu'.hres_active = cpu.hres_active /\ cpu'.hang_detected = cpu.hang_detected
      /\ cpu'.in_hrtirq = cpu.in_hrtirq /\ cpu'.softirq_activated = cpu.softirq_activated
      /\ cpu'.expires_next = cpu.expires_next /\ cpu'.found = cpu.found /\ cpu'.event = cpu.event
      /\ cpu'.expires = cpu.expires /\ cpu'.softirq_expires_next = cpu.softirq_expires_next
  BY <1>4, <1>8 DEF CpuBase
<1>10. HETypeOK'
  <2>1. Rest(x, b) \subseteq Bases
    BY <1>1, <1>4 DEF Rest, Bases
  <2>2. todo' \in [Contexts -> SUBSET Bases]
    BY <1>1, <1>4, <2>1 DEF HETypeOK
  <2>3. QED
    BY <1>2, <1>4, <1>7, <1>8, <1>9, <2>2 DEF HETypeOK
<1>11. \A y \in Contexts : /\ at'[y] = IF y = x THEN "callback" ELSE at[y]
                           /\ cur'[y] = IF y = x THEN t ELSE cur[y]
  BY <1>2, <1>4, <1>8 DEF HETypeOK
<1>12. PlaceInv'
  BY <1>2, <1>4, <1>7, <1>9, <1>11 DEF EventInv, PlaceInv, OfContext
<1>13. OffsetInv'
  BY <1>2, <1>9 DEF EventInv, OffsetInv
<1>14. \A u : Mono(cpu', u) = Mono(cpu, u)
  BY <1>9 DEF Mono
<1>15. HardInv'
  BY <1>2, <1>4, <1>9, <1>11, <1>14 DEF EventInv, PlaceInv, HardInv, HardCovered, DeviceSet
<1>16. SoftInv'
  BY <1>2, <1>9, <1>14 DEF EventInv, SoftInv, SoftCovered
<1>17. QED
  BY <1>10, <1>12, <1>13, <1>15, <1>16 DEF EventInv

\* hrtimer_forward_now changes the expiry time of a timer that is not queued.
LEMMA ForwardKeeps ==
    ASSUME EventInv, NEW x \in Contexts, Forward(x)
    PROVE  EventInv'
<1>1. PICK t : t = cur[x]
  OBVIOUS
<1>2. PICK v : v = Forwarded(t, Time(t))
  OBVIOUS
<1>3. /\ at[x] = "callback" /\ (x = "soft" => at["hard"] = "idle")
      /\ cpu' = [cpu EXCEPT !.expires[t] = v] /\ v \in 0..(MaxExpiry + MaxOffset)
      /\ at' = [at EXCEPT ![x] = "forwarded"]
      /\ UNCHANGED <<now, offset, forward, cur, stamp, todo, entry, retries, ipi>>
  BY <1>1, <1>2 DEF Forward, Expiries, clockVars
<1>4. /\ HETypeOK /\ cpu \in CpuBase /\ cpu.queue \subseteq Timers /\ Contexts = {"hard", "soft"}
      /\ t \in Timers
  BY <1>1, <1>3, Placed DEF EventInv, PlaceInv
<1>5. /\ cpu' \in CpuBase /\ cpu'.off = cpu.off /\ cpu'.found = cpu.found
      /\ cpu'.hres_active = cpu.hres_active /\ cpu'.hang_detected = cpu.hang_detected
      /\ cpu'.in_hrtirq = cpu.in_hrtirq /\ cpu'.softirq_activated = cpu.softirq_activated
      /\ cpu'.expires_next = cpu.expires_next
      /\ HardCovered(cpu) => HardCovered(cpu')
      /\ SoftCovered(cpu) => SoftCovered(cpu')
      /\ DeviceSet(cpu) => DeviceSet(cpu')
  <2>1. CASE t \in cpu.queue
    <3>1. v = cpu.expires[t]
      BY <1>2, <2>1 DEF Forwarded
    <3>2. cpu' = cpu
      BY <1>3, <1>4, <3>1 DEF CpuBase
    <3>3. QED
      BY <1>4, <3>2
  <2>2. CASE t \notin cpu.queue
    <3>1. PICK f : f = [cpu EXCEPT !.expires[t] = v]
      OBVIOUS
    <3>2. /\ f \in CpuBase /\ f.off = cpu.off /\ f.found = cpu.found
          /\ f.hres_active = cpu.hres_active /\ f.hang_detected = cpu.hang_detected
          /\ f.in_hrtirq = cpu.in_hrtirq /\ f.softirq_activated = cpu.softirq_activated
          /\ f.expires_next = cpu.expires_next
          /\ HardCovered(cpu) => HardCovered(f)
          /\ SoftCovered(cpu) => SoftCovered(f)
          /\ DeviceSet(cpu) => DeviceSet(f)
      BY <1>3, <1>4, <2>2, <3>1, GoneExpiry
    <3>3. QED
      BY <1>3, <3>1, <3>2
  <2>3. QED
    BY <2>1, <2>2
<1>6. HETypeOK'
  BY <1>3, <1>4, <1>5 DEF HETypeOK
<1>7. \A y \in Contexts : at'[y] = IF y = x THEN "forwarded" ELSE at[y]
  BY <1>3, <1>4 DEF HETypeOK
<1>8. PlaceInv' /\ OffsetInv'
  BY <1>3, <1>4, <1>5, <1>7 DEF EventInv, PlaceInv, OffsetInv
<1>9. HardInv'
  BY <1>3, <1>4, <1>5, <1>7 DEF EventInv, HardInv, HardCovered, DeviceSet
<1>10. SoftInv'
  BY <1>3, <1>5 DEF EventInv, SoftInv, SoftCovered
<1>11. QED
  BY <1>6, <1>8, <1>9, <1>10 DEF EventInv

\* A restarted timer is queued by the interrupt or the softirq that will look for the next.
LEMMA CallbackEndKeeps ==
    ASSUME EventInv, NEW x \in Contexts, CallbackEnd(x)
    PROVE  EventInv'
<1>1. PICK t : t = cur[x]
  OBVIOUS
<1>2. /\ at[x] \in {"callback", "forwarded"} /\ (x = "soft" => at["hard"] = "idle")
      /\ cpu' = IF at[x] = "forwarded" THEN Enqueue(cpu, t) ELSE Forgotten(cpu, t)
      /\ cur' = [cur EXCEPT ![x] = None] /\ at' = [at EXCEPT ![x] = "run"]
      /\ UNCHANGED <<now, offset, forward, stamp, todo, entry, retries, ipi>>
  BY <1>1 DEF CallbackEnd, clockVars
<1>3. /\ HETypeOK /\ cpu \in CpuBase /\ cpu.queue \subseteq Timers /\ Contexts = {"hard", "soft"}
      /\ t \in Timers /\ t \in OfContext(x)
  BY <1>1, <1>2, Placed DEF EventInv, PlaceInv
<1>4. /\ cpu' \in CpuBase /\ cpu'.off = cpu.off /\ cpu'.found = cpu.found
      /\ cpu'.hres_active = cpu.hres_active /\ cpu'.hang_detected = cpu.hang_detected
      /\ cpu'.in_hrtirq = cpu.in_hrtirq /\ cpu'.softirq_activated = cpu.softirq_activated
      /\ cpu'.expires_next = cpu.expires_next /\ cpu'.event = cpu.event
      /\ x = "soft" /\ HardCovered(cpu) => HardCovered(cpu')
      /\ x = "hard" /\ SoftCovered(cpu) => SoftCovered(cpu')
  <2>1. CASE at[x] = "forwarded"
    <3>1. cpu' = [cpu EXCEPT !.queue = @ \cup {t}]
      BY <1>2, <2>1 DEF Enqueue
    <3>2. /\ cpu' \in CpuBase /\ cpu'.off = cpu.off /\ cpu'.found = cpu.found
          /\ cpu'.hres_active = cpu.hres_active /\ cpu'.hang_detected = cpu.hang_detected
          /\ cpu'.in_hrtirq = cpu.in_hrtirq /\ cpu'.softirq_activated = cpu.softirq_activated
          /\ cpu'.expires_next = cpu.expires_next /\ cpu'.event = cpu.event
          /\ cpu'.queue = cpu.queue \cup {t} /\ cpu'.expires = cpu.expires
          /\ cpu'.softirq_expires_next = cpu.softirq_expires_next
      BY <1>3, <3>1 DEF CpuBase
    <3>3. \A u : Mono(cpu', u) = Mono(cpu, u)
      BY <3>2 DEF Mono
    <3>4. x = "soft" /\ HardCovered(cpu) => HardCovered(cpu')
      BY <1>3, <3>2, <3>3 DEF HardCovered, OfContext
    <3>5. x = "hard" /\ SoftCovered(cpu) => SoftCovered(cpu')
      BY <1>3, <3>2, <3>3 DEF SoftCovered, OfContext
    <3>6. QED
      BY <3>2, <3>4, <3>5
  <2>2. CASE at[x] # "forwarded" /\ t \in cpu.queue
    BY <1>2, <1>3, <2>2 DEF Forgotten
  <2>3. CASE at[x] # "forwarded" /\ t \notin cpu.queue
    <3>1. PICK f : f = [cpu EXCEPT !.expires[t] = 0]
      OBVIOUS
    <3>2. 0 \in 0..(MaxExpiry + MaxOffset)
      BY Times
    <3>3. /\ f \in CpuBase /\ f.off = cpu.off /\ f.found = cpu.found
          /\ f.hres_active = cpu.hres_active /\ f.hang_detected = cpu.hang_detected
          /\ f.in_hrtirq = cpu.in_hrtirq /\ f.softirq_activated = cpu.softirq_activated
          /\ f.expires_next = cpu.expires_next /\ f.event = cpu.event
          /\ HardCovered(cpu) => HardCovered(f)
          /\ SoftCovered(cpu) => SoftCovered(f)
      BY <1>3, <2>3, <3>1, <3>2, GoneExpiry
    <3>4. cpu' = f
      BY <1>2, <2>3, <3>1 DEF Forgotten
    <3>5. QED
      BY <3>3, <3>4
  <2>4. QED
    BY <2>1, <2>2, <2>3
<1>5. HETypeOK'
  BY <1>2, <1>3, <1>4 DEF HETypeOK
<1>6. \A y \in Contexts : /\ at'[y] = IF y = x THEN "run" ELSE at[y]
                          /\ cur'[y] = IF y = x THEN None ELSE cur[y]
  BY <1>2, <1>3 DEF HETypeOK
<1>7. PlaceInv' /\ OffsetInv'
  BY <1>2, <1>3, <1>4, <1>6 DEF EventInv, PlaceInv, OffsetInv
<1>8. HardInv'
  BY <1>2, <1>3, <1>4, <1>6 DEF EventInv, PlaceInv, HardInv, HardCovered, DeviceSet
<1>9. SoftInv'
  <2>1. x = "soft" => cpu.softirq_activated
    BY <1>2, Placed
  <2>2. QED
    BY <1>2, <1>3, <1>4, <2>1 DEF EventInv, SoftInv, SoftCovered
<1>10. QED
  BY <1>5, <1>7, <1>8, <1>9 DEF EventInv

\* A pass of the interrupt begins with the present offset and raises the softirq in time.
LEMMA PassBegins ==
    ASSUME EventInv, NEW c \in CpuBase, c.off = offset, SoftCovered(c),
           NEW f, f = InterruptPass(c)
    PROVE  /\ f \in CpuBase /\ f.off = offset /\ f.in_hrtirq
           /\ f.hres_active = c.hres_active /\ f.hang_detected = c.hang_detected
           /\ (c.softirq_activated => f.softirq_activated) /\ SoftCovered(f)
<1>1. PICK d : d = [c EXCEPT !.in_hrtirq = TRUE, !.expires_next = Never]
  OBVIOUS
<1>2. /\ d \in CpuBase /\ d.off = c.off /\ d.in_hrtirq /\ d.queue = c.queue /\ d.expires = c.expires
      /\ d.hres_active = c.hres_active /\ d.hang_detected = c.hang_detected
      /\ d.softirq_activated = c.softirq_activated
      /\ d.softirq_expires_next = c.softirq_expires_next
  BY <1>1, NeverIsTime DEF CpuBase
<1>3. SoftCovered(d)
  BY <1>2 DEF SoftCovered, Mono
<1>4. f = RaiseSoftirq(d, now)
  BY <1>1 DEF InterruptPass
<1>5. QED
  BY <1>2, <1>3, <1>4, SoftirqRaised

\* The pass of the interrupt, first and repeated.
LEMMA PassKeeps ==
    ASSUME EventInv, cpu.hres_active, at["hard"] \in {"idle", "adopted", "program"},
           NEW c \in CpuBase, c.off = offset, SoftCovered(c),
           c.hres_active, c.softirq_activated = cpu.softirq_activated,
           cpu' = InterruptPass(c), Pass("hard", cpu', now), entry' \in 0..now, retries' \in 0..2,
           UNCHANGED <<now, offset, forward, cur, ipi>>
    PROVE  EventInv'
<1>1. PICK f : f = InterruptPass(c)
  OBVIOUS
<1>2. /\ f \in CpuBase /\ f.off = offset /\ f.in_hrtirq
      /\ f.hres_active = c.hres_active /\ f.hang_detected = c.hang_detected
      /\ (c.softirq_activated => f.softirq_activated) /\ SoftCovered(f)
  BY <1>1, PassBegins
<1>3. cpu' = f
  BY <1>1
<1>4. /\ at' = [at EXCEPT !["hard"] = "run"] /\ stamp' = [stamp EXCEPT !["hard"] = now]
      /\ todo' = [todo EXCEPT !["hard"] = Active(cpu', "hard")]
      /\ Active(cpu', "hard") \subseteq Bases
  BY DEF Pass, Active
<1>5. HETypeOK /\ Contexts = {"hard", "soft"} /\ now \in 0..Horizon
  BY Placed DEF EventInv
<1>6. HETypeOK'
  BY <1>2, <1>3, <1>4, <1>5 DEF HETypeOK
<1>7. at'["hard"] = "run" /\ at'["soft"] = at["soft"]
  BY <1>4, <1>5 DEF HETypeOK
<1>8. PlaceInv'
  BY <1>2, <1>3, <1>5, <1>7 DEF EventInv, PlaceInv
<1>9. OffsetInv'
  <2>1. offset \in Int
    BY <1>5, Times DEF HETypeOK
  <2>2. QED
    BY <1>2, <1>3, <2>1 DEF OffsetInv
<1>10. HardInv'
  BY <1>2, <1>3 DEF HardInv
<1>11. SoftInv'
  BY <1>2, <1>3 DEF SoftInv, SoftCovered
<1>12. QED
  BY <1>6, <1>8, <1>9, <1>10, <1>11 DEF EventInv

\* The offset is copied before the pass.
LEMMA OffsetCopied ==
    ASSUME EventInv, NEW d, d = UpdateBase(cpu)
    PROVE  /\ d \in CpuBase /\ d.off = offset /\ d.found = cpu.found
           /\ d.hres_active = cpu.hres_active /\ d.hang_detected = cpu.hang_detected
           /\ d.in_hrtirq = cpu.in_hrtirq /\ d.softirq_activated = cpu.softirq_activated
           /\ d.expires_next = cpu.expires_next /\ d.event = cpu.event
           /\ SoftCovered(d)
           /\ cpu.hres_active /\ ~ipi /\ HardCovered(cpu) => HardCovered(d)
           /\ DeviceSet(cpu) => DeviceSet(d)
BY Placed, BaseUpdated DEF EventInv, OffsetInv, SoftInv

\* The interrupt begins its first pass.
LEMMA InterruptKeeps ==
    ASSUME EventInv, HrtimerInterrupt
    PROVE  EventInv'
<1>1. PICK d : d = UpdateBase(cpu)
  OBVIOUS
<1>2. PICK c : c = [d EXCEPT !.event = Never]
  OBVIOUS
<1>3. /\ d \in CpuBase /\ d.off = offset /\ d.hres_active = cpu.hres_active
      /\ d.softirq_activated = cpu.softirq_activated /\ SoftCovered(d)
  BY <1>1, OffsetCopied
<1>4. /\ c \in CpuBase /\ c.off = d.off /\ c.hres_active = d.hres_active
      /\ c.softirq_activated = d.softirq_activated /\ c.queue = d.queue
      /\ c.expires = d.expires /\ c.softirq_expires_next = d.softirq_expires_next
  BY <1>2, <1>3, Times DEF CpuBase
<1>5. SoftCovered(c)
  BY <1>3, <1>4 DEF SoftCovered, Mono
<1>6. /\ cpu.hres_active /\ at["hard"] \in {"idle", "adopted"}
      /\ cpu' = InterruptPass(c) /\ Pass("hard", cpu', now) /\ entry' = now /\ retries' = 0
      /\ UNCHANGED <<now, offset, forward, cur, ipi>>
  BY <1>1, <1>2 DEF HrtimerInterrupt, InterruptsOn, clockVars
<1>7. entry' \in 0..now /\ retries' \in 0..2
  BY <1>6, Placed
<1>8. c.off = offset /\ c.hres_active /\ c.softirq_activated = cpu.softirq_activated
      /\ at["hard"] \in {"idle", "adopted", "program"}
  BY <1>3, <1>4, <1>6
<1>9. QED
  BY <1>4, <1>5, <1>6, <1>7, <1>8, PassKeeps

\* The interrupt begins another pass.
LEMMA RetryKeeps ==
    ASSUME EventInv, Retry
    PROVE  EventInv'
<1>1. PICK d : d = UpdateBase(cpu)
  OBVIOUS
<1>2. /\ d \in CpuBase /\ d.off = offset /\ d.hres_active = cpu.hres_active
      /\ d.softirq_activated = cpu.softirq_activated /\ SoftCovered(d)
  BY <1>1, OffsetCopied
<1>3. /\ at["hard"] = "program" /\ retries' = retries + 1 /\ retries < 2
      /\ cpu' = InterruptPass(d) /\ Pass("hard", cpu', now) /\ entry' = entry
      /\ UNCHANGED <<now, offset, forward, cur, ipi>>
  BY <1>1 DEF Retry, clockVars
<1>4. cpu.hres_active /\ entry' \in 0..now /\ retries' \in 0..2
  BY <1>3 DEF EventInv, PlaceInv, HETypeOK
<1>5. QED
  BY <1>2, <1>3, <1>4, PassKeeps

\* The end of a pass: what is stored is not later than any hard timer.
LEMMA ReevaluateKeeps ==
    ASSUME EventInv, Reevaluate
    PROVE  EventInv'
<1>1. PICK g : g = GetNextEvent(cpu, Contexts)
  OBVIOUS
<1>2. /\ cpu' = [g EXCEPT !.expires_next = g.found, !.in_hrtirq = FALSE]
      /\ at["hard"] = "run" /\ cpu.in_hrtirq /\ at' = [at EXCEPT !["hard"] = "program"]
      /\ UNCHANGED <<now, offset, forward, cur, stamp, todo, entry, retries, ipi>>
  BY <1>1 DEF Reevaluate, PassDone, MayRun, clockVars
<1>3. HETypeOK /\ cpu \in CpuBase /\ Contexts = {"hard", "soft"}
  BY Placed DEF EventInv
<1>4. /\ Keeps(cpu, g) /\ g.softirq_expires_next = cpu.softirq_expires_next
      /\ \A t \in cpu.queue \ Soft : g.found <= Larger(Mono(cpu, t), 0)
  <2>1. "hard" \in Contexts
    BY <1>3
  <2>2. QED
    BY <1>1, <1>3, <2>1, NextEvent
<1>5. /\ cpu' \in CpuBase /\ cpu'.off = cpu.off /\ ~cpu'.in_hrtirq
      /\ cpu'.queue = cpu.queue /\ cpu'.expires = cpu.expires
      /\ cpu'.hres_active = cpu.hres_active /\ cpu'.hang_detected = cpu.hang_detected
      /\ cpu'.softirq_activated = cpu.softirq_activated
      /\ cpu'.expires_next = g.found /\ cpu'.found = g.found
      /\ cpu'.softirq_expires_next = cpu.softirq_expires_next
  BY <1>2, <1>4 DEF Keeps, CpuBase
<1>6. \A u : Mono(cpu', u) = Mono(cpu, u)
  BY <1>5 DEF Mono
<1>7. HETypeOK'
  BY <1>2, <1>3, <1>5 DEF HETypeOK
<1>8. at'["hard"] = "program" /\ at'["soft"] = at["soft"]
  BY <1>2, <1>3 DEF HETypeOK
<1>9. PlaceInv' /\ OffsetInv'
  BY <1>2, <1>3, <1>5, <1>8 DEF EventInv, PlaceInv, OffsetInv
<1>10. HardInv'
  BY <1>4, <1>5, <1>6, <1>8 DEF HardInv, HardCovered
<1>11. SoftInv'
  BY <1>2, <1>5, <1>6 DEF EventInv, SoftInv, SoftCovered
<1>12. QED
  BY <1>7, <1>9, <1>10, <1>11 DEF EventInv

\* A context that has left is idle and its locals are types.
LEMMA Left ==
    ASSUME EventInv, NEW x \in Contexts, Leave(x)
    PROVE  /\ at' \in [Contexts -> {"idle", "adopted", "run", "callback", "forwarded", "program"}]
           /\ stamp' \in [Contexts -> 0..Horizon] /\ todo' \in [Contexts -> SUBSET Bases]
           /\ retries' \in 0..2 /\ entry' \in 0..now
           /\ \A y \in Contexts : at'[y] = IF y = x THEN "idle" ELSE at[y]
<1>1. 0 \in 0..Horizon /\ now \in Nat /\ entry \in 0..now
  BY Times, Placed DEF EventInv, PlaceInv
<1>2. QED
  BY <1>1 DEF Leave, EventInv, HETypeOK

\* The device takes the event, or after three passes a short pause.
LEMMA ProgramKeeps ==
    ASSUME EventInv, ProgramNext \/ Hang
    PROVE  EventInv'
<1>1. PICK d : d = UpdateBase(cpu)
  OBVIOUS
<1>2. /\ d \in CpuBase /\ d.off = offset
      /\ d.hres_active = cpu.hres_active
      /\ d.in_hrtirq = cpu.in_hrtirq /\ d.softirq_activated = cpu.softirq_activated
      /\ d.expires_next = cpu.expires_next
      /\ SoftCovered(d)
      /\ cpu.hres_active /\ ~ipi /\ HardCovered(cpu) => HardCovered(d)
  BY <1>1, OffsetCopied
<1>3. /\ HETypeOK /\ cpu \in CpuBase /\ Contexts = {"hard", "soft"} /\ now \in 0..Horizon
      /\ entry \in 0..now
  BY Placed DEF EventInv, PlaceInv
<1>4. /\ at["hard"] = "program" /\ Leave("hard")
      /\ UNCHANGED <<now, offset, forward, cur, ipi>>
  BY DEF ProgramNext, Hang, clockVars
<1>5. /\ cpu.hres_active /\ ~cpu.in_hrtirq /\ cpu.found = cpu.expires_next
      /\ SoftCovered(cpu) /\ (~ipi => HardCovered(cpu))
  BY <1>4 DEF EventInv, PlaceInv, HardInv, SoftInv
<1>6. /\ cpu' \in CpuBase
      /\ cpu'.off = offset \/ cpu'.off = cpu.off
      /\ cpu'.hres_active /\ ~cpu'.in_hrtirq
      /\ cpu'.softirq_activated = cpu.softirq_activated
      /\ SoftCovered(cpu') /\ (~ipi => HardCovered(cpu')) /\ DeviceSet(cpu')
  <2>1. CASE ProgramNext
    <3>1. cpu' = [cpu EXCEPT !.event = cpu.found, !.hang_detected = FALSE, !.found = Never]
          /\ cpu.found > now
      BY <2>1 DEF ProgramNext
    <3>2. /\ cpu' \in CpuBase /\ cpu'.off = cpu.off /\ cpu'.hres_active /\ ~cpu'.in_hrtirq
          /\ cpu'.softirq_activated = cpu.softirq_activated /\ cpu'.queue = cpu.queue
          /\ cpu'.expires = cpu.expires /\ cpu'.softirq_expires_next = cpu.softirq_expires_next
          /\ cpu'.expires_next = cpu.expires_next /\ cpu'.event = cpu.found /\ ~cpu'.hang_detected
      BY <1>3, <1>5, <3>1, NeverIsTime DEF CpuBase
    <3>3. \A u : Mono(cpu', u) = Mono(cpu, u)
      BY <3>2 DEF Mono
    <3>4. cpu.found \in Int /\ now \in Int
      BY <1>3, Placed, Times
    <3>5. DeviceSet(cpu')
      BY <1>5, <3>1, <3>2, <3>4 DEF DeviceSet, Larger
    <3>6. SoftCovered(cpu') /\ (~ipi => HardCovered(cpu'))
      BY <1>5, <3>2, <3>3 DEF SoftCovered, HardCovered
    <3>7. QED
      BY <3>2, <3>5, <3>6
  <2>2. CASE Hang
    <3> DEFINE v == Smaller(Horizon, now + Smaller(HangLimit, now - entry))
    <3>1. cpu' = [d EXCEPT !.hang_detected = TRUE, !.found = Never, !.event = v]
      BY <1>1, <2>2 DEF Hang
    <3>2. v \in 0..Never /\ v <= now + HangLimit
      BY <1>3, Times DEF Smaller, HangLimit
    <3> HIDE DEF v
    <3>3. /\ cpu' \in CpuBase /\ cpu'.off = d.off /\ cpu'.hres_active /\ ~cpu'.in_hrtirq
          /\ cpu'.softirq_activated = cpu.softirq_activated /\ cpu'.queue = d.queue
          /\ cpu'.expires = d.expires /\ cpu'.softirq_expires_next = d.softirq_expires_next
          /\ cpu'.expires_next = d.expires_next /\ cpu'.event = v /\ cpu'.hang_detected
      BY <1>2, <1>5, <3>1, <3>2, NeverIsTime DEF CpuBase
    <3>4. \A u : Mono(cpu', u) = Mono(d, u)
      BY <3>3 DEF Mono
    <3>5. DeviceSet(cpu')
      BY <3>2, <3>3 DEF DeviceSet
    <3>6. SoftCovered(cpu') /\ (~ipi => HardCovered(cpu'))
      BY <1>2, <1>5, <3>3, <3>4 DEF SoftCovered, HardCovered
    <3>7. QED
      BY <1>2, <3>3, <3>5, <3>6
  <2>3. QED
    BY <2>1, <2>2
<1>7. /\ at' \in [Contexts -> {"idle", "adopted", "run", "callback", "forwarded", "program"}]
      /\ stamp' \in [Contexts -> 0..Horizon] /\ todo' \in [Contexts -> SUBSET Bases]
      /\ retries' \in 0..2 /\ entry' \in 0..now
      /\ \A y \in Contexts : at'[y] = IF y = "hard" THEN "idle" ELSE at[y]
  BY <1>3, <1>4, Left
<1>8. cpu' \in CpuBase /\ (cpu'.off = offset \/ cpu'.off = cpu.off)
  BY <1>6
<1>9. HETypeOK'
  BY <1>3, <1>4, <1>6, <1>7, <1>8 DEF HETypeOK
<1>10. PlaceInv'
  BY <1>3, <1>4, <1>6, <1>7 DEF EventInv, PlaceInv
<1>11. OffsetInv'
  <2>1. offset \in Int
    BY <1>3, Times DEF HETypeOK
  <2>2. QED
    BY <1>4, <1>5, <1>8, <2>1 DEF EventInv, OffsetInv
<1>12. HardInv' /\ SoftInv'
  BY <1>4, <1>6 DEF HardInv, HardCovered, DeviceSet, SoftInv, SoftCovered
<1>13. QED
  BY <1>9, <1>10, <1>11, <1>12 DEF EventInv

\* Without high resolution the interrupt ends and programs nothing.
LEMMA PollEndKeeps ==
    ASSUME EventInv, NoPeek \/ RunQueuesDone
    PROVE  EventInv'
<1>1. /\ at["hard"] \in {"run", "adopted"} /\ Leave("hard")
      /\ UNCHANGED <<now, offset, forward, cpu, cur, ipi>>
  BY DEF NoPeek, RunQueuesDone, PassDone, MayRun, clockVars
<1>2. ~cpu.hres_active
  BY DEF NoPeek, RunQueuesDone, PassDone, MayRun, EventInv, PlaceInv
<1>3. HETypeOK /\ Contexts = {"hard", "soft"}
  BY Placed DEF EventInv
<1>4. /\ at' \in [Contexts -> {"idle", "adopted", "run", "callback", "forwarded", "program"}]
      /\ stamp' \in [Contexts -> 0..Horizon] /\ todo' \in [Contexts -> SUBSET Bases]
      /\ retries' \in 0..2 /\ entry' \in 0..now
      /\ \A y \in Contexts : at'[y] = IF y = "hard" THEN "idle" ELSE at[y]
  BY <1>1, <1>3, Left
<1>5. HETypeOK'
  BY <1>1, <1>3, <1>4 DEF HETypeOK
<1>6. PlaceInv'
  BY <1>1, <1>2, <1>3, <1>4 DEF EventInv, PlaceInv
<1>7. OffsetInv' /\ HardInv' /\ SoftInv'
  BY <1>1, <1>2 DEF EventInv, OffsetInv, HardInv, SoftInv, SoftCovered
<1>8. QED
  BY <1>5, <1>6, <1>7 DEF EventInv

\* The tick polls the queues.
LEMMA RunQueuesKeeps ==
    ASSUME EventInv, RunQueues
    PROVE  EventInv'
<1>1. PICK d : d = UpdateBase(cpu)
  OBVIOUS
<1>2. PICK f : f = RaiseSoftirq(d, now)
  OBVIOUS
<1>3. /\ d \in CpuBase /\ d.off = offset /\ d.hres_active = cpu.hres_active
      /\ d.in_hrtirq = cpu.in_hrtirq /\ d.hang_detected = cpu.hang_detected
      /\ d.softirq_activated = cpu.softirq_activated /\ SoftCovered(d)
  BY <1>1, OffsetCopied
<1>4. /\ f \in CpuBase /\ f.off = d.off /\ f.hres_active = d.hres_active
      /\ f.in_hrtirq = d.in_hrtirq /\ f.hang_detected = d.hang_detected
      /\ (d.softirq_activated => f.softirq_activated) /\ SoftCovered(f)
  BY <1>2, <1>3, SoftirqRaised
<1>5. /\ ~cpu.hres_active /\ at["hard"] = "idle" /\ cpu' = f
      /\ at' = [at EXCEPT !["hard"] = "run"] /\ stamp' = [stamp EXCEPT !["hard"] = now]
      /\ todo' = [todo EXCEPT !["hard"] = Active(cpu', "hard")]
      /\ UNCHANGED <<now, offset, forward, cur, entry, retries, ipi>>
  BY <1>1, <1>2 DEF RunQueues, Pass, InterruptsOn, clockVars
<1>6. HETypeOK /\ Contexts = {"hard", "soft"} /\ Active(cpu', "hard") \subseteq Bases
  BY Placed DEF EventInv, Active
<1>7. HETypeOK'
  BY <1>3, <1>4, <1>5, <1>6 DEF HETypeOK
<1>8. at'["hard"] = "run" /\ at'["soft"] = at["soft"]
  BY <1>5, <1>6 DEF HETypeOK
<1>9. PlaceInv'
  BY <1>3, <1>4, <1>5, <1>6, <1>8 DEF EventInv, PlaceInv
<1>10. OffsetInv'
  <2>1. offset \in Int
    BY <1>6, Times DEF HETypeOK
  <2>2. QED
    BY <1>3, <1>4, <1>5, <2>1 DEF OffsetInv
<1>11. HardInv' /\ SoftInv'
  BY <1>3, <1>4, <1>5 DEF HardInv, SoftInv, SoftCovered
<1>12. QED
  BY <1>7, <1>9, <1>10, <1>11 DEF EventInv

\* The softirq begins: it copies the offset, as the interrupt does.
LEMMA RunSoftirqKeeps ==
    ASSUME EventInv, RunSoftirq
    PROVE  EventInv'
<1>1. PICK d : d = UpdateBase(cpu)
  OBVIOUS
<1>2. /\ d \in CpuBase /\ d.off = offset /\ d.found = cpu.found
      /\ d.hres_active = cpu.hres_active /\ d.in_hrtirq = cpu.in_hrtirq
      /\ d.hang_detected = cpu.hang_detected
      /\ d.softirq_activated = cpu.softirq_activated /\ d.expires_next = cpu.expires_next
      /\ SoftCovered(d)
      /\ cpu.hres_active /\ ~ipi /\ HardCovered(cpu) => HardCovered(d)
      /\ DeviceSet(cpu) => DeviceSet(d)
  BY <1>1, OffsetCopied
<1>3. /\ cpu.softirq_activated /\ at["hard"] = "idle" /\ at["soft"] = "idle" /\ cpu' = d
      /\ at' = [at EXCEPT !["soft"] = "run"] /\ stamp' = [stamp EXCEPT !["soft"] = now]
      /\ todo' = [todo EXCEPT !["soft"] = Active(cpu', "soft")]
      /\ UNCHANGED <<now, offset, forward, cur, entry, retries, ipi>>
  BY <1>1 DEF RunSoftirq, Pass, InterruptsOn, clockVars
<1>4. HETypeOK /\ Contexts = {"hard", "soft"} /\ Active(cpu', "soft") \subseteq Bases
  BY Placed DEF EventInv, Active
<1>5. HETypeOK'
  BY <1>2, <1>3, <1>4 DEF HETypeOK
<1>6. at'["soft"] = "run" /\ at'["hard"] = "idle"
  BY <1>3, <1>4 DEF HETypeOK
<1>7. PlaceInv'
  BY <1>2, <1>3, <1>4, <1>6 DEF EventInv, PlaceInv
<1>8. OffsetInv'
  <2>1. offset \in Int
    BY <1>4, Times DEF HETypeOK
  <2>2. QED
    BY <1>2, <1>3, <2>1 DEF OffsetInv
<1>9. HardInv' /\ SoftInv'
  BY <1>2, <1>3, <1>6 DEF EventInv, HardInv, HardCovered, DeviceSet, SoftInv, SoftCovered
<1>10. QED
  BY <1>5, <1>7, <1>8, <1>9 DEF EventInv

\* It ends, and looks for the next soft timer.
LEMMA SoftirqDoneKeeps ==
    ASSUME EventInv, RunSoftirqDone
    PROVE  EventInv'
<1>1. PICK c : c = [cpu EXCEPT !.softirq_activated = FALSE]
  OBVIOUS
<1>2. PICK f : f = UpdateSoftirqTimer(c, TRUE)
  OBVIOUS
<1>3. HETypeOK /\ cpu \in CpuBase /\ Contexts = {"hard", "soft"}
  BY Placed DEF EventInv
<1>4. /\ c \in CpuBase /\ c.queue = cpu.queue /\ c.expires = cpu.expires /\ c.off = cpu.off
      /\ c.hres_active = cpu.hres_active /\ c.hang_detected = cpu.hang_detected
      /\ c.in_hrtirq = cpu.in_hrtirq /\ c.expires_next = cpu.expires_next
      /\ c.event = cpu.event /\ ~c.softirq_activated
  BY <1>1, <1>3 DEF CpuBase
<1>5. \A u : Mono(c, u) = Mono(cpu, u)
  BY <1>4 DEF Mono
<1>6. /\ Keeps(c, f) /\ f.expires_next <= c.expires_next /\ SoftCovered(f)
      /\ c.hres_active /\ DeviceSet(c) => DeviceSet(f)
  BY <1>2, <1>3, <1>4, SoftirqUpdated
<1>7. /\ f \in CpuBase /\ f.queue = cpu.queue /\ f.off = cpu.off
      /\ f.hres_active = cpu.hres_active /\ f.hang_detected = cpu.hang_detected
      /\ f.in_hrtirq = cpu.in_hrtirq /\ f.expires_next <= cpu.expires_next
      /\ \A u : Mono(f, u) = Mono(cpu, u)
  BY <1>4, <1>5, <1>6, KeptMono DEF Keeps
<1>8. /\ cpu' = f /\ at["soft"] = "run" /\ at["hard"] = "idle" /\ Leave("soft")
      /\ UNCHANGED <<now, offset, forward, cur, ipi>>
  BY <1>1, <1>2 DEF RunSoftirqDone, PassDone, MayRun, clockVars
<1>9. /\ at' \in [Contexts -> {"idle", "adopted", "run", "callback", "forwarded", "program"}]
      /\ stamp' \in [Contexts -> 0..Horizon] /\ todo' \in [Contexts -> SUBSET Bases]
      /\ retries' \in 0..2 /\ entry' \in 0..now
      /\ \A y \in Contexts : at'[y] = IF y = "soft" THEN "idle" ELSE at[y]
  BY <1>3, <1>8, Left
<1>10. HETypeOK'
  BY <1>3, <1>7, <1>8, <1>9 DEF HETypeOK
<1>11. PlaceInv' /\ OffsetInv'
  BY <1>3, <1>7, <1>8, <1>9 DEF EventInv, PlaceInv, OffsetInv
<1>12. HardInv'
  <2> SUFFICES ASSUME cpu.hres_active, ~cpu.in_hrtirq
               PROVE  /\ ~ipi => HardCovered(f)
                      /\ DeviceSet(f)
    BY <1>7, <1>8 DEF HardInv, HardCovered, DeviceSet
  <2>1. DeviceSet(cpu) /\ (~ipi => HardCovered(cpu))
    BY <1>8 DEF EventInv, HardInv
  <2>2. DeviceSet(f)
    BY <1>4, <1>6, <2>1 DEF DeviceSet
  <2>3. HardCovered(cpu) => HardCovered(f)
    <3> SUFFICES ASSUME HardCovered(cpu), NEW u \in cpu.queue \ Soft
                 PROVE  f.expires_next <= Larger(Mono(cpu, u), 0)
      BY <1>7 DEF HardCovered
    <3>1. cpu.expires_next <= Larger(Mono(cpu, u), 0)
      BY DEF HardCovered
    <3>2. u \in Timers
      BY Placed
    <3>3. Larger(Mono(cpu, u), 0) \in Int
      BY <1>3, <3>2, MonoType DEF Larger
    <3>4. f.expires_next \in Int /\ cpu.expires_next \in Int
      BY <1>3, <1>7, Times DEF CpuBase
    <3>5. QED
      BY <1>7, <3>1, <3>3, <3>4, Transitive
  <2>4. QED
    BY <2>1, <2>2, <2>3
<1>13. SoftInv'
  BY <1>6, <1>8 DEF SoftInv, SoftCovered
<1>14. QED
  BY <1>10, <1>11, <1>12, <1>13 DEF EventInv

\* Time goes on, and what the device is programmed for is in time still.
LEMMA TickKeeps ==
    ASSUME EventInv, Tick
    PROVE  EventInv'
<1>1. /\ now' = now + 1 /\ now < Horizon
      /\ UNCHANGED <<offset, forward, cpu, at, cur, stamp, todo, entry, retries, ipi>>
  BY DEF Tick, clockVars, runVars
<1>2. now \in Nat /\ Horizon \in Nat /\ cpu.event \in Int /\ cpu.expires_next \in Int /\ entry \in 0..now
  BY Placed, Times DEF EventInv, PlaceInv
<1>3. now' \in 0..Horizon /\ entry' \in 0..now'
  BY <1>1, <1>2
<1>4. HETypeOK'
  BY <1>1, <1>3 DEF EventInv, HETypeOK
<1>5. PlaceInv'
  BY <1>1, <1>3 DEF EventInv, PlaceInv
<1>6. OffsetInv' /\ SoftInv'
  BY <1>1 DEF EventInv, OffsetInv, SoftInv, SoftCovered
<1>7. DeviceSet(cpu) => DeviceSet(cpu)'
  BY <1>1, <1>2 DEF DeviceSet, Larger, HangLimit
<1>8. HardInv'
  BY <1>1, <1>7 DEF EventInv, HardInv, HardCovered
<1>9. QED
  BY <1>4, <1>5, <1>6, <1>8 DEF EventInv

\* Every step of HrtimerEvent keeps EventInv.
LEMMA NextEventInv ==
    ASSUME EventInv, [HENext]_heVars
    PROVE  EventInv'
<1>1. CASE UNCHANGED heVars
  BY <1>1 DEF heVars, EventInv, HETypeOK, PlaceInv, OffsetInv, HardInv, HardCovered, DeviceSet,
              SoftInv, SoftCovered
<1>2. ASSUME NEW t \in Timers, NEW local \in BOOLEAN, Start(t, local) \/ Cancel(t, local)
      PROVE  EventInv'
  BY <1>2, StartKeeps, CancelKeeps
<1>3. ASSUME NEW t \in Timers, Adopt(t) PROVE EventInv'
  BY <1>3, AdoptKeeps
<1>4. CASE SetClock \/ RetriggerNextEvent \/ SwitchToHres
  BY <1>4, SetClockKeeps, RetriggerKeeps, SwitchKeeps
<1>5. ASSUME NEW x \in Contexts, Queues(x) \/ Forward(x) PROVE EventInv'
  BY <1>5, RunTimerKeeps, CallbackEndKeeps, ForwardKeeps DEF Queues
<1>6. CASE Interrupt
  BY <1>6, InterruptKeeps, PollEndKeeps, ReevaluateKeeps, ProgramKeeps, RetryKeeps, RunQueuesKeeps
  DEF Interrupt
<1>7. CASE Softirq
  BY <1>7, RunSoftirqKeeps, SoftirqDoneKeeps DEF Softirq
<1>8. CASE Tick
  BY <1>8, TickKeeps
<1>9. QED
  BY <1>1, <1>2, <1>3, <1>4, <1>5, <1>6, <1>7, <1>8 DEF HENext

\* EventInv holds in every state.
THEOREM EventInvariant == HESpec => []EventInv
BY InitEvent, NextEventInv, PTL DEF HESpec

-----------------------------------------------------------------------------
(* The theorems about HrtimerEvent.                                        *)

\* The fields of the CPU, the places of the contexts and their locals stay in their types,
\* and softirq_activated is set from the interrupt that raises the softirq until that has run
\* (hrtimer.c:1596 to 1748).
THEOREM HETypeCorrect == HESpec => []HETypeOK
<1>1. EventInv => HETypeOK
  BY DEF EventInv
<1>2. QED
  BY <1>1, EventInvariant, PTL

\* Whatever starts, cancellations, forwards, adoptions and settings of the clock follow one
\* another, the device is not programmed later than a hard timer (hrtimer.c:181).
THEOREM HardTimersInTime == HESpec => []HardInTime
<1>1. EventInv => HardInTime
  <2> SUFFICES ASSUME EventInv, cpu.hres_active, at["hard"] = "idle", ~ipi,
                      NEW t \in cpu.queue \ Soft
               PROVE  cpu.event <= Larger(Mono(cpu, t), IF cpu.hang_detected THEN now + HangLimit ELSE now)
    BY DEF HardInTime
  <2>1. HardCovered(cpu) /\ DeviceSet(cpu)
    BY DEF EventInv, PlaceInv, HardInv
  <2>2. cpu.expires_next <= Larger(Mono(cpu, t), 0)
    BY <2>1 DEF HardCovered
  <2>3. /\ cpu.event \in Int /\ cpu.expires_next \in Nat /\ now \in Nat /\ Mono(cpu, t) \in Int
    BY Placed, MonoType, Times
  <2>4. QED
    BY <2>1, <2>2, <2>3 DEF DeviceSet, Larger, HangLimit
<1>2. QED
  BY <1>1, EventInvariant, PTL

\* softirq_expires_next is not later than any soft timer, those of CLOCK_REALTIME after a
\* setting forward aside.
THEOREM SoftTimersInTime == HESpec => []SoftInTime
<1>1. EventInv => SoftInTime
  BY DEF EventInv, SoftInv, SoftCovered, SoftInTime
<1>2. QED
  BY <1>1, EventInvariant, PTL
=============================================================================
