------------------------------ MODULE Timesync ------------------------------
(***************************************************************************)
(* The driver timesync.c, which sets the system clock from a PL register   *)
(* every period, and the programs timesync-app that set the period once    *)
(* and then read samples.  The driver's code runs in four contexts: the    *)
(* system calls of the programs, the timer callback (softirq), the work    *)
(* item (kernel worker) and insmod/rmmod.  The kernel's timer, work queue  *)
(* and spin lock are external.                                             *)
(*                                                                         *)
(* A time is abstracted to a stamp: which read took it, and the clock it   *)
(* was taken from, which changes whenever the clock is set.                *)
(***************************************************************************)
EXTENDS Naturals, Sequences

CONSTANTS
  Apps,       \* slots for timesync-app processes; a slot is reused
  Periods,    \* the periods (ms) they may write; 0 stops the timer
  CanUnload   \* whether rmmod is run

ASSUME TimesyncAssumption ==
  /\ Periods \subseteq Nat
  /\ CanUnload \in BOOLEAN
  /\ "free" \notin Apps /\ "work" \notin Apps

VARIABLES
  driver,  \* "out", "in", where timesync_remove is, or "oops": the kernel faulted
  period,  \* time_period_ms
  timer,   \* whether the timer is pending
  cb,      \* where timer_function is
  queued,  \* whether sync_work is in the work queue
  worker,  \* where synctime_process is
  lock,    \* who holds dev->lock
  clock,   \* which setting of the system clock is in force (two at a time)
  read,    \* dev->read, shared by all readers
  app,     \* where each program is
  copied,  \* how many fields copy_to_user has copied for it
  got      \* what the read() in progress has given it

kernel == <<period, timer, cb, queued, worker>>
vars == <<driver, kernel, lock, clock, read, app, copied, got>>

\* The real time and handle_e_b_ns go with diff_real_b_ns.
Field == {"begin", "end", "diff"}
Fields == <<"begin", "end", "diff">>
Stamp == [by : Apps \cup {"none"}, clock : 0..1]
NoSample == [f \in Field |-> [by |-> "none", clock |-> 0]]
Here(a) == [by |-> a, clock |-> clock]

Init ==
  /\ driver = "out" /\ period = 0 /\ timer = FALSE /\ cb = "idle"
  /\ queued = FALSE /\ worker = "idle" /\ lock = "free" /\ clock = 0
  /\ read = NoSample
  /\ app = [a \in Apps |-> "closed"]
  /\ copied = [a \in Apps |-> 0]
  /\ got = [a \in Apps |-> NoSample]

Go(a, from, to) == app[a] = from /\ app' = [app EXCEPT ![a] = to]

-----------------------------------------------------------------------------
(* insmod and rmmod. *)

\* A fresh copy of the module: its static variables are zero again.  (While a
\* work of the old copy is left, WorkFaults comes first.)
Probe ==
  /\ driver = "out" /\ ~queued /\ worker = "idle"
  /\ driver' = "in"
  /\ period' = 0 /\ read' = NoSample
  /\ UNCHANGED <<timer, cb, queued, worker, lock, clock, app, copied, got>>

\* rmmod is refused while the device is open (.owner), and opening it is
\* refused from here on.
Remove ==
  /\ CanUnload /\ driver = "in" /\ \A a \in Apps : app[a] = "closed"
  /\ driver' = "del"
  /\ UNCHANGED <<kernel, lock, clock, read, app, copied, got>>

RemoveTimerNoSync ==  \* mutant: del_timer does not wait for the callback
  /\ driver = "del"
  /\ timer' = FALSE
  /\ driver' = "unmap"
  /\ UNCHANGED <<period, cb, queued, worker, lock, clock, read, app, copied, got>>

RemoveTimer ==
  /\ driver = "del" /\ cb = "idle"
  /\ timer' = FALSE
  /\ driver' = "unmap"
  /\ UNCHANGED <<period, cb, queued, worker, lock, clock, read, app, copied, got>>

Unmap ==
  /\ driver = "unmap"
  /\ driver' = "deregister"
  /\ UNCHANGED <<kernel, lock, clock, read, app, copied, got>>

\* misc_deregister; then rmmod frees the module.
Deregister ==
  /\ driver = "deregister"
  /\ driver' = "out"
  /\ UNCHANGED <<kernel, lock, clock, read, app, copied, got>>

-----------------------------------------------------------------------------
(* The timer and its callback. *)

TimerFires ==
  /\ timer /\ cb = "idle"
  /\ timer' = FALSE /\ cb' = "test"
  /\ UNCHANGED <<driver, period, queued, worker, lock, clock, read, app, copied, got>>

CallbackTestLate ==  \* mutant: a period of 1 ms is taken for "off"
  /\ cb = "test"
  /\ cb' = IF 1 < period THEN "arm" ELSE "schedule"
  /\ UNCHANGED <<driver, period, timer, queued, worker, lock, clock, read, app, copied, got>>

CallbackTest ==
  /\ cb = "test"
  /\ cb' = IF 0 < period THEN "arm" ELSE "schedule"
  /\ UNCHANGED <<driver, period, timer, queued, worker, lock, clock, read, app, copied, got>>

CallbackArm ==
  /\ cb = "arm"
  /\ timer' = TRUE /\ cb' = "schedule"
  /\ UNCHANGED <<driver, period, queued, worker, lock, clock, read, app, copied, got>>

CallbackSchedule ==
  /\ cb = "schedule"
  /\ queued' = TRUE /\ cb' = "idle"
  /\ UNCHANGED <<driver, period, timer, worker, lock, clock, read, app, copied, got>>

-----------------------------------------------------------------------------
(* synctime_process: the work is out of the queue when it starts, so it can *)
(* be queued again while it runs.                                          *)

Loaded == driver \notin {"out", "oops"}

WorkStarts ==
  /\ queued /\ worker = "idle" /\ Loaded
  /\ queued' = FALSE /\ worker' = "lock"
  /\ UNCHANGED <<driver, period, timer, cb, lock, clock, read, app, copied, got>>

WorkNoLock ==  \* mutant: the clock is set without the lock
  /\ worker = "lock" /\ Loaded
  /\ worker' = "set"
  /\ UNCHANGED <<driver, period, timer, cb, queued, lock, clock, read, app, copied, got>>

WorkLock ==
  /\ worker = "lock" /\ Loaded /\ lock = "free"
  /\ lock' = "work" /\ worker' = "set"
  /\ UNCHANGED <<driver, period, timer, cb, queued, clock, read, app, copied, got>>

\* Read the register, set the clock.
WorkSetsClock ==
  /\ worker = "set" /\ Loaded /\ driver # "deregister"
  /\ clock' = 1 - clock /\ worker' = "unlock"
  /\ UNCHANGED <<driver, period, timer, cb, queued, lock, read, app, copied, got>>

WorkUnlock ==
  /\ worker = "unlock" /\ Loaded
  /\ lock' = "free" /\ worker' = "idle"
  /\ UNCHANGED <<driver, period, timer, cb, queued, clock, read, app, copied, got>>

\* The work runs without its code, or reads the register without its mapping.
WorkFaults ==
  /\ \/ driver = "out" /\ (queued \/ worker # "idle")
     \/ driver = "deregister" /\ worker = "set"
  /\ driver' = "oops"
  /\ UNCHANGED <<kernel, lock, clock, read, app, copied, got>>

-----------------------------------------------------------------------------
(* timesync-app: open, write the period once, then read now and then. *)

Open(a) ==
  /\ driver = "in"
  /\ Go(a, "closed", "store")
  /\ UNCHANGED <<driver, kernel, lock, clock, read, copied, got>>

WriteStore(a) ==
  /\ \E p \in Periods : period' = p
  /\ Go(a, "store", "test")
  /\ UNCHANGED <<driver, timer, cb, queued, worker, lock, clock, read, copied, got>>

\* The driver tests the shared variable, not the value it was given.
WriteTest(a) ==
  /\ Go(a, "test", IF period = 0 THEN "del" ELSE "mod")
  /\ UNCHANGED <<driver, kernel, lock, clock, read, copied, got>>

WriteDelNoSync(a) ==  \* mutant: del_timer does not wait for the callback
  /\ timer' = FALSE
  /\ Go(a, "del", "idle")
  /\ UNCHANGED <<driver, period, cb, queued, worker, lock, clock, read, copied, got>>

WriteDel(a) ==
  /\ cb = "idle"
  /\ timer' = FALSE
  /\ Go(a, "del", "idle")
  /\ UNCHANGED <<driver, period, cb, queued, worker, lock, clock, read, copied, got>>

WriteMod(a) ==
  /\ timer' = TRUE
  /\ Go(a, "mod", "schedule")
  /\ UNCHANGED <<driver, period, cb, queued, worker, lock, clock, read, copied, got>>

WriteSchedule(a) ==
  /\ queued' = TRUE
  /\ Go(a, "schedule", "idle")
  /\ UNCHANGED <<driver, period, timer, cb, worker, lock, clock, read, copied, got>>

ReadBegin(a) ==
  /\ lock = "free"
  /\ lock' = a
  /\ read' = [read EXCEPT !["begin"] = Here(a)]
  /\ Go(a, "idle", "end")
  /\ UNCHANGED <<driver, kernel, clock, copied, got>>

\* diff_real_b_ns carries the stamp of the begin it is computed from.
ReadEnd(a) ==
  /\ read' = [read EXCEPT !["end"] = Here(a), !["diff"] = read["begin"]]
  /\ lock' = "free"
  /\ Go(a, "end", "copy")
  /\ UNCHANGED <<driver, kernel, clock, copied, got>>

CopyFieldTooMany(a) ==  \* mutant: the count runs past the last field
  /\ app[a] = "copy" /\ copied[a] <= Len(Fields)
  /\ got' = IF copied[a] = Len(Fields) THEN got
            ELSE LET f == Fields[copied[a] + 1] IN [got EXCEPT ![a][f] = read[f]]
  /\ copied' = [copied EXCEPT ![a] = @ + 1]
  /\ UNCHANGED <<driver, kernel, lock, clock, read, app>>

\* copy_to_user runs after the unlock, field after field.
CopyField(a) ==
  /\ app[a] = "copy" /\ copied[a] < Len(Fields)
  /\ LET f == Fields[copied[a] + 1] IN got' = [got EXCEPT ![a][f] = read[f]]
  /\ copied' = [copied EXCEPT ![a] = @ + 1]
  /\ UNCHANGED <<driver, kernel, lock, clock, read, app>>

ReadReturns(a) ==
  /\ copied[a] = Len(Fields)
  /\ copied' = [copied EXCEPT ![a] = 0]
  /\ got' = [got EXCEPT ![a] = NoSample]
  /\ Go(a, "copy", "idle")
  /\ UNCHANGED <<driver, kernel, lock, clock, read>>

\* The program ends, or app-control.sh kills it; the period stays.
Close(a) ==
  /\ Go(a, "idle", "closed")
  /\ UNCHANGED <<driver, kernel, lock, clock, read, copied, got>>

-----------------------------------------------------------------------------
Write(a) == WriteStore(a) \/ WriteTest(a) \/ WriteDel(a) \/ WriteMod(a) \/ WriteSchedule(a)
Read(a) == ReadBegin(a) \/ ReadEnd(a) \/ CopyField(a) \/ ReadReturns(a)
Callback == CallbackTest \/ CallbackArm \/ CallbackSchedule
Work == WorkStarts \/ WorkLock \/ WorkSetsClock \/ WorkUnlock \/ WorkFaults
Load == Probe \/ Remove \/ RemoveTimer \/ Unmap \/ Deregister
User(a) == Open(a) \/ Write(a) \/ Read(a) \/ Close(a)

Next == driver # "oops" /\ (TimerFires \/ Callback \/ Work \/ Load \/ \E a \in Apps : User(a))

Spec == Init /\ [][Next]_vars

(***************************************************************************)
(* The timer fires, the callback and the worker get a processor, system    *)
(* calls return, and the spin lock is a queue: whoever waits gets it.      *)
(***************************************************************************)
Fairness ==
  /\ WF_vars(TimerFires) /\ WF_vars(Callback) /\ WF_vars(Work) /\ SF_vars(WorkLock)
  /\ \A a \in Apps : /\ WF_vars(Write(a)) /\ SF_vars(WriteDel(a))
                      /\ WF_vars(app[a] # "idle" /\ Read(a))

LiveSpec == Spec /\ Fairness
-----------------------------------------------------------------------------
\* The kinds of values the state of Timesync takes.
TypeOK ==
  /\ driver \in {"out", "in", "del", "unmap", "deregister", "oops"}
  /\ period \in Periods \cup {0}
  /\ timer \in BOOLEAN /\ cb \in {"idle", "test", "arm", "schedule"}
  /\ queued \in BOOLEAN /\ worker \in {"idle", "lock", "set", "unlock"}
  /\ lock \in Apps \cup {"free", "work"} /\ clock \in 0..1
  /\ read \in [Field -> Stamp] /\ got \in [Apps -> [Field -> Stamp]]
  /\ app \in [Apps -> {"closed", "store", "test", "del", "mod", "schedule", "idle",
                        "end", "copy"}]
  /\ copied \in [Apps -> 0..Len(Fields)]

(***************************************************************************)
(* A sample is taken on one clock and its difference is of its own begin:  *)
(* the lock keeps the worker's settimeofday out of timesync_read           *)
(* (timesync.c 126-136, 199-208).                                          *)
(***************************************************************************)
OneSample(sample) ==
  sample["begin"].clock = sample["end"].clock /\ sample["diff"] = sample["begin"]

SampleOnOneClock == lock = "free" => OneSample(read)

(***************************************************************************)
(* Once timesync_remove is past del_timer_sync (line 295) no callback runs *)
(* and none will: the mapping and the code may go as far as the timer is   *)
(* concerned.                                                              *)
(***************************************************************************)
GoneIsQuiet == driver \in {"unmap", "deregister", "out"} => ~timer /\ cb = "idle"

Writing(a) == app[a] \in {"test", "del", "mod", "schedule"}

(***************************************************************************)
(* After write(0) returned, the timer is stopped, even when the callback   *)
(* had read the old period and was about to arm it (lines 149-150, 182).   *)
(***************************************************************************)
StoppedIsStopped ==
  period = 0 /\ (\A a \in Apps : ~Writing(a)) => ~timer /\ cb = "idle"

(***************************************************************************)
(* "time_period_ms: the timer's period" (line 79): between writes a        *)
(* positive period has a timer that is pending or about to be armed.       *)
(***************************************************************************)
RunningIsArmed ==
  driver = "in" /\ period > 0 /\ (\A a \in Apps : ~Writing(a)) =>
    timer \/ cb \in {"test", "arm"}

(***************************************************************************)
(* As long as the period is positive the clock is set again and again.     *)
(***************************************************************************)
SyncsKeepComing == <>[](driver = "in" /\ period > 0) => []<>(worker = "set")

(***************************************************************************)
(* What read() hands to its caller is one sample, though it is copied out  *)
(* after the unlock (line 210) and the work item may set the clock         *)
(* meanwhile.  It holds for one program: a second reader overwrites        *)
(* dev->read under the copy.                                               *)
(***************************************************************************)
ReaderGetsSample == \A a \in Apps : copied[a] = Len(Fields) => OneSample(got[a])

(***************************************************************************)
(* "timesync_remove ok" (line 302): nothing of the driver is left to run.  *)
(***************************************************************************)
RemoveIsOk == driver = "out" => ~queued /\ worker = "idle"
=============================================================================
