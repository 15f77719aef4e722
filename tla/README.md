# Verification of the sensor hub's processing-system software

This directory holds TLA+ models of the Linux side (A53) of the sensor hub: the programs,
the kernel driver, the rpmsg bus and the update and boot scripts of this repository. TLC
model-checks them on small instances and TLAPS proves the main results for every instance.
Paths below are relative to `src/project-spec/meta-user/`.

## 1. The system and its parts

The board runs Linux on the A53 cores, a firmware on an R5 core and logic in the PL. The R5
collects sensor frames and sends them to Linux as rpmsg messages; `task-data` forwards them
to a host over UDP and forwards the host's frames back. All parts share a block RAM (BRAM):
`config-parse` writes the configuration into it, each part writes its state, and `task-state`
sends that state to the host every second or so. `timesync` keeps the system clock in step with
a PL timer. At boot `autostart` starts all this and looks for a firmware archive to install.

| Part | State it keeps | Operations | Meets the others through |
|---|---|---|---|
| `tools/ota-update.sh` | files of `/boot` and `/ldc` | nine steps: unpack, check, back up, copy, clean up | the boot files; run by `autostart` and by hand |
| U-Boot script `boot.cmd.default.initrd` | byte `0x80020006` of the BRAM | three attempts at an image | the boot files; the byte goes into the state message |
| driver `timesync.c` | period, timer, work item, last samples | open, write, read, close, timer callback, work item, probe, remove | the character device, the system clock |
| `timesync-app` | its sample | set the period, then read and publish | the driver, the state BRAM |
| `task-data` | counters for each sensor and direction | main loop (up), `receive()` (down), `perf_analyse()`, SIGINT | rpmsg endpoint, UDP socket, state BRAM |
| `virtio_rpmsg_bus.c` | buffer pool, sleepers, endpoints | send, trysend, transmit interrupt, receive, create and destroy endpoints | the virtqueues shared with the R5 |
| `config-parse` | the configuration in the BRAM | zero, then set nine fields | everything that reads the BRAM |
| `task-state` | a snapshot | copy three areas, send | A53, R5 and PL state |
| `autostart`, `app-control.sh` | the configuration file | check or replace it, start and kill programs | all programs |
| `selftest.sh` | flags word in the PL | poll processes and counters | `ps`, remoteproc, PL |
| `linux-xlnx/hrtimer.c` | timers, their queues and locks per CPU, the clock event device | start, cancel, sleep, interrupt, softirq, set the clock, CPU hot-plug | every driver and sleeping program, `timesync`'s setting of the clock |
| `cam_ver.sh`, `ispota.sh` and relatives | the camera power register | power up, talk to 16 cameras, power down | one register, no lock |
| `api-cmd` (W5 protocol) | the command in hand, retries, message id, chunk numbers | connect, command, query, retry, chunk loop | frames on a serial (or I2C) line to the camera |
| `ampecho`, `ampperf` | descriptors, threads, numbered frames | set up an endpoint, send and count frames, clean up | rpmsg endpoint, `rpmsg_char` module |

`PROJECT.json` lists every part, the ones left out included; section 7 says why they are. The
repository has no tests; its README is a build note.

**What is hard here.** Power may fail in any step of an update, and the script is rerun at the
next boot over whatever is left; three threads of `task-data` and four contexts of the driver
share variables with few locks; a kernel timer is cancelled, restarted and migrated while its
callback runs; endpoints are destroyed while a message for them is delivered; senders sleep for buffers that another processor returns, with
a timeout and signals; shell idioms (`set -e` with `&&`) hide failures. `PROJECT.json` lists
each of these hazards at its line, with the property that covers it or the reason why none does.

**What makes each part correct.**

* Update and boot: the device always boots while its boot script is whole; one failure falls
  back to the previous firmware; only images with the right sum are installed; "all done"
  is true; a whole archive is installed in the end and never refused as broken; the noted image
  slot is the running one.
* Driver: a sample lies on one clock and is given to its reader whole; stopping stops, running
  keeps running; nothing runs after removal.
* `task-data`: SIGINT ends it, nothing is used after it is closed, counters are reported once,
  the state message catches up, the maximum is a maximum.
* Timers: a cancelled timer is gone, a timer has one home, and the device and the softirq are
  never late, whatever is started, cancelled, forwarded or moved.
* Configuration and state: a program takes one configuration, the operator's file survives
  power losses, and the state messages never go back.
* Sessions of `task-data`, `ampperf`, `ampecho`: each works on its own endpoint, nothing stays
  behind, a lost frame is reported, SIGINT ends them. (With exceptions, here and elsewhere, that
  the properties state and section 4 lists.)
* `api-cmd`: an acknowledgement, a message id and a result belong to the command that is waited
  for; chunks are taken in order, each once; the program ends.
* rpmsg: a FIFO channel that loses, doubles and reorders nothing; no lost wake-up; a call
  returns within its timeout even when the R5 has stopped; an endpoint lives as long as anybody
  uses it, and the callback of a closed one does not run.

## 2. Modules

| Module | Models | Checked by | Proofs |
|---|---|---|---|
| `OtaUpdate` | the update script, the boot script, the step of `autostart` | `MCOtaUpdate` | `OtaUpdate_proof` |
| `Timesync` | the driver and the calls `timesync-app` makes | `MCTimesync` | `Clock_proof` |
| `TaskData` | the threads of `task-data` | itself | `Bram_proof` |
| `RpmsgTx` | the sending half of the bus, with the R5 and the interrupt | `MCRpmsgTx` | `RpmsgTx_proof` |
| `RpmsgChannel` | the abstract FIFO channel that `RpmsgTx` implements | through `RpmsgTx` | (the refinement, in `RpmsgTx_proof`) |
| `RpmsgEndpoints` | endpoints, the receiving half and the name service | `MCRpmsgEndpoints` | `RpmsgEndpoints_proof` |
| `W5Com` | `api_cmd`, its library and a camera on a serial line or the I2C bus | `MCW5Com` | `W5Com_proof` |
| `StateBram` | the configuration file, `config-parse`, and the programs that share the BRAM | `MCStateBram` | `Bram_proof` |
| `AmpSession` | set-up, work and clean-up of the programs that use rpmsg | `MCAmpSession` | `AmpSession_proof` |
| `Hrtimer` | the locking of the kernel's timers | `MCHrtimer` | `Hrtimer_proof` |
| `HrtimerEvent` | when these timers expire | `MCHrtimerEvent` | `Clock_proof` |

A proof module with two components puts together what meets there: `Bram_proof` the programs
that write and read the block RAM, `Clock_proof` the driver that sets the clock and the timers
that follow it. So that one module can extend both, `TaskData` and `HrtimerEvent` name their
initial states, steps and specification with a prefix (`TDSpec`, `HESpec`).

The parts meet as follows. `AmpSession` opens the endpoints whose life in the bus is
`RpmsgEndpoints`; what is sent on them goes through `RpmsgTx`, and the threads that send are
those of `TaskData` (and of `AmpSession` itself). `StateBram` has the start order that
`autostart` gives all programs after the step that `OtaUpdate` has. `Hrtimer` and `HrtimerEvent`
are two views of one file, the locks and the times: the first leaves out when a timer expires,
the second who else holds a lock.

### OtaUpdate

The state is the content of the boot files as the kernel sees them (`boot`) and as they are on
the eMMC (`disk`), the upload partition (`ldc`), where the script is (`pc`), and where the boot
is (`phase`, `try`, `idx`, `running`). A file holds nothing, a part of an image, or a whole
image of one version; that is all an MD5 sum can tell. Each command of the script that changes
a file is an action, and `cp` is two, so that power can fail in the middle; `sync` is an action
of its own because until then the change is only in `boot`. `PowerLoss` picks what survives:
the last synced state, all of the unsynced changes, or these with the file being copied cut.
A failed `tar` or `cp` does not stop the script, as in the code: `set -e` ignores a command
that fails before `&&`. The three slots of an image are the file, the backup the last update
made, and the copy made at deployment, which no update touches.

External: the BootROM (first BOOT.BIN with a good header), U-Boot's search for `boot.scr`,
uploads, reboots and power.

### Timesync

One action per statement that another context can see: the driver stores the new period, tests
the shared variable again and then acts; the callback tests, arms, schedules; the work item
takes the lock, sets the clock, releases it; a read fills `dev->read` under the lock and copies
it out after the unlock, field after field. `del_timer_sync` waits for a running callback. A
time is a stamp: whose read took it and from which setting of the clock. Two settings are told
apart, which is enough because the lock admits at most one change within a sample. `rmmod` is refused
while the device is open (`.owner = THIS_MODULE`). A work item that runs after its code or its
mapping is gone leads to `"oops"`.

### TaskData

`main`, `receive()` and `perf_analyse()` share the counters without a lock; each load and store
that another thread can see is an action. There is one record per direction (`astPerfUp`,
`astPerfDown`); the sensor types are independent copies of it. `Note` may use the value read
before or read the counter a second time, since the compiler is free to do either. The failed
greeting closes the descriptors while the threads run and then ends the process.

### RpmsgTx and RpmsgChannel

A call of `rpmsg_send` or `rpmsg_trysend` goes through `get`, then `fill` and `add`, or, when it
may wait and has no buffer, `upref`, `enqueue`, `test`, `asleep`, `downref`. What runs under
`tx_lock` is one action: neither the R5 nor the interrupt takes the lock, and each section makes
one change they can see. `wait_event_interruptible_timeout` is modelled by its documented order:
join the queue, test, sleep; test again after the timeout. The R5 takes a buffer, reads it,
returns it and only then looks whether an interrupt is wanted, in four steps, and it may stop
after any of them. `RpmsgChannel` says what callers rely on: a FIFO of bounded capacity and
calls that are accepted or refused. `ImplementsChannel` is the refinement: the channel's queue is
the contents of the buffers in the available ring (and of the one being read), so a buffer that
is reused too early shows as a message that changes in the queue.

### W5Com

First the search for the camera: without a protocol on the command line `establishConnection`
tries the serial ports one by one and then the I2C bus, opening, configuring and attaching each,
and asks the camera for its state; the first port that acknowledges is taken. `proto` and `port`
say where the search is. Then three layers of one program: `api_cmd.c` sends the chunks of a command (or the commands of a
script), then asks for its result chunk by chunk; `w5_com.c` builds frames and, on connecting,
asks the camera for its sizes; `protocol_uart.c` writes a frame, reads the answer by its length,
checks it, and sends again after `NACK_CS` (a bounded number of times) or `NACK_BUSY` (without a
bound). `pc` and `call` say where the program is; `line` and `inbox` hold what is on its way in
each direction. Bytes are counted in units, one for an acknowledgement, two for the echo of a
half duplex line, three for a result, because the host reads by length and mixing lengths is
what a late answer can do to it. `accepted` is what the camera took, and its message ids are
indices into it.

External: the camera and the line. A command is lost, refused, found busy, or taken; an answer
comes whole, damaged, cut short or never; a time-out may come before any of these happens.
After any other call a time-out ends the attempt, the query or the program; after the first one,
`api_get_info`, the program goes on (`w5_com.c:277`), and the camera may still answer it. The
history variable `late` remembers that this happened on the connection in use. No guard reads it.
`OwnAck` says what the header promises of every acknowledgement; `AckIsOwn`, `ChunksInOrder` and
`OutputIsOwn` say what holds as long as `late` is not set.

Over I2C no answer is ever found good: `W5connFtdi4222Write` puts its counter of bytes on the
bus instead of the frame (`connection_ftdi4222.c:253`), and `W5connFtdi4222Read` copies what it
received over its own counter (line 208), so the check reads what `malloc` left in the buffer. The
model follows this: an I2C command fails, after the polling the code does.

Assumed: the wiring decides whether `detectDuplex` finds half or full duplex; the echo of a half
duplex line is not lost (the code would wait for it for ever); a frame that has started is not
interrupted for more than 1.1 s and then continued; the camera refuses a chunk beyond the last
(with the query specifier `max` the loop would go on otherwise) and a PENDING answer is not
marked as the last; message ids do not wrap; `read()` does not fail; the line is empty when the
program starts. `chunkNumber` in `getMaxPayloadSizeFromW5` is not initialised and is any value.

### RpmsgEndpoints

`ept` is the memory of endpoints (allocated, count, callback, owner of `cb_lock`) and `idr` the
table that finds them by address. The receive worker goes through `rpmsg_recv_single` step by
step: find under the table's lock and take a reference, take `cb_lock`, call, release, put the
reference, give the buffer back. `__rpmsg_destroy_ept` runs beside it in its three steps (out of
the table, callback cleared under `cb_lock`, reference put), for a program that closes its file,
for the worker itself when the remote withdraws the channel, and for the thread that removes the
bus. Freed memory is used again at once, so a pointer that is kept too long meets the wrong
endpoint. External: the remote, and the `rpmsg_char` driver with the lock of its file.

### StateBram

Steps 4 and 8 of `autostart` around the configuration file (compare versions, move away, copy,
parse, start the programs), `config-parse` (zero, then item after item until one cannot be read,
then the version of the state area), the start of the programs with what each takes from the
BRAM, the samples of `timesync-app` and the copies of `task-state`. A file is its version, how
many leading items can be read, and one value; integers keep the width of their field. `cp` is
two steps, so power fails in it; the test of a cut file's empty version is a syntax error of the
shell and counts as false. The operator may put in another file, run `config-parse` again, and
kill and start programs.

### AmpSession

`init_rpmsg` and `exit_rpmsg` as each program has them: `modprobe`, look for the channel, write
`driver_override`, `bind`, open the control device, create the endpoint, find its device by name,
open it; on a failure the way back from there. The kernel's side is `binding` (numbered, so that
a descriptor of an older one is told apart) and `epts`. A destroy ioctl on the control device
does nothing. The threads of `ampperf` send numbered frames and publish; its main loop compares
each number with the last. The main loop of `ampecho` is three places, the test of `loop`, the
call of `scanf`, and `scanf` waiting for a line, which only the operator (`Typed`) or a signal
ends. A failed greeting closes the descriptors while the threads run. `system()` ignores SIGINT
while it waits, so `SigInt` is not taken at `modprobe`; that Ctrl+C on a terminal also reaches the
child is left out. External: the kernel, `rpmsg_char`, the R5.

### Hrtimer

`hrtimer_start_range_ns`, `hrtimer_cancel`, `hrtimer_active`, `do_nanosleep` and
`schedule_hrtimeout_range_clock` as tasks run them, `hrtimer_interrupt` with `__run_hrtimer` on
each CPU, `hrtimer_wakeup`, and the move of the timers of a dead CPU. Every read without a lock
and every section under `cpu_base->lock` is a step; the store of `timer->base` in a migration is
two, with `migration_base` between. `base->seq` is only compared with itself, so a flag says
whether it moved. The body of `hrtimer_active` is four steps. A timer may be on the stack of a
sleeper, which is what makes a cancellation that returns too early fatal.

### HrtimerEvent

One CPU with its lock held in all but the place `run`: starts (from here and from elsewhere),
cancellations, timers adopted from a dead CPU, restarts by a callback, the three passes of
`hrtimer_interrupt` and its pause after a hang, the softirq, the setting of the clock with the
call that follows on this CPU, and the switch to high resolution. The functions that compute on
`struct hrtimer_cpu_base` (`hrtimer_reprogram`, `__hrtimer_get_next_event`,
`hrtimer_force_reprogram`, `hrtimer_update_softirq_timer`, ...) are operators on a record of its
fields. Time passes in ticks, also while a callback runs.

## 3. Runs

| Run | Specification | Instance | States | Shows |
|---|---|---|---|---|
| `ota_safety` | `Spec` | 3 archives, 2 uploads, 2 outages, `cp` may fail | 1,028,066 | fallback, one failure keeps the previous firmware, only verified images |
| `ota_install` | `LiveSpec` | 3 archives, 2 uploads, 2 outages | 103,705 | a whole archive is installed in the end, unless it meets another archive or parts of one |
| `ota_hidden` | `Spec` | no outage, `cp` may fail | violation | "all done" over a failed copy |
| `timesync` | `LiveSpec` | 1 program, periods 0 and 1, rmmod | 4,436 | one clock per sample, nothing after removal, stopping stops, running stays armed, the clock is set for ever |
| `task_threads` | `LiveSpec` | 2 frames each way, every 2nd is measured | 166,197 | order of the end, counters, SIGINT, state catches up |
| `rpmsg_tx` | `LiveSpec` | 2 senders, 2 buffers, 2 calls each, signals | 102,821 | wake-ups, FIFO refinement, calls return |
| `rpmsg_endpoints` | `Spec` | 2 users, 2 buffers, 3 messages, 2 probes | 130,370 | references, callbacks, buffers, everybody gets done |
| `w5_transfer` | `LiveSpec` | 2 ports and I2C, 2 commands, 2 chunks each, 2 units a chunk, 2 retries | 694,614 | ids, order, results, the program ends; a `late` connection is followed through its first command |
| `hrtimer_cancel` | `Spec` | 2 CPUs, 2 tasks, 1 timer, 2 events | 345,105 | cancellation, one home, no false negative, calls return |
| `hrtimer_event` | `HESpec` | 3 timers, 2 clocks, 3 operations, 1 setting | 2,580,874 | the device is in time for hard timers, the softirq for soft ones (with the exceptions of section 4) |
| `state_bram` | `Spec` | 2 files, 1 power loss, 2 acts, 1 sample | 648,011 | one configuration, no file lost, it comes back, messages never go back |
| `amp_session` | `Spec` | 2 programs, 3 starts, 1 kill or restart, 2 frames | 566,129 | own endpoint, nothing left, gaps, SIGINT (except just before `scanf`) |

Each module that runs also defines `TypeOK` (`TDTypeOK`, `HETypeOK`). It is in no run's list, which
is kept for what could be wrong; adding the line `INVARIANT TypeOK` to a cfg checks it. It is
proved for all modules but `RpmsgEndpoints` and `StateBram`, whose invariants have their own form of it.
In `W5Com` it holds, and is proved, while `late` is not set; wrong answers lead `readChunk` out of
its range.

**Bounds.** `MaxOutages` 2 and `MaxUploads` 2 let an update be interrupted, rerun, interrupted
again and followed by another package, and two is where the promise of the backup ends. Three
archives are: one without and one with `boot.scr`, and one cut in transit; in `ota_install` one
with two parts, one that lacks a part of it, and a cut one, so that what an interrupted update
unpacked meets the manifest of the next archive. One program
writes the period and reads, as on the device; the callback, the worker and `rmmod` are the
other contexts. Two frames make a counter
change between two reads of it. Two senders with two buffers and two calls make the pool run
dry, buffers recycle, and both senders sleep at the same time, which is when sharing the
interrupt matters. In `W5Com` two commands, two chunks and two retries of each kind have a first,
a last and an exhausted one. In `w5_transfer` the constraint `Followed` cuts a connection
where `late` is set after its first command, since every command more multiplies the mix-ups of
answers; the first one's answers, those of its queries and those of the search are then mixed
up. `Hrtimer` has one timer because its lock and its queue are what
tasks and interrupts contend for; two CPUs let it migrate, and two events give a restart by the
callback and a lost CPU, or two restarts, which is what a reader without a lock must survive. The
false negative of `hrtimer_active` (section 4) reaches `hrtimer_cancel` only with three CPUs and
three events; that instance, with one task and one call, has 269,610 states. In
`HrtimerEvent` a timer of each kind gives every order of hard against soft and of one clock
against the other; three operations are a start of each, or a start, a cancellation and a
restart. `RpmsgEndpoints` has one fixed address and one that is chosen, so an address is used
again; two probes are a removal and the return. In `StateBram` one file is older and one lacks
items and has a value too wide for its field. Three starts in `AmpSession` let a third session
meet what two overlapping ones left. `CHECK_DEADLOCK FALSE` stands where the bounded program ends, where the kernel
has faulted, or where the device is left at the U-Boot prompt.

**Fairness.** Scripts, threads and kernel workers get a processor (weak fairness). The timer
fires once pending. The spin lock is a queued lock and `del_timer_sync` spins until the callback
is done, hence strong fairness for `WorkLock` and `WriteDel`. Unmounting `/boot` succeeds at
some attempt (strong fairness): when it is busy for ever the script never gets past it. The operator reboots now and
then, since only a boot reruns an interrupted update. In `RpmsgTx` nothing is assumed of the R5,
because the 15-second timeout is there for one that has stopped; frames are not assumed to
arrive in `TaskData`. In `W5Com` the program runs, and a camera that is asked again and again
attends to some command in another way than "busy" (strong fairness; the code retries busy
without a limit on purpose); it may still refuse, lose or damage every frame. In `Hrtimer` tasks that are
in a call run, interrupts run and a queued timer expires, and the move of a dead CPU's timers
goes on; in `RpmsgEndpoints` the worker and the threads that destroy run, while nothing is assumed
of the remote; in `StateBram` `autostart` and `config-parse` run; in `AmpSession` the programs run,
and nothing is assumed of the R5, of arriving frames or of anybody typing a line. All of these are
weak fairness of a thread that the scheduler runs.

**Mutants.** Beside the code that matters each module defines a changed form of it, marked
"mutant": a dropped backup, `del_timer` for `del_timer_sync`, a buffer that stays in the
ring. For each property there is one that breaks it, so no property holds by the shape of the
model. They are not part of any specification.

## 4. Findings

One run shows a disagreement between a message and the code: in `ota_hidden` a failing `cp` is
hidden by `cp && sync` under `set -e`; the archive is deleted and "all done" printed over a cut or
missing file (`ota-update.sh:152`).

Others were met while modelling. Where a property is named, the module defines it; a line
`INVARIANT` or `PROPERTY` with its name in a cfg shows the counterexample.

* Update: the script says "ota file image.ub broken" (`ota-update.sh:82`) of an archive that
  is whole. An earlier update was interrupted after its `tar`, its `image.ub` stayed in `/ldc`, and
  the next archive has no `image.ub` and no sum for one. The script exits 1 at every boot from then
  on, until somebody deletes the file (`RefusedIsBroken`, a `PROPERTY` for `ota_install.cfg`).
  `EventuallyInstalled` excepts this case.
* Driver: `timesync_remove` does not cancel the work item (`timesync.c:295`, `RemoveIsOk`);
  `dev->read` is shared by all readers and copied out after the unlock (`timesync.c:210`), so a
  second reader tears the sample of the first (`ReaderGetsSample`, with two programs).
* `task-data`: resetting the maximum races with raising it (`task-data.c:543`, `MaxIsMax`, with
  `Period = 1`, `MaxDelay = 2`). With a period of 0 nothing is measured: `% 0` leaves the counter.
* rpmsg: with a pending signal and a stopped R5 `rpmsg_send` loops for ever
  (`virtio_rpmsg_bus.c:609`, `CallReturns`, with one buffer); the programs here use `O_NONBLOCK`
  and do not wait. A message longer than its buffer loses that receive buffer for good
  (`virtio_rpmsg_bus.c:721-725`; `lost` counts them).
* `api-cmd`: an acknowledgement names no command, and `W5comConnect` goes on when `api_get_info` timed
  out (`w5_com.c:277`). An answer that comes after that time-out is read as that of the next
  command, whose message id is then not "assigned to the command by device" (`w5_com.h:394`;
  `OwnAck`, an `INVARIANT` for `w5_transfer.cfg`). The host stays one answer behind: with several
  commands a refused chunk is passed over and the next one sent twice. `AckIsOwn`, `ChunksInOrder`
  and `OutputIsOwn` except such a connection. A chunk still PENDING after the last retry is passed
  over (`api_cmd.c:898`). Over I2C no command ever succeeds (see W5Com above); the address of the
  slave is set before it is known (`connection_ftdi4222.c:135-140`) and `0 == fd` never tests an
  error (line 123).
* `hrtimer.c`: "it is important for this function to not return a false negative" (line 1435) has
  one exception, a timer that leaves the base and returns to it while it is read (`NeverFalseNegative`;
  `NoFalseNegative` is checked and proved). With three CPUs, two moves off a dead CPU and a restart
  by the callback between two reads, `hrtimer_cancel` returns for a timer that is queued; hence
  `left` in `CancelIsFinal`: the attempt to prove it without that exception found this. A sleeper
  is never affected. The device may be later than the first soft timer
  (`SoftIsProgrammed`, comment at 769). A soft timer of `CLOCK_REALTIME` may be late after that
  clock was set forward, which `SoftInTime` excepts.
* Configuration: after a power loss in the copy, the file is cut, its version is empty,
  `[ 1.6 != ]` is a syntax error (`autostart:105`), so the file is never replaced, all switches
  are empty and no program starts. With a zero configuration `task-state` sends to port 0, fails
  and ends. Values wrap to the 8 or 16 bits of their field. The BRAM area of the R5's data is
  mapped at that of its state (`mem-mmap.c:83`); nothing uses it.
* Sessions: after `kill -9` the next start fails at `bind` and only cleans up. "Up lost %d frame"
  prints one more than were lost (`ampperf.c:793`). `if ((++uiCntPerf) % ...)` resets in every
  round but the one meant (`ampperf.c:541`). The destroy ioctl on the control device has no
  effect. `ampecho` whose write fails waits in its join until SIGINT. A SIGINT between its test of
  `loop` (`ampecho.c:449`) and its `scanf` (line 454) only sets `loop`: the program waits until a
  line is typed or SIGINT comes again, which `SigIntEnds` excepts.

## 5. Proofs

All theorems are about the specifications above with arbitrary constants, under the named
assumptions of each module, which TLC evaluates for the instances: `OtaAssumption`,
`TimesyncAssumption`, `TaskDataAssumption`, `RpmsgAssumption`; `FilesAssumption` and
`SwitchAssumption` in `StateBram`; `ProgsAssumption` and `BoundAssumption` in `AmpSession`;
`W5Assumption`; `TimersAssumption` and `BoundAssumption` in `HrtimerEvent`; `WantedAssumption`, `NamesAssumption`, `BoundAssumption` and
`MsgAssumption` in `RpmsgEndpoints`; `PlacesAssumption`, `NamesAssumption`, `BoundAssumption` and
`CallsAssumption` in `Hrtimer`.

* **OtaUpdate** (`TypeCorrect`, `FallbackBoots`, `HonestBootIndex`, `VerifiedInstallation`,
  `OneFaultRecovers`, `DoneIsTrue`). None of the properties is inductive by itself. The invariant adds: what
  `boot` and `disk` may differ in at each `pc` (at most the part being updated); that while the
  script copies, what was unpacked has the sums of the manifest (needed for
  `VerifiedInstallation`, as a cut archive leaves parts behind); and that with `faults = 0` the
  base files are whole outside the copy, with `faults = 1` the backup is the previous content
  (needed for the fallback). `FallbackBoots` then needs only that slot 2 is never written.
  `DoneIsTrue` has the hypothesis `NoBadFiles` (copies do not fail, packages are whole), which
  `ota_hidden` shows to be needed, and follows which parts are in place at each `pc` (`PartDone`).
* **Timesync** (`TypeCorrect`, `SamplesOnOneClock`, `RemovedIsQuiet`, and for one program
  `StopStops`, `RunningStaysArmed`, `OneReaderGetsSample`). The lock is held exactly by the worker or the reader that
  is in its section, so the clock does not change in a sample. After `del_timer_sync` in
  `timesync_remove` no program is open, so nothing arms the timer again. `OneApp`, an
  explicit hypothesis of the last three, is needed: two writers can interleave store, test and act, and
  two readers share `dev->read`.
* **TaskData** (`TypeCorrect`, `ClosedLast`, `NothingReportedTwice`). The invariant ties
  `counted` to `last`, and `loaded` to the counter at each place of `perf_analyse()`: frames in a
  reported frequency were in the counter when it was read, and `last` is never behind them.
* **RpmsgTx** (`TypeCorrect`, `WakeUpArrives`, `RingNeverFull`, `BusIsChannel`). The invariant
  says where everything is: a buffer is with one sender, at one position of one ring, or with the
  R5 (`Apart`, `R5Apart`), and these places together hold as many as were handed out (`PoolInv`,
  by cardinality), hence the ring has room. The counter is the number of senders between `upref`
  and `downref`, and the interrupt is enabled exactly when it is not 0 (`SleepInv`); that and the
  test after joining the queue make `NoLostWakeUp` inductive. `BusIsChannel` is the whole
  refinement of `RpmsgChannel`: since nobody else has the buffers in the available ring, what is
  filled or recycled leaves the queue as it is, `Add` is `Accept`, the end of a call without a
  buffer is `Refuse`, `R5Read` is `Deliver`, and everything else is a stutter.
* **RpmsgEndpoints** (`EndpointsCounted`, `NoLateCallback`, `BuffersCounted`). A reference count is
  one for the owner of an endpoint (a file, the name service or whoever destroys it) and one for
  the worker (`CountInv`). That nobody reaches freed memory needs to know who may name an endpoint:
  each has one owner and its destroyer has locked the file (`OwnerInv`), a destroyer past the
  table is not found any more (`DestroyInv`), and the callback is set only while there is an owner
  (`EptInv`). The lemma `Held` draws the conclusion that every case of the induction uses: whoever
  destroys an endpoint is the only one to reach it, the worker's reference aside.
* **StateBram** (`OperatorKeepsFile`, `MessagesGoForward`, `OneConfigurationTaken`). Three
  independent invariants. `FileInv`: at each step of `autostart` a file that is not the operator's
  has the current or an empty version, so it is never the one that is moved away. `StateInv`: no
  field of a message is ahead of the copy it was sent from, nor the copy ahead of the BRAM.
  `ParserInv` and `ProgInv`: while `config-parse` runs, the items up to the one it is at are those
  of its file and the rest are zero; a program that starts alone finds it done, and what it has
  taken so far are the values of that file.

* **Hrtimer** (`TimersHaveOneHome`, `HrtimerActive`, `CancelledIsGone`, `TypeCorrect`). `OneHome`
  becomes inductive with `LockInv` (exactly who holds the lock of each CPU), `PlugInv`, `IrqInv`
  and `TaskInv` (what a task with a timer off its base knows of it). The lemma `MineLemma` draws
  what every locked section relies on: whoever has taken a timer off its base, or holds the lock
  of its base, is alone with it. `Careful` and `Interrupted` list what a step of a task or of an
  interrupt must then take care of, so each action shows its own list and the invariant follows
  once. The readers without a lock have `ReadInv`: while the base has not changed, a timer that
  was missed moves the counter. `CancelInv` adds that an idle timer stays idle for a canceller
  whom nobody disturbs (`IdleStays`), and `SleeperInv` that only its owner starts the timer on a
  stack, which is why the exception does not reach sleepers.

* **HrtimerEvent** (`HardTimersInTime`, `SoftTimersInTime`, `HETypeCorrect`). `HardInTime`
  compares the device with the timers, but the code never does: it compares the device with
  `expires_next` and `expires_next` with one timer at a time. The invariant has the two halves:
  no hard timer is earlier than `expires_next` (`HardCovered`), except in the interrupt and while
  another CPU has still to call this one; and the device is not later than `expires_next`, or than
  the end of the pause after a hang (`DeviceSet`). `SoftInv` says the same of
  `softirq_expires_next` while the softirq is not activated. Both are about times by the offset
  the CPU has copied, hence `OffsetInv`: the copy is the offset in force unless the clock was set
  and the call is under way. Each function on `struct hrtimer_cpu_base` has a lemma that says what
  it keeps and what it covers (`NextEvent`, `Forced`, `Reprogrammed`, `Removed`, `SoftirqUpdated`,
  `BaseUpdated`, `Started`), and the actions are put together from those. That a queue has a
  first timer comes from the order of the numbers (`LeastExists`), so the set of timers may be
  infinite.
* **AmpSession** (`EndpointIsOwn`, `NothingIsLeft`, `GapsAreReported`, `TypeCorrect`).
  `NothingLeft` needs `FdInv` (which descriptors a program can have at each place, so that one that
  is past its clean-up keeps nobody from unloading) and `KernelInv` (a bound channel has its
  driver, and only a bound one has endpoints). `OwnEndpoint` needs what a program that set up
  alone may rely on (`AloneInv`): no other was in its set-up meanwhile, nobody else has a
  descriptor of its binding, and the endpoints found by name are its own; a restart of the R5 gives a
  new number to the binding, which makes the old descriptors worthless. `GapIsReported` is
  inductive with the order of the frames (`FrameInv`): those on their way are after the last one taken.
* **W5Com** (`AcksAreOwn`, `TakenInOrder`, `OutputsAreOwn`, `TypeCorrect`), for `Spec` without
  further hypotheses. The theorems say nothing of a connection whose `api_get_info` timed out before
  the camera attended to it, as `OwnAck` is false there (section 4). `LateInv` is in two
  halves: while `late` is not set, `Inv` holds; once it is, `Adrift` keeps the little that the next
  connection starts from, until the port is closed. `Inv` is what follows. An acknowledgement names
  no command and the host reads by length, so the invariant must say what is on the line.
  `CleanInv`: the calls that begin with nothing on its way (connecting, and the queries after an
  acknowledgement) have room for one answer, so lengths are not mixed up. `CommandInv`
  and `AckInv`: a command or an acknowledgement on its way belongs to the call that waits for it,
  and nothing comes after it. `QueryInv`: a good result on its way answers the chunk asked for.
  From these follow what a call returns (`ReturnInv`), that a command is not sent again once it has been
  taken (`TakenInv`), and what has been put out (`LoopInv`).

Each proof has one step per action and lemmas for the conjuncts that several actions share.

Every invariant and action property that a passing run checks is proved, and so is the
refinement. Only model-checked: the liveness properties, because fairness and `ENABLED` are beyond
the prover (`EventuallyInstalled`, `SyncsKeepComing`, `SigIntStops`, `StateCatchesUp`,
`QuietCallReturns`, `CallsFinish`, `MessagesTaken`, `Ends`, `CallsReturn`, `ConfigComesBack`,
`SigIntEnds`). What the models assume of the outside (section 2) is assumed by the proofs too.

## 6. What could come next

`Hrtimer` with two timers as a run, which needs more states than minutes reach (its theorems hold
for any number); one module that joins `Hrtimer` and `HrtimerEvent`, for the same reason; the
safety halves of the liveness properties as theorems (that a waiting thread always has somebody
who will wake it, as `WakeUpArrives` says for `RpmsgTx`); and what still holds on a connection where
`api_get_info` was answered late.

## 7. Not modelled

* `selftest.sh`: each round is computed anew from what it polls; there is no state to go wrong.
* `cam_ver.sh`, `ispota.sh` and relatives: they share the power register without a lock, which the
  hazard list says; a model would hold nothing but that counterexample.
* In `hrtimer.c`: the PREEMPT_RT variants (lines 1177-1251), debug objects, the
  functions that only report (`hrtimer_get_next_event` and relatives, 1312-1359), and the slack
  of timers.
* In `api_cmd.c`: parsing of arguments, scripts and hexadecimal strings, and bytes that an earlier
  run left on the line.
* In `autostart`: the choice of the R5 firmware, the network, directories. In `BRAM`: the
  areas of the R5 and the registers of the PL, which this repository only reads.
* Not this repository's own logic: cJSON, zlog, argparse, U-Boot's commands and `phy.c`,
  `mailbox_controller.h`, the Xilinx demos (gpio-demo, peek, poke, mem-test), device trees, build
  files and binaries.
