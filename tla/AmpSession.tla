----------------------------- MODULE AmpSession -----------------------------
(***************************************************************************)
(* The programs that talk to the R5 over rpmsg, from start to end:         *)
(* task-data.c, ampperf.c and ampecho.c share the code that loads          *)
(* rpmsg_char, binds the channel to it, creates an endpoint and finds and  *)
(* opens its device, and that undoes all this.  They may be started,       *)
(* interrupted and killed in any order, and the R5 may be restarted.       *)
(* ampperf sends numbered frames, which the R5 returns; ampecho sends what *)
(* is typed in.  The threads of task-data are in TaskData.                 *)
(*                                                                         *)
(* External: the kernel and rpmsg_char.  A write to bind fails for a       *)
(* device that has a driver; a module in use is not removed; removing it   *)
(* or the channel removes the endpoint devices; the control device only    *)
(* knows how to create endpoints.                                          *)
(***************************************************************************)
EXTENDS Naturals, Sequences, FiniteSetsExt

CONSTANTS Perf, Echo,  \* programs, ampperf and ampecho
          None,
          MaxFrames,   \* bound: frames of a session of ampperf
          MaxStarts,   \* bound: starts of programs
          MaxFaults    \* bound: kills and restarts of the R5

Progs == Perf \cup Echo
ASSUME ProgsAssumption == Perf \cap Echo = {} /\ None \notin Progs
ASSUME BoundAssumption == {MaxFrames, MaxStarts, MaxFaults} \subseteq Nat

VARIABLES
    channel,  \* the R5 runs and has announced its channel
    override, \* driver_override of the channel names rpmsg_chrdev
    loaded,   \* rpmsg_char is loaded
    binding,  \* 0, or the number of the present binding of the channel
    bindings, \* counts them
    epts,     \* endpoint devices: [minor -> creator or None]
    pc,       \* per program: the place of its main thread
    charfd, eptfd, \* per program: binding of the open control device; open minor
    loop,     \* per program: the variable loop
    threads,  \* per program: its other threads that run
    alone,    \* history: nobody else was setting up meanwhile
    perf,     \* frames of ampperf: uiDataLen, uiDataCount, received, reported
    echo,     \* frames on their way to the R5 and back
    published, \* frames counted when perf_analyse wrote to the BRAM last
    killed, starts, faults

kernelVars == <<channel, override, loaded, binding, bindings, epts>>
fdVars == <<charfd, eptfd>>
frameVars == <<perf, echo, published>>
countVars == <<killed, starts, faults>>
vars == <<kernelVars, pc, fdVars, loop, threads, alone, frameVars, countVars>>

Minors == 0..MaxStarts - 1
NoFd == MaxStarts
SetUp == {"modprobe", "access", "override", "bind", "ctrl", "create", "find", "open"}
CleanUp == {"close", "destroy", "closectrl", "unload"}
InLoop == {"run", "prompt", "scanf"}
Places == {"off", "greet", "join"} \cup InLoop \cup SetUp \cup CleanUp
NoFrames == [len |-> 0, count |-> 0, got |-> {}, reports |-> {}]
NoEpts == [m \in Minors |-> None]

Init ==
    /\ channel = TRUE /\ override = FALSE /\ loaded = FALSE /\ binding = 0 /\ bindings = 0
    /\ epts = NoEpts /\ pc = [p \in Progs |-> "off"]
    /\ charfd = [p \in Progs |-> 0] /\ eptfd = [p \in Progs |-> NoFd]
    /\ loop = [p \in Progs |-> TRUE] /\ threads = [p \in Progs |-> {}]
    /\ alone = [p \in Progs |-> TRUE]
    /\ perf = [p \in Perf |-> NoFrames] /\ echo = [p \in Perf |-> <<>>]
    /\ published = [p \in Perf |-> 0]
    /\ killed = FALSE /\ starts = 0 /\ faults = 0

\* The memory of a program that has ended is gone.
Forget(p) ==
    /\ loop' = [loop EXCEPT ![p] = TRUE] /\ alone' = [alone EXCEPT ![p] = TRUE]
    /\ perf' = [q \in Perf |-> IF q = p THEN NoFrames ELSE perf[q]]
    /\ echo' = [q \in Perf |-> IF q = p THEN <<>> ELSE echo[q]]
    /\ published' = [q \in Perf |-> IF q = p THEN 0 ELSE published[q]]

Goto(p, from, to) == pc[p] = from /\ pc' = [pc EXCEPT ![p] = to]
Test(p, from, ok, to, else) == Goto(p, from, IF ok THEN to ELSE else)

-----------------------------------------------------------------------------
(* The set-up, as in init_rpmsg, and the way back of each failure.         *)

Start(p) ==
    LET others == {q \in Progs \ {p} : pc[q] \in SetUp} IN
    /\ starts < MaxStarts /\ starts' = starts + 1
    /\ Goto(p, "off", "modprobe")
    /\ alone' = [q \in Progs |-> IF q \in others THEN FALSE
                                 ELSE IF q = p THEN others = {} ELSE alone[q]]
    /\ UNCHANGED <<kernelVars, fdVars, loop, threads, frameVars, killed, faults>>

Rebind == binding' = bindings + 1 /\ bindings' = bindings + 1
\* modprobe: a driver that is loaded may at once take the device that names it.
Modprobe(p) ==
    /\ Goto(p, "modprobe", "access")
    /\ loaded' = TRUE
    /\ \/ ~loaded /\ channel /\ override /\ Rebind
       \/ UNCHANGED <<binding, bindings>>
    /\ UNCHANGED <<channel, override, epts, fdVars, threads>>
Access(p) ==
    /\ Test(p, "access", channel, "override", "unload")
    /\ UNCHANGED <<kernelVars, fdVars, threads>>
Override(p) ==
    /\ Test(p, "override", channel, "bind", "unload")
    /\ override' = channel
    /\ UNCHANGED <<channel, loaded, binding, bindings, epts, fdVars, threads>>
BindAnyway(p) ==
    /\ Test(p, "bind", channel /\ loaded, "ctrl", "unload")
    /\ IF channel /\ loaded /\ binding = 0 THEN Rebind ELSE UNCHANGED <<binding, bindings>>
    /\ UNCHANGED <<channel, override, loaded, epts, fdVars, threads>>
Bind(p) ==
    LET ok == channel /\ loaded /\ binding = 0 IN
    /\ Test(p, "bind", ok, "ctrl", "unload")
    /\ IF ok THEN Rebind ELSE UNCHANGED <<binding, bindings>>
    /\ UNCHANGED <<channel, override, loaded, epts, fdVars, threads>>
OpenCtrl(p) ==
    /\ Test(p, "ctrl", binding # 0, "create", "unload")
    /\ charfd' = [charfd EXCEPT ![p] = binding]
    /\ UNCHANGED <<kernelVars, eptfd, threads>>
Valid(p) == binding # 0 /\ charfd[p] = binding
CreateEpt(p) ==
    /\ Test(p, "create", Valid(p), "find", "closectrl")
    /\ epts' = IF Valid(p) THEN [epts EXCEPT ![Min({m \in Minors : epts[m] = None})] = p] ELSE epts
    /\ UNCHANGED <<channel, override, loaded, binding, bindings, fdVars, threads>>
\* get_rpmsg_ept_dev_name: the first device of that name, and all have the same.
Found == {m \in Minors : epts[m] # None}
FindEpt(p) ==
    /\ Test(p, "find", Valid(p) /\ Found # {}, "open", "destroy")
    /\ eptfd' = eptfd
    /\ UNCHANGED <<kernelVars, charfd, threads>>
OpenEpt(p) ==
    LET ok == Valid(p) /\ Found # {} IN
    /\ Test(p, "open", ok, IF p \in Perf THEN "greet" ELSE "run", "destroy")
    /\ eptfd' = [eptfd EXCEPT ![p] = IF ok THEN Min(Found) ELSE NoFd]
    /\ threads' = [threads EXCEPT ![p] =
          IF ~ok THEN {} ELSE IF p \in Perf THEN {"receive", "analyse"} ELSE {"receive"}]
    /\ UNCHANGED <<kernelVars, charfd>>

\* exit_rpmsg, and the tail of it on the way back of a failure.
CloseEpt(p) ==
    /\ Goto(p, "close", "destroy")
    /\ eptfd' = [eptfd EXCEPT ![p] = NoFd]
    /\ UNCHANGED <<kernelVars, charfd, threads>>
\* RPMSG_DESTROY_EPT_IOCTL on the control device: it returns an error.
DestroyEpt(p) ==
    /\ Goto(p, "destroy", "closectrl")
    /\ UNCHANGED <<kernelVars, fdVars, threads>>
CloseCtrlAndEnd(p) ==
    /\ Goto(p, "closectrl", "off")
    /\ charfd' = [charfd EXCEPT ![p] = 0] /\ threads' = [threads EXCEPT ![p] = {}]
    /\ UNCHANGED <<kernelVars, eptfd>>
CloseCtrl(p) ==
    /\ Goto(p, "closectrl", "unload")
    /\ charfd' = [charfd EXCEPT ![p] = 0]
    /\ UNCHANGED <<kernelVars, eptfd, threads>>
InUse == \E p \in Progs : charfd[p] # 0 \/ eptfd[p] # NoFd
\* stop_remote: modprobe -r.  Then the process ends, and its threads with it.
StopRemote(p) ==
    /\ Goto(p, "unload", "off")
    /\ IF InUse THEN UNCHANGED <<loaded, binding, epts>>
       ELSE loaded' = FALSE /\ binding' = 0 /\ epts' = NoEpts
    /\ threads' = [threads EXCEPT ![p] = {}]
    /\ UNCHANGED <<channel, override, bindings, fdVars>>

ExitRpmsg(p) == CloseEpt(p) \/ DestroyEpt(p) \/ CloseCtrl(p) \/ StopRemote(p)

\* Each program has its own copy of these functions; ampecho has them in main.
EchoBind(p) == p \in Echo /\ (Override(p) \/ Bind(p))
EchoCtrl(p) == p \in Echo /\ OpenCtrl(p)
EchoFind(p) == p \in Echo /\ FindEpt(p)
EchoSetUp(p) ==
    \/ EchoBind(p) \/ EchoCtrl(p) \/ EchoFind(p)
    \/ p \in Echo /\ (Modprobe(p) \/ Access(p) \/ CreateEpt(p) \/ OpenEpt(p))
EchoExit(p) == p \in Echo /\ ExitRpmsg(p)
PerfBind(p) == p \in Perf /\ (Override(p) \/ Bind(p))
PerfCtrl(p) == p \in Perf /\ OpenCtrl(p)
PerfFind(p) == p \in Perf /\ FindEpt(p)
PerfSetUp(p) ==
    \/ PerfBind(p) \/ PerfCtrl(p) \/ PerfFind(p)
    \/ p \in Perf /\ (Modprobe(p) \/ Access(p) \/ CreateEpt(p) \/ OpenEpt(p))
PerfExit(p) == p \in Perf /\ ExitRpmsg(p)
Session(p) ==
    /\ EchoSetUp(p) \/ PerfSetUp(p) \/ EchoExit(p) \/ PerfExit(p)
    /\ IF pc'[p] = "off" THEN Forget(p) ELSE UNCHANGED <<loop, alone, frameVars>>
    /\ UNCHANGED countVars

-----------------------------------------------------------------------------
(* The threads.                                                            *)

\* An endpoint of a channel that is gone refuses every write; without a free
\* buffer the others do too.
CanWrite(p) == Valid(p) /\ eptfd[p] # NoFd /\ epts[eptfd[p]] # None

\* ampperf greets the R5; when that fails it leaves without a join, its threads
\* still running.
Greet(p) ==
    /\ \/ CanWrite(p) /\ Goto(p, "greet", "run")
       \/ Goto(p, "greet", "close")
    /\ UNCHANGED <<kernelVars, fdVars, loop, threads, alone, frameVars, countVars>>

\* The thread receive of ampperf sends: the number goes up even if write fails.
SendFrame(p) ==
    /\ "receive" \in threads[p] /\ loop[p] /\ perf[p].len < MaxFrames
    /\ perf' = [perf EXCEPT ![p].len = @ + 1]
    /\ \/ CanWrite(p) /\ echo' = [echo EXCEPT ![p] = Append(@, perf[p].len + 1)]
       \/ UNCHANGED echo
    /\ UNCHANGED <<kernelVars, pc, fdVars, loop, threads, alone, published, countVars>>
\* External: the R5 has no buffer for the answer.
FrameLost(p) ==
    /\ echo[p] # <<>> /\ echo' = [echo EXCEPT ![p] = Tail(@)]
    /\ UNCHANGED <<kernelVars, pc, fdVars, loop, threads, alone, perf, published, countVars>>
OldCount(f, n) == f.count
LastCount(f, n) == n
\* main of ampperf: the read, the comparison "Up lost" and the new count.
RecvFrame(p) ==
    LET n == Head(echo[p])
        f == perf[p] IN
    /\ pc[p] = "run" /\ loop[p] /\ echo[p] # <<>> /\ CanWrite(p)
    /\ echo' = [echo EXCEPT ![p] = Tail(@)]
    /\ perf' = [perf EXCEPT ![p] = [len |-> f.len, count |-> LastCount(f, n), got |-> f.got \cup {n},
                   reports |-> f.reports \cup (IF n # f.count + 1 THEN {n} ELSE {})]]
    /\ UNCHANGED <<kernelVars, pc, fdVars, loop, threads, alone, published, countVars>>
\* perf_analyse: nothing is written while no frame has come.
Analyse(p) ==
    LET n == Cardinality(perf[p].got) IN
    /\ "analyse" \in threads[p] /\ loop[p] /\ n # published[p]
    /\ published' = [published EXCEPT ![p] = n]
    /\ UNCHANGED <<kernelVars, pc, fdVars, loop, threads, alone, perf, echo, countVars>>

\* main of ampecho tests loop, and then waits in scanf for a line.
Prompt(p) ==
    /\ loop[p] /\ Goto(p, "run", "prompt")
    /\ UNCHANGED <<kernelVars, fdVars, loop, threads, alone, frameVars, countVars>>
Scanf(p) ==
    /\ Goto(p, "prompt", "scanf")
    /\ UNCHANGED <<kernelVars, fdVars, loop, threads, alone, frameVars, countVars>>
\* A line is typed, or there are no more: one that is no hex is passed over, one that
\* is sent changes nothing here, and a failed write ends the loop whatever loop is.
Typed(p) ==
    /\ Goto(p, "scanf", "run") \/ Goto(p, "scanf", "join")
    /\ UNCHANGED <<kernelVars, fdVars, loop, threads, alone, frameVars, countVars>>

\* The other threads test loop: their reads do not wait, their sleeps end.
ThreadEndsOnData(p) == ~loop[p] /\ CanWrite(p)
ThreadEnds(p) == ~loop[p]
EndThread(p) ==
    /\ threads[p] # {} /\ ThreadEnds(p)
    /\ \E t \in threads[p] : threads' = [threads EXCEPT ![p] = @ \ {t}]
    /\ UNCHANGED <<kernelVars, pc, fdVars, loop, alone, frameVars, countVars>>
LeaveLoop(p) ==
    /\ ~loop[p] /\ Goto(p, "run", "join")
    /\ UNCHANGED <<kernelVars, fdVars, loop, threads, alone, frameVars, countVars>>
Join(p) ==
    /\ threads[p] = {} /\ Goto(p, "join", "close")
    /\ UNCHANGED <<kernelVars, fdVars, loop, threads, alone, frameVars, countVars>>

Proceed(p) ==
    \/ Session(p) \/ LeaveLoop(p) \/ Join(p)
    \/ p \in Perf /\ Greet(p)
    \/ p \in Echo /\ (Prompt(p) \/ Scanf(p))

-----------------------------------------------------------------------------
(* The operator.  system() ignores SIGINT while it waits.                  *)

\* SIGINT ends a scanf that waits, as the handler is not set up to restart it.
SigInt(p) ==
    /\ pc[p] \notin {"off", "modprobe", "unload"} /\ (loop[p] \/ pc[p] = "scanf")
    /\ loop' = [loop EXCEPT ![p] = FALSE]
    /\ pc' = [pc EXCEPT ![p] = IF @ = "scanf" THEN "run" ELSE @]
    /\ UNCHANGED <<kernelVars, fdVars, threads, alone, frameVars, countVars>>
Kill(p) ==
    /\ faults < MaxFaults /\ faults' = faults + 1 /\ killed' = TRUE
    /\ pc[p] # "off" /\ pc' = [pc EXCEPT ![p] = "off"]
    /\ charfd' = [charfd EXCEPT ![p] = 0] /\ eptfd' = [eptfd EXCEPT ![p] = NoFd]
    /\ threads' = [threads EXCEPT ![p] = {}]
    /\ Forget(p)
    /\ UNCHANGED <<kernelVars, starts>>
\* app-control 1: the channel goes with its endpoints, and comes anew.
StopR5 ==
    /\ faults < MaxFaults /\ faults' = faults + 1
    /\ channel /\ channel' = FALSE /\ override' = FALSE
    /\ binding' = 0 /\ epts' = NoEpts
    /\ echo' = [p \in Perf |-> <<>>]
    /\ UNCHANGED <<loaded, bindings, pc, fdVars, loop, threads, alone, perf, published, killed, starts>>
StartR5 ==
    /\ ~channel /\ channel' = TRUE
    /\ UNCHANGED <<override, loaded, binding, bindings, epts, pc, fdVars, loop, threads, alone,
                   frameVars, countVars>>

Next ==
    \/ \E p \in Progs : Start(p) \/ Proceed(p) \/ EndThread(p) \/ SigInt(p) \/ Kill(p)
    \/ \E p \in Perf : SendFrame(p) \/ FrameLost(p) \/ RecvFrame(p) \/ Analyse(p)
    \/ \E p \in Echo : Typed(p)
    \/ StopR5 \/ StartR5

Fairness == \A p \in Progs : WF_vars(Proceed(p)) /\ WF_vars(EndThread(p))
Spec == Init /\ [][Next]_vars /\ Fairness

-----------------------------------------------------------------------------
(* Properties.                                                             *)

\* A program that set up while no other did works on the endpoint it created,
\* although get_rpmsg_ept_dev_name takes the first of that name: the bind, which
\* fails for a channel somebody has, keeps the others away, those killed included.
OwnEndpoint ==
    \A p \in Progs :
        pc[p] \in {"greet"} \cup InLoop /\ alone[p] /\ Valid(p) => epts[eptfd[p]] = p

\* When all programs have ended by themselves nothing of theirs is left in the
\* kernel, though the destroy ioctl has no effect: the last one out removes it.
NothingLeft ==
    (\A p \in Progs : pc[p] = "off") /\ ~killed => ~loaded /\ Found = {}

\* ampperf reports a loss at the frames that come after a missing one, and only there.
GapIsReported ==
    \A p \in Perf : perf[p].reports = {n \in perf[p].got : n # 1 /\ n - 1 \notin perf[p].got}

\* After SIGINT a program ends, wherever it was, with the R5 or without: a scanf that
\* waits is interrupted.  One place is left out: SIGINT between ampecho's test of loop
\* (ampecho.c:449) and its scanf (454) only sets loop, and the program waits in scanf
\* until a line is typed or SIGINT comes again.
SigIntEnds ==
    \A p \in Progs : ~loop[p] /\ pc[p] \notin {"off", "prompt", "scanf"} ~> pc[p] = "off"

\* The types of the variables.
TypeOK ==
    /\ channel \in BOOLEAN /\ override \in BOOLEAN /\ loaded \in BOOLEAN /\ killed \in BOOLEAN
    /\ bindings \in Nat /\ binding \in 0..bindings
    /\ epts \in [Minors -> Progs \cup {None}] /\ pc \in [Progs -> Places]
    /\ charfd \in [Progs -> 0..bindings] /\ eptfd \in [Progs -> Minors \cup {NoFd}]
    /\ loop \in [Progs -> BOOLEAN] /\ alone \in [Progs -> BOOLEAN]
    /\ threads \in [Progs -> SUBSET {"receive", "analyse"}]
    /\ \A p \in Perf : perf[p].count \in 0..perf[p].len /\ perf[p].len \in 0..MaxFrames
=============================================================================
