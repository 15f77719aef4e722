-------------------------- MODULE AmpSession_proof --------------------------
(***************************************************************************)
(* Proofs about AmpSession, for all sets of programs and any number of     *)
(* starts, frames and faults.                                              *)
(***************************************************************************)
EXTENDS AmpSession, WellFoundedInduction, TLAPS

-----------------------------------------------------------------------------
(* The first device of a set.                                              *)

\* A set of numbers that is not empty has a least element, which Min returns.
LEMMA MinIsFirst ==
    ASSUME NEW S, S \subseteq Nat, S # {}
    PROVE  Min(S) \in S /\ \A m \in S : Min(S) <= m
<1> DEFINE Less == {ss \in Nat \X Nat : ss[1] < ss[2]}
<1>0. IsWellFoundedOn(Less, Nat)
  BY NatLessThanWellFounded DEF OpToRel
<1>1. PICK x \in S : \A y \in S : ~(<<y, x>> \in Less)
  <2> HIDE DEF Less
  <2> QED
    BY <1>0, WFMin, Zenon
<1>2. ASSUME NEW y \in S PROVE x <= y
  <2>1. ~(y < x)
    BY <1>1
  <2>2. QED
    BY <2>1
<1>3. QED
  BY <1>2 DEF Min

\* The bounds are numbers.
LEMMA Bounds == MaxFrames \in Nat /\ MaxStarts \in Nat
BY BoundAssumption

-----------------------------------------------------------------------------
(* The steps of a session.                                                 *)

\* What a program does between its start and its end, ampperf and ampecho alike.
Step(p) ==
    \/ Modprobe(p) \/ Access(p) \/ Override(p) \/ Bind(p) \/ OpenCtrl(p) \/ CreateEpt(p)
    \/ FindEpt(p) \/ OpenEpt(p) \/ CloseEpt(p) \/ DestroyEpt(p) \/ CloseCtrl(p) \/ StopRemote(p)

LEMMA SessionSteps ==
    ASSUME NEW p \in Progs, Session(p)
    PROVE  /\ Step(p)
           /\ IF pc'[p] = "off" THEN Forget(p) ELSE UNCHANGED <<loop, alone, frameVars>>
           /\ UNCHANGED countVars
BY DEF Session, Step, EchoSetUp, PerfSetUp, EchoExit, PerfExit, EchoBind, EchoCtrl, EchoFind,
   PerfBind, PerfCtrl, PerfFind, ExitRpmsg

\* The steps that leave the channel and the endpoints alone, and of a program only its
\* place and its threads.
Inner(p) == Greet(p) \/ LeaveLoop(p) \/ Join(p) \/ EndThread(p) \/ Prompt(p) \/ Scanf(p) \/ Typed(p)
Frames(p) == SendFrame(p) \/ FrameLost(p) \/ RecvFrame(p) \/ Analyse(p)

\* Every step is one of these.
LEMMA NextSteps ==
    ASSUME [Next]_vars
    PROVE  \/ \E p \in Progs : Start(p) \/ Session(p) \/ Inner(p) \/ SigInt(p) \/ Kill(p)
           \/ \E p \in Perf : Frames(p)
           \/ StopR5 \/ StartR5 \/ UNCHANGED vars
BY DEF Next, Proceed, Inner, Frames, Progs

-----------------------------------------------------------------------------
(* The frames of ampperf.                                                  *)

PerfRecords == [len : Nat, count : Nat, got : SUBSET Nat, reports : SUBSET Nat]

\* The frames on their way, e, are in order and later than the last one counted, which is
\* the greatest one received.
InOrder(f, e) ==
    /\ f.got \subseteq 1..f.count /\ f.count <= f.len
    /\ f.count = 0 \/ f.count \in f.got
    /\ \A i \in 1..Len(e) :
          /\ f.count < e[i] /\ e[i] <= f.len
          /\ \A j \in 1..i - 1 : e[j] < e[i]

Reported(f) == f.reports = {n \in f.got : n # 1 /\ n - 1 \notin f.got}

FrameInv ==
    /\ perf \in [Perf -> PerfRecords] /\ echo \in [Perf -> Seq(Nat)]
    /\ \A p \in Perf : perf[p].len <= MaxFrames /\ InOrder(perf[p], echo[p]) /\ Reported(perf[p])

\* Nothing is on its way at the start of a program.
LEMMA NoFramesInOrder ==
    /\ NoFrames \in PerfRecords /\ InOrder(NoFrames, <<>>) /\ Reported(NoFrames)
    /\ \A f \in PerfRecords, e \in Seq(Nat) : InOrder(f, e) => InOrder(f, <<>>)
BY DEF NoFrames, PerfRecords, InOrder, Reported

\* A frame that is received, or lost, leaves the later ones.
LEMMA TailInOrder ==
    ASSUME NEW f \in PerfRecords, NEW e \in Seq(Nat), e # <<>>, InOrder(f, e)
    PROVE  /\ InOrder(f, Tail(e))
           /\ Head(e) \in Nat /\ f.count < Head(e) /\ Head(e) <= f.len
           /\ \A i \in 1..Len(Tail(e)) : Head(e) < Tail(e)[i]
<1>1. /\ Head(e) = e[1] /\ Len(e) \in Nat \ {0} /\ Len(Tail(e)) = Len(e) - 1
      /\ \A i \in 1..Len(Tail(e)) : Tail(e)[i] = e[i + 1]
  OBVIOUS
<1>2. \A i \in 1..Len(e) : e[i] \in Nat
  OBVIOUS
<1>3. ASSUME NEW i \in 1..Len(Tail(e))
      PROVE  /\ f.count < Tail(e)[i] /\ Tail(e)[i] <= f.len /\ e[1] < Tail(e)[i]
             /\ \A j \in 1..i - 1 : Tail(e)[j] < Tail(e)[i]
  <2>1. i + 1 \in 1..Len(e) /\ 1 \in 1..(i + 1) - 1
    BY <1>1
  <2>2. f.count < e[i + 1] /\ e[i + 1] <= f.len /\ e[1] < e[i + 1]
    BY <2>1 DEF InOrder
  <2>3. ASSUME NEW j \in 1..i - 1 PROVE Tail(e)[j] < Tail(e)[i]
    <3>1. j + 1 \in 1..(i + 1) - 1 /\ j \in 1..Len(Tail(e))
      BY <1>1
    <3>2. e[j + 1] < e[i + 1]
      BY <2>1, <3>1 DEF InOrder
    <3>3. QED
      BY <1>1, <3>1, <3>2
  <2>4. QED
    BY <1>1, <2>2, <2>3
<1>4. f.count < e[1] /\ e[1] <= f.len
  BY <1>1 DEF InOrder
<1>5. InOrder(f, Tail(e))
  BY <1>3 DEF InOrder
<1>6. QED
  BY <1>1, <1>2, <1>3, <1>4, <1>5

\* A frame that is sent is the last one.
LEMMA AppendInOrder ==
    ASSUME NEW f \in PerfRecords, NEW e \in Seq(Nat), InOrder(f, e)
    PROVE  LET g == [f EXCEPT !.len = @ + 1] IN
           /\ g \in PerfRecords /\ (Reported(f) => Reported(g))
           /\ InOrder(g, e) /\ InOrder(g, Append(e, f.len + 1))
<1> DEFINE g == [f EXCEPT !.len = @ + 1]
           d == Append(e, f.len + 1)
<1>1. /\ g \in PerfRecords /\ g.len = f.len + 1 /\ f.len \in Nat /\ f.count \in Nat
      /\ g.count = f.count /\ g.got = f.got /\ g.reports = f.reports
  BY DEF PerfRecords
<1>2. /\ Len(d) = Len(e) + 1 /\ Len(e) \in Nat /\ d[Len(e) + 1] = f.len + 1
      /\ \A i \in 1..Len(e) : d[i] = e[i] /\ e[i] \in Nat
  OBVIOUS
<1>3. \A i \in 1..Len(e) : f.count < e[i] /\ e[i] <= f.len /\ \A j \in 1..i - 1 : e[j] < e[i]
  BY DEF InOrder
<1>4. f.got \subseteq 1..f.count /\ f.count <= f.len /\ (f.count = 0 \/ f.count \in f.got)
  BY DEF InOrder
<1> HIDE DEF g, d
<1>5. InOrder(g, e)
  BY <1>1, <1>2, <1>3, <1>4 DEF InOrder
<1>6. ASSUME NEW i \in 1..Len(d)
      PROVE  g.count < d[i] /\ d[i] <= g.len /\ \A j \in 1..i - 1 : d[j] < d[i]
  <2>1. CASE i = Len(e) + 1
    <3>1. d[i] = f.len + 1
      BY <1>2, <2>1
    <3>2. \A j \in 1..i - 1 : d[j] = e[j] /\ e[j] \in Nat /\ e[j] <= f.len
      BY <1>2, <1>3, <2>1
    <3>3. \A j \in 1..i - 1 : d[j] < f.len + 1
      BY <1>1, <3>2
    <3>4. QED
      BY <1>1, <1>4, <3>1, <3>3
  <2>2. CASE i \in 1..Len(e)
    <3>1. \A j \in 1..i - 1 : j \in 1..Len(e)
      BY <1>2, <2>2
    <3>2. QED
      BY <1>1, <1>2, <1>3, <2>2, <3>1
  <2>3. QED
    BY <1>2, <2>1, <2>2
<1>7. InOrder(g, d)
  BY <1>1, <1>4, <1>6 DEF InOrder
<1>8. Reported(f) => Reported(g)
  BY <1>1 DEF Reported
<1>9. QED
  BY <1>1, <1>5, <1>7, <1>8 DEF g, d

\* The comparison of main reports the frame that comes after a missing one.
LEMMA RecvInOrder ==
    ASSUME NEW f \in PerfRecords, NEW e \in Seq(Nat), e # <<>>, InOrder(f, e), Reported(f)
    PROVE  LET n == Head(e)
               g == [len |-> f.len, count |-> LastCount(f, n), got |-> f.got \cup {n},
                     reports |-> f.reports \cup (IF n # f.count + 1 THEN {n} ELSE {})]
           IN  g \in PerfRecords /\ g.len = f.len /\ InOrder(g, Tail(e)) /\ Reported(g)
<1> DEFINE n == Head(e)
           g == [len |-> f.len, count |-> LastCount(f, n), got |-> f.got \cup {n},
                 reports |-> f.reports \cup (IF n # f.count + 1 THEN {n} ELSE {})]
<1>1. /\ n \in Nat /\ f.count < n /\ n <= f.len /\ InOrder(f, Tail(e))
      /\ \A i \in 1..Len(Tail(e)) : n < Tail(e)[i]
  BY TailInOrder
<1>2. /\ f.len \in Nat /\ f.count \in Nat /\ f.got \subseteq 1..f.count /\ f.reports \subseteq Nat
      /\ f.count = 0 \/ f.count \in f.got
  BY DEF PerfRecords, InOrder
<1> HIDE DEF n
<1>3. /\ g \in PerfRecords /\ g.len = f.len /\ g.count = n /\ g.got = f.got \cup {n}
      /\ g.reports = f.reports \cup (IF n # f.count + 1 THEN {n} ELSE {})
  BY <1>1, <1>2 DEF PerfRecords, LastCount
<1> HIDE DEF g
<1>4. InOrder(g, Tail(e))
  BY <1>1, <1>2, <1>3 DEF InOrder
<1>5. Reported(g)
  <2>1. n # 1 /\ n - 1 \notin g.got <=> n # f.count + 1
    BY <1>1, <1>2, <1>3
  <2>2. \A m \in f.got : m - 1 \in g.got <=> m - 1 \in f.got
    BY <1>1, <1>2, <1>3
  <2>3. f.reports = {m \in f.got : m # 1 /\ m - 1 \notin f.got}
    BY DEF Reported
  <2>4. QED
    BY <1>3, <2>1, <2>2, <2>3 DEF Reported
<1>6. QED
  BY <1>3, <1>4, <1>5 DEF g, n

\* Every step keeps the order of the frames.
LEMMA NextFrames == FrameInv /\ [Next]_vars => FrameInv'
<1> SUFFICES ASSUME FrameInv, [Next]_vars PROVE FrameInv'
  OBVIOUS
<1>1. ASSUME UNCHANGED <<perf, echo>> PROVE FrameInv'
  BY <1>1 DEF FrameInv
<1>2. ASSUME NEW p \in Progs, Forget(p) PROVE FrameInv'
  <2>1. \A q \in Perf : \/ perf'[q] = perf[q] /\ echo'[q] = echo[q]
                        \/ perf'[q] = NoFrames /\ echo'[q] = <<>>
    BY <1>2 DEF Forget
  <2>2. perf' \in [Perf -> PerfRecords] /\ echo' \in [Perf -> Seq(Nat)]
    BY <1>2, NoFramesInOrder DEF Forget, FrameInv
  <2>3. NoFrames.len <= MaxFrames
    BY Bounds DEF NoFrames
  <2>4. QED
    BY <2>1, <2>2, <2>3, NoFramesInOrder DEF FrameInv
<1>3. ASSUME NEW p \in Progs, Start(p) \/ Session(p) \/ Inner(p) \/ SigInt(p) \/ Kill(p)
      PROVE  FrameInv'
  <2>1. CASE Session(p)
    BY <1>1, <1>2, <2>1, SessionSteps DEF frameVars
  <2>2. CASE Kill(p)
    BY <1>2, <2>2 DEF Kill
  <2>3. QED
    BY <1>1, <1>3, <2>1, <2>2 DEF Start, Inner, Greet, LeaveLoop, Join, EndThread, Prompt, Scanf, Typed, SigInt,
       frameVars
<1>4. ASSUME NEW p \in Perf, Frames(p) PROVE FrameInv'
  <2>1. perf[p] \in PerfRecords /\ echo[p] \in Seq(Nat) /\ InOrder(perf[p], echo[p])
        /\ Reported(perf[p]) /\ perf[p].len <= MaxFrames /\ perf[p].len \in Nat
    BY DEF FrameInv, PerfRecords
  <2>2. ASSUME perf'[p] \in PerfRecords, echo'[p] \in Seq(Nat), perf'[p].len <= MaxFrames,
               InOrder(perf'[p], echo'[p]), Reported(perf'[p]),
               perf' = [perf EXCEPT ![p] = perf'[p]], echo' = [echo EXCEPT ![p] = echo'[p]]
        PROVE  FrameInv'
    <3>1. perf' \in [Perf -> PerfRecords] /\ echo' \in [Perf -> Seq(Nat)]
      BY <2>2 DEF FrameInv
    <3>2. \A q \in Perf \ {p} : perf'[q] = perf[q] /\ echo'[q] = echo[q]
      BY <2>2 DEF FrameInv
    <3>3. QED
      BY <2>2, <3>1, <3>2 DEF FrameInv
  <2>3. CASE SendFrame(p)
    <3> DEFINE g == [perf[p] EXCEPT !.len = @ + 1]
    <3>1. /\ g \in PerfRecords /\ Reported(g) /\ g.len = perf[p].len + 1
          /\ InOrder(g, echo[p]) /\ InOrder(g, Append(echo[p], perf[p].len + 1))
      BY <2>1, AppendInOrder DEF PerfRecords
    <3>2. perf' = [perf EXCEPT ![p] = g] /\ perf[p].len < MaxFrames
          /\ \/ echo' = [echo EXCEPT ![p] = Append(echo[p], perf[p].len + 1)]
             \/ echo' = [echo EXCEPT ![p] = echo[p]]
      BY <2>3 DEF SendFrame, FrameInv
    <3> HIDE DEF g
    <3>3. perf'[p] = g /\ (echo'[p] = echo[p] \/ echo'[p] = Append(echo[p], perf[p].len + 1))
          /\ perf' = [perf EXCEPT ![p] = perf'[p]] /\ echo' = [echo EXCEPT ![p] = echo'[p]]
      BY <3>2 DEF FrameInv
    <3>4. echo'[p] \in Seq(Nat)
      <4>1. perf[p].len + 1 \in Nat /\ Append(echo[p], perf[p].len + 1) \in Seq(Nat)
        BY <2>1
      <4>2. QED
        BY <2>1, <3>3, <4>1
    <3>5. g.len <= MaxFrames
      BY <2>1, <3>1, <3>2, Bounds
    <3>6. QED
      BY <2>2, <3>1, <3>3, <3>4, <3>5
  <2>4. CASE FrameLost(p)
    <3>1. echo'[p] = Tail(echo[p]) /\ perf'[p] = perf[p] /\ echo[p] # <<>>
          /\ perf' = [perf EXCEPT ![p] = perf'[p]] /\ echo' = [echo EXCEPT ![p] = echo'[p]]
      BY <2>4 DEF FrameLost, FrameInv
    <3>2. Tail(echo[p]) \in Seq(Nat) /\ InOrder(perf[p], Tail(echo[p]))
      BY <2>1, <3>1, TailInOrder
    <3>3. QED
      BY <2>1, <2>2, <3>1, <3>2
  <2>5. CASE RecvFrame(p)
    <3> DEFINE n == Head(echo[p])
               f == perf[p]
               g == [len |-> f.len, count |-> LastCount(f, n), got |-> f.got \cup {n},
                     reports |-> f.reports \cup (IF n # f.count + 1 THEN {n} ELSE {})]
    <3>1. perf' = [perf EXCEPT ![p] = g] /\ echo' = [echo EXCEPT ![p] = Tail(echo[p])]
          /\ echo[p] # <<>>
      BY <2>5 DEF RecvFrame
    <3>2. g \in PerfRecords /\ g.len = f.len /\ InOrder(g, Tail(echo[p])) /\ Reported(g)
      BY <2>1, <3>1, RecvInOrder
    <3> HIDE DEF g
    <3>3. echo'[p] = Tail(echo[p]) /\ perf'[p] = g /\ Tail(echo[p]) \in Seq(Nat)
          /\ perf' = [perf EXCEPT ![p] = perf'[p]] /\ echo' = [echo EXCEPT ![p] = echo'[p]]
      BY <2>1, <3>1 DEF FrameInv
    <3>4. QED
      BY <2>1, <2>2, <3>2, <3>3
  <2>6. CASE Analyse(p)
    BY <1>1, <2>6 DEF Analyse
  <2>7. QED
    BY <1>4, <2>3, <2>4, <2>5, <2>6 DEF Frames
<1>5. CASE StopR5
  <2>1. perf' = perf /\ \A q \in Perf : echo'[q] = <<>> /\ echo' \in [Perf -> Seq(Nat)]
    BY <1>5 DEF StopR5
  <2>2. echo' \in [Perf -> Seq(Nat)]
    BY <1>5 DEF StopR5
  <2>3. QED
    BY <2>1, <2>2, NoFramesInOrder DEF FrameInv
<1>6. CASE StartR5 \/ UNCHANGED vars
  BY <1>1, <1>6 DEF StartR5, vars, frameVars
<1>7. QED
  BY <1>3, <1>4, <1>5, <1>6, NextSteps

LEMMA InitFrames == Init => FrameInv
<1>1. MaxFrames >= 0 /\ NoFrames.len = 0
  BY Bounds DEF NoFrames
<1>2. QED
  BY <1>1, NoFramesInOrder DEF Init, FrameInv

\* "Up lost" (ampperf.c:793): main reports the frames that come after a missing one, whatever
\* the R5 loses and whenever it is restarted, and only those.
THEOREM GapsAreReported == Spec => []GapIsReported
<1>1. FrameInv => GapIsReported
  BY DEF FrameInv, GapIsReported, Reported
<1>2. QED
  BY InitFrames, NextFrames, <1>1, PTL DEF Spec

-----------------------------------------------------------------------------
(* Types, descriptors and the kernel.                                      *)

\* The descriptors and threads that a program has at each place.
FdInv ==
    \A p \in Progs :
        /\ pc[p] \in (SetUp \ {"create", "find", "open"}) \cup {"off", "unload"} => charfd[p] = 0
        /\ pc[p] \notin {"greet", "join", "close"} \cup InLoop => eptfd[p] = NoFd
        /\ pc[p] \notin {"greet", "join"} \cup InLoop \cup CleanUp => threads[p] = {}

\* A channel that is bound has its driver, and only a bound one has endpoints.
KernelInv ==
    /\ binding # 0 => loaded
    /\ binding = 0 => epts = NoEpts

Inv == TypeOK /\ FdInv /\ KernelInv /\ NothingLeft /\ FrameInv

\* Goto as a change of pc.
LEMMA GotoType ==
    ASSUME NEW p \in Progs, NEW from, NEW to \in Places, pc \in [Progs -> Places], Goto(p, from, to)
    PROVE  /\ pc' \in [Progs -> Places] /\ pc[p] = from /\ pc'[p] = to
           /\ \A q \in Progs \ {p} : pc'[q] = pc[q]
BY DEF Goto

\* The devices found are minors.
LEMMA FirstFound ==
    ASSUME TypeOK, Found # {}
    PROVE  Min(Found) \in Found /\ Min(Found) \in Minors
<1>1. Found \subseteq Minors /\ Minors \subseteq Nat
  BY Bounds DEF Found, Minors
<1>2. QED
  BY <1>1, MinIsFirst

-----------------------------------------------------------------------------
(* The endpoint a program works on.                                        *)

\* Programs that set up together know it.
TogetherInv ==
    \A p, q \in Progs : p # q /\ pc[p] \in SetUp /\ pc[q] \in SetUp => ~alone[p]

\* A program that is alone in its set-up has the binding for itself, from its own bind on.
BindingInv ==
    \A p \in Progs :
        /\ alone[p] /\ Valid(p) =>
              \A q \in Progs \ {p} : pc[q] # "ctrl" /\ charfd[q] # binding
        /\ alone[p] /\ pc[p] = "ctrl" /\ binding # 0 =>
              epts = NoEpts /\ \A q \in Progs \ {p} : charfd[q] # binding

\* The endpoints it finds are its own, and it goes on with one of them.
OwnInv ==
    \A p \in Progs :
        alone[p] /\ Valid(p) =>
            /\ pc[p] \in {"create", "find", "open"} => \A m \in Minors : epts[m] \in {None, p}
            /\ pc[p] \in {"greet"} \cup InLoop => eptfd[p] \in Minors /\ epts[eptfd[p]] = p

AloneInv == TogetherInv /\ BindingInv /\ OwnInv

-----------------------------------------------------------------------------
(* Inv is inductive.                                                       *)

\* At first nobody runs and nothing is loaded.
LEMMA InitInv == Init => Inv
<1> SUFFICES ASSUME Init PROVE Inv
  OBVIOUS
<1>1. TypeOK
  <2>1. \A p \in Perf : perf[p].count \in 0..perf[p].len /\ perf[p].len \in 0..MaxFrames
    BY Bounds DEF Init, NoFrames
  <2>2. charfd \in [Progs -> 0..bindings] /\ binding \in 0..bindings /\ bindings \in Nat
    BY DEF Init
  <2>3. QED
    BY <2>1, <2>2 DEF Init, TypeOK, Places, NoEpts, NoFd
<1>2. FdInv /\ KernelInv /\ NothingLeft /\ FrameInv
  BY InitFrames DEF Init, FdInv, KernelInv, NothingLeft, SetUp, Found, NoEpts
<1>3. QED
  BY <1>1, <1>2 DEF Inv

\* Types under the steps of a session, short of the frames.
LEMMA StepTypes ==
    ASSUME Inv, NEW p \in Progs, Step(p)
    PROVE  /\ channel' \in BOOLEAN /\ override' \in BOOLEAN /\ loaded' \in BOOLEAN
           /\ bindings' \in Nat /\ binding' \in 0..bindings' /\ bindings' >= bindings
           /\ epts' \in [Minors -> Progs \cup {None}] /\ pc' \in [Progs -> Places]
           /\ charfd' \in [Progs -> 0..bindings'] /\ eptfd' \in [Progs -> Minors \cup {NoFd}]
           /\ threads' \in [Progs -> SUBSET {"receive", "analyse"}]
<1> USE DEF kernelVars, fdVars
<1> DEFINE Fds == charfd' \in [Progs -> 0..bindings'] /\ eptfd' \in [Progs -> Minors \cup {NoFd}]
           Bound == bindings' \in Nat /\ binding' \in 0..bindings' /\ bindings' >= bindings
           Rest == /\ channel' \in BOOLEAN /\ override' \in BOOLEAN /\ loaded' \in BOOLEAN
                   /\ epts' \in [Minors -> Progs \cup {None}]
                   /\ threads' \in [Progs -> SUBSET {"receive", "analyse"}]
<1>1. pc' \in [Progs -> Places]
  BY DEF Inv, TypeOK, Step, Modprobe, Access, Override, Bind, OpenCtrl, CreateEpt, FindEpt, OpenEpt,
     CloseEpt, DestroyEpt, CloseCtrl, StopRemote, Goto, Test, Places, SetUp, CleanUp, InLoop
<1>2. Bound
  BY DEF Inv, TypeOK, Step, Modprobe, Access, Override, Bind, OpenCtrl, CreateEpt, FindEpt, OpenEpt,
     CloseEpt, DestroyEpt, CloseCtrl, StopRemote, Rebind
<1>3. Rest
  <2>1. CASE CreateEpt(p) \/ OpenEpt(p)
    BY <2>1 DEF Inv, TypeOK, CreateEpt, OpenEpt
  <2>2. CASE StopRemote(p)
    BY <2>2 DEF Inv, TypeOK, StopRemote, NoEpts
  <2>3. QED
    BY <2>1, <2>2 DEF Inv, TypeOK, Step, Modprobe, Access, Override, Bind, OpenCtrl, FindEpt,
       CloseEpt, DestroyEpt, CloseCtrl
<1>4. Fds
  <2>1. 0..bindings \subseteq 0..bindings'
    BY <1>2 DEF Inv, TypeOK
  <2>2. CASE OpenEpt(p)
    <3>1. eptfd' \in [Progs -> Minors \cup {NoFd}]
      BY <2>2, FirstFound DEF OpenEpt, Inv, TypeOK
    <3>2. QED
      BY <2>1, <2>2, <3>1 DEF OpenEpt, Inv, TypeOK
  <2>3. QED
    BY <2>1, <2>2, <1>2 DEF Inv, TypeOK, Step, Modprobe, Access, Override, Bind, OpenCtrl, CreateEpt,
       FindEpt, CloseEpt, DestroyEpt, CloseCtrl, StopRemote
<1>5. QED
  BY <1>1, <1>2, <1>3, <1>4

\* A step of a session keeps the descriptors in their places.
LEMMA StepFd ==
    ASSUME Inv, NEW p \in Progs, Step(p)
    PROVE  FdInv'
<1> SUFFICES ASSUME NEW q \in Progs
             PROVE  /\ pc'[q] \in (SetUp \ {"create", "find", "open"}) \cup {"off", "unload"}
                          => charfd'[q] = 0
                    /\ pc'[q] \notin {"greet", "join", "close"} \cup InLoop => eptfd'[q] = NoFd
                    /\ pc'[q] \notin {"greet", "join"} \cup InLoop \cup CleanUp => threads'[q] = {}
  BY DEF FdInv
<1> USE DEF Inv, TypeOK, FdInv, Places, SetUp, CleanUp, InLoop, kernelVars, fdVars
<1>1. CASE Modprobe(p) \/ Access(p) \/ Override(p) \/ Bind(p)
  BY <1>1 DEF Modprobe, Access, Override, Bind, Goto, Test
<1>2. CASE OpenCtrl(p)
  BY <1>2 DEF OpenCtrl, Goto, Test
<1>3. CASE CreateEpt(p) \/ FindEpt(p)
  BY <1>3 DEF CreateEpt, FindEpt, Goto, Test
<1>4. CASE OpenEpt(p)
  BY <1>4 DEF OpenEpt, Goto, Test
<1>5. CASE CloseEpt(p) \/ DestroyEpt(p)
  BY <1>5 DEF CloseEpt, DestroyEpt, Goto
<1>6. CASE CloseCtrl(p) \/ StopRemote(p)
  BY <1>6 DEF CloseCtrl, StopRemote, Goto
<1>7. QED
  BY <1>1, <1>2, <1>3, <1>4, <1>5, <1>6 DEF Step

\* And it keeps the driver as long as the channel is bound.
LEMMA StepKernel ==
    ASSUME Inv, NEW p \in Progs, Step(p)
    PROVE  KernelInv'
<1> USE DEF Inv, TypeOK, KernelInv, kernelVars
<1>1. CASE Modprobe(p) \/ Bind(p)
  BY <1>1 DEF Modprobe, Bind, Rebind
<1>2. CASE CreateEpt(p)
  BY <1>2 DEF CreateEpt, Valid
<1>3. CASE StopRemote(p)
  BY <1>3 DEF StopRemote
<1>4. CASE UNCHANGED <<loaded, binding, epts>>
  BY <1>4
<1>5. QED
  BY <1>1, <1>2, <1>3, <1>4 DEF Step, Access, Override, OpenCtrl, FindEpt, OpenEpt, CloseEpt,
     DestroyEpt, CloseCtrl

\* The program that ends last finds nobody that uses the driver.
LEMMA StepNothingLeft ==
    ASSUME Inv, NEW p \in Progs, Step(p), UNCHANGED killed
    PROVE  NothingLeft'
<1> SUFFICES ASSUME \A q \in Progs : pc'[q] = "off", ~killed
             PROVE  ~loaded' /\ Found' = {}
  BY DEF NothingLeft
<1>1. StopRemote(p)
  BY DEF Inv, TypeOK, Step, Modprobe, Access, Override, Bind, OpenCtrl, CreateEpt, FindEpt, OpenEpt,
     CloseEpt, DestroyEpt, CloseCtrl, Goto, Test
<1>2. pc[p] = "unload" /\ \A q \in Progs \ {p} : pc[q] = "off"
  BY <1>1 DEF StopRemote, Goto, Inv, TypeOK
<1>3. ~InUse
  BY <1>2 DEF InUse, Inv, FdInv, InLoop, CleanUp
<1>4. QED
  BY <1>1, <1>3 DEF StopRemote, Found, NoEpts

\* Every step keeps Inv.
LEMMA NextInv == Inv /\ [Next]_vars => Inv'
<1> SUFFICES ASSUME Inv, [Next]_vars PROVE Inv'
  OBVIOUS
<1>0. /\ FrameInv'
      /\ \A q \in Perf : perf'[q].count \in 0..perf'[q].len /\ perf'[q].len \in 0..MaxFrames
  <2>1. FrameInv'
    BY NextFrames DEF Inv
  <2>2. QED
    BY <2>1, Bounds DEF FrameInv, PerfRecords, InOrder
<1>1. ASSUME NEW p \in Progs, Session(p) PROVE Inv'
  <2>1. Step(p) /\ UNCHANGED countVars
    BY <1>1, SessionSteps
  <2>2. loop' \in [Progs -> BOOLEAN] /\ alone' \in [Progs -> BOOLEAN]
    BY <1>1, SessionSteps DEF Forget, Inv, TypeOK
  <2>3. TypeOK'
    BY <1>0, <2>1, <2>2, StepTypes DEF Inv, TypeOK, countVars
  <2>4. QED
    BY <1>0, <2>1, <2>3, StepFd, StepKernel, StepNothingLeft DEF Inv, countVars
<1>2. ASSUME NEW p \in Progs, Start(p) PROVE Inv'
  <2>1. pc' = [pc EXCEPT ![p] = "modprobe"] /\ pc[p] = "off"
    BY <1>2 DEF Start, Goto
  <2>2. TypeOK'
    BY <1>2, <2>1 DEF Start, Inv, TypeOK, kernelVars, fdVars, frameVars, Places, SetUp
  <2>3. FdInv'
    BY <1>2, <2>1 DEF Start, Inv, TypeOK, FdInv, kernelVars, fdVars, SetUp, InLoop, CleanUp
  <2>4. KernelInv' /\ NothingLeft'
    BY <1>2, <2>1 DEF Start, Inv, TypeOK, KernelInv, NothingLeft, kernelVars
  <2>5. QED
    BY <1>0, <2>2, <2>3, <2>4 DEF Inv
<1>3. ASSUME NEW p \in Progs, Inner(p) PROVE Inv'
  <2>1. UNCHANGED <<kernelVars, fdVars, loop, alone, frameVars, countVars>>
    BY <1>3 DEF Inner, Greet, LeaveLoop, Join, EndThread, Prompt, Scanf, Typed
  <2>2. /\ pc' \in [Progs -> Places]
        /\ threads' \in [Progs -> SUBSET {"receive", "analyse"}]
        /\ \A q \in Progs \ {p} : pc'[q] = pc[q] /\ threads'[q] = threads[q]
        /\ \/ pc'[p] = pc[p]
           \/ pc[p] \in {"greet", "join"} \cup InLoop /\ pc'[p] \in {"join", "close"} \cup InLoop
        /\ threads'[p] \subseteq threads[p]
    <3>1. CASE Greet(p)
      BY <3>1 DEF Greet, Goto, Inv, TypeOK, Places, CleanUp, InLoop
    <3>2. CASE LeaveLoop(p) \/ Join(p) \/ Prompt(p) \/ Scanf(p) \/ Typed(p)
      BY <3>2 DEF LeaveLoop, Join, Prompt, Scanf, Typed, Goto, Inv, TypeOK, Places, CleanUp, InLoop
    <3>3. CASE EndThread(p)
      <4>1. PICK t \in threads[p] : threads' = [threads EXCEPT ![p] = @ \ {t}]
        BY <3>3 DEF EndThread
      <4>2. pc' = pc
        BY <3>3 DEF EndThread
      <4>3. threads[p] \ {t} \in SUBSET {"receive", "analyse"} /\ threads[p] \ {t} \subseteq threads[p]
        BY DEF Inv, TypeOK
      <4>4. /\ threads' \in [Progs -> SUBSET {"receive", "analyse"}] /\ threads'[p] \subseteq threads[p]
            /\ \A q \in Progs \ {p} : threads'[q] = threads[q]
        BY <4>1, <4>3 DEF Inv, TypeOK
      <4>5. /\ pc' \in [Progs -> Places] /\ pc'[p] = pc[p]
            /\ \A q \in Progs : pc'[q] = pc[q]
        BY <4>2 DEF Inv, TypeOK
      <4>6. \A q \in Progs \ {p} : pc'[q] = pc[q] /\ threads'[q] = threads[q]
        BY <4>4, <4>5
      <4>7. QED
        BY <4>4, <4>5, <4>6
    <3>4. QED
      BY <1>3, <3>1, <3>2, <3>3 DEF Inner
  <2>3. TypeOK'
    BY <2>1, <2>2 DEF Inv, TypeOK, kernelVars, fdVars, frameVars, countVars
  <2>4. FdInv'
    BY <2>1, <2>2 DEF Inv, TypeOK, FdInv, fdVars, SetUp, CleanUp, InLoop
  <2>5. KernelInv'
    BY <2>1 DEF Inv, KernelInv, kernelVars
  <2>6. NothingLeft'
    BY <2>1, <2>2 DEF Inv, NothingLeft, kernelVars, countVars, Found, InLoop
  <2>7. QED
    BY <1>0, <2>3, <2>4, <2>5, <2>6 DEF Inv
<1>4. ASSUME NEW p \in Progs, SigInt(p) PROVE Inv'
  <2>1. /\ \A q \in Progs : pc'[q] = pc[q] \/ (pc[q] = "scanf" /\ pc'[q] = "run")
        /\ pc' \in [Progs -> Places] /\ loop' \in [Progs -> BOOLEAN]
        /\ UNCHANGED <<kernelVars, fdVars, threads, alone, frameVars, countVars>>
    BY <1>4 DEF SigInt, Inv, TypeOK, Places, InLoop
  <2>2. TypeOK'
    BY <1>0, <2>1 DEF Inv, TypeOK, kernelVars, fdVars, frameVars, countVars
  <2>3. FdInv' /\ KernelInv' /\ NothingLeft'
    BY <2>1 DEF Inv, FdInv, KernelInv, NothingLeft, Found, InLoop, SetUp, CleanUp, kernelVars, fdVars,
       countVars
  <2>4. QED
    BY <1>0, <2>2, <2>3 DEF Inv
<1>5. ASSUME NEW p \in Progs, Kill(p) PROVE Inv'
  <2>1. TypeOK'
    BY <1>0, <1>5, Bounds DEF Kill, Forget, Inv, TypeOK, kernelVars, Places, Minors, NoFd
  <2>2. FdInv' /\ KernelInv' /\ NothingLeft'
    BY <1>5 DEF Kill, Inv, TypeOK, FdInv, KernelInv, NothingLeft, kernelVars
  <2>3. QED
    BY <1>0, <2>1, <2>2 DEF Inv
<1>6. ASSUME NEW p \in Perf, Frames(p) PROVE Inv'
  <2>1. UNCHANGED <<kernelVars, pc, fdVars, loop, threads, alone, countVars>>
    BY <1>6 DEF Frames, SendFrame, FrameLost, RecvFrame, Analyse
  <2>2. FdInv' /\ KernelInv' /\ NothingLeft'
    BY <2>1 DEF Inv, FdInv, KernelInv, NothingLeft, Found, kernelVars, fdVars, countVars
  <2>3. TypeOK'
    BY <1>0, <2>1 DEF Inv, TypeOK, kernelVars, fdVars, countVars
  <2>4. QED
    BY <1>0, <2>2, <2>3 DEF Inv
<1>7. CASE StopR5
  <2>1. epts' \in [Minors -> Progs \cup {None}] /\ binding' \in 0..bindings
    BY <1>7 DEF StopR5, Inv, TypeOK, NoEpts
  <2>2. UNCHANGED <<loaded, bindings, pc, charfd, eptfd, loop, threads, alone, killed>>
    BY <1>7 DEF StopR5, fdVars
  <2>3. channel' \in BOOLEAN /\ override' \in BOOLEAN
    BY <1>7 DEF StopR5
  <2>4. TypeOK'
    BY <1>0, <2>1, <2>2, <2>3 DEF Inv, TypeOK
  <2>5. FdInv' /\ KernelInv'
    BY <1>7 DEF StopR5, Inv, FdInv, KernelInv, fdVars
  <2>6. NothingLeft'
    BY <1>7 DEF StopR5, Inv, NothingLeft, Found, NoEpts
  <2>7. QED
    BY <1>0, <2>4, <2>5, <2>6 DEF Inv
<1>8. CASE StartR5 \/ UNCHANGED vars
  <2>1. /\ UNCHANGED <<override, loaded, binding, bindings, epts, pc, charfd, eptfd, loop, threads,
                       alone, killed>>
        /\ channel' \in BOOLEAN
    BY <1>8 DEF StartR5, vars, Inv, TypeOK, kernelVars, fdVars, countVars
  <2>2. TypeOK'
    BY <1>0, <2>1 DEF Inv, TypeOK
  <2>3. FdInv' /\ KernelInv' /\ NothingLeft'
    BY <2>1 DEF Inv, FdInv, KernelInv, NothingLeft, Found
  <2>4. QED
    BY <1>0, <2>2, <2>3 DEF Inv
<1>9. QED
  BY <1>1, <1>2, <1>3, <1>4, <1>5, <1>6, <1>7, <1>8, NextSteps

-----------------------------------------------------------------------------
(* AloneInv is inductive.                                                  *)

\* A binding is valid for a program as long as it is the present one.
LEMMA NewBinding ==
    ASSUME Inv, charfd' = charfd, Rebind
    PROVE  \A p \in Progs : ~Valid(p)' /\ charfd'[p] # binding'
BY DEF Inv, TypeOK, Rebind, Valid

\* What the places of the others and the present binding are good for does not change when
\* only the program p moves on, out of its set-up or within it, with what it has.
LEMMA MoveAlone ==
    ASSUME AloneInv, NEW p \in Progs, pc' \in [Progs -> Places],
           UNCHANGED <<binding, epts, charfd, eptfd, alone>>,
           \A q \in Progs \ {p} : pc'[q] = pc[q],
           pc'[p] \in SetUp => pc[p] \in SetUp,
           pc'[p] = "ctrl" => pc[p] = "ctrl",
           pc'[p] \in {"create", "find", "open"} => pc[p] \in {"create", "find", "open"},
           pc'[p] \in {"greet"} \cup InLoop => pc[p] \in {"greet"} \cup InLoop
    PROVE  AloneInv'
<1>1. \A q \in Progs : Valid(q)' <=> Valid(q)
  BY DEF Valid
<1>2. TogetherInv'
  BY DEF AloneInv, TogetherInv
<1>3. BindingInv'
  BY <1>1 DEF AloneInv, BindingInv
<1>4. OwnInv'
  BY <1>1 DEF AloneInv, OwnInv
<1>5. QED
  BY <1>2, <1>3, <1>4 DEF AloneInv

\* Without a binding there is nothing to share.
LEMMA UnboundAlone ==
    ASSUME AloneInv, pc' \in [Progs -> Places], binding' = 0,
           \A q \in Progs : pc'[q] \in SetUp => pc[q] \in SetUp /\ alone'[q] = alone[q]
    PROVE  AloneInv'
<1>1. \A q \in Progs : ~Valid(q)'
  BY DEF Valid
<1>2. TogetherInv'
  BY DEF AloneInv, TogetherInv
<1>3. QED
  BY <1>1, <1>2 DEF AloneInv, BindingInv, OwnInv

LEMMA InitAlone == Init => AloneInv
BY DEF Init, AloneInv, TogetherInv, BindingInv, OwnInv, SetUp, Valid

\* The set-up: modprobe and bind may bind the channel.
LEMMA BindAlone ==
    ASSUME Inv, AloneInv, NEW p \in Progs, Modprobe(p) \/ Bind(p), UNCHANGED alone
    PROVE  AloneInv'
<1>1. /\ pc' \in [Progs -> Places] /\ \A q \in Progs \ {p} : pc'[q] = pc[q]
      /\ pc[p] \in {"modprobe", "bind"} /\ pc'[p] \in {"access", "ctrl", "unload"}
      /\ UNCHANGED <<epts, charfd, eptfd>>
  BY DEF Modprobe, Bind, Goto, Test, Inv, TypeOK, Places, SetUp, CleanUp, fdVars
<1>2. CASE Rebind
  <2>1. pc'[p] = "ctrl" => epts' = NoEpts
    BY <1>2 DEF Inv, TypeOK, KernelInv, Modprobe, Bind, Goto, Test, Rebind
  <2>2. \A q \in Progs : ~Valid(q)' /\ charfd'[q] # binding'
    BY <1>1, <1>2, NewBinding
  <2>3. \A q \in Progs \ {p} : pc'[q] = "ctrl" => ~alone[q]
    BY <1>1 DEF AloneInv, TogetherInv, SetUp
  <2>4. TogetherInv'
    BY <1>1 DEF AloneInv, TogetherInv, SetUp
  <2>5. BindingInv'
    BY <2>1, <2>2, <2>3 DEF BindingInv
  <2>6. OwnInv'
    BY <2>2 DEF OwnInv
  <2>7. QED
    BY <2>4, <2>5, <2>6 DEF AloneInv
<1>3. CASE binding' = binding /\ pc'[p] # "ctrl"
  BY <1>1, <1>3, MoveAlone DEF SetUp, InLoop
<1>4. pc'[p] = "ctrl" => Rebind
  BY DEF Modprobe, Bind, Goto, Test, Inv, TypeOK
<1>5. Rebind \/ binding' = binding
  BY DEF Modprobe, Bind
<1>6. QED
  BY <1>2, <1>3, <1>4, <1>5

\* The program that bound the channel opens its control device.
LEMMA CtrlAlone ==
    ASSUME Inv, AloneInv, NEW p \in Progs, OpenCtrl(p), UNCHANGED alone
    PROVE  AloneInv'
<1>1. /\ pc' \in [Progs -> Places] /\ \A q \in Progs \ {p} : pc'[q] = pc[q]
      /\ pc[p] = "ctrl" /\ pc'[p] = IF binding # 0 THEN "create" ELSE "unload"
      /\ charfd' = [charfd EXCEPT ![p] = binding] /\ UNCHANGED <<binding, epts, eptfd>>
  BY DEF OpenCtrl, Goto, Test, Inv, TypeOK, Places, SetUp, CleanUp, kernelVars
<1>2. CASE binding = 0
  BY <1>1, <1>2, UnboundAlone DEF SetUp
<1>3. CASE binding # 0
  <2>1. /\ \A q \in Progs \ {p} : charfd'[q] = charfd[q] /\ (Valid(q)' <=> Valid(q))
        /\ charfd'[p] = binding /\ Valid(p)'
    BY <1>1, <1>3 DEF Inv, TypeOK, Valid
  <2>2. \A q \in Progs \ {p} : alone[q] => ~Valid(q) /\ pc[q] # "ctrl"
    BY <1>1 DEF AloneInv, TogetherInv, BindingInv, SetUp
  <2>3. alone[p] => epts = NoEpts /\ \A q \in Progs \ {p} : charfd[q] # binding /\ pc[q] # "ctrl"
    BY <1>1, <1>3 DEF AloneInv, TogetherInv, BindingInv, SetUp
  <2>4. TogetherInv'
    BY <1>1 DEF AloneInv, TogetherInv, SetUp
  <2>5. BindingInv'
    <3> SUFFICES ASSUME NEW q \in Progs
                 PROVE  /\ alone'[q] /\ Valid(q)' =>
                              \A r \in Progs \ {q} : pc'[r] # "ctrl" /\ charfd'[r] # binding'
                        /\ alone'[q] /\ pc'[q] = "ctrl" /\ binding' # 0 =>
                              epts' = NoEpts /\ \A r \in Progs \ {q} : charfd'[r] # binding'
      BY DEF BindingInv
    <3>1. CASE q = p
      BY <1>1, <1>3, <2>1, <2>3, <3>1
    <3>2. CASE q # p
      BY <1>1, <2>1, <2>2, <3>2
    <3>3. QED
      BY <3>1, <3>2
  <2>6. OwnInv'
    <3>1. alone[p] => \A m \in Minors : epts'[m] = None
      BY <1>1, <2>3 DEF NoEpts
    <3>2. QED
      BY <1>1, <1>3, <2>1, <2>2, <3>1 DEF OwnInv, InLoop
  <2>7. QED
    BY <2>4, <2>5, <2>6 DEF AloneInv
<1>4. QED
  BY <1>2, <1>3

\* It creates an endpoint on it, when it is still bound.
LEMMA CreateAlone ==
    ASSUME Inv, AloneInv, NEW p \in Progs, CreateEpt(p), UNCHANGED alone
    PROVE  AloneInv'
<1>1. /\ pc' \in [Progs -> Places] /\ \A q \in Progs \ {p} : pc'[q] = pc[q]
      /\ pc[p] = "create" /\ pc'[p] = IF Valid(p) THEN "find" ELSE "closectrl"
      /\ UNCHANGED <<binding, charfd, eptfd>> /\ (~Valid(p) => epts' = epts)
  BY DEF CreateEpt, Goto, Test, Inv, TypeOK, Places, SetUp, CleanUp, fdVars
<1>2. CASE ~Valid(p)
  BY <1>1, <1>2, MoveAlone DEF SetUp, InLoop
<1>3. CASE Valid(p)
  <2>1. \A q \in Progs : Valid(q)' <=> Valid(q)
    BY <1>1 DEF Valid
  <2>2. \A q \in Progs \ {p} : alone[q] => ~Valid(q) /\ pc[q] # "ctrl"
    BY <1>1, <1>3 DEF AloneInv, TogetherInv, BindingInv, SetUp, Valid
  <2>3. \A m \in Minors : epts'[m] \in {epts[m], p}
    BY <1>3 DEF CreateEpt, Inv, TypeOK
  <2>4. TogetherInv'
    BY <1>1 DEF AloneInv, TogetherInv, SetUp
  <2>5. BindingInv'
    BY <1>1, <1>3, <2>1, <2>2 DEF AloneInv, BindingInv
  <2>6. OwnInv'
    BY <1>1, <1>3, <2>1, <2>2, <2>3 DEF AloneInv, OwnInv, InLoop
  <2>7. QED
    BY <2>4, <2>5, <2>6 DEF AloneInv
<1>4. QED
  BY <1>2, <1>3

\* The first one that it finds is one that it created.
LEMMA OpenAlone ==
    ASSUME Inv, AloneInv, NEW p \in Progs, OpenEpt(p), UNCHANGED alone
    PROVE  AloneInv'
<1>1. /\ pc' \in [Progs -> Places] /\ \A q \in Progs \ {p} : pc'[q] = pc[q]
      /\ pc[p] = "open" /\ pc'[p] \in {"greet", "run", "destroy"}
      /\ UNCHANGED <<binding, charfd, epts>>
      /\ \A q \in Progs \ {p} : eptfd'[q] = eptfd[q]
  BY DEF OpenEpt, Goto, Test, Inv, TypeOK, Places, SetUp, CleanUp, kernelVars, InLoop
<1>2. \A q \in Progs : Valid(q)' <=> Valid(q)
  BY <1>1 DEF Valid
<1>3. TogetherInv' /\ BindingInv'
  BY <1>1, <1>2 DEF AloneInv, TogetherInv, BindingInv, SetUp
<1>4. pc'[p] \in {"greet", "run"} => Found # {} /\ eptfd'[p] = Min(Found)
  BY DEF OpenEpt, Goto, Test, Inv, TypeOK
<1>5. pc'[p] \in {"greet", "run"} => eptfd'[p] \in Minors /\ epts[eptfd'[p]] # None
  BY <1>4, FirstFound DEF Inv, Found
<1>6. alone[p] /\ Valid(p) => \A m \in Minors : epts[m] \in {None, p}
  BY <1>1 DEF AloneInv, OwnInv
<1>7. OwnInv'
  <2> SUFFICES ASSUME NEW q \in Progs, alone'[q], Valid(q)'
               PROVE  /\ pc'[q] \in {"create", "find", "open"} => \A m \in Minors : epts'[m] \in {None, q}
                      /\ pc'[q] \in {"greet"} \cup InLoop => eptfd'[q] \in Minors /\ epts'[eptfd'[q]] = q
    BY DEF OwnInv
  <2>1. CASE q = p
    BY <1>1, <1>2, <1>5, <1>6, <2>1 DEF InLoop
  <2>2. CASE q # p
    BY <1>1, <1>2, <2>2 DEF AloneInv, OwnInv
  <2>3. QED
    BY <2>1, <2>2
<1>8. QED
  BY <1>3, <1>7 DEF AloneInv

\* The way out.
LEMMA ExitAlone ==
    ASSUME Inv, AloneInv, NEW p \in Progs, CloseEpt(p) \/ CloseCtrl(p), UNCHANGED alone
    PROVE  AloneInv'
<1>1. /\ pc' \in [Progs -> Places] /\ \A q \in Progs \ {p} : pc'[q] = pc[q]
      /\ pc'[p] \in {"destroy", "unload"} /\ UNCHANGED <<binding, epts>>
      /\ \A q \in Progs \ {p} : charfd'[q] = charfd[q] /\ eptfd'[q] = eptfd[q]
      /\ charfd'[p] \in {0, charfd[p]}
  BY DEF CloseEpt, CloseCtrl, Goto, Inv, TypeOK, Places, SetUp, CleanUp, kernelVars
<1>2. \A q \in Progs : Valid(q)' => Valid(q)
  BY <1>1 DEF Valid
<1>3. TogetherInv'
  BY <1>1 DEF AloneInv, TogetherInv, SetUp
<1>4. \A q \in Progs : charfd'[q] = binding' /\ binding' # 0 => charfd[q] = binding
  BY <1>1
<1>5. BindingInv'
  <2> SUFFICES ASSUME NEW q \in Progs, alone'[q]
               PROVE  /\ Valid(q)' => \A r \in Progs \ {q} : pc'[r] # "ctrl" /\ charfd'[r] # binding'
                      /\ pc'[q] = "ctrl" /\ binding' # 0 =>
                            epts' = NoEpts /\ \A r \in Progs \ {q} : charfd'[r] # binding'
    BY DEF BindingInv
  <2>1. ASSUME Valid(q)' PROVE \A r \in Progs \ {q} : pc'[r] # "ctrl" /\ charfd'[r] # binding'
    <3>1. binding' # 0 /\ \A r \in Progs \ {q} : pc[r] # "ctrl" /\ charfd[r] # binding
      BY <1>2, <2>1 DEF AloneInv, BindingInv, Valid
    <3>2. QED
      BY <1>1, <1>4, <3>1
  <2>2. ASSUME pc'[q] = "ctrl", binding' # 0
        PROVE  epts' = NoEpts /\ \A r \in Progs \ {q} : charfd'[r] # binding'
    <3>1. pc[q] = "ctrl" /\ binding # 0
      BY <1>1, <2>2
    <3>2. epts = NoEpts /\ \A r \in Progs \ {q} : charfd[r] # binding
      BY <3>1 DEF AloneInv, BindingInv
    <3>3. QED
      BY <1>1, <1>4, <2>2, <3>2
  <2>3. QED
    BY <2>1, <2>2
<1>6. OwnInv'
  BY <1>1, <1>2 DEF AloneInv, OwnInv, InLoop
<1>7. QED
  BY <1>3, <1>5, <1>6 DEF AloneInv

\* A program that is gone has nothing and is nowhere.
LEMMA GoneAlone ==
    ASSUME AloneInv, NEW p \in Progs, pc' = [pc EXCEPT ![p] = "off"], pc \in [Progs -> Places],
           UNCHANGED <<binding, epts>>, charfd'[p] = 0,
           \A q \in Progs \ {p} : charfd'[q] = charfd[q] /\ eptfd'[q] = eptfd[q] /\ alone'[q] = alone[q]
    PROVE  AloneInv'
<1>1. \A q \in Progs \ {p} : pc'[q] = pc[q] /\ (Valid(q)' <=> Valid(q))
  BY DEF Valid
<1>2. pc'[p] = "off" /\ ~Valid(p)'
  BY DEF Valid
<1>3. TogetherInv'
  BY <1>1, <1>2 DEF AloneInv, TogetherInv, SetUp
<1>4. BindingInv'
  <2> SUFFICES ASSUME NEW q \in Progs, alone'[q]
               PROVE  /\ Valid(q)' => \A r \in Progs \ {q} : pc'[r] # "ctrl" /\ charfd'[r] # binding'
                      /\ pc'[q] = "ctrl" /\ binding' # 0 =>
                            epts' = NoEpts /\ \A r \in Progs \ {q} : charfd'[r] # binding'
    BY DEF BindingInv
  <2>1. CASE q = p
    BY <1>2, <2>1
  <2>2. CASE q # p
    <3>1. alone[q] /\ (Valid(q)' <=> Valid(q)) /\ pc'[q] = pc[q]
      BY <1>1, <2>2
    <3>2. ASSUME Valid(q) PROVE \A r \in Progs \ {q} : pc'[r] # "ctrl" /\ charfd'[r] # binding'
      <4>1. binding # 0 /\ \A r \in Progs \ {q} : pc[r] # "ctrl" /\ charfd[r] # binding
        BY <3>1, <3>2 DEF AloneInv, BindingInv, Valid
      <4>2. QED
        BY <1>1, <1>2, <4>1
    <3>3. ASSUME pc[q] = "ctrl", binding # 0
          PROVE  epts = NoEpts /\ \A r \in Progs \ {q} : charfd'[r] # binding
      BY <3>1, <3>3 DEF AloneInv, BindingInv
    <3>4. QED
      BY <3>1, <3>2, <3>3
  <2>3. QED
    BY <2>1, <2>2
<1>5. OwnInv'
  BY <1>1, <1>2 DEF AloneInv, OwnInv
<1>6. QED
  BY <1>3, <1>4, <1>5 DEF AloneInv

\* Whoever starts meets the programs that set up, and they meet it.
LEMMA StartAlone ==
    ASSUME Inv, AloneInv, NEW p \in Progs, Start(p)
    PROVE  AloneInv'
<1>1. /\ pc[p] = "off" /\ pc'[p] = "modprobe" /\ \A q \in Progs \ {p} : pc'[q] = pc[q]
      /\ UNCHANGED <<binding, epts, charfd, eptfd>>
  BY DEF Start, Goto, Inv, TypeOK, kernelVars, fdVars
<1>2. \A q \in Progs \ {p} : alone'[q] => alone[q] /\ pc[q] \notin SetUp
  BY DEF Start
<1>3. \A q \in Progs \ {p} : pc[q] \in SetUp => ~alone'[p]
  BY DEF Start
<1>4. ~Valid(p)' /\ \A q \in Progs : Valid(q)' <=> Valid(q)
  BY <1>1 DEF Valid, Inv, FdInv
<1>5. TogetherInv'
  BY <1>1, <1>2, <1>3 DEF TogetherInv
<1>6. BindingInv'
  BY <1>1, <1>2, <1>4 DEF AloneInv, BindingInv
<1>7. OwnInv'
  BY <1>1, <1>2, <1>4 DEF AloneInv, OwnInv
<1>8. QED
  BY <1>5, <1>6, <1>7 DEF AloneInv

\* Every step keeps AloneInv.
LEMMA NextAlone == Inv /\ AloneInv /\ [Next]_vars => AloneInv'
<1> SUFFICES ASSUME Inv, AloneInv, [Next]_vars PROVE AloneInv'
  OBVIOUS
<1>0. pc' \in [Progs -> Places] /\ pc \in [Progs -> Places]
  BY NextInv DEF Inv, TypeOK
<1>1. ASSUME NEW p \in Progs, Session(p) PROVE AloneInv'
  <2>1. Step(p)
    BY <1>1, SessionSteps
  <2>2. CASE StopRemote(p)
    <3>1. pc' = [pc EXCEPT ![p] = "off"] /\ pc[p] = "unload" /\ pc'[p] = "off"
      BY <1>0, <2>2 DEF StopRemote, Goto
    <3>2. charfd' = charfd /\ eptfd' = eptfd /\ charfd[p] = 0
      BY <2>2, <3>1 DEF StopRemote, fdVars, Inv, FdInv
    <3>3. \A q \in Progs \ {p} : alone'[q] = alone[q]
      BY <1>1, <3>1, SessionSteps DEF Forget, Inv, TypeOK
    <3>4. CASE InUse
      BY <1>0, <2>2, <3>1, <3>2, <3>3, <3>4, GoneAlone DEF StopRemote
    <3>5. CASE ~InUse
      <4>1. binding' = 0
        BY <2>2, <3>5 DEF StopRemote
      <4>2. QED
        BY <1>0, <3>1, <3>3, <4>1, UnboundAlone DEF SetUp
    <3>6. QED
      BY <3>4, <3>5
  <2>3. CASE ~StopRemote(p)
    <3>1. pc'[p] # "off"
      BY <1>0, <2>1, <2>3 DEF Step, Modprobe, Access, Override, Bind, OpenCtrl, CreateEpt, FindEpt,
         OpenEpt, CloseEpt, DestroyEpt, CloseCtrl, Goto, Test
    <3>2. UNCHANGED alone
      BY <1>1, <3>1, SessionSteps
    <3>3. CASE Access(p) \/ Override(p)
      <4>1. /\ pc[p] \in {"access", "override"} /\ pc'[p] \in {"override", "bind", "unload"}
            /\ \A q \in Progs \ {p} : pc'[q] = pc[q]
            /\ UNCHANGED <<binding, epts, charfd, eptfd>>
        BY <1>0, <3>3 DEF Access, Override, Goto, Test, kernelVars, fdVars
      <4>2. QED
        BY <1>0, <3>2, <4>1, MoveAlone DEF SetUp, InLoop
    <3>4. CASE FindEpt(p) \/ DestroyEpt(p)
      <4>1. /\ pc[p] \in {"find", "destroy"} /\ pc'[p] \in {"open", "destroy", "closectrl"}
            /\ (pc'[p] = "open" => pc[p] = "find")
            /\ \A q \in Progs \ {p} : pc'[q] = pc[q]
            /\ UNCHANGED <<binding, epts, charfd, eptfd>>
        BY <1>0, <3>4 DEF FindEpt, DestroyEpt, Goto, Test, kernelVars, fdVars
      <4>2. QED
        BY <1>0, <3>2, <4>1, MoveAlone DEF SetUp, InLoop
    <3>5. QED
      BY <2>1, <2>3, <3>2, <3>3, <3>4, BindAlone, CtrlAlone, CreateAlone, OpenAlone, ExitAlone DEF Step
  <2>4. QED
    BY <2>2, <2>3
<1>2. ASSUME NEW p \in Progs, Inner(p) PROVE AloneInv'
  <2>1. UNCHANGED <<binding, epts, charfd, eptfd, alone>>
    BY <1>2 DEF Inner, Greet, LeaveLoop, Join, EndThread, Prompt, Scanf, Typed, kernelVars, fdVars
  <2>2. /\ \A q \in Progs \ {p} : pc'[q] = pc[q]
        /\ pc'[p] \notin SetUp \/ pc'[p] = pc[p]
        /\ pc'[p] \in {"greet"} \cup InLoop => pc[p] \in {"greet"} \cup InLoop
    BY <1>0, <1>2 DEF Inner, Greet, LeaveLoop, Join, EndThread, Prompt, Scanf, Typed, Goto, InLoop, SetUp
  <2>3. QED
    BY <1>0, <2>1, <2>2, MoveAlone DEF SetUp
<1>3. ASSUME NEW p \in Progs, Kill(p) PROVE AloneInv'
  <2>1. charfd'[p] = 0 /\ UNCHANGED <<binding, epts>> /\ pc' = [pc EXCEPT ![p] = "off"]
    BY <1>3 DEF Kill, kernelVars, Inv, TypeOK
  <2>2. \A q \in Progs \ {p} : charfd'[q] = charfd[q] /\ eptfd'[q] = eptfd[q] /\ alone'[q] = alone[q]
    BY <1>3 DEF Kill, Forget, Inv, TypeOK
  <2>3. QED
    BY <1>0, <2>1, <2>2, GoneAlone
<1>4. ASSUME UNCHANGED <<binding, epts, charfd, eptfd, alone, pc>> PROVE AloneInv'
  BY <1>4 DEF AloneInv, TogetherInv, BindingInv, OwnInv, Valid
<1>5. CASE StopR5
  BY <1>0, <1>5, UnboundAlone DEF StopR5
<1>6. CASE StartR5 \/ UNCHANGED vars \/ (\E p \in Perf : Frames(p))
  BY <1>4, <1>6 DEF StartR5, vars, Frames, SendFrame, FrameLost, RecvFrame, Analyse,
     kernelVars, fdVars
<1>7. ASSUME NEW p \in Progs, SigInt(p) PROVE AloneInv'
  <2>1. /\ UNCHANGED <<binding, epts, charfd, eptfd, alone>>
        /\ \A q \in Progs \ {p} : pc'[q] = pc[q]
        /\ pc'[p] = pc[p] \/ (pc[p] = "scanf" /\ pc'[p] = "run")
    BY <1>0, <1>7 DEF SigInt, kernelVars, fdVars
  <2>2. QED
    BY <1>0, <2>1, MoveAlone DEF SetUp, InLoop
<1>8. QED
  BY <1>1, <1>2, <1>3, <1>5, <1>6, <1>7, StartAlone, NextSteps

\* TypeOK, for every instance.
THEOREM TypeCorrect == Spec => []TypeOK
<1>1. Inv => TypeOK
  BY DEF Inv
<1>2. QED
  BY InitInv, NextInv, <1>1, PTL DEF Spec

\* When all programs have ended, none of them killed, the driver is unloaded and no endpoint
\* is left, although the destroy ioctl has no effect: modprobe -r of the last one finds the
\* driver unused (stop_remote), in whatever order they started, failed and were interrupted.
THEOREM NothingIsLeft == Spec => []NothingLeft
<1>1. Inv => NothingLeft
  BY DEF Inv
<1>2. QED
  BY InitInv, NextInv, <1>1, PTL DEF Spec

\* A program that set up alone works on the endpoint it created, with any number of others
\* before and after it, killed ones and restarts of the R5 included.
THEOREM EndpointIsOwn == Spec => []OwnEndpoint
<1>1. AloneInv => OwnEndpoint
  BY DEF AloneInv, OwnInv, OwnEndpoint
<1>2. QED
  BY InitInv, NextInv, InitAlone, NextAlone, <1>1, PTL DEF Spec

=============================================================================
