------------------------------ MODULE TaskData ------------------------------
(***************************************************************************)
(* task-data.c: the main thread forwards frames from the R5 to UDP ("up"), *)
(* the thread receive() forwards datagrams to the R5 ("down"), the thread  *)
(* perf_analyse() works on the counters of both and publishes them in the  *)
(* state BRAM, and SIGINT stops the three.  The counters are shared        *)
(* without a lock.                                                         *)
(*                                                                         *)
(* The counters of the sensor types are independent copies, so there is    *)
(* one record for each direction.  iDelayRevUs and iDelayRevMaxUs, the     *)
(* ones that are published, stand for the pairs of delays.                 *)
(***************************************************************************)
EXTENDS Naturals

CONSTANTS
  MaxFrames,    \* bound: frames that arrive in each direction
  MaxDelay,     \* bound: delays are 1..MaxDelay
  Period,       \* usSensorAnalysePerid: every Period-th frame is measured
  ResetPeriod   \* delay_reset_period_cnt; 0 for never

ASSUME TaskDataAssumption ==
  /\ MaxFrames \in Nat /\ MaxDelay \in Nat /\ ResetPeriod \in Nat
  /\ Period \in Nat \ {0}

Dir == {"up", "down"}

VARIABLES
  loop,      \* FALSE once ctrl_c_handler ran
  at,        \* where the thread of each direction is: main and receive()
  anal,      \* where perf_analyse() is
  dir,       \* the direction it is working on
  perf,      \* astPerfUp and astPerfDown
  bram,      \* astDataPerfUp and astDataPerfDown in the state BRAM
  loaded,    \* a register of perf_analyse(): the value it has just read
  sock,      \* whether socket_fd is "open" or "shut" down
  ept,       \* whether eptfd is open
  frames,    \* bound counter: frames that arrived
  counted    \* history: frames that went into a reported frequency

threads == <<at, anal, dir>>
data == <<perf, bram, loaded>>
tdVars == <<loop, threads, data, sock, ept, frames, counted>>

TDInit ==
  /\ loop = TRUE
  /\ at = [up |-> "hello", down |-> "top"]
  /\ anal = "top" /\ dir = "up"
  /\ perf = [d \in Dir |-> [cnt |-> 0, last |-> 0, delay |-> 0, max |-> 0, rounds |-> 0]]
  /\ bram = [d \in Dir |-> [cnt |-> 0, delay |-> 0, max |-> 0]]
  /\ loaded = 0
  /\ sock = "open" /\ ept = TRUE
  /\ frames = [d \in Dir |-> 0] /\ counted = [d \in Dir |-> 0]

\* The threads run until main returns or print_err calls _exit.
Alive == at["up"] # "done"

Go(d, from, to) == Alive /\ at[d] = from /\ at' = [at EXCEPT ![d] = to]
Analyse(from, to) == Alive /\ anal = from /\ anal' = to

-----------------------------------------------------------------------------
(* The start and the end of main. *)

\* The handler runs in any thread; in receive() it interrupts recvfrom.
SigInt ==
  /\ Alive /\ loop
  /\ loop' = FALSE
  /\ \/ UNCHANGED at
     \/ Go("down", "recv", "top")
  /\ UNCHANGED <<anal, dir, data, sock, ept, frames, counted>>

\* Greet the R5; when that fails close all, with both threads running.
Hello ==
  /\ \/ Go("up", "hello", "top") /\ UNCHANGED ept
     \/ Go("up", "hello", "failed") /\ ept' = FALSE
  /\ UNCHANGED <<loop, anal, dir, data, sock, frames, counted>>

Failed ==
  /\ Go("up", "failed", "done")
  /\ UNCHANGED <<loop, anal, dir, data, sock, ept, frames, counted>>

LeaveNoShutdown ==  \* mutant: the socket is not shut down
  /\ ~loop
  /\ Go("up", "top", "joinAnalyse")
  /\ UNCHANGED <<loop, anal, dir, data, sock, ept, frames, counted>>

Leave ==
  /\ ~loop
  /\ Go("up", "top", "joinAnalyse")
  /\ sock' = "shut"
  /\ UNCHANGED <<loop, anal, dir, data, ept, frames, counted>>

JoinAnalyse ==
  /\ anal = "done"
  /\ Go("up", "joinAnalyse", "joinReceive")
  /\ UNCHANGED <<loop, anal, dir, data, sock, ept, frames, counted>>

JoinNobody ==  \* mutant: receive() is not waited for
  /\ Go("up", "joinReceive", "exit")
  /\ UNCHANGED <<loop, anal, dir, data, sock, ept, frames, counted>>

JoinReceive ==
  /\ at["down"] = "done"
  /\ Go("up", "joinReceive", "exit")
  /\ UNCHANGED <<loop, anal, dir, data, sock, ept, frames, counted>>

\* exit_rpmsg, MAP_BlockRamClose.
Exit ==
  /\ Go("up", "exit", "done")
  /\ ept' = FALSE
  /\ UNCHANGED <<loop, anal, dir, data, sock, frames, counted>>

-----------------------------------------------------------------------------
(* Forwarding.  A frame without a good header is forwarded and not counted; *)
(* an uplink frame for port 8772 is counted and not measured.               *)

\* read(eptfd) does not block: without a frame main polls again.
ReadFrame ==
  /\ loop /\ frames["up"] < MaxFrames
  /\ Go("up", "top", "send")
  /\ frames' = [frames EXCEPT !["up"] = @ + 1]
  /\ UNCHANGED <<loop, anal, dir, data, sock, ept, counted>>

\* The frame is too short, sendto fails or it has no good header; or it counts.
SendUdp ==
  /\ \/ Go("up", "send", "top")
     \/ Go("up", "send", "count")
  /\ UNCHANGED <<loop, anal, dir, data, sock, ept, frames, counted>>

EnterRecv ==
  /\ Go("down", "top", IF loop THEN "recv" ELSE "done")
  /\ UNCHANGED <<loop, anal, dir, data, sock, ept, frames, counted>>

\* recvfrom returns a datagram.
RecvDatagram ==
  /\ frames["down"] < MaxFrames
  /\ Go("down", "recv", "write")
  /\ frames' = [frames EXCEPT !["down"] = @ + 1]
  /\ UNCHANGED <<loop, anal, dir, data, sock, ept, counted>>

\* It returns 0 after the shutdown.
RecvShut ==
  /\ sock = "shut"
  /\ Go("down", "recv", "top")
  /\ UNCHANGED <<loop, anal, dir, data, sock, ept, frames, counted>>

\* No buffer (or no endpoint) and the frame is lost, no good header, or it counts.
WriteR5 ==
  /\ \/ Go("down", "write", "top")
     \/ ept /\ Go("down", "write", "count")
  /\ UNCHANGED <<loop, anal, dir, data, sock, ept, frames, counted>>

CountTwice(d) ==  \* mutant: a frame is counted two times
  /\ perf' = [perf EXCEPT ![d].cnt = @ + 2]
  /\ Go(d, "count", "top")
  /\ UNCHANGED <<loop, anal, dir, bram, loaded, sock, ept, frames, counted>>

\* ++uiCnt % usSensorAnalysePerid
Count(d) ==
  /\ LET cnt == perf[d].cnt + 1
     IN /\ perf' = [perf EXCEPT ![d].cnt = cnt]
        /\ \/ cnt % Period = 0 /\ Go(d, "count", "measure")
           \/ cnt % Period # 0 /\ Go(d, "count", "top")
           \/ cnt % Period = 0 /\ d = "up" /\ Go(d, "count", "top")
  /\ UNCHANGED <<loop, anal, dir, bram, loaded, sock, ept, frames, counted>>

Measure(d) ==
  /\ Go(d, "measure", "compare")
  /\ \E t \in 1..MaxDelay : perf' = [perf EXCEPT ![d].delay = t]
  /\ UNCHANGED <<loop, anal, dir, bram, loaded, sock, ept, frames, counted>>

CompareMax(d) ==
  /\ Go(d, "compare", IF perf[d].max < perf[d].delay THEN "raise" ELSE "top")
  /\ UNCHANGED <<loop, anal, dir, data, sock, ept, frames, counted>>

RaiseMax(d) ==
  /\ Go(d, "raise", "top")
  /\ perf' = [perf EXCEPT ![d].max = perf[d].delay]
  /\ UNCHANGED <<loop, anal, dir, bram, loaded, sock, ept, frames, counted>>

-----------------------------------------------------------------------------
(* perf_analyse(): after each sleep, the uplink and then the downlink. *)

\* Back from sleep(2), or the end of the thread.
Wake ==
  /\ Analyse("top", IF loop THEN "frequency" ELSE "done")
  /\ dir' = "up"
  /\ UNCHANGED <<loop, at, data, sock, ept, frames, counted>>

Rest(from) ==
  IF dir = "up"
  THEN Analyse(from, "frequency") /\ dir' = "down"
  ELSE Analyse(from, "top") /\ dir' = "up"

\* uiCnt - uiLastCnt; nothing more to do when that is 0.
Frequency ==
  /\ LET new == perf[dir].cnt - perf[dir].last
     IN /\ counted' = [counted EXCEPT ![dir] = @ + new]
        /\ IF new = 0 THEN Rest("frequency") ELSE Analyse("frequency", "note") /\ UNCHANGED dir
  /\ loaded' = perf[dir].cnt
  /\ UNCHANGED <<loop, at, perf, bram, sock, ept, frames>>

NoteNothing ==  \* mutant: uiLastCnt is left as it is
  /\ Analyse("note", "publish")
  /\ UNCHANGED <<loop, at, dir, data, sock, ept, frames, counted>>

\* The compiler may keep uiCnt in a register or read it a second time.
Note ==
  /\ Analyse("note", "publish")
  /\ \E cnt \in {loaded, perf[dir].cnt} : perf' = [perf EXCEPT ![dir].last = cnt]
  /\ UNCHANGED <<loop, at, dir, bram, loaded, sock, ept, frames, counted>>

PublishNoted ==  \* mutant: the count that the frequency is from
  /\ Analyse("publish", "publishMax")
  /\ bram' = [bram EXCEPT ![dir].cnt = loaded, ![dir].delay = perf[dir].delay]
  /\ UNCHANGED <<loop, at, dir, perf, loaded, sock, ept, frames, counted>>

\* memcpy to the BRAM, word after word.
Publish ==
  /\ Analyse("publish", "publishMax")
  /\ bram' = [bram EXCEPT ![dir].cnt = perf[dir].cnt, ![dir].delay = perf[dir].delay]
  /\ UNCHANGED <<loop, at, dir, perf, loaded, sock, ept, frames, counted>>

\* ++uiCntPerf % delay_reset_period_cnt (counted modulo the period here)
PublishMax ==
  /\ bram' = [bram EXCEPT ![dir].max = perf[dir].max]
  /\ IF ResetPeriod = 0
     THEN Rest("publishMax") /\ UNCHANGED perf
     ELSE LET rounds == (perf[dir].rounds + 1) % ResetPeriod
          IN /\ perf' = [perf EXCEPT ![dir].rounds = rounds]
             /\ IF rounds = 0 THEN Analyse("publishMax", "load") /\ UNCHANGED dir
                ELSE Rest("publishMax")
  /\ UNCHANGED <<loop, at, loaded, sock, ept, frames, counted>>

\* The maximum starts again from the last delay: a load and a store.
LoadDelay ==
  /\ Analyse("load", "reset")
  /\ loaded' = perf[dir].delay
  /\ UNCHANGED <<loop, at, dir, perf, bram, sock, ept, frames, counted>>

ResetMax ==
  /\ Rest("reset")
  /\ perf' = [perf EXCEPT ![dir].max = loaded]
  /\ UNCHANGED <<loop, at, bram, loaded, sock, ept, frames, counted>>

-----------------------------------------------------------------------------
Perf(d) == Count(d) \/ Measure(d) \/ CompareMax(d) \/ RaiseMax(d)
Main == \/ Hello \/ Failed \/ Leave \/ JoinAnalyse \/ JoinReceive \/ Exit
        \/ ReadFrame \/ SendUdp \/ Perf("up")
Receive == EnterRecv \/ RecvDatagram \/ RecvShut \/ WriteR5 \/ Perf("down")
PerfAnalyse == \/ Wake \/ Frequency \/ Note \/ Publish \/ PublishMax \/ LoadDelay \/ ResetMax

TDNext == SigInt \/ Main \/ Receive \/ PerfAnalyse

TDSpec == TDInit /\ [][TDNext]_tdVars

(***************************************************************************)
(* Each thread gets a processor.  The arrival of a frame is not promised,  *)
(* but recvfrom does return after the shutdown.                            *)
(***************************************************************************)
Fairness ==
  /\ WF_tdVars(Main) /\ WF_tdVars(PerfAnalyse)
  /\ WF_tdVars(Receive /\ at["down"] # "recv") /\ WF_tdVars(RecvShut)

LiveSpec == TDSpec /\ Fairness
-----------------------------------------------------------------------------
\* Where the two forwarding threads can be.
Place == {"hello", "failed", "top", "send", "count", "measure", "compare", "raise",
          "recv", "write", "joinAnalyse", "joinReceive", "exit", "done"}

\* The kinds of values the state of TaskData takes.
TDTypeOK ==
  /\ loop \in BOOLEAN
  /\ at \in [Dir -> Place]
  /\ anal \in {"top", "frequency", "note", "publish", "publishMax", "load", "reset", "done"}
  /\ dir \in Dir
  /\ perf \in [Dir -> [cnt : 0..MaxFrames, last : 0..MaxFrames, delay : 0..MaxDelay,
                       max : 0..MaxDelay, rounds : 0..ResetPeriod]]
  /\ bram \in [Dir -> [cnt : 0..MaxFrames, delay : 0..MaxDelay, max : 0..MaxDelay]]
  /\ loaded \in Nat
  /\ sock \in {"open", "shut"} /\ ept \in BOOLEAN
  /\ frames \in [Dir -> 0..MaxFrames] /\ counted \in [Dir -> Nat]

(***************************************************************************)
(* main closes the endpoint and unmaps the BRAM only after both threads    *)
(* are gone (lines 816-820); the one exception is a failed greeting.       *)
(***************************************************************************)
NoUseAfterClose ==
  ~ept /\ sock = "shut" => at["down"] = "done" /\ anal = "done"

(***************************************************************************)
(* No frame goes into two frequencies, though uiCnt may be read a second   *)
(* time (lines 485 and 493): frames between the two go into none.          *)
(***************************************************************************)
AtMostOneFrequency ==
  \A d \in Dir : counted[d] <= perf[d].cnt

(***************************************************************************)
(* After SIGINT the program ends: the shutdown of the socket wakes         *)
(* receive(), which nothing else may ever do.                              *)
(***************************************************************************)
SigIntStops == ~loop ~> at["up"] = "done"

(***************************************************************************)
(* The state BRAM catches up with the counters: a frame that arrives while *)
(* perf_analyse() works is not forgotten when no other one follows.        *)
(***************************************************************************)
StateCatchesUp ==
  \A d \in Dir, n \in 1..MaxFrames :
    perf[d].cnt = n ~> bram[d].cnt >= n \/ ~loop \/ ~Alive

(***************************************************************************)
(* "iDelayRevMaxUs: ... max" (line 56): when neither thread is updating,   *)
(* the maximum is not below the last delay.                                *)
(***************************************************************************)
MaxIsMax ==
  \A d \in Dir :
    at[d] \notin {"compare", "raise"} /\ ~(dir = d /\ anal = "reset") =>
      perf[d].delay <= perf[d].max
=============================================================================
