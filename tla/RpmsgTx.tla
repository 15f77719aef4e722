------------------------------ MODULE RpmsgTx ------------------------------
(***************************************************************************)
(* The sending half of virtio_rpmsg_bus.c: threads that call rpmsg_send    *)
(* (may wait) or rpmsg_trysend, the pool of transmit buffers, the wait     *)
(* queue of senders without a buffer and the transmit interrupt that wakes *)
(* them.  The virtqueue, the wait queue, signals and the R5 are external.  *)
(*                                                                         *)
(* What runs under tx_lock is one action: the R5 and the interrupt do not  *)
(* take the lock, and each such section makes one change they can see.     *)
(***************************************************************************)
EXTENDS Naturals, Sequences

CONSTANTS
  Senders,    \* the threads that send
  NumBufs,    \* num_bufs / 2: transmit buffers, no more than the ring has places
  MaxCalls,   \* bound: calls of each thread
  CanSignal   \* whether a signal may arrive during a call

ASSUME RpmsgAssumption ==
  /\ NumBufs \in Nat \ {0} /\ MaxCalls \in Nat
  /\ CanSignal \in BOOLEAN

VARIABLES
  pc,        \* where each sender is in rpmsg_send_offchannel_raw
  wait,      \* the argument of its call
  hold,      \* msg: the buffer it has, 0 for NULL
  signalled, \* whether it has a signal pending
  calls,     \* bound counter: how many calls it has made
  last,      \* last_sbuf
  sleepers,  \* the counter of that name
  sendq,     \* the wait queue: who is in it and was not woken
  cbOn,      \* whether the tx-complete interrupt is enabled
  irq,       \* whether it is pending
  avail,     \* buffers in the ring for the R5
  used,      \* buffers the R5 has given back
  content,   \* the message in each buffer
  r5,        \* what the R5 does with the buffer r5buf
  r5buf,
  inbox      \* the last message the R5 has read

callVars == <<pc, wait, signalled, calls>>
poolVars == <<hold, last, used>>
wakeVars == <<sleepers, sendq, cbOn, irq>>
r5Vars == <<r5, r5buf, inbox>>
vars == <<callVars, poolVars, wakeVars, avail, content, r5Vars>>

Bufs == 1..NumBufs

Init ==
  /\ pc = [s \in Senders |-> "idle"] /\ wait = [s \in Senders |-> FALSE]
  /\ hold = [s \in Senders |-> 0] /\ signalled = [s \in Senders |-> FALSE]
  /\ calls = [s \in Senders |-> 0]
  /\ last = 0 /\ sleepers = 0 /\ sendq = {} /\ cbOn = FALSE /\ irq = FALSE
  /\ avail = <<>> /\ used = <<>>
  /\ content = [b \in Bufs |-> <<>>]
  /\ r5 = "idle" /\ r5buf = 0 /\ inbox = <<>>

Go(s, from, to) == pc[s] = from /\ pc' = [pc EXCEPT ![s] = to]

-----------------------------------------------------------------------------
(* Buffers. *)

GetBufOneMore(s) ==  \* mutant: one buffer more than there are
  \/ last <= NumBufs /\ hold' = [hold EXCEPT ![s] = last + 1] /\ last' = last + 1
     /\ UNCHANGED used
  \/ last > NumBufs /\ used # <<>> /\ hold' = [hold EXCEPT ![s] = Head(used)] /\ used' = Tail(used)
     /\ UNCHANGED last

GetBufPeek(s) ==  \* mutant: a used buffer is handed out and stays in the used ring
  \/ last < NumBufs /\ hold' = [hold EXCEPT ![s] = last + 1] /\ last' = last + 1
     /\ UNCHANGED used
  \/ last = NumBufs /\ used # <<>> /\ hold' = [hold EXCEPT ![s] = Head(used)]
     /\ UNCHANGED <<last, used>>

\* get_a_tx_buf returns a buffer: one that was never used, or a used one.
GetBuf(s) ==
  \/ last < NumBufs /\ hold' = [hold EXCEPT ![s] = last + 1] /\ last' = last + 1
     /\ UNCHANGED used
  \/ last = NumBufs /\ used # <<>> /\ hold' = [hold EXCEPT ![s] = Head(used)] /\ used' = Tail(used)
     /\ UNCHANGED last

\* It returns NULL.
NoBuf == last = NumBufs /\ used = <<>> /\ UNCHANGED poolVars

-----------------------------------------------------------------------------
(* A call. *)

\* A signal is handled before the thread can call again.
Call(s) ==
  /\ calls[s] < MaxCalls
  /\ Go(s, "idle", "get")
  /\ \E w \in BOOLEAN : wait' = [wait EXCEPT ![s] = w]
  /\ calls' = [calls EXCEPT ![s] = @ + 1]
  /\ signalled' = [signalled EXCEPT ![s] = FALSE]
  /\ UNCHANGED <<poolVars, wakeVars, avail, content, r5Vars>>

\* Grab a buffer; without one a trysend fails.
Grab(s) ==
  /\ \/ GetBuf(s) /\ Go(s, "get", "fill")
     \/ NoBuf /\ Go(s, "get", IF wait[s] THEN "upref" ELSE "idle")
  /\ UNCHANGED <<wait, signalled, calls, wakeVars, avail, content, r5Vars>>

\* rpmsg_upref_sleepers: the first sleeper enables the interrupt.
UpRef(s) ==
  /\ Go(s, "upref", "enqueue")
  /\ sleepers' = sleepers + 1
  /\ cbOn' = (cbOn \/ sleepers = 0)
  /\ UNCHANGED <<wait, signalled, calls, poolVars, sendq, irq, avail, content, r5Vars>>

\* wait_event_interruptible_timeout: join the queue, and only then test.
Enqueue(s) ==
  /\ Go(s, "enqueue", "test")
  /\ sendq' = sendq \cup {s}
  /\ UNCHANGED <<wait, signalled, calls, poolVars, sleepers, cbOn, irq, avail, content, r5Vars>>

Test(s) ==
  /\ \/ GetBuf(s) /\ Go(s, "test", "downref") /\ sendq' = sendq \ {s}
     \/ NoBuf /\ signalled[s] /\ Go(s, "test", "downref") /\ sendq' = sendq \ {s}
     \/ NoBuf /\ ~signalled[s] /\ Go(s, "test", "asleep") /\ UNCHANGED sendq
  /\ UNCHANGED <<wait, signalled, calls, sleepers, cbOn, irq, avail, content, r5Vars>>

Awake(s) ==
  /\ s \notin sendq \/ signalled[s]
  /\ Go(s, "asleep", "enqueue")
  /\ UNCHANGED <<wait, signalled, calls, poolVars, wakeVars, avail, content, r5Vars>>

\* 15 seconds have passed: the condition is tested a last time.
TimeOut(s) ==
  /\ \/ GetBuf(s) /\ Go(s, "asleep", "downref")
     \/ NoBuf /\ Go(s, "asleep", "late")
  /\ sendq' = sendq \ {s}
  /\ UNCHANGED <<wait, signalled, calls, sleepers, cbOn, irq, avail, content, r5Vars>>

AfterDownRefRetry(s) ==  \* mutant: a sender that was late waits again
  Go(s, "downref", IF hold[s] = 0 THEN "upref" ELSE "fill") \/ Go(s, "late", "upref")

\* Only a timeout (err = 0) ends the loop; a signal without a buffer does not.
AfterDownRef(s) ==
  Go(s, "downref", IF hold[s] = 0 THEN "upref" ELSE "fill") \/ Go(s, "late", "idle")

DownRefAlways(s) ==  \* mutant: whoever leaves turns the interrupt off
  /\ AfterDownRef(s)
  /\ sleepers' = sleepers - 1
  /\ cbOn' = FALSE
  /\ UNCHANGED <<wait, signalled, calls, poolVars, sendq, irq, avail, content, r5Vars>>

\* rpmsg_downref_sleepers: the last sleeper disables the interrupt.
DownRef(s) ==
  /\ AfterDownRef(s)
  /\ sleepers' = sleepers - 1
  /\ cbOn' = (cbOn /\ sleepers # 1)
  /\ UNCHANGED <<wait, signalled, calls, poolVars, sendq, irq, avail, content, r5Vars>>

\* The header and the payload.
Fill(s) ==
  /\ Go(s, "fill", "add")
  /\ content' = [content EXCEPT ![hold[s]] = <<s, calls[s]>>]
  /\ UNCHANGED <<wait, signalled, calls, poolVars, wakeVars, avail, r5Vars>>

\* virtqueue_add_outbuf, which fails only when the ring is full, and the kick.
Add(s) ==
  /\ Go(s, "add", "idle")
  /\ avail' = Append(avail, hold[s])
  /\ hold' = [hold EXCEPT ![s] = 0]
  /\ UNCHANGED <<wait, signalled, calls, last, used, wakeVars, content, r5Vars>>

Signal(s) ==
  /\ CanSignal /\ pc[s] # "idle"
  /\ signalled' = [signalled EXCEPT ![s] = TRUE]
  /\ UNCHANGED <<pc, wait, calls, poolVars, wakeVars, avail, content, r5Vars>>

-----------------------------------------------------------------------------
(* The R5 and the interrupt. *)

R5Take ==
  /\ r5 = "idle" /\ avail # <<>>
  /\ r5' = "read" /\ r5buf' = Head(avail)
  /\ avail' = Tail(avail)
  /\ UNCHANGED <<callVars, poolVars, wakeVars, content, inbox>>

R5Read ==
  /\ r5 = "read"
  /\ inbox' = content[r5buf]
  /\ r5' = "put"
  /\ UNCHANGED <<callVars, poolVars, wakeVars, avail, content, r5buf>>

R5Put ==
  /\ r5 = "put"
  /\ used' = Append(used, r5buf)
  /\ r5' = "notify"
  /\ UNCHANGED <<callVars, hold, last, wakeVars, avail, content, r5buf, inbox>>

\* After giving the buffer back the R5 looks whether an interrupt is wanted.
R5Notify ==
  /\ r5 = "notify"
  /\ irq' = (irq \/ cbOn)
  /\ r5' = "idle" /\ r5buf' = 0
  /\ UNCHANGED <<callVars, poolVars, sleepers, sendq, cbOn, avail, content, inbox>>

\* rpmsg_xmit_done; the virtqueue drops an interrupt when nothing is used.
XmitDone ==
  /\ irq
  /\ irq' = FALSE
  /\ sendq' = IF used = <<>> THEN sendq ELSE {}
  /\ UNCHANGED <<callVars, poolVars, sleepers, cbOn, avail, content, r5Vars>>

-----------------------------------------------------------------------------
Step(s) ==
  \/ Grab(s) \/ UpRef(s) \/ Enqueue(s) \/ Test(s) \/ Awake(s) \/ TimeOut(s)
  \/ DownRef(s) \/ Fill(s) \/ Add(s)
R5 == R5Take \/ R5Read \/ R5Put \/ R5Notify

Next == R5 \/ XmitDone \/ \E s \in Senders : Call(s) \/ Step(s) \/ Signal(s)

Spec == Init /\ [][Next]_vars

(***************************************************************************)
(* Senders run, time passes and the interrupt is served.  Nothing is       *)
(* assumed of the R5: the timeout is there for one that has stopped.       *)
(***************************************************************************)
Fairness == WF_vars(XmitDone) /\ \A s \in Senders : WF_vars(Step(s))

LiveSpec == Spec /\ Fairness
-----------------------------------------------------------------------------
\* The kinds of values the state of RpmsgTx takes.
TypeOK ==
  /\ pc \in [Senders -> {"idle", "get", "upref", "enqueue", "test", "asleep", "downref",
                         "late", "fill", "add"}]
  /\ wait \in [Senders -> BOOLEAN] /\ signalled \in [Senders -> BOOLEAN]
  /\ hold \in [Senders -> 0..NumBufs] /\ calls \in [Senders -> 0..MaxCalls]
  /\ last \in 0..NumBufs /\ sleepers \in Nat /\ sendq \in SUBSET Senders
  /\ cbOn \in BOOLEAN /\ irq \in BOOLEAN
  /\ avail \in Seq(Bufs) /\ used \in Seq(Bufs)
  /\ content \in [Bufs -> {<<>>} \cup (Senders \X (1..MaxCalls))]
  /\ r5 \in {"idle", "read", "put", "notify"} /\ r5buf \in 0..NumBufs
  /\ inbox \in {<<>>} \cup (Senders \X (1..MaxCalls))

(***************************************************************************)
(* Nobody sleeps next to a free buffer unless the wake-up is on its way:   *)
(* the count of sleepers keeps the interrupt enabled (lines 480-518), and  *)
(* the test after joining the queue closes the gap before it.              *)
(***************************************************************************)
NoLostWakeUp ==
  \A s \in sendq : pc[s] = "asleep" /\ used # <<>> => irq \/ r5 = "notify"

(***************************************************************************)
(* Adding never finds the ring full, so the buffer that the comment at     *)
(* lines 636-640 says would be lost never is.                              *)
(***************************************************************************)
RingHasRoom ==
  \A s \in Senders :
    pc[s] = "add" =>
      Len(avail) + Len(used) + (IF r5 \in {"read", "put"} THEN 1 ELSE 0) < NumBufs

Messages == [i \in DOMAIN avail |-> content[avail[i]]]

Channel == INSTANCE RpmsgChannel WITH
  Capacity <- NumBufs,
  busy <- {s \in Senders : pc[s] # "idle"},
  queue <- IF r5 = "read" THEN <<content[r5buf]>> \o Messages ELSE Messages

(***************************************************************************)
(* The buffers and rings implement the channel: whatever is recycled, no   *)
(* accepted message is lost, doubled, reordered or overwritten.            *)
(***************************************************************************)
ImplementsChannel == Channel!Spec

(***************************************************************************)
(* A caller without a pending signal does come back, even when the R5 has  *)
(* stopped: the timeout ends the wait (lines 601-613).                     *)
(***************************************************************************)
QuietCallReturns == \A s \in Senders : pc[s] # "idle" ~> pc[s] = "idle" \/ signalled[s]

(***************************************************************************)
(* "the caller will be blocked until either a TX buffer is available, or   *)
(* 15 seconds elapses" (lines 538-539), even when the R5 has stopped.      *)
(***************************************************************************)
CallReturns == \A s \in Senders : pc[s] # "idle" ~> pc[s] = "idle"
=============================================================================
