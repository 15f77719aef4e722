---------------------------- MODULE RpmsgChannel ----------------------------
(***************************************************************************)
(* What rpmsg_send and rpmsg_trysend promise: a call either puts its       *)
(* message behind all that were accepted before, or it fails and the       *)
(* message is never seen; the R5 reads each accepted message once, in that *)
(* order; and at most Capacity messages wait.                              *)
(***************************************************************************)
EXTENDS Naturals, Sequences

CONSTANTS
  Senders,   \* the threads that send
  MaxCalls,  \* bound: calls of each
  Capacity   \* how many messages may wait for the R5

VARIABLES
  busy,   \* who is in a call
  calls,  \* bound counter: how many calls each sender has made
  queue,  \* the messages that were accepted and not read
  inbox   \* the last message the R5 has read

channel == <<busy, calls, queue, inbox>>

Init ==
  /\ busy = {}
  /\ calls = [s \in Senders |-> 0]
  /\ queue = <<>> /\ inbox = <<>>

Call(s) ==
  /\ s \notin busy /\ calls[s] < MaxCalls
  /\ busy' = busy \cup {s}
  /\ calls' = [calls EXCEPT ![s] = @ + 1]
  /\ UNCHANGED <<queue, inbox>>

Accept(s) ==
  /\ s \in busy /\ Len(queue) < Capacity
  /\ busy' = busy \ {s}
  /\ queue' = Append(queue, <<s, calls[s]>>)
  /\ UNCHANGED <<calls, inbox>>

Refuse(s) ==
  /\ s \in busy
  /\ busy' = busy \ {s}
  /\ UNCHANGED <<calls, queue, inbox>>

Deliver ==
  /\ queue # <<>>
  /\ inbox' = Head(queue) /\ queue' = Tail(queue)
  /\ UNCHANGED <<busy, calls>>

Next == Deliver \/ \E s \in Senders : Call(s) \/ Accept(s) \/ Refuse(s)

Spec == Init /\ [][Next]_channel
=============================================================================
