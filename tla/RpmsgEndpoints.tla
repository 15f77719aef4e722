--------------------------- MODULE RpmsgEndpoints ---------------------------
(***************************************************************************)
(* The endpoints and the receiving half of the rpmsg bus,                  *)
(* virtio_rpmsg_bus.c: programs open and close endpoints of a channel, the *)
(* remote sends to them, announces the channel and withdraws it, and the   *)
(* bus itself is removed and probed again when the remote is restarted.    *)
(*                                                                         *)
(* External: the remote, and the rpmsg_char driver, which creates an       *)
(* endpoint when its device file is opened and destroys it, under a lock   *)
(* of the file, when the file is closed or the channel goes.  The reset of *)
(* the transport is taken to wait for a receive callback that runs.        *)
(***************************************************************************)
EXTENDS Naturals, Sequences, FiniteSets

CONSTANTS Users,       \* programs, each with one device file
          Epts,        \* places in memory for endpoints
          Addrs, AddrAny,  \* local addresses; RPMSG_ADDR_ANY
          Wanted,      \* [Users -> Addrs \cup {AddrAny}]: the address of their endpoints
          NsAddr,      \* RPMSG_NS_ADDR
          Rx, Bus,     \* the receive worker; the thread that removes the bus
          None,
          NumBufs,     \* receive buffers
          MaxMessages, \* bound: messages of the remote
          MaxOpens,    \* bound: openings of each user
          MaxProbes    \* bound: times the bus is probed

ASSUME WantedAssumption == Wanted \in [Users -> Addrs \cup {AddrAny}] /\ AddrAny \notin Addrs
ASSUME NamesAssumption == /\ NsAddr \notin Addrs /\ {Rx, Bus} \cap Users = {} /\ Rx # Bus
                          /\ None \notin Users \cup Epts \cup {Rx, Bus}
ASSUME BoundAssumption == {NumBufs, MaxMessages, MaxOpens, MaxProbes} \subseteq Nat

VARIABLES
    ready,      \* the bus is probed
    idr,        \* vrp->endpoints: [address -> endpoint or None]
    ept,        \* per place in memory: allocated, refcount, cb and the owner of cb_lock
    nsEpt,      \* vrp->ns_ept
    channel,    \* the device of the announced channel exists
    file,       \* per user: the endpoint of its device file and the owner of its lock
    pc, obj,    \* per actor: its place, and the endpoint it destroys
    rx,         \* the receive worker: place, message, endpoint, msgs_received # 0
    avail, used, \* receive buffers of the remote; those it has filled, in order
    signal,     \* the remote has raised the interrupt
    waiting,    \* the remote has found no buffer and waits for a kick
    sent, opens, probes, \* counted for the bounds
    lost        \* history: buffers that were not given back

objectVars == <<idr, ept, nsEpt>>
actorVars == <<file, pc, obj>>
ringVars == <<avail, used, signal, waiting, sent, lost>>
vars == <<ready, objectVars, channel, actorVars, rx, ringVars, opens, probes>>

Actors == Users \cup {Rx, Bus}
AllAddrs == Addrs \cup {NsAddr}
Msg == [kind : {"data"}, dst : Addrs] \cup [kind : {"create", "destroy"}, dst : {NsAddr}]
       \cup [kind : {"bad"}, dst : AllAddrs]
ASSUME MsgAssumption == None \notin Msg
Freed == [allocated |-> FALSE, refs |-> 0, cb |-> FALSE, lock |-> None]
\* kref_init, mutex_init and the callback.
Fresh == [allocated |-> TRUE, refs |-> 1, cb |-> TRUE, lock |-> None]
Idle == [at |-> "idle", msg |-> None, ept |-> None, got |-> FALSE]

\* kzalloc: memory that is free, and often freed just before; none, and the callers fail.
NewEpt == CHOOSE e \in Epts : ~ept[e].allocated
NoMemory == \A e \in Epts : ept[e].allocated

\* rpmsg_probe: the buffers are given away, and the name service has its endpoint.
Probed(e) ==
    /\ ready' = TRUE
    /\ idr' = [a \in AllAddrs |-> IF a = NsAddr THEN e ELSE None]
    /\ ept' = [ept EXCEPT ![e] = Fresh]
    /\ nsEpt' = e
    /\ avail' = NumBufs /\ used' = <<>> /\ signal' = FALSE /\ lost' = 0
    /\ waiting' = FALSE  \* the notification after virtio_device_ready
Init ==
    /\ ready = FALSE /\ channel = FALSE /\ nsEpt = None
    /\ idr = [a \in AllAddrs |-> None] /\ ept = [e \in Epts |-> Freed]
    /\ file = [u \in Users |-> [ept |-> None, lock |-> None]]
    /\ pc = [a \in Actors |-> "idle"] /\ obj = [a \in Actors |-> None]
    /\ rx = Idle /\ avail = 0 /\ used = <<>> /\ signal = FALSE /\ waiting = TRUE
    /\ sent = 0 /\ lost = 0 /\ opens = [u \in Users |-> 0] /\ probes = 0
Probe ==
    /\ ~ready /\ probes < MaxProbes /\ pc[Bus] = "idle" /\ ~NoMemory
    /\ probes' = probes + 1
    /\ Probed(NewEpt)
    /\ UNCHANGED <<channel, actorVars, rx, sent, opens>>

-----------------------------------------------------------------------------
(* kref_put, and __rpmsg_destroy_ept in its three steps.                   *)

Dropped(r) == IF r.refs = 1 THEN Freed ELSE [r EXCEPT !.refs = @ - 1]
Put(e) == [ept EXCEPT ![e] = Dropped(@)]
Goto(a, from, to) == pc[a] = from /\ pc' = [pc EXCEPT ![a] = to]

\* Make sure new inbound messages can't find this ept anymore.
IdrRemove(a) ==
    /\ Goto(a, "destroy", "clear")
    /\ idr' = [x \in AllAddrs |-> IF idr[x] = obj[a] THEN None ELSE idr[x]]
    /\ UNCHANGED <<ready, ept, nsEpt, channel, file, obj, rx, ringVars, opens, probes>>
\* Make sure in-flight inbound messages won't invoke cb anymore.
LockIgnored(e) == TRUE  \* mutant: cb is cleared without the lock
LockFree(e) == ept[e].lock = None
ClearCb(a) ==
    /\ Goto(a, "clear", "put")
    /\ LockFree(obj[a])
    /\ ept' = [ept EXCEPT ![obj[a]].cb = FALSE]
    /\ UNCHANGED <<ready, idr, nsEpt, channel, file, obj, rx, ringVars, opens, probes>>
\* The caller goes on: a user is done, the others look for another endpoint to destroy.
DestroyPut(a) ==
    /\ Goto(a, "put", IF a \in Users THEN "idle" ELSE IF obj[a] = nsEpt THEN "free" ELSE "children")
    /\ ept' = Put(obj[a])
    /\ file' = [u \in Users |-> IF file[u].lock = a THEN [ept |-> None, lock |-> None] ELSE file[u]]
    /\ obj' = [obj EXCEPT ![a] = None]
    /\ UNCHANGED <<ready, idr, nsEpt, channel, rx, ringVars, opens, probes>>
Destroy(a) == IdrRemove(a) \/ ClearCb(a) \/ DestroyPut(a)

\* The file is locked and its endpoint is destroyed.
BeginDestroy(a, u) ==
    /\ file[u].ept # None /\ file[u].lock = None
    /\ file' = [file EXCEPT ![u].lock = a]
    /\ obj' = [obj EXCEPT ![a] = file[u].ept]
    /\ UNCHANGED <<ready, objectVars, channel, rx, ringVars, opens, probes>>

-----------------------------------------------------------------------------
(* Users: open and close.                                                  *)

\* The address asked for when it is free, or any free one.
FreeAddrs(u) == {a \in Addrs : idr[a] = None /\ Wanted[u] \in {a, AddrAny}}
\* __rpmsg_create_ept; without an address the object is freed again, and nothing has happened.
Open(u) ==
    /\ channel /\ pc[u] = "idle" /\ file[u].ept = None
    /\ opens[u] < MaxOpens /\ opens' = [opens EXCEPT ![u] = @ + 1]
    /\ \/ \E a \in FreeAddrs(u) :
           /\ ~NoMemory
           /\ ept' = [ept EXCEPT ![NewEpt] = Fresh]
           /\ idr' = [idr EXCEPT ![a] = NewEpt]
           /\ file' = [file EXCEPT ![u].ept = NewEpt]
       \/ (FreeAddrs(u) = {} \/ NoMemory) /\ UNCHANGED <<ept, idr, file>>
    /\ UNCHANGED <<ready, nsEpt, channel, pc, obj, rx, ringVars, probes>>
Close(u) == Goto(u, "idle", "destroy") /\ BeginDestroy(u, u)

-----------------------------------------------------------------------------
(* The remote.                                                             *)

Fill(m) ==
    /\ avail' = avail - 1 /\ used' = Append(used, m)
    /\ signal' = TRUE /\ sent' = sent + 1
    /\ UNCHANGED <<ready, objectVars, channel, actorVars, rx, opens, probes, waiting, lost>>
RemoteSend ==
    /\ ready /\ sent < MaxMessages /\ avail > 0 /\ ~waiting
    /\ \E m \in Msg : Fill(m)
RemoteWait ==
    /\ ready /\ avail = 0 /\ ~waiting
    /\ waiting' = TRUE
    /\ UNCHANGED <<ready, objectVars, channel, actorVars, rx, avail, used, signal, sent, lost, opens, probes>>

-----------------------------------------------------------------------------
(* rpmsg_recv_done and rpmsg_recv_single.                                  *)

RxAt(from) == rx.at = from
RxTo(to) == rx' = [rx EXCEPT !.at = to]
Quiet == UNCHANGED <<ready, objectVars, channel, actorVars, ringVars, opens, probes>>

\* virtqueue_get_buf.
Take(got) ==
    /\ used' = Tail(used)
    /\ rx' = [at |-> "check", msg |-> Head(used), ept |-> None, got |-> got]
RecvDone ==
    /\ signal /\ RxAt("idle") /\ signal' = FALSE
    /\ IF used = <<>> THEN UNCHANGED <<rx, used>> ELSE Take(FALSE)
    /\ UNCHANGED <<ready, objectVars, channel, actorVars, avail, waiting, sent, lost, opens, probes>>

\* "inbound msg too big": the loop ends and the buffer stays out of the ring.
CheckSize == RxAt("check") /\ rx.msg.kind # "bad" /\ RxTo("find") /\ Quiet
TooBig ==
    /\ RxAt("check") /\ rx.msg.kind = "bad"
    /\ lost' = lost + 1
    /\ rx' = [rx EXCEPT !.at = "kick", !.msg = None]
    /\ UNCHANGED <<ready, objectVars, channel, actorVars, avail, used, signal, waiting, sent, opens, probes>>
\* Under endpoints_lock: the endpoint of the address, with a reference taken.
GetNoRef(e) == ept  \* mutant: the reference is forgotten
GetRef(e) == [ept EXCEPT ![e].refs = @ + 1]
AfterFindDrop(e) == IF e = None THEN "kick" ELSE "lock"  \* mutant: a message for nobody keeps its buffer
AfterFind(e) == IF e = None THEN "add" ELSE "lock"
Find ==
    LET e == idr[rx.msg.dst] IN
    /\ RxAt("find")
    /\ rx' = [rx EXCEPT !.at = AfterFind(e), !.ept = e]
    /\ ept' = IF e = None THEN ept ELSE GetRef(e)
    /\ UNCHANGED <<ready, idr, nsEpt, channel, actorVars, ringVars, opens, probes>>
LockCb ==
    /\ RxAt("lock") /\ LockFree(rx.ept)
    /\ RxTo(IF ept[rx.ept].cb THEN "call" ELSE "unlock")
    /\ ept' = [ept EXCEPT ![rx.ept].lock = Rx]
    /\ UNCHANGED <<ready, idr, nsEpt, channel, actorVars, ringVars, opens, probes>>
\* The callback of a device file takes the data.
DataCallback == RxAt("call") /\ rx.msg.kind = "data" /\ RxTo("unlock") /\ Quiet
\* rpmsg_ns_cb: a new channel, unless there is one already.
NsCreate ==
    /\ RxAt("call") /\ rx.msg.kind = "create"
    /\ RxTo("unlock") /\ channel' = TRUE
    /\ UNCHANGED <<ready, objectVars, actorVars, ringVars, opens, probes>>
\* rpmsg_unregister_device: the char driver destroys the endpoint of each device file.
NsDestroy ==
    /\ RxAt("call") /\ rx.msg.kind = "destroy"
    /\ RxTo("unregister") /\ channel' = FALSE
    /\ Goto(Rx, "idle", "children")
    /\ UNCHANGED <<ready, objectVars, file, obj, ringVars, opens, probes>>
Unregistered ==
    /\ RxAt("unregister") /\ \A u \in Users : file[u].ept = None
    /\ Goto(Rx, "children", "idle") /\ RxTo("unlock")
    /\ UNCHANGED <<ready, objectVars, channel, file, obj, ringVars, opens, probes>>
UnlockedNot == Rx  \* mutant: cb_lock is kept
Unlocked == None
UnlockCb ==
    /\ RxAt("unlock") /\ RxTo("release")
    /\ ept' = [ept EXCEPT ![rx.ept].lock = Unlocked]
    /\ UNCHANGED <<ready, idr, nsEpt, channel, actorVars, ringVars, opens, probes>>
PutRef ==
    /\ RxAt("release")
    /\ ept' = Put(rx.ept)
    /\ rx' = [rx EXCEPT !.at = "add", !.ept = None]
    /\ UNCHANGED <<ready, idr, nsEpt, channel, actorVars, ringVars, opens, probes>>
AddInbufFirst ==  \* mutant: one buffer for each interrupt
    /\ RxAt("add")
    /\ avail' = avail + 1
    /\ rx' = [Idle EXCEPT !.at = "kick", !.got = TRUE] /\ UNCHANGED used
    /\ UNCHANGED <<ready, objectVars, channel, actorVars, signal, waiting, sent, lost, opens, probes>>
\* The buffer goes back to the remote, and the next one is taken.
AddInbuf ==
    /\ RxAt("add")
    /\ avail' = avail + 1
    /\ IF used = <<>> THEN rx' = [Idle EXCEPT !.at = "kick", !.got = TRUE] /\ UNCHANGED used
       ELSE Take(TRUE)
    /\ UNCHANGED <<ready, objectVars, channel, actorVars, signal, waiting, sent, lost, opens, probes>>
Kick ==
    /\ RxAt("kick")
    /\ waiting' = (waiting /\ ~rx.got)
    /\ rx' = Idle
    /\ UNCHANGED <<ready, objectVars, channel, actorVars, avail, used, signal, sent, lost, opens, probes>>

-----------------------------------------------------------------------------
(* rpmsg_remove.                                                           *)

\* After the reset no receive callback runs and none begins.
Remove ==
    /\ ready /\ RxAt("idle")
    /\ Goto(Bus, "idle", "children")
    /\ ready' = FALSE /\ signal' = FALSE /\ channel' = FALSE
    /\ UNCHANGED <<objectVars, file, obj, rx, avail, used, waiting, sent, lost, opens, probes>>
\* device_for_each_child: the endpoints of the channel go first.
Children(a) == \E u \in Users : Goto(a, "children", "destroy") /\ BeginDestroy(a, u)
DestroyNs ==
    /\ Goto(Bus, "children", "destroy") /\ \A u \in Users : file[u].ept = None
    /\ obj' = [obj EXCEPT ![Bus] = nsEpt]
    /\ UNCHANGED <<ready, objectVars, channel, file, rx, ringVars, opens, probes>>
\* idr_destroy and del_vqs.
FreeBus ==
    /\ Goto(Bus, "free", "idle")
    /\ nsEpt' = None /\ avail' = 0 /\ used' = <<>> /\ lost' = 0 /\ waiting' = TRUE
    /\ UNCHANGED <<ready, idr, ept, channel, file, obj, rx, signal, sent, opens, probes>>

-----------------------------------------------------------------------------
Receive == \/ CheckSize \/ TooBig \/ Find \/ LockCb \/ DataCallback \/ NsCreate \/ NsDestroy
           \/ Unregistered \/ UnlockCb \/ PutRef \/ AddInbuf \/ Kick
Next ==
    \/ Probe \/ Remove \/ DestroyNs \/ FreeBus
    \/ \E a \in Actors : Destroy(a)
    \/ \E a \in {Rx, Bus} : Children(a)
    \/ \E u \in Users : Open(u) \/ Close(u)
    \/ RemoteSend \/ RemoteWait \/ RecvDone \/ Receive
\* The worker and the threads in the middle of a call run.
Fairness ==
    /\ WF_vars(RecvDone \/ Receive) /\ \A a \in Actors : WF_vars(Destroy(a))
    /\ \A a \in {Rx, Bus} : WF_vars(Children(a))
    /\ WF_vars(DestroyNs \/ FreeBus)
Spec == Init /\ [][Next]_vars /\ Fairness

-----------------------------------------------------------------------------
Holds(e) == {a \in Actors : obj[a] = e}
Owned(e) == (\E u \in Users : file[u].ept = e) \/ (nsEpt = e /\ pc[Bus] # "free")
\* Types.
TypeOK ==
    /\ idr \in [AllAddrs -> Epts \cup {None}] /\ nsEpt \in Epts \cup {None}
    /\ ept \in [Epts -> [allocated : BOOLEAN, refs : 0..2, cb : BOOLEAN, lock : {Rx, None}]]
    /\ file \in [Users -> [ept : Epts \cup {None}, lock : Actors \cup {None}]]
    /\ obj \in [Actors -> Epts \cup {None}] /\ avail \in 0..NumBufs

\* The reference count keeps an endpoint as long as anybody can reach it: it counts the
\* owner until its last step and the worker between Find and PutRef, so whatever the table,
\* a file, a destroyer or the worker names is allocated, and what nobody names is freed.
RefsCount ==
    \A e \in Epts :
        LET refs == (IF Owned(e) THEN 1 ELSE 0) + (IF rx.ept = e THEN 1 ELSE 0)
        IN  /\ ept[e].refs = refs /\ (ept[e].allocated <=> refs > 0)
            /\ (\E a \in AllAddrs : idr[a] = e) \/ Holds(e) # {} => Owned(e)

\* No callback runs on behalf of a closed file: "make sure in-flight inbound messages won't
\* invoke cb anymore" (virtio_rpmsg_bus.c:307).  While the worker is in the callback, the
\* endpoint belongs to an open file whose destroyer, if any, has not passed the cb_lock.
CallbackOnlyOpen ==
    rx.at = "call" /\ rx.msg.kind = "data" =>
        /\ \E u \in Users : file[u].ept = rx.ept
        /\ \A a \in Holds(rx.ept) : pc[a] \in {"destroy", "clear"}

\* No receive buffer is lost or doubled, but for one in each message that is too big.
BuffersKept ==
    ready => avail + Len(used) + (IF rx.msg # None THEN 1 ELSE 0) + lost = NumBufs

\* Whoever closes a file, withdraws the channel or removes the bus gets done, though they
\* wait for each other and for callbacks; and a filled buffer is taken, unless a message
\* that is too big has ended the loop.
CallsFinish == \A a \in Actors : pc[a] # "idle" ~> pc[a] = "idle"
MessagesTaken == used # <<>> /\ lost = 0 ~> used = <<>> \/ lost > 0
=============================================================================
