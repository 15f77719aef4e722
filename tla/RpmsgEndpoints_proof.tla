----------------------- MODULE RpmsgEndpoints_proof -----------------------
(***************************************************************************)
(* Proofs about RpmsgEndpoints, for any programs, addresses and numbers of *)
(* buffers and messages, and any memory that endpoints may find.           *)
(***************************************************************************)
EXTENDS RpmsgEndpoints, TLAPS

RxPlaces == {"idle", "check", "find", "lock", "call", "unregister", "unlock", "release", "add", "kick"}
\* Where the worker has a reference to an endpoint, its cb_lock, a message.
Referring == {"lock", "call", "unregister", "unlock", "release"}
Locking == {"call", "unregister", "unlock"}
Delivering == Referring \cup {"check", "find", "add"}
Destroying == {"destroy", "clear", "put"}
Places == Destroying \cup {"idle", "children", "free"}
Memory == [allocated : BOOLEAN, refs : Nat, cb : BOOLEAN, lock : {Rx, None}]
FileRec == [ept : Epts \cup {None}, lock : Actors \cup {None}]
RxRec == [at : RxPlaces, msg : Msg \cup {None}, ept : Epts \cup {None}, got : BOOLEAN]

-----------------------------------------------------------------------------
(* The inductive invariant.                                                *)

TypeInv ==
    /\ ready \in BOOLEAN /\ channel \in BOOLEAN /\ signal \in BOOLEAN
    /\ idr \in [AllAddrs -> Epts \cup {None}] /\ nsEpt \in Epts \cup {None}
    /\ ept \in [Epts -> Memory] /\ file \in [Users -> FileRec]
    /\ obj \in [Actors -> Epts \cup {None}] /\ pc \in [Actors -> Places]
    /\ rx \in RxRec /\ used \in Seq(Msg)

\* What the worker holds at each place; it runs only while the bus is probed.
RxInv ==
    /\ rx.at # "idle" \/ signal => ready
    /\ rx.ept # None <=> rx.at \in Referring
    /\ rx.msg # None <=> rx.at \in Delivering
    /\ rx.at = "unregister" <=> pc[Rx] # "idle"
    /\ rx.at \in Referring /\ rx.msg.kind = "data" => rx.ept # nsEpt
    /\ rx.at \in {"find"} \cup Referring => rx.msg.kind # "bad"

\* The name service lives as long as the bus, and the files are closed before it goes.
BusInv ==
    /\ pc[Bus] # "idle" => ~ready
    /\ ~ready => ~channel
    /\ nsEpt # None <=> ready \/ pc[Bus] # "idle"
    /\ pc[Bus] = "free" \/ (obj[Bus] # None /\ obj[Bus] = nsEpt) => \A u \in Users : file[u].ept = None
    /\ pc[Rx] # "free" /\ \A u \in Users : pc[u] \in Destroying \cup {"idle"}

\* An endpoint has one owner, and whoever destroys it has locked its file.
OwnerInv ==
    /\ \A u, v \in Users : file[u].ept = file[v].ept /\ file[u].ept # None => u = v
    /\ \A u \in Users : file[u].ept # None => file[u].ept # nsEpt
    /\ \A u \in Users : file[u].lock # None => file[u].ept # None /\ obj[file[u].lock] = file[u].ept
    /\ \A a \in Actors : obj[a] # None <=> pc[a] \in Destroying
    /\ \A a \in Actors : obj[a] # None =>
          (\E u \in Users : file[u].lock = a) \/ (a = Bus /\ obj[a] = nsEpt)
    /\ \A u \in Users : pc[u] # "idle" => file[u].lock = u

\* How far a destruction has come.
DestroyInv ==
    \A a \in Actors :
        /\ pc[a] \in {"clear", "put"} => \A x \in AllAddrs : idr[x] # obj[a]
        /\ pc[a] = "put" => ~ept[obj[a]].cb

\* The table, the callback and the lock of each endpoint.
EptInv ==
    /\ \A e \in Epts : \A x \in AllAddrs : idr[x] = e => Owned(e)
    /\ \A x \in Addrs : idr[x] # None => idr[x] # nsEpt
    /\ \A e \in Epts : ept[e].cb => Owned(e)
    /\ \A e \in Epts : ept[e].lock = Rx <=> rx.ept = e /\ rx.at \in Locking
    /\ rx.at = "call" => ept[rx.ept].cb

Refs(e) == (IF Owned(e) THEN 1 ELSE 0) + (IF rx.ept = e THEN 1 ELSE 0)
CountInv == \A e \in Epts : ept[e].refs = Refs(e) /\ (ept[e].allocated <=> Refs(e) > 0)

IInv == TypeInv /\ RxInv /\ BusInv /\ OwnerInv /\ DestroyInv /\ EptInv /\ CountInv

-----------------------------------------------------------------------------
LEMMA Names == Rx # Bus /\ None \notin Users \cup Epts \cup {Rx, Bus} /\ Rx \notin Users /\ Bus \notin Users
               /\ NsAddr \notin Addrs /\ None \notin Msg
BY NamesAssumption, MsgAssumption

LEMMA InitInv == Init => IInv
<1> SUFFICES ASSUME Init PROVE IInv
  OBVIOUS
<1> USE Names DEF Init
<1>1. TypeInv
  <2>1. Freed \in Memory /\ Idle \in RxRec
    BY DEF Freed, Memory, Idle, RxRec, RxPlaces
  <2>2. file \in [Users -> FileRec]
    BY DEF FileRec
  <2>3. ept \in [Epts -> Memory]
    BY <2>1
  <2>4. pc \in [Actors -> Places] /\ obj \in [Actors -> Epts \cup {None}]
    BY DEF Places
  <2>5. idr \in [AllAddrs -> Epts \cup {None}] /\ nsEpt \in Epts \cup {None} /\ rx \in RxRec
    BY <2>1
  <2>6. ready \in BOOLEAN /\ channel \in BOOLEAN /\ signal \in BOOLEAN
    OBVIOUS
  <2>7. used \in Seq(Msg)
    OBVIOUS
  <2> QED
    BY <2>2, <2>3, <2>4, <2>5, <2>6, <2>7 DEF TypeInv
<1>2. RxInv
  BY DEF RxInv, Idle, Referring, Delivering, Actors
<1>3. BusInv /\ OwnerInv /\ DestroyInv
  BY DEF BusInv, OwnerInv, DestroyInv, Actors, Destroying
<1>4. EptInv /\ CountInv
  BY DEF EptInv, CountInv, Refs, Owned, Idle, Freed, Locking, AllAddrs
<1> QED
  BY <1>1, <1>2, <1>3, <1>4 DEF IInv

\* What the invariant says of the endpoint that a destroyer holds: only the destroyer can
\* reach it by a file or as the name service.
LEMMA Held ==
    ASSUME IInv, NEW a \in Actors, obj[a] # None
    PROVE  /\ obj[a] \in Epts /\ Owned(obj[a])
           /\ \A u \in Users : file[u].ept = obj[a] <=> file[u].lock = a
           /\ a # Bus => obj[a] # nsEpt
           /\ \A b \in Actors \ {a} : obj[b] # obj[a]
<1> USE Names DEF IInv
<1>1. obj[a] \in Epts
  BY DEF TypeInv
<1>2. ASSUME NEW u \in Users PROVE file[u].lock = a => file[u].ept = obj[a]
  BY <1>1 DEF OwnerInv, TypeInv, FileRec, Actors
<1>3. CASE \E u \in Users : file[u].lock = a
  <2> PICK u \in Users : file[u].lock = a
    BY <1>3
  <2>1. file[u].ept = obj[a] /\ obj[a] # nsEpt
    BY <1>1, <1>2 DEF OwnerInv
  <2>2. \A v \in Users : file[v].ept = obj[a] => v = u
    BY <1>1, <2>1 DEF OwnerInv
  <2>3. ASSUME NEW b \in Actors \ {a}, obj[b] = obj[a] PROVE FALSE
    <3>1. \E v \in Users : file[v].lock = b
      BY <1>1, <2>1, <2>3 DEF OwnerInv
    <3>2. \A v \in Users : file[v].lock = b => file[v].ept = obj[b]
      BY <1>1, <2>3 DEF OwnerInv, TypeInv, FileRec, Actors
    <3> QED
      BY <2>2, <2>3, <3>1, <3>2
  <2> QED
    BY <1>1, <1>2, <2>1, <2>2, <2>3 DEF Owned
<1>4. CASE a = Bus /\ obj[a] = nsEpt
  <2>1. \A u \in Users : file[u].ept = None /\ file[u].lock = None
    BY <1>1, <1>4 DEF BusInv, OwnerInv
  <2>2. \A b \in Actors \ {a} : obj[b] = None
    BY <1>4, <2>1 DEF OwnerInv, Actors, TypeInv
  <2>3. pc[Bus] # "free"
    BY <1>4 DEF OwnerInv, Destroying, Actors
  <2> QED
    BY <1>1, <1>4, <2>1, <2>2, <2>3 DEF Owned, Actors
<1> QED
  BY <1>3, <1>4 DEF OwnerInv

\* Steps of the remote, and of the worker that touch no endpoint.
LEMMA EndpointsStay ==
    ASSUME IInv, UNCHANGED <<objectVars, actorVars>>, rx'.ept = rx.ept,
           rx'.at \in Locking <=> rx.at \in Locking, rx'.at = "call" => rx.at = "call"
    PROVE  OwnerInv' /\ DestroyInv' /\ EptInv' /\ CountInv'
<1> USE DEF objectVars, actorVars
<1>1. \A e \in Epts : Owned(e)' <=> Owned(e)
  BY DEF Owned
<1>2. OwnerInv' /\ DestroyInv'
  BY DEF IInv, OwnerInv, DestroyInv
<1>3. EptInv'
  BY <1>1 DEF IInv, EptInv
<1>4. CountInv'
  BY <1>1 DEF IInv, CountInv, Refs
<1> QED
  BY <1>2, <1>3, <1>4

LEMMA RemoteStep ==
    ASSUME IInv, RemoteSend \/ RemoteWait
    PROVE  IInv'
<1>1. UNCHANGED <<ready, objectVars, channel, actorVars, rx>>
  BY DEF RemoteSend, RemoteWait, Fill
<1>2. used' \in Seq(Msg) /\ signal' \in BOOLEAN
  <2>1. ASSUME NEW m \in Msg, Fill(m) PROVE used' \in Seq(Msg) /\ signal' \in BOOLEAN
    BY <2>1 DEF Fill, IInv, TypeInv
  <2> QED
    BY <2>1 DEF RemoteSend, RemoteWait, IInv, TypeInv
<1>3. signal' => ready
  BY DEF RemoteSend, RemoteWait, IInv, RxInv
<1>4. TypeInv' /\ RxInv' /\ BusInv'
  BY <1>1, <1>2, <1>3 DEF IInv, TypeInv, RxInv, BusInv, objectVars, actorVars
<1> QED
  BY <1>1, <1>4, EndpointsStay DEF IInv

\* The worker takes a message.
LEMMA TakeStep ==
    ASSUME IInv, used # <<>>, NEW g \in BOOLEAN, Take(g)
    PROVE  rx' \in RxRec /\ used' \in Seq(Msg) /\ rx'.at = "check" /\ rx'.msg # None /\ rx'.ept = None
<1>1. Head(used) \in Msg /\ Tail(used) \in Seq(Msg)
  BY DEF IInv, TypeInv
<1> QED
  BY <1>1, Names DEF Take, RxRec, RxPlaces

LEMMA WorkerStep ==
    ASSUME IInv, RecvDone \/ CheckSize \/ TooBig \/ DataCallback \/ NsCreate \/ AddInbuf \/ Kick
    PROVE  IInv'
<1>0. UNCHANGED <<ready, objectVars, actorVars>>
  BY DEF RecvDone, CheckSize, TooBig, DataCallback, NsCreate, AddInbuf, Kick, Quiet
<1>1. /\ rx' \in RxRec /\ used' \in Seq(Msg) /\ rx'.ept = rx.ept
      /\ rx'.msg # None <=> rx'.at \in Delivering
      /\ rx'.at \notin {"unregister"} /\ rx.at # "unregister"
      /\ rx'.at \in Referring <=> rx.at \in Referring
      /\ rx'.at \in Referring \cup {"find"} => rx'.msg = rx.msg /\ rx.msg.kind # "bad"
      /\ rx'.at \in Locking <=> rx.at \in Locking
      /\ rx'.at = "call" => rx.at = "call"
  <2> USE DEF IInv, TypeInv, RxInv, RxRec, RxPlaces, RxAt, RxTo, Quiet, Referring, Delivering, Locking, ringVars
  <2>1. CASE RecvDone
    BY <2>1, TakeStep DEF RecvDone
  <2>2. CASE CheckSize
    BY <2>2 DEF CheckSize
  <2>3. CASE TooBig
    BY <2>3 DEF TooBig
  <2>4. CASE DataCallback
    BY <2>4 DEF DataCallback
  <2>5. CASE NsCreate
    BY <2>5 DEF NsCreate
  <2>6. CASE AddInbuf
    BY <2>6, TakeStep DEF AddInbuf, Idle
  <2>7. CASE Kick
    BY <2>7 DEF Kick, Idle
  <2> QED
    BY <2>1, <2>2, <2>3, <2>4, <2>5, <2>6, <2>7
<1>2. /\ channel' \in BOOLEAN /\ signal' \in BOOLEAN /\ (signal' => signal) /\ ready
      /\ (channel' = channel \/ channel')
  <2> USE DEF IInv, TypeInv, RxInv, RxAt, Quiet, ringVars
  <2>1. CASE RecvDone
    BY <2>1 DEF RecvDone
  <2>2. CASE CheckSize
    BY <2>2 DEF CheckSize
  <2>3. CASE TooBig
    BY <2>3 DEF TooBig
  <2>4. CASE DataCallback
    BY <2>4 DEF DataCallback
  <2>5. CASE NsCreate
    BY <2>5 DEF NsCreate
  <2>6. CASE AddInbuf
    BY <2>6 DEF AddInbuf
  <2>7. CASE Kick
    BY <2>7 DEF Kick
  <2> QED
    BY <2>1, <2>2, <2>3, <2>4, <2>5, <2>6, <2>7
<1>3. TypeInv'
  BY <1>0, <1>1, <1>2 DEF IInv, TypeInv, objectVars, actorVars
<1>4. RxInv'
  BY <1>0, <1>1, <1>2 DEF IInv, RxInv, objectVars, actorVars
<1>5. BusInv'
  BY <1>0, <1>2 DEF IInv, BusInv, objectVars, actorVars
<1> QED
  BY <1>0, <1>1, <1>3, <1>4, <1>5, EndpointsStay DEF IInv

\* Find, LockCb, UnlockCb and PutRef change one endpoint and the place of the worker.
LEMMA WorkerKeeps ==
    ASSUME IInv, UNCHANGED <<ready, idr, nsEpt, channel, actorVars, signal, used>>
    PROVE  BusInv' /\ OwnerInv' /\ \A e \in Epts : Owned(e)' <=> Owned(e)
BY DEF IInv, BusInv, OwnerInv, Owned, actorVars

LEMMA FindStep ==
    ASSUME IInv, Find
    PROVE  IInv'
<1> DEFINE e == idr[rx.msg.dst]
<1> USE Names DEF IInv
<1>0. UNCHANGED <<ready, idr, nsEpt, channel, actorVars, signal, used>> /\ rx.at = "find"
  BY DEF Find, ringVars, RxAt
<1>1. /\ rx.msg \in Msg /\ rx.msg.dst \in AllAddrs /\ e \in Epts \cup {None} /\ rx.ept = None
      /\ rx.msg.kind = "data" => rx.msg.dst \in Addrs
  BY <1>0 DEF TypeInv, RxInv, RxRec, Referring, Delivering, Msg, AllAddrs
<1>2. rx' \in RxRec /\ rx'.at = AfterFind(e) /\ rx'.msg = rx.msg /\ rx'.ept = e
  BY <1>1 DEF Find, TypeInv, RxRec, RxPlaces, AfterFind
<1>3. e = None => UNCHANGED ept
  BY DEF Find
<1>4. e # None => /\ \A x \in Epts \ {e} : ept'[x] = ept[x]
                  /\ ept'[e].refs = ept[e].refs + 1 /\ ept'[e].cb = ept[e].cb
                  /\ ept'[e].lock = ept[e].lock /\ ept'[e].allocated = ept[e].allocated
                  /\ ept' \in [Epts -> Memory]
  <2> SUFFICES ASSUME e # None
               PROVE  /\ \A x \in Epts \ {e} : ept'[x] = ept[x]
                      /\ ept'[e].refs = ept[e].refs + 1 /\ ept'[e].cb = ept[e].cb
                      /\ ept'[e].lock = ept[e].lock /\ ept'[e].allocated = ept[e].allocated
                      /\ ept' \in [Epts -> Memory]
    OBVIOUS
  <2>1. ept[e] \in Memory /\ ept \in [Epts -> Memory] /\ e \in Epts
    BY <1>1 DEF TypeInv
  <2> DEFINE r == [ept[e] EXCEPT !.refs = ept[e].refs + 1]
  <2>2. ept' = [ept EXCEPT ![e] = r]
    BY DEF Find, GetRef
  <2>3. /\ r \in Memory /\ r.refs = ept[e].refs + 1 /\ r.cb = ept[e].cb
        /\ r.lock = ept[e].lock /\ r.allocated = ept[e].allocated
    BY <2>1 DEF Memory
  <2> HIDE DEF r
  <2>4. ept'[e] = r /\ \A x \in Epts \ {e} : ept'[x] = ept[x]
    BY <2>1, <2>2
  <2>5. ept' \in [Epts -> Memory]
    BY <2>1, <2>2, <2>3
  <2> QED
    BY <2>3, <2>4, <2>5
<1>5. BusInv' /\ OwnerInv' /\ \A x \in Epts : Owned(x)' <=> Owned(x)
  BY <1>0, WorkerKeeps
<1>6. e # None => Owned(e)
  BY <1>1 DEF EptInv
<1> HIDE DEF e
<1>7. TypeInv'
  BY <1>0, <1>2, <1>3, <1>4 DEF TypeInv, actorVars
<1>8. RxInv'
  <2>1. rx.msg.kind = "data" /\ e # None => e # nsEpt
    BY <1>1 DEF EptInv, e
  <2>2. rx.msg.kind # "bad" /\ rx.msg # None /\ pc[Rx] = "idle" /\ ready
    BY <1>0 DEF RxInv, Delivering
  <2> QED
    BY <1>0, <1>1, <1>2, <2>1, <2>2 DEF RxInv, AfterFind, Referring, Delivering, actorVars
<1>9. DestroyInv'
  <2>1. \A x \in Epts : ept'[x].cb = ept[x].cb
    BY <1>1, <1>3, <1>4
  <2>2. \A a \in Actors : pc[a] = "put" => obj[a] \in Epts
    BY DEF OwnerInv, TypeInv, Destroying
  <2> QED
    BY <1>0, <2>1, <2>2 DEF DestroyInv, actorVars
<1>10. EptInv'
  <2>1. \A x \in Epts : ept'[x].cb = ept[x].cb /\ ept'[x].lock = ept[x].lock
    BY <1>1, <1>3, <1>4
  <2>2. rx'.at \notin Locking /\ rx.at \notin Locking /\ rx'.at # "call"
    BY <1>0, <1>2 DEF AfterFind, Locking
  <2> QED
    BY <1>0, <1>5, <2>1, <2>2 DEF EptInv
<1>11. CountInv'
  <2> SUFFICES ASSUME NEW x \in Epts
               PROVE  ept'[x].refs = Refs(x)' /\ (ept'[x].allocated <=> Refs(x)' > 0)
    BY DEF CountInv
  <2>1. Refs(x)' = Refs(x) + (IF e = x THEN 1 ELSE 0)
    BY <1>1, <1>2, <1>5 DEF Refs
  <2>2. ept[x].refs = Refs(x) /\ (ept[x].allocated <=> Refs(x) > 0) /\ Refs(x) \in Nat
    BY DEF CountInv, Refs
  <2>3. CASE e = x
    <3>1. Refs(x) > 0
      BY <1>6, <2>3 DEF Refs
    <3> QED
      BY <1>4, <2>1, <2>2, <2>3, <3>1
  <2>4. CASE e # x
    BY <1>1, <1>3, <1>4, <2>1, <2>2, <2>4
  <2> QED
    BY <2>3, <2>4
<1> QED
  BY <1>5, <1>7, <1>8, <1>9, <1>10, <1>11

LEMMA LockStep ==
    ASSUME IInv, LockCb \/ UnlockCb
    PROVE  IInv'
<1> DEFINE e == rx.ept
<1> USE Names DEF IInv
<1>0. /\ UNCHANGED <<ready, idr, nsEpt, channel, actorVars, signal, used>>
      /\ rx.at \in {"lock", "unlock"}
  BY DEF LockCb, UnlockCb, ringVars, RxAt
<1>1. e \in Epts /\ pc[Rx] = "idle" /\ rx.msg # None /\ rx.msg.kind # "bad" /\ ready
  BY <1>0 DEF TypeInv, RxInv, RxRec, Referring, Delivering
<1>2. /\ rx' \in RxRec /\ rx'.msg = rx.msg /\ rx'.ept = e
      /\ LockCb => rx'.at = IF ept[e].cb THEN "call" ELSE "unlock"
      /\ UnlockCb => rx'.at = "release"
  BY <1>1 DEF LockCb, UnlockCb, RxTo, TypeInv, RxRec, RxPlaces
<1>3. /\ \A x \in Epts \ {e} : ept'[x] = ept[x]
      /\ ept'[e].refs = ept[e].refs /\ ept'[e].cb = ept[e].cb /\ ept'[e].allocated = ept[e].allocated
      /\ LockCb => ept'[e].lock = Rx
      /\ UnlockCb => ept'[e].lock = None
      /\ ept' \in [Epts -> Memory]
  <2>1. ept[e] \in Memory /\ ept \in [Epts -> Memory] /\ e \in Epts
    BY <1>1 DEF TypeInv
  <2> DEFINE r(l) == [ept[e] EXCEPT !.lock = l]
  <2>2. (LockCb => ept' = [ept EXCEPT ![e] = r(Rx)]) /\ (UnlockCb => ept' = [ept EXCEPT ![e] = r(None)])
    BY DEF LockCb, UnlockCb, Unlocked
  <2>3. \A l \in {Rx, None} : /\ r(l) \in Memory /\ r(l).refs = ept[e].refs /\ r(l).cb = ept[e].cb
                              /\ r(l).lock = l /\ r(l).allocated = ept[e].allocated
    BY <2>1 DEF Memory
  <2> HIDE DEF r
  <2>4. PICK l \in {Rx, None} : ept' = [ept EXCEPT ![e] = r(l)] /\ (LockCb => l = Rx) /\ (UnlockCb => l = None)
    <3>1. LockCb => ~UnlockCb
      BY DEF LockCb, UnlockCb, RxAt
    <3> QED
      BY <2>2, <3>1
  <2>5. ept'[e] = r(l) /\ \A x \in Epts \ {e} : ept'[x] = ept[x]
    BY <2>1, <2>4
  <2>6. ept' \in [Epts -> Memory]
    BY <2>1, <2>3, <2>4
  <2> QED
    BY <2>3, <2>4, <2>5, <2>6
<1>4. BusInv' /\ OwnerInv' /\ \A x \in Epts : Owned(x)' <=> Owned(x)
  BY <1>0, WorkerKeeps
<1> HIDE DEF e
<1>5. TypeInv'
  BY <1>0, <1>2, <1>3 DEF TypeInv, actorVars
<1>6. RxInv'
  <2>1. rx.msg.kind = "data" => e # nsEpt
    BY <1>0 DEF RxInv, Referring, e
  <2>2. rx'.at \in {"call", "unlock", "release"} /\ e # None
    BY <1>1, <1>2
  <2> QED
    BY <1>0, <1>1, <1>2, <2>1, <2>2 DEF RxInv, Referring, Delivering, actorVars
<1>7. DestroyInv'
  <2>1. \A x \in Epts : ept'[x].cb = ept[x].cb
    BY <1>3
  <2>2. \A a \in Actors : pc[a] = "put" => obj[a] \in Epts
    BY DEF OwnerInv, TypeInv, Destroying
  <2> QED
    BY <1>0, <2>1, <2>2 DEF DestroyInv, actorVars
<1>8. EptInv'
  <2>1. \A x \in Epts : ept'[x].cb = ept[x].cb
    BY <1>3
  <2>2. rx'.at = "call" => ept'[rx'.ept].cb
    BY <1>1, <1>2, <2>1
  <2>3. ASSUME NEW x \in Epts PROVE ept'[x].lock = Rx <=> rx'.ept = x /\ rx'.at \in Locking
    <3>1. CASE x = e
      <4>1. CASE LockCb
        BY <1>2, <1>3, <3>1, <4>1 DEF Locking
      <4>2. CASE UnlockCb
        BY <1>2, <1>3, <3>1, <4>2 DEF Locking
      <4> QED
        BY <4>1, <4>2
    <3>2. CASE x # e
      BY <1>2, <1>3, <3>2 DEF EptInv, e
    <3> QED
      BY <3>1, <3>2
  <2> QED
    BY <1>0, <1>4, <2>1, <2>2, <2>3 DEF EptInv
<1>9. CountInv'
  <2>1. \A x \in Epts : Refs(x)' = Refs(x)
    BY <1>2, <1>4 DEF Refs, e
  <2>2. \A x \in Epts : ept'[x].refs = ept[x].refs /\ ept'[x].allocated = ept[x].allocated
    BY <1>3
  <2> QED
    BY <2>1, <2>2 DEF CountInv
<1> QED
  BY <1>4, <1>5, <1>6, <1>7, <1>8, <1>9

\* kref_put takes one from the count, and frees the endpoint with the last one.
LEMMA PutCounts ==
    ASSUME IInv, NEW e \in Epts, ept[e].refs > 0
    PROVE  /\ Put(e) \in [Epts -> Memory]
           /\ \A x \in Epts \ {e} : Put(e)[x] = ept[x]
           /\ Put(e)[e].refs = ept[e].refs - 1
           /\ Put(e)[e].allocated <=> ept[e].refs # 1 /\ ept[e].allocated
           /\ Put(e)[e].cb <=> ept[e].refs # 1 /\ ept[e].cb
           /\ Put(e)[e].lock = IF ept[e].refs = 1 THEN None ELSE ept[e].lock
<1>1. ept \in [Epts -> Memory] /\ ept[e] \in Memory /\ ept[e].refs \in Nat
  BY DEF IInv, TypeInv, Memory
<1>2. /\ Dropped(ept[e]) \in Memory
      /\ Dropped(ept[e]).refs = ept[e].refs - 1
      /\ Dropped(ept[e]).allocated <=> ept[e].refs # 1 /\ ept[e].allocated
      /\ Dropped(ept[e]).cb <=> ept[e].refs # 1 /\ ept[e].cb
      /\ Dropped(ept[e]).lock = IF ept[e].refs = 1 THEN None ELSE ept[e].lock
  <2>1. CASE ept[e].refs = 1
    <3>1. Dropped(ept[e]) = Freed
      BY <2>1 DEF Dropped
    <3>2. Freed \in Memory
      BY DEF Freed, Memory
    <3> QED
      BY <2>1, <3>1, <3>2 DEF Freed
  <2>2. CASE ept[e].refs # 1
    <3>1. Dropped(ept[e]) = [ept[e] EXCEPT !.refs = ept[e].refs - 1]
      BY <2>2 DEF Dropped
    <3> QED
      BY <1>1, <2>2, <3>1 DEF Memory
  <2> QED
    BY <2>1, <2>2
<1>3. /\ Put(e) \in [Epts -> Memory] /\ Put(e)[e] = Dropped(ept[e])
      /\ \A x \in Epts \ {e} : Put(e)[x] = ept[x]
  BY <1>1, <1>2 DEF Put
<1> QED
  BY <1>2, <1>3

LEMMA PutRefStep ==
    ASSUME IInv, PutRef
    PROVE  IInv'
<1> DEFINE e == rx.ept
<1> USE Names DEF IInv
<1>0. /\ UNCHANGED <<ready, idr, nsEpt, channel, actorVars, signal, used>>
      /\ rx.at = "release" /\ ept' = Put(e)
  BY DEF PutRef, ringVars, RxAt
<1>1. e \in Epts /\ pc[Rx] = "idle" /\ rx.msg # None /\ ready
  BY <1>0 DEF TypeInv, RxInv, RxRec, Referring, Delivering
<1>2. rx' \in RxRec /\ rx'.msg = rx.msg /\ rx'.ept = None /\ rx'.at = "add"
  <2>1. rx' = [at |-> "add", msg |-> rx.msg, ept |-> None, got |-> rx.got]
    BY DEF PutRef, TypeInv, RxRec
  <2> QED
    BY <2>1 DEF TypeInv, RxRec, RxPlaces
<1>3. \A x \in Epts : ept[x].refs = Refs(x) /\ (ept[x].allocated <=> Refs(x) > 0) /\ Refs(x) \in 0..2
  BY DEF CountInv, Refs
<1>4. Refs(e) = IF Owned(e) THEN 2 ELSE 1
  BY <1>1 DEF Refs
<1>5. ept[e].refs > 0
  BY <1>1, <1>3, <1>4
<1>6. BusInv' /\ OwnerInv' /\ \A x \in Epts : Owned(x)' <=> Owned(x)
  BY <1>0, WorkerKeeps
<1>7. /\ ept' \in [Epts -> Memory] /\ \A x \in Epts \ {e} : ept'[x] = ept[x]
      /\ ept'[e].refs = ept[e].refs - 1
      /\ ept'[e].allocated <=> ept[e].refs # 1 /\ ept[e].allocated
      /\ ept'[e].cb <=> ept[e].refs # 1 /\ ept[e].cb
      /\ ept'[e].lock = IF ept[e].refs = 1 THEN None ELSE ept[e].lock
  BY <1>0, <1>1, <1>5, PutCounts
<1>8. ept'[e].cb <=> ept[e].cb
  BY <1>1, <1>3, <1>4, <1>7 DEF EptInv
<1>9. \A x \in Epts : ept'[x].lock # Rx /\ (ept'[x].cb <=> ept[x].cb)
  <2>1. \A x \in Epts : ept[x].lock # Rx
    BY <1>0 DEF EptInv, Locking
  <2> QED
    BY <1>7, <1>8, <2>1
<1> HIDE DEF e
<1>10. TypeInv'
  BY <1>0, <1>2, <1>7 DEF TypeInv, actorVars
<1>11. RxInv'
  BY <1>0, <1>1, <1>2 DEF RxInv, Referring, Delivering, actorVars
<1>12. DestroyInv'
  <2>1. \A a \in Actors : pc[a] = "put" => obj[a] \in Epts
    BY DEF OwnerInv, TypeInv, Destroying
  <2> QED
    BY <1>0, <1>9, <2>1 DEF DestroyInv, actorVars
<1>13. EptInv'
  BY <1>0, <1>2, <1>6, <1>9 DEF EptInv, Locking
<1>14. CountInv'
  <2>1. \A x \in Epts : Refs(x)' = IF x = e THEN Refs(x) - 1 ELSE Refs(x)
    BY <1>2, <1>6, <1>1 DEF Refs, e
  <2> SUFFICES ASSUME NEW x \in Epts
               PROVE  ept'[x].refs = Refs(x)' /\ (ept'[x].allocated <=> Refs(x)' > 0)
    BY DEF CountInv
  <2>2. CASE x = e
    BY <1>3, <1>4, <1>7, <2>1, <2>2
  <2>3. CASE x # e
    BY <1>3, <1>7, <2>1, <2>3
  <2> QED
    BY <2>2, <2>3
<1> QED
  BY <1>6, <1>10, <1>11, <1>12, <1>13, <1>14

\* Steps that change no endpoint, no table and no owner.
LEMMA UnregisterStep ==
    ASSUME IInv, NsDestroy \/ Unregistered
    PROVE  IInv'
<1> USE Names DEF IInv
<1>0. UNCHANGED <<ready, objectVars, file, obj, signal, used>>
  BY DEF NsDestroy, Unregistered, ringVars
<1>1. /\ rx.at \in {"call", "unregister"} /\ rx'.at \in {"unregister", "unlock"}
      /\ rx'.ept = rx.ept /\ rx'.msg = rx.msg /\ rx' \in RxRec
  BY DEF NsDestroy, Unregistered, RxAt, RxTo, TypeInv, RxRec, RxPlaces
<1>2. /\ pc' = [pc EXCEPT ![Rx] = IF rx'.at = "unregister" THEN "children" ELSE "idle"]
      /\ pc[Rx] \in {"idle", "children"} /\ channel' \in BOOLEAN /\ (channel' => channel)
  <2>1. CASE NsDestroy
    BY <2>1 DEF NsDestroy, Goto, RxTo, TypeInv, RxRec
  <2>2. CASE Unregistered
    BY <2>2 DEF Unregistered, Goto, RxTo, TypeInv, RxRec
  <2> QED
    BY <2>1, <2>2
<1>3. /\ pc' \in [Actors -> Places] /\ pc'[Rx] = IF rx'.at = "unregister" THEN "children" ELSE "idle"
      /\ \A a \in Actors \ {Rx} : pc'[a] = pc[a]
  BY <1>2 DEF TypeInv, Places, Actors
<1>4. \A e \in Epts : Owned(e)' <=> Owned(e)
  BY <1>0, <1>3 DEF Owned, objectVars, Actors
<1>5. TypeInv'
  BY <1>0, <1>1, <1>2, <1>3 DEF TypeInv, objectVars
<1>6. RxInv'
  BY <1>0, <1>1, <1>3 DEF RxInv, Referring, Delivering, objectVars
<1>7. BusInv'
  BY <1>0, <1>2, <1>3 DEF BusInv, objectVars, Actors
<1>8. OwnerInv'
  <2>1. obj[Rx] = None /\ pc'[Rx] \notin Destroying /\ Rx \in Actors
    BY <1>2, <1>3 DEF OwnerInv, Destroying, Actors
  <2>2. \A a \in Actors : obj[a] # None <=> pc'[a] \in Destroying
    BY <1>3, <2>1 DEF OwnerInv
  <2> QED
    BY <1>0, <1>3, <2>2 DEF OwnerInv, objectVars, Actors
<1>9. DestroyInv'
  BY <1>0, <1>3 DEF DestroyInv, objectVars
<1>10. EptInv'
  BY <1>0, <1>1, <1>4 DEF EptInv, objectVars, Locking
<1>11. CountInv'
  BY <1>0, <1>1, <1>4 DEF CountInv, Refs, objectVars
<1> QED
  BY <1>5, <1>6, <1>7, <1>8, <1>9, <1>10, <1>11

-----------------------------------------------------------------------------
(* The steps of __rpmsg_destroy_ept.                                       *)

\* Before its last step only the place of the destroyer and one endpoint change.
LEMMA DestroyerKeeps ==
    ASSUME IInv, NEW a \in Actors, NEW p \in Destroying, pc[a] \in Destroying,
           pc' = [pc EXCEPT ![a] = p], UNCHANGED <<ready, nsEpt, channel, file, obj, rx, ringVars>>
    PROVE  /\ RxInv' /\ BusInv' /\ OwnerInv' /\ \A e \in Epts : Owned(e)' <=> Owned(e)
           /\ pc' \in [Actors -> Places] /\ pc'[a] = p /\ \A b \in Actors \ {a} : pc'[b] = pc[b]
<1> USE Names DEF IInv, ringVars
<1>1. pc' \in [Actors -> Places] /\ pc'[a] = p /\ \A b \in Actors \ {a} : pc'[b] = pc[b]
  BY DEF TypeInv, Places
<1>2. \A b \in Actors : /\ pc'[b] \in Destroying <=> pc[b] \in Destroying
                        /\ (pc'[b] = "idle" <=> pc[b] = "idle") /\ (pc'[b] = "free" <=> pc[b] = "free")
  BY <1>1 DEF Destroying
<1>3. RxInv'
  BY <1>2 DEF RxInv, Actors
<1>4. BusInv'
  BY <1>2 DEF BusInv, Actors, Destroying
<1>5. OwnerInv'
  BY <1>2 DEF OwnerInv, Actors
<1>6. \A e \in Epts : Owned(e)' <=> Owned(e)
  BY <1>2 DEF Owned, Actors
<1> QED
  BY <1>1, <1>3, <1>4, <1>5, <1>6

LEMMA IdrRemoveStep ==
    ASSUME IInv, NEW a \in Actors, IdrRemove(a)
    PROVE  IInv'
<1> USE Names DEF IInv
<1>0. /\ UNCHANGED <<ready, ept, nsEpt, channel, file, obj, rx, ringVars>>
      /\ pc[a] = "destroy" /\ pc' = [pc EXCEPT ![a] = "clear"]
  BY DEF IdrRemove, Goto
<1>1. /\ RxInv' /\ BusInv' /\ OwnerInv' /\ \A e \in Epts : Owned(e)' <=> Owned(e)
      /\ pc' \in [Actors -> Places] /\ pc'[a] = "clear" /\ \A b \in Actors \ {a} : pc'[b] = pc[b]
  BY <1>0, DestroyerKeeps DEF Destroying
<1>2. obj[a] \in Epts
  BY <1>0 DEF OwnerInv, TypeInv, Destroying
<1>3. /\ idr' \in [AllAddrs -> Epts \cup {None}]
      /\ \A x \in AllAddrs : idr'[x] = IF idr[x] = obj[a] THEN None ELSE idr[x]
  BY DEF IdrRemove, TypeInv
<1>4. TypeInv'
  BY <1>0, <1>1, <1>3 DEF TypeInv, ringVars
<1>5. DestroyInv'
  <2> SUFFICES ASSUME NEW b \in Actors
               PROVE  /\ pc'[b] \in {"clear", "put"} => \A x \in AllAddrs : idr'[x] # obj[b]
                      /\ pc'[b] = "put" => ~ept[obj[b]].cb
    BY <1>0 DEF DestroyInv
  <2>1. CASE b = a
    BY <1>1, <1>2, <1>3, <2>1
  <2>2. CASE b # a
    <3>1. pc[b] \in {"clear", "put"} => obj[b] \in Epts
      BY DEF OwnerInv, TypeInv, Destroying
    <3> QED
      BY <1>1, <1>3, <2>2, <3>1 DEF DestroyInv
  <2> QED
    BY <2>1, <2>2
<1>6. EptInv'
  <2>1. \A x \in AllAddrs : idr'[x] # None => idr'[x] = idr[x]
    BY <1>3
  <2>2. \A e \in Epts : \A x \in AllAddrs : idr'[x] = e => Owned(e)'
    BY <1>1, <2>1 DEF EptInv
  <2>3. \A x \in Addrs : idr'[x] # None => idr'[x] # nsEpt
    BY <2>1 DEF EptInv, AllAddrs
  <2> QED
    BY <1>0, <1>1, <2>2, <2>3 DEF EptInv
<1>7. CountInv'
  BY <1>0, <1>1 DEF CountInv, Refs
<1> QED
  BY <1>1, <1>4, <1>5, <1>6, <1>7

\* cb_lock keeps the callback from running on, and the count is not touched.
LEMMA ClearCbStep ==
    ASSUME IInv, NEW a \in Actors, ClearCb(a)
    PROVE  IInv'
<1> DEFINE e == obj[a]
<1> USE Names DEF IInv
<1>0. /\ UNCHANGED <<ready, idr, nsEpt, channel, file, obj, rx, ringVars>>
      /\ pc[a] = "clear" /\ pc' = [pc EXCEPT ![a] = "put"] /\ ept[e].lock = None
  BY DEF ClearCb, Goto, LockFree
<1>1. /\ RxInv' /\ BusInv' /\ OwnerInv' /\ \A x \in Epts : Owned(x)' <=> Owned(x)
      /\ pc' \in [Actors -> Places] /\ pc'[a] = "put" /\ \A b \in Actors \ {a} : pc'[b] = pc[b]
  BY <1>0, DestroyerKeeps DEF Destroying
<1>2. e \in Epts
  BY <1>0 DEF OwnerInv, TypeInv, Destroying
<1>3. /\ ept' \in [Epts -> Memory] /\ \A x \in Epts \ {e} : ept'[x] = ept[x]
      /\ ept'[e].refs = ept[e].refs /\ ept'[e].allocated = ept[e].allocated
      /\ ept'[e].lock = ept[e].lock /\ ~ept'[e].cb
  <2>1. ept[e] \in Memory /\ ept \in [Epts -> Memory]
    BY <1>2 DEF TypeInv
  <2> DEFINE r == [ept[e] EXCEPT !.cb = FALSE]
  <2>2. ept' = [ept EXCEPT ![e] = r]
    BY DEF ClearCb
  <2>3. r \in Memory /\ r.refs = ept[e].refs /\ r.allocated = ept[e].allocated /\ r.lock = ept[e].lock
    BY <2>1 DEF Memory
  <2>4. ~r.cb
    BY <2>1 DEF Memory
  <2> HIDE DEF r
  <2>5. ept'[e] = r /\ (\A x \in Epts \ {e} : ept'[x] = ept[x]) /\ ept' \in [Epts -> Memory]
    BY <1>2, <2>1, <2>2, <2>3
  <2> QED
    BY <2>3, <2>4, <2>5
<1> HIDE DEF e
<1>4. TypeInv'
  BY <1>0, <1>1, <1>3 DEF TypeInv, ringVars
<1>5. \A x \in Epts : ept'[x].cb => ept[x].cb
  BY <1>3
<1>6. DestroyInv'
  <2> SUFFICES ASSUME NEW b \in Actors
               PROVE  /\ pc'[b] \in {"clear", "put"} => \A x \in AllAddrs : idr[x] # obj[b]
                      /\ pc'[b] = "put" => ~ept'[obj[b]].cb
    BY <1>0 DEF DestroyInv
  <2>1. CASE b = a
    BY <1>0, <1>3, <2>1 DEF DestroyInv, e
  <2>2. CASE b # a
    <3>1. pc[b] \in {"clear", "put"} => obj[b] \in Epts
      BY DEF OwnerInv, TypeInv, Destroying
    <3> QED
      BY <1>1, <1>5, <2>2, <3>1 DEF DestroyInv
  <2> QED
    BY <2>1, <2>2
<1>7. EptInv'
  <2>1. \A x \in Epts : ept'[x].cb => Owned(x)'
    BY <1>1, <1>5 DEF EptInv
  <2>2. rx.at = "call" => rx.ept \in Epts /\ rx.ept # e
    BY <1>0, <1>2 DEF EptInv, RxInv, TypeInv, RxRec, Referring, Locking
  <2>3. rx.at = "call" => ept'[rx.ept].cb
    BY <1>3, <2>2 DEF EptInv
  <2>4. \A x \in Epts : ept'[x].lock = ept[x].lock
    BY <1>3
  <2> QED
    BY <1>0, <1>1, <2>1, <2>3, <2>4 DEF EptInv
<1>8. CountInv'
  <2>1. \A x \in Epts : ept'[x].refs = ept[x].refs /\ ept'[x].allocated = ept[x].allocated
    BY <1>3
  <2> QED
    BY <1>0, <1>1, <2>1 DEF CountInv, Refs
<1> QED
  BY <1>1, <1>4, <1>6, <1>7, <1>8

\* The owner's reference goes: the file forgets the endpoint, or the bus its name service.
LEMMA DestroyPutStep ==
    ASSUME IInv, NEW a \in Actors, DestroyPut(a)
    PROVE  IInv'
<1> USE Names DEF IInv
<1>e. PICK e \in Epts : obj[a] = e
  BY DEF DestroyPut, Goto, OwnerInv, TypeInv, Destroying
<1> DEFINE q == IF a \in Users THEN "idle" ELSE IF e = nsEpt THEN "free" ELSE "children"
<1>0. /\ UNCHANGED <<ready, idr, nsEpt, channel, rx, ringVars>>
      /\ pc[a] = "put" /\ pc' = [pc EXCEPT ![a] = q] /\ ept' = Put(e)
      /\ file' = [u \in Users |-> IF file[u].lock = a THEN [ept |-> None, lock |-> None] ELSE file[u]]
      /\ obj' = [obj EXCEPT ![a] = None]
  BY <1>e DEF DestroyPut, Goto
<1>1. obj[a] # None
  BY <1>0 DEF OwnerInv, Destroying
<1>2. /\ e \in Epts /\ Owned(e) /\ a # None
      /\ \A u \in Users : file[u].ept = e <=> file[u].lock = a
      /\ a # Bus => e # nsEpt
      /\ \A b \in Actors \ {a} : obj[b] # e
  BY <1>e, <1>1, Held DEF Actors
<1>3. /\ pc' \in [Actors -> Places] /\ pc'[a] = q /\ \A b \in Actors \ {a} : pc'[b] = pc[b]
      /\ obj' \in [Actors -> Epts \cup {None}] /\ obj'[a] = None
      /\ \A b \in Actors \ {a} : obj'[b] = obj[b]
  BY <1>0 DEF TypeInv, Places
<1>4. \A u \in Users : /\ file[u].lock = a => file'[u].ept = None /\ file'[u].lock = None
                       /\ file[u].lock # a => file'[u] = file[u]
  BY <1>0
<1>5. file' \in [Users -> FileRec]
  BY <1>0 DEF TypeInv, FileRec
<1>6. \A x \in Epts : ept[x].refs = Refs(x) /\ (ept[x].allocated <=> Refs(x) > 0) /\ Refs(x) \in 0..2
  BY DEF CountInv, Refs
<1>7. Refs(e) = IF rx.ept = e THEN 2 ELSE 1
  BY <1>2 DEF Refs
<1>8. /\ ept' \in [Epts -> Memory] /\ \A x \in Epts \ {e} : ept'[x] = ept[x]
      /\ ept'[e].refs = ept[e].refs - 1
      /\ ept'[e].allocated <=> ept[e].refs # 1 /\ ept[e].allocated
      /\ ept'[e].cb <=> ept[e].refs # 1 /\ ept[e].cb
      /\ ept'[e].lock = IF ept[e].refs = 1 THEN None ELSE ept[e].lock
  <2>1. ept[e].refs > 0
    BY <1>2, <1>6, <1>7
  <2> QED
    BY <1>0, <1>2, <2>1, PutCounts
<1>9. ~ept[e].cb /\ ~ept'[e].cb
  BY <1>e, <1>0, <1>8 DEF DestroyInv
<1>10. \A x \in AllAddrs : idr[x] # e
  BY <1>e, <1>0 DEF DestroyInv
<1>11. q \notin Destroying /\ (q = "idle" <=> a \in Users) /\ (q = "free" <=> e = nsEpt)
  <2>1. a \in Users => e # nsEpt
    BY <1>2
  <2> QED
    BY <2>1 DEF Destroying
<1> HIDE DEF q
<1>12. ~Owned(e)'
  <2>1. \A u \in Users : file'[u].ept # e
    BY <1>2, <1>4
  <2>2. nsEpt = e => pc'[Bus] = "free"
    BY <1>2, <1>3, <1>11
  <2> QED
    BY <1>0, <2>1, <2>2 DEF Owned
<1>13. \A x \in Epts \ {e} : Owned(x)' <=> Owned(x)
  <2> SUFFICES ASSUME NEW x \in Epts \ {e} PROVE Owned(x)' <=> Owned(x)
    OBVIOUS
  <2>1. \A u \in Users : file'[u].ept = x <=> file[u].ept = x
    BY <1>2, <1>4
  <2>2. nsEpt = x => (pc'[Bus] = "free" <=> pc[Bus] = "free")
    BY <1>0, <1>3, <1>11 DEF Actors
  <2> QED
    BY <1>0, <2>1, <2>2 DEF Owned
<1>14. TypeInv'
  BY <1>0, <1>3, <1>5, <1>8 DEF TypeInv, ringVars
<1>15. RxInv'
  <2>1. pc'[Rx] # "idle" <=> pc[Rx] # "idle"
    BY <1>0, <1>3, <1>11 DEF Actors
  <2> QED
    BY <1>0, <2>1 DEF RxInv, ringVars
<1>16. BusInv'
  <2>1. pc'[Bus] # "idle" <=> pc[Bus] # "idle"
    BY <1>0, <1>3, <1>11 DEF Actors
  <2>2. \A u \in Users : file[u].ept = None => file'[u].ept = None
    BY <1>4
  <2>3. pc'[Bus] = "free" => pc[Bus] = "free" \/ (obj[Bus] # None /\ obj[Bus] = nsEpt)
    BY <1>e, <1>1, <1>2, <1>3, <1>11 DEF Actors
  <2>4. obj'[Bus] # None => obj[Bus] = obj'[Bus]
    BY <1>3 DEF Actors
  <2>5. pc'[Rx] # "free" /\ \A u \in Users : pc'[u] \in Destroying \cup {"idle"}
    BY <1>2, <1>3, <1>11 DEF BusInv, Actors
  <2>6. pc'[Bus] = "free" \/ (obj'[Bus] # None /\ obj'[Bus] = nsEpt) => \A u \in Users : file'[u].ept = None
    BY <2>2, <2>3, <2>4 DEF BusInv
  <2> QED
    BY <1>0, <2>1, <2>5, <2>6 DEF BusInv
<1>17. OwnerInv'
  <2>1. \A u \in Users : file'[u].ept # None => file'[u] = file[u]
    BY <1>4
  <2>2. \A u, v \in Users : file'[u].ept = file'[v].ept /\ file'[u].ept # None => u = v
    BY <2>1 DEF OwnerInv
  <2>3. \A u \in Users : file'[u].ept # None => file'[u].ept # nsEpt'
    BY <1>0, <2>1 DEF OwnerInv
  <2>4. ASSUME NEW u \in Users, file'[u].lock # None
        PROVE  file'[u].ept # None /\ obj'[file'[u].lock] = file'[u].ept
    <3>1. file'[u] = file[u] /\ file[u].lock # a
      BY <1>4, <2>4
    <3>2. file[u].lock \in Actors
      BY <2>4, <3>1 DEF TypeInv, FileRec
    <3> QED
      BY <1>3, <2>4, <3>1, <3>2 DEF OwnerInv
  <2>5. \A b \in Actors : obj'[b] # None <=> pc'[b] \in Destroying
    BY <1>3, <1>11 DEF OwnerInv
  <2>6. ASSUME NEW b \in Actors, obj'[b] # None
        PROVE  (\E u \in Users : file'[u].lock = b) \/ (b = Bus /\ obj'[b] = nsEpt')
    <3>1. b # a /\ obj'[b] = obj[b]
      BY <1>3, <2>6
    <3> QED
      BY <1>0, <1>4, <2>6, <3>1 DEF OwnerInv
  <2>7. ASSUME NEW u \in Users, pc'[u] # "idle" PROVE file'[u].lock = u
    <3>1. u # a
      BY <1>3, <1>11, <2>7
    <3> QED
      BY <1>3, <1>4, <2>7, <3>1 DEF OwnerInv, Actors
  <2> QED
    BY <2>2, <2>3, <2>4, <2>5, <2>6, <2>7 DEF OwnerInv
<1>18. DestroyInv'
  <2> SUFFICES ASSUME NEW b \in Actors
               PROVE  /\ pc'[b] \in {"clear", "put"} => \A x \in AllAddrs : idr[x] # obj'[b]
                      /\ pc'[b] = "put" => ~ept'[obj'[b]].cb
    BY <1>0 DEF DestroyInv
  <2>1. CASE b = a
    BY <1>3, <1>11, <2>1 DEF Destroying
  <2>2. CASE b # a
    <3>1. pc'[b] = pc[b] /\ obj'[b] = obj[b] /\ obj[b] # e
      BY <1>2, <1>3, <2>2
    <3>2. pc[b] = "put" => obj[b] \in Epts
      BY DEF OwnerInv, TypeInv, Destroying
    <3> QED
      BY <1>8, <3>1, <3>2 DEF DestroyInv
  <2> QED
    BY <2>1, <2>2
<1>19. EptInv'
  <2>1. \A x \in Epts : \A y \in AllAddrs : idr[y] = x => Owned(x)'
    BY <1>10, <1>13 DEF EptInv
  <2>2. \A x \in Epts : ept'[x].cb => Owned(x)'
    BY <1>8, <1>9, <1>13 DEF EptInv
  <2>3. ASSUME NEW x \in Epts PROVE ept'[x].lock = Rx <=> rx.ept = x /\ rx.at \in Locking
    <3>1. CASE x = e
      <4>1. rx.ept = e => ept'[e].lock = ept[e].lock
        BY <1>2, <1>6, <1>7, <1>8
      <4>2. rx.ept # e => ept'[e].lock # Rx
        BY <1>2, <1>8 DEF EptInv
      <4> QED
        BY <3>1, <4>1, <4>2 DEF EptInv
    <3>2. CASE x # e
      BY <1>8, <3>2 DEF EptInv
    <3> QED
      BY <3>1, <3>2
  <2>4. rx.at = "call" => ept'[rx.ept].cb
    <3>1. rx.at = "call" => rx.ept \in Epts /\ ept[rx.ept].cb
      BY DEF EptInv, RxInv, TypeInv, RxRec, Referring
    <3> QED
      BY <1>8, <1>9, <3>1
  <2> QED
    BY <1>0, <2>1, <2>2, <2>3, <2>4 DEF EptInv
<1>20. CountInv'
  <2> SUFFICES ASSUME NEW x \in Epts
               PROVE  ept'[x].refs = Refs(x)' /\ (ept'[x].allocated <=> Refs(x)' > 0)
    BY DEF CountInv
  <2>1. CASE x = e
    <3>1. Refs(e)' = Refs(e) - 1
      BY <1>0, <1>2, <1>12 DEF Refs
    <3> QED
      BY <1>2, <1>6, <1>7, <1>8, <2>1, <3>1
  <2>2. CASE x # e
    <3>1. Refs(x)' = Refs(x)
      BY <1>0, <1>13, <2>2 DEF Refs
    <3> QED
      BY <1>6, <1>8, <2>2, <3>1
  <2> QED
    BY <2>1, <2>2
<1> QED
  BY <1>14, <1>15, <1>16, <1>17, <1>18, <1>19, <1>20

-----------------------------------------------------------------------------
(* A destruction begins: of a file's endpoint, or of the name service.     *)

LEMMA BeginStep ==
    ASSUME IInv, NEW a \in Actors, NEW u \in Users, BeginDestroy(a, u),
           pc[a] = IF a \in Users THEN "idle" ELSE "children", a \in Users => a = u,
           pc' = [pc EXCEPT ![a] = "destroy"]
    PROVE  IInv'
<1> USE Names DEF IInv
<1>0. /\ UNCHANGED <<ready, objectVars, channel, rx, ringVars>>
      /\ file[u].ept # None /\ file[u].lock = None
      /\ file' = [file EXCEPT ![u].lock = a] /\ obj' = [obj EXCEPT ![a] = file[u].ept]
  BY DEF BeginDestroy
<1>1. /\ pc' \in [Actors -> Places] /\ pc'[a] = "destroy" /\ \A b \in Actors \ {a} : pc'[b] = pc[b]
      /\ obj' \in [Actors -> Epts \cup {None}] /\ obj'[a] = file[u].ept
      /\ \A b \in Actors \ {a} : obj'[b] = obj[b]
  BY <1>0 DEF TypeInv, Places, Destroying, FileRec
<1>2. /\ file' \in [Users -> FileRec] /\ file'[u].lock = a /\ \A v \in Users \ {u} : file'[v] = file[v]
      /\ \A v \in Users : file'[v].ept = file[v].ept
  BY <1>0 DEF TypeInv, FileRec
<1>3. obj[a] = None /\ a # None
  BY DEF OwnerInv, Destroying, Actors
<1>4. \A e \in Epts : Owned(e)' <=> Owned(e)
  <2>1. pc'[Bus] = "free" <=> pc[Bus] = "free"
    BY <1>1 DEF Actors
  <2> QED
    BY <1>0, <1>2, <2>1 DEF Owned, objectVars
<1>5. TypeInv'
  BY <1>0, <1>1, <1>2 DEF TypeInv, objectVars, ringVars
<1>6. RxInv'
  <2>1. pc'[Rx] # "idle" <=> pc[Rx] # "idle"
    BY <1>1 DEF Actors
  <2> QED
    BY <1>0, <2>1 DEF RxInv, objectVars, ringVars
<1>7. BusInv'
  <2>1. (pc'[Bus] # "idle" <=> pc[Bus] # "idle") /\ (pc'[Bus] = "free" <=> pc[Bus] = "free")
    BY <1>1 DEF Actors
  <2>2. obj'[Bus] # None /\ obj'[Bus] = nsEpt => obj'[Bus] = obj[Bus]
    BY <1>0, <1>1 DEF OwnerInv, Actors
  <2>3. pc'[Rx] # "free" /\ \A v \in Users : pc'[v] \in Destroying \cup {"idle"}
    BY <1>1 DEF BusInv, Actors, Destroying
  <2>4. pc'[Bus] = "free" \/ (obj'[Bus] # None /\ obj'[Bus] = nsEpt) => \A v \in Users : file'[v].ept = None
    BY <1>2, <2>1, <2>2 DEF BusInv
  <2> QED
    BY <1>0, <2>1, <2>3, <2>4 DEF BusInv, objectVars
<1>8. OwnerInv'
  <2>1. \A v, w \in Users : file'[v].ept = file'[w].ept /\ file'[v].ept # None => v = w
    BY <1>2 DEF OwnerInv
  <2>2. \A v \in Users : file'[v].ept # None => file'[v].ept # nsEpt'
    BY <1>0, <1>2 DEF OwnerInv, objectVars
  <2>3. ASSUME NEW v \in Users, file'[v].lock # None
        PROVE  file'[v].ept # None /\ obj'[file'[v].lock] = file'[v].ept
    <3>1. CASE v = u
      BY <1>0, <1>1, <1>2, <3>1
    <3>2. CASE v # u
      <4>1. file'[v] = file[v] /\ file[v].lock \in Actors /\ file[v].ept # None /\ obj[file[v].lock] = file[v].ept
        BY <1>2, <2>3, <3>2 DEF OwnerInv, TypeInv, FileRec
      <4>2. file[v].lock # a
        BY <1>3, <4>1
      <4> QED
        BY <1>1, <4>1, <4>2
    <3> QED
      BY <3>1, <3>2
  <2>4. \A b \in Actors : obj'[b] # None <=> pc'[b] \in Destroying
    BY <1>0, <1>1 DEF OwnerInv, Destroying
  <2>5. ASSUME NEW b \in Actors, obj'[b] # None
        PROVE  (\E v \in Users : file'[v].lock = b) \/ (b = Bus /\ obj'[b] = nsEpt')
    <3>1. CASE b = a
      BY <1>2, <3>1
    <3>2. CASE b # a
      <4>1. b # None
        BY DEF Actors
      <4>2. (\E v \in Users : file[v].lock = b) \/ (b = Bus /\ obj[b] = nsEpt)
        BY <1>1, <2>5, <3>2 DEF OwnerInv
      <4> QED
        BY <1>0, <1>1, <1>2, <3>2, <4>1, <4>2 DEF objectVars
    <3> QED
      BY <3>1, <3>2
  <2>6. ASSUME NEW v \in Users, pc'[v] # "idle" PROVE file'[v].lock = v
    <3>1. CASE v = a
      BY <1>2, <3>1
    <3>2. CASE v # a
      <4>1. file[v].lock = v /\ v # None
        BY <1>1, <2>6, <3>2 DEF OwnerInv, Actors
      <4> QED
        BY <1>0, <1>2, <4>1
    <3> QED
      BY <3>1, <3>2
  <2> QED
    BY <2>1, <2>2, <2>3, <2>4, <2>5, <2>6 DEF OwnerInv
<1>9. DestroyInv'
  BY <1>0, <1>1 DEF DestroyInv, objectVars
<1>10. EptInv'
  BY <1>0, <1>4 DEF EptInv, objectVars
<1>11. CountInv'
  BY <1>0, <1>4 DEF CountInv, Refs, objectVars
<1> QED
  BY <1>5, <1>6, <1>7, <1>8, <1>9, <1>10, <1>11

LEMMA CloseStep ==
    ASSUME IInv, NEW u \in Users, Close(u)
    PROVE  IInv'
BY BeginStep DEF Close, Goto, Actors

LEMMA ChildrenStep ==
    ASSUME IInv, NEW a \in {Rx, Bus}, Children(a)
    PROVE  IInv'
<1> PICK u \in Users : Goto(a, "children", "destroy") /\ BeginDestroy(a, u)
  BY DEF Children
<1> QED
  BY BeginStep, Names DEF Goto, Actors

\* The steps of rpmsg_remove that only move the thread of the bus.
LEMMA BusStep ==
    ASSUME IInv, Remove \/ DestroyNs \/ FreeBus
    PROVE  IInv'
<1> USE Names DEF IInv
<1>0. /\ UNCHANGED <<idr, ept, file, rx>> /\ ~ready' /\ ~channel' /\ ready' \in BOOLEAN /\ channel' \in BOOLEAN
      /\ ~signal' /\ signal' \in BOOLEAN /\ rx.at = "idle" /\ used' \in Seq(Msg)
  <2>1. CASE Remove
    BY <2>1 DEF Remove, objectVars, RxAt, TypeInv
  <2>2. CASE DestroyNs
    <3>1. ~ready /\ ~channel /\ ~signal /\ rx.at = "idle"
      BY <2>2 DEF DestroyNs, Goto, BusInv, RxInv
    <3> QED
      BY <2>2, <3>1 DEF DestroyNs, objectVars, ringVars, TypeInv
  <2>3. CASE FreeBus
    <3>1. ~ready /\ ~channel /\ ~signal /\ rx.at = "idle"
      BY <2>3 DEF FreeBus, Goto, BusInv, RxInv
    <3>2. used' \in Seq(Msg)
      BY <2>3 DEF FreeBus
    <3> QED
      BY <2>3, <3>1, <3>2 DEF FreeBus, TypeInv
  <2> QED
    BY <2>1, <2>2, <2>3
<1>1. /\ \A b \in Actors \ {Bus} : pc'[b] = pc[b] /\ obj'[b] = obj[b]
      /\ pc' \in [Actors -> Places] /\ obj' \in [Actors -> Epts \cup {None}]
      /\ nsEpt' \in Epts \cup {None}
  BY DEF Remove, DestroyNs, FreeBus, Goto, objectVars, TypeInv, Places, Destroying
<1>2. rx.ept = None /\ pc[Rx] = "idle"
  BY <1>0 DEF RxInv, Referring
<1>3. (nsEpt' # None <=> pc'[Bus] # "idle") /\ (obj'[Bus] # None <=> pc'[Bus] \in Destroying)
  <2>1. Bus \in Actors
    BY DEF Actors
  <2>2. CASE Remove
    BY <2>1, <2>2 DEF Remove, Goto, objectVars, TypeInv, BusInv, OwnerInv, Destroying
  <2>3. CASE DestroyNs
    BY <2>1, <2>3 DEF DestroyNs, Goto, objectVars, TypeInv, BusInv, OwnerInv, Destroying
  <2>4. CASE FreeBus
    BY <2>1, <2>4 DEF FreeBus, Goto, TypeInv, BusInv, OwnerInv, Destroying
  <2> QED
    BY <2>2, <2>3, <2>4
<1>4. pc'[Bus] # "free" /\ pc'[Bus] \notin {"clear", "put"}
  BY DEF Remove, DestroyNs, FreeBus, Goto, TypeInv, Actors
<1>5. obj'[Bus] # None => obj'[Bus] = nsEpt' /\ (\A u \in Users : file[u].ept = None)
  <2>1. Bus \in Actors
    BY DEF Actors
  <2>2. CASE Remove
    BY <2>1, <2>2 DEF Remove, Goto, OwnerInv, Destroying
  <2>3. CASE DestroyNs
    BY <2>1, <2>3 DEF DestroyNs, objectVars, TypeInv
  <2>4. CASE FreeBus
    BY <2>1, <2>4 DEF FreeBus, Goto, OwnerInv, Destroying
  <2> QED
    BY <2>2, <2>3, <2>4
<1>6. nsEpt' = None \/ nsEpt' = nsEpt
  BY DEF Remove, DestroyNs, FreeBus, objectVars
<1>7. \A e \in Epts : Owned(e)' <=> Owned(e)
  <2>1. CASE Remove \/ DestroyNs
    <3>1. pc[Bus] # "free" /\ nsEpt' = nsEpt
      BY <2>1 DEF Remove, DestroyNs, Goto, objectVars
    <3> QED
      BY <1>0, <1>4, <3>1 DEF Owned
  <2>2. CASE FreeBus
    <3>1. pc[Bus] = "free" /\ nsEpt' = None
      BY <2>2 DEF FreeBus, Goto
    <3> QED
      BY <1>0, <3>1 DEF Owned
  <2> QED
    BY <2>1, <2>2
<1>8. TypeInv'
  BY <1>0, <1>1 DEF TypeInv
<1>9. RxInv'
  BY <1>0, <1>1, <1>2 DEF RxInv, Referring, Delivering, Actors
<1>10. BusInv'
  BY <1>0, <1>1, <1>2, <1>3, <1>4, <1>5 DEF BusInv, Actors
<1>11. OwnerInv'
  <2>1. \A u \in Users : file[u].ept # None => file[u].ept # nsEpt'
    BY <1>6 DEF OwnerInv
  <2>2. ASSUME NEW u \in Users, file[u].lock # None
        PROVE  file[u].ept # None /\ obj'[file[u].lock] = file[u].ept
    <3>1. file[u].ept # None /\ obj[file[u].lock] = file[u].ept /\ file[u].lock \in Actors
      BY <2>2 DEF OwnerInv, TypeInv, FileRec
    <3>2. file[u].lock # Bus
      <4>1. obj[Bus] # None => FALSE
        BY <1>5, <1>4, <3>1 DEF Remove, DestroyNs, FreeBus, Goto, OwnerInv, Destroying, Actors
      <4> QED
        BY <3>1, <4>1
    <3> QED
      BY <1>1, <3>1, <3>2
  <2>3. \A b \in Actors : obj'[b] # None <=> pc'[b] \in Destroying
    BY <1>1, <1>3 DEF OwnerInv
  <2>4. \A b \in Actors : obj'[b] # None => (\E u \in Users : file[u].lock = b) \/ (b = Bus /\ obj'[b] = nsEpt')
    BY <1>1, <1>5 DEF OwnerInv
  <2>5. \A u \in Users : pc'[u] # "idle" => file[u].lock = u
    BY <1>1 DEF OwnerInv, Actors
  <2> QED
    BY <1>0, <2>1, <2>2, <2>3, <2>4, <2>5 DEF OwnerInv
<1>12. DestroyInv'
  BY <1>0, <1>1, <1>4 DEF DestroyInv
<1>13. EptInv'
  <2>1. \A x \in Addrs : idr[x] # None => idr[x] # nsEpt'
    BY <1>6 DEF EptInv
  <2> QED
    BY <1>0, <1>7, <2>1 DEF EptInv
<1>14. CountInv'
  BY <1>0, <1>7 DEF CountInv, Refs
<1> QED
  BY <1>8, <1>9, <1>10, <1>11, <1>12, <1>13, <1>14

-----------------------------------------------------------------------------
(* New endpoints.                                                          *)

\* Memory that is free is named by nobody: no owner, no table, no destroyer, not the worker.
LEMMA FreeMemory ==
    ASSUME IInv, ~NoMemory, pc[Bus] # "free"
    PROVE  /\ NewEpt \in Epts /\ ~Owned(NewEpt) /\ Refs(NewEpt) = 0
           /\ rx.ept # NewEpt /\ nsEpt # NewEpt /\ \A u \in Users : file[u].ept # NewEpt
           /\ \A a \in Actors : obj[a] # NewEpt
           /\ \A x \in AllAddrs : idr[x] # NewEpt
<1> PICK n \in Epts : n = NewEpt /\ ~ept[n].allocated
  BY DEF NewEpt, NoMemory
<1>1. Refs(n) = 0
  BY DEF IInv, CountInv, Refs
<1>2. ~Owned(n) /\ rx.ept # n
  BY <1>1 DEF Refs
<1>3. \A a \in Actors : obj[a] # n
  BY <1>2, Held, Names DEF IInv
<1> QED
  BY <1>1, <1>2, <1>3 DEF Owned, IInv, EptInv

\* The new endpoint has one reference, and nothing else of the memory changes.
LEMMA NewCounts ==
    ASSUME IInv, NEW n \in Epts, ept' = [ept EXCEPT ![n] = Fresh]
    PROVE  /\ ept' \in [Epts -> Memory] /\ \A x \in Epts \ {n} : ept'[x] = ept[x]
           /\ ept'[n].refs = 1 /\ ept'[n].lock = None
           /\ ept'[n].cb
           /\ ept'[n].allocated
<1>1. Fresh \in Memory
  BY DEF Fresh, Memory
<1>2. ept' \in [Epts -> Memory] /\ ept'[n] = Fresh /\ \A x \in Epts \ {n} : ept'[x] = ept[x]
  BY <1>1 DEF IInv, TypeInv
<1> QED
  BY <1>2 DEF Fresh

LEMMA OpenStep ==
    ASSUME IInv, NEW u \in Users, Open(u)
    PROVE  IInv'
<1> USE Names DEF IInv
<1>0. /\ UNCHANGED <<ready, nsEpt, channel, pc, obj, rx, ringVars>>
      /\ ready /\ pc[Bus] = "idle" /\ pc[u] = "idle" /\ file[u].ept = None /\ file[u].lock = None
      /\ obj[Bus] = None
  <2>1. channel /\ UNCHANGED <<ready, nsEpt, channel, pc, obj, rx, ringVars>>
        /\ file[u].ept = None /\ pc[u] = "idle"
    BY DEF Open
  <2>2. ready /\ pc[Bus] = "idle"
    BY <2>1 DEF BusInv
  <2> QED
    BY <2>1, <2>2 DEF OwnerInv, Destroying, Actors
<1>1. CASE UNCHANGED <<ept, idr, file>>
  <2>1. \A e \in Epts : Owned(e)' <=> Owned(e)
    BY <1>0, <1>1 DEF Owned
  <2>2. TypeInv' /\ RxInv' /\ BusInv' /\ OwnerInv' /\ DestroyInv'
    BY <1>0, <1>1 DEF TypeInv, RxInv, BusInv, OwnerInv, DestroyInv, ringVars
  <2>3. EptInv' /\ CountInv'
    BY <1>0, <1>1, <2>1 DEF EptInv, CountInv, Refs
  <2> QED
    BY <2>2, <2>3
<1>2. CASE ~UNCHANGED <<ept, idr, file>>
  <2>0. PICK a \in FreeAddrs(u) :
            /\ ~NoMemory
            /\ ept' = [ept EXCEPT ![NewEpt] = Fresh]
            /\ idr' = [idr EXCEPT ![a] = NewEpt]
            /\ file' = [file EXCEPT ![u].ept = NewEpt]
    BY <1>2 DEF Open
  <2>n. PICK n \in Epts : n = NewEpt
    BY <1>0, <2>0, FreeMemory
  <2>1. /\ ~Owned(n) /\ Refs(n) = 0
        /\ rx.ept # n /\ nsEpt # n /\ (\A v \in Users : file[v].ept # n)
        /\ (\A b \in Actors : obj[b] # n) /\ n # None
        /\ \A x \in AllAddrs : idr[x] # n
    BY <1>0, <2>0, <2>n, FreeMemory
  <2>2. /\ ept' \in [Epts -> Memory] /\ \A x \in Epts \ {n} : ept'[x] = ept[x]
        /\ ept'[n].refs = 1 /\ ept'[n].lock = None
        /\ ept'[n].cb
        /\ ept'[n].allocated
    BY <2>0, <2>n, NewCounts
  <2>3. /\ idr' \in [AllAddrs -> Epts \cup {None}] /\ a \in Addrs
        /\ idr'[a] = n /\ \A x \in AllAddrs \ {a} : idr'[x] = idr[x]
    BY <2>0, <2>n DEF TypeInv, FreeAddrs, AllAddrs
  <2>4. /\ file' \in [Users -> FileRec] /\ file'[u].ept = n /\ file'[u].lock = None
        /\ \A v \in Users \ {u} : file'[v] = file[v]
    BY <1>0, <2>0, <2>n DEF TypeInv, FileRec
  <2>5. Owned(n)' /\ \A x \in Epts \ {n} : Owned(x)' <=> Owned(x)
    BY <1>0, <2>1, <2>4 DEF Owned
  <2>6. TypeInv'
    BY <1>0, <2>2, <2>3, <2>4 DEF TypeInv, ringVars
  <2>7. RxInv'
    BY <1>0 DEF RxInv, ringVars
  <2>8. BusInv'
    BY <1>0 DEF BusInv
  <2>9. OwnerInv'
    <3>1. \A v, w \in Users : file'[v].ept = file'[w].ept /\ file'[v].ept # None => v = w
      BY <2>1, <2>4 DEF OwnerInv
    <3>2. \A v \in Users : file'[v].ept # None => file'[v].ept # nsEpt
      BY <2>1, <2>4 DEF OwnerInv
    <3>3. \A v \in Users : file'[v].lock = file[v].lock
      BY <1>0, <2>4
    <3>4. \A v \in Users : file'[v].lock # None => file'[v].ept # None /\ obj[file'[v].lock] = file'[v].ept
      BY <2>4 DEF OwnerInv
    <3> QED
      BY <1>0, <3>1, <3>2, <3>3, <3>4 DEF OwnerInv
  <2>10. DestroyInv'
    <3>1. \A b \in Actors : pc[b] \in Destroying => obj[b] \in Epts
      BY DEF OwnerInv, TypeInv
    <3>2. \A b \in Actors : pc[b] \in {"clear", "put"} => \A x \in AllAddrs : idr'[x] # obj[b]
      BY <2>1, <2>3 DEF DestroyInv
    <3>3. \A b \in Actors : pc[b] = "put" => ~ept'[obj[b]].cb
      BY <2>1, <2>2, <3>1 DEF DestroyInv, Destroying
    <3> QED
      BY <1>0, <3>2, <3>3 DEF DestroyInv
  <2>11. EptInv'
    <3>1. \A x \in Epts : \A y \in AllAddrs : idr'[y] = x => Owned(x)'
      BY <2>3, <2>5 DEF EptInv
    <3>2. \A x \in Addrs : idr'[x] # None => idr'[x] # nsEpt
      BY <2>1, <2>3 DEF EptInv, AllAddrs
    <3>3. \A x \in Epts : ept'[x].cb => Owned(x)'
      BY <2>2, <2>5 DEF EptInv
    <3>4. \A x \in Epts : ept'[x].lock = Rx <=> rx.ept = x /\ rx.at \in Locking
      BY <2>1, <2>2 DEF EptInv
    <3>5. rx.at = "call" => ept'[rx.ept].cb
      <4>1. rx.at = "call" => rx.ept \in Epts
        BY DEF RxInv, TypeInv, RxRec, Referring
      <4> QED
        BY <2>1, <2>2, <4>1 DEF EptInv
    <3> QED
      BY <1>0, <3>1, <3>2, <3>3, <3>4, <3>5 DEF EptInv
  <2>12. CountInv'
    <3> SUFFICES ASSUME NEW x \in Epts
                 PROVE  ept'[x].refs = Refs(x)' /\ (ept'[x].allocated <=> Refs(x)' > 0)
      BY DEF CountInv
    <3>1. CASE x = n
      <4>1. Refs(n)' = 1
        BY <1>0, <2>1, <2>5 DEF Refs
      <4> QED
        BY <2>2, <3>1, <4>1
    <3>2. CASE x # n
      <4>1. Refs(x)' = Refs(x)
        BY <1>0, <2>5, <3>2 DEF Refs
      <4> QED
        BY <2>2, <3>2, <4>1 DEF CountInv
    <3> QED
      BY <3>1, <3>2
  <2> QED
    BY <2>6, <2>7, <2>8, <2>9, <2>10, <2>11, <2>12
<1> QED
  BY <1>1, <1>2

LEMMA ProbeStep ==
    ASSUME IInv, Probe
    PROVE  IInv'
<1> USE Names DEF IInv
<1>0. /\ UNCHANGED <<channel, file, pc, obj, rx>>
      /\ ~ready /\ pc[Bus] = "idle" /\ ~NoMemory /\ Probed(NewEpt)
  BY DEF Probe, actorVars
<1>n. PICK n \in Epts : n = NewEpt
  BY <1>0, FreeMemory
<1>1. /\ ~Owned(n) /\ Refs(n) = 0
      /\ rx.ept # n /\ (\A v \in Users : file[v].ept # n)
      /\ (\A b \in Actors : obj[b] # n) /\ n # None
  BY <1>0, <1>n, FreeMemory
<1>2. /\ ept' \in [Epts -> Memory] /\ \A x \in Epts \ {n} : ept'[x] = ept[x]
      /\ ept'[n].refs = 1 /\ ept'[n].lock = None
      /\ ept'[n].cb
      /\ ept'[n].allocated
  BY <1>0, <1>n, NewCounts DEF Probed
<1>3. /\ idr' = [x \in AllAddrs |-> IF x = NsAddr THEN n ELSE None] /\ nsEpt' = n
      /\ ready' = TRUE /\ signal' = FALSE /\ used' = <<>>
  BY <1>0, <1>n DEF Probed
<1>4. ~channel /\ nsEpt = None /\ obj[Bus] = None /\ rx.at = "idle"
  BY <1>0 DEF BusInv, RxInv, OwnerInv, Destroying, Actors
<1>5. Owned(n)' /\ \A x \in Epts \ {n} : Owned(x)' <=> Owned(x)
  BY <1>0, <1>3, <1>4 DEF Owned
<1>6. TypeInv'
  <2>1. used' \in Seq(Msg)
    BY <1>3
  <2>2. idr' \in [AllAddrs -> Epts \cup {None}]
    BY <1>3
  <2>3. ready' \in BOOLEAN /\ signal' \in BOOLEAN
    BY <1>3
  <2> QED
    BY <1>0, <1>2, <1>3, <2>1, <2>2, <2>3 DEF TypeInv
<1>7. RxInv'
  BY <1>0, <1>3, <1>4 DEF RxInv, Referring
<1>8. BusInv'
  BY <1>0, <1>1, <1>3, <1>4 DEF BusInv
<1>9. OwnerInv'
  BY <1>0, <1>1, <1>3, <1>4 DEF OwnerInv
<1>10. DestroyInv'
  <2>1. \A b \in Actors : pc[b] \in Destroying => obj[b] \in Epts
    BY DEF OwnerInv, TypeInv
  <2>2. \A b \in Actors : pc[b] \in {"clear", "put"} => \A x \in AllAddrs : idr'[x] # obj[b]
    BY <1>1, <1>3, <2>1 DEF Destroying
  <2>3. \A b \in Actors : pc[b] = "put" => ~ept'[obj[b]].cb
    BY <1>1, <1>2, <2>1 DEF DestroyInv, Destroying
  <2> QED
    BY <1>0, <2>2, <2>3 DEF DestroyInv
<1>11. EptInv'
  <2>1. \A x \in Epts : \A y \in AllAddrs : idr'[y] = x => Owned(x)'
    BY <1>3, <1>5
  <2>2. \A x \in Addrs : idr'[x] = None
    BY <1>3 DEF AllAddrs
  <2>3. \A x \in Epts : ept'[x].cb => Owned(x)'
    BY <1>2, <1>5 DEF EptInv
  <2>4. \A x \in Epts : ept'[x].lock = Rx <=> rx.ept = x /\ rx.at \in Locking
    BY <1>1, <1>2 DEF EptInv
  <2> QED
    BY <1>0, <1>4, <2>1, <2>2, <2>3, <2>4 DEF EptInv
<1>12. CountInv'
  <2> SUFFICES ASSUME NEW x \in Epts
               PROVE  ept'[x].refs = Refs(x)' /\ (ept'[x].allocated <=> Refs(x)' > 0)
    BY DEF CountInv
  <2>1. CASE x = n
    <3>1. Refs(n)' = 1
      BY <1>0, <1>1, <1>5 DEF Refs
    <3> QED
      BY <1>2, <2>1, <3>1
  <2>2. CASE x # n
    <3>1. Refs(x)' = Refs(x)
      BY <1>0, <1>5, <2>2 DEF Refs
    <3> QED
      BY <1>2, <2>2, <3>1 DEF CountInv
  <2> QED
    BY <2>1, <2>2
<1> QED
  BY <1>6, <1>7, <1>8, <1>9, <1>10, <1>11, <1>12

-----------------------------------------------------------------------------
(* The theorems.                                                           *)

LEMMA StepInv ==
    ASSUME IInv, [Next]_vars
    PROVE  IInv'
<1>1. CASE Probe
  BY <1>1, ProbeStep
<1>2. CASE Remove \/ DestroyNs \/ FreeBus
  BY <1>2, BusStep
<1>3. ASSUME NEW a \in Actors, Destroy(a) PROVE IInv'
  BY <1>3, IdrRemoveStep, ClearCbStep, DestroyPutStep DEF Destroy
<1>4. ASSUME NEW a \in {Rx, Bus}, Children(a) PROVE IInv'
  BY <1>4, ChildrenStep
<1>5. ASSUME NEW u \in Users, Open(u) \/ Close(u) PROVE IInv'
  BY <1>5, OpenStep, CloseStep
<1>6. CASE RemoteSend \/ RemoteWait
  BY <1>6, RemoteStep
<1>7. CASE RecvDone \/ CheckSize \/ TooBig \/ DataCallback \/ NsCreate \/ AddInbuf \/ Kick
  BY <1>7, WorkerStep
<1>8. CASE Find
  BY <1>8, FindStep
<1>9. CASE LockCb \/ UnlockCb
  BY <1>9, LockStep
<1>10. CASE PutRef
  BY <1>10, PutRefStep
<1>11. CASE NsDestroy \/ Unregistered
  BY <1>11, UnregisterStep
<1>12. CASE UNCHANGED vars
  <2>1. UNCHANGED <<ready, objectVars, channel, actorVars, rx, used, signal>>
    BY <1>12 DEF vars, ringVars
  <2>2. TypeInv' /\ RxInv' /\ BusInv'
    BY <2>1 DEF IInv, TypeInv, RxInv, BusInv, objectVars, actorVars
  <2> QED
    BY <2>1, <2>2, EndpointsStay DEF IInv
<1> QED
  BY <1>1, <1>2, <1>3, <1>4, <1>5, <1>6, <1>7, <1>8, <1>9, <1>10, <1>11, <1>12 DEF Next, Receive

\* The invariant of the whole: who holds an endpoint, how far a destruction has come, and
\* what the worker has taken.
THEOREM Invariant == Spec => []IInv
BY InitInv, StepInv, PTL DEF Spec

\* The reference count of an endpoint is one for its owner and one for the worker, and
\* whatever is named is allocated: kref in __rpmsg_create_ept, rpmsg_recv_single and
\* __rpmsg_destroy_ept.
THEOREM EndpointsCounted == Spec => []RefsCount
<1>1. IInv => RefsCount
  <2> SUFFICES ASSUME IInv, NEW e \in Epts
               PROVE  /\ ept[e].refs = Refs(e) /\ (ept[e].allocated <=> Refs(e) > 0)
                      /\ (\E a \in AllAddrs : idr[a] = e) \/ Holds(e) # {} => Owned(e)
    BY DEF RefsCount, Refs
  <2>1. Holds(e) # {} => Owned(e)
    BY Held, Names DEF Holds
  <2> QED
    BY <2>1 DEF IInv, CountInv, EptInv
<1> QED
  BY <1>1, Invariant, PTL

\* While the callback of a file's endpoint runs, the file is open: whoever closes it waits
\* for the lock that the worker holds.
THEOREM NoLateCallback == Spec => []CallbackOnlyOpen
<1>1. IInv => CallbackOnlyOpen
  <2> SUFFICES ASSUME IInv, rx.at = "call", rx.msg.kind = "data"
               PROVE  /\ \E u \in Users : file[u].ept = rx.ept
                      /\ \A a \in Holds(rx.ept) : pc[a] \in {"destroy", "clear"}
    BY DEF CallbackOnlyOpen
  <2>1. rx.ept \in Epts /\ rx.ept # nsEpt /\ rx.ept # None
    BY Names DEF IInv, RxInv, TypeInv, RxRec, Referring
  <2>2. ept[rx.ept].cb
    BY DEF IInv, EptInv
  <2>3. Owned(rx.ept)
    BY <2>1, <2>2 DEF IInv, EptInv
  <2>4. \E u \in Users : file[u].ept = rx.ept
    BY <2>1, <2>3 DEF Owned
  <2>5. ASSUME NEW a \in Holds(rx.ept) PROVE pc[a] \in {"destroy", "clear"}
    <3>1. a \in Actors /\ obj[a] = rx.ept
      BY DEF Holds
    <3>2. pc[a] \in Destroying
      BY <2>1, <3>1 DEF IInv, OwnerInv
    <3>3. pc[a] # "put"
      BY <2>2, <3>1 DEF IInv, DestroyInv
    <3> QED
      BY <3>2, <3>3 DEF Destroying
  <2> QED
    BY <2>4, <2>5
<1> QED
  BY <1>1, Invariant, PTL

BufInv == avail \in Nat /\ lost \in Nat /\ BuffersKept

\* Where the worker and the ring stay, so does the sum of the buffers.
LEMMA BuffersStay ==
    ASSUME BufInv, UNCHANGED <<avail, used, lost>>, ready' => ready,
           rx'.msg # None <=> rx.msg # None
    PROVE  BufInv'
BY DEF BufInv, BuffersKept

\* The buffers of the ring are counted: the remote has them, it has filled them, the worker
\* has one, or they came with a message that was too big.
THEOREM BuffersCounted == Spec => []BuffersKept
<1>1. Init => BufInv
  BY DEF Init, BufInv, BuffersKept
<1>2. ASSUME IInv, BufInv, [Next]_vars PROVE BufInv'
  <2> USE Names
  <2>0. /\ Len(used) \in Nat /\ used \in Seq(Msg) /\ avail \in Nat /\ lost \in Nat
        /\ rx.msg # None <=> rx.at \in Delivering
    BY <1>2 DEF IInv, TypeInv, RxInv, BufInv
  <2>1. CASE RemoteSend
    <3> PICK m \in Msg : Fill(m)
      BY <2>1 DEF RemoteSend
    <3>1. /\ avail' = avail - 1 /\ avail > 0 /\ Len(used') = Len(used) + 1
          /\ UNCHANGED <<ready, rx, lost>>
      BY <2>0, <2>1 DEF Fill, RemoteSend
    <3> QED
      BY <1>2, <2>0, <3>1 DEF BufInv, BuffersKept
  <2>2. used # <<>> /\ (Take(FALSE) \/ Take(TRUE)) =>
            Len(used') = Len(used) - 1 /\ Len(used) > 0 /\ rx'.msg # None
    BY <1>2, <2>0, TakeStep DEF Take
  <2>3. CASE RecvDone
    <3>1. UNCHANGED <<ready, avail, lost>> /\ rx.msg = None
      BY <2>0, <2>3 DEF RecvDone, RxAt, Delivering, Referring
    <3>2. \/ UNCHANGED <<rx, used>>
          \/ used # <<>> /\ Take(FALSE)
      BY <2>3 DEF RecvDone
    <3>3. CASE UNCHANGED <<rx, used>>
      BY <1>2, <3>1, <3>3, BuffersStay
    <3>4. CASE used # <<>> /\ Take(FALSE)
      BY <1>2, <2>0, <2>2, <3>1, <3>4 DEF BufInv, BuffersKept
    <3> QED
      BY <3>2, <3>3, <3>4
  <2>4. CASE TooBig
    <3>1. /\ UNCHANGED <<ready, avail, used>> /\ lost' = lost + 1
          /\ rx.msg # None /\ rx'.msg = None
      BY <1>2, <2>0, <2>4 DEF TooBig, RxAt, Delivering, IInv, TypeInv, RxRec
    <3> QED
      BY <1>2, <2>0, <3>1 DEF BufInv, BuffersKept
  <2>5. CASE AddInbuf
    <3>1. UNCHANGED <<ready, lost>> /\ avail' = avail + 1 /\ rx.msg # None
      BY <2>0, <2>5 DEF AddInbuf, RxAt, Delivering
    <3>2. \/ used' = used /\ rx'.msg = None
          \/ used # <<>> /\ Take(TRUE)
      BY <2>5 DEF AddInbuf, Idle
    <3>3. CASE used' = used /\ rx'.msg = None
      BY <1>2, <2>0, <3>1, <3>3 DEF BufInv, BuffersKept
    <3>4. CASE used # <<>> /\ Take(TRUE)
      BY <1>2, <2>0, <2>2, <3>1, <3>4 DEF BufInv, BuffersKept
    <3> QED
      BY <3>2, <3>3, <3>4
  <2>6. CASE Kick
    <3>1. UNCHANGED <<avail, used, lost, ready>> /\ rx.msg = None /\ rx'.msg = None
      BY <2>0, <2>6 DEF Kick, RxAt, Delivering, Referring, Idle
    <3> QED
      BY <1>2, <3>1, BuffersStay
  <2>7. CASE Probe
    <3>1. /\ avail' = NumBufs /\ Len(used') = 0 /\ lost' = 0 /\ rx' = rx /\ ~ready /\ NumBufs \in Nat
      BY <2>7, BoundAssumption DEF Probe, Probed
    <3>2. rx.msg = None
      BY <1>2, <2>0, <3>1 DEF IInv, RxInv, Delivering, Referring
    <3> QED
      BY <3>1, <3>2 DEF BufInv, BuffersKept
  <2>8. CASE FreeBus
    <3>1. avail' = 0 /\ lost' = 0 /\ ready' = ready /\ ~ready
      BY <1>2, <2>8 DEF FreeBus, Goto, IInv, BusInv
    <3> QED
      BY <3>1 DEF BufInv, BuffersKept
  <2>9. CASE Remove \/ DestroyNs \/ RemoteWait \/ \E u \in Users : Open(u) \/ Close(u)
    <3>1. UNCHANGED <<avail, used, lost, rx>> /\ (ready' => ready)
      BY <2>9 DEF Remove, DestroyNs, RemoteWait, Open, Close, BeginDestroy, ringVars
    <3> QED
      BY <1>2, <3>1, BuffersStay
  <2>10. CASE (\E a \in Actors : Destroy(a)) \/ \E a \in {Rx, Bus} : Children(a)
    <3>1. UNCHANGED <<avail, used, lost, rx, ready>>
      BY <2>10 DEF Destroy, IdrRemove, ClearCb, DestroyPut, Children, BeginDestroy, ringVars
    <3> QED
      BY <1>2, <3>1, BuffersStay
  <2>11. CASE CheckSize \/ DataCallback \/ NsCreate \/ NsDestroy \/ Unregistered
    <3>1. UNCHANGED <<avail, used, lost, ready>> /\ rx'.msg = rx.msg
      BY <1>2, <2>11 DEF CheckSize, DataCallback, NsCreate, NsDestroy, Unregistered, Quiet, RxTo, ringVars,
                         IInv, TypeInv, RxRec
    <3> QED
      BY <1>2, <3>1, BuffersStay
  <2>12. CASE Find \/ LockCb \/ UnlockCb \/ PutRef
    <3>1. UNCHANGED <<avail, used, lost, ready>> /\ rx'.msg = rx.msg
      BY <1>2, <2>12 DEF Find, LockCb, UnlockCb, PutRef, RxTo, ringVars, IInv, TypeInv, RxRec
    <3> QED
      BY <1>2, <3>1, BuffersStay
  <2>13. CASE UNCHANGED vars
    BY <1>2, <2>13, BuffersStay DEF vars, ringVars
  <2> QED
    BY <1>2, <2>1, <2>3, <2>4, <2>5, <2>6, <2>7, <2>8, <2>9, <2>10, <2>11, <2>12, <2>13 DEF Next, Receive
<1>3. BufInv => BuffersKept
  BY DEF BufInv
<1> QED
  BY <1>1, <1>2, <1>3, Invariant, PTL DEF Spec
=============================================================================
