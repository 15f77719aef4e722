--------------------------- MODULE RpmsgTx_proof ---------------------------
(***************************************************************************)
(* Proofs about RpmsgTx, for any senders and any number of buffers.        *)
(***************************************************************************)
EXTENDS RpmsgTx, FiniteSets, FiniteSetTheorems, TLAPS

Places == {"idle", "get", "upref", "enqueue", "test", "asleep", "downref", "late", "fill", "add"}
R5Places == {"idle", "read", "put", "notify"}
Texts == {<<>>} \cup (Senders \X (1..MaxCalls))

-----------------------------------------------------------------------------
(* The inductive invariant.                                                *)

TypeInv ==
  /\ pc \in [Senders -> Places] /\ wait \in [Senders -> BOOLEAN] /\ signalled \in [Senders -> BOOLEAN]
  /\ hold \in [Senders -> 0..NumBufs] /\ calls \in [Senders -> 0..MaxCalls]
  /\ last \in 0..NumBufs /\ sleepers \in Nat /\ sendq \in SUBSET Senders
  /\ cbOn \in BOOLEAN /\ irq \in BOOLEAN
  /\ avail \in Seq(Bufs) /\ used \in Seq(Bufs)
  /\ content \in [Bufs -> Texts] /\ inbox \in Texts
  /\ r5 \in R5Places /\ r5buf \in 0..NumBufs

\* Who has a buffer, and what has been written to it.
HoldInv ==
  \A s \in Senders :
    /\ hold[s] # 0 => pc[s] \in {"downref", "fill", "add"}
    /\ pc[s] \in {"fill", "add"} => hold[s] # 0
    /\ pc[s] = "add" => content[hold[s]] = <<s, calls[s]>>
    /\ pc[s] # "idle" => calls[s] > 0

\* The R5 reads or has read a buffer that it has not given back.
R5Has == r5 \in {"read", "put"}

\* A buffer is in one place, and only buffers that were handed out are anywhere.
Apart ==
  /\ \A s, t \in Senders : hold[s] = hold[t] /\ hold[s] # 0 => s = t
  /\ \A s \in Senders : hold[s] <= last
  /\ \A s \in Senders : \A i \in 1..Len(avail) : hold[s] # avail[i]
  /\ \A s \in Senders : \A i \in 1..Len(used) : hold[s] # used[i]
  /\ \A i, j \in 1..Len(avail) : avail[i] = avail[j] => i = j
  /\ \A i, j \in 1..Len(used) : used[i] = used[j] => i = j
  /\ \A i \in 1..Len(avail) : \A j \in 1..Len(used) : avail[i] # used[j]
  /\ \A i \in 1..Len(avail) : avail[i] <= last
  /\ \A i \in 1..Len(used) : used[i] <= last
R5Apart ==
  R5Has => /\ r5buf # 0 /\ r5buf <= last
           /\ \A s \in Senders : hold[s] # r5buf
           /\ \A i \in 1..Len(avail) : avail[i] # r5buf
           /\ \A i \in 1..Len(used) : used[i] # r5buf

\* All buffers that were handed out are somewhere.
Holders == {s \in Senders : hold[s] # 0}
Placed == Cardinality(Holders) + Len(avail) + Len(used) + (IF R5Has THEN 1 ELSE 0)
PoolInv == IsFiniteSet(Holders) /\ Placed = last

\* The counter counts, and the first and the last sleeper switch the interrupt.
Counted == {s \in Senders : pc[s] \in {"enqueue", "test", "asleep", "downref", "late"}}
SleepInv == IsFiniteSet(Counted) /\ sleepers = Cardinality(Counted) /\ (cbOn <=> sleepers # 0)

IInv == TypeInv /\ HoldInv /\ Apart /\ R5Apart /\ PoolInv /\ SleepInv /\ NoLostWakeUp

-----------------------------------------------------------------------------
LEMMA Nats == NumBufs \in Nat \ {0} /\ MaxCalls \in Nat /\ Bufs = 1..NumBufs
BY RpmsgAssumption DEF Bufs

LEMMA InitInv == Init => IInv
<1> SUFFICES ASSUME Init PROVE IInv
  OBVIOUS
<1> USE Nats DEF Init
<1>1. TypeInv
  <2>1. pc \in [Senders -> Places] /\ r5 \in R5Places
    BY DEF Places, R5Places
  <2>2. wait \in [Senders -> BOOLEAN] /\ signalled \in [Senders -> BOOLEAN]
    OBVIOUS
  <2>3. avail \in Seq(Bufs) /\ used \in Seq(Bufs)
    OBVIOUS
  <2>4. content \in [Bufs -> Texts] /\ inbox \in Texts
    BY DEF Texts
  <2>5. cbOn \in BOOLEAN /\ irq \in BOOLEAN
    OBVIOUS
  <2> QED
    BY <2>1, <2>2, <2>3, <2>4, <2>5 DEF TypeInv
<1>2. HoldInv /\ R5Apart /\ NoLostWakeUp
  BY DEF HoldInv, R5Apart, R5Has, NoLostWakeUp
<1>3. Apart
  <2>1. Len(avail) = 0 /\ Len(used) = 0
    OBVIOUS
  <2> QED
    BY <2>1 DEF Apart
<1>4. PoolInv
  <2>1. Holders = {} /\ Len(avail) = 0 /\ Len(used) = 0 /\ ~R5Has
    BY DEF Holders, R5Has
  <2> QED
    BY <2>1, FS_EmptySet DEF PoolInv, Placed
<1>5. SleepInv
  <2>1. Counted = {}
    BY DEF Counted
  <2> QED
    BY <2>1, FS_EmptySet DEF SleepInv
<1> QED
  BY <1>1, <1>2, <1>3, <1>4, <1>5 DEF IInv

-----------------------------------------------------------------------------
(* Buffers move.                                                           *)

LEMMA Ends ==
    ASSUME NEW q \in Seq(Bufs), q # <<>>
    PROVE  /\ Len(q) \in Nat \ {0} /\ Head(q) = q[1] /\ q[1] \in Bufs /\ Tail(q) \in Seq(Bufs)
           /\ Len(Tail(q)) = Len(q) - 1 /\ \A i \in 1..Len(Tail(q)) : Tail(q)[i] = q[i + 1]
<1>1. Len(q) \in Nat /\ q \in [1..Len(q) -> Bufs]
  OBVIOUS
<1>2. Len(q) # 0
  BY <1>1
<1> QED
  BY <1>1, <1>2

LEMMA Appends ==
    ASSUME NEW q \in Seq(Bufs), NEW b \in Bufs
    PROVE  /\ Append(q, b) \in Seq(Bufs) /\ Len(q) \in Nat /\ Len(Append(q, b)) = Len(q) + 1
           /\ \A i \in 1..Len(q) : Append(q, b)[i] = q[i]
           /\ Append(q, b)[Len(q) + 1] = b
OBVIOUS

PoolVars == <<hold, last, avail, used>>

\* Where no buffer moves.
LEMMA PoolStays ==
    ASSUME IInv, UNCHANGED PoolVars, R5Has' <=> R5Has, R5Has => r5buf' = r5buf
    PROVE  Apart' /\ R5Apart' /\ PoolInv'
<1>1. Apart' /\ R5Apart'
  BY DEF IInv, PoolVars, Apart, R5Apart
<1>2. Holders' = Holders
  BY DEF PoolVars, Holders
<1>3. PoolInv'
  BY <1>2 DEF IInv, PoolVars, PoolInv, Placed
<1> QED
  BY <1>1, <1>3

\* A sender that has no buffer gets one: a fresh one, or the oldest that was given back.
LEMMA GetStep ==
    ASSUME IInv, NEW s \in Senders, hold[s] = 0, GetBuf(s), UNCHANGED <<avail, r5, r5buf>>
    PROVE  /\ hold' \in [Senders -> 0..NumBufs] /\ last' \in 0..NumBufs /\ used' \in Seq(Bufs)
           /\ hold'[s] # 0 /\ (\A t \in Senders \ {s} : hold'[t] = hold[t])
           /\ used' # <<>> => used # <<>>
           /\ Apart' /\ R5Apart' /\ PoolInv'
<1> USE Nats DEF IInv
<1>1. PICK b \in Bufs :
        /\ hold' = [hold EXCEPT ![s] = b]
        /\ \/ b = last + 1 /\ last < NumBufs /\ last' = last + 1 /\ used' = used
           \/ used # <<>> /\ b = Head(used) /\ last' = last /\ used' = Tail(used)
  <2>1. CASE last < NumBufs
    <3>1. last + 1 \in Bufs
      BY <2>1 DEF TypeInv
    <3> QED
      BY <2>1, <3>1 DEF GetBuf
  <2>2. CASE ~(last < NumBufs)
    <3>1. used # <<>> /\ hold' = [hold EXCEPT ![s] = Head(used)] /\ used' = Tail(used) /\ last' = last
      BY <2>2 DEF GetBuf
    <3>2. Head(used) \in Bufs
      BY <3>1, Ends DEF TypeInv
    <3> QED
      BY <3>1, <3>2
  <2> QED
    BY <2>1, <2>2
<1>2. /\ hold' \in [Senders -> 0..NumBufs] /\ hold'[s] = b /\ b # 0 /\ b \in Nat
      /\ \A t \in Senders \ {s} : hold'[t] = hold[t]
  BY <1>1 DEF TypeInv
<1>3. Len(avail) \in Nat /\ Len(used) \in Nat /\ last \in Nat /\ used \in Seq(Bufs) /\ avail \in Seq(Bufs)
      /\ avail \in [1..Len(avail) -> Bufs] /\ used \in [1..Len(used) -> Bufs]
  BY DEF TypeInv
<1>4. Holders' = Holders \cup {s} /\ s \notin Holders
  BY <1>2 DEF Holders
<1>5. IsFiniteSet(Holders') /\ Cardinality(Holders') = Cardinality(Holders) + 1 /\ Cardinality(Holders) \in Nat
  BY <1>4, FS_AddElement, FS_CardinalityType DEF PoolInv
<1>6. R5Has' <=> R5Has
  BY DEF R5Has
<1>7. CASE b = last + 1 /\ last < NumBufs /\ last' = last + 1 /\ used' = used
  <2>1. last' \in 0..NumBufs
    BY <1>3, <1>7
  <2>2. Apart'
    <3>1. \A t \in Senders : hold[t] # b /\ hold[t] \in Nat
      BY <1>3, <1>7 DEF Apart, TypeInv
    <3>2. (\A i \in 1..Len(avail) : avail[i] # b /\ avail[i] \in Nat)
          /\ (\A i \in 1..Len(used) : used[i] # b /\ used[i] \in Nat)
      BY <1>3, <1>7 DEF Apart
    <3>3. \A t, u \in Senders : hold'[t] = hold'[u] /\ hold'[t] # 0 => t = u
      BY <1>2, <3>1 DEF Apart
    <3>4. \A t \in Senders : hold'[t] <= last'
      BY <1>2, <1>3, <1>7, <3>1 DEF Apart
    <3>5. (\A i \in 1..Len(avail) : avail[i] <= last') /\ (\A i \in 1..Len(used) : used[i] <= last')
      BY <1>3, <1>7, <3>2 DEF Apart
    <3>6. \A t \in Senders : /\ \A i \in 1..Len(avail) : hold'[t] # avail[i]
                            /\ \A i \in 1..Len(used) : hold'[t] # used[i]
      BY <1>2, <3>2 DEF Apart
    <3>7. used' = used /\ avail' = avail
      BY <1>7
    <3>8. /\ \A i, j \in 1..Len(avail') : avail'[i] = avail'[j] => i = j
          /\ \A i, j \in 1..Len(used') : used'[i] = used'[j] => i = j
          /\ \A i \in 1..Len(avail') : \A j \in 1..Len(used') : avail'[i] # used'[j]
      BY <3>7 DEF Apart
    <3>9. (\A i \in 1..Len(avail') : avail'[i] <= last') /\ (\A i \in 1..Len(used') : used'[i] <= last')
      BY <3>5, <3>7
    <3>10. \A t \in Senders : /\ \A i \in 1..Len(avail') : hold'[t] # avail'[i]
                             /\ \A i \in 1..Len(used') : hold'[t] # used'[i]
      BY <3>6, <3>7
    <3> QED
      BY <3>3, <3>4, <3>8, <3>9, <3>10 DEF Apart
  <2>3. R5Apart'
    <3>1. r5buf \in Nat /\ (R5Has => r5buf # b /\ r5buf <= last')
      BY <1>3, <1>7 DEF R5Apart, TypeInv
    <3> QED
      BY <1>2, <1>6, <1>7, <3>1 DEF R5Apart
  <2>4. PoolInv'
    BY <1>3, <1>5, <1>6, <1>7 DEF PoolInv, Placed
  <2> QED
    BY <1>2, <1>3, <1>7, <2>1, <2>2, <2>3, <2>4
<1>8. CASE used # <<>> /\ b = Head(used) /\ last' = last /\ used' = Tail(used)
  <2>1. /\ b = used[1] /\ Len(used) > 0 /\ used' \in Seq(Bufs) /\ Len(used') = Len(used) - 1
        /\ \A i \in 1..Len(used') : used'[i] = used[i + 1] /\ i + 1 \in 1..Len(used)
    BY <1>3, <1>8, Ends
  <2>2. 1 \in 1..Len(used)
    BY <1>3, <2>1
  <2>3. Apart'
    <3>1. \A t, u \in Senders : hold'[t] = hold'[u] /\ hold'[t] # 0 => t = u
      <4>1. \A t \in Senders : hold[t] # b
        BY <2>1, <2>2 DEF Apart
      <4> QED
        BY <1>2, <4>1 DEF Apart
    <3>2. \A t \in Senders : hold'[t] <= last
      BY <1>2, <2>1, <2>2 DEF Apart
    <3>3. \A t \in Senders : \A i \in 1..Len(avail) : hold'[t] # avail[i]
      BY <1>2, <2>1, <2>2 DEF Apart
    <3>4. \A i, j \in 1..Len(used') : used'[i] = used'[j] => i = j
      BY <1>3, <2>1 DEF Apart
    <3>5. \A t \in Senders : \A i \in 1..Len(used') : hold'[t] # used'[i]
      <4> SUFFICES ASSUME NEW t \in Senders, NEW i \in 1..Len(used') PROVE hold'[t] # used'[i]
        OBVIOUS
      <4>1. used'[i] = used[i + 1] /\ i + 1 \in 1..Len(used) /\ i + 1 # 1
        BY <1>3, <2>1
      <4>2. used[i + 1] # used[1]
        BY <2>2, <4>1 DEF Apart
      <4>3. \A u \in Senders : hold[u] # used[i + 1]
        BY <4>1 DEF Apart
      <4> QED
        BY <1>2, <2>1, <4>1, <4>2, <4>3
    <3>6. \A i \in 1..Len(avail) : \A j \in 1..Len(used') : avail[i] # used'[j]
      BY <2>1 DEF Apart
    <3>7. \A i \in 1..Len(used') : used'[i] <= last
      BY <2>1 DEF Apart
    <3> QED
      BY <1>8, <3>1, <3>2, <3>3, <3>4, <3>5, <3>6, <3>7 DEF Apart
  <2>4. R5Apart'
    <3> SUFFICES ASSUME R5Has
                 PROVE  /\ r5buf # 0 /\ r5buf <= last
                        /\ \A t \in Senders : hold'[t] # r5buf
                        /\ \A i \in 1..Len(avail) : avail[i] # r5buf
                        /\ \A i \in 1..Len(used') : used'[i] # r5buf
      BY <1>6, <1>8 DEF R5Apart
    <3>1. /\ r5buf # 0 /\ r5buf <= last
          /\ \A t \in Senders : hold[t] # r5buf
          /\ \A i \in 1..Len(avail) : avail[i] # r5buf
          /\ \A i \in 1..Len(used) : used[i] # r5buf
      BY DEF R5Apart
    <3>2. b # r5buf
      BY <2>1, <2>2, <3>1
    <3>3. \A t \in Senders : hold'[t] # r5buf
      BY <1>2, <3>1, <3>2
    <3>4. \A i \in 1..Len(used') : used'[i] # r5buf
      BY <2>1, <3>1
    <3> QED
      BY <3>1, <3>3, <3>4
  <2>5. PoolInv'
    BY <1>3, <1>5, <1>6, <1>8, <2>1 DEF PoolInv, Placed
  <2> QED
    BY <1>2, <1>8, <2>1, <2>3, <2>4, <2>5 DEF TypeInv
<1> QED
  BY <1>1, <1>7, <1>8

\* A sender gives its buffer to the R5.
LEMMA AddStep ==
    ASSUME IInv, NEW s \in Senders, Add(s)
    PROVE  /\ hold' \in [Senders -> 0..NumBufs] /\ avail' \in Seq(Bufs)
           /\ hold'[s] = 0 /\ \A t \in Senders \ {s} : hold'[t] = hold[t]
           /\ Apart' /\ R5Apart' /\ PoolInv'
<1> USE Nats DEF IInv
<1>1. /\ hold' = [hold EXCEPT ![s] = 0] /\ avail' = Append(avail, hold[s])
      /\ UNCHANGED <<last, used, r5, r5buf>> /\ pc[s] = "add"
  BY DEF Add, Go, r5Vars
<1>2. PICK b \in Bufs : hold[s] = b
  BY <1>1 DEF TypeInv, HoldInv
<1>3. /\ hold' \in [Senders -> 0..NumBufs] /\ hold'[s] = 0 /\ \A t \in Senders \ {s} : hold'[t] = hold[t]
  BY <1>1 DEF TypeInv
<1>4. /\ avail' \in Seq(Bufs) /\ Len(avail) \in Nat /\ Len(avail') = Len(avail) + 1
      /\ \A i \in 1..Len(avail) : avail'[i] = avail[i]
      /\ avail'[Len(avail) + 1] = b
      /\ \A i \in 1..Len(avail') : i \in 1..Len(avail) \/ i = Len(avail) + 1
  <2>1. avail' = Append(avail, b) /\ avail \in Seq(Bufs)
    BY <1>1, <1>2 DEF TypeInv
  <2>2. /\ avail' \in Seq(Bufs) /\ Len(avail) \in Nat /\ Len(avail') = Len(avail) + 1
        /\ (\A i \in 1..Len(avail) : avail'[i] = avail[i]) /\ avail'[Len(avail) + 1] = b
    BY <2>1, Appends
  <2> QED
    BY <2>2
<1>5. /\ b # 0 /\ b <= last
      /\ \A t \in Senders \ {s} : hold[t] # b
      /\ \A i \in 1..Len(avail) : avail[i] # b
      /\ \A i \in 1..Len(used) : used[i] # b
      /\ R5Has => r5buf # b
  BY <1>2 DEF Apart, R5Apart
<1>6. R5Has' <=> R5Has
  BY <1>1 DEF R5Has
<1>7. Apart'
  <2>1. \A t, u \in Senders : hold'[t] = hold'[u] /\ hold'[t] # 0 => t = u
    BY <1>3 DEF Apart
  <2>2. \A t \in Senders : hold'[t] <= last
    <3>1. 0 <= last
      BY DEF TypeInv
    <3> QED
      BY <1>3, <3>1 DEF Apart
  <2>3. ASSUME NEW i \in 1..Len(avail')
        PROVE  /\ \A t \in Senders : hold'[t] # avail'[i]
               /\ \A j \in 1..Len(used) : avail'[i] # used[j]
               /\ avail'[i] <= last
    <3>1. CASE i \in 1..Len(avail)
      <4>1. avail'[i] = avail[i] /\ avail[i] # 0
        BY <1>4, <3>1 DEF TypeInv
      <4> QED
        BY <1>3, <3>1, <4>1 DEF Apart
    <3>2. CASE i = Len(avail) + 1
      BY <1>3, <1>4, <1>5, <3>2
    <3> QED
      BY <1>4, <3>1, <3>2
  <2>4. \A i, j \in 1..Len(avail') : avail'[i] = avail'[j] => i = j
    BY <1>4, <1>5 DEF Apart
  <2>5. \A t \in Senders : \A i \in 1..Len(used) : hold'[t] # used[i]
    <3>1. \A i \in 1..Len(used) : used[i] # 0
      BY DEF TypeInv
    <3> QED
      BY <1>3, <3>1 DEF Apart
  <2>6. /\ \A i, j \in 1..Len(used) : used[i] = used[j] => i = j
        /\ \A i \in 1..Len(used) : used[i] <= last
    BY DEF Apart
  <2> HIDE DEF IInv
  <2> QED
    BY <1>1, <2>1, <2>2, <2>3, <2>4, <2>5, <2>6 DEF Apart
<1>8. R5Apart'
  BY <1>1, <1>3, <1>4, <1>5, <1>6 DEF R5Apart
<1>9. PoolInv'
  <2>1. Holders' = Holders \ {s} /\ s \in Holders
    BY <1>2, <1>3, <1>5 DEF Holders
  <2>2. IsFiniteSet(Holders') /\ Cardinality(Holders') = Cardinality(Holders) - 1 /\ Cardinality(Holders) \in Nat
    BY <2>1, FS_RemoveElement, FS_CardinalityType DEF PoolInv
  <2>3. Len(used) \in Nat
    BY DEF TypeInv
  <2> QED
    BY <1>1, <1>4, <1>6, <2>2, <2>3 DEF PoolInv, Placed
<1> QED
  BY <1>3, <1>4, <1>7, <1>8, <1>9

\* The R5 takes a buffer.
LEMMA TakeStep ==
    ASSUME IInv, R5Take
    PROVE  avail' \in Seq(Bufs) /\ r5buf' \in Bufs /\ Apart' /\ R5Apart' /\ PoolInv'
<1> USE Nats DEF IInv
<1>1. /\ avail # <<>> /\ r5buf' = Head(avail) /\ avail' = Tail(avail) /\ r5 = "idle" /\ r5' = "read"
      /\ UNCHANGED <<hold, last, used>>
  BY DEF R5Take, poolVars
<1>2. /\ r5buf' = avail[1] /\ avail[1] \in Bufs /\ Len(avail) > 0 /\ Len(avail) \in Nat
      /\ avail' \in Seq(Bufs) /\ Len(avail') = Len(avail) - 1
      /\ \A i \in 1..Len(avail') : avail'[i] = avail[i + 1]
  BY <1>1, Ends DEF TypeInv
<1>3. 1 \in 1..Len(avail) /\ \A i \in 1..Len(avail') : i + 1 \in 1..Len(avail) /\ i + 1 # 1
  BY <1>2
<1>4. Apart'
  <2>1. \A i, j \in 1..Len(avail') : avail'[i] = avail'[j] => i = j
    <3> SUFFICES ASSUME NEW i \in 1..Len(avail'), NEW j \in 1..Len(avail'), avail'[i] = avail'[j] PROVE i = j
      OBVIOUS
    <3>1. avail[i + 1] = avail[j + 1] /\ i + 1 \in 1..Len(avail) /\ j + 1 \in 1..Len(avail)
      BY <1>2, <1>3
    <3>2. i + 1 = j + 1
      BY <3>1 DEF Apart
    <3> QED
      BY <1>2, <3>2
  <2>2. \A i \in 1..Len(avail') : /\ avail'[i] <= last /\ \A t \in Senders : hold[t] # avail'[i]
                                  /\ \A j \in 1..Len(used) : avail'[i] # used[j]
    BY <1>2, <1>3 DEF Apart
  <2>3. /\ \A t, u \in Senders : hold[t] = hold[u] /\ hold[t] # 0 => t = u
        /\ \A t \in Senders : hold[t] <= last /\ \A i \in 1..Len(used) : hold[t] # used[i]
        /\ \A i, j \in 1..Len(used) : used[i] = used[j] => i = j
        /\ \A i \in 1..Len(used) : used[i] <= last
    BY DEF Apart
  <2> HIDE DEF IInv
  <2> QED
    BY <1>1, <2>1, <2>2, <2>3 DEF Apart
<1>5. R5Apart'
  <2>1. /\ avail[1] # 0 /\ avail[1] <= last /\ (\A t \in Senders : hold[t] # avail[1])
        /\ \A i \in 1..Len(used) : used[i] # avail[1]
    BY <1>2, <1>3 DEF Apart
  <2>2. \A i \in 1..Len(avail') : avail'[i] # avail[1]
    BY <1>2, <1>3 DEF Apart
  <2> QED
    BY <1>1, <1>2, <2>1, <2>2 DEF R5Apart
<1>6. PoolInv'
  <2>1. Holders' = Holders /\ ~R5Has /\ R5Has'
    BY <1>1 DEF Holders, R5Has
  <2>2. Cardinality(Holders) \in Nat /\ Len(used) \in Nat
    BY FS_CardinalityType DEF PoolInv, TypeInv
  <2> QED
    BY <1>1, <1>2, <2>1, <2>2 DEF PoolInv, Placed
<1> QED
  BY <1>2, <1>4, <1>5, <1>6

\* It gives it back.
LEMMA PutStep ==
    ASSUME IInv, R5Put
    PROVE  used' \in Seq(Bufs) /\ Apart' /\ R5Apart' /\ PoolInv'
<1> USE Nats DEF IInv
<1>1. /\ r5 = "put" /\ r5' = "notify" /\ used' = Append(used, r5buf) /\ UNCHANGED <<hold, last, avail>>
  BY DEF R5Put
<1>2. PICK b \in Bufs : r5buf = b
  BY <1>1 DEF TypeInv, R5Apart, R5Has
<1>3. /\ used' \in Seq(Bufs) /\ Len(used) \in Nat /\ Len(used') = Len(used) + 1
      /\ \A i \in 1..Len(used) : used'[i] = used[i]
      /\ used'[Len(used) + 1] = b
      /\ \A i \in 1..Len(used') : i \in 1..Len(used) \/ i = Len(used) + 1
  <2>1. used' = Append(used, b) /\ used \in Seq(Bufs)
    BY <1>1, <1>2 DEF TypeInv
  <2>2. /\ used' \in Seq(Bufs) /\ Len(used) \in Nat /\ Len(used') = Len(used) + 1
        /\ (\A i \in 1..Len(used) : used'[i] = used[i]) /\ used'[Len(used) + 1] = b
    BY <2>1, Appends
  <2> QED
    BY <2>2
<1>4. /\ b <= last
      /\ \A t \in Senders : hold[t] # b
      /\ \A i \in 1..Len(avail) : avail[i] # b
      /\ \A i \in 1..Len(used) : used[i] # b
  BY <1>1, <1>2 DEF R5Apart, R5Has
<1>5. Apart'
  <2>1. ASSUME NEW i \in 1..Len(used')
        PROVE  /\ \A t \in Senders : hold[t] # used'[i]
               /\ \A j \in 1..Len(avail) : avail[j] # used'[i]
               /\ used'[i] <= last
    <3>1. CASE i \in 1..Len(used)
      BY <1>3, <3>1 DEF Apart
    <3>2. CASE i = Len(used) + 1
      BY <1>3, <1>4, <3>2
    <3> QED
      BY <1>3, <3>1, <3>2
  <2>2. \A i, j \in 1..Len(used') : used'[i] = used'[j] => i = j
    BY <1>3, <1>4 DEF Apart
  <2>3. /\ \A t, u \in Senders : hold[t] = hold[u] /\ hold[t] # 0 => t = u
        /\ \A t \in Senders : hold[t] <= last /\ \A i \in 1..Len(avail) : hold[t] # avail[i]
        /\ \A i, j \in 1..Len(avail) : avail[i] = avail[j] => i = j
        /\ \A i \in 1..Len(avail) : avail[i] <= last
    BY DEF Apart
  <2> HIDE DEF IInv
  <2> QED
    BY <1>1, <2>1, <2>2, <2>3 DEF Apart
<1>6. R5Apart'
  BY <1>1 DEF R5Apart, R5Has
<1>7. PoolInv'
  <2>1. Holders' = Holders /\ R5Has /\ ~R5Has'
    BY <1>1 DEF Holders, R5Has
  <2>2. Cardinality(Holders) \in Nat /\ Len(avail) \in Nat
    BY FS_CardinalityType DEF PoolInv, TypeInv
  <2> QED
    BY <1>1, <1>3, <2>1, <2>2 DEF PoolInv, Placed
<1> QED
  BY <1>3, <1>5, <1>6, <1>7

-----------------------------------------------------------------------------
(* Senders move.                                                           *)

Waiting == {"enqueue", "test", "asleep", "downref", "late"}

LEMMA GoStep ==
    ASSUME IInv, NEW s \in Senders, NEW from \in Places, NEW to \in Places, Go(s, from, to)
    PROVE  /\ pc' \in [Senders -> Places] /\ pc[s] = from /\ pc'[s] = to
           /\ \A t \in Senders \ {s} : pc'[t] = pc[t]
           /\ s \in Counted <=> from \in Waiting
           /\ Counted' = IF to \in Waiting THEN Counted \cup {s} ELSE Counted \ {s}
<1>1. /\ pc' \in [Senders -> Places] /\ pc[s] = from /\ pc'[s] = to
      /\ \A t \in Senders \ {s} : pc'[t] = pc[t]
  BY DEF IInv, TypeInv, Go
<1> QED
  BY <1>1 DEF Counted, Waiting

\* Who counts as a sleeper neither comes nor goes.
LEMMA SleepStays ==
    ASSUME IInv, NEW s \in Senders, NEW from \in Places, NEW to \in Places, Go(s, from, to),
           from \in Waiting <=> to \in Waiting, UNCHANGED <<sleepers, cbOn>>
    PROVE  SleepInv'
<1>1. Counted' = Counted
  BY GoStep
<1> QED
  BY <1>1 DEF IInv, SleepInv

\* Nobody has just fallen asleep, no buffer has come back, no wake-up has gone.
LEMMA WakeStays ==
    ASSUME IInv, \A t \in Senders : t \in sendq' /\ pc'[t] = "asleep" => t \in sendq /\ pc[t] = "asleep",
           sendq' \subseteq Senders,
           used' # <<>> => used # <<>>, irq' = irq, r5' = r5
    PROVE  NoLostWakeUp'
BY DEF IInv, NoLostWakeUp

\* Steps that only move a sender, its queue and its flags.
LEMMA MoveStep ==
    ASSUME IInv, NEW s \in Senders, NEW from \in Places, NEW to \in Places, Go(s, from, to),
           UNCHANGED <<hold, last, avail, used, content, irq, r5, r5buf, inbox>>,
           wait' \in [Senders -> BOOLEAN], signalled' \in [Senders -> BOOLEAN],
           calls' \in [Senders -> 0..MaxCalls], \A t \in Senders \ {s} : calls'[t] = calls[t],
           to # "idle" => calls'[s] > 0, from = "idle" \/ calls' = calls,
           sleepers' \in Nat, cbOn' \in BOOLEAN, sendq' \in SUBSET Senders, sendq' \ {s} \subseteq sendq,
           to \notin {"fill", "add"}, hold[s] # 0 => to = "downref",
           to = "asleep" => used = <<>>,
           SleepInv'
    PROVE  IInv'
<1> USE DEF IInv
<1>1. /\ pc' \in [Senders -> Places] /\ pc[s] = from /\ pc'[s] = to
      /\ \A t \in Senders \ {s} : pc'[t] = pc[t]
  BY GoStep
<1>2. TypeInv'
  <2>1. avail' \in Seq(Bufs) /\ used' \in Seq(Bufs)
    BY DEF TypeInv
  <2>2. irq' \in BOOLEAN
    BY DEF TypeInv
  <2> QED
    BY <1>1, <2>1, <2>2 DEF TypeInv
<1>3. HoldInv'
  BY <1>1 DEF HoldInv
<1>4. Apart' /\ R5Apart' /\ PoolInv'
  BY PoolStays DEF PoolVars, R5Has
<1>5. NoLostWakeUp'
  BY <1>1 DEF NoLostWakeUp
<1> QED
  BY <1>2, <1>3, <1>4, <1>5

\* A sender gets a buffer.
LEMMA GetMove ==
    ASSUME IInv, NEW s \in Senders, NEW from \in {"get", "test", "asleep"}, NEW to \in {"fill", "downref"},
           from = "get" <=> to = "fill",
           Go(s, from, to), GetBuf(s), sendq' \subseteq sendq,
           UNCHANGED <<avail, content, irq, r5Vars, wait, signalled, calls, sleepers, cbOn>>
    PROVE  IInv'
<1> USE DEF IInv
<1>0. from \in Places /\ to \in Places /\ (from \in Waiting <=> to \in Waiting)
  BY DEF Places, Waiting
<1>1. /\ pc' \in [Senders -> Places] /\ pc[s] = from /\ pc'[s] = to
      /\ \A t \in Senders \ {s} : pc'[t] = pc[t]
  BY <1>0, GoStep
<1>2. hold[s] = 0 /\ calls[s] > 0
  BY <1>1 DEF HoldInv
<1>3. /\ hold' \in [Senders -> 0..NumBufs] /\ last' \in 0..NumBufs /\ used' \in Seq(Bufs)
      /\ hold'[s] # 0 /\ (\A t \in Senders \ {s} : hold'[t] = hold[t])
      /\ used' # <<>> => used # <<>>
      /\ Apart' /\ R5Apart' /\ PoolInv'
  BY <1>2, GetStep DEF r5Vars
<1>4. TypeInv'
  <2>1. avail' \in Seq(Bufs)
    BY DEF TypeInv
  <2>2. wait' \in [Senders -> BOOLEAN] /\ signalled' \in [Senders -> BOOLEAN] /\ cbOn' \in BOOLEAN /\ irq' \in BOOLEAN
    BY DEF TypeInv
  <2>3. sendq' \in SUBSET Senders
    BY DEF TypeInv
  <2> QED
    BY <1>1, <1>3, <2>1, <2>2, <2>3 DEF TypeInv, r5Vars
<1>5. HoldInv'
  BY <1>1, <1>2, <1>3 DEF HoldInv
<1>6. SleepInv'
  BY <1>0, SleepStays
<1>7. NoLostWakeUp'
  <2>1. \A t \in Senders : t \in sendq' /\ pc'[t] = "asleep" => t \in sendq /\ pc[t] = "asleep"
    BY <1>1
  <2>2. sendq' \subseteq Senders /\ irq' = irq /\ r5' = r5
    BY DEF TypeInv, r5Vars
  <2> HIDE DEF IInv
  <2> QED
    BY <1>3, <2>1, <2>2, WakeStays
<1> QED
  BY <1>3, <1>4, <1>5, <1>6, <1>7

LEMMA CallStep ==
    ASSUME IInv, NEW s \in Senders, Call(s)
    PROVE  IInv'
<1>1. /\ Go(s, "idle", "get") /\ calls[s] < MaxCalls /\ calls' = [calls EXCEPT ![s] = @ + 1]
      /\ UNCHANGED <<hold, last, avail, used, content, irq, r5, r5buf, inbox, sleepers, cbOn, sendq>>
  BY DEF Call, poolVars, wakeVars, r5Vars
<1>2. "idle" \in Places /\ "get" \in Places /\ "idle" \notin Waiting /\ "get" \notin Waiting
  BY DEF Places, Waiting
<1>3. wait' \in [Senders -> BOOLEAN] /\ signalled' \in [Senders -> BOOLEAN]
  BY DEF Call, IInv, TypeInv
<1>4. calls' \in [Senders -> 0..MaxCalls] /\ calls'[s] > 0 /\ \A t \in Senders \ {s} : calls'[t] = calls[t]
  BY <1>1, Nats DEF IInv, TypeInv
<1>5. hold[s] = 0
  BY <1>1 DEF Go, IInv, HoldInv
<1>6. SleepInv'
  BY <1>1, <1>2, SleepStays
<1>7. sleepers' \in Nat /\ sendq' \in SUBSET Senders
  BY <1>1 DEF IInv, TypeInv
<1>8. cbOn' \in BOOLEAN
  BY <1>1 DEF IInv, TypeInv
<1> QED
  BY <1>1, <1>2, <1>3, <1>4, <1>5, <1>6, <1>7, <1>8, MoveStep

\* Moves that leave the call, the counter and the interrupt alone.
LEMMA QuietMove ==
    ASSUME IInv, NEW s \in Senders, NEW from \in Places, NEW to \in Places, Go(s, from, to),
           from \in Waiting <=> to \in Waiting, from \notin {"idle", "downref", "fill", "add"},
           to \notin {"fill", "add"}, to = "asleep" => used = <<>>,
           UNCHANGED <<poolVars, avail, content, irq, r5Vars, wait, signalled, calls, sleepers, cbOn>>,
           sendq' \in SUBSET Senders, sendq' \ {s} \subseteq sendq
    PROVE  IInv'
<1> USE DEF poolVars, r5Vars
<1>1. pc[s] = from
  BY DEF Go
<1>2. hold[s] = 0 /\ calls[s] > 0
  BY <1>1 DEF IInv, HoldInv
<1>3. SleepInv'
  BY SleepStays
<1>4. wait' \in [Senders -> BOOLEAN] /\ signalled' \in [Senders -> BOOLEAN] /\ cbOn' \in BOOLEAN
  BY DEF IInv, TypeInv
<1>5. calls' \in [Senders -> 0..MaxCalls] /\ sleepers' \in Nat
  BY DEF IInv, TypeInv
<1> QED
  BY <1>1, <1>2, <1>3, <1>4, <1>5, MoveStep

LEMMA GrabStep ==
    ASSUME IInv, NEW s \in Senders, Grab(s)
    PROVE  IInv'
<1>1. CASE GetBuf(s) /\ Go(s, "get", "fill")
  BY <1>1, GetMove DEF Grab, wakeVars
<1>2. CASE NoBuf /\ Go(s, "get", IF wait[s] THEN "upref" ELSE "idle")
  <2>1. PICK to \in {"upref", "idle"} : Go(s, "get", to)
    BY <1>2
  <2>2. "get" \in Places /\ to \in Places /\ "get" \notin Waiting /\ to \notin Waiting /\ to # "asleep"
        /\ to \notin {"fill", "add"}
    BY DEF Places, Waiting
  <2>3. UNCHANGED <<poolVars, avail, content, irq, r5Vars, wait, signalled, calls, sleepers, cbOn, sendq>>
    BY <1>2 DEF Grab, NoBuf, wakeVars
  <2>4. sendq' \in SUBSET Senders
    BY <2>3 DEF IInv, TypeInv
  <2> QED
    BY <2>1, <2>2, <2>3, <2>4, QuietMove
<1> QED
  BY <1>1, <1>2 DEF Grab

LEMMA QueueStep ==
    ASSUME IInv, NEW s \in Senders, Enqueue(s) \/ Awake(s)
    PROVE  IInv'
<1>1. {"enqueue", "test", "asleep"} \subseteq Places \cap Waiting
  BY DEF Places, Waiting
<1>2. Go(s, "enqueue", "test") \/ Go(s, "asleep", "enqueue")
  BY DEF Enqueue, Awake
<1>3. UNCHANGED <<poolVars, avail, content, irq, r5Vars, wait, signalled, calls, sleepers, cbOn>>
  BY DEF Enqueue, Awake, callVars, wakeVars
<1>4. sendq' \in SUBSET Senders /\ sendq' \ {s} \subseteq sendq
  BY DEF Enqueue, Awake, wakeVars, IInv, TypeInv
<1> QED
  BY <1>1, <1>2, <1>3, <1>4, QuietMove

LEMMA TestStep ==
    ASSUME IInv, NEW s \in Senders, Test(s) \/ TimeOut(s)
    PROVE  IInv'
<1>1. UNCHANGED <<avail, content, irq, r5Vars, wait, signalled, calls, sleepers, cbOn>>
  BY DEF Test, TimeOut
<1>2. sendq' \subseteq sendq /\ sendq' \in SUBSET Senders
  BY DEF Test, TimeOut, IInv, TypeInv
<1>3. CASE GetBuf(s) /\ (Go(s, "test", "downref") \/ Go(s, "asleep", "downref"))
  BY <1>1, <1>2, <1>3, GetMove
<1>4. CASE NoBuf /\ (Go(s, "test", "downref") \/ Go(s, "test", "asleep") \/ Go(s, "asleep", "late"))
  <2>1. {"downref", "test", "asleep", "late"} \subseteq Places \cap Waiting
    BY DEF Places, Waiting
  <2>2. used = <<>> /\ UNCHANGED poolVars
    BY <1>4 DEF NoBuf
  <2> QED
    BY <1>1, <1>2, <1>4, <2>1, <2>2, QuietMove
<1> QED
  BY <1>3, <1>4 DEF Test, TimeOut

LEMMA UpRefStep ==
    ASSUME IInv, NEW s \in Senders, UpRef(s)
    PROVE  IInv'
<1> USE DEF IInv
<1>1. /\ Go(s, "upref", "enqueue") /\ sleepers' = sleepers + 1
      /\ UNCHANGED <<hold, last, avail, used, content, irq, r5, r5buf, inbox, wait, signalled, calls, sendq>>
  BY DEF UpRef, poolVars, r5Vars
<1>2. cbOn' \in BOOLEAN /\ (cbOn' <=> cbOn \/ sleepers = 0)
  BY DEF UpRef
<1>3. "upref" \in Places \ Waiting /\ "enqueue" \in Places \cap Waiting
  BY DEF Places, Waiting
<1>4. Counted' = Counted \cup {s} /\ s \notin Counted /\ pc[s] = "upref"
  BY <1>1, <1>3, GoStep
<1>5. IsFiniteSet(Counted') /\ Cardinality(Counted') = sleepers + 1 /\ sleepers \in Nat
  BY <1>4, FS_AddElement DEF SleepInv, TypeInv
<1>6. SleepInv'
  BY <1>1, <1>2, <1>5 DEF SleepInv
<1>7. hold[s] = 0 /\ calls[s] > 0
  BY <1>4 DEF HoldInv
<1>8. wait' \in [Senders -> BOOLEAN] /\ signalled' \in [Senders -> BOOLEAN]
  BY <1>1 DEF TypeInv
<1>9. calls' \in [Senders -> 0..MaxCalls] /\ sendq' \in SUBSET Senders /\ sleepers' \in Nat
  BY <1>1, <1>5 DEF TypeInv
<1> QED
  BY <1>1, <1>2, <1>3, <1>6, <1>7, <1>8, <1>9, MoveStep

\* The last sleeper turns the interrupt off; who has a buffer goes on to fill it.
LEMMA DownRefStep ==
    ASSUME IInv, NEW s \in Senders, DownRef(s)
    PROVE  IInv'
<1> USE DEF IInv
<1>1. /\ sleepers' = sleepers - 1
      /\ UNCHANGED <<hold, last, avail, used, content, irq, r5, r5buf, inbox, wait, signalled, calls, sendq>>
  BY DEF DownRef, poolVars, r5Vars
<1>2. cbOn' \in BOOLEAN /\ (cbOn' <=> cbOn /\ sleepers # 1)
  BY DEF DownRef, TypeInv
<1>3. PICK from \in {"downref", "late"}, to \in {"upref", "fill", "idle"} :
        /\ Go(s, from, to) /\ (to = "fill" => hold[s] # 0) /\ (to = "upref" => hold[s] = 0)
        /\ (to = "idle" => from = "late")
  BY DEF DownRef, AfterDownRef
<1>4. from \in Places \cap Waiting /\ to \in Places \ Waiting
  BY DEF Places, Waiting
<1>5. /\ pc' \in [Senders -> Places] /\ pc[s] = from /\ pc'[s] = to
      /\ \A t \in Senders \ {s} : pc'[t] = pc[t]
      /\ s \in Counted /\ Counted' = Counted \ {s}
  BY <1>3, <1>4, GoStep
<1>6. /\ IsFiniteSet(Counted') /\ Cardinality(Counted') = sleepers - 1 /\ sleepers \in Nat \ {0}
      /\ sleepers' \in Nat
  <2>1. Cardinality(Counted) \in Nat /\ Cardinality(Counted) # 0
    BY <1>5, FS_CardinalityType, FS_EmptySet DEF SleepInv
  <2>2. IsFiniteSet(Counted \ {s}) /\ Cardinality(Counted \ {s}) = Cardinality(Counted) - 1
    BY <1>5, FS_RemoveElement DEF SleepInv
  <2> QED
    BY <1>1, <1>5, <2>1, <2>2 DEF SleepInv
<1>7. SleepInv'
  BY <1>1, <1>2, <1>6 DEF SleepInv
<1>8. calls[s] > 0 /\ (from = "late" => hold[s] = 0)
  BY <1>5 DEF HoldInv
<1>9. TypeInv'
  <2>1. avail' \in Seq(Bufs) /\ used' \in Seq(Bufs)
    BY <1>1 DEF TypeInv
  <2>2. wait' \in [Senders -> BOOLEAN] /\ signalled' \in [Senders -> BOOLEAN] /\ irq' \in BOOLEAN
    BY <1>1 DEF TypeInv
  <2> QED
    BY <1>1, <1>2, <1>5, <1>6, <2>1, <2>2 DEF TypeInv
<1>10. HoldInv'
  BY <1>1, <1>3, <1>5, <1>8 DEF HoldInv
<1>11. Apart' /\ R5Apart' /\ PoolInv'
  BY <1>1, PoolStays DEF PoolVars, R5Has
<1>12. NoLostWakeUp'
  <2>1. \A t \in Senders : t \in sendq' /\ pc'[t] = "asleep" => t \in sendq /\ pc[t] = "asleep"
    BY <1>1, <1>5
  <2>2. sendq' \subseteq Senders
    BY <1>1 DEF TypeInv
  <2> HIDE DEF IInv
  <2> QED
    BY <1>1, <2>1, <2>2, WakeStays
<1> QED
  BY <1>7, <1>9, <1>10, <1>11, <1>12

\* The buffer that is filled is nobody else's.
LEMMA FillStep ==
    ASSUME IInv, NEW s \in Senders, Fill(s)
    PROVE  IInv'
<1> USE DEF IInv
<1>1. /\ Go(s, "fill", "add") /\ content' = [content EXCEPT ![hold[s]] = <<s, calls[s]>>]
      /\ UNCHANGED <<hold, last, avail, used, irq, r5, r5buf, inbox, wait, signalled, calls, sendq, sleepers, cbOn>>
  BY DEF Fill, poolVars, r5Vars, wakeVars
<1>2. "fill" \in Places \ Waiting /\ "add" \in Places \ Waiting
  BY DEF Places, Waiting
<1>3. /\ pc' \in [Senders -> Places] /\ pc[s] = "fill" /\ pc'[s] = "add"
      /\ \A t \in Senders \ {s} : pc'[t] = pc[t]
  BY <1>1, <1>2, GoStep
<1>4. hold[s] \in Bufs /\ calls[s] \in 1..MaxCalls
  <2>1. hold[s] # 0 /\ calls[s] > 0
    BY <1>3 DEF HoldInv
  <2>2. hold[s] \in 0..NumBufs /\ calls[s] \in 0..MaxCalls
    BY DEF TypeInv
  <2> HIDE DEF IInv
  <2> QED
    BY <2>1, <2>2, Nats
<1>5. /\ content' \in [Bufs -> Texts] /\ content'[hold[s]] = <<s, calls[s]>>
      /\ \A b \in Bufs \ {hold[s]} : content'[b] = content[b]
  BY <1>1, <1>4 DEF TypeInv, Texts
<1>6. TypeInv'
  <2>1. avail' \in Seq(Bufs) /\ used' \in Seq(Bufs)
    BY <1>1 DEF TypeInv
  <2>2. wait' \in [Senders -> BOOLEAN] /\ signalled' \in [Senders -> BOOLEAN] /\ irq' \in BOOLEAN /\ cbOn' \in BOOLEAN
    BY <1>1 DEF TypeInv
  <2> QED
    BY <1>1, <1>3, <1>5, <2>1, <2>2 DEF TypeInv
<1>7. HoldInv'
  <2> SUFFICES ASSUME NEW t \in Senders
               PROVE  /\ hold[t] # 0 => pc'[t] \in {"downref", "fill", "add"}
                      /\ pc'[t] \in {"fill", "add"} => hold[t] # 0
                      /\ pc'[t] = "add" => content'[hold[t]] = <<t, calls[t]>>
                      /\ pc'[t] # "idle" => calls[t] > 0
    BY <1>1 DEF HoldInv
  <2>1. CASE t = s
    BY <1>3, <1>4, <1>5, <2>1, Nats
  <2>2. CASE t # s
    <3>1. pc'[t] = "add" => hold[t] \in Bufs /\ hold[t] # hold[s]
      BY <1>3, <1>4, <2>2, Nats DEF HoldInv, TypeInv, Apart
    <3> QED
      BY <1>3, <1>5, <2>2, <3>1 DEF HoldInv
  <2> QED
    BY <2>1, <2>2
<1>8. Apart' /\ R5Apart' /\ PoolInv'
  BY <1>1, PoolStays DEF PoolVars, R5Has
<1>9. SleepInv'
  BY <1>1, <1>2, SleepStays
<1>10. NoLostWakeUp'
  <2>1. \A t \in Senders : t \in sendq' /\ pc'[t] = "asleep" => t \in sendq /\ pc[t] = "asleep"
    BY <1>1, <1>3
  <2>2. sendq' \subseteq Senders
    BY <1>1 DEF TypeInv
  <2> HIDE DEF IInv
  <2> QED
    BY <1>1, <2>1, <2>2, WakeStays
<1> QED
  BY <1>6, <1>7, <1>8, <1>9, <1>10

LEMMA AddedStep ==
    ASSUME IInv, NEW s \in Senders, Add(s)
    PROVE  IInv'
<1> USE DEF IInv
<1>1. /\ Go(s, "add", "idle")
      /\ UNCHANGED <<last, used, content, irq, r5, r5buf, inbox, wait, signalled, calls, sendq, sleepers, cbOn>>
  BY DEF Add, r5Vars, wakeVars
<1>2. "add" \in Places \ Waiting /\ "idle" \in Places \ Waiting
  BY DEF Places, Waiting
<1>3. /\ pc' \in [Senders -> Places] /\ pc[s] = "add" /\ pc'[s] = "idle"
      /\ \A t \in Senders \ {s} : pc'[t] = pc[t]
  BY <1>1, <1>2, GoStep
<1>4. /\ hold' \in [Senders -> 0..NumBufs] /\ avail' \in Seq(Bufs)
      /\ hold'[s] = 0 /\ \A t \in Senders \ {s} : hold'[t] = hold[t]
      /\ Apart' /\ R5Apart' /\ PoolInv'
  BY AddStep
<1>5. TypeInv'
  <2>1. used' \in Seq(Bufs)
    BY <1>1 DEF TypeInv
  <2>2. wait' \in [Senders -> BOOLEAN] /\ signalled' \in [Senders -> BOOLEAN] /\ irq' \in BOOLEAN /\ cbOn' \in BOOLEAN
    BY <1>1 DEF TypeInv
  <2> QED
    BY <1>1, <1>3, <1>4, <2>1, <2>2 DEF TypeInv
<1>6. HoldInv'
  BY <1>1, <1>3, <1>4 DEF HoldInv
<1>7. SleepInv'
  BY <1>1, <1>2, SleepStays
<1>8. NoLostWakeUp'
  <2>1. \A t \in Senders : t \in sendq' /\ pc'[t] = "asleep" => t \in sendq /\ pc[t] = "asleep"
    BY <1>1, <1>3
  <2>2. sendq' \subseteq Senders
    BY <1>1 DEF TypeInv
  <2> HIDE DEF IInv
  <2> QED
    BY <1>1, <2>1, <2>2, WakeStays
<1> QED
  BY <1>4, <1>5, <1>6, <1>7, <1>8

-----------------------------------------------------------------------------
(* The R5 and the interrupt.                                               *)

\* Their steps move no sender.
LEMMA SendersStay ==
    ASSUME IInv, UNCHANGED <<callVars, hold, last, content, sleepers, cbOn>>,
           avail' \in Seq(Bufs), used' \in Seq(Bufs), r5' \in R5Places, r5buf' \in 0..NumBufs,
           inbox' \in Texts, irq' \in BOOLEAN, sendq' \in SUBSET Senders
    PROVE  TypeInv' /\ HoldInv' /\ SleepInv'
<1> USE DEF IInv, callVars
<1>1. TypeInv'
  <2>1. wait' \in [Senders -> BOOLEAN] /\ signalled' \in [Senders -> BOOLEAN] /\ cbOn' \in BOOLEAN
    BY DEF TypeInv
  <2> QED
    BY <2>1 DEF TypeInv
<1>2. HoldInv'
  BY DEF HoldInv
<1>3. Counted' = Counted
  BY DEF Counted
<1> QED
  BY <1>1, <1>2, <1>3 DEF SleepInv

LEMMA R5Step ==
    ASSUME IInv, R5
    PROVE  IInv'
<1> USE DEF IInv
<1>0. /\ UNCHANGED <<callVars, hold, last, content, sleepers, cbOn>> /\ sendq' \in SUBSET Senders
      /\ (irq => irq')
  BY DEF R5, R5Take, R5Read, R5Put, R5Notify, TypeInv, poolVars, wakeVars
<1>1. irq' \in BOOLEAN
  BY DEF R5, R5Take, R5Read, R5Put, R5Notify, TypeInv, wakeVars
<1>2. CASE R5Take
  <2>1. avail' \in Seq(Bufs) /\ r5buf' \in Bufs /\ Apart' /\ R5Apart' /\ PoolInv'
    BY <1>2, TakeStep
  <2>2. used' = used /\ inbox' = inbox /\ r5 = "idle" /\ r5' = "read" /\ pc' = pc /\ sendq' = sendq /\ irq' = irq
    BY <1>2 DEF R5Take, poolVars, wakeVars, callVars
  <2>3. used' \in Seq(Bufs) /\ r5' \in R5Places /\ r5buf' \in 0..NumBufs /\ inbox' \in Texts
    BY <2>1, <2>2, Nats DEF TypeInv, R5Places
  <2>4. NoLostWakeUp'
    BY <2>2 DEF NoLostWakeUp
  <2> QED
    BY <1>0, <1>1, <2>1, <2>3, <2>4, SendersStay
<1>3. CASE R5Read
  <2>1. /\ inbox' = content[r5buf] /\ r5 = "read" /\ r5' = "put" /\ pc' = pc /\ sendq' = sendq /\ irq' = irq
        /\ UNCHANGED <<hold, last, avail, used, r5buf>>
    BY <1>3 DEF R5Read, poolVars, wakeVars, callVars
  <2>2. r5buf \in Bufs
    BY <2>1, Nats DEF TypeInv, R5Apart, R5Has
  <2>3. avail' \in Seq(Bufs) /\ used' \in Seq(Bufs)
    BY <2>1 DEF TypeInv
  <2>4. r5' \in R5Places /\ r5buf' \in 0..NumBufs /\ inbox' \in Texts
    BY <2>1, <2>2 DEF TypeInv, R5Places
  <2>5. Apart' /\ R5Apart' /\ PoolInv'
    BY <2>1, PoolStays DEF PoolVars, R5Has
  <2>6. NoLostWakeUp'
    BY <2>1 DEF NoLostWakeUp
  <2> QED
    BY <1>0, <1>1, <2>3, <2>4, <2>5, <2>6, SendersStay
<1>4. CASE R5Put
  <2>1. used' \in Seq(Bufs) /\ Apart' /\ R5Apart' /\ PoolInv'
    BY <1>4, PutStep
  <2>2. r5' = "notify" /\ UNCHANGED <<avail, r5buf, inbox>>
    BY <1>4 DEF R5Put
  <2>3. avail' \in Seq(Bufs) /\ r5' \in R5Places /\ r5buf' \in 0..NumBufs /\ inbox' \in Texts
    BY <2>2 DEF TypeInv, R5Places
  <2>4. NoLostWakeUp'
    BY <2>2 DEF NoLostWakeUp
  <2> QED
    BY <1>0, <1>1, <2>1, <2>3, <2>4, SendersStay
<1>5. CASE R5Notify
  <2>1. /\ r5 = "notify" /\ r5' = "idle" /\ r5buf' = 0 /\ (irq' <=> irq \/ cbOn)
        /\ UNCHANGED <<hold, last, avail, used, inbox, pc, sendq>>
    BY <1>5 DEF R5Notify, poolVars, callVars
  <2>2. avail' \in Seq(Bufs) /\ used' \in Seq(Bufs)
    BY <2>1 DEF TypeInv
  <2>3. r5' \in R5Places /\ r5buf' \in 0..NumBufs /\ inbox' \in Texts
    BY <2>1, Nats DEF TypeInv, R5Places
  <2>4. Apart' /\ R5Apart' /\ PoolInv'
    BY <2>1, PoolStays DEF PoolVars, R5Has
  <2>5. ASSUME NEW s \in sendq, pc[s] = "asleep" PROVE cbOn
    <3>1. s \in Counted
      BY <2>5 DEF Counted, TypeInv
    <3> QED
      BY <3>1, FS_EmptySet DEF SleepInv
  <2>6. NoLostWakeUp'
    BY <2>1, <2>5 DEF NoLostWakeUp
  <2> QED
    BY <1>0, <1>1, <2>2, <2>3, <2>4, <2>6, SendersStay
<1> QED
  BY <1>2, <1>3, <1>4, <1>5 DEF R5

LEMMA XmitDoneStep ==
    ASSUME IInv, XmitDone
    PROVE  IInv'
<1> USE DEF IInv
<1>1. /\ UNCHANGED <<callVars, hold, last, content, sleepers, cbOn>>
      /\ UNCHANGED <<avail, used, r5, r5buf, inbox>> /\ irq' = FALSE
      /\ sendq' = IF used = <<>> THEN sendq ELSE {}
  BY DEF XmitDone, poolVars, r5Vars
<1>2. avail' \in Seq(Bufs) /\ used' \in Seq(Bufs) /\ irq' \in BOOLEAN
  BY <1>1 DEF TypeInv
<1>3. sendq' \in SUBSET Senders /\ r5' \in R5Places /\ r5buf' \in 0..NumBufs /\ inbox' \in Texts
  BY <1>1 DEF TypeInv
<1>4. Apart' /\ R5Apart' /\ PoolInv'
  BY <1>1, PoolStays DEF PoolVars, R5Has
<1>5. NoLostWakeUp'
  BY <1>1 DEF NoLostWakeUp
<1> QED
  BY <1>1, <1>2, <1>3, <1>4, <1>5, SendersStay

LEMMA SignalStep ==
    ASSUME IInv, NEW s \in Senders, Signal(s)
    PROVE  IInv'
<1> USE DEF IInv
<1>1. UNCHANGED <<pc, wait, calls, hold, last, used, sleepers, sendq, cbOn, irq, avail, content, r5, r5buf, inbox>>
  BY DEF Signal, poolVars, wakeVars, r5Vars
<1>2. signalled' \in [Senders -> BOOLEAN]
  BY DEF Signal, TypeInv
<1>3. TypeInv'
  <2>1. wait' \in [Senders -> BOOLEAN] /\ cbOn' \in BOOLEAN /\ irq' \in BOOLEAN
    BY <1>1 DEF TypeInv
  <2>2. avail' \in Seq(Bufs) /\ used' \in Seq(Bufs)
    BY <1>1 DEF TypeInv
  <2> QED
    BY <1>1, <1>2, <2>1, <2>2 DEF TypeInv
<1>4. HoldInv' /\ NoLostWakeUp'
  BY <1>1 DEF HoldInv, NoLostWakeUp
<1>5. Apart' /\ R5Apart' /\ PoolInv'
  BY <1>1, PoolStays DEF PoolVars, R5Has
<1>6. Counted' = Counted
  BY <1>1 DEF Counted
<1>7. SleepInv'
  BY <1>1, <1>6 DEF SleepInv
<1> QED
  BY <1>3, <1>4, <1>5, <1>7

-----------------------------------------------------------------------------
(* The theorems.                                                           *)

LEMMA StepInv ==
    ASSUME IInv, [Next]_vars
    PROVE  IInv'
<1>1. CASE R5
  BY <1>1, R5Step
<1>2. CASE XmitDone
  BY <1>2, XmitDoneStep
<1>3. ASSUME NEW s \in Senders, Call(s) \/ Step(s) \/ Signal(s) PROVE IInv'
  BY <1>3, CallStep, SignalStep, GrabStep, UpRefStep, QueueStep, TestStep, DownRefStep, FillStep, AddedStep DEF Step
<1>4. CASE UNCHANGED vars
  <2> USE <1>4 DEF IInv, vars, callVars, poolVars, wakeVars, r5Vars
  <2>1. Apart' /\ R5Apart' /\ PoolInv'
    BY PoolStays DEF PoolVars, R5Has
  <2>2. TypeInv'
    BY DEF TypeInv
  <2>3. HoldInv' /\ NoLostWakeUp'
    BY DEF HoldInv, NoLostWakeUp
  <2>4. SleepInv'
    BY DEF SleepInv, Counted
  <2> QED
    BY <2>1, <2>2, <2>3, <2>4
<1> QED
  BY <1>1, <1>2, <1>3, <1>4 DEF Next

\* The state of RpmsgTx: one place for each buffer, a counter that counts the sleepers and
\* an interrupt that is enabled as long as there is one.
THEOREM Invariant == Spec => []IInv
BY InitInv, StepInv, PTL DEF Spec

\* The kinds of values of RpmsgTx.
THEOREM TypeCorrect == Spec => []TypeOK
<1>1. IInv => TypeOK
  BY DEF IInv, TypeInv, TypeOK, Places, R5Places, Texts
<1> QED
  BY <1>1, Invariant, PTL

\* A sender sleeps next to a free buffer only while the interrupt that wakes it is pending
\* or about to be raised (rpmsg_upref_sleepers, rpmsg_downref_sleepers and the wait queue).
THEOREM WakeUpArrives == Spec => []NoLostWakeUp
<1>1. IInv => NoLostWakeUp
  BY DEF IInv
<1> QED
  BY <1>1, Invariant, PTL

\* virtqueue_add_outbuf in rpmsg_send_offchannel_raw always finds room.
LEMMA Room ==
    ASSUME IInv, NEW s \in Senders, pc[s] = "add"
    PROVE  Len(avail) + Len(used) + (IF R5Has THEN 1 ELSE 0) < NumBufs
<1>1. s \in Holders
  BY DEF IInv, HoldInv, Holders
<1>2. Cardinality(Holders) \in Nat \ {0}
  BY <1>1, FS_CardinalityType, FS_EmptySet DEF IInv, PoolInv
<1>3. Len(avail) \in Nat /\ Len(used) \in Nat /\ last \in 0..NumBufs
  BY DEF IInv, TypeInv
<1>4. Placed = last
  BY DEF IInv, PoolInv
<1> QED
  BY <1>2, <1>3, <1>4, Nats DEF Placed

\* A sender that adds its buffer finds room in the ring, so the error after
\* virtqueue_add_outbuf, which would lose the buffer, does not occur (lines 633-643).
THEOREM RingNeverFull == Spec => []RingHasRoom
<1>1. IInv => RingHasRoom
  BY Room DEF RingHasRoom, R5Has
<1> QED
  BY <1>1, Invariant, PTL

-----------------------------------------------------------------------------
(* The refinement: the messages that wait are those of the buffers in the  *)
(* ring, behind the one the R5 is reading.                                 *)

Queue == IF r5 = "read" THEN <<content[r5buf]>> \o Messages ELSE Messages
Busy == {s \in Senders : pc[s] # "idle"}

LEMMA MessagesOf ==
    ASSUME NEW q \in Seq(Bufs), NEW c \in [Bufs -> Texts]
    PROVE  LET m == [i \in DOMAIN q |-> c[q[i]]]
           IN  /\ m \in Seq(Texts) /\ Len(m) = Len(q) /\ Len(q) \in Nat
               /\ \A i \in 1..Len(q) : m[i] = c[q[i]] /\ q[i] \in Bufs
<1> DEFINE m == [i \in DOMAIN q |-> c[q[i]]]
<1>1. Len(q) \in Nat /\ q \in [1..Len(q) -> Bufs] /\ DOMAIN q = 1..Len(q)
  OBVIOUS
<1>2. m \in [1..Len(q) -> Texts]
  BY <1>1
<1>3. m \in Seq(Texts) /\ Len(m) = Len(q)
  BY <1>1, <1>2
<1> QED
  BY <1>1, <1>3

LEMMA MessagesAre ==
    ASSUME IInv
    PROVE  /\ Messages \in Seq(Texts) /\ Len(Messages) = Len(avail) /\ Len(avail) \in Nat
           /\ \A i \in 1..Len(avail) : Messages[i] = content[avail[i]] /\ avail[i] \in Bufs
           /\ r5 = "read" => content[r5buf] \in Texts
<1>1. avail \in Seq(Bufs) /\ content \in [Bufs -> Texts]
  BY DEF IInv, TypeInv
<1>2. r5 = "read" => r5buf \in Bufs
  BY Nats DEF IInv, TypeInv, R5Apart, R5Has
<1> QED
  BY <1>1, <1>2, MessagesOf DEF Messages

LEMMA NextMessagesAre ==
    ASSUME IInv'
    PROVE  /\ Messages' \in Seq(Texts) /\ Len(Messages') = Len(avail') /\ Len(avail') \in Nat
           /\ \A i \in 1..Len(avail') : Messages'[i] = content'[avail'[i]] /\ avail'[i] \in Bufs
           /\ r5' = "read" => content'[r5buf'] \in Texts
<1>1. avail' \in Seq(Bufs) /\ content' \in [Bufs -> Texts]
  BY DEF IInv, TypeInv, Bufs
<1>2. r5' = "read" => r5buf' \in Bufs
  BY Nats DEF IInv, TypeInv, R5Apart, R5Has
<1> QED
  BY <1>1, <1>2, MessagesOf DEF Messages

LEMMA SameSeq ==
    ASSUME NEW S, NEW p \in Seq(S), NEW q \in Seq(S), Len(p) = Len(q), \A i \in 1..Len(p) : p[i] = q[i]
    PROVE  p = q
OBVIOUS

\* Sequences put together.
LEMMA Joined ==
    ASSUME NEW S, NEW x \in S, NEW y \in S, NEW q \in Seq(S)
    PROVE  /\ <<x>> \o q \in Seq(S) /\ Len(<<x>> \o q) = Len(q) + 1
           /\ Head(<<x>> \o q) = x /\ Tail(<<x>> \o q) = q /\ <<x>> \o q # <<>>
           /\ Append(<<x>> \o q, y) = <<x>> \o Append(q, y)
OBVIOUS

LEMMA QueueStays ==
    ASSUME IInv, IInv', UNCHANGED <<avail, r5buf>>, r5' = "read" <=> r5 = "read",
           \A i \in 1..Len(avail) : content'[avail[i]] = content[avail[i]],
           r5 = "read" => content'[r5buf] = content[r5buf]
    PROVE  Queue' = Queue
<1>1. Messages' = Messages
  <2>1. /\ Messages \in Seq(Texts) /\ Len(Messages) = Len(avail)
        /\ \A i \in 1..Len(avail) : Messages[i] = content[avail[i]]
    BY MessagesAre
  <2>2. /\ Messages' \in Seq(Texts) /\ Len(Messages') = Len(avail)
        /\ \A i \in 1..Len(avail) : Messages'[i] = content'[avail[i]]
    BY NextMessagesAre
  <2> HIDE DEF Messages
  <2> QED
    BY <2>1, <2>2, SameSeq
<1> QED
  BY <1>1 DEF Queue

\* Adding a buffer accepts the message of the call.
LEMMA AddAccepts ==
    ASSUME IInv, IInv', NEW s \in Senders, Add(s)
    PROVE  /\ Queue' = Append(Queue, <<s, calls[s]>>) /\ Len(Queue) < NumBufs
           /\ s \in Busy /\ Busy' = Busy \ {s} /\ UNCHANGED <<calls, inbox>>
<1>1. /\ pc[s] = "add" /\ avail' = Append(avail, hold[s]) /\ content' = content
      /\ UNCHANGED <<calls, inbox, r5, r5buf>>
  BY DEF Add, Go, r5Vars
<1>2. hold[s] \in Bufs /\ content[hold[s]] = <<s, calls[s]>> /\ content[hold[s]] \in Texts
  BY <1>1, Nats DEF IInv, TypeInv, HoldInv
<1>3. /\ avail \in Seq(Bufs) /\ Len(avail) \in Nat /\ Len(avail') = Len(avail) + 1
      /\ \A i \in 1..Len(avail) : avail'[i] = avail[i]
      /\ avail'[Len(avail) + 1] = hold[s]
  BY <1>1, <1>2, Appends DEF IInv, TypeInv
<1>4. /\ Messages \in Seq(Texts) /\ Len(Messages) = Len(avail)
      /\ \A i \in 1..Len(avail) : Messages[i] = content[avail[i]]
      /\ r5 = "read" => content[r5buf] \in Texts
  BY MessagesAre
<1>5. /\ Messages' \in Seq(Texts) /\ Len(Messages') = Len(avail')
      /\ \A i \in 1..Len(avail') : Messages'[i] = content[avail'[i]]
  BY <1>1, NextMessagesAre
<1>6. Messages' = Append(Messages, <<s, calls[s]>>)
  <2> DEFINE m == <<s, calls[s]>>
  <2>1. m \in Texts /\ content[hold[s]] = m
    BY <1>2
  <2> HIDE DEF Messages, m
  <2>2. /\ Append(Messages, m) \in Seq(Texts) /\ Len(Append(Messages, m)) = Len(avail) + 1
        /\ \A i \in 1..Len(avail) : Append(Messages, m)[i] = Messages[i]
        /\ Append(Messages, m)[Len(avail) + 1] = m
    BY <1>3, <1>4, <2>1
  <2>3. ASSUME NEW i \in 1..Len(avail') PROVE Messages'[i] = Append(Messages, m)[i]
    <3>1. CASE i \in 1..Len(avail)
      BY <1>3, <1>4, <1>5, <2>2, <3>1
    <3>2. CASE i = Len(avail) + 1
      BY <1>3, <1>5, <2>1, <2>2, <3>2
    <3>3. i \in 1..Len(avail) \/ i = Len(avail) + 1
      BY <1>3
    <3> QED
      BY <3>1, <3>2, <3>3
  <2>4. Messages' = Append(Messages, m)
    BY <1>3, <1>5, <2>2, <2>3, SameSeq
  <2> QED
    BY <2>4 DEF m
<1>7. Queue' = Append(Queue, <<s, calls[s]>>)
  <2>1. <<s, calls[s]>> \in Texts
    BY <1>2
  <2> HIDE DEF Messages
  <2>2. CASE r5 = "read"
    BY <1>1, <1>4, <1>6, <2>1, <2>2, Joined DEF Queue
  <2>3. CASE r5 # "read"
    BY <1>1, <1>6, <2>3 DEF Queue
  <2> QED
    BY <2>2, <2>3
<1>8. Len(Queue) < NumBufs
  <2>1. Len(avail) + (IF R5Has THEN 1 ELSE 0) < NumBufs /\ NumBufs \in Nat
    <3>1. Len(used) \in Nat
      BY DEF IInv, TypeInv
    <3> QED
      BY <1>1, <1>3, <3>1, Room, Nats
  <2> HIDE DEF Messages
  <2>2. CASE r5 = "read"
    BY <1>3, <1>4, <2>1, <2>2, Joined DEF Queue, R5Has
  <2>3. CASE r5 # "read"
    BY <1>3, <1>4, <2>1, <2>3 DEF Queue
  <2> QED
    BY <2>2, <2>3
<1>9. s \in Busy /\ Busy' = Busy \ {s}
  <2>1. pc' = [pc EXCEPT ![s] = "idle"] /\ pc \in [Senders -> Places]
    BY DEF Add, Go, IInv, TypeInv
  <2> QED
    BY <1>1, <2>1 DEF Busy
<1> QED
  BY <1>1, <1>7, <1>8, <1>9

\* The R5 reads the first message, and moves the head of the ring without changing the queue.
LEMMA R5Delivers ==
    ASSUME IInv, IInv', R5
    PROVE  /\ UNCHANGED <<Busy, calls>>
           /\ \/ Queue # <<>> /\ inbox' = Head(Queue) /\ Queue' = Tail(Queue)
              \/ UNCHANGED <<Queue, inbox>>
<1>1. UNCHANGED <<pc, calls, content>>
  BY DEF R5, R5Take, R5Read, R5Put, R5Notify, callVars
<1>2. Busy' = Busy
  BY <1>1 DEF Busy
<1>3. CASE R5Take
  <2>1. /\ avail # <<>> /\ r5 = "idle" /\ r5' = "read" /\ r5buf' = Head(avail) /\ avail' = Tail(avail)
        /\ inbox' = inbox
    BY <1>3 DEF R5Take
  <2>2. /\ Len(avail) \in Nat \ {0} /\ r5buf' = avail[1] /\ Len(avail') = Len(avail) - 1
        /\ \A i \in 1..Len(avail') : avail'[i] = avail[i + 1]
    BY <2>1, Ends DEF IInv, TypeInv
  <2>3. /\ Messages \in Seq(Texts) /\ Len(Messages) = Len(avail)
        /\ \A i \in 1..Len(avail) : Messages[i] = content[avail[i]]
    BY MessagesAre
  <2>4. /\ Messages' \in Seq(Texts) /\ Len(Messages') = Len(avail')
        /\ \A i \in 1..Len(avail') : Messages'[i] = content[avail'[i]]
        /\ content[r5buf'] \in Texts
    BY <1>1, <2>1, NextMessagesAre
  <2>5. Messages = <<content[r5buf']>> \o Messages'
    <3> DEFINE x == content[r5buf']
    <3>1. x \in Texts /\ Messages[1] = x
      BY <2>2, <2>3, <2>4
    <3> HIDE DEF Messages, x
    <3>2. /\ <<x>> \o Messages' \in Seq(Texts) /\ Len(<<x>> \o Messages') = Len(avail)
          /\ (<<x>> \o Messages')[1] = x
          /\ \A i \in 1..Len(Messages') : (<<x>> \o Messages')[i + 1] = Messages'[i]
      BY <2>2, <2>4, <3>1
    <3>3. ASSUME NEW i \in 1..Len(avail) PROVE Messages[i] = (<<x>> \o Messages')[i]
      <4>1. CASE i = 1
        BY <3>1, <3>2, <4>1
      <4>2. CASE i # 1
        <5>1. i - 1 \in 1..Len(avail') /\ (i - 1) + 1 = i
          BY <2>2, <4>2
        <5>2. Messages'[i - 1] = content[avail[i]]
          BY <2>2, <2>4, <5>1
        <5> QED
          BY <2>3, <2>4, <3>2, <5>1, <5>2
      <4> QED
        BY <4>1, <4>2
    <3>4. Messages = <<x>> \o Messages'
      BY <2>3, <3>2, <3>3, SameSeq
    <3> QED
      BY <3>4 DEF x
  <2>6. Queue = Messages
    BY <2>1 DEF Queue
  <2>7. Queue' = <<content[r5buf']>> \o Messages'
    BY <1>1, <2>1 DEF Queue
  <2> QED
    BY <1>1, <1>2, <2>1, <2>5, <2>6, <2>7
<1>4. CASE R5Read
  <2>1. r5 = "read" /\ r5' = "put" /\ inbox' = content[r5buf] /\ avail' = avail
    BY <1>4 DEF R5Read
  <2>2. Messages' = Messages
    BY <1>1, <2>1 DEF Messages
  <2>3. Queue = <<content[r5buf]>> \o Messages /\ Queue' = Messages
    BY <2>1, <2>2 DEF Queue
  <2>4. Messages \in Seq(Texts) /\ content[r5buf] \in Texts
    BY <2>1, MessagesAre
  <2> HIDE DEF Messages
  <2>5. Queue # <<>> /\ inbox' = Head(Queue) /\ Queue' = Tail(Queue)
    BY <2>1, <2>3, <2>4, Joined
  <2> QED
    BY <1>1, <1>2, <2>5
<1>5. CASE R5Put \/ R5Notify
  <2>1. r5 # "read" /\ r5' # "read" /\ UNCHANGED <<avail, inbox>>
    BY <1>5 DEF R5Put, R5Notify
  <2>2. Messages' = Messages
    BY <1>1, <2>1 DEF Messages
  <2>3. Queue' = Queue
    BY <2>1, <2>2 DEF Queue
  <2> QED
    BY <1>1, <1>2, <2>1, <2>3
<1> QED
  BY <1>3, <1>4, <1>5 DEF R5

\* What a sender does before its message is in the ring is not seen.
LEMMA SenderHides ==
    ASSUME IInv, IInv', NEW s \in Senders, Call(s) \/ Signal(s) \/ (Step(s) /\ ~Add(s))
    PROVE  UNCHANGED <<Queue, inbox>>
<1>1. UNCHANGED <<avail, r5, r5buf, inbox>>
  BY DEF Call, Signal, Step, Grab, UpRef, Enqueue, Test, Awake, TimeOut, DownRef, Fill, r5Vars
<1>2. CASE content' = content
  BY <1>1, <1>2, QueueStays
<1>3. CASE Fill(s)
  <2>1. hold[s] \in Bufs /\ content' = [content EXCEPT ![hold[s]] = <<s, calls[s]>>]
    BY <1>3, Nats DEF Fill, Go, IInv, TypeInv, HoldInv
  <2>2. \A b \in Bufs \ {hold[s]} : content'[b] = content[b]
    BY <2>1 DEF IInv, TypeInv
  <2>3. \A i \in 1..Len(avail) : content'[avail[i]] = content[avail[i]]
    BY <2>2 DEF IInv, TypeInv, Apart
  <2>4. r5 = "read" => content'[r5buf] = content[r5buf]
    BY <2>2, Nats DEF IInv, TypeInv, R5Apart, R5Has
  <2> QED
    BY <1>1, <2>3, <2>4, QueueStays
<1> QED
  BY <1>2, <1>3 DEF Call, Signal, Step, Grab, UpRef, Enqueue, Test, Awake, TimeOut, DownRef

LEMMA Refines ==
    ASSUME IInv, IInv', [Next]_vars
    PROVE  [Channel!Next]_(Channel!channel)
<1> USE DEF Channel!channel
<1>1. CASE UNCHANGED vars
  <2>1. UNCHANGED <<pc, calls, inbox, avail, r5, r5buf, content>>
    BY <1>1 DEF vars, callVars, r5Vars
  <2>2. Queue' = Queue /\ Busy' = Busy
    BY <2>1 DEF Queue, Messages, Busy
  <2> QED
    BY <2>1, <2>2 DEF Queue, Busy
<1>2. CASE XmitDone
  <2>1. UNCHANGED <<pc, calls, inbox, avail, r5, r5buf, content>>
    BY <1>2 DEF XmitDone, callVars, r5Vars
  <2>2. Queue' = Queue /\ Busy' = Busy
    BY <2>1 DEF Queue, Messages, Busy
  <2> QED
    BY <2>1, <2>2 DEF Queue, Busy
<1>3. CASE R5
  <2>1. /\ UNCHANGED <<Busy, calls>>
        /\ \/ Queue # <<>> /\ inbox' = Head(Queue) /\ Queue' = Tail(Queue)
           \/ UNCHANGED <<Queue, inbox>>
    BY <1>3, R5Delivers
  <2> QED
    BY <2>1 DEF Channel!Next, Channel!Deliver, Queue, Busy
<1>4. ASSUME NEW s \in Senders, Add(s) PROVE Channel!Accept(s)
  <2>1. /\ Queue' = Append(Queue, <<s, calls[s]>>) /\ Len(Queue) < NumBufs
        /\ s \in Busy /\ Busy' = Busy \ {s} /\ UNCHANGED <<calls, inbox>>
    BY <1>4, AddAccepts
  <2> QED
    BY <2>1 DEF Channel!Accept, Queue, Busy
<1>5. ASSUME NEW s \in Senders, Call(s) PROVE Channel!Call(s)
  <2>1. /\ pc[s] = "idle" /\ pc' = [pc EXCEPT ![s] = "get"] /\ calls[s] < MaxCalls
        /\ calls' = [calls EXCEPT ![s] = @ + 1]
    BY <1>5 DEF Call, Go
  <2>2. s \notin Busy /\ Busy' = Busy \cup {s}
    BY <2>1 DEF Busy, IInv, TypeInv
  <2>3. UNCHANGED <<Queue, inbox>>
    BY <1>5, SenderHides
  <2> QED
    BY <2>1, <2>2, <2>3 DEF Channel!Call, Queue, Busy
<1>6. ASSUME NEW s \in Senders, Signal(s) \/ (Step(s) /\ ~Add(s))
      PROVE  Channel!Refuse(s) \/ UNCHANGED Channel!channel
  <2>1. UNCHANGED <<Queue, inbox, calls>>
    <3>1. calls' = calls
      BY <1>6 DEF Signal, Step, Grab, UpRef, Enqueue, Test, Awake, TimeOut, DownRef, Fill
    <3> QED
      BY <1>6, <3>1, SenderHides
  <2>2. PICK to \in Places : pc' = [pc EXCEPT ![s] = to] /\ (pc[s] # "idle" \/ to = "idle")
    <3>1. CASE Signal(s)
      <4>1. pc' = [pc EXCEPT ![s] = pc[s]] /\ pc[s] \in Places /\ pc[s] # "idle"
        BY <3>1 DEF Signal, IInv, TypeInv
      <4> QED
        BY <4>1
    <3>2. CASE Step(s) /\ ~Add(s)
      BY <3>2 DEF Step, Grab, UpRef, Enqueue, Test, Awake, TimeOut, DownRef, AfterDownRef, Fill, Go, Places
    <3> QED
      BY <1>6, <3>1, <3>2
  <2>3. (s \in Busy /\ Busy' = Busy \ {s}) \/ Busy' = Busy
    BY <2>2 DEF Busy, IInv, TypeInv
  <2> QED
    BY <2>1, <2>3 DEF Channel!Refuse, Queue, Busy
<1> QED
  BY <1>1, <1>2, <1>3, <1>4, <1>5, <1>6 DEF Next, Step, Channel!Next

\* The transmit half of the bus implements the channel: every call either puts its message
\* behind all accepted before or is refused, and the R5 reads each once and in that order.
THEOREM BusIsChannel == Spec => ImplementsChannel
<1>1. Init => Channel!Init
  <2>1. ASSUME Init PROVE Queue = <<>> /\ Busy = {}
    <3>1. r5 = "idle" /\ avail = <<>>
      BY <2>1 DEF Init
    <3>2. Messages = <<>>
      BY <3>1 DEF Messages
    <3> QED
      BY <2>1, <3>1, <3>2 DEF Queue, Busy, Init
  <2> QED
    BY <2>1 DEF Init, Channel!Init, Queue, Busy
<1> QED
  BY <1>1, Refines, Invariant, PTL DEF Spec, ImplementsChannel, Channel!Spec
=============================================================================
