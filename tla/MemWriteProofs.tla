---------------------------- MODULE MemWriteProofs ----------------------------
(***************************************************************************)
(* For every number of IDs, blocks and bursts and every limit: the write  *)
(* channel of the memory model cannot lock up or lose data through its    *)
(* ready bits, its count of writes in flight is exact and limited, and    *)
(* every burst is stored whole and answered once.                         *)
(***************************************************************************)
EXTENDS MemWrite, SequenceTheorems, FiniteSetTheorems, TLAPS

(* What the queues hold.                                                  *)
Queues ==
  /\ burst \in [Txs -> [id : Ids, base : Blocks, len : Lens]]
  /\ issued \in 0 .. MaxWrites
  /\ write_transactions \in Seq(Txs) /\ ddr_write_q \in Seq(Txs)
  /\ enqueued \in [Txs -> Int] /\ progress \in [Txs -> Int]
  /\ to_enqueue \in Seq(Ids) /\ send_ids \in Seq(Ids) /\ acked \in Seq(Ids)

(* DRAMsim3 owes each block exactly as often as a burst waits for it.     *)
Owed ==
  /\ in_flight_writes \in [Blocks -> Seq(Txs)] /\ dram \in [Blocks -> Nat]
  /\ \A b \in Blocks : dram[b] = Len(in_flight_writes[b])

(* The limit: aw_ready is up only while another write fits.               *)
Limit ==
  /\ num_in_flight_writes \in Int
  /\ num_in_flight_writes <= max_in_flight_writes
  /\ aw_ready => num_in_flight_writes < max_in_flight_writes

Pins == aw_ready \in BOOLEAN /\ w_ready \in BOOLEAN /\ b_valid \in BOOLEAN

IInv == Queues /\ Owed /\ Limit /\ Pins /\ WReadyFollowsBursts /\ InFlightExact

(* The initial state satisfies the inductive invariant.                   *)
LEMMA InitIInv == Init => IInv
<1> SUFFICES ASSUME Init PROVE IInv
  OBVIOUS
<1>1. Queues
  BY MemWriteAssumption DEF Init, Queues, Txs
<1>2. Owed
  BY DEF Init, Owed
<1>3. acked = <<>> /\ write_transactions = <<>>
      /\ aw_ready = TRUE /\ w_ready = TRUE /\ b_valid = FALSE
  BY DEF Init
<1>n. num_in_flight_writes = 0 /\ issued = 0
  BY DEF Init
<1>4. Limit
  BY <1>3, <1>n, MemWriteAssumption DEF Limit
<1>5. Pins /\ WReadyFollowsBursts
  BY <1>3 DEF Pins, WReadyFollowsBursts
<1>6. InFlightExact
  <2>1. Len(acked) = 0
    BY <1>3, EmptySeq
  <2>2. num_in_flight_writes = issued - Len(acked)
    BY <1>n, <2>1
  <2> QED
    BY <1>3, <2>2 DEF InFlightExact
<1> QED
  BY <1>1, <1>2, <1>4, <1>5, <1>6 DEF IInv

(* try_to_enqueue_ddr preserves it: only queues and debts change, and the *)
(* block sent is owed to the burst that sent it.                          *)
LEMMA EnqueueStep == ASSUME IInv, NEW accepts \in SUBSET Blocks, TryToEnqueueWrite(accepts)
                     PROVE  IInv'
<1>1. PICK i \in Oldest(Candidates(accepts)) :
        LET t == ddr_write_q[i]
            b == NextBlock(t)
        IN  /\ enqueued' = [enqueued EXCEPT ![t] = @ + 1]
            /\ dram' = [dram EXCEPT ![b] = @ + 1]
            /\ in_flight_writes' = [in_flight_writes EXCEPT ![b] = Append(@, t)]
            /\ ddr_write_q' = IF enqueued[t] + 1 >= NEnqueues(burst[t].len)
                              THEN SubSeq(ddr_write_q, 1, i - 1)
                                     \o SubSeq(ddr_write_q, i + 1, Len(ddr_write_q))
                              ELSE ddr_write_q
  BY DEF TryToEnqueueWrite
<1>2. UNCHANGED <<burst, issued, acked, write_transactions, progress, send_ids,
                  num_in_flight_writes, aw_ready, w_ready, b_valid, to_enqueue>>
  BY DEF TryToEnqueueWrite, master, channels
<1> DEFINE t == ddr_write_q[i]
           b == NextBlock(t)
<1>3. i \in 1 .. Len(ddr_write_q) /\ t \in Txs /\ b \in Blocks
  BY DEF Oldest, Candidates, IInv, Queues
<1>4. ddr_write_q' \in Seq(Txs)
  <2>1. \A k \in 1 .. Len(ddr_write_q) : ddr_write_q[k] \in Txs
    BY DEF IInv, Queues
  <2>2. Len(ddr_write_q) \in Nat
    BY DEF IInv, Queues
  <2>3. SubSeq(ddr_write_q, 1, i - 1) \in Seq(Txs)
    BY <1>3, <2>1, <2>2, SubSeqProperties
  <2>4. SubSeq(ddr_write_q, i + 1, Len(ddr_write_q)) \in Seq(Txs)
    BY <1>3, <2>1, <2>2, SubSeqProperties
  <2>5. SubSeq(ddr_write_q, 1, i - 1) \o SubSeq(ddr_write_q, i + 1, Len(ddr_write_q)) \in Seq(Txs)
    BY <2>3, <2>4, ConcatProperties
  <2> QED
    BY <1>1, <2>5 DEF IInv, Queues
<1>5. Queues'
  <2>1. enqueued' \in [Txs -> Int]
    <3>1. enqueued \in [Txs -> Int] /\ enqueued' = [enqueued EXCEPT ![t] = @ + 1]
      BY <1>1 DEF IInv, Queues
    <3>2. enqueued[t] + 1 \in Int
      BY <1>3, <3>1
    <3> HIDE DEF t
    <3> QED
      BY <3>1, <3>2
  <2> QED
    BY <1>2, <1>4, <2>1 DEF IInv, Queues
<1>6. Owed'
  BY <1>1, <1>3 DEF IInv, Owed
<1>7. Limit' /\ Pins' /\ WReadyFollowsBursts' /\ InFlightExact'
  BY <1>2 DEF IInv, Limit, Pins, WReadyFollowsBursts, InFlightExact
<1> QED
  BY <1>5, <1>6, <1>7 DEF IInv

(* The write callback preserves it: the burst it serves exists.           *)
LEMMA ReturnStep == ASSUME IInv, NEW b \in Blocks, WriteReturns(b)
                    PROVE  IInv'
<1> DEFINE t == Head(in_flight_writes[b])
<1>1. t \in Txs /\ in_flight_writes[b] # <<>> /\ Tail(in_flight_writes[b]) \in Seq(Txs)
      /\ Len(Tail(in_flight_writes[b])) = Len(in_flight_writes[b]) - 1
  BY HeadTailProperties DEF WriteReturns, IInv, Owed
<1>2. UNCHANGED <<burst, issued, acked, write_transactions, ddr_write_q, enqueued, send_ids,
                  num_in_flight_writes, aw_ready, w_ready, b_valid>>
  BY DEF WriteReturns, master, channels
<1>3. burst[t].id \in Ids
  BY <1>1 DEF IInv, Queues
<1>4. progress' \in [Txs -> Int] /\ to_enqueue' \in Seq(Ids)
  <2>1. progress' = [progress EXCEPT ![t] = @ - 1]
        /\ to_enqueue' = (IF ResponseDue(progress[t] - 1) THEN Append(to_enqueue, burst[t].id)
                                                          ELSE to_enqueue)
    BY DEF WriteReturns
  <2>2. progress \in [Txs -> Int] /\ to_enqueue \in Seq(Ids)
    BY DEF IInv, Queues
  <2>3. Append(to_enqueue, burst[t].id) \in Seq(Ids)
    BY <1>3, <2>2, AppendProperties
  <2> QED
    BY <1>1, <2>1, <2>2, <2>3
<1>5. Queues'
  BY <1>2, <1>4 DEF IInv, Queues
<1>6. Owed'
  BY <1>1 DEF WriteReturns, IInv, Owed
<1>7. Limit' /\ Pins' /\ WReadyFollowsBursts' /\ InFlightExact'
  BY <1>2 DEF IInv, Limit, Pins, WReadyFollowsBursts, InFlightExact
<1> QED
  BY <1>5, <1>6, <1>7 DEF IInv

(* An AXI cycle preserves it. The B channel frees at most one write, the  *)
(* AW channel adds at most one and only if it fits, and w_ready is down   *)
(* after the cycle only if no burst waits.                                *)
LEMMA CycleStep == ASSUME IInv, NEW aw \in BOOLEAN, NEW w \in BOOLEAN, NEW b_ready \in BOOLEAN,
                          AxiWriteCycle(aw, w, b_ready)
                   PROVE  IInv'
<1> DEFINE accepted == aw /\ aw_ready
           taken == b_valid /\ b_ready
           n == InFlightAfter(aw, b_ready)
           waiting == IF accepted THEN Append(write_transactions, issued + 1)
                                  ELSE write_transactions
           left == IF taken THEN Tail(send_ids) ELSE send_ids
<1> USE MemWriteAssumption
<1>1. /\ BChannel(b_ready) /\ WChannel(w, waiting, n)
      /\ issued' = IF accepted THEN issued + 1 ELSE issued
      /\ num_in_flight_writes' = n /\ aw_ready' = MoreWritesFit(n)
      /\ UNCHANGED <<burst, enqueued, progress, in_flight_writes, dram>>
      /\ accepted => issued < MaxWrites
  BY DEF AxiWriteCycle, memory
<1>2. waiting \in Seq(Txs) /\ (accepted => waiting # <<>>)
  <2>1. write_transactions \in Seq(Txs) /\ issued \in 0 .. MaxWrites
    BY DEF IInv, Queues
  <2>2. accepted => issued + 1 \in Txs
    BY <1>1, <2>1 DEF Txs
  <2>3. CASE accepted
    <3>1. Append(write_transactions, issued + 1) \in Seq(Txs)
          /\ Append(write_transactions, issued + 1) # <<>>
      BY <2>1, <2>2, <2>3, AppendProperties
    <3> QED
      BY <2>3, <3>1
  <2>4. CASE ~accepted
    BY <2>1, <2>4
  <2> QED
    BY <2>3, <2>4
<1>3. n \in Int /\ n <= max_in_flight_writes
      /\ n = num_in_flight_writes - (IF taken THEN 1 ELSE 0) + (IF accepted THEN 1 ELSE 0)
  BY DEF InFlightAfter, IInv, Limit
<1>4. Limit'
  BY <1>1, <1>3 DEF Limit, MoreWritesFit
<1>5. /\ acked' \in Seq(Ids) /\ Len(acked') = Len(acked) + (IF taken THEN 1 ELSE 0)
      /\ send_ids' \in Seq(Ids) /\ to_enqueue' \in Seq(Ids)
      /\ b_valid' \in BOOLEAN /\ (b_valid' => send_ids' # <<>>)
  <2>1. taken => send_ids # <<>>
    BY DEF IInv, InFlightExact
  <2>2. left \in Seq(Ids) /\ (taken => Head(send_ids) \in Ids)
    BY <2>1, HeadTailProperties DEF IInv, Queues
  <2>3. to_enqueue # <<>> => Head(to_enqueue) \in Ids /\ Tail(to_enqueue) \in Seq(Ids)
    BY HeadTailProperties DEF IInv, Queues
  <2>4. acked' = (IF taken THEN Append(acked, Head(send_ids)) ELSE acked)
        /\ b_valid' = (left # <<>>)
        /\ send_ids' = (IF to_enqueue # <<>> THEN Append(left, Head(to_enqueue)) ELSE left)
        /\ to_enqueue' = (IF to_enqueue # <<>> THEN Tail(to_enqueue) ELSE to_enqueue)
    BY <1>1 DEF BChannel
  <2>5. acked' \in Seq(Ids) /\ Len(acked') = Len(acked) + (IF taken THEN 1 ELSE 0)
    BY <2>2, <2>4 DEF IInv, Queues
  <2>6. send_ids' \in Seq(Ids) /\ (left # <<>> => send_ids' # <<>>)
    BY <2>2, <2>3, <2>4
  <2>7. to_enqueue' \in Seq(Ids)
    BY <2>3, <2>4 DEF IInv, Queues
  <2> QED
    BY <2>4, <2>5, <2>6, <2>7
<1>6. InFlightExact'
  <2>1. Len(acked) \in Nat
    BY DEF IInv, Queues
  <2>2. issued \in Int /\ num_in_flight_writes \in Int
    BY DEF IInv, Queues, Limit
  <2>3. num_in_flight_writes' = issued' - Len(acked')
    BY <1>1, <1>3, <1>5, <2>1, <2>2 DEF IInv, InFlightExact
  <2> QED
    BY <1>5, <2>3 DEF InFlightExact
<1>7. /\ write_transactions' \in Seq(Txs) /\ ddr_write_q' \in Seq(Txs)
      /\ w_ready' \in BOOLEAN /\ WReadyFollowsBursts'
  <2>1. CASE waiting = <<>>
    <3>1. write_transactions' = <<>> /\ w_ready' = MoreWritesFit(n) /\ ddr_write_q' = ddr_write_q
      BY <1>1, <2>1 DEF WChannel, WReadyIdle
    <3> QED
      BY <1>1, <1>3, <3>1 DEF WReadyFollowsBursts, MoreWritesFit, IInv, Queues
  <2>2. CASE waiting # <<>> /\ ~(w /\ w_ready)
    <3>1. write_transactions' = waiting /\ w_ready' = w_ready /\ ddr_write_q' = ddr_write_q
      BY <1>1, <2>2 DEF WChannel
    <3>2. w_ready
      <4>1. CASE write_transactions # <<>>
        BY <4>1 DEF IInv, WReadyFollowsBursts
      <4>2. CASE write_transactions = <<>>
        <5>1. accepted
          BY <2>2, <4>2
        <5> QED
          BY <4>2, <5>1 DEF IInv, WReadyFollowsBursts
      <4> QED
        BY <4>1, <4>2
    <3> QED
      BY <1>2, <2>2, <3>1, <3>2 DEF WReadyFollowsBursts, IInv, Queues
  <2>3. CASE waiting # <<>> /\ w /\ w_ready
    <3> DEFINE last == cursor[2] + 1 = burst[cursor[1]].len
    <3>1. /\ write_transactions' = IF last THEN Tail(waiting) ELSE waiting
          /\ ddr_write_q' = IF last THEN Append(ddr_write_q, Head(waiting)) ELSE ddr_write_q
          /\ w_ready' = (last => WReadyAfterLast(Tail(waiting), n))
      BY <1>1, <2>3 DEF WChannel
    <3>2. Head(waiting) \in Txs /\ Tail(waiting) \in Seq(Txs)
      BY <1>2, <2>3, HeadTailProperties
    <3>3. write_transactions' \in Seq(Txs) /\ ddr_write_q' \in Seq(Txs)
      BY <1>2, <3>1, <3>2 DEF IInv, Queues
    <3>4. w_ready' \in BOOLEAN
      BY <3>1
    <3>5. WReadyFollowsBursts'
      BY <1>1, <2>3, <3>1 DEF WReadyFollowsBursts, WReadyAfterLast
    <3> QED
      BY <3>3, <3>4, <3>5
  <2> QED
    BY <2>1, <2>2, <2>3
<1>8. Queues'
  BY <1>1, <1>5, <1>7 DEF IInv, Queues
<1>9. Owed' /\ Pins'
  BY <1>1, <1>5, <1>7 DEF IInv, Owed, Pins, MoreWritesFit
<1> QED
  BY <1>4, <1>6, <1>7, <1>8, <1>9 DEF IInv

(* Every step preserves the inductive invariant.                          *)
LEMMA NextIInv == IInv /\ [Next]_vars => IInv'
<1> SUFFICES ASSUME IInv, [Next]_vars PROVE IInv'
  OBVIOUS
<1>1. CASE AxiWrite
  BY <1>1, CycleStep DEF AxiWrite
<1>2. CASE EnqueueSome
  BY <1>2, EnqueueStep DEF EnqueueSome
<1>3. CASE \E b \in Blocks : WriteReturns(b)
  BY <1>3, ReturnStep
<1>4. CASE UNCHANGED vars
  BY <1>4 DEF vars, master, queues, memory, channels, IInv, Queues, Owed, Limit, Pins,
              WReadyFollowsBursts, InFlightExact
<1> QED
  BY <1>1, <1>2, <1>3, <1>4 DEF Next

(* The inductive invariant holds in every reachable state.                *)
THEOREM Invariance == Spec => []IInv
  BY InitIInv, NextIInv, PTL DEF Spec

(* The write channel never locks up on its ready bit: while a burst waits *)
(* for data w_ready is up, and data is never invited while an address     *)
(* would be refused (tick.cc:143-187).                                    *)
THEOREM WReadySound == Spec => []WReadyFollowsBursts
<1>1. IInv => WReadyFollowsBursts
  BY DEF IInv
<1> QED
  BY <1>1, Invariance, PTL

(* num_in_flight_writes counts exactly the bursts accepted and not yet    *)
(* acknowledged, and send_ids is never popped empty.                      *)
THEOREM CountExact == Spec => []InFlightExact
<1>1. IInv => InFlightExact
  BY DEF IInv
<1> QED
  BY <1>1, Invariance, PTL

(* At most max_in_flight_writes bursts are accepted and unacknowledged.   *)
THEOREM WritesLimited == Spec => [](num_in_flight_writes <= max_in_flight_writes)
<1>1. IInv => num_in_flight_writes <= max_in_flight_writes
  BY DEF IInv, Limit
<1> QED
  BY <1>1, Invariance, PTL

-----------------------------------------------------------------------------
(* What is stored where. *)

(* The accelerator's next data beat is of a burst whose address it sent,  *)
(* or the first of the next one.                                          *)
Cursor ==
  /\ cursor \in Nat \X Nat
  /\ cursor[1] \in 1 .. issued + 1
  /\ cursor[1] <= issued => cursor[2] < burst[cursor[1]].len
  /\ cursor[1] = issued + 1 => cursor[2] = 0

(* The bursts that wait for data are the ones whose last beat was not     *)
(* taken yet, oldest first.                                               *)
Waiting ==
  /\ Len(write_transactions) = issued + 1 - cursor[1]
  /\ \A i \in 1 .. Len(write_transactions) : write_transactions[i] = cursor[1] + i - 1

(* Only complete bursts get to DRAMsim3, and only it counts progress down. *)
Finished ==
  /\ \A i \in DOMAIN ddr_write_q : ddr_write_q[i] < cursor[1]
  /\ \A b \in Blocks : \A i \in DOMAIN in_flight_writes[b] : in_flight_writes[b][i] < cursor[1]
  /\ \A t \in Txs : progress[t] <= 1 /\ (t >= cursor[1] => progress[t] = 1)

Stored == DOMAIN written = Txs /\ DataIntact

DInv == Cursor /\ Waiting /\ Finished /\ Stored /\ OneResponsePerBurst

(* An element of a sequence is one of its elements' set.                  *)
LEMMA ElementIn == ASSUME NEW S, NEW s \in Seq(S), NEW i \in DOMAIN s PROVE s[i] \in S
OBVIOUS

(* A sequence with one element more.                                      *)
LEMMA OneMore ==
  ASSUME NEW S, NEW s \in Seq(S), NEW e \in S
  PROVE  /\ Append(s, e) \in Seq(S) /\ Len(Append(s, e)) = Len(s) + 1
         /\ Append(s, e)[Len(s) + 1] = e /\ \A i \in 1 .. Len(s) : Append(s, e)[i] = s[i]
OBVIOUS

(* Counting the occurrences of an ID in a queue.                          *)
LEMMA CountFinite ==
  ASSUME NEW S, NEW s \in Seq(S), NEW i
  PROVE  IsFiniteSet({k \in DOMAIN s : s[k] = i}) /\ Count(s, i) \in Nat
<1>1. Len(s) \in Nat /\ DOMAIN s = 1 .. Len(s)
  OBVIOUS
<1>2. IsFiniteSet(1 .. Len(s))
  BY <1>1, FS_Interval
<1>3. {k \in DOMAIN s : s[k] = i} \subseteq 1 .. Len(s)
  BY <1>1
<1>4. IsFiniteSet({k \in DOMAIN s : s[k] = i})
  BY <1>2, <1>3, FS_Subset
<1> QED
  BY <1>4, FS_CardinalityType DEF Count

(* One more ID in a queue.                                                *)
LEMMA CountAppend ==
  ASSUME NEW S, NEW s \in Seq(S), NEW e \in S, NEW i
  PROVE  Count(Append(s, e), i) = Count(s, i) + (IF e = i THEN 1 ELSE 0)
<1> DEFINE A == {k \in DOMAIN s : s[k] = i}
           B == {k \in DOMAIN Append(s, e) : Append(s, e)[k] = i}
<1>1. PICK n \in Nat : n = Len(s) /\ DOMAIN s = 1 .. n
  OBVIOUS
<1>2. DOMAIN Append(s, e) = 1 .. n + 1 /\ Append(s, e)[n + 1] = e
      /\ \A k \in 1 .. n : Append(s, e)[k] = s[k]
  BY <1>1
<1>3. B = IF e = i THEN A \cup {n + 1} ELSE A
  <2>1. 1 .. n + 1 = (1 .. n) \cup {n + 1}
    OBVIOUS
  <2> QED
    BY <1>1, <1>2, <2>1
<1>4. n + 1 \notin A
  BY <1>1
<1>5. IsFiniteSet(A) /\ Cardinality(A) \in Nat
  BY CountFinite DEF Count
<1> HIDE DEF A, B
<1>6. Cardinality(A \cup {n + 1}) = Cardinality(A) + 1
  BY <1>4, <1>5, FS_AddElement
<1>7. Cardinality(B) = Cardinality(A) + (IF e = i THEN 1 ELSE 0)
  BY <1>3, <1>5, <1>6
<1> QED
  BY <1>7 DEF A, B, Count

(* The first ID leaves a queue.                                           *)
LEMMA CountTail ==
  ASSUME NEW S, NEW s \in Seq(S), s # <<>>, NEW i
  PROVE  Count(Tail(s), i) = Count(s, i) - (IF Head(s) = i THEN 1 ELSE 0)
<1> DEFINE A == {k \in DOMAIN s : s[k] = i}
           B == {k \in DOMAIN Tail(s) : Tail(s)[k] = i}
           f == [k \in B |-> k + 1]
<1>1. PICK n \in Nat : n + 1 = Len(s) /\ DOMAIN s = 1 .. n + 1
  <2>1. Len(s) \in Nat /\ Len(s) # 0 /\ DOMAIN s = 1 .. Len(s)
    OBVIOUS
  <2>2. Len(s) - 1 \in Nat /\ (Len(s) - 1) + 1 = Len(s)
    BY <2>1
  <2> QED
    BY <2>1, <2>2
<1>2. DOMAIN Tail(s) = 1 .. n /\ Head(s) = s[1] /\ \A k \in 1 .. n : Tail(s)[k] = s[k + 1]
  <2>1. Tail(s) \in Seq(S) /\ Len(Tail(s)) = n
    BY <1>1
  <2> QED
    BY <1>1, <2>1
<1>3. f \in Bijection(B, A \ {1})
  <2>1. f \in [B -> A \ {1}]
    BY <1>1, <1>2
  <2>2. \A x, y \in B : f[x] = f[y] => x = y
    BY <1>2
  <2>3. \A y \in A \ {1} : \E x \in B : f[x] = y
    <3> TAKE y \in A \ {1}
    <3>1. y - 1 \in 1 .. n /\ (y - 1) + 1 = y
      BY <1>1
    <3>2. y - 1 \in B
      BY <1>2, <3>1
    <3> QED
      BY <3>1, <3>2
  <2> HIDE DEF f, B, A
  <2> QED
    BY <2>1, <2>2, <2>3 DEF Bijection, Injection, Surjection, IsInjective
<1>4. IsFiniteSet(A) /\ Cardinality(A) \in Nat
  BY CountFinite DEF Count
<1>5. IsFiniteSet(B)
  <2>1. IsFiniteSet(1 .. n)
    BY FS_Interval
  <2>2. B \subseteq 1 .. n
    BY <1>2
  <2> QED
    BY <2>1, <2>2, FS_Subset
<1>6. 1 \in A <=> Head(s) = i
  BY <1>1, <1>2
<1> HIDE DEF A, B, f
<1>7. Cardinality(A \ {1}) = Cardinality(B)
  BY <1>3, <1>5, FS_Bijection DEF ExistsBijection
<1>8. Cardinality(A \ {1}) = Cardinality(A) - (IF Head(s) = i THEN 1 ELSE 0)
  <2>1. Cardinality(A \ {1}) = IF 1 \in A THEN Cardinality(A) - 1 ELSE Cardinality(A)
    BY <1>4, FS_RemoveElement
  <2> QED
    BY <1>4, <1>6, <2>1
<1> QED
  BY <1>7, <1>8 DEF A, B, Count

(* One more beat of a burst.                                              *)
LEMMA OneMoreBeat ==
  ASSUME NEW t, NEW n \in Nat
  PROVE  Append([i \in 1 .. n |-> <<t, i - 1>>], <<t, n>>) = [i \in 1 .. n + 1 |-> <<t, i - 1>>]
<1> DEFINE f == [i \in 1 .. n |-> <<t, i - 1>>]
           g == [i \in 1 .. n + 1 |-> <<t, i - 1>>]
           S == {t} \X Int
<1>1. f \in Seq(S) /\ Len(f) = n
  <2>1. f \in [1 .. n -> S]
    OBVIOUS
  <2> HIDE DEF f, S
  <2> QED
    BY <2>1
<1>2. <<t, n>> \in S
  OBVIOUS
<1>3. Append(f, <<t, n>>) \in Seq(S) /\ Len(Append(f, <<t, n>>)) = n + 1
      /\ Append(f, <<t, n>>)[n + 1] = <<t, n>> /\ \A i \in 1 .. n : Append(f, <<t, n>>)[i] = f[i]
  <2> HIDE DEF f, S
  <2> QED
    BY <1>1, <1>2
<1>4. \A i \in 1 .. n + 1 : Append(f, <<t, n>>)[i] = <<t, i - 1>>
  <2> TAKE i \in 1 .. n + 1
  <2>1. CASE i = n + 1
    BY <1>3, <2>1
  <2>2. CASE i # n + 1
    <3>1. i \in 1 .. n
      BY <2>2
    <3> QED
      BY <1>3, <3>1
  <2> QED
    BY <2>1, <2>2
<1>5. DOMAIN Append(f, <<t, n>>) = 1 .. n + 1
  BY <1>3
<1>6. Append(f, <<t, n>>) = [i \in DOMAIN Append(f, <<t, n>>) |-> Append(f, <<t, n>>)[i]]
  BY <1>3
<1> HIDE DEF f
<1> QED
  BY <1>4, <1>5, <1>6 DEF f

(* The bursts with ID i that DRAMsim3 has written a block of.             *)
Answerable(i) == {t \in Txs : burst[t].id = i /\ Complete(t) /\ progress[t] <= 0}

(* There are finitely many of them.                                       *)
LEMMA AnswerableFinite == ASSUME NEW i PROVE IsFiniteSet(Answerable(i)) /\ Cardinality(Answerable(i)) \in Nat
<1>1. IsFiniteSet(Txs)
  BY MemWriteAssumption, FS_Interval DEF Txs
<1>2. Answerable(i) \subseteq Txs
  BY DEF Answerable
<1>3. IsFiniteSet(Answerable(i))
  BY <1>1, <1>2, FS_Subset
<1> QED
  BY <1>3, FS_CardinalityType

(* Nothing is stored or answered at first.                                *)
LEMMA InitDInv == Init => DInv
<1> SUFFICES ASSUME Init PROVE DInv
  OBVIOUS
<1>1. /\ issued = 0 /\ cursor = <<1, 0>> /\ acked = <<>> /\ written = [t \in Txs |-> <<>>]
      /\ write_transactions = <<>> /\ ddr_write_q = <<>> /\ progress = [t \in Txs |-> 1]
      /\ in_flight_writes = [b \in Blocks |-> <<>>] /\ to_enqueue = <<>> /\ send_ids = <<>>
  BY DEF Init
<1>2. Cursor
  BY <1>1 DEF Cursor
<1>3. Waiting /\ Finished
  BY <1>1 DEF Waiting, Finished
<1>4. Stored
  <2>1. \A t \in Txs : ~(t < 1)
    BY DEF Txs
  <2>2. <<>> = [i \in 1 .. 0 |-> <<1, i - 1>>]
    OBVIOUS
  <2> QED
    BY <1>1, <2>1, <2>2 DEF Stored, DataIntact
<1>5. OneResponsePerBurst
  <2> SUFFICES ASSUME NEW i \in Ids
               PROVE  Count(to_enqueue, i) + Count(send_ids, i) + Count(acked, i)
                        = Cardinality(Answerable(i))
    BY DEF OneResponsePerBurst, Answerable
  <2>1. Count(<<>>, i) = 0
    <3>1. {k \in DOMAIN <<>> : <<>>[k] = i} = {}
      OBVIOUS
    <3> QED
      BY <3>1, FS_EmptySet DEF Count
  <2>2. Answerable(i) = {}
    BY <1>1 DEF Answerable, Complete, Txs
  <2>3. Cardinality(Answerable(i)) = 0
    BY <2>2, FS_EmptySet
  <2> QED
    BY <1>1, <2>1, <2>3
<1> QED
  BY <1>2, <1>3, <1>4, <1>5 DEF DInv

(* try_to_enqueue_ddr hands only complete bursts to DRAMsim3.             *)
LEMMA EnqueueDStep == ASSUME IInv, DInv, NEW accepts \in SUBSET Blocks, TryToEnqueueWrite(accepts)
                      PROVE  DInv'
<1>1. PICK i \in Oldest(Candidates(accepts)) :
        LET t == ddr_write_q[i]
            b == NextBlock(t)
        IN  /\ in_flight_writes' = [in_flight_writes EXCEPT ![b] = Append(@, t)]
            /\ ddr_write_q' = IF enqueued[t] + 1 >= NEnqueues(burst[t].len)
                              THEN SubSeq(ddr_write_q, 1, i - 1)
                                     \o SubSeq(ddr_write_q, i + 1, Len(ddr_write_q))
                              ELSE ddr_write_q
  BY DEF TryToEnqueueWrite
<1>2. UNCHANGED <<burst, issued, cursor, written, acked, write_transactions, progress, send_ids,
                  to_enqueue>>
  BY DEF TryToEnqueueWrite, master, channels
<1> DEFINE t == ddr_write_q[i]
           b == NextBlock(t)
           p == SubSeq(ddr_write_q, 1, i - 1)
           r == SubSeq(ddr_write_q, i + 1, Len(ddr_write_q))
<1>3. i \in DOMAIN ddr_write_q /\ b \in accepts
  BY DEF Oldest, Candidates
<1>4. ddr_write_q \in Seq(Txs) /\ in_flight_writes \in [Blocks -> Seq(Txs)]
  BY DEF IInv, Queues, Owed
<1>5. t \in Txs /\ t < cursor[1] /\ b \in Blocks
  BY <1>3, <1>4, ElementIn DEF DInv, Finished
<1>6. \A j \in DOMAIN ddr_write_q' : \E k \in DOMAIN ddr_write_q : ddr_write_q'[j] = ddr_write_q[k]
  <2>1. PICK n \in Nat : n = Len(ddr_write_q) /\ DOMAIN ddr_write_q = 1 .. n /\ i \in 1 .. n
    BY <1>3, <1>4
  <2>2. p \in Seq(Txs) /\ Len(p) = i - 1 /\ \A k \in 1 .. i - 1 : p[k] = ddr_write_q[k]
    BY <1>4, <2>1
  <2>3. r \in Seq(Txs) /\ Len(r) = n - i /\ \A k \in 1 .. n - i : r[k] = ddr_write_q[k + i]
    BY <1>4, <2>1
  <2>4. CASE ddr_write_q' = p \o r
    <3> HIDE DEF p, r
    <3>1. DOMAIN (p \o r) = 1 .. n - 1
          /\ \A k \in 1 .. n - 1 : (p \o r)[k] = IF k <= i - 1 THEN p[k] ELSE r[k - (i - 1)]
      BY <2>1, <2>2, <2>3
    <3>2. ASSUME NEW j \in 1 .. n - 1 PROVE \E k \in 1 .. n : (p \o r)[j] = ddr_write_q[k]
      <4>1. CASE j <= i - 1
        <5>1. j \in 1 .. n /\ j \in 1 .. i - 1
          BY <2>1, <4>1
        <5> QED
          BY <2>2, <3>1, <4>1, <5>1
      <4>2. CASE ~(j <= i - 1)
        <5>1. j - (i - 1) \in 1 .. n - i /\ (j - (i - 1)) + i = j + 1 /\ j + 1 \in 1 .. n
          BY <2>1, <4>2
        <5>2. (p \o r)[j] = ddr_write_q[j + 1]
          BY <2>3, <3>1, <4>2, <5>1
        <5> QED
          BY <5>1, <5>2
      <4> QED
        BY <4>1, <4>2
    <3> QED
      BY <2>1, <2>4, <3>1, <3>2
  <2>5. CASE ddr_write_q' = ddr_write_q
    BY <2>5
  <2> QED
    BY <1>1, <2>4, <2>5
<1>7. Finished'
  <2>1. \A j \in DOMAIN ddr_write_q' : ddr_write_q'[j] < cursor[1]
    BY <1>6 DEF DInv, Finished
  <2>2. ASSUME NEW d \in Blocks, NEW j \in DOMAIN in_flight_writes'[d]
        PROVE  in_flight_writes'[d][j] < cursor[1]
    <3>1. CASE d # b
      BY <1>1, <1>4, <2>2, <3>1 DEF DInv, Finished
    <3>2. CASE d = b
      <4>1. in_flight_writes'[d] = Append(in_flight_writes[d], t) /\ in_flight_writes[d] \in Seq(Txs)
        BY <1>1, <1>4, <1>5, <3>2
      <4> DEFINE q == in_flight_writes[d]
      <4>2. \A k \in DOMAIN q : q[k] < cursor[1]
        BY DEF DInv, Finished
      <4> HIDE DEF q, t
      <4>3. PICK m \in Nat : m = Len(q) /\ DOMAIN q = 1 .. m
        BY <4>1 DEF q
      <4>4. /\ DOMAIN Append(q, t) = 1 .. m + 1 /\ Append(q, t)[m + 1] = t
            /\ \A k \in 1 .. m : Append(q, t)[k] = q[k]
        BY <1>5, <4>1, <4>3 DEF q
      <4>5. j \in 1 .. m + 1 /\ in_flight_writes'[d] = Append(q, t)
        BY <2>2, <4>1, <4>4 DEF q
      <4>6. CASE j = m + 1
        BY <1>5, <4>4, <4>5, <4>6
      <4>7. CASE j # m + 1
        <5>1. j \in 1 .. m
          BY <4>5, <4>7
        <5> QED
          BY <4>2, <4>3, <4>4, <4>5, <5>1
      <4> QED
        BY <4>6, <4>7
    <3> QED
      BY <3>1, <3>2
  <2> QED
    BY <1>2, <2>1, <2>2 DEF DInv, Finished
<1>8. Cursor' /\ Waiting' /\ Stored' /\ OneResponsePerBurst'
  BY <1>2 DEF DInv, Cursor, Waiting, Stored, DataIntact, OneResponsePerBurst, Complete, Count
<1> QED
  BY <1>7, <1>8 DEF DInv

(* The write callback adds a response with the burst's first block only.  *)
LEMMA ReturnDStep == ASSUME IInv, DInv, NEW b \in Blocks, WriteReturns(b) PROVE DInv'
<1> DEFINE t == Head(in_flight_writes[b])
<1>1. UNCHANGED <<burst, issued, cursor, written, acked, write_transactions, ddr_write_q, send_ids>>
  BY DEF WriteReturns, master, channels
<1>2. /\ progress' = [progress EXCEPT ![t] = @ - 1]
      /\ to_enqueue' = (IF progress[t] - 1 = 0 THEN Append(to_enqueue, burst[t].id) ELSE to_enqueue)
      /\ in_flight_writes' = [in_flight_writes EXCEPT ![b] = Tail(@)]
  BY DEF WriteReturns, ResponseDue
<1>3. /\ in_flight_writes \in [Blocks -> Seq(Txs)] /\ progress \in [Txs -> Int]
      /\ to_enqueue \in Seq(Ids) /\ send_ids \in Seq(Ids) /\ acked \in Seq(Ids)
      /\ burst \in [Txs -> [id : Ids, base : Blocks, len : Lens]]
  BY DEF IInv, Queues, Owed
<1>4. in_flight_writes[b] \in Seq(Txs) /\ in_flight_writes[b] # <<>>
  <2>1. dram[b] > 0 /\ dram[b] = Len(in_flight_writes[b]) /\ in_flight_writes[b] \in Seq(Txs)
    BY DEF WriteReturns, IInv, Owed
  <2> QED
    BY <2>1
<1>5. /\ t \in Txs /\ t = in_flight_writes[b][1] /\ 1 \in DOMAIN in_flight_writes[b]
      /\ \A j \in DOMAIN Tail(in_flight_writes[b]) :
           /\ j + 1 \in DOMAIN in_flight_writes[b]
           /\ Tail(in_flight_writes[b])[j] = in_flight_writes[b][j + 1]
  <2> DEFINE q == in_flight_writes[b]
  <2> HIDE DEF q
  <2>1. q \in Seq(Txs) /\ q # <<>> /\ Len(q) \in Nat \ {0}
    BY <1>4 DEF q
  <2>2. Head(q) = q[1] /\ 1 \in DOMAIN q /\ q[1] \in Txs
    BY <2>1
  <2>3. DOMAIN Tail(q) = 1 .. Len(q) - 1 /\ \A j \in 1 .. Len(q) - 1 : Tail(q)[j] = q[j + 1]
    BY <2>1
  <2>4. \A j \in 1 .. Len(q) - 1 : j + 1 \in DOMAIN q
    BY <2>1
  <2> QED
    BY <2>2, <2>3, <2>4 DEF q
<1>6. Complete(t) /\ progress[t] <= 1 /\ progress[t] \in Int /\ burst[t].id \in Ids /\ t < cursor[1]
  BY <1>3, <1>5 DEF DInv, Finished, Complete
<1> HIDE DEF t
<1>7. Finished'
  <2>1. \A u \in Txs : progress'[u] <= 1 /\ (u >= cursor[1] => progress'[u] = 1)
    <3> TAKE u \in Txs
    <3>1. progress[u] <= 1 /\ (u >= cursor[1] => progress[u] = 1)
      BY DEF DInv, Finished
    <3>2. CASE u = t
      <4>1. cursor[1] \in Nat /\ u \in Nat
        BY DEF DInv, Cursor, Txs
      <4> QED
        BY <1>2, <1>3, <1>6, <3>2, <4>1
    <3>3. CASE u # t
      BY <1>2, <1>3, <3>1, <3>3
    <3> QED
      BY <3>2, <3>3
  <2>2. ASSUME NEW d \in Blocks, NEW j \in DOMAIN in_flight_writes'[d]
        PROVE  in_flight_writes'[d][j] < cursor[1]
    BY <1>2, <1>3, <1>5, <2>2 DEF DInv, Finished
  <2> QED
    BY <1>1, <2>1, <2>2 DEF DInv, Finished
<1>8. OneResponsePerBurst'
  <2> SUFFICES ASSUME NEW i \in Ids
               PROVE  Count(to_enqueue', i) + Count(send_ids, i) + Count(acked, i)
                        = Cardinality(Answerable(i)')
    BY <1>1 DEF OneResponsePerBurst, Answerable, Complete, Count
  <2>1. Count(to_enqueue, i) + Count(send_ids, i) + Count(acked, i) = Cardinality(Answerable(i))
    BY DEF DInv, OneResponsePerBurst, Answerable
  <2>2. Count(to_enqueue, i) \in Nat /\ Count(send_ids, i) \in Nat /\ Count(acked, i) \in Nat
    BY <1>3, CountFinite
  <2>3. Answerable(i)' = {u \in Txs : burst[u].id = i /\ Complete(u) /\ progress'[u] <= 0}
    BY <1>1 DEF Answerable, Complete
  <2>4. CASE progress[t] = 1
    <3>1. /\ to_enqueue' = Append(to_enqueue, burst[t].id)
          /\ progress'[t] = 0 /\ \A u \in Txs \ {t} : progress'[u] = progress[u]
      BY <1>2, <1>3, <1>5, <2>4
    <3>2. Count(to_enqueue', i) = Count(to_enqueue, i) + (IF burst[t].id = i THEN 1 ELSE 0)
      BY <1>3, <1>6, <3>1, CountAppend
    <3>3. CASE burst[t].id = i
      <4>1. t \notin Answerable(i) /\ Answerable(i)' = Answerable(i) \cup {t}
        BY <1>5, <1>6, <2>3, <2>4, <3>1, <3>3 DEF Answerable
      <4>2. Cardinality(Answerable(i)') = Cardinality(Answerable(i)) + 1
        BY <4>1, AnswerableFinite, FS_AddElement
      <4> QED
        BY <2>1, <2>2, <3>2, <3>3, <4>2
    <3>4. CASE burst[t].id # i
      <4>1. Answerable(i)' = Answerable(i)
        BY <2>3, <3>1, <3>4 DEF Answerable
      <4> QED
        BY <2>1, <2>2, <3>2, <3>4, <4>1
    <3> QED
      BY <3>3, <3>4
  <2>5. CASE progress[t] # 1
    <3>1. /\ to_enqueue' = to_enqueue /\ progress[t] <= 0 /\ progress'[t] <= 0
          /\ \A u \in Txs \ {t} : progress'[u] = progress[u]
      BY <1>2, <1>3, <1>5, <1>6, <2>5
    <3>2. Answerable(i)' = Answerable(i)
      BY <2>3, <3>1 DEF Answerable
    <3> QED
      BY <2>1, <3>1, <3>2
  <2> QED
    BY <2>4, <2>5
<1>9. Cursor' /\ Waiting' /\ Stored'
  BY <1>1 DEF DInv, Cursor, Waiting, Stored, DataIntact
<1> QED
  BY <1>7, <1>8, <1>9 DEF DInv

(* The next burst has its place among those accepted.                     *)
LEMMA NextOf ==
  ASSUME NEW c \in Nat, NEW j \in Nat, c <= j
  PROVE  c + 1 \in 1 .. j + 1 /\ j + 1 - (c + 1) \in Nat /\ (j + 1 - (c + 1)) + 1 = j + 1 - c
OBVIOUS

(* The oldest of the bursts c .. j that wait is c.                        *)
LEMMA FirstWaits ==
  ASSUME NEW q \in Seq(Txs), NEW c \in Nat, NEW j \in Nat, q # <<>>, Len(q) = j + 1 - c,
         \A i \in 1 .. Len(q) : q[i] = c + i - 1
  PROVE  Head(q) = c /\ c <= j
<1>1. Len(q) \in Nat \ {0} /\ Head(q) = q[1]
  OBVIOUS
<1>2. q[1] = c + 1 - 1
  BY <1>1
<1> QED
  BY <1>1, <1>2

(* An address accepted lengthens the queue of the bursts c, c + 1, ...    *)
LEMMA Queued ==
  ASSUME NEW q \in Seq(Txs), NEW j \in Nat, j < MaxWrites, NEW c \in 1 .. j + 1,
         Len(q) = j + 1 - c, \A i \in 1 .. Len(q) : q[i] = c + i - 1
  PROVE  /\ Append(q, j + 1) \in Seq(Txs) /\ Len(Append(q, j + 1)) = (j + 1) + 1 - c
         /\ \A i \in 1 .. Len(Append(q, j + 1)) : Append(q, j + 1)[i] = c + i - 1
<1>1. PICK m \in Nat : m = Len(q) /\ m = j + 1 - c
  OBVIOUS
<1>2. j + 1 \in Txs
  BY MemWriteAssumption DEF Txs
<1>3. /\ Append(q, j + 1) \in Seq(Txs) /\ Len(Append(q, j + 1)) = m + 1
      /\ Append(q, j + 1)[m + 1] = j + 1 /\ \A i \in 1 .. m : Append(q, j + 1)[i] = q[i]
  BY <1>1, <1>2, OneMore
<1>4. ASSUME NEW i \in 1 .. m + 1 PROVE Append(q, j + 1)[i] = c + i - 1
  <2>1. CASE i = m + 1
    BY <1>1, <1>3, <2>1
  <2>2. CASE i # m + 1
    <3>1. i \in 1 .. m
      BY <2>2
    <3> QED
      BY <1>1, <1>3, <3>1
  <2> QED
    BY <2>1, <2>2
<1> QED
  BY <1>1, <1>3, <1>4

(* An AXI cycle: a response moves from queue to queue, and a data beat    *)
(* taken belongs to the oldest burst that waits, which exists.            *)
LEMMA CycleDStep == ASSUME IInv, DInv, NEW aw \in BOOLEAN, NEW w \in BOOLEAN, NEW b_ready \in BOOLEAN,
                           AxiWriteCycle(aw, w, b_ready)
                    PROVE  DInv'
<1> DEFINE accepted == aw /\ aw_ready
           n == InFlightAfter(aw, b_ready)
           waiting == IF accepted THEN Append(write_transactions, issued + 1)
                                  ELSE write_transactions
           beat == w /\ w_ready
<1>1. /\ BChannel(b_ready) /\ WChannel(w, waiting, n)
      /\ issued' = IF accepted THEN issued + 1 ELSE issued
      /\ UNCHANGED <<burst, progress, in_flight_writes>>
      /\ accepted => issued < MaxWrites
      /\ w => cursor[1] \in Txs /\ (cursor[1] <= issued \/ (aw /\ cursor[1] = issued + 1))
  BY DEF AxiWriteCycle, memory
<1>2. PICK c \in Nat, k \in Nat : cursor = <<c, k>>
  BY DEF DInv, Cursor
<1>3. /\ c \in 1 .. issued + 1 /\ issued \in Nat /\ issued' \in Nat /\ issued' >= issued
      /\ (c <= issued => k < burst[c].len) /\ (c = issued + 1 => k = 0)
  <2>1. issued \in Nat
    BY MemWriteAssumption DEF IInv, Queues
  <2> QED
    BY <1>1, <1>2, <2>1 DEF DInv, Cursor
<1>4. /\ burst \in [Txs -> [id : Ids, base : Blocks, len : Lens]]
      /\ ddr_write_q \in Seq(Txs) /\ write_transactions \in Seq(Txs)
      /\ to_enqueue \in Seq(Ids) /\ send_ids \in Seq(Ids) /\ acked \in Seq(Ids)
  BY DEF IInv, Queues
<1>5. /\ waiting \in Seq(Txs) /\ Len(waiting) = issued' + 1 - c
      /\ \A i \in 1 .. Len(waiting) : waiting[i] = c + i - 1
  <2> DEFINE q == write_transactions
  <2>1. Len(q) = issued + 1 - c /\ \A i \in 1 .. Len(q) : q[i] = c + i - 1
    BY <1>2 DEF DInv, Waiting
  <2>2. q \in Seq(Txs)
    BY <1>4
  <2>3. CASE accepted
    <3>1. issued' = issued + 1 /\ waiting = Append(q, issued + 1) /\ issued < MaxWrites
      BY <1>1, <2>3
    <3> HIDE DEF q, waiting
    <3>2. /\ Append(q, issued + 1) \in Seq(Txs) /\ Len(Append(q, issued + 1)) = (issued + 1) + 1 - c
          /\ \A i \in 1 .. Len(Append(q, issued + 1)) : Append(q, issued + 1)[i] = c + i - 1
      BY <1>3, <2>1, <2>2, <3>1, Queued
    <3> QED
      BY <3>1, <3>2
  <2>4. CASE ~accepted
    BY <1>1, <2>1, <2>2, <2>4
  <2> QED
    BY <2>3, <2>4
<1>6. beat => waiting # <<>> /\ c \in Txs /\ c <= issued' /\ Head(waiting) = c
  <2> SUFFICES ASSUME beat PROVE waiting # <<>> /\ c \in Txs /\ c <= issued' /\ Head(waiting) = c
    OBVIOUS
  <2>1. c \in Txs /\ (c <= issued \/ (aw /\ c = issued + 1))
    BY <1>1, <1>2
  <2>2. waiting # <<>>
    <3>1. CASE c <= issued
      <4>1. Len(waiting) # 0
        BY <1>3, <1>5, <3>1
      <4> HIDE DEF waiting
      <4> QED
        BY <4>1
    <3>2. CASE aw /\ c = issued + 1 /\ accepted
      <4>1. Len(waiting) # 0
        BY <1>1, <1>3, <1>5, <3>2
      <4> HIDE DEF waiting
      <4> QED
        BY <4>1
    <3>3. CASE aw /\ c = issued + 1 /\ ~accepted
      <4>1. Len(write_transactions) = 0
        BY <1>1, <1>3, <1>5, <3>3
      <4>2. write_transactions = <<>>
        BY <1>4, <4>1
      <4> QED
        BY <3>3, <4>2 DEF IInv, WReadyFollowsBursts
    <3> QED
      BY <2>1, <3>1, <3>2, <3>3
  <2> HIDE DEF waiting
  <2>3. PICK j \in Nat : j = issued'
    BY <1>3
  <2>4. Len(waiting) = j + 1 - c
    BY <1>5, <2>3
  <2>5. Head(waiting) = c /\ c <= j
    BY <1>5, <2>2, <2>4, FirstWaits
  <2> QED
    BY <2>1, <2>2, <2>3, <2>5
<1>7. /\ ~beat => UNCHANGED <<cursor, written, ddr_write_q>> /\ write_transactions' = waiting
      /\ beat => LET last == k + 1 = burst[c].len
                 IN  /\ cursor' = IF last THEN <<c + 1, 0>> ELSE <<c, k + 1>>
                     /\ written' = [written EXCEPT ![c] = Append(@, <<c, k>>)]
                     /\ write_transactions' = IF last THEN Tail(waiting) ELSE waiting
                     /\ ddr_write_q' = IF last THEN Append(ddr_write_q, c) ELSE ddr_write_q
  <2> HIDE DEF waiting, n
  <2>1. ASSUME ~beat PROVE UNCHANGED <<cursor, written, ddr_write_q>> /\ write_transactions' = waiting
    BY <1>1, <2>1 DEF WChannel
  <2>2. ASSUME beat
        PROVE  LET last == k + 1 = burst[c].len
               IN  /\ cursor' = IF last THEN <<c + 1, 0>> ELSE <<c, k + 1>>
                   /\ written' = [written EXCEPT ![c] = Append(@, <<c, k>>)]
                   /\ write_transactions' = IF last THEN Tail(waiting) ELSE waiting
                   /\ ddr_write_q' = IF last THEN Append(ddr_write_q, c) ELSE ddr_write_q
    <3>1. waiting # <<>> /\ Head(waiting) = c
      BY <1>6, <2>2
    <3> QED
      BY <1>1, <1>2, <2>2, <3>1 DEF WChannel
  <2> QED
    BY <2>1, <2>2
<1>8. beat => burst[c].len \in Nat \ {0} /\ k < burst[c].len
  <2> SUFFICES ASSUME beat PROVE burst[c].len \in Nat \ {0} /\ k < burst[c].len
    OBVIOUS
  <2>1. burst[c].len \in Nat \ {0}
    BY <1>4, <1>6, MemWriteAssumption
  <2>2. c <= issued \/ c = issued + 1
    BY <1>3
  <2> QED
    BY <1>3, <2>1, <2>2
<1> HIDE DEF waiting, n
<1> DEFINE d == IF beat /\ k + 1 = burst[c].len THEN c + 1 ELSE c
           l == IF ~beat THEN k ELSE IF k + 1 = burst[c].len THEN 0 ELSE k + 1
<1>9. cursor' = <<d, l>> /\ d \in Nat /\ l \in Nat /\ d >= c
  BY <1>2, <1>7, <1>8
<1>10. Cursor'
  <2>1. CASE ~beat
    <3>1. d = c /\ l = k
      BY <2>1
    <3>2. issued' = issued \/ issued' = issued + 1
      BY <1>1
    <3>3. c <= issued' => k < burst[c].len
      <4>1. CASE c <= issued
        BY <1>3, <4>1
      <4>2. CASE c = issued + 1 /\ c <= issued'
        <5>1. accepted /\ issued < MaxWrites
          BY <1>1, <1>3, <4>2
        <5>2. c \in Txs
          BY <1>3, <4>2, <5>1, MemWriteAssumption DEF Txs
        <5>3. burst[c].len \in Nat \ {0}
          BY <1>4, <5>2, MemWriteAssumption
        <5> QED
          BY <1>3, <4>2, <5>3
      <4> QED
        BY <1>3, <4>1, <4>2
    <3> QED
      BY <1>1, <1>3, <1>9, <3>1, <3>2, <3>3 DEF Cursor
  <2>2. CASE beat /\ k + 1 = burst[c].len
    <3>1. d = c + 1 /\ l = 0 /\ c + 1 \in 1 .. issued' + 1
      <4>1. PICK j \in Nat : j = issued' /\ c <= j
        BY <1>3, <1>6, <2>2
      <4>2. c + 1 \in 1 .. j + 1
        BY <4>1, NextOf
      <4>3. d = c + 1 /\ l = 0
        BY <2>2
      <4> QED
        BY <4>1, <4>2, <4>3
    <3>2. c + 1 <= issued' => 0 < burst[c + 1].len
      <4> SUFFICES ASSUME c + 1 <= issued' PROVE 0 < burst[c + 1].len
        OBVIOUS
      <4>1. issued' <= MaxWrites
        BY <1>1, <1>3, MemWriteAssumption DEF IInv, Queues
      <4>2. c + 1 \in Txs
        BY <1>3, <4>1, MemWriteAssumption DEF Txs
      <4>3. burst[c + 1].len \in Nat \ {0}
        BY <1>4, <4>2, MemWriteAssumption
      <4> QED
        BY <4>3
    <3> QED
      BY <1>1, <1>9, <3>1, <3>2 DEF Cursor
  <2>3. CASE beat /\ k + 1 # burst[c].len
    <3>1. d = c /\ l = k + 1 /\ k + 1 < burst[c].len /\ c \in 1 .. issued' + 1 /\ c # issued' + 1
      BY <1>3, <1>6, <1>8, <2>3
    <3> QED
      BY <1>1, <1>9, <3>1 DEF Cursor
  <2> QED
    BY <2>1, <2>2, <2>3
<1>11. Waiting'
  <2>1. CASE d = c
    <3>1. write_transactions' = waiting
      BY <1>7, <2>1
    <3> QED
      BY <1>5, <1>9, <2>1, <3>1 DEF Waiting
  <2>2. CASE d # c
    <3>1. beat /\ d = c + 1 /\ write_transactions' = Tail(waiting) /\ waiting # <<>>
      BY <1>6, <1>7, <2>2
    <3>2. PICK m \in Nat : m + 1 = Len(waiting) /\ m = issued' + 1 - d
      <4>1. issued' + 1 - d \in Nat /\ (issued' + 1 - d) + 1 = Len(waiting)
        <5>1. PICK j \in Nat : j = issued' /\ c <= j
          BY <1>3, <1>6, <3>1
        <5>2. Len(waiting) = j + 1 - c /\ d = c + 1
          BY <1>5, <3>1, <5>1
        <5>3. j + 1 - (c + 1) \in Nat /\ (j + 1 - (c + 1)) + 1 = j + 1 - c
          BY <5>1, NextOf
        <5> HIDE DEF d
        <5> QED
          BY <5>1, <5>2, <5>3
      <4> QED
        BY <4>1
    <3>3. Len(Tail(waiting)) = m /\ \A i \in 1 .. m : Tail(waiting)[i] = waiting[i + 1]
      BY <1>5, <3>1, <3>2
    <3>4. ASSUME NEW i \in 1 .. m PROVE Tail(waiting)[i] = d + i - 1
      <4>1. i + 1 \in 1 .. Len(waiting)
        BY <3>2
      <4>2. waiting[i + 1] = c + (i + 1) - 1
        BY <1>5, <4>1
      <4> QED
        BY <3>1, <3>3, <4>2
    <3> HIDE DEF d
    <3> QED
      BY <1>9, <3>1, <3>2, <3>3, <3>4 DEF Waiting
  <2> QED
    BY <2>1, <2>2
<1>12. Finished'
  <2>1. \A t \in Txs : progress[t] <= 1 /\ (t >= d => progress[t] = 1)
    <3>1. \A t \in Txs : progress[t] <= 1 /\ (t >= c => progress[t] = 1)
      BY <1>2 DEF DInv, Finished
    <3>2. \A t \in Txs : t >= d => t >= c
      BY <1>9 DEF Txs
    <3> HIDE DEF d
    <3> QED
      BY <3>1, <3>2
  <2>2. \A b \in Blocks : \A i \in DOMAIN in_flight_writes[b] : in_flight_writes[b][i] < d
    <3> SUFFICES ASSUME NEW b \in Blocks, NEW i \in DOMAIN in_flight_writes[b]
                 PROVE  in_flight_writes[b][i] < d
      OBVIOUS
    <3>1. in_flight_writes[b] \in Seq(Txs)
      BY DEF IInv, Owed
    <3>2. in_flight_writes[b][i] \in Txs
      BY <3>1, ElementIn
    <3>3. in_flight_writes[b][i] < c /\ in_flight_writes[b][i] \in Nat
      BY <1>2, <3>2 DEF DInv, Finished, Txs
    <3> QED
      BY <1>9, <3>3
  <2>3. \A i \in DOMAIN ddr_write_q' : ddr_write_q'[i] < d
    <3> SUFFICES ASSUME NEW i \in DOMAIN ddr_write_q' PROVE ddr_write_q'[i] < d
      OBVIOUS
    <3>1. \A j \in DOMAIN ddr_write_q : ddr_write_q[j] < c /\ ddr_write_q[j] \in Nat
      <4>1. \A j \in DOMAIN ddr_write_q : ddr_write_q[j] \in Txs
        BY <1>4, ElementIn
      <4>2. \A j \in DOMAIN ddr_write_q : ddr_write_q[j] < c
        BY <1>2 DEF DInv, Finished
      <4> QED
        BY <4>1, <4>2 DEF Txs
    <3>2. CASE d = c
      <4>1. ddr_write_q' = ddr_write_q
        BY <1>7, <3>2
      <4> QED
        BY <3>1, <3>2, <4>1
    <3>3. CASE d # c
      <4>1. beat /\ d = c + 1 /\ ddr_write_q' = Append(ddr_write_q, c) /\ c \in Txs
        BY <1>6, <1>7, <3>3
      <4>2. PICK m \in Nat : m = Len(ddr_write_q) /\ DOMAIN ddr_write_q = 1 .. m
        BY <1>4
      <4>3. /\ DOMAIN ddr_write_q' = 1 .. m + 1 /\ ddr_write_q'[m + 1] = c
            /\ \A j \in 1 .. m : ddr_write_q'[j] = ddr_write_q[j]
        BY <1>4, <4>1, <4>2
      <4>4. CASE i = m + 1
        BY <4>1, <4>3, <4>4
      <4>5. CASE i # m + 1
        <5>1. i \in 1 .. m
          BY <4>3, <4>5
        <5>2. ddr_write_q'[i] < c /\ ddr_write_q'[i] \in Nat
          BY <3>1, <4>2, <4>3, <5>1
        <5> QED
          BY <1>9, <5>2
      <4> QED
        BY <4>4, <4>5
    <3> QED
      BY <3>2, <3>3
  <2> HIDE DEF d, l
  <2> QED
    BY <1>1, <1>9, <2>1, <2>2, <2>3 DEF Finished
<1>13. Stored'
  <2> SUFFICES ASSUME NEW t \in Txs
               PROVE  written'[t] = IF t < d THEN [i \in 1 .. burst[t].len |-> <<t, i - 1>>]
                                    ELSE IF t = d THEN [i \in 1 .. l |-> <<t, i - 1>>]
                                    ELSE <<>>
    <3> HIDE DEF d, l
    <3> QED
      BY <1>1, <1>7, <1>9 DEF DInv, Stored, DataIntact
  <2>1. written[t] = IF t < c THEN [i \in 1 .. burst[t].len |-> <<t, i - 1>>]
                     ELSE IF t = c THEN [i \in 1 .. k |-> <<t, i - 1>>]
                     ELSE <<>>
    BY <1>2 DEF DInv, Stored, DataIntact
  <2>2. t \in Nat
    BY DEF Txs
  <2>3. CASE ~beat
    BY <1>7, <2>1, <2>3
  <2>4. CASE beat /\ t = c
    <3>1. written'[c] = Append(written[c], <<c, k>>)
      <4>1. c \in DOMAIN written
        BY <1>6, <2>4 DEF DInv, Stored
      <4> QED
        BY <1>7, <2>4, <4>1
    <3>2. written'[t] = Append([i \in 1 .. k |-> <<t, i - 1>>], <<t, k>>)
      BY <2>1, <2>2, <2>4, <3>1
    <3>3. written'[t] = [i \in 1 .. k + 1 |-> <<t, i - 1>>]
      BY <3>2, OneMoreBeat
    <3>4. CASE k + 1 = burst[c].len
      <4>1. d = c + 1
        BY <2>4, <3>4
      <4>2. t < d
        BY <2>2, <2>4, <4>1
      <4> HIDE DEF d, l
      <4> QED
        BY <2>4, <3>3, <3>4, <4>2
    <3>5. CASE k + 1 # burst[c].len
      <4>1. d = c /\ l = k + 1
        BY <2>4, <3>5
      <4> HIDE DEF d, l
      <4> QED
        BY <2>2, <2>4, <3>3, <4>1
    <3> QED
      BY <3>4, <3>5
  <2>5. CASE beat /\ t # c
    <3>1. written'[t] = written[t]
      BY <1>7, <2>5 DEF DInv, Stored
    <3>2. (t < d <=> t < c) \/ (t = c)
      BY <1>9, <2>2
    <3>3. CASE d = c
      BY <2>1, <2>5, <3>1, <3>3
    <3>4. CASE d = c + 1
      <4>1. t = d => l = 0
        BY <3>4
      <4>2. [i \in 1 .. 0 |-> <<t, i - 1>>] = <<>>
        OBVIOUS
      <4> QED
        BY <2>1, <2>2, <2>5, <3>1, <3>4, <4>1, <4>2
    <3> QED
      BY <3>3, <3>4
  <2> QED
    BY <2>3, <2>4, <2>5
<1>14. OneResponsePerBurst'
  <2> SUFFICES ASSUME NEW i \in Ids
               PROVE  Count(to_enqueue', i) + Count(send_ids', i) + Count(acked', i)
                        = Cardinality(Answerable(i)')
    BY DEF OneResponsePerBurst, Answerable, Count
  <2>1. Count(to_enqueue, i) + Count(send_ids, i) + Count(acked, i) = Cardinality(Answerable(i))
    BY DEF DInv, OneResponsePerBurst, Answerable
  <2>2. Answerable(i)' = Answerable(i)
    <3>1. \A t \in Txs : progress[t] <= 0 => (d > t <=> c > t)
      <4> SUFFICES ASSUME NEW t \in Txs, progress[t] <= 0 PROVE d > t <=> c > t
        OBVIOUS
      <4>1. ~(t >= c)
        BY <1>2 DEF DInv, Finished
      <4> QED
        BY <1>9, <4>1 DEF Txs
    <3> HIDE DEF d, l
    <3> QED
      BY <1>1, <1>2, <1>9, <3>1 DEF Answerable, Complete
  <2> DEFINE taken == b_valid /\ b_ready
             left == IF taken THEN Tail(send_ids) ELSE send_ids
             x == IF taken /\ Head(send_ids) = i THEN 1 ELSE 0
             y == IF to_enqueue # <<>> /\ Head(to_enqueue) = i THEN 1 ELSE 0
  <2>3. /\ acked' = (IF taken THEN Append(acked, Head(send_ids)) ELSE acked)
        /\ send_ids' = (IF to_enqueue # <<>> THEN Append(left, Head(to_enqueue)) ELSE left)
        /\ to_enqueue' = (IF to_enqueue # <<>> THEN Tail(to_enqueue) ELSE to_enqueue)
    BY <1>1 DEF BChannel
  <2>4. taken => send_ids # <<>> /\ Head(send_ids) \in Ids
    BY <1>4, HeadTailProperties DEF IInv, InFlightExact
  <2>5. Count(to_enqueue, i) \in Nat /\ Count(send_ids, i) \in Nat /\ Count(acked, i) \in Nat
    BY <1>4, CountFinite
  <2>6. Count(acked', i) = Count(acked, i) + x
    <3>1. CASE taken
      <4>1. Count(acked', i) = Count(acked, i) + (IF Head(send_ids) = i THEN 1 ELSE 0)
        BY <1>4, <2>3, <2>4, <3>1, CountAppend
      <4> QED
        BY <3>1, <4>1
    <3>2. CASE ~taken
      BY <2>3, <2>5, <3>2
    <3> QED
      BY <3>1, <3>2
  <2>7. left \in Seq(Ids) /\ Count(left, i) = Count(send_ids, i) - x
    <3>1. CASE taken
      <4>1. Count(Tail(send_ids), i) = Count(send_ids, i) - (IF Head(send_ids) = i THEN 1 ELSE 0)
        BY <1>4, <2>4, <3>1, CountTail
      <4>2. Tail(send_ids) \in Seq(Ids)
        BY <1>4, <2>4, <3>1, HeadTailProperties
      <4> QED
        BY <3>1, <4>1, <4>2
    <3>2. CASE ~taken
      BY <1>4, <2>5, <3>2
    <3> QED
      BY <3>1, <3>2
  <2> HIDE DEF left
  <2>8. /\ Count(send_ids', i) = Count(left, i) + y
        /\ Count(to_enqueue', i) = Count(to_enqueue, i) - y
    <3>1. CASE to_enqueue # <<>>
      <4>1. Head(to_enqueue) \in Ids
        BY <1>4, <3>1, HeadTailProperties
      <4>2. Count(Append(left, Head(to_enqueue)), i)
              = Count(left, i) + (IF Head(to_enqueue) = i THEN 1 ELSE 0)
        BY <2>7, <4>1, CountAppend
      <4>3. Count(Tail(to_enqueue), i) = Count(to_enqueue, i) - (IF Head(to_enqueue) = i THEN 1 ELSE 0)
        BY <1>4, <3>1, CountTail
      <4> QED
        BY <2>3, <3>1, <4>2, <4>3
    <3>2. CASE to_enqueue = <<>>
      BY <2>3, <2>5, <2>7, <3>2
    <3> QED
      BY <3>1, <3>2
  <2>9. x \in Int /\ y \in Int
    OBVIOUS
  <2> HIDE DEF x, y
  <2> QED
    BY <2>1, <2>2, <2>5, <2>6, <2>7, <2>8, <2>9
<1> QED
  BY <1>10, <1>11, <1>12, <1>13, <1>14 DEF DInv

(* Every step preserves it.                                               *)
LEMMA NextDInv == IInv /\ DInv /\ [Next]_vars => DInv'
<1> SUFFICES ASSUME IInv, DInv, [Next]_vars PROVE DInv'
  OBVIOUS
<1>1. CASE AxiWrite
  BY <1>1, CycleDStep DEF AxiWrite
<1>2. CASE EnqueueSome
  BY <1>2, EnqueueDStep DEF EnqueueSome
<1>3. CASE \E b \in Blocks : WriteReturns(b)
  BY <1>3, ReturnDStep
<1>4. CASE UNCHANGED vars
  <2>1. UNCHANGED <<burst, issued, cursor, written, acked, write_transactions, ddr_write_q, progress,
                    in_flight_writes, send_ids, to_enqueue>>
    BY <1>4 DEF vars, master, queues, memory, channels
  <2> QED
    BY <2>1 DEF DInv, Cursor, Waiting, Finished, Stored, DataIntact, OneResponsePerBurst, Complete,
                Count
<1> QED
  BY <1>1, <1>2, <1>3, <1>4 DEF Next

(* What is stored and answered is so in every reachable state.            *)
THEOREM DataInvariance == Spec => []DInv
  BY Invariance, InitDInv, NextDInv, PTL DEF Spec

(* Every data beat taken is stored with the burst it belongs to, in       *)
(* order, and none is thrown away, although w_ready is recomputed only on *)
(* some paths of the cycle (tick.cc:143-187).                             *)
THEOREM DataKept == Spec => []DataIntact
<1>1. DInv => DataIntact
  BY DEF DInv, Stored
<1> QED
  BY <1>1, DataInvariance, PTL

(* Each burst is answered once, with its own ID and only when it is       *)
(* complete, whatever order DRAMsim3 writes its blocks in.                *)
THEOREM ResponsesCounted == Spec => []OneResponsePerBurst
<1>1. DInv => OneResponsePerBurst
  BY DEF DInv
<1> QED
  BY <1>1, DataInvariance, PTL
=============================================================================
