---------------------------- MODULE MemReadProofs ----------------------------
(***************************************************************************)
(* For every number of IDs, blocks and bursts and every queue length: the *)
(* read side of the memory model finds the burst each returned block is   *)
(* for, never queues more bursts than it may, and delivers the beats of   *)
(* every burst in order, whatever order DRAMsim3 answers in.              *)
(***************************************************************************)
EXTENDS MemRead, SequenceTheorems, FiniteSetTheorems, TLAPS

Items == [t : Nat, beat : Nat, last : BOOLEAN]

(* The bursts accepted so far.                                            *)
Started == 1 .. issued

TxRecords == [id : Ids, base : Blocks, len : Lens, enqueued : Nat,
              retrieved : SUBSET Int, beats : Nat]

(* The positions up to n at which a beat of burst t left.                 *)
Upto(s, n, t) == {j \in 1 .. n : s[j].t = t}

Bursts ==
  /\ issued \in 0 .. MaxReads
  /\ tx \in [Started -> TxRecords]

Queues ==
  /\ ddr_read_q \in Seq(Started)
  /\ in_flight_reads \in [Blocks -> Seq(Started)]
  /\ dram \in [Blocks -> Nat]

(* ar_ready is up only while another burst fits.                          *)
Admission == ar_ready => Len(ddr_read_q) < max_q_length

RChannel ==
  /\ delivered \in Seq(Items) /\ read_transactions \in Seq(Items)
  /\ r_valid => read_transactions # <<>>

(* The blocks of the beats that left have arrived, where they are fetched. *)
Arrived ==
  \A t \in Started : \A k \in 0 .. tx[t].beats - 1 :
    k >= Fetched(tx[t].len) \/ k \div BeatsPerBlock \in tx[t].retrieved

(* axi_bus_beats_progress counts the beats that left.                     *)
Counted ==
  \A t \in Started : Cardinality(Upto(Sent, Len(Sent), t)) = tx[t].beats

Numbered ==
  \A i \in 1 .. Len(Sent) :
    /\ Sent[i].t \in Started
    /\ Sent[i].beat = Cardinality(Upto(Sent, i - 1, Sent[i].t))
    /\ Sent[i].beat < tx[Sent[i].t].beats
    /\ Sent[i].beat < tx[Sent[i].t].len
    /\ Sent[i].last = (Sent[i].beat = tx[Sent[i].t].len - 1)

IInv == /\ Bursts /\ Queues /\ CallbackHasOwner /\ QueueBounded /\ Admission
        /\ RChannel /\ Arrived /\ Counted /\ Numbered

-----------------------------------------------------------------------------
(* A burst shorter than a block is fetched as one block.                  *)
LEMMA FetchedOrOwed ==
  ASSUME NEW len \in Nat \ {0}
  PROVE  /\ Owed(len) \in Nat \ {0} /\ Fetched(len) \in Nat
         /\ len < BeatsPerBlock => Owed(len) = len /\ Fetched(len) = BeatsPerBlock
         /\ len >= BeatsPerBlock => Owed(len) = Fetched(len)
<1> USE SizesArePositive
<1>1. CASE len < BeatsPerBlock
  <2>1. len \div BeatsPerBlock = 0
    BY <1>1
  <2> QED
    BY <1>1, <2>1 DEF Owed, Fetched, NEnqueues
<1>2. CASE len >= BeatsPerBlock
  <2>1. len \div BeatsPerBlock \in Nat \ {0}
    BY <1>2
  <2>2. (len \div BeatsPerBlock) * BeatsPerBlock \in Nat \ {0}
    BY <2>1
  <2> QED
    BY <1>2, <2>1, <2>2 DEF Owed, Fetched, NEnqueues
<1> QED
  BY <1>1, <1>2

(* A function on 1 .. m is a sequence of length m.                        *)
LEMMA FunctionIsSeq == ASSUME NEW S, NEW m \in Nat, NEW f \in [1 .. m -> S]
                       PROVE  f \in Seq(S) /\ Len(f) = m
  OBVIOUS

(* Counting the beats of each burst when more beats of burst t leave.     *)
LEMMA CountMore ==
  ASSUME NEW s \in Seq(Items), NEW o \in Seq(Items), NEW t \in Nat,
         \A k \in 1 .. Len(o) : o[k].t = t
  PROVE  /\ \A n \in 0 .. Len(s) : \A u : Upto(s \o o, n, u) = Upto(s, n, u)
         /\ \A k \in 0 .. Len(o) : Cardinality(Upto(s \o o, Len(s) + k, t))
                                     = Cardinality(Upto(s, Len(s), t)) + k
         /\ \A u : u # t => Upto(s \o o, Len(s) + Len(o), u) = Upto(s, Len(s), u)
<1>1. Len(s) \in Nat /\ Len(o) \in Nat
  OBVIOUS
<1>2. \A i \in 1 .. Len(s) : (s \o o)[i] = s[i]
  BY <1>1, ConcatProperties
<1>3. \A i \in Len(s) + 1 .. Len(s) + Len(o) : (s \o o)[i].t = t
  <2> TAKE i \in Len(s) + 1 .. Len(s) + Len(o)
  <2>1. i - Len(s) \in 1 .. Len(o) /\ i \in 1 .. Len(s) + Len(o) /\ ~(i <= Len(s))
    BY <1>1
  <2>2. (s \o o)[i] = o[i - Len(s)]
    BY <2>1, ConcatProperties
  <2> QED
    BY <2>1, <2>2
<1>4. \A n \in 0 .. Len(s) : \A u : Upto(s \o o, n, u) = Upto(s, n, u)
  BY <1>1, <1>2 DEF Upto
<1>5. ASSUME NEW k \in 0 .. Len(o)
      PROVE  Cardinality(Upto(s \o o, Len(s) + k, t)) = Cardinality(Upto(s, Len(s), t)) + k
  <2> DEFINE A == Upto(s, Len(s), t)
             B == Len(s) + 1 .. Len(s) + k
  <2>1. Upto(s \o o, Len(s) + k, t) = A \cup B
    BY <1>1, <1>2, <1>3 DEF Upto
  <2>2. A \cap B = {} /\ A \subseteq 1 .. Len(s)
    BY <1>1 DEF Upto
  <2>3. IsFiniteSet(A)
    <3>1. IsFiniteSet(1 .. Len(s))
      BY <1>1, FS_Interval
    <3> QED
      BY <2>2, <3>1, FS_Subset
  <2>4. IsFiniteSet(B) /\ Cardinality(B) = k
    <3>1. Len(s) + 1 \in Int /\ Len(s) + k \in Int /\ k \in Nat
      BY <1>1
    <3>2. /\ IsFiniteSet(B)
          /\ Cardinality(B) = IF Len(s) + 1 > Len(s) + k THEN 0 ELSE (Len(s) + k) - (Len(s) + 1) + 1
      BY <3>1, FS_Interval
    <3> HIDE DEF B
    <3> QED
      BY <1>1, <3>1, <3>2
  <2>5. Cardinality(A) \in Nat
    BY <2>3, FS_CardinalityType
  <2> HIDE DEF A, B
  <2>6. Cardinality(A \cup B) = Cardinality(A) + Cardinality(B) - Cardinality(A \cap B)
    BY <2>3, <2>4, FS_Union
  <2>7. Cardinality(A \cap B) = 0
    BY <2>2, FS_EmptySet
  <2>8. Cardinality(A \cup B) = Cardinality(A) + k
    BY <2>4, <2>5, <2>6, <2>7
  <2> QED
    BY <2>1, <2>8 DEF A
<1>6. \A u : u # t => Upto(s \o o, Len(s) + Len(o), u) = Upto(s, Len(s), u)
  BY <1>1, <1>2, <1>3 DEF Upto
<1> QED
  BY <1>4, <1>5, <1>6

-----------------------------------------------------------------------------
(* The initial state satisfies the inductive invariant.                   *)
LEMMA InitIInv == Init => IInv
<1> SUFFICES ASSUME Init PROVE IInv
  OBVIOUS
<1> USE SizesArePositive
<1>1. Bursts
  <2>1. issued = 0 /\ Started = {} /\ tx = [t \in {} |-> {}]
    BY DEF Init, Started
  <2> QED
    BY <2>1 DEF Bursts
<1>2. Queues /\ CallbackHasOwner
  BY DEF Init, Queues, CallbackHasOwner
<1>3. QueueBounded /\ Admission
  BY DEF Init, QueueBounded, Admission
<1>4. RChannel
  BY DEF Init, RChannel
<1>5. Sent = <<>> /\ Len(Sent) = 0 /\ Started = {}
  BY DEF Init, Sent, Started
<1>6. Arrived /\ Counted /\ Numbered
  BY <1>5 DEF Arrived, Counted, Numbered
<1> QED
  BY <1>1, <1>2, <1>3, <1>4, <1>6 DEF IInv

(* try_to_enqueue_ddr: the block that is sent has the burst it was sent   *)
(* for as its last owner.                                                 *)
LEMMA EnqueueStep == ASSUME IInv, NEW accepts \in SUBSET Blocks, TryToEnqueueRead(accepts)
                     PROVE  IInv'
<1> USE SizesArePositive DEF IInv
<1>1. PICK i \in Oldest(Candidates(accepts)) :
        LET t == ddr_read_q[i]
            b == NextBlock(t)
        IN  /\ dram' = [dram EXCEPT ![b] = @ + 1]
            /\ in_flight_reads' = [in_flight_reads EXCEPT ![b] = WithOwner(@, t)]
            /\ tx' = [tx EXCEPT ![t].enqueued = @ + 1]
            /\ ddr_read_q' = IF TxFinished(t, tx[t].enqueued + 1)
                             THEN SubSeq(ddr_read_q, 1, i - 1)
                                    \o SubSeq(ddr_read_q, i + 1, Len(ddr_read_q))
                             ELSE ddr_read_q
  BY DEF TryToEnqueueRead
<1>2. UNCHANGED <<issued, read_transactions, r_valid, ar_ready, delivered>>
      /\ Started' = Started /\ Sent' = Sent
  BY DEF TryToEnqueueRead, Started, Sent
<1> DEFINE t == ddr_read_q[i]
           b == NextBlock(t)
<1>3. i \in 1 .. Len(ddr_read_q) /\ t \in Started /\ b \in Blocks
  <2>1. i \in DOMAIN ddr_read_q /\ b \in accepts
    BY DEF Oldest, Candidates
  <2> QED
    BY <2>1, ElementOfSeq, LenProperties DEF Queues
<1>4. Bursts'
  <2>1. tx[t] \in TxRecords
    BY <1>3 DEF Bursts
  <2>2. [tx[t] EXCEPT !.enqueued = @ + 1] \in TxRecords
    BY <2>1 DEF TxRecords
  <2>3. tx' = [tx EXCEPT ![t] = [tx[t] EXCEPT !.enqueued = @ + 1]]
    BY <1>1
  <2> QED
    BY <1>2, <1>3, <2>2, <2>3 DEF Bursts, Started
<1>5. \A u \in Started : /\ tx'[u].len = tx[u].len /\ tx'[u].beats = tx[u].beats
                             /\ tx'[u].retrieved = tx[u].retrieved
  BY <1>1, <1>3 DEF Bursts, TxRecords
<1>6. ddr_read_q' \in Seq(Started) /\ Len(ddr_read_q') <= Len(ddr_read_q)
  <2>1. \A k \in 1 .. Len(ddr_read_q) : ddr_read_q[k] \in Started
    BY ElementOfSeq DEF Queues
  <2>2. Len(ddr_read_q) \in Nat
    BY DEF Queues
  <2> DEFINE p == SubSeq(ddr_read_q, 1, i - 1)
             r == SubSeq(ddr_read_q, i + 1, Len(ddr_read_q))
  <2>3. p \in Seq(Started) /\ Len(p) = i - 1
    <3>1. \A k \in 1 .. i - 1 : ddr_read_q[k] \in Started
      BY <1>3, <2>1, <2>2
    <3> QED
      BY <1>3, <3>1, SubSeqProperties
  <2>4. r \in Seq(Started) /\ Len(r) = Len(ddr_read_q) - i
    <3>1. \A k \in i + 1 .. Len(ddr_read_q) : ddr_read_q[k] \in Started
      BY <1>3, <2>1, <2>2
    <3> QED
      BY <1>3, <2>2, <3>1, SubSeqProperties
  <2> HIDE DEF p, r
  <2>5. p \o r \in Seq(Started) /\ Len(p \o r) = Len(p) + Len(r)
    BY <2>3, <2>4, ConcatProperties
  <2>6. Len(p) + Len(r) = Len(ddr_read_q) - 1
    BY <1>3, <2>2, <2>3, <2>4
  <2>7. ddr_read_q' = p \o r \/ ddr_read_q' = ddr_read_q
    BY <1>1 DEF p, r
  <2>8. CASE ddr_read_q' = p \o r
    BY <2>2, <2>5, <2>6, <2>8
  <2>9. CASE ddr_read_q' = ddr_read_q
    BY <2>2, <2>9 DEF Queues
  <2> QED
    BY <2>7, <2>8, <2>9
<1>7. Queues' /\ CallbackHasOwner'
  <2>1. Append(in_flight_reads[b], t) \in Seq(Started)
        /\ Len(Append(in_flight_reads[b], t)) = Len(in_flight_reads[b]) + 1
    BY <1>3, AppendProperties DEF Queues
  <2>2. in_flight_reads' = [in_flight_reads EXCEPT ![b] = Append(in_flight_reads[b], t)]
        /\ dram' = [dram EXCEPT ![b] = dram[b] + 1]
    BY <1>1 DEF WithOwner
  <2> HIDE DEF t, b
  <2>3. in_flight_reads' \in [Blocks -> Seq(Started)] /\ dram' \in [Blocks -> Nat]
    BY <1>3, <2>1, <2>2 DEF Queues
  <2>4. CallbackHasOwner'
    BY <1>3, <2>1, <2>2 DEF Queues, CallbackHasOwner
  <2> QED
    BY <1>2, <1>6, <2>3, <2>4 DEF Queues
<1>8. QueueBounded' /\ Admission'
  <2>1. Len(ddr_read_q) \in Nat /\ Len(ddr_read_q') \in Nat
    BY <1>6 DEF Queues
  <2> QED
    BY <1>2, <1>6, <2>1 DEF QueueBounded, Admission
<1>9. RChannel' /\ Arrived' /\ Counted'
  BY <1>2, <1>5 DEF RChannel, Arrived, Counted
<1>10. Numbered'
  BY <1>2, <1>5 DEF Numbered
<1> QED
  BY <1>4, <1>7, <1>8, <1>9, <1>10

(* The read callback: the beats it releases follow the ones that left.    *)
LEMMA ReturnStep == ASSUME IInv, NEW b \in Blocks, ReadReturns(b)
                    PROVE  IInv'
<1> USE SizesArePositive DEF IInv
<1> DEFINE t == Head(in_flight_reads[b])
           x == [tx[t] EXCEPT !.retrieved = @ \cup {b - tx[t].base}]
<1>1. PICK n \in BeatsReady(x) :
        /\ tx' = [tx EXCEPT ![t] = [x EXCEPT !.beats = n]]
        /\ read_transactions' = read_transactions \o
             [k \in 1 .. n - x.beats |->
               [t |-> t, beat |-> x.beats + k - 1, last |-> IsLast(x, x.beats + k - 1)]]
  BY DEF ReadReturns
<1>2. /\ dram[b] > 0 /\ dram' = [dram EXCEPT ![b] = @ - 1]
      /\ in_flight_reads' = [in_flight_reads EXCEPT ![b] = Tail(@)]
      /\ UNCHANGED <<issued, ddr_read_q, r_valid, ar_ready, delivered>>
      /\ Started' = Started
  BY DEF ReadReturns, Started
<1>3. /\ t \in Started /\ in_flight_reads[b] # <<>>
      /\ Tail(in_flight_reads[b]) \in Seq(Started)
      /\ Len(Tail(in_flight_reads[b])) = Len(in_flight_reads[b]) - 1
  <2>1. in_flight_reads[b] \in Seq(Started) /\ Len(in_flight_reads[b]) = dram[b]
    BY DEF Queues, CallbackHasOwner
  <2>2. in_flight_reads[b] # <<>>
    BY <1>2, <2>1
  <2> QED
    BY <2>1, <2>2, HeadTailProperties
<1>4. /\ tx[t] \in TxRecords
      /\ tx[t].base \in Int /\ tx[t].len \in Nat \ {0} /\ tx[t].beats \in Nat
      /\ issued \in Nat /\ t \in Nat
  <2>1. tx[t] \in TxRecords /\ issued \in Nat /\ t \in Nat
    BY <1>3 DEF Bursts, Started
  <2>2. tx[t].base \in Int
    BY <2>1 DEF TxRecords, Blocks
  <2>3. tx[t].len \in Nat \ {0} /\ tx[t].beats \in Nat
    BY <2>1 DEF TxRecords
  <2> QED
    BY <2>1, <2>2, <2>3
<1>5. /\ x \in TxRecords
      /\ x.beats = tx[t].beats /\ x.len = tx[t].len /\ tx[t].retrieved \subseteq x.retrieved
  <2>1. b - tx[t].base \in Int
    BY <1>4 DEF Blocks
  <2> QED
    BY <1>4, <2>1 DEF TxRecords
<1> DEFINE m == n - x.beats
           o == [k \in 1 .. m |->
                  [t |-> t, beat |-> x.beats + k - 1, last |-> IsLast(x, x.beats + k - 1)]]
<1>6. n \in Nat /\ x.beats <= n /\ n <= x.len /\ m \in Nat
      /\ \A k \in x.beats .. n - 1 : k >= Fetched(x.len) \/ k \div BeatsPerBlock \in x.retrieved
  <2>1. x.beats \in Nat /\ x.len \in Nat
    BY <1>4, <1>5
  <2> HIDE DEF x
  <2>2. /\ n \in x.beats .. x.len
        /\ \A k \in x.beats .. n - 1 : k >= Fetched(x.len) \/ k \div BeatsPerBlock \in x.retrieved
    BY DEF BeatsReady
  <2>3. n \in Nat /\ x.beats <= n /\ n <= x.len /\ m \in Nat
    BY <2>1, <2>2
  <2> QED
    BY <2>2, <2>3
<1>7. o \in Seq(Items) /\ Len(o) = m
      /\ \A k \in 1 .. m : o[k].t = t /\ o[k].beat = x.beats + k - 1
                           /\ o[k].last = (o[k].beat = x.len - 1)
  <2>1. ASSUME NEW k \in 1 .. m
        PROVE  [t |-> t, beat |-> x.beats + k - 1, last |-> IsLast(x, x.beats + k - 1)] \in Items
    <3>1. x.beats + k - 1 \in Nat /\ t \in Nat
      <4>1. x.beats \in Nat /\ k \in Nat \ {0}
        BY <1>4, <1>5, <1>6
      <4> QED
        BY <1>4, <4>1
    <3>2. IsLast(x, x.beats + k - 1) \in BOOLEAN
      BY DEF IsLast
    <3> HIDE DEF x, t
    <3> QED
      BY <3>1, <3>2 DEF Items
  <2>2. o \in [1 .. m -> Items]
    BY <2>1
  <2>3. \A k \in 1 .. m : o[k] = [t |-> t, beat |-> x.beats + k - 1,
                                  last |-> IsLast(x, x.beats + k - 1)]
    OBVIOUS
  <2> HIDE DEF o
  <2>4. o \in Seq(Items) /\ Len(o) = m
    BY <1>6, <2>2, FunctionIsSeq
  <2>5. \A k \in 1 .. m : o[k].t = t /\ o[k].beat = x.beats + k - 1
                           /\ o[k].last = IsLast(x, x.beats + k - 1)
    <3> TAKE k \in 1 .. m
    <3>1. o[k] = [t |-> t, beat |-> x.beats + k - 1, last |-> IsLast(x, x.beats + k - 1)]
      BY <2>3
    <3> HIDE DEF x, t, m
    <3> QED
      BY <3>1
  <2> QED
    BY <2>4, <2>5 DEF IsLast
<1> HIDE DEF o
<1>8. read_transactions' = read_transactions \o o
  BY <1>1 DEF o
<1> DEFINE y == [x EXCEPT !.beats = n]
<1>y. y \in TxRecords /\ y.beats = n /\ y.len = x.len /\ y.retrieved = x.retrieved
  <2> HIDE DEF x
  <2> QED
    BY <1>5, <1>6 DEF TxRecords
<1>z. tx' = [tx EXCEPT ![t] = y]
  BY <1>1
<1> HIDE DEF x, t, m, y
<1>9. Bursts'
  BY <1>2, <1>3, <1>y, <1>z DEF Bursts
<1>10. /\ \A u \in Started : tx'[u].len = tx[u].len
       /\ \A u \in (Started) \ {t} : tx'[u] = tx[u]
       /\ tx'[t].beats = n /\ tx'[t].retrieved = x.retrieved
  BY <1>3, <1>5, <1>y, <1>z DEF Bursts
<1>11. Queues' /\ CallbackHasOwner' /\ QueueBounded' /\ Admission'
  <2>1. in_flight_reads' \in [Blocks -> Seq(Started)] /\ dram' \in [Blocks -> Nat]
    BY <1>2, <1>3 DEF Queues
  <2>2. CallbackHasOwner'
    BY <1>2, <1>3 DEF Queues, CallbackHasOwner
  <2> QED
    BY <1>2, <2>1, <2>2 DEF Queues, QueueBounded, Admission
<1>12. /\ Sent \in Seq(Items) /\ Sent' = Sent \o o /\ Sent' \in Seq(Items)
       /\ Len(Sent') = Len(Sent) + m /\ Len(Sent) \in Nat
  <2>1. delivered \in Seq(Items) /\ read_transactions \in Seq(Items) /\ o \in Seq(Items)
    BY <1>7 DEF RChannel
  <2>2. Sent \in Seq(Items)
    BY <2>1, ConcatProperties DEF Sent
  <2>3. Sent' = Sent \o o
    <3>1. Sent' = delivered \o (read_transactions \o o)
      BY <1>2, <1>8 DEF Sent
    <3> QED
      BY <2>1, <3>1, ConcatAssociative DEF Sent
  <2>4. Sent \o o \in Seq(Items) /\ Len(Sent \o o) = Len(Sent) + Len(o)
    BY <2>1, <2>2, ConcatProperties
  <2>5. Len(Sent) \in Nat
    BY <2>2, LenProperties
  <2> QED
    BY <1>7, <2>2, <2>3, <2>4, <2>5
<1>13. RChannel'
  <2>1. read_transactions \o o \in Seq(Items)
        /\ (read_transactions # <<>> => read_transactions \o o # <<>>)
    BY <1>7, ConcatProperties, ConcatEqualIffEmpty DEF RChannel
  <2> QED
    BY <1>2, <1>8, <2>1 DEF RChannel
<1>14. Arrived'
  <2> SUFFICES ASSUME NEW u \in Started, NEW k \in 0 .. tx'[u].beats - 1
               PROVE  k >= Fetched(tx'[u].len) \/ k \div BeatsPerBlock \in tx'[u].retrieved
    <3>1. \A u \in Started : Fetched(tx[u].len)' = Fetched(tx'[u].len)
      BY DEF Fetched, NEnqueues
    <3> QED
      BY <1>2, <3>1 DEF Arrived
  <2>1. CASE u # t
    BY <1>10, <2>1 DEF Arrived
  <2>2. CASE u = t /\ k \in 0 .. tx[t].beats - 1
    BY <1>5, <1>10, <2>2 DEF Arrived
  <2>3. CASE u = t /\ k \in x.beats .. n - 1
    BY <1>5, <1>6, <1>10, <2>3
  <2> QED
    BY <1>4, <1>5, <1>6, <1>10, <2>1, <2>2, <2>3
<1>15. /\ \A i \in 0 .. Len(Sent) : \A u : Upto(Sent', i, u) = Upto(Sent, i, u)
       /\ \A k \in 0 .. m : Cardinality(Upto(Sent', Len(Sent) + k, t))
                              = Cardinality(Upto(Sent, Len(Sent), t)) + k
       /\ \A u : u # t => Upto(Sent', Len(Sent) + m, u) = Upto(Sent, Len(Sent), u)
  <2>1. t \in Nat /\ \A k \in 1 .. Len(o) : o[k].t = t
    BY <1>3, <1>4, <1>7
  <2>2. o \in Seq(Items) /\ Len(o) = m
    BY <1>7
  <2>3. /\ \A i \in 0 .. Len(Sent) : \A u : Upto(Sent \o o, i, u) = Upto(Sent, i, u)
        /\ \A k \in 0 .. Len(o) : Cardinality(Upto(Sent \o o, Len(Sent) + k, t))
                                     = Cardinality(Upto(Sent, Len(Sent), t)) + k
        /\ \A u : u # t => Upto(Sent \o o, Len(Sent) + Len(o), u) = Upto(Sent, Len(Sent), u)
    BY <1>12, <2>1, <2>2, CountMore
  <2> QED
    BY <1>12, <2>2, <2>3
<1>16. Counted'
  <2>1. Cardinality(Upto(Sent', Len(Sent'), t)) = n
    <3>1. Cardinality(Upto(Sent, Len(Sent), t)) = tx[t].beats
      BY <1>3 DEF Counted
    <3>2. Cardinality(Upto(Sent', Len(Sent) + m, t)) = tx[t].beats + m
      <4>1. m \in 0 .. m
        BY <1>6
      <4> QED
        BY <1>15, <3>1, <4>1
    <3>3. tx[t].beats + m = n
      BY <1>4, <1>5, <1>6 DEF m
    <3> QED
      BY <1>12, <3>2, <3>3
  <2>2. \A u \in Started : u # t => Cardinality(Upto(Sent', Len(Sent'), u)) = tx'[u].beats
    BY <1>10, <1>12, <1>15 DEF Counted
  <2>3. \A u \in Started : Cardinality(Upto(Sent', Len(Sent'), u)) = tx'[u].beats
    BY <1>10, <2>1, <2>2
  <2>4. Counted' <=> \A u \in Started' : Cardinality(Upto(Sent', Len(Sent'), u)) = tx'[u].beats
    BY DEF Counted, Upto
  <2> QED
    BY <1>2, <2>3, <2>4
<1>17. Numbered'
  <2> SUFFICES ASSUME NEW i \in 1 .. Len(Sent')
               PROVE  /\ Sent'[i].t \in Started
                      /\ Sent'[i].beat = Cardinality(Upto(Sent', i - 1, Sent'[i].t))
                      /\ Sent'[i].beat < tx'[Sent'[i].t].beats
                      /\ Sent'[i].beat < tx'[Sent'[i].t].len
                      /\ Sent'[i].last = (Sent'[i].beat = tx'[Sent'[i].t].len - 1)
    BY <1>2 DEF Numbered, Upto
  <2>1. CASE i \in 1 .. Len(Sent)
    <3>1. Sent'[i] = Sent[i]
      BY <1>7, <1>12, <2>1, ConcatProperties
    <3>2. Upto(Sent', i - 1, Sent[i].t) = Upto(Sent, i - 1, Sent[i].t)
      <4>1. i - 1 \in 0 .. Len(Sent)
        BY <1>12, <2>1
      <4> QED
        BY <1>15, <4>1
    <3>3. Sent[i].t \in Started /\ Sent[i] \in Items
      BY <1>12, <2>1 DEF Numbered
    <3>4. tx[Sent[i].t].beats <= tx'[Sent[i].t].beats /\ tx[Sent[i].t].beats \in Nat
          /\ tx'[Sent[i].t].beats \in Nat
      <4>1. tx[Sent[i].t].beats \in Nat
        BY <3>3 DEF Bursts, TxRecords
      <4>2. CASE Sent[i].t = t
        BY <1>5, <1>6, <1>10, <4>1, <4>2
      <4>3. CASE Sent[i].t # t
        <5>1. tx'[Sent[i].t] = tx[Sent[i].t]
          BY <1>10, <3>3, <4>3
        <5> QED
          BY <4>1, <5>1
      <4> QED
        BY <4>2, <4>3
    <3>5. Sent[i].beat < tx'[Sent[i].t].beats
      BY <2>1, <3>3, <3>4 DEF Numbered, Items
    <3> QED
      BY <1>10, <2>1, <3>1, <3>2, <3>3, <3>5 DEF Numbered
  <2>2. CASE i \notin 1 .. Len(Sent)
    <3> DEFINE k == i - Len(Sent)
    <3>1. k \in 1 .. m /\ i = Len(Sent) + k /\ ~(i <= Len(Sent))
      <4>1. i \in Int /\ 1 <= i /\ i <= Len(Sent) + m /\ Len(Sent) \in Nat /\ ~(i <= Len(Sent))
        BY <1>12, <2>2
      <4> QED
        BY <1>6, <4>1
    <3>2. Sent'[i] = o[k]
      BY <1>7, <1>12, <3>1, ConcatProperties
    <3>3. Sent'[i].t = t /\ Sent'[i].beat = x.beats + k - 1
          /\ Sent'[i].last = (Sent'[i].beat = x.len - 1)
      BY <1>7, <3>1, <3>2
    <3>4. Cardinality(Upto(Sent', i - 1, t)) = Cardinality(Upto(Sent, Len(Sent), t)) + (k - 1)
      <4>1. k - 1 \in 0 .. m /\ i - 1 = Len(Sent) + (k - 1)
        <5> HIDE DEF k
        <5>1. k \in 1 .. m /\ i = Len(Sent) + k /\ Len(Sent) \in Nat /\ m \in Nat
          BY <1>6, <1>12, <3>1
        <5> HIDE DEF m
        <5> QED
          BY <5>1
      <4> QED
        BY <1>15, <4>1
    <3>5. Cardinality(Upto(Sent, Len(Sent), t)) = x.beats
      BY <1>3, <1>5 DEF Counted
    <3> HIDE DEF k
    <3>6. PICK p \in Nat, l \in Nat, d \in Nat : p = x.beats /\ l = x.len /\ d = m
      <4>1. x.beats \in Nat
        BY <1>5 DEF TxRecords
      <4>2. x.len \in Nat
        BY <1>5, SizesArePositive DEF TxRecords
      <4>3. m \in Nat
        BY <1>6
      <4> QED
        BY <4>1, <4>2, <4>3
    <3>7. d = n - p
      BY <3>6 DEF m
    <3>8. n \in Nat /\ n <= l
      BY <1>6, <3>6
    <3>9. k \in Nat /\ k <= d
      <4>1. k \in 1 .. d
        BY <3>1, <3>6
      <4> QED
        BY <3>6, <4>1
    <3>10. Sent'[i].beat < n /\ Sent'[i].beat < x.len
      <4>1. p + k - 1 < n /\ p + k - 1 < l
        <5> HIDE DEF m
        <5> QED
          BY <3>6, <3>7, <3>8, <3>9
      <4>2. Sent'[i].beat = p + k - 1
        BY <3>3, <3>6
      <4> QED
        BY <3>6, <4>1, <4>2
    <3>11. Sent'[i].beat = Cardinality(Upto(Sent', i - 1, t))
      <4>1. Sent'[i].beat = p + k - 1 /\ Cardinality(Upto(Sent', i - 1, t)) = p + (k - 1)
        BY <3>3, <3>4, <3>5, <3>6
      <4>2. p + k - 1 = p + (k - 1)
        BY <3>6, <3>9
      <4> QED
        BY <4>1, <4>2
    <3> QED
      BY <1>3, <1>5, <1>10, <3>3, <3>10, <3>11
  <2> QED
    BY <2>1, <2>2
<1> QED
  BY <1>9, <1>11, <1>13, <1>14, <1>16, <1>17

(* Taking the first beat of a queue moves it, and changes nothing in what *)
(* left so far.                                                           *)
LEMMA PopKeeps == ASSUME NEW S, NEW d \in Seq(S), NEW q \in Seq(S), q # <<>>
                  PROVE  /\ Append(d, Head(q)) \in Seq(S) /\ Tail(q) \in Seq(S)
                         /\ Append(d, Head(q)) \o Tail(q) = d \o q
<1>1. /\ Head(q) \in S /\ Head(q) = q[1] /\ Tail(q) \in Seq(S) /\ Len(Tail(q)) = Len(q) - 1
      /\ Len(q) \in Nat \ {0} /\ Len(d) \in Nat
      /\ \A i \in 1 .. Len(Tail(q)) : Tail(q)[i] = q[i + 1]
  BY HeadTailProperties
<1> DEFINE e == Append(d, Head(q))
           r == Tail(q)
<1>2. /\ e \in Seq(S) /\ Len(e) = Len(d) + 1 /\ e[Len(d) + 1] = q[1]
      /\ \A i \in 1 .. Len(d) : e[i] = d[i]
  BY <1>1, AppendProperties
<1> HIDE DEF e, r
<1>3. /\ e \o r \in Seq(S) /\ Len(e \o r) = Len(e) + Len(r)
      /\ \A i \in 1 .. Len(e) + Len(r) : (e \o r)[i] = IF i <= Len(e) THEN e[i] ELSE r[i - Len(e)]
  BY <1>1, <1>2, ConcatProperties DEF r
<1>4. /\ d \o q \in Seq(S) /\ Len(d \o q) = Len(d) + Len(q)
      /\ \A i \in 1 .. Len(d) + Len(q) : (d \o q)[i] = IF i <= Len(d) THEN d[i] ELSE q[i - Len(d)]
  BY ConcatProperties
<1>5. Len(e \o r) = Len(d \o q) /\ Len(e \o r) = Len(d) + Len(q)
  BY <1>1, <1>2, <1>3, <1>4 DEF r
<1>6. ASSUME NEW i \in 1 .. Len(e \o r) PROVE (e \o r)[i] = (d \o q)[i]
  <2>1. CASE i <= Len(d)
    BY <1>1, <1>2, <1>3, <1>4, <1>5, <2>1
  <2>2. CASE i = Len(d) + 1
    <3>1. (d \o q)[i] = q[1]
      BY <1>1, <1>4, <1>5, <2>2
    <3>2. (e \o r)[i] = e[i]
      BY <1>1, <1>2, <1>3, <1>5, <2>2
    <3> QED
      BY <1>2, <2>2, <3>1, <3>2
  <2>3. CASE i > Len(d) + 1
    <3>1. i - Len(e) \in 1 .. Len(r) /\ (i - Len(e)) + 1 = i - Len(d)
      BY <1>1, <1>2, <1>5, <2>3 DEF r
    <3>2. (e \o r)[i] = r[i - Len(e)]
      BY <1>1, <1>2, <1>3, <1>5, <2>3
    <3>3. r[i - Len(e)] = q[i - Len(d)]
      BY <1>1, <3>1 DEF r
    <3>4. (d \o q)[i] = q[i - Len(d)]
      BY <1>1, <1>4, <1>5, <2>3
    <3> QED
      BY <3>2, <3>3, <3>4
  <2> QED
    BY <1>1, <1>5, <2>1, <2>2, <2>3
<1>7. e \o r = d \o q
  BY <1>3, <1>4, <1>5, <1>6, SeqEqual
<1> QED
  BY <1>1, <1>2, <1>7 DEF e, r

(* A cycle of the AXI bus admits a burst only if it fits, and a new burst *)
(* has no beats yet.                                                      *)
LEMMA CycleStep == ASSUME IInv, NEW r_ready \in BOOLEAN,
                          NEW accepted \in {<<>>} \cup {<<r>> : r \in Reads},
                          AxiReadCycle(r_ready, accepted)
                   PROVE  IInv'
<1> USE SizesArePositive DEF IInv
<1> DEFINE pop == r_valid /\ r_ready
<1>1. /\ delivered' = IF pop THEN Append(delivered, Head(read_transactions)) ELSE delivered
      /\ read_transactions' = IF pop THEN Tail(read_transactions) ELSE read_transactions
      /\ r_valid' = (read_transactions' # <<>>) /\ ar_ready' = CanAcceptRead(ddr_read_q')
      /\ UNCHANGED <<in_flight_reads, dram>>
  BY DEF AxiReadCycle
<1>2. /\ delivered' \in Seq(Items) /\ read_transactions' \in Seq(Items) /\ Sent' = Sent
  <2>1. delivered \in Seq(Items) /\ read_transactions \in Seq(Items)
        /\ (pop => read_transactions # <<>>)
    BY DEF RChannel
  <2>2. CASE pop
    BY <1>1, <2>1, <2>2, PopKeeps DEF Sent
  <2>3. CASE ~pop
    BY <1>1, <2>1, <2>3 DEF Sent
  <2> QED
    BY <2>2, <2>3
<1>3. RChannel'
  BY <1>1, <1>2 DEF RChannel
<1>4. Admission'
  BY <1>1 DEF Admission, CanAcceptRead
<1>5. Sent \in Seq(Items) /\ Len(Sent) \in Nat
  BY ConcatProperties, LenProperties DEF RChannel, Sent
<1>6. CASE accepted = <<>>
  <2>1. UNCHANGED <<issued, tx, ddr_read_q>> /\ Started' = Started
    BY <1>6 DEF AxiReadCycle, Started
  <2>2. Bursts' /\ Queues' /\ CallbackHasOwner' /\ QueueBounded'
    BY <1>1, <2>1 DEF Bursts, Queues, CallbackHasOwner, QueueBounded
  <2>3. Arrived' /\ Counted' /\ Numbered'
    BY <1>2, <2>1 DEF Arrived, Counted, Numbered, Fetched, NEnqueues, Upto
  <2> QED
    BY <1>3, <1>4, <2>2, <2>3
<1>7. CASE accepted # <<>>
  <2> DEFINE t == issued + 1
  <2>1. /\ ar_ready /\ issued < MaxReads /\ issued' = t
        /\ tx' = [u \in 1 .. t |-> IF u = t THEN NewTx(accepted[1]) ELSE tx[u]]
        /\ ddr_read_q' = Append(ddr_read_q, t)
    BY <1>7 DEF AxiReadCycle
  <2>2. issued \in Nat /\ t \in Nat /\ t \notin Started /\ Started' = 1 .. t
        /\ Started' = Started \cup {t} /\ issued' \in 0 .. MaxReads
    BY <2>1 DEF Bursts, Started
  <2>3. accepted[1] \in [id : Ids, base : Blocks, len : Lens]
    BY <1>7 DEF Reads
  <2>4. NewTx(accepted[1]) \in TxRecords /\ NewTx(accepted[1]).beats = 0
    <3> DEFINE a == accepted[1]
    <3> HIDE DEF a
    <3>1. a.id \in Ids /\ a.base \in Blocks /\ a.len \in Lens
      BY <2>3 DEF a
    <3> QED
      BY <3>1 DEF NewTx, TxRecords, a
  <2> HIDE DEF t
  <2>5. /\ tx' \in [Started' -> TxRecords]
        /\ tx'[t].beats = 0 /\ \A u \in Started : tx'[u] = tx[u]
    BY <2>1, <2>2, <2>4 DEF Bursts
  <2>6. Bursts'
    BY <2>2, <2>5 DEF Bursts
  <2>7. /\ ddr_read_q' \in Seq(Started') /\ Len(ddr_read_q') = Len(ddr_read_q) + 1
        /\ Len(ddr_read_q) \in Nat
    <3>1. ddr_read_q \in Seq(Started')
      BY <2>2, SeqMonotonic DEF Queues
    <3> QED
      BY <2>1, <2>2, <3>1, AppendProperties, LenProperties
  <2>8. QueueBounded'
    BY <2>1, <2>7 DEF Admission, QueueBounded
  <2>9. Queues' /\ CallbackHasOwner'
    <3>1. \A b \in Blocks : in_flight_reads[b] \in Seq(Started')
      BY <2>2, SeqMonotonic DEF Queues
    <3>2. in_flight_reads' \in [Blocks -> Seq(Started')]
      BY <1>1, <3>1 DEF Queues
    <3> QED
      BY <1>1, <2>7, <3>2 DEF Queues, CallbackHasOwner
  <2>10. Arrived'
    <3>1. \A u \in Started' : \A k \in 0 .. tx'[u].beats - 1 :
            k >= Fetched(tx'[u].len) \/ k \div BeatsPerBlock \in tx'[u].retrieved
      <4> SUFFICES ASSUME NEW u \in Started', NEW k \in 0 .. tx'[u].beats - 1
                   PROVE  k >= Fetched(tx'[u].len) \/ k \div BeatsPerBlock \in tx'[u].retrieved
        OBVIOUS
      <4>1. u # t
        BY <2>5
      <4>2. u \in Started /\ tx'[u] = tx[u]
        BY <2>2, <2>5, <4>1
      <4> QED
        BY <4>2 DEF Arrived
    <3>2. \A u \in Started' : Fetched(tx[u].len)' = Fetched(tx'[u].len)
      BY DEF Fetched, NEnqueues
    <3> QED
      BY <3>1, <3>2 DEF Arrived
  <2>11. Counted'
    <3>1. Upto(Sent, Len(Sent), t) = {}
      BY <2>2, <1>5 DEF Numbered, Upto
    <3>2. \A u \in Started' : Cardinality(Upto(Sent, Len(Sent), u)) = tx'[u].beats
      BY <2>2, <2>5, <3>1, FS_EmptySet DEF Counted
    <3>3. Counted' <=> \A u \in Started' : Cardinality(Upto(Sent', Len(Sent'), u)) = tx'[u].beats
      BY DEF Counted, Upto
    <3> QED
      BY <1>2, <3>2, <3>3
  <2>12. Numbered'
    <3>1. \A i \in 1 .. Len(Sent) :
            /\ Sent[i].t \in Started'
            /\ Sent[i].beat = Cardinality(Upto(Sent, i - 1, Sent[i].t))
            /\ Sent[i].beat < tx'[Sent[i].t].beats
            /\ Sent[i].beat < tx'[Sent[i].t].len
            /\ Sent[i].last = (Sent[i].beat = tx'[Sent[i].t].len - 1)
      BY <2>2, <2>5 DEF Numbered
    <3> QED
      BY <1>2, <3>1 DEF Numbered, Upto
  <2> QED
    BY <1>3, <1>4, <2>6, <2>8, <2>9, <2>10, <2>11, <2>12
<1> QED
  BY <1>6, <1>7

-----------------------------------------------------------------------------
(* Every step preserves the inductive invariant.                          *)
LEMMA NextIInv == IInv /\ [Next]_vars => IInv'
<1> SUFFICES ASSUME IInv, [Next]_vars PROVE IInv'
  OBVIOUS
<1>1. CASE AxiRead
  BY <1>1, CycleStep DEF AxiRead
<1>2. CASE EnqueueSome
  BY <1>2, EnqueueStep DEF EnqueueSome
<1>3. CASE \E b \in Blocks : ReadReturns(b)
  BY <1>3, ReturnStep
<1>4. CASE UNCHANGED vars
  <2>1. UNCHANGED <<Started, Sent>>
    BY <1>4 DEF vars, Started, Sent
  <2> USE DEF IInv, vars
  <2>2. Bursts' /\ Queues' /\ CallbackHasOwner' /\ QueueBounded' /\ Admission' /\ RChannel'
    BY <1>4, <2>1 DEF Bursts, Queues, CallbackHasOwner, QueueBounded, Admission, RChannel
  <2>3. Arrived' /\ Counted' /\ Numbered'
    BY <1>4, <2>1 DEF Arrived, Counted, Numbered, Fetched, NEnqueues, Upto
  <2> QED
    BY <2>2, <2>3
<1> QED
  BY <1>1, <1>2, <1>3, <1>4 DEF Next

(* The inductive invariant holds in every reachable state.                *)
THEOREM Invariance == Spec => []IInv
  BY InitIInv, NextIInv, PTL DEF Spec

(* Whatever block DRAMsim3 returns, a transaction waits for it            *)
(* (mem_ctrl.cc:41, front() of the queue).                                *)
THEOREM OwnerFound == Spec => []CallbackHasOwner
<1>1. IInv => CallbackHasOwner
  BY DEF IInv
<1> QED
  BY <1>1, Invariance, PTL

(* ddr_read_q holds at most max_q_length bursts, although ar_ready is     *)
(* computed a cycle before the burst it admits arrives.                   *)
THEOREM QueueLimited == Spec => []QueueBounded
<1>1. IInv => QueueBounded
  BY DEF IInv
<1> QED
  BY <1>1, Invariance, PTL

(* The beats of every burst leave in order, without gap or repetition,    *)
(* each after its block has arrived, and only the final one is last.      *)
THEOREM BeatsOrdered == Spec => []BeatsInOrder
<1>1. IInv => BeatsInOrder
  <2> SUFFICES ASSUME IInv, NEW i \in DOMAIN Sent
               PROVE  /\ Sent[i].beat = Cardinality({j \in 1 .. i - 1 : Sent[j].t = Sent[i].t})
                      /\ LET final == Owed(tx[Sent[i].t].len) - 1
                         IN  (IF Sent[i].beat < final THEN Sent[i].beat ELSE final) \div BeatsPerBlock
                               \in tx[Sent[i].t].retrieved
                      /\ Sent[i].last = (Sent[i].beat = tx[Sent[i].t].len - 1)
    BY DEF BeatsInOrder
  <2> USE DEF IInv
  <2>1. Sent \in Seq(Items)
    BY ConcatProperties DEF RChannel, Sent
  <2>2. i \in 1 .. Len(Sent) /\ Sent[i] \in Items
    BY <2>1, LenProperties, ElementOfSeq
  <2> DEFINE t == Sent[i].t
             k == Sent[i].beat
             len == tx[t].len
             final == Owed(len) - 1
  <2>3. /\ t \in Started /\ k \in Nat /\ k < tx[t].beats /\ k < len
        /\ k = Cardinality(Upto(Sent, i - 1, t)) /\ Sent[i].last = (k = len - 1)
    BY <2>2 DEF Numbered, Items
  <2>4. len \in Nat \ {0} /\ tx[t].beats \in Nat
    BY <2>3, SizesArePositive DEF Bursts, TxRecords
  <2> HIDE DEF t, k, len
  <2>5. (IF k < final THEN k ELSE final) \in 0 .. tx[t].beats - 1
        /\ (IF k < final THEN k ELSE final) < Fetched(len)
    BY <2>3, <2>4, FetchedOrOwed, SizesArePositive
  <2>6. (IF k < final THEN k ELSE final) \div BeatsPerBlock \in tx[t].retrieved
    <3> DEFINE j == IF k < final THEN k ELSE final
    <3> HIDE DEF j
    <3>1. j \in 0 .. tx[t].beats - 1 /\ j < Fetched(len) /\ Fetched(len) \in Nat
      BY <2>4, <2>5, FetchedOrOwed DEF j
    <3>2. j >= Fetched(len) \/ j \div BeatsPerBlock \in tx[t].retrieved
      BY <2>3, <3>1 DEF Arrived, len
    <3> QED
      BY <2>4, <3>1, <3>2 DEF j
  <2> QED
    BY <2>3, <2>6 DEF t, k, len, Upto
<1> QED
  BY <1>1, Invariance, PTL
-----------------------------------------------------------------------------
(* SameIdSerialized fails for two outstanding reads with one ID. What is  *)
(* left of it: an accelerator that requests a burst only after the last   *)
(* beat of every burst with the same ID was delivered gets them in order. *)
OneReadPerId ==
  issued' # issued =>
    \A u \in Started :
      tx[u].id = tx'[issued'].id =>
        \E i \in DOMAIN delivered' : delivered'[i].t = u /\ delivered'[i].last

(* Then only the youngest burst of an ID still has beats to send.         *)
OnlyYoungest ==
  /\ \A u \in Started : tx[u].beats <= tx[u].len
  /\ \A u, v \in Started : u < v /\ tx[u].id = tx[v].id => tx[u].beats = tx[u].len

(* The bursts accepted so far keep their ID and length.                   *)
SameBursts == \A u \in Started : tx'[u].id = tx[u].id /\ tx'[u].len = tx[u].len

(* What the read callback changes: beats of one burst leave.              *)
LEMMA ReturnShape ==
  ASSUME IInv, NEW b \in Blocks, ReadReturns(b)
  PROVE  /\ Started' = Started /\ SameBursts
         /\ \E t \in Started :
              /\ tx[t].beats <= tx'[t].beats /\ tx'[t].beats <= tx[t].len
              /\ \A u \in Started : u # t => tx'[u].beats = tx[u].beats
              /\ \A i \in 1 .. Len(Sent) : Sent'[i] = Sent[i]
              /\ \A i \in 1 .. Len(Sent') :
                   i > Len(Sent) => Sent'[i].t = t /\ tx[t].beats < tx[t].len
<1> USE SizesArePositive DEF IInv
<1> DEFINE t == Head(in_flight_reads[b])
           x == [tx[t] EXCEPT !.retrieved = @ \cup {b - tx[t].base}]
<1>1. PICK n \in BeatsReady(x) :
        /\ tx' = [tx EXCEPT ![t] = [x EXCEPT !.beats = n]]
        /\ read_transactions' = read_transactions \o
             [k \in 1 .. n - x.beats |->
               [t |-> t, beat |-> x.beats + k - 1, last |-> IsLast(x, x.beats + k - 1)]]
  BY DEF ReadReturns
<1>2. UNCHANGED <<issued, delivered>> /\ Started' = Started /\ dram[b] > 0
  BY DEF ReadReturns, Started
<1>3. t \in Started
  <2>1. in_flight_reads[b] \in Seq(Started) /\ Len(in_flight_reads[b]) = dram[b]
    BY DEF Queues, CallbackHasOwner
  <2>2. in_flight_reads[b] # <<>>
    BY <1>2, <2>1
  <2> QED
    BY <2>1, <2>2, HeadTailProperties
<1>4. tx[t] \in TxRecords /\ tx[t].len \in Nat /\ tx[t].beats \in Nat /\ t \in Nat
  BY <1>3 DEF Bursts, TxRecords, Started
<1>5. x.beats = tx[t].beats /\ x.len = tx[t].len /\ x.id = tx[t].id
  BY <1>4 DEF TxRecords
<1> DEFINE m == n - x.beats
           o == [k \in 1 .. m |->
                  [t |-> t, beat |-> x.beats + k - 1, last |-> IsLast(x, x.beats + k - 1)]]
           y == [x EXCEPT !.beats = n]
<1>6. y.beats = n /\ y.len = tx[t].len /\ y.id = tx[t].id
  <2>1. x.len = y.len /\ x.id = y.id /\ y.beats = n
    BY <1>4 DEF TxRecords
  <2> QED
    BY <1>5, <2>1
<1>7. tx' = [tx EXCEPT ![t] = y]
  BY <1>1
<1> HIDE DEF x, t, y
<1>8. n \in Nat /\ m \in Nat /\ tx[t].beats <= n /\ n <= tx[t].len /\ (m > 0 => tx[t].beats < tx[t].len)
  <2>1. n \in x.beats .. x.len
    BY DEF BeatsReady
  <2>2. n \in tx[t].beats .. tx[t].len /\ m = n - tx[t].beats
    BY <1>5, <2>1
  <2> HIDE DEF m
  <2> QED
    BY <1>4, <2>2
<1>9. SameBursts /\ tx[t].beats <= tx'[t].beats /\ tx'[t].beats <= tx[t].len
      /\ \A u \in Started : u # t => tx'[u].beats = tx[u].beats
  BY <1>3, <1>6, <1>7, <1>8 DEF SameBursts, Bursts
<1>10. /\ o \in Seq([t : Nat, beat : Int, last : BOOLEAN]) /\ Len(o) = m
       /\ \A k \in 1 .. m : o[k].t = t
  <2>1. \A k \in 1 .. m : x.beats + k - 1 \in Int
    <3>1. x.beats \in Nat
      BY <1>4, <1>5
    <3> QED
      BY <1>8, <3>1
  <2>2. \A k \in 1 .. m : IsLast(x, x.beats + k - 1) \in BOOLEAN
    BY DEF IsLast
  <2>3. o \in [1 .. m -> [t : Nat, beat : Int, last : BOOLEAN]]
    BY <1>4, <2>1, <2>2
  <2>4. \A k \in 1 .. m : o[k].t = t
    OBVIOUS
  <2> HIDE DEF o
  <2> QED
    BY <1>8, <2>3, <2>4, FunctionIsSeq
<1>11. read_transactions' = read_transactions \o o
  BY <1>1
<1> HIDE DEF o, m
<1>12. /\ Sent' = Sent \o o /\ Len(Sent) \in Nat /\ Len(Sent') = Len(Sent) + m
       /\ \A i \in 1 .. Len(Sent) : Sent'[i] = Sent[i]
       /\ \A i \in 1 .. Len(Sent') : i > Len(Sent) => Sent'[i] = o[i - Len(Sent)]
  <2> DEFINE T == [t : Nat, beat : Int, last : BOOLEAN]
  <2>1. delivered \in Seq(Items) /\ read_transactions \in Seq(Items) /\ Items \subseteq T
    BY DEF RChannel, Items
  <2>2. delivered \in Seq(T) /\ read_transactions \in Seq(T) /\ o \in Seq(T)
    BY <1>10, <2>1, SeqMonotonic
  <2> HIDE DEF T
  <2>3. Sent \in Seq(T) /\ Len(Sent) \in Nat
    BY <2>2, ConcatProperties, LenProperties DEF Sent
  <2>4. Sent' = Sent \o o
    <3>1. Sent' = delivered \o (read_transactions \o o)
      BY <1>2, <1>11 DEF Sent
    <3> QED
      BY <2>2, <3>1, ConcatAssociative DEF Sent
  <2>5. /\ Len(Sent \o o) = Len(Sent) + Len(o)
        /\ \A i \in 1 .. Len(Sent) + Len(o) :
             (Sent \o o)[i] = IF i <= Len(Sent) THEN Sent[i] ELSE o[i - Len(Sent)]
    BY <2>2, <2>3, ConcatProperties
  <2>6. \A i \in 1 .. Len(Sent) : i \in 1 .. Len(Sent) + Len(o) /\ i <= Len(Sent)
    BY <1>8, <1>10, <2>3
  <2>7. \A i \in 1 .. Len(Sent) : Sent'[i] = Sent[i]
    BY <2>4, <2>5, <2>6
  <2>8. \A i \in 1 .. Len(Sent') : i > Len(Sent) => Sent'[i] = o[i - Len(Sent)]
    BY <2>3, <2>4, <2>5
  <2> QED
    BY <1>10, <2>3, <2>4, <2>5, <2>7, <2>8
<1>13. \A i \in 1 .. Len(Sent') : i > Len(Sent) => Sent'[i].t = t /\ tx[t].beats < tx[t].len
  <2> SUFFICES ASSUME NEW i \in 1 .. Len(Sent'), i > Len(Sent)
               PROVE  Sent'[i].t = t /\ tx[t].beats < tx[t].len
    OBVIOUS
  <2>1. i - Len(Sent) \in 1 .. m /\ m > 0
    BY <1>8, <1>12
  <2> QED
    BY <1>8, <1>10, <1>12, <2>1
<1> QED
  BY <1>2, <1>3, <1>9, <1>12, <1>13

(* What every other step changes: no beat leaves, and at most one burst,  *)
(* with no beats yet, is added.                                           *)
LEMMA OtherShape ==
  ASSUME IInv, AxiRead \/ EnqueueSome \/ UNCHANGED vars
  PROVE  /\ Sent' = Sent /\ SameBursts
         /\ \A u \in Started : tx'[u].beats = tx[u].beats
         /\ \/ Started' = Started
            \/ /\ issued' = issued + 1 /\ Started' = Started \cup {issued + 1}
               /\ tx'[issued + 1].beats = 0
<1> USE DEF IInv
<1>1. CASE AxiRead
  <2>1. PICK r_ready \in BOOLEAN, accepted \in {<<>>} \cup {<<r>> : r \in Reads} :
          AxiReadCycle(r_ready, accepted)
    BY <1>1 DEF AxiRead
  <2> DEFINE pop == r_valid /\ r_ready
  <2>2. Sent' = Sent
    <3>1. delivered \in Seq(Items) /\ read_transactions \in Seq(Items)
          /\ (pop => read_transactions # <<>>)
      BY DEF RChannel
    <3>2. /\ delivered' = IF pop THEN Append(delivered, Head(read_transactions)) ELSE delivered
          /\ read_transactions' = IF pop THEN Tail(read_transactions) ELSE read_transactions
      BY <2>1 DEF AxiReadCycle
    <3>3. CASE pop
      BY <3>1, <3>2, <3>3, PopKeeps DEF Sent
    <3>4. CASE ~pop
      BY <3>2, <3>4 DEF Sent
    <3> QED
      BY <3>3, <3>4
  <2>3. CASE accepted = <<>>
    <3>1. UNCHANGED <<issued, tx>>
      BY <2>1, <2>3 DEF AxiReadCycle
    <3> QED
      BY <2>2, <3>1 DEF Started, SameBursts
  <2>4. CASE accepted # <<>>
    <3>1. /\ issued' = issued + 1
          /\ tx' = [u \in 1 .. issued + 1 |-> IF u = issued + 1 THEN NewTx(accepted[1]) ELSE tx[u]]
      BY <2>1, <2>4 DEF AxiReadCycle
    <3>2. issued \in Nat /\ Started' = Started \cup {issued + 1} /\ issued + 1 \in 1 .. issued + 1
          /\ \A u \in Started : u \in 1 .. issued + 1 /\ u # issued + 1
      BY <3>1 DEF Bursts, Started
    <3>3. \A u \in Started : tx'[u] = tx[u]
      BY <3>1, <3>2
    <3>4. tx'[issued + 1].beats = 0
      BY <3>1, <3>2 DEF NewTx
    <3> QED
      BY <2>2, <3>1, <3>2, <3>3, <3>4 DEF SameBursts
  <2> QED
    BY <2>3, <2>4
<1>2. CASE EnqueueSome
  <2>1. PICK accepts \in SUBSET Blocks : TryToEnqueueRead(accepts)
    BY <1>2 DEF EnqueueSome
  <2>2. Started' = Started /\ Sent' = Sent
    BY <2>1 DEF TryToEnqueueRead, Started, Sent
  <2>3. PICK t : tx' = [tx EXCEPT ![t].enqueued = @ + 1]
    BY <2>1 DEF TryToEnqueueRead
  <2>4. \A u \in Started : tx[u] \in TxRecords
    BY DEF Bursts
  <2>5. \A u \in Started : /\ tx'[u].id = tx[u].id /\ tx'[u].len = tx[u].len
                           /\ tx'[u].beats = tx[u].beats
    BY <2>3, <2>4 DEF Bursts, TxRecords
  <2> QED
    BY <2>2, <2>5 DEF SameBursts
<1>3. CASE UNCHANGED vars
  BY <1>3 DEF vars, Started, Sent, SameBursts
<1> QED
  BY <1>1, <1>2, <1>3

(* A beat leaves only for the youngest burst of its ID, and a new burst   *)
(* of an ID finds the older ones complete.                                *)
LEMMA CarefulStep ==
  ASSUME IInv, IInv', OnlyYoungest, SameIdSerialized, [Next]_vars, [OneReadPerId]_vars
  PROVE  OnlyYoungest' /\ SameIdSerialized'
<1>1. /\ \A u \in Started : tx[u].beats \in Nat /\ tx[u].len \in Nat
      /\ issued \in Nat /\ \A u \in Started : u \in Nat /\ u <= issued
  <2>1. \A u \in Started : tx[u] \in TxRecords
    BY DEF IInv, Bursts
  <2>2. \A u \in Started : tx[u].beats \in Nat /\ tx[u].len \in Nat
    BY <2>1, SizesArePositive DEF TxRecords
  <2>3. issued \in Nat
    BY DEF IInv, Bursts
  <2> QED
    BY <2>2, <2>3 DEF Started
<1>2. Sent \in Seq(Items) /\ Len(Sent) \in Nat /\ Sent' \in Seq(Items) /\ Len(Sent') \in Nat
  BY ConcatProperties, LenProperties DEF IInv, RChannel, Sent
<1>3. DOMAIN Sent = 1 .. Len(Sent) /\ DOMAIN Sent' = 1 .. Len(Sent')
  BY <1>2, LenProperties
<1>4. \A i \in 1 .. Len(Sent) : Sent[i].t \in Started
  BY DEF IInv, Numbered
<1>5. CASE \E b \in Blocks : ReadReturns(b)
  <2>1. PICK b \in Blocks : ReadReturns(b)
    BY <1>5
  <2>2. Started' = Started /\ SameBursts
    BY <2>1, ReturnShape
  <2>3. PICK t \in Started :
          /\ tx[t].beats <= tx'[t].beats /\ tx'[t].beats <= tx[t].len
          /\ \A u \in Started : u # t => tx'[u].beats = tx[u].beats
          /\ \A i \in 1 .. Len(Sent) : Sent'[i] = Sent[i]
          /\ \A i \in 1 .. Len(Sent') :
               i > Len(Sent) => Sent'[i].t = t /\ tx[t].beats < tx[t].len
    BY <2>1, ReturnShape
  <2>4. OnlyYoungest'
    <3>1. \A u \in Started : tx'[u].beats <= tx'[u].len
      BY <2>2, <2>3 DEF OnlyYoungest, SameBursts
    <3>2. ASSUME NEW u \in Started, NEW v \in Started, u < v, tx'[u].id = tx'[v].id
          PROVE  tx'[u].beats = tx'[u].len
      <4>1. tx[u].beats = tx[u].len /\ tx'[u].len = tx[u].len
        BY <2>2, <3>2 DEF OnlyYoungest, SameBursts
      <4>2. CASE u # t
        BY <2>3, <4>1, <4>2
      <4>3. CASE u = t
        <5>1. tx'[t].beats \in Nat
          BY <2>2 DEF IInv, Bursts, TxRecords
        <5> QED
          BY <1>1, <2>3, <4>1, <4>3, <5>1
      <4> QED
        BY <4>2, <4>3
    <3> QED
      BY <2>2, <3>1, <3>2 DEF OnlyYoungest
  <2>5. SameIdSerialized'
    <3> SUFFICES ASSUME NEW i \in 1 .. Len(Sent'), NEW j \in 1 .. Len(Sent'), i < j,
                        tx'[Sent'[i].t].id = tx'[Sent'[j].t].id
                 PROVE  Sent'[i].t <= Sent'[j].t
      BY <1>3 DEF SameIdSerialized
    <3>1. CASE j <= Len(Sent)
      <4>1. i \in 1 .. Len(Sent) /\ j \in 1 .. Len(Sent)
        BY <1>2, <3>1
      <4>2. Sent'[i] = Sent[i] /\ Sent'[j] = Sent[j]
        BY <2>3, <4>1
      <4>3. tx[Sent[i].t].id = tx[Sent[j].t].id
        BY <1>4, <2>2, <4>1, <4>2 DEF SameBursts
      <4> QED
        BY <1>3, <4>1, <4>2, <4>3 DEF SameIdSerialized
    <3>2. CASE ~(j <= Len(Sent))
      <4>1. Sent'[j].t = t /\ tx[t].beats < tx[t].len
        BY <1>2, <2>3, <3>2
      <4>2. CASE i > Len(Sent)
        BY <1>1, <2>3, <4>1, <4>2
      <4>3. CASE ~(i > Len(Sent))
        <5>1. i \in 1 .. Len(Sent) /\ Sent'[i] = Sent[i]
          BY <1>2, <2>3, <4>3
        <5>2. PICK u \in Started : u = Sent'[i].t
          BY <1>4, <5>1
        <5>3. tx[u].id = tx[t].id
          BY <2>2, <4>1, <5>2 DEF SameBursts
        <5>4. ~(t < u)
          BY <1>1, <4>1, <5>3 DEF OnlyYoungest
        <5> QED
          BY <1>1, <4>1, <5>2, <5>4
      <4> QED
        BY <4>2, <4>3
    <3> QED
      BY <3>1, <3>2
  <2> QED
    BY <2>4, <2>5
<1>6. CASE AxiRead \/ EnqueueSome \/ UNCHANGED vars
  <2>1. /\ Sent' = Sent /\ SameBursts
        /\ \A u \in Started : tx'[u].beats = tx[u].beats
        /\ \/ Started' = Started
           \/ /\ issued' = issued + 1 /\ Started' = Started \cup {issued + 1}
              /\ tx'[issued + 1].beats = 0
    BY <1>6, OtherShape
  <2>2. SameIdSerialized'
    BY <1>3, <1>4, <2>1 DEF SameIdSerialized, SameBursts
  <2>3. CASE Started' = Started
    <3>1. \A u \in Started : /\ tx'[u].id = tx[u].id /\ tx'[u].len = tx[u].len
                             /\ tx'[u].beats = tx[u].beats
      BY <2>1 DEF SameBursts
    <3> QED
      BY <2>2, <2>3, <3>1 DEF OnlyYoungest
  <2>4. CASE issued' = issued + 1 /\ Started' = Started \cup {issued + 1}
             /\ tx'[issued + 1].beats = 0
    <3> DEFINE w == issued + 1
    <3>1. ASSUME NEW u \in Started, tx[u].id = tx'[w].id
          PROVE  tx[u].beats = tx[u].len
      <4>1. OneReadPerId /\ issued' # issued
        BY <1>1, <2>4 DEF vars
      <4>2. PICK i \in DOMAIN delivered' : delivered'[i].t = u /\ delivered'[i].last
        BY <2>4, <3>1, <4>1 DEF OneReadPerId
      <4>3. i \in 1 .. Len(Sent) /\ Sent[i] = delivered'[i]
        <5>1. delivered' \in Seq(Items) /\ read_transactions' \in Seq(Items)
          BY DEF IInv, RChannel
        <5>2. i \in 1 .. Len(delivered') /\ Len(delivered') \in Nat
              /\ Len(read_transactions') \in Nat
          BY <4>2, <5>1, LenProperties
        <5>3. i \in 1 .. Len(delivered') + Len(read_transactions') /\ i <= Len(delivered')
          BY <5>2
        <5>4. Len(Sent') = Len(delivered') + Len(read_transactions') /\ Sent'[i] = delivered'[i]
          BY <5>1, <5>3, ConcatProperties DEF Sent
        <5> QED
          BY <2>1, <5>3, <5>4
      <4>4. Sent[i] \in Items /\ Sent[i].t = u /\ Sent[i].last
        BY <1>2, <4>2, <4>3, ElementOfSeq
      <4>5. Sent[i].beat < tx[u].beats /\ (Sent[i].last = (Sent[i].beat = tx[u].len - 1))
        BY <4>3, <4>4 DEF IInv, Numbered
      <4>6. Sent[i].beat = tx[u].len - 1
        BY <4>4, <4>5
      <4>7. tx[u].beats <= tx[u].len
        BY DEF OnlyYoungest
      <4> QED
        BY <1>1, <4>5, <4>6, <4>7
    <3>2. tx'[w].len \in Nat
      <4>1. tx'[w] \in TxRecords
        BY <2>4 DEF IInv, Bursts
      <4> QED
        BY <4>1, SizesArePositive DEF TxRecords
    <3>3. \A u \in Started : /\ tx'[u].id = tx[u].id /\ tx'[u].len = tx[u].len
                             /\ tx'[u].beats = tx[u].beats
      BY <2>1 DEF SameBursts
    <3>4. \A u \in Started' : tx'[u].beats <= tx'[u].len
      BY <2>4, <3>2, <3>3 DEF OnlyYoungest
    <3>5. ASSUME NEW u \in Started', NEW v \in Started', u < v, tx'[u].id = tx'[v].id
          PROVE  tx'[u].beats = tx'[u].len
      <4>1. u \in Started
        BY <1>1, <2>4, <3>5
      <4>2. CASE v = w
        BY <3>1, <3>3, <3>5, <4>1, <4>2
      <4>3. CASE v \in Started
        BY <3>3, <3>5, <4>1, <4>3 DEF OnlyYoungest
      <4> QED
        BY <2>4, <4>2, <4>3
    <3> QED
      BY <2>2, <3>4, <3>5 DEF OnlyYoungest
  <2> QED
    BY <2>1, <2>2, <2>3, <2>4
<1> QED
  BY <1>5, <1>6 DEF Next

(* An accelerator with at most one read per ID outstanding gets the data  *)
(* of its bursts one burst after the other, in the order of the requests, *)
(* whatever order DRAMsim3 answers in (mem_ctrl.cc:80-82).                *)
THEOREM SerializedIfCareful == Spec /\ [][OneReadPerId]_vars => []SameIdSerialized
<1>1. Init => OnlyYoungest /\ SameIdSerialized
  BY DEF Init, OnlyYoungest, SameIdSerialized, Started, Sent
<1>2. /\ IInv /\ IInv' /\ OnlyYoungest /\ SameIdSerialized /\ [Next]_vars /\ [OneReadPerId]_vars
      => OnlyYoungest' /\ SameIdSerialized'
  BY CarefulStep
<1> QED
  BY <1>1, <1>2, Invariance, PTL DEF Spec
=============================================================================
