------------------------------- MODULE MemRead -------------------------------
(***************************************************************************)
(* The read side of the simulated DRAM controller (mem_ctrl.h,            *)
(* mem_ctrl.cc and the read half of tick.cc): the accelerator's read      *)
(* bursts wait in ddr_read_q, are cut into DRAM requests by               *)
(* try_to_enqueue_ddr, come back from DRAMsim3 in an order of its own     *)
(* choice, and leave on the R channel through read_transactions.          *)
(*                                                                         *)
(* Addresses count blocks of DDR_ENQUEUE_SIZE_BYTES, the unit of a DRAM   *)
(* request; one block carries BeatsPerBlock beats of the AXI data bus.    *)
(* DRAMsim3 and the accelerator are external. The R and AR pins are read  *)
(* and driven once per cycle; a handshake is seen by both sides in the    *)
(* same cycle. Read data and the unmapped-address exit are left out.      *)
(***************************************************************************)
EXTENDS Integers, Sequences, FiniteSets

CONSTANTS Ids,            \* AXI transaction IDs
          NBlocks,        \* DRAM blocks
          BeatsPerBlock,  \* DDR_ENQUEUE_SIZE_BYTES / (DATA_BUS_WIDTH / 8)
          Lens,           \* burst lengths the accelerator uses, in beats
          max_q_length,   \* 40
          MaxReads        \* bound: bursts issued

ASSUME SizesArePositive ==
  /\ BeatsPerBlock \in Nat \ {0} /\ NBlocks \in Nat \ {0} /\ MaxReads \in Nat
  /\ max_q_length \in Nat \ {0}
  /\ Lens \subseteq Nat \ {0}

Blocks == 0 .. NBlocks - 1
Txs == 1 .. MaxReads              \* transactions, numbered in AR order

VARIABLES tx,                \* per transaction: id, base block, length, progress
          issued,            \* number of transactions accepted
          ddr_read_q,        \* transactions with requests still to send
          in_flight_reads,   \* per block, the transactions waiting for it
          dram,              \* blocks DRAMsim3 still owes, as a count per block
          read_transactions, \* beats ready for the R channel
          r_valid, ar_ready, \* pins
          delivered          \* beats the accelerator took

vars == <<tx, issued, ddr_read_q, in_flight_reads, dram, read_transactions,
          r_valid, ar_ready, delivered>>

Init == /\ tx = [t \in {} |-> {}] /\ issued = 0
        /\ ddr_read_q = <<>>
        /\ in_flight_reads = [b \in Blocks |-> <<>>]
        /\ dram = [b \in Blocks |-> 0]
        /\ read_transactions = <<>> /\ delivered = <<>>
        /\ r_valid = FALSE /\ ar_ready = FALSE

-----------------------------------------------------------------------------
(* Fault: one request per burst. *)
NEnqueuesOne(len) == 1

NEnqueues(len) == IF len \div BeatsPerBlock = 0 THEN 1 ELSE len \div BeatsPerBlock

NewTx(r) ==
  [id |-> r.id, base |-> r.base, len |-> r.len,
   enqueued |-> 0,        \* dram_tx_axi_enqueue_progress
   retrieved |-> {},      \* blocks of the burst that have arrived
   beats |-> 0]           \* axi_bus_beats_progress

(* try_to_enqueue_ddr, read half. accepts is the set of blocks for which  *)
(* DRAMsim3 would take a request: the oldest transaction that it accepts  *)
(* and that has no older one of its ID in the queue sends its next block. *)
NextBlock(t) == tx[t].base + tx[t].enqueued
FirstOfId(i) == \A j \in 1 .. i - 1 : tx[ddr_read_q[j]].id # tx[ddr_read_q[i]].id
Candidates(accepts) ==
  {i \in DOMAIN ddr_read_q : /\ tx[ddr_read_q[i]].base \in accepts
                             /\ NextBlock(ddr_read_q[i]) \in accepts
                             /\ FirstOfId(i)}

(* Fault: a block has one owner only. *)
WithOneOwner(q, t) == IF q = <<>> THEN <<t>> ELSE q

WithOwner(q, t) == Append(q, t)

TxFinished(t, n) == n >= NEnqueues(tx[t].len)

Oldest(is) == {i \in is : \A j \in is : i <= j}

TryToEnqueueRead(accepts) ==
  /\ \E i \in Oldest(Candidates(accepts)) :
       LET t == ddr_read_q[i]
           b == NextBlock(t)
       IN  /\ dram' = [dram EXCEPT ![b] = @ + 1]
           /\ in_flight_reads' = [in_flight_reads EXCEPT ![b] = WithOwner(@, t)]
           /\ tx' = [tx EXCEPT ![t].enqueued = @ + 1]
           /\ ddr_read_q' = IF TxFinished(t, tx[t].enqueued + 1)
                            THEN SubSeq(ddr_read_q, 1, i - 1)
                                   \o SubSeq(ddr_read_q, i + 1, Len(ddr_read_q))
                            ELSE ddr_read_q
  /\ UNCHANGED <<issued, read_transactions, r_valid, ar_ready, delivered>>

(* n_enqueues rounds down: a burst that is longer than a block but not a  *)
(* whole number of blocks is fetched only as far as Fetched.              *)
Fetched(len) == NEnqueues(len) * BeatsPerBlock

(* Fault: the first block releases the whole burst. *)
BeatsReadyAll(x) == {x.len}

(* Beats of a burst that can leave: those after the ones sent, up to the  *)
(* first one whose block has not arrived. For a beat that is not fetched  *)
(* dramsim_hasBeatReady reads ddr_bus_beats_retrieved past its end and    *)
(* may find either value.                                                 *)
BeatsReady(x) ==
  {n \in x.beats .. x.len :
    /\ \A k \in x.beats .. n - 1 : k >= Fetched(x.len) \/ k \div BeatsPerBlock \in x.retrieved
    /\ n >= Fetched(x.len) \/ n = x.len \/ n \div BeatsPerBlock \notin x.retrieved}

IsLast(x, beat) == beat = x.len - 1

(* The read callback: DRAMsim3 returns block b. The oldest transaction    *)
(* waiting for b marks it and releases every beat it can, in order.       *)
ReadReturns(b) ==
  /\ dram[b] > 0
  /\ LET t == Head(in_flight_reads[b])
         x == [tx[t] EXCEPT !.retrieved = @ \cup {b - tx[t].base}]
         out(n) == [k \in 1 .. n - x.beats |->
                     [t |-> t, beat |-> x.beats + k - 1, last |-> IsLast(x, x.beats + k - 1)]]
     IN  \E n \in BeatsReady(x) :
           /\ tx' = [tx EXCEPT ![t] = [x EXCEPT !.beats = n]]
           /\ read_transactions' = read_transactions \o out(n)
  /\ in_flight_reads' = [in_flight_reads EXCEPT ![b] = Tail(@)]
  /\ dram' = [dram EXCEPT ![b] = @ - 1]
  /\ UNCHANGED <<issued, ddr_read_q, r_valid, ar_ready, delivered>>

-----------------------------------------------------------------------------
(* Fault: off by one. *)
CanAcceptReadOneMore(q) == Len(q) <= max_q_length

CanAcceptRead(q) == Len(q) < max_q_length

(* One AXI cycle of tick_signals: take the handshakes, then drive the     *)
(* pins. r_ready and the request accepted, if any, are the accelerator's. *)
Reads == {r \in [id : Ids, base : Blocks, len : Lens] :
            r.base * BeatsPerBlock + r.len <= NBlocks * BeatsPerBlock}

AxiReadCycle(r_ready, accepted) ==
  LET pop == r_valid /\ r_ready
      t == issued + 1
  IN  /\ delivered' = IF pop THEN Append(delivered, Head(read_transactions)) ELSE delivered
      /\ read_transactions' = IF pop THEN Tail(read_transactions) ELSE read_transactions
      /\ \/ /\ accepted = <<>>
            /\ UNCHANGED <<issued, tx, ddr_read_q>>
         \/ /\ accepted # <<>> /\ ar_ready /\ issued < MaxReads
            /\ issued' = t
            /\ tx' = [u \in 1 .. t |-> IF u = t THEN NewTx(accepted[1]) ELSE tx[u]]
            /\ ddr_read_q' = Append(ddr_read_q, t)
      /\ r_valid' = (read_transactions' # <<>>)
      /\ ar_ready' = CanAcceptRead(ddr_read_q')
      /\ UNCHANGED <<in_flight_reads, dram>>

AxiRead == \E r_ready \in BOOLEAN, accepted \in {<<>>} \cup {<<r>> : r \in Reads} :
             AxiReadCycle(r_ready, accepted)
EnqueueSome == \E accepts \in SUBSET Blocks : TryToEnqueueRead(accepts)

Next == AxiRead \/ EnqueueSome \/ \E b \in Blocks : ReadReturns(b)

Spec == Init /\ [][Next]_vars

(* The simulation ticks, DRAMsim3 accepts and answers every request in    *)
(* the end, and the accelerator keeps taking beats. MaxReads bounds the   *)
(* steps of each kind, so none can starve another of its kind.            *)
FairSpec == /\ Spec
            /\ WF_vars(EnqueueSome)
            /\ WF_vars(\E b \in Blocks : ReadReturns(b))
            /\ WF_vars(AxiRead /\ (r_valid' # r_valid \/ delivered' # delivered))

-----------------------------------------------------------------------------
(* The callback always finds the transaction it serves: as many           *)
(* transactions wait for a block as DRAMsim3 owes, also when two bursts   *)
(* read the same block (mem_ctrl.cc:41, front() of the queue).            *)
CallbackHasOwner == \A b \in Blocks : Len(in_flight_reads[b]) = dram[b]

(* ddr_read_q never exceeds max_q_length: ar_ready is computed a cycle    *)
(* before the request it admits arrives.                                  *)
QueueBounded == Len(ddr_read_q) <= max_q_length

(* What left so far, and the beats of a burst that are sure to leave. *)
Sent == delivered \o read_transactions
Owed(len) == IF len < BeatsPerBlock THEN len ELSE (len \div BeatsPerBlock) * BeatsPerBlock

(* Whatever order DRAMsim3 answers in, the beats of each burst leave in   *)
(* order, each after its block has arrived (the tail that is never        *)
(* fetched after all the others), none is skipped or sent twice, and      *)
(* exactly the final one is marked last.                                  *)
BeatsInOrder ==
  \A i \in DOMAIN Sent :
    /\ Sent[i].beat = Cardinality({j \in 1 .. i - 1 : Sent[j].t = Sent[i].t})
    /\ LET final == Owed(tx[Sent[i].t].len) - 1
       IN  (IF Sent[i].beat < final THEN Sent[i].beat ELSE final) \div BeatsPerBlock
             \in tx[Sent[i].t].retrieved
    /\ Sent[i].last = (Sent[i].beat = tx[Sent[i].t].len - 1)

(* AXI ordering, as the comment in try_to_enqueue_ddr demands it          *)
(* (mem_ctrl.cc:80-82): the data of transactions with the same ID is      *)
(* returned one transaction after the other, in the order of the requests. *)
SameIdSerialized ==
  \A i, j \in DOMAIN Sent :
    i < j /\ tx[Sent[i].t].id = tx[Sent[j].t].id => Sent[i].t <= Sent[j].t

(* Every burst that was accepted is delivered to its last beat, whatever  *)
(* the order of DRAMsim3's answers, unless it is longer than a block and  *)
(* not a whole number of blocks: such a burst is delivered as far as it   *)
(* was fetched, and its last beat may never come (mem_ctrl.h:73).         *)
ReadsComplete ==
  \A t \in Txs :
    (issued >= t) ~> (issued >= t /\ \E i \in DOMAIN delivered :
                        delivered[i].t = t /\ delivered[i].beat = Owed(tx[t].len) - 1)
=============================================================================
