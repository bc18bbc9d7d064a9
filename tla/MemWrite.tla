------------------------------- MODULE MemWrite -------------------------------
(***************************************************************************)
(* The write side of the simulated DRAM controller (mem_ctrl.h,           *)
(* mem_ctrl.cc and the write half of tick.cc): write bursts arrive on AW  *)
(* and W, are cut into DRAM requests, and are acknowledged on B when      *)
(* DRAMsim3 has written the first of their blocks (the data itself is in  *)
(* host memory as soon as a W beat is taken).                             *)
(*                                                                         *)
(* DRAMsim3 and the accelerator are external. The accelerator sends       *)
(* write data in the order of its addresses and never ahead of them: the  *)
(* first beat of a burst is offered in the cycle of its address at the    *)
(* earliest (a beat taken with no burst waiting is thrown away).          *)
(***************************************************************************)
EXTENDS Integers, Sequences, FiniteSets

CONSTANTS Ids,                   \* AXI transaction IDs
          NBlocks,               \* DRAM blocks
          BeatsPerBlock,         \* DDR_ENQUEUE_SIZE_BYTES / (DATA_BUS_WIDTH / 8)
          Lens,                  \* burst lengths, in beats
          max_in_flight_writes,  \* 32
          MaxWrites              \* bound: bursts the accelerator writes

ASSUME MemWriteAssumption ==
  /\ BeatsPerBlock \in Nat \ {0} /\ NBlocks \in Nat \ {0} /\ MaxWrites \in Nat
  /\ max_in_flight_writes \in Nat \ {0}
  /\ Lens \subseteq Nat \ {0}

Blocks == 0 .. NBlocks - 1
Txs == 1 .. MaxWrites

VARIABLES burst,                \* the bursts: id, base block, length (accelerator)
          issued,               \* how many addresses were accepted
          cursor,               \* next data beat of the accelerator: <<burst, beat>>
          written,              \* per burst, the data beats stored for it
          write_transactions,   \* bursts waiting for data
          ddr_write_q,          \* bursts with DRAM requests still to send
          enqueued,             \* dram_tx_axi_enqueue_progress
          progress,             \* axi_bus_beats_progress after WLAST: 1, then down
          in_flight_writes,     \* per block, the bursts waiting for it
          dram,                 \* writes DRAMsim3 still owes, per block
          to_enqueue, send_ids, \* responses on their way to the B channel
          num_in_flight_writes,
          aw_ready, w_ready, b_valid,   \* pins
          acked                 \* IDs the accelerator got a response for

master == <<burst, issued, cursor, written, acked>>
queues == <<write_transactions, ddr_write_q, enqueued, progress>>
memory == <<in_flight_writes, dram>>
channels == <<send_ids, num_in_flight_writes, aw_ready, w_ready, b_valid>>
vars == <<master, queues, memory, channels, to_enqueue>>

NEnqueues(len) == IF len \div BeatsPerBlock = 0 THEN 1 ELSE len \div BeatsPerBlock

(* The state after the first cycle of the simulation, in which the        *)
(* accelerator is still in reset and requests nothing (the front end      *)
(* itself raises aw_ready and leaves w_ready to that cycle).              *)
Init == /\ burst \in [Txs -> [id : Ids, base : Blocks, len : Lens]]
        /\ \A t \in Txs : burst[t].base + NEnqueues(burst[t].len) <= NBlocks
        /\ issued = 0 /\ cursor = <<1, 0>> /\ acked = <<>>
        /\ written = [t \in Txs |-> <<>>]
        /\ write_transactions = <<>> /\ ddr_write_q = <<>>
        /\ enqueued = [t \in Txs |-> 0] /\ progress = [t \in Txs |-> 1]
        /\ in_flight_writes = [b \in Blocks |-> <<>>] /\ dram = [b \in Blocks |-> 0]
        /\ to_enqueue = <<>> /\ send_ids = <<>> /\ num_in_flight_writes = 0
        /\ aw_ready = TRUE /\ w_ready = TRUE /\ b_valid = FALSE

-----------------------------------------------------------------------------
(* DRAM side. *)

(* try_to_enqueue_ddr, write half: the oldest burst whose next block      *)
(* DRAMsim3 accepts sends it.                                             *)
NextBlock(t) == burst[t].base + enqueued[t]
Candidates(accepts) == {i \in DOMAIN ddr_write_q : NextBlock(ddr_write_q[i]) \in accepts}

Oldest(is) == {i \in is : \A j \in is : i <= j}

TryToEnqueueWrite(accepts) ==
  /\ \E i \in Oldest(Candidates(accepts)) :
       LET t == ddr_write_q[i]
           b == NextBlock(t)
       IN  /\ enqueued' = [enqueued EXCEPT ![t] = @ + 1]
           /\ dram' = [dram EXCEPT ![b] = @ + 1]
           /\ in_flight_writes' = [in_flight_writes EXCEPT ![b] = Append(@, t)]
           /\ ddr_write_q' = IF enqueued[t] + 1 >= NEnqueues(burst[t].len)
                             THEN SubSeq(ddr_write_q, 1, i - 1)
                                    \o SubSeq(ddr_write_q, i + 1, Len(ddr_write_q))
                             ELSE ddr_write_q
  /\ UNCHANGED <<master, write_transactions, progress, channels, to_enqueue>>

(* Fault: every block of a burst causes a response. *)
ResponseDueEach(n) == n <= 0

ResponseDue(n) == n = 0

(* The write callback for block b: the burst's count reaches zero with    *)
(* its first block, and goes on below zero with the others.               *)
WriteReturns(b) ==
  /\ dram[b] > 0
  /\ LET t == Head(in_flight_writes[b])
     IN  /\ progress' = [progress EXCEPT ![t] = @ - 1]
         /\ to_enqueue' = IF ResponseDue(progress[t] - 1) THEN Append(to_enqueue, burst[t].id)
                                                 ELSE to_enqueue
  /\ in_flight_writes' = [in_flight_writes EXCEPT ![b] = Tail(@)]
  /\ dram' = [dram EXCEPT ![b] = @ - 1]
  /\ UNCHANGED <<master, write_transactions, ddr_write_q, enqueued, channels>>

-----------------------------------------------------------------------------
(* One AXI cycle. The accelerator offers the next address (aw), the next  *)
(* data beat (w), or neither, and may take a response (b_ready).          *)

MoreWritesFit(n) == n < max_in_flight_writes

(* B: a response taken leaves; b_valid is set before the next response    *)
(* that DRAMsim3 caused moves up.                                         *)
BChannel(b_ready) ==
  LET taken == b_valid /\ b_ready
      left == IF taken THEN Tail(send_ids) ELSE send_ids
  IN  /\ acked' = IF taken THEN Append(acked, Head(send_ids)) ELSE acked
      /\ b_valid' = (left # <<>>)
      /\ send_ids' = IF to_enqueue # <<>> THEN Append(left, Head(to_enqueue)) ELSE left
      /\ to_enqueue' = IF to_enqueue # <<>> THEN Tail(to_enqueue) ELSE to_enqueue

(* Fault: a response taken does not count. *)
InFlightAfterUp(aw, b_ready) ==
  num_in_flight_writes + (IF aw /\ aw_ready THEN 1 ELSE 0)

InFlightAfter(aw, b_ready) ==
  num_in_flight_writes - (IF b_valid /\ b_ready THEN 1 ELSE 0)
                       + (IF aw /\ aw_ready THEN 1 ELSE 0)

(* Fault: data is taken before its address. *)
WReadyIdleAlways(n) == TRUE

(* w_ready while no burst waits, and after a last beat with the bursts    *)
(* in rest still waiting.                                                 *)
WReadyIdle(n) == MoreWritesFit(n)

(* Fault: bursts that wait for data are forgotten. *)
WReadyAfterLastFit(rest, n) == MoreWritesFit(n)

WReadyAfterLast(rest, n) == rest # <<>> \/ MoreWritesFit(n)

(* W, with the bursts that wait after the AW handshake of this cycle. A   *)
(* beat goes to the oldest one; its last beat sends it to the DRAM queue. *)
(* With no burst waiting the beat is lost. Without a handshake w_ready    *)
(* keeps its value.                                                       *)
WChannel(w, waiting, n) ==
  LET last == cursor[2] + 1 = burst[cursor[1]].len
      taken == w /\ w_ready
      t == Head(waiting)
  IN  /\ cursor' = IF ~taken THEN cursor
                   ELSE IF last THEN <<cursor[1] + 1, 0>> ELSE <<cursor[1], cursor[2] + 1>>
      /\ IF waiting = <<>>
         THEN /\ w_ready' = WReadyIdle(n)
              /\ write_transactions' = waiting
              /\ UNCHANGED <<written, ddr_write_q>>
         ELSE IF ~taken
         THEN write_transactions' = waiting /\ UNCHANGED <<written, ddr_write_q, w_ready>>
         ELSE /\ written' = [written EXCEPT ![t] = Append(@, cursor)]
              /\ write_transactions' = IF last THEN Tail(waiting) ELSE waiting
              /\ ddr_write_q' = IF last THEN Append(ddr_write_q, t) ELSE ddr_write_q
              /\ w_ready' = (last => WReadyAfterLast(Tail(waiting), n))

AxiWriteCycle(aw, w, b_ready) ==
  LET accepted == aw /\ aw_ready
      n == InFlightAfter(aw, b_ready)
  IN  /\ aw => issued < MaxWrites
      /\ w => cursor[1] \in Txs /\ (cursor[1] <= issued \/ (aw /\ cursor[1] = issued + 1))
      /\ BChannel(b_ready)
      /\ issued' = IF accepted THEN issued + 1 ELSE issued
      /\ WChannel(w, IF accepted THEN Append(write_transactions, issued + 1)
                                 ELSE write_transactions, n)
      /\ num_in_flight_writes' = n
      /\ aw_ready' = MoreWritesFit(n)
      /\ UNCHANGED <<burst, enqueued, progress, memory>>

AxiWrite == \E aw, w, b_ready \in BOOLEAN : AxiWriteCycle(aw, w, b_ready)
EnqueueSome == \E accepts \in SUBSET Blocks : TryToEnqueueWrite(accepts)

Next == AxiWrite \/ EnqueueSome \/ \E b \in Blocks : WriteReturns(b)

Spec == Init /\ [][Next]_vars

(* The simulation ticks with the accelerator sending the data it owes and *)
(* taking responses; DRAMsim3 accepts and finishes every request.         *)
FairSpec == /\ Spec
            /\ WF_vars(AxiWriteCycle(FALSE, TRUE, TRUE))
            /\ WF_vars(AxiWriteCycle(FALSE, FALSE, TRUE))
            /\ WF_vars(EnqueueSome)
            /\ \A b \in Blocks : WF_vars(WriteReturns(b))

-----------------------------------------------------------------------------
Complete(t) == cursor[1] > t

(* Every data beat the accelerator got rid of is stored, with the burst   *)
(* it belongs to and in order: none is taken while no burst waits         *)
(* (tick.cc:175) and none ends up in a neighbouring burst.                *)
DataIntact ==
  \A t \in Txs : written[t] =
    IF t < cursor[1] THEN [i \in 1 .. burst[t].len |-> <<t, i - 1>>]
    ELSE IF t = cursor[1] THEN [i \in 1 .. cursor[2] |-> <<t, i - 1>>]
    ELSE <<>>

(* w_ready is recomputed only on some paths of the cycle. While a burst   *)
(* waits for data it is up (were it down, nothing would ever raise it     *)
(* again); while none waits it is up exactly when aw_ready is.            *)
WReadyFollowsBursts ==
  /\ write_transactions # <<>> => w_ready
  /\ write_transactions = <<>> => (w_ready <=> aw_ready)

(* num_in_flight_writes is exactly the number of accepted bursts that     *)
(* have not been acknowledged, and b_valid is never up without an ID to   *)
(* take from send_ids (tick.cc:79).                                       *)
InFlightExact ==
  /\ num_in_flight_writes = issued - Len(acked)
  /\ b_valid => send_ids # <<>>

Count(q, i) == Cardinality({k \in DOMAIN q : q[k] = i})

(* For each ID there is one response per burst, no more, and none before  *)
(* the burst's last data beat, although a burst of n blocks comes back    *)
(* from DRAMsim3 n times, in any order.                                   *)
OneResponsePerBurst ==
  \A i \in Ids :
    Count(to_enqueue, i) + Count(send_ids, i) + Count(acked, i)
      = Cardinality({t \in Txs : burst[t].id = i /\ Complete(t) /\ progress[t] <= 0})

(* Every burst whose address was accepted is acknowledged.                *)
WritesAcknowledged == \A t \in Txs : (issued >= t) ~> (Len(acked) >= t)
=============================================================================
