----------------------------- MODULE ChipkitUart -----------------------------
(***************************************************************************)
(* The serial front end of ChipKit simulations (ChipkitControlIntf in     *)
(* include/sim/chipkit/state_machine.h), transmit direction: bytes queued *)
(* in in_stream are shifted out on rxd, the chip's input pin, one state   *)
(* machine step per clock cycle. A line level is named by what it carries, *)
(* <<byte, bit>>, with byte 0 for the idle line and the start bit.         *)
(*                                                                         *)
(* The chip's own UART is external: it sees a start bit within Latency    *)
(* cycles and then samples the middle of each of the eight bits at the    *)
(* rate baud_div. (The receive direction of the front end is switched     *)
(* off: nothing sets out_enable.)                                         *)
(***************************************************************************)
EXTENDS Integers, Sequences

CONSTANTS Sels,      \* values set_baud accepts that are tried
          Latency,   \* cycles the chip may take to see a start bit
          MaxBytes   \* bound: bytes queued

ASSUME UartAssumption ==
  /\ Sels \subseteq 0 .. 14                  \* set_baud's assertion
  /\ Latency \in Nat /\ MaxBytes \in Nat

High == <<0, 0>>
StartBit == <<0, 1>>

baud_table == <<1302, 217, 108, 54, 27, 22, 20, 19, 16, 15, 10, 8, 6, 5, 4, 2>>

(* A UART that sees a start bit half a bit late samples at the edges.     *)
ASSUME LatencyAssumption == \A sel \in Sels : Latency < 2 * baud_table[sel + 1]

VARIABLES baud_div, in_stream, in_state, baud_count_in, in_byte_progress, rxd,
          queued,    \* bytes queued so far
          held,      \* cycles since the last transition between symbols
          chip,      \* the chip's UART: state, cycles into the frame, bits sampled
          received   \* frames the chip has completed

line == <<in_stream, in_state, baud_count_in, in_byte_progress, rxd>>
vars == <<baud_div, line, queued, held, chip, received>>

Init == /\ \E sel \in Sels : baud_div = baud_table[sel + 1] * 4
        /\ in_stream = <<>> /\ in_state = "IDLE" /\ baud_count_in = 0
        /\ in_byte_progress = 0 /\ rxd = High
        /\ queued = 0 /\ held = 0
        /\ chip = [state |-> "wait", c |-> 0, bits |-> <<>>] /\ received = <<>>

(* The loader queues a byte. The one of the Verilator front end queues a  *)
(* whole file between two clock cycles; here the bytes may come at any    *)
(* time.                                                                  *)
Feed == /\ queued < MaxBytes
        /\ queued' = queued + 1
        /\ in_stream' = Append(in_stream, queued + 1)
        /\ UNCHANGED <<baud_div, in_state, baud_count_in, in_byte_progress, rxd,
                       held, chip, received>>

-----------------------------------------------------------------------------
(* tick(), first switch: one step of the transmitter. (The branches for   *)
(* baud_div = 1 cannot be reached: baud_div is a multiple of four.)       *)
TxCase(from, to, count) ==
  /\ in_state = from /\ in_state' = to /\ baud_count_in' = count

TxIdle ==
  IF in_stream # <<>>
  THEN /\ TxCase("IDLE", "START", baud_count_in + 1)
       /\ rxd' = StartBit /\ in_byte_progress' = 0
       /\ UNCHANGED in_stream
  ELSE /\ TxCase("IDLE", "IDLE", baud_count_in)
       /\ rxd' = High
       /\ UNCHANGED <<in_stream, in_byte_progress>>

TxStart ==
  IF baud_count_in + 1 = baud_div
  THEN /\ TxCase("START", "BITS_BAUD", 0)
       /\ rxd' = <<Head(in_stream), in_byte_progress>>
       /\ in_byte_progress' = in_byte_progress + 1
       /\ UNCHANGED in_stream
  ELSE /\ TxCase("START", "START", baud_count_in + 1)
       /\ UNCHANGED <<in_stream, in_byte_progress, rxd>>

(* Fault: the bit is looked up after the counter has moved on. *)
NextBitLate == <<Head(in_stream), in_byte_progress + 1>>

NextBit == <<Head(in_stream), in_byte_progress>>

TxBits ==
  /\ TxCase("BITS", "BITS_BAUD", 0)
  /\ rxd' = NextBit
  /\ in_byte_progress' = in_byte_progress + 1
  /\ UNCHANGED in_stream

LastBit == in_byte_progress = 8

TxBitsBaud ==
  /\ UNCHANGED <<in_byte_progress, rxd>>
  /\ IF baud_count_in + 1 = baud_div
     THEN IF LastBit
          THEN TxCase("BITS_BAUD", "STOP", 0) /\ in_stream' = Tail(in_stream)
          ELSE TxCase("BITS_BAUD", "BITS", 0) /\ UNCHANGED in_stream
     ELSE TxCase("BITS_BAUD", "BITS_BAUD", baud_count_in + 1) /\ UNCHANGED in_stream

(* Fault: the count starts again in every cycle. *)
StopCountReset == 1

StopCount == baud_count_in + 1

TxStop ==
  /\ rxd' = High
  /\ UNCHANGED <<in_stream, in_byte_progress>>
  /\ IF StopCount = 2 * baud_div THEN TxCase("STOP", "IDLE", 0)
                                 ELSE TxCase("STOP", "STOP", StopCount)

Tx == TxIdle \/ TxStart \/ TxBits \/ TxBitsBaud \/ TxStop

-----------------------------------------------------------------------------
(* The chip samples the line at the clock edge before tick() changes it.  *)
Middle(k) == baud_div \div 2 + (k + 1) * baud_div

ChipWait == /\ chip.state = "wait"
            /\ IF rxd = StartBit
               THEN \E l \in 0 .. Latency :
                      chip' = [state |-> "frame", c |-> 1 - l, bits |-> <<>>]
               ELSE UNCHANGED chip
            /\ UNCHANGED received

ChipFrame ==
  /\ chip.state = "frame"
  /\ LET bits == IF chip.c = Middle(Len(chip.bits)) THEN Append(chip.bits, rxd) ELSE chip.bits
     IN  IF Len(bits) = 8
         THEN /\ received' = Append(received, bits)
              /\ chip' = [state |-> "stop", c |-> 0, bits |-> <<>>]
         ELSE /\ chip' = [chip EXCEPT !.c = @ + 1, !.bits = bits]
              /\ UNCHANGED received

ChipStop == /\ chip.state = "stop"
            /\ chip' = [chip EXCEPT !.state = IF rxd = High THEN "wait" ELSE "stop"]
            /\ UNCHANGED received

(* One clock cycle.                                                        *)
Cycle == /\ (ChipWait \/ ChipFrame \/ ChipStop)
         /\ Tx
         /\ held' = IF rxd' # rxd THEN 1 ELSE IF rxd = High THEN 0 ELSE held + 1
         /\ UNCHANGED <<baud_div, queued>>

Next == Feed \/ Cycle

Spec == Init /\ [][Next]_vars

(* The simulation keeps ticking.                                           *)
FairSpec == Spec /\ WF_vars(Cycle)

-----------------------------------------------------------------------------
(* Every frame the chip completes holds the eight bits of one byte, in    *)
(* order, and the bytes arrive in the order they were queued, although    *)
(* the transmitter's bits are longer than the chip's (the delay adds up   *)
(* over a byte and must stay below half a bit).                           *)
BytesIntact ==
  \A n \in DOMAIN received : received[n] = [k \in 1 .. 8 |-> <<n, k - 1>>]

(* Every queued byte reaches the chip.                                    *)
BytesDelivered == \A n \in 1 .. MaxBytes : (queued >= n) ~> (Len(received) >= n)

(* The baud rates of the table before tick(): a symbol is on the line for *)
(* baud_div cycles.                                                       *)
BitsAtBaudRate == [][(rxd \notin {High, StartBit} /\ rxd' # rxd) => held = baud_div]_vars
=============================================================================
