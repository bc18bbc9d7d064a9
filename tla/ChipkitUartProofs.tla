-------------------------- MODULE ChipkitUartProofs --------------------------
(***************************************************************************)
(* For every divisor set_baud accepts, every number of bytes and a chip   *)
(* that sees start bits less than half a bit late: bytes arrive whole and *)
(* in order although each bit is a cycle too long.                        *)
(***************************************************************************)
EXTENDS ChipkitUart, TLAPS

(* The byte on the line, or the next one.                                 *)
Popped == queued - Len(in_stream)
Byte == Popped + 1

Busy == in_state \in {"START", "BITS", "BITS_BAUD"}

(* Cycles since the start bit went out.                                   *)
BitStart(k) == baud_div - 1 + k * (baud_div + 1)
Position ==
  IF in_state = "START" THEN baud_count_in - 1
  ELSE BitStart(in_byte_progress - 1) + (IF in_state = "BITS" THEN baud_div ELSE baud_count_in)

(* A bit is long enough for the delays of a byte and for the latency.     *)
Rate == /\ baud_div \in Nat /\ baud_div >= 16 /\ baud_div \div 2 \in Nat
        /\ 2 * (baud_div \div 2) = baud_div /\ Latency < baud_div \div 2

TxTypes ==
  /\ in_state \in {"IDLE", "START", "BITS", "BITS_BAUD", "STOP"}
  /\ baud_count_in \in Nat /\ in_byte_progress \in 0 .. 8
  /\ queued \in Nat /\ in_stream \in Seq(Nat) /\ rxd \in Nat \X Nat /\ held \in Nat

ChipTypes ==
  /\ chip \in [state : {"wait", "frame", "stop"}, c : Int, bits : Seq(Nat \X Nat)]
  /\ received \in Seq(Seq(Nat \X Nat))

(* in_stream holds the bytes not yet sent, in order.                      *)
Stream ==
  /\ Len(in_stream) <= queued
  /\ \A i \in 1 .. Len(in_stream) : in_stream[i] = Popped + i
  /\ Busy => in_stream # <<>>

(* What is on the line, and for how long.                                 *)
Line ==
  /\ in_state = "IDLE" => rxd = High /\ baud_count_in = 0
  /\ in_state = "START" => /\ rxd = StartBit /\ in_byte_progress = 0
                           /\ baud_count_in \in 1 .. baud_div - 1 /\ held = baud_count_in
  /\ in_state \in {"BITS", "BITS_BAUD"} => in_byte_progress > 0 /\ rxd = <<Byte, in_byte_progress - 1>>
  /\ in_state = "BITS" => in_byte_progress < 8 /\ held = baud_div + 1
  /\ in_state = "BITS_BAUD" => baud_count_in < baud_div /\ held = baud_count_in + 1
  /\ in_state = "STOP" => /\ baud_count_in < 2 * baud_div
                          /\ baud_count_in > 0 => rxd = High
                          /\ baud_count_in = 0 => rxd = <<Popped, 7>> /\ Popped > 0 /\ held = baud_div + 1

(* The chip is at most Latency cycles behind, and has sampled the bits    *)
(* whose middle is past.                                                  *)
InFrame ==
  /\ Position > 0 /\ chip.c <= Position /\ Position <= chip.c + Latency
  /\ Len(chip.bits) < 8 /\ chip.c <= Middle(Len(chip.bits))
  /\ \A i \in 1 .. Len(chip.bits) : chip.bits[i] = <<Byte, i - 1>>

Chip ==
  /\ chip.state = "wait" => in_state = "IDLE" \/ (in_state = "START" /\ Position = 0)
                              \/ (in_state = "STOP" /\ baud_count_in > 1)
  /\ chip.state = "frame" => Busy /\ InFrame
  /\ chip.state = "stop" => \/ in_state = "BITS_BAUD" /\ in_byte_progress = 8
                            \/ in_state = "STOP" /\ baud_count_in <= 1
  /\ Len(received) = IF Busy /\ chip.state = "stop" THEN Byte ELSE Popped

TxInv == Rate /\ TxTypes /\ Stream /\ Line
IInv == TxInv /\ ChipTypes /\ Chip /\ BytesIntact

-----------------------------------------------------------------------------
(* The divisors set_baud accepts.                                         *)
LEMMA TableFacts ==
  \A sel \in Sels : baud_table[sel + 1] \in Nat /\ baud_table[sel + 1] >= 4
<1>1. \A i \in 0 .. 14 : baud_table[i + 1] \in Nat /\ baud_table[i + 1] >= 4
  BY DEF baud_table
<1> QED
  BY <1>1, UartAssumption

(* Half of a multiple of four.                                            *)
LEMMA Halves == \A t \in Nat : (t * 4) \div 2 = 2 * t
OBVIOUS

(* An idle line, nothing queued.                                          *)
LEMMA InitIInv == Init => IInv
<1> SUFFICES ASSUME Init PROVE IInv
  OBVIOUS
<1>1. Rate
  <2>1. PICK sel \in Sels : baud_div = baud_table[sel + 1] * 4
    BY DEF Init
  <2>2. PICK t \in Nat : t = baud_table[sel + 1] /\ t >= 4 /\ Latency < 2 * t
    BY TableFacts, LatencyAssumption
  <2>3. baud_div = t * 4 /\ baud_div \div 2 = 2 * t
    BY <2>1, <2>2, Halves
  <2> QED
    BY <2>2, <2>3 DEF Rate
<1>2. TxTypes /\ Stream /\ Line
  BY DEF Init, TxTypes, Stream, Line, Busy, High, Popped
<1>3. ChipTypes
  BY DEF Init, ChipTypes
<1>4. in_state = "IDLE" /\ chip.state = "wait" /\ received = <<>> /\ Popped = 0
  <2>1. in_state = "IDLE" /\ received = <<>> /\ queued = 0 /\ in_stream = <<>>
    BY DEF Init
  <2>2. chip.state = "wait"
    BY DEF Init
  <2>3. Len(in_stream) = 0
    BY <2>1
  <2>4. queued = 0
    BY <2>1
  <2>5. Popped = 0
    BY <2>3, <2>4 DEF Popped
  <2> QED
    BY <2>1, <2>2, <2>5
<1>5. Chip /\ BytesIntact
  BY <1>4 DEF Chip, BytesIntact, Busy
<1> QED
  BY <1>1, <1>2, <1>3, <1>5 DEF IInv, TxInv

(* Queueing a byte changes nothing on the line.                           *)
LEMMA FeedStep == ASSUME IInv, Feed PROVE IInv'
<1> USE DEF IInv, TxInv
<1>1. /\ queued' = queued + 1 /\ in_stream' = Append(in_stream, queued + 1)
      /\ UNCHANGED <<baud_div, in_state, baud_count_in, in_byte_progress, rxd, held, chip, received>>
  BY DEF Feed
<1>2. /\ in_stream' \in Seq(Nat) /\ Len(in_stream') = Len(in_stream) + 1
      /\ \A i \in 1 .. Len(in_stream) : in_stream'[i] = in_stream[i]
      /\ in_stream'[Len(in_stream) + 1] = queued + 1
      /\ Len(in_stream) \in Nat /\ queued \in Nat
  BY <1>1 DEF TxTypes
<1>3. Popped' = Popped
  BY <1>1, <1>2 DEF Popped
<1>4. Rate' /\ TxTypes' /\ ChipTypes'
  BY <1>1, <1>2 DEF Rate, TxTypes, ChipTypes
<1>5. Stream'
  <2>1. ASSUME NEW i \in 1 .. Len(in_stream') PROVE in_stream'[i] = Popped' + i
    <3>1. CASE i \in 1 .. Len(in_stream)
      BY <1>2, <1>3, <3>1 DEF Stream
    <3>2. CASE i = Len(in_stream) + 1
      BY <1>2, <1>3, <3>2 DEF Popped
    <3> QED
      BY <1>2, <3>1, <3>2
  <2>2. Len(in_stream') <= queued' /\ in_stream' # <<>>
    BY <1>1, <1>2 DEF Stream
  <2> QED
    BY <2>1, <2>2 DEF Stream
<1>6. Line'
  BY <1>1, <1>3 DEF Line, Byte
<1>7. Chip' /\ BytesIntact'
  BY <1>1, <1>3 DEF Chip, BytesIntact, Busy, InFrame, Position, BitStart, Middle, Byte
<1> QED
  BY <1>4, <1>5, <1>6, <1>7

-----------------------------------------------------------------------------
(* The transmitter. *)

(* What a step of the transmitter means to the chip.                      *)
Moves ==
  \/ in_state = "IDLE" /\ in_state' = "IDLE" /\ Popped' = Popped
  \/ in_state = "IDLE" /\ in_state' = "START" /\ Position' = 0 /\ Popped' = Popped
  \/ /\ Busy /\ Busy' /\ Position' = Position + 1 /\ Popped' = Popped
     /\ Position = 0 => in_state' = "START"
     /\ in_byte_progress = 8 => in_state' = "BITS_BAUD" /\ in_byte_progress' = 8
  \/ /\ in_state = "BITS_BAUD" /\ in_state' = "STOP" /\ in_byte_progress = 8
     /\ Position = BitStart(7) + baud_div - 1 /\ baud_count_in' = 0 /\ Popped' = Popped + 1
  \/ /\ in_state = "STOP" /\ in_state' = "STOP" /\ baud_count_in' = baud_count_in + 1
     /\ Popped' = Popped
  \/ /\ in_state = "STOP" /\ in_state' = "IDLE" /\ baud_count_in + 1 = 2 * baud_div
     /\ Popped' = Popped

(* A transmitter step within a cycle.                                     *)
InCycle(A) ==
  /\ A /\ held' = (IF rxd' # rxd THEN 1 ELSE IF rxd = High THEN 0 ELSE held + 1)
  /\ UNCHANGED <<baud_div, queued>>

(* A start bit goes out when a byte waits.                                *)
LEMMA IdleStep == ASSUME TxInv, InCycle(TxIdle) PROVE TxInv' /\ Moves
<1> USE DEF TxInv, InCycle
<1>1. /\ UNCHANGED <<baud_div, queued, in_stream>> /\ in_state = "IDLE"
      /\ rxd = High /\ baud_count_in = 0 /\ queued \in Nat /\ Len(in_stream) \in Nat
      /\ held' = (IF rxd' # rxd THEN 1 ELSE 0)
  BY DEF TxIdle, TxCase, Line, TxTypes
<1>2. Popped' = Popped /\ Rate'
  BY <1>1 DEF Popped, Rate
<1>3. CASE in_stream = <<>>
  <2>1. in_state' = "IDLE" /\ baud_count_in' = 0 /\ rxd' = High /\ in_byte_progress' = in_byte_progress
    BY <1>1, <1>3 DEF TxIdle, TxCase
  <2>2. TxTypes' /\ Stream' /\ Line'
    BY <1>1, <1>2, <2>1 DEF TxTypes, Stream, Line, Busy, High
  <2> QED
    BY <1>1, <1>2, <2>1, <2>2 DEF Moves
<1>4. CASE in_stream # <<>>
  <2>1. in_state' = "START" /\ baud_count_in' = 1 /\ rxd' = StartBit /\ in_byte_progress' = 0
    BY <1>1, <1>4 DEF TxIdle, TxCase
  <2>2. held' = 1
    BY <1>1, <2>1 DEF High, StartBit
  <2>3. Line'
    BY <1>1, <2>1, <2>2 DEF Line, Rate
  <2>4. TxTypes' /\ Stream'
    BY <1>1, <1>2, <1>4, <2>1, <2>2 DEF TxTypes, Stream, StartBit
  <2>5. Position' = 0
    BY <2>1 DEF Position
  <2> QED
    BY <1>1, <1>2, <2>1, <2>3, <2>4, <2>5 DEF Moves
<1> QED
  BY <1>3, <1>4

(* The first data bit follows the start bit a cycle early.                *)
LEMMA StartStep == ASSUME TxInv, InCycle(TxStart) PROVE TxInv' /\ Moves
<1> USE DEF TxInv, InCycle
<1>1. /\ UNCHANGED <<baud_div, queued, in_stream>> /\ in_state = "START"
      /\ rxd = StartBit /\ in_byte_progress = 0 /\ baud_count_in \in Nat
      /\ 1 <= baud_count_in /\ baud_count_in <= baud_div - 1 /\ held = baud_count_in
      /\ queued \in Nat /\ Len(in_stream) \in Nat /\ baud_div \in Nat /\ baud_div >= 16
      /\ in_stream # <<>>
  BY DEF TxStart, TxCase, Line, TxTypes, Rate, Stream, Busy
<1>2. Popped' = Popped /\ Rate' /\ Position = baud_count_in - 1 /\ Busy
  BY <1>1 DEF Popped, Rate, Position, Busy
<1>3. CASE baud_count_in + 1 = baud_div
  <2>1. in_state' = "BITS_BAUD" /\ baud_count_in' = 0 /\ rxd' = <<Head(in_stream), 0>>
        /\ in_byte_progress' = 1
    BY <1>1, <1>3 DEF TxStart, TxCase
  <2>2. Head(in_stream) = Byte /\ Byte \in Nat /\ Byte > 0
    <3>1. Head(in_stream) = in_stream[1] /\ in_stream[1] = Popped + 1
      BY <1>1 DEF Stream, TxTypes
    <3>2. Popped \in Nat
      BY <1>1 DEF Popped, Stream
    <3> QED
      BY <3>1, <3>2 DEF Byte
  <2>3. held' = 1
    BY <1>1, <2>1, <2>2 DEF StartBit
  <2>4. Byte' = Byte
    BY <1>2 DEF Byte
  <2>5. Line'
    BY <1>1, <2>1, <2>2, <2>3, <2>4 DEF Line
  <2>6. TxTypes' /\ Stream'
    BY <1>1, <1>2, <2>1, <2>2, <2>3 DEF TxTypes, Stream
  <2>7. Position' = baud_div - 1
    BY <1>1, <2>1 DEF Position, BitStart
  <2>8. Position' = Position + 1 /\ Position # 0
    BY <1>1, <1>2, <1>3, <2>7
  <2> QED
    BY <1>1, <1>2, <2>1, <2>5, <2>6, <2>8 DEF Moves, Busy
<1>4. CASE baud_count_in + 1 # baud_div
  <2>1. in_state' = "START" /\ baud_count_in' = baud_count_in + 1
        /\ rxd' = rxd /\ in_byte_progress' = in_byte_progress
    BY <1>1, <1>4 DEF TxStart, TxCase
  <2>2. held' = held + 1
    BY <1>1, <2>1 DEF High, StartBit
  <2>3. Line'
    BY <1>1, <1>4, <2>1, <2>2 DEF Line
  <2>4. TxTypes' /\ Stream'
    BY <1>1, <1>2, <2>1, <2>2 DEF TxTypes, Stream
  <2>5. Position' = Position + 1
    BY <1>1, <1>2, <2>1 DEF Position
  <2> QED
    BY <1>1, <1>2, <2>1, <2>3, <2>4, <2>5 DEF Moves, Busy
<1> QED
  BY <1>3, <1>4

(* The cycle after a bit's count has run out: the next bit.               *)
LEMMA BitsStep == ASSUME TxInv, InCycle(TxBits) PROVE TxInv' /\ Moves
<1> USE DEF TxInv, InCycle
<1>1. /\ UNCHANGED <<baud_div, queued, in_stream>> /\ in_state = "BITS"
      /\ rxd = <<Byte, in_byte_progress - 1>> /\ in_byte_progress \in 1 .. 7
      /\ held = baud_div + 1 /\ queued \in Nat /\ Len(in_stream) \in Nat
      /\ baud_div \in Nat /\ baud_div >= 16 /\ in_stream # <<>>
  BY DEF TxBits, TxCase, Line, TxTypes, Rate, Stream, Busy
<1>2. Popped' = Popped /\ Rate' /\ Busy /\ Byte' = Byte
  BY <1>1 DEF Popped, Rate, Busy, Byte
<1>3. in_state' = "BITS_BAUD" /\ baud_count_in' = 0 /\ rxd' = <<Head(in_stream), in_byte_progress>>
      /\ in_byte_progress' = in_byte_progress + 1
  BY DEF TxBits, TxCase, NextBit
<1>4. Head(in_stream) = Byte /\ Byte \in Nat /\ Byte > 0
  <2>1. Head(in_stream) = in_stream[1] /\ in_stream[1] = Popped + 1
    BY <1>1 DEF Stream, TxTypes
  <2>2. Popped \in Nat
    BY <1>1 DEF Popped, Stream
  <2> QED
    BY <2>1, <2>2 DEF Byte
<1>5. held' = 1
  BY <1>1, <1>3, <1>4
<1>6. Line'
  BY <1>1, <1>2, <1>3, <1>4, <1>5 DEF Line
<1>7. TxTypes' /\ Stream'
  BY <1>1, <1>2, <1>3, <1>4, <1>5 DEF TxTypes, Stream
<1>8. Position' = Position + 1 /\ Position # 0
  <2>1. PICK j \in 1 .. 7 : j = in_byte_progress
    BY <1>1
  <2>2. Position = baud_div - 1 + (j - 1) * (baud_div + 1) + baud_div
    BY <1>1, <2>1 DEF BitStart, Position
  <2>3. in_byte_progress' - 1 = j /\ baud_div' = baud_div /\ baud_count_in' = 0
    BY <1>1, <1>3, <2>1
  <2>4. Position' = baud_div' - 1 + (in_byte_progress' - 1) * (baud_div' + 1) + baud_count_in'
    BY <1>3 DEF BitStart, Position
  <2>5. Position' = baud_div - 1 + j * (baud_div + 1)
    BY <1>1, <2>3, <2>4
  <2>6. j * (baud_div + 1) = (j - 1) * (baud_div + 1) + (baud_div + 1)
    BY <1>1, <2>1
  <2>7. (j - 1) * (baud_div + 1) \in Nat
    BY <1>1, <2>1
  <2> QED
    BY <1>1, <2>2, <2>5, <2>6, <2>7
<1> QED
  BY <1>1, <1>2, <1>3, <1>6, <1>7, <1>8 DEF Moves, Busy

(* A bit's count, and after the last one the byte is dropped.             *)
LEMMA BitsBaudStep == ASSUME TxInv, InCycle(TxBitsBaud) PROVE TxInv' /\ Moves
<1> USE DEF TxInv, InCycle
<1>1. /\ UNCHANGED <<baud_div, queued, in_byte_progress, rxd>> /\ in_state = "BITS_BAUD"
      /\ rxd = <<Byte, in_byte_progress - 1>> /\ in_byte_progress \in 1 .. 8
      /\ baud_count_in \in Nat /\ baud_count_in < baud_div /\ held = baud_count_in + 1
      /\ queued \in Nat /\ Len(in_stream) \in Nat
      /\ baud_div \in Nat /\ baud_div >= 16 /\ in_stream # <<>>
  BY DEF TxBitsBaud, TxCase, Line, TxTypes, Rate, Stream, Busy
<1>2. Rate' /\ Busy /\ Position = BitStart(in_byte_progress - 1) + baud_count_in
  BY <1>1 DEF Rate, Busy, Position
<1>3. Byte \in Nat /\ Byte > 0
  BY <1>1 DEF Byte, Popped, Stream
<1>4. held' = held + 1
  BY <1>1, <1>3 DEF High
<1>5. BitStart(in_byte_progress - 1) \in Nat /\ BitStart(in_byte_progress - 1) > 0
      /\ BitStart(in_byte_progress - 1)' = BitStart(in_byte_progress - 1)
  <2>1. in_byte_progress - 1 \in Nat
    BY <1>1
  <2>2. (in_byte_progress - 1) * (baud_div + 1) \in Nat
    BY <1>1, <2>1
  <2> QED
    BY <1>1, <2>1, <2>2 DEF BitStart
<1>6. CASE baud_count_in + 1 # baud_div
  <2>1. in_state' = "BITS_BAUD" /\ baud_count_in' = baud_count_in + 1 /\ in_stream' = in_stream
    BY <1>1, <1>6 DEF TxBitsBaud, TxCase
  <2>2. Popped' = Popped /\ Byte' = Byte
    BY <1>1, <2>1 DEF Popped, Byte
  <2>3. Line'
    BY <1>1, <1>4, <1>6, <2>1, <2>2 DEF Line
  <2>4. TxTypes' /\ Stream'
    BY <1>1, <1>4, <2>1, <2>2 DEF TxTypes, Stream
  <2>5. Position' = BitStart(in_byte_progress - 1)' + (baud_count_in + 1)
    BY <2>1 DEF Position
  <2>6. Position' = Position + 1 /\ Position # 0
    BY <1>1, <1>2, <1>5, <2>5
  <2> QED
    BY <1>1, <1>2, <2>1, <2>2, <2>3, <2>4, <2>6 DEF Moves, Busy
<1>7. CASE baud_count_in + 1 = baud_div /\ in_byte_progress # 8
  <2>1. in_state' = "BITS" /\ baud_count_in' = 0 /\ in_stream' = in_stream
    BY <1>1, <1>7 DEF TxBitsBaud, TxCase, LastBit
  <2>2. Popped' = Popped /\ Byte' = Byte
    BY <1>1, <2>1 DEF Popped, Byte
  <2>3. Line'
    BY <1>1, <1>4, <1>7, <2>1, <2>2 DEF Line
  <2>4. TxTypes' /\ Stream'
    BY <1>1, <1>4, <2>1, <2>2 DEF TxTypes, Stream
  <2>5. Position' = BitStart(in_byte_progress - 1)' + baud_div
    BY <1>1, <2>1 DEF Position
  <2>6. Position' = Position + 1 /\ Position # 0
    BY <1>1, <1>2, <1>5, <1>7, <2>5
  <2> QED
    BY <1>1, <1>2, <1>7, <2>1, <2>2, <2>3, <2>4, <2>6 DEF Moves, Busy
<1>8. CASE baud_count_in + 1 = baud_div /\ in_byte_progress = 8
  <2>1. in_state' = "STOP" /\ baud_count_in' = 0 /\ in_stream' = Tail(in_stream)
    BY <1>1, <1>8 DEF TxBitsBaud, TxCase, LastBit
  <2>2. /\ in_stream' \in Seq(Nat) /\ Len(in_stream') = Len(in_stream) - 1 /\ Len(in_stream') \in Nat
        /\ \A i \in 1 .. Len(in_stream') : in_stream'[i] = in_stream[i + 1] /\ i + 1 \in 1 .. Len(in_stream)
    BY <1>1, <2>1 DEF TxTypes
  <2>3. Popped' = Popped + 1 /\ Popped \in Nat /\ Byte = Popped + 1
    BY <1>1, <2>2 DEF Popped, Byte, Stream
  <2>4. Stream'
    <3>1. ASSUME NEW i \in 1 .. Len(in_stream') PROVE in_stream'[i] = Popped' + i
      <4>1. in_stream'[i] = Popped + (i + 1)
        BY <2>2 DEF Stream
      <4> QED
        BY <2>3, <4>1
    <3>2. Len(in_stream') <= queued'
      BY <1>1, <2>2 DEF Stream
    <3> QED
      BY <2>1, <3>1, <3>2 DEF Stream, Busy
  <2>5. Line'
    BY <1>1, <1>4, <1>8, <2>1, <2>3 DEF Line
  <2>6. TxTypes'
    BY <1>1, <1>4, <2>1, <2>2 DEF TxTypes
  <2>7. Position = BitStart(7) + baud_div - 1
    BY <1>1, <1>2, <1>5, <1>8
  <2> QED
    BY <1>1, <1>2, <1>8, <2>1, <2>3, <2>4, <2>5, <2>6, <2>7 DEF Moves
<1> QED
  BY <1>6, <1>7, <1>8

(* Two stop bits.                                                         *)
LEMMA StopStep == ASSUME TxInv, InCycle(TxStop) PROVE TxInv' /\ Moves
<1> USE DEF TxInv, InCycle
<1>1. /\ UNCHANGED <<baud_div, queued, in_stream, in_byte_progress>> /\ in_state = "STOP"
      /\ rxd' = High /\ baud_count_in \in Nat /\ baud_count_in < 2 * baud_div
      /\ queued \in Nat /\ Len(in_stream) \in Nat /\ baud_div \in Nat /\ baud_div >= 16
  BY DEF TxStop, TxCase, Line, TxTypes, Rate
<1>2. Popped' = Popped /\ Rate'
  BY <1>1 DEF Popped, Rate
<1>3. held' \in Nat
  BY DEF TxTypes
<1>4. \/ in_state' = "IDLE" /\ baud_count_in' = 0 /\ baud_count_in + 1 = 2 * baud_div
      \/ in_state' = "STOP" /\ baud_count_in' = baud_count_in + 1 /\ baud_count_in + 1 # 2 * baud_div
  BY DEF TxStop, TxCase, StopCount
<1>5. Line'
  BY <1>1, <1>4 DEF Line
<1>6. TxTypes' /\ Stream'
  BY <1>1, <1>2, <1>3, <1>4 DEF TxTypes, Stream, Busy, High
<1> QED
  BY <1>1, <1>2, <1>4, <1>5, <1>6 DEF Moves

-----------------------------------------------------------------------------
(* The chip. *)

(* Multiples of a bit.                                                    *)
LEMMA Multiples ==
  ASSUME NEW m \in Nat, NEW k \in Nat, NEW B \in Nat
  PROVE  /\ m * B \in Nat /\ m * (B + 1) = m * B + m /\ (m + 1) * B = m * B + B
         /\ m < k => m * B + B <= k * B
<1>1. m * B \in Nat /\ k * B \in Nat
  OBVIOUS
<1>2. m * (B + 1) = m * B + m /\ (m + 1) * B = m * B + B
  OBVIOUS
<1>3. ASSUME m < k PROVE m * B + B <= k * B
  <2>1. PICK d \in Nat : k = m + 1 + d
    <3>1. k - m - 1 \in Nat /\ k = m + 1 + (k - m - 1)
      BY <1>3
    <3> QED
      BY <3>1
  <2>2. d * B \in Nat
    OBVIOUS
  <2>3. k * B = m * B + B + d * B
    BY <2>1
  <2> QED
    BY <1>1, <2>2, <2>3
<1> QED
  BY <1>1, <1>2, <1>3

(* A cycle up to half a bit after the chip's middle of bit k is in bit k, *)
(* though bits are a cycle longer than the chip counts.                   *)
LEMMA SampledInBit ==
  ASSUME NEW B \in Nat, B >= 16, NEW h \in Nat, 2 * h = B, NEW L \in Nat, L < h,
         NEW m \in 0 .. 7, NEW k \in 0 .. 7, NEW e \in 0 .. B, NEW P \in Int,
         P = B - 1 + m * (B + 1) + e, h + (k + 1) * B <= P, P <= h + (k + 1) * B + L
  PROVE  m = k
<1>1. PICK x \in Nat : x = m * B /\ m * (B + 1) = x + m
  BY Multiples
<1>2. PICK y \in Nat : y = k * B /\ (k + 1) * B = y + B
  BY Multiples
<1>3. P = B - 1 + x + m + e /\ h + y + B <= P /\ P <= h + y + B + L
  BY <1>1, <1>2
<1>4. m < k => x + B <= y
  BY <1>1, <1>2, Multiples
<1>5. k < m => y + B <= x
  BY <1>1, <1>2, Multiples
<1> QED
  BY <1>3, <1>4, <1>5

(* A frame in progress.                                                   *)
LEMMA FrameTypes ==
  ASSUME ChipTypes, InFrame
  PROVE  /\ Len(chip.bits) \in 0 .. 7 /\ chip.c \in Int /\ chip.bits \in Seq(Nat \X Nat)
         /\ \A i \in 1 .. Len(chip.bits) : chip.bits[i] = <<Byte, i - 1>>
<1>1. chip.c \in Int /\ chip.bits \in Seq(Nat \X Nat)
  BY DEF ChipTypes
<1>2. PICK k \in Nat : k = Len(chip.bits)
  BY <1>1
<1>3. k < 8
  BY <1>2 DEF InFrame
<1>4. k \in 0 .. 7
  BY <1>3
<1> QED
  BY <1>1, <1>2, <1>4 DEF InFrame

(* Positions are numbers.                                                 *)
LEMMA PositionType == ASSUME TxInv, Busy PROVE Position \in Int
<1> USE DEF TxInv
<1>1. CASE in_state = "START"
  BY <1>1 DEF Position, TxTypes
<1>2. CASE in_state # "START"
  <2>1. PICK m \in Nat : m = in_byte_progress - 1
    BY <1>2 DEF Busy, Line, TxTypes
  <2>2. PICK B \in Nat : B = baud_div
    BY DEF Rate
  <2>3. m * (B + 1) \in Nat
    OBVIOUS
  <2>4. BitStart(in_byte_progress - 1) \in Int
    BY <2>1, <2>2, <2>3 DEF BitStart
  <2> QED
    BY <1>2, <2>2, <2>4 DEF Position, TxTypes
<1> QED
  BY <1>1, <1>2

(* What the chip samples is the bit it waits for.                         *)
LEMMA Sample ==
  ASSUME TxInv, ChipTypes, Busy, InFrame, chip.c = Middle(Len(chip.bits))
  PROVE  in_state # "START" /\ in_byte_progress = Len(chip.bits) + 1 /\ rxd = <<Byte, Len(chip.bits)>>
<1> USE DEF TxInv
<1>1. PICK k \in 0 .. 7 : k = Len(chip.bits)
  BY FrameTypes
<1>2. PICK B \in Nat : B = baud_div /\ B >= 16
  BY DEF Rate
<1>3. PICK h \in Nat : h = baud_div \div 2 /\ 2 * h = B /\ Latency < h
  BY <1>2 DEF Rate
<1>4. chip.c = h + (k + 1) * B /\ chip.c <= Position /\ Position <= chip.c + Latency
  BY <1>1, <1>2, <1>3 DEF Middle, InFrame
<1>5. (k + 1) * B \in Nat /\ (k + 1) * B >= B
  BY Multiples
<1>6. in_state # "START"
  <2> SUFFICES ASSUME in_state = "START" PROVE FALSE
    OBVIOUS
  <2>1. baud_count_in \in Nat /\ baud_count_in <= B - 1 /\ Position = baud_count_in - 1
    BY <1>2 DEF Line, TxTypes, Position
  <2> QED
    BY <1>2, <1>4, <1>5, <2>1
<1>7. in_byte_progress \in 1 .. 8 /\ rxd = <<Byte, in_byte_progress - 1>>
  BY <1>6 DEF Busy, Line, TxTypes
<1>8. PICK m \in 0 .. 7 : m = in_byte_progress - 1
  BY <1>7
<1>9. PICK e \in 0 .. B : Position = B - 1 + m * (B + 1) + e
  <2>1. CASE in_state = "BITS"
    BY <1>2, <1>8, <2>1 DEF Position, BitStart
  <2>2. CASE in_state = "BITS_BAUD"
    <3>1. baud_count_in \in 0 .. B
      BY <1>2, <2>2 DEF Line, TxTypes
    <3> QED
      BY <1>2, <1>8, <2>2, <3>1 DEF Position, BitStart
  <2> QED
    BY <1>6, <2>1, <2>2 DEF Busy
<1>10. Position \in Int
  <2>1. m * (B + 1) \in Nat
    BY Multiples
  <2> QED
    BY <1>9, <2>1
<1>11. m = k
  BY <1>2, <1>3, <1>4, <1>9, <1>10, SampledInBit, UartAssumption
<1>12. in_byte_progress = k + 1
  BY <1>7, <1>8, <1>11
<1> QED
  BY <1>1, <1>6, <1>7, <1>12

(* When the last bit ends, the chip has sampled it.                       *)
LEMMA LastSampled ==
  ASSUME TxInv, ChipTypes, InFrame, Position = BitStart(7) + baud_div - 1
  PROVE  FALSE
<1> USE DEF TxInv
<1>1. PICK k \in 0 .. 7 : k = Len(chip.bits)
  BY FrameTypes
<1>2. PICK B \in Nat : B = baud_div /\ B >= 16
  BY DEF Rate
<1>3. PICK h \in Nat : h = baud_div \div 2 /\ 2 * h = B /\ Latency < h
  BY <1>2 DEF Rate
<1>4. chip.c \in Int /\ Position <= chip.c + Latency /\ chip.c <= h + (k + 1) * B
  BY <1>1, <1>2, <1>3 DEF Middle, InFrame, ChipTypes
<1>5. (k + 1) * B <= 8 * B
  <2>1. k + 1 <= 7 => (k + 1) * B + B <= 8 * B
    BY Multiples
  <2>2. (k + 1) * B \in Nat
    OBVIOUS
  <2> QED
    BY <2>1, <2>2
<1>6. Position = B - 1 + 7 * (B + 1) + B - 1
  BY <1>2 DEF BitStart
<1> QED
  BY <1>2, <1>3, <1>4, <1>5, <1>6, UartAssumption

(* A frame starts when the chip sees the start bit.                       *)
LEMMA WaitStep ==
  ASSUME IInv, Moves, ChipWait, TxInv', baud_div' = baud_div
  PROVE  ChipTypes' /\ Chip' /\ BytesIntact'
<1> USE DEF IInv, TxInv
<1>1. chip.state = "wait" /\ received' = received /\ BytesIntact'
  BY DEF ChipWait, BytesIntact
<1>2. CASE rxd = StartBit
  <2>1. PICK l \in 0 .. Latency : chip' = [state |-> "frame", c |-> 1 - l, bits |-> <<>>]
    BY <1>2 DEF ChipWait
  <2>2. chip'.state = "frame" /\ chip'.c = 1 - l /\ chip'.bits = <<>> /\ l \in Nat /\ l <= Latency
    BY <2>1, UartAssumption
  <2>3. ChipTypes'
    BY <1>1, <2>1, UartAssumption DEF ChipTypes
  <2>4. in_state = "START" /\ Position = 0
    <3>1. rxd # High
      BY <1>2 DEF StartBit, High
    <3>2. in_state # "IDLE" /\ ~(in_state = "STOP" /\ baud_count_in > 1)
      BY <3>1 DEF Line, TxTypes
    <3> QED
      BY <1>1, <3>2 DEF Chip
  <2>5. in_state' = "START" /\ Position' = 1 /\ Popped' = Popped
    BY <2>4 DEF Moves
  <2>6. InFrame'
    <3>1. Middle(0)' >= 1 /\ Len(chip'.bits) = 0
      BY <2>2 DEF Middle, Rate
    <3>2. chip'.c <= 1 /\ 1 <= chip'.c + Latency
      BY <2>2, UartAssumption
    <3>3. chip'.c <= Middle(Len(chip.bits))'
      BY <2>2, <3>1 DEF Middle, Rate
    <3> QED
      BY <2>5, <3>1, <3>2, <3>3 DEF InFrame
  <2>7. Len(received') = Popped'
    BY <1>1, <2>4, <2>5 DEF Chip, Busy
  <2> QED
    BY <1>1, <2>2, <2>3, <2>5, <2>6, <2>7 DEF Chip, Busy
<1>3. CASE rxd # StartBit
  <2>1. chip' = chip
    BY <1>3 DEF ChipWait
  <2>2. in_state = "IDLE" \/ (in_state = "STOP" /\ baud_count_in > 1)
    BY <1>1, <1>3 DEF Chip, Line
  <2>3. /\ Popped' = Popped
        /\ \/ in_state' = "IDLE"
           \/ in_state' = "START" /\ Position' = 0
           \/ in_state' = "STOP" /\ baud_count_in' > 1
    BY <2>2 DEF Moves, TxTypes, Busy
  <2>4. Len(received) = Popped
    BY <1>1 DEF Chip
  <2>5. ChipTypes'
    BY <1>1, <2>1 DEF ChipTypes
  <2>6. chip'.state = "wait" /\ Len(received') = Popped'
    <3>1. chip'.state = "wait"
      BY <1>1, <2>1
    <3>2. Popped' = Popped
      BY <2>3
    <3> QED
      BY <1>1, <2>4, <3>1, <3>2
  <2> QED
    BY <1>1, <2>3, <2>5, <2>6 DEF Chip
<1> QED
  BY <1>2, <1>3

(* A byte is complete when its last bit is still on the line.             *)
LEMMA FrameStep ==
  ASSUME IInv, Moves, ChipFrame, TxInv', baud_div' = baud_div
  PROVE  ChipTypes' /\ Chip' /\ BytesIntact'
<1> USE DEF IInv, TxInv
<1>1. chip.state = "frame" /\ Busy /\ InFrame
  BY DEF ChipFrame, Chip
<1>2. /\ Busy' /\ Position' = Position + 1 /\ Popped' = Popped
      /\ in_byte_progress = 8 => in_state' = "BITS_BAUD" /\ in_byte_progress' = 8
  BY <1>1, LastSampled DEF Moves, Busy
<1>3. PICK k \in 0 .. 7 : k = Len(chip.bits)
  BY <1>1, FrameTypes
<1>4. Byte' = Byte /\ Len(received) = Popped /\ Popped \in Nat
  BY <1>1, <1>2 DEF Byte, Chip, Popped, Stream, TxTypes
<1>5. /\ chip.bits \in Seq(Nat \X Nat) /\ chip.c \in Int /\ Position \in Int
      /\ \A i \in 1 .. k : chip.bits[i] = <<Byte, i - 1>>
  BY <1>1, <1>3, FrameTypes, PositionType
<1>6. received \in Seq(Seq(Nat \X Nat)) /\ rxd \in Nat \X Nat
  BY DEF ChipTypes, TxTypes
<1>7. chip.c <= Position /\ Position <= chip.c + Latency /\ Position > 0 /\ chip.c <= Middle(k)
  BY <1>1, <1>3 DEF InFrame
<1>8. chip.c + 1 <= Position' /\ Position' <= chip.c + 1 + Latency /\ Position' > 0
  BY <1>2, <1>5, <1>7, UartAssumption
<1>9. Middle(k) \in Nat /\ Middle(k + 1) \in Nat /\ Middle(k) < Middle(k + 1)
      /\ \A n \in Nat : Middle(n)' = Middle(n)
  <2>1. PICK B \in Nat : B = baud_div /\ B >= 16
    BY DEF Rate
  <2>2. PICK h \in Nat : h = baud_div \div 2
    BY DEF Rate
  <2>3. PICK x \in Nat : (k + 1) * B = x
    BY Multiples
  <2>4. ((k + 1) + 1) * B = x + B
    BY <2>3, Multiples
  <2>5. Middle(k) = h + x /\ Middle(k + 1) = h + x + B
    BY <2>1, <2>2, <2>3, <2>4 DEF Middle
  <2> QED
    BY <2>1, <2>5 DEF Middle
<1>10. PICK b \in Seq(Nat \X Nat), c \in Int :
          b = chip.bits /\ c = chip.c /\ chip = [state |-> "frame", c |-> c, bits |-> b]
  BY <1>1, <1>5 DEF ChipTypes
<1>11. CASE chip.c # Middle(k)
  <2>1. chip' = [state |-> "frame", c |-> c + 1, bits |-> b] /\ received' = received
    <3>1. Len(chip.bits) # 8 /\ chip.c # Middle(Len(chip.bits))
      <4>1. k # 8
        OBVIOUS
      <4> QED
        BY <1>3, <1>11, <4>1, Zenon
    <3>2. chip' = [chip EXCEPT !.c = chip.c + 1, !.bits = chip.bits] /\ received' = received
      BY <3>1 DEF ChipFrame
    <3>3. chip' = [[state |-> "frame", c |-> c, bits |-> b] EXCEPT !.c = c + 1, !.bits = b]
      BY <1>10, <3>2, Zenon
    <3> QED
      BY <3>2, <3>3
  <2>2. chip'.state = "frame" /\ chip'.c = chip.c + 1 /\ chip'.bits = chip.bits
    BY <1>10, <2>1
  <2>3. ChipTypes' /\ BytesIntact'
    BY <1>6, <1>10, <2>1 DEF ChipTypes, BytesIntact
  <2>4. chip.c + 1 <= Middle(k)
    BY <1>5, <1>7, <1>9, <1>11
  <2>5. InFrame'
    <3>1. chip'.c <= Position' /\ Position' <= chip'.c + Latency /\ Position' > 0
      BY <1>8, <2>2
    <3>2. Len(chip'.bits) = k /\ k < 8
      <4>1. chip'.bits = chip.bits
        BY <2>2
      <4>2. Len(chip'.bits) = k
        BY <1>3, <4>1
      <4> QED
        BY <4>2
    <3>3. \A i \in 1 .. k : chip'.bits[i] = <<Byte', i - 1>>
      BY <1>4, <1>5, <2>2
    <3>4. chip'.c <= Middle(Len(chip.bits))'
      BY <1>9, <2>2, <2>4, <3>2 DEF Middle
    <3> QED
      BY <3>1, <3>2, <3>3, <3>4 DEF InFrame
  <2>6. Len(received') = Popped'
    BY <1>2, <1>4, <2>1
  <2> QED
    BY <1>2, <2>2, <2>3, <2>5, <2>6 DEF Chip
<1>12. CASE chip.c = Middle(k)
  <2> DEFINE bits == Append(chip.bits, rxd)
  <2>1. in_byte_progress = k + 1 /\ rxd = <<Byte, k>> /\ in_state # "START"
    BY <1>1, <1>3, <1>12, Sample
  <2>2. bits \in Seq(Nat \X Nat) /\ Len(bits) = k + 1
        /\ \A i \in 1 .. k + 1 : bits[i] = <<Byte, i - 1>>
    <3>1. bits \in Seq(Nat \X Nat) /\ Len(bits) = k + 1 /\ bits[k + 1] = <<Byte, k>>
          /\ \A i \in 1 .. k : bits[i] = chip.bits[i]
      BY <1>3, <1>5, <1>6, <2>1
    <3>2. ASSUME NEW i \in 1 .. k + 1 PROVE bits[i] = <<Byte, i - 1>>
      <4>1. CASE i \in 1 .. k
        BY <1>5, <3>1, <4>1
      <4>2. CASE i = k + 1
        <5>1. i - 1 = k
          BY <4>2
        <5> QED
          BY <3>1, <4>2, <5>1
      <4>3. i \in 1 .. k \/ i = k + 1
        OBVIOUS
      <4> QED
        BY <4>1, <4>2, <4>3, Zenon
    <3> QED
      BY <3>1, <3>2
  <2>3. IF Len(bits) = 8
        THEN /\ received' = Append(received, bits)
             /\ chip' = [state |-> "stop", c |-> 0, bits |-> <<>>]
        ELSE /\ chip' = [chip EXCEPT !.c = chip.c + 1, !.bits = bits]
             /\ received' = received
    BY <1>3, <1>12 DEF ChipFrame
  <2> HIDE DEF bits
  <2>4. CASE k < 7
    <3>1. chip' = [state |-> "frame", c |-> c + 1, bits |-> bits] /\ received' = received
      <4>1. Len(bits) # 8
        BY <2>2, <2>4
      <4>2. chip' = [chip EXCEPT !.c = chip.c + 1, !.bits = bits] /\ received' = received
        BY <2>3, <4>1
      <4>3. chip' = [[state |-> "frame", c |-> c, bits |-> b] EXCEPT !.c = c + 1, !.bits = bits]
        BY <1>10, <4>2, Zenon
      <4> QED
        BY <4>2, <4>3
    <3>2. chip'.state = "frame" /\ chip'.c = chip.c + 1 /\ chip'.bits = bits
      BY <1>10, <3>1
    <3>3. ChipTypes' /\ BytesIntact'
      BY <1>6, <1>10, <2>2, <3>1 DEF ChipTypes, BytesIntact
    <3>4. InFrame'
      <4>1. chip'.c <= Position' /\ Position' <= chip'.c + Latency /\ Position' > 0
        BY <1>8, <3>2
      <4>2. Len(chip'.bits) = k + 1 /\ k + 1 < 8
        BY <2>2, <2>4, <3>2
      <4>3. \A i \in 1 .. k + 1 : chip'.bits[i] = <<Byte', i - 1>>
        BY <1>4, <2>2, <3>2
      <4>4. chip'.c <= Middle(k + 1)
        BY <1>5, <1>9, <1>12, <3>2
      <4>5. chip'.c <= Middle(Len(chip.bits))'
        BY <4>2, <4>4 DEF Middle
      <4> QED
        BY <4>1, <4>2, <4>3, <4>5 DEF InFrame
    <3>5. Len(received') = Popped'
      BY <1>2, <1>4, <3>1
    <3> QED
      BY <1>2, <3>2, <3>3, <3>4, <3>5 DEF Chip
  <2>5. CASE k = 7
    <3>1. received' = Append(received, bits) /\ chip' = [state |-> "stop", c |-> 0, bits |-> <<>>]
      BY <2>2, <2>3, <2>5
    <3>2. chip'.state = "stop" /\ ChipTypes'
      BY <1>6, <2>2, <3>1 DEF ChipTypes
    <3>3. in_state' = "BITS_BAUD" /\ in_byte_progress' = 8
      BY <1>2, <2>1, <2>5
    <3>4. Len(received') = Byte /\ Byte = Len(received) + 1
      BY <1>4, <1>6, <3>1 DEF Byte
    <3>5. Chip'
      BY <1>2, <1>4, <3>2, <3>3, <3>4 DEF Chip
    <3>6. bits = [i \in 1 .. 8 |-> <<Byte, i - 1>>]
      <4>1. bits = [i \in 1 .. Len(bits) |-> bits[i]]
        BY <2>2
      <4>2. Len(bits) = 8 /\ \A i \in 1 .. 8 : bits[i] = <<Byte, i - 1>>
        BY <2>2, <2>5
      <4>3. bits = [i \in 1 .. 8 |-> bits[i]]
        BY <4>1, <4>2
      <4> QED
        BY <4>2, <4>3
    <3>7. /\ DOMAIN received = 1 .. Len(received) /\ DOMAIN received' = 1 .. Len(received) + 1
          /\ received'[Len(received) + 1] = bits
          /\ \A n \in 1 .. Len(received) : received'[n] = received[n]
      BY <1>6, <2>2, <3>1
    <3>8. ASSUME NEW n \in DOMAIN received' PROVE received'[n] = [i \in 1 .. 8 |-> <<n, i - 1>>]
      <4>1. CASE n \in 1 .. Len(received)
        BY <3>7, <4>1 DEF BytesIntact
      <4>2. CASE n = Len(received) + 1
        BY <3>4, <3>6, <3>7, <4>2
      <4>3. Len(received) \in Nat
        BY <1>6
      <4> QED
        BY <3>7, <4>1, <4>2, <4>3
    <3> QED
      BY <3>2, <3>5, <3>8 DEF BytesIntact
  <2> QED
    BY <2>4, <2>5
<1> QED
  BY <1>11, <1>12

(* The chip waits for the line to rise.                                   *)
LEMMA HighStep ==
  ASSUME IInv, Moves, ChipStop, TxInv', baud_div' = baud_div
  PROVE  ChipTypes' /\ Chip' /\ BytesIntact'
<1> USE DEF IInv, TxInv
<1>1. chip.state = "stop" /\ received' = received /\ BytesIntact'
  BY DEF ChipStop, BytesIntact
<1>2. chip'.state = (IF rxd = High THEN "wait" ELSE "stop") /\ ChipTypes'
  BY <1>1 DEF ChipStop, ChipTypes
<1>3. CASE in_state = "BITS_BAUD" /\ in_byte_progress = 8
  <2>1. Popped \in Nat /\ rxd = <<Popped + 1, 7>> /\ Busy /\ Len(received) = Popped + 1
    BY <1>1, <1>3 DEF Line, Byte, Popped, Stream, TxTypes, Busy, Chip
  <2>2. rxd # High
    BY <2>1 DEF High
  <2>3. CASE in_state' = "STOP"
    BY <1>1, <1>2, <1>3, <2>1, <2>2, <2>3 DEF Moves, Chip, Busy
  <2>4. CASE in_state' = "BITS_BAUD" /\ in_byte_progress' = 8 /\ Popped' = Popped
    BY <1>1, <1>2, <2>1, <2>2, <2>4 DEF Chip, Busy, Byte
  <2> QED
    BY <1>3, <2>3, <2>4 DEF Moves
<1>4. CASE in_state = "STOP" /\ baud_count_in <= 1
  <2>1. baud_count_in \in {0, 1} /\ Len(received) = Popped
    BY <1>1, <1>4 DEF TxTypes, Chip, Busy
  <2>2. in_state' = "STOP" /\ baud_count_in' = baud_count_in + 1 /\ Popped' = Popped
    BY <1>4, <2>1 DEF Moves, Rate, Busy
  <2>3. rxd = High <=> baud_count_in = 1
    BY <1>4, <2>1 DEF Line, High
  <2> QED
    BY <1>1, <1>2, <2>1, <2>2, <2>3 DEF Chip, Busy
<1> QED
  BY <1>1, <1>3, <1>4 DEF Chip

-----------------------------------------------------------------------------
(* A clock cycle is one step of the transmitter.                          *)
LEMMA TxStep == ASSUME TxInv, Cycle PROVE TxInv' /\ Moves /\ baud_div' = baud_div
<1>1. \/ InCycle(TxIdle) \/ InCycle(TxStart) \/ InCycle(TxBits)
      \/ InCycle(TxBitsBaud) \/ InCycle(TxStop)
  BY DEF Cycle, Tx, InCycle
<1>2. TxInv' /\ Moves
  BY <1>1, IdleStep, StartStep, BitsStep, BitsBaudStep, StopStep
<1> QED
  BY <1>2 DEF Cycle

(* Every step preserves the invariant.                                    *)
LEMMA NextIInv == IInv /\ [Next]_vars => IInv'
<1> SUFFICES ASSUME IInv, [Next]_vars PROVE IInv'
  OBVIOUS
<1>1. CASE Feed
  BY <1>1, FeedStep
<1>2. CASE Cycle
  <2>1. TxInv' /\ Moves /\ baud_div' = baud_div
    BY <1>2, TxStep DEF IInv
  <2>2. ChipWait \/ ChipFrame \/ ChipStop
    BY <1>2 DEF Cycle
  <2>3. ChipTypes' /\ Chip' /\ BytesIntact'
    BY <2>1, <2>2, WaitStep, FrameStep, HighStep
  <2> QED
    BY <2>1, <2>3 DEF IInv
<1>3. CASE UNCHANGED vars
  BY <1>3 DEF vars, line, IInv, TxInv, Rate, TxTypes, Stream, Line, ChipTypes, Chip, BytesIntact,
              InFrame, Position, BitStart, Middle, Busy, Byte, Popped
<1> QED
  BY <1>1, <1>2, <1>3 DEF Next

(* The chip is never more than Latency behind the line, and has sampled   *)
(* each bit of the byte whose middle has passed.                          *)
THEOREM Invariance == Spec => []IInv
  BY InitIInv, NextIInv, PTL DEF Spec

(* Bytes arrive whole and in order at every divisor set_baud accepts.     *)
THEOREM BytesKept == Spec => []BytesIntact
<1>1. IInv => BytesIntact
  BY DEF IInv
<1> QED
  BY <1>1, Invariance, PTL

(* The bit lengths of tick(): the start bit is on the line for baud_div - *)
(* 1 cycles (TxIdle has counted one), a data bit for baud_div + 1 (TxBits *)
(* takes one of its own).                                                 *)
THEOREM SymbolLengths ==
  Spec => [][rxd' # rxd => /\ rxd = StartBit => held = baud_div - 1
                           /\ rxd \notin {High, StartBit} => held = baud_div + 1]_vars
<1> DEFINE Lengths == rxd' # rxd => /\ rxd = StartBit => held = baud_div - 1
                                    /\ rxd \notin {High, StartBit} => held = baud_div + 1
<1>1. IInv /\ [Next]_vars => [Lengths]_vars
  <2> SUFFICES ASSUME IInv, Cycle, rxd' # rxd PROVE Lengths
    BY DEF Next, Feed, vars
  <2> USE DEF IInv, TxInv
  <2>1. TxIdle \/ TxStart \/ TxBits \/ TxBitsBaud \/ TxStop
    BY DEF Cycle, Tx
  <2>2. CASE TxIdle
    BY <2>2 DEF TxIdle, TxCase, Line, High, StartBit
  <2>3. CASE TxStart
    <3>1. in_state = "START" /\ baud_count_in + 1 = baud_div /\ baud_count_in \in Nat
      BY <2>3 DEF TxStart, TxCase, TxTypes
    <3>2. rxd = StartBit /\ held = baud_count_in
      BY <3>1 DEF Line
    <3> QED
      BY <3>1, <3>2
  <2>4. CASE TxBits
    <3>1. in_state = "BITS"
      BY <2>4 DEF TxBits, TxCase
    <3>2. held = baud_div + 1 /\ Byte \in Nat /\ Byte > 0 /\ rxd = <<Byte, in_byte_progress - 1>>
      BY <3>1 DEF Line, Byte, Popped, Stream, TxTypes
    <3> QED
      BY <3>2 DEF StartBit
  <2>5. CASE TxBitsBaud
    BY <2>5 DEF TxBitsBaud
  <2>6. CASE TxStop
    <3>1. in_state = "STOP" /\ rxd' = High
      BY <2>6 DEF TxStop, TxCase
    <3>2. baud_count_in = 0
      BY <3>1 DEF Line, TxTypes
    <3>3. held = baud_div + 1 /\ rxd = <<Popped, 7>> /\ Popped > 0
      BY <3>1, <3>2 DEF Line
    <3> QED
      BY <3>3 DEF StartBit
  <2> QED
    BY <2>1, <2>2, <2>3, <2>4, <2>5, <2>6
<1> QED
  BY <1>1, Invariance, PTL DEF Spec
=============================================================================
