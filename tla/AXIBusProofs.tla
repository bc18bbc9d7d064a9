---------------------------- MODULE AXIBusProofs ----------------------------
(***************************************************************************)
(* The front-bus controller. First with arbitrary pins on the             *)
(* accelerator's side, for every payload length and polling period: its   *)
(* three machines exclude each other. Then with an accelerator behind the *)
(* pins, for any number of commands, any word counts and any delays of    *)
(* the slave: commands arrive whole and in order, responses come back     *)
(* whole and once, and the two together take no step that FrontBus        *)
(* forbids.                                                               *)
(***************************************************************************)
EXTENDS AXIBus, FiniteSetTheorems, TLAPS

(* What BusExclusive and PollsOnlyWhenExpected need to be inductive: a    *)
(* machine in a transaction holds the bus (except the update machine in   *)
(* CMD_WAIT), and while a response is read the update machine waits in    *)
(* IDLE_CMD.                                                              *)
Holder ==
  /\ CmdBusy => bus_occupied
  /\ RspBusy => bus_occupied /\ ongoing_update = "IDLE_CMD"
  /\ UpdBusy => bus_occupied \/ ongoing_update = "CMD_WAIT"

(* Pins driven in this cycle were driven by a machine that excludes the   *)
(* ones still to run.                                                     *)
Driven ==
  /\ phase = "rsp" /\ pins # NoPins => ~RspBusy /\ ~UpdBusy
  /\ phase = "upd" /\ pins # NoPins => ~UpdBusy

IInv == /\ TypeOK
        /\ BusExclusive
        /\ PollsOnlyWhenExpected
        /\ BuffersInBounds
        /\ Holder
        /\ Driven

USE DEF CmdStates, RespStates, UpdateStates, Idle, CmdBusy, RspBusy, UpdBusy

(* The controller starts with every machine at rest and the bus free      *)
(* (the initialisers of state_machine.h:65-81 and 133-139).               *)
LEMMA InitIInv == Init => IInv
  BY ZeroAssumption, WordsAssumption, FreqAssumption
  DEF Init, IInv, TypeOK, Responses, BusExclusive, PollsOnlyWhenExpected, BuffersInBounds,
      Holder, Driven, DutPins

(* update_command_state preserves the invariant.                          *)
LEMMA CommandStep == IInv /\ UpdateCommandState => IInv'
<1> SUFFICES ASSUME IInv, UpdateCommandState PROVE IInv'
  OBVIOUS
<1> USE WordsAssumption DEF IInv, BusExclusive, PollsOnlyWhenExpected, BuffersInBounds,
      Holder, Driven, CmdCase, CmdDrive, CmdKeep, response, update, globals
<1>1. CASE CmdBitsWriteAddr
  BY <1>1 DEF CmdBitsWriteAddr, TypeOK
<1>2. CASE CmdBitsWriteDat
  BY <1>2 DEF CmdBitsWriteDat, TypeOK
<1>3. CASE CmdBitsWriteB
  BY <1>3 DEF CmdBitsWriteB, TypeOK
<1>4. CASE CmdValidAddr
  BY <1>4 DEF CmdValidAddr, TypeOK
<1>5. CASE CmdValidDat
  BY <1>5 DEF CmdValidDat, TypeOK
<1>6. CASE CmdValidWriteB
  <2>1. CASE ~dut.b_valid
    BY <1>6, <2>1 DEF CmdValidWriteB, CmdDone, TypeOK
  <2>2. CASE dut.b_valid /\ cmd_progress + 1 = CmdWords
    <3>1. /\ cmd_progress' = CmdWords /\ cmd_state' = "INACTIVE" /\ bus_occupied' = FALSE
          /\ UNCHANGED <<cmdbuf, ready_for_command, response, update, globals, dut>>
          /\ CmdBusy /\ phase' = "rsp"
      BY <1>6, <2>2 DEF CmdValidWriteB, CmdDone
    <3>2. CmdWords \in 0 .. CmdWords
      BY WordsAssumption
    <3>3. TypeOK'
      BY <3>1, <3>2 DEF TypeOK
    <3>4. BusExclusive' /\ PollsOnlyWhenExpected' /\ BuffersInBounds' /\ Holder' /\ Driven'
      BY <3>1 DEF TypeOK
    <3> QED
      BY <3>3, <3>4
  <2>3. CASE dut.b_valid /\ cmd_progress + 1 # CmdWords
    <3>1. /\ cmd_progress' = cmd_progress + 1 /\ cmd_state' = "RECHECK_READY_ADDR"
          /\ UNCHANGED <<cmdbuf, ready_for_command, bus_occupied, response, update, globals, dut>>
          /\ CmdBusy /\ phase' = "rsp"
      BY <1>6, <2>3 DEF CmdValidWriteB, CmdDone
    <3>2. TypeOK'
      BY <3>1 DEF TypeOK
    <3>3. BusExclusive' /\ PollsOnlyWhenExpected' /\ BuffersInBounds' /\ Holder' /\ Driven'
      BY <2>3, <3>1 DEF TypeOK
    <3> QED
      BY <3>2, <3>3
  <2> QED
    BY <2>1, <2>2, <2>3
<1>7. CASE CmdRecheckReadyAddr
  BY <1>7 DEF CmdRecheckReadyAddr, TypeOK
<1>8. CASE CmdRecheckReadyDat
  BY <1>8 DEF CmdRecheckReadyDat, ReadsSet, TypeOK
<1>9. CASE CmdFetch
  <2>1. /\ Head(cmds) \in Commands
        /\ Tail(cmds) \in Seq(Commands)
    BY <1>9 DEF CmdFetch, TypeOK
  <2>2. /\ Head(cmds).tag \in Tags
        /\ Head(cmds).flush \in BOOLEAN
        /\ cmds_inflight' \in Nat /\ cmds_inflight' >= cmds_inflight
    BY <1>9, <2>1 DEF CmdFetch, Commands, TypeOK
  <2>3. /\ cmd_state' = "BITS_WRITE_ADDR" /\ bus_occupied' = TRUE /\ cmd_progress' = 0
        /\ ~CmdBusy /\ ~RspBusy /\ ~UpdBusy /\ pins' = NoPins
    BY <1>9 DEF CmdFetch, MayFetch
  <2>4. TypeOK'
    BY <1>9, <2>1, <2>2, <2>3 DEF CmdFetch, TypeOK
  <2>5. BusExclusive' /\ PollsOnlyWhenExpected' /\ BuffersInBounds' /\ Holder' /\ Driven'
    BY <1>9, <2>2, <2>3 DEF CmdFetch, TypeOK
  <2> QED
    BY <2>4, <2>5
<1>10. CASE CmdInactive
  BY <1>10 DEF CmdInactive, TypeOK
<1> QED
  BY <1>1, <1>2, <1>3, <1>4, <1>5, <1>6, <1>7, <1>8, <1>9, <1>10 DEF UpdateCommandState

(* update_resp_state preserves the invariant.                             *)
LEMMA ResponseStep == IInv /\ UpdateRespState => IInv'
<1> SUFFICES ASSUME IInv, UpdateRespState PROVE IInv'
  OBVIOUS
<1> USE WordsAssumption DEF IInv, BusExclusive, PollsOnlyWhenExpected, BuffersInBounds,
      Holder, Driven, RspCase, RspDrive, RspKeep, command, update
<1>1. CASE RspInactive
  BY <1>1 DEF RspInactive, TypeOK
<1>2. CASE RspBitsAddr
  BY <1>2 DEF RspBitsAddr, TypeOK
<1>3. CASE RspBitsRead
  <2>1. CASE ~dut.r_valid
    BY <1>3, <2>1 DEF RspBitsRead, TypeOK
  <2>2. CASE dut.r_valid
    <3>1. /\ rsp_progress \in 0 .. RespWords - 1 /\ rsp_progress' = rsp_progress + 1
          /\ resbuf' = [resbuf EXCEPT ![rsp_progress] = dut.r_data]
          /\ rsp_state' = "READY_ADDR" /\ rsp_state = "BITS_READ"
      BY <1>3, <2>2 DEF RspBitsRead, TypeOK
    <3>2. dut.r_data \in Data
      BY DEF TypeOK, DutPins
    <3>3. resbuf' \in Responses
      BY <3>1, <3>2 DEF TypeOK, Responses
    <3> QED
      BY <1>3, <3>1, <3>3 DEF RspBitsRead, TypeOK
  <2> QED
    BY <2>1, <2>2
<1>4. CASE RspReadyAddr
  BY <1>4 DEF RspReadyAddr, TypeOK
<1>5. ASSUME RspAcknowledged, rsp_progress' = rsp_progress, RspBusy,
             UNCHANGED <<command, update, cmds, kill_sig, dut, resbuf>>,
             phase = "rsp", phase' = "upd",
             rsp_state \in {"READY_WRITE", "READY_WRITE_B"}
      PROVE  IInv'
  <2>1. CASE rsp_progress = RespWords
    <3>1. registered' \in Seq(Responses)
      BY <1>5, <2>1 DEF RspAcknowledged, InflightAfterResponse, TypeOK
    <3>2. cmds_inflight' \in Nat
      BY <1>5, <2>1 DEF RspAcknowledged, InflightAfterResponse, TypeOK
    <3>3. /\ rsp_state' = "INACTIVE" /\ bus_occupied' = FALSE
      BY <1>5, <2>1 DEF RspAcknowledged, InflightAfterResponse
    <3>4. TypeOK'
      BY <1>5, <3>1, <3>2, <3>3 DEF TypeOK
    <3>5. BusExclusive' /\ PollsOnlyWhenExpected' /\ BuffersInBounds' /\ Holder' /\ Driven'
      BY <1>5, <3>3 DEF TypeOK
    <3> QED
      BY <3>4, <3>5
  <2>2. CASE rsp_progress # RespWords
    BY <1>5, <2>2 DEF RspAcknowledged, InflightAfterResponse, TypeOK
  <2> QED
    BY <2>1, <2>2
<1>6. CASE RspReadyWrite
  BY <1>5, <1>6 DEF RspReadyWrite, TypeOK
<1>7. CASE RspReadyWriteB
  BY <1>5, <1>7 DEF RspReadyWriteB, TypeOK
<1>8. CASE RspRecheckValidAddr
  BY <1>8 DEF RspRecheckValidAddr, TypeOK
<1>9. CASE RspRecheckValidRead
  BY <1>9 DEF RspRecheckValidRead, ReadsSet, TypeOK
<1> QED
  BY <1>1, <1>2, <1>3, <1>4, <1>6, <1>7, <1>8, <1>9 DEF UpdateRespState

(* update_update_state preserves the invariant.                           *)
LEMMA UpdateStep == IInv /\ UpdateUpdateState => IInv'
<1> SUFFICES ASSUME IInv, UpdateUpdateState PROVE IInv'
  OBVIOUS
<1> USE WordsAssumption, FreqAssumption
    DEF IInv, BusExclusive, PollsOnlyWhenExpected, BuffersInBounds,
      Holder, Driven, UpdCase, globals
<1>1. ASSUME NEW from \in Idle, NEW to \in {"RESP_ADDR", "CMD_ADDR"}, UpdIdle(from, to),
             to = "RESP_ADDR" => from = "IDLE_RESP"
      PROVE  IInv'
  <2>1. TypeOK'
    <3>1. check_freq_ctr' \in 0 .. check_freq + 1
      BY <1>1 DEF UpdIdle, TypeOK
    <3>2. bus_occupied' \in BOOLEAN /\ ongoing_update' \in UpdateStates
      BY <1>1 DEF UpdIdle, TypeOK
    <3> QED
      BY <1>1, <3>1, <3>2 DEF UpdIdle, TypeOK
  <2>2. CASE ~bus_occupied /\ check_freq_ctr > check_freq
    <3>1. bus_occupied' = TRUE /\ ongoing_update' = to /\ ~CmdBusy /\ ~RspBusy
      BY <1>1, <2>2 DEF UpdIdle
    <3> QED
      BY <1>1, <2>1, <3>1 DEF UpdIdle, TypeOK
  <2>3. CASE ~(~bus_occupied /\ check_freq_ctr > check_freq)
    <3>1. UNCHANGED <<bus_occupied, ongoing_update, rsp_state, cmd_state>>
      BY <1>1, <2>3 DEF UpdIdle
    <3> QED
      BY <1>1, <2>1, <3>1 DEF UpdIdle, TypeOK
  <2> QED
    BY <2>2, <2>3
<1>3. CASE UpdAddr("RESP_ADDR", "RESP_VALID", "RESP_WAIT")
  BY <1>3 DEF UpdAddr, TypeOK
<1>4. CASE UpdAddr("CMD_ADDR", "CMD_READY", "CMD_WAIT")
  BY <1>4 DEF UpdAddr, TypeOK
<1>5. CASE UpdRespWait
  <2>1. CASE ~dut.r_valid
    BY <1>5, <2>1 DEF UpdRespWait, ReadsSet, TypeOK
  <2>2. CASE dut.r_valid /\ dut.r_data # Zero
    <3>1. /\ rsp_state' = "BITS_ADDR" /\ ongoing_update' = "IDLE_CMD" /\ rsp_progress' = 0
          /\ bus_occupied' = bus_occupied /\ bus_occupied /\ ~CmdBusy /\ cmds_inflight > 0
          /\ phase' = "edge"
      BY <1>5, <2>2 DEF UpdRespWait, ReadsSet
    <3>2. TypeOK'
      BY <1>5, <3>1 DEF UpdRespWait, ReadsSet, TypeOK
    <3>3. BusExclusive' /\ PollsOnlyWhenExpected' /\ BuffersInBounds' /\ Holder' /\ Driven'
      BY <1>5, <3>1 DEF UpdRespWait, ReadsSet, TypeOK
    <3> QED
      BY <3>2, <3>3
  <2>3. CASE dut.r_valid /\ dut.r_data = Zero
    <3>1. /\ rsp_state' = rsp_state /\ ongoing_update' = "IDLE_CMD" /\ rsp_progress' = 0
          /\ bus_occupied' = FALSE /\ ~CmdBusy /\ ~RspBusy /\ phase' = "edge"
          /\ UNCHANGED <<cmd_state, cmd_progress, cmdbuf, resbuf, registered, globals, dut,
                         check_freq_ctr, ready_for_command>>
      BY <1>5, <2>3 DEF UpdRespWait, ReadsSet
    <3>2. TypeOK'
      <4>1. rsp_progress' \in 0 .. RespWords
        BY <3>1
      <4>2. bus_occupied' \in BOOLEAN
        BY <3>1
      <4> QED
        BY <3>1, <4>1, <4>2 DEF TypeOK
    <3>3. BusExclusive' /\ PollsOnlyWhenExpected' /\ BuffersInBounds' /\ Holder' /\ Driven'
      BY <1>5, <3>1 DEF UpdRespWait, ReadsSet, TypeOK
    <3> QED
      BY <3>2, <3>3
  <2> QED
    BY <2>1, <2>2, <2>3
<1>6. CASE UpdCmdWait
  BY <1>6 DEF UpdCmdWait, ReadsSet, AfterCmdPoll, TypeOK
<1> QED
  BY <1>1, <1>3, <1>4, <1>5, <1>6 DEF UpdateUpdateState

(* The invariant survives every step: a machine's case, the command       *)
(* server's push and whatever pins the accelerator presents.              *)
LEMMA NextIInv == IInv /\ [Next]_vars => IInv'
<1> SUFFICES ASSUME IInv, [Next]_vars PROVE IInv'
  OBVIOUS
<1> USE DEF IInv, BusExclusive, PollsOnlyWhenExpected, BuffersInBounds, Holder, Driven
<1>1. ASSUME NEW c \in Commands, Push(c) PROVE IInv'
  BY <1>1 DEF Push, TypeOK, command, response, update
<1>2. CASE Tick
  BY <1>2, CommandStep, ResponseStep, UpdateStep DEF Tick
<1>3. ASSUME NEW d \in DutPins, Edge(d) PROVE IInv'
  BY <1>3 DEF Edge, TypeOK, command, response, update, globals
<1>4. CASE UNCHANGED vars
  BY <1>4 DEF vars, TypeOK, command, response, update, globals
<1> QED
  BY <1>1, <1>2, <1>3, <1>4 DEF Next

(* The inductive invariant holds in every reachable state.                *)
THEOREM Invariance == Spec => []IInv
  BY InitIInv, NextIInv, PTL DEF Spec

(* Type correctness of the controller.                                    *)
THEOREM TypeCorrect == Spec => []TypeOK
<1>1. IInv => TypeOK
  BY DEF IInv
<1> QED
  BY Invariance, <1>1, PTL

(* The three machines exclude one another on the bus and never leak it,   *)
(* for every accelerator (bus_occupied and the CMD_INACTIVE guard,        *)
(* state_machine.h:226-229).                                              *)
THEOREM Exclusion == Spec => []BusExclusive
<1>1. IInv => BusExclusive
  BY DEF IInv
<1> QED
  BY Invariance, <1>1, PTL

(* No response is read that no command asked for: cmds_inflight--         *)
(* (state_machine.h:299) never takes the counter below zero.              *)
THEOREM ExpectedResponses == Spec => []PollsOnlyWhenExpected
<1>1. IInv => PollsOnlyWhenExpected
  BY DEF IInv
<1> QED
  BY Invariance, <1>1, PTL

(* The word buffers are never indexed out of range (state_machine.h:156   *)
(* and 269).                                                              *)
THEOREM InBounds == Spec => []BuffersInBounds
<1>1. IInv => BuffersInBounds
  BY DEF IInv
<1> QED
  BY Invariance, <1>1, PTL

(* tick() never lets two machines drive the AXI-Lite port in one cycle.   *)
THEOREM SingleDriver == Spec => OneDriver
<1>1. IInv /\ [Next]_vars => [(phase \in {"rsp", "upd"} /\ pins' # pins) => pins = NoPins]_vars
  <2> SUFFICES ASSUME IInv, Next, phase \in {"rsp", "upd"}, pins' # pins
               PROVE  pins = NoPins
    BY DEF vars
  <2>1. CASE UpdateRespState
    BY <2>1 DEF IInv, Driven, UpdateRespState, RspCase, RspDrive, RspInactive, RspBitsAddr,
       RspBitsRead, RspReadyAddr, RspReadyWrite, RspReadyWriteB, RspRecheckValidAddr,
       RspRecheckValidRead
  <2>2. CASE UpdateUpdateState
    BY <2>2 DEF IInv, Driven, UpdateUpdateState, UpdCase, UpdIdle, UpdAddr, UpdRespWait, UpdCmdWait
  <2>3. ~UpdateCommandState
    BY DEF UpdateCommandState, CmdCase, CmdDrive, CmdBitsWriteAddr, CmdBitsWriteDat, CmdBitsWriteB,
       CmdValidAddr, CmdValidDat, CmdValidWriteB, CmdRecheckReadyAddr, CmdRecheckReadyDat,
       CmdFetch, CmdInactive
  <2>4. ASSUME NEW c \in Commands PROVE ~Push(c)
    BY DEF Push
  <2>5. ASSUME NEW d \in DutPins PROVE ~Edge(d)
    BY DEF Edge
  <2> QED
    BY <2>1, <2>2, <2>3, <2>4, <2>5 DEF Next, Tick
<1> QED
  BY Invariance, <1>1, PTL DEF Spec, OneDriver

HIDE DEF CmdStates, RespStates, UpdateStates, Idle, CmdBusy, RspBusy, UpdBusy

-----------------------------------------------------------------------------
(* The accelerator behind the pins. *)

(* The slave's two sides after the handshakes of the current cycle. tick() *)
(* drives the pins while phase moves on from "cmd".                       *)
WrAfter ==
  IF phase = "cmd" THEN wr
  ELSE IF AwShake THEN [stage |-> "data", reg |-> pins.aw]
  ELSE IF WShake THEN [wr EXCEPT !.stage = "resp"]
  ELSE IF BShake THEN [stage |-> "addr", reg |-> "none"]
  ELSE wr
RdAfter ==
  IF phase = "cmd" THEN rd
  ELSE IF ArShake THEN [stage |-> "data", reg |-> pins.ar]
  ELSE IF RShake THEN [stage |-> "addr", reg |-> "none"]
  ELSE rd

(* Where the machines believe the slave to be.                            *)
At(s, r) == [stage |-> s, reg |-> r]
WrOf ==
  IF cmd_state = "BITS_WRITE_DAT" THEN At("data", "CMD_BITS")
  ELSE IF cmd_state = "BITS_WRITE_B" THEN At("resp", "CMD_BITS")
  ELSE IF cmd_state = "VALID_DAT" THEN At("data", "CMD_VALID")
  ELSE IF cmd_state = "VALID_WRITE_B" THEN At("resp", "CMD_VALID")
  ELSE IF rsp_state = "READY_WRITE" THEN At("data", "RESP_READY")
  ELSE IF rsp_state = "READY_WRITE_B" THEN At("resp", "RESP_READY")
  ELSE At("addr", "none")
RdOf ==
  IF cmd_state = "RECHECK_READY_DAT" \/ ongoing_update = "CMD_WAIT" THEN At("data", "CMD_READY")
  ELSE IF rsp_state = "RECHECK_VALID_READ" \/ ongoing_update = "RESP_WAIT"
  THEN At("data", "RESP_VALID")
  ELSE IF rsp_state = "BITS_READ" THEN At("data", "RESP_BITS")
  ELSE At("addr", "none")

(* Machines and slave agree, whichever handshakes the slave offers.       *)
InStep ==
  /\ wr = At(wr.stage, wr.reg) /\ rd = At(rd.stage, rd.reg)
  /\ WrAfter = WrOf /\ RdAfter = RdOf
  /\ dut.aw_ready => wr.stage = "addr"
  /\ dut.w_ready => wr.stage = "data"
  /\ dut.b_valid => wr.stage = "resp"
  /\ dut.ar_ready => rd.stage = "addr"
  /\ dut.r_valid => rd.stage = "data"

(* What a read value says is still so when it is used.                    *)
Sampled ==
  /\ dut.r_valid /\ rd.reg = "CMD_READY" /\ dut.r_data # Zero => hwready
  /\ dut.r_valid /\ rd.reg = "RESP_VALID" /\ dut.r_data # Zero => avail
  /\ dut.r_valid /\ rd.reg = "RESP_BITS" => respq # <<>> /\ dut.r_data = Head(respq)

-----------------------------------------------------------------------------
Taken == Len(pushed) - Len(cmds)

Queued ==
  /\ pushed \in Seq(Commands) /\ Len(pushed) <= MaxCommands /\ Len(cmds) <= Len(pushed)
  /\ \A i \in 1 .. Len(pushed) : pushed[i].tag = i
  /\ \A i \in 1 .. Len(cmds) : cmds[i] = pushed[Taken + i]
  /\ kill_sig => CmdBusy

(* The words of the current command the hardware has.                     *)
SentWords == cmd_progress + (IF cmd_state = "VALID_WRITE_B" /\ wr.stage = "resp" THEN 1 ELSE 0)
Assembling == CmdBusy /\ SentWords < CmdWords

Assembled ==
  /\ words = IF Assembling THEN [i \in 1 .. SentWords |-> <<cmdbuf, i - 1>>] ELSE <<>>
  /\ CmdBusy => cmdbuf = Taken
  /\ executed \in Seq(Nat) /\ Len(executed) = Taken - (IF Assembling THEN 1 ELSE 0)
  /\ \A i \in 1 .. Len(executed) : executed[i] = i

(* CMD_BITS holds the next word when CMD_VALID is written.                *)
BitsRight ==
  /\ \/ cmd_state \in {"VALID_ADDR", "VALID_DAT"}
     \/ cmd_state = "BITS_WRITE_B" /\ wr.stage = "resp"
     \/ cmd_state = "VALID_WRITE_B" /\ wr.stage = "data"
     => bits = <<cmdbuf, cmd_progress>>
  /\ cmd_state = "BITS_WRITE_B" /\ wr.stage = "data" => pins.w = <<cmdbuf, cmd_progress>>

(* The hardware was seen ready, and is, until it has taken the word.      *)
ReadyKept ==
  /\ ready_for_command => hwready /\ cmd_state \in {"INACTIVE", "BITS_WRITE_ADDR"}
  /\ \/ cmd_state \in {"BITS_WRITE_ADDR", "BITS_WRITE_DAT", "BITS_WRITE_B", "VALID_ADDR", "VALID_DAT"}
     \/ cmd_state = "VALID_WRITE_B" /\ wr.stage = "data"
     => hwready

-----------------------------------------------------------------------------
(* The word of the current response read last is still in the hardware.   *)
NotPopped == \/ rsp_state \in {"READY_ADDR", "READY_WRITE"}
             \/ rsp_state = "READY_WRITE_B" /\ wr.stage = "data"
Popped == rsp_progress - (IF NotPopped THEN 1 ELSE 0)
Reading == RspBusy /\ Popped < RespWords
InHand == RspBusy /\ ~Reading

(* Word 0 .. RespWords - 1 of the response to t, without the first p.     *)
Rest(t, p) == [i \in 1 .. RespWords - p |-> <<t, p + i - 1>>]
HwTag == respq[1][1]
CurTag == IF Reading THEN HwTag ELSE resbuf[0][1]

AvailKept ==
  /\ avail => respq # <<>>
  /\ rsp_state \in {"BITS_ADDR", "BITS_READ"} \/ NotPopped => avail

Offered ==
  /\ Reading => respq # <<>>
  /\ respq # <<>> => respq = Rest(HwTag, IF Reading THEN Popped ELSE 0)
  /\ RspBusy => \A j \in 0 .. rsp_progress - 1 : resbuf[j] = <<CurTag, j>>

TagOf(r) == r[0][1]
RespTags == {TagOf(registered[i]) : i \in DOMAIN registered}
HwTags == IF respq # <<>> THEN {HwTag} ELSE {}
HandTags == IF InHand THEN {TagOf(resbuf)} ELSE {}
Asked == {t \in 1 .. Len(executed) : pushed[t].xd}

(* Every command that asks for a response is at one place.                *)
Tracked ==
  /\ due \cup HwTags \cup HandTags \cup RespTags = Asked
  /\ due \cap HwTags = {} /\ due \cap HandTags = {} /\ due \cap RespTags = {}
  /\ HwTags \cap HandTags = {} /\ HwTags \cap RespTags = {} /\ HandTags \cap RespTags = {}

Whole ==
  /\ \A i \in DOMAIN registered : \A j \in 0 .. RespWords - 1 : registered[i][j] = <<TagOf(registered[i]), j>>
  /\ \A i, j \in DOMAIN registered : TagOf(registered[i]) = TagOf(registered[j]) => i = j

CmdInv == Queued /\ Assembled /\ BitsRight /\ ReadyKept
RspInv == AvailKept /\ Offered /\ Tracked /\ Whole
BusInv == InStep /\ Sampled /\ CmdInv /\ RspInv /\ InflightExact

-----------------------------------------------------------------------------
(* With no pin driven no handshake is under way.                          *)
LEMMA Quiet == ASSUME pins = NoPins \/ phase = "cmd" PROVE WrAfter = wr /\ RdAfter = rd
  BY DEF WrAfter, RdAfter, AwShake, WShake, BShake, ArShake, RShake, NoPins

(* update_command_state keeps in step with the slave.                     *)
LEMMA InStepCommand ==
  ASSUME BusExclusive, InStep, UpdateCommandState, UNCHANGED <<wr, rd>>
  PROVE  InStep'
<1> USE DEF InStep, CmdBusy, RspBusy, UpdBusy, Idle
<1>1. phase = "cmd" /\ phase' = "rsp" /\ UNCHANGED <<dut, rsp_state, ongoing_update, wr, rd>>
  BY DEF UpdateCommandState, CmdCase, CmdDrive, CmdBitsWriteAddr, CmdBitsWriteDat, CmdBitsWriteB,
       CmdValidAddr, CmdValidDat, CmdValidWriteB, CmdRecheckReadyAddr, CmdRecheckReadyDat,
       CmdFetch, CmdInactive, response, update
<1>2. wr = WrOf /\ rd = RdOf
  BY <1>1, Quiet
<1>3. CASE CmdBitsWriteAddr
  <2>1. /\ pins' = [NoPins EXCEPT !.aw = "CMD_BITS"] /\ cmd_state = "BITS_WRITE_ADDR"
        /\ cmd_state' = IF dut.aw_ready THEN "BITS_WRITE_DAT" ELSE "BITS_WRITE_ADDR"
    BY <1>3 DEF CmdBitsWriteAddr, CmdDrive, CmdCase
  <2>2. rsp_state = "INACTIVE" /\ ongoing_update \in Idle
    BY <2>1 DEF BusExclusive
  <2> QED
    BY <1>1, <1>2, <2>1, <2>2 DEF WrAfter, RdAfter, AwShake, WShake, BShake, ArShake, RShake, NoPins,
       WrOf, RdOf, At
<1>4. CASE CmdBitsWriteDat
  <2>1. /\ pins' = [NoPins EXCEPT !.w = <<cmdbuf, cmd_progress>>] /\ cmd_state = "BITS_WRITE_DAT"
        /\ cmd_state' = IF dut.w_ready THEN "BITS_WRITE_B" ELSE "BITS_WRITE_DAT"
    BY <1>4 DEF CmdBitsWriteDat, CmdDrive, CmdCase
  <2>2. rsp_state = "INACTIVE" /\ ongoing_update \in Idle
    BY <2>1 DEF BusExclusive
  <2> QED
    BY <1>1, <1>2, <2>1, <2>2 DEF WrAfter, RdAfter, AwShake, WShake, BShake, ArShake, RShake, NoPins,
       WrOf, RdOf, At
<1>5. CASE CmdBitsWriteB
  <2>1. /\ pins' = [NoPins EXCEPT !.b = TRUE] /\ cmd_state = "BITS_WRITE_B"
        /\ cmd_state' = IF dut.b_valid THEN "VALID_ADDR" ELSE "BITS_WRITE_B"
    BY <1>5 DEF CmdBitsWriteB, CmdDrive, CmdCase
  <2>2. rsp_state = "INACTIVE" /\ ongoing_update \in Idle
    BY <2>1 DEF BusExclusive
  <2> QED
    BY <1>1, <1>2, <2>1, <2>2 DEF WrAfter, RdAfter, AwShake, WShake, BShake, ArShake, RShake, NoPins,
       WrOf, RdOf, At
<1>6. CASE CmdValidAddr
  <2>1. /\ pins' = [NoPins EXCEPT !.aw = "CMD_VALID"] /\ cmd_state = "VALID_ADDR"
        /\ cmd_state' = IF dut.aw_ready THEN "VALID_DAT" ELSE "VALID_ADDR"
    BY <1>6 DEF CmdValidAddr, CmdDrive, CmdCase
  <2>2. rsp_state = "INACTIVE" /\ ongoing_update \in Idle
    BY <2>1 DEF BusExclusive
  <2> QED
    BY <1>1, <1>2, <2>1, <2>2 DEF WrAfter, RdAfter, AwShake, WShake, BShake, ArShake, RShake, NoPins,
       WrOf, RdOf, At
<1>7. CASE CmdValidDat
  <2>1. /\ pins' = [NoPins EXCEPT !.w = <<"one">>] /\ cmd_state = "VALID_DAT"
        /\ cmd_state' = IF dut.w_ready THEN "VALID_WRITE_B" ELSE "VALID_DAT"
    BY <1>7 DEF CmdValidDat, CmdDrive, CmdCase
  <2>2. rsp_state = "INACTIVE" /\ ongoing_update \in Idle
    BY <2>1 DEF BusExclusive
  <2> QED
    BY <1>1, <1>2, <2>1, <2>2 DEF WrAfter, RdAfter, AwShake, WShake, BShake, ArShake, RShake, NoPins,
       WrOf, RdOf, At
<1>8. CASE CmdRecheckReadyAddr
  <2>1. /\ pins' = [NoPins EXCEPT !.ar = "CMD_READY"] /\ cmd_state = "RECHECK_READY_ADDR"
        /\ cmd_state' = IF dut.ar_ready THEN "RECHECK_READY_DAT" ELSE "RECHECK_READY_ADDR"
    BY <1>8 DEF CmdRecheckReadyAddr, CmdDrive, CmdCase
  <2>2. rsp_state = "INACTIVE" /\ ongoing_update \in Idle
    BY <2>1 DEF BusExclusive
  <2> QED
    BY <1>1, <1>2, <2>1, <2>2 DEF WrAfter, RdAfter, AwShake, WShake, BShake, ArShake, RShake, NoPins,
       WrOf, RdOf, At
<1>9. CASE CmdRecheckReadyDat
  <2>1. /\ pins' = [NoPins EXCEPT !.r = TRUE] /\ cmd_state = "RECHECK_READY_DAT"
        /\ cmd_state' = IF dut.r_valid THEN (IF dut.r_data # Zero THEN "BITS_WRITE_ADDR" ELSE "RECHECK_READY_ADDR") ELSE "RECHECK_READY_DAT"
    BY <1>9 DEF CmdRecheckReadyDat, CmdDrive, CmdCase, ReadsSet
  <2>2. rsp_state = "INACTIVE" /\ ongoing_update \in Idle
    BY <2>1 DEF BusExclusive
  <2> QED
    BY <1>1, <1>2, <2>1, <2>2 DEF WrAfter, RdAfter, AwShake, WShake, BShake, ArShake, RShake, NoPins,
       WrOf, RdOf, At
<1>10. CASE CmdValidWriteB
  <2>1. /\ pins' = [NoPins EXCEPT !.b = TRUE] /\ cmd_state = "VALID_WRITE_B"
        /\ cmd_state' \in IF dut.b_valid THEN {"INACTIVE", "RECHECK_READY_ADDR"} ELSE {"VALID_WRITE_B"}
    BY <1>10 DEF CmdValidWriteB, CmdCase
  <2>2. rsp_state = "INACTIVE" /\ ongoing_update \in Idle
    BY <2>1 DEF BusExclusive
  <2> QED
    BY <1>1, <1>2, <2>1, <2>2 DEF WrAfter, RdAfter, AwShake, WShake, BShake, ArShake, RShake, NoPins,
       WrOf, RdOf, At
<1>11. CASE CmdFetch \/ CmdInactive
  <2>1. /\ pins' = NoPins /\ cmd_state = "INACTIVE" /\ cmd_state' \in {"INACTIVE", "BITS_WRITE_ADDR"}
    BY <1>11 DEF CmdFetch, CmdInactive, CmdCase
  <2>2. WrOf' = WrOf /\ RdOf' = RdOf
    BY <1>1, <2>1 DEF WrOf, RdOf
  <2>3. WrAfter' = wr' /\ RdAfter' = rd'
    BY <1>1, <2>1 DEF WrAfter, RdAfter, AwShake, WShake, BShake, ArShake, RShake, NoPins
  <2> QED
    BY <1>1, <1>2, <2>2, <2>3
<1> QED
  BY <1>3, <1>4, <1>5, <1>6, <1>7, <1>8, <1>9, <1>10, <1>11 DEF UpdateCommandState

(* update_resp_state keeps in step with the slave.                        *)
LEMMA InStepResponse ==
  ASSUME BusExclusive, Driven, InStep, UpdateRespState, UNCHANGED <<wr, rd>>
  PROVE  InStep'
<1> USE DEF InStep, CmdBusy, RspBusy, UpdBusy, Idle
<1>1. phase = "rsp" /\ phase' = "upd" /\ UNCHANGED <<dut, cmd_state, ongoing_update, wr, rd>>
  BY DEF UpdateRespState, RspCase, RspDrive, RspInactive, RspBitsAddr, RspBitsRead, RspReadyAddr,
       RspReadyWrite, RspReadyWriteB, RspRecheckValidAddr, RspRecheckValidRead, command, update
<1>2. ASSUME rsp_state # "INACTIVE"
      PROVE  pins = NoPins /\ wr = WrOf /\ rd = RdOf /\ cmd_state = "INACTIVE" /\ ongoing_update \in Idle
  <2>1. pins = NoPins
    BY <1>1, <1>2 DEF Driven
  <2> QED
    BY <1>2, <2>1, Quiet DEF BusExclusive
<1>3. CASE RspInactive
  <2>1. UNCHANGED <<pins, rsp_state>>
    BY <1>3 DEF RspInactive, RspDrive, RspCase
  <2>2. UNCHANGED <<WrOf, RdOf>>
    BY <1>1, <2>1 DEF WrOf, RdOf
  <2>3. WrAfter' = WrAfter /\ RdAfter' = RdAfter
    BY <1>1, <2>1 DEF WrAfter, RdAfter, AwShake, WShake, BShake, ArShake, RShake
  <2> QED
    BY <1>1, <2>2, <2>3
<1>4. CASE RspBitsAddr
  <2>1. /\ pins' = [pins EXCEPT !.ar = "RESP_BITS"] /\ rsp_state = "BITS_ADDR"
        /\ rsp_state' = IF dut.ar_ready THEN "BITS_READ" ELSE "BITS_ADDR"
    BY <1>4 DEF RspBitsAddr, RspDrive, RspCase
  <2> QED
    BY <1>1, <1>2, <2>1 DEF WrAfter, RdAfter, AwShake, WShake, BShake, ArShake, RShake, NoPins,
       WrOf, RdOf, At
<1>5. CASE RspBitsRead
  <2>1. /\ pins' = [pins EXCEPT !.r = TRUE] /\ rsp_state = "BITS_READ"
        /\ rsp_state' = IF dut.r_valid THEN "READY_ADDR" ELSE "BITS_READ"
    BY <1>5 DEF RspBitsRead, RspDrive, RspCase
  <2> QED
    BY <1>1, <1>2, <2>1 DEF WrAfter, RdAfter, AwShake, WShake, BShake, ArShake, RShake, NoPins,
       WrOf, RdOf, At
<1>6. CASE RspReadyAddr
  <2>1. /\ pins' = [pins EXCEPT !.aw = "RESP_READY"] /\ rsp_state = "READY_ADDR"
        /\ rsp_state' = IF dut.aw_ready THEN "READY_WRITE" ELSE "READY_ADDR"
    BY <1>6 DEF RspReadyAddr, RspDrive, RspCase
  <2> QED
    BY <1>1, <1>2, <2>1 DEF WrAfter, RdAfter, AwShake, WShake, BShake, ArShake, RShake, NoPins,
       WrOf, RdOf, At
<1>7. CASE RspRecheckValidAddr
  <2>1. /\ pins' = [pins EXCEPT !.ar = "RESP_VALID"] /\ rsp_state = "RECHECK_VALID_ADDR"
        /\ rsp_state' = IF dut.ar_ready THEN "RECHECK_VALID_READ" ELSE "RECHECK_VALID_ADDR"
    BY <1>7 DEF RspRecheckValidAddr, RspDrive, RspCase
  <2> QED
    BY <1>1, <1>2, <2>1 DEF WrAfter, RdAfter, AwShake, WShake, BShake, ArShake, RShake, NoPins,
       WrOf, RdOf, At
<1>8. CASE RspRecheckValidRead
  <2>1. /\ pins' = [pins EXCEPT !.r = TRUE] /\ rsp_state = "RECHECK_VALID_READ"
        /\ rsp_state' = IF dut.r_valid THEN (IF dut.r_data # Zero THEN "BITS_ADDR" ELSE "RECHECK_VALID_ADDR") ELSE "RECHECK_VALID_READ"
    BY <1>8 DEF RspRecheckValidRead, RspDrive, RspCase, ReadsSet
  <2> QED
    BY <1>1, <1>2, <2>1 DEF WrAfter, RdAfter, AwShake, WShake, BShake, ArShake, RShake, NoPins,
       WrOf, RdOf, At
<1>9. CASE RspReadyWrite
  <2>1. /\ pins' = [pins EXCEPT !.w = <<"one">>, !.b = TRUE] /\ rsp_state = "READY_WRITE"
        /\ ~dut.b_valid => rsp_state' = IF dut.w_ready THEN "READY_WRITE_B" ELSE "READY_WRITE"
    BY <1>9 DEF RspReadyWrite, RspCase
  <2>2. wr.stage = "data" /\ ~dut.b_valid
    BY <1>2, <2>1 DEF WrOf, At
  <2> QED
    BY <1>1, <1>2, <2>1, <2>2 DEF WrAfter, RdAfter, AwShake, WShake, BShake, ArShake, RShake, NoPins,
       WrOf, RdOf, At
<1>10. CASE RspReadyWriteB
  <2>1. /\ pins' = [pins EXCEPT !.b = TRUE] /\ rsp_state = "READY_WRITE_B"
        /\ rsp_state' \in IF dut.b_valid THEN {"INACTIVE", "RECHECK_VALID_ADDR"} ELSE {"READY_WRITE_B"}
    BY <1>10 DEF RspReadyWriteB, RspCase, RspAcknowledged
  <2> QED
    BY <1>1, <1>2, <2>1 DEF WrAfter, RdAfter, AwShake, WShake, BShake, ArShake, RShake, NoPins,
       WrOf, RdOf, At
<1> QED
  BY <1>3, <1>4, <1>5, <1>6, <1>7, <1>8, <1>9, <1>10 DEF UpdateRespState

(* update_update_state keeps in step with the slave.                      *)
LEMMA InStepUpdate ==
  ASSUME BusExclusive, Driven, InStep, UpdateUpdateState, UNCHANGED <<wr, rd>>
  PROVE  InStep'
<1> USE DEF InStep, CmdBusy, RspBusy, UpdBusy, Idle
<1>1. phase = "upd" /\ phase' = "edge" /\ UNCHANGED <<dut, cmd_state, wr, rd>>
  BY DEF UpdateUpdateState, UpdCase, UpdIdle, UpdAddr, UpdRespWait, UpdCmdWait
<1>2. ASSUME ongoing_update \notin Idle
      PROVE  pins = NoPins /\ wr = WrOf /\ rd = RdOf /\ cmd_state = "INACTIVE" /\ rsp_state = "INACTIVE"
  <2>1. pins = NoPins
    BY <1>1, <1>2 DEF Driven
  <2> QED
    BY <1>2, <2>1, Quiet DEF BusExclusive
<1>3. CASE UpdIdle("IDLE_RESP", "RESP_ADDR") \/ UpdIdle("IDLE_CMD", "CMD_ADDR")
  <2>1. /\ UNCHANGED <<pins, rsp_state>> /\ ongoing_update \in Idle
        /\ ongoing_update' \in Idle \cup {"RESP_ADDR", "CMD_ADDR"}
    BY <1>3 DEF UpdIdle
  <2>2. WrOf' = WrOf /\ RdOf' = RdOf
    BY <1>1, <2>1 DEF WrOf, RdOf
  <2>3. WrAfter' = WrAfter /\ RdAfter' = RdAfter
    BY <1>1, <2>1 DEF WrAfter, RdAfter, AwShake, WShake, BShake, ArShake, RShake
  <2> QED
    BY <1>1, <2>2, <2>3
<1>4. CASE UpdAddr("RESP_ADDR", "RESP_VALID", "RESP_WAIT")
  <2>1. /\ pins' = [pins EXCEPT !.ar = "RESP_VALID"] /\ ongoing_update = "RESP_ADDR" /\ rsp_state' = rsp_state
        /\ ongoing_update' = IF dut.ar_ready THEN "RESP_WAIT" ELSE "RESP_ADDR"
    BY <1>4 DEF UpdAddr
  <2> QED
    BY <1>1, <1>2, <2>1 DEF WrAfter, RdAfter, AwShake, WShake, BShake, ArShake, RShake, NoPins,
       WrOf, RdOf, At
<1>5. CASE UpdAddr("CMD_ADDR", "CMD_READY", "CMD_WAIT")
  <2>1. /\ pins' = [pins EXCEPT !.ar = "CMD_READY"] /\ ongoing_update = "CMD_ADDR" /\ rsp_state' = rsp_state
        /\ ongoing_update' = IF dut.ar_ready THEN "CMD_WAIT" ELSE "CMD_ADDR"
    BY <1>5 DEF UpdAddr
  <2> QED
    BY <1>1, <1>2, <2>1 DEF WrAfter, RdAfter, AwShake, WShake, BShake, ArShake, RShake, NoPins,
       WrOf, RdOf, At
<1>6. CASE UpdRespWait
  <2>1. /\ pins' = [pins EXCEPT !.r = TRUE] /\ ongoing_update = "RESP_WAIT"
        /\ ongoing_update' = IF dut.r_valid THEN "IDLE_CMD" ELSE "RESP_WAIT"
        /\ rsp_state' \in {rsp_state, "BITS_ADDR"}
    BY <1>6 DEF UpdRespWait
  <2> QED
    BY <1>1, <1>2, <2>1 DEF WrAfter, RdAfter, AwShake, WShake, BShake, ArShake, RShake, NoPins,
       WrOf, RdOf, At
<1>7. CASE UpdCmdWait
  <2>1. /\ pins' = [pins EXCEPT !.r = TRUE] /\ ongoing_update = "CMD_WAIT" /\ rsp_state' = rsp_state
        /\ ongoing_update' \in IF dut.r_valid THEN Idle ELSE {"CMD_WAIT"}
    BY <1>7 DEF UpdCmdWait, AfterCmdPoll
  <2> QED
    BY <1>1, <1>2, <2>1 DEF WrAfter, RdAfter, AwShake, WShake, BShake, ArShake, RShake, NoPins,
       WrOf, RdOf, At
<1> QED
  BY <1>3, <1>4, <1>5, <1>6, <1>7 DEF UpdateUpdateState

(* The clock edge: the slave arrives where the machines are.              *)
LEMMA EdgeFacts ==
  ASSUME InStep, BusEdge
  PROVE  /\ phase = "edge" /\ phase' = "cmd" /\ wr' = WrOf /\ rd' = RdOf
         /\ UNCHANGED <<command, response, update, bus_occupied, globals, pins, pushed>>
<1>1. PICK d : Edge(d)
  BY DEF BusEdge
<1>2. phase = "edge" /\ phase' = "cmd"
      /\ UNCHANGED <<command, response, update, bus_occupied, globals, pins>>
  BY <1>1 DEF Edge
<1>3. wr' = WrAfter /\ rd' = RdAfter /\ pushed' = pushed
  BY <1>2 DEF BusEdge, WrAfter, RdAfter
<1> QED
  BY <1>2, <1>3 DEF InStep

(* A data beat that the slave takes is the one its machine waits for an   *)
(* acknowledgement of.                                                    *)
LEMMA BeatTaken ==
  ASSUME InStep, BusExclusive, phase = "edge"
  PROVE  /\ WShake => /\ wr.stage = "data"
                      /\ \/ wr.reg = "CMD_BITS" /\ cmd_state = "BITS_WRITE_B"
                         \/ wr.reg = "CMD_VALID" /\ cmd_state = "VALID_WRITE_B"
                         \/ wr.reg = "RESP_READY" /\ rsp_state = "READY_WRITE_B"
         /\ ~WShake => \/ wr.stage = "resp" /\ WrOf.stage = "resp"
                       \/ WrOf.stage # "resp"
<1> USE DEF InStep
<1>1. ASSUME WShake PROVE wr.stage = "data" /\ WrOf = At("resp", wr.reg)
  <2>1. wr.stage = "data" /\ ~AwShake
    BY <1>1 DEF WShake, AwShake
  <2>2. WrAfter = [wr EXCEPT !.stage = "resp"]
    BY <1>1, <2>1 DEF WrAfter
  <2> QED
    BY <2>1, <2>2 DEF At
<1>2. ASSUME ~WShake PROVE (wr.stage = "resp" /\ WrOf.stage = "resp") \/ WrOf.stage # "resp"
  BY <1>2 DEF WrAfter, At
<1> QED
  BY <1>1, <1>2 DEF WrOf, At

(* The slave's next offers agree with where it is.                        *)
LEMMA InStepEdge == ASSUME InStep, BusEdge PROVE InStep'
<1>1. /\ phase' = "cmd" /\ wr' = WrOf /\ rd' = RdOf
      /\ UNCHANGED <<cmd_state, rsp_state, ongoing_update>>
  BY EdgeFacts DEF command, response, update
<1>2. PICK offerW \in BOOLEAN, offerR \in BOOLEAN :
        LET heldW == dut.b_valid /\ ~BShake
            heldR == dut.r_valid /\ ~RShake
            r_valid == rd'.stage = "data" /\ (offerR \/ heldR)
        IN  Edge([aw_ready |-> wr'.stage = "addr" /\ offerW,
                    w_ready |-> wr'.stage = "data" /\ offerW,
                    b_valid |-> wr'.stage = "resp" /\ (offerW \/ heldW),
                    ar_ready |-> rd'.stage = "addr" /\ offerR,
                    r_valid |-> r_valid,
                    r_data |-> IF ~r_valid THEN Zero
                               ELSE IF heldR THEN dut.r_data ELSE ReadRegister(rd'.reg)])
  BY DEF BusEdge
<1>3. /\ dut'.aw_ready => wr'.stage = "addr"
      /\ dut'.w_ready => wr'.stage = "data"
      /\ dut'.b_valid => wr'.stage = "resp"
      /\ dut'.ar_ready => rd'.stage = "addr"
      /\ dut'.r_valid => rd'.stage = "data"
  BY <1>2 DEF Edge
<1>4. WrAfter' = wr' /\ RdAfter' = rd'
  BY <1>1 DEF WrAfter, RdAfter
<1>5. WrOf' = WrOf /\ RdOf' = RdOf
  BY <1>1 DEF WrOf, RdOf
<1>6. wr' = At(wr'.stage, wr'.reg) /\ rd' = At(rd'.stage, rd'.reg)
  BY <1>1 DEF WrOf, RdOf, At
<1> QED
  BY <1>1, <1>3, <1>4, <1>5, <1>6 DEF InStep, At

(* What the master reads: a value sampled now, or the one held.           *)
LEMMA ReadValue ==
  ASSUME BusEdge, dut'.r_valid
  PROVE  /\ rd'.stage = "data"
         /\ \/ dut.r_valid /\ ~RShake /\ dut'.r_data = dut.r_data
            \/ dut'.r_data = ReadRegister(rd'.reg)
<1>1. PICK offerW \in BOOLEAN, offerR \in BOOLEAN :
        LET heldW == dut.b_valid /\ ~BShake
            heldR == dut.r_valid /\ ~RShake
            r_valid == rd'.stage = "data" /\ (offerR \/ heldR)
        IN  Edge([aw_ready |-> wr'.stage = "addr" /\ offerW,
                    w_ready |-> wr'.stage = "data" /\ offerW,
                    b_valid |-> wr'.stage = "resp" /\ (offerW \/ heldW),
                    ar_ready |-> rd'.stage = "addr" /\ offerR,
                    r_valid |-> r_valid,
                    r_data |-> IF ~r_valid THEN Zero
                               ELSE IF heldR THEN dut.r_data ELSE ReadRegister(rd'.reg)])
  BY DEF BusEdge
<1> QED
  BY <1>1 DEF Edge

-----------------------------------------------------------------------------
(* Steps that leave the command on its way alone.                         *)
LEMMA CmdFrame ==
  ASSUME CmdInv,
         UNCHANGED <<cmd_state, cmd_progress, cmdbuf, cmds, kill_sig, pushed, words, executed, bits>>,
         ready_for_command' => ready_for_command \/ (hwready' /\ cmd_state = "INACTIVE"),
         hwready => hwready',
         cmd_state \in {"BITS_WRITE_B", "VALID_WRITE_B"} => wr'.stage = wr.stage /\ pins'.w = pins.w
  PROVE  CmdInv'
<1> USE DEF CmdInv
<1>1. Queued'
  BY DEF Queued, Taken, CmdBusy
<1>2. SentWords' = SentWords /\ (CmdBusy' <=> CmdBusy) /\ (Assembling' <=> Assembling) /\ Taken' = Taken
  BY DEF SentWords, Assembling, CmdBusy, Taken
<1>3. Assembled'
  BY <1>2 DEF Assembled
<1>4. BitsRight'
  BY DEF BitsRight
<1>5. ReadyKept'
  BY DEF ReadyKept
<1> QED
  BY <1>1, <1>3, <1>4, <1>5

(* Steps that leave the responses alone.                                  *)
LEMMA RspFrame ==
  ASSUME RspInv,
         UNCHANGED <<rsp_state, rsp_progress, resbuf, registered, respq, avail, due>>,
         rsp_state = "READY_WRITE_B" => wr'.stage = wr.stage,
         Asked' = Asked
  PROVE  RspInv'
<1> USE DEF RspInv
<1>1. (NotPopped' <=> NotPopped)
  BY DEF NotPopped
<1>2. Popped' = Popped /\ (RspBusy' <=> RspBusy)
  BY <1>1 DEF Popped, RspBusy
<1>3. (Reading' <=> Reading) /\ (InHand' <=> InHand) /\ HwTag' = HwTag
  BY <1>2 DEF Reading, InHand, HwTag
<1>4. CurTag' = CurTag /\ RespTags' = RespTags /\ HwTags' = HwTags /\ HandTags' = HandTags
  BY <1>3 DEF CurTag, RespTags, HwTags, HandTags, TagOf
<1>5. AvailKept'
  BY <1>1 DEF AvailKept
<1>6. Offered'
  BY <1>2, <1>3, <1>4 DEF Offered, Rest
<1>7. Tracked'
  BY <1>4 DEF Tracked
<1>8. Whole'
  BY DEF Whole, TagOf
<1> QED
  BY <1>5, <1>6, <1>7, <1>8

(* The hardware's progress with a command.                                *)
LEMMA AssembledFrame ==
  ASSUME Assembled, UNCHANGED <<words, executed, pushed, cmds, cmdbuf>>, CmdBusy,
         SentWords' = SentWords, CmdBusy' \/ SentWords >= CmdWords, SentWords \in Nat
  PROVE  Assembled'
<1>1. Taken' = Taken
  BY DEF Taken
<1>2. Assembling' <=> Assembling
  BY WordsAssumption DEF Assembling
<1> QED
  BY <1>1, <1>2 DEF Assembled

(* update_command_state hands over the words of the command in order.     *)
LEMMA CommandTick ==
  ASSUME IInv, BusInv, UpdateCommandState, UNCHANGED <<wr, rd, bits, hardware, pushed>>, ~CmdFetch
  PROVE  CmdInv'
<1> USE DEF BusInv, CmdInv
<1>1. /\ phase = "cmd" /\ ~kill_sig
      /\ UNCHANGED <<wr, rd, dut, bits, hwready, words, executed, pushed, cmdbuf, cmds, kill_sig>>
  BY DEF UpdateCommandState, CmdCase, CmdDrive, CmdKeep, CmdBitsWriteAddr, CmdBitsWriteDat,
       CmdBitsWriteB, CmdValidAddr, CmdValidDat, CmdValidWriteB, CmdRecheckReadyAddr,
       CmdRecheckReadyDat, CmdInactive, hardware, globals
<1>2. wr = WrOf /\ rd = RdOf
  BY <1>1, Quiet DEF InStep
<1>3. Queued'
  BY <1>1 DEF Queued, Taken
<1>4. cmd_progress \in Nat
  BY WordsAssumption DEF IInv, TypeOK
<1>5. CASE CmdInactive
  <2>1. UNCHANGED <<cmd_state, cmd_progress, ready_for_command>> /\ cmd_state = "INACTIVE"
    BY <1>5 DEF CmdInactive, CmdCase, CmdKeep
  <2> QED
    BY <1>1, <2>1, CmdFrame
<1>6. CASE CmdBitsWriteAddr
  <2>1. /\ cmd_state = "BITS_WRITE_ADDR" /\ cmd_progress' = cmd_progress /\ ready_for_command' = FALSE
        /\ cmd_state' = IF dut.aw_ready THEN "BITS_WRITE_DAT" ELSE "BITS_WRITE_ADDR"
    BY <1>6 DEF CmdBitsWriteAddr, CmdDrive, CmdCase, CmdKeep
  <2>2. Assembled'
    <3>1. SentWords' = cmd_progress /\ SentWords = cmd_progress /\ CmdBusy /\ CmdBusy'
      BY <1>1, <1>2, <1>4, <2>1 DEF SentWords, CmdBusy, WrOf, At
    <3> QED
      BY <1>1, <1>4, <3>1, AssembledFrame
  <2>3. BitsRight'
    BY <1>1, <1>2, <2>1 DEF BitsRight, WrOf, At
  <2>4. ReadyKept'
    BY <1>1, <1>2, <2>1 DEF ReadyKept, WrOf, At
  <2> QED
    BY <1>3, <2>2, <2>3, <2>4
<1>7. CASE CmdBitsWriteDat
  <2>1. /\ cmd_state = "BITS_WRITE_DAT" /\ cmd_progress' = cmd_progress /\ ready_for_command' = ready_for_command /\ pins' = [NoPins EXCEPT !.w = <<cmdbuf, cmd_progress>>]
        /\ cmd_state' = IF dut.w_ready THEN "BITS_WRITE_B" ELSE "BITS_WRITE_DAT"
    BY <1>7 DEF CmdBitsWriteDat, CmdDrive, CmdCase, CmdKeep
  <2>2. Assembled'
    <3>1. SentWords' = cmd_progress /\ SentWords = cmd_progress /\ CmdBusy /\ CmdBusy'
      BY <1>1, <1>2, <1>4, <2>1 DEF SentWords, CmdBusy, WrOf, At
    <3> QED
      BY <1>1, <1>4, <3>1, AssembledFrame
  <2>3. BitsRight'
    BY <1>1, <1>2, <2>1 DEF BitsRight, WrOf, At, NoPins
  <2>4. ReadyKept'
    BY <1>1, <1>2, <2>1 DEF ReadyKept, WrOf, At
  <2> QED
    BY <1>3, <2>2, <2>3, <2>4
<1>8. CASE CmdBitsWriteB
  <2>1. /\ cmd_state = "BITS_WRITE_B" /\ cmd_progress' = cmd_progress /\ ready_for_command' = ready_for_command
        /\ cmd_state' = IF dut.b_valid THEN "VALID_ADDR" ELSE "BITS_WRITE_B"
    BY <1>8 DEF CmdBitsWriteB, CmdDrive, CmdCase, CmdKeep
  <2>2. Assembled'
    <3>1. SentWords' = cmd_progress /\ SentWords = cmd_progress /\ CmdBusy /\ CmdBusy'
      BY <1>1, <1>2, <1>4, <2>1 DEF SentWords, CmdBusy, WrOf, At
    <3> QED
      BY <1>1, <1>4, <3>1, AssembledFrame
  <2>3. BitsRight'
    BY <1>1, <1>2, <2>1 DEF BitsRight, WrOf, At
  <2>4. ReadyKept'
    BY <1>1, <1>2, <2>1 DEF ReadyKept, WrOf, At
  <2> QED
    BY <1>3, <2>2, <2>3, <2>4
<1>9. CASE CmdValidAddr
  <2>1. /\ cmd_state = "VALID_ADDR" /\ cmd_progress' = cmd_progress /\ ready_for_command' = ready_for_command
        /\ cmd_state' = IF dut.aw_ready THEN "VALID_DAT" ELSE "VALID_ADDR"
    BY <1>9 DEF CmdValidAddr, CmdDrive, CmdCase, CmdKeep
  <2>2. Assembled'
    <3>1. SentWords' = cmd_progress /\ SentWords = cmd_progress /\ CmdBusy /\ CmdBusy'
      BY <1>1, <1>2, <1>4, <2>1 DEF SentWords, CmdBusy, WrOf, At
    <3> QED
      BY <1>1, <1>4, <3>1, AssembledFrame
  <2>3. BitsRight'
    BY <1>1, <1>2, <2>1 DEF BitsRight, WrOf, At
  <2>4. ReadyKept'
    BY <1>1, <1>2, <2>1 DEF ReadyKept, WrOf, At
  <2> QED
    BY <1>3, <2>2, <2>3, <2>4
<1>10. CASE CmdValidDat
  <2>1. /\ cmd_state = "VALID_DAT" /\ cmd_progress' = cmd_progress /\ ready_for_command' = ready_for_command
        /\ cmd_state' = IF dut.w_ready THEN "VALID_WRITE_B" ELSE "VALID_DAT"
    BY <1>10 DEF CmdValidDat, CmdDrive, CmdCase, CmdKeep
  <2>2. Assembled'
    <3>1. SentWords' = cmd_progress /\ SentWords = cmd_progress /\ CmdBusy /\ CmdBusy'
      BY <1>1, <1>2, <1>4, <2>1 DEF SentWords, CmdBusy, WrOf, At
    <3> QED
      BY <1>1, <1>4, <3>1, AssembledFrame
  <2>3. BitsRight'
    BY <1>1, <1>2, <2>1 DEF BitsRight, WrOf, At
  <2>4. ReadyKept'
    BY <1>1, <1>2, <2>1 DEF ReadyKept, WrOf, At
  <2> QED
    BY <1>3, <2>2, <2>3, <2>4
<1>11. CASE CmdRecheckReadyAddr
  <2>1. /\ cmd_state = "RECHECK_READY_ADDR" /\ cmd_progress' = cmd_progress /\ ready_for_command' = ready_for_command
        /\ cmd_state' = IF dut.ar_ready THEN "RECHECK_READY_DAT" ELSE "RECHECK_READY_ADDR"
    BY <1>11 DEF CmdRecheckReadyAddr, CmdDrive, CmdCase, CmdKeep
  <2>2. Assembled'
    <3>1. SentWords' = cmd_progress /\ SentWords = cmd_progress /\ CmdBusy /\ CmdBusy'
      BY <1>1, <1>2, <1>4, <2>1 DEF SentWords, CmdBusy, WrOf, At
    <3> QED
      BY <1>1, <1>4, <3>1, AssembledFrame
  <2>3. BitsRight'
    BY <1>1, <1>2, <2>1 DEF BitsRight, WrOf, At
  <2>4. ReadyKept'
    BY <1>1, <1>2, <2>1 DEF ReadyKept, WrOf, At
  <2> QED
    BY <1>3, <2>2, <2>3, <2>4
<1>12. CASE CmdRecheckReadyDat
  <2>1. /\ cmd_state = "RECHECK_READY_DAT" /\ cmd_progress' = cmd_progress /\ ready_for_command' = ready_for_command
        /\ cmd_state' = IF dut.r_valid THEN (IF dut.r_data # Zero THEN "BITS_WRITE_ADDR" ELSE "RECHECK_READY_ADDR") ELSE "RECHECK_READY_DAT"
    BY <1>12 DEF CmdRecheckReadyDat, CmdDrive, CmdCase, CmdKeep, ReadsSet
  <2>2. Assembled'
    <3>1. SentWords' = cmd_progress /\ SentWords = cmd_progress /\ CmdBusy /\ CmdBusy'
      BY <1>1, <1>2, <1>4, <2>1 DEF SentWords, CmdBusy, WrOf, At
    <3> QED
      BY <1>1, <1>4, <3>1, AssembledFrame
  <2>3. BitsRight'
    BY <1>1, <1>2, <2>1 DEF BitsRight, WrOf, At
  <2>4. ReadyKept'
    BY <1>1, <1>2, <2>1 DEF ReadyKept, WrOf, At, Sampled, RdOf
  <2> QED
    BY <1>3, <2>2, <2>3, <2>4
<1>13. CASE CmdValidWriteB
  <2>1. /\ cmd_state = "VALID_WRITE_B" /\ ready_for_command' = ready_for_command
        /\ IF dut.b_valid
           THEN /\ cmd_progress' = cmd_progress + 1
                /\ cmd_state' = IF cmd_progress + 1 = CmdWords THEN "INACTIVE" ELSE "RECHECK_READY_ADDR"
           ELSE UNCHANGED <<cmd_state, cmd_progress>>
    BY <1>13 DEF CmdValidWriteB, CmdCase, CmdDone
  <2>2. wr.stage = "resp"
    BY <1>2, <2>1 DEF WrOf, At
  <2>3. Assembled'
    <3>1. SentWords = cmd_progress + 1 /\ CmdBusy
      BY <2>1, <2>2 DEF SentWords, CmdBusy
    <3>2. SentWords' = cmd_progress + 1 /\ (CmdBusy' \/ cmd_progress + 1 = CmdWords)
      BY <1>1, <1>4, <2>1, <2>2 DEF SentWords, CmdBusy
    <3> QED
      BY <1>1, <1>4, <3>1, <3>2, AssembledFrame, WordsAssumption
  <2>4. BitsRight'
    BY <1>1, <2>1, <2>2 DEF BitsRight
  <2>5. ReadyKept'
    BY <1>1, <2>1, <2>2 DEF ReadyKept
  <2> QED
    BY <1>3, <2>3, <2>4, <2>5
<1> QED
  BY <1>5, <1>6, <1>7, <1>8, <1>9, <1>10, <1>11, <1>12, <1>13 DEF UpdateCommandState

-----------------------------------------------------------------------------
(* An element of a sequence is one of its elements' set.                  *)
LEMMA ElementOf == ASSUME NEW S, NEW s \in Seq(S), NEW i \in DOMAIN s PROVE s[i] \in S
OBVIOUS

(* A sequence with one element more.                                      *)
LEMMA Longer ==
  ASSUME NEW S, NEW s \in Seq(S), NEW e \in S
  PROVE  /\ Append(s, e) \in Seq(S) /\ Len(Append(s, e)) = Len(s) + 1 /\ Len(s) \in Nat
         /\ DOMAIN Append(s, e) = 1 .. Len(s) + 1 /\ DOMAIN s = 1 .. Len(s)
         /\ Append(s, e)[Len(s) + 1] = e /\ \A i \in 1 .. Len(s) : Append(s, e)[i] = s[i]
OBVIOUS

(* A sequence without its first element.                                  *)
LEMMA Shorter ==
  ASSUME NEW S, NEW s \in Seq(S), s # <<>>
  PROVE  /\ Tail(s) \in Seq(S) /\ Len(Tail(s)) = Len(s) - 1 /\ Len(s) \in Nat \ {0}
         /\ Head(s) = s[1] /\ Head(s) \in S /\ \A i \in 1 .. Len(s) - 1 : Tail(s)[i] = s[i + 1]
OBVIOUS

(* The beginning of a sequence.                                           *)
LEMMA Beginning ==
  ASSUME NEW S, NEW s \in Seq(S), NEW n \in 0 .. Len(s)
  PROVE  /\ SubSeq(s, 1, n) \in Seq(S) /\ Len(SubSeq(s, 1, n)) = n
         /\ DOMAIN SubSeq(s, 1, n) = 1 .. n
         /\ \A i \in 1 .. n : SubSeq(s, 1, n)[i] = s[i]
OBVIOUS

(* The commands taken that ask for a response.                            *)
XdSet == {i \in 1 .. Taken : pushed[i].xd}

(* The commands taken are the first that were pushed.                     *)
LEMMA FetchedFacts ==
  ASSUME Queued, cmds \in Seq(Commands)
  PROVE  /\ Taken \in Nat /\ Taken <= Len(pushed) /\ Taken + Len(cmds) = Len(pushed)
         /\ Fetched \in Seq(Commands) /\ Len(Fetched) = Taken /\ DOMAIN Fetched = 1 .. Taken
         /\ \A i \in 1 .. Taken : Fetched[i] = pushed[i]
         /\ XdCount(Fetched) = Cardinality(XdSet)
         /\ IsFiniteSet(XdSet) /\ Cardinality(XdSet) \in Nat
<1>1. pushed \in Seq(Commands) /\ Len(cmds) \in Nat /\ Len(pushed) \in Nat /\ Len(cmds) <= Len(pushed)
  BY DEF Queued
<1>2. Taken \in 0 .. Len(pushed) /\ Taken + Len(cmds) = Len(pushed)
  BY <1>1 DEF Taken
<1>3. Fetched = SubSeq(pushed, 1, Taken)
  BY DEF Fetched, Taken
<1>4. /\ Fetched \in Seq(Commands) /\ Len(Fetched) = Taken /\ DOMAIN Fetched = 1 .. Taken
      /\ \A i \in 1 .. Taken : Fetched[i] = pushed[i]
  BY <1>1, <1>2, <1>3, Beginning
<1>5. {i \in DOMAIN Fetched : Fetched[i].xd} = XdSet
  BY <1>4 DEF XdSet
<1>6. IsFiniteSet(XdSet)
  <2>1. IsFiniteSet(1 .. Taken)
    BY <1>2, FS_Interval
  <2> QED
    BY <2>1, FS_Subset DEF XdSet
<1>7. XdCount(Fetched) = Cardinality(XdSet) /\ Cardinality(XdSet) \in Nat
  BY <1>5, <1>6, FS_CardinalityType DEF XdCount
<1>8. Taken \in Nat /\ Taken <= Len(pushed)
  BY <1>1, <1>2
<1> QED
  BY <1>2, <1>4, <1>6, <1>7, <1>8

(* The same of the count alone.                                           *)
LEMMA XdCounted == Queued /\ cmds \in Seq(Commands) => XdCount(Fetched) = Cardinality(XdSet)
  BY FetchedFacts

(* What the steps below need of the controller's invariant.               *)
LEMMA ControlTypes ==
  ASSUME IInv
  PROVE  /\ cmds \in Seq(Commands) /\ cmds_inflight \in Nat /\ registered \in Seq(Responses)
         /\ cmd_progress \in 0 .. CmdWords /\ rsp_progress \in 0 .. RespWords /\ resbuf \in Responses
  BY DEF IInv, TypeOK

(* A command is fetched: it is the next one, none of its words is sent,   *)
(* and it counts as in flight if it asks for a response.                  *)
LEMMA FetchTick ==
  ASSUME IInv, BusInv, CmdFetch, UNCHANGED <<wr, rd, bits, hardware, pushed>>
  PROVE  /\ CmdInv' /\ InflightExact'
         /\ Taken' = Taken + 1 /\ Taken + 1 \in 1 .. Len(pushed) /\ Head(cmds) = pushed[Taken + 1]
         /\ Len(executed) = Taken
<1> USE DEF BusInv, CmdInv
<1>1. /\ cmd_state = "INACTIVE" /\ ready_for_command /\ cmds # <<>> /\ ~kill_sig
      /\ cmd_state' = "BITS_WRITE_ADDR" /\ cmd_progress' = 0 /\ cmdbuf' = Head(cmds).tag
      /\ cmds' = Tail(cmds)
      /\ UNCHANGED <<wr, rd, dut, bits, hwready, words, executed, pushed, ready_for_command, registered>>
  BY DEF CmdFetch, MayFetch, hardware, response
<1>2. cmds_inflight' = IF Head(cmds).xd THEN cmds_inflight + 1 ELSE cmds_inflight
  BY DEF CmdFetch
<1>3. cmds \in Seq(Commands) /\ cmds_inflight \in Nat /\ registered \in Seq(Responses)
  BY ControlTypes
<1>4. /\ Taken \in Nat /\ Taken <= Len(pushed) /\ Taken + Len(cmds) = Len(pushed)
      /\ XdCount(Fetched) = Cardinality(XdSet) /\ IsFiniteSet(XdSet) /\ Cardinality(XdSet) \in Nat
  BY <1>3, FetchedFacts
<1>5. /\ cmds' \in Seq(Commands) /\ Len(cmds') = Len(cmds) - 1 /\ Len(cmds) \in Nat \ {0}
      /\ Head(cmds) = cmds[1] /\ \A i \in 1 .. Len(cmds) - 1 : cmds'[i] = cmds[i + 1]
  BY <1>1, <1>3, Shorter
<1>6. pushed \in Seq(Commands) /\ Len(pushed) \in Nat /\ Len(pushed) <= MaxCommands
      /\ \A i \in 1 .. Len(pushed) : pushed[i].tag = i
  BY DEF Queued
<1>7. \A i \in 1 .. Len(cmds) : cmds[i] = pushed[Taken + i]
  BY DEF Queued
<1>8. Taken' = Taken + 1 /\ Taken + 1 \in 1 .. Len(pushed) /\ Head(cmds) = pushed[Taken + 1]
  <2>1. Len(pushed) - (Len(cmds) - 1) = (Len(pushed) - Len(cmds)) + 1 /\ 1 \in 1 .. Len(cmds)
    BY <1>5, <1>6
  <2>2. Taken' = Taken + 1
    BY <1>1, <1>5, <2>1 DEF Taken
  <2>3. Taken + 1 \in 1 .. Len(pushed)
    BY <1>4, <1>5, <1>6
  <2> QED
    BY <1>5, <1>7, <2>1, <2>2, <2>3
<1>9. Queued'
  <2>1. \A i \in 1 .. Len(cmds) - 1 : cmds'[i] = pushed[(Taken + 1) + i]
    <3> TAKE i \in 1 .. Len(cmds) - 1
    <3>1. i + 1 \in 1 .. Len(cmds) /\ Taken + (i + 1) = (Taken + 1) + i
      BY <1>4, <1>5
    <3> QED
      BY <1>5, <1>7, <3>1
  <2>2. CmdBusy'
    BY <1>1 DEF CmdBusy
  <2>3. Len(cmds') <= Len(pushed)
    BY <1>4, <1>5, <1>6
  <2>4. \A i \in 1 .. Len(cmds') : cmds'[i] = pushed[Taken' + i]
    BY <1>5, <1>8, <2>1
  <2> QED
    BY <1>1, <1>6, <2>2, <2>3, <2>4 DEF Queued
<1>10. ~Assembling /\ words = <<>> /\ Len(executed) = Taken /\ executed \in Seq(Nat)
       /\ \A i \in 1 .. Len(executed) : executed[i] = i
  <2>1. ~Assembling
    BY <1>1 DEF Assembling, CmdBusy
  <2> QED
    BY <1>4, <2>1 DEF Assembled
<1>11. Assembled'
  <2>1. SentWords' = 0 /\ Assembling' /\ cmdbuf' = Taken'
    <3>1. SentWords' = 0
      BY <1>1 DEF SentWords
    <3>2. cmdbuf' = Taken'
      BY <1>1, <1>6, <1>8
    <3> QED
      BY <1>1, <3>1, <3>2, WordsAssumption DEF Assembling, CmdBusy
  <2>2. [i \in 1 .. 0 |-> <<cmdbuf', i - 1>>] = <<>>
    OBVIOUS
  <2>3. words' = [i \in 1 .. SentWords' |-> <<cmdbuf', i - 1>>]
    BY <1>1, <1>10, <2>1, <2>2
  <2>4. Len(executed') = Taken' - 1
    BY <1>1, <1>4, <1>8, <1>10
  <2> QED
    BY <1>1, <1>10, <2>1, <2>3, <2>4 DEF Assembled
<1>12. BitsRight' /\ ReadyKept'
  BY <1>1 DEF BitsRight, ReadyKept
<1>13. InflightExact'
  <2>1. XdSet' = IF pushed[Taken + 1].xd THEN XdSet \cup {Taken + 1} ELSE XdSet
    <3>1. 1 .. Taken + 1 = (1 .. Taken) \cup {Taken + 1}
      BY <1>4
    <3> QED
      BY <1>1, <1>8, <3>1 DEF XdSet
  <2>2. Taken + 1 \notin XdSet
    BY <1>4 DEF XdSet
  <2>3. Cardinality(XdSet \cup {Taken + 1}) = Cardinality(XdSet) + 1
    BY <1>4, <2>2, FS_AddElement
  <2>4. XdCount(Fetched)' = Cardinality(XdSet')
    <3>1. (Queued /\ cmds \in Seq(Commands) => XdCount(Fetched) = Cardinality(XdSet))'
      BY XdCounted, PTL
    <3> QED
      BY <1>5, <1>9, <3>1
  <2>5. Len(registered) \in Nat /\ cmds_inflight = Cardinality(XdSet) - Len(registered)
    BY <1>3, <1>4 DEF InflightExact
  <2>6. Cardinality(XdSet') = Cardinality(XdSet) + (IF Head(cmds).xd THEN 1 ELSE 0)
    BY <1>4, <1>8, <2>1, <2>3
  <2> QED
    BY <1>1, <1>2, <1>3, <1>4, <2>4, <2>5, <2>6 DEF InflightExact
<1> QED
  BY <1>8, <1>9, <1>10, <1>11, <1>12, <1>13

-----------------------------------------------------------------------------
(* The response machine's places in a response.                           *)
PlacesHold ==
  /\ rsp_progress \in Nat /\ Popped \in Int
  /\ rsp_state \in {"BITS_ADDR", "BITS_READ", "RECHECK_VALID_ADDR", "RECHECK_VALID_READ"} =>
       Reading /\ Popped = rsp_progress /\ ~NotPopped
  /\ NotPopped => Reading /\ Popped = rsp_progress - 1 /\ rsp_progress > 0
  /\ rsp_state = "READY_WRITE_B" /\ ~NotPopped =>
       Popped = rsp_progress /\ rsp_progress > 0 /\ (Reading <=> rsp_progress # RespWords)
  /\ ~RspBusy => ~Reading /\ ~InHand /\ ~NotPopped

(* They follow from the bounds of the buffers.                            *)
LEMMA Places == IInv => PlacesHold
<1> SUFFICES ASSUME IInv PROVE PlacesHold
  OBVIOUS
<1>1. rsp_progress \in 0 .. RespWords /\ RespWords \in Nat \ {0}
  BY ControlTypes, WordsAssumption
<1>2. BuffersInBounds
  BY DEF IInv
<1>3. rsp_state \in {"BITS_ADDR", "BITS_READ", "RECHECK_VALID_ADDR", "RECHECK_VALID_READ"} =>
        Reading /\ Popped = rsp_progress /\ ~NotPopped
  BY <1>1, <1>2 DEF BuffersInBounds, Reading, Popped, NotPopped, RspBusy
<1>4. NotPopped => Reading /\ Popped = rsp_progress - 1 /\ rsp_progress > 0
  BY <1>1, <1>2 DEF BuffersInBounds, Reading, Popped, NotPopped, RspBusy
<1>5. rsp_state = "READY_WRITE_B" /\ ~NotPopped =>
        Popped = rsp_progress /\ rsp_progress > 0 /\ (Reading <=> rsp_progress # RespWords)
  BY <1>1, <1>2 DEF BuffersInBounds, Popped, Reading, RspBusy
<1>6. ~RspBusy => ~Reading /\ ~InHand /\ ~NotPopped
  BY DEF Reading, InHand, NotPopped, RspBusy
<1>7. rsp_progress \in Nat /\ Popped \in Int
  BY <1>1 DEF Popped
<1> QED
  BY <1>3, <1>4, <1>5, <1>6, <1>7 DEF PlacesHold

(* A step of the response machine within a word, or to the next.          *)
LEMMA RspMove ==
  ASSUME RspInv, RspBusy, RspBusy', (Reading' <=> Reading), Popped' = Popped,
         UNCHANGED <<resbuf, rsp_progress, registered, respq, avail, due, pushed, executed>>,
         rsp_state' \in {"BITS_ADDR", "BITS_READ"} \/ NotPopped' => avail
  PROVE  RspInv'
<1> USE DEF RspInv
<1>1. CurTag' = CurTag /\ HwTag' = HwTag /\ (InHand' <=> InHand)
  BY DEF CurTag, HwTag, InHand
<1>2. HwTags' = HwTags /\ HandTags' = HandTags /\ RespTags' = RespTags /\ Asked' = Asked
  BY <1>1 DEF HwTags, HandTags, RespTags, Asked, TagOf
<1>3. AvailKept'
  BY DEF AvailKept
<1>4. Offered'
  BY <1>1 DEF Offered, Rest
<1>5. Tracked' /\ Whole'
  BY <1>2 DEF Tracked, Whole, TagOf
<1> QED
  BY <1>3, <1>4, <1>5

(* A word of a response is read.                                          *)
LEMMA WordRead ==
  ASSUME IInv, IInv', BusInv, RspBitsRead, UNCHANGED <<wr, rd, hardware, pushed>>, dut.r_valid
  PROVE  RspInv'
<1> USE DEF BusInv, RspInv
<1>1. /\ phase = "rsp" /\ rsp_state = "BITS_READ" /\ rsp_state' = "READY_ADDR"
      /\ resbuf' = [resbuf EXCEPT ![rsp_progress] = dut.r_data] /\ rsp_progress' = rsp_progress + 1
      /\ UNCHANGED <<registered, respq, avail, due, executed, pushed>>
  BY DEF RspBitsRead, RspDrive, RspCase, hardware
<1>2. PlacesHold
  BY Places
<1>3. PlacesHold'
  <2>1. (IInv => PlacesHold)'
    BY Places, PTL
  <2> QED
    BY <2>1
<1>4. Reading /\ Popped = rsp_progress /\ rsp_progress \in Nat /\ RspBusy
  BY <1>1, <1>2 DEF PlacesHold, RspBusy
<1>5. NotPopped' /\ Reading' /\ Popped' = rsp_progress
  <2>1. NotPopped'
    BY <1>1 DEF NotPopped
  <2>2. Reading' /\ Popped' = rsp_progress' - 1
    BY <1>3, <2>1 DEF PlacesHold
  <2> QED
    BY <1>1, <1>4, <2>1, <2>2
<1>6. rd.reg = "RESP_BITS"
  <2>1. pins = NoPins
    BY <1>1 DEF IInv, Driven, RspBusy
  <2>2. rd = RdOf
    BY <2>1, Quiet DEF InStep
  <2>3. cmd_state = "INACTIVE" /\ ongoing_update \in {"IDLE_RESP", "IDLE_CMD"}
    BY <1>1 DEF IInv, BusExclusive, RspBusy, CmdBusy, UpdBusy, Idle
  <2> QED
    BY <1>1, <2>2, <2>3 DEF RdOf, At
<1>7. respq # <<>> /\ dut.r_data = Head(respq) /\ respq = Rest(HwTag, rsp_progress)
  BY <1>4, <1>6 DEF Sampled, Offered
<1>8. rsp_progress \in 0 .. RespWords - 1 /\ resbuf \in Responses
  <2>1. BuffersInBounds /\ rsp_progress \in 0 .. RespWords
    BY ControlTypes DEF IInv
  <2> QED
    BY <1>1, <2>1, ControlTypes, WordsAssumption DEF BuffersInBounds
<1>9. dut.r_data = <<HwTag, rsp_progress>>
  <2>1. 1 \in 1 .. RespWords - rsp_progress
    BY <1>8, WordsAssumption
  <2>2. respq[1] = <<HwTag, rsp_progress + 1 - 1>>
    BY <1>7, <2>1 DEF Rest
  <2>3. Head(respq) = respq[1]
    OBVIOUS
  <2> QED
    BY <1>4, <1>7, <2>2, <2>3
<1>10. HwTag' = HwTag /\ CurTag' = HwTag /\ CurTag = HwTag /\ ~InHand /\ ~InHand'
  BY <1>1, <1>4, <1>5 DEF HwTag, CurTag, InHand
<1>11. Offered'
  <2>1. \A j \in 0 .. rsp_progress - 1 : resbuf[j] = <<HwTag, j>>
    BY <1>4, <1>10 DEF Offered
  <2>2. ASSUME NEW j \in 0 .. rsp_progress PROVE resbuf'[j] = <<HwTag, j>>
    <3>1. CASE j = rsp_progress
      BY <1>1, <1>8, <1>9, <3>1 DEF Responses
    <3>2. CASE j # rsp_progress
      <4>1. j \in 0 .. rsp_progress - 1
        BY <1>4, <3>2
      <4> QED
        BY <1>1, <1>8, <2>1, <3>2, <4>1 DEF Responses
    <3> QED
      BY <3>1, <3>2
  <2>3. 0 .. rsp_progress' - 1 = 0 .. rsp_progress
    BY <1>1, <1>4
  <2>4. respq' = Rest(HwTag', Popped')
    BY <1>1, <1>5, <1>7, <1>10 DEF Rest
  <2> QED
    BY <1>1, <1>5, <1>7, <1>10, <2>2, <2>3, <2>4 DEF Offered, Rest
<1>12. AvailKept'
  BY <1>1 DEF AvailKept
<1>13. Tracked' /\ Whole'
  <2>1. HwTags' = HwTags /\ HandTags' = HandTags /\ RespTags' = RespTags /\ Asked' = Asked
    BY <1>1, <1>10 DEF HwTags, HandTags, RespTags, Asked, TagOf
  <2> QED
    BY <1>1, <2>1 DEF Tracked, Whole, TagOf
<1> QED
  BY <1>11, <1>12, <1>13

(* A response is complete and handed over.                                *)
LEMMA ResponseDone ==
  ASSUME IInv, IInv', BusInv, RspAcknowledged, rsp_progress = RespWords, rsp_state = "READY_WRITE_B",
         wr.stage = "resp",
         UNCHANGED <<wr, rd, hardware, pushed, cmds, resbuf, rsp_progress>>
  PROVE  /\ RspInv' /\ InflightExact'
         /\ \A j \in 0 .. RespWords - 1 : resbuf[j] = <<TagOf(resbuf), j>>
         /\ HandTags = {TagOf(resbuf)} /\ registered' = Append(registered, resbuf)
<1> USE DEF BusInv, RspInv
<1>1. /\ rsp_state' = "INACTIVE" /\ registered' = Append(registered, resbuf)
      /\ cmds_inflight' = cmds_inflight - 1
      /\ UNCHANGED <<respq, avail, due, executed, pushed>>
  BY DEF RspAcknowledged, InflightAfterResponse, hardware
<1>2. PlacesHold
  BY Places
<1>3. ~NotPopped /\ ~Reading /\ InHand /\ RspBusy /\ CurTag = TagOf(resbuf)
  <2>1. ~NotPopped
    BY DEF NotPopped
  <2>2. ~Reading
    BY <1>2, <2>1 DEF PlacesHold
  <2> QED
    BY <2>1, <2>2 DEF InHand, RspBusy, CurTag, TagOf
<1>4. ~RspBusy' /\ ~NotPopped' /\ ~Reading' /\ ~InHand'
  BY <1>1 DEF RspBusy, NotPopped, Reading, InHand
<1>5. \A j \in 0 .. RespWords - 1 : resbuf[j] = <<TagOf(resbuf), j>>
  BY <1>3 DEF Offered
<1>6. AvailKept' /\ Offered'
  <2>1. HwTag' = HwTag
    BY <1>1 DEF HwTag
  <2>2. AvailKept'
    BY <1>1, <1>4 DEF AvailKept
  <2>3. Offered'
    BY <1>1, <1>3, <1>4, <2>1 DEF Offered, Rest
  <2> QED
    BY <2>2, <2>3
<1>7. resbuf \in Responses /\ registered \in Seq(Responses)
  BY ControlTypes
<1>8. PICK n \in Nat : /\ n = Len(registered) /\ DOMAIN registered = 1 .. n
                       /\ DOMAIN registered' = 1 .. n + 1 /\ Len(registered') = n + 1
                       /\ registered'[n + 1] = resbuf
                       /\ \A i \in 1 .. n : registered'[i] = registered[i]
  BY <1>1, <1>7, Longer
<1>9. HandTags = {TagOf(resbuf)} /\ HandTags' = {} /\ HwTags' = HwTags /\ Asked' = Asked
  BY <1>1, <1>3, <1>4 DEF HandTags, HwTags, HwTag, Asked
<1>10. 1 .. n + 1 = (1 .. n) \cup {n + 1}
  OBVIOUS
<1>11. RespTags' = RespTags \cup {TagOf(resbuf)}
  BY <1>8, <1>10 DEF RespTags, TagOf
<1>12. Tracked'
  BY <1>1, <1>9, <1>11 DEF Tracked
<1>13. Whole'
  <2>1. \A i \in 1 .. n : /\ TagOf(registered[i]) # TagOf(resbuf)
                          /\ \A j \in 0 .. RespWords - 1 : registered[i][j] = <<TagOf(registered[i]), j>>
    <3>1. \A i \in 1 .. n : TagOf(registered[i]) \in RespTags
      BY <1>8 DEF RespTags
    <3>2. TagOf(resbuf) \notin RespTags
      BY <1>9 DEF Tracked
    <3> QED
      BY <1>8, <3>1, <3>2 DEF Whole
  <2>2. \A i, j \in 1 .. n : TagOf(registered[i]) = TagOf(registered[j]) => i = j
    BY <1>8 DEF Whole
  <2>3. ASSUME NEW i \in 1 .. n + 1
        PROVE  \A j \in 0 .. RespWords - 1 : registered'[i][j] = <<TagOf(registered'[i]), j>>
    <3>1. i \in 1 .. n \/ i = n + 1
      BY <1>10
    <3> QED
      BY <1>5, <1>8, <2>1, <3>1
  <2>4. ASSUME NEW i \in 1 .. n + 1, NEW j \in 1 .. n + 1, TagOf(registered'[i]) = TagOf(registered'[j])
        PROVE  i = j
    <3>1. i \in 1 .. n \/ i = n + 1
      BY <1>10
    <3>2. j \in 1 .. n \/ j = n + 1
      BY <1>10
    <3> QED
      BY <1>8, <2>1, <2>2, <2>4, <3>1, <3>2
  <2>5. \A r : TagOf(r)' = TagOf(r)
    BY DEF TagOf
  <2> QED
    BY <1>8, <2>3, <2>4 DEF Whole, TagOf
<1>14. InflightExact'
  <2>1. XdCount(Fetched)' = XdCount(Fetched)
    BY <1>1 DEF XdCount, Fetched
  <2>2. XdCount(Fetched) \in Int
    <3>1. Queued /\ cmds \in Seq(Commands)
      BY ControlTypes DEF CmdInv
    <3>2. XdCount(Fetched) = Cardinality(XdSet) /\ Cardinality(XdSet) \in Nat
      BY <3>1, FetchedFacts
    <3> QED
      BY <3>2
  <2> QED
    BY <1>1, <1>8, <2>1, <2>2 DEF InflightExact
<1> QED
  BY <1>1, <1>5, <1>6, <1>9, <1>12, <1>13, <1>14

(* update_resp_state reads the words of one response in order, each before *)
(* the hardware drops it.                                                 *)
LEMMA ResponseTick ==
  ASSUME IInv, IInv', BusInv, UpdateRespState, UNCHANGED <<wr, rd, bits, hardware, pushed>>
  PROVE  Sampled' /\ CmdInv' /\ RspInv' /\ InflightExact'
<1> USE DEF BusInv
<1>1. /\ phase = "rsp"
      /\ UNCHANGED <<wr, rd, dut, bits, hwready, words, executed, due, respq, avail, pushed, cmds,
                     cmd_state, cmd_progress, cmdbuf, ready_for_command, ongoing_update, kill_sig>>
  BY DEF UpdateRespState, RspCase, RspDrive, RspInactive, RspBitsAddr, RspBitsRead, RspReadyAddr,
       RspReadyWrite, RspReadyWriteB, RspRecheckValidAddr, RspRecheckValidRead, command, update,
       hardware
<1>2. Sampled'
  BY <1>1 DEF Sampled
<1>3. CmdInv'
  <2>1. CASE rsp_state = "INACTIVE"
    <3>1. pins' = pins
      BY <2>1 DEF UpdateRespState, RspCase, RspDrive, RspInactive, RspBitsAddr, RspBitsRead,
         RspReadyAddr, RspReadyWrite, RspReadyWriteB, RspRecheckValidAddr, RspRecheckValidRead
    <3> QED
      BY <1>1, <3>1, CmdFrame
  <2>2. CASE rsp_state # "INACTIVE"
    <3>1. cmd_state = "INACTIVE"
      BY <2>2 DEF IInv, BusExclusive, CmdBusy, RspBusy
    <3> QED
      BY <1>1, <3>1, CmdFrame
  <2> QED
    BY <2>1, <2>2
<1>4. Asked' = Asked
  BY <1>1 DEF Asked
<1>5. ASSUME UNCHANGED <<registered, cmds_inflight>> PROVE InflightExact'
  BY <1>1, <1>5 DEF InflightExact, XdCount, Fetched
<1>6. PlacesHold /\ PlacesHold'
  <2>1. (IInv => PlacesHold)'
    BY Places, PTL
  <2> QED
    BY <2>1, Places
<1>7. ASSUME rsp_state # "INACTIVE"
      PROVE  wr = WrOf /\ rd = RdOf /\ cmd_state = "INACTIVE" /\ ongoing_update \in {"IDLE_RESP", "IDLE_CMD"}
  <2>1. pins = NoPins
    BY <1>1, <1>7 DEF IInv, Driven, RspBusy
  <2>2. wr = WrOf /\ rd = RdOf
    BY <2>1, Quiet DEF InStep
  <2> QED
    BY <1>7, <2>2 DEF IInv, BusExclusive, RspBusy, CmdBusy, UpdBusy, Idle
<1>8. CASE RspInactive
  <2>1. rsp_state = "INACTIVE" /\ UNCHANGED <<rsp_state, rsp_progress, resbuf, registered, cmds_inflight>>
    BY <1>8 DEF RspInactive, RspDrive, RspCase, RspKeep
  <2> QED
    BY <1>1, <1>2, <1>3, <1>4, <1>5, <2>1, RspFrame
<1>9. ASSUME UNCHANGED <<rsp_progress, resbuf, registered, cmds_inflight>>,
             rsp_state # "INACTIVE", rsp_state' # "INACTIVE",
             (Reading' <=> Reading), Popped' = Popped,
             rsp_state' \in {"BITS_ADDR", "BITS_READ"} \/ NotPopped' => avail
      PROVE  RspInv' /\ InflightExact'
  <2>1. RspBusy /\ RspBusy'
    BY <1>9 DEF RspBusy
  <2>2. RspInv'
    BY <1>1, <1>9, <2>1, RspMove
  <2> QED
    BY <1>5, <1>9, <2>2
<1>10. CASE RspBitsAddr
  <2>1. rsp_state = "BITS_ADDR" /\ rsp_state' \in {"BITS_ADDR", "BITS_READ"}
        /\ UNCHANGED <<rsp_progress, resbuf, registered, cmds_inflight>>
    BY <1>10 DEF RspBitsAddr, RspDrive, RspCase, RspKeep
  <2>2. Reading /\ Popped = rsp_progress /\ Reading' /\ Popped' = rsp_progress' /\ avail
    BY <1>6, <2>1 DEF PlacesHold, RspInv, AvailKept
  <2> QED
    BY <1>2, <1>3, <1>9, <2>1, <2>2
<1>11. CASE RspBitsRead
  <2>1. CASE dut.r_valid
    <3>1. RspInv'
      BY <1>1, <1>11, <2>1, WordRead
    <3>2. UNCHANGED <<registered, cmds_inflight>>
      BY <1>11 DEF RspBitsRead
    <3> QED
      BY <1>2, <1>3, <1>5, <3>1, <3>2
  <2>2. CASE ~dut.r_valid
    <3>1. rsp_state = "BITS_READ" /\ UNCHANGED <<rsp_state, rsp_progress, resbuf, registered, cmds_inflight>>
      BY <1>11, <2>2 DEF RspBitsRead, RspDrive, RspCase
    <3> QED
      BY <1>1, <1>2, <1>3, <1>4, <1>5, <3>1, RspFrame
  <2> QED
    BY <2>1, <2>2
<1>12. CASE RspReadyAddr
  <2>1. rsp_state = "READY_ADDR" /\ rsp_state' \in {"READY_ADDR", "READY_WRITE"}
        /\ UNCHANGED <<rsp_progress, resbuf, registered, cmds_inflight>>
    BY <1>12 DEF RspReadyAddr, RspDrive, RspCase, RspKeep
  <2>2. NotPopped /\ NotPopped'
    BY <2>1 DEF NotPopped
  <2>3. Reading /\ Popped = rsp_progress - 1 /\ Reading' /\ Popped' = rsp_progress' - 1 /\ avail
    BY <1>6, <2>2 DEF PlacesHold, RspInv, AvailKept
  <2> QED
    BY <1>2, <1>3, <1>9, <2>1, <2>3
<1>13. CASE RspReadyWrite
  <2>1. rsp_state = "READY_WRITE"
    BY <1>13 DEF RspReadyWrite, RspCase
  <2>2. wr.stage = "data" /\ ~dut.b_valid
    BY <1>7, <2>1 DEF WrOf, At, InStep
  <2>3. rsp_state' \in {"READY_WRITE", "READY_WRITE_B"}
        /\ UNCHANGED <<rsp_progress, resbuf, registered, cmds_inflight>>
    BY <1>13, <2>2 DEF RspReadyWrite
  <2>4. NotPopped /\ NotPopped'
    BY <1>1, <2>1, <2>2, <2>3 DEF NotPopped
  <2>5. Reading /\ Popped = rsp_progress - 1 /\ Reading' /\ Popped' = rsp_progress' - 1 /\ avail
    BY <1>6, <2>4 DEF PlacesHold, RspInv, AvailKept
  <2> QED
    BY <1>2, <1>3, <1>9, <2>1, <2>3, <2>5
<1>14. CASE RspReadyWriteB
  <2>1. rsp_state = "READY_WRITE_B" /\ UNCHANGED <<rsp_progress, resbuf>>
    BY <1>14 DEF RspReadyWriteB, RspCase
  <2>2. wr.stage = "resp"
    BY <1>7, <2>1 DEF WrOf, At
  <2>3. CASE ~dut.b_valid
    <3>1. UNCHANGED <<rsp_state, registered, cmds_inflight>>
      BY <1>14, <2>3 DEF RspReadyWriteB
    <3> QED
      BY <1>1, <1>2, <1>3, <1>4, <1>5, <2>1, <3>1, RspFrame
  <2>4. CASE dut.b_valid /\ rsp_progress = RespWords
    <3>1. RspAcknowledged
      BY <1>14, <2>4 DEF RspReadyWriteB
    <3>2. RspInv' /\ InflightExact'
      BY <1>1, <2>1, <2>2, <2>4, <3>1, ResponseDone
    <3> QED
      BY <1>2, <1>3, <3>2
  <2>5. CASE dut.b_valid /\ rsp_progress # RespWords
    <3>1. rsp_state' = "RECHECK_VALID_ADDR" /\ UNCHANGED <<registered, cmds_inflight>>
      BY <1>14, <2>5 DEF RspReadyWriteB, RspAcknowledged
    <3>2. ~NotPopped /\ ~NotPopped'
      BY <2>1, <2>2, <3>1 DEF NotPopped
    <3>3. Reading /\ Popped = rsp_progress /\ Reading' /\ Popped' = rsp_progress'
      BY <1>6, <2>1, <2>5, <3>1, <3>2 DEF PlacesHold
    <3> QED
      BY <1>2, <1>3, <1>9, <2>1, <3>1, <3>2, <3>3
  <2> QED
    BY <2>3, <2>4, <2>5
<1>15. CASE RspRecheckValidAddr
  <2>1. rsp_state = "RECHECK_VALID_ADDR" /\ rsp_state' \in {"RECHECK_VALID_ADDR", "RECHECK_VALID_READ"}
        /\ UNCHANGED <<rsp_progress, resbuf, registered, cmds_inflight>>
    BY <1>15 DEF RspRecheckValidAddr, RspDrive, RspCase, RspKeep
  <2>2. Reading /\ Popped = rsp_progress /\ Reading' /\ Popped' = rsp_progress' /\ ~NotPopped'
    BY <1>6, <2>1 DEF PlacesHold
  <2> QED
    BY <1>2, <1>3, <1>9, <2>1, <2>2
<1>16. CASE RspRecheckValidRead
  <2>1. rsp_state = "RECHECK_VALID_READ"
        /\ rsp_state' \in {"BITS_ADDR", "RECHECK_VALID_ADDR", "RECHECK_VALID_READ"}
        /\ (rsp_state' = "BITS_ADDR" => dut.r_valid /\ dut.r_data # Zero)
        /\ UNCHANGED <<rsp_progress, resbuf, registered, cmds_inflight>>
    BY <1>16 DEF RspRecheckValidRead, RspDrive, RspCase, RspKeep, ReadsSet
  <2>2. Reading /\ Popped = rsp_progress /\ Reading' /\ Popped' = rsp_progress' /\ ~NotPopped'
    BY <1>6, <2>1 DEF PlacesHold
  <2>3. rd.reg = "RESP_VALID"
    BY <1>7, <2>1 DEF RdOf, At
  <2>4. rsp_state' = "BITS_ADDR" => avail
    BY <2>1, <2>3 DEF Sampled
  <2> QED
    BY <1>2, <1>3, <1>9, <2>1, <2>2, <2>4
<1> QED
  BY <1>8, <1>10, <1>11, <1>12, <1>13, <1>14, <1>15, <1>16 DEF UpdateRespState

(* The update machine finds a response and lets the response machine begin *)
(* with its first word.                                                   *)
LEMMA ResponseFound ==
  ASSUME IInv', RspInv, avail, rsp_state = "INACTIVE", rsp_state' = "BITS_ADDR", rsp_progress' = 0,
         UNCHANGED <<wr, resbuf, registered, respq, avail, due, pushed, executed>>
  PROVE  RspInv'
<1> USE DEF RspInv
<1>1. ~RspBusy /\ ~Reading /\ ~InHand /\ RspBusy'
  BY DEF RspBusy, Reading, InHand
<1>2. Reading' /\ Popped' = 0 /\ ~NotPopped' /\ ~InHand'
  <2>1. (IInv => PlacesHold)'
    BY Places, PTL
  <2>2. Reading' /\ Popped' = rsp_progress' /\ ~NotPopped'
    BY <2>1 DEF PlacesHold
  <2> QED
    BY <2>2 DEF InHand
<1>3. HwTag' = HwTag /\ HwTags' = HwTags /\ HandTags' = HandTags /\ RespTags' = RespTags /\ Asked' = Asked
  BY <1>1, <1>2 DEF HwTag, HwTags, HandTags, RespTags, Asked, TagOf
<1>4. AvailKept'
  BY DEF AvailKept
<1>5. Offered'
  <2>1. respq # <<>> /\ respq = Rest(HwTag, 0)
    BY <1>1 DEF AvailKept, Offered
  <2>2. respq' = Rest(HwTag', 0)
    BY <1>3, <2>1
  <2>3. 0 .. rsp_progress' - 1 = {}
    OBVIOUS
  <2> QED
    BY <1>2, <2>1, <2>2, <2>3 DEF Offered, Rest
<1>6. Tracked' /\ Whole'
  BY <1>3 DEF Tracked, Whole, TagOf
<1> QED
  BY <1>4, <1>5, <1>6

(* A poll that finds none changes nothing for the responses.              *)
LEMMA NoResponseFound ==
  ASSUME RspInv, rsp_state = "INACTIVE", rsp_state' = "INACTIVE",
         UNCHANGED <<wr, resbuf, registered, respq, avail, due, pushed, executed>>
  PROVE  RspInv'
<1> USE DEF RspInv
<1>1. ~RspBusy /\ ~Reading /\ ~InHand /\ ~NotPopped /\ ~RspBusy' /\ ~Reading' /\ ~InHand' /\ ~NotPopped'
  BY DEF RspBusy, Reading, InHand, NotPopped
<1>2. HwTag' = HwTag /\ HwTags' = HwTags /\ HandTags' = HandTags /\ RespTags' = RespTags /\ Asked' = Asked
  BY <1>1 DEF HwTag, HwTags, HandTags, RespTags, Asked, TagOf
<1>3. AvailKept'
  BY <1>1 DEF AvailKept
<1>4. Offered'
  BY <1>1, <1>2 DEF Offered, Rest
<1>5. Tracked' /\ Whole'
  BY <1>2 DEF Tracked, Whole, TagOf
<1> QED
  BY <1>3, <1>4, <1>5

(* update_update_state acts on values that still hold.                    *)
LEMMA UpdateTick ==
  ASSUME IInv, IInv', BusInv, UpdateUpdateState, UNCHANGED <<wr, rd, bits, hardware, pushed>>
  PROVE  Sampled' /\ CmdInv' /\ RspInv' /\ InflightExact'
<1> USE DEF BusInv
<1>1. /\ phase = "upd"
      /\ UNCHANGED <<wr, rd, dut, bits, hwready, words, executed, due, respq, avail, pushed, cmds,
                     cmds_inflight, kill_sig, cmd_state, cmd_progress, cmdbuf, resbuf, registered>>
  BY DEF UpdateUpdateState, UpdCase, UpdIdle, UpdAddr, UpdRespWait, UpdCmdWait, globals, hardware
<1>2. Sampled'
  BY <1>1 DEF Sampled
<1>3. InflightExact' /\ Asked' = Asked
  BY <1>1 DEF InflightExact, XdCount, Fetched, Asked
<1>4. CASE \/ UpdIdle("IDLE_RESP", "RESP_ADDR") \/ UpdIdle("IDLE_CMD", "CMD_ADDR")
  <2>1. UNCHANGED <<pins, ready_for_command, rsp_state, rsp_progress>>
    BY <1>4 DEF UpdIdle
  <2> QED
    BY <1>1, <1>2, <1>3, <2>1, CmdFrame, RspFrame
<1>5. ASSUME ongoing_update \notin Idle
      PROVE  /\ cmd_state = "INACTIVE" /\ rsp_state = "INACTIVE" /\ rd = RdOf
  <2>1. UpdBusy
    BY <1>5 DEF UpdBusy
  <2>2. cmd_state = "INACTIVE" /\ rsp_state = "INACTIVE" /\ pins = NoPins
    BY <1>1, <2>1 DEF IInv, BusExclusive, CmdBusy, RspBusy, Driven
  <2> QED
    BY <2>2, Quiet DEF InStep
<1>6. CASE \/ UpdAddr("RESP_ADDR", "RESP_VALID", "RESP_WAIT") \/ UpdAddr("CMD_ADDR", "CMD_READY", "CMD_WAIT")
  <2>1. ongoing_update \notin Idle /\ UNCHANGED <<ready_for_command, rsp_state, rsp_progress>>
    BY <1>6 DEF UpdAddr, Idle
  <2> QED
    BY <1>1, <1>2, <1>3, <1>5, <2>1, CmdFrame, RspFrame
<1>7. CASE UpdRespWait
  <2>1. ongoing_update = "RESP_WAIT" /\ ready_for_command' = ready_for_command
    BY <1>7 DEF UpdRespWait
  <2>2. cmd_state = "INACTIVE" /\ rsp_state = "INACTIVE" /\ rd.reg = "RESP_VALID"
    <3>1. cmd_state = "INACTIVE" /\ rsp_state = "INACTIVE" /\ rd = RdOf
      BY <1>5, <2>1 DEF Idle
    <3> QED
      BY <2>1, <3>1 DEF RdOf, At
  <2>3. CmdInv'
    BY <1>1, <2>1, <2>2, CmdFrame
  <2>4. CASE dut.r_valid /\ dut.r_data # Zero
    <3>1. rsp_progress' = 0 /\ rsp_state' = "BITS_ADDR"
      BY <1>7, <2>4 DEF UpdRespWait, ReadsSet
    <3>2. avail
      BY <2>2, <2>4 DEF Sampled
    <3>3. RspInv'
      BY <1>1, <2>2, <3>1, <3>2, ResponseFound
    <3> QED
      BY <1>2, <1>3, <2>3, <3>3
  <2>5. CASE ~(dut.r_valid /\ dut.r_data # Zero)
    <3>1. rsp_state' = rsp_state
      BY <1>7, <2>5 DEF UpdRespWait, ReadsSet
    <3>2. RspInv'
      BY <1>1, <2>2, <3>1, NoResponseFound
    <3> QED
      BY <1>2, <1>3, <2>3, <3>2
  <2> QED
    BY <2>4, <2>5
<1>8. CASE UpdCmdWait
  <2>1. ongoing_update = "CMD_WAIT" /\ UNCHANGED <<rsp_state, rsp_progress>>
    BY <1>8 DEF UpdCmdWait
  <2>2. cmd_state = "INACTIVE" /\ rsp_state = "INACTIVE" /\ rd.reg = "CMD_READY"
    <3>1. cmd_state = "INACTIVE" /\ rsp_state = "INACTIVE" /\ rd = RdOf
      BY <1>5, <2>1 DEF Idle
    <3> QED
      BY <2>1, <3>1 DEF RdOf, At
  <2>3. ready_for_command' => ready_for_command \/ hwready
    BY <1>8, <2>2 DEF UpdCmdWait, ReadsSet, Sampled
  <2> QED
    BY <1>1, <1>2, <1>3, <2>1, <2>2, <2>3, CmdFrame, RspFrame
<1> QED
  BY <1>4, <1>6, <1>7, <1>8 DEF UpdateUpdateState

(* A step of the command machine leaves responses and read values alone,  *)
(* and counts the command it takes.                                       *)
LEMMA CommandOthers ==
  ASSUME IInv, BusInv, UpdateCommandState, UNCHANGED <<wr, rd, bits, hardware, pushed>>
  PROVE  Sampled' /\ CmdInv' /\ RspInv' /\ InflightExact'
<1> USE DEF BusInv
<1>1. UNCHANGED <<wr, rd, dut, hwready, executed, due, respq, avail, pushed,
                  rsp_state, rsp_progress, resbuf, registered>>
  BY DEF UpdateCommandState, CmdCase, CmdDrive, CmdBitsWriteAddr, CmdBitsWriteDat,
       CmdBitsWriteB, CmdValidAddr, CmdValidDat, CmdValidWriteB, CmdRecheckReadyAddr,
       CmdRecheckReadyDat, CmdInactive, CmdFetch, hardware, response
<1>2. Sampled' /\ Asked' = Asked
  BY <1>1 DEF Sampled, Asked
<1>3. RspInv'
  BY <1>1, <1>2, RspFrame
<1>4. CASE CmdFetch
  BY <1>2, <1>3, <1>4, FetchTick
<1>5. CASE ~CmdFetch
  <2>1. UNCHANGED <<cmds, cmds_inflight>>
    BY <1>5 DEF UpdateCommandState, CmdCase, CmdDrive, CmdKeep, CmdBitsWriteAddr, CmdBitsWriteDat,
       CmdBitsWriteB, CmdValidAddr, CmdValidDat, CmdValidWriteB, CmdRecheckReadyAddr,
       CmdRecheckReadyDat, CmdInactive, globals
  <2>2. InflightExact'
    BY <1>1, <2>1 DEF InflightExact, XdCount, Fetched
  <2> QED
    BY <1>2, <1>3, <1>5, <2>2, CommandTick
<1> QED
  BY <1>4, <1>5

-----------------------------------------------------------------------------
(* What the machines and the slave do not see leaves them in step.        *)
LEMMA InStepFrame ==
  ASSUME InStep, UNCHANGED <<phase, cmd_state, rsp_state, ongoing_update, pins, dut, wr, rd>>
  PROVE  InStep'
<1>1. WrAfter' = WrAfter /\ RdAfter' = RdAfter
  BY DEF WrAfter, RdAfter, AwShake, WShake, BShake, ArShake, RShake
<1>2. WrOf' = WrOf /\ RdOf' = RdOf
  BY DEF WrOf, RdOf
<1> QED
  BY <1>1, <1>2 DEF InStep, At

(* The server pushes a command behind those that wait.                    *)
LEMMA PushStep ==
  ASSUME IInv, BusInv, BusPush
  PROVE  BusInv' /\ \E c \in Commands : Push(c)
<1> USE DEF BusInv
<1>1. PICK xd \in BOOLEAN, f \in {FALSE, MayFlush} :
        /\ Push([tag |-> Len(pushed) + 1, xd |-> xd, flush |-> f])
        /\ pushed' = Append(pushed, [tag |-> Len(pushed) + 1, xd |-> xd, flush |-> f])
  BY DEF BusPush
<1> DEFINE c == [tag |-> Len(pushed) + 1, xd |-> xd, flush |-> f]
<1>2. Len(pushed) < MaxCommands /\ pushed \in Seq(Commands) /\ Len(pushed) \in Nat /\ cmds \in Seq(Commands)
  <2>1. Len(pushed) < MaxCommands
    BY DEF BusPush
  <2>2. pushed \in Seq(Commands)
    BY DEF CmdInv, Queued
  <2> QED
    BY <2>1, <2>2, ControlTypes
<1>3. c \in Commands /\ c.tag = Len(pushed) + 1
  <2>1. Len(pushed) + 1 \in Tags
    <3>1. Len(pushed) + 1 \in 1 .. MaxCommands
      BY <1>2, MaxCommandsAssumption
    <3> QED
      BY <3>1, BusAssumption
  <2>2. f \in BOOLEAN
    BY BusAssumption
  <2> QED
    BY <2>1, <2>2 DEF Commands
<1> HIDE DEF c
<1>4. /\ Push(c) /\ cmds' = Append(cmds, c) /\ pushed' = Append(pushed, c)
      /\ UNCHANGED <<phase, cmd_state, cmd_progress, cmdbuf, ready_for_command, rsp_state, rsp_progress,
                     resbuf, registered, ongoing_update, cmds_inflight, kill_sig, pins, dut, wr, rd,
                     bits, hwready, words, executed, due, respq, avail>>
  BY <1>1 DEF BusPush, Push, c, command, response, update, hardware
<1>5. /\ pushed' \in Seq(Commands) /\ Len(pushed') = Len(pushed) + 1 /\ pushed'[Len(pushed) + 1] = c
      /\ \A i \in 1 .. Len(pushed) : pushed'[i] = pushed[i]
  BY <1>2, <1>3, <1>4, Longer
<1>6. /\ cmds' \in Seq(Commands) /\ Len(cmds') = Len(cmds) + 1 /\ cmds'[Len(cmds) + 1] = c /\ Len(cmds) \in Nat
      /\ \A i \in 1 .. Len(cmds) : cmds'[i] = cmds[i]
  BY <1>2, <1>3, <1>4, Longer
<1>7. Taken \in Nat /\ Taken <= Len(pushed) /\ Taken + Len(cmds) = Len(pushed) /\ Taken' = Taken
  <2>1. Taken \in Nat /\ Taken <= Len(pushed) /\ Taken + Len(cmds) = Len(pushed)
    BY <1>2, FetchedFacts DEF CmdInv
  <2>2. Taken' = Taken
    BY <1>2, <1>5, <1>6 DEF Taken
  <2> QED
    BY <2>1, <2>2
<1>8. Queued'
  <2>1. ASSUME NEW i \in 1 .. Len(pushed) + 1 PROVE pushed'[i].tag = i
    <3>1. CASE i \in 1 .. Len(pushed)
      <4>1. pushed[i].tag = i
        BY <3>1 DEF CmdInv, Queued
      <4> QED
        BY <1>5, <3>1, <4>1
    <3>2. CASE i = Len(pushed) + 1
      BY <1>3, <1>5, <3>2
    <3> QED
      BY <1>2, <3>1, <3>2
  <2>2. ASSUME NEW i \in 1 .. Len(cmds) + 1 PROVE cmds'[i] = pushed'[Taken + i]
    <3>1. CASE i \in 1 .. Len(cmds)
      <4>1. cmds[i] = pushed[Taken + i]
        BY <3>1 DEF CmdInv, Queued
      <4>2. Taken + i \in 1 .. Len(pushed)
        BY <1>6, <1>7, <3>1
      <4> QED
        BY <1>5, <1>6, <3>1, <4>1, <4>2
    <3>2. CASE i = Len(cmds) + 1
      <4>1. Taken + i = Len(pushed) + 1
        BY <1>6, <1>7, <3>2
      <4> QED
        BY <1>5, <1>6, <3>2, <4>1
    <3> QED
      BY <1>6, <3>1, <3>2
  <2>3. Len(pushed') <= MaxCommands /\ Len(cmds') <= Len(pushed')
    BY <1>2, <1>5, <1>6, <1>7, MaxCommandsAssumption
  <2>4. (kill_sig => CmdBusy)'
    BY <1>4 DEF CmdInv, Queued, CmdBusy
  <2>5. \A i \in 1 .. Len(pushed') : pushed'[i].tag = i
    BY <1>5, <2>1
  <2>6. \A i \in 1 .. Len(cmds') : cmds'[i] = pushed'[Taken' + i]
    BY <1>6, <1>7, <2>2
  <2> QED
    BY <1>5, <2>3, <2>4, <2>5, <2>6 DEF Queued
<1>9. CmdInv'
  <2>1. SentWords' = SentWords /\ (CmdBusy' <=> CmdBusy) /\ (Assembling' <=> Assembling)
    BY <1>4 DEF SentWords, Assembling, CmdBusy
  <2>2. Assembled'
    BY <1>4, <1>7, <2>1 DEF CmdInv, Assembled
  <2>3. BitsRight' /\ ReadyKept'
    BY <1>4 DEF CmdInv, BitsRight, ReadyKept
  <2> QED
    BY <1>8, <2>2, <2>3 DEF CmdInv
<1>10. RspInv'
  <2>1. Len(executed) <= Taken /\ Len(executed) \in Nat
    BY <1>7 DEF CmdInv, Assembled
  <2>2. \A i \in 1 .. Len(executed) : pushed'[i] = pushed[i]
    BY <1>2, <1>5, <1>7, <2>1
  <2>3. Asked' = Asked
    BY <1>4, <2>2 DEF Asked
  <2> QED
    BY <1>4, <2>3, RspFrame
<1>11. InflightExact'
  <2>1. XdSet' = XdSet
    <3>1. \A i \in 1 .. Taken : pushed'[i] = pushed[i]
      BY <1>2, <1>5, <1>7
    <3> QED
      BY <1>7, <3>1 DEF XdSet
  <2>2. XdCount(Fetched) = Cardinality(XdSet)
    BY <1>2, XdCounted DEF CmdInv
  <2>3. (Queued /\ cmds \in Seq(Commands) => XdCount(Fetched) = Cardinality(XdSet))'
    BY XdCounted, PTL
  <2>4. XdCount(Fetched)' = XdCount(Fetched)
    BY <1>6, <1>8, <2>1, <2>2, <2>3
  <2> QED
    BY <1>4, <2>4 DEF InflightExact
<1>12. Sampled' /\ InStep'
  <2>1. InStep'
    BY <1>4, InStepFrame
  <2> QED
    BY <1>4, <2>1 DEF Sampled
<1> QED
  BY <1>3, <1>4, <1>9, <1>10, <1>11, <1>12

(* The hardware makes room for a word.                                    *)
LEMMA ReadyStep == ASSUME BusInv, HwReady PROVE BusInv' /\ UNCHANGED vars
<1> USE DEF BusInv
<1>1. UNCHANGED <<phase, cmd_state, cmd_progress, cmdbuf, ready_for_command, rsp_state, rsp_progress,
                  resbuf, registered, ongoing_update, cmds, cmds_inflight, kill_sig, pins, dut, wr, rd,
                  bits, words, executed, due, respq, avail, pushed>> /\ hwready' = TRUE /\ UNCHANGED vars
  BY DEF HwReady, HwStep, vars, command, response, update, globals
<1>2. Asked' = Asked /\ InflightExact'
  BY <1>1 DEF Asked, InflightExact, XdCount, Fetched
<1>3. Sampled'
  BY <1>1 DEF Sampled
<1> QED
  BY <1>1, <1>2, <1>3, InStepFrame, CmdFrame, RspFrame

(* The hardware shows RESP_VALID.                                         *)
LEMMA AvailStep == ASSUME BusInv, HwAvail PROVE BusInv' /\ UNCHANGED vars
<1> USE DEF BusInv
<1>1. UNCHANGED <<phase, cmd_state, cmd_progress, cmdbuf, ready_for_command, rsp_state, rsp_progress,
                  resbuf, registered, ongoing_update, cmds, cmds_inflight, kill_sig, pins, dut, wr, rd,
                  bits, hwready, words, executed, due, respq, pushed>>
      /\ avail' = TRUE /\ respq # <<>> /\ UNCHANGED vars
  BY DEF HwAvail, HwStep, vars, command, response, update, globals
<1>2. InStep' /\ CmdInv'
  BY <1>1, InStepFrame, CmdFrame
<1>3. Sampled' /\ InflightExact'
  BY <1>1 DEF Sampled, InflightExact, XdCount, Fetched
<1>4. Asked' = Asked /\ (NotPopped' <=> NotPopped)
  BY <1>1 DEF Asked, NotPopped
<1>5. (RspBusy' <=> RspBusy) /\ Popped' = Popped
  BY <1>1, <1>4 DEF RspBusy, Popped
<1>6. (Reading' <=> Reading) /\ (InHand' <=> InHand) /\ HwTag' = HwTag
  BY <1>1, <1>5 DEF Reading, InHand, HwTag
<1>7. CurTag' = CurTag /\ HwTags' = HwTags /\ HandTags' = HandTags /\ RespTags' = RespTags
  BY <1>1, <1>6 DEF CurTag, HwTags, HandTags, RespTags, TagOf
<1>8. AvailKept' /\ Offered'
  BY <1>1, <1>4, <1>5, <1>6, <1>7 DEF RspInv, AvailKept, Offered, Rest
<1>9. Tracked' /\ Whole'
  BY <1>1, <1>4, <1>7 DEF RspInv, Tracked, Whole, TagOf
<1> QED
  BY <1>1, <1>2, <1>3, <1>8, <1>9 DEF RspInv

(* The hardware produces a response.                                      *)
LEMMA RespondStep == ASSUME IInv, BusInv, NEW t, HwRespond(t) PROVE BusInv' /\ UNCHANGED vars
<1> USE DEF BusInv
<1>1. UNCHANGED <<phase, cmd_state, cmd_progress, cmdbuf, ready_for_command, rsp_state, rsp_progress,
                  resbuf, registered, ongoing_update, cmds, cmds_inflight, kill_sig, pins, dut, wr, rd,
                  bits, hwready, words, executed, avail, pushed>>
      /\ respq = <<>> /\ t \in due /\ due' = due \ {t} /\ UNCHANGED vars
      /\ respq' = [i \in 1 .. RespWords |-> <<t, i - 1>>]
  BY DEF HwRespond, HwStep, vars, command, response, update, globals
<1>2. InStep' /\ CmdInv'
  BY <1>1, InStepFrame, CmdFrame
<1>3. InflightExact' /\ Asked' = Asked
  BY <1>1 DEF Asked, InflightExact, XdCount, Fetched
<1>4. ~avail /\ ~Reading
  BY <1>1 DEF RspInv, AvailKept, Offered
<1>5. (NotPopped' <=> NotPopped)
  BY <1>1 DEF NotPopped
<1>6. (RspBusy' <=> RspBusy) /\ Popped' = Popped
  BY <1>1, <1>5 DEF RspBusy, Popped
<1>7. ~Reading' /\ (InHand' <=> InHand) /\ CurTag' = CurTag
  BY <1>1, <1>4, <1>6 DEF Reading, InHand, CurTag
<1>8. respq' # <<>> /\ HwTag' = t /\ respq' = Rest(t, 0)
  <2>1. 1 \in 1 .. RespWords
    BY WordsAssumption
  <2>2. respq'[1] = <<t, 1 - 1>> /\ 1 \in DOMAIN respq'
    BY <1>1, <2>1
  <2>3. HwTag' = t
    BY <2>2 DEF HwTag
  <2>4. respq' # <<>>
    BY <2>2
  <2>5. RespWords - 0 = RespWords /\ \A i \in 1 .. RespWords : 0 + i - 1 = i - 1
    BY WordsAssumption
  <2>6. Rest(t, 0) = [i \in 1 .. RespWords |-> <<t, i - 1>>]
    BY <2>5 DEF Rest
  <2> QED
    BY <1>1, <2>3, <2>4, <2>6
<1>9. AvailKept'
  BY <1>1, <1>4, <1>5 DEF RspInv, AvailKept
<1>10. Offered'
  <2>1. RspBusy' => \A j \in 0 .. rsp_progress' - 1 : resbuf'[j] = <<CurTag', j>>
    BY <1>1, <1>6, <1>7 DEF RspInv, Offered
  <2>2. respq' = Rest(HwTag', 0)
    BY <1>8
  <2> QED
    BY <1>7, <1>8, <2>1, <2>2 DEF Offered, Rest
<1>11. Sampled'
  BY <1>1, <1>4 DEF Sampled
<1>12. Tracked' /\ Whole'
  <2>1. HwTags = {} /\ HwTags' = {t} /\ HandTags' = HandTags /\ RespTags' = RespTags
    BY <1>1, <1>7, <1>8 DEF HwTags, HandTags, RespTags, TagOf
  <2>2. Tracked'
    BY <1>1, <1>3, <2>1 DEF RspInv, Tracked
  <2> QED
    BY <1>1, <2>2 DEF RspInv, Whole, TagOf
<1> QED
  BY <1>1, <1>2, <1>3, <1>9, <1>10, <1>11, <1>12 DEF RspInv

-----------------------------------------------------------------------------
(* A value being read is not one that this edge changes.                  *)
LEMMA ReadUndisturbed ==
  ASSUME IInv, BusInv, BusEdge, RdOf.stage = "data"
  PROVE  ~WShake /\ UNCHANGED <<bits, hwready, words, executed, due, respq, avail>>
<1> USE DEF BusInv
<1>1. phase = "edge" /\ BusExclusive
  BY EdgeFacts DEF IInv
<1>2. cmd_state \notin {"BITS_WRITE_B", "VALID_WRITE_B"} /\ rsp_state # "READY_WRITE_B"
  BY <1>1 DEF RdOf, At, BusExclusive, CmdBusy, RspBusy, UpdBusy, Idle
<1>3. ~WShake
  BY <1>1, <1>2, BeatTaken
<1> QED
  BY <1>3 DEF BusEdge, WriteRegister, hardware

(* What is read at an edge is a register's value that still holds.        *)
LEMMA SampledEdge ==
  ASSUME IInv, BusInv, BusEdge
  PROVE  Sampled' /\ (dut'.r_valid => dut'.r_data \in Data)
<1> USE DEF BusInv
<1> SUFFICES ASSUME dut'.r_valid PROVE Sampled' /\ dut'.r_data \in Data
  BY DEF Sampled
<1>1. phase = "edge" /\ rd' = RdOf
  BY EdgeFacts
<1>2. rd'.stage = "data" /\ \/ dut.r_valid /\ ~RShake /\ dut'.r_data = dut.r_data
                            \/ dut'.r_data = ReadRegister(rd'.reg)
  BY ReadValue
<1>3. UNCHANGED <<hwready, respq, avail>>
  BY <1>1, <1>2, ReadUndisturbed
<1>4. CASE dut.r_valid /\ ~RShake /\ dut'.r_data = dut.r_data
  <2>1. ~ArShake
    BY <1>4 DEF InStep, ArShake
  <2>2. rd' = rd
    BY <1>4, <2>1 DEF BusEdge
  <2>3. dut.r_data \in Data
    BY DEF IInv, TypeOK, DutPins
  <2> QED
    BY <1>3, <1>4, <2>2, <2>3 DEF Sampled
<1>5. CASE dut'.r_data = ReadRegister(rd'.reg)
  <2>1. CASE rd'.reg = "CMD_READY"
    <3>1. dut'.r_data = IF hwready THEN One ELSE Zero
      BY <1>5, <2>1 DEF ReadRegister
    <3> QED
      BY <1>3, <2>1, <3>1, BusAssumption, ZeroAssumption DEF Sampled
  <2>2. CASE rd'.reg = "RESP_VALID"
    <3>1. dut'.r_data = IF avail THEN One ELSE Zero
      BY <1>5, <2>2 DEF ReadRegister
    <3> QED
      BY <1>3, <2>2, <3>1, BusAssumption, ZeroAssumption DEF Sampled
  <2>3. CASE rd'.reg = "RESP_BITS"
    <3>1. rsp_state = "BITS_READ"
      BY <1>1, <2>3 DEF RdOf, At
    <3>2. respq # <<>> /\ Reading /\ Popped = rsp_progress /\ respq = Rest(HwTag, rsp_progress)
      BY <3>1, Places DEF RspInv, AvailKept, Offered, PlacesHold
    <3>3. dut'.r_data = Head(respq)
      BY <1>5, <2>3, <3>2 DEF ReadRegister
    <3>4. rsp_progress \in 0 .. RespWords - 1
      <4>1. BuffersInBounds /\ rsp_progress \in 0 .. RespWords
        BY ControlTypes DEF IInv
      <4> QED
        BY <3>1, <4>1, WordsAssumption DEF BuffersInBounds
    <3>5. Head(respq) = <<HwTag, rsp_progress>>
      <4>1. 1 \in 1 .. RespWords - rsp_progress /\ rsp_progress + 1 - 1 = rsp_progress
        BY <3>4, WordsAssumption
      <4>2. respq[1] = <<HwTag, rsp_progress + 1 - 1>>
        BY <3>2, <4>1 DEF Rest
      <4>3. Head(respq) = respq[1]
        OBVIOUS
      <4> QED
        BY <4>1, <4>2, <4>3
    <3>6. HwTag \in Tags
      <4>1. HwTag \in Asked
        BY <3>2 DEF RspInv, Tracked, HwTags
      <4>2. pushed \in Seq(Commands) /\ Len(pushed) \in Nat /\ Len(pushed) <= MaxCommands
        BY DEF CmdInv, Queued
      <4>3. Taken \in Nat /\ Taken <= Len(pushed)
        BY ControlTypes, FetchedFacts DEF CmdInv
      <4>4. executed \in Seq(Nat) /\ Len(executed) <= Taken /\ Len(executed) \in Nat
        BY <4>3 DEF CmdInv, Assembled
      <4>5. HwTag \in 1 .. MaxCommands
        BY <4>1, <4>2, <4>3, <4>4, MaxCommandsAssumption DEF Asked
      <4> QED
        BY <4>5, BusAssumption
    <3>7. <<HwTag, rsp_progress>> \in Data
      <4>1. <<HwTag, rsp_progress>> \in Tags \X (0 .. RespWords - 1)
        BY <3>4, <3>6
      <4> QED
        BY <4>1, BusAssumption
    <3> QED
      BY <1>3, <2>3, <3>2, <3>3, <3>5, <3>7 DEF Sampled
  <2> QED
    BY <1>1, <1>2, <2>1, <2>2, <2>3 DEF RdOf, At
<1> QED
  BY <1>2, <1>4, <1>5

(* The slave's pins are pins of AXIControl.                               *)
LEMMA EdgeTyped == ASSUME IInv, BusInv, BusEdge PROVE \E d \in DutPins : Edge(d)
<1>1. PICK offerW \in BOOLEAN, offerR \in BOOLEAN :
        LET heldW == dut.b_valid /\ ~BShake
            heldR == dut.r_valid /\ ~RShake
            r_valid == rd'.stage = "data" /\ (offerR \/ heldR)
        IN  Edge([aw_ready |-> wr'.stage = "addr" /\ offerW,
                    w_ready |-> wr'.stage = "data" /\ offerW,
                    b_valid |-> wr'.stage = "resp" /\ (offerW \/ heldW),
                    ar_ready |-> rd'.stage = "addr" /\ offerR,
                    r_valid |-> r_valid,
                    r_data |-> IF ~r_valid THEN Zero
                               ELSE IF heldR THEN dut.r_data ELSE ReadRegister(rd'.reg)])
  BY DEF BusEdge
<1>2. Edge(dut')
  BY <1>1 DEF Edge
<1>3. dut'.r_data \in Data
  <2>1. CASE dut'.r_valid
    BY <2>1, SampledEdge
  <2>2. CASE ~dut'.r_valid
    <3>1. dut'.r_data = Zero
      BY <1>1, <2>2 DEF Edge
    <3> QED
      BY <3>1, ZeroAssumption
  <2> QED
    BY <2>1, <2>2
<1>4. dut' \in DutPins
  BY <1>1, <1>3 DEF Edge, DutPins
<1> QED
  BY <1>2, <1>4

(* The first n words of command t.                                        *)
FirstWords(t, n) == [i \in 1 .. n |-> <<t, i - 1>>]

(* With the next word they are the first n + 1, and not garbled.          *)
LEMMA OneWordMore ==
  ASSUME NEW t, NEW n \in Nat, NEW ws, ws = FirstWords(t, n)
  PROVE  /\ Append(ws, <<t, n>>) = FirstWords(t, n + 1)
         /\ Len(Append(ws, <<t, n>>)) = n + 1
         /\ ~Garbled(Append(ws, <<t, n>>)) /\ Append(ws, <<t, n>>)[1][1] = t
<1> DEFINE S == {<<t, i - 1>> : i \in 1 .. n + 1}
<1>1. n + 1 \in 1 .. n + 1 /\ (n + 1) - 1 = n /\ 1 \in 1 .. n + 1
  OBVIOUS
<1>2. <<t, n>> \in S
  BY <1>1
<1>3. ws \in Seq(S) /\ Len(ws) = n
  <2>1. \A i \in 1 .. n : <<t, i - 1>> \in S
    OBVIOUS
  <2>2. ws \in [1 .. n -> S]
    BY <2>1 DEF FirstWords
  <2> HIDE DEF S
  <2> QED
    BY <2>2
<1> HIDE DEF S
<1>4. /\ Append(ws, <<t, n>>) \in Seq(S) /\ Len(Append(ws, <<t, n>>)) = n + 1
      /\ DOMAIN Append(ws, <<t, n>>) = 1 .. n + 1
      /\ Append(ws, <<t, n>>)[n + 1] = <<t, n>> /\ \A i \in 1 .. n : Append(ws, <<t, n>>)[i] = ws[i]
  BY <1>2, <1>3, Longer
<1>5. PICK a : a = Append(ws, <<t, n>>)
  OBVIOUS
<1>6. \A i \in 1 .. n + 1 : a[i] = <<t, i - 1>>
  <2> TAKE i \in 1 .. n + 1
  <2>1. i \in 1 .. n \/ i = n + 1
    OBVIOUS
  <2> QED
    BY <1>1, <1>4, <1>5, <2>1 DEF FirstWords
<1>7. a = FirstWords(t, n + 1)
  <2>1. a \in Seq(S) /\ DOMAIN a = 1 .. n + 1
    BY <1>4, <1>5
  <2>2. a = [i \in DOMAIN a |-> a[i]]
    BY <2>1
  <2> QED
    BY <1>6, <2>1, <2>2 DEF FirstWords
<1>8. a[1][1] = t
  BY <1>1, <1>6
<1>9. ~Garbled(a)
  BY <1>4, <1>5, <1>6, <1>8 DEF Garbled
<1> QED
  BY <1>4, <1>5, <1>7, <1>8, <1>9

(* The hardware takes a word; with the last one it has the command.       *)
LEMMA WordTaken ==
  ASSUME IInv, BusInv, BusEdge, WShake, wr.stage = "data", wr.reg = "CMD_VALID",
         cmd_state = "VALID_WRITE_B"
  PROVE  CmdInv' /\ RspInv'
<1> USE DEF BusInv
<1>1. /\ wr'.stage = "resp" /\ rsp_state = "INACTIVE"
      /\ UNCHANGED <<cmd_state, cmd_progress, cmdbuf, ready_for_command, cmds, kill_sig, pushed,
                     rsp_state, rsp_progress, resbuf, registered>>
  <2>1. /\ wr' = WrOf /\ UNCHANGED <<cmd_state, cmd_progress, cmdbuf, ready_for_command, cmds, kill_sig,
                             pushed, rsp_state, rsp_progress, resbuf, registered>>
    BY EdgeFacts DEF command, response, globals
  <2> QED
    BY <2>1 DEF WrOf, At, IInv, BusExclusive, CmdBusy, RspBusy
<1>2. hwready /\ ~ready_for_command
  BY DEF CmdInv, ReadyKept
<1>3. TakeWord /\ bits' = bits
  BY <1>2 DEF BusEdge, WriteRegister
<1>4. UNCHANGED <<respq, avail>> /\ hwready' = FALSE
  BY <1>3 DEF TakeWord
<1>5. PICK n \in Nat : n = cmd_progress /\ n < CmdWords /\ CmdWords \in Nat
  BY ControlTypes, WordsAssumption DEF IInv, BuffersInBounds, CmdBusy
<1>6. CmdBusy /\ CmdBusy' /\ SentWords = n /\ SentWords' = n + 1 /\ Assembling
      /\ (Assembling' <=> n + 1 < CmdWords) /\ Taken' = Taken
  <2>1. CmdBusy /\ CmdBusy' /\ Taken' = Taken
    BY <1>1 DEF CmdBusy, Taken
  <2>2. SentWords = n /\ SentWords' = n + 1
    BY <1>1, <1>5 DEF SentWords
  <2> QED
    BY <1>5, <2>1, <2>2 DEF Assembling
<1>7. /\ words = [i \in 1 .. n |-> <<cmdbuf, i - 1>>] /\ cmdbuf = Taken
      /\ executed \in Seq(Nat) /\ Len(executed) = Taken - 1 /\ Len(executed) \in Nat
      /\ \A i \in 1 .. Len(executed) : executed[i] = i
  BY <1>6 DEF CmdInv, Assembled
<1>8. bits = <<cmdbuf, n>>
  BY <1>5 DEF CmdInv, BitsRight
<1>9. PICK ws : ws = Append(words, bits)
  OBVIOUS
<1>10. /\ ws = [i \in 1 .. n + 1 |-> <<cmdbuf, i - 1>>] /\ Len(ws) = n + 1
       /\ ~Garbled(ws) /\ ws[1][1] = cmdbuf
  <2>1. PICK v : v = words
    OBVIOUS
  <2>2. PICK t : t = cmdbuf
    OBVIOUS
  <2>3. v = FirstWords(t, n) /\ ws = Append(v, <<t, n>>)
    BY <1>7, <1>8, <1>9, <2>1, <2>2 DEF FirstWords
  <2>4. /\ Append(v, <<t, n>>) = FirstWords(t, n + 1)
        /\ Len(Append(v, <<t, n>>)) = n + 1
        /\ ~Garbled(Append(v, <<t, n>>)) /\ Append(v, <<t, n>>)[1][1] = t
    BY <2>3, OneWordMore
  <2> QED
    BY <2>2, <2>3, <2>4 DEF FirstWords
<1>11. Queued' /\ BitsRight' /\ ReadyKept'
  BY <1>1, <1>2, <1>4 DEF CmdInv, Queued, Taken, CmdBusy, BitsRight, ReadyKept
<1>12. CASE n + 1 # CmdWords
  <2>1. words' = ws /\ UNCHANGED <<executed, due>>
    BY <1>3, <1>9, <1>10, <1>12 DEF TakeWord
  <2>2. n + 1 < CmdWords
    BY <1>5, <1>12
  <2>3. Assembled'
    BY <1>1, <1>6, <1>7, <1>10, <2>1, <2>2 DEF Assembled
  <2>4. RspInv'
    <3>1. Asked' = Asked
      BY <1>1, <2>1 DEF Asked
    <3> QED
      BY <1>1, <1>4, <2>1, <3>1, RspFrame
  <2> QED
    BY <1>11, <2>3, <2>4 DEF CmdInv
<1>13. CASE n + 1 = CmdWords
  <2>1. /\ words' = <<>> /\ executed' = Append(executed, cmdbuf)
        /\ due' = IF pushed[cmdbuf].xd THEN due \cup {cmdbuf} ELSE due
    BY <1>3, <1>9, <1>10, <1>13 DEF TakeWord
  <2>2. cmdbuf \in Nat /\ cmdbuf = Len(executed) + 1
    <3>1. Taken \in Nat
      BY ControlTypes, FetchedFacts DEF CmdInv
    <3> QED
      BY <1>7, <3>1
  <2>3. /\ executed' \in Seq(Nat) /\ Len(executed') = Len(executed) + 1
        /\ executed'[Len(executed) + 1] = cmdbuf
        /\ \A i \in 1 .. Len(executed) : executed'[i] = executed[i]
    BY <1>7, <2>1, <2>2, Longer
  <2>4. 1 .. Len(executed') = (1 .. Len(executed)) \cup {cmdbuf}
    BY <1>7, <2>2, <2>3
  <2>5. Assembled'
    <3>1. ~Assembling' /\ Len(executed') = Taken'
      BY <1>6, <1>7, <1>13, <2>2, <2>3
    <3>2. \A i \in 1 .. Len(executed') : executed'[i] = i
      BY <1>7, <2>2, <2>3, <2>4
    <3>3. cmdbuf' = Taken' /\ Taken' - 0 = Taken'
      BY <1>1, <1>6, <1>7, <2>2
    <3> QED
      BY <2>1, <2>3, <3>1, <3>2, <3>3 DEF Assembled
  <2>6. RspInv'
    <3>1. Asked' = IF pushed[cmdbuf].xd THEN Asked \cup {cmdbuf} ELSE Asked
      BY <1>1, <2>4 DEF Asked
    <3>2. cmdbuf \notin Asked
      BY <1>7, <2>2 DEF Asked
    <3>3. ~RspBusy /\ ~Reading /\ ~InHand /\ ~NotPopped /\ ~RspBusy' /\ ~Reading' /\ ~InHand' /\ ~NotPopped'
      BY <1>1 DEF RspBusy, Reading, InHand, NotPopped
    <3>4. HwTag' = HwTag /\ HwTags' = HwTags /\ HandTags' = HandTags /\ RespTags' = RespTags
      BY <1>1, <1>4, <3>3 DEF HwTag, HwTags, HandTags, RespTags, TagOf
    <3>5. AvailKept' /\ Offered'
      <4>1. AvailKept'
        BY <1>1, <1>4, <3>3 DEF RspInv, AvailKept
      <4>2. respq # <<>> => respq = Rest(HwTag, 0)
        BY <3>3 DEF RspInv, Offered
      <4>3. respq' # <<>> => respq' = Rest(HwTag', 0)
        BY <1>4, <3>4, <4>2
      <4> QED
        BY <3>3, <4>1, <4>3 DEF Offered, Rest
    <3>6. Tracked'
      BY <2>1, <3>1, <3>2, <3>4 DEF RspInv, Tracked
    <3>7. Whole'
      BY <1>1 DEF RspInv, Whole, TagOf
    <3> QED
      BY <3>5, <3>6, <3>7 DEF RspInv
  <2> QED
    BY <1>11, <2>5, <2>6 DEF CmdInv
<1> QED
  BY <1>12, <1>13

(* A sequence is the function from 1 to its length.                       *)
LEMMA SequenceIs ==
  ASSUME NEW S, NEW r \in Seq(S)
  PROVE  r = [i \in 1 .. Len(r) |-> r[i]] /\ (r = <<>> <=> Len(r) = 0)
OBVIOUS

(* The response without its first p words, and without one more.          *)
LEMMA OneWordLess ==
  ASSUME NEW t, NEW p \in 0 .. RespWords - 1, NEW q, q = Rest(t, p)
  PROVE  /\ q # <<>> /\ Tail(q) = Rest(t, p + 1)
         /\ (Tail(q) = <<>> <=> p + 1 = RespWords)
         /\ p + 1 # RespWords => Tail(q)[1][1] = t
<1> DEFINE S == {<<t, p + i - 1>> : i \in 1 .. RespWords - p}
<1>1. p \in Nat /\ RespWords \in Nat /\ RespWords - p \in Nat \ {0} /\ 1 \in 1 .. RespWords - p
      /\ RespWords - (p + 1) = RespWords - p - 1 /\ RespWords - (p + 1) \in Nat
  BY WordsAssumption
<1>2. q \in [1 .. RespWords - p -> S]
  <2>1. \A i \in 1 .. RespWords - p : <<t, p + i - 1>> \in S
    OBVIOUS
  <2> QED
    BY <2>1 DEF Rest
<1> HIDE DEF S
<1>3. q \in Seq(S) /\ Len(q) = RespWords - p /\ q # <<>>
  BY <1>1, <1>2
<1>4. /\ Tail(q) \in Seq(S) /\ Len(Tail(q)) = RespWords - p - 1
      /\ \A i \in 1 .. RespWords - p - 1 : Tail(q)[i] = q[i + 1]
  BY <1>3, Shorter
<1>5. \A i \in 1 .. RespWords - p - 1 : Tail(q)[i] = <<t, (p + 1) + i - 1>>
  <2> TAKE i \in 1 .. RespWords - p - 1
  <2>1. i + 1 \in 1 .. RespWords - p /\ p + (i + 1) - 1 = (p + 1) + i - 1
    BY <1>1
  <2>2. q[i + 1] = <<t, p + (i + 1) - 1>>
    BY <2>1 DEF Rest
  <2> QED
    BY <1>4, <2>1, <2>2
<1>6. PICK r \in Seq(S), m \in Nat : r = Tail(q) /\ m = RespWords - p - 1 /\ Len(r) = m
  BY <1>1, <1>4
<1>7. r = [i \in 1 .. m |-> r[i]] /\ (r = <<>> <=> m = 0)
  BY <1>6, SequenceIs
<1>8. Tail(q) = Rest(t, p + 1)
  BY <1>1, <1>5, <1>6, <1>7 DEF Rest
<1>9. Tail(q) = <<>> <=> p + 1 = RespWords
  BY <1>1, <1>6, <1>7
<1>10. p + 1 # RespWords => Tail(q)[1][1] = t
  <2> SUFFICES ASSUME p + 1 # RespWords PROVE Tail(q)[1][1] = t
    OBVIOUS
  <2>1. 1 \in 1 .. RespWords - p - 1
    BY <1>1
  <2>2. r[1] = <<t, (p + 1) + 1 - 1>>
    BY <1>5, <1>6, <2>1
  <2>3. r[1][1] = t
    BY <2>2
  <2> QED
    BY <1>6, <2>3
<1> QED
  BY <1>3, <1>8, <1>9, <1>10

(* The hardware drops the word read last; the rest of the response, or    *)
(* nothing, is left of it.                                                *)
LEMMA WordDropped ==
  ASSUME IInv, BusInv, BusEdge, WShake, wr.stage = "data", wr.reg = "RESP_READY",
         rsp_state = "READY_WRITE_B"
  PROVE  CmdInv' /\ RspInv'
<1> USE DEF BusInv
<1>1. /\ wr'.stage = "resp" /\ cmd_state = "INACTIVE"
      /\ UNCHANGED <<cmd_state, cmd_progress, cmdbuf, ready_for_command, cmds, kill_sig, pushed,
                     rsp_state, rsp_progress, resbuf, registered>>
  <2>1. /\ wr' = WrOf /\ UNCHANGED <<cmd_state, cmd_progress, cmdbuf, ready_for_command, cmds, kill_sig,
                             pushed, rsp_state, rsp_progress, resbuf, registered>>
    BY EdgeFacts DEF command, response, globals
  <2>2. cmd_state = "INACTIVE"
    BY DEF IInv, BusExclusive, CmdBusy, RspBusy
  <2> QED
    BY <2>1, <2>2 DEF WrOf, At
<1>2. NotPopped /\ avail /\ RspBusy
  BY DEF NotPopped, RspInv, AvailKept, RspBusy
<1>3. respq' = Tail(respq) /\ avail' = FALSE /\ UNCHANGED <<hwready, words, executed, due, bits>>
  BY <1>2 DEF BusEdge, WriteRegister
<1>4. CmdInv'
  BY <1>1, <1>3, CmdFrame
<1>5. PlacesHold
  BY Places
<1>6. PICK p \in Int : p = rsp_progress - 1
  BY <1>5 DEF PlacesHold
<1>7. Reading /\ Popped = p /\ p \in 0 .. RespWords - 1 /\ rsp_progress = p + 1
  <2>1. Reading /\ Popped = rsp_progress - 1 /\ rsp_progress > 0
    BY <1>2, <1>5 DEF PlacesHold
  <2>2. rsp_progress \in 0 .. RespWords /\ RespWords \in Nat
    BY ControlTypes, WordsAssumption
  <2> QED
    BY <1>6, <2>1, <2>2
<1>8. ~NotPopped' /\ RspBusy' /\ Popped' = p + 1 /\ (Reading' <=> p + 1 # RespWords)
      /\ (InHand' <=> p + 1 = RespWords)
  <2>1. ~NotPopped' /\ RspBusy'
    BY <1>1 DEF NotPopped, RspBusy
  <2>2. Popped' = p + 1
    BY <1>1, <1>7, <2>1 DEF Popped
  <2>3. Reading' <=> p + 1 # RespWords
    BY <1>7, <2>1, <2>2, WordsAssumption DEF Reading
  <2> QED
    BY <2>1, <2>2, <2>3 DEF InHand
<1>9. respq = Rest(HwTag, p) /\ CurTag = HwTag
      /\ \A j \in 0 .. rsp_progress - 1 : resbuf[j] = <<HwTag, j>>
  BY <1>2, <1>7 DEF RspInv, AvailKept, Offered, CurTag
<1>10. PICK t : t = HwTag
  OBVIOUS
<1>11. PICK q : q = respq
  OBVIOUS
<1>12. /\ respq # <<>> /\ respq' = Rest(t, p + 1)
       /\ (respq' = <<>> <=> p + 1 = RespWords)
       /\ p + 1 # RespWords => HwTag' = t
  <2>1. q = Rest(t, p)
    BY <1>9, <1>10, <1>11
  <2>2. /\ q # <<>> /\ Tail(q) = Rest(t, p + 1)
        /\ (Tail(q) = <<>> <=> p + 1 = RespWords)
        /\ p + 1 # RespWords => Tail(q)[1][1] = t
    BY <1>7, <2>1, OneWordLess
  <2> QED
    BY <1>3, <1>11, <2>2 DEF HwTag
<1>13. TagOf(resbuf) = t /\ resbuf'[0][1] = t
  <2>1. 0 \in 0 .. rsp_progress - 1
    BY <1>7
  <2> QED
    BY <1>1, <1>9, <1>10, <2>1 DEF TagOf
<1>14. CurTag' = t
  BY <1>8, <1>12, <1>13 DEF CurTag
<1>15. AvailKept'
  BY <1>1, <1>3, <1>8 DEF AvailKept
<1>16. Offered'
  <2>1. Reading' => respq' # <<>>
    BY <1>8, <1>12
  <2>2. ASSUME respq' # <<>> PROVE Reading' /\ respq' = Rest(HwTag', Popped')
    BY <1>8, <1>12, <2>2
  <2>3. \A j \in 0 .. rsp_progress' - 1 : resbuf'[j] = <<CurTag', j>>
    BY <1>1, <1>9, <1>10, <1>14
  <2> QED
    BY <2>1, <2>2, <2>3 DEF Offered, Rest
<1>17. Tracked'
  <2>1. HwTags = {t} /\ HandTags = {}
    BY <1>7, <1>10, <1>12 DEF HwTags, HandTags, InHand
  <2>2. HwTags' \cup HandTags' = {t} /\ HwTags' \cap HandTags' = {}
    <3>1. CASE p + 1 = RespWords
      BY <1>1, <1>8, <1>12, <1>13, <3>1 DEF HwTags, HandTags, TagOf
    <3>2. CASE p + 1 # RespWords
      BY <1>8, <1>12, <3>2 DEF HwTags, HandTags
    <3> QED
      BY <3>1, <3>2
  <2>3. RespTags' = RespTags /\ Asked' = Asked
    BY <1>1, <1>3 DEF RespTags, Asked, TagOf
  <2> QED
    BY <1>3, <2>1, <2>2, <2>3 DEF RspInv, Tracked
<1>18. Whole'
  BY <1>1 DEF RspInv, Whole, TagOf
<1> QED
  BY <1>4, <1>15, <1>16, <1>17, <1>18 DEF RspInv

(* The clock edge preserves the invariant.                                *)
LEMMA EdgeStep == ASSUME IInv, BusInv, BusEdge PROVE BusInv'
<1> USE DEF BusInv
<1>1. /\ phase = "edge" /\ wr' = WrOf
      /\ UNCHANGED <<cmd_state, cmd_progress, cmdbuf, ready_for_command, cmds, cmds_inflight, kill_sig,
                     pushed, rsp_state, rsp_progress, resbuf, registered, pins>>
  BY EdgeFacts DEF command, response, globals
<1>2. InStep' /\ Sampled'
  BY InStepEdge, SampledEdge
<1>3. InflightExact'
  BY <1>1 DEF InflightExact, XdCount, Fetched
<1>4. CASE ~WShake
  <2>1. UNCHANGED <<bits, hwready, words, executed, due, respq, avail>>
    BY <1>4 DEF BusEdge, WriteRegister, hardware
  <2>2. WrOf.stage = "resp" => wr'.stage = wr.stage
    BY <1>1, <1>4, BeatTaken DEF IInv
  <2>3. cmd_state \in {"BITS_WRITE_B", "VALID_WRITE_B"} => WrOf.stage = "resp"
    BY DEF WrOf, At
  <2>4. rsp_state = "READY_WRITE_B" => WrOf.stage = "resp"
    <3>1. rsp_state = "READY_WRITE_B" => cmd_state = "INACTIVE"
      BY DEF IInv, BusExclusive, CmdBusy, RspBusy
    <3> QED
      BY <3>1 DEF WrOf, At
  <2>5. CmdInv'
    BY <1>1, <2>1, <2>2, <2>3, CmdFrame
  <2>6. Asked' = Asked
    BY <1>1, <2>1 DEF Asked
  <2>7. RspInv'
    BY <1>1, <2>1, <2>2, <2>4, <2>6, RspFrame
  <2> QED
    BY <1>2, <1>3, <2>5, <2>7
<1>5. CASE WShake
  <2>1. wr.stage = "data" /\ \/ wr.reg = "CMD_BITS" /\ cmd_state = "BITS_WRITE_B"
                             \/ wr.reg = "CMD_VALID" /\ cmd_state = "VALID_WRITE_B"
                             \/ wr.reg = "RESP_READY" /\ rsp_state = "READY_WRITE_B"
    BY <1>1, <1>5, BeatTaken DEF IInv
  <2>2. CASE wr.reg = "CMD_BITS" /\ cmd_state = "BITS_WRITE_B"
    <3>1. bits' = pins.w /\ UNCHANGED <<hwready, words, executed, due, respq, avail>>
      BY <1>5, <2>2 DEF BusEdge, WriteRegister, hardware
    <3>2. bits' = <<cmdbuf, cmd_progress>> /\ wr'.stage = "resp"
      BY <1>1, <2>1, <2>2, <3>1 DEF CmdInv, BitsRight, WrOf, At
    <3>3. Queued'
      BY <1>1 DEF CmdInv, Queued, Taken, CmdBusy
    <3>4. Assembled'
      <4>1. SentWords' = SentWords /\ (CmdBusy' <=> CmdBusy) /\ (Assembling' <=> Assembling) /\ Taken' = Taken
        BY <1>1, <2>2 DEF SentWords, Assembling, CmdBusy, Taken
      <4> QED
        BY <1>1, <3>1, <4>1 DEF CmdInv, Assembled
    <3>5. BitsRight' /\ ReadyKept'
      BY <1>1, <2>2, <3>1, <3>2 DEF CmdInv, BitsRight, ReadyKept
    <3>6. RspInv'
      <4>1. rsp_state = "INACTIVE"
        BY <2>2 DEF IInv, BusExclusive, CmdBusy, RspBusy
      <4>2. Asked' = Asked
        BY <1>1, <3>1 DEF Asked
      <4> QED
        BY <1>1, <3>1, <4>1, <4>2, RspFrame
    <3> QED
      BY <1>2, <1>3, <3>3, <3>4, <3>5, <3>6 DEF CmdInv
  <2>3. CASE wr.reg = "CMD_VALID" /\ cmd_state = "VALID_WRITE_B"
    BY <1>2, <1>3, <1>5, <2>1, <2>3, WordTaken
  <2>4. CASE wr.reg = "RESP_READY" /\ rsp_state = "READY_WRITE_B"
    BY <1>2, <1>3, <1>5, <2>1, <2>4, WordDropped
  <2> QED
    BY <2>1, <2>2, <2>3, <2>4
<1> QED
  BY <1>4, <1>5

-----------------------------------------------------------------------------
(* The controller and the hardware at rest.                               *)
LEMMA InitBusInv == BusInit => IInv /\ BusInv
<1> SUFFICES ASSUME BusInit PROVE IInv /\ BusInv
  OBVIOUS
<1>1. IInv
  BY InitIInv DEF BusInit
<1>2. /\ phase = "cmd" /\ cmd_state = "INACTIVE" /\ rsp_state = "INACTIVE" /\ ongoing_update = "IDLE_CMD"
      /\ ready_for_command = FALSE /\ cmd_progress = 0 /\ rsp_progress = 0 /\ registered = <<>>
      /\ cmds = <<>> /\ cmds_inflight = 0 /\ kill_sig = FALSE
      /\ ~dut.aw_ready /\ ~dut.w_ready /\ ~dut.b_valid /\ ~dut.ar_ready /\ ~dut.r_valid
  BY DEF BusInit, Init
<1>3. InStep /\ Sampled
  BY <1>2 DEF BusInit, InStep, Sampled, WrAfter, RdAfter, WrOf, RdOf, At
<1>4. Taken = 0 /\ ~CmdBusy /\ ~Assembling
  BY <1>2 DEF BusInit, Taken, CmdBusy, Assembling
<1>5. Queued
  BY <1>2, <1>4, MaxCommandsAssumption DEF BusInit, Queued
<1>6. Assembled
  <2>1. executed = <<>> /\ words = <<>>
    BY DEF BusInit
  <2>2. executed \in Seq(Nat) /\ Len(executed) = 0
    BY <2>1
  <2>3. \A i \in 1 .. Len(executed) : executed[i] = i
    BY <2>2
  <2>4. Len(executed) = Taken - (IF Assembling THEN 1 ELSE 0)
    <3>1. (IF Assembling THEN 1 ELSE 0) = 0
      BY <1>4
    <3>2. Len(executed) = Taken - 0
      BY <1>4, <2>2
    <3> QED
      BY <3>1, <3>2
  <2> QED
    BY <1>4, <2>1, <2>2, <2>3, <2>4 DEF Assembled
<1>7. BitsRight /\ ReadyKept
  BY <1>2 DEF BitsRight, ReadyKept
<1>8. ~RspBusy /\ ~Reading /\ ~InHand /\ ~NotPopped
  BY <1>2 DEF RspBusy, Reading, InHand, NotPopped
<1>9. HwTags = {} /\ HandTags = {} /\ RespTags = {} /\ Asked = {}
  BY <1>2, <1>8 DEF BusInit, HwTags, HandTags, RespTags, Asked
<1>10. AvailKept /\ Offered /\ Tracked
  BY <1>2, <1>8, <1>9 DEF BusInit, AvailKept, Offered, Tracked
<1>11. Whole
  BY <1>2 DEF Whole
<1>12. InflightExact
  <2>1. XdSet = {}
    BY <1>4 DEF XdSet
  <2>2. XdCount(Fetched) = 0
    BY <1>1, <1>5, <2>1, ControlTypes, XdCounted, FS_EmptySet
  <2>3. Len(registered) = 0 /\ cmds_inflight = 0
    BY <1>2
  <2> QED
    BY <2>2, <2>3 DEF InflightExact
<1> QED
  BY <1>1, <1>3, <1>5, <1>6, <1>7, <1>10, <1>11, <1>12 DEF BusInv, CmdInv, RspInv

(* A cycle of tick() preserves the invariant.                             *)
LEMMA TickStep == ASSUME IInv, BusInv, BusTick PROVE IInv' /\ BusInv'
<1>1. Tick /\ UNCHANGED <<wr, rd, bits, hardware, pushed>> /\ UNCHANGED <<wr, rd>>
  BY DEF BusTick
<1>2. IInv'
  BY <1>1, NextIInv DEF Next
<1>3. BusExclusive /\ Driven /\ InStep
  BY DEF IInv, BusInv
<1>4. CASE UpdateCommandState
  <2>1. InStep'
    BY <1>1, <1>3, <1>4, InStepCommand
  <2> QED
    BY <1>1, <1>2, <1>4, <2>1, CommandOthers DEF BusInv
<1>5. CASE UpdateRespState
  <2>1. InStep'
    BY <1>1, <1>3, <1>5, InStepResponse
  <2> QED
    BY <1>1, <1>2, <1>5, <2>1, ResponseTick DEF BusInv
<1>6. CASE UpdateUpdateState
  <2>1. InStep'
    BY <1>1, <1>3, <1>6, InStepUpdate
  <2> QED
    BY <1>1, <1>2, <1>6, <2>1, UpdateTick DEF BusInv
<1> QED
  BY <1>1, <1>4, <1>5, <1>6 DEF Tick

(* Every step preserves the invariant.                                    *)
LEMMA NextBusInv == IInv /\ BusInv /\ [BusNext]_busVars => IInv' /\ BusInv'
<1> SUFFICES ASSUME IInv, BusInv, [BusNext]_busVars PROVE IInv' /\ BusInv'
  OBVIOUS
<1>1. CASE BusPush
  BY <1>1, PushStep, NextIInv DEF Next
<1>2. CASE BusTick
  BY <1>2, TickStep
<1>3. CASE BusEdge
  BY <1>3, EdgeTyped, EdgeStep, NextIInv DEF Next
<1>4. CASE HwReady
  BY <1>4, ReadyStep, NextIInv
<1>5. CASE HwAvail
  BY <1>5, AvailStep, NextIInv
<1>6. ASSUME NEW t \in Tags, HwRespond(t) PROVE IInv' /\ BusInv'
  BY <1>6, RespondStep, NextIInv
<1>7. CASE UNCHANGED busVars
  <2>1. UNCHANGED vars /\ UNCHANGED <<phase, cmd_state, cmd_progress, cmdbuf, ready_for_command, rsp_state,
                  rsp_progress, resbuf, registered, ongoing_update, cmds, cmds_inflight, kill_sig, pins,
                  dut, wr, rd, bits, hwready, words, executed, due, respq, avail, pushed>>
    BY <1>7 DEF busVars, vars, command, response, update, globals, hardware
  <2>2. Asked' = Asked /\ (InflightExact => InflightExact') /\ (Sampled => Sampled')
    BY <2>1 DEF Asked, InflightExact, XdCount, Fetched, Sampled
  <2>3. InStep'
    BY <2>1, InStepFrame DEF BusInv
  <2>4. CmdInv'
    BY <2>1, CmdFrame DEF BusInv
  <2>5. RspInv'
    BY <2>1, <2>2, RspFrame DEF BusInv
  <2> QED
    BY <2>1, <2>2, <2>3, <2>4, <2>5, NextIInv DEF BusInv
<1> QED
  BY <1>1, <1>2, <1>3, <1>4, <1>5, <1>6, <1>7 DEF BusNext

(* The invariant of the controller, the slave and the hardware: the       *)
(* machines and the slave are always in step, a value read still holds    *)
(* when it is used, and every word is where the machines' progress says.  *)
THEOREM BusInvariance == BusSpec => [](IInv /\ BusInv)
  BY InitBusInv, NextBusInv, PTL DEF BusSpec

-----------------------------------------------------------------------------
(* Commands reach the hardware whole and in the order the server pushed   *)
(* them (update_command_state, state_machine.h:133-234), for every number *)
(* of commands, payload length and delay of the slave.                    *)
THEOREM CommandsKept == BusSpec => []CommandsIntact
<1>1. IInv /\ BusInv => CommandsIntact
  <2> SUFFICES ASSUME IInv, BusInv PROVE CommandsIntact
    OBVIOUS
  <2>1. Queued /\ Assembled /\ cmds \in Seq(Commands)
    BY ControlTypes DEF BusInv, CmdInv
  <2>2. /\ Taken \in Nat /\ Taken <= Len(pushed) /\ DOMAIN Fetched = 1 .. Taken
        /\ \A i \in 1 .. Taken : Fetched[i] = pushed[i]
    BY <2>1, FetchedFacts
  <2>3. /\ executed \in Seq(Nat) /\ Len(executed) \in Nat /\ Len(executed) <= Taken
        /\ DOMAIN executed = 1 .. Len(executed) /\ \A i \in 1 .. Len(executed) : executed[i] = i
    BY <2>1, <2>2 DEF Assembled
  <2>4. Len(pushed) \in Nat /\ \A i \in 1 .. Len(pushed) : pushed[i].tag = i
    BY <2>1 DEF Queued
  <2>5. \A i \in DOMAIN words : words[i] = <<cmdbuf, i - 1>>
    <3>1. CASE Assembling
      BY <2>1, <3>1 DEF Assembled
    <3>2. CASE ~Assembling
      BY <2>1, <3>2 DEF Assembled
    <3> QED
      BY <3>1, <3>2
  <2>6. ASSUME ~CmdBusy PROVE executed = TagsOf(Fetched) /\ words = <<>>
    <3>1. ~Assembling
      BY <2>6 DEF Assembling
    <3>2. words = <<>> /\ Len(executed) = Taken
      BY <2>1, <2>2, <3>1 DEF Assembled
    <3>3. executed = [i \in 1 .. Taken |-> executed[i]]
      BY <2>3, <3>2, SequenceIs
    <3>4. \A i \in 1 .. Taken : executed[i] = i /\ Fetched[i].tag = i
      BY <2>2, <2>3, <2>4, <3>2
    <3>5. TagsOf(Fetched) = [i \in 1 .. Taken |-> Fetched[i].tag]
      BY <2>2 DEF TagsOf
    <3> QED
      BY <3>2, <3>3, <3>4, <3>5
  <2>7. Len(executed) <= Len(pushed)
    BY <2>2, <2>3, <2>4
  <2> QED
    BY <2>3, <2>5, <2>6, <2>7 DEF CommandsIntact
<1> QED
  BY BusInvariance, <1>1, PTL

(* Responses are handed to register_reponse whole, each the answer to a   *)
(* command that asked for one, and none twice (update_resp_state,         *)
(* state_machine.h:253-330).                                              *)
THEOREM ResponsesKept == BusSpec => []ResponsesIntact
<1>1. IInv /\ BusInv => ResponsesIntact
  <2> SUFFICES ASSUME IInv, BusInv PROVE ResponsesIntact
    OBVIOUS
  <2>1. registered \in Seq(Responses) /\ Whole /\ Tracked /\ Queued /\ Assembled /\ cmds \in Seq(Commands)
    BY ControlTypes DEF BusInv, CmdInv, RspInv
  <2>2. Taken \in Nat /\ Taken <= Len(pushed)
    BY <2>1, FetchedFacts
  <2>3. Len(executed) \in Nat /\ Len(executed) <= Taken
    BY <2>1, <2>2 DEF Assembled
  <2>4. pushed \in Seq(Commands) /\ Len(pushed) \in Nat /\ DOMAIN pushed = 1 .. Len(pushed)
    BY <2>1 DEF Queued
  <2>5. ASSUME NEW i \in DOMAIN registered
        PROVE  \E t \in DOMAIN pushed :
                 pushed[t].xd /\ registered[i] = [w \in 0 .. RespWords - 1 |-> <<t, w>>]
    <3>1. TagOf(registered[i]) \in Asked
      BY <2>1 DEF Tracked, RespTags
    <3>2. TagOf(registered[i]) \in DOMAIN pushed /\ pushed[TagOf(registered[i])].xd
      BY <2>2, <2>3, <2>4, <3>1 DEF Asked
    <3>3. registered[i] \in Responses
      BY <2>1, ElementOf
    <3>4. \A j \in 0 .. RespWords - 1 : registered[i][j] = <<TagOf(registered[i]), j>>
      BY <2>1 DEF Whole
    <3>5. registered[i] = [w \in 0 .. RespWords - 1 |-> <<TagOf(registered[i]), w>>]
      BY <3>3, <3>4 DEF Responses
    <3> QED
      BY <3>2, <3>5
  <2>6. \A i, j \in DOMAIN registered : i # j => registered[i] # registered[j]
    BY <2>1 DEF Whole
  <2> QED
    BY <2>5, <2>6 DEF ResponsesIntact
<1> QED
  BY BusInvariance, <1>1, PTL

(* cmds_inflight counts the commands taken and not answered               *)
(* (state_machine.h:222 and 299), however fetches and responses mix.      *)
THEOREM InflightCounted == BusSpec => []InflightExact
<1>1. IInv /\ BusInv => InflightExact
  BY DEF BusInv
<1> QED
  BY BusInvariance, <1>1, PTL

-----------------------------------------------------------------------------
(* The refinement mapping's value of working.                             *)
Working == {Fetched[i].tag : i \in {j \in DOMAIN Fetched : Fetched[j].xd}}
             \ {RegisteredTags[i] : i \in DOMAIN RegisteredTags}

(* Commands taken that ask for a response, without those answered.        *)
LEMMA WorkingIs == IInv /\ BusInv => Working = XdSet \ RespTags
<1> SUFFICES ASSUME IInv, BusInv PROVE Working = XdSet \ RespTags
  OBVIOUS
<1>1. Queued /\ cmds \in Seq(Commands)
  BY ControlTypes DEF BusInv, CmdInv
<1>2. /\ Taken \in Nat /\ Taken <= Len(pushed) /\ DOMAIN Fetched = 1 .. Taken
      /\ \A i \in 1 .. Taken : Fetched[i] = pushed[i]
  BY <1>1, FetchedFacts
<1>3. Len(pushed) \in Nat /\ \A i \in 1 .. Len(pushed) : pushed[i].tag = i
  BY <1>1 DEF Queued
<1>4. \A i \in 1 .. Taken : Fetched[i].tag = i
  BY <1>2, <1>3
<1>5. {j \in DOMAIN Fetched : Fetched[j].xd} = XdSet
  BY <1>2 DEF XdSet
<1>6. {Fetched[i].tag : i \in XdSet} = XdSet
  BY <1>4 DEF XdSet
<1>7. {RegisteredTags[i] : i \in DOMAIN RegisteredTags} = RespTags
  BY DEF RegisteredTags, RespTags, TagOf
<1> QED
  BY <1>5, <1>6, <1>7 DEF Working

(* Steps that touch neither the queue nor the responses.                  *)
LEMMA BusUnnoticed ==
  ASSUME UNCHANGED <<cmds, pushed, registered, kill_sig>> PROVE UNCHANGED Bus!vars
<1>1. Fetched' = Fetched /\ RegisteredTags' = RegisteredTags
  BY DEF Fetched, RegisteredTags
<1>2. Working' = Working
  BY <1>1 DEF Working
<1> QED
  BY <1>1, <1>2 DEF Bus!vars, Working

(* A push is a push.                                                      *)
LEMMA PushRefines == ASSUME IInv, BusInv, IInv', BusInv', BusPush PROVE Bus!Next
<1>1. PICK xd \in BOOLEAN, f \in {FALSE, MayFlush} :
        /\ Push([tag |-> Len(pushed) + 1, xd |-> xd, flush |-> f])
        /\ pushed' = Append(pushed, [tag |-> Len(pushed) + 1, xd |-> xd, flush |-> f])
  BY DEF BusPush
<1> DEFINE c == [tag |-> Len(pushed) + 1, xd |-> xd, flush |-> f]
<1>2. Queued /\ pushed \in Seq(Commands) /\ Len(pushed) \in Nat /\ Len(pushed) < MaxCommands
      /\ cmds \in Seq(Commands)
  BY ControlTypes DEF BusInv, CmdInv, Queued, BusPush
<1>3. c \in Commands
  <2>1. Len(pushed) + 1 \in 1 .. MaxCommands
    BY <1>2, MaxCommandsAssumption
  <2>2. Len(pushed) + 1 \in Tags
    BY <2>1, BusAssumption
  <2>3. f \in BOOLEAN
    BY BusAssumption
  <2> QED
    BY <2>2, <2>3 DEF Commands
<1> HIDE DEF c
<1>4. cmds' = Append(cmds, c) /\ pushed' = Append(pushed, c) /\ UNCHANGED <<registered, kill_sig>>
  BY <1>1 DEF Push, response, c
<1>5. Working' = Working /\ RegisteredTags' = RegisteredTags
  <2>1. RegisteredTags' = RegisteredTags /\ RespTags' = RespTags
    BY <1>4 DEF RegisteredTags, RespTags, TagOf
  <2>2. /\ Len(pushed') = Len(pushed) + 1 /\ \A i \in 1 .. Len(pushed) : pushed'[i] = pushed[i]
    BY <1>2, <1>3, <1>4, Longer
  <2>3. Len(cmds') = Len(cmds) + 1 /\ Len(cmds) \in Nat
    BY <1>2, <1>3, <1>4, Longer
  <2>4. Taken' = Taken
    BY <1>2, <2>2, <2>3 DEF Taken
  <2>5. Taken \in Nat /\ Taken <= Len(pushed)
    BY <1>2, FetchedFacts
  <2>6. XdSet' = XdSet
    <3>1. \A i \in 1 .. Taken : pushed'[i] = pushed[i]
      BY <1>2, <2>2, <2>5
    <3> QED
      BY <2>4, <3>1 DEF XdSet
  <2>7. (IInv /\ BusInv => Working = XdSet \ RespTags)'
    BY WorkingIs, PTL
  <2> QED
    BY <2>1, <2>6, <2>7, WorkingIs
<1>6. Bus!Push(c)
  BY <1>4, <1>5 DEF Bus!Push, Working
<1> QED
  BY <1>3, <1>6 DEF Bus!Next, Commands

(* CMD_INACTIVE takes the next command.                                   *)
LEMMA FetchRefines ==
  ASSUME IInv, BusInv, IInv', BusInv', CmdFetch, UNCHANGED <<wr, rd, bits, hardware, pushed>>
  PROVE  Bus!Next
<1>1. /\ cmds # <<>> /\ ~kill_sig /\ cmds' = Tail(cmds) /\ kill_sig' = Head(cmds).flush
      /\ UNCHANGED <<registered, pushed, executed>>
  BY DEF CmdFetch, response, hardware
<1>2. /\ Taken' = Taken + 1 /\ Taken + 1 \in 1 .. Len(pushed) /\ Head(cmds) = pushed[Taken + 1]
      /\ Len(executed) = Taken
  BY FetchTick
<1>3. Queued /\ cmds \in Seq(Commands) /\ Tracked
  BY ControlTypes DEF BusInv, CmdInv, RspInv
<1>4. Taken \in Nat /\ Head(cmds).tag = Taken + 1
  <2>1. Taken \in Nat
    BY <1>3, FetchedFacts
  <2>2. \A i \in 1 .. Len(pushed) : pushed[i].tag = i
    BY <1>3 DEF Queued
  <2> QED
    BY <1>2, <2>1, <2>2
<1>5. RegisteredTags' = RegisteredTags /\ RespTags' = RespTags
  BY <1>1 DEF RegisteredTags, RespTags, TagOf
<1>6. Taken + 1 \notin RespTags
  <2>1. RespTags \subseteq Asked
    BY <1>3 DEF Tracked
  <2>2. Taken + 1 \notin Asked
    BY <1>2, <1>4 DEF Asked
  <2> QED
    BY <2>1, <2>2
<1>7. XdSet' = IF Head(cmds).xd THEN XdSet \cup {Taken + 1} ELSE XdSet
  <2>1. 1 .. Taken + 1 = (1 .. Taken) \cup {Taken + 1}
    BY <1>4
  <2> QED
    BY <1>1, <1>2, <2>1 DEF XdSet
<1>8. Working' = IF Head(cmds).xd THEN Working \cup {Head(cmds).tag} ELSE Working
  <2>1. (IInv /\ BusInv => Working = XdSet \ RespTags)'
    BY WorkingIs, PTL
  <2>2. Working' = XdSet' \ RespTags /\ Working = XdSet \ RespTags
    BY <1>5, <2>1, WorkingIs
  <2> QED
    BY <1>4, <1>6, <1>7, <2>2
<1>9. Bus!Fetch
  BY <1>1, <1>5, <1>8 DEF Bus!Fetch, Working
<1> QED
  BY <1>9 DEF Bus!Next

(* The sequence with one element more, known by its elements.             *)
LEMMA AppendIs ==
  ASSUME NEW n \in Nat, NEW S, NEW r \in [1 .. n -> S], NEW s \in [1 .. n + 1 -> S], NEW t \in S,
         \A i \in 1 .. n : s[i] = r[i], s[n + 1] = t
  PROVE  s = Append(r, t)
<1>1. r \in Seq(S) /\ s \in Seq(S) /\ Len(r) = n /\ Len(s) = n + 1
  OBVIOUS
<1>2. /\ Append(r, t) \in Seq(S) /\ DOMAIN Append(r, t) = 1 .. n + 1
      /\ Append(r, t)[n + 1] = t /\ \A i \in 1 .. n : Append(r, t)[i] = r[i]
  BY <1>1, Longer
<1>3. PICK a : a = Append(r, t)
  OBVIOUS
<1>4. a = [i \in 1 .. n + 1 |-> a[i]]
  <2>1. Len(Append(r, t)) = n + 1
    BY <1>1, Longer
  <2> QED
    BY <1>2, <1>3, <2>1, SequenceIs
<1>5. \A i \in 1 .. n + 1 : a[i] = s[i]
  <2> TAKE i \in 1 .. n + 1
  <2>1. i \in 1 .. n \/ i = n + 1
    OBVIOUS
  <2> QED
    BY <1>2, <1>3, <2>1
<1> QED
  BY <1>3, <1>4, <1>5

(* The last acknowledgement registers the response.                       *)
LEMMA RegisterRefines ==
  ASSUME IInv, BusInv, IInv', BusInv', UpdateRespState, UNCHANGED <<wr, rd, bits, hardware, pushed>>,
         registered' # registered
  PROVE  Bus!Next
<1>1. /\ phase = "rsp" /\ UNCHANGED <<cmds, kill_sig, pushed, executed>>
  BY DEF UpdateRespState, RspCase, RspDrive, RspInactive, RspBitsAddr, RspBitsRead, RspReadyAddr,
       RspReadyWrite, RspReadyWriteB, RspRecheckValidAddr, RspRecheckValidRead, hardware
<1>2. RspReadyWrite \/ RspReadyWriteB
  BY DEF UpdateRespState, RspInactive, RspBitsAddr, RspBitsRead, RspReadyAddr,
       RspRecheckValidAddr, RspRecheckValidRead, RspKeep
<1>3. rsp_state \in {"READY_WRITE", "READY_WRITE_B"} /\ UNCHANGED <<rsp_progress, resbuf>>
  BY <1>2 DEF RspReadyWrite, RspReadyWriteB, RspCase
<1>4. cmd_state = "INACTIVE" /\ wr = WrOf
  <2>1. cmd_state = "INACTIVE" /\ pins = NoPins
    BY <1>1, <1>3 DEF IInv, BusExclusive, CmdBusy, RspBusy, Driven
  <2> QED
    BY <2>1, Quiet DEF BusInv, InStep
<1>5. rsp_state = "READY_WRITE_B" /\ wr.stage = "resp"
  <2>1. CASE rsp_state = "READY_WRITE"
    <3>1. wr.stage = "data"
      BY <1>4, <2>1 DEF WrOf, At
    <3>2. ~dut.b_valid
      BY <3>1 DEF BusInv, InStep
    <3>3. registered' = registered
      BY <1>2, <2>1, <3>2 DEF RspReadyWrite, RspReadyWriteB, RspCase
    <3> QED
      BY <3>3
  <2>2. CASE rsp_state = "READY_WRITE_B"
    BY <1>4, <2>2 DEF WrOf, At
  <2> QED
    BY <1>3, <2>1, <2>2
<1>6. RspAcknowledged /\ rsp_progress = RespWords
  BY <1>2, <1>5 DEF RspReadyWrite, RspReadyWriteB, RspCase, RspAcknowledged
<1>7. HandTags = {TagOf(resbuf)} /\ registered' = Append(registered, resbuf)
  BY <1>1, <1>3, <1>5, <1>6, ResponseDone
<1>8. registered \in Seq(Responses) /\ resbuf \in Responses /\ Tracked /\ Queued /\ Assembled
      /\ cmds \in Seq(Commands)
  BY ControlTypes DEF BusInv, CmdInv, RspInv
<1>9. ~kill_sig
  BY <1>4, <1>8 DEF Queued, CmdBusy
<1>10. PICK n \in Nat : /\ n = Len(registered) /\ DOMAIN registered = 1 .. n
                        /\ DOMAIN registered' = 1 .. n + 1 /\ registered'[n + 1] = resbuf
                        /\ \A i \in 1 .. n : registered'[i] = registered[i]
  BY <1>7, <1>8, Longer
<1>11. TagOf(resbuf) \in XdSet /\ TagOf(resbuf) \notin RespTags
  <2>1. TagOf(resbuf) \in Asked /\ TagOf(resbuf) \notin RespTags
    BY <1>7, <1>8 DEF Tracked
  <2>2. Taken \in Nat
    BY <1>8, FetchedFacts
  <2>3. Len(executed) \in Nat /\ Len(executed) <= Taken
    BY <1>8, <2>2 DEF Assembled
  <2> QED
    BY <2>1, <2>2, <2>3 DEF Asked, XdSet
<1>12. RespTags' = RespTags \cup {TagOf(resbuf)} /\ XdSet' = XdSet
  <2>1. 1 .. n + 1 = (1 .. n) \cup {n + 1}
    OBVIOUS
  <2>2. RespTags' = RespTags \cup {TagOf(resbuf)}
    BY <1>10, <2>1 DEF RespTags, TagOf
  <2> QED
    BY <1>1, <2>2 DEF XdSet, Taken
<1>13. Working = XdSet \ RespTags /\ Working' = Working \ {TagOf(resbuf)}
  <2>1. (IInv /\ BusInv => Working = XdSet \ RespTags)'
    BY WorkingIs, PTL
  <2> QED
    BY <1>12, <2>1, WorkingIs
<1>14. RegisteredTags' = Append(RegisteredTags, TagOf(resbuf))
  <2>1. RegisteredTags = [i \in 1 .. n |-> TagOf(registered[i])]
        /\ RegisteredTags' = [i \in 1 .. n + 1 |-> TagOf(registered'[i])]
    BY <1>10 DEF RegisteredTags, TagOf
  <2>2. PICK r, s, t : r = RegisteredTags /\ s = RegisteredTags' /\ t = TagOf(resbuf)
    OBVIOUS
  <2>3. \A i \in 1 .. n : s[i] = r[i]
    <3>1. \A i \in 1 .. n : i \in 1 .. n + 1
      OBVIOUS
    <3> QED
      BY <1>10, <2>1, <2>2, <3>1
  <2>4. s[n + 1] = t
    <3>1. n + 1 \in 1 .. n + 1
      OBVIOUS
    <3> QED
      BY <1>10, <2>1, <2>2, <3>1
  <2>5. PICK S : S = {s[i] : i \in 1 .. n + 1}
    OBVIOUS
  <2>6. s \in [1 .. n + 1 -> S] /\ r \in [1 .. n -> S] /\ t \in S
    <3>1. n + 1 \in 1 .. n + 1 /\ \A i \in 1 .. n : i \in 1 .. n + 1
      OBVIOUS
    <3>2. s = [i \in 1 .. n + 1 |-> s[i]] /\ r = [i \in 1 .. n |-> r[i]]
      BY <2>1, <2>2
    <3> QED
      BY <2>3, <2>4, <2>5, <3>1, <3>2
  <2>7. s = Append(r, t)
    BY <2>3, <2>4, <2>6, AppendIs
  <2> QED
    BY <2>2, <2>7
<1>15. PICK t : t = TagOf(resbuf)
  OBVIOUS
<1>16. t \in Working
  BY <1>11, <1>13, <1>15
<1>17. Bus!Register(t)
  BY <1>1, <1>9, <1>13, <1>14, <1>15, <1>16 DEF Bus!Register, Working
<1> QED
  BY <1>16, <1>17 DEF Bus!Next, Working

(* The controller, the slave and the hardware take no step that FrontBus  *)
(* forbids: commands leave the queue in order, every response registered  *)
(* is one still outstanding, and nothing happens after a FLUSH was taken  *)
(* but pushes (the safety part of ImplementsFrontBus; that responses come *)
(* in the end needs fairness).                                            *)
THEOREM FrontBusSafe == BusSpec => Bus!Init /\ [][Bus!Next]_(Bus!vars)
<1>1. BusInit => Bus!Init
  <2> SUFFICES ASSUME BusInit PROVE Bus!Init
    OBVIOUS
  <2>1. cmds = <<>> /\ pushed = <<>> /\ registered = <<>> /\ kill_sig = FALSE
    BY DEF BusInit, Init
  <2>2. RegisteredTags = <<>>
    BY <2>1 DEF RegisteredTags
  <2>3. XdSet = {}
    BY <2>1 DEF XdSet, Taken
  <2>4. Working = {}
    BY <2>3, InitBusInv, WorkingIs
  <2> QED
    BY <2>1, <2>2, <2>4 DEF Bus!Init, Working
<1>2. IInv /\ BusInv /\ (IInv /\ BusInv)' /\ [BusNext]_busVars => [Bus!Next]_(Bus!vars)
  <2> SUFFICES ASSUME IInv, BusInv, IInv', BusInv', [BusNext]_busVars
               PROVE  Bus!Next \/ UNCHANGED Bus!vars
    OBVIOUS
  <2>1. CASE BusPush
    BY <2>1, PushRefines
  <2>2. CASE BusTick
    <3>1. Tick /\ UNCHANGED <<wr, rd, bits, hardware, pushed>> /\ pushed' = pushed
      BY <2>2 DEF BusTick
    <3>2. CASE CmdFetch
      BY <3>1, <3>2, FetchRefines
    <3>3. CASE UpdateCommandState /\ ~CmdFetch
      <4>1. UNCHANGED <<cmds, registered, kill_sig>>
        BY <3>3 DEF UpdateCommandState, CmdCase, CmdDrive, CmdKeep, CmdBitsWriteAddr, CmdBitsWriteDat,
           CmdBitsWriteB, CmdValidAddr, CmdValidDat, CmdValidWriteB, CmdRecheckReadyAddr,
           CmdRecheckReadyDat, CmdInactive, globals, response
      <4> QED
        BY <3>1, <4>1, BusUnnoticed
    <3>4. CASE UpdateRespState
      <4>1. CASE registered' = registered
        <5>1. UNCHANGED <<cmds, kill_sig>>
          BY <3>4 DEF UpdateRespState, RspCase, RspDrive, RspInactive, RspBitsAddr, RspBitsRead,
             RspReadyAddr, RspReadyWrite, RspReadyWriteB, RspRecheckValidAddr, RspRecheckValidRead
        <5> QED
          BY <3>1, <4>1, <5>1, BusUnnoticed
      <4>2. CASE registered' # registered
        BY <3>1, <3>4, <4>2, RegisterRefines
      <4> QED
        BY <4>1, <4>2
    <3>5. CASE UpdateUpdateState
      <4>1. UNCHANGED <<cmds, registered, kill_sig>>
        BY <3>5 DEF UpdateUpdateState, UpdCase, UpdIdle, UpdAddr, UpdRespWait, UpdCmdWait, globals
      <4> QED
        BY <3>1, <4>1, BusUnnoticed
    <3> QED
      BY <3>1, <3>2, <3>3, <3>4, <3>5 DEF Tick
  <2>3. CASE BusEdge
    <3>1. UNCHANGED <<cmds, pushed, registered, kill_sig>>
      BY <2>3, EdgeFacts DEF BusInv, response, globals
    <3> QED
      BY <3>1, BusUnnoticed
  <2>4. CASE HwReady \/ HwAvail \/ (\E t \in Tags : HwRespond(t)) \/ UNCHANGED busVars
    <3>1. UNCHANGED <<cmds, pushed, registered, kill_sig>>
      BY <2>4 DEF HwReady, HwAvail, HwRespond, HwStep, busVars, vars, response, globals
    <3> QED
      BY <3>1, BusUnnoticed
  <2> QED
    BY <2>1, <2>2, <2>3, <2>4 DEF BusNext
<1> QED
  BY BusInvariance, <1>1, <1>2, PTL DEF BusSpec
=============================================================================
