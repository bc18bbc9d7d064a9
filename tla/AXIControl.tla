----------------------------- MODULE AXIControl -----------------------------
(***************************************************************************)
(* The front-bus controller of the AXI simulation front end               *)
(* (src/include/sim/axi/state_machine.h, AXIControlIntf): three state     *)
(* machines that share one AXI-Lite master port. The command machine      *)
(* writes a command word by word, the response machine reads a response   *)
(* word by word, the update machine polls CMD_READY and RESP_VALID in     *)
(* turn. bus_occupied is their only arbiter.                              *)
(*                                                                         *)
(* tick() clears the master's pins and runs the three machines in order;  *)
(* phase is the position in that sequence. Every other action of the      *)
(* module is one case of one machine's switch. The pins the accelerator   *)
(* drives (dut) are arbitrary here and change at the clock edge; AXIBus   *)
(* puts an accelerator behind them.                                       *)
(***************************************************************************)
EXTENDS Integers, Sequences

CONSTANTS Tags,         \* identities of commands
          Data,         \* values of r_data
          Zero,         \* the one that reads as false
          CmdWords,     \* command_transaction::payload_length (5)
          RespWords,    \* response_transaction::payload_length (3)
          check_freq,   \* cycles between two polls (50)
          MaxCommands   \* bound: commands waiting, under way or answered

ASSUME ZeroAssumption == Zero \in Data
ASSUME WordsAssumption == CmdWords \in Nat \ {0} /\ RespWords \in Nat \ {0}
ASSUME FreqAssumption == check_freq \in Nat
ASSUME MaxCommandsAssumption == MaxCommands \in Nat

Commands == [tag : Tags, xd : BOOLEAN, flush : BOOLEAN]
Responses == [0 .. RespWords - 1 -> Data]

CmdStates == {"INACTIVE", "BITS_WRITE_ADDR", "BITS_WRITE_DAT", "BITS_WRITE_B",
              "VALID_ADDR", "VALID_DAT", "VALID_WRITE_B",
              "RECHECK_READY_ADDR", "RECHECK_READY_DAT"}
RespStates == {"INACTIVE", "BITS_ADDR", "BITS_READ", "READY_ADDR", "READY_WRITE",
               "READY_WRITE_B", "RECHECK_VALID_ADDR", "RECHECK_VALID_READ"}
UpdateStates == {"IDLE_RESP", "IDLE_CMD", "CMD_ADDR", "CMD_WAIT", "RESP_ADDR", "RESP_WAIT"}
Idle == {"IDLE_RESP", "IDLE_CMD"}

VARIABLES
  phase,                \* "cmd", "rsp", "upd": which machine runs next; "edge": clock
  cmd_state, cmd_progress, cmdbuf, ready_for_command,        \* ongoing_cmd
  rsp_state, rsp_progress, resbuf,                           \* ongoing_rsp
  ongoing_update, check_freq_ctr, bus_occupied,
  cmds, cmds_inflight, kill_sig,                             \* globals
  registered,           \* responses handed to register_reponse so far
  pins,                 \* the master's pins: address or data driven, ready bits
  dut                   \* the accelerator's pins

command == <<cmd_state, cmd_progress, cmdbuf, ready_for_command>>
response == <<rsp_state, rsp_progress, resbuf, registered>>
update == <<ongoing_update, check_freq_ctr>>
globals == <<cmds, cmds_inflight, kill_sig>>
vars == <<phase, command, response, update, bus_occupied, globals, pins, dut>>

NoPins == [aw |-> "none", w |-> <<>>, ar |-> "none", b |-> FALSE, r |-> FALSE]
DutPins == [aw_ready : BOOLEAN, w_ready : BOOLEAN, b_valid : BOOLEAN,
            ar_ready : BOOLEAN, r_valid : BOOLEAN, r_data : Data]

Init == /\ phase = "cmd"
        /\ cmd_state = "INACTIVE" /\ cmd_progress = 0 /\ cmdbuf = <<>>
        /\ ready_for_command = FALSE
        /\ rsp_state = "INACTIVE" /\ rsp_progress = 0
        /\ resbuf = [i \in 0 .. RespWords - 1 |-> Zero]
        /\ registered = <<>>
        /\ ongoing_update = "IDLE_CMD" /\ check_freq_ctr = 0
        /\ bus_occupied = FALSE
        /\ cmds = <<>> /\ cmds_inflight = 0 /\ kill_sig = FALSE
        /\ pins = NoPins
        /\ dut = [aw_ready |-> FALSE, w_ready |-> FALSE, b_valid |-> FALSE,
                  ar_ready |-> FALSE, r_valid |-> FALSE, r_data |-> Zero]

-----------------------------------------------------------------------------
(* The command server pushes a command (cmd_server.cc:148).               *)
Push(c) == /\ Len(cmds) + cmds_inflight + Len(registered) < MaxCommands
           /\ cmds' = Append(cmds, c)
           /\ UNCHANGED <<phase, command, response, update, bus_occupied,
                          cmds_inflight, kill_sig, pins, dut>>

-----------------------------------------------------------------------------
(* Fault: the value read is not looked at. *)
ReadsSetAlways == TRUE

(* A flag register read as set.                                           *)
ReadsSet == dut.r_data # Zero

(* update_command_state, after tick() cleared the pins. The simulation    *)
(* loop enters a cycle only while kill_sig is down.                       *)
CmdCase(from) == /\ phase = "cmd" /\ ~kill_sig /\ phase' = "rsp"
                 /\ cmd_state = from
                 /\ UNCHANGED <<cmdbuf, response, update, dut>>

(* Drive the master's pins and move on if the accelerator is ready.       *)
CmdDrive(from, driven, go, to) ==
  /\ CmdCase(from)
  /\ pins' = driven
  /\ cmd_state' = IF go THEN to ELSE from

CmdKeep == UNCHANGED <<cmd_progress, bus_occupied, globals>>

CmdBitsWriteAddr ==
  /\ CmdDrive("BITS_WRITE_ADDR", [NoPins EXCEPT !.aw = "CMD_BITS"],
              dut.aw_ready, "BITS_WRITE_DAT")
  /\ ready_for_command' = FALSE
  /\ CmdKeep

CmdBitsWriteDat ==
  /\ CmdDrive("BITS_WRITE_DAT", [NoPins EXCEPT !.w = <<cmdbuf, cmd_progress>>],
              dut.w_ready, "BITS_WRITE_B")
  /\ UNCHANGED ready_for_command
  /\ CmdKeep

CmdBitsWriteB ==
  /\ CmdDrive("BITS_WRITE_B", [NoPins EXCEPT !.b = TRUE], dut.b_valid, "VALID_ADDR")
  /\ UNCHANGED ready_for_command
  /\ CmdKeep

CmdValidAddr ==
  /\ CmdDrive("VALID_ADDR", [NoPins EXCEPT !.aw = "CMD_VALID"],
              dut.aw_ready, "VALID_DAT")
  /\ UNCHANGED ready_for_command
  /\ CmdKeep

CmdValidDat ==
  /\ CmdDrive("VALID_DAT", [NoPins EXCEPT !.w = <<"one">>], dut.w_ready, "VALID_WRITE_B")
  /\ UNCHANGED ready_for_command
  /\ CmdKeep

(* Fault: one word too many is sent. *)
CmdDoneLate(n) == n > CmdWords

CmdDone(n) == n = CmdWords

(* A word is through: after the last one yield the bus, else make sure    *)
(* that the accelerator takes another word.                               *)
CmdValidWriteB ==
  /\ CmdCase("VALID_WRITE_B")
  /\ pins' = [NoPins EXCEPT !.b = TRUE]
  /\ IF dut.b_valid
     THEN /\ cmd_progress' = cmd_progress + 1
          /\ IF CmdDone(cmd_progress')
             THEN cmd_state' = "INACTIVE" /\ bus_occupied' = FALSE
             ELSE cmd_state' = "RECHECK_READY_ADDR" /\ UNCHANGED bus_occupied
     ELSE UNCHANGED <<cmd_state, cmd_progress, bus_occupied>>
  /\ UNCHANGED <<ready_for_command, globals>>

CmdRecheckReadyAddr ==
  /\ CmdDrive("RECHECK_READY_ADDR", [NoPins EXCEPT !.ar = "CMD_READY"],
              dut.ar_ready, "RECHECK_READY_DAT")
  /\ UNCHANGED ready_for_command
  /\ CmdKeep

CmdRecheckReadyDat ==
  /\ CmdDrive("RECHECK_READY_DAT", [NoPins EXCEPT !.r = TRUE], dut.r_valid,
              IF ReadsSet THEN "BITS_WRITE_ADDR" ELSE "RECHECK_READY_ADDR")
  /\ UNCHANGED ready_for_command
  /\ CmdKeep

(* Fault: ongoing_update is not looked at. *)
MayFetchDuringPoll == ready_for_command /\ ~bus_occupied

MayFetch == ready_for_command /\ ~bus_occupied /\ ongoing_update \in Idle

(* Nothing under way: take the next command when the accelerator was last *)
(* seen ready and the bus is free. cmdserverlock is held for the whole    *)
(* case. A FLUSH raises kill_sig.                                         *)
CmdFetch ==
  /\ phase = "cmd" /\ ~kill_sig /\ phase' = "rsp"
  /\ cmd_state = "INACTIVE" /\ MayFetch /\ cmds # <<>>
  /\ cmd_state' = "BITS_WRITE_ADDR" /\ cmd_progress' = 0
  /\ cmdbuf' = Head(cmds).tag
  /\ kill_sig' = Head(cmds).flush
  /\ cmds_inflight' = IF Head(cmds).xd THEN cmds_inflight + 1 ELSE cmds_inflight
  /\ cmds' = Tail(cmds)
  /\ bus_occupied' = TRUE
  /\ pins' = NoPins
  /\ UNCHANGED <<ready_for_command, response, update, dut>>

CmdInactive ==
  /\ CmdCase("INACTIVE")
  /\ ~(MayFetch /\ cmds # <<>>)
  /\ cmd_state' = cmd_state /\ pins' = NoPins
  /\ UNCHANGED ready_for_command
  /\ CmdKeep

UpdateCommandState ==
  \/ CmdBitsWriteAddr \/ CmdBitsWriteDat \/ CmdBitsWriteB
  \/ CmdValidAddr \/ CmdValidDat \/ CmdValidWriteB
  \/ CmdRecheckReadyAddr \/ CmdRecheckReadyDat
  \/ CmdFetch \/ CmdInactive

-----------------------------------------------------------------------------
(* update_resp_state *)
RspCase(from) == /\ phase = "rsp" /\ phase' = "upd"
                 /\ rsp_state = from
                 /\ UNCHANGED <<command, update, cmds, kill_sig, dut>>

RspDrive(from, driven, go, to) ==
  /\ RspCase(from)
  /\ pins' = driven
  /\ rsp_state' = IF go THEN to ELSE from

RspKeep == UNCHANGED <<rsp_progress, resbuf, registered, cmds_inflight, bus_occupied>>

RspInactive == /\ RspDrive("INACTIVE", pins, FALSE, "INACTIVE")
               /\ RspKeep

RspBitsAddr ==
  /\ RspDrive("BITS_ADDR", [pins EXCEPT !.ar = "RESP_BITS"], dut.ar_ready, "BITS_READ")
  /\ RspKeep

RspBitsRead ==
  /\ RspDrive("BITS_READ", [pins EXCEPT !.r = TRUE], dut.r_valid, "READY_ADDR")
  /\ IF dut.r_valid
     THEN /\ resbuf' = [resbuf EXCEPT ![rsp_progress] = dut.r_data]
          /\ rsp_progress' = rsp_progress + 1
     ELSE UNCHANGED <<resbuf, rsp_progress>>
  /\ UNCHANGED <<registered, cmds_inflight, bus_occupied>>

RspReadyAddr ==
  /\ RspDrive("READY_ADDR", [pins EXCEPT !.aw = "RESP_READY"], dut.aw_ready, "READY_WRITE")
  /\ RspKeep

(* Fault: cmds_inflight is not decremented. *)
InflightKept == cmds_inflight

InflightAfterResponse == cmds_inflight - 1

(* The write acknowledgement: after the last word hand the response over  *)
(* and yield the bus, else wait for the next word.                        *)
RspAcknowledged ==
  IF rsp_progress = RespWords
  THEN /\ rsp_state' = "INACTIVE"
       /\ registered' = Append(registered, resbuf)
       /\ cmds_inflight' = InflightAfterResponse
       /\ bus_occupied' = FALSE
  ELSE /\ rsp_state' = "RECHECK_VALID_ADDR"
       /\ UNCHANGED <<registered, cmds_inflight, bus_occupied>>

(* The case of RESPT_READY_WRITE has no break: it runs on into the next   *)
(* one and looks at b_valid in the same cycle.                            *)
RspReadyWrite ==
  /\ RspCase("READY_WRITE")
  /\ pins' = [pins EXCEPT !.w = <<"one">>, !.b = TRUE]
  /\ UNCHANGED <<rsp_progress, resbuf>>
  /\ IF dut.b_valid
     THEN RspAcknowledged
     ELSE /\ rsp_state' = IF dut.w_ready THEN "READY_WRITE_B" ELSE "READY_WRITE"
          /\ UNCHANGED <<registered, cmds_inflight, bus_occupied>>

RspReadyWriteB ==
  /\ RspCase("READY_WRITE_B")
  /\ pins' = [pins EXCEPT !.b = TRUE]
  /\ UNCHANGED <<rsp_progress, resbuf>>
  /\ IF dut.b_valid
     THEN RspAcknowledged
     ELSE UNCHANGED <<rsp_state, registered, cmds_inflight, bus_occupied>>

RspRecheckValidAddr ==
  /\ RspDrive("RECHECK_VALID_ADDR", [pins EXCEPT !.ar = "RESP_VALID"],
              dut.ar_ready, "RECHECK_VALID_READ")
  /\ RspKeep

RspRecheckValidRead ==
  /\ RspDrive("RECHECK_VALID_READ", [pins EXCEPT !.r = TRUE], dut.r_valid,
              IF ReadsSet THEN "BITS_ADDR" ELSE "RECHECK_VALID_ADDR")
  /\ RspKeep

UpdateRespState ==
  \/ RspInactive \/ RspBitsAddr \/ RspBitsRead \/ RspReadyAddr \/ RspReadyWrite
  \/ RspReadyWriteB \/ RspRecheckValidAddr \/ RspRecheckValidRead

-----------------------------------------------------------------------------
(* update_update_state *)
UpdCase == /\ phase = "upd" /\ phase' = "edge"
           /\ UNCHANGED <<cmd_state, cmd_progress, cmdbuf, resbuf, registered, globals, dut>>

(* Every check_freq cycles take the bus, if it is free, for a poll. The   *)
(* counter matters only against check_freq, so it stops one above it.     *)
UpdIdle(from, to) ==
  /\ UpdCase /\ ongoing_update = from
  /\ IF ~bus_occupied /\ check_freq_ctr > check_freq
     THEN check_freq_ctr' = 0 /\ bus_occupied' = TRUE /\ ongoing_update' = to
     ELSE /\ check_freq_ctr' = IF check_freq_ctr > check_freq
                               THEN check_freq_ctr ELSE check_freq_ctr + 1
          /\ UNCHANGED <<bus_occupied, ongoing_update>>
  /\ UNCHANGED <<pins, ready_for_command, rsp_state, rsp_progress>>

UpdAddr(from, reg, to) ==
  /\ UpdCase /\ ongoing_update = from
  /\ pins' = [pins EXCEPT !.ar = reg]
  /\ ongoing_update' = IF dut.ar_ready THEN to ELSE from
  /\ UNCHANGED <<check_freq_ctr, bus_occupied, ready_for_command, rsp_state, rsp_progress>>

(* A response is there: the response machine inherits the bus.            *)
UpdRespWait ==
  /\ UpdCase /\ ongoing_update = "RESP_WAIT"
  /\ pins' = [pins EXCEPT !.r = TRUE]
  /\ IF dut.r_valid
     THEN /\ ongoing_update' = "IDLE_CMD" /\ rsp_progress' = 0
          /\ IF ReadsSet
             THEN rsp_state' = "BITS_ADDR" /\ UNCHANGED bus_occupied
             ELSE bus_occupied' = FALSE /\ UNCHANGED rsp_state
     ELSE UNCHANGED <<ongoing_update, rsp_progress, rsp_state, bus_occupied>>
  /\ UNCHANGED <<check_freq_ctr, ready_for_command>>

(* Fault: responses are polled for without a command out. *)
AfterCmdPollResp == "IDLE_RESP"

(* Fault: responses are never polled for. *)
AfterCmdPollCmd == "IDLE_CMD"

AfterCmdPoll == IF cmds_inflight > 0 THEN "IDLE_RESP" ELSE "IDLE_CMD"

(* bus_occupied falls in the first cycle of the wait already.             *)
UpdCmdWait ==
  /\ UpdCase /\ ongoing_update = "CMD_WAIT"
  /\ pins' = [pins EXCEPT !.r = TRUE]
  /\ IF dut.r_valid
     THEN /\ ready_for_command' = ReadsSet
          /\ ongoing_update' = AfterCmdPoll
     ELSE UNCHANGED <<ready_for_command, ongoing_update>>
  /\ bus_occupied' = FALSE
  /\ UNCHANGED <<check_freq_ctr, rsp_state, rsp_progress>>

UpdateUpdateState ==
  \/ UpdIdle("IDLE_RESP", "RESP_ADDR") \/ UpdIdle("IDLE_CMD", "CMD_ADDR")
  \/ UpdAddr("RESP_ADDR", "RESP_VALID", "RESP_WAIT")
  \/ UpdAddr("CMD_ADDR", "CMD_READY", "CMD_WAIT")
  \/ UpdRespWait \/ UpdCmdWait

-----------------------------------------------------------------------------
Tick == UpdateCommandState \/ UpdateRespState \/ UpdateUpdateState

(* The clock edge: the accelerator's pins take new values.                *)
Edge(d) == /\ phase = "edge" /\ phase' = "cmd"
           /\ dut' = d
           /\ UNCHANGED <<command, response, update, bus_occupied, globals, pins>>

Next == \/ \E c \in Commands : Push(c)
        \/ Tick
        \/ \E d \in DutPins : Edge(d)

Spec == Init /\ [][Next]_vars

-----------------------------------------------------------------------------
Registers == {"none", "CMD_BITS", "CMD_VALID", "CMD_READY",
              "RESP_BITS", "RESP_VALID", "RESP_READY"}

(* Type invariant of the controller.                                       *)
TypeOK ==
  /\ phase \in {"cmd", "rsp", "upd", "edge"}
  /\ cmd_state \in CmdStates /\ cmd_progress \in 0 .. CmdWords
  /\ cmdbuf \in Tags \cup {<<>>}
  /\ ready_for_command \in BOOLEAN
  /\ rsp_state \in RespStates /\ rsp_progress \in 0 .. RespWords
  /\ resbuf \in Responses
  /\ registered \in Seq(Responses)
  /\ ongoing_update \in UpdateStates /\ check_freq_ctr \in 0 .. check_freq + 1
  /\ bus_occupied \in BOOLEAN
  /\ cmds \in Seq(Commands) /\ cmds_inflight \in Nat /\ kill_sig \in BOOLEAN
  /\ dut \in DutPins

CmdBusy == cmd_state # "INACTIVE"
RspBusy == rsp_state # "INACTIVE"
UpdBusy == ongoing_update \notin Idle

(* bus_occupied does its work, whatever the accelerator answers: never    *)
(* are two machines in the middle of a transaction, and the bus is never  *)
(* left occupied with no machine to give it back. (The update machine     *)
(* drops bus_occupied in CMD_WAIT one cycle after taking the bus; the     *)
(* check of ongoing_update in CMD_INACTIVE is what keeps this sound.)     *)
BusExclusive ==
  /\ ~(CmdBusy /\ RspBusy) /\ ~(CmdBusy /\ UpdBusy) /\ ~(RspBusy /\ UpdBusy)
  /\ bus_occupied => CmdBusy \/ RspBusy \/ UpdBusy

(* A response is polled for and read only while a command that wants one  *)
(* is out, so cmds_inflight never falls below zero even if the accelerator *)
(* always claims to have a response.                                      *)
PollsOnlyWhenExpected ==
  RspBusy \/ ongoing_update \in {"IDLE_RESP", "RESP_ADDR", "RESP_WAIT"} => cmds_inflight > 0

(* cmdbuf[progress] and resbuf[progress++] stay inside their arrays, and  *)
(* the word count a machine compares with payload_length cannot skip it.  *)
BuffersInBounds ==
  /\ CmdBusy => cmd_progress < CmdWords
  /\ rsp_state \in {"BITS_ADDR", "BITS_READ"} => rsp_progress < RespWords
  /\ rsp_state \in {"READY_ADDR", "READY_WRITE", "READY_WRITE_B"} => rsp_progress > 0
  /\ rsp_state \in {"RECHECK_VALID_ADDR", "RECHECK_VALID_READ"} =>
       rsp_progress \in 1 .. RespWords - 1

(* In one clock cycle at most one of the three machines drives the port:  *)
(* the pins a machine leaves behind are never changed by a later one.     *)
OneDriver == [][(phase \in {"rsp", "upd"} /\ pins' # pins) => pins = NoPins]_vars
=============================================================================
