------------------------------- MODULE AXIBus -------------------------------
(***************************************************************************)
(* AXIControl with an accelerator behind its pins (external code,         *)
(* modelled from the transactions the controller performs): an AXI-Lite   *)
(* slave that answers after arbitrary but bounded delays, the six command *)
(* and response registers, and the hardware that assembles commands from  *)
(* words and produces responses. A register write takes effect with its   *)
(* data handshake; a read value is sampled when r_valid rises.            *)
(***************************************************************************)
EXTENDS AXIControl, FiniteSets

CONSTANTS One,        \* the value a set flag reads as
          HwDepth,    \* commands the hardware holds before their responses leave
          MaxStall,   \* bound: cycles in a row the slave may hold back an offer
          MayFlush    \* may a client send ROCC_OP_FLUSH?

ASSUME BusAssumption ==
  /\ One \in Data \ {Zero} /\ HwDepth \in Nat \ {0} /\ MaxStall \in Nat
  /\ Tags = 1 .. MaxCommands
  /\ Tags \X (0 .. RespWords - 1) \subseteq Data \ {Zero}
  /\ MayFlush \in BOOLEAN

VARIABLES wr, rd,     \* write and read side of the slave: stage and latched register
          bits,       \* CMD_BITS
          hwready,    \* CMD_READY
          words,      \* words of the command being assembled
          executed,   \* tags of the commands assembled so far
          due,        \* commands still to be answered
          respq,      \* words of the response being offered
          avail,      \* RESP_VALID
          stall,      \* cycles since the slave last offered all it could
          pushed      \* commands the server pushed so far

hardware == <<hwready, words, executed, due, respq, avail>>
busVars == <<vars, wr, rd, bits, hardware, stall, pushed>>

BusInit == /\ Init
           /\ wr = [stage |-> "addr", reg |-> "none"]
           /\ rd = [stage |-> "addr", reg |-> "none"]
           /\ bits = <<>>
           /\ hwready = FALSE /\ words = <<>> /\ executed = <<>>
           /\ due = {} /\ respq = <<>> /\ avail = FALSE
           /\ stall = 0
           /\ pushed = <<>>

(* The server pushes the next command.                                    *)
BusPush == /\ Len(pushed) < MaxCommands
           /\ \E xd \in BOOLEAN, f \in {FALSE, MayFlush} :
                LET c == [tag |-> Len(pushed) + 1, xd |-> xd, flush |-> f]
                IN  Push(c) /\ pushed' = Append(pushed, c)
           /\ UNCHANGED <<wr, rd, bits, hardware, stall>>

BusTick == Tick /\ UNCHANGED <<wr, rd, bits, hardware, stall, pushed>>

-----------------------------------------------------------------------------
(* Hardware behind the registers, between two clock edges.                *)
HwStep == phase = "edge" /\ UNCHANGED <<vars, wr, rd, bits, stall, pushed>>

Unanswered == Cardinality(due) + (IF respq # <<>> THEN 1 ELSE 0)

(* Room for another word. A new command may have to wait for the responses *)
(* of earlier ones to be read; a started command can always be finished.  *)
HwReady == /\ HwStep /\ ~hwready
           /\ words # <<>> \/ Unanswered < HwDepth
           /\ hwready' = TRUE
           /\ UNCHANGED <<words, executed, due, respq, avail>>

HwRespond(t) == /\ HwStep /\ t \in due /\ respq = <<>>
                /\ due' = due \ {t}
                /\ respq' = [i \in 1 .. RespWords |-> <<t, i - 1>>]
                /\ UNCHANGED <<hwready, words, executed, avail>>

HwAvail == /\ HwStep /\ respq # <<>> /\ ~avail
           /\ avail' = TRUE
           /\ UNCHANGED <<hwready, words, executed, due, respq>>

-----------------------------------------------------------------------------
(* The clock edge: handshakes of the ending cycle and their effect.       *)
AwShake == pins.aw # "none" /\ dut.aw_ready
WShake == pins.w # <<>> /\ dut.w_ready
BShake == pins.b /\ dut.b_valid
ArShake == pins.ar # "none" /\ dut.ar_ready
RShake == pins.r /\ dut.r_valid

Garbled(ws) == \E i \in DOMAIN ws : ws[i] # <<ws[1][1], i - 1>>

TakeWord ==
  LET ws == Append(words, bits) IN
  /\ hwready' = FALSE
  /\ IF Len(ws) = CmdWords
     THEN /\ words' = <<>>
          /\ executed' = Append(executed, IF Garbled(ws) THEN 0 ELSE ws[1][1])
          /\ due' = IF ~Garbled(ws) /\ pushed[ws[1][1]].xd THEN due \cup {ws[1][1]} ELSE due
     ELSE words' = ws /\ UNCHANGED <<executed, due>>
  /\ UNCHANGED <<respq, avail>>

WriteRegister ==
  /\ bits' = IF WShake /\ wr.reg = "CMD_BITS" THEN pins.w ELSE bits
  /\ IF WShake /\ wr.reg = "CMD_VALID" /\ hwready THEN TakeWord
     ELSE IF WShake /\ wr.reg = "RESP_READY" /\ avail
     THEN respq' = Tail(respq) /\ avail' = FALSE
          /\ UNCHANGED <<hwready, words, executed, due>>
     ELSE UNCHANGED hardware

ReadRegister(reg) ==
  CASE reg = "CMD_READY"  -> IF hwready THEN One ELSE Zero
    [] reg = "RESP_VALID" -> IF avail THEN One ELSE Zero
    [] reg = "RESP_BITS"  -> IF respq # <<>> THEN Head(respq) ELSE Zero

(* The slave offers the next handshake of each side or holds it back; what *)
(* it has made valid stays valid until taken.                             *)
BusEdge ==
  /\ wr' = IF AwShake THEN [stage |-> "data", reg |-> pins.aw]
           ELSE IF WShake THEN [wr EXCEPT !.stage = "resp"]
           ELSE IF BShake THEN [stage |-> "addr", reg |-> "none"]
           ELSE wr
  /\ rd' = IF ArShake THEN [stage |-> "data", reg |-> pins.ar]
           ELSE IF RShake THEN [stage |-> "addr", reg |-> "none"]
           ELSE rd
  /\ WriteRegister
  /\ \E offerW, offerR \in BOOLEAN :
       LET heldW == dut.b_valid /\ ~BShake
           heldR == dut.r_valid /\ ~RShake
           r_valid == rd'.stage = "data" /\ (offerR \/ heldR)
       IN  /\ (offerW /\ offerR) \/ stall < MaxStall
           /\ stall' = IF offerW /\ offerR THEN 0 ELSE stall + 1
           /\ Edge([aw_ready |-> wr'.stage = "addr" /\ offerW,
                    w_ready |-> wr'.stage = "data" /\ offerW,
                    b_valid |-> wr'.stage = "resp" /\ (offerW \/ heldW),
                    ar_ready |-> rd'.stage = "addr" /\ offerR,
                    r_valid |-> r_valid,
                    r_data |-> IF ~r_valid THEN Zero
                               ELSE IF heldR THEN dut.r_data ELSE ReadRegister(rd'.reg)])
  /\ UNCHANGED pushed

BusNext == \/ BusPush \/ BusTick \/ BusEdge
           \/ HwReady \/ HwAvail \/ \E t \in Tags : HwRespond(t)

BusSpec == BusInit /\ [][BusNext]_busVars

(* The simulation loop keeps ticking (ticks and edges alternate) and the  *)
(* hardware keeps working: it has the time between two edges, again and   *)
(* again, to become ready and to produce and offer a response.            *)
FairBusSpec == /\ BusSpec
               /\ WF_busVars(BusTick \/ BusEdge)
               /\ SF_busVars(HwReady)
               /\ SF_busVars(HwAvail \/ \E t \in Tags : HwRespond(t))

-----------------------------------------------------------------------------
TagsOf(cs) == [i \in DOMAIN cs |-> cs[i].tag]
Fetched == SubSeq(pushed, 1, Len(pushed) - Len(cmds))
XdCount(cs) == Cardinality({i \in DOMAIN cs : cs[i].xd})

(* The hardware assembles exactly the commands the server pushed, in that *)
(* order, from five words each, never mixed; when the command machine is  *)
(* at rest nothing is left half sent.                                     *)
CommandsIntact ==
  /\ Len(executed) <= Len(pushed)
  /\ \A i \in DOMAIN executed : executed[i] = i
  /\ \A i \in DOMAIN words : words[i] = <<cmdbuf, i - 1>>
  /\ ~CmdBusy => executed = TagsOf(Fetched) /\ words = <<>>

(* Every response handed to register_reponse is the complete response of  *)
(* one command that asked for it, and no response is handed over twice.   *)
ResponsesIntact ==
  /\ \A i \in DOMAIN registered : \E t \in DOMAIN pushed :
       pushed[t].xd /\ registered[i] = [w \in 0 .. RespWords - 1 |-> <<t, w>>]
  /\ \A i, j \in DOMAIN registered : i # j => registered[i] # registered[j]

(* cmds_inflight is the number of commands taken from the queue whose     *)
(* response has not been registered.                                      *)
InflightExact == cmds_inflight = XdCount(Fetched) - Len(registered)

(* Refinement: a command is with the accelerator from the fetch to        *)
(* register_reponse.                                                      *)
RegisteredTags == [i \in DOMAIN registered |-> registered[i][0][1]]
Bus == INSTANCE FrontBus WITH
  Commands <- [tag : Tags, xd : BOOLEAN, flush : BOOLEAN],
  queue <- cmds,
  working <- {Fetched[i].tag : i \in {j \in DOMAIN Fetched : Fetched[j].xd}}
               \ {RegisteredTags[i] : i \in DOMAIN RegisteredTags},
  registered <- RegisteredTags,
  ended <- kill_sig

(* The controller, the bus and the accelerator's registers implement       *)
(* FrontBus: commands are taken in order and every response asked for is  *)
(* registered once, in the end, even when the hardware accepts no command *)
(* until earlier responses are read, unless a FLUSH ends the simulation.  *)
ImplementsFrontBus == Bus!Spec
=============================================================================
