------------------------------ MODULE DataServer ------------------------------
(***************************************************************************)
(* The data server (data_server.cc): clients allocate and free memory     *)
(* segments and copy them to and from the accelerator. What a copy does   *)
(* depends on the build:                                                  *)
(*   "dma"  simulation with DMA: the copy is cut into bursts of random    *)
(*          length; the server thread hands each burst to the simulation  *)
(*          thread through the dma_* globals (under dma_lock) and waits   *)
(*          on dma_wait_lock, and the simulation thread moves it over the *)
(*          accelerator's DMA port, one handshake per cycle (tick.cc);    *)
(*   "sim"  simulation without: the accelerator works on the host memory  *)
(*          itself, nothing is copied;                                    *)
(*   "F1"   AWS with XDMA, one blocking call that may fail;               *)
(*   "F2"   AWS without XDMA: the wrappers do nothing (fpga_utils.c).     *)
(* Kria is the subject of KriaRuntime.                                    *)
(*                                                                         *)
(* Addresses and lengths count 64-byte beats; what a beat holds is named  *)
(* by where it comes from. The client library, the device allocator, XDMA *)
(* and the accelerator's DMA port are external. A copy may have a tail    *)
(* shorter than a beat. A client asks only for memory there is.           *)
(***************************************************************************)
EXTENDS Integers, Sequences, FiniteSets

CONSTANTS Clients,
          Memory,      \* device addresses
          Sizes,       \* lengths of allocations and copies
          MaxBurst,    \* 64: bound of a burst's random length
          MaxOffset,   \* how far into a segment a client's copy may start
          MaxOps,      \* bound: requests sent
          Builds       \* builds of the runtime

ASSUME DataAssumption ==
  /\ "nobody" \notin Clients
  /\ Memory \subseteq Nat /\ Sizes \subseteq Nat \ {0}
  /\ MaxBurst \in Nat \ {0} /\ MaxOps \in Nat /\ MaxOffset \in Nat
  /\ Builds \subseteq {"dma", "sim", "F1", "F2"} /\ Builds # {}

Nobody == "nobody"
Moves == {"MOVE_TO_FPGA", "MOVE_FROM_FPGA"}
NoRequest == [op |-> "none", addr |-> 0, amt |-> 0, tail |-> FALSE, host |-> 0]
NoDma == [valid |-> FALSE, in_progress |-> FALSE, write |-> FALSE, len |-> 0,
          ptr |-> <<0, 0>>, fpga |-> 0]

VARIABLES
  req, server_mut, data_cmd_recieve_resp_lock,   \* data_server_file
  spc, amt_left, ptr1, ptr2,                     \* server thread
  mappings,                                      \* at.mappings
  dma, dma_wait_lock, dma_txprogress, dma_txlength,
  port,                                          \* the accelerator's DMA port
  moved,                                         \* beats of the current copy
  send_lock, cpc, segs, ops,                     \* client library
  build,                                         \* which build this is
  fate,                                          \* "running", or why the process ended
  junk                                           \* host memory with undefined contents

file == <<req, server_mut, data_cmd_recieve_resp_lock>>
server == <<spc, amt_left, ptr1, ptr2, mappings>>
transfer == <<dma, dma_txprogress, dma_txlength, port, moved>>
client == <<send_lock, cpc, segs, ops>>
host == <<build, fate, junk>>
vars == <<file, server, transfer, dma_wait_lock, client, host>>

Init == /\ req = NoRequest
        /\ server_mut = FALSE /\ data_cmd_recieve_resp_lock = TRUE
        /\ build \in Builds /\ fate = "running" /\ junk = {}
        /\ spc = (IF build = "F1" THEN "sanity" ELSE "start")
        /\ amt_left = 0 /\ ptr1 = <<0, 0>> /\ ptr2 = 0
        /\ mappings = {}
        /\ dma = NoDma /\ dma_wait_lock = FALSE
        /\ dma_txprogress = 0 /\ dma_txlength = 0
        /\ port = [stage |-> "idle", addr |-> 0, len |-> 0, beats |-> 0]
        /\ moved = <<>>
        /\ send_lock = Nobody /\ cpc = [c \in Clients |-> "idle"]
        /\ segs = [c \in Clients |-> {}] /\ ops = 0

Alive == fate = "running"

-----------------------------------------------------------------------------
Span(m) == m.addr .. m.addr + m.len - 1
Places(n) == {a \in Memory : /\ a .. a + n - 1 \subseteq Memory
                             /\ \A m \in mappings : Span(m) \cap (a .. a + n - 1) = {}}

(* Clients. A segment is known by its device address, its length and the  *)
(* host memory (shared file) behind it.                                   *)
Requests(c) ==
  {[op |-> "ALLOC", addr |-> 0, amt |-> n, tail |-> FALSE, host |-> ops + 1] :
     n \in {k \in Sizes : Places(k) # {}}}
    \cup {[op |-> "FREE", addr |-> s.addr, amt |-> 0, tail |-> FALSE, host |-> s.host] :
            s \in segs[c]}
    \cup UNION {{r \in [op : Moves, addr : {s.addr + k : k \in 0 .. MaxOffset},
                         amt : Sizes, tail : BOOLEAN, host : {s.host}] :
                  r.addr + r.amt + (IF r.tail THEN 1 ELSE 0) <= s.addr + s.len} : s \in segs[c]}

(* Write a request. A segment that is given up is not used again. Clients *)
(* find the file initialised (line 97), but nothing makes them wait until *)
(* the server has first locked server_mut (line 146).                     *)
ClientWrite(c) ==
  /\ send_lock = Nobody /\ cpc[c] = "idle" /\ ops < MaxOps
  /\ send_lock' = c /\ ops' = ops + 1
  /\ cpc' = [cpc EXCEPT ![c] = "wake"]
  /\ \E r \in Requests(c) :
       /\ req' = r
       /\ segs' = IF r.op = "FREE"
                  THEN [segs EXCEPT ![c] = {s \in @ : s.addr # r.addr}] ELSE segs
  /\ moved' = <<>>
  /\ UNCHANGED <<server_mut, data_cmd_recieve_resp_lock, server, dma, dma_txprogress,
                 dma_txlength, port, dma_wait_lock, host>>

ClientWake(c) ==
  /\ cpc[c] = "wake" /\ cpc' = [cpc EXCEPT ![c] = "ack"]
  /\ server_mut' = FALSE
  /\ UNCHANGED <<req, data_cmd_recieve_resp_lock, server, transfer, dma_wait_lock,
                 send_lock, segs, ops, host>>

(* Wait for the answer; an allocation's address is in op_argument.        *)
ClientAck(c) ==
  /\ cpc[c] = "ack" /\ cpc' = [cpc EXCEPT ![c] = "idle"]
  /\ ~data_cmd_recieve_resp_lock /\ data_cmd_recieve_resp_lock' = TRUE
  /\ send_lock' = Nobody
  /\ segs' = IF req.op = "ALLOC"
             THEN [segs EXCEPT ![c] = @ \cup {[addr |-> req.addr, len |-> req.amt, host |-> req.host]}]
             ELSE segs
  /\ UNCHANGED <<req, server_mut, server, transfer, dma_wait_lock, ops, host>>

-----------------------------------------------------------------------------
(* Server thread. *)
Step(from, to) == Alive /\ spc = from /\ spc' = to

(* The process ends: an uncaught exception, or exit().                    *)
End(why) == Alive /\ fate' = why

(* F1 only, before any request is looked at: write a pattern to the       *)
(* device, read it back and compare. Any of the three may fail.           *)
SanityPasses ==
  /\ Step("sanity", "start")
  /\ UNCHANGED <<file, amt_left, ptr1, ptr2, mappings, transfer, dma_wait_lock, client, host>>

SanityFails ==
  /\ spc = "sanity" /\ End("sanity")
  /\ UNCHANGED <<file, server, transfer, dma_wait_lock, client, build, junk>>

(* The first lock of server_mut. It swallows the wake-up of a client that *)
(* was quicker.                                                           *)
ServerStart ==
  /\ Step("start", "first")
  /\ ~server_mut /\ server_mut' = TRUE
  /\ UNCHANGED <<req, data_cmd_recieve_resp_lock, amt_left, ptr1, ptr2, mappings,
                 transfer, dma_wait_lock, client, host>>

(* The first request: dma_wait_lock is taken only now, where there is one. *)
ServerFirst ==
  /\ Step("first", "handle")
  /\ ~server_mut /\ server_mut' = TRUE
  /\ ~dma_wait_lock /\ dma_wait_lock' = (build = "dma")
  /\ UNCHANGED <<req, data_cmd_recieve_resp_lock, amt_left, ptr1, ptr2, mappings,
                 transfer, client, host>>

ServerWoken ==
  /\ Step("stall", "handle")
  /\ ~server_mut /\ server_mut' = TRUE
  /\ UNCHANGED <<req, data_cmd_recieve_resp_lock, amt_left, ptr1, ptr2, mappings,
                 transfer, dma_wait_lock, client, host>>

(* ALLOC: the device allocator picks a free range; the device address is  *)
(* the answer. The host file is taken to be new: its name is a random     *)
(* number, and that two names are the same (lines 162-163 open without    *)
(* O_EXCL, so the segments would share their memory) is left out.         *)
ServerAlloc ==
  /\ Step("handle", "reply")
  /\ req.op = "ALLOC"
  /\ \E a \in Places(req.amt) :
       /\ mappings' = mappings \cup {[addr |-> a, len |-> req.amt, host |-> req.host]}
       /\ req' = [req EXCEPT !.addr = a]
  /\ UNCHANGED <<server_mut, data_cmd_recieve_resp_lock, amt_left, ptr1, ptr2,
                 transfer, dma_wait_lock, client, host>>

(* get_mapping: the mapping that starts at a; without one the server dies. *)
MappingAt(a) == {m \in mappings : m.addr = a}
(* translate: host memory and offset of device address a.                 *)
Translate(a) == LET m == CHOOSE m \in mappings : a \in Span(m)
                IN  <<m.host, a - m.addr>>

(* Fault: every mapping from the address on is removed. *)
ServerFreeAbove ==
  /\ Step("handle", "reply")
  /\ req.op = "FREE" /\ MappingAt(req.addr) # {}
  /\ mappings' = {m \in mappings : m.addr < req.addr}
  /\ UNCHANGED <<file, amt_left, ptr1, ptr2, transfer, dma_wait_lock, client, host>>

ServerFree ==
  /\ Step("handle", "reply")
  /\ req.op = "FREE" /\ MappingAt(req.addr) # {}
  /\ mappings' = mappings \ MappingAt(req.addr)
  /\ UNCHANGED <<file, amt_left, ptr1, ptr2, transfer, dma_wait_lock, client, host>>

ServerMove ==
  /\ Step("handle", "chunk")
  /\ build = "dma" /\ req.op \in Moves /\ MappingAt(req.addr) # {}
  /\ amt_left' = req.amt
  /\ ptr1' = Translate(req.addr) /\ ptr2' = req.addr
  /\ UNCHANGED <<file, mappings, transfer, dma_wait_lock, client, host>>

(* Without DMA only the address is looked up.                             *)
ServerMoveNothing ==
  /\ Step("handle", "reply")
  /\ build = "sim" /\ req.op \in Moves /\ MappingAt(req.addr) # {}
  /\ UNCHANGED <<file, amt_left, ptr1, ptr2, mappings, transfer, dma_wait_lock, client, host>>

(* get_mapping finds no mapping that starts at the address and throws.    *)
ServerThrows ==
  /\ spc = "handle" /\ MappingAt(req.addr) = {}
  /\ req.op = "FREE" \/ (req.op \in Moves /\ build \in {"dma", "sim"})
  /\ End("throw")
  /\ UNCHANGED <<file, server, transfer, dma_wait_lock, client, build, junk>>

(* Host memory of the current copy, beat by beat, on F1 and F2.           *)
HostBeats == {<<Translate(req.addr)[1], Translate(req.addr)[2] + k>> : k \in 0 .. req.amt - 1}
(* The wrappers around the XDMA library return success without it.        *)
UsesXdma == build = "F1"
Mapped(a) == \E m \in mappings : a \in Span(m)

(* The XDMA call succeeded (on F2 it does nothing and says so). A read    *)
(* goes through a fresh buffer: on F2 its undefined contents end up in    *)
(* the client's segment.                                                  *)
XdmaMove ==
  /\ Step("handle", "reply")
  /\ build \in {"F1", "F2"} /\ req.op \in Moves /\ Mapped(req.addr)
  /\ moved' = IF UsesXdma
              THEN [i \in 1 .. req.amt |->
                      <<req.addr + i - 1,
                        <<Translate(req.addr)[1], Translate(req.addr)[2] + i - 1>>>>]
              ELSE moved
  /\ junk' = IF req.op = "MOVE_TO_FPGA" THEN junk
             ELSE IF UsesXdma THEN junk \ HostBeats ELSE junk \cup HostBeats
  /\ UNCHANGED <<file, amt_left, ptr1, ptr2, mappings, dma, dma_txprogress, dma_txlength, port,
                 dma_wait_lock, client, build, fate>>

(* The XDMA call failed: a read's buffer is copied to the client's        *)
(* segment all the same, then the process exits.                          *)
XdmaFails ==
  /\ spc = "handle" /\ End("exit")
  /\ UsesXdma /\ req.op \in Moves /\ Mapped(req.addr)
  /\ junk' = IF req.op = "MOVE_TO_FPGA" THEN junk ELSE junk \cup HostBeats
  /\ UNCHANGED <<file, server, transfer, dma_wait_lock, client, build>>

(* max(1, rand() % min(64, beats left)) *)
BurstLengths(left) ==
  LET m == IF left < MaxBurst THEN left ELSE MaxBurst
  IN  {IF r = 0 THEN 1 ELSE r : r \in 0 .. m - 1}

(* Hand the next burst to the simulation, under dma_lock. The pointers    *)
(* move on when it is done (ServerBurstDone).                             *)
ServerBurst ==
  /\ Step("chunk", "dma wait")
  /\ amt_left > 0
  /\ \E n \in BurstLengths(amt_left) :
       /\ dma' = [valid |-> TRUE, in_progress |-> FALSE, write |-> req.op = "MOVE_TO_FPGA",
                  len |-> n, ptr |-> ptr1, fpga |-> ptr2]
       /\ amt_left' = amt_left - n
  /\ UNCHANGED <<file, ptr1, ptr2, mappings, dma_txprogress, dma_txlength, port, moved,
                 dma_wait_lock, client, host>>

(* Fault: the server does not wait for the burst. *)
BurstFinishedAlways == TRUE

BurstFinished == ~dma_wait_lock

(* Fault: the device address is not moved on. *)
SameAddress == ptr2

NextAddress == ptr2 + dma.len

ServerBurstDone ==
  /\ Step("dma wait", "chunk")
  /\ BurstFinished /\ dma_wait_lock' = TRUE
  /\ ptr1' = <<ptr1[1], ptr1[2] + dma.len>> /\ ptr2' = NextAddress
  /\ UNCHANGED <<file, amt_left, mappings, transfer, client, host>>

(* Less than a beat is left: rand() % min(64, amt_left >> 6) divides by    *)
(* zero, and the signal ends the process.                                 *)
ServerDivides ==
  /\ spc = "chunk" /\ amt_left = 0 /\ req.tail
  /\ End("signal")
  /\ UNCHANGED <<file, server, transfer, dma_wait_lock, client, build, junk>>

ServerMoved ==
  /\ Step("chunk", "reply")
  /\ amt_left = 0 /\ ~req.tail
  /\ UNCHANGED <<file, amt_left, ptr1, ptr2, mappings, transfer, dma_wait_lock, client, host>>

(* Fault: the client is not let go. *)
ServerReplySilent ==
  /\ Step("reply", "stall")
  /\ data_cmd_recieve_resp_lock' = data_cmd_recieve_resp_lock
  /\ UNCHANGED <<req, server_mut, amt_left, ptr1, ptr2, mappings, transfer,
                 dma_wait_lock, client, host>>

ServerReply ==
  /\ Step("reply", "stall")
  /\ data_cmd_recieve_resp_lock' = FALSE
  /\ UNCHANGED <<req, server_mut, amt_left, ptr1, ptr2, mappings, transfer,
                 dma_wait_lock, client, host>>

-----------------------------------------------------------------------------
(* Simulation thread: the DMA part of one tick, under dma_lock. ready is  *)
(* the port's aw_ready/ar_ready, beat its w_ready/r_valid, resp its       *)
(* b_valid.                                                               *)
DmaKeep == Alive /\ UNCHANGED <<file, server, client, host>>

(* The beat that crosses the port: device address and host memory.        *)
Beat(p, k) == <<p.addr + p.beats, <<dma.ptr[1], dma.ptr[2] + k>>>>

(* Move at most one data beat, or take the write response; the last one   *)
(* wakes the server.                                                      *)
DmaData(p, k, len, beat, resp) ==
  LET moves == beat /\ k < len
      k2 == IF moves THEN k + 1 ELSE k
      done == IF dma.write THEN k = len /\ resp ELSE moves /\ k2 = len
  IN  /\ moved' = IF moves THEN Append(moved, Beat(p, k)) ELSE moved
      /\ dma_txprogress' = k2 /\ dma_txlength' = len
      /\ port' = IF done THEN [p EXCEPT !.stage = "idle"]
                 ELSE IF moves THEN [p EXCEPT !.beats = @ + 1] ELSE p
      /\ IF done
         THEN dma' = [dma EXCEPT !.valid = FALSE, !.in_progress = FALSE] /\ dma_wait_lock' = FALSE
         ELSE dma' = [dma EXCEPT !.in_progress = TRUE] /\ UNCHANGED dma_wait_lock

(* A new burst: offer its address; once it is taken, data may move in the *)
(* same cycle (a read burst's data comes later).                          *)
DmaStart(ready, beat) ==
  /\ dma.valid /\ ~dma.in_progress
  /\ IF ready
     THEN DmaData([stage |-> "data", addr |-> dma.fpga, len |-> dma.len, beats |-> 0],
                  0, dma.len, beat /\ dma.write, FALSE)
     ELSE /\ dma_txprogress' = 0 /\ dma_txlength' = dma.len
          /\ UNCHANGED <<dma, dma_wait_lock, port, moved>>
  /\ DmaKeep

(* The port answers a write burst only when it has all of it.             *)
DmaContinue(beat, resp) ==
  /\ dma.in_progress
  /\ resp => port.beats = port.len
  /\ DmaData(port, dma_txprogress, dma_txlength, beat, resp)
  /\ DmaKeep

(* The simulation compares what a read returns with the host memory and   *)
(* exits when they differ.                                                *)
DmaMismatch ==
  /\ dma.in_progress /\ ~dma.write /\ dma_txprogress < dma_txlength
  /\ End("exit")
  /\ UNCHANGED <<file, server, transfer, dma_wait_lock, client, build, junk>>

DmaTick == \E ready, beat, resp \in BOOLEAN : DmaStart(ready, beat) \/ DmaContinue(beat, resp)

-----------------------------------------------------------------------------
ServerStep == \/ SanityPasses \/ SanityFails \/ ServerStart \/ ServerFirst \/ ServerWoken
              \/ ServerAlloc \/ ServerFree \/ ServerMove \/ ServerMoveNothing \/ ServerThrows
              \/ XdmaMove \/ XdmaFails \/ ServerBurst \/ ServerBurstDone \/ ServerDivides
              \/ ServerMoved \/ ServerReply

Next == \/ \E c \in Clients : ClientWrite(c) \/ ClientWake(c) \/ ClientAck(c)
        \/ ServerStep
        \/ DmaTick \/ DmaMismatch

Spec == Init /\ [][Next]_vars

(* Threads run, and the DMA port takes an address, moves a beat or        *)
(* answers in the end (of the three at most one makes a difference).      *)
FairSpec == /\ Spec
            /\ \A c \in Clients : WF_vars(ClientWake(c) \/ ClientAck(c))
            /\ WF_vars(ServerStep)
            /\ WF_vars(\/ DmaStart(TRUE, TRUE) \/ DmaContinue(TRUE, FALSE)
                       \/ DmaContinue(FALSE, TRUE))

-----------------------------------------------------------------------------
(* The segment of the requesting client that holds device address a.      *)
SegmentAt(a) == CHOOSE g \in segs[send_lock] : a \in Span(g)

(* When the server answers a copy, every beat of it has crossed the port  *)
(* (or XDMA) exactly once, in order, between the right device address and *)
(* the host memory of the client's segment, however the copy was cut up;  *)
(* without DMA nothing was copied at all. And while the process runs no   *)
(* client's memory holds anything but what a copy put there: a failed     *)
(* read that spoiled a segment is never answered. The exception is F2,    *)
(* where MOVE_FROM_FPGA fills the segment with an unwritten buffer.       *)
CopyExact ==
  /\ spc = "reply" /\ req.op \in Moves =>
       moved = IF build \in {"sim", "F2"} THEN <<>>
               ELSE [i \in 1 .. req.amt |->
                       <<req.addr + i - 1,
                         <<req.host, req.addr - SegmentAt(req.addr).addr + i - 1>>>>]
  /\ Alive /\ build # "F2" => junk = {}

(* A burst under way is never changed: dma_wait_lock keeps the server off *)
(* the dma_* globals until the simulation is done with them, and the port *)
(* is told the length the simulation counts to.                           *)
BurstStable ==
  [][(dma.valid /\ dma'.valid) =>
       (dma' = [dma EXCEPT !.in_progress = dma'.in_progress]
         /\ (dma.in_progress => (dma'.in_progress /\ port'.len = dma_txlength')))]_vars

(* dma_wait_lock is opened only for a server that waits (or will wait)    *)
(* for this very burst, so no wake-up is lost or kept for a later burst.  *)
WakeUpMatched == build = "dma" /\ ~dma_wait_lock /\ spc \notin {"start", "first"}
                   => spc = "dma wait" /\ ~dma.valid

(* Every segment a client holds is mapped, to its own host memory, and no *)
(* two mappings overlap: get_mapping and translate find it and nothing    *)
(* else. Two kinds of request only end a simulation: a copy that starts   *)
(* inside a segment, which translate could handle but get_mapping, called *)
(* just to print the address (data_server.cc:221, 250), cannot, and with  *)
(* DMA a copy that is no whole number of beats (line 231).                *)
SegmentsMapped ==
  /\ \A c \in Clients : segs[c] \subseteq mappings
  /\ \A m, n \in mappings : m # n => Span(m) \cap Span(n) = {}
  /\ fate \in {"throw", "signal"} =>
       /\ build \in {"dma", "sim"}
       /\ \E s \in segs[send_lock] :
            req.addr \in Span(s) /\ (req.addr # s.addr \/ (build = "dma" /\ req.tail))

(* Client c's unlock of server_mut came before the server's first lock    *)
(* (data_server.cc:146), which swallowed it: the server stalls at line    *)
(* 147 although c waits for it, and no other client gets to ask.          *)
WakeUpLost(c) == spc = "first" /\ server_mut /\ cpc[c] = "ack"

(* Every request is answered, unless the process has ended or the wake-up *)
(* was lost, which can happen to the very first request only.             *)
RequestsAnswered ==
  \A c \in Clients :
    (cpc[c] = "wake") ~> (cpc[c] = "idle" \/ ~Alive \/ (WakeUpLost(c) /\ ops = 1))
=============================================================================
