----------------------------- MODULE KriaRuntime -----------------------------
(***************************************************************************)
(* The runtime on a Kria board: FpgaRuntime and the data server of that   *)
(* build (data_server.cc), which moves no data but registers and flushes  *)
(* coherent memory segments through the FPGA's coherence manager. It is a *)
(* third thread that spins on MMIO with bus_lock held. How requests come  *)
(* in, and that one may come too early to be noticed, is the subject of   *)
(* DataServer: here the thread draws its next one directly. The coherence *)
(* manager is external.                                                   *)
(***************************************************************************)
EXTENDS FpgaRuntime

CONSTANTS HAS_COHERENCE,   \* segments the coherence manager can hold
          DataOps,         \* operations the clients ask for
          MaxDataOps       \* bound: requests to the data server

ASSUME KriaAssumption == HAS_COHERENCE \in Nat \ {0} /\ MaxDataOps \in Nat

(* What available_ids.back() may yield on an empty vector: any uint16_t;  *)
(* one that is no ID stands for all the others.                           *)
AnyId == 0 .. HAS_COHERENCE
CoherenceOps == {"INVALIDATE_REGION", "CLEAN_INVALIDATE_REGION",
                 "RELEASE_COHERENCE_BARRIER", "ADD_TO_COHERENCE_MANAGER"}
Unsupported == {"ALLOC", "MOVE_TO_FPGA", "MOVE_FROM_FPGA"}
NoRequest == [op |-> "none", arg |-> 0, arg2 |-> 0]

VARIABLES
  dpc, request, did, word, available_ids,  \* data server thread
  served,                                  \* answers: [op, arg, arg2, id]
  cohready, heard, manager,                \* coherence manager
  dops

data == <<dpc, request, did, word, available_ids, served, dops>>
coherence == <<cohready, heard, manager>>
kvars == <<vars, data, coherence>>

KInit == /\ Init
         /\ dpc = "stall" /\ request = NoRequest /\ did = 0 /\ word = 0
         /\ available_ids = [i \in 1 .. HAS_COHERENCE |-> i - 1]
         /\ served = <<>> /\ dops = 0
         /\ cohready = FALSE /\ heard = <<>> /\ manager = <<>>

-----------------------------------------------------------------------------
(* Data server thread. *)
DataAt(from, to) == Alive /\ dpc = from /\ dpc' = to

(* The IDs clients were given: the resp_id of every ADD answered.         *)
Given == {served[i].id : i \in {j \in DOMAIN served : served[j].op = "ADD_TO_COHERENCE_MANAGER"}}

(* The two arguments of request n, where they are no ID.                  *)
Region(n) == HAS_COHERENCE + 2 * n
Length(n) == HAS_COHERENCE + 2 * n + 1

(* The next request: the coherence operations other than ADD pass an ID a *)
(* client was given in op_argument.                                       *)
DataWoken ==
  /\ DataAt("stall", "handle")
  /\ dops < MaxDataOps /\ dops' = dops + 1
  /\ \E op \in DataOps :
       \E a \in IF op \in CoherenceOps \ {"ADD_TO_COHERENCE_MANAGER"} THEN Given
                ELSE {Region(dops)} :
         request' = [op |-> op, arg |-> a, arg2 |-> Length(dops)]
  /\ UNCHANGED <<vars, did, word, available_ids, served, coherence>>

Serve(id) == served' = Append(served, [op |-> request.op, arg |-> request.arg,
                                       arg2 |-> request.arg2, id |-> id])

(* ALLOC and the copies only print a complaint; the client is answered as *)
(* if they were done.                                                     *)
DataUnsupported ==
  /\ DataAt("handle", "stall")
  /\ request.op \in Unsupported
  /\ UNCHANGED <<vars, request, did, word, available_ids, served, dops, coherence>>

(* FREE: nothing is ever mapped in this build, so get_mapping throws and   *)
(* the process is terminated.                                             *)
DataFree ==
  /\ DataAt("handle", "dead")
  /\ request.op = "FREE"
  /\ main_pc' = "exit"
  /\ UNCHANGED <<server, poller, main_lock, bus_lock, cmdserverlock, in_flight, answered,
                 processes_waiting, posted, fpga, request, did, word, available_ids, served,
                 dops, coherence>>

(* Fault: the ID stays on the list. *)
IdsKept == available_ids

IdsLeft == SubSeq(available_ids, 1, Len(available_ids) - 1)

(* The ID of a coherence command: the last one of available_ids for a new *)
(* segment (nobody checks that there is one, and none is ever put back),  *)
(* else the request's. The check id < 0 of an unsigned never fires.       *)
DataId ==
  /\ DataAt("handle", "bus")
  /\ request.op \in CoherenceOps
  /\ IF request.op = "ADD_TO_COHERENCE_MANAGER"
     THEN IF available_ids = <<>>
          THEN did' \in AnyId /\ UNCHANGED available_ids
          ELSE did' = available_ids[Len(available_ids)] /\ available_ids' = IdsLeft
     ELSE did' = request.arg /\ UNCHANGED available_ids
  /\ UNCHANGED <<vars, request, word, served, dops, coherence>>

DataTakeBus ==
  /\ DataAt("bus", "words")
  /\ bus_lock = Nobody /\ bus_lock' = "data"
  /\ word' = 0
  /\ UNCHANGED <<server, poller, main, cmdserverlock, in_flight, answered,
                 processes_waiting, posted, fpga, request, did, available_ids, served, dops,
                 coherence>>

(* The five words of a command: two halves of each argument, then the     *)
(* operation with the ID.                                                 *)
Words(r, id) == << <<r.arg, 0>>, <<r.arg, 1>>, <<r.arg2, 0>>, <<r.arg2, 1>>, <<r.op, id>> >>

(* Spin until COHERENCE_READY, then write one word.                       *)
DataWord ==
  /\ DataAt("words", "words")
  /\ word < 5
  /\ cohready /\ cohready' = FALSE
  /\ word' = word + 1
  /\ LET w == Append(heard, Words(request, did)[word + 1])
     IN  IF Len(w) = 5 THEN heard' = <<>> /\ manager' = Append(manager, w)
                       ELSE heard' = w /\ UNCHANGED manager
  /\ UNCHANGED <<vars, request, did, available_ids, served, dops>>

(* Fault: bus_lock is not given back. *)
DataGiveBusKeeps ==
  /\ DataAt("words", "stall")
  /\ word = 5
  /\ Serve(did)
  /\ UNCHANGED <<vars, request, did, word, available_ids, dops, coherence>>

(* Unlock the bus and answer the client with the ID.                      *)
DataGiveBus ==
  /\ DataAt("words", "stall")
  /\ word = 5
  /\ bus_lock' = Nobody
  /\ Serve(did)
  /\ UNCHANGED <<server, poller, main, cmdserverlock, in_flight, answered,
                 processes_waiting, posted, fpga, request, did, word, available_ids, dops,
                 coherence>>

(* The coherence manager takes the next word in the end.                  *)
CoherenceReady ==
  /\ Alive /\ ~cohready /\ cohready' = TRUE
  /\ UNCHANGED <<vars, data, heard, manager>>

-----------------------------------------------------------------------------
DataStep == \/ DataWoken \/ DataUnsupported \/ DataFree \/ DataId \/ DataTakeBus
            \/ DataWord \/ DataGiveBus

KNext == \/ Next /\ UNCHANGED <<data, coherence>>
         \/ DataStep
         \/ CoherenceReady

KSpec == KInit /\ [][KNext]_kvars

(* As in FpgaRuntime; the data server's thread runs like the others.      *)
KFairSpec ==
  /\ KSpec /\ Fairness
  /\ SF_kvars(DataStep /\ dpc # "stall") /\ WF_kvars(CoherenceReady)

-----------------------------------------------------------------------------
(* What the clients were told and what the coherence manager was told     *)
(* agree: every answered request is exactly one command of the manager,   *)
(* whole, in order and with the ID its client was given, and as long as   *)
(* available_ids lasts every new segment has an ID of its own. (IDs are   *)
(* never put back, so the HAS_COHERENCE + 1st ADD reads past the end.)    *)
CoherenceIntact ==
  /\ Len(manager) = Len(served) + (IF dpc = "words" /\ word = 5 THEN 1 ELSE 0)
  /\ \A i \in DOMAIN served : manager[i] = Words(served[i], served[i].id)
  /\ LET adds == {i \in DOMAIN served : served[i].op = "ADD_TO_COHERENCE_MANAGER"}
     IN  Cardinality(adds) <= HAS_COHERENCE =>
           \A i, j \in adds : served[i].id < HAS_COHERENCE /\ (served[i].id = served[j].id => i = j)

(* Every request the data server took is answered, unless the process ends *)
(* or the command server spins with bus_lock held for ever (BusDeadlock): *)
(* coherence commands need the bus too.                                   *)
DataAnsweredUnlessDeadlocked ==
  []<>(dpc = "stall") \/ <>[](BusDeadlock \/ main_pc = "exit")
=============================================================================
