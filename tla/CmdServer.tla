------------------------------ MODULE CmdServer ------------------------------
(***************************************************************************)
(* The command server of the simulation build (src/src/cmd_server.cc):    *)
(* user processes hand commands to the server thread through the shared   *)
(* file cmd_server_file, the server queues them for the simulation thread *)
(* and remembers, per (system, core) pair, which response slot each one   *)
(* waits on; the simulation thread takes commands from the queue and      *)
(* hands responses back through register_reponse.                         *)
(*                                                                         *)
(* Mutexes are used as in the code: cmdserverlock is an ordinary lock;    *)
(* server_mut, cmd_recieve_server_resp_lock and wait_for_response[id] are *)
(* binary semaphores (locked by the waiter, unlocked by somebody else).   *)
(* The user's side (the beethoven library), the accelerator and the       *)
(* Verilog simulators are not in this repository: they are modelled from  *)
(* how this code uses them. How the simulation can be stopped differs     *)
(* between the front ends: Verilator's own loop watches kill_sig, VCS is  *)
(* told to finish through vpi_control, Icarus is never told.              *)
(***************************************************************************)
EXTENDS Integers, Sequences, FiniteSets

CONSTANTS
  Clients,         \* user processes
  Pairs,           \* system_core_pair values a response may carry
  Cores,           \* the pairs that are cores of the accelerator
  NIds,            \* response slots (entries of free_list)
  MaxCmds,         \* bound: commands each client sends
  MaxOutstanding,  \* response handles a client holds at once
  MayQuit,         \* may a client call shutdown()?
  MayFlush,        \* may a client send ROCC_OP_FLUSH?
  MaxBad,          \* bound: spurious responses the accelerator produces
  MayBeEarly,      \* may a client run before the server has announced itself?
  FrontEnds        \* simulators the runtime may be built for

NoId == 2^16 - 1                      \* 0xffff, cmd_server.cc:111

(* Slots are numbered from 0, and none of them is NoId.                   *)
ASSUME SlotsAreNumbered == NIds \in 1 .. NoId

(* The server takes a slot without looking whether one is left, and takes *)
(* one more when it re-reads the last command on its way out.             *)
ASSUME IdsSuffice ==
  /\ MaxCmds \in Nat /\ MaxBad \in Nat
  /\ MaxOutstanding \in Nat \ {0}
  /\ IsFiniteSet(Clients)
  /\ Cardinality(Clients) * MaxOutstanding < NIds
ASSUME ClientsAreNamed == "nobody" \notin Clients
ASSUME CoresArePairs == Cores \subseteq Pairs /\ Cores # {}
ASSUME SwitchesAreBoolean ==
  MayQuit \in BOOLEAN /\ MayFlush \in BOOLEAN /\ MayBeEarly \in BOOLEAN
ASSUME KnownFrontEnds == FrontEnds \subseteq {"verilator", "vcs", "icarus"} /\ FrontEnds # {}

Ids == 0 .. NIds - 1
Tags == Clients \X (1 .. MaxCmds)
NoTag == <<>>
Commands == [tag : Tags, pair : Pairs, xd : BOOLEAN, flush : BOOLEAN]
Nobody == "nobody"

VARIABLES
  \* cmd_server_file, shared by the server and the clients
  cmd, quit, free_list, free_list_idx, pthread_wait_id, responses,
  wait_for_response, server_mut, cmd_recieve_server_resp_lock,
  \* globals of the runtime process
  cmdserverlock, cmds, in_flight, kill_sig,
  \* the build, whether the simulator was told to finish, and (history)
  \* whether the simulation was waiting for cmdserverlock on ServerQuit
  frontend, finish, caught,
  \* server thread: program counter and the local id
  spc, id,
  \* simulation thread: program counter and the response it carries
  mpc, rsp,
  \* accelerator: per core the commands whose response is still due
  core, bad,
  \* clients (library): who holds the send lock, control state, handles
  send_lock, cpc, sent, handles, got

file == <<cmd, quit, free_list, free_list_idx, pthread_wait_id, responses,
          wait_for_response, server_mut, cmd_recieve_server_resp_lock>>
globals == <<cmdserverlock, cmds, in_flight, kill_sig, frontend, finish, caught>>
server == <<spc, id>>
sim == <<mpc, rsp, core, bad>>
client == <<send_lock, cpc, sent, handles, got>>
vars == <<file, globals, server, sim, client>>

-----------------------------------------------------------------------------
(* cmd_server_file::init: every slot is free, every semaphore is taken,   *)
(* server_mut is open so that the server can lock it once for itself.     *)
InitFile == /\ cmd \in [tag : {NoTag}, pair : Pairs, xd : {FALSE}, flush : {FALSE}]
            /\ cmd.pair = CHOOSE p \in Pairs : TRUE
            /\ quit = FALSE
            /\ free_list = [i \in Ids |-> i]
            /\ free_list_idx = NIds - 1
            /\ pthread_wait_id = NoId
            /\ responses = [i \in Ids |-> NoTag]
            /\ wait_for_response = [i \in Ids |-> TRUE]
            /\ server_mut = FALSE
            /\ cmd_recieve_server_resp_lock = TRUE

Init == /\ InitFile
        /\ cmdserverlock = Nobody
        /\ cmds = <<>>
        /\ in_flight = [p \in {} |-> <<>>]
        /\ kill_sig = FALSE
        /\ frontend \in FrontEnds /\ finish = FALSE /\ caught = FALSE
        /\ spc = "start" /\ id = NoId
        /\ mpc = "loop" /\ rsp = [tag |-> NoTag, pair |-> CHOOSE p \in Pairs : TRUE]
        /\ core = [p \in Pairs |-> <<>>] /\ bad = 0
        /\ send_lock = Nobody
        /\ cpc = [c \in Clients |-> "idle"]
        /\ sent = [c \in Clients |-> 0]
        /\ handles = [c \in Clients |-> {}]
        /\ got = [c \in Clients |-> {}]

-----------------------------------------------------------------------------
(* Clients. *)

Lead(c, from, to) == cpc[c] = from /\ cpc' = [cpc EXCEPT ![c] = to]

(* Lock the file for sending and write the command into it.               *)
ClientWrite(c) ==
  /\ send_lock = Nobody
  /\ sent[c] < MaxCmds
  /\ Cardinality(handles[c]) < MaxOutstanding
  /\ Lead(c, "idle", "wake")
  /\ spc # "start" \/ MayBeEarly      \* the server announced itself
  /\ send_lock' = c
  /\ sent' = [sent EXCEPT ![c] = @ + 1]
  /\ \E p \in Cores, xd \in BOOLEAN, f \in {FALSE, MayFlush} :
       cmd' = [tag |-> <<c, sent[c] + 1>>, pair |-> p, xd |-> xd, flush |-> f]
  /\ UNCHANGED <<quit, free_list, free_list_idx, pthread_wait_id, responses,
                 wait_for_response, server_mut, cmd_recieve_server_resp_lock,
                 globals, server, sim, handles, got>>

(* Wake the server.                                                        *)
ClientWake(c) ==
  /\ Lead(c, "wake", "ack")
  /\ server_mut' = FALSE
  /\ UNCHANGED <<cmd, quit, free_list, free_list_idx, pthread_wait_id, responses,
                 wait_for_response, cmd_recieve_server_resp_lock,
                 globals, server, sim, send_lock, sent, handles, got>>

(* Wait for the server to take the command, pick up the response handle.  *)
ClientAck(c) ==
  /\ Lead(c, "ack", "idle")
  /\ ~cmd_recieve_server_resp_lock
  /\ cmd_recieve_server_resp_lock' = TRUE
  /\ handles' = IF cmd.xd
                THEN [handles EXCEPT ![c] = @ \cup {[tag |-> cmd.tag, id |-> pthread_wait_id]}]
                ELSE handles
  /\ send_lock' = Nobody
  /\ UNCHANGED <<cmd, quit, free_list, free_list_idx, pthread_wait_id, responses,
                 wait_for_response, server_mut, globals, server, sim, sent, got>>

(* Wait on a handle, read the response and give the slot back.            *)
ClientReceive(c) ==
  \E h \in handles[c] :
    /\ h.id \in Ids
    /\ ~wait_for_response[h.id]
    /\ wait_for_response' = [wait_for_response EXCEPT ![h.id] = TRUE]
    /\ got' = [got EXCEPT ![c] = @ \cup {<<h.tag, responses[h.id]>>}]
    /\ handles' = [handles EXCEPT ![c] = @ \ {h}]
    /\ free_list_idx' = free_list_idx + 1
    /\ free_list' = [free_list EXCEPT ![free_list_idx + 1] = h.id]
    /\ UNCHANGED <<cmd, quit, pthread_wait_id, responses, server_mut,
                   cmd_recieve_server_resp_lock, globals, server, sim,
                   send_lock, cpc, sent>>

(* shutdown(): what the kill utility calls.                                *)
ClientShutdown(c) ==
  /\ MayQuit /\ ~quit
  /\ send_lock = Nobody
  /\ cpc[c] = "idle"
  /\ spc # "start" \/ MayBeEarly
  /\ quit' = TRUE
  /\ server_mut' = FALSE
  /\ UNCHANGED <<cmd, free_list, free_list_idx, pthread_wait_id, responses,
                 wait_for_response, cmd_recieve_server_resp_lock,
                 globals, server, sim, client>>

-----------------------------------------------------------------------------
(* Server thread. *)

Step(from, to) == spc = from /\ spc' = to

(* First lock of server_mut: the next one will block.                     *)
ServerStart ==
  /\ Step("start", "stall")
  /\ ~server_mut /\ server_mut' = TRUE
  /\ UNCHANGED <<cmd, quit, free_list, free_list_idx, pthread_wait_id, responses,
                 wait_for_response, cmd_recieve_server_resp_lock,
                 globals, id, sim, client>>

(* Fault: the client is let go before the server is done. *)
ServerWokenReplies ==
  /\ Step("stall", "alloc")
  /\ ~server_mut /\ server_mut' = TRUE
  /\ cmd_recieve_server_resp_lock' = FALSE
  /\ UNCHANGED <<cmd, quit, free_list, free_list_idx, pthread_wait_id, responses,
                 wait_for_response,
                 globals, id, sim, client>>

(* Stall on server_mut until a client has written something.              *)
ServerWoken ==
  /\ Step("stall", "alloc")
  /\ ~server_mut /\ server_mut' = TRUE
  /\ UNCHANGED <<cmd, quit, free_list, free_list_idx, pthread_wait_id, responses,
                 wait_for_response, cmd_recieve_server_resp_lock,
                 globals, id, sim, client>>

(* Fault: commands that want no response take a slot too. *)
NeedsSlotAlways == TRUE

NeedsSlot == cmd.xd

(* Fault: free_list_idx is not moved. *)
TopKept == free_list_idx

TopTaken == free_list_idx - 1

(* Take a response slot for a command that wants a response. Reading below *)
(* the bottom of free_list would yield anything.                          *)
ServerAllocate ==
  /\ Step("alloc", "lock")
  /\ IF NeedsSlot
     THEN /\ id' \in IF free_list_idx \in Ids THEN {free_list[free_list_idx]}
                                              ELSE Ids \cup {NoId}
          /\ free_list_idx' = TopTaken
     ELSE id' = NoId /\ UNCHANGED free_list_idx
  /\ pthread_wait_id' = id'
  /\ UNCHANGED <<cmd, quit, free_list, responses, wait_for_response, server_mut,
                 cmd_recieve_server_resp_lock, globals, sim, client>>

ServerLock ==
  /\ Step("lock", "deliver")
  /\ cmdserverlock = Nobody /\ cmdserverlock' = "server"
  /\ UNCHANGED <<file, cmds, in_flight, kill_sig, frontend, finish, caught, id, sim, client>>

(* Fault: the simulator is not told. *)
TellSimulatorNever == finish' = finish

(* vpi_control(vpiFinish), compiled in for VCS only.                      *)
TellSimulator == finish' = (finish \/ frontend = "vcs")

(* addr.quit: raise kill_sig, tell the simulator and return.              *)
(* cmdserverlock stays locked.                                            *)
ServerQuit ==
  /\ quit
  /\ Step("deliver", "gone")
  /\ kill_sig' = TRUE
  /\ TellSimulator
  /\ caught' = (mpc # "loop")
  /\ UNCHANGED <<file, cmdserverlock, cmds, in_flight, frontend, id, sim, client>>

InFlightOf(p) == IF p \in DOMAIN in_flight THEN in_flight[p] ELSE <<>>

(* Fault: the first command to a core is not noted. *)
WithInFlightNoFirst(p, i) == [r \in DOMAIN in_flight \cup {p} |->
                         IF r \notin DOMAIN in_flight THEN <<>>
                                ELSE IF r = p THEN Append(in_flight[p], i) ELSE in_flight[r]]

WithInFlight(p, i) == [r \in DOMAIN in_flight \cup {p} |->
                         IF r = p THEN Append(InFlightOf(p), i) ELSE in_flight[r]]

(* Queue the command for the simulation and note who waits for it.        *)
ServerDeliver ==
  /\ ~quit
  /\ Step("deliver", "reply")
  /\ cmds' = Append(cmds, cmd)
  /\ in_flight' = IF cmd.xd THEN WithInFlight(cmd.pair, id) ELSE in_flight
  /\ UNCHANGED <<file, cmdserverlock, kill_sig, frontend, finish, caught, id, sim, client>>

ServerReply ==
  /\ Step("reply", "release")
  /\ cmd_recieve_server_resp_lock' = FALSE
  /\ UNCHANGED <<cmd, quit, free_list, free_list_idx, pthread_wait_id, responses,
                 wait_for_response, server_mut, globals, id, sim, client>>

(* Fault: cmdserverlock is not given back. *)
ServerReleaseKeeps ==
  /\ Step("release", "stall")
  /\ cmdserverlock' = cmdserverlock
  /\ UNCHANGED <<file, cmds, in_flight, kill_sig, frontend, finish, caught, id, sim, client>>

ServerRelease ==
  /\ Step("release", "stall")
  /\ cmdserverlock' = Nobody
  /\ UNCHANGED <<file, cmds, in_flight, kill_sig, frontend, finish, caught, id, sim, client>>

-----------------------------------------------------------------------------
(* Simulation thread: one clock cycle after another until it is stopped.  *)
(* The bus traffic of a cycle is the subject of AXIControl; here a cycle  *)
(* may reach for the command queue, or finish reading one response.       *)

Cycle(from, to) == mpc = from /\ mpc' = to

(* Verilator's loop ends on kill_sig; tick_calltf does not look at it, so *)
(* under VPI only the simulator itself can end the run.                   *)
Stopped == IF frontend = "verilator" THEN kill_sig ELSE finish

SimStop ==
  /\ Stopped
  /\ Cycle("loop", "exit")
  /\ UNCHANGED <<file, globals, server, rsp, core, bad, client>>

SimWantCommand ==
  /\ ~Stopped
  /\ Cycle("loop", "fetch lock")
  /\ UNCHANGED <<file, globals, server, rsp, core, bad, client>>

(* A core finishes its oldest command and the response has been read.     *)
SimWantResponse(p) ==
  /\ ~Stopped
  /\ Cycle("loop", "register lock")
  /\ core[p] # <<>>
  /\ rsp' = [tag |-> Head(core[p]), pair |-> p]
  /\ core' = [core EXCEPT ![p] = Tail(@)]
  /\ UNCHANGED <<file, globals, server, bad, client>>

(* The accelerator answers in the name of a core it does not have.        *)
SimWantBadResponse(p) ==
  /\ ~Stopped
  /\ Cycle("loop", "register lock")
  /\ bad < MaxBad /\ p \notin Cores
  /\ bad' = bad + 1
  /\ rsp' = [tag |-> NoTag, pair |-> p]
  /\ UNCHANGED <<file, globals, server, core, client>>

SimLock ==
  /\ \/ Cycle("fetch lock", "fetch")
     \/ Cycle("register lock", "register")
  /\ cmdserverlock = Nobody /\ cmdserverlock' = "sim"
  /\ UNCHANGED <<file, cmds, in_flight, kill_sig, frontend, finish, caught, server, rsp, core, bad, client>>

(* Fault: back() for front(). *)
NewestCommand == cmds[Len(cmds)]

NextCommand == Head(cmds)

(* Take the oldest command; a FLUSH raises kill_sig, any other clears it. *)
SimFetch ==
  /\ Cycle("fetch", "loop")
  /\ IF cmds = <<>>
     THEN UNCHANGED <<cmds, core, kill_sig>>
     ELSE LET x == NextCommand IN
          /\ cmds' = Tail(cmds)
          /\ kill_sig' = x.flush
          /\ core' = IF x.xd THEN [core EXCEPT ![x.pair] = Append(@, x.tag)] ELSE core
  /\ cmdserverlock' = Nobody
  /\ UNCHANGED <<file, in_flight, frontend, finish, caught, server, rsp, bad, client>>

(* register_reponse, no entry for the pair: report it; VCS is told to     *)
(* finish, the others go on.                                              *)
RegisterBad ==
  /\ rsp.pair \notin DOMAIN in_flight
  /\ Cycle("register", "loop")
  /\ cmdserverlock' = Nobody
  /\ TellSimulator
  /\ UNCHANGED <<file, cmds, in_flight, kill_sig, frontend, caught, server, rsp, core, bad, client>>

(* Fault: back() for front(). *)
NewestWaiter(p) == in_flight[p][Len(in_flight[p])]

OldestWaiter(p) == Head(in_flight[p])

(* register_reponse: store the response in the slot that waits longest    *)
(* (the queue is never empty here: ResponseHasWaiter), ...                *)
RegisterStore ==
  /\ Cycle("register", "notify")
  /\ rsp.pair \in DOMAIN in_flight
  /\ responses' = [responses EXCEPT ![OldestWaiter(rsp.pair)] = rsp.tag]
  /\ UNCHANGED <<cmd, quit, free_list, free_list_idx, pthread_wait_id,
                 wait_for_response, server_mut, cmd_recieve_server_resp_lock,
                 globals, server, rsp, core, bad, client>>

(* ... let the client read it, ...                                        *)
RegisterNotify ==
  /\ Cycle("notify", "pop")
  /\ wait_for_response' = [wait_for_response EXCEPT ![OldestWaiter(rsp.pair)] = FALSE]
  /\ UNCHANGED <<cmd, quit, free_list, free_list_idx, pthread_wait_id, responses,
                 server_mut, cmd_recieve_server_resp_lock,
                 globals, server, rsp, core, bad, client>>

(* ... and forget the waiter.                                             *)
RegisterPop ==
  /\ Cycle("pop", "loop")
  /\ in_flight' = [in_flight EXCEPT ![rsp.pair] = Tail(@)]
  /\ cmdserverlock' = Nobody
  /\ UNCHANGED <<file, cmds, kill_sig, frontend, finish, caught, server, rsp, core, bad, client>>

-----------------------------------------------------------------------------
ClientStep(c) == ClientWrite(c) \/ ClientWake(c) \/ ClientAck(c) \/ ClientReceive(c)
ServerStep == \/ ServerStart \/ ServerWoken \/ ServerAllocate \/ ServerLock
              \/ ServerQuit \/ ServerDeliver \/ ServerReply \/ ServerRelease
SimStep == \/ SimStop \/ SimWantCommand \/ SimLock \/ SimFetch
           \/ RegisterBad \/ RegisterStore \/ RegisterNotify \/ RegisterPop
           \/ \E p \in Pairs : SimWantResponse(p) \/ SimWantBadResponse(p)

Next == \/ \E c \in Clients : ClientStep(c) \/ ClientShutdown(c)
        \/ ServerStep
        \/ SimStep

Spec == Init /\ [][Next]_vars

(* Scheduling: every thread keeps running; a thread that waits for a mutex *)
(* which is released again and again gets it in the end; the bus machine  *)
(* polls for commands and for responses in turn (AXIControl), so neither  *)
(* is put off for ever; a client that sent a command waits for it.        *)
FairSpec ==
  /\ Spec
  /\ WF_vars(ServerStep) /\ SF_vars(ServerLock)
  /\ WF_vars(SimStep) /\ SF_vars(SimLock) /\ SF_vars(SimWantCommand)
  /\ SF_vars(\E p \in Pairs : SimWantResponse(p))
  /\ \A c \in Clients : WF_vars(ClientWake(c) \/ ClientAck(c) \/ ClientReceive(c))

-----------------------------------------------------------------------------
(* The places a response slot can be: free, with the server between its   *)
(* allocation and in_flight, waiting in in_flight (register_reponse wakes *)
(* the client before it pops the slot, which may be free by then), or     *)
(* with a client.                                                         *)
FreeIds == {free_list[i] : i \in 0 .. free_list_idx}
Waiting(p) == IF mpc = "pop" /\ rsp.pair = p THEN Tail(InFlightOf(p)) ELSE InFlightOf(p)
QueuedIds == UNION {{Waiting(p)[i] : i \in DOMAIN Waiting(p)} : p \in Pairs}
HeldIds == {h.id : h \in UNION {handles[c] : c \in Clients}}
ServerIds == IF spc \in {"lock", "deliver", "reply", "release", "gone"} /\ id # NoId
             THEN {id} ELSE {}

(* free_list: no slot is ever free while a command, the server or a client *)
(* still uses it, and no slot is twice on the list, so two clients can    *)
(* never wait on one slot (cmd_server.cc:101-112 against the clients'     *)
(* returns).                                                              *)
SlotsNeverShared ==
  /\ \A i, j \in 0 .. free_list_idx : i # j => free_list[i] # free_list[j]
  /\ FreeIds \cap (QueuedIds \cup HeldIds) = {}
  /\ spc \in {"lock", "deliver", "reply"} => ServerIds \cap FreeIds = {}
  /\ \A c, d \in Clients : \A g \in handles[c], h \in handles[d] :
       g.id = h.id => c = d /\ g = h

(* The server never reads below the bottom of free_list (line 103), even  *)
(* on its way out, as long as the clients leave one slot unused.          *)
FreeListInBounds == spc = "alloc" /\ cmd.xd => free_list_idx >= 0

(* The assertion of line 161 and the queue access of line 206: a command  *)
(* that wants a response has a slot when it is queued (a server that is   *)
(* told to quit queues nothing), and a response from a core always finds  *)
(* a waiting slot of that core.                                           *)
ResponseHasWaiter ==
  /\ spc = "deliver" /\ ~quit /\ cmd.xd => id # NoId
  /\ mpc \in {"register lock", "register", "notify", "pop"} /\ rsp.tag # NoTag
       => InFlightOf(rsp.pair) # <<>>

(* Every response a client has read is the response to the command for    *)
(* which it obtained the handle, although slots are reused and the server *)
(* pairs responses with commands by their order only.                     *)
RoutedToIssuer == \A c \in Clients : \A g \in got[c] : g[1] = g[2] /\ g[1][1] = c

(* While the server works on addr.cmd (lines 101-163 read it six times)   *)
(* no client overwrites it. (A shutdown makes it go through the last       *)
(* command once more, and the next client may write meanwhile.)           *)
CommandStable ==
  [][~quit /\ spc \in {"alloc", "lock", "deliver", "reply"} => cmd' = cmd]_vars

(* A client's unlock of server_mut came before the server's first lock    *)
(* (line 90), which swallowed it: the server stalls although a client     *)
(* waits for it or has told it to quit.                                   *)
WakeUpLost == /\ spc = "stall" /\ server_mut
              /\ \/ quit
                 \/ cmd_recieve_server_resp_lock /\ \E c \in Clients : cpc[c] = "ack"

(* Over and over every client has read the response to each command it    *)
(* sent that wants one, unless the simulation ends, shutdown() was called *)
(* or the first command's wake-up was lost (then nobody is ever served).  *)
EveryCommandAnswered ==
  []<>(Stopped \/ quit \/ WakeUpLost
         \/ \A c \in Clients : cpc[c] = "idle" /\ handles[c] = {})

(* After shutdown() the simulation stops, except in these cases. Its      *)
(* thread already waited for cmdserverlock when the server raised         *)
(* kill_sig: the server returns without unlocking, so that thread waits   *)
(* for ever. Icarus is never told to finish, so there it ends up waiting  *)
(* in any case. Or the server missed the call (WakeUpLost).               *)
QuitStopsOrHangs ==
  <>[](quit => \/ mpc = "exit"
               \/ /\ spc = "gone" /\ mpc \in {"fetch lock", "register lock"}
                  /\ caught \/ frontend = "icarus"
               \/ WakeUpLost)

-----------------------------------------------------------------------------
(* Refinement: commands wait in their core's line from ServerDeliver to   *)
(* RegisterNotify, then in their slot until the client reads it.          *)

TagOf(i) == LET known == {h \in UNION {handles[c] : c \in Clients} : h.id = i}
            IN  IF known # {} THEN (CHOOSE h \in known : TRUE).tag ELSE cmd.tag
Service == INSTANCE CommandService WITH
  line <- [p \in Pairs |-> [i \in DOMAIN Waiting(p) |-> TagOf(Waiting(p)[i])]],
  answered <- {<<TagOf(i), responses[i]>> : i \in {j \in Ids : ~wait_for_response[j]}},
  received <- UNION {got[c] : c \in Clients}

(* The runtime gives its users the service CommandService describes.      *)
ImplementsService == Service!Spec
=============================================================================
