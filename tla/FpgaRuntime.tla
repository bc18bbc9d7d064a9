----------------------------- MODULE FpgaRuntime -----------------------------
(***************************************************************************)
(* The runtime on a real FPGA (AWS, Kria): the command server writes      *)
(* commands over MMIO itself (cmd_server.cc:124-146), a poller thread     *)
(* reads responses (response_poller.cc), and the main thread sleeps on    *)
(* main_lock until one of them lets it end the process (fpga_main.cc).    *)
(* bus_lock serialises MMIO, cmdserverlock guards in_flight. How clients  *)
(* hand commands over (the one that comes too early to be noticed         *)
(* included) and how response slots are recycled is the subject of        *)
(* CmdServer: here the server draws its next command directly, and the    *)
(* command's tag is its slot. The FPGA is external.                       *)
(***************************************************************************)
EXTENDS Integers, Sequences, FiniteSets

CONSTANTS Cores,      \* (system, core) pairs ("none": the pair of a stray response)
          MaxCmds,    \* bound: commands sent
          CmdBeats,   \* num_cmd_beats
          RespWords,  \* words of a response (3)
          HwDepth,    \* commands the FPGA holds before their responses leave
          MayQuit,    \* may a client ask for shutdown?
          MaxBad,     \* bound: responses for no command
          MayFail     \* may set-up and MMIO fail? (AWS: calls of its SDK)

ASSUME FpgaAssumption ==
  /\ MaxCmds \in Nat /\ MaxBad \in Nat /\ MayQuit \in BOOLEAN /\ MayFail \in BOOLEAN
  /\ "none" \notin Cores
  /\ CmdBeats \in Nat \ {0} /\ RespWords \in Nat \ {0} /\ HwDepth \in Nat \ {0}

Tags == 1 .. MaxCmds
Stray == 0                      \* tag of a response no command asked for
Nobody == "nobody"
NoCmd == [tag |-> Stray, core |-> "none", xd |-> FALSE]

VARIABLES
  spc, cmd, quit, beat,                       \* server thread, shared file
  ppc, buf, processes_waiting,                \* poller thread, its semaphore
  main_pc, main_lock,                         \* main thread
  bus_lock, cmdserverlock, in_flight,         \* globals
  answered,                                   \* register_reponse: <<slot, response>>
  sent, posted,                               \* commands taken; responses expected
  hwready, words, due, respq, avail, bad      \* FPGA

server == <<spc, cmd, quit, beat, sent>>
poller == <<ppc, buf>>
main == <<main_pc, main_lock>>
fpga == <<hwready, words, due, respq, avail, bad>>
vars == <<server, poller, main, bus_lock, cmdserverlock, in_flight, answered,
          processes_waiting, posted, fpga>>

Init == /\ spc = "stall" /\ cmd = NoCmd /\ quit = FALSE /\ beat = 0 /\ sent = 0
        /\ ppc = "wait" /\ buf = <<>> /\ processes_waiting = 0 /\ posted = 0
        /\ main_pc = "setup" /\ main_lock = FALSE
        /\ bus_lock = Nobody /\ cmdserverlock = Nobody
        /\ in_flight = [c \in {} |-> <<>>] /\ answered = <<>>
        /\ hwready = FALSE /\ words = <<>> /\ due = {} /\ respq = <<>>
        /\ avail = FALSE /\ bad = 0

(* main() starts the other threads, and returning from it ends them.      *)
Alive == main_pc \notin {"setup", "exit"}

-----------------------------------------------------------------------------
(* Main thread: set up the FPGA (fpga_setup exits when a call fails) and   *)
(* start the other threads, lock main_lock, then wait on it.              *)
MainSetup == /\ main_pc = "setup" /\ main_pc' = "first"
             /\ UNCHANGED <<server, poller, main_lock, bus_lock, cmdserverlock, in_flight,
                            answered, processes_waiting, posted, fpga>>

MainSetupFails == /\ main_pc = "setup" /\ MayFail /\ main_pc' = "exit"
                  /\ UNCHANGED <<server, poller, main_lock, bus_lock, cmdserverlock,
                                 in_flight, answered, processes_waiting, posted, fpga>>

MainFirstLock == /\ main_pc = "first" /\ ~main_lock
                 /\ main_lock' = TRUE /\ main_pc' = "wait"
                 /\ UNCHANGED <<server, poller, bus_lock, cmdserverlock, in_flight,
                                answered, processes_waiting, posted, fpga>>

MainWoken == /\ main_pc = "wait" /\ ~main_lock
             /\ main_lock' = TRUE /\ main_pc' = "exit"
             /\ UNCHANGED <<server, poller, bus_lock, cmdserverlock, in_flight,
                            answered, processes_waiting, posted, fpga>>

-----------------------------------------------------------------------------
(* Server thread. *)
ServerAt(from, to) == Alive /\ spc = from /\ spc' = to

ServerWoken ==
  /\ ServerAt("stall", "lock")
  /\ \/ /\ sent < MaxCmds
        /\ sent' = sent + 1
        /\ \E c \in Cores, xd \in BOOLEAN : cmd' = [tag |-> sent + 1, core |-> c, xd |-> xd]
        /\ UNCHANGED quit
     \/ /\ MayQuit /\ quit' = TRUE
        /\ UNCHANGED <<cmd, sent>>
  /\ UNCHANGED <<beat, poller, main, bus_lock, cmdserverlock, in_flight, answered,
                 processes_waiting, posted, fpga>>

(* Fault: cmdserverlock is not taken. *)
ServerLockNot ==
  /\ ServerAt("lock", "locked")
  /\ UNCHANGED cmdserverlock
  /\ UNCHANGED <<cmd, quit, beat, sent, poller, main, bus_lock, in_flight, answered,
                 processes_waiting, posted, fpga>>

ServerLock ==
  /\ ServerAt("lock", "locked")
  /\ cmdserverlock = Nobody /\ cmdserverlock' = "server"
  /\ UNCHANGED <<cmd, quit, beat, sent, poller, main, bus_lock, in_flight, answered,
                 processes_waiting, posted, fpga>>

(* Fault: main is not let go. *)
ServerQuitSilent ==
  /\ quit
  /\ ServerAt("locked", "gone")
  /\ main_lock' = main_lock
  /\ UNCHANGED <<cmd, quit, beat, sent, poller, main_pc, bus_lock, cmdserverlock, in_flight,
                 answered, processes_waiting, posted, fpga>>

(* Let main go and return; cmdserverlock stays locked.                    *)
ServerQuit ==
  /\ quit
  /\ ServerAt("locked", "gone")
  /\ main_lock' = FALSE
  /\ UNCHANGED <<cmd, quit, beat, sent, poller, main_pc, bus_lock, cmdserverlock, in_flight,
                 answered, processes_waiting, posted, fpga>>

(* Fault: the poller is woken for every command. *)
WakesPollerAlways == TRUE

WakesPoller == cmd.xd

(* Wake the poller before the command goes out.                           *)
ServerPost ==
  /\ ~quit
  /\ ServerAt("locked", "bus")
  /\ processes_waiting' = IF WakesPoller THEN processes_waiting + 1 ELSE processes_waiting
  /\ posted' = IF cmd.xd THEN posted + 1 ELSE posted
  /\ UNCHANGED <<cmd, quit, beat, sent, poller, main, bus_lock, cmdserverlock, in_flight,
                 answered, fpga>>

ServerTakeBus ==
  /\ ServerAt("bus", "beats")
  /\ bus_lock = Nobody /\ bus_lock' = "server"
  /\ beat' = 0
  /\ UNCHANGED <<cmd, quit, sent, poller, main, cmdserverlock, in_flight, answered,
                 processes_waiting, posted, fpga>>

(* Spin until CMD_READY, then write one word; the FPGA executes a command *)
(* when its last word is in.                                              *)
ServerBeat ==
  /\ ServerAt("beats", "beats")
  /\ beat < CmdBeats
  /\ hwready /\ hwready' = FALSE
  /\ beat' = beat + 1
  /\ IF beat + 1 = CmdBeats
     THEN /\ words' = <<>>
          /\ due' = IF cmd.xd THEN due \cup {cmd} ELSE due
     ELSE words' = Append(words, cmd.tag) /\ UNCHANGED due
  /\ UNCHANGED <<cmd, quit, sent, poller, main, bus_lock, cmdserverlock, in_flight,
                 answered, processes_waiting, posted, respq, avail, bad>>

(* Fault: bus_lock is not given back. *)
ServerGiveBusKeeps ==
  /\ ServerAt("beats", "record")
  /\ beat = CmdBeats
  /\ bus_lock' = bus_lock
  /\ UNCHANGED <<cmd, quit, beat, sent, poller, main, cmdserverlock, in_flight, answered,
                 processes_waiting, posted, fpga>>

ServerGiveBus ==
  /\ ServerAt("beats", "record")
  /\ beat = CmdBeats
  /\ bus_lock' = Nobody
  /\ UNCHANGED <<cmd, quit, beat, sent, poller, main, cmdserverlock, in_flight, answered,
                 processes_waiting, posted, fpga>>

InFlightOf(c) == IF c \in DOMAIN in_flight THEN in_flight[c] ELSE <<>>

(* Note who waits, acknowledge to the client and unlock.                  *)
ServerRecord ==
  /\ ServerAt("record", "stall")
  /\ in_flight' = IF cmd.xd
                  THEN [c \in DOMAIN in_flight \cup {cmd.core} |->
                          IF c = cmd.core THEN Append(InFlightOf(c), cmd.tag) ELSE in_flight[c]]
                  ELSE in_flight
  /\ cmdserverlock' = Nobody
  /\ UNCHANGED <<cmd, quit, beat, sent, poller, main, bus_lock, answered,
                 processes_waiting, posted, fpga>>

-----------------------------------------------------------------------------
(* Poller thread. Each access to the bus is short and under bus_lock.     *)
PollerAt(from, to) == Alive /\ ppc = from /\ ppc' = to

BusFree == bus_lock = Nobody

RespDone(n) == n = RespWords

PollerWait ==
  /\ PollerAt("wait", "poll")
  /\ processes_waiting > 0 /\ processes_waiting' = processes_waiting - 1
  /\ buf' = <<>>
  /\ UNCHANGED <<server, main, bus_lock, cmdserverlock, in_flight, answered, posted, fpga>>

(* RESP_VALID is clear: sleep and look again.                              *)
PollerAgain ==
  /\ PollerAt("poll", "poll")
  /\ BusFree /\ ~avail
  /\ UNCHANGED <<server, buf, main, bus_lock, cmdserverlock, in_flight, answered,
                 processes_waiting, posted, fpga>>

PollerSeesWord ==
  /\ PollerAt("poll", "read")
  /\ BusFree /\ avail
  /\ UNCHANGED <<server, buf, main, bus_lock, cmdserverlock, in_flight, answered,
                 processes_waiting, posted, fpga>>

PollerReadWord ==
  /\ PollerAt("read", IF RespDone(Len(buf) + 1) THEN "register" ELSE "poll")
  /\ BusFree
  /\ buf' = Append(buf, Head(respq))
  /\ respq' = Tail(respq) /\ avail' = FALSE
  /\ UNCHANGED <<server, main, bus_lock, cmdserverlock, in_flight, answered,
                 processes_waiting, posted, hwready, words, due, bad>>

PollerLock ==
  /\ PollerAt("register", "registering")
  /\ cmdserverlock = Nobody /\ cmdserverlock' = "poller"
  /\ UNCHANGED <<server, buf, main, bus_lock, in_flight, answered, processes_waiting,
                 posted, fpga>>

(* Fault: back() for front(). *)
NewestWaiter(c) == in_flight[c][Len(in_flight[c])]

OldestWaiter(c) == Head(in_flight[c])

(* register_reponse: the pair comes from the words read.                  *)
Register ==
  /\ PollerAt("registering", "wait")
  /\ buf[1].core \in DOMAIN in_flight
  /\ answered' = Append(answered, <<OldestWaiter(buf[1].core), buf[1].tag>>)
  /\ in_flight' = [in_flight EXCEPT ![buf[1].core] = Tail(@)]
  /\ cmdserverlock' = Nobody
  /\ UNCHANGED <<server, buf, main, bus_lock, processes_waiting, posted, fpga>>

(* register_reponse, no entry for the pair: let main end the process.     *)
RegisterBad ==
  /\ PollerAt("registering", "wait")
  /\ buf[1].core \notin DOMAIN in_flight
  /\ answered' = Append(answered, <<Stray, Stray>>)
  /\ cmdserverlock' = Nobody
  /\ main_lock' = FALSE
  /\ UNCHANGED <<server, buf, main_pc, bus_lock, in_flight, processes_waiting,
                 posted, fpga>>

-----------------------------------------------------------------------------
(* FPGA. *)
FpgaKeep == /\ Alive
            /\ UNCHANGED <<server, poller, main, bus_lock, cmdserverlock, in_flight,
                           answered, processes_waiting, posted>>

HwFull == Cardinality(due) + (IF respq # <<>> THEN 1 ELSE 0) >= HwDepth

HwReady == /\ FpgaKeep /\ ~hwready
           /\ words # <<>> \/ ~HwFull
           /\ hwready' = TRUE
           /\ UNCHANGED <<words, due, respq, avail, bad>>

(* The oldest command of some core finishes.                              *)
HwRespond ==
  /\ FpgaKeep /\ respq = <<>>
  /\ \E d \in due : /\ \A e \in due : e.core = d.core => d.tag <= e.tag
                    /\ due' = due \ {d}
                    /\ respq' = [i \in 1 .. RespWords |-> [core |-> d.core, tag |-> d.tag]]
  /\ UNCHANGED <<hwready, words, avail, bad>>

HwBad == /\ FpgaKeep /\ respq = <<>> /\ bad < MaxBad
         /\ bad' = bad + 1
         /\ respq' = [i \in 1 .. RespWords |-> [core |-> "none", tag |-> Stray]]
         /\ UNCHANGED <<hwready, words, due, avail>>

HwAvail == /\ FpgaKeep /\ respq # <<>> /\ ~avail
           /\ avail' = TRUE
           /\ UNCHANGED <<hwready, words, due, respq, bad>>

-----------------------------------------------------------------------------
(* peek_mmio or poke_mmio gets an error from the SDK and throws: the       *)
(* process is terminated, whatever the threads were doing.                *)
MmioFails == /\ Alive /\ MayFail
             /\ (spc = "beats" /\ beat < CmdBeats) \/ (ppc \in {"poll", "read"} /\ BusFree)
             /\ main_pc' = "exit"
             /\ UNCHANGED <<server, poller, main_lock, bus_lock, cmdserverlock, in_flight,
                            answered, processes_waiting, posted, fpga>>

MainStep == MainSetup \/ MainSetupFails \/ MainFirstLock \/ MainWoken
ServerStep == \/ ServerWoken \/ ServerLock \/ ServerQuit \/ ServerPost \/ ServerTakeBus
              \/ ServerBeat \/ ServerGiveBus \/ ServerRecord
PollerStep == \/ PollerWait \/ PollerAgain \/ PollerSeesWord \/ PollerReadWord \/ PollerLock
              \/ Register \/ RegisterBad
HwStep == HwReady \/ HwRespond \/ HwBad \/ HwAvail

Next == MainStep \/ ServerStep \/ PollerStep \/ MmioFails \/ HwStep

Spec == Init /\ [][Next]_vars

(* Threads run; a mutex that keeps being released is obtained in the end, *)
(* so a step that is possible again and again is taken (the poller's look *)
(* at RESP_VALID when it is clear is no progress); the FPGA works. Nobody *)
(* has to send a command or to quit.                                      *)
PollerProgress == \/ PollerWait \/ PollerSeesWord \/ PollerReadWord \/ PollerLock
                  \/ Register \/ RegisterBad
Fairness ==
  /\ WF_vars(MainStep)
  /\ SF_vars(ServerStep /\ spc # "stall")
  /\ SF_vars(PollerProgress)
  /\ WF_vars(HwReady) /\ WF_vars(HwRespond \/ HwAvail)

FairSpec == Spec /\ Fairness

-----------------------------------------------------------------------------
(* register_reponse always finds the command it answers, although the     *)
(* poller is woken, and may have read the whole response, before the      *)
(* server has recorded the command (sem_post at cmd_server.cc:127,        *)
(* in_flight at line 162): cmdserverlock is held all that time.           *)
ResponseHasWaiter ==
  ppc = "registering" /\ buf[1].tag # Stray => InFlightOf(buf[1].core) # <<>>

(* Each response reaches the slot of the command it answers.              *)
RoutedToIssuer == \A i \in DOMAIN answered : answered[i][1] = answered[i][2]

(* The two threads together implement the command service, in which no    *)
(* bus, no poller and no semaphore exist: a command joins its core's line *)
(* when the server records it, although its response may have been read   *)
(* by then, and is answered, in line and once, when the poller registers  *)
(* that response. Stray responses are no steps of the service, and how    *)
(* the client collects an answer is left to CmdServer.                    *)
Service == INSTANCE CommandService WITH
  Pairs <- Cores,
  line <- [c \in Cores |-> InFlightOf(c)],
  answered <- {answered[i] : i \in {j \in DOMAIN answered : answered[j][2] # Stray}},
  received <- {}
ImplementsService == Service!Spec

(* processes_waiting counts exactly the responses nobody has gone to read *)
(* yet, so the poller neither sleeps through a response nor waits for one *)
(* that will not come. A stray response uses up a count too: one expected *)
(* response is then never read.                                           *)
SemaphoreBalanced ==
  posted = processes_waiting + Len(answered) + (IF ppc = "wait" THEN 0 ELSE 1)

(* The server spins on CMD_READY with bus_lock held, and the FPGA takes no *)
(* command before a response is read, which needs bus_lock                *)
(* (cmd_server.cc:128-140 against response_poller.cc:27-37).              *)
BusDeadlock == spc = "beats" /\ beat = 0 /\ ~hwready /\ HwFull

(* Again and again every expected response has been registered; the only  *)
(* alternatives are to end in that situation for good, that the process   *)
(* ends, or a stray response, which the poller takes for an expected one. *)
(* With a device that takes commands without waiting for responses to be  *)
(* read no response is lost.                                              *)
DrainedUnlessDeadlocked ==
  \/ []<>(posted = Cardinality({i \in DOMAIN answered : answered[i][2] # Stray}))
  \/ <>[](BusDeadlock \/ quit \/ bad > 0 \/ main_pc = "exit")

(* A shutdown that is asked for while main waits on main_lock ends the    *)
(* process. (If the server unlocks main_lock before main has locked it    *)
(* the first time, fpga_main.cc:28, the unlock is lost.)                  *)
QuitEndsMain == (quit /\ spc # "gone" /\ main_pc = "wait") ~> (main_pc = "exit")
=============================================================================
