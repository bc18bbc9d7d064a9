-------------------------- MODULE FpgaRuntimeProofs --------------------------
(***************************************************************************)
(* For any number of cores, commands, beats and response words: the       *)
(* command server and the response poller never lose, misroute or         *)
(* miscount a response, although the poller may hold a whole response     *)
(* before the server has recorded the command it answers.                 *)
(***************************************************************************)
EXTENDS FpgaRuntime, SequenceTheorems, TLAPS

Responses == [core : Cores \cup {"none"}, tag : Nat]

(* The server has a command of its own that is newer than all recorded.   *)
Fresh == spc \in {"bus", "beats", "record"} \/ (spc \in {"lock", "locked"} /\ ~quit)

(* The FPGA has the current command, and in_flight does not know it yet.  *)
Executed == cmd.xd /\ (spc = "record" \/ (spc = "beats" /\ beat = CmdBeats))

(* The poller holds (the beginning of) a response.                        *)
Holding == ppc # "wait" /\ buf # <<>>

(* The response to command t of core c has not been registered.           *)
Outstanding(c, t) ==
  \/ \E d \in due : d.core = c /\ d.tag = t
  \/ respq # <<>> /\ respq[1].core = c /\ respq[1].tag = t
  \/ Holding /\ buf[1].core = c /\ buf[1].tag = t

(* The runtime knows that command t of core c is to be answered.          *)
Tracked(c, t) ==
  \/ \E i \in 1 .. Len(InFlightOf(c)) : InFlightOf(c)[i] = t
  \/ Executed /\ cmd.core = c /\ cmd.tag = t

Types ==
  /\ cmd \in [tag : Nat, core : Cores \cup {"none"}, xd : BOOLEAN]
  /\ beat \in Nat /\ sent \in Nat /\ quit \in BOOLEAN
  /\ processes_waiting \in Nat /\ posted \in Nat
  /\ DOMAIN in_flight \subseteq Cores
  /\ in_flight \in [DOMAIN in_flight -> Seq(Nat)]
  /\ answered \in Seq(Nat \X Nat)
  /\ \A d \in due : d.tag \in Nat \ {0} /\ d.core \in Cores
  /\ respq \in Seq(Responses) /\ buf \in Seq(Responses)

(* Who holds the locks.                                                   *)
Locks ==
  /\ spc \in {"stall", "lock", "locked", "gone", "bus", "beats", "record"}
  /\ ppc \in {"wait", "poll", "read", "register", "registering"}
  /\ (spc \in {"locked", "gone", "bus", "beats", "record"}) = (cmdserverlock = "server")
  /\ (ppc = "registering") = (cmdserverlock = "poller")
  /\ (spc = "beats") = (bus_lock = "server")
  /\ quit => spc \in {"lock", "locked", "gone"}

(* The device sends a response word by word; a response that the poller   *)
(* has begun to read is continued in respq.                               *)
Framing ==
  /\ avail => respq # <<>>
  /\ ppc = "read" => avail
  /\ \A i \in 1 .. Len(respq) : respq[i] = respq[1]
  /\ respq # <<>> => (respq[1].tag = Stray) = (respq[1].core = "none")
  /\ Holding => (buf[1].tag = Stray) = (buf[1].core = "none")
  /\ ppc \in {"register", "registering"} => buf # <<>>
  /\ ppc \in {"poll", "read"} => Len(buf) < RespWords
  /\ ppc \in {"poll", "read"} /\ buf # <<>> =>
       Len(buf) + Len(respq) = RespWords /\ respq[1] = buf[1]
  /\ respq # <<>> /\ ~(ppc \in {"poll", "read"} /\ buf # <<>>) => Len(respq) = RespWords

(* Commands are numbered in the order they are sent, and a core answers   *)
(* them in that order.                                                    *)
InOrder ==
  /\ Fresh => cmd.tag = sent /\ sent > 0 /\ cmd.core \in Cores
  /\ \A c \in DOMAIN in_flight : \A i \in 1 .. Len(in_flight[c]) :
       /\ 0 < in_flight[c][i] /\ in_flight[c][i] <= sent
       /\ Fresh => in_flight[c][i] < sent
       /\ \A j \in 1 .. i - 1 : in_flight[c][j] < in_flight[c][i]
  /\ \A d \in due : /\ respq # <<>> /\ respq[1].core = d.core => respq[1].tag < d.tag
                    /\ Holding /\ buf[1].core = d.core => buf[1].tag < d.tag
                    /\ \A e \in due : d.core = e.core /\ d.tag = e.tag => d = e
  /\ ppc \in {"register", "registering"} /\ respq # <<>> /\ respq[1].core = buf[1].core
       /\ buf[1].tag # Stray => buf[1].tag < respq[1].tag

(* The responses to come are exactly the ones the runtime waits for.      *)
Tracking == \A c \in Cores : \A t \in Nat \ {0} : Outstanding(c, t) <=> Tracked(c, t)

IInv == Types /\ Locks /\ Framing /\ InOrder /\ Tracking /\ SemaphoreBalanced /\ RoutedToIssuer

(* What an idle step leaves alone.                                        *)
mine == <<server, poller, cmdserverlock, in_flight, answered, processes_waiting, posted, fpga>>

-----------------------------------------------------------------------------
(* An element of a sequence is one of its elements' set.                  *)
LEMMA ElementOf == ASSUME NEW S, NEW s \in Seq(S), NEW i \in DOMAIN s PROVE s[i] \in S
OBVIOUS

(* The indices of a sequence.                                             *)
LEMMA Indices == ASSUME NEW S, NEW s \in Seq(S) PROVE DOMAIN s = 1 .. Len(s) /\ Len(s) \in Nat
OBVIOUS

(* A sequence with one element more.                                      *)
LEMMA Appended ==
  ASSUME NEW S, NEW s \in Seq(S), NEW e \in S
  PROVE  /\ Append(s, e) \in Seq(S) /\ Len(Append(s, e)) = Len(s) + 1
         /\ DOMAIN Append(s, e) = (DOMAIN s) \cup {Len(s) + 1} /\ Len(s) + 1 \notin DOMAIN s
         /\ Append(s, e)[Len(s) + 1] = e /\ \A i \in DOMAIN s : Append(s, e)[i] = s[i]
<1>1. PICK n \in Nat : n = Len(s) /\ DOMAIN s = 1 .. n
  OBVIOUS
<1>2. 1 .. n + 1 = (1 .. n) \cup {n + 1} /\ n + 1 \notin 1 .. n
  OBVIOUS
<1>3. /\ Append(s, e) \in Seq(S) /\ Len(Append(s, e)) = n + 1 /\ DOMAIN Append(s, e) = 1 .. n + 1
      /\ Append(s, e)[n + 1] = e /\ \A i \in 1 .. n : Append(s, e)[i] = s[i]
  BY <1>1
<1> QED
  BY <1>1, <1>2, <1>3

(* A sequence of n equal elements.                                        *)
LEMMA Repeated == ASSUME NEW S, NEW r \in S, NEW n \in Nat
                  PROVE  LET q == [i \in 1 .. n |-> r]
                         IN  q \in Seq(S) /\ Len(q) = n /\ \A i \in 1 .. n : q[i] = r
  OBVIOUS

(* The initial state satisfies the inductive invariant.                   *)
LEMMA InitIInv == Init => IInv
<1> SUFFICES ASSUME Init PROVE IInv
  OBVIOUS
<1> USE FpgaAssumption
<1>1. Types
  <2>1. cmd \in [tag : Nat, core : Cores \cup {"none"}, xd : BOOLEAN]
    BY DEF Init, NoCmd, Stray
  <2>2. DOMAIN in_flight \subseteq Cores /\ in_flight \in [DOMAIN in_flight -> Seq(Nat)]
    BY DEF Init
  <2>3. /\ answered \in Seq(Nat \X Nat) /\ respq \in Seq(Responses) /\ buf \in Seq(Responses)
        /\ due = {}
    BY DEF Init
  <2>4. beat \in Nat /\ sent \in Nat /\ quit \in BOOLEAN /\ processes_waiting \in Nat /\ posted \in Nat
    BY DEF Init
  <2> QED
    BY <2>1, <2>2, <2>3, <2>4 DEF Types
<1>2. Locks
  BY DEF Init, Locks, Nobody
<1>3. Framing
  BY DEF Init, Framing, Holding
<1>4. InOrder
  BY DEF Init, InOrder, Fresh, Holding
<1>5. Tracking
  BY DEF Init, Tracking, Outstanding, Tracked, Executed, Holding, InFlightOf
<1>6. SemaphoreBalanced /\ RoutedToIssuer
  BY DEF Init, SemaphoreBalanced, RoutedToIssuer
<1> QED
  BY <1>1, <1>2, <1>3, <1>4, <1>5, <1>6 DEF IInv

(* Steps of the main thread, and whatever else leaves the server, the     *)
(* poller and the FPGA alone.                                             *)
LEMMA IdleStep == ASSUME IInv, UNCHANGED mine, (bus_lock' = "server") = (bus_lock = "server")
                  PROVE  IInv'
<1> USE DEF mine, server, poller, fpga, IInv
<1>1. Types' /\ Framing' /\ SemaphoreBalanced' /\ RoutedToIssuer'
  BY DEF Types, Framing, Holding, SemaphoreBalanced, RoutedToIssuer
<1>2. Locks'
  BY DEF Locks
<1>3. InOrder'
  BY DEF InOrder, Fresh, Holding
<1>4. Tracking'
  BY DEF Tracking, Outstanding, Tracked, Executed, Holding, InFlightOf
<1> QED
  BY <1>1, <1>2, <1>3, <1>4

-----------------------------------------------------------------------------
(* The server takes a command: nothing that is tracked is as new.         *)
LEMMA WokenStep == ASSUME IInv, ServerWoken
                   PROVE  IInv'
<1> USE DEF IInv
<1>1. /\ spc = "stall" /\ spc' = "lock"
      /\ UNCHANGED <<beat, poller, bus_lock, cmdserverlock, in_flight, answered,
                     processes_waiting, posted, fpga>>
  BY DEF ServerWoken, ServerAt
<1>2. \/ /\ sent' = sent + 1 /\ quit' = quit
         /\ \E c \in Cores, xd \in BOOLEAN : cmd' = [tag |-> sent + 1, core |-> c, xd |-> xd]
      \/ quit' = TRUE /\ cmd' = cmd /\ sent' = sent
  BY DEF ServerWoken
<1>3. Types'
  <2>1. cmd' \in [tag : Nat, core : Cores \cup {"none"}, xd : BOOLEAN]
    <3>1. CASE cmd' = cmd
      BY <3>1 DEF Types
    <3>2. ASSUME NEW c \in Cores, NEW xd \in BOOLEAN, cmd' = [tag |-> sent + 1, core |-> c, xd |-> xd]
          PROVE  cmd' \in [tag : Nat, core : Cores \cup {"none"}, xd : BOOLEAN]
      <4>1. sent + 1 \in Nat
        BY DEF Types
      <4> QED
        BY <3>2, <4>1
    <3> QED
      BY <1>2, <3>1, <3>2
  <2>2. sent' \in Nat
    BY <1>2 DEF Types
  <2>3. quit' \in BOOLEAN
    BY <1>2, Zenon DEF Types
  <2> QED
    BY <1>1, <2>1, <2>2, <2>3 DEF Types, poller, fpga
<1>4. Locks'
  BY <1>1, <1>2 DEF Types, Locks, poller, fpga
<1>5. Framing' /\ SemaphoreBalanced' /\ RoutedToIssuer'
  BY <1>1 DEF Framing, Holding, SemaphoreBalanced, RoutedToIssuer, poller, fpga
<1>6. InOrder'
  <2>1. Fresh' => cmd'.tag = sent' /\ sent' > 0 /\ cmd'.core \in Cores
    BY <1>1, <1>2 DEF Types, Fresh
  <2>2. sent' \in Nat /\ sent \in Nat /\ sent <= sent' /\ (Fresh' => sent < sent')
    BY <1>1, <1>2 DEF Types, Fresh
  <2>3. \A c \in DOMAIN in_flight : \A i \in 1 .. Len(in_flight[c]) : in_flight[c][i] \in Nat
    BY DEF Types
  <2>4. \A c \in DOMAIN in_flight : \A i \in 1 .. Len(in_flight[c]) :
          /\ 0 < in_flight[c][i] /\ in_flight[c][i] <= sent'
          /\ Fresh' => in_flight[c][i] < sent'
          /\ \A j \in 1 .. i - 1 : in_flight[c][j] < in_flight[c][i]
    BY <2>2, <2>3 DEF InOrder
  <2> QED
    BY <1>1, <2>1, <2>4 DEF InOrder, Holding, poller, fpga
<1>7. Tracking'
  BY <1>1 DEF Tracking, Outstanding, Tracked, Executed, Holding, InFlightOf, poller, fpga
<1> QED
  BY <1>3, <1>4, <1>5, <1>6, <1>7

(* The server's steps that only take or give a lock, or wake the poller.  *)
LEMMA ServerLockStep == ASSUME IInv, ServerLock \/ ServerQuit \/ ServerTakeBus \/ ServerGiveBus
                        PROVE  IInv'
<1> USE DEF IInv
<1>1. UNCHANGED <<cmd, quit, sent, poller, in_flight, answered, processes_waiting, posted, fpga>>
  BY DEF ServerLock, ServerQuit, ServerTakeBus, ServerGiveBus
<1>2. \/ spc = "lock" /\ spc' = "locked" /\ beat' = beat
      \/ spc = "locked" /\ spc' = "gone" /\ beat' = beat /\ quit
      \/ spc = "bus" /\ spc' = "beats" /\ beat' = 0
      \/ spc = "beats" /\ spc' = "record" /\ beat = CmdBeats /\ beat' = beat
  BY DEF ServerLock, ServerQuit, ServerTakeBus, ServerGiveBus, ServerAt
<1>3. Types'
  <2>1. beat' \in Nat
    BY <1>2 DEF Types
  <2> QED
    BY <1>1, <2>1 DEF Types, poller, fpga
<1>4. Locks'
  BY <1>1 DEF ServerLock, ServerQuit, ServerTakeBus, ServerGiveBus, ServerAt, Locks, Nobody,
              poller, fpga
<1>5. Framing' /\ SemaphoreBalanced' /\ RoutedToIssuer'
  BY <1>1 DEF Framing, Holding, SemaphoreBalanced, RoutedToIssuer, poller, fpga
<1>6. InOrder'
  BY <1>1, <1>2 DEF InOrder, Types, Fresh, Holding, poller, fpga
<1>7. Executed' = Executed
  BY <1>1, <1>2, FpgaAssumption DEF Executed
<1>8. Tracking'
  BY <1>1, <1>7 DEF Tracking, Outstanding, Tracked, Holding, InFlightOf, poller, fpga
<1> QED
  BY <1>3, <1>4, <1>5, <1>6, <1>8

(* The server wakes the poller before the command goes out.               *)
LEMMA PostStep == ASSUME IInv, ServerPost
                  PROVE  IInv'
<1> USE DEF IInv
<1>1. /\ spc = "locked" /\ spc' = "bus" /\ ~quit
      /\ UNCHANGED <<cmd, quit, beat, sent, poller, bus_lock, cmdserverlock, in_flight, answered, fpga>>
  BY DEF ServerPost, ServerAt
<1>2. processes_waiting' - processes_waiting = posted' - posted
      /\ processes_waiting' \in Nat /\ posted' \in Nat
  BY DEF ServerPost, WakesPoller, Types
<1>3. Types'
  BY <1>1, <1>2 DEF Types, poller, fpga
<1>4. Locks'
  BY <1>1 DEF Locks, poller
<1>5. Framing' /\ RoutedToIssuer'
  BY <1>1 DEF Framing, Holding, RoutedToIssuer, poller, fpga
<1>6. SemaphoreBalanced'
  <2>1. Len(answered) \in Nat /\ processes_waiting \in Nat /\ posted \in Nat
    BY DEF Types
  <2>2. answered' = answered /\ ppc' = ppc
    BY <1>1 DEF poller
  <2> DEFINE k == IF ppc = "wait" THEN 0 ELSE 1
  <2>3. k \in Nat /\ posted = processes_waiting + Len(answered) + k
    BY DEF SemaphoreBalanced
  <2> HIDE DEF k
  <2>4. posted' = processes_waiting' + Len(answered) + k
    BY <1>2, <2>1, <2>3
  <2> QED
    BY <2>2, <2>4 DEF SemaphoreBalanced, k
<1>7. InOrder'
  BY <1>1 DEF InOrder, Types, Fresh, Holding, poller, fpga
<1>8. Tracking'
  BY <1>1 DEF Tracking, Outstanding, Tracked, Executed, Holding, InFlightOf, poller, fpga
<1> QED
  BY <1>3, <1>4, <1>5, <1>6, <1>7, <1>8

(* A beat: with the last one the FPGA has the command, and the server,    *)
(* which is about to record it, still holds cmdserverlock.                *)
LEMMA BeatStep == ASSUME IInv, ServerBeat
                  PROVE  IInv'
<1> USE DEF IInv
<1>1. /\ spc = "beats" /\ spc' = "beats" /\ beat < CmdBeats /\ beat' = beat + 1
      /\ due' = IF beat + 1 = CmdBeats /\ cmd.xd THEN due \cup {cmd} ELSE due
      /\ UNCHANGED <<cmd, quit, sent, poller, bus_lock, cmdserverlock, in_flight,
                     answered, processes_waiting, posted, respq, avail, bad>>
  BY DEF ServerBeat, ServerAt
<1>2. cmd.tag = sent /\ sent > 0 /\ cmd.core \in Cores /\ Fresh
  BY <1>1 DEF InOrder, Fresh
<1>3. Types'
  <2>1. beat' \in Nat
    BY <1>1 DEF Types
  <2>2. \A d \in due' : d.tag \in Nat \ {0} /\ d.core \in Cores
    BY <1>1, <1>2 DEF Types
  <2> QED
    BY <1>1, <2>1, <2>2 DEF Types, poller
<1>4. Locks' /\ Framing' /\ SemaphoreBalanced' /\ RoutedToIssuer'
  BY <1>1 DEF Locks, Framing, Holding, SemaphoreBalanced, RoutedToIssuer, poller
<1>5. ~Executed /\ (Executed' <=> (cmd.xd /\ beat + 1 = CmdBeats))
  BY <1>1, FpgaAssumption DEF Executed, Types
<1>6. \A c \in Cores, t \in Nat \ {0} : Outstanding(c, t) => t < sent
  <2> SUFFICES ASSUME NEW c \in Cores, NEW t \in Nat \ {0}, Tracked(c, t) PROVE t < sent
    BY DEF Tracking
  <2>1. PICK i \in 1 .. Len(InFlightOf(c)) : InFlightOf(c)[i] = t
    BY <1>5 DEF Tracked
  <2> QED
    BY <1>2, <2>1 DEF InOrder, InFlightOf
<1>7. /\ respq # <<>> /\ respq[1].core = cmd.core => respq[1].tag < cmd.tag
      /\ Holding /\ buf[1].core = cmd.core => buf[1].tag < cmd.tag
  <2>1. respq # <<>> => respq[1] \in Responses
    BY DEF Types
  <2>2. Holding => buf[1] \in Responses
    BY DEF Types, Holding
  <2>3. ASSUME respq # <<>>, respq[1].core = cmd.core PROVE respq[1].tag < cmd.tag
    BY <1>2, <1>6, <2>1, <2>3 DEF Outstanding, Responses, Stray
  <2>4. ASSUME Holding, buf[1].core = cmd.core PROVE buf[1].tag < cmd.tag
    BY <1>2, <1>6, <2>2, <2>4 DEF Outstanding, Responses, Stray
  <2> QED
    BY <2>3, <2>4
<1>8. \A d, e \in due' : d.core = e.core /\ d.tag = e.tag => d = e
  <2>1. \A d \in due : d.core = cmd.core => d.tag < cmd.tag
    BY <1>2, <1>6 DEF Outstanding, Types
  <2> QED
    BY <1>1, <1>2, <2>1 DEF InOrder, Types
<1>9. InOrder'
  BY <1>1, <1>2, <1>7, <1>8 DEF InOrder, Types, Fresh, Holding, poller
<1>10. Tracking'
  BY <1>1, <1>5 DEF Tracking, Outstanding, Tracked, Holding, InFlightOf, poller
<1> QED
  BY <1>3, <1>4, <1>9, <1>10

(* The command is recorded behind the older ones of its core.             *)
LEMMA RecordStep == ASSUME IInv, ServerRecord
                    PROVE  IInv'
<1> USE DEF IInv
<1>1. /\ spc = "record" /\ spc' = "stall" /\ cmdserverlock' = Nobody
      /\ UNCHANGED <<cmd, quit, beat, sent, poller, bus_lock, answered, processes_waiting,
                     posted, fpga>>
  BY DEF ServerRecord, ServerAt
<1>2. cmd.tag = sent /\ sent > 0 /\ cmd.core \in Cores /\ Fresh /\ sent \in Nat
  BY <1>1 DEF InOrder, Fresh, Types
<1>3. Locks' /\ Framing' /\ SemaphoreBalanced' /\ RoutedToIssuer'
  BY <1>1 DEF Locks, Nobody, Framing, Holding, SemaphoreBalanced, RoutedToIssuer, poller, fpga
<1>4. ~Fresh' /\ ~Executed' /\ (Executed <=> cmd.xd)
  BY <1>1 DEF Fresh, Executed, Locks
<1>5. CASE ~cmd.xd
  <2>1. in_flight' = in_flight
    BY <1>5 DEF ServerRecord
  <2>2. Types'
    BY <1>1, <2>1 DEF Types, poller, fpga
  <2>3. InOrder'
    BY <1>1, <1>4, <2>1 DEF InOrder, Holding, poller, fpga
  <2>4. Tracking'
    BY <1>1, <1>4, <1>5, <2>1 DEF Tracking, Outstanding, Tracked, Holding, InFlightOf, poller, fpga
  <2> QED
    BY <1>3, <2>2, <2>3, <2>4
<1>6. CASE cmd.xd
  <2> DEFINE old == InFlightOf(cmd.core)
             new == Append(old, sent)
  <2>1. in_flight' = [c \in DOMAIN in_flight \cup {cmd.core} |->
                        IF c = cmd.core THEN new ELSE in_flight[c]]
    BY <1>2, <1>6 DEF ServerRecord
  <2>2. old \in Seq(Nat)
    BY DEF InFlightOf, Types
  <2>3. new \in Seq(Nat) /\ Len(new) = Len(old) + 1 /\ new[Len(old) + 1] = sent
        /\ \A i \in 1 .. Len(old) : new[i] = old[i]
    BY <1>2, <2>2, AppendProperties
  <2>4. Len(old) \in Nat
    BY <2>2
  <2>5. \A i \in 1 .. Len(old) : 0 < old[i] /\ old[i] < sent /\ old[i] \in Nat
                                  /\ \A j \in 1 .. i - 1 : old[j] < old[i]
    BY <1>2, <2>2 DEF InOrder, InFlightOf, Types
  <2>6. Types'
    BY <1>1, <1>2, <2>1, <2>3 DEF Types, poller, fpga
  <2>7. \A i \in 1 .. Len(new) : 0 < new[i] /\ new[i] <= sent
                                  /\ \A j \in 1 .. i - 1 : new[j] < new[i]
    BY <1>2, <2>3, <2>4, <2>5
  <2>8. InOrder'
    <3>1. \A c \in DOMAIN in_flight' : \A i \in 1 .. Len(in_flight'[c]) :
            /\ 0 < in_flight'[c][i] /\ in_flight'[c][i] <= sent
            /\ \A j \in 1 .. i - 1 : in_flight'[c][j] < in_flight'[c][i]
      BY <2>1, <2>7 DEF InOrder
    <3> QED
      BY <1>1, <1>4, <3>1 DEF InOrder, Holding, poller, fpga
  <2>9. \A c \in Cores, t \in Nat \ {0} : Tracked(c, t)' <=> Tracked(c, t)
    <3> SUFFICES ASSUME NEW c \in Cores, NEW t \in Nat \ {0} PROVE Tracked(c, t)' <=> Tracked(c, t)
      OBVIOUS
    <3>1. CASE c = cmd.core
      <4>1. InFlightOf(c)' = new
        BY <2>1, <3>1 DEF InFlightOf
      <4>2. (\E i \in 1 .. Len(new) : new[i] = t)
              <=> (\E i \in 1 .. Len(old) : old[i] = t) \/ t = sent
        BY <2>3, <2>4
      <4> QED
        BY <1>2, <1>4, <1>6, <3>1, <4>1, <4>2 DEF Tracked
    <3>2. CASE c # cmd.core
      <4>1. InFlightOf(c)' = InFlightOf(c)
        BY <2>1, <3>2 DEF InFlightOf
      <4> QED
        BY <1>4, <3>2, <4>1 DEF Tracked
    <3> QED
      BY <3>1, <3>2
  <2>10. Tracking'
    BY <1>1, <2>9 DEF Tracking, Outstanding, Holding, poller, fpga
  <2> QED
    BY <1>3, <2>6, <2>8, <2>10
<1> QED
  BY <1>5, <1>6

-----------------------------------------------------------------------------
(* The poller's steps that change nothing but where it is.                *)
LEMMA PollStep == ASSUME IInv, PollerAgain \/ PollerSeesWord \/ PollerLock
                  PROVE  IInv'
<1> USE DEF IInv
<1>1. UNCHANGED <<server, buf, bus_lock, in_flight, answered, processes_waiting, posted, fpga>>
  BY DEF PollerAgain, PollerSeesWord, PollerLock
<1>2. \/ ppc = "poll" /\ ppc' = "poll" /\ cmdserverlock' = cmdserverlock
      \/ ppc = "poll" /\ ppc' = "read" /\ avail /\ cmdserverlock' = cmdserverlock
      \/ ppc = "register" /\ ppc' = "registering" /\ cmdserverlock = Nobody
         /\ cmdserverlock' = "poller"
  BY DEF PollerAgain, PollerSeesWord, PollerLock, PollerAt
<1>3. Types'
  BY <1>1 DEF Types, server, fpga
<1>4. Locks'
  BY <1>1, <1>2 DEF Locks, Nobody, server
<1>5. Framing'
  BY <1>1, <1>2 DEF Framing, Holding, fpga
<1>6. SemaphoreBalanced' /\ RoutedToIssuer'
  BY <1>1, <1>2 DEF SemaphoreBalanced, RoutedToIssuer
<1>7. InOrder'
  BY <1>1, <1>2 DEF InOrder, Fresh, Holding, server, fpga
<1>8. Tracking'
  BY <1>1, <1>2 DEF Tracking, Outstanding, Tracked, Executed, Holding, InFlightOf, server, fpga
<1> QED
  BY <1>3, <1>4, <1>5, <1>6, <1>7, <1>8

(* The poller takes one count of its semaphore.                           *)
LEMMA WaitStep == ASSUME IInv, PollerWait
                  PROVE  IInv'
<1> USE DEF IInv
<1>1. /\ ppc = "wait" /\ ppc' = "poll" /\ buf' = <<>>
      /\ processes_waiting > 0 /\ processes_waiting' = processes_waiting - 1
      /\ UNCHANGED <<server, bus_lock, cmdserverlock, in_flight, answered, posted, fpga>>
  BY DEF PollerWait, PollerAt
<1>2. ~Holding /\ ~Holding'
  BY <1>1 DEF Holding
<1>3. Types'
  <2>1. buf' \in Seq(Responses) /\ processes_waiting' \in Nat
    BY <1>1 DEF Types
  <2> QED
    BY <1>1, <2>1 DEF Types, server, fpga
<1>4. Locks' /\ RoutedToIssuer'
  BY <1>1 DEF Locks, RoutedToIssuer, server
<1>5. Framing'
  BY <1>1, <1>2, FpgaAssumption DEF Framing, fpga
<1>6. SemaphoreBalanced'
  <2>1. Len(answered) \in Nat /\ processes_waiting \in Nat /\ posted \in Nat
    BY DEF Types
  <2> QED
    BY <1>1, <2>1 DEF SemaphoreBalanced
<1>7. InOrder'
  BY <1>1, <1>2 DEF InOrder, Fresh, server, fpga
<1>8. Tracking'
  BY <1>1, <1>2 DEF Tracking, Outstanding, Tracked, Executed, InFlightOf, server, fpga
<1> QED
  BY <1>3, <1>4, <1>5, <1>6, <1>7, <1>8

(* A word moves from the device to the poller: the response it belongs to *)
(* is the same before and after.                                          *)
LEMMA ReadStep == ASSUME IInv, PollerReadWord
                  PROVE  IInv'
<1> USE DEF IInv
<1>1. /\ ppc = "read" /\ ppc' = (IF Len(buf) + 1 = RespWords THEN "register" ELSE "poll")
      /\ buf' = Append(buf, Head(respq)) /\ respq' = Tail(respq) /\ avail' = FALSE
      /\ UNCHANGED <<server, bus_lock, cmdserverlock, in_flight, answered, processes_waiting,
                     posted, due>>
  BY DEF PollerReadWord, PollerAt, RespDone
<1>2. respq # <<>> /\ respq \in Seq(Responses) /\ buf \in Seq(Responses)
  BY <1>1 DEF Framing, Types
<1>3. Len(respq) \in Nat \ {0} /\ Len(buf) \in Nat /\ RespWords \in Nat \ {0}
  BY <1>2, FpgaAssumption
<1>4. /\ respq' \in Seq(Responses) /\ Len(respq') = Len(respq) - 1
      /\ \A i \in 1 .. Len(respq') : respq'[i] = respq[1]
      /\ Head(respq) = respq[1] /\ respq[1] \in Responses
  <2>1. \A i \in 1 .. Len(respq) : respq[i] = respq[1]
    BY DEF Framing
  <2>2. Head(respq) = respq[1] /\ respq[1] \in Responses
    BY <1>2, <1>3, HeadTailProperties
  <2>3. Tail(respq) \in Seq(Responses) /\ Len(Tail(respq)) = Len(respq) - 1
        /\ \A i \in 1 .. Len(Tail(respq)) : Tail(respq)[i] = respq[i + 1]
    BY <1>2, <1>3, HeadTailProperties
  <2> QED
    BY <1>1, <1>3, <2>1, <2>2, <2>3
<1>5. /\ buf' \in Seq(Responses) /\ Len(buf') = Len(buf) + 1 /\ buf' # <<>>
      /\ buf'[1] = respq[1]
  <2>1. buf # <<>> => respq[1] = buf[1]
    BY <1>1 DEF Framing
  <2> QED
    BY <1>1, <1>2, <1>3, <1>4, <2>1
<1>6. Len(buf) < RespWords
      /\ (IF buf = <<>> THEN Len(respq) = RespWords ELSE Len(buf) + Len(respq) = RespWords)
  BY <1>1, <1>2 DEF Framing
<1>7. Len(buf) + Len(respq) = RespWords
  BY <1>2, <1>3, <1>6
<1>8. Types'
  BY <1>1, <1>4, <1>5 DEF Types, server
<1>9. Locks' /\ SemaphoreBalanced' /\ RoutedToIssuer'
  BY <1>1 DEF Locks, SemaphoreBalanced, RoutedToIssuer, server
<1>10. respq' # <<>> <=> ppc' = "poll"
  <2>1. respq' = <<>> <=> Len(respq') = 0
    BY <1>4, EmptySeq
  <2> QED
    BY <1>1, <1>3, <1>4, <1>7, <2>1
<1>11. respq' # <<>> => respq'[1] = respq[1]
  BY <1>4, EmptySeq
<1>12. Framing'
  <2>1. (respq[1].tag = Stray) = (respq[1].core = "none")
    BY <1>2 DEF Framing
  <2>2. ppc' = "poll" => Len(buf') < RespWords /\ Len(buf') + Len(respq') = RespWords
    BY <1>1, <1>3, <1>4, <1>5, <1>6, <1>7
  <2> QED
    BY <1>1, <1>4, <1>5, <1>10, <1>11, <2>1, <2>2 DEF Framing, Holding
<1>13. InOrder'
  <2>1. \A d \in due : respq[1].core = d.core => respq[1].tag < d.tag
    BY <1>2 DEF InOrder
  <2> QED
    BY <1>1, <1>5, <1>10, <1>11, <2>1 DEF InOrder, Fresh, Holding, server
<1>14. \A c \in Cores, t \in Nat \ {0} : Outstanding(c, t)' <=> Outstanding(c, t)
  <2>1. Holding' /\ (Holding => buf[1] = respq[1])
    BY <1>1, <1>5 DEF Holding, Framing
  <2> QED
    BY <1>1, <1>2, <1>5, <1>11, <2>1 DEF Outstanding
<1>15. Tracking'
  BY <1>1, <1>14 DEF Tracking, Tracked, Executed, InFlightOf, server
<1> QED
  BY <1>8, <1>9, <1>12, <1>13, <1>15

(* The poller has cmdserverlock, so every outstanding command is recorded *)
(* and the response it holds is due to the oldest one of its core.        *)
LEMMA OldestAnswered == ASSUME IInv, ppc = "registering", buf[1].tag # Stray
                        PROVE  LET c == buf[1].core
                                   q == in_flight[c]
                               IN  /\ c \in Cores /\ c \in DOMAIN in_flight
                                   /\ q \in Seq(Nat) /\ q # <<>> /\ Head(q) = buf[1].tag
<1> USE DEF IInv
<1> DEFINE c == buf[1].core
           t == buf[1].tag
           q == in_flight[c]
<1>1. Holding /\ buf[1] \in Responses
  BY DEF Framing, Holding, Types
<1>2. c \in Cores /\ t \in Nat \ {0}
  BY <1>1 DEF Framing, Responses, Stray
<1>3. ~Executed
  BY DEF Locks, Executed
<1>4. Outstanding(c, t)
  BY <1>1 DEF Outstanding
<1>5. PICK i \in 1 .. Len(InFlightOf(c)) : InFlightOf(c)[i] = t
  BY <1>2, <1>3, <1>4 DEF Tracking, Tracked
<1>6. c \in DOMAIN in_flight
  BY <1>5 DEF InFlightOf
<1>7. q \in Seq(Nat) /\ i \in 1 .. Len(q) /\ q[i] = t
  BY <1>5, <1>6 DEF InFlightOf, Types
<1>8. q # <<>> /\ Len(q) \in Nat /\ q[1] = Head(q) /\ q[1] \in Nat
  BY <1>7
<1>9. q[1] <= t /\ 0 < q[1]
  BY <1>6, <1>7, <1>8 DEF InOrder
<1>10. Outstanding(c, q[1])
  <2>1. 1 \in 1 .. Len(InFlightOf(c)) /\ InFlightOf(c)[1] = q[1]
    BY <1>6, <1>7 DEF InFlightOf
  <2> QED
    BY <1>2, <1>8, <1>9, <2>1 DEF Tracking, Tracked
<1>11. t <= q[1]
  <2>1. ASSUME NEW d \in due, d.core = c, d.tag = q[1] PROVE t <= q[1]
    BY <1>1, <1>2, <1>8, <2>1 DEF InOrder
  <2>2. ASSUME respq # <<>>, respq[1].core = c, respq[1].tag = q[1] PROVE t <= q[1]
    BY <1>2, <1>8, <2>2 DEF InOrder
  <2> QED
    BY <1>2, <1>10, <2>1, <2>2 DEF Outstanding
<1> QED
  BY <1>2, <1>6, <1>7, <1>8, <1>9, <1>11

(* The response is registered with the command it answers.                *)
LEMMA RegisterStep == ASSUME IInv, Register
                      PROVE  IInv'
<1> USE DEF IInv
<1> DEFINE c == buf[1].core
           t == buf[1].tag
           q == in_flight[c]
<1>1. /\ ppc = "registering" /\ ppc' = "wait" /\ cmdserverlock' = Nobody
      /\ c \in DOMAIN in_flight
      /\ answered' = Append(answered, <<Head(q), t>>)
      /\ in_flight' = [in_flight EXCEPT ![c] = Tail(q)]
      /\ UNCHANGED <<server, buf, bus_lock, processes_waiting, posted, fpga>>
  BY DEF Register, PollerAt, OldestWaiter
<1>2. t # Stray
  BY <1>1, FpgaAssumption DEF Types, Framing, Holding
<1>3. c \in Cores /\ q \in Seq(Nat) /\ q # <<>> /\ Head(q) = t
  BY <1>1, <1>2, OldestAnswered
<1>4. /\ Tail(q) \in Seq(Nat) /\ Len(Tail(q)) = Len(q) - 1 /\ Len(q) \in Nat \ {0}
      /\ \A i \in 1 .. Len(Tail(q)) : Tail(q)[i] = q[i + 1]
      /\ q[1] = t /\ t \in Nat \ {0}
  BY <1>2, <1>3, HeadTailProperties DEF Stray
<1>5. DOMAIN in_flight' = DOMAIN in_flight /\ in_flight'[c] = Tail(q)
      /\ \A k \in DOMAIN in_flight \ {c} : in_flight'[k] = in_flight[k]
  BY <1>1
<1>6. /\ answered' \in Seq(Nat \X Nat) /\ Len(answered') = Len(answered) + 1
      /\ answered'[Len(answered) + 1] = <<t, t>>
      /\ \A i \in 1 .. Len(answered) : answered'[i] = answered[i]
  <2>1. <<t, t>> \in Nat \X Nat /\ answered \in Seq(Nat \X Nat)
    BY <1>4 DEF Types
  <2> QED
    BY <1>1, <1>3, <2>1, AppendProperties
<1>7. Types'
  <2>1. in_flight' \in [DOMAIN in_flight' -> Seq(Nat)]
    BY <1>1, <1>4 DEF Types
  <2> QED
    BY <1>1, <1>5, <1>6, <2>1 DEF Types, server, fpga
<1>8. Locks'
  BY <1>1 DEF Locks, Nobody, server
<1>9. Framing'
  BY <1>1 DEF Framing, Holding, fpga
<1>10. SemaphoreBalanced'
  <2>1. Len(answered) \in Nat /\ processes_waiting \in Nat /\ posted \in Nat
    BY DEF Types
  <2> QED
    BY <1>1, <1>6, <2>1 DEF SemaphoreBalanced
<1>11. RoutedToIssuer'
  <2>1. Len(answered) \in Nat /\ DOMAIN answered = 1 .. Len(answered)
        /\ DOMAIN answered' = 1 .. Len(answered')
    BY <1>6 DEF Types
  <2>2. \A i \in 1 .. Len(answered) : answered'[i][1] = answered'[i][2]
    BY <1>6, <2>1 DEF RoutedToIssuer
  <2>3. <<t, t>>[1] = <<t, t>>[2]
    OBVIOUS
  <2>4. \A i \in DOMAIN answered' : i \in 1 .. Len(answered) \/ i = Len(answered) + 1
    BY <1>6, <2>1
  <2> QED
    BY <1>6, <2>2, <2>3, <2>4 DEF RoutedToIssuer
<1>12. InOrder'
  <2>1. \A i \in 1 .. Len(Tail(q)) :
          /\ 0 < Tail(q)[i] /\ Tail(q)[i] <= sent /\ (Fresh => Tail(q)[i] < sent)
          /\ \A j \in 1 .. i - 1 : Tail(q)[j] < Tail(q)[i]
    <3>1. \A i \in 1 .. Len(q) :
            /\ 0 < q[i] /\ q[i] <= sent /\ (Fresh => q[i] < sent)
            /\ \A j \in 1 .. i - 1 : q[j] < q[i]
      BY <1>1 DEF InOrder
    <3>2. \A i \in 1 .. Len(Tail(q)) : i + 1 \in 1 .. Len(q)
      BY <1>4
    <3>3. \A i \in 1 .. Len(Tail(q)) : \A j \in 1 .. i - 1 :
            j \in 1 .. Len(Tail(q)) /\ j + 1 \in 1 .. (i + 1) - 1
      BY <1>4
    <3> QED
      BY <1>4, <3>1, <3>2, <3>3
  <2>2. Fresh' = Fresh /\ sent' = sent
    BY <1>1 DEF Fresh, server
  <2>3. \A k \in DOMAIN in_flight' : \A i \in 1 .. Len(in_flight'[k]) :
          /\ 0 < in_flight'[k][i] /\ in_flight'[k][i] <= sent'
          /\ Fresh' => in_flight'[k][i] < sent'
          /\ \A j \in 1 .. i - 1 : in_flight'[k][j] < in_flight'[k][i]
    BY <1>5, <2>1, <2>2 DEF InOrder
  <2> QED
    BY <1>1, <2>2, <2>3 DEF InOrder, Holding, server, fpga
<1>13. \A k \in Cores, u \in Nat \ {0} : Outstanding(k, u)' <=> Outstanding(k, u) /\ ~(k = c /\ u = t)
  <2>1. Holding /\ ~Holding'
    BY <1>1 DEF Holding, Framing
  <2>2. \A d \in due : ~(d.core = c /\ d.tag = t)
    BY <1>4, <2>1 DEF InOrder, Types
  <2>3. ~(respq # <<>> /\ respq[1].core = c /\ respq[1].tag = t)
    BY <1>1, <1>2, <1>4 DEF InOrder
  <2> QED
    BY <1>1, <2>1, <2>2, <2>3 DEF Outstanding, fpga
<1>14. \A k \in Cores, u \in Nat \ {0} : Tracked(k, u)' <=> Tracked(k, u) /\ ~(k = c /\ u = t)
  <2> SUFFICES ASSUME NEW k \in Cores, NEW u \in Nat \ {0}
               PROVE  Tracked(k, u)' <=> Tracked(k, u) /\ ~(k = c /\ u = t)
    OBVIOUS
  <2>1. ~Executed /\ ~Executed'
    BY <1>1 DEF Locks, Executed, server
  <2>2. CASE k = c
    <3>1. InFlightOf(k) = q /\ InFlightOf(k)' = Tail(q)
      BY <1>1, <1>5, <2>2 DEF InFlightOf
    <3>2. \A i \in 2 .. Len(q) : q[i] # t
      BY <1>1, <1>3, <1>4 DEF InOrder
    <3>3. (\E i \in 1 .. Len(Tail(q)) : Tail(q)[i] = u) <=> (\E i \in 2 .. Len(q) : q[i] = u)
      <4>1. ASSUME NEW i \in 2 .. Len(q), q[i] = u PROVE \E j \in 1 .. Len(Tail(q)) : Tail(q)[j] = u
        <5>1. i - 1 \in 1 .. Len(Tail(q)) /\ (i - 1) + 1 = i
          BY <1>4
        <5> QED
          BY <1>4, <4>1, <5>1
      <4>2. ASSUME NEW i \in 1 .. Len(Tail(q)), Tail(q)[i] = u PROVE \E j \in 2 .. Len(q) : q[j] = u
        <5>1. i + 1 \in 2 .. Len(q)
          BY <1>4
        <5> QED
          BY <1>4, <4>2, <5>1
      <4> QED
        BY <4>1, <4>2
    <3>4. (\E i \in 1 .. Len(q) : q[i] = u) <=> u = t \/ (\E i \in 2 .. Len(q) : q[i] = u)
      BY <1>4
    <3> QED
      BY <2>1, <2>2, <3>1, <3>2, <3>3, <3>4 DEF Tracked
  <2>3. CASE k # c
    <3>1. InFlightOf(k)' = InFlightOf(k)
      BY <1>5, <2>3 DEF InFlightOf
    <3> QED
      BY <2>1, <2>3, <3>1 DEF Tracked
  <2> QED
    BY <2>2, <2>3
<1>15. Tracking'
  BY <1>13, <1>14 DEF Tracking
<1> QED
  BY <1>7, <1>8, <1>9, <1>10, <1>11, <1>12, <1>15

(* A response of no core is dropped: no command waits for it.             *)
LEMMA RegisterBadStep == ASSUME IInv, RegisterBad
                         PROVE  IInv'
<1> USE DEF IInv
<1>1. /\ ppc = "registering" /\ ppc' = "wait" /\ cmdserverlock' = Nobody
      /\ buf[1].core \notin DOMAIN in_flight
      /\ answered' = Append(answered, <<Stray, Stray>>)
      /\ UNCHANGED <<server, buf, bus_lock, in_flight, processes_waiting, posted, fpga>>
  BY DEF RegisterBad, PollerAt
<1>2. Holding /\ ~Holding' /\ buf[1].tag = Stray
  BY <1>1, OldestAnswered DEF Holding, Framing
<1>3. /\ answered' \in Seq(Nat \X Nat) /\ Len(answered') = Len(answered) + 1
      /\ answered'[Len(answered) + 1] = <<Stray, Stray>>
      /\ \A i \in 1 .. Len(answered) : answered'[i] = answered[i]
  <2>1. <<Stray, Stray>> \in Nat \X Nat /\ answered \in Seq(Nat \X Nat)
    BY DEF Types, Stray
  <2> QED
    BY <1>1, <2>1, AppendProperties
<1>4. Types'
  BY <1>1, <1>3 DEF Types, server, fpga
<1>5. Locks'
  BY <1>1 DEF Locks, Nobody, server
<1>6. Framing'
  BY <1>1 DEF Framing, Holding, fpga
<1>7. SemaphoreBalanced'
  <2>1. Len(answered) \in Nat /\ processes_waiting \in Nat /\ posted \in Nat
    BY DEF Types
  <2> QED
    BY <1>1, <1>3, <2>1 DEF SemaphoreBalanced
<1>8. RoutedToIssuer'
  <2>1. Len(answered) \in Nat /\ DOMAIN answered = 1 .. Len(answered)
        /\ DOMAIN answered' = 1 .. Len(answered')
    BY <1>3 DEF Types
  <2>2. ASSUME NEW i \in DOMAIN answered' PROVE answered'[i][1] = answered'[i][2]
    <3>1. CASE i \in 1 .. Len(answered)
      BY <1>3, <2>1, <3>1 DEF RoutedToIssuer
    <3>2. CASE i = Len(answered) + 1
      BY <1>3, <3>2
    <3> QED
      BY <1>3, <2>1, <3>1, <3>2
  <2> QED
    BY <2>2 DEF RoutedToIssuer
<1>9. InOrder'
  BY <1>1 DEF InOrder, Fresh, Holding, server, fpga
<1>10. Tracking'
  <2>1. \A c \in Cores, t \in Nat \ {0} : Outstanding(c, t)' <=> Outstanding(c, t)
    BY <1>1, <1>2 DEF Outstanding, Stray, fpga
  <2>2. ~Executed /\ ~Executed' /\ \A c \in Cores : InFlightOf(c)' = InFlightOf(c)
    BY <1>1 DEF Executed, Locks, InFlightOf, server
  <2>3. \A c \in Cores, t \in Nat \ {0} : Tracked(c, t)' <=> Tracked(c, t)
    BY <2>2 DEF Tracked
  <2> QED
    BY <2>1, <2>3 DEF Tracking
<1> QED
  BY <1>4, <1>5, <1>6, <1>7, <1>8, <1>9, <1>10

-----------------------------------------------------------------------------
(* The FPGA sends the response to the oldest command of some core.        *)
LEMMA RespondStep == ASSUME IInv, HwRespond
                     PROVE  IInv'
<1> USE DEF IInv
<1>1. PICK d \in due : /\ \A e \in due : e.core = d.core => d.tag <= e.tag
                       /\ due' = due \ {d}
                       /\ respq' = [i \in 1 .. RespWords |-> [core |-> d.core, tag |-> d.tag]]
  BY DEF HwRespond
<1>2. respq = <<>> /\ avail' = avail
      /\ UNCHANGED <<server, poller, bus_lock, cmdserverlock, in_flight, answered,
                     processes_waiting, posted>>
  BY DEF HwRespond, FpgaKeep
<1> DEFINE r == [core |-> d.core, tag |-> d.tag]
<1>3. d.core \in Cores /\ d.tag \in Nat \ {0} /\ r \in Responses /\ d.core # "none"
  BY FpgaAssumption DEF Types, Responses
<1>4. respq' \in Seq(Responses) /\ Len(respq') = RespWords /\ respq' # <<>> /\ avail' = FALSE
      /\ \A i \in 1 .. Len(respq') : respq'[i] = r
  BY <1>1, <1>2, <1>3, FpgaAssumption, Repeated DEF Framing
<1>5. respq'[1] = r
  BY <1>4, FpgaAssumption
<1>6. Types'
  BY <1>1, <1>2, <1>4 DEF Types, server, poller
<1>7. Locks' /\ SemaphoreBalanced' /\ RoutedToIssuer'
  BY <1>2 DEF Locks, SemaphoreBalanced, RoutedToIssuer, server, poller
<1>8. Framing'
  BY <1>2, <1>3, <1>4, <1>5 DEF Framing, Holding, Stray, poller
<1>9. InOrder'
  <2>1. \A e \in due' : e.core = d.core => d.tag < e.tag
    BY <1>1, <1>3 DEF InOrder, Types
  <2>2. Holding /\ buf[1].core = d.core => buf[1].tag < d.tag
    BY DEF InOrder
  <2>3. ppc \in {"register", "registering"} => Holding
    BY DEF Framing, Holding
  <2> QED
    BY <1>1, <1>2, <1>5, <2>1, <2>2, <2>3 DEF InOrder, Fresh, Holding, server, poller
<1>10. Tracking'
  <2>1. \A c \in Cores, t \in Nat \ {0} : Outstanding(c, t)' <=> Outstanding(c, t)
    BY <1>1, <1>2, <1>4, <1>5 DEF Outstanding, Holding, poller
  <2> QED
    BY <1>2, <2>1 DEF Tracking, Tracked, Executed, InFlightOf, server
<1> QED
  BY <1>6, <1>7, <1>8, <1>9, <1>10

(* The accelerator offers a response no command asked for.                *)
LEMMA StrayStep == ASSUME IInv, HwBad
                   PROVE  IInv'
<1> USE DEF IInv
<1> DEFINE r == [core |-> "none", tag |-> Stray]
<1>1. /\ respq = <<>> /\ respq' = [i \in 1 .. RespWords |-> r] /\ avail' = avail /\ due' = due
      /\ UNCHANGED <<server, poller, bus_lock, cmdserverlock, in_flight, answered,
                     processes_waiting, posted>>
  BY DEF HwBad, FpgaKeep
<1>2. r \in Responses
  BY DEF Responses, Stray
<1>3. respq' \in Seq(Responses) /\ Len(respq') = RespWords /\ respq' # <<>> /\ avail' = FALSE
      /\ \A i \in 1 .. Len(respq') : respq'[i] = r
  BY <1>1, <1>2, FpgaAssumption, Repeated DEF Framing
<1>4. respq'[1] = r
  BY <1>3, FpgaAssumption
<1>5. Types'
  BY <1>1, <1>3 DEF Types, server, poller
<1>6. Locks' /\ SemaphoreBalanced' /\ RoutedToIssuer'
  BY <1>1 DEF Locks, SemaphoreBalanced, RoutedToIssuer, server, poller
<1>7. Framing'
  <2>1. respq'[1].tag = Stray /\ respq'[1].core = "none"
    BY <1>4
  <2>2. \A i \in 1 .. Len(respq') : respq'[i] = respq'[1]
    BY <1>3, <1>4
  <2>3. ~(ppc \in {"poll", "read"} /\ buf # <<>>) /\ ppc # "read"
    BY <1>1, FpgaAssumption DEF Framing, Types
  <2> QED
    BY <1>1, <1>3, <2>1, <2>2, <2>3 DEF Framing, Holding, poller
<1>8. InOrder'
  <2>1. \A d \in due : d.core # "none"
    BY FpgaAssumption DEF Types
  <2>2. ppc \in {"register", "registering"} /\ buf[1].core = "none" => buf[1].tag = Stray
    BY DEF Framing, Holding
  <2> QED
    BY <1>1, <1>4, <2>1, <2>2 DEF InOrder, Fresh, Holding, server, poller
<1>9. Tracking'
  <2>1. \A c \in Cores, t \in Nat \ {0} : Outstanding(c, t)' <=> Outstanding(c, t)
    BY <1>1, <1>4, FpgaAssumption DEF Outstanding, Holding, poller
  <2> QED
    BY <1>1, <2>1 DEF Tracking, Tracked, Executed, InFlightOf, server
<1> QED
  BY <1>5, <1>6, <1>7, <1>8, <1>9

(* The accelerator becomes ready or shows that it has a response.         *)
LEMMA ReadyStep == ASSUME IInv, HwReady \/ HwAvail
                   PROVE  IInv'
<1> USE DEF IInv
<1>1. /\ (avail' => respq # <<>>) /\ (avail => avail')
      /\ UNCHANGED <<server, poller, bus_lock, cmdserverlock, in_flight, answered,
                     processes_waiting, posted, due, respq>>
  BY DEF HwReady, HwAvail, FpgaKeep, Framing
<1>2. Types' /\ Locks' /\ SemaphoreBalanced' /\ RoutedToIssuer'
  BY <1>1 DEF Types, Locks, SemaphoreBalanced, RoutedToIssuer, server, poller
<1>3. Framing'
  BY <1>1 DEF Framing, Holding, poller
<1>4. InOrder'
  BY <1>1 DEF InOrder, Fresh, Holding, server, poller
<1>5. Tracking'
  BY <1>1 DEF Tracking, Outstanding, Tracked, Executed, Holding, InFlightOf, server, poller
<1> QED
  BY <1>2, <1>3, <1>4, <1>5

-----------------------------------------------------------------------------
(* Every step preserves the inductive invariant.                          *)
LEMMA NextIInv == IInv /\ [Next]_vars => IInv'
<1> SUFFICES ASSUME IInv, [Next]_vars PROVE IInv'
  OBVIOUS
<1>1. CASE MainStep
  BY <1>1, IdleStep DEF MainStep, MainSetup, MainSetupFails, MainFirstLock, MainWoken, mine
<1>2. CASE ServerStep
  BY <1>2, WokenStep, ServerLockStep, PostStep, BeatStep, RecordStep DEF ServerStep
<1>3. CASE PollerStep
  BY <1>3, WaitStep, PollStep, ReadStep, RegisterStep, RegisterBadStep DEF PollerStep
<1>4. CASE MmioFails
  BY <1>4, IdleStep DEF MmioFails, mine
<1>5. CASE HwStep
  BY <1>5, ReadyStep, RespondStep, StrayStep DEF HwStep
<1>6. CASE UNCHANGED vars
  BY <1>6, IdleStep DEF vars, mine
<1> QED
  BY <1>1, <1>2, <1>3, <1>4, <1>5, <1>6 DEF Next

(* The inductive invariant holds in every reachable state.                *)
THEOREM Invariance == Spec => []IInv
  BY InitIInv, NextIInv, PTL DEF Spec

(* processes_waiting counts exactly the responses nobody has gone to read *)
(* yet (cmd_server.cc:127 against response_poller.cc:20).                 *)
THEOREM SemaphoreExact == Spec => []SemaphoreBalanced
<1>1. IInv => SemaphoreBalanced
  BY DEF IInv
<1> QED
  BY <1>1, Invariance, PTL

(* register_reponse always finds the command it answers, although the     *)
(* poller is woken before the server has recorded the command.            *)
THEOREM WaiterFound == Spec => []ResponseHasWaiter
<1>1. IInv => ResponseHasWaiter
  BY OldestAnswered DEF ResponseHasWaiter, InFlightOf
<1> QED
  BY <1>1, Invariance, PTL

(* Every response is registered with the command it answers, however the  *)
(* cores' responses overtake each other and the server's recording.       *)
THEOREM ResponsesRouted == Spec => []RoutedToIssuer
<1>1. IInv => RoutedToIssuer
  BY DEF IInv
<1> QED
  BY <1>1, Invariance, PTL

(* cmdserverlock and bus_lock exclude: no response is registered while    *)
(* the server is between taking a command and recording it, and the       *)
(* server is the only one to drive the bus while it sends a command.      *)
THEOREM LocksExclude ==
  Spec => [](/\ ~(ppc = "registering" /\ spc \in {"locked", "bus", "beats", "record"})
             /\ (spc = "beats" => ~BusFree))
<1>1. IInv => /\ ~(ppc = "registering" /\ spc \in {"locked", "bus", "beats", "record"})
              /\ (spc = "beats" => ~BusFree)
  BY DEF IInv, Locks, BusFree, Nobody
<1> QED
  BY <1>1, Invariance, PTL

-----------------------------------------------------------------------------
(* Refinement of CommandService.                                          *)
Lines == [c \in Cores |-> InFlightOf(c)]
Answers == {answered[i] : i \in {j \in DOMAIN answered : answered[j][2] # Stray}}

(* Only commands the server has recorded are answered.                    *)
Past == /\ sent <= MaxCmds
        /\ \A x \in Answers : x[1] \in Nat /\ x[1] <= sent /\ (Fresh => x[1] < sent)

(* A response is registered.                                              *)
LEMMA OneAnswer ==
  ASSUME answered \in Seq(Nat \X Nat), NEW e \in Nat \X Nat, answered' = Append(answered, e)
  PROVE  Answers' = IF e[2] # Stray THEN Answers \cup {e} ELSE Answers
<1> DEFINE n == Len(answered) + 1
<1>1. /\ DOMAIN answered' = (DOMAIN answered) \cup {n} /\ n \notin DOMAIN answered
      /\ answered'[n] = e /\ \A i \in DOMAIN answered : answered'[i] = answered[i]
  BY Appended
<1> HIDE DEF n
<1>2. ASSUME NEW x PROVE x \in Answers' <=> x \in Answers \/ (e[2] # Stray /\ x = e)
  BY <1>1 DEF Answers
<1> QED
  BY <1>2

(* What Register does to the lines and the answers.                       *)
LEMMA Registered ==
  ASSUME IInv, Register
  PROVE  \E c \in Cores, t \in Nat \ {0} :
           /\ c \in DOMAIN in_flight /\ in_flight[c] \in Seq(Nat) /\ in_flight[c] # <<>>
           /\ Head(in_flight[c]) = t /\ in_flight' = [in_flight EXCEPT ![c] = Tail(in_flight[c])]
           /\ Answers' = Answers \cup {<<t, t>>} /\ UNCHANGED server
<1> USE DEF IInv
<1> DEFINE c == buf[1].core
           t == buf[1].tag
           q == in_flight[c]
<1>1. /\ ppc = "registering" /\ c \in DOMAIN in_flight
      /\ answered' = Append(answered, <<Head(q), t>>)
      /\ in_flight' = [in_flight EXCEPT ![c] = Tail(q)] /\ UNCHANGED server
  BY DEF Register, PollerAt, OldestWaiter
<1>2. t # Stray
  BY <1>1, FpgaAssumption DEF Types, Framing, Holding
<1>3. c \in Cores /\ q \in Seq(Nat) /\ q # <<>> /\ Head(q) = t
  BY <1>1, <1>2, OldestAnswered
<1>4. t \in Nat \ {0}
  BY <1>2, <1>3, HeadTailProperties DEF Stray
<1>5. <<t, t>> \in Nat \X Nat /\ <<t, t>>[2] # Stray /\ answered \in Seq(Nat \X Nat)
  BY <1>2, <1>4 DEF Types
<1>6. Answers' = Answers \cup {<<t, t>>}
  BY <1>1, <1>3, <1>5, OneAnswer
<1> HIDE DEF c, t
<1> QED
  BY <1>1, <1>3, <1>4, <1>6

(* A stray response answers nobody.                                       *)
LEMMA StrayUnnoticed == ASSUME IInv, RegisterBad PROVE Answers' = Answers /\ UNCHANGED <<server, in_flight>>
<1>1. answered' = Append(answered, <<Stray, Stray>>) /\ UNCHANGED <<server, in_flight>>
  BY DEF RegisterBad
<1>2. answered \in Seq(Nat \X Nat) /\ <<Stray, Stray>> \in Nat \X Nat
  BY DEF IInv, Types, Stray
<1>3. <<Stray, Stray>>[2] = Stray
  OBVIOUS
<1>4. Answers' = Answers
  BY <1>1, <1>2, <1>3, OneAnswer
<1> QED
  BY <1>1, <1>4

(* The steps the service does not notice.                                 *)
Silent == /\ UNCHANGED <<in_flight, sent>> /\ Answers' = Answers /\ (Fresh' => Fresh)

(* Steps other than taking, recording and answering a command.            *)
LEMMA SilentStep ==
  ASSUME IInv, [Next]_vars, ~ServerWoken, ~ServerRecord, ~Register
  PROVE  Silent
<1> USE DEF Silent
<1>1. CASE RegisterBad
  BY <1>1, StrayUnnoticed DEF server, Fresh
<1>2. CASE UNCHANGED <<spc, quit, sent, in_flight, answered>>
  BY <1>2 DEF Fresh, Answers
<1>3. CASE ServerLock \/ ServerQuit \/ ServerPost \/ ServerTakeBus \/ ServerBeat \/ ServerGiveBus
  <2>1. UNCHANGED <<quit, sent, in_flight, answered>>
    BY <1>3 DEF ServerLock, ServerQuit, ServerPost, ServerTakeBus, ServerBeat, ServerGiveBus
  <2>2. Fresh' => Fresh
    BY <1>3, <2>1 DEF ServerLock, ServerQuit, ServerPost, ServerTakeBus, ServerBeat, ServerGiveBus,
       ServerAt, Fresh
  <2>3. Answers' = Answers
    BY <2>1 DEF Answers
  <2> QED
    BY <2>1, <2>2, <2>3
<1>4. CASE MainStep \/ MmioFails \/ HwStep \/ UNCHANGED vars
  BY <1>2, <1>4 DEF MainStep, MainSetup, MainSetupFails, MainFirstLock, MainWoken, MmioFails,
     HwStep, HwReady, HwRespond, HwBad, HwAvail, FpgaKeep, vars, server
<1>5. CASE PollerWait \/ PollerAgain \/ PollerSeesWord \/ PollerReadWord \/ PollerLock
  BY <1>2, <1>5 DEF PollerWait, PollerAgain, PollerSeesWord, PollerReadWord, PollerLock, server
<1> QED
  BY <1>1, <1>3, <1>4, <1>5 DEF Next, ServerStep, PollerStep

(* A command is answered after it was recorded, and recorded once.        *)
LEMMA PastStep == ASSUME IInv, Past, [Next]_vars PROVE Past'
<1>1. sent \in Nat /\ MaxCmds \in Nat
  BY FpgaAssumption DEF IInv, Types
<1>2. CASE ServerWoken
  <2>1. /\ answered' = answered /\ spc' = "lock"
        /\ (sent' = sent + 1 /\ sent < MaxCmds) \/ (sent' = sent /\ quit')
    BY <1>2 DEF ServerWoken, ServerAt
  <2>2. Answers' = Answers
    BY <2>1 DEF Answers
  <2>3. sent' \in Nat /\ sent' <= MaxCmds /\ sent <= sent' /\ (Fresh' => sent < sent')
    BY <1>1, <2>1 DEF Fresh, Past
  <2> QED
    BY <1>1, <2>2, <2>3 DEF Past
<1>3. CASE ServerRecord
  <2>1. answered' = answered /\ sent' = sent /\ ~Fresh'
    BY <1>3 DEF ServerRecord, ServerAt, Fresh
  <2>2. Answers' = Answers
    BY <2>1 DEF Answers
  <2> QED
    BY <2>1, <2>2 DEF Past
<1>4. CASE Register
  <2>1. PICK c \in Cores, t \in Nat \ {0} :
          /\ c \in DOMAIN in_flight /\ in_flight[c] \in Seq(Nat) /\ in_flight[c] # <<>>
          /\ Head(in_flight[c]) = t /\ Answers' = Answers \cup {<<t, t>>} /\ UNCHANGED server
    BY <1>4, Registered
  <2>2. in_flight[c][1] = t /\ 1 \in 1 .. Len(in_flight[c])
    BY <2>1
  <2>3. t <= sent /\ (Fresh => t < sent)
    BY <2>1, <2>2 DEF IInv, InOrder
  <2>4. <<t, t>>[1] = t
    OBVIOUS
  <2>5. sent' = sent /\ (Fresh' <=> Fresh)
    BY <2>1 DEF server, Fresh
  <2>6. ASSUME NEW x \in Answers' PROVE x[1] \in Nat /\ x[1] <= sent' /\ (Fresh' => x[1] < sent')
    BY <2>1, <2>3, <2>4, <2>5 DEF Past
  <2> QED
    BY <2>5, <2>6 DEF Past
<1>5. CASE Silent
  BY <1>5 DEF Silent, Past
<1> QED
  BY <1>2, <1>3, <1>4, <1>5, SilentStep

(* Nothing is answered at first.                                          *)
LEMMA InitPast == Init => Past
<1> SUFFICES ASSUME Init PROVE Past
  OBVIOUS
<1>1. Answers = {} /\ sent = 0 /\ MaxCmds \in Nat
  BY FpgaAssumption DEF Init, Answers
<1> QED
  BY <1>1 DEF Past

-----------------------------------------------------------------------------
(* The service begins with empty lines.                                   *)
LEMMA InitService == Init => Service!Init
<1> SUFFICES ASSUME Init PROVE Service!Init
  OBVIOUS
<1>1. Lines = [c \in Cores |-> <<>>] /\ Answers = {}
  BY DEF Init, Lines, InFlightOf, Answers
<1> QED
  BY <1>1 DEF Service!Init, Lines, Answers

(* A recorded command joins its core's line.                              *)
LEMMA SubmitService == ASSUME IInv, Past, ServerRecord PROVE [Service!Next]_(Service!vars)
<1> USE DEF IInv
<1>1. spc = "record" /\ answered' = answered /\ Fresh
  BY DEF ServerRecord, ServerAt, Fresh
<1>2. Answers' = Answers
  BY <1>1 DEF Answers
<1>3. PICK t \in Tags, c \in Cores : cmd.tag = t /\ cmd.core = c /\ t = sent
  <2>1. cmd.tag = sent /\ sent > 0 /\ cmd.core \in Cores
    BY <1>1 DEF InOrder
  <2>2. sent \in 1 .. MaxCmds
    BY <2>1, FpgaAssumption DEF Types, Past
  <2> QED
    BY <2>1, <2>2 DEF Tags
<1>4. CASE ~cmd.xd
  <2>1. in_flight' = in_flight
    BY <1>4 DEF ServerRecord
  <2>2. Lines' = Lines
    BY <2>1 DEF Lines, InFlightOf
  <2> QED
    BY <1>2, <2>2 DEF Service!vars, Lines, Answers
<1>5. CASE cmd.xd
  <2>1. \A k \in Cores : InFlightOf(k)' = IF k = c THEN Append(InFlightOf(k), t) ELSE InFlightOf(k)
    BY <1>3, <1>5 DEF ServerRecord, InFlightOf
  <2>2. Lines' = [Lines EXCEPT ![c] = Append(Lines[c], t)]
    BY <2>1 DEF Lines
  <2>3. ASSUME NEW x \in Answers PROVE x[1] # t
    BY <1>1, <1>3 DEF Past, Types
  <2>4. ASSUME NEW k \in Cores, NEW i \in DOMAIN Lines[k] PROVE Lines[k][i] # t
    <3>1. Lines[k] = InFlightOf(k)
      BY DEF Lines
    <3>2. k \in DOMAIN in_flight /\ in_flight[k] \in Seq(Nat) /\ Lines[k] = in_flight[k]
      BY <3>1 DEF InFlightOf, Types
    <3>3. i \in 1 .. Len(in_flight[k]) /\ in_flight[k][i] \in Nat
      BY <3>2
    <3>4. in_flight[k][i] < sent /\ sent \in Nat
      BY <1>1, <3>2, <3>3 DEF InOrder, Types
    <3> QED
      BY <1>3, <3>2, <3>3, <3>4
  <2>5. t \notin Service!Everything
    BY <2>3, <2>4 DEF Service!Everything, Lines, Answers
  <2>6. Service!Submit(t, c)
    BY <1>2, <2>2, <2>5 DEF Service!Submit, Lines, Answers
  <2> QED
    BY <2>6 DEF Service!Next
<1> QED
  BY <1>4, <1>5

(* A registered response answers the head of its core's line.             *)
LEMMA AnswerService == ASSUME IInv, Register PROVE [Service!Next]_(Service!vars)
<1>1. PICK c \in Cores, t \in Nat \ {0} :
        /\ c \in DOMAIN in_flight /\ in_flight[c] \in Seq(Nat) /\ in_flight[c] # <<>>
        /\ Head(in_flight[c]) = t /\ in_flight' = [in_flight EXCEPT ![c] = Tail(in_flight[c])]
        /\ Answers' = Answers \cup {<<t, t>>}
  BY Registered
<1>2. Lines[c] # <<>> /\ Head(Lines[c]) = t /\ Lines[c] = in_flight[c]
  BY <1>1 DEF Lines, InFlightOf
<1>3. \A k \in Cores : InFlightOf(k)' = IF k = c THEN Tail(in_flight[c]) ELSE InFlightOf(k)
  BY <1>1 DEF InFlightOf
<1>4. Lines' = [Lines EXCEPT ![c] = Tail(Lines[c])]
  BY <1>2, <1>3 DEF Lines
<1>5. Service!Answer(c)
  BY <1>1, <1>2, <1>4 DEF Service!Answer, Lines, Answers
<1> QED
  BY <1>5 DEF Service!Next

(* Whatever else the runtime does, the service stands still.              *)
LEMMA SilentService == ASSUME Silent \/ UNCHANGED <<in_flight, answered>> PROVE UNCHANGED Service!vars
<1>1. in_flight' = in_flight /\ Answers' = Answers
  BY DEF Silent, Answers
<1>2. Lines' = Lines
  BY <1>1 DEF Lines, InFlightOf
<1> QED
  BY <1>1, <1>2 DEF Service!vars, Lines, Answers

(* Every step of the runtime is one step of the service, or none.         *)
LEMMA NextService == ASSUME IInv, Past, [Next]_vars PROVE [Service!Next]_(Service!vars)
<1>1. CASE ServerWoken
  BY <1>1, SilentService DEF ServerWoken
<1>2. CASE ServerRecord
  BY <1>2, SubmitService
<1>3. CASE Register
  BY <1>3, AnswerService
<1> QED
  BY <1>1, <1>2, <1>3, SilentStep, SilentService

(* The server, the poller and their semaphore, bus_lock and cmdserverlock *)
(* implement the command service: every command that asks for a response  *)
(* stands in its core's line once, and the line is answered in order.     *)
THEOREM ServiceImplemented == Spec => ImplementsService
<1>1. IInv /\ Past /\ [Next]_vars => Past' /\ [Service!Next]_(Service!vars)
  BY PastStep, NextService
<1> QED
  BY <1>1, InitPast, InitService, Invariance, PTL DEF Spec, ImplementsService, Service!Spec
=============================================================================
