-------------------------- MODULE KriaRuntimeProofs --------------------------
(***************************************************************************)
(* For any number of segments, requests, cores and commands: the Kria     *)
(* build's data server thread does not disturb the command server and the *)
(* poller it shares bus_lock with, and what clients are told of coherent  *)
(* segments is what the coherence manager was told.                       *)
(***************************************************************************)
EXTENDS KriaRuntime, FpgaRuntimeProofs, FiniteSetTheorems

Add == "ADD_TO_COHERENCE_MANAGER"
Ops == DataOps \cup {"none"}
WordSet == (Nat \X {0, 1}) \cup (Ops \X Nat)

ServedSet == [op : Ops, arg : Nat, arg2 : Nat, id : Nat]

DataTypes ==
  /\ dpc \in {"stall", "handle", "dead", "bus", "words"} /\ word \in 0 .. 5
  /\ request \in [op : Ops, arg : Nat, arg2 : Nat] /\ did \in Nat /\ dops \in Nat
  /\ available_ids \in Seq(Nat) /\ heard \in Seq(WordSet) /\ manager \in Seq(Seq(WordSet))
  /\ served \in Seq(ServedSet)

(* Nobody else touches the bus while a coherence command is written.      *)
BusHeld == (dpc = "words") <=> (bus_lock = "data")

(* The coherence manager has the beginning of the current command, and    *)
(* when all of it is written, the whole.                                  *)
Heard ==
  /\ dpc # "words" => heard = <<>>
  /\ dpc = "words" /\ word < 5 => /\ Len(heard) = word
                                  /\ \A i \in 1 .. word : heard[i] = Words(request, did)[i]
  /\ dpc = "words" /\ word = 5 => heard = <<>> /\ manager[Len(manager)] = Words(request, did)

Told ==
  /\ Len(manager) = Len(served) + (IF dpc = "words" /\ word = 5 THEN 1 ELSE 0)
  /\ \A i \in DOMAIN served : manager[i] = Words(served[i], served[i].id)

Adds == {i \in DOMAIN served : served[i].op = Add}

(* An ADD has taken its ID and is not answered yet.                       *)
Adding == request.op = Add /\ dpc \in {"bus", "words"}

(* available_ids counts down: what it has lost is taken, once.            *)
IdsTaken ==
  LET n == Len(available_ids)
      k == Cardinality(Adds) + (IF Adding THEN 1 ELSE 0)
  IN  /\ n <= HAS_COHERENCE /\ \A i \in 1 .. n : available_ids[i] = i - 1
      /\ n + k >= HAS_COHERENCE /\ (n > 0 => n + k = HAS_COHERENCE)
      /\ Cardinality(Adds) <= HAS_COHERENCE =>
           \A i, j \in Adds : /\ served[i].id \in n .. HAS_COHERENCE - 1
                              /\ served[i].id = served[j].id => i = j
      /\ Adding /\ Cardinality(Adds) < HAS_COHERENCE =>
           did \in n .. HAS_COHERENCE - 1 /\ \A i \in Adds : served[i].id # did

DataInv == DataTypes /\ BusHeld /\ Heard /\ Told /\ IdsTaken

KIInv == IInv /\ DataInv

-----------------------------------------------------------------------------
(* The constants.                                                         *)
LEMMA SegmentsExist == HAS_COHERENCE \in Nat \ {0}
BY KriaAssumption

(* A coherence command is five words.                                     *)
LEMMA WordsType ==
  ASSUME NEW r, r.op \in Ops, r.arg \in Nat, r.arg2 \in Nat, NEW i \in Nat
  PROVE  Words(r, i) \in Seq(WordSet) /\ Len(Words(r, i)) = 5 /\ DOMAIN Words(r, i) = 1 .. 5
<1>1. /\ <<r.arg, 0>> \in WordSet /\ <<r.arg, 1>> \in WordSet /\ <<r.arg2, 0>> \in WordSet
      /\ <<r.arg2, 1>> \in WordSet /\ <<r.op, i>> \in WordSet
  BY DEF WordSet
<1> QED
  BY <1>1 DEF Words

(* The runtime and the data server start without anything to tell.        *)
LEMMA InitKIInv == KInit => KIInv
<1> SUFFICES ASSUME KInit PROVE KIInv
  OBVIOUS
<1> USE DEF KInit
<1>1. IInv
  BY InitIInv
<1>2. available_ids \in Seq(Nat) /\ Len(available_ids) = HAS_COHERENCE
      /\ \A i \in 1 .. HAS_COHERENCE : available_ids[i] = i - 1
  <2>1. \A i \in 1 .. HAS_COHERENCE : i - 1 \in Nat
    BY SegmentsExist
  <2>2. available_ids \in [1 .. HAS_COHERENCE -> Nat]
    BY <2>1
  <2> QED
    BY <2>2, SegmentsExist
<1>3. DataTypes
  BY <1>2 DEF DataTypes, NoRequest, Ops
<1>4. BusHeld /\ Heard /\ Told
  BY DEF BusHeld, Heard, Told, Init, Nobody
<1>5. Adds = {} /\ ~Adding /\ Cardinality(Adds) = 0
  <2>1. Adds = {} /\ ~Adding
    BY DEF Adds, Adding
  <2> QED
    BY <2>1, FS_EmptySet
<1>6. IdsTaken
  BY <1>2, <1>5, SegmentsExist DEF IdsTaken
<1> QED
  BY <1>1, <1>3, <1>4, <1>6 DEF KIInv, DataInv

-----------------------------------------------------------------------------
(* Steps that leave the data server's state alone.                        *)
LEMMA DataKept ==
  ASSUME DataInv, UNCHANGED <<data, heard, manager>>, (bus_lock' = "data") <=> (bus_lock = "data")
  PROVE  DataInv'
<1> USE DEF DataInv, data
<1>1. DataTypes'
  BY DEF DataTypes
<1>2. BusHeld'
  BY DEF BusHeld
<1>3. Heard' /\ Told'
  BY DEF Heard, Told
<1>4. IdsTaken'
  <2>1. Adds' = Adds /\ (Adding' <=> Adding)
    BY DEF Adds, Adding
  <2> QED
    BY <2>1 DEF IdsTaken
<1> QED
  BY <1>1, <1>2, <1>3, <1>4

(* The command server and the poller leave the data server's bus_lock be. *)
LEMMA FpgaStep == ASSUME KIInv, Next, UNCHANGED <<data, coherence>> PROVE KIInv'
<1>1. IInv'
  BY NextIInv DEF KIInv
<1>2. (bus_lock' = "data") <=> (bus_lock = "data")
  <2>1. CASE ServerTakeBus
    BY <2>1 DEF ServerTakeBus, Nobody
  <2>2. CASE ServerGiveBus
    BY <2>2 DEF ServerGiveBus, ServerAt, Nobody, KIInv, IInv, Locks
  <2>3. CASE MainStep \/ PollerStep \/ MmioFails \/ HwStep
    BY <2>3 DEF MainStep, MainSetup, MainSetupFails, MainFirstLock, MainWoken, PollerStep, PollerWait,
       PollerAgain, PollerSeesWord, PollerReadWord, PollerLock, Register, RegisterBad, MmioFails,
       HwStep, HwReady, HwRespond, HwBad, HwAvail, FpgaKeep
  <2>4. CASE ServerWoken \/ ServerLock \/ ServerQuit \/ ServerPost \/ ServerBeat \/ ServerRecord
    BY <2>4 DEF ServerWoken, ServerLock, ServerQuit, ServerPost, ServerBeat, ServerRecord
  <2> QED
    BY <2>1, <2>2, <2>3, <2>4 DEF Next, ServerStep
<1>3. DataInv'
  BY <1>2, DataKept DEF KIInv, coherence
<1> QED
  BY <1>1, <1>3 DEF KIInv

(* The data server's thread and the coherence manager leave the command   *)
(* server, the poller and their bus_lock be.                              *)
LEMMA FpgaKept == ASSUME KIInv, DataStep \/ CoherenceReady PROVE IInv'
<1>1. UNCHANGED mine
  BY DEF DataStep, DataWoken, DataUnsupported, DataFree, DataId, DataTakeBus, DataWord, DataGiveBus,
     CoherenceReady, vars, mine
<1>2. (bus_lock' = "server") <=> (bus_lock = "server")
  <2>1. CASE DataTakeBus
    BY <2>1 DEF DataTakeBus, Nobody
  <2>2. CASE DataGiveBus
    BY <2>2 DEF DataGiveBus, DataAt, Nobody, KIInv, DataInv, BusHeld
  <2>3. CASE DataWoken \/ DataUnsupported \/ DataFree \/ DataId \/ DataWord \/ CoherenceReady
    BY <2>3 DEF DataWoken, DataUnsupported, DataFree, DataId, DataWord, CoherenceReady, vars
  <2> QED
    BY <2>1, <2>2, <2>3 DEF DataStep
<1>3. (bus_lock' = "server") = (bus_lock = "server")
  BY <1>2
<1> QED
  BY <1>1, <1>3, IdleStep DEF KIInv

-----------------------------------------------------------------------------
(* The ADDs answered are finitely many.                                   *)
LEMMA AddsFinite == ASSUME DataTypes PROVE IsFiniteSet(Adds) /\ Cardinality(Adds) \in Nat
<1>1. Len(served) \in Nat /\ DOMAIN served = 1 .. Len(served)
  BY DEF DataTypes
<1>2. IsFiniteSet(1 .. Len(served))
  BY <1>1, FS_Interval
<1>3. Adds \subseteq 1 .. Len(served)
  BY <1>1 DEF Adds
<1>4. IsFiniteSet(Adds)
  BY <1>2, <1>3, FS_Subset
<1> QED
  BY <1>4, FS_CardinalityType

(* A request arrives, or one is turned down.                              *)
LEMMA RequestStep == ASSUME KIInv, DataWoken \/ DataUnsupported \/ DataFree PROVE DataInv'
<1> USE DEF KIInv, DataInv
<1>1. /\ UNCHANGED <<did, word, available_ids, served, heard, manager, bus_lock>>
      /\ dpc \in {"stall", "handle"} /\ dpc' \in {"stall", "handle", "dead"}
  BY DEF DataWoken, DataUnsupported, DataFree, DataAt, coherence, vars
<1>2. Given \subseteq Nat
  <2>1. served \in Seq(ServedSet)
    BY DEF DataTypes
  <2>2. \A i \in DOMAIN served : served[i] \in ServedSet
    BY <2>1, ElementOf
  <2>3. \A i \in DOMAIN served : served[i].id \in Nat
    BY <2>2 DEF ServedSet
  <2> QED
    BY <2>3 DEF Given
<1>3. request' \in [op : Ops, arg : Nat, arg2 : Nat] /\ dops' \in Nat
  <2>1. request \in [op : Ops, arg : Nat, arg2 : Nat] /\ dops \in Nat
    BY DEF DataTypes
  <2>2. CASE DataWoken
    <3>1. Region(dops) \in Nat /\ Length(dops) \in Nat /\ dops' \in Nat
      BY <2>1, <2>2, SegmentsExist DEF Region, Length, DataWoken
    <3>2. PICK op \in DataOps, a \in Given \cup {Region(dops)} :
            request' = [op |-> op, arg |-> a, arg2 |-> Length(dops)]
      BY <2>2 DEF DataWoken
    <3>3. op \in Ops /\ a \in Nat
      BY <1>2, <3>1 DEF Ops
    <3> QED
      BY <3>1, <3>2, <3>3
  <2>3. CASE DataUnsupported \/ DataFree
    BY <2>1, <2>3 DEF DataUnsupported, DataFree
  <2> QED
    BY <2>2, <2>3
<1>4. DataTypes'
  BY <1>1, <1>3 DEF DataTypes
<1>5. BusHeld'
  BY <1>1 DEF BusHeld
<1>6. Heard' /\ Told'
  BY <1>1 DEF Heard, Told
<1>7. IdsTaken'
  <2>1. Adds' = Adds /\ ~Adding' /\ ~Adding
    BY <1>1 DEF Adds, Adding
  <2> QED
    BY <1>1, <2>1 DEF IdsTaken
<1> QED
  BY <1>4, <1>5, <1>6, <1>7

(* A new segment gets the last of available_ids.                          *)
LEMMA IdStep == ASSUME KIInv, DataId PROVE DataInv'
<1> USE DEF KIInv, DataInv
<1>1. /\ UNCHANGED <<request, word, served, dops, heard, manager, bus_lock>>
      /\ dpc = "handle" /\ dpc' = "bus"
      /\ IF request.op = Add
         THEN IF available_ids = <<>>
              THEN did' \in 0 .. HAS_COHERENCE /\ UNCHANGED available_ids
              ELSE /\ did' = available_ids[Len(available_ids)]
                   /\ available_ids' = SubSeq(available_ids, 1, Len(available_ids) - 1)
         ELSE did' = request.arg /\ UNCHANGED available_ids
  BY DEF DataId, DataAt, coherence, vars, Add, AnyId, IdsLeft
<1>2. /\ request \in [op : Ops, arg : Nat, arg2 : Nat] /\ available_ids \in Seq(Nat)
      /\ HAS_COHERENCE \in Nat \ {0}
  BY SegmentsExist DEF DataTypes
<1>3. PICK m \in Nat : m = Cardinality(Adds)
  BY AddsFinite
<1>4. PICK n \in Nat : n = Len(available_ids)
  BY <1>2
<1>5. /\ n <= HAS_COHERENCE /\ \A i \in 1 .. n : available_ids[i] = i - 1
      /\ n + m >= HAS_COHERENCE /\ (n > 0 => n + m = HAS_COHERENCE)
      /\ m <= HAS_COHERENCE => \A i, j \in Adds : /\ served[i].id \in n .. HAS_COHERENCE - 1
                                                  /\ served[i].id = served[j].id => i = j
  <2>1. ~Adding
    BY <1>1 DEF Adding
  <2> QED
    BY <1>3, <1>4, <2>1 DEF IdsTaken
<1>6. Adds' = Adds /\ (Adding' <=> request.op = Add)
  BY <1>1 DEF Adds, Adding
<1>7. ASSUME request.op = Add /\ available_ids # <<>> PROVE did' \in Nat /\ available_ids' \in Seq(Nat) /\ IdsTaken'
  <2>1. n > 0 /\ did' = n - 1 /\ n - 1 \in Nat
    BY <1>1, <1>2, <1>4, <1>5, <1>7
  <2>2. /\ available_ids' \in Seq(Nat) /\ Len(available_ids') = n - 1
        /\ \A i \in 1 .. n - 1 : available_ids'[i] = available_ids[i]
    <3>1. available_ids' = SubSeq(available_ids, 1, n - 1)
      BY <1>1, <1>4, <1>7
    <3> QED
      BY <1>2, <1>4, <2>1, <3>1
  <2>3. did' \in Nat /\ available_ids' \in Seq(Nat)
    BY <2>1, <2>2
  <2>4. \A i, j \in Adds : /\ served[i].id \in n .. HAS_COHERENCE - 1
                           /\ served[i].id = served[j].id => i = j
    BY <1>2, <1>5, <2>1
  <2>5. IdsTaken'
    <3>1. \A i \in 1 .. n - 1 : available_ids'[i] = i - 1
      <4>1. \A i \in 1 .. n - 1 : i \in 1 .. n
        OBVIOUS
      <4> QED
        BY <1>5, <2>2, <4>1
    <3>2. (n - 1) + (m + 1) = HAS_COHERENCE /\ n - 1 <= HAS_COHERENCE
      BY <1>2, <1>5, <2>1
    <3>3. \A i \in Adds : served[i].id \in n - 1 .. HAS_COHERENCE - 1 /\ served[i].id # n - 1
      BY <1>2, <2>1, <2>4
    <3>4. n - 1 \in n - 1 .. HAS_COHERENCE - 1
      BY <1>2, <1>5, <2>1
    <3>5. /\ Len(available_ids') = n - 1 /\ Cardinality(Adds') = m /\ Adding'
          /\ Adds' = Adds /\ served' = served /\ did' = n - 1
      BY <1>1, <1>3, <1>6, <1>7, <2>1, <2>2
    <3>6. /\ \A i, j \in Adds' : /\ served'[i].id \in n - 1 .. HAS_COHERENCE - 1
                                 /\ served'[i].id = served'[j].id => i = j
          /\ did' \in n - 1 .. HAS_COHERENCE - 1 /\ \A i \in Adds' : served'[i].id # did'
      BY <2>4, <3>3, <3>4, <3>5
    <3>7. (n - 1) + (m + 1) >= HAS_COHERENCE
      BY <1>2, <3>2
    <3> QED
      BY <3>1, <3>2, <3>5, <3>6, <3>7 DEF IdsTaken
  <2> QED
    BY <2>3, <2>5
<1>8. ASSUME request.op = Add /\ available_ids = <<>> PROVE did' \in Nat /\ available_ids' \in Seq(Nat) /\ IdsTaken'
  <2>1. n = 0 /\ m >= HAS_COHERENCE
    BY <1>2, <1>4, <1>5, <1>8
  <2>2. did' \in Nat /\ UNCHANGED available_ids
    BY <1>1, <1>2, <1>8
  <2>3. IdsTaken'
    BY <1>1, <1>2, <1>3, <1>4, <1>5, <1>6, <1>8, <2>1, <2>2 DEF IdsTaken
  <2> QED
    BY <1>2, <2>2, <2>3
<1>9. ASSUME request.op # Add PROVE did' \in Nat /\ available_ids' \in Seq(Nat) /\ IdsTaken'
  <2>1. did' \in Nat /\ UNCHANGED available_ids
    BY <1>1, <1>2, <1>9
  <2>2. IdsTaken'
    BY <1>1, <1>3, <1>4, <1>5, <1>6, <1>9, <2>1 DEF IdsTaken
  <2> QED
    BY <1>2, <2>1, <2>2
<1>10. did' \in Nat /\ available_ids' \in Seq(Nat) /\ IdsTaken'
  BY <1>7, <1>8, <1>9
<1>11. DataTypes'
  BY <1>1, <1>10 DEF DataTypes
<1>12. BusHeld' /\ Heard' /\ Told'
  BY <1>1 DEF BusHeld, Heard, Told
<1> QED
  BY <1>10, <1>11, <1>12

(* The bus is taken; nothing of the command is written.                   *)
LEMMA TakeBusStep == ASSUME KIInv, DataTakeBus PROVE DataInv'
<1> USE DEF KIInv, DataInv
<1>1. /\ UNCHANGED <<request, did, available_ids, served, dops, heard, manager>>
      /\ dpc = "bus" /\ dpc' = "words" /\ word' = 0 /\ bus_lock' = "data"
  BY DEF DataTakeBus, DataAt, coherence
<1>2. DataTypes'
  BY <1>1 DEF DataTypes
<1>3. BusHeld'
  BY <1>1 DEF BusHeld
<1>4. Heard' /\ Told'
  BY <1>1 DEF Heard, Told
<1>5. IdsTaken'
  <2>1. Adds' = Adds /\ (Adding' <=> Adding)
    BY <1>1 DEF Adds, Adding
  <2> QED
    BY <1>1, <2>1 DEF IdsTaken
<1> QED
  BY <1>2, <1>3, <1>4, <1>5

(* One word is written; the fifth completes the command.                  *)
LEMMA WordStep == ASSUME KIInv, DataWord PROVE DataInv'
<1> USE DEF KIInv, DataInv
<1> DEFINE c == Words(request, did)
           w == Append(heard, c[word + 1])
<1>1. /\ UNCHANGED <<request, did, available_ids, served, dops, bus_lock>>
      /\ dpc = "words" /\ dpc' = "words" /\ word < 5 /\ word' = word + 1
      /\ IF Len(w) = 5 THEN heard' = <<>> /\ manager' = Append(manager, w)
                       ELSE heard' = w /\ manager' = manager
  BY DEF DataWord, DataAt, vars
<1>2. /\ request \in [op : Ops, arg : Nat, arg2 : Nat] /\ did \in Nat /\ word \in 0 .. 5
      /\ heard \in Seq(WordSet) /\ manager \in Seq(Seq(WordSet))
      /\ served \in Seq(ServedSet)
  BY DEF DataTypes
<1>3. c \in Seq(WordSet) /\ Len(c) = 5 /\ DOMAIN c = 1 .. 5
  BY <1>2, WordsType
<1>4. Len(heard) = word /\ \A i \in 1 .. word : heard[i] = c[i]
  BY <1>1 DEF Heard
<1> HIDE DEF c
<1>5. word \in 0 .. 4 /\ word + 1 \in 1 .. 5
  BY <1>1, <1>2
<1>6. c[word + 1] \in WordSet
  BY <1>3, <1>5, ElementOf
<1>7. w \in Seq(WordSet) /\ Len(w) = word + 1 /\ \A i \in 1 .. word + 1 : w[i] = c[i]
  BY <1>2, <1>4, <1>5, <1>6
<1> HIDE DEF w
<1>8. PICK n \in Nat : n = Len(manager) /\ n = Len(served)
  <2>1. Len(manager) = Len(served)
    BY <1>1 DEF Told
  <2> QED
    BY <1>2, <2>1
<1>9. /\ heard' \in Seq(WordSet) /\ manager' \in Seq(Seq(WordSet)) /\ word' \in 0 .. 5
      /\ word = 4 => heard' = <<>> /\ manager' = Append(manager, w) /\ w = c
      /\ word # 4 => heard' = w /\ manager' = manager
  <2>1. word = 4 => w = c
    BY <1>3, <1>7
  <2>2. Len(w) = 5 <=> word = 4
    BY <1>5, <1>7
  <2>3. word' \in 0 .. 5
    BY <1>1, <1>5
  <2>4. Append(manager, w) \in Seq(Seq(WordSet)) /\ <<>> \in Seq(WordSet)
    BY <1>2, <1>7, Appended
  <2> QED
    BY <1>1, <1>2, <1>7, <2>1, <2>2, <2>3, <2>4
<1>10. Words(request, did)' = c
  BY <1>1 DEF c, Words
<1>11. DataTypes'
  BY <1>1, <1>9 DEF DataTypes
<1>12. BusHeld'
  BY <1>1 DEF BusHeld
<1>13. Heard'
  <2>1. CASE word = 4
    <3>1. word' = 5 /\ manager' = Append(manager, c) /\ heard' = <<>>
      BY <1>1, <1>9, <2>1
    <3>2. manager'[Len(manager')] = c
      BY <1>2, <1>3, <3>1
    <3> QED
      BY <1>1, <1>10, <3>1, <3>2 DEF Heard
  <2>2. CASE word # 4
    <3>1. word' # 5 /\ word' = word + 1 /\ heard' = w
      BY <1>1, <1>5, <1>9, <2>2
    <3> QED
      BY <1>1, <1>7, <1>10, <3>1 DEF Heard
  <2> QED
    BY <2>1, <2>2
<1>14. Told'
  <2>1. \A i \in DOMAIN served : manager[i] = Words(served[i], served[i].id)
    BY DEF Told
  <2>2. DOMAIN served = 1 .. n /\ DOMAIN manager = 1 .. n
    BY <1>2, <1>8, Indices
  <2>3. CASE word = 4
    <3>1. word' = 5 /\ manager' = Append(manager, w)
      BY <1>1, <1>9, <2>3
    <3>2. Len(manager') = n + 1 /\ \A i \in 1 .. n : manager'[i] = manager[i]
      BY <1>2, <1>7, <1>8, <2>2, <3>1, Appended
    <3> QED
      BY <1>1, <1>8, <2>1, <2>2, <3>1, <3>2 DEF Told, Words
  <2>4. CASE word # 4
    <3>1. word' # 5 /\ manager' = manager
      BY <1>1, <1>5, <1>9, <2>4
    <3> QED
      BY <1>1, <1>8, <2>1, <3>1 DEF Told, Words
  <2> QED
    BY <2>3, <2>4
<1>15. IdsTaken'
  <2>1. Adds' = Adds /\ (Adding' <=> Adding)
    BY <1>1 DEF Adds, Adding
  <2> QED
    BY <1>1, <2>1 DEF IdsTaken
<1> QED
  BY <1>11, <1>12, <1>13, <1>14, <1>15

(* The client is answered with what the coherence manager was told.       *)
LEMMA GiveBusStep == ASSUME KIInv, DataGiveBus PROVE DataInv'
<1> USE DEF KIInv, DataInv
<1> DEFINE a == [op |-> request.op, arg |-> request.arg, arg2 |-> request.arg2, id |-> did]
<1>1. /\ UNCHANGED <<request, did, word, available_ids, dops, heard, manager>>
      /\ dpc = "words" /\ dpc' = "stall" /\ word = 5 /\ bus_lock' = Nobody
      /\ served' = Append(served, a)
  BY DEF DataGiveBus, DataAt, Serve, coherence
<1>2. /\ request \in [op : Ops, arg : Nat, arg2 : Nat] /\ did \in Nat
      /\ manager \in Seq(Seq(WordSet))
      /\ served \in Seq(ServedSet)
  BY DEF DataTypes
<1>3. /\ a \in ServedSet /\ a.op = request.op /\ a.id = did
      /\ Words(a, a.id) = Words(request, did)
  BY <1>2 DEF Words, ServedSet
<1> HIDE DEF a
<1>4. PICK n \in Nat : n = Len(served) /\ DOMAIN served = 1 .. n
  BY <1>2
<1>5. /\ served' \in Seq(ServedSet)
      /\ Len(served') = n + 1 /\ DOMAIN served' = 1 .. n + 1
      /\ served'[n + 1] = a /\ \A i \in 1 .. n : served'[i] = served[i]
      /\ DOMAIN served' = (DOMAIN served) \cup {n + 1} /\ n + 1 \notin DOMAIN served
  <2>1. /\ served' \in Seq(ServedSet) /\ Len(served') = n + 1
        /\ DOMAIN served' = (DOMAIN served) \cup {n + 1} /\ n + 1 \notin DOMAIN served
        /\ served'[n + 1] = a /\ \A i \in DOMAIN served : served'[i] = served[i]
    BY <1>1, <1>2, <1>3, <1>4, Appended
  <2>2. DOMAIN served' = 1 .. Len(served')
    BY <2>1, Indices
  <2> QED
    BY <1>4, <2>1, <2>2
<1>6. DataTypes'
  BY <1>1, <1>5 DEF DataTypes
<1>7. BusHeld' /\ Heard'
  BY <1>1 DEF BusHeld, Heard, Nobody
<1>8. Told'
  <2>1. Len(manager) = n + 1 /\ manager[n + 1] = Words(request, did)
    BY <1>1, <1>4 DEF Told, Heard
  <2>2. \A i \in 1 .. n : manager[i] = Words(served[i], served[i].id)
    BY <1>4 DEF Told
  <2>3. ASSUME NEW i \in 1 .. n + 1 PROVE manager[i] = Words(served'[i], served'[i].id)
    <3>1. CASE i = n + 1
      BY <1>3, <1>5, <2>1, <3>1
    <3>2. CASE i # n + 1
      <4>1. i \in 1 .. n
        BY <3>2
      <4> QED
        BY <1>5, <2>2, <4>1
    <3> QED
      BY <3>1, <3>2
  <2>4. \A i \in DOMAIN served' : manager'[i] = Words(served[i], served[i].id)'
    BY <1>1, <1>5, <2>3 DEF Words
  <2>5. Len(manager') = Len(served') /\ dpc' # "words"
    BY <1>1, <1>5, <2>1
  <2> QED
    BY <1>5, <2>4, <2>5 DEF Told
<1>9. IdsTaken'
  <2>1. PICK m \in Nat : m = Cardinality(Adds) /\ IsFiniteSet(Adds)
    BY AddsFinite
  <2>2. PICK l \in Nat : l = Len(available_ids)
    BY DEF DataTypes
  <2>3. HAS_COHERENCE \in Nat /\ ~Adding' /\ (Adding <=> request.op = Add)
    BY <1>1, SegmentsExist DEF Adding
  <2>4. n + 1 \notin Adds
    BY <1>4 DEF Adds
  <2>5. CASE request.op = Add
    <3>1. Adds' = Adds \cup {n + 1}
      <4>1. \A i \in DOMAIN served : served'[i].op = served[i].op
        BY <1>4, <1>5
      <4>2. served'[n + 1].op = Add
        BY <1>3, <1>5, <2>5
      <4> QED
        BY <1>5, <4>1, <4>2 DEF Adds
    <3>2. Cardinality(Adds') = m + 1
      BY <2>1, <2>4, <3>1, FS_AddElement
    <3>3. /\ l <= HAS_COHERENCE /\ \A i \in 1 .. l : available_ids[i] = i - 1
          /\ l + (m + 1) >= HAS_COHERENCE /\ (l > 0 => l + (m + 1) = HAS_COHERENCE)
          /\ m <= HAS_COHERENCE => \A i, j \in Adds : /\ served[i].id \in l .. HAS_COHERENCE - 1
                                                      /\ served[i].id = served[j].id => i = j
          /\ m < HAS_COHERENCE => did \in l .. HAS_COHERENCE - 1 /\ \A i \in Adds : served[i].id # did
      BY <2>1, <2>2, <2>3, <2>5 DEF IdsTaken
    <3>4. \A i \in Adds : served'[i] = served[i]
      BY <1>4, <1>5 DEF Adds
    <3>5. ASSUME m + 1 <= HAS_COHERENCE, NEW i \in Adds', NEW j \in Adds'
          PROVE  /\ served'[i].id \in l .. HAS_COHERENCE - 1
                 /\ served'[i].id = served'[j].id => i = j
      <4>1. m <= HAS_COHERENCE /\ m < HAS_COHERENCE
        BY <2>3, <3>5
      <4>2. served'[n + 1].id = did
        BY <1>3, <1>5
      <4>3. i \in Adds \/ i = n + 1
        BY <3>1
      <4>4. j \in Adds \/ j = n + 1
        BY <3>1
      <4> QED
        BY <3>3, <3>4, <4>1, <4>2, <4>3, <4>4
    <3>6. /\ l <= HAS_COHERENCE /\ \A i \in 1 .. l : available_ids'[i] = i - 1
          /\ l + (m + 1 + 0) >= HAS_COHERENCE /\ (l > 0 => l + (m + 1 + 0) = HAS_COHERENCE)
      BY <1>1, <3>3
    <3>7. Len(available_ids') = l /\ Cardinality(Adds)' = m + 1 /\ HAS_COHERENCE' = HAS_COHERENCE
      BY <1>1, <2>2, <3>2
    <3> QED
      BY <2>3, <3>5, <3>6, <3>7 DEF IdsTaken
  <2>6. CASE request.op # Add
    <3>1. Adds' = Adds
      <4>1. \A i \in DOMAIN served : served'[i].op = served[i].op
        BY <1>4, <1>5
      <4>2. served'[n + 1].op # Add
        BY <1>3, <1>5, <2>6
      <4> QED
        BY <1>5, <4>1, <4>2 DEF Adds
    <3>2. \A i \in Adds : served'[i] = served[i]
      BY <1>4, <1>5 DEF Adds
    <3>3. /\ l <= HAS_COHERENCE /\ \A i \in 1 .. l : available_ids[i] = i - 1
          /\ l + (m + 0) >= HAS_COHERENCE /\ (l > 0 => l + (m + 0) = HAS_COHERENCE)
          /\ m <= HAS_COHERENCE => \A i, j \in Adds : /\ served[i].id \in l .. HAS_COHERENCE - 1
                                                      /\ served[i].id = served[j].id => i = j
      BY <2>1, <2>2, <2>3, <2>6 DEF IdsTaken
    <3>4. ASSUME m <= HAS_COHERENCE, NEW i \in Adds', NEW j \in Adds'
          PROVE  /\ served'[i].id \in l .. HAS_COHERENCE - 1
                 /\ served'[i].id = served'[j].id => i = j
      BY <3>1, <3>2, <3>3, <3>4
    <3>5. Len(available_ids') = l /\ Cardinality(Adds)' = m /\ HAS_COHERENCE' = HAS_COHERENCE
      BY <1>1, <2>1, <2>2, <3>1
    <3>6. /\ l <= HAS_COHERENCE /\ \A i \in 1 .. l : available_ids'[i] = i - 1
          /\ l + (m + 0) >= HAS_COHERENCE /\ (l > 0 => l + (m + 0) = HAS_COHERENCE)
      BY <1>1, <3>3
    <3> QED
      BY <2>3, <3>4, <3>5, <3>6 DEF IdsTaken
  <2> QED
    BY <2>5, <2>6
<1> QED
  BY <1>6, <1>7, <1>8, <1>9

-----------------------------------------------------------------------------
(* Every step of the three threads and the FPGA preserves the invariant.  *)
LEMMA NextKIInv == KIInv /\ [KNext]_kvars => KIInv'
<1> SUFFICES ASSUME KIInv, [KNext]_kvars PROVE KIInv'
  OBVIOUS
<1>1. CASE Next /\ UNCHANGED <<data, coherence>>
  BY <1>1, FpgaStep
<1>2. CASE DataStep
  BY <1>2, FpgaKept, RequestStep, IdStep, TakeBusStep, WordStep, GiveBusStep DEF DataStep, KIInv
<1>3. CASE CoherenceReady
  <2>1. UNCHANGED <<data, heard, manager>> /\ bus_lock' = bus_lock
    BY <1>3 DEF CoherenceReady, vars
  <2> QED
    BY <1>3, <2>1, FpgaKept, DataKept DEF KIInv
<1>4. CASE UNCHANGED kvars
  <2>1. UNCHANGED <<data, heard, manager>> /\ UNCHANGED vars /\ bus_lock' = bus_lock
    BY <1>4 DEF kvars, coherence, vars
  <2> QED
    BY <2>1, NextIInv, DataKept DEF KIInv
<1> QED
  BY <1>1, <1>2, <1>3, <1>4 DEF KNext

(* The inductive invariant holds in every reachable state.                *)
THEOREM KriaInvariance == KSpec => []KIInv
  BY InitKIInv, NextKIInv, PTL DEF KSpec

(* Every answered coherence request was told to the coherence manager     *)
(* whole and in order, whatever the command server and the poller do with *)
(* the bus, and while there were IDs left no two segments share one       *)
(* (data_server.cc's pops of available_ids).                              *)
THEOREM CoherenceKept == KSpec => []CoherenceIntact
<1>1. KIInv => CoherenceIntact
  <2> SUFFICES ASSUME KIInv PROVE CoherenceIntact
    OBVIOUS
  <2> DEFINE adds == {i \in DOMAIN served : served[i].op = "ADD_TO_COHERENCE_MANAGER"}
  <2>1. Adds = adds
    BY DEF Adds, Add
  <2>2. Cardinality(Adds) <= HAS_COHERENCE =>
          \A i, j \in Adds : /\ served[i].id \in Len(available_ids) .. HAS_COHERENCE - 1
                             /\ served[i].id = served[j].id => i = j
    BY DEF KIInv, DataInv, IdsTaken
  <2>3. Len(available_ids) \in Nat /\ HAS_COHERENCE \in Nat
    BY SegmentsExist DEF KIInv, DataInv, DataTypes
  <2>4. Cardinality(adds) <= HAS_COHERENCE =>
          \A i, j \in adds : served[i].id < HAS_COHERENCE /\ (served[i].id = served[j].id => i = j)
    BY <2>1, <2>2, <2>3
  <2> QED
    BY <2>4 DEF CoherenceIntact, KIInv, DataInv, Told
<1> QED
  BY <1>1, KriaInvariance, PTL

(* The command server's and the poller's promises survive the third       *)
(* thread on bus_lock: the semaphore stays balanced, every response finds *)
(* its waiter and is registered with the command it answers.              *)
THEOREM CommandsUndisturbed ==
  KSpec => [](SemaphoreBalanced /\ ResponseHasWaiter /\ RoutedToIssuer)
<1>1. KIInv => SemaphoreBalanced /\ RoutedToIssuer
  BY DEF KIInv, IInv
<1>2. KIInv => ResponseHasWaiter
  BY OldestAnswered DEF KIInv, ResponseHasWaiter, InFlightOf
<1> QED
  BY <1>1, <1>2, KriaInvariance, PTL

(* bus_lock excludes: the data server's five words and the server's beats *)
(* never share the bus, and the poller reads nothing in between (it reads *)
(* only while BusFree).                                                   *)
THEOREM BusExclusive ==
  KSpec => [](/\ ~(dpc = "words" /\ spc = "beats")
              /\ (dpc = "words" \/ spc = "beats") => ~BusFree)
<1>1. KIInv => /\ ~(dpc = "words" /\ spc = "beats")
               /\ (dpc = "words" \/ spc = "beats") => ~BusFree
  BY DEF KIInv, IInv, DataInv, BusHeld, Locks, BusFree, Nobody
<1> QED
  BY <1>1, KriaInvariance, PTL

(* And so does the command service they implement: the data server and    *)
(* the coherence manager take no step of it.                              *)
THEOREM ServiceUndisturbed == KSpec => ImplementsService
<1>1. KInit => Past /\ Service!Init
  BY InitPast, InitService DEF KInit
<1>2. KIInv /\ Past /\ [KNext]_kvars => Past' /\ [Service!Next]_(Service!vars)
  <2> SUFFICES ASSUME KIInv, Past, [KNext]_kvars PROVE Past' /\ [Service!Next]_(Service!vars)
    OBVIOUS
  <2>1. CASE [Next]_vars
    BY <2>1, PastStep, NextService DEF KIInv
  <2>2. CASE DataStep \/ CoherenceReady
    <3>1. UNCHANGED mine
      BY <2>2 DEF DataStep, DataWoken, DataUnsupported, DataFree, DataId, DataTakeBus, DataWord,
         DataGiveBus, CoherenceReady, vars, mine
    <3>2. UNCHANGED <<spc, quit, sent, in_flight, answered>>
      BY <3>1 DEF mine, server
    <3>3. Past'
      BY <3>2 DEF Past, Answers, Fresh
    <3> QED
      BY <3>2, <3>3, SilentService
  <2> QED
    BY <2>1, <2>2 DEF KNext, kvars
<1> QED
  BY <1>1, <1>2, KriaInvariance, PTL DEF KSpec, ImplementsService, Service!Spec
=============================================================================
