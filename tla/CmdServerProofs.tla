--------------------------- MODULE CmdServerProofs ---------------------------
(***************************************************************************)
(* For any number of clients, cores, slots and commands, with or without  *)
(* shutdown and early clients: the command server never takes a slot from *)
(* an empty free_list and never shares one, the command it works on is    *)
(* not overwritten, and although it pairs responses with commands by      *)
(* their order alone every client reads the response to its own command:  *)
(* CmdServer implements CommandService.                                   *)
(***************************************************************************)
EXTENDS CmdServer, SequenceTheorems, FiniteSetTheorems, TLAPS

Acking == send_lock \in Clients /\ cpc[send_lock] = "ack"

Types ==
  /\ spc \in {"start", "stall", "alloc", "lock", "deliver", "reply", "release", "gone"}
  /\ mpc \in {"loop", "fetch lock", "fetch", "register lock", "register", "notify", "pop", "exit"}
  /\ send_lock \in Clients \cup {Nobody} /\ cpc \in [Clients -> {"idle", "wake", "ack"}]
  /\ sent \in [Clients -> Nat] /\ \A c \in Clients : sent[c] <= MaxCmds
  /\ cmd \in [tag : Tags \cup {NoTag}, pair : Pairs, xd : BOOLEAN, flush : BOOLEAN]
  /\ send_lock \in Clients => cmd.tag \in Tags
  /\ free_list \in [Ids -> Ids] /\ free_list_idx \in -1 .. NIds - 1
  /\ id \in Ids \cup {NoId}
  /\ handles \in [Clients -> SUBSET [tag : Tags, id : Ids]]

(* server_mut and cmd_recieve_server_resp_lock hand a command to the      *)
(* server and back: until shutdown the server works only on the command   *)
(* of a client that waits for it.                                         *)
Handshake ==
  /\ \A c \in Clients : (cpc[c] = "idle") = (send_lock # c)
  /\ spc \in {"alloc", "lock", "deliver"} /\ ~quit =>
       Acking /\ cmd_recieve_server_resp_lock /\ server_mut
  /\ spc = "reply" => ~quit /\ Acking /\ cmd_recieve_server_resp_lock /\ server_mut
  /\ spc \in {"stall", "release"} /\ ~server_mut /\ ~quit => Acking /\ cmd_recieve_server_resp_lock
  /\ ~cmd_recieve_server_resp_lock =>
       ~quit /\ Acking /\ spc \in {"release", "stall"} /\ server_mut

(* The slot of a command that its client has not been told of yet.        *)
PendingIds == IF id # NoId /\ (spc \in {"lock", "deliver", "reply", "gone"}
                                 \/ ~cmd_recieve_server_resp_lock)
              THEN {id} ELSE {}

(* free_list holds every slot that is neither pending nor held, once.     *)
Slots ==
  /\ \A i, j \in 0 .. free_list_idx : i # j => free_list[i] # free_list[j]
  /\ \A c, d \in Clients : \A g \in handles[c], h \in handles[d] : g.id = h.id => c = d /\ g = h
  /\ Ids = FreeIds \cup HeldIds \cup PendingIds
  /\ FreeIds \cap HeldIds = {} /\ PendingIds \cap (FreeIds \cup HeldIds) = {}

(* What the client will be told is the slot the server took.              *)
Told == (spc \in {"lock", "deliver", "reply"} /\ ~quit) \/ ~cmd_recieve_server_resp_lock =>
          pthread_wait_id = id /\ cmd.xd = (id # NoId)

(* A client has room for the response handle of the command it sends.     *)
Room == \A c \in Clients :
          /\ IsFiniteSet(handles[c]) /\ Cardinality(handles[c]) <= MaxOutstanding
          /\ cpc[c] # "idle" => Cardinality(handles[c]) < MaxOutstanding

IInvSlots == Types /\ Handshake /\ Slots /\ Told /\ Room

-----------------------------------------------------------------------------
Locks == /\ (cmdserverlock = "sim") <=> (mpc \in {"fetch", "register", "notify", "pop"})
         /\ (cmdserverlock = "server") <=> (spc \in {"deliver", "reply", "release", "gone"})

Contents ==
  /\ cmds \in Seq(Commands) /\ core \in [Pairs -> Seq(Tags)]
  /\ rsp \in [tag : Tags \cup {NoTag}, pair : Pairs]
  /\ in_flight \in [DOMAIN in_flight -> Seq(Ids)] /\ DOMAIN in_flight \subseteq Cores
  /\ wait_for_response \in [Ids -> BOOLEAN] /\ responses \in [Ids -> Tags \cup {NoTag}]
  /\ got \in [Clients -> SUBSET (Tags \X (Tags \cup {NoTag}))]

(* Commands are numbered by their senders, who use no number twice.       *)
Named ==
  /\ send_lock \in Clients => cmd.tag = <<send_lock, sent[send_lock]>> /\ cmd.pair \in Cores
  /\ \A c \in Clients : \A h \in handles[c] :
       h.tag[1] = c /\ h.tag[2] <= sent[c] /\ (send_lock = c => h.tag[2] < sent[c])
  /\ \A c \in Clients : \A g, h \in handles[c] : g.tag = h.tag => g = h
  /\ \A c \in Clients : \A g \in got[c] :
       g[1][1] = c /\ g[1][2] <= sent[c] /\ (send_lock = c => g[1][2] < sent[c])

(* The command in the file has been delivered; its client does not know.  *)
Placed == cmd.xd /\ (spc = "reply" \/ ~cmd_recieve_server_resp_lock)

(* Slot i was given to command t.                                         *)
HasTag(i, t) == \/ \E c \in Clients : \E h \in handles[c] : h.id = i /\ h.tag = t
                \/ Placed /\ i = id /\ t = cmd.tag

(* The commands of core p on their way, in order: the one whose response  *)
(* is being registered (0), those in the core, those in cmds.             *)
Carried(p, r, t) == /\ r = 0 /\ mpc \in {"register lock", "register", "notify"}
                    /\ rsp.tag # NoTag /\ rsp.pair = p /\ t = rsp.tag
InCore(p, r, t) == r \in 1 .. Len(core[p]) /\ t = core[p][r]
InCmds(p, r, t) == \E j \in 1 .. Len(cmds) : /\ r = Len(core[p]) + j
                                            /\ cmds[j].xd /\ cmds[j].pair = p /\ t = cmds[j].tag
ItemAt(p, r, t) == Carried(p, r, t) \/ InCore(p, r, t) \/ InCmds(p, r, t)

(* The line in in_flight and the commands on their way agree one by one,  *)
(* in order.                                                              *)
InOrder(p) ==
  /\ \A k \in DOMAIN Waiting(p) : \E r \in Nat, t \in Tags : HasTag(Waiting(p)[k], t) /\ ItemAt(p, r, t)
  /\ \A r \in Nat, t \in Tags : ItemAt(p, r, t) => \E k \in DOMAIN Waiting(p) : HasTag(Waiting(p)[k], t)
  /\ \A k, l \in DOMAIN Waiting(p), r, s \in Nat, t, u \in Tags :
       /\ HasTag(Waiting(p)[k], t) /\ ItemAt(p, r, t)
       /\ HasTag(Waiting(p)[l], u) /\ ItemAt(p, s, u)
       => (k < l <=> r < s)

QueuedOnce == \A p, q \in Pairs : \A k \in DOMAIN Waiting(p), l \in DOMAIN Waiting(q) :
                Waiting(p)[k] = Waiting(q)[l] => p = q /\ k = l

(* A slot that is open holds the response its client waits for.           *)
Opened == \A i \in Ids : ~wait_for_response[i] => HasTag(i, responses[i]) /\ i \notin QueuedIds

Registering ==
  /\ mpc \in {"register lock", "register"} => rsp.tag # NoTag \/ rsp.pair \notin Cores
  /\ mpc \in {"notify", "pop"} => rsp.tag # NoTag /\ rsp.pair \in DOMAIN in_flight
                                  /\ in_flight[rsp.pair] # <<>>
  /\ mpc = "notify" => responses[Head(in_flight[rsp.pair])] = rsp.tag

IInvRouting == /\ Locks /\ Contents /\ Named /\ (\A p \in Pairs : InOrder(p)) /\ QueuedOnce /\ Opened /\ Registering
               /\ RoutedToIssuer

IInv == IInvSlots /\ IInvRouting

-----------------------------------------------------------------------------
(* Slots.                                                                 *)

(* Facts about the constants.                                             *)
LEMMA IdFacts == /\ Ids = 0 .. NIds - 1 /\ NIds \in Nat \ {0} /\ NoId \notin Ids
                 /\ IsFiniteSet(Ids) /\ Cardinality(Ids) = NIds
<1>1. NIds \in Nat \ {0} /\ NIds - 1 \in Int /\ 0 \in Int
  BY SlotsAreNumbered
<1>2. IsFiniteSet(0 .. NIds - 1) /\ Cardinality(0 .. NIds - 1) = NIds
  <2>1. /\ IsFiniteSet(0 .. NIds - 1)
        /\ Cardinality(0 .. NIds - 1) = IF 0 > NIds - 1 THEN 0 ELSE NIds - 1 - 0 + 1
    BY <1>1, FS_Interval
  <2> QED
    BY <1>1, <2>1
<1>3. NoId \notin 0 .. NIds - 1
  BY <1>1, SlotsAreNumbered
<1> QED
  BY <1>1, <1>2, <1>3 DEF Ids

(* The two bounds of a client are natural numbers.                        *)
LEMMA BoundFacts == MaxCmds \in Nat /\ MaxOutstanding \in Nat \ {0}
BY IdsSuffice

(* The clients cannot hold every slot: each holds at most MaxOutstanding. *)
LEMMA NotAllHeld == ASSUME Types, Room PROVE HeldIds # Ids
<1>1. SUFFICES ASSUME HeldIds = Ids PROVE FALSE
  OBVIOUS
<1> DEFINE Places == Clients \X (1 .. MaxOutstanding)
           F(c) == CHOOSE f : f \in Bijection(1 .. Cardinality(handles[c]), handles[c])
           Owner(i) == CHOOSE x \in Places : /\ x[2] <= Cardinality(handles[x[1]])
                                             /\ F(x[1])[x[2]].id = i
           place == [i \in Ids |-> Owner(i)]
<1>2. \A c \in Clients : /\ Cardinality(handles[c]) \in Nat /\ Cardinality(handles[c]) <= MaxOutstanding
                         /\ F(c) \in Bijection(1 .. Cardinality(handles[c]), handles[c])
  <2> SUFFICES ASSUME NEW c \in Clients
               PROVE  /\ Cardinality(handles[c]) \in Nat /\ Cardinality(handles[c]) <= MaxOutstanding
                      /\ F(c) \in Bijection(1 .. Cardinality(handles[c]), handles[c])
    OBVIOUS
  <2>1. IsFiniteSet(handles[c]) /\ Cardinality(handles[c]) <= MaxOutstanding
    BY DEF Room
  <2>2. Cardinality(handles[c]) \in Nat /\ ExistsBijection(1 .. Cardinality(handles[c]), handles[c])
    BY <2>1, FS_CardinalityType
  <2>3. \E f : f \in Bijection(1 .. Cardinality(handles[c]), handles[c])
    BY <2>2 DEF ExistsBijection
  <2>4. F(c) \in Bijection(1 .. Cardinality(handles[c]), handles[c])
    BY <2>3
  <2> QED
    BY <2>1, <2>2, <2>4
<1>3. ASSUME NEW i \in Ids
      PROVE  Owner(i) \in Places /\ F(Owner(i)[1])[Owner(i)[2]].id = i
  <2>1. PICK c \in Clients : \E h \in handles[c] : h.id = i
    BY <1>1 DEF HeldIds
  <2>2. PICK h \in handles[c] : h.id = i
    BY <2>1
  <2>3. PICK k \in 1 .. Cardinality(handles[c]) : F(c)[k] = h
    <3> HIDE DEF F
    <3> QED
      BY <1>2 DEF Bijection, Surjection
  <2>4. <<c, k>> \in Places /\ k <= Cardinality(handles[c])
    <3>1. /\ k \in 1 .. Cardinality(handles[c]) /\ Cardinality(handles[c]) \in Nat
          /\ Cardinality(handles[c]) <= MaxOutstanding
      BY <1>2
    <3>2. k \in 1 .. MaxOutstanding /\ k <= Cardinality(handles[c])
      BY <3>1, IdsSuffice
    <3> QED
      BY <3>2
  <2> HIDE DEF F
  <2>5. <<c, k>>[2] <= Cardinality(handles[<<c, k>>[1]]) /\ F(<<c, k>>[1])[<<c, k>>[2]].id = i
    BY <2>2, <2>3, <2>4
  <2>6. \E x \in Places : x[2] <= Cardinality(handles[x[1]]) /\ F(x[1])[x[2]].id = i
    BY <2>4, <2>5
  <2> QED
    BY <2>6
<1> HIDE DEF F, Owner, Places
<1>4. place \in [Ids -> Places] /\ \A i \in Ids : F(place[i][1])[place[i][2]].id = i
  BY <1>3
<1>5. IsFiniteSet(Places) /\ Cardinality(Places) < NIds
  <2>1. MaxOutstanding \in Nat \ {0} /\ IsFiniteSet(Clients)
        /\ Cardinality(Clients) * MaxOutstanding < NIds
    BY IdsSuffice
  <2>2. 1 \in Int /\ MaxOutstanding \in Int
    BY <2>1
  <2>3. /\ IsFiniteSet(1 .. MaxOutstanding)
        /\ Cardinality(1 .. MaxOutstanding)
             = IF 1 > MaxOutstanding THEN 0 ELSE MaxOutstanding - 1 + 1
    BY <2>2, FS_Interval
  <2>4. Cardinality(1 .. MaxOutstanding) = MaxOutstanding
    BY <2>1, <2>3
  <2>5. /\ IsFiniteSet(Clients \X (1 .. MaxOutstanding))
        /\ Cardinality(Clients \X (1 .. MaxOutstanding))
             = Cardinality(Clients) * Cardinality(1 .. MaxOutstanding)
    BY <2>1, <2>3, FS_Product
  <2> QED
    BY <2>1, <2>4, <2>5 DEF Places
<1> HIDE DEF place
<1>6. \E x, y \in Ids : x # y /\ place[x] = place[y]
  BY <1>4, <1>5, IdFacts, FS_PigeonHole
<1> QED
  BY <1>4, <1>6

(* A client returns a slot: free_list has room for it.                    *)
LEMMA RoomInFreeList ==
  ASSUME Types, Slots, NEW i \in HeldIds, i \in Ids
  PROVE  free_list_idx + 1 \in Ids
<1>1. SUFFICES ASSUME free_list_idx = NIds - 1 PROVE FALSE
  <2>1. free_list_idx \in -1 .. NIds - 1
    BY DEF Types
  <2> QED
    BY <2>1, IdFacts
<1> DEFINE Rest == Ids \ {i}
<1>2. IsFiniteSet(Rest) /\ Cardinality(Rest) = NIds - 1
  <2>1. /\ IsFiniteSet(Ids \ {i})
        /\ Cardinality(Ids \ {i}) = IF i \in Ids THEN Cardinality(Ids) - 1 ELSE Cardinality(Ids)
    BY IdFacts, FS_RemoveElement
  <2> QED
    BY <2>1, IdFacts
<1>3. free_list \in [Ids -> Ids] /\ 0 .. free_list_idx = Ids
  BY <1>1, IdFacts DEF Types
<1>4. \A j \in Ids : free_list[j] \in FreeIds
  BY <1>3 DEF FreeIds
<1>5. free_list \in [Ids -> Rest]
  BY <1>3, <1>4 DEF Slots
<1>6. Cardinality(Rest) < Cardinality(Ids)
  BY <1>2, IdFacts
<1> HIDE DEF Rest
<1>7. \E x, y \in Ids : x # y /\ free_list[x] = free_list[y]
  BY <1>2, <1>5, <1>6, IdFacts, FS_PigeonHole
<1> QED
  BY <1>3, <1>7 DEF Slots

(* The free slots and the held ones are slots.                            *)
LEMMA SlotTypes == ASSUME Types
                   PROVE  /\ FreeIds \subseteq Ids /\ HeldIds \subseteq Ids
                          /\ free_list_idx \in Int /\ 0 .. free_list_idx \subseteq Ids
<1>1. free_list_idx \in -1 .. NIds - 1 /\ free_list \in [Ids -> Ids]
  BY DEF Types
<1>2. free_list_idx \in Int /\ 0 .. free_list_idx \subseteq Ids
  BY <1>1, IdFacts
<1>3. FreeIds \subseteq Ids
  BY <1>1, <1>2 DEF FreeIds
<1>4. HeldIds \subseteq Ids
  <2>1. handles \in [Clients -> SUBSET [tag : Tags, id : Ids]]
    BY DEF Types
  <2>2. \A c \in Clients : \A h \in handles[c] : h.id \in Ids
    BY <2>1
  <2> QED
    BY <2>2 DEF HeldIds
<1> QED
  BY <1>2, <1>3, <1>4

(* Nothing happens to the slots.                                          *)
LEMMA SlotsFrame == ASSUME Slots, UNCHANGED <<free_list, free_list_idx, handles>>,
                           PendingIds' = PendingIds
                    PROVE  Slots'
<1>1. FreeIds' = FreeIds /\ HeldIds' = HeldIds
  BY DEF FreeIds, HeldIds
<1> QED
  BY <1>1 DEF Slots

(* Steps of the simulation thread.                                        *)
LEMMA SimSlots ==
  ASSUME IInvSlots,
         UNCHANGED <<spc, quit, send_lock, cpc, sent, cmd, free_list, free_list_idx, id,
                     pthread_wait_id, handles, server_mut, cmd_recieve_server_resp_lock>>,
         mpc' \in {"loop", "fetch lock", "fetch", "register lock", "register", "notify", "pop", "exit"}
  PROVE  IInvSlots'
<1> USE DEF IInvSlots
<1>1. Types'
  BY DEF Types
<1>2. Handshake' /\ Told' /\ Room'
  BY DEF Handshake, Acking, Told, Room
<1>3. Slots'
  BY SlotsFrame DEF PendingIds
<1> QED
  BY <1>1, <1>2, <1>3

(* Server steps that move no slot.                                        *)
LEMMA ServerSlots ==
  ASSUME IInvSlots,
         \/ ServerStart \/ ServerWoken \/ ServerLock \/ ServerQuit \/ ServerDeliver
         \/ ServerReply \/ ServerRelease
  PROVE  IInvSlots'
<1> USE DEF IInvSlots
<1>1. UNCHANGED <<mpc, quit, send_lock, cpc, sent, cmd, free_list, free_list_idx, id,
                  pthread_wait_id, handles>>
  BY DEF ServerStart, ServerWoken, ServerLock, ServerQuit, ServerDeliver, ServerReply,
         ServerRelease, file, sim, client
<1>2. \/ /\ spc = "start" /\ spc' = "stall" /\ server_mut' = TRUE
         /\ UNCHANGED cmd_recieve_server_resp_lock
      \/ /\ spc = "stall" /\ spc' = "alloc" /\ ~server_mut /\ server_mut' = TRUE
         /\ UNCHANGED cmd_recieve_server_resp_lock
      \/ /\ spc = "lock" /\ spc' = "deliver"
         /\ UNCHANGED <<server_mut, cmd_recieve_server_resp_lock>>
      \/ /\ spc = "deliver" /\ spc' = "gone" /\ quit
         /\ UNCHANGED <<server_mut, cmd_recieve_server_resp_lock>>
      \/ /\ spc = "deliver" /\ spc' = "reply" /\ ~quit
         /\ UNCHANGED <<server_mut, cmd_recieve_server_resp_lock>>
      \/ /\ spc = "reply" /\ spc' = "release" /\ cmd_recieve_server_resp_lock' = FALSE
         /\ UNCHANGED server_mut
      \/ /\ spc = "release" /\ spc' = "stall"
         /\ UNCHANGED <<server_mut, cmd_recieve_server_resp_lock>>
  BY DEF ServerStart, ServerWoken, ServerLock, ServerQuit, ServerDeliver, ServerReply,
         ServerRelease, Step, file
<1>3. Types'
  <2>1. spc' \in {"start", "stall", "alloc", "lock", "deliver", "reply", "release", "gone"}
    BY <1>2
  <2> QED
    BY <1>1, <2>1 DEF Types
<1>4. Handshake'
  BY <1>1, <1>2 DEF Handshake, Acking
<1>5. Told' /\ Room'
  BY <1>1, <1>2 DEF Told, Room, Handshake
<1>6. PendingIds' = PendingIds
  BY <1>1, <1>2 DEF PendingIds, Handshake
<1>7. Slots'
  BY <1>1, <1>6, SlotsFrame
<1> QED
  BY <1>3, <1>4, <1>5, <1>7

(* At the moment the server takes a slot no other is pending, and one is  *)
(* left.                                                                  *)
LEMMA OneLeft == ASSUME IInvSlots, spc = "alloc"
                 PROVE  PendingIds = {} /\ cmd_recieve_server_resp_lock /\ free_list_idx \in Ids
<1> USE DEF IInvSlots
<1>1. cmd_recieve_server_resp_lock
  BY DEF Handshake
<1>2. PendingIds = {}
  BY <1>1 DEF PendingIds
<1>3. FreeIds # {}
  BY <1>2, NotAllHeld DEF Slots
<1>4. PICK i \in 0 .. free_list_idx : TRUE
  BY <1>3 DEF FreeIds
<1>5. free_list_idx \in -1 .. NIds - 1
  BY DEF Types
<1>6. free_list_idx \in Ids
  BY <1>4, <1>5, IdFacts
<1> QED
  BY <1>1, <1>2, <1>6

(* The server takes the slot on top of free_list.                         *)
LEMMA AllocateSlots == ASSUME IInvSlots, ServerAllocate PROVE IInvSlots'
<1> USE DEF IInvSlots
<1>1. /\ spc = "alloc" /\ spc' = "lock" /\ pthread_wait_id' = id'
      /\ UNCHANGED <<mpc, quit, send_lock, cpc, sent, cmd, free_list, handles, server_mut,
                     cmd_recieve_server_resp_lock>>
  BY DEF ServerAllocate, Step, sim, client
<1>2. PendingIds = {} /\ cmd_recieve_server_resp_lock /\ free_list_idx \in Ids
  BY <1>1, OneLeft
<1>3. /\ cmd.xd => id' = free_list[free_list_idx] /\ free_list_idx' = free_list_idx - 1
      /\ ~cmd.xd => id' = NoId /\ free_list_idx' = free_list_idx
  BY <1>2 DEF ServerAllocate, NeedsSlot, TopTaken
<1>4. free_list_idx \in Nat /\ free_list_idx <= NIds - 1 /\ NIds \in Nat /\ free_list \in [Ids -> Ids]
      /\ cmd.xd \in BOOLEAN
  <2>1. free_list_idx \in Nat /\ free_list_idx <= NIds - 1 /\ NIds \in Nat
    BY <1>2, IdFacts
  <2>2. free_list \in [Ids -> Ids] /\ cmd.xd \in BOOLEAN
    BY DEF Types
  <2> QED
    BY <2>1, <2>2
<1>5. Handshake'
  BY <1>1, <1>2 DEF Handshake, Acking
<1>6. HeldIds' = HeldIds /\ HeldIds \subseteq Ids
  BY <1>1, SlotTypes DEF HeldIds
<1>7. Told'
  <2>1. cmd.xd => id' \in Ids
    BY <1>2, <1>3, <1>4
  <2> QED
    BY <1>1, <1>2, <1>3, <1>4, <2>1, IdFacts DEF Told
<1>8. Room'
  BY <1>1 DEF Room
<1>9. CASE ~cmd.xd
  <2>1. PendingIds' = {}
    BY <1>3, <1>9 DEF PendingIds
  <2>2. Slots'
    BY <1>1, <1>2, <1>3, <1>9, <2>1, SlotsFrame
  <2>3. Types'
    BY <1>1, <1>3, <1>9 DEF Types
  <2> QED
    BY <1>5, <1>7, <1>8, <2>2, <2>3
<1>10. CASE cmd.xd
  <2>1. id' = free_list[free_list_idx] /\ free_list_idx' = free_list_idx - 1 /\ id' \in Ids
    BY <1>2, <1>3, <1>4, <1>10
  <2>2. PendingIds' = {id'}
    BY <1>1, <2>1, IdFacts DEF PendingIds
  <2>3. 0 .. free_list_idx = (0 .. free_list_idx') \cup {free_list_idx}
        /\ free_list_idx \notin 0 .. free_list_idx'
    BY <1>4, <2>1
  <2>4. FreeIds' = {free_list[i] : i \in 0 .. free_list_idx'}
    BY <1>1 DEF FreeIds
  <2>5. FreeIds = FreeIds' \cup {id'}
    BY <2>1, <2>3, <2>4 DEF FreeIds
  <2>6. id' \notin FreeIds'
    <3>1. \A i \in 0 .. free_list_idx' : i \in 0 .. free_list_idx /\ i # free_list_idx
      BY <2>3
    <3>2. free_list_idx \in 0 .. free_list_idx
      BY <1>4
    <3>3. \A i \in 0 .. free_list_idx' : free_list[i] # free_list[free_list_idx]
      BY <3>1, <3>2 DEF Slots
    <3> QED
      BY <2>1, <2>4, <3>3
  <2>7. Slots'
    <3>1. \A i, j \in 0 .. free_list_idx' : i # j => free_list'[i] # free_list'[j]
      BY <1>1, <2>3 DEF Slots
    <3>2. \A c, d \in Clients : \A g \in handles'[c], h \in handles'[d] : g.id = h.id => c = d /\ g = h
      BY <1>1 DEF Slots
    <3>3. /\ Ids = FreeIds' \cup HeldIds' \cup PendingIds'
          /\ FreeIds' \cap HeldIds' = {} /\ PendingIds' \cap (FreeIds' \cup HeldIds') = {}
      BY <1>2, <1>6, <2>2, <2>5, <2>6 DEF Slots
    <3> QED
      BY <3>1, <3>2, <3>3 DEF Slots
  <2>8. Types'
    <3>1. free_list_idx' \in -1 .. NIds - 1
      BY <1>4, <2>1
    <3> QED
      BY <1>1, <2>1, <3>1 DEF Types
  <2> QED
    BY <1>5, <1>7, <1>8, <2>7, <2>8
<1> QED
  BY <1>9, <1>10

(* A client writes, wakes the server, or calls shutdown().                *)
LEMMA ClientSlots ==
  ASSUME IInvSlots, NEW c \in Clients, ClientWrite(c) \/ ClientWake(c) \/ ClientShutdown(c)
  PROVE  IInvSlots'
<1> USE DEF IInvSlots
<1>1. UNCHANGED <<spc, mpc, free_list, free_list_idx, id, pthread_wait_id, handles,
                  cmd_recieve_server_resp_lock>>
  BY DEF ClientWrite, ClientWake, ClientShutdown, server, sim, client
<1>2. Slots'
  BY <1>1, SlotsFrame DEF PendingIds
<1>3. CASE ClientWrite(c)
  <2>1. /\ send_lock = Nobody /\ sent[c] < MaxCmds /\ Cardinality(handles[c]) < MaxOutstanding
        /\ cpc[c] = "idle" /\ cpc' = [cpc EXCEPT ![c] = "wake"] /\ send_lock' = c
        /\ sent' = [sent EXCEPT ![c] = @ + 1] /\ UNCHANGED <<quit, server_mut>>
    BY <1>3 DEF ClientWrite, Lead
  <2>2. PICK p \in Cores, xd \in BOOLEAN, f \in {FALSE, MayFlush} :
          cmd' = [tag |-> <<c, sent[c] + 1>>, pair |-> p, xd |-> xd, flush |-> f]
    BY <1>3 DEF ClientWrite
  <2>3. ~Acking
    BY <2>1, ClientsAreNamed DEF Acking, Nobody
  <2>4. sent \in [Clients -> Nat] /\ cpc \in [Clients -> {"idle", "wake", "ack"}] /\ MaxCmds \in Nat
    <3>1. sent \in [Clients -> Nat] /\ cpc \in [Clients -> {"idle", "wake", "ack"}]
      BY DEF Types
    <3> QED
      BY <3>1, BoundFacts
  <2>5. Types'
    <3>1. sent[c] \in Nat /\ sent[c] + 1 \in 1 .. MaxCmds
      BY <2>1, <2>4
    <3>2. /\ cmd' \in [tag : Tags \cup {NoTag}, pair : Pairs, xd : BOOLEAN, flush : BOOLEAN]
          /\ cmd'.tag \in Tags
      <4>1. <<c, sent[c] + 1>> \in Tags
        BY <3>1 DEF Tags
      <4>2. f \in BOOLEAN /\ p \in Pairs
        BY SwitchesAreBoolean, CoresArePairs
      <4> QED
        BY <2>2, <4>1, <4>2
    <3>3. sent' \in [Clients -> Nat] /\ \A d \in Clients : sent'[d] <= MaxCmds
      <4>1. sent' \in [Clients -> Nat]
        BY <2>1, <2>4, <3>1
      <4>2. \A d \in Clients : sent'[d] = IF d = c THEN sent[c] + 1 ELSE sent[d]
        BY <2>1, <2>4
      <4>3. \A d \in Clients : sent[d] <= MaxCmds
        BY DEF Types
      <4> QED
        BY <3>1, <4>1, <4>2, <4>3
    <3>4. cpc' \in [Clients -> {"idle", "wake", "ack"}] /\ send_lock' \in Clients
      BY <2>1, <2>4
    <3> QED
      BY <1>1, <3>2, <3>3, <3>4 DEF Types
  <2>6. Handshake'
    <3>1. \A d \in Clients : (cpc'[d] = "idle") = (send_lock' # d)
      <4>1. \A d \in Clients : send_lock # d
        BY <2>1, ClientsAreNamed DEF Nobody
      <4>2. \A d \in Clients : cpc[d] = "idle"
        BY <4>1 DEF Handshake
      <4>3. ASSUME NEW d \in Clients, d # c PROVE cpc'[d] = "idle"
        BY <2>1, <2>4, <4>2, <4>3
      <4>4. cpc'[c] # "idle"
        BY <2>1, <2>4
      <4> QED
        BY <2>1, <4>3, <4>4
    <3> QED
      BY <1>1, <2>1, <2>3, <3>1 DEF Handshake
  <2>7. Told'
    BY <1>1, <2>1, <2>3 DEF Told, Handshake
  <2>8. Room'
    <3>1. \A d \in Clients : cpc'[d] # "idle" => d = c \/ cpc[d] # "idle"
      BY <2>1, <2>4
    <3> QED
      BY <1>1, <2>1, <3>1 DEF Room
  <2> QED
    BY <1>2, <2>5, <2>6, <2>7, <2>8
<1>4. CASE ClientWake(c)
  <2>1. /\ cpc[c] = "wake" /\ cpc' = [cpc EXCEPT ![c] = "ack"] /\ ~server_mut'
        /\ UNCHANGED <<cmd, quit, send_lock, sent>>
    BY <1>4 DEF ClientWake, Lead
  <2>2. cpc \in [Clients -> {"idle", "wake", "ack"}]
    BY DEF Types
  <2>3. send_lock = c /\ ~Acking /\ cpc'[c] = "ack"
    BY <2>1, <2>2 DEF Handshake, Acking
  <2>4. Types'
    BY <1>1, <2>1 DEF Types
  <2>5. \A d \in Clients : (cpc'[d] = "idle") = (cpc[d] = "idle")
    BY <2>1, <2>2
  <2>6. Handshake'
    BY <1>1, <2>1, <2>3, <2>5 DEF Handshake, Acking
  <2>7. Told' /\ Room'
    BY <1>1, <2>1, <2>5 DEF Told, Room
  <2> QED
    BY <1>2, <2>4, <2>6, <2>7
<1>5. CASE ClientShutdown(c)
  <2>1. /\ send_lock = Nobody /\ quit' = TRUE /\ server_mut' = FALSE
        /\ UNCHANGED <<cmd, send_lock, cpc, sent>>
    BY <1>5 DEF ClientShutdown, client
  <2>2. ~Acking
    BY <2>1, ClientsAreNamed DEF Acking, Nobody
  <2>3. Types'
    BY <1>1, <2>1 DEF Types
  <2>4. Handshake'
    BY <1>1, <2>1, <2>2 DEF Handshake
  <2>5. Told' /\ Room'
    BY <1>1, <2>1, <2>2 DEF Told, Room, Handshake
  <2> QED
    BY <1>2, <2>3, <2>4, <2>5
<1> QED
  BY <1>3, <1>4, <1>5

(* A client takes its handle: the pending slot is now held.               *)
LEMMA AckSlots == ASSUME IInvSlots, NEW c \in Clients, ClientAck(c) PROVE IInvSlots'
<1> USE DEF IInvSlots
<1> DEFINE new == [tag |-> cmd.tag, id |-> pthread_wait_id]
<1>1. /\ cpc[c] = "ack" /\ cpc' = [cpc EXCEPT ![c] = "idle"] /\ send_lock' = Nobody
      /\ ~cmd_recieve_server_resp_lock /\ cmd_recieve_server_resp_lock'
      /\ handles' = IF cmd.xd THEN [handles EXCEPT ![c] = @ \cup {new}] ELSE handles
      /\ UNCHANGED <<cmd, quit, free_list, free_list_idx, pthread_wait_id, server_mut, spc, id, mpc,
                     sent>>
  BY DEF ClientAck, Lead, server, sim
<1>2. /\ cpc \in [Clients -> {"idle", "wake", "ack"}]
      /\ handles \in [Clients -> SUBSET [tag : Tags, id : Ids]]
  BY DEF Types
<1>3. /\ send_lock = c /\ spc \in {"release", "stall"} /\ server_mut /\ ~quit
      /\ pthread_wait_id = id /\ cmd.xd = (id # NoId)
  BY <1>1, <1>2 DEF Handshake, Told
<1>4. PendingIds = (IF cmd.xd THEN {id} ELSE {}) /\ PendingIds' = {}
  BY <1>1, <1>3 DEF PendingIds
<1>5. FreeIds' = FreeIds
  BY <1>1 DEF FreeIds
<1>6. Handshake'
  <2>1. \A d \in Clients : (cpc'[d] = "idle") = (send_lock' # d)
    <3>1. \A d \in Clients : send_lock' # d
      BY <1>1, ClientsAreNamed DEF Nobody
    <3>2. ASSUME NEW d \in Clients PROVE cpc'[d] = "idle"
      <4>1. d # c => cpc[d] = "idle"
        BY <1>3 DEF Handshake
      <4> QED
        BY <1>1, <1>2, <4>1
    <3> QED
      BY <3>1, <3>2
  <2> QED
    BY <1>1, <1>3, <2>1 DEF Handshake
<1>7. Told'
  BY <1>1, <1>3 DEF Told
<1>8. \A d \in Clients : cpc'[d] # "idle" => d # c /\ cpc[d] # "idle"
  BY <1>1, <1>2
<1>9. CASE ~cmd.xd
  <2>1. handles' = handles
    BY <1>1, <1>9
  <2>2. Slots'
    BY <1>1, <1>4, <1>9, <2>1, SlotsFrame
  <2>3. Room'
    BY <1>8, <2>1 DEF Room
  <2>4. Types'
    BY <1>1, <2>1 DEF Types
  <2> QED
    BY <1>6, <1>7, <2>2, <2>3, <2>4
<1>10. CASE cmd.xd
  <2>1. id \in Ids /\ new = [tag |-> cmd.tag, id |-> id] /\ new.id = id /\ PendingIds = {id}
    BY <1>3, <1>4, <1>10 DEF Types
  <2>2. id \notin FreeIds /\ id \notin HeldIds
    BY <2>1 DEF Slots
  <2> HIDE DEF new
  <2>3. handles' = [handles EXCEPT ![c] = @ \cup {new}]
    BY <1>1, <1>10
  <2>4. \A d \in Clients : handles'[d] = IF d = c THEN handles[c] \cup {new} ELSE handles[d]
    BY <1>2, <2>3
  <2>5. HeldIds' = HeldIds \cup {id}
    <3>1. UNION {handles'[d] : d \in Clients} = (UNION {handles[d] : d \in Clients}) \cup {new}
      BY <2>4
    <3> QED
      BY <2>1, <3>1 DEF HeldIds
  <2>6. \A d \in Clients : \A h \in handles[d] : h.id # id
    BY <2>2 DEF HeldIds
  <2>7. Slots'
    <3>1. \A d, e \in Clients : \A g \in handles'[d], h \in handles'[e] : g.id = h.id => d = e /\ g = h
      BY <2>1, <2>4, <2>6 DEF Slots
    <3>2. \A i, j \in 0 .. free_list_idx' : i # j => free_list'[i] # free_list'[j]
      BY <1>1 DEF Slots
    <3>3. /\ Ids = FreeIds' \cup HeldIds' \cup PendingIds'
          /\ FreeIds' \cap HeldIds' = {} /\ PendingIds' \cap (FreeIds' \cup HeldIds') = {}
      BY <1>4, <1>5, <2>1, <2>2, <2>5 DEF Slots
    <3> QED
      BY <3>1, <3>2, <3>3 DEF Slots
  <2>8. Room'
    <3>1. IsFiniteSet(handles[c]) /\ Cardinality(handles[c]) < MaxOutstanding
      BY <1>1 DEF Room
    <3>2. IsFiniteSet(handles[c] \cup {new})
          /\ Cardinality(handles[c] \cup {new}) = IF new \in handles[c] THEN Cardinality(handles[c])
                                                ELSE Cardinality(handles[c]) + 1
      BY <3>1, FS_AddElement
    <3>3. Cardinality(handles[c]) \in Nat
      BY <3>1, FS_CardinalityType
    <3>4. Cardinality(handles[c] \cup {new}) <= MaxOutstanding
      BY <3>1, <3>2, <3>3, BoundFacts
    <3> QED
      BY <1>8, <2>4, <3>2, <3>4 DEF Room
  <2>9. Types'
    <3>1. cmd.tag \in Tags
      BY <1>3 DEF Types
    <3>2. new \in [tag : Tags, id : Ids]
      BY <2>1, <3>1
    <3>3. handles' \in [Clients -> SUBSET [tag : Tags, id : Ids]]
      BY <1>2, <2>3, <3>2
    <3> QED
      BY <1>1, <3>3 DEF Types
  <2> QED
    BY <1>6, <1>7, <2>7, <2>8, <2>9
<1> QED
  BY <1>9, <1>10

(* A client reads its response and returns the slot.                      *)
LEMMA ReceiveSlots == ASSUME IInvSlots, NEW c \in Clients, ClientReceive(c) PROVE IInvSlots'
<1> USE DEF IInvSlots
<1>1. PICK h \in handles[c] :
        /\ h.id \in Ids /\ ~wait_for_response[h.id]
        /\ handles' = [handles EXCEPT ![c] = @ \ {h}]
        /\ free_list_idx' = free_list_idx + 1
        /\ free_list' = [free_list EXCEPT ![free_list_idx + 1] = h.id]
        /\ UNCHANGED <<cmd, quit, pthread_wait_id, server_mut, cmd_recieve_server_resp_lock, spc, id,
                       mpc, send_lock, cpc, sent>>
  BY DEF ClientReceive, server, sim
<1>2. /\ handles \in [Clients -> SUBSET [tag : Tags, id : Ids]]
      /\ free_list \in [Ids -> Ids] /\ free_list_idx \in -1 .. NIds - 1
  BY DEF Types
<1>3. h.id \in HeldIds
  BY DEF HeldIds
<1>4. free_list_idx + 1 \in Ids /\ free_list_idx \in Int
  BY <1>1, <1>2, <1>3, RoomInFreeList
<1>5. \A d \in Clients : handles'[d] = IF d = c THEN handles[c] \ {h} ELSE handles[d]
  BY <1>1, <1>2
<1>6. HeldIds' = HeldIds \ {h.id}
  <2>1. \A d \in Clients : \A g \in handles[d] : g.id = h.id => d = c /\ g = h
    BY DEF Slots
  <2>2. UNION {handles'[d] : d \in Clients} = (UNION {handles[d] : d \in Clients}) \ {h}
    BY <1>5, <2>1
  <2>3. \A g \in UNION {handles[d] : d \in Clients} : g.id = h.id => g = h
    BY <2>1
  <2> QED
    BY <2>2, <2>3 DEF HeldIds
<1>7. 0 .. free_list_idx' = (0 .. free_list_idx) \cup {free_list_idx + 1}
      /\ free_list_idx + 1 \notin 0 .. free_list_idx
  <2>1. free_list_idx + 1 \in Nat
    BY <1>4, IdFacts
  <2> QED
    BY <1>1, <1>4, <2>1
<1>8. /\ \A i \in 0 .. free_list_idx : free_list'[i] = free_list[i]
      /\ free_list'[free_list_idx + 1] = h.id
  <2>1. 0 .. free_list_idx \subseteq Ids
    BY SlotTypes
  <2> QED
    BY <1>1, <1>2, <1>4, <1>7, <2>1
<1>9. FreeIds' = FreeIds \cup {h.id} /\ h.id \notin FreeIds
  <2>1. FreeIds' = {free_list'[i] : i \in 0 .. free_list_idx'}
    BY DEF FreeIds
  <2>2. FreeIds' = {free_list'[i] : i \in 0 .. free_list_idx} \cup {h.id}
    BY <1>7, <1>8, <2>1
  <2>3. {free_list'[i] : i \in 0 .. free_list_idx} = FreeIds
    BY <1>8 DEF FreeIds
  <2>4. h.id \notin FreeIds
    BY <1>3 DEF Slots
  <2> QED
    BY <2>2, <2>3, <2>4
<1>10. PendingIds' = PendingIds
  BY <1>1 DEF PendingIds
<1>11. Slots'
  <2>1. \A i, j \in 0 .. free_list_idx' : i # j => free_list'[i] # free_list'[j]
    <3>1. \A i \in 0 .. free_list_idx : free_list[i] # h.id
      BY <1>9 DEF FreeIds
    <3>2. \A i, j \in 0 .. free_list_idx : i # j => free_list[i] # free_list[j]
      BY DEF Slots
    <3> QED
      BY <1>7, <1>8, <3>1, <3>2
  <2>2. \A d, e \in Clients : \A f \in handles'[d], g \in handles'[e] : f.id = g.id => d = e /\ f = g
    BY <1>5 DEF Slots
  <2>3. /\ Ids = FreeIds' \cup HeldIds' \cup PendingIds'
        /\ FreeIds' \cap HeldIds' = {} /\ PendingIds' \cap (FreeIds' \cup HeldIds') = {}
    BY <1>3, <1>6, <1>9, <1>10 DEF Slots
  <2> QED
    BY <2>1, <2>2, <2>3 DEF Slots
<1>12. Room'
  <2>1. IsFiniteSet(handles[c]) /\ Cardinality(handles[c]) <= MaxOutstanding
        /\ (cpc[c] # "idle" => Cardinality(handles[c]) < MaxOutstanding)
    BY DEF Room
  <2>2. /\ IsFiniteSet(handles[c] \ {h})
        /\ Cardinality(handles[c] \ {h}) = IF h \in handles[c] THEN Cardinality(handles[c]) - 1
                                           ELSE Cardinality(handles[c])
    BY <2>1, FS_RemoveElement
  <2>3. Cardinality(handles[c]) \in Nat
    BY <2>1, FS_CardinalityType
  <2>4. Cardinality(handles[c] \ {h}) < Cardinality(handles[c])
        /\ Cardinality(handles[c] \ {h}) < MaxOutstanding
    BY <2>1, <2>2, <2>3, BoundFacts
  <2>5. MaxOutstanding \in Nat /\ Cardinality(handles[c] \ {h}) <= MaxOutstanding
    BY <2>1, <2>2, <2>3, BoundFacts
  <2> QED
    BY <1>1, <1>5, <2>2, <2>4, <2>5 DEF Room
<1>13. Types'
  <2>1. handles' \in [Clients -> SUBSET [tag : Tags, id : Ids]]
    BY <1>1, <1>2
  <2>2. free_list' \in [Ids -> Ids]
    BY <1>1, <1>2, <1>4
  <2>3. free_list_idx' \in -1 .. NIds - 1
    <3>1. NIds \in Int /\ free_list_idx + 1 \in 0 .. NIds - 1
      BY <1>4, IdFacts
    <3>2. free_list_idx' = free_list_idx + 1
      BY <1>1
    <3> QED
      BY <3>1, <3>2
  <2> QED
    BY <1>1, <2>1, <2>2, <2>3 DEF Types
<1>14. Handshake' /\ Told'
  BY <1>1 DEF Handshake, Acking, Told
<1> QED
  BY <1>11, <1>12, <1>13, <1>14

(* The slots at the start, ...                                            *)
LEMMA InitSlots == Init => IInvSlots
<1> SUFFICES ASSUME Init PROVE IInvSlots
  OBVIOUS
<1> USE DEF Init, InitFile
<1>1. Types
  <2>1. free_list \in [Ids -> Ids] /\ free_list_idx \in -1 .. NIds - 1
    BY IdFacts
  <2>2. cmd \in [tag : Tags \cup {NoTag}, pair : Pairs, xd : BOOLEAN, flush : BOOLEAN]
    OBVIOUS
  <2>3. send_lock \notin Clients
    BY ClientsAreNamed DEF Nobody
  <2>4. sent \in [Clients -> Nat] /\ \A c \in Clients : sent[c] <= MaxCmds
    BY BoundFacts
  <2> QED
    BY <2>1, <2>2, <2>3, <2>4 DEF Types
<1>2. Handshake
  BY ClientsAreNamed DEF Handshake, Nobody
<1>3. HeldIds = {} /\ PendingIds = {}
  BY DEF HeldIds, PendingIds
<1>4. FreeIds = Ids
  BY IdFacts DEF FreeIds
<1>5. Slots
  BY <1>3, <1>4, IdFacts DEF Slots
<1>6. Told
  BY DEF Told
<1>7. Room
  BY FS_EmptySet, BoundFacts DEF Room
<1> QED
  BY <1>1, <1>2, <1>5, <1>6, <1>7 DEF IInvSlots

(* ... and with every step.                                               *)
LEMMA NextSlots == ASSUME IInvSlots, [Next]_vars PROVE IInvSlots'
<1>1. CASE \E c \in Clients : ClientStep(c) \/ ClientShutdown(c)
  BY <1>1, ClientSlots, AckSlots, ReceiveSlots DEF ClientStep
<1>2. CASE ServerStep
  BY <1>2, ServerSlots, AllocateSlots DEF ServerStep
<1>3. CASE SimStep
  <2>1. UNCHANGED <<spc, quit, send_lock, cpc, sent, cmd, free_list, free_list_idx, id,
                    pthread_wait_id, handles, server_mut, cmd_recieve_server_resp_lock>>
    BY <1>3 DEF SimStep, SimStop, SimWantCommand, SimLock, SimFetch, RegisterBad, RegisterStore,
         RegisterNotify, RegisterPop, SimWantResponse, SimWantBadResponse, file, server, client
  <2>2. mpc' \in {"loop", "fetch lock", "fetch", "register lock", "register", "notify", "pop", "exit"}
    BY <1>3 DEF SimStep, SimStop, SimWantCommand, SimLock, SimFetch, RegisterBad, RegisterStore,
         RegisterNotify, RegisterPop, SimWantResponse, SimWantBadResponse, Cycle
  <2> QED
    BY <2>1, <2>2, SimSlots
<1>4. CASE UNCHANGED vars
  <2>1. UNCHANGED <<spc, quit, send_lock, cpc, sent, cmd, free_list, free_list_idx, id, mpc,
                    pthread_wait_id, handles, server_mut, cmd_recieve_server_resp_lock>>
    BY <1>4 DEF vars, file, server, client, sim
  <2>2. mpc' \in {"loop", "fetch lock", "fetch", "register lock", "register", "notify", "pop", "exit"}
    BY <2>1 DEF IInvSlots, Types
  <2> QED
    BY <2>1, <2>2, SimSlots
<1> QED
  BY <1>1, <1>2, <1>3, <1>4 DEF Next

-----------------------------------------------------------------------------
(* Lines of waiting slots.                                                *)

(* in_flight holds slots only.                                            *)
LEMMA WaitingType == ASSUME Contents, Registering, NEW p \in Pairs
                     PROVE  /\ InFlightOf(p) \in Seq(Ids) /\ Waiting(p) \in Seq(Ids)
                            /\ mpc # "pop" => Waiting(p) = InFlightOf(p)
                            /\ DOMAIN Waiting(p) = 1 .. Len(Waiting(p)) /\ Len(Waiting(p)) \in Nat
<1>1. InFlightOf(p) \in Seq(Ids)
  BY DEF Contents, InFlightOf
<1>2. CASE mpc = "pop" /\ rsp.pair = p
  <2>1. InFlightOf(p) # <<>>
    BY <1>2 DEF Registering, InFlightOf
  <2>2. Tail(InFlightOf(p)) \in Seq(Ids)
    BY <1>1, <2>1
  <2> QED
    BY <1>1, <1>2, <2>2 DEF Waiting
<1>3. CASE ~(mpc = "pop" /\ rsp.pair = p)
  BY <1>1, <1>3 DEF Waiting
<1> QED
  BY <1>1, <1>2, <1>3

(* A slot is given to one command at a time, and while it is it is not    *)
(* free.                                                                  *)
LEMMA TagFacts ==
  ASSUME IInvSlots, NEW i, NEW t, HasTag(i, t)
  PROVE  i \in HeldIds \cup PendingIds /\ i \in Ids /\ i \notin FreeIds
         /\ \A u : HasTag(i, u) => u = t
<1> USE DEF IInvSlots
<1>1. Placed => PendingIds = {id} /\ id \in Ids
  BY DEF Placed, PendingIds, Told, Handshake, Types
<1>2. \A c \in Clients : \A h \in handles[c] : h.id \in HeldIds
  BY DEF HeldIds
<1>3. HeldIds \subseteq Ids
  BY SlotTypes
<1>4. CASE \E c \in Clients : \E h \in handles[c] : h.id = i /\ h.tag = t
  <2>1. PICK c \in Clients : \E h \in handles[c] : h.id = i /\ h.tag = t
    BY <1>4
  <2>2. PICK h \in handles[c] : h.id = i /\ h.tag = t
    BY <2>1
  <2>3. i \in HeldIds /\ i \in Ids /\ i \notin FreeIds /\ i \notin PendingIds
    BY <1>2, <1>3, <2>2 DEF Slots
  <2>4. ~(Placed /\ i = id)
    BY <1>1, <2>3
  <2>5. ASSUME NEW u, HasTag(i, u) PROVE u = t
    <3>1. PICK d \in Clients : \E g \in handles[d] : g.id = i /\ g.tag = u
      BY <2>4, <2>5 DEF HasTag
    <3> QED
      BY <2>2, <3>1 DEF Slots
  <2> QED
    BY <2>3, <2>5
<1>5. CASE Placed /\ i = id /\ t = cmd.tag
  <2>1. i \in PendingIds /\ i \in Ids /\ i \notin FreeIds /\ i \notin HeldIds
    BY <1>1, <1>5 DEF Slots
  <2>2. ASSUME NEW u, HasTag(i, u) PROVE u = t
    BY <1>2, <1>5, <2>1, <2>2 DEF HasTag
  <2> QED
    BY <2>1, <2>2
<1> QED
  BY <1>4, <1>5 DEF HasTag

(* A queued slot was given to a command on its way.                       *)
LEMMA QueuedFacts ==
  ASSUME IInv, NEW p \in Pairs, NEW k \in DOMAIN Waiting(p)
  PROVE  /\ Waiting(p)[k] \in Ids /\ Waiting(p)[k] \in HeldIds \cup PendingIds
         /\ Waiting(p)[k] \notin FreeIds
         /\ \E r \in Nat, t \in Tags : HasTag(Waiting(p)[k], t) /\ ItemAt(p, r, t)
<1> USE DEF IInv, IInvRouting
<1>1. PICK r \in Nat, t \in Tags : HasTag(Waiting(p)[k], t) /\ ItemAt(p, r, t)
  BY DEF InOrder
<1> QED
  BY <1>1, TagFacts

(* The commands on their way may move up as long as they keep their order. *)
LEMMA Rerank ==
  ASSUME NEW p \in Pairs, InOrder(p), Waiting(p)' = Waiting(p),
         \A k \in DOMAIN Waiting(p), t \in Tags :
           HasTag(Waiting(p)[k], t)' <=> HasTag(Waiting(p)[k], t),
         NEW rho \in [Nat -> Nat],
         \A r, s \in Nat, t \in Tags : ItemAt(p, r, t) /\ s = rho[r] => ItemAt(p, s, t)',
         \A s \in Nat, t \in Tags : ItemAt(p, s, t)' => \E r \in Nat : ItemAt(p, r, t) /\ s = rho[r],
         \A r, s \in Nat, t, u \in Tags :
           ItemAt(p, r, t) /\ ItemAt(p, s, u) => (r < s <=> rho[r] < rho[s])
  PROVE  InOrder(p)'
<1>1. \A k \in DOMAIN Waiting(p)' :
        \E r \in Nat, t \in Tags : HasTag(Waiting(p)[k], t)' /\ ItemAt(p, r, t)'
  <2> SUFFICES ASSUME NEW k \in DOMAIN Waiting(p)
               PROVE  \E s \in Nat, t \in Tags : HasTag(Waiting(p)[k], t)' /\ ItemAt(p, s, t)'
    OBVIOUS
  <2>1. PICK r \in Nat, t \in Tags : HasTag(Waiting(p)[k], t) /\ ItemAt(p, r, t)
    BY DEF InOrder
  <2>2. PICK s \in Nat : s = rho[r]
    OBVIOUS
  <2>3. ItemAt(p, s, t)' /\ HasTag(Waiting(p)[k], t)'
    BY <2>1, <2>2
  <2> QED
    BY <2>3
<1>2. \A s \in Nat, t \in Tags :
        ItemAt(p, s, t)' => \E k \in DOMAIN Waiting(p)' : HasTag(Waiting(p)[k], t)'
  <2> SUFFICES ASSUME NEW s \in Nat, NEW t \in Tags, ItemAt(p, s, t)'
               PROVE  \E k \in DOMAIN Waiting(p) : HasTag(Waiting(p)[k], t)'
    OBVIOUS
  <2>1. PICK r \in Nat : ItemAt(p, r, t)
    OBVIOUS
  <2>2. PICK k \in DOMAIN Waiting(p) : HasTag(Waiting(p)[k], t)
    BY <2>1 DEF InOrder
  <2> QED
    BY <2>2
<1>3. \A k, l \in DOMAIN Waiting(p)', r, s \in Nat, t, u \in Tags :
       /\ HasTag(Waiting(p)[k], t)' /\ ItemAt(p, r, t)'
       /\ HasTag(Waiting(p)[l], u)' /\ ItemAt(p, s, u)'
       => (k < l <=> r < s)
  <2> SUFFICES ASSUME NEW k \in DOMAIN Waiting(p), NEW l \in DOMAIN Waiting(p),
                      NEW r \in Nat, NEW s \in Nat, NEW t \in Tags, NEW u \in Tags,
                      HasTag(Waiting(p)[k], t)', ItemAt(p, r, t)',
                      HasTag(Waiting(p)[l], u)', ItemAt(p, s, u)'
               PROVE  k < l <=> r < s
    OBVIOUS
  <2>1. PICK r0 \in Nat : ItemAt(p, r0, t) /\ r = rho[r0]
    OBVIOUS
  <2>2. PICK s0 \in Nat : ItemAt(p, s0, u) /\ s = rho[s0]
    OBVIOUS
  <2>3. HasTag(Waiting(p)[k], t) /\ HasTag(Waiting(p)[l], u)
    OBVIOUS
  <2>4. k < l <=> r0 < s0
    BY <2>1, <2>2, <2>3 DEF InOrder
  <2>5. r0 < s0 <=> rho[r0] < rho[s0]
    BY <2>1, <2>2
  <2> QED
    BY <2>1, <2>2, <2>4, <2>5
<1> QED
  BY <1>1, <1>2, <1>3 DEF InOrder

(* Nothing happens to the lines and the commands on their way.            *)
LEMMA SameLines ==
  ASSUME IInv, \A p \in Pairs : Waiting(p)' = Waiting(p),
         \A p \in Pairs : \A k \in DOMAIN Waiting(p), t \in Tags :
           HasTag(Waiting(p)[k], t)' <=> HasTag(Waiting(p)[k], t),
         \A p \in Pairs, r \in Nat, t \in Tags : ItemAt(p, r, t)' <=> ItemAt(p, r, t)
  PROVE  (\A p \in Pairs : InOrder(p)') /\ QueuedOnce' /\ QueuedIds' = QueuedIds
<1> USE DEF IInv, IInvRouting
<1>1. ASSUME NEW p \in Pairs PROVE InOrder(p)'
  <2> DEFINE rho == [r \in Nat |-> r]
  <2>1. rho \in [Nat -> Nat] /\ \A r \in Nat : rho[r] = r
    OBVIOUS
  <2> HIDE DEF rho
  <2>2. \A r, s \in Nat, t \in Tags : ItemAt(p, r, t) /\ s = rho[r] => ItemAt(p, s, t)'
    BY <2>1
  <2>3. \A s \in Nat, t \in Tags : ItemAt(p, s, t)' => \E r \in Nat : ItemAt(p, r, t) /\ s = rho[r]
    BY <2>1
  <2>4. \A r, s \in Nat, t, u \in Tags :
          ItemAt(p, r, t) /\ ItemAt(p, s, u) => (r < s <=> rho[r] < rho[s])
    BY <2>1
  <2>5. /\ InOrder(p) /\ Waiting(p)' = Waiting(p)
        /\ \A k \in DOMAIN Waiting(p), t \in Tags :
             HasTag(Waiting(p)[k], t)' <=> HasTag(Waiting(p)[k], t)
    OBVIOUS
  <2> QED
    BY <2>1, <2>2, <2>3, <2>4, <2>5, Rerank
<1>2. QueuedOnce'
  BY DEF QueuedOnce
<1>3. QueuedIds' = QueuedIds
  BY DEF QueuedIds
<1> QED
  BY <1>1, <1>2, <1>3

(* A slot in a line is a queued slot, and the other way round.            *)
LEMMA QueuedDef == \A i : i \in QueuedIds <=> \E p \in Pairs : \E k \in DOMAIN Waiting(p) : Waiting(p)[k] = i
BY DEF QueuedIds

-----------------------------------------------------------------------------
(* cmdserverlock.                                                         *)
LEMMA LocksStep == ASSUME IInv, [Next]_vars PROVE Locks'
<1> USE DEF IInv, IInvRouting, Nobody
<1>1. CASE \E c \in Clients : ClientStep(c) \/ ClientShutdown(c)
  BY <1>1 DEF Locks, ClientStep, ClientShutdown, ClientWrite, ClientWake, ClientAck, ClientReceive,
         globals, server, sim
<1>2. CASE ServerStep
  <2>1. CASE ServerStart \/ ServerWoken \/ ServerAllocate
    BY <2>1 DEF Locks, ServerStart, ServerWoken, ServerAllocate, Step, globals, sim
  <2>2. CASE ServerLock
    BY <2>2 DEF Locks, ServerLock, Step, sim
  <2>3. CASE ServerQuit \/ ServerDeliver \/ ServerReply
    BY <2>3 DEF Locks, ServerQuit, ServerDeliver, ServerReply, Step, globals, sim
  <2>4. CASE ServerRelease
    BY <2>4 DEF Locks, ServerRelease, Step, sim
  <2> QED
    BY <1>2, <2>1, <2>2, <2>3, <2>4 DEF ServerStep
<1>3. CASE SimStep
  <2>1. CASE SimStop \/ SimWantCommand \/ RegisterStore \/ RegisterNotify
    <3>1. UNCHANGED <<cmdserverlock, spc>>
      BY <2>1 DEF SimStop, SimWantCommand, RegisterStore, RegisterNotify, globals, server
    <3>2. \/ mpc = "loop" /\ mpc' \in {"exit", "fetch lock"}
          \/ mpc = "register" /\ mpc' = "notify"
          \/ mpc = "notify" /\ mpc' = "pop"
      BY <2>1 DEF SimStop, SimWantCommand, RegisterStore, RegisterNotify, Cycle
    <3> QED
      BY <3>1, <3>2 DEF Locks
  <2>4. ASSUME NEW p \in Pairs, SimWantResponse(p) \/ SimWantBadResponse(p) PROVE Locks'
    <3>1. UNCHANGED <<cmdserverlock, spc>> /\ mpc = "loop" /\ mpc' = "register lock"
      BY <2>4 DEF SimWantResponse, SimWantBadResponse, Cycle, globals, server
    <3> QED
      BY <3>1 DEF Locks
  <2>2. CASE SimLock
    BY <2>2 DEF Locks, SimLock, Cycle, server
  <2>3. CASE SimFetch \/ RegisterBad \/ RegisterPop
    BY <2>3 DEF Locks, SimFetch, RegisterBad, RegisterPop, Cycle, server
  <2> QED
    BY <1>3, <2>1, <2>2, <2>3, <2>4 DEF SimStep
<1>4. CASE UNCHANGED vars
  BY <1>4 DEF Locks, vars, globals, server, sim
<1> QED
  BY <1>1, <1>2, <1>3, <1>4 DEF Next

(* Only ClientWrite names a command, ClientAck files its name with the    *)
(* handle and ClientReceive with what was read.                           *)
LEMMA NamedStep == ASSUME IInv, [Next]_vars PROVE Named'
<1> USE DEF IInv, IInvRouting
<1>1. /\ handles \in [Clients -> SUBSET [tag : Tags, id : Ids]] /\ sent \in [Clients -> Nat]
      /\ cpc \in [Clients -> {"idle", "wake", "ack"}]
      /\ got \in [Clients -> SUBSET (Tags \X (Tags \cup {NoTag}))]
  BY DEF IInvSlots, Types, Contents
<1>2. /\ \A c \in Clients : \A h \in handles[c] : h.tag \in Tags /\ h.tag[2] \in Nat
      /\ \A c \in Clients : \A g \in got[c] : g[1] \in Tags /\ g[1][2] \in Nat
  <2>1. \A t \in Tags : t[2] \in Nat
    BY DEF Tags
  <2>2. \A c \in Clients : \A h \in handles[c] : h.tag \in Tags
    BY <1>1
  <2>3. \A c \in Clients : \A g \in got[c] : g[1] \in Tags
    BY <1>1
  <2> QED
    BY <2>1, <2>2, <2>3
<1>3. CASE UNCHANGED <<cmd, send_lock, sent, handles, got>>
  BY <1>3 DEF Named
<1>4. ASSUME NEW c \in Clients, ClientWrite(c) PROVE Named'
  <2>1. /\ send_lock = Nobody /\ send_lock' = c /\ sent' = [sent EXCEPT ![c] = @ + 1]
        /\ handles' = handles /\ got' = got
    BY <1>4 DEF ClientWrite
  <2>2. cmd'.tag = <<c, sent[c] + 1>> /\ cmd'.pair \in Cores
    BY <1>4 DEF ClientWrite
  <2>3. \A d \in Clients : sent'[d] = IF d = c THEN sent[c] + 1 ELSE sent[d]
    BY <1>1, <2>1
  <2>4. \A d \in Clients : sent[d] \in Nat
    BY <1>1
  <2>5. \A d \in Clients, n \in Nat : n <= sent[d] => n <= sent'[d] /\ (send_lock' = d => n < sent'[d])
    BY <2>1, <2>3, <2>4
  <2>6. \A d \in Clients : \A h \in handles[d] :
          h.tag[1] = d /\ h.tag[2] <= sent'[d] /\ (send_lock' = d => h.tag[2] < sent'[d])
    BY <1>2, <2>5 DEF Named
  <2>7. \A d \in Clients : \A g \in got[d] :
          g[1][1] = d /\ g[1][2] <= sent'[d] /\ (send_lock' = d => g[1][2] < sent'[d])
    BY <1>2, <2>5 DEF Named
  <2>8. \A d \in Clients : \A g, h \in handles[d] : g.tag = h.tag => g = h
    BY DEF Named
  <2>9. send_lock' \in Clients => cmd'.tag = <<send_lock', sent'[send_lock']>> /\ cmd'.pair \in Cores
    BY <2>1, <2>2, <2>3
  <2> QED
    BY <2>1, <2>6, <2>7, <2>8, <2>9 DEF Named
<1>5. ASSUME NEW c \in Clients, ClientAck(c) PROVE Named'
  <2> DEFINE new == [tag |-> cmd.tag, id |-> pthread_wait_id]
  <2>1. /\ send_lock' = Nobody /\ sent' = sent /\ cmd' = cmd /\ got' = got
        /\ handles' = IF cmd.xd THEN [handles EXCEPT ![c] = @ \cup {new}] ELSE handles
        /\ cpc[c] = "ack"
    BY <1>5 DEF ClientAck, Lead
  <2>2. send_lock = c
    BY <2>1 DEF IInvSlots, Handshake
  <2>3. cmd.tag = <<c, sent[c]>> /\ sent[c] \in Nat
    BY <1>1, <2>2 DEF Named
  <2>4. new.tag[1] = c /\ new.tag[2] <= sent[c] /\ new.tag[2] = sent[c]
    BY <2>3
  <2> HIDE DEF new
  <2>5. \A d \in Clients : \A h \in handles'[d] : h \in handles[d] \/ (d = c /\ h = new)
    BY <1>1, <2>1
  <2>6. \A d \in Clients : send_lock' # d
    BY <2>1, ClientsAreNamed DEF Nobody
  <2>7. \A h \in handles[c] : h.tag # new.tag
    <3>1. \A h \in handles[c] : h.tag[2] < sent[c] /\ h.tag[2] \in Nat
      BY <1>2, <2>2 DEF Named
    <3> QED
      BY <2>3, <2>4, <3>1
  <2>8. \A d \in Clients : \A g, h \in handles'[d] : g.tag = h.tag => g = h
    <3>1. \A d \in Clients : \A g, h \in handles[d] : g.tag = h.tag => g = h
      BY DEF Named
    <3> QED
      BY <2>5, <2>7, <3>1
  <2>9. \A d \in Clients : \A h \in handles'[d] : h.tag[1] = d /\ h.tag[2] <= sent[d]
    BY <2>4, <2>5 DEF Named
  <2>10. \A d \in Clients : \A g \in got[d] : g[1][1] = d /\ g[1][2] <= sent[d]
    BY DEF Named
  <2> QED
    BY <2>1, <2>6, <2>8, <2>9, <2>10 DEF Named
<1>6. ASSUME NEW c \in Clients, ClientReceive(c) PROVE Named'
  <2>1. PICK h \in handles[c] :
          /\ UNCHANGED <<cmd, send_lock, sent>> /\ handles' = [handles EXCEPT ![c] = @ \ {h}]
          /\ got' = [got EXCEPT ![c] = @ \cup {<<h.tag, responses[h.id]>>}]
    BY <1>6 DEF ClientReceive
  <2>2. \A d \in Clients : handles'[d] \subseteq handles[d]
    BY <1>1, <2>1
  <2>3. \A d \in Clients : \A g \in got'[d] : g \in got[d] \/ (d = c /\ g[1] = h.tag)
    BY <1>1, <2>1
  <2>4. h.tag[1] = c /\ h.tag[2] <= sent[c] /\ (send_lock = c => h.tag[2] < sent[c])
    BY DEF Named
  <2>5. \A d \in Clients : \A g \in got'[d] :
          g[1][1] = d /\ g[1][2] <= sent[d] /\ (send_lock = d => g[1][2] < sent[d])
    BY <2>3, <2>4 DEF Named
  <2> QED
    BY <2>1, <2>2, <2>5 DEF Named
<1>7. CASE ServerStep \/ SimStep \/ UNCHANGED vars
  <2>1. UNCHANGED <<cmd, send_lock, sent, handles, got>>
    BY <1>7 DEF ServerStep, ServerStart, ServerWoken, ServerAllocate, ServerLock, ServerQuit,
         ServerDeliver, ServerReply, ServerRelease, SimStep, SimStop, SimWantCommand, SimLock, SimFetch,
         RegisterBad, RegisterStore, RegisterNotify, RegisterPop, SimWantResponse, SimWantBadResponse,
         vars, file, client
  <2> QED
    BY <1>3, <2>1
<1>8. ASSUME NEW c \in Clients, ClientWake(c) \/ ClientShutdown(c) PROVE Named'
  BY <1>3, <1>8 DEF ClientWake, ClientShutdown, client
<1> QED
  BY <1>4, <1>5, <1>6, <1>7, <1>8 DEF Next, ClientStep

-----------------------------------------------------------------------------
Routing == /\ Contents /\ (\A p \in Pairs : InOrder(p)) /\ QueuedOnce /\ Opened /\ Registering
           /\ RoutedToIssuer

(* What the users of the service see stays the same.                      *)
Unseen == /\ got' = got /\ wait_for_response' = wait_for_response
          /\ \A i \in Ids : ~wait_for_response[i] => responses'[i] = responses[i]
          /\ \A p \in Pairs : Waiting(p)' = Waiting(p)
          /\ \A i, t : HasTag(i, t) => HasTag(i, t)'

(* Steps that leave commands, responses and their slots alone.            *)
LEMMA QuietRouting ==
  ASSUME IInv,
         \/ \E c \in Clients : ClientWrite(c) \/ ClientWake(c) \/ ClientShutdown(c)
         \/ ServerStart \/ ServerWoken \/ ServerAllocate \/ ServerLock \/ ServerQuit
         \/ ServerReply \/ ServerRelease \/ SimStop \/ SimWantCommand \/ SimLock
         \/ UNCHANGED vars
  PROVE  Routing' /\ Unseen
<1> USE DEF IInv, IInvRouting
<1>1. UNCHANGED <<cmds, core, in_flight, rsp, wait_for_response, responses, got, handles>>
  BY DEF ClientWrite, ClientWake, ClientShutdown, ServerStart, ServerWoken, ServerAllocate,
         ServerLock, ServerQuit, ServerReply, ServerRelease, SimStop, SimWantCommand, SimLock, vars,
         file, globals, server, sim, client
<1>2. (Placed' <=> Placed) /\ (Placed => id' = id /\ cmd' = cmd)
  <2>1. Placed => Acking /\ (spc = "reply" \/ spc \in {"release", "stall"})
    BY DEF Placed, IInvSlots, Handshake
  <2>2. ASSUME NEW c \in Clients, ClientWrite(c)
        PROVE  (Placed' <=> Placed) /\ (Placed => id' = id /\ cmd' = cmd)
    <3>1. ~Acking /\ UNCHANGED <<spc, cmd_recieve_server_resp_lock>>
      BY <2>2, ClientsAreNamed DEF ClientWrite, Acking, Nobody, server
    <3> QED
      BY <3>1 DEF Placed, IInvSlots, Handshake
  <2>3. ASSUME NEW c \in Clients, ClientWake(c) \/ ClientShutdown(c)
        PROVE  UNCHANGED <<cmd, id, spc, cmd_recieve_server_resp_lock>>
    BY <2>3 DEF ClientWake, ClientShutdown, server
  <2>4. CASE UNCHANGED <<cmd, id, spc, cmd_recieve_server_resp_lock>>
    BY <2>4 DEF Placed
  <2>5. CASE SimStop \/ SimWantCommand \/ SimLock \/ UNCHANGED vars
    BY <2>4, <2>5 DEF SimStop, SimWantCommand, SimLock, vars, file, server
  <2>6. CASE ServerStart \/ ServerWoken \/ ServerLock \/ ServerQuit \/ ServerReply \/ ServerRelease
    BY <2>6 DEF Placed, ServerStart, ServerWoken, ServerLock, ServerQuit, ServerReply,
         ServerRelease, Step, file, IInvSlots, Handshake
  <2>7. CASE ServerAllocate
    <3>1. spc = "alloc" /\ spc' = "lock" /\ UNCHANGED cmd_recieve_server_resp_lock
      BY <2>7 DEF ServerAllocate, Step
    <3>2. cmd_recieve_server_resp_lock
      BY <3>1 DEF IInvSlots, Handshake
    <3> QED
      BY <3>1, <3>2 DEF Placed
  <2> QED
    BY <2>2, <2>3, <2>4, <2>5, <2>6, <2>7
<1>3. \/ mpc' = mpc
      \/ mpc = "loop" /\ mpc' \in {"exit", "fetch lock"}
      \/ mpc = "fetch lock" /\ mpc' = "fetch"
      \/ mpc = "register lock" /\ mpc' = "register"
  BY DEF ClientWrite, ClientWake, ClientShutdown, ServerStart, ServerWoken, ServerAllocate,
         ServerLock, ServerQuit, ServerReply, ServerRelease, SimStop, SimWantCommand, SimLock, vars,
         sim, Cycle
<1>4. \A p \in Pairs : Waiting(p)' = Waiting(p)
  BY <1>1, <1>3 DEF Waiting, InFlightOf
<1>5. \A i, t : HasTag(i, t)' <=> HasTag(i, t)
  BY <1>1, <1>2 DEF HasTag
<1>6. \A p \in Pairs, r \in Nat, t \in Tags : ItemAt(p, r, t)' <=> ItemAt(p, r, t)
  <2>1. mpc' \in {"register lock", "register", "notify"} <=> mpc \in {"register lock", "register", "notify"}
    BY <1>3
  <2>2. \A p \in Pairs, r \in Nat, t \in Tags : Carried(p, r, t)' <=> Carried(p, r, t)
    BY <1>1, <2>1 DEF Carried
  <2>3. \A p \in Pairs, r \in Nat, t \in Tags : InCore(p, r, t)' <=> InCore(p, r, t)
    BY <1>1 DEF InCore
  <2>4. \A p \in Pairs, r \in Nat, t \in Tags : InCmds(p, r, t)' <=> InCmds(p, r, t)
    BY <1>1 DEF InCmds
  <2> QED
    BY <2>2, <2>3, <2>4 DEF ItemAt
<1>7. (\A p \in Pairs : InOrder(p)') /\ QueuedOnce' /\ QueuedIds' = QueuedIds
  <2>1. \A p \in Pairs : \A k \in DOMAIN Waiting(p), t \in Tags :
          HasTag(Waiting(p)[k], t)' <=> HasTag(Waiting(p)[k], t)
    BY <1>1, <1>2, <1>4 DEF HasTag
  <2> QED
    BY <1>4, <1>6, <2>1, SameLines
<1>8. Contents'
  BY <1>1 DEF Contents
<1>9. Opened'
  <2>1. \A i \in Ids : HasTag(i, responses[i])' <=> HasTag(i, responses[i])
    BY <1>1, <1>2 DEF HasTag
  <2> QED
    BY <1>1, <1>7, <2>1 DEF Opened
<1>10. Registering' /\ RoutedToIssuer'
  BY <1>1, <1>3 DEF Registering, RoutedToIssuer
<1>11. Unseen
  BY <1>1, <1>4, <1>5 DEF Unseen
<1> QED
  BY <1>7, <1>8, <1>9, <1>10, <1>11 DEF Routing

(* A client takes its handle: its slot keeps its command.                 *)
LEMMA AckRouting == ASSUME IInv, NEW c \in Clients, ClientAck(c) PROVE Routing' /\ Unseen
<1> USE DEF IInv, IInvRouting
<1> DEFINE new == [tag |-> cmd.tag, id |-> pthread_wait_id]
<1>1. /\ ~cmd_recieve_server_resp_lock /\ cmd_recieve_server_resp_lock'
      /\ handles' = IF cmd.xd THEN [handles EXCEPT ![c] = @ \cup {new}] ELSE handles
      /\ UNCHANGED <<cmds, core, in_flight, rsp, mpc, wait_for_response, responses, got, cmd, id, spc>>
  BY DEF ClientAck, globals, server, sim
<1>2. handles \in [Clients -> SUBSET [tag : Tags, id : Ids]]
  BY DEF IInvSlots, Types
<1>3. spc # "reply" /\ pthread_wait_id = id
  BY <1>1 DEF IInvSlots, Handshake, Told
<1>4. ~Placed' /\ (Placed <=> cmd.xd)
  BY <1>1, <1>3 DEF Placed
<1>5. new.id = id /\ new.tag = cmd.tag
  BY <1>3
<1> HIDE DEF new
<1>6. \A i, t : HasTag(i, t)' <=> HasTag(i, t)
  <2>1. CASE cmd.xd
    <3>1. \A d \in Clients : handles'[d] = IF d = c THEN handles[c] \cup {new} ELSE handles[d]
      BY <1>1, <1>2, <2>1
    <3> QED
      BY <1>4, <1>5, <2>1, <3>1 DEF HasTag
  <2>2. CASE ~cmd.xd
    BY <1>1, <1>4, <2>2 DEF HasTag
  <2> QED
    BY <2>1, <2>2
<1>7. \A p \in Pairs : Waiting(p)' = Waiting(p)
  BY <1>1 DEF Waiting, InFlightOf
<1>8. \A p \in Pairs, r \in Nat, t \in Tags : ItemAt(p, r, t)' <=> ItemAt(p, r, t)
  BY <1>1 DEF ItemAt, Carried, InCore, InCmds
<1>9. (\A p \in Pairs : InOrder(p)') /\ QueuedOnce' /\ QueuedIds' = QueuedIds
  <2>1. \A p \in Pairs : \A k \in DOMAIN Waiting(p), t \in Tags :
          HasTag(Waiting(p)[k], t)' <=> HasTag(Waiting(p)[k], t)
    BY <1>6, <1>7
  <2> QED
    BY <1>7, <1>8, <2>1, SameLines
<1>10. Contents' /\ Registering' /\ RoutedToIssuer'
  BY <1>1 DEF Contents, Registering, RoutedToIssuer
<1>11. Opened'
  BY <1>1, <1>6, <1>9 DEF Opened
<1>12. Unseen
  BY <1>1, <1>6, <1>7 DEF Unseen
<1> QED
  BY <1>9, <1>10, <1>11, <1>12 DEF Routing

(* A client reads its response: it is in no line any more.                *)
LEMMA ReceiveRouting == ASSUME IInv, NEW c \in Clients, ClientReceive(c) PROVE Routing'
<1> USE DEF IInv, IInvRouting
<1>1. PICK h \in handles[c] :
        /\ h.id \in Ids /\ ~wait_for_response[h.id]
        /\ wait_for_response' = [wait_for_response EXCEPT ![h.id] = TRUE]
        /\ got' = [got EXCEPT ![c] = @ \cup {<<h.tag, responses[h.id]>>}]
        /\ handles' = [handles EXCEPT ![c] = @ \ {h}]
        /\ UNCHANGED <<cmds, core, in_flight, rsp, mpc, responses, cmd, id, spc,
                       cmd_recieve_server_resp_lock>>
  BY DEF ClientReceive, globals, server, sim
<1>2. /\ handles \in [Clients -> SUBSET [tag : Tags, id : Ids]]
      /\ got \in [Clients -> SUBSET (Tags \X (Tags \cup {NoTag}))]
      /\ wait_for_response \in [Ids -> BOOLEAN] /\ responses \in [Ids -> Tags \cup {NoTag}]
  BY DEF IInvSlots, Types, Contents
<1>3. HasTag(h.id, h.tag) /\ HasTag(h.id, responses[h.id]) /\ h.id \notin QueuedIds
  BY <1>1 DEF HasTag, Opened
<1>4. responses[h.id] = h.tag /\ h.tag \in Tags /\ h.tag[1] = c
  BY <1>2, <1>3, TagFacts DEF Named
<1>5. \A d \in Clients : handles'[d] = IF d = c THEN handles[c] \ {h} ELSE handles[d]
  BY <1>1, <1>2
<1>6. \A i, t : i # h.id => (HasTag(i, t)' <=> HasTag(i, t))
  <2>1. Placed' <=> Placed
    BY <1>1 DEF Placed
  <2>2. \A i, t : i # h.id => ((\E d \in Clients : \E g \in handles'[d] : g.id = i /\ g.tag = t)
                                <=> (\E d \in Clients : \E g \in handles[d] : g.id = i /\ g.tag = t))
    BY <1>5
  <2> QED
    BY <1>1, <2>1, <2>2 DEF HasTag
<1>7. \A p \in Pairs : Waiting(p)' = Waiting(p)
  BY <1>1 DEF Waiting, InFlightOf
<1>8. \A p \in Pairs, r \in Nat, t \in Tags : ItemAt(p, r, t)' <=> ItemAt(p, r, t)
  BY <1>1 DEF ItemAt, Carried, InCore, InCmds
<1>9. (\A p \in Pairs : InOrder(p)') /\ QueuedOnce' /\ QueuedIds' = QueuedIds
  <2>1. \A p \in Pairs : \A k \in DOMAIN Waiting(p) : Waiting(p)[k] # h.id
    BY <1>3, QueuedDef
  <2>2. \A p \in Pairs : \A k \in DOMAIN Waiting(p), t \in Tags :
          HasTag(Waiting(p)[k], t)' <=> HasTag(Waiting(p)[k], t)
    BY <1>6, <1>7, <2>1
  <2> QED
    BY <1>7, <1>8, <2>2, SameLines
<1>10. Contents'
  <2>1. wait_for_response' \in [Ids -> BOOLEAN]
    BY <1>1, <1>2
  <2>2. got' \in [Clients -> SUBSET (Tags \X (Tags \cup {NoTag}))]
    BY <1>1, <1>2, <1>4
  <2> QED
    BY <1>1, <2>1, <2>2 DEF Contents
<1>11. Registering'
  BY <1>1 DEF Registering
<1>12. RoutedToIssuer'
  <2>1. \A d \in Clients : got'[d] = IF d = c THEN got[c] \cup {<<h.tag, responses[h.id]>>} ELSE got[d]
    BY <1>1, <1>2
  <2> QED
    BY <1>4, <2>1 DEF RoutedToIssuer
<1>13. Opened'
  <2>1. \A i \in Ids : ~wait_for_response'[i] => i # h.id /\ ~wait_for_response[i]
    BY <1>1, <1>2
  <2> QED
    BY <1>1, <1>6, <1>9, <2>1 DEF Opened
<1> QED
  BY <1>9, <1>10, <1>11, <1>12, <1>13 DEF Routing

(* A command and its slot are added behind all others.                    *)
LEMMA Extend ==
  ASSUME NEW p \in Pairs, InOrder(p), Waiting(p) \in Seq(Ids),
         NEW i \in Ids, NEW n \in Nat, NEW x \in Tags,
         Waiting(p)' = Append(Waiting(p), i),
         \A j, t : HasTag(j, t)' <=> HasTag(j, t) \/ (j = i /\ t = x),
         \A j, t : HasTag(j, t) => j # i /\ t # x,
         \A r \in Nat, t \in Tags : ItemAt(p, r, t)' <=> ItemAt(p, r, t) \/ (r = n /\ t = x),
         \A r \in Nat, t \in Tags : ItemAt(p, r, t) => r < n /\ t # x
  PROVE  InOrder(p)'
<1> DEFINE W == Waiting(p)
           L == Len(W)
           W2 == Append(W, i)
<1>0. \A k, l \in DOMAIN Waiting(p), r, s \in Nat, t, u \in Tags :
       /\ HasTag(Waiting(p)[k], t) /\ ItemAt(p, r, t)
       /\ HasTag(Waiting(p)[l], u) /\ ItemAt(p, s, u)
       => (k < l <=> r < s)
  BY DEF InOrder
<1>1. L \in Nat /\ DOMAIN W = 1 .. L
  OBVIOUS
<1>2. DOMAIN W2 = 1 .. L + 1 /\ W2[L + 1] = i /\ \A k \in 1 .. L : W2[k] = W[k]
  OBVIOUS
<1>3. \A k \in DOMAIN W2 : k \in Nat /\ (k \in DOMAIN W \/ k = L + 1)
  BY <1>1, <1>2
<1>4. \A k \in DOMAIN W : k \in DOMAIN W2 /\ k < L + 1 /\ W2[k] = W[k]
  BY <1>1, <1>2
<1>5. L + 1 \in DOMAIN W2 /\ ~(L + 1 < L + 1)
  BY <1>1, <1>2
<1>6. ASSUME NEW k \in DOMAIN W, NEW t \in Tags
      PROVE  HasTag(Waiting(p)[k], t)' <=> HasTag(W[k], t)
  <2>1. PICK r \in Nat, u \in Tags : HasTag(W[k], u) /\ ItemAt(p, r, u)
    BY <1>6 DEF InOrder
  <2>2. PICK j : j = W[k]
    OBVIOUS
  <2>3. j # i
    BY <2>1, <2>2
  <2>4. HasTag(j, t)' <=> HasTag(j, t)
    BY <2>3
  <2>5. Waiting(p)'[k] = j
    BY <1>4, <2>2
  <2> QED
    BY <2>2, <2>4, <2>5
<1>7. ASSUME NEW t \in Tags, NEW k, k = L + 1 PROVE HasTag(Waiting(p)[k], t)' <=> t = x
  BY <1>2, <1>7
<1> HIDE DEF L, W, W2
<1>8. \A k \in DOMAIN W2 : \E r \in Nat, t \in Tags : HasTag(Waiting(p)[k], t)' /\ ItemAt(p, r, t)'
  <2> SUFFICES ASSUME NEW k \in DOMAIN W2
               PROVE  \E r \in Nat, t \in Tags : HasTag(Waiting(p)[k], t)' /\ ItemAt(p, r, t)'
    OBVIOUS
  <2>1. CASE k \in DOMAIN W
    <3>1. PICK r \in Nat, t \in Tags : HasTag(W[k], t) /\ ItemAt(p, r, t)
      BY <2>1 DEF InOrder, W
    <3>2. HasTag(Waiting(p)[k], t)' /\ ItemAt(p, r, t)'
      BY <1>6, <2>1, <3>1
    <3> QED
      BY <3>2
  <2>2. CASE k = L + 1
    <3>1. HasTag(Waiting(p)[k], x)' /\ ItemAt(p, n, x)'
      BY <1>7, <2>2
    <3> QED
      BY <3>1
  <2> QED
    BY <1>3, <2>1, <2>2
<1>9. \A r \in Nat, t \in Tags : ItemAt(p, r, t)' => \E k \in DOMAIN W2 : HasTag(Waiting(p)[k], t)'
  <2> SUFFICES ASSUME NEW r \in Nat, NEW t \in Tags, ItemAt(p, r, t)'
               PROVE  \E k \in DOMAIN W2 : HasTag(Waiting(p)[k], t)'
    OBVIOUS
  <2>1. CASE ItemAt(p, r, t)
    <3>1. PICK k \in DOMAIN W : HasTag(W[k], t)
      BY <2>1 DEF InOrder, W
    <3>2. HasTag(Waiting(p)[k], t)' /\ k \in DOMAIN W2
      BY <1>4, <1>6, <3>1
    <3> QED
      BY <3>2
  <2>2. CASE t = x
    <3>1. PICK k \in DOMAIN W2 : k = L + 1
      BY <1>5
    <3>2. HasTag(Waiting(p)[k], t)'
      BY <1>7, <2>2, <3>1
    <3> QED
      BY <3>2
  <2> QED
    BY <2>1, <2>2
<1>10. ASSUME NEW k \in DOMAIN W2, NEW l \in DOMAIN W2, NEW r \in Nat, NEW s \in Nat,
              NEW t \in Tags, NEW u \in Tags,
              HasTag(Waiting(p)[k], t)', ItemAt(p, r, t)', HasTag(Waiting(p)[l], u)', ItemAt(p, s, u)'
       PROVE  k < l <=> r < s
  <2>1. k \in DOMAIN W => HasTag(W[k], t) /\ t # x /\ ItemAt(p, r, t) /\ r < n
    BY <1>6, <1>10
  <2>2. l \in DOMAIN W => HasTag(W[l], u) /\ u # x /\ ItemAt(p, s, u) /\ s < n
    BY <1>6, <1>10
  <2>3. k = L + 1 => t = x /\ r = n
    <3>1. k = L + 1 => t = x
      BY <1>7, <1>10
    <3>2. ~ItemAt(p, r, x)
      OBVIOUS
    <3> QED
      BY <1>10, <3>1, <3>2
  <2>4. l = L + 1 => u = x /\ s = n
    <3>1. l = L + 1 => u = x
      BY <1>7, <1>10
    <3>2. ~ItemAt(p, s, x)
      OBVIOUS
    <3> QED
      BY <1>10, <3>1, <3>2
  <2>5. CASE k \in DOMAIN W /\ l \in DOMAIN W
    <3>1. /\ HasTag(Waiting(p)[k], t) /\ ItemAt(p, r, t)
          /\ HasTag(Waiting(p)[l], u) /\ ItemAt(p, s, u)
      BY <2>1, <2>2, <2>5 DEF W
    <3>2. k \in DOMAIN Waiting(p) /\ l \in DOMAIN Waiting(p)
      BY <2>5 DEF W
    <3> QED
      BY <1>0, <3>1, <3>2
  <2>6. CASE k \in DOMAIN W /\ l = L + 1
    BY <1>4, <2>1, <2>4, <2>6
  <2>7. CASE k = L + 1 /\ l \in DOMAIN W
    <3>1. l < L + 1 /\ s < n /\ r = n /\ l \in Nat /\ L + 1 \in Nat
      BY <1>1, <1>3, <1>4, <2>2, <2>3, <2>7
    <3> QED
      BY <2>7, <3>1
  <2>8. CASE k = L + 1 /\ l = L + 1
    BY <1>5, <2>3, <2>4, <2>8
  <2> QED
    BY <1>3, <2>5, <2>6, <2>7, <2>8
<1>11. DOMAIN Waiting(p)' = DOMAIN W2
  BY DEF W2, W
<1>12. \A k, l \in DOMAIN Waiting(p)', r, s \in Nat, t, u \in Tags :
         /\ HasTag(Waiting(p)[k], t)' /\ ItemAt(p, r, t)'
         /\ HasTag(Waiting(p)[l], u)' /\ ItemAt(p, s, u)'
         => (k < l <=> r < s)
  BY <1>10, <1>11
<1>13. /\ \A k \in DOMAIN Waiting(p)' : \E r \in Nat, t \in Tags : HasTag(Waiting(p)[k], t)' /\ ItemAt(p, r, t)'
       /\ \A r \in Nat, t \in Tags : ItemAt(p, r, t)' => \E k \in DOMAIN Waiting(p)' : HasTag(Waiting(p)[k], t)'
  BY <1>8, <1>9, <1>11
<1> QED
  BY <1>12, <1>13, Zenon DEF InOrder

(* Nothing happens to one line and its commands.                          *)
LEMMA SameLine ==
  ASSUME NEW p \in Pairs, InOrder(p), Waiting(p)' = Waiting(p),
         \A k \in DOMAIN Waiting(p), t \in Tags :
           HasTag(Waiting(p)[k], t)' <=> HasTag(Waiting(p)[k], t),
         \A r \in Nat, t \in Tags : ItemAt(p, r, t)' <=> ItemAt(p, r, t)
  PROVE  InOrder(p)'
<1> DEFINE rho == [r \in Nat |-> r]
<1>1. rho \in [Nat -> Nat] /\ \A r \in Nat : rho[r] = r
  OBVIOUS
<1> HIDE DEF rho
<1>2. \A r, s \in Nat, t \in Tags : ItemAt(p, r, t) /\ s = rho[r] => ItemAt(p, s, t)'
  BY <1>1
<1>3. \A s \in Nat, t \in Tags : ItemAt(p, s, t)' => \E r \in Nat : ItemAt(p, r, t) /\ s = rho[r]
  BY <1>1
<1>4. \A r, s \in Nat, t, u \in Tags :
        ItemAt(p, r, t) /\ ItemAt(p, s, u) => (r < s <=> rho[r] < rho[s])
  BY <1>1
<1> QED
  BY <1>1, <1>2, <1>3, <1>4, Rerank

(* A delivered command's slot joins the line of its core; neither the     *)
(* slot nor the command was in use.                                       *)
LEMMA DeliverFacts ==
  ASSUME IInv, ServerDeliver, cmd.xd
  PROVE  \E q \in Pairs, i \in Ids, x \in Tags :
           /\ q = cmd.pair /\ i = id /\ x = cmd.tag
           /\ Waiting(q)' = Append(Waiting(q), i)
           /\ \A p \in Pairs : p # q => Waiting(p)' = Waiting(p)
           /\ \A j, t : HasTag(j, t)' <=> HasTag(j, t) \/ (j = i /\ t = x)
           /\ \A j, t : HasTag(j, t) => j # i /\ t # x
<1> USE DEF IInv, IInvRouting
<1>1. /\ ~quit /\ spc = "deliver" /\ spc' = "reply" /\ in_flight' = WithInFlight(cmd.pair, id)
      /\ UNCHANGED <<rsp, mpc, handles, cmd, id, cmd_recieve_server_resp_lock>>
  BY DEF ServerDeliver, Step, file, sim, client
<1>2. Acking /\ cmd_recieve_server_resp_lock /\ send_lock \in Clients
  BY <1>1 DEF IInvSlots, Handshake, Acking
<1>3. id # NoId /\ id \in Ids /\ cmd.tag \in Tags
  BY <1>1, <1>2 DEF IInvSlots, Told, Types
<1>4. cmd.tag = <<send_lock, sent[send_lock]>> /\ cmd.pair \in Pairs
  BY <1>2, CoresArePairs DEF Named
<1>5. ~Placed /\ Placed'
  BY <1>1, <1>2 DEF Placed
<1>6. PICK q \in Pairs, i \in Ids, x \in Tags : q = cmd.pair /\ i = id /\ x = cmd.tag
  BY <1>3, <1>4
<1>7. \A j, t : HasTag(j, t)' <=> HasTag(j, t) \/ (j = i /\ t = x)
  BY <1>1, <1>5, <1>6 DEF HasTag
<1>8. \A j, t : HasTag(j, t) => j # i /\ t # x
  <2> SUFFICES ASSUME NEW j, NEW t, HasTag(j, t) PROVE j # i /\ t # x
    OBVIOUS
  <2>1. PICK c \in Clients : \E g \in handles[c] : g.id = j /\ g.tag = t
    BY <1>5 DEF HasTag
  <2>2. PICK h \in handles[c] : h.id = j /\ h.tag = t
    BY <2>1
  <2>3. h.tag[1] = c /\ (send_lock = c => h.tag[2] < sent[c])
    BY DEF Named
  <2>4. sent[c] \in Nat
    BY DEF IInvSlots, Types
  <2>5. t # x
    BY <1>4, <1>6, <2>2, <2>3, <2>4
  <2>6. j \in HeldIds
    BY <2>2 DEF HeldIds
  <2>7. i \in PendingIds
    BY <1>1, <1>3, <1>6 DEF PendingIds
  <2> QED
    BY <2>5, <2>6, <2>7 DEF IInvSlots, Slots
<1>9. mpc # "pop" /\ mpc' # "pop"
  BY <1>1 DEF Locks
<1>10. \A p \in Pairs : Waiting(p) = InFlightOf(p) /\ Waiting(p)' = InFlightOf(p)'
  BY <1>9 DEF Waiting
<1>11. in_flight' = [r \in DOMAIN in_flight \cup {q} |->
                       IF r = q THEN Append(InFlightOf(q), i) ELSE in_flight[r]]
  BY <1>1, <1>6 DEF WithInFlight
<1>12. Waiting(q)' = Append(Waiting(q), i)
  <2>1. InFlightOf(q)' = Append(InFlightOf(q), i)
    BY <1>11 DEF InFlightOf
  <2> QED
    BY <1>10, <2>1
<1>13. ASSUME NEW p \in Pairs, p # q PROVE Waiting(p)' = Waiting(p)
  <2>1. InFlightOf(p)' = InFlightOf(p)
    BY <1>11, <1>13 DEF InFlightOf
  <2> QED
    BY <1>10, <2>1
<1> QED
  BY <1>6, <1>7, <1>8, <1>12, <1>13

(* A delivered command joins the line of its core behind all others, and  *)
(* so does its slot.                                                      *)
LEMMA DeliverRouting == ASSUME IInv, ServerDeliver PROVE Routing' /\ (~cmd.xd => Unseen)
<1> USE DEF IInv, IInvRouting
<1>1. /\ ~quit /\ spc = "deliver" /\ spc' = "reply" /\ cmds' = Append(cmds, cmd)
      /\ in_flight' = IF cmd.xd THEN WithInFlight(cmd.pair, id) ELSE in_flight
      /\ UNCHANGED <<core, rsp, mpc, wait_for_response, responses, got, handles, cmd, id,
                     cmd_recieve_server_resp_lock>>
  BY DEF ServerDeliver, Step, file, sim, client
<1>2. /\ Acking /\ cmd_recieve_server_resp_lock
      /\ cmd.xd => id # NoId
      /\ cmd.tag = <<send_lock, sent[send_lock]>> /\ cmd.tag \in Tags /\ cmd.pair \in Cores
      /\ id \in Ids \cup {NoId} /\ cmd \in Commands
  <2>1. Acking /\ cmd_recieve_server_resp_lock /\ send_lock \in Clients
    BY <1>1 DEF IInvSlots, Handshake, Acking
  <2>2. (cmd.xd => id # NoId) /\ id \in Ids \cup {NoId}
    BY <1>1 DEF IInvSlots, Told, Types
  <2>3. cmd.tag \in Tags /\ cmd \in [tag : Tags \cup {NoTag}, pair : Pairs, xd : BOOLEAN, flush : BOOLEAN]
    BY <2>1 DEF IInvSlots, Types
  <2>4. cmd \in Commands
    BY <2>3 DEF Commands
  <2> QED
    BY <2>1, <2>2, <2>3, <2>4 DEF Named
<1>3. mpc \notin {"fetch", "register", "notify", "pop"}
  BY <1>1 DEF Locks
<1>4. /\ cmds \in Seq(Commands) /\ core \in [Pairs -> Seq(Tags)]
      /\ in_flight \in [DOMAIN in_flight -> Seq(Ids)] /\ DOMAIN in_flight \subseteq Cores
      /\ Cores \subseteq Pairs
  BY CoresArePairs DEF Contents
<1>5. ~Placed /\ (Placed' <=> cmd.xd)
  BY <1>1, <1>2 DEF Placed
<1>6. Len(cmds) \in Nat /\ Len(cmds') = Len(cmds) + 1 /\ cmds'[Len(cmds) + 1] = cmd
      /\ \A j \in 1 .. Len(cmds) : cmds'[j] = cmds[j]
  BY <1>1, <1>2, <1>4
<1>7. ASSUME NEW p \in Pairs, NEW r \in Nat, NEW t
      PROVE  ItemAt(p, r, t)' <=> \/ ItemAt(p, r, t)
                                  \/ /\ r = Len(core[p]) + Len(cmds) + 1
                                     /\ cmd.xd /\ cmd.pair = p /\ t = cmd.tag
  <2>1. Carried(p, r, t)' <=> Carried(p, r, t)
    BY <1>1 DEF Carried
  <2>2. InCore(p, r, t)' <=> InCore(p, r, t)
    BY <1>1 DEF InCore
  <2>3. Len(core[p]) \in Nat /\ core' = core
    BY <1>1, <1>4
  <2>4. InCmds(p, r, t)' <=> \/ InCmds(p, r, t)
                             \/ /\ r = Len(core[p]) + Len(cmds) + 1
                                /\ cmd.xd /\ cmd.pair = p /\ t = cmd.tag
    <3>1. \A j : j \in 1 .. Len(cmds') <=> j \in 1 .. Len(cmds) \/ j = Len(cmds) + 1
      BY <1>6
    <3>2. r = Len(core[p]) + (Len(cmds) + 1) <=> r = Len(core[p]) + Len(cmds) + 1
      <4>1. \A a, b \in Nat : a + (b + 1) = a + b + 1
        OBVIOUS
      <4>2. Len(cmds) \in Nat
        BY <1>6
      <4> QED
        BY <2>3, <4>1, <4>2
    <3> QED
      BY <1>6, <2>3, <3>1, <3>2 DEF InCmds
  <2> QED
    BY <2>1, <2>2, <2>4 DEF ItemAt
<1>8. ~cmd.xd => \A j, t : HasTag(j, t)' <=> HasTag(j, t)
  BY <1>1, <1>5 DEF HasTag
<1>10. \A p \in Pairs : Waiting(p) \in Seq(Ids) /\ Waiting(p) = InFlightOf(p)
  BY <1>3, WaitingType
<1>11. Registering' /\ RoutedToIssuer'
  BY <1>1, <1>3 DEF Registering, RoutedToIssuer
<1>12. cmds' \in Seq(Commands)
  BY <1>1, <1>2, <1>4
<1>13. CASE ~cmd.xd
  <2>1. \A p \in Pairs : Waiting(p)' = Waiting(p)
    BY <1>1, <1>13 DEF Waiting, InFlightOf
  <2>2. \A p \in Pairs : \A k \in DOMAIN Waiting(p), t \in Tags :
          HasTag(Waiting(p)[k], t)' <=> HasTag(Waiting(p)[k], t)
    BY <1>8, <1>13, <2>1
  <2>3. \A p \in Pairs, r \in Nat, t \in Tags : ItemAt(p, r, t)' <=> ItemAt(p, r, t)
    BY <1>7, <1>13
  <2>4. (\A p \in Pairs : InOrder(p)') /\ QueuedOnce' /\ QueuedIds' = QueuedIds
    BY <2>1, <2>2, <2>3, SameLines
  <2>5. Contents'
    BY <1>1, <1>12, <1>13 DEF Contents
  <2>6. \A i \in Ids : HasTag(i, responses[i])' <=> HasTag(i, responses[i])
    BY <1>1, <1>8, <1>13
  <2>7. Opened'
    BY <1>1, <2>4, <2>6 DEF Opened
  <2>8. Unseen
    BY <1>1, <1>8, <1>13, <2>1 DEF Unseen
  <2> QED
    BY <1>11, <2>4, <2>5, <2>7, <2>8 DEF Routing
<1>14. CASE cmd.xd
  <2>1. PICK q \in Pairs, i \in Ids, x \in Tags :
          /\ q = cmd.pair /\ i = id /\ x = cmd.tag
          /\ Waiting(q)' = Append(Waiting(q), i)
          /\ \A p \in Pairs : p # q => Waiting(p)' = Waiting(p)
          /\ \A j, t : HasTag(j, t)' <=> HasTag(j, t) \/ (j = i /\ t = x)
          /\ \A j, t : HasTag(j, t) => j # i /\ t # x
    BY <1>14, DeliverFacts
  <2>2. PICK n \in Nat : n = Len(core[q]) + Len(cmds) + 1
    BY <1>4, <1>6
  <2>3. in_flight' = [r \in DOMAIN in_flight \cup {q} |->
                        IF r = q THEN Append(InFlightOf(q), i) ELSE in_flight[r]]
    BY <1>1, <1>14, <2>1 DEF WithInFlight
  <2>4. Waiting(q)' = Append(Waiting(q), i)
    BY <2>1
  <2>5. \A p \in Pairs : p # q => Waiting(p)' = Waiting(p)
    BY <2>1
  <2>6. \A j, t : HasTag(j, t)' <=> HasTag(j, t) \/ (j = i /\ t = x)
    BY <2>1
  <2>7. \A j, t : HasTag(j, t) => j # i /\ t # x
    BY <2>1
  <2>8. ASSUME NEW p \in Pairs, NEW k \in DOMAIN Waiting(p) PROVE Waiting(p)[k] # i
    BY <2>7, <2>8, QueuedFacts
  <2>9. InOrder(q)'
    <3>1. \A r \in Nat, t \in Tags : ItemAt(q, r, t)' <=> ItemAt(q, r, t) \/ (r = n /\ t = x)
      BY <1>7, <1>14, <2>1, <2>2
    <3>2. \A r \in Nat, t \in Tags : ItemAt(q, r, t) => r < n /\ t # x
      <4> SUFFICES ASSUME NEW r \in Nat, NEW t \in Tags, ItemAt(q, r, t) PROVE r < n /\ t # x
        OBVIOUS
      <4>1. PICK k \in DOMAIN Waiting(q) : HasTag(Waiting(q)[k], t)
        BY DEF InOrder
      <4>2. t # x
        BY <2>7, <4>1
      <4>3. Len(core[q]) \in Nat
        BY <1>4
      <4>0. n > 0
        <5>1. \A a, b \in Nat : a + b + 1 > 0
          OBVIOUS
        <5>2. Len(cmds) \in Nat
          BY <1>6
        <5> QED
          BY <2>2, <4>3, <5>1, <5>2
      <4>4. Carried(q, r, t) => r < n
        BY <4>0 DEF Carried
      <4>5. InCore(q, r, t) => r < n
        BY <1>6, <2>2, <4>3 DEF InCore
      <4>6. InCmds(q, r, t) => r < n
        BY <1>6, <2>2, <4>3 DEF InCmds
      <4> QED
        BY <4>2, <4>4, <4>5, <4>6 DEF ItemAt
    <3> QED
      BY <1>10, <2>4, <2>6, <2>7, <3>1, <3>2, Extend
  <2>10. ASSUME NEW p \in Pairs, p # q PROVE InOrder(p)'
    <3>1. \A k \in DOMAIN Waiting(p), t \in Tags :
            HasTag(Waiting(p)[k], t)' <=> HasTag(Waiting(p)[k], t)
      BY <2>5, <2>6, <2>8, <2>10
    <3>2. \A r \in Nat, t \in Tags : ItemAt(p, r, t)' <=> ItemAt(p, r, t)
      BY <1>7, <2>1, <2>10
    <3>3. Waiting(p)' = Waiting(p) /\ InOrder(p)
      BY <2>5, <2>10
    <3> QED
      BY <3>1, <3>2, <3>3, SameLine
  <2>11. \A p \in Pairs : \A k \in DOMAIN Waiting(p)' :
           \/ k \in DOMAIN Waiting(p) /\ Waiting(p)'[k] = Waiting(p)[k]
           \/ p = q /\ k = Len(Waiting(q)) + 1 /\ Waiting(p)'[k] = i
    <3> SUFFICES ASSUME NEW p \in Pairs, NEW k \in DOMAIN Waiting(p)'
                 PROVE  \/ k \in DOMAIN Waiting(p) /\ Waiting(p)'[k] = Waiting(p)[k]
                        \/ p = q /\ k = Len(Waiting(q)) + 1 /\ Waiting(p)'[k] = i
      OBVIOUS
    <3>1. CASE p # q
      BY <2>5, <3>1
    <3>2. CASE p = q
      <4>1. Waiting(q) \in Seq(Ids) /\ Waiting(q)' = Append(Waiting(q), i) /\ k \in DOMAIN Waiting(q)'
        BY <1>10, <2>4, <3>2
      <4>2. k \in 1 .. Len(Waiting(q)) \/ k = Len(Waiting(q)) + 1
        BY <4>1
      <4> QED
        BY <3>2, <4>1, <4>2
    <3> QED
      BY <3>1, <3>2
  <2>12. QueuedOnce'
    <3>1. ASSUME NEW p \in Pairs, NEW p2 \in Pairs, NEW k \in DOMAIN Waiting(p)', NEW l \in DOMAIN Waiting(p2)',
                 Waiting(p)'[k] = Waiting(p2)'[l]
          PROVE  p = p2 /\ k = l
      <4>1. CASE k \in DOMAIN Waiting(p) /\ Waiting(p)'[k] = Waiting(p)[k]
        <5>1. Waiting(p)[k] # i
          BY <2>8, <4>1
        <5>2. l \in DOMAIN Waiting(p2) /\ Waiting(p2)'[l] = Waiting(p2)[l]
          BY <2>11, <3>1, <4>1, <5>1
        <5>3. Waiting(p)[k] = Waiting(p2)[l]
          BY <3>1, <4>1, <5>2
        <5> QED
          BY <4>1, <5>2, <5>3 DEF QueuedOnce
      <4>2. CASE p = q /\ k = Len(Waiting(q)) + 1 /\ Waiting(p)'[k] = i
        <5>1. ~(l \in DOMAIN Waiting(p2) /\ Waiting(p2)'[l] = Waiting(p2)[l])
          BY <2>8, <3>1, <4>2
        <5> QED
          BY <2>11, <4>2, <5>1
      <4> QED
        BY <2>11, <4>1, <4>2
    <3> QED
      BY <3>1 DEF QueuedOnce
  <2>13. Contents'
    <3>1. DOMAIN in_flight' = DOMAIN in_flight \cup {q} /\ q \in Cores
      BY <1>2, <2>1, <2>3
    <3>2. Append(InFlightOf(q), i) \in Seq(Ids)
      <4>1. InFlightOf(q) \in Seq(Ids)
        BY <1>10
      <4> QED
        BY <4>1
    <3>3. in_flight' \in [DOMAIN in_flight' -> Seq(Ids)]
      BY <1>4, <2>3, <3>1, <3>2
    <3>4. DOMAIN in_flight' \subseteq Cores
      BY <1>4, <3>1
    <3> QED
      BY <1>1, <1>12, <3>3, <3>4 DEF Contents
  <2>14. Opened'
    <3>1. \A j \in QueuedIds' : j \in QueuedIds \/ j = i
      BY <2>11 DEF QueuedIds
    <3>2. ASSUME NEW j \in Ids, ~wait_for_response[j] PROVE HasTag(j, responses[j])' /\ j \notin QueuedIds'
      <4>1. HasTag(j, responses[j]) /\ j \notin QueuedIds
        BY <3>2 DEF Opened
      <4> QED
        BY <1>1, <2>6, <2>7, <3>1, <4>1
    <3> QED
      BY <1>1, <3>2 DEF Opened
  <2>15. \A p \in Pairs : InOrder(p)'
    BY <2>9, <2>10
  <2> QED
    BY <1>11, <1>14, <2>12, <2>13, <2>14, <2>15 DEF Routing
<1> QED
  BY <1>13, <1>14

-----------------------------------------------------------------------------
(* The simulation thread leaves the clients' handles alone.               *)
LEMMA SimTags ==
  ASSUME UNCHANGED <<handles, cmd, id, spc, cmd_recieve_server_resp_lock>>
  PROVE  \A i, t : HasTag(i, t)' <=> HasTag(i, t)
<1>1. Placed' <=> Placed
  BY DEF Placed
<1> QED
  BY <1>1 DEF HasTag

(* A command that moves from cmds to its core keeps its place.            *)
LEMMA FetchRouting == ASSUME IInv, SimFetch PROVE Routing' /\ Unseen
<1> USE DEF IInv, IInvRouting
<1>1. /\ mpc = "fetch" /\ mpc' = "loop"
      /\ IF cmds = <<>> THEN UNCHANGED <<cmds, core>>
         ELSE /\ cmds' = Tail(cmds)
              /\ core' = IF Head(cmds).xd
                         THEN [core EXCEPT ![Head(cmds).pair] = Append(@, Head(cmds).tag)] ELSE core
      /\ UNCHANGED <<in_flight, rsp, wait_for_response, responses, got, handles, cmd, id, spc,
                     cmd_recieve_server_resp_lock>>
  BY DEF SimFetch, Cycle, NextCommand, file, server, client
<1>2. \A i, t : HasTag(i, t)' <=> HasTag(i, t)
  BY <1>1, SimTags
<1>3. cmds \in Seq(Commands) /\ core \in [Pairs -> Seq(Tags)]
  BY DEF Contents
<1>4. \A p \in Pairs : Waiting(p)' = Waiting(p)
  BY <1>1 DEF Waiting, InFlightOf
<1>5. \A p \in Pairs : \A k \in DOMAIN Waiting(p), t \in Tags :
        HasTag(Waiting(p)[k], t)' <=> HasTag(Waiting(p)[k], t)
  BY <1>2, <1>4
<1>6. \A p, r, t : ~Carried(p, r, t) /\ ~Carried(p, r, t)'
  BY <1>1 DEF Carried
<1>7. ASSUME cmds = <<>>
      PROVE  /\ cmds' \in Seq(Commands) /\ core' \in [Pairs -> Seq(Tags)]
             /\ \A p \in Pairs : InOrder(p)'
  <2>1. \A p \in Pairs, r \in Nat, t \in Tags : ItemAt(p, r, t)' <=> ItemAt(p, r, t)
    BY <1>1, <1>6, <1>7 DEF ItemAt, InCore, InCmds
  <2>2. \A p \in Pairs : InOrder(p)'
    BY <1>4, <1>5, <2>1, SameLines
  <2>3. cmds' \in Seq(Commands) /\ core' \in [Pairs -> Seq(Tags)]
    BY <1>1, <1>3, <1>7
  <2> QED
    BY <2>2, <2>3
<1>8. ASSUME cmds # <<>>
      PROVE  /\ cmds' \in Seq(Commands) /\ core' \in [Pairs -> Seq(Tags)]
             /\ \A p \in Pairs : InOrder(p)'
  <2>1. PICK x \in Commands : x = Head(cmds) /\ x = cmds[1]
    BY <1>3, <1>8
  <2>2. PICK m \in Nat : Len(cmds) = m + 1
    <3>1. Len(cmds) \in Nat /\ Len(cmds) # 0
      BY <1>3, <1>8
    <3>2. Len(cmds) - 1 \in Nat /\ Len(cmds) = (Len(cmds) - 1) + 1
      BY <3>1
    <3> QED
      BY <3>2
  <2>3. cmds' \in Seq(Commands) /\ Len(cmds') = m /\ \A j \in 1 .. m : cmds'[j] = cmds[j + 1]
    <3>1. cmds' = Tail(cmds)
      BY <1>1, <1>8
    <3> QED
      BY <1>3, <1>8, <2>2, <3>1
  <2>4. x.pair \in Pairs /\ x.tag \in Tags
    BY <2>1 DEF Commands
  <2>5. core' = IF x.xd THEN [core EXCEPT ![x.pair] = Append(@, x.tag)] ELSE core
    BY <1>1, <1>8, <2>1
  <2>6. core' \in [Pairs -> Seq(Tags)]
    <3>1. Append(core[x.pair], x.tag) \in Seq(Tags)
      BY <1>3, <2>4
    <3> QED
      BY <1>3, <2>4, <2>5, <3>1
  <2>7. ASSUME NEW p \in Pairs PROVE InOrder(p)'
    <3>1. PICK n \in Nat : n = Len(core[p])
      BY <1>3
    <3>2. CASE x.xd /\ x.pair = p
      <4>1. core'[p] = Append(core[p], x.tag) /\ core[p] \in Seq(Tags)
        BY <1>3, <2>4, <2>5, <3>2
      <4>2. Len(core'[p]) = n + 1 /\ core'[p][n + 1] = x.tag /\ \A r \in 1 .. n : core'[p][r] = core[p][r]
        BY <2>4, <3>1, <4>1
      <4>3. \A r \in Nat, t \in Tags : InCore(p, r, t)' <=> InCore(p, r, t) \/ (r = n + 1 /\ t = x.tag)
        BY <3>1, <4>2 DEF InCore
      <4>4. ASSUME NEW r \in Nat, NEW t \in Tags
            PROVE  InCmds(p, r, t) <=> InCmds(p, r, t)' \/ (r = n + 1 /\ t = x.tag)
        <5>1. ASSUME InCmds(p, r, t) PROVE InCmds(p, r, t)' \/ (r = n + 1 /\ t = x.tag)
          <6>1. PICK j \in 1 .. m + 1 : r = n + j /\ cmds[j].xd /\ cmds[j].pair = p /\ t = cmds[j].tag
            BY <2>2, <3>1, <5>1 DEF InCmds
          <6>2. CASE j = 1
            BY <2>1, <6>1, <6>2
          <6>3. CASE j # 1
            <7>1. j - 1 \in 1 .. m /\ r = n + 1 + (j - 1) /\ (j - 1) + 1 = j
              BY <6>1, <6>3
            <7>2. cmds'[j - 1] = cmds[j]
              BY <2>3, <7>1
            <7> QED
              BY <2>3, <4>2, <6>1, <7>1, <7>2 DEF InCmds
          <6> QED
            BY <6>2, <6>3
        <5>2. ASSUME InCmds(p, r, t)' PROVE InCmds(p, r, t)
          <6>1. PICK j \in 1 .. m : r = n + 1 + j /\ cmds'[j].xd /\ cmds'[j].pair = p /\ t = cmds'[j].tag
            BY <2>3, <4>2, <5>2 DEF InCmds
          <6>2. j + 1 \in 1 .. m + 1 /\ r = n + (j + 1) /\ cmds'[j] = cmds[j + 1]
            BY <2>3, <6>1
          <6> QED
            BY <2>2, <3>1, <6>1, <6>2 DEF InCmds
        <5>3. ASSUME r = n + 1, t = x.tag PROVE InCmds(p, r, t)
          BY <2>1, <2>2, <3>1, <3>2, <5>3 DEF InCmds
        <5> QED
          BY <5>1, <5>2, <5>3
      <4>5. \A r \in Nat, t \in Tags : ItemAt(p, r, t)' <=> ItemAt(p, r, t)
        BY <1>6, <4>3, <4>4 DEF ItemAt
      <4> QED
        BY <1>4, <1>5, <4>5, SameLine
    <3>3. CASE ~(x.xd /\ x.pair = p)
      <4>1. core'[p] = core[p]
        BY <1>3, <2>4, <2>5, <3>3
      <4> DEFINE rho == [r \in Nat |-> IF r <= n THEN r ELSE r - 1]
      <4>2. rho \in [Nat -> Nat] /\ \A r \in Nat : rho[r] = IF r <= n THEN r ELSE r - 1
        OBVIOUS
      <4> HIDE DEF rho
      <4>3. \A r \in Nat, t \in Tags : (InCore(p, r, t)' <=> InCore(p, r, t)) /\ (InCore(p, r, t) => r <= n)
        BY <3>1, <4>1 DEF InCore
      <4>4. ASSUME NEW r \in Nat, NEW t \in Tags, InCmds(p, r, t)
            PROVE  r > n + 1 /\ InCmds(p, r - 1, t)'
        <5>1. PICK j \in 1 .. m + 1 : r = n + j /\ cmds[j].xd /\ cmds[j].pair = p /\ t = cmds[j].tag
          BY <2>2, <3>1, <4>4 DEF InCmds
        <5>2. j # 1
          BY <2>1, <3>3, <5>1
        <5>3. j - 1 \in 1 .. m /\ r - 1 = n + (j - 1) /\ (j - 1) + 1 = j /\ r > n + 1
          BY <5>1, <5>2
        <5>4. cmds'[j - 1] = cmds[j]
          BY <2>3, <5>3
        <5> QED
          BY <2>3, <3>1, <4>1, <5>1, <5>3, <5>4 DEF InCmds
      <4>5. ASSUME NEW s \in Nat, NEW t \in Tags, InCmds(p, s, t)'
            PROVE  s > n /\ InCmds(p, s + 1, t)
        <5>1. PICK j \in 1 .. m : s = n + j /\ cmds'[j].xd /\ cmds'[j].pair = p /\ t = cmds'[j].tag
          BY <2>3, <3>1, <4>1, <4>5 DEF InCmds
        <5>2. j + 1 \in 1 .. m + 1 /\ s + 1 = n + (j + 1) /\ cmds'[j] = cmds[j + 1] /\ s > n
          BY <2>3, <5>1
        <5> QED
          BY <2>2, <3>1, <5>1, <5>2 DEF InCmds
      <4>6. ASSUME NEW r \in Nat, NEW s \in Nat, NEW t \in Tags, ItemAt(p, r, t), s = rho[r]
            PROVE  ItemAt(p, s, t)'
        <5>1. CASE InCore(p, r, t)
          BY <4>2, <4>3, <4>6, <5>1 DEF ItemAt
        <5>2. CASE InCmds(p, r, t)
          <6>1. s = r - 1
            BY <4>2, <4>4, <4>6, <5>2
          <6> QED
            BY <4>4, <5>2, <6>1 DEF ItemAt
        <5> QED
          BY <1>6, <4>6, <5>1, <5>2 DEF ItemAt
      <4>7. ASSUME NEW s \in Nat, NEW t \in Tags, ItemAt(p, s, t)'
            PROVE  \E r \in Nat : ItemAt(p, r, t) /\ s = rho[r]
        <5>1. CASE InCore(p, s, t)'
          BY <4>2, <4>3, <5>1 DEF ItemAt
        <5>2. CASE InCmds(p, s, t)'
          <6>1. s > n /\ InCmds(p, s + 1, t)
            BY <4>5, <5>2
          <6>2. s + 1 \in Nat /\ rho[s + 1] = s
            BY <4>2, <6>1
          <6> QED
            BY <6>1, <6>2 DEF ItemAt
        <5> QED
          BY <1>6, <4>7, <5>1, <5>2 DEF ItemAt
      <4>8. \A r, s \in Nat, t, u \in Tags :
              ItemAt(p, r, t) /\ ItemAt(p, s, u) => (r < s <=> rho[r] < rho[s])
        <5>1. \A r \in Nat, t \in Tags : ItemAt(p, r, t) => r <= n \/ r > n + 1
          BY <1>6, <4>3, <4>4 DEF ItemAt
        <5> QED
          BY <4>2, <5>1
      <4>9. InOrder(p) /\ Waiting(p)' = Waiting(p)
            /\ \A k \in DOMAIN Waiting(p), t \in Tags :
                 HasTag(Waiting(p)[k], t)' <=> HasTag(Waiting(p)[k], t)
        BY <1>4, <1>5
      <4> QED
        BY <4>2, <4>6, <4>7, <4>8, <4>9, Rerank
    <3> QED
      BY <3>2, <3>3
  <2> QED
    BY <2>3, <2>6, <2>7
<1>9. /\ cmds' \in Seq(Commands) /\ core' \in [Pairs -> Seq(Tags)]
      /\ \A p \in Pairs : InOrder(p)'
  BY <1>7, <1>8
<1>10. Contents' /\ Registering' /\ RoutedToIssuer' /\ QueuedOnce'
  BY <1>1, <1>4, <1>9 DEF Contents, Registering, RoutedToIssuer, QueuedOnce
<1>11. QueuedIds' = QueuedIds
  BY <1>4 DEF QueuedIds
<1>12. Opened'
  BY <1>1, <1>2, <1>11 DEF Opened
<1>13. Unseen
  BY <1>1, <1>2, <1>4 DEF Unseen
<1> QED
  BY <1>9, <1>10, <1>12, <1>13 DEF Routing

(* A command's tag is not NoTag.                                          *)
LEMMA TagIsNamed == NoTag \notin Tags
<1>1. \A c \in Clients, n \in 1 .. MaxCmds : <<c, n>> # <<>>
  <2> SUFFICES ASSUME NEW c, NEW n, <<c, n>> = <<>> PROVE FALSE
    OBVIOUS
  <2>1. Len(<<c, n>>) = 2 /\ Len(<<>>) = 0
    OBVIOUS
  <2> QED
    BY <2>1
<1> QED
  BY <1>1 DEF Tags, NoTag

(* A core finishes its oldest command: everything moves up by one.        *)
LEMMA WantRouting == ASSUME IInv, NEW q \in Pairs, SimWantResponse(q) PROVE Routing' /\ Unseen
<1> USE DEF IInv, IInvRouting
<1>1. /\ mpc = "loop" /\ mpc' = "register lock" /\ core[q] # <<>>
      /\ rsp' = [tag |-> Head(core[q]), pair |-> q] /\ core' = [core EXCEPT ![q] = Tail(@)]
      /\ UNCHANGED <<cmds, in_flight, wait_for_response, responses, got, handles, cmd, id, spc,
                     cmd_recieve_server_resp_lock>>
  BY DEF SimWantResponse, Cycle, file, globals, server, client
<1>2. \A i, t : HasTag(i, t)' <=> HasTag(i, t)
  BY <1>1, SimTags
<1>3. cmds \in Seq(Commands) /\ core \in [Pairs -> Seq(Tags)]
  BY DEF Contents
<1>4. \A p \in Pairs : Waiting(p)' = Waiting(p)
  BY <1>1 DEF Waiting, InFlightOf
<1>5. \A p \in Pairs : \A k \in DOMAIN Waiting(p), t \in Tags :
        HasTag(Waiting(p)[k], t)' <=> HasTag(Waiting(p)[k], t)
  BY <1>2, <1>4
<1>0. core[q] \in Seq(Tags) /\ core[q] # <<>>
  BY <1>1, <1>3
<1>6. PICK x \in Tags : x = Head(core[q]) /\ x = core[q][1]
  BY <1>0
<1>7. x # NoTag
  BY TagIsNamed
<1>8. PICK n \in Nat : Len(core[q]) = n + 1
  <2>1. Len(core[q]) \in Nat /\ Len(core[q]) # 0
    BY <1>0
  <2>2. Len(core[q]) - 1 \in Nat /\ Len(core[q]) = (Len(core[q]) - 1) + 1
    BY <2>1
  <2> QED
    BY <2>2
<1>9. /\ core'[q] \in Seq(Tags) /\ Len(core'[q]) = n /\ \A r \in 1 .. n : core'[q][r] = core[q][r + 1]
      /\ core' \in [Pairs -> Seq(Tags)] /\ \A p \in Pairs : p # q => core'[p] = core[p]
  <2>1. core'[q] = Tail(core[q]) /\ \A p \in Pairs : p # q => core'[p] = core[p]
    BY <1>1, <1>3
  <2>3. core'[q] \in Seq(Tags) /\ Len(core'[q]) = n /\ \A r \in 1 .. n : core'[q][r] = core[q][r + 1]
    BY <1>0, <1>8, <2>1
  <2> QED
    BY <1>1, <1>3, <2>1, <2>3
<1>10. InOrder(q)'
  <2> DEFINE rho == [r \in Nat |-> IF r = 0 THEN 0 ELSE r - 1]
  <2>1. rho \in [Nat -> Nat] /\ \A r \in Nat : r > 0 => rho[r] = r - 1
    OBVIOUS
  <2> HIDE DEF rho
  <2>2. \A r, t : ~Carried(q, r, t) /\ (Carried(q, r, t)' <=> r = 0 /\ t = x)
    BY <1>1, <1>6, <1>7 DEF Carried
  <2>3. ASSUME NEW r \in Nat, NEW t \in Tags, ItemAt(q, r, t) PROVE r > 0 /\ ItemAt(q, r - 1, t)'
    <3>1. CASE InCore(q, r, t)
      <4>1. r \in 1 .. n + 1 /\ t = core[q][r]
        BY <1>8, <3>1 DEF InCore
      <4>2. CASE r = 1
        BY <1>6, <2>2, <4>1, <4>2 DEF ItemAt
      <4>3. CASE r # 1
        <5>1. r - 1 \in 1 .. n /\ (r - 1) + 1 = r
          BY <4>1, <4>3
        <5>2. core'[q][r - 1] = core[q][r]
          BY <1>9, <5>1
        <5> QED
          BY <1>9, <4>1, <5>1, <5>2 DEF ItemAt, InCore
      <4> QED
        BY <4>2, <4>3
    <3>2. CASE InCmds(q, r, t)
      <4>1. PICK j \in 1 .. Len(cmds) : r = n + 1 + j /\ cmds[j].xd /\ cmds[j].pair = q /\ t = cmds[j].tag
        BY <1>8, <3>2 DEF InCmds
      <4>2. r - 1 = n + j /\ r > 0
        BY <4>1
      <4>3. InCmds(q, r - 1, t)'
        BY <1>1, <1>9, <4>1, <4>2 DEF InCmds
      <4> QED
        BY <4>2, <4>3 DEF ItemAt
    <3> QED
      BY <2>2, <2>3, <3>1, <3>2 DEF ItemAt
  <2>4. ASSUME NEW s \in Nat, NEW t \in Tags, ItemAt(q, s, t)' PROVE ItemAt(q, s + 1, t)
    <3>1. CASE Carried(q, s, t)'
      <4>1. s + 1 \in 1 .. Len(core[q]) /\ t = core[q][s + 1]
        BY <1>6, <1>8, <2>2, <3>1
      <4> QED
        BY <4>1 DEF ItemAt, InCore
    <3>2. CASE InCore(q, s, t)'
      <4>1. s \in 1 .. n /\ t = core[q][s + 1]
        BY <1>9, <3>2 DEF InCore
      <4>2. s + 1 \in 1 .. Len(core[q])
        BY <1>8, <4>1
      <4> QED
        BY <4>1, <4>2 DEF ItemAt, InCore
    <3>3. CASE InCmds(q, s, t)'
      <4>1. PICK j \in 1 .. Len(cmds) : s = n + j /\ cmds[j].xd /\ cmds[j].pair = q /\ t = cmds[j].tag
        BY <1>1, <1>9, <3>3 DEF InCmds
      <4>2. s + 1 = (n + 1) + j
        BY <4>1
      <4>3. InCmds(q, s + 1, t)
        BY <1>8, <4>1, <4>2 DEF InCmds
      <4> QED
        BY <4>3 DEF ItemAt
    <3> QED
      BY <2>4, <3>1, <3>2, <3>3 DEF ItemAt
  <2>5. \A r, s \in Nat, t \in Tags : ItemAt(q, r, t) /\ s = rho[r] => ItemAt(q, s, t)'
    BY <2>1, <2>3
  <2>6. \A s \in Nat, t \in Tags : ItemAt(q, s, t)' => \E r \in Nat : ItemAt(q, r, t) /\ s = rho[r]
    <3> SUFFICES ASSUME NEW s \in Nat, NEW t \in Tags, ItemAt(q, s, t)'
                 PROVE  \E r \in Nat : ItemAt(q, r, t) /\ s = rho[r]
      OBVIOUS
    <3>1. s + 1 \in Nat /\ rho[s + 1] = s
      BY <2>1
    <3> QED
      BY <2>4, <3>1
  <2>7. \A r, s \in Nat, t, u \in Tags :
          ItemAt(q, r, t) /\ ItemAt(q, s, u) => (r < s <=> rho[r] < rho[s])
    BY <2>1, <2>3
  <2>8. InOrder(q) /\ Waiting(q)' = Waiting(q)
        /\ \A k \in DOMAIN Waiting(q), t \in Tags :
             HasTag(Waiting(q)[k], t)' <=> HasTag(Waiting(q)[k], t)
    BY <1>4, <1>5
  <2> QED
    BY <2>1, <2>5, <2>6, <2>7, <2>8, Rerank
<1>11. ASSUME NEW p \in Pairs, p # q PROVE InOrder(p)'
  <2>1. \A r \in Nat, t \in Tags : ItemAt(p, r, t)' <=> ItemAt(p, r, t)
    <3>1. core'[p] = core[p] /\ cmds' = cmds
      BY <1>1, <1>9, <1>11
    <3>2. \A r, t : ~Carried(p, r, t) /\ ~Carried(p, r, t)'
      BY <1>1, <1>11 DEF Carried
    <3> QED
      BY <3>1, <3>2 DEF ItemAt, InCore, InCmds
  <2>2. InOrder(p) /\ Waiting(p)' = Waiting(p)
        /\ \A k \in DOMAIN Waiting(p), t \in Tags :
             HasTag(Waiting(p)[k], t)' <=> HasTag(Waiting(p)[k], t)
    BY <1>4, <1>5
  <2> QED
    BY <2>1, <2>2, SameLine
<1>12. rsp' \in [tag : Tags \cup {NoTag}, pair : Pairs] /\ rsp'.tag # NoTag
  BY <1>1, <1>6, <1>7
<1>13. Contents'
  BY <1>1, <1>9, <1>12 DEF Contents
<1>14. Registering' /\ RoutedToIssuer' /\ QueuedOnce'
  <2>1. Registering'
    BY <1>1, <1>12 DEF Registering
  <2>2. RoutedToIssuer'
    BY <1>1 DEF RoutedToIssuer
  <2>3. QueuedOnce'
    BY <1>4 DEF QueuedOnce
  <2> QED
    BY <2>1, <2>2, <2>3
<1>15. QueuedIds' = QueuedIds
  BY <1>4 DEF QueuedIds
<1>16. Opened'
  BY <1>1, <1>2, <1>15 DEF Opened
<1>17. Unseen
  BY <1>1, <1>2, <1>4 DEF Unseen
<1> QED
  BY <1>10, <1>11, <1>13, <1>14, <1>16, <1>17 DEF Routing

(* A response nobody asked for carries no command.                        *)
LEMMA WantBadRouting == ASSUME IInv, NEW q \in Pairs, SimWantBadResponse(q) PROVE Routing' /\ Unseen
<1> USE DEF IInv, IInvRouting
<1>1. /\ mpc = "loop" /\ mpc' = "register lock" /\ q \notin Cores
      /\ rsp' = [tag |-> NoTag, pair |-> q]
      /\ UNCHANGED <<core, cmds, in_flight, wait_for_response, responses, got, handles, cmd, id, spc,
                     cmd_recieve_server_resp_lock>>
  BY DEF SimWantBadResponse, Cycle, file, globals, server, client
<1>2. \A i, t : HasTag(i, t)' <=> HasTag(i, t)
  BY <1>1, SimTags
<1>3. \A p \in Pairs : Waiting(p)' = Waiting(p)
  BY <1>1 DEF Waiting, InFlightOf
<1>4. \A p \in Pairs : \A k \in DOMAIN Waiting(p), t \in Tags :
        HasTag(Waiting(p)[k], t)' <=> HasTag(Waiting(p)[k], t)
  BY <1>2, <1>3
<1>5. \A p \in Pairs, r \in Nat, t \in Tags : ItemAt(p, r, t)' <=> ItemAt(p, r, t)
  <2>1. \A p, r, t : ~Carried(p, r, t) /\ ~Carried(p, r, t)'
    BY <1>1 DEF Carried
  <2> QED
    BY <1>1, <2>1 DEF ItemAt, InCore, InCmds
<1>6. (\A p \in Pairs : InOrder(p)') /\ QueuedOnce' /\ QueuedIds' = QueuedIds
  BY <1>3, <1>4, <1>5, SameLines
<1>7. Contents' /\ Registering' /\ RoutedToIssuer'
  BY <1>1 DEF Contents, Registering, RoutedToIssuer
<1>8. Opened'
  BY <1>1, <1>2, <1>6 DEF Opened
<1>9. Unseen
  BY <1>1, <1>2, <1>3 DEF Unseen
<1> QED
  BY <1>6, <1>7, <1>8, <1>9 DEF Routing

(* A response of a core without commands in flight cannot be a command's. *)
LEMMA BadRouting == ASSUME IInv, RegisterBad PROVE Routing' /\ Unseen
<1> USE DEF IInv, IInvRouting
<1>1. /\ mpc = "register" /\ mpc' = "loop" /\ rsp.pair \notin DOMAIN in_flight
      /\ UNCHANGED <<rsp, core, cmds, in_flight, wait_for_response, responses, got, handles, cmd, id, spc,
                     cmd_recieve_server_resp_lock>>
  BY DEF RegisterBad, Cycle, file, server, client
<1>2. \A i, t : HasTag(i, t)' <=> HasTag(i, t)
  BY <1>1, SimTags
<1>3. \A p \in Pairs : Waiting(p)' = Waiting(p)
  BY <1>1 DEF Waiting, InFlightOf
<1>4. \A p \in Pairs : \A k \in DOMAIN Waiting(p), t \in Tags :
        HasTag(Waiting(p)[k], t)' <=> HasTag(Waiting(p)[k], t)
  BY <1>2, <1>3
<1>5. rsp.tag = NoTag
  <2> SUFFICES ASSUME rsp.tag # NoTag PROVE FALSE
    OBVIOUS
  <2>1. rsp.tag \in Tags /\ rsp.pair \in Pairs
    BY DEF Contents
  <2>2. ItemAt(rsp.pair, 0, rsp.tag)
    BY <1>1 DEF ItemAt, Carried
  <2>3. \E k \in DOMAIN Waiting(rsp.pair) : HasTag(Waiting(rsp.pair)[k], rsp.tag)
    BY <2>1, <2>2 DEF InOrder
  <2>4. Waiting(rsp.pair) = <<>>
    BY <1>1 DEF Waiting, InFlightOf
  <2> QED
    BY <2>3, <2>4
<1>6. \A p \in Pairs, r \in Nat, t \in Tags : ItemAt(p, r, t)' <=> ItemAt(p, r, t)
  <2>1. \A p, r, t : ~Carried(p, r, t) /\ ~Carried(p, r, t)'
    BY <1>1, <1>5 DEF Carried
  <2> QED
    BY <1>1, <2>1 DEF ItemAt, InCore, InCmds
<1>7. (\A p \in Pairs : InOrder(p)') /\ QueuedOnce' /\ QueuedIds' = QueuedIds
  BY <1>3, <1>4, <1>6, SameLines
<1>8. Contents' /\ Registering' /\ RoutedToIssuer'
  BY <1>1 DEF Contents, Registering, RoutedToIssuer
<1>9. Opened'
  BY <1>1, <1>2, <1>7 DEF Opened
<1>10. Unseen
  BY <1>1, <1>2, <1>3 DEF Unseen
<1> QED
  BY <1>7, <1>8, <1>9, <1>10 DEF Routing

(* Nothing comes before the first place.                                  *)
LEMMA FirstPlace == \A y \in Nat : ~(y < 0) /\ (y >= 1 /\ ~(1 < y) => y = 1)
OBVIOUS

(* The first element of a sequence.                                       *)
LEMMA FirstOf ==
  ASSUME NEW S, NEW w \in Seq(S), NEW k \in DOMAIN w
  PROVE  w # <<>> /\ 1 \in DOMAIN w /\ k \in Nat /\ k >= 1 /\ w[1] \in S /\ Head(w) = w[1]
<1>1. PICK n \in Nat : n = Len(w) /\ DOMAIN w = 1 .. n
  OBVIOUS
<1>2. k \in Nat /\ k >= 1 /\ n # 0 /\ 1 \in 1 .. n
  BY <1>1
<1> QED
  BY <1>1, <1>2

(* The response being registered belongs to the slot that waits longest.  *)
LEMMA OldestMatches ==
  ASSUME IInv, mpc \in {"register lock", "register", "notify"}, rsp.tag # NoTag
  PROVE  /\ rsp.pair \in Pairs /\ rsp.tag \in Tags /\ ItemAt(rsp.pair, 0, rsp.tag)
         /\ InFlightOf(rsp.pair) # <<>> /\ Waiting(rsp.pair) = InFlightOf(rsp.pair)
         /\ rsp.pair \in DOMAIN in_flight
         /\ Head(in_flight[rsp.pair]) = Waiting(rsp.pair)[1] /\ 1 \in DOMAIN Waiting(rsp.pair)
         /\ HasTag(Waiting(rsp.pair)[1], rsp.tag) /\ Waiting(rsp.pair)[1] \in Ids
<1> USE DEF IInv, IInvRouting
<1>1. rsp.tag \in Tags /\ rsp.pair \in Pairs
  BY DEF Contents
<1>2. ItemAt(rsp.pair, 0, rsp.tag)
  BY DEF ItemAt, Carried
<1>3. PICK p \in Pairs, x \in Tags : p = rsp.pair /\ x = rsp.tag
  BY <1>1
<1>4. PICK k \in DOMAIN Waiting(p) : HasTag(Waiting(p)[k], x)
  BY <1>2, <1>3 DEF InOrder
<1>5. /\ Waiting(p) \in Seq(Ids) /\ Waiting(p) = InFlightOf(p)
      /\ DOMAIN Waiting(p) = 1 .. Len(Waiting(p)) /\ Len(Waiting(p)) \in Nat
  BY WaitingType
<1>6. Waiting(p) # <<>> /\ 1 \in DOMAIN Waiting(p) /\ k \in Nat /\ k >= 1 /\ Waiting(p)[1] \in Ids
      /\ Head(Waiting(p)) = Waiting(p)[1]
  BY <1>4, <1>5, FirstOf
<1>7. PICK r \in Nat, t \in Tags : HasTag(Waiting(p)[1], t) /\ ItemAt(p, r, t)
  BY <1>6 DEF InOrder
<1>8. k = 1
  <2>1. 1 < k <=> r < 0
    <3>1. \A a, b \in DOMAIN Waiting(p), y, z \in Nat, t1, t2 \in Tags :
            /\ HasTag(Waiting(p)[a], t1) /\ ItemAt(p, y, t1)
            /\ HasTag(Waiting(p)[b], t2) /\ ItemAt(p, z, t2)
            => (a < b <=> y < z)
      BY DEF InOrder
    <3>2. ItemAt(p, 0, x) /\ 0 \in Nat
      BY <1>2, <1>3
    <3> QED
      BY <1>4, <1>6, <1>7, <3>1, <3>2
  <2>3. r \in Nat /\ k \in Nat /\ k >= 1
    BY <1>6
  <2> QED
    BY <2>1, <2>3, FirstPlace, Zenon
<1>9. p \in DOMAIN in_flight /\ InFlightOf(p) = in_flight[p]
  BY <1>5, <1>6 DEF InFlightOf
<1>10. Head(in_flight[p]) = Waiting(p)[1] /\ Waiting(p)[1] \in Ids
  BY <1>5, <1>6, <1>9
<1> QED
  BY <1>2, <1>3, <1>4, <1>5, <1>6, <1>8, <1>9, <1>10

(* A response is stored in the slot of its command.                       *)
LEMMA StoreRouting == ASSUME IInv, RegisterStore PROVE Routing' /\ Unseen
<1> USE DEF IInv, IInvRouting
<1>1. /\ mpc = "register" /\ mpc' = "notify" /\ rsp.pair \in DOMAIN in_flight
      /\ responses' = [responses EXCEPT ![Head(in_flight[rsp.pair])] = rsp.tag]
      /\ UNCHANGED <<rsp, core, cmds, in_flight, wait_for_response, got, handles, cmd, id, spc,
                     cmd_recieve_server_resp_lock>>
  BY DEF RegisterStore, OldestWaiter, Cycle, file, globals, server, client
<1>2. rsp.tag # NoTag
  BY <1>1 DEF Registering, Contents
<1>3. PICK p \in Pairs, x \in Tags, i \in Ids : p = rsp.pair /\ x = rsp.tag /\ i = Head(in_flight[rsp.pair])
  BY <1>1, <1>2, OldestMatches
<1>4. /\ InFlightOf(p) # <<>> /\ i = Waiting(p)[1] /\ 1 \in DOMAIN Waiting(p)
      /\ in_flight[rsp.pair] # <<>>
  BY <1>1, <1>2, <1>3, OldestMatches DEF InFlightOf
<1>5. i \in QueuedIds
  BY <1>4, QueuedDef
<1>6. responses \in [Ids -> Tags \cup {NoTag}]
  BY DEF Contents
<1>7. responses' \in [Ids -> Tags \cup {NoTag}] /\ \A j \in Ids : responses'[j] = IF j = i THEN x ELSE responses[j]
  BY <1>1, <1>3, <1>6
<1>8. \A j, t : HasTag(j, t)' <=> HasTag(j, t)
  BY <1>1, SimTags
<1>9. \A q \in Pairs : Waiting(q)' = Waiting(q)
  BY <1>1 DEF Waiting, InFlightOf
<1>10. \A q \in Pairs : \A k \in DOMAIN Waiting(q), t \in Tags :
         HasTag(Waiting(q)[k], t)' <=> HasTag(Waiting(q)[k], t)
  BY <1>8, <1>9
<1>11. \A q \in Pairs, r \in Nat, t \in Tags : ItemAt(q, r, t)' <=> ItemAt(q, r, t)
  <2>1. \A q, r, t : Carried(q, r, t)' <=> Carried(q, r, t)
    BY <1>1 DEF Carried
  <2> QED
    BY <1>1, <2>1 DEF ItemAt, InCore, InCmds
<1>12. (\A q \in Pairs : InOrder(q)') /\ QueuedOnce' /\ QueuedIds' = QueuedIds
  BY <1>9, <1>10, <1>11, SameLines
<1>13. Contents'
  BY <1>1, <1>7 DEF Contents
<1>14. Registering'
  BY <1>1, <1>2, <1>3, <1>4, <1>7 DEF Registering
<1>15. RoutedToIssuer'
  BY <1>1 DEF RoutedToIssuer
<1>16. Opened'
  <2> SUFFICES ASSUME NEW j \in Ids, ~wait_for_response[j]
               PROVE  HasTag(j, responses[j])' /\ j \notin QueuedIds'
    BY <1>1 DEF Opened
  <2>1. HasTag(j, responses[j]) /\ j \notin QueuedIds
    BY DEF Opened
  <2>2. responses'[j] = responses[j]
    BY <1>5, <1>7, <2>1
  <2> QED
    BY <1>8, <1>12, <2>1, <2>2
<1>17. Unseen
  <2>1. \A j \in Ids : ~wait_for_response[j] => responses'[j] = responses[j]
    BY <1>5, <1>7 DEF Opened
  <2> QED
    BY <1>1, <1>8, <1>9, <2>1 DEF Unseen
<1> QED
  BY <1>12, <1>13, <1>14, <1>15, <1>16, <1>17 DEF Routing

(* The first of a line leaves it together with its command.               *)
LEMMA DropFirst ==
  ASSUME NEW p \in Pairs, InOrder(p), Waiting(p) \in Seq(Ids), Waiting(p) # <<>>,
         Waiting(p)' = Tail(Waiting(p)),
         \A j, t : HasTag(j, t)' <=> HasTag(j, t),
         NEW x \in Tags, HasTag(Waiting(p)[1], x), ItemAt(p, 0, x),
         \A r \in Nat, t \in Tags : ItemAt(p, r, t)' <=> ItemAt(p, r, t) /\ r # 0
  PROVE  InOrder(p)'
<1>1. \A k, l \in DOMAIN Waiting(p), r, s \in Nat, t, u \in Tags :
       /\ HasTag(Waiting(p)[k], t) /\ ItemAt(p, r, t)
       /\ HasTag(Waiting(p)[l], u) /\ ItemAt(p, s, u)
       => (k < l <=> r < s)
  BY DEF InOrder
<1>2. /\ DOMAIN Waiting(p) = 1 .. Len(Waiting(p)) /\ Len(Waiting(p)) \in Nat /\ Len(Waiting(p)) # 0
      /\ DOMAIN Waiting(p)' = 1 .. Len(Waiting(p)) - 1
      /\ \A k \in 1 .. Len(Waiting(p)) - 1 : Waiting(p)'[k] = Waiting(p)[k + 1]
  OBVIOUS
<1>3. \A k \in DOMAIN Waiting(p)' : k + 1 \in DOMAIN Waiting(p) /\ 1 < k + 1 /\ k \in Nat
  BY <1>2
<1>4. 1 \in DOMAIN Waiting(p) /\ 0 \in Nat
  BY <1>2
<1>5. ASSUME NEW k \in DOMAIN Waiting(p)', NEW t \in Tags
      PROVE  HasTag(Waiting(p)[k], t)' <=> HasTag(Waiting(p)[k + 1], t)
  <2>1. PICK j : j = Waiting(p)[k + 1]
    OBVIOUS
  <2>2. Waiting(p)'[k] = j
    BY <1>2, <2>1
  <2> QED
    BY <2>1, <2>2
<1>6. \A k \in DOMAIN Waiting(p), r \in Nat, t \in Tags :
        HasTag(Waiting(p)[k], t) /\ ItemAt(p, r, t) => (1 < k <=> r # 0)
  BY <1>1, <1>4
<1>7. \A k \in DOMAIN Waiting(p)' :
        \E r \in Nat, t \in Tags : HasTag(Waiting(p)[k], t)' /\ ItemAt(p, r, t)'
  <2> SUFFICES ASSUME NEW k \in DOMAIN Waiting(p)'
               PROVE  \E r \in Nat, t \in Tags : HasTag(Waiting(p)[k], t)' /\ ItemAt(p, r, t)'
    OBVIOUS
  <2>1. PICK r \in Nat, t \in Tags : HasTag(Waiting(p)[k + 1], t) /\ ItemAt(p, r, t)
    BY <1>3 DEF InOrder
  <2>2. r # 0
    BY <1>3, <1>6, <2>1
  <2> QED
    BY <1>5, <2>1, <2>2
<1>8. \A r \in Nat, t \in Tags : ItemAt(p, r, t)' => \E k \in DOMAIN Waiting(p)' : HasTag(Waiting(p)[k], t)'
  <2> SUFFICES ASSUME NEW r \in Nat, NEW t \in Tags, ItemAt(p, r, t), r # 0
               PROVE  \E k \in DOMAIN Waiting(p)' : HasTag(Waiting(p)[k], t)'
    OBVIOUS
  <2>1. PICK l \in DOMAIN Waiting(p) : HasTag(Waiting(p)[l], t)
    BY DEF InOrder
  <2>2. 1 < l
    BY <1>6, <2>1
  <2>3. l - 1 \in DOMAIN Waiting(p)' /\ (l - 1) + 1 = l
    BY <1>2, <2>2
  <2>4. HasTag(Waiting(p)[l - 1], t)'
    BY <1>5, <2>1, <2>3
  <2> QED
    BY <2>3, <2>4
<1>9. ASSUME NEW k \in DOMAIN Waiting(p)', NEW l \in DOMAIN Waiting(p)', NEW r \in Nat, NEW s \in Nat,
             NEW t \in Tags, NEW u \in Tags,
             HasTag(Waiting(p)[k], t)', ItemAt(p, r, t)', HasTag(Waiting(p)[l], u)', ItemAt(p, s, u)'
      PROVE  k < l <=> r < s
  <2>1. HasTag(Waiting(p)[k + 1], t) /\ HasTag(Waiting(p)[l + 1], u) /\ ItemAt(p, r, t) /\ ItemAt(p, s, u)
    BY <1>5, <1>9
  <2>2. k + 1 < l + 1 <=> r < s
    BY <1>1, <1>3, <2>1
  <2> QED
    BY <1>3, <2>2
<1>10. \A k, l \in DOMAIN Waiting(p)', r, s \in Nat, t, u \in Tags :
         /\ HasTag(Waiting(p)[k], t)' /\ ItemAt(p, r, t)'
         /\ HasTag(Waiting(p)[l], u)' /\ ItemAt(p, s, u)'
         => (k < l <=> r < s)
  BY <1>9
<1> QED
  BY <1>7, <1>8, <1>10, Zenon DEF InOrder

(* Waking a client opens the slot that waits longest, which holds its     *)
(* response, and takes it off its line.                                   *)
LEMMA NotifyFacts ==
  ASSUME IInv, RegisterNotify
  PROVE  \E p \in Pairs, x \in Tags, i \in Ids :
           /\ p = rsp.pair /\ wait_for_response' = [wait_for_response EXCEPT ![i] = FALSE]
           /\ Waiting(p) \in Seq(Ids) /\ Waiting(p) # <<>> /\ Waiting(p)' = Tail(Waiting(p))
           /\ i = Waiting(p)[1] /\ 1 \in DOMAIN Waiting(p)
           /\ HasTag(i, x) /\ ItemAt(p, 0, x) /\ responses[i] = x
           /\ \A q \in Pairs : q # p => Waiting(q)' = Waiting(q)
<1> USE DEF IInv, IInvRouting
<1>1. /\ mpc = "notify" /\ mpc' = "pop" /\ UNCHANGED <<rsp, in_flight>>
      /\ wait_for_response' = [wait_for_response EXCEPT ![Head(in_flight[rsp.pair])] = FALSE]
  BY DEF RegisterNotify, OldestWaiter, Cycle, globals
<1>2. rsp.tag # NoTag /\ responses[Head(in_flight[rsp.pair])] = rsp.tag
  BY <1>1 DEF Registering
<1>3. PICK p \in Pairs, x \in Tags, i \in Ids : p = rsp.pair /\ x = rsp.tag /\ i = Head(in_flight[rsp.pair])
  BY <1>1, <1>2, OldestMatches
<1>4. /\ InFlightOf(p) # <<>> /\ Waiting(p) = InFlightOf(p) /\ i = Waiting(p)[1] /\ 1 \in DOMAIN Waiting(p)
      /\ HasTag(i, x) /\ ItemAt(p, 0, x) /\ responses[i] = x
  BY <1>1, <1>2, <1>3, OldestMatches
<1>5. Waiting(p)' = Tail(InFlightOf(p))
  BY <1>1, <1>3 DEF Waiting, InFlightOf
<1>6. Waiting(p) \in Seq(Ids)
  BY WaitingType
<1>7. \A q \in Pairs : q # p => Waiting(q)' = Waiting(q)
  BY <1>1, <1>3 DEF Waiting, InFlightOf
<1> QED
  BY <1>1, <1>3, <1>4, <1>5, <1>6, <1>7

(* The client is woken: its slot holds its response and leaves the line.  *)
LEMMA NotifyRouting == ASSUME IInv, RegisterNotify PROVE Routing'
<1> USE DEF IInv, IInvRouting
<1>1. /\ mpc = "notify" /\ mpc' = "pop"
      /\ wait_for_response' = [wait_for_response EXCEPT ![Head(in_flight[rsp.pair])] = FALSE]
      /\ UNCHANGED <<rsp, core, cmds, in_flight, responses, got, handles, cmd, id, spc,
                     cmd_recieve_server_resp_lock>>
  BY DEF RegisterNotify, OldestWaiter, Cycle, file, globals, server, client
<1>2. rsp.tag # NoTag /\ rsp.pair \in DOMAIN in_flight /\ in_flight[rsp.pair] # <<>>
      /\ responses[Head(in_flight[rsp.pair])] = rsp.tag
  BY <1>1 DEF Registering
<1>3. PICK p \in Pairs, x \in Tags, i \in Ids :
        /\ p = rsp.pair /\ wait_for_response' = [wait_for_response EXCEPT ![i] = FALSE]
        /\ Waiting(p) \in Seq(Ids) /\ Waiting(p) # <<>> /\ Waiting(p)' = Tail(Waiting(p))
        /\ i = Waiting(p)[1] /\ 1 \in DOMAIN Waiting(p)
        /\ HasTag(i, x) /\ ItemAt(p, 0, x) /\ responses[i] = x
        /\ \A q \in Pairs : q # p => Waiting(q)' = Waiting(q)
  BY NotifyFacts
<1>4. i = Waiting(p)[1] /\ 1 \in DOMAIN Waiting(p) /\ HasTag(i, x) /\ ItemAt(p, 0, x) /\ responses[i] = x
  BY <1>3
<1>5. \A j, t : HasTag(j, t)' <=> HasTag(j, t)
  BY <1>1, SimTags
<1>6. Waiting(p)' = Tail(Waiting(p)) /\ Waiting(p) \in Seq(Ids) /\ Waiting(p) # <<>>
  BY <1>3
<1>7. \A q \in Pairs : q # p => Waiting(q)' = Waiting(q)
  BY <1>3
<1>8. InOrder(p)'
  <2>1. \A r \in Nat, t \in Tags : ItemAt(p, r, t)' <=> ItemAt(p, r, t) /\ r # 0
    <3>1. \A r, t : ~Carried(p, r, t)' /\ (Carried(p, r, t) => r = 0)
      BY <1>1 DEF Carried
    <3>2. \A r, t : (InCore(p, r, t)' <=> InCore(p, r, t)) /\ (InCmds(p, r, t)' <=> InCmds(p, r, t))
      BY <1>1 DEF InCore, InCmds
    <3>3. core[p] \in Seq(Tags) /\ cmds \in Seq(Commands)
      BY DEF Contents
    <3>4. PICK n \in Nat, m \in Nat : n = Len(core[p]) /\ m = Len(cmds)
      BY <3>3
    <3>5. \A r, t : InCore(p, r, t) => r # 0
      BY <3>4 DEF InCore
    <3>6. \A r, t : InCmds(p, r, t) => r # 0
      BY <3>4 DEF InCmds
    <3> QED
      BY <3>1, <3>2, <3>5, <3>6 DEF ItemAt
  <2>2. HasTag(Waiting(p)[1], x) /\ ItemAt(p, 0, x) /\ InOrder(p)
    BY <1>4
  <2> QED
    BY <1>5, <1>6, <2>1, <2>2, DropFirst
<1>9. ASSUME NEW q \in Pairs, q # p PROVE InOrder(q)'
  <2>1. Waiting(q)' = Waiting(q) /\ InOrder(q)
    BY <1>7, <1>9
  <2>2. \A k \in DOMAIN Waiting(q), t \in Tags :
          HasTag(Waiting(q)[k], t)' <=> HasTag(Waiting(q)[k], t)
    BY <1>5, <2>1
  <2>3. \A r \in Nat, t \in Tags : ItemAt(q, r, t)' <=> ItemAt(q, r, t)
    <3>1. \A r, t : ~Carried(q, r, t) /\ ~Carried(q, r, t)'
      BY <1>1, <1>3, <1>9 DEF Carried
    <3> QED
      BY <1>1, <3>1 DEF ItemAt, InCore, InCmds
  <2> QED
    BY <2>1, <2>2, <2>3, SameLine
<1>10. /\ \A k \in DOMAIN Waiting(p)' : /\ k + 1 \in DOMAIN Waiting(p) /\ k + 1 # 1 /\ k \in Nat
                                        /\ Waiting(p)'[k] = Waiting(p)[k + 1]
  <2>1. PICK w \in Seq(Ids) : w = Waiting(p)
    BY <1>6
  <2>2. w # <<>> /\ Waiting(p)' = Tail(w)
    BY <1>6, <2>1
  <2>3. \A k \in DOMAIN Tail(w) : k + 1 \in DOMAIN w /\ k + 1 # 1 /\ k \in Nat /\ Tail(w)[k] = w[k + 1]
    BY <2>2
  <2> QED
    BY <2>1, <2>2, <2>3
<1>11. ASSUME NEW q \in Pairs, NEW k \in DOMAIN Waiting(q)'
       PROVE  \E l \in DOMAIN Waiting(q) : /\ Waiting(q)'[k] = Waiting(q)[l] /\ (q = p => l # 1)
                                           /\ l = IF q = p THEN k + 1 ELSE k
  BY <1>7, <1>10, <1>11
<1>12. QueuedOnce'
  <2> SUFFICES ASSUME NEW q1 \in Pairs, NEW q2 \in Pairs,
                      NEW k1 \in DOMAIN Waiting(q1)', NEW k2 \in DOMAIN Waiting(q2)',
                      Waiting(q1)'[k1] = Waiting(q2)'[k2]
               PROVE  q1 = q2 /\ k1 = k2
    BY DEF QueuedOnce
  <2>1. PICK l1 \in DOMAIN Waiting(q1) : /\ Waiting(q1)'[k1] = Waiting(q1)[l1]
                                         /\ l1 = IF q1 = p THEN k1 + 1 ELSE k1
    BY <1>11
  <2>2. PICK l2 \in DOMAIN Waiting(q2) : /\ Waiting(q2)'[k2] = Waiting(q2)[l2]
                                         /\ l2 = IF q2 = p THEN k2 + 1 ELSE k2
    BY <1>11
  <2>3. q1 = q2 /\ l1 = l2
    <3>1. Waiting(q1)[l1] = Waiting(q2)[l2]
      BY <2>1, <2>2
    <3>2. l1 \in DOMAIN Waiting(q1) /\ l2 \in DOMAIN Waiting(q2)
      OBVIOUS
    <3> QED
      BY <3>1, <3>2 DEF QueuedOnce
  <2>4. q1 = p => k1 \in Nat /\ k2 \in Nat
    BY <1>10, <2>3
  <2> QED
    BY <2>1, <2>2, <2>3, <2>4
<1>13. QueuedIds' \subseteq QueuedIds /\ i \notin QueuedIds'
  <2> SUFFICES ASSUME NEW j \in QueuedIds' PROVE j \in QueuedIds /\ j # i
    OBVIOUS
  <2>1. PICK q \in Pairs : \E k \in DOMAIN Waiting(q)' : Waiting(q)'[k] = j
    BY DEF QueuedIds
  <2>2. PICK l \in DOMAIN Waiting(q) : j = Waiting(q)[l] /\ (q = p => l # 1)
    BY <1>11, <2>1
  <2>3. j \in QueuedIds
    BY <2>2, QueuedDef
  <2>4. j # i
    BY <1>4, <2>2 DEF QueuedOnce
  <2> QED
    BY <2>3, <2>4
<1>14. wait_for_response \in [Ids -> BOOLEAN]
  BY DEF Contents
<1>15. /\ wait_for_response' \in [Ids -> BOOLEAN]
       /\ \A j \in Ids : j # i => wait_for_response'[j] = wait_for_response[j]
  BY <1>1, <1>3, <1>14
<1>16. Contents'
  BY <1>1, <1>15 DEF Contents
<1>17. Registering' /\ RoutedToIssuer'
  BY <1>1, <1>2 DEF Registering, RoutedToIssuer
<1>18. Opened'
  <2> SUFFICES ASSUME NEW j \in Ids, ~wait_for_response'[j]
               PROVE  HasTag(j, responses[j])' /\ j \notin QueuedIds'
    BY DEF Opened
  <2>1. CASE j = i
    BY <1>1, <1>4, <1>5, <1>13, <2>1
  <2>2. CASE j # i
    <3>1. HasTag(j, responses[j]) /\ j \notin QueuedIds
      BY <1>15, <2>2 DEF Opened
    <3> QED
      BY <1>1, <1>5, <1>13, <3>1
  <2> QED
    BY <2>1, <2>2
<1> QED
  BY <1>8, <1>9, <1>12, <1>16, <1>17, <1>18 DEF Routing

(* The slot is taken out of in_flight, which it had left in effect.       *)
LEMMA PopRouting == ASSUME IInv, RegisterPop PROVE Routing' /\ Unseen
<1> USE DEF IInv, IInvRouting
<1>1. /\ mpc = "pop" /\ mpc' = "loop"
      /\ in_flight' = [in_flight EXCEPT ![rsp.pair] = Tail(@)]
      /\ UNCHANGED <<rsp, core, cmds, wait_for_response, responses, got, handles, cmd, id, spc,
                     cmd_recieve_server_resp_lock>>
  BY DEF RegisterPop, Cycle, file, server, client
<1>2. rsp.pair \in DOMAIN in_flight /\ in_flight[rsp.pair] # <<>>
  BY <1>1 DEF Registering
<1>3. in_flight \in [DOMAIN in_flight -> Seq(Ids)] /\ DOMAIN in_flight \subseteq Cores
  BY DEF Contents
<1>4. in_flight' \in [DOMAIN in_flight -> Seq(Ids)] /\ DOMAIN in_flight' = DOMAIN in_flight
  <2>1. in_flight[rsp.pair] \in Seq(Ids)
    BY <1>2, <1>3
  <2>2. Tail(in_flight[rsp.pair]) \in Seq(Ids)
    BY <1>2, <2>1
  <2> QED
    BY <1>1, <1>3, <2>2
<1>5. \A p \in Pairs : Waiting(p)' = Waiting(p)
  <2> SUFFICES ASSUME NEW p \in Pairs PROVE Waiting(p)' = Waiting(p)
    OBVIOUS
  <2>1. Waiting(p)' = InFlightOf(p)'
    BY <1>1 DEF Waiting
  <2>2. CASE p = rsp.pair
    <3>1. in_flight'[p] = Tail(in_flight[p])
      BY <1>1, <1>2, <1>3, <2>2
    <3> QED
      BY <1>1, <1>2, <1>4, <2>1, <2>2, <3>1 DEF Waiting, InFlightOf
  <2>3. CASE p # rsp.pair
    <3>1. p \in DOMAIN in_flight => in_flight'[p] = in_flight[p]
      BY <1>1, <1>3, <2>3
    <3> QED
      BY <1>1, <1>4, <2>1, <2>3, <3>1 DEF Waiting, InFlightOf
  <2> QED
    BY <2>2, <2>3
<1>6. \A j, t : HasTag(j, t)' <=> HasTag(j, t)
  BY <1>1, SimTags
<1>7. \A q \in Pairs : \A k \in DOMAIN Waiting(q), t \in Tags :
         HasTag(Waiting(q)[k], t)' <=> HasTag(Waiting(q)[k], t)
  BY <1>5, <1>6
<1>8. \A q \in Pairs, r \in Nat, t \in Tags : ItemAt(q, r, t)' <=> ItemAt(q, r, t)
  <2>1. \A q, r, t : ~Carried(q, r, t)' /\ ~Carried(q, r, t)
    BY <1>1 DEF Carried
  <2> QED
    BY <1>1, <2>1 DEF ItemAt, InCore, InCmds
<1>9. (\A q \in Pairs : InOrder(q)') /\ QueuedOnce' /\ QueuedIds' = QueuedIds
  BY <1>5, <1>7, <1>8, SameLines
<1>10. Contents'
  BY <1>1, <1>3, <1>4 DEF Contents
<1>11. Registering' /\ RoutedToIssuer'
  BY <1>1 DEF Registering, RoutedToIssuer
<1>12. Opened'
  BY <1>1, <1>6, <1>9 DEF Opened
<1>13. Unseen
  BY <1>1, <1>5, <1>6 DEF Unseen
<1> QED
  BY <1>9, <1>10, <1>11, <1>12, <1>13 DEF Routing

-----------------------------------------------------------------------------
(* At the start nothing is on its way.                                    *)
LEMMA InitRouting == Init => IInvRouting
<1> SUFFICES ASSUME Init PROVE IInvRouting
  OBVIOUS
<1> USE DEF Init, InitFile
<1>1. Locks
  BY DEF Locks, Nobody
<1>2. (CHOOSE p \in Pairs : TRUE) \in Pairs
  <2>1. \E p \in Pairs : TRUE
    BY CoresArePairs
  <2> QED
    BY <2>1
<1>3. Contents
  <2>1. rsp \in [tag : Tags \cup {NoTag}, pair : Pairs]
    BY <1>2
  <2>2. cmds \in Seq(Commands) /\ core \in [Pairs -> Seq(Tags)]
    OBVIOUS
  <2>3. in_flight \in [DOMAIN in_flight -> Seq(Ids)] /\ DOMAIN in_flight \subseteq Cores
    OBVIOUS
  <2>4. wait_for_response \in [Ids -> BOOLEAN] /\ responses \in [Ids -> Tags \cup {NoTag}]
    OBVIOUS
  <2>5. got \in [Clients -> SUBSET (Tags \X (Tags \cup {NoTag}))]
    OBVIOUS
  <2> QED
    BY <2>1, <2>2, <2>3, <2>4, <2>5 DEF Contents
<1>4. Named
  BY ClientsAreNamed DEF Named, Nobody
<1>5. \A p \in Pairs : Waiting(p) = <<>>
  BY DEF Waiting, InFlightOf
<1>6. \A p \in Pairs : \A r, t : ~ItemAt(p, r, t)
  BY DEF ItemAt, Carried, InCore, InCmds
<1>7. \A p \in Pairs : InOrder(p)
  BY <1>5, <1>6 DEF InOrder
<1>8. QueuedOnce
  BY <1>5 DEF QueuedOnce
<1>9. Opened
  BY DEF Opened
<1>10. Registering /\ RoutedToIssuer
  BY DEF Registering, RoutedToIssuer
<1> QED
  BY <1>1, <1>3, <1>4, <1>7, <1>8, <1>9, <1>10 DEF IInvRouting

(* Every step keeps the inductive invariant.                              *)
LEMMA NextIInv == ASSUME IInv, [Next]_vars PROVE IInv'
<1>1. IInvSlots'
  BY NextSlots DEF IInv
<1>2. Locks' /\ Named'
  BY LocksStep, NamedStep
<1>3. Routing'
  <2>1. CASE \E c \in Clients : ClientStep(c) \/ ClientShutdown(c)
    BY <2>1, QuietRouting, AckRouting, ReceiveRouting DEF ClientStep
  <2>2. CASE ServerStep
    BY <2>2, QuietRouting, DeliverRouting DEF ServerStep
  <2>3. CASE SimStep
    BY <2>3, QuietRouting, FetchRouting, WantRouting, WantBadRouting, BadRouting, StoreRouting,
       NotifyRouting, PopRouting DEF SimStep
  <2>4. CASE UNCHANGED vars
    BY <2>4, QuietRouting
  <2> QED
    BY <2>1, <2>2, <2>3, <2>4 DEF Next
<1> QED
  BY <1>1, <1>2, <1>3 DEF IInv, IInvRouting, Routing

(* The inductive invariant holds throughout.                              *)
THEOREM Invariance == Spec => []IInv
<1>1. Init => IInv
  BY InitSlots, InitRouting DEF IInv
<1>2. IInv /\ [Next]_vars => IInv'
  BY NextIInv
<1> QED
  BY <1>1, <1>2, PTL DEF Spec

(* cmd_server.cc:101-112: no slot is handed out twice, and none is free   *)
(* while a command, the server or a client still uses it.                 *)
THEOREM SlotsExclusive == Spec => []SlotsNeverShared
<1>1. IInv => SlotsNeverShared
  <2> SUFFICES ASSUME IInv PROVE SlotsNeverShared
    OBVIOUS
  <2> USE DEF IInv
  <2>1. FreeIds \cap QueuedIds = {}
    BY QueuedFacts, QueuedDef
  <2>2. spc \in {"lock", "deliver", "reply"} => ServerIds \cap FreeIds = {}
    BY DEF IInvSlots, Slots, ServerIds, PendingIds
  <2> QED
    BY <2>1, <2>2 DEF SlotsNeverShared, IInvSlots, Slots
<1> QED
  BY <1>1, Invariance, PTL

(* cmd_server.cc:103: free_list is never read below its bottom, not even  *)
(* by a server that is told to quit.                                      *)
THEOREM FreeListSafe == Spec => []FreeListInBounds
<1>1. IInv => FreeListInBounds
  <2> SUFFICES ASSUME IInv, spc = "alloc" PROVE free_list_idx >= 0
    BY DEF FreeListInBounds
  <2> USE DEF IInv, IInvSlots
  <2>0. SUFFICES ASSUME free_list_idx < 0 PROVE FALSE
    BY SlotTypes
  <2>1. PendingIds = {}
    BY DEF PendingIds, Handshake
  <2>2. FreeIds = {}
    <3>1. free_list_idx \in Int
      BY SlotTypes
    <3>2. 0 .. free_list_idx = {}
      BY <2>0, <3>1
    <3> QED
      BY <3>2 DEF FreeIds
  <2>3. HeldIds = Ids
    BY <2>1, <2>2 DEF Slots
  <2> QED
    BY <2>3, NotAllHeld
<1> QED
  BY <1>1, Invariance, PTL

(* cmd_server.cc:161 and 206: a queued command that wants a response has  *)
(* a slot, and a core's response finds in_flight's line nonempty.         *)
THEOREM WaiterFound == Spec => []ResponseHasWaiter
<1>1. IInv => ResponseHasWaiter
  <2> SUFFICES ASSUME IInv PROVE ResponseHasWaiter
    OBVIOUS
  <2> USE DEF IInv
  <2>1. spc = "deliver" /\ ~quit /\ cmd.xd => id # NoId
    BY DEF IInvSlots, Told
  <2>2. mpc \in {"register lock", "register", "notify"} /\ rsp.tag # NoTag => InFlightOf(rsp.pair) # <<>>
    BY OldestMatches
  <2>3. mpc = "pop" => InFlightOf(rsp.pair) # <<>>
    BY DEF IInvRouting, Registering, InFlightOf
  <2> QED
    BY <2>1, <2>2, <2>3 DEF ResponseHasWaiter
<1> QED
  BY <1>1, Invariance, PTL

(* Although register_reponse pairs responses with commands by their order *)
(* alone, every response a client reads answers its own command.          *)
THEOREM ResponsesRouted == Spec => []RoutedToIssuer
<1>1. IInv => RoutedToIssuer
  BY DEF IInv, IInvRouting
<1> QED
  BY <1>1, Invariance, PTL

(* cmd_server.cc:101-163: until a shutdown is asked for, no client        *)
(* overwrites the command the server is working on.                       *)
THEOREM CommandKept == Spec => CommandStable
<1>1. ASSUME IInv, Next, ~quit, spc \in {"alloc", "lock", "deliver", "reply"} PROVE cmd' = cmd
  <2>1. Acking
    BY <1>1 DEF IInv, IInvSlots, Handshake
  <2>2. send_lock # Nobody
    BY <2>1, ClientsAreNamed DEF Acking, Nobody
  <2>3. CASE \E c \in Clients : ClientStep(c) \/ ClientShutdown(c)
    BY <2>2, <2>3 DEF ClientStep, ClientShutdown, ClientWrite, ClientWake, ClientAck, ClientReceive
  <2>4. CASE ServerStep \/ SimStep
    BY <2>4 DEF ServerStep, ServerStart, ServerWoken, ServerAllocate, ServerLock, ServerQuit,
       ServerDeliver, ServerReply, ServerRelease, SimStep, SimStop, SimWantCommand, SimLock, SimFetch,
       RegisterBad, RegisterStore, RegisterNotify, RegisterPop, SimWantResponse, SimWantBadResponse, file
  <2> QED
    BY <1>1, <2>3, <2>4 DEF Next
<1>2. IInv /\ [Next]_vars =>
        [~quit /\ spc \in {"alloc", "lock", "deliver", "reply"} => cmd' = cmd]_vars
  BY <1>1
<1> QED
  BY <1>2, Invariance, PTL DEF Spec, CommandStable

-----------------------------------------------------------------------------
(* Refinement of CommandService.                                          *)
Lines == [p \in Pairs |-> [k \in DOMAIN Waiting(p) |-> TagOf(Waiting(p)[k])]]
Open == {j \in Ids : ~wait_for_response[j]}
Answers == {<<TagOf(i), responses[i]>> : i \in Open}
Received == UNION {got[c] : c \in Clients}

(* A slot that was given to a command stands for that command.            *)
LEMMA TagOfIs == IInvSlots => \A i, t : HasTag(i, t) => TagOf(i) = t
<1> SUFFICES ASSUME IInvSlots, NEW i, NEW t, HasTag(i, t) PROVE TagOf(i) = t
  OBVIOUS
<1> DEFINE known == {h \in UNION {handles[c] : c \in Clients} : h.id = i}
<1>1. CASE known # {}
  <2>1. \E h \in known : TRUE
    BY <1>1
  <2>2. (CHOOSE h \in known : TRUE) \in known
    BY <2>1
  <2>3. PICK h \in known : TagOf(i) = h.tag
    BY <1>1, <2>2 DEF TagOf
  <2>4. HasTag(i, h.tag)
    BY DEF HasTag
  <2> QED
    BY <2>3, <2>4, TagFacts
<1>2. CASE known = {}
  <2>1. TagOf(i) = cmd.tag
    BY <1>2 DEF TagOf
  <2>2. ~\E c \in Clients : \E h \in handles[c] : h.id = i /\ h.tag = t
    BY <1>2
  <2> QED
    BY <2>1, <2>2 DEF HasTag
<1> QED
  BY <1>1, <1>2

(* The commands in the lines have names.                                  *)
LEMMA LinesHaveTags ==
  IInv => \A p \in Pairs : \A k \in DOMAIN Waiting(p) :
            HasTag(Waiting(p)[k], TagOf(Waiting(p)[k])) /\ TagOf(Waiting(p)[k]) \in Tags
<1> SUFFICES ASSUME IInv, NEW p \in Pairs, NEW k \in DOMAIN Waiting(p)
             PROVE  HasTag(Waiting(p)[k], TagOf(Waiting(p)[k])) /\ TagOf(Waiting(p)[k]) \in Tags
  OBVIOUS
<1>1. PICK t \in Tags : HasTag(Waiting(p)[k], t)
  BY QueuedFacts
<1>2. TagOf(Waiting(p)[k]) = t
  BY <1>1, TagOfIs DEF IInv
<1> QED
  BY <1>1, <1>2

(* What waits in an open slot is the response to the slot's command.      *)
LEMMA AnswersAre == IInv => Answers = {<<responses[i], responses[i]>> : i \in Open}
<1> SUFFICES ASSUME IInv PROVE Answers = {<<responses[i], responses[i]>> : i \in Open}
  OBVIOUS
<1>1. \A i \in Open : HasTag(i, responses[i])
  BY DEF IInv, IInvRouting, Opened, Open
<1>2. \A i \in Open : TagOf(i) = responses[i]
  BY <1>1, TagOfIs DEF IInv
<1> QED
  BY <1>2 DEF Answers

(* A step that leaves a line's slots and their commands alone.            *)
LEMMA LineKept ==
  ASSUME IInv, IInv', NEW p \in Pairs, Waiting(p)' = Waiting(p),
         \A k \in DOMAIN Waiting(p), t \in Tags :
           HasTag(Waiting(p)[k], t) => HasTag(Waiting(p)[k], t)'
  PROVE  Lines'[p] = Lines[p]
<1>1. (IInvSlots => \A i, t : HasTag(i, t) => TagOf(i) = t)'
  BY TagOfIs, PTL
<1>2. IInvSlots'
  BY DEF IInv
<1>3. ASSUME NEW k \in DOMAIN Waiting(p) PROVE TagOf(Waiting(p)[k])' = TagOf(Waiting(p)[k])
  <2>1. PICK t \in Tags : t = TagOf(Waiting(p)[k]) /\ HasTag(Waiting(p)[k], t)
    BY LinesHaveTags
  <2>2. HasTag(Waiting(p)[k], t)'
    BY <2>1
  <2> QED
    BY <1>1, <1>2, <2>1, <2>2
<1>4. Lines'[p] = [k \in DOMAIN Waiting(p)' |-> TagOf(Waiting(p)[k])']
  BY DEF Lines
<1> QED
  BY <1>3, <1>4 DEF Lines

(* Nothing is promised at the start.                                      *)
LEMMA InitService == Init => Service!Init
<1> SUFFICES ASSUME Init PROVE Service!Init
  OBVIOUS
<1>1. Lines = [p \in Pairs |-> <<>>]
  <2>1. \A p \in Pairs : Waiting(p) = <<>>
    BY DEF Init, Waiting, InFlightOf
  <2>2. \A p \in Pairs : [k \in DOMAIN Waiting(p) |-> TagOf(Waiting(p)[k])] = <<>>
    BY <2>1
  <2> QED
    BY <2>2 DEF Lines
<1>2. Answers = {}
  BY DEF Init, InitFile, Answers, Open
<1>3. Received = {}
  BY DEF Init, Received
<1> QED
  BY <1>1, <1>2, <1>3 DEF Service!Init, Lines, Answers, Open, Received

(* Most steps are none of the service's.                                  *)
LEMMA Unnoticed == ASSUME IInv, IInv', Unseen PROVE UNCHANGED Service!vars
<1> USE DEF Unseen
<1>1. Lines' = Lines
  <2>1. ASSUME NEW p \in Pairs PROVE Lines'[p] = Lines[p]
    <3>1. Waiting(p)' = Waiting(p)
      OBVIOUS
    <3>2. \A k \in DOMAIN Waiting(p), t \in Tags : HasTag(Waiting(p)[k], t) => HasTag(Waiting(p)[k], t)'
      BY <3>1
    <3> QED
      BY <3>1, <3>2, LineKept
  <2> QED
    BY <2>1 DEF Lines
<1>2. Answers' = Answers
  <2>1. (IInv => Answers = {<<responses[i], responses[i]>> : i \in Open})'
    BY AnswersAre, PTL
  <2>2. Open' = Open
    BY DEF Open
  <2>3. Answers = {<<responses[i], responses[i]>> : i \in Open}
    BY AnswersAre
  <2>5. \A i \in Open : responses'[i] = responses[i]
    BY DEF Open
  <2>4. Answers' = {<<responses'[i], responses'[i]>> : i \in Open'}
    BY <2>1
  <2> QED
    BY <2>2, <2>3, <2>4, <2>5
<1>3. Received' = Received
  BY DEF Received
<1> QED
  BY <1>1, <1>2, <1>3 DEF Service!vars, Lines, Answers, Open, Received


(* ServerDeliver of a command that wants a response is Submit.            *)
LEMMA SubmitService == ASSUME IInv, IInv', ServerDeliver, cmd.xd PROVE Service!Next
<1>0. /\ (IInvSlots => \A i, t : HasTag(i, t) => TagOf(i) = t)'
      /\ (IInv => Answers = {<<responses[i], responses[i]>> : i \in Open})'
  BY TagOfIs, AnswersAre, PTL
<1>1. PICK q \in Pairs, i \in Ids, x \in Tags :
        /\ q = cmd.pair /\ i = id /\ x = cmd.tag
        /\ Waiting(q)' = Append(Waiting(q), i)
        /\ \A p \in Pairs : p # q => Waiting(p)' = Waiting(p)
        /\ \A j, t : HasTag(j, t)' <=> HasTag(j, t) \/ (j = i /\ t = x)
        /\ \A j, t : HasTag(j, t) => j # i /\ t # x
  BY DeliverFacts
<1>2. UNCHANGED <<wait_for_response, responses, got>> /\ ~quit /\ spc = "deliver"
  BY DEF ServerDeliver, Step, file, client
<1>4. \A j, t : HasTag(j, t)' => TagOf(j)' = t
  BY <1>0 DEF IInv
<1>5. \A p \in Pairs : \A k \in DOMAIN Waiting(p) :
        HasTag(Waiting(p)[k], TagOf(Waiting(p)[k])) /\ TagOf(Waiting(p)[k]) \in Tags
  BY LinesHaveTags
<1>6. Lines'[q] = Append(Lines[q], x)
  <2>1. PICK w \in Seq(Ids) : w = Waiting(q)
    BY WaitingType DEF IInv, IInvRouting
  <2>2. PICK n \in Nat : n = Len(w) /\ DOMAIN w = 1 .. n
    OBVIOUS
  <2>3. Waiting(q)' = Append(w, i)
    BY <1>1, <2>1
  <2>4. DOMAIN Append(w, i) = 1 .. n + 1 /\ Append(w, i)[n + 1] = i /\ \A k \in 1 .. n : Append(w, i)[k] = w[k]
    BY <2>2
  <2>5. ASSUME NEW k \in 1 .. n PROVE TagOf(Waiting(q)[k])' = TagOf(Waiting(q)[k])
    <3>1. PICK j, t : j = w[k] /\ t = TagOf(Waiting(q)[k]) /\ HasTag(j, t)
      BY <1>5, <2>1, <2>2
    <3>2. HasTag(j, t)'
      BY <1>1, <3>1
    <3>3. TagOf(j)' = t
      BY <1>4, <3>2
    <3>4. Waiting(q)'[k] = j
      BY <2>3, <2>4, <3>1
    <3> QED
      BY <3>1, <3>3, <3>4
  <2>6. TagOf(Waiting(q)[n + 1])' = x
    <3>1. HasTag(i, x)'
      BY <1>1
    <3>2. TagOf(i)' = x
      BY <1>4, <3>1
    <3>3. Waiting(q)'[n + 1] = i
      BY <2>3, <2>4
    <3> QED
      BY <3>2, <3>3
  <2>7. Lines'[q] = [k \in 1 .. n + 1 |-> TagOf(Waiting(q)[k])']
    BY <2>3, <2>4 DEF Lines
  <2>8. Lines[q] = [k \in 1 .. n |-> TagOf(Waiting(q)[k])]
    BY <2>1, <2>2 DEF Lines
  <2>9. Lines[q] \in Seq(Tags) /\ Len(Lines[q]) = n
    <3>1. Lines[q] \in [1 .. n -> Tags]
      BY <1>5, <2>1, <2>2, <2>8
    <3> QED
      BY <3>1
  <2>10. Append(Lines[q], x) = [k \in 1 .. n + 1 |-> IF k = n + 1 THEN x ELSE Lines[q][k]]
    BY <2>9
  <2>11. \A k \in 1 .. n + 1 : TagOf(Waiting(q)[k])' = IF k = n + 1 THEN x ELSE Lines[q][k]
    BY <2>5, <2>6, <2>8
  <2> QED
    BY <2>7, <2>10, <2>11
<1>7. \A p \in Pairs : p # q => Lines'[p] = Lines[p]
  <2> SUFFICES ASSUME NEW p \in Pairs, p # q PROVE Lines'[p] = Lines[p]
    OBVIOUS
  <2>1. Waiting(p)' = Waiting(p)
    BY <1>1
  <2>2. \A k \in DOMAIN Waiting(p), t \in Tags : HasTag(Waiting(p)[k], t) => HasTag(Waiting(p)[k], t)'
    BY <1>1, <2>1
  <2> QED
    BY <2>1, <2>2, LineKept
<1>8. Lines' = [Lines EXCEPT ![q] = Append(@, x)]
  BY <1>6, <1>7 DEF Lines
<1>9. Received' = Received
  BY <1>2 DEF Received
<1>10. Answers = {<<responses[j], responses[j]>> : j \in Open}
  BY AnswersAre
<1>11. Answers' = Answers
  <2>1. Open' = Open
    BY <1>2 DEF Open
  <2> QED
    BY <1>0, <1>2, <1>10, <2>1
<1>12. \A y \in Answers : y[1] # x
  <2>1. \A j \in Open : HasTag(j, responses[j])
    BY DEF IInv, IInvRouting, Opened, Open
  <2>2. \A j \in Open : responses[j] # x
    BY <1>1, <2>1
  <2> QED
    BY <1>10, <2>2
<1>13. \A y \in Received : y[1] # x
  <2> SUFFICES ASSUME NEW c \in Clients, NEW y \in got[c], y[1] = x PROVE FALSE
    BY DEF Received
  <2>1. send_lock \in Clients
    BY <1>2 DEF IInv, IInvSlots, Handshake, Acking
  <2>2. x = <<send_lock, sent[send_lock]>>
    BY <1>1, <2>1 DEF IInv, IInvRouting, Named
  <2>3. y[1][1] = c /\ (send_lock = c => y[1][2] < sent[c])
    BY DEF IInv, IInvRouting, Named
  <2>4. sent[c] \in Nat
    BY DEF IInv, IInvSlots, Types
  <2> QED
    BY <2>2, <2>3, <2>4
<1>14. \A p \in Pairs : \A k \in DOMAIN Lines[p] : Lines[p][k] # x
  <2> SUFFICES ASSUME NEW p \in Pairs, NEW k \in DOMAIN Lines[p] PROVE Lines[p][k] # x
    OBVIOUS
  <2>1. k \in DOMAIN Waiting(p) /\ Lines[p][k] = TagOf(Waiting(p)[k])
    BY DEF Lines
  <2> QED
    BY <1>1, <1>5, <2>1
<1>15. Service!Submit(x, q)
  <2>1. x \notin Service!Everything
    <3>1. Service!Everything = {y[1] : y \in Answers \cup Received}
                                 \cup UNION {{Lines[p][k] : k \in DOMAIN Lines[p]} : p \in Pairs}
      BY DEF Service!Everything, Lines, Answers, Open, Received
    <3> QED
      BY <1>12, <1>13, <1>14, <3>1
  <2> QED
    BY <1>8, <1>9, <1>11, <2>1 DEF Service!Submit, Lines, Answers, Open, Received
<1> QED
  BY <1>15 DEF Service!Next

(* RegisterNotify is Answer.                                              *)
LEMMA AnswerService == ASSUME IInv, IInv', RegisterNotify PROVE Service!Next
<1>0. /\ (IInvSlots => \A i, t : HasTag(i, t) => TagOf(i) = t)'
      /\ (IInv => Answers = {<<responses[i], responses[i]>> : i \in Open})'
  BY TagOfIs, AnswersAre, PTL
<1>1. PICK p \in Pairs, x \in Tags, i \in Ids :
        /\ p = rsp.pair /\ wait_for_response' = [wait_for_response EXCEPT ![i] = FALSE]
        /\ Waiting(p) \in Seq(Ids) /\ Waiting(p) # <<>> /\ Waiting(p)' = Tail(Waiting(p))
        /\ i = Waiting(p)[1] /\ 1 \in DOMAIN Waiting(p)
        /\ HasTag(i, x) /\ ItemAt(p, 0, x) /\ responses[i] = x
        /\ \A q \in Pairs : q # p => Waiting(q)' = Waiting(q)
  BY NotifyFacts
<1>2. UNCHANGED <<responses, got, handles, cmd, id, spc, cmd_recieve_server_resp_lock>>
  BY DEF RegisterNotify, client, server
<1>3. \A j, t : HasTag(j, t)' <=> HasTag(j, t)
  BY <1>2, SimTags
<1>4. \A j, t : (HasTag(j, t)' => TagOf(j)' = t) /\ (HasTag(j, t) => TagOf(j) = t)
  BY <1>0, TagOfIs DEF IInv
<1>5. \A q \in Pairs : \A k \in DOMAIN Waiting(q) :
        HasTag(Waiting(q)[k], TagOf(Waiting(q)[k])) /\ TagOf(Waiting(q)[k]) \in Tags
  BY LinesHaveTags
<1>6. Lines[p] # <<>> /\ Head(Lines[p]) = x /\ Lines'[p] = Tail(Lines[p])
  <2>1. PICK w \in Seq(Ids) : w = Waiting(p) /\ w # <<>> /\ w[1] = i
    BY <1>1
  <2>2. PICK n \in Nat : n + 1 = Len(w) /\ DOMAIN w = 1 .. n + 1
    <3>1. Len(w) \in Nat /\ Len(w) # 0 /\ DOMAIN w = 1 .. Len(w)
      BY <2>1
    <3>2. Len(w) - 1 \in Nat /\ (Len(w) - 1) + 1 = Len(w)
      BY <3>1
    <3> QED
      BY <3>1, <3>2
  <2>3. Waiting(p)' = Tail(w)
    BY <1>1, <2>1
  <2>4. DOMAIN Tail(w) = 1 .. n /\ \A k \in 1 .. n : Tail(w)[k] = w[k + 1]
    BY <2>1, <2>2
  <2>5. Lines[p] = [k \in 1 .. n + 1 |-> TagOf(Waiting(p)[k])]
    BY <2>1, <2>2 DEF Lines
  <2>6. Lines[p] \in Seq(Tags) /\ Len(Lines[p]) = n + 1 /\ Lines[p] # <<>>
    <3>1. Lines[p] \in [1 .. n + 1 -> Tags]
      BY <1>5, <2>1, <2>2, <2>5
    <3>2. Lines[p] \in Seq(Tags) /\ Len(Lines[p]) = n + 1
      BY <3>1
    <3> QED
      BY <3>2
  <2>7. ASSUME NEW k \in 1 .. n PROVE TagOf(Waiting(p)[k])' = Lines[p][k + 1]
    <3>0. k + 1 \in 1 .. n + 1
      OBVIOUS
    <3>1. PICK j, t : j = w[k + 1] /\ t = TagOf(Waiting(p)[k + 1]) /\ HasTag(j, t)
      BY <1>5, <2>1, <2>2, <3>0
    <3>2. TagOf(j)' = t
      BY <1>3, <1>4, <3>1
    <3>3. Waiting(p)'[k] = j
      BY <2>3, <2>4, <3>1
    <3>4. Lines[p][k + 1] = t
      BY <2>5, <3>0, <3>1
    <3> QED
      BY <3>2, <3>3, <3>4
  <2>8. Lines'[p] = [k \in 1 .. n |-> TagOf(Waiting(p)[k])']
    BY <2>3, <2>4 DEF Lines
  <2>9. Tail(Lines[p]) = [k \in 1 .. n |-> Lines[p][k + 1]]
    BY <2>6
  <2>10. Head(Lines[p]) = x
    <3>1. Head(Lines[p]) = TagOf(Waiting(p)[1])
      BY <2>5, <2>6
    <3> QED
      BY <1>1, <1>4, <3>1
  <2> QED
    BY <2>6, <2>7, <2>8, <2>9, <2>10
<1>7. \A q \in Pairs : q # p => Lines'[q] = Lines[q]
  <2> SUFFICES ASSUME NEW q \in Pairs, q # p PROVE Lines'[q] = Lines[q]
    OBVIOUS
  <2>1. Waiting(q)' = Waiting(q)
    BY <1>1
  <2>2. \A k \in DOMAIN Waiting(q), t \in Tags : HasTag(Waiting(q)[k], t) => HasTag(Waiting(q)[k], t)'
    BY <1>3, <2>1
  <2> QED
    BY <2>1, <2>2, LineKept
<1>8. Lines' = [Lines EXCEPT ![p] = Tail(@)]
  BY <1>6, <1>7 DEF Lines
<1>9. Received' = Received
  BY <1>2 DEF Received
<1>10. Open' = Open \cup {i}
  <2>1. wait_for_response \in [Ids -> BOOLEAN]
    BY DEF IInv, IInvRouting, Contents
  <2>2. \A j \in Ids : wait_for_response'[j] = IF j = i THEN FALSE ELSE wait_for_response[j]
    BY <1>1, <2>1
  <2> QED
    BY <2>2 DEF Open
<1>11. Answers' = Answers \cup {<<x, x>>}
  <2>1. Answers' = {<<responses[j], responses[j]>> : j \in Open'}
    BY <1>0, <1>2
  <2>2. Answers = {<<responses[j], responses[j]>> : j \in Open}
    BY AnswersAre
  <2>3. responses[i] = x
    BY <1>1
  <2> QED
    BY <1>10, <2>1, <2>2, <2>3
<1>12. Service!Answer(p)
  BY <1>6, <1>8, <1>9, <1>11 DEF Service!Answer, Lines, Answers, Open, Received
<1> QED
  BY <1>12 DEF Service!Next

(* ClientReceive is Receive.                                              *)
LEMMA ReceiveService == ASSUME IInv, IInv', NEW c \in Clients, ClientReceive(c) PROVE Service!Next
<1>0. (IInv => Answers = {<<responses[i], responses[i]>> : i \in Open})'
  BY AnswersAre, PTL
<1>1. PICK h \in handles[c] :
        /\ h.id \in Ids /\ ~wait_for_response[h.id]
        /\ wait_for_response' = [wait_for_response EXCEPT ![h.id] = TRUE]
        /\ got' = [got EXCEPT ![c] = @ \cup {<<h.tag, responses[h.id]>>}]
        /\ handles' = [handles EXCEPT ![c] = @ \ {h}]
        /\ UNCHANGED <<in_flight, rsp, mpc, responses, cmd, id, spc, cmd_recieve_server_resp_lock>>
  BY DEF ClientReceive, globals, server, sim
<1>2. /\ handles \in [Clients -> SUBSET [tag : Tags, id : Ids]]
      /\ got \in [Clients -> SUBSET (Tags \X (Tags \cup {NoTag}))]
      /\ wait_for_response \in [Ids -> BOOLEAN]
  BY DEF IInv, IInvSlots, Types, IInvRouting, Contents
<1>3. HasTag(h.id, h.tag) /\ HasTag(h.id, responses[h.id]) /\ h.id \notin QueuedIds
  BY <1>1 DEF HasTag, IInv, IInvRouting, Opened
<1>4. responses[h.id] = h.tag
  BY <1>3, TagFacts DEF IInv
<1>5. \A d \in Clients : handles'[d] = IF d = c THEN handles[c] \ {h} ELSE handles[d]
  BY <1>1, <1>2
<1>6. \A i, t : i # h.id => (HasTag(i, t) => HasTag(i, t)')
  <2>1. Placed' <=> Placed
    BY <1>1 DEF Placed
  <2>2. \A i, t : i # h.id => ((\E d \in Clients : \E g \in handles[d] : g.id = i /\ g.tag = t)
                                => (\E d \in Clients : \E g \in handles'[d] : g.id = i /\ g.tag = t))
    BY <1>5
  <2> QED
    BY <1>1, <2>1, <2>2 DEF HasTag
<1>7. \A p \in Pairs : Waiting(p)' = Waiting(p)
  BY <1>1 DEF Waiting, InFlightOf
<1>8. Lines' = Lines
  <2>1. ASSUME NEW p \in Pairs PROVE Lines'[p] = Lines[p]
    <3>1. Waiting(p)' = Waiting(p)
      BY <1>7
    <3>2. \A k \in DOMAIN Waiting(p) : Waiting(p)[k] # h.id
      BY <1>3, QueuedDef
    <3>3. \A k \in DOMAIN Waiting(p), t \in Tags : HasTag(Waiting(p)[k], t) => HasTag(Waiting(p)[k], t)'
      BY <1>6, <3>1, <3>2
    <3> QED
      BY <3>1, <3>3, LineKept
  <2> QED
    BY <2>1 DEF Lines
<1>9. Open' = Open \ {h.id}
  <2>1. \A j \in Ids : wait_for_response'[j] = IF j = h.id THEN TRUE ELSE wait_for_response[j]
    BY <1>1, <1>2
  <2> QED
    BY <2>1 DEF Open
<1>10. \A j \in Open : responses[j] = h.tag => j = h.id
  <2> SUFFICES ASSUME NEW j \in Open, responses[j] = h.tag PROVE j = h.id
    OBVIOUS
  <2>1. HasTag(j, h.tag)
    BY DEF Open, IInv, IInvRouting, Opened
  <2>2. CASE \E d \in Clients : \E g \in handles[d] : g.id = j /\ g.tag = h.tag
    <3>1. PICK d \in Clients : \E g \in handles[d] : g.id = j /\ g.tag = h.tag
      BY <2>2
    <3>2. PICK g \in handles[d] : g.id = j /\ g.tag = h.tag
      BY <3>1
    <3>3. d = c
      BY <3>2 DEF IInv, IInvRouting, Named
    <3>4. g = h
      BY <3>2, <3>3 DEF IInv, IInvRouting, Named
    <3> QED
      BY <3>2, <3>4
  <2>3. CASE Placed /\ j = id /\ h.tag = cmd.tag
    <3>1. send_lock \in Clients
      BY <2>3 DEF Placed, IInv, IInvSlots, Handshake, Acking
    <3>2. h.tag[1] = c /\ (send_lock = c => h.tag[2] < sent[c])
      BY DEF IInv, IInvRouting, Named
    <3>3. h.tag = <<send_lock, sent[send_lock]>>
      BY <2>3, <3>1 DEF IInv, IInvRouting, Named
    <3>4. sent[c] \in Nat
      BY DEF IInv, IInvSlots, Types
    <3> QED
      BY <3>2, <3>3, <3>4
  <2> QED
    BY <2>1, <2>2, <2>3 DEF HasTag
<1>11. PICK x : x = <<h.tag, h.tag>>
  OBVIOUS
<1>12. x \in Answers /\ Answers' = Answers \ {x}
  <2>1. Answers' = {<<responses[j], responses[j]>> : j \in Open'}
    BY <1>0, <1>1
  <2>2. Answers = {<<responses[j], responses[j]>> : j \in Open}
    BY AnswersAre
  <2>3. h.id \in Open
    BY <1>1 DEF Open
  <2> QED
    BY <1>4, <1>9, <1>10, <1>11, <2>1, <2>2, <2>3
<1>13. Received' = Received \cup {x}
  <2>1. \A d \in Clients : got'[d] = IF d = c THEN got[c] \cup {x} ELSE got[d]
    BY <1>1, <1>2, <1>4, <1>11
  <2> QED
    BY <2>1 DEF Received
<1>14. Service!Receive(x)
  BY <1>8, <1>12, <1>13 DEF Service!Receive, Lines, Answers, Open, Received
<1> QED
  BY <1>12, <1>14 DEF Service!Next, Answers, Open

(* Every step of the runtime is a step of the service or none.            *)
LEMMA NextService == ASSUME IInv, IInv', [Next]_vars PROVE [Service!Next]_(Service!vars)
<1>1. CASE \E c \in Clients : ClientStep(c) \/ ClientShutdown(c)
  BY <1>1, QuietRouting, AckRouting, Unnoticed, ReceiveService DEF ClientStep
<1>2. CASE ServerStep
  <2>1. CASE ServerDeliver
    BY <2>1, DeliverRouting, Unnoticed, SubmitService
  <2> QED
    BY <1>2, <2>1, QuietRouting, Unnoticed DEF ServerStep
<1>3. CASE SimStep
  <2>1. CASE RegisterNotify
    BY <2>1, AnswerService
  <2> QED
    BY <1>3, <2>1, QuietRouting, FetchRouting, WantRouting, WantBadRouting, BadRouting, StoreRouting,
       PopRouting, Unnoticed DEF SimStep
<1>4. CASE UNCHANGED vars
  BY <1>4, QuietRouting, Unnoticed
<1> QED
  BY <1>1, <1>2, <1>3, <1>4 DEF Next

(* The runtime gives its users the service CommandService describes: one  *)
(* line per core, answered in order, each command at most once and with   *)
(* the response computed for it.                                          *)
THEOREM ServiceImplemented == Spec => ImplementsService
<1>1. Init => Service!Init
  BY InitService
<1>2. IInv /\ IInv' /\ [Next]_vars => [Service!Next]_(Service!vars)
  BY NextService
<1> QED
  BY <1>1, <1>2, Invariance, PTL DEF Spec, ImplementsService, Service!Spec
=============================================================================
